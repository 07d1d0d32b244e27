\* The full protocol: two logins, three browsers, one restart.
SPECIFICATION FairSpec
CONSTANTS
  Requests = {r1, r2}
  Callbacks = {c1, c2, c3}
  Timeout = 1
  MaxTime = 2
  MaxRestarts = 1
INVARIANTS
  TypeOK
  SenderHeldOnce
  AnswerMatchesPage
PROPERTIES
  RedeemedLoginEnds
  ImplementsTokenRequest
\* Once every login ended and the clock stopped, the bot just waits.
CHECK_DEADLOCK FALSE
