\* One login whose user never follows the link.
SPECIFICATION FairSpec
CONSTANTS
  Requests = {r1}
  Callbacks = {c1}
  Timeout = 1
  MaxTime = 2
  MaxRestarts = 0
PROPERTIES
  AbandonedLoginAborts
CHECK_DEADLOCK FALSE
