\* One login that waits past its deadline before its user follows the link.
SPECIFICATION FairSpec
CONSTANTS
  Requests = {r1}
  Callbacks = {c1}
  Timeout = 1
  MaxTime = 2
  MaxRestarts = 0
PROPERTIES
  WelcomedLoginNeverTimesOut
CHECK_DEADLOCK FALSE
