CONSTANTS
  Requests = {1, 2}
  Jobs = {1, 2}
  Daemon = daemon
  None = none
  NoFile = nofile
  Torn = torn
  MaxDrafts = 1
  MaxFaults = 0
SPECIFICATION Spec
INVARIANT NeverTwice
CHECK_DEADLOCK FALSE
