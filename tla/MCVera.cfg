CONSTANTS
  Requests = {1, 2, 3}
  Jobs = {1, 2}
  Daemon = daemon
  None = none
  NoFile = nofile
  Torn = torn
  MaxDrafts = 2
  MaxFaults = 1
SPECIFICATION Spec
CONSTRAINT OverlapsAreFew
INVARIANT SubmittedOnce
INVARIANT SubmittedAsSeen
INVARIANT NotesHold
INVARIANT SessionHolds
CHECK_DEADLOCK FALSE
