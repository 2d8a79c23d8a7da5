CONSTANTS
  Workers = {w1, w2}
  Ips = {1, 2}
  Threshold = 2
  Window = 0
  Lockout = 1
  Ttl = 1
  MaxTracked = 1
  Wishes = {"view"}
  Scopes = {"current_state"}
  MaxTime = 2
  MaxEvents = 3
  MaxRequests = 3
  MaxBesides = 1
  MaxBusy = 2
  MaxRaces = 1
  MaxFaults = 1
  Missing = missing
  Torn = torn
SPECIFICATION Spec
SYMMETRY Symmetry
INVARIANT SnapshotHolds
PROPERTY GuardHolds
PROPERTY FailureIsKept
CHECK_DEADLOCK FALSE
