CONSTANTS
  Daemons = {d1, d2, d3}
  NoDaemon = nobody
  Ops = {o}
  Files = {f1, f2}
  NoFile = nofile
  Unlocks <- NoUnlocks
  MayAge = TRUE
SPECIFICATION Spec
INVARIANT SingleWriter
PROPERTY LockImplemented
