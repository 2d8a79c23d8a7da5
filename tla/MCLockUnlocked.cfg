CONSTANTS
  Daemons = {d1, d2, d3}
  NoDaemon = nobody
  Ops = {o}
  Files = {f1, f2, f3, f4}
  NoFile = nofile
  Unlocks <- AllUnlocks
  MayAge = TRUE
SPECIFICATION Spec
INVARIANT HeldFileNamesHolder
SYMMETRY LockSymmetry
