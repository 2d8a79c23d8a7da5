CONSTANTS
  Daemons = {d1, d2}
  NoDaemon = nobody
  Ops = {o}
  Files = {f1, f2, f3}
  NoFile = nofile
  Unlocks <- SafeOnly
  MayAge = FALSE
SPECIFICATION Spec
INVARIANT SingleWriter
