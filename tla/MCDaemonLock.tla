---------------------------- MODULE MCDaemonLock ----------------------------
(* Small instances of DaemonLock.                                           *)
EXTENDS DaemonLock, TLC

NoUnlocks == {}
SafeOnly == {"safe"}
AllUnlocks == {"safe", "force"}

LockSymmetry == Permutations(Daemons) \cup Permutations(Files) \cup Permutations(Ops)
=============================================================================
