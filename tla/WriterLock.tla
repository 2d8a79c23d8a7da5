----------------------------- MODULE WriterLock -----------------------------
(***************************************************************************)
(* What the lock of the queue promises (ops.md, "enforce single-writer     *)
(* processing"): at most one daemon owns the queue; it takes it when       *)
(* nobody does, and gives it back when it stops or dies.                   *)
(***************************************************************************)
CONSTANTS Daemons, NoDaemon

VARIABLE owner      \* the daemon that may process the queue

Init == owner = NoDaemon

Acquire(d) == owner = NoDaemon /\ owner' = d

Release == owner # NoDaemon /\ owner' = NoDaemon

Next == Release \/ \E d \in Daemons : Acquire(d)

Spec == Init /\ [][Next]_owner
=============================================================================
