------------------------------- MODULE MCVera -------------------------------
(***************************************************************************)
(* Small instances of VeraSession.                                         *)
(***************************************************************************)
EXTENDS VeraSession

(* The daemon works beside the first request only: its steps between those *)
(* of a request are what makes the state space large.                      *)
OverlapsAreFew == raced => \A t \in Requests : t > 1 => at[t] = "idle"
=============================================================================
