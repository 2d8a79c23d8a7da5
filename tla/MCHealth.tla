------------------------------ MODULE MCHealth ------------------------------
(***************************************************************************)
(* A small instance of Health: two threads of the panel, two addresses.    *)
(***************************************************************************)
EXTENDS Health, TLC

Symmetry == Permutations(Workers)
=============================================================================
