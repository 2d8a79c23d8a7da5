---------------------------- MODULE MCAutomation ----------------------------
(***************************************************************************)
(* Small instances of Automation: a one-shot and a recurring definition.   *)
(***************************************************************************)
EXTENDS Automation

MCKind == [a \in Autos |-> IF a = 1 THEN "delay" ELSE "recurring_interval"]
MCSpan == [a \in Autos |-> 1]
=============================================================================
