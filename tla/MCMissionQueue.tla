--------------------------- MODULE MCMissionQueue ---------------------------
(***************************************************************************)
(* Small instances of MissionQueue.  "read" runs freely, "write" and      *)
(* "mail" ask, "wipe" is denied.                                           *)
(***************************************************************************)
EXTENDS MissionQueue, TLC

MCSkills == {"read", "write", "mail", "wipe"}
MCAsk == {"write", "mail"}
MCDeny == {"wipe"}

Read == <<"read">>
ReadWrite == <<"read", "write">>
ReadWriteMail == <<"read", "write", "mail">>
ReadWipe == <<"read", "wipe">>
MCPlans == {Read, ReadWrite, ReadWriteMail, ReadWipe}

\* One job with a goal, one with a question for the advisory lane, one whose
\* payload does not parse, one with the hard gate; and the child of the goal.
Goal == {"goal"}
Advice == {"advice"}
Bad == {"bad"}
Hard == {"hard"}
Mixed == Goal \cup Advice
Family == Goal \cup Bad \cup {"child"}

GoalPlans == [j \in Jobs |-> IF j = "goal" THEN {ReadWrite, ReadWipe} ELSE {}]
TwoAsks == [j \in Jobs |-> {ReadWriteMail}]
\* Planning the child fails: it is there to be enqueued, failed and pruned.
FamilyPlans == [j \in Jobs |-> CASE j = "goal" -> {ReadWrite, Read}
                                 [] OTHER -> {}]
NoChildren == [j \in Jobs |-> {}]
OneChild == [j \in Jobs |-> IF j = "goal" THEN {"child"} ELSE {}]

OnePlan == [j \in Jobs |-> {ReadWrite}]

Anywhere == {"inbox", "pending", "root"}
InboxOnly == {"inbox"}

\* Daemons, and commands, differ in nothing.
ProcSymmetry == Permutations(Daemons) \cup Permutations(Ops)
=============================================================================
