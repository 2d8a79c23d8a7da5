----------------------------- MODULE PartsProofs -----------------------------
(***************************************************************************)
(* TLAPS proofs about the parts of MCParts: SkillGate, Intake, Planner,    *)
(* Hygiene, Speech and ChatLanes themselves, and what FileSkillsProofs and *)
(* VoiceProofs prove of theirs, each said of the properties that MCParts   *)
(* checks.  A behaviour of MCParts is one of its part, and the variables   *)
(* of the others rest.                                                     *)
(***************************************************************************)
EXTENDS MCParts, FiniteSetTheorems, SequenceTheorems, WellFoundedInduction, TLAPS

In(p) == part = p

-----------------------------------------------------------------------------
(* SkillGate *)
(* What let a step through holds of it, and each grant was given in a scope *)
(* an operator was shown.                                                   *)
LetThrough ==
    G!Runs =>
        /\ G!verdict # "deny"
        /\ basis \in {"allow", "approved", "grant", "auto"}
        /\ basis = "allow" => G!verdict = "allow"
        /\ basis = "grant" => G!Scope(mine.m) \in grants
        /\ basis = "auto" => mine.m.caps[1] = "settings"
GrantsWereAsked == \A g \in grants : \E s \in confirmed : s.fs = g.fs /\ s.net = g.net

(* A dry run says what is decided of the step, as long as it is known.      *)
DryRunsAgree ==
    /\ gate = "planned" => dryrun = "none"
    /\ dryrun # "none" => dryrun = G!Decide(mine.m, mine.pol, args)
    /\ gate = "pending" => G!verdict = "ask"

Flow == LetThrough /\ GrantsWereAsked /\ DryRunsAgree

USE DEF G!disk

(* Nothing has run, been granted or tried out before a process starts.      *)
LEMMA InitGate ==
  ASSUME MaxEdits \in Nat
  PROVE  G!Init => G!TypeOK /\ Flow
BY DEF G!Init, Flow, G!TypeOK, LetThrough, GrantsWereAsked, DryRunsAgree, G!Runs, G!Decisions

(* Every step leaves the state well typed, and no process goes on with a    *)
(* manifest the registry refuses.                                           *)
LEMMA GateTypeStep ==
  ASSUME MaxEdits \in Nat
  PROVE  G!TypeOK /\ [G!Next]_(G!vars) => G!TypeOK'
<1> SUFFICES ASSUME G!TypeOK, [G!Next]_(G!vars) PROVE G!TypeOK'
  OBVIOUS
<1> USE DEF G!TypeOK, G!Runs
<1>1. \A m, pol, a : G!Decide(m, pol, a) \in G!Decisions
  BY DEF G!Decide, G!Decisions
<1>2. CASE G!Start \/ G!Again
  BY <1>2 DEF G!Start, G!Again, G!Load
<1>3. CASE \E a \in G!Args : G!Plan(a)
  BY <1>3 DEF G!Plan
<1>4. CASE G!Simulate
  BY <1>1, <1>4 DEF G!Simulate, G!SimulatedDecision
<1>5. CASE G!Deny \/ G!Allow \/ G!Approved \/ G!Granted \/ G!AutoApproved \/ G!Park
  BY <1>5 DEF G!Deny, G!Allow, G!Approved, G!Granted, G!AutoApproved, G!Park, G!Stops, G!Through,
     G!Ready, G!Ungranted
<1>6. CASE \E yes \in BOOLEAN : G!Direct(yes)
  BY <1>6 DEF G!Direct
<1>7. CASE G!Edit
  BY <1>7 DEF G!Edit
<1>8. CASE \E always \in BOOLEAN : G!Approve(always)
  BY <1>8 DEF G!Approve
<1>9. CASE G!Run
  BY <1>9 DEF G!Run, G!Stops
<1>10. CASE UNCHANGED G!vars
  BY <1>10 DEF G!vars
<1> QED BY <1>2, <1>3, <1>4, <1>5, <1>6, <1>7, <1>8, <1>9, <1>10 DEF G!Next

(* Only Load and Approve change what a process works with, and they start   *)
(* it over; whatever lets a step through does so for its reason.            *)
LEMMA FlowStep == Flow /\ [G!Next]_(G!vars) => Flow'
<1> SUFFICES ASSUME Flow, [G!Next]_(G!vars) PROVE Flow'
  OBVIOUS
<1> USE DEF Flow, LetThrough, GrantsWereAsked, DryRunsAgree, G!Runs
<1>2. CASE G!Start \/ G!Again
  BY <1>2 DEF G!Start, G!Again, G!Load
<1>3. CASE \E a \in G!Args : G!Plan(a)
  BY <1>3 DEF G!Plan
<1>4. CASE G!Simulate
  BY <1>4 DEF G!Simulate, G!SimulatedDecision, G!verdict
<1>5. CASE G!Deny \/ G!Park
  BY <1>5 DEF G!Deny, G!Park, G!Ungranted, G!Stops, G!verdict
<1>6. CASE G!Allow \/ G!Approved \/ G!Granted \/ G!AutoApproved
  BY <1>6 DEF G!Allow, G!Approved, G!Granted, G!AutoApproved, G!Through, G!Ungranted, G!verdict
<1>7. CASE \E yes \in BOOLEAN : G!Direct(yes)
  <2>1. PICK yes \in BOOLEAN : G!Direct(yes)
    BY <1>7
  <2>2. UNCHANGED <<G!disk, mine, args, dryrun, grants>> /\ G!verdict # "deny" /\ gate = "ready"
    BY <2>1 DEF G!Direct
  <2>3. G!verdict' = G!verdict
    BY <2>2 DEF G!verdict
  <2>4. CASE G!verdict = "ask"
    BY <2>1, <2>2, <2>3, <2>4 DEF G!Direct
  <2>5. CASE G!verdict # "ask"
    BY <2>1, <2>2, <2>3, <2>5 DEF G!Direct, G!verdict, G!Enforce, G!Decide
  <2> QED BY <2>4, <2>5
<1>8. CASE G!Edit
  BY <1>8 DEF G!Edit, G!verdict
<1>9. CASE \E always \in BOOLEAN : G!Approve(always)
  BY <1>9 DEF G!Approve, G!Scope
<1>10. CASE G!Run
  BY <1>10 DEF G!Run, G!Stops, G!verdict
<1>11. CASE UNCHANGED G!vars
  BY <1>11 DEF G!vars, G!verdict
<1> QED BY <1>2, <1>3, <1>4, <1>5, <1>6, <1>7, <1>8, <1>9, <1>10, <1>11 DEF G!Next

(* What lets a step through is judged by every capability and by what the   *)
(* manifest declares.                                                       *)
LEMMA VerdictMeans ==
  ASSUME NEW m, NEW pol, NEW a, G!Enforce(m, pol, a) # "deny"
  PROVE  /\ \A c \in G!Caps(m) \cap G!PolicyFields : pol[c] # "deny"
         /\ a = "net" => m.net
         /\ G!Enforce(m, pol, a) = "allow" => ~G!AskAnyway(m, a)
BY DEF G!Enforce, G!Decide, G!CapDecision, G!OverBoundary

(* Nothing denied runs, and nothing that must be asked for runs unasked:    *)
(* the network in the sandbox, side effects of class C, or a grant beyond   *)
(* the scope it was given in, whatever is edited and approved meanwhile.    *)
THEOREM GateSound ==
  ASSUME MaxEdits \in Nat
  PROVE  G!Spec => []G!NothingUnasked
<1>1. Flow => G!DeniedNeverRuns
  BY VerdictMeans DEF Flow, LetThrough, G!DeniedNeverRuns, G!verdict
<1>2. Flow => G!NetworkIsDeclaredAndAsked
  BY VerdictMeans DEF Flow, LetThrough, G!NetworkIsDeclaredAndAsked, G!HasNetwork,
     G!AskAnyway, G!Truthy, G!verdict
<1>3. Flow => G!ClassCIsAsked
  BY VerdictMeans DEF Flow, LetThrough, G!ClassCIsAsked, G!SideEffectClass,
     G!AskAnyway, G!TouchesNetwork, G!verdict
<1>4. Flow => G!GrantsKeepTheirScope
  BY DEF Flow, LetThrough, GrantsWereAsked, G!GrantsKeepTheirScope, G!Scope
<1>5. G!TypeOK /\ Flow => G!NothingUnasked
  BY <1>1, <1>2, <1>3, <1>4 DEF G!NothingUnasked
<1> QED BY InitGate, GateTypeStep, FlowStep, <1>5, PTL DEF G!Spec

(* A dry run of a process and its real run decide alike: what the one       *)
(* called blocked the other does not let through, and what it called safe   *)
(* does not park.                                                           *)
THEOREM DryRunsAreHonest == G!Spec => G!DryRunIsHonest
<1> DEFINE A == /\ dryrun = "deny" => gate' # "let_through"
                /\ dryrun = "allow" => gate' # "pending"
<1>1. \A m, pol, a : /\ G!Decide(m, pol, a) = "deny" => G!Enforce(m, pol, a) = "deny"
                     /\ G!Decide(m, pol, a) = "allow" => G!Enforce(m, pol, a) # "ask"
  BY DEF G!Enforce
<1>2. ASSUME [G!Next]_(G!vars), gate' \in {"let_through", "pending"} PROVE dryrun' = dryrun
  <2>1. CASE G!Start \/ G!Again \/ \E a \in G!Args : G!Plan(a)
    BY <1>2, <2>1 DEF G!Start, G!Again, G!Load, G!Plan
  <2>2. CASE G!Deny \/ G!Allow \/ G!Approved \/ G!Granted \/ G!AutoApproved \/ G!Park \/ G!Run
    BY <2>2 DEF G!Deny, G!Allow, G!Approved, G!Granted, G!AutoApproved, G!Park, G!Ungranted,
       G!Run, G!Stops, G!Through
  <2>3. CASE G!Simulate
    BY <1>2, <2>3 DEF G!Simulate
  <2>4. CASE G!Edit \/ \E yes \in BOOLEAN : G!Direct(yes)
    BY <2>4 DEF G!Edit, G!Direct
  <2>5. CASE \E always \in BOOLEAN : G!Approve(always)
    BY <1>2, <2>5 DEF G!Approve
  <2>6. CASE UNCHANGED G!vars
    BY <2>6 DEF G!vars
  <2> QED BY <1>2, <2>1, <2>2, <2>3, <2>4, <2>5, <2>6 DEF G!Next
<1>3. ASSUME Flow', [G!Next]_(G!vars) PROVE A
  <2>1. /\ dryrun' = "deny" => G!verdict' = "deny"
        /\ dryrun' = "allow" => G!verdict' # "ask"
    BY <1>1, <1>3 DEF Flow, DryRunsAgree, G!verdict
  <2>2. /\ gate' = "let_through" => G!verdict' # "deny"
        /\ gate' = "pending" => G!verdict' = "ask"
    BY <1>3 DEF Flow, LetThrough, DryRunsAgree, G!Runs
  <2> QED BY <1>2, <1>3, <2>1, <2>2
<1>4. G!Init => Flow
  BY DEF G!Init, Flow, LetThrough, GrantsWereAsked, DryRunsAgree, G!Runs
<1> QED BY <1>3, <1>4, FlowStep, PTL DEF G!Spec, G!DryRunIsHonest

(* A behaviour that begins in the gates stays there and is one of its own;  *)
(* in any other, nothing of it changes.                                     *)
LEMMA GatesAlone ==
  /\ Init /\ In("gates") => G!Init
  /\ [Next]_vars /\ In("gates") => In("gates")' /\ [G!Next]_(G!vars)
  /\ [Next]_vars /\ ~In("gates") => ~In("gates")' /\ UNCHANGED G!vars
BY DEF Init, Next, vars, gates, G!vars, In

(* Nothing runs that was denied, and nothing that must be asked for runs    *)
(* unasked, for any number of edits of manifests and policies.              *)
THEOREM GatesHold == Spec => []NothingUnasked
<1>1. G!Spec => []G!NothingUnasked
  BY GateSound, PartBounds
<1>2. G!Init /\ [][G!Next]_(G!vars) => []G!NothingUnasked
  BY <1>1 DEF G!Spec
<1>3. Init /\ [][Next]_vars => [](In("gates") => G!NothingUnasked)
  BY <1>2, GatesAlone, PTL
<1>4. NothingUnasked <=> (In("gates") => G!NothingUnasked)
  BY DEF NothingUnasked, In
<1> QED BY <1>3, <1>4, PTL DEF Spec

(* A dry run tells what the real run of its process then does.              *)
THEOREM DryRunsHold == Spec => DryRunIsHonest
<1>1. G!Spec => G!DryRunIsHonest
  BY DryRunsAreHonest
<1>2. G!Init /\ [][G!Next]_(G!vars) => G!DryRunIsHonest
  BY <1>1 DEF G!Spec
<1> QED BY <1>2, GatesAlone, PTL DEF Spec, DryRunIsHonest, G!DryRunIsHonest

-----------------------------------------------------------------------------
(* Intake *)
USE DEF I!writer, I!Daemon

(* The file and what its writer was told go together; a job the daemon has  *)
(* begun with was readable by name; the helper opened only what is anchored.*)
Arrival ==
    /\ told = "accepted" <=> file = "whole"
    /\ via = "panel" => file # "torn"
    /\ phase # "watch" => I!Ready
    /\ I!UsesHelper /\ file # "none" => I!Anchored(payload)

(* What has been passed on the way to each phase.                           *)
Planned == {"parked", "plan", "rebuild", "check", "run", "failed", "done"}
Passed ==
    /\ phase \in Planned => I!WellFormed(I!Written)
    /\ phase \in {"parked", "rebuild"} => I!Resumed
    /\ phase \in {"run", "failed", "done"} /\ ~I!Resumed => I!Fits
    /\ I!UsesHelper => phase # "no_request"
    /\ phase \in {"watch", "read", "load", "parked", "rebuild"} => attempt = 0
    /\ phase = "plan" => attempt <= MaxReplans

(* Enrichment and normalisation leave alone what the lanes are chosen by.   *)
LEMMA Fieldwise ==
  ASSUME payload \in I!Fields
  PROVE  /\ \A f \in {"mission", "steps", "write", "org", "child", "approval"} :
                I!Written[f] = payload[f] /\ I!Normalized[f] = payload[f]
         /\ payload.goal # "none" => I!Normalized.goal = payload.goal
BY DEF I!Written, I!Normalized, I!Enriched, I!Fields

(* The anchors of the helper and the lanes of the daemon agree, and what    *)
(* enrichment adds to an anchored payload makes no other job of it.         *)
LEMMA AnchorsAreLanes ==
  ASSUME payload \in I!Fields, I!Anchored(payload)
  PROVE  /\ I!Lane(I!Normalized) = I!Lane(payload) /\ I!Lane(payload) # "none"
         /\ I!Kind = I!Detect(payload)
<1>1. /\ I!Normalized.mission = payload.mission /\ I!Normalized.steps = payload.steps
      /\ I!Normalized.write = payload.write /\ I!Normalized.org = payload.org
      /\ payload.goal # "none" => I!Normalized.goal = payload.goal
  BY Fieldwise
<1>2. /\ I!Lane(I!Normalized) = I!Lane(payload) /\ I!Lane(payload) # "none"
  BY <1>1 DEF I!Lane, I!Anchored
<1>3. I!Detect(I!Written) = I!Detect(payload)
  <2>1. CASE via = "drop"
    BY <2>1 DEF I!Written
  <2>2. CASE via # "drop"
    <3>1. I!Written.kind = I!Detect(payload)
      BY <2>2 DEF I!Written, I!Enriched, I!Fields
    <3>2. I!Detect(payload) # "none"
      BY DEF I!Detect
    <3> QED BY <3>1, <3>2 DEF I!Detect
  <2> QED BY <2>1, <2>2
<1>4. I!Kind = I!Detect(I!Written)
  <2>1. I!Normalized.kind = I!Detect(I!Written)
    BY DEF I!Normalized, I!Written, I!Enriched, I!Fields
  <2>2. I!Detect(I!Written) # "none"
    BY DEF I!Detect
  <2> QED BY <2>1, <2>2 DEF I!Kind, I!Detect
<1> QED BY <1>2, <1>3, <1>4

(* A job begins unread and unplanned.                                       *)
LEMMA InitIntake ==
  ASSUME Retries \in Nat, MaxReplans \in Nat
  PROVE  I!Init => I!TypeOK /\ Arrival /\ Passed
BY DEF I!Init, I!TypeOK, Arrival, Passed, Planned, I!Ready

(* Every step leaves the state well typed, with no more reads and plans     *)
(* than the two limits allow.                                               *)
LEMMA IntakeTypeStep ==
  ASSUME Retries \in Nat, MaxReplans \in Nat, I!TypeOK, Passed, [I!Next]_(I!vars)
  PROVE  I!TypeOK'
<1> USE DEF I!TypeOK
<1>1. CASE I!Submitting
  BY <1>1 DEF I!Submitting, I!Refuse, I!OpenInPlace, I!WriteTemporary, I!OpenTemporary, I!Close,
     I!Killed
<1>2. CASE I!Pick \/ I!Read
  BY <1>2 DEF I!Pick, I!Read
<1>3. CASE I!Load \/ I!Approve
  BY <1>3 DEF I!Load, I!Approve, I!Ends
<1>4. CASE \E skill \in I!Skills : I!Build(skill)
  BY <1>4 DEF I!Build, Passed
<1>5. CASE I!BuildFails \/ I!NoRequest \/ I!Check \/ I!RunEnds \/ \E b \in BOOLEAN : I!RunFails(b)
  BY <1>5 DEF I!BuildFails, I!NoRequest, I!Check, I!RunEnds, I!RunFails, I!Ends
<1>6. CASE I!BuildAgain
  BY <1>6 DEF I!BuildAgain, I!MayReplan
<1>7. CASE UNCHANGED I!vars
  BY <1>7 DEF I!vars
<1> QED BY <1>1, <1>2, <1>3, <1>4, <1>5, <1>6, <1>7 DEF I!Next

(* No step of a writer or of the daemon parts the file from what was told.  *)
LEMMA ArrivalStep ==
  ASSUME I!TypeOK, Arrival, [I!Next]_(I!vars)
  PROVE  Arrival'
<1> USE DEF Arrival, I!Ready, I!UsesHelper
<1>1. CASE I!Submitting
  BY <1>1 DEF I!Submitting, I!Refuse, I!OpenInPlace, I!WriteTemporary, I!OpenTemporary, I!Close,
     I!Killed, I!UsesHelper, I!TypeOK
<1>2. CASE I!Pick \/ I!Read
  BY <1>2 DEF I!Pick, I!Read
<1>3. CASE I!Load \/ I!Approve \/ I!BuildFails \/ I!NoRequest \/ I!Check \/ I!RunEnds
           \/ \E b \in BOOLEAN : I!RunFails(b)
  BY <1>3 DEF I!Load, I!Approve, I!BuildFails, I!NoRequest, I!Check, I!RunEnds, I!RunFails, I!Ends
<1>4. CASE I!BuildAgain \/ \E skill \in I!Skills : I!Build(skill)
  BY <1>4 DEF I!BuildAgain, I!Build
<1>5. CASE UNCHANGED I!vars
  BY <1>5 DEF I!vars
<1> QED BY <1>1, <1>2, <1>3, <1>4, <1>5 DEF I!Next

(* Only Load lets a job on towards its plan, and only Check lets its        *)
(* mission run, or the operator.                                            *)
LEMMA PassedStep ==
  ASSUME MaxReplans \in Nat, I!TypeOK, Arrival, Passed, [I!Next]_(I!vars)
  PROVE  Passed'
<1> USE DEF Passed, Planned
<1>0. payload \in I!Fields /\ attempt \in Nat
  BY DEF I!TypeOK, I!Payloads
<1>1. CASE I!Submitting
  <2>1. UNCHANGED <<payload, via, I!Daemon>>
    BY <1>1 DEF I!Submitting, I!Refuse, I!OpenInPlace, I!WriteTemporary, I!Close, I!Killed
  <2> QED BY <2>1 DEF I!WellFormed, I!Written, I!Resumed, I!Fits, I!Family, I!Kind, I!Normalized,
             I!UsesHelper
<1>2. ASSUME UNCHANGED I!writer
      PROVE  /\ I!WellFormed(I!Written)' = I!WellFormed(I!Written) /\ I!Resumed' = I!Resumed
             /\ I!Family' = I!Family /\ I!UsesHelper' = I!UsesHelper
  BY <1>2 DEF I!WellFormed, I!Written, I!Resumed, I!Family, I!Kind, I!Normalized, I!UsesHelper
<1>3. CASE I!Pick \/ I!Read
  BY <1>2, <1>3 DEF I!Pick, I!Read
<1>4. CASE I!Load
  BY <1>2, <1>4 DEF I!Load, I!Ends, I!Resumed
<1>5. CASE I!Approve
  BY <1>2, <1>5 DEF I!Approve, I!Ends
<1>6. CASE \E skill \in I!Skills : I!Build(skill)
  BY <1>2, <1>6 DEF I!Build
<1>7. CASE I!BuildFails
  BY <1>2, <1>7 DEF I!BuildFails, I!Ends
<1>8. CASE I!NoRequest
  <2>1. I!UsesHelper => I!Anchored(payload)
    BY <1>8 DEF I!NoRequest, Arrival, I!Ready
  <2>2. I!Lane(I!Normalized) = "none"
    BY <1>8 DEF I!NoRequest
  <2>3. ~I!UsesHelper
    BY <1>0, <2>1, <2>2, AnchorsAreLanes
  <2> QED BY <1>2, <1>8, <2>3 DEF I!NoRequest, I!Ends
<1>9. CASE I!BuildAgain
  BY <1>0, <1>2, <1>9 DEF I!BuildAgain, I!MayReplan
<1>10. CASE I!Check
  BY <1>2, <1>10 DEF I!Check, I!Ends, I!Fits
<1>11. CASE \E b \in BOOLEAN : I!RunFails(b)
  BY <1>2, <1>11 DEF I!RunFails, I!Ends, I!Fits
<1>12. CASE I!RunEnds
  BY <1>2, <1>12 DEF I!RunEnds, I!Ends, I!Fits
<1>13. CASE UNCHANGED I!vars
  BY <1>2, <1>13 DEF I!vars, I!Fits
<1> QED BY <1>1, <1>3, <1>4, <1>5, <1>6, <1>7, <1>8, <1>9, <1>10, <1>11, <1>12, <1>13 DEF I!Next

(* What the helper accepts can be run, enrichment makes no other job of a   *)
(* payload, and what runs is sound and, where the goal names one action, of *)
(* its family: for payloads of any size, any retries and any replans.       *)
THEOREM IntakeSound ==
  ASSUME Retries \in Nat, MaxReplans \in Nat
  PROVE  I!Spec => []I!WhatRunsIsSound
<1>1. I!TypeOK /\ Arrival /\ Passed => I!WhatRunsIsSound
  <2> SUFFICES ASSUME I!TypeOK, Arrival, Passed PROVE I!WhatRunsIsSound
    OBVIOUS
  <2>0. payload \in I!Fields
    BY DEF I!TypeOK, I!Payloads
  <2>1. I!AcceptedHasARequest
    BY DEF Passed, I!AcceptedHasARequest
  <2>2. I!EnrichmentKeepsTheLane
    BY <2>0, AnchorsAreLanes DEF I!EnrichmentKeepsTheLane
  <2>3. I!StartedIsSound
    BY <2>0, Fieldwise DEF Passed, Planned, I!StartedIsSound, I!WellFormed
  <2>4. I!GoalsKeepTheirFamily
    BY <2>0, Fieldwise DEF Passed, I!GoalsKeepTheirFamily, I!Fits, I!Family
  <2> QED BY <2>1, <2>2, <2>3, <2>4 DEF I!WhatRunsIsSound
<1> QED BY InitIntake, IntakeTypeStep, ArrivalStep, PassedStep, <1>1, PTL DEF I!Spec

(* Only the file of a writer that has not returned can be read to the end   *)
(* of the retries without success, and none of the panel's.                 *)
THEOREM UnparsableIsUnfinishedAlways ==
  ASSUME Retries \in Nat, MaxReplans \in Nat
  PROVE  I!Spec => I!UnparsableIsUnfinished
<1> DEFINE A == phase' = "unparsable" /\ phase # "unparsable" => told # "accepted" /\ via # "panel"
<1>1. ASSUME Arrival, [I!Next]_(I!vars) PROVE A
  <2>1. SUFFICES ASSUME phase' = "unparsable", phase # "unparsable"
                 PROVE  told # "accepted" /\ via # "panel"
    OBVIOUS
  <2>2. I!Read
    BY <1>1, <2>1 DEF I!Next, I!Submitting, I!Refuse, I!OpenInPlace, I!WriteTemporary, I!Close,
       I!Killed, I!Pick,
       I!Load, I!Approve, I!Build, I!BuildFails, I!NoRequest, I!BuildAgain, I!Check, I!RunFails,
       I!RunEnds, I!Ends, I!vars
  <2>3. file = "torn"
    BY <1>1, <2>1, <2>2 DEF I!Read, I!Reread, Arrival, I!Ready
  <2> QED BY <1>1, <2>3 DEF Arrival
<1> QED BY InitIntake, IntakeTypeStep, ArrivalStep, PassedStep, <1>1, PTL DEF I!Spec,
           I!UnparsableIsUnfinished

(* A behaviour that begins in the intake stays there and is one of its own; *)
(* in any other, nothing of it changes.                                     *)
LEMMA IntakeAlone ==
  /\ Init /\ In("intake") => I!Init
  /\ [Next]_vars /\ In("intake") => In("intake")' /\ [I!Next]_(I!vars)
  /\ [Next]_vars /\ ~In("intake") => ~In("intake")' /\ UNCHANGED I!vars
BY DEF Init, Next, vars, intake, I!vars, I!writer, In

(* What is accepted can be run, and what runs is sound and of the family    *)
(* its goal names, for payloads of any size, any retries and any replans.   *)
THEOREM IntakeHolds == Spec => []WhatRunsIsSound
<1>1. I!Spec => []I!WhatRunsIsSound
  BY IntakeSound, PartBounds
<1>2. I!Init /\ [][I!Next]_(I!vars) => []I!WhatRunsIsSound
  BY <1>1 DEF I!Spec
<1>3. Init /\ [][Next]_vars => [](In("intake") => I!WhatRunsIsSound)
  BY <1>2, IntakeAlone, PTL
<1>4. WhatRunsIsSound <=> (In("intake") => I!WhatRunsIsSound)
  BY DEF WhatRunsIsSound, In
<1> QED BY <1>3, <1>4, PTL DEF Spec

(* Only the file of a writer that has not returned can fail as unparsable.  *)
THEOREM ReadsHold == Spec => UnparsableIsUnfinished
<1>1. I!Spec => I!UnparsableIsUnfinished
  BY UnparsableIsUnfinishedAlways, PartBounds
<1>2. I!Init /\ [][I!Next]_(I!vars) => I!UnparsableIsUnfinished
  BY <1>1 DEF I!Spec
<1> QED BY <1>2, IntakeAlone, PTL DEF Spec, UnparsableIsUnfinished, I!UnparsableIsUnfinished

-----------------------------------------------------------------------------
(* Planner *)
PlanSkills == P!Texts \cup {"none", "fileop", "shell", "app", "other", "unknown", "untyped", "clip"}
PlanArgs == {"none", "safe", "placeholder", "outside", "plain", "tooling", "empty", "listed",
     "unlisted",
         "default", "text"}
PlanKeys == {"right", "alias", "wrong"}
Step == [skill : PlanSkills, arg : PlanArgs, key : PlanKeys]
Error ==
    [tier : P!Range(Tiers),
     class : {"timeout", "rate_limit", "malformed_json", "planner_error", "provider_error"},
     reason : {"TIMEOUT", "RATE_LIMIT", "AUTH", "MALFORMED", "NETWORK", "UNKNOWN"},
     why : {"time", "limit", "auth", "garbled", "network", "other"},
     quotes : BOOLEAN]

(* One record of the errors for each tier asked, but for the one that       *)
(* answered.                                                                *)
TiersInOrder ==
    /\ asked \in Seq(P!Range(Tiers)) /\ errors \in Seq(Error)
    /\ Len(asked) <= Len(Tiers)
    /\ \A i \in 1 .. Len(asked) : asked[i] = Tiers[i]
    /\ Len(asked) \in {Len(errors), Len(errors) + 1}
    /\ stage \in {"start", "asking"} => Len(asked) = Len(errors)
    /\ stage = "start" => asked = <<>>
    /\ stage # "start" /\ asked # <<>> => cloud
    /\ stage = "asking" => cloud

Sound(s) ==
    /\ s.skill = "write" => goal.asksWrite \/ goal.byRule = "write"
    /\ s.skill = "read" => goal.asksRead \/ goal.byRule = "read"
    /\ s.skill = "shell" /\ s.arg = "tooling" => goal.asksShell
    /\ s.skill \in P!Texts => s.arg \in {"safe", "default"}
CheckedIsAStep == stage = "checking" => step \in Step
PlannedIsSound == stage = "planned" => Sound(step)
PlanInv ==
    /\ TiersInOrder /\ CheckedIsAStep /\ PlannedIsSound
    /\ P!NamedInHealth /\ P!SureUnlessQuoting

(* A step given another argument is the same step otherwise.                *)
LEMMA AtIs ==
  ASSUME NEW s \in Step, NEW v \in PlanArgs
  PROVE  P!At(s, v) \in Step /\ P!At(s, v).skill = s.skill /\ P!At(s, v).arg = v
<1>1. s = [skill |-> s.skill, arg |-> s.arg, key |-> s.key] /\ s.skill \in PlanSkills
     /\ s.key \in PlanKeys
  BY DEF Step
<1>2. P!At(s, v) = [skill |-> s.skill, arg |-> v, key |-> s.key]
  BY <1>1 DEF P!At
<1> QED BY <1>1, <1>2 DEF Step

LEMMA ClipIs == P!Clip \in Step /\ P!Clip.skill = "clip" /\ P!Clip.arg = "text"
BY DEF P!Clip, Step, PlanSkills, PlanArgs, PlanKeys, P!Texts

(* No rewrite undoes what another was for: rewritten, any step whatever     *)
(* reads or writes text only when the goal asks for it, and only in notes.  *)
LEMMA RewrittenIsSound ==
  ASSUME NEW s \in Step
  PROVE  Sound(P!Rewritten(s))
<1> DEFINE w == P!AskedWrites(s)
           a == P!AskedReads(w)
           b == P!NotesDefault(a)
           c == P!InNotes(b)
<1>1. w \in Step /\ (w.skill = "write" => goal.asksWrite)
  BY ClipIs DEF P!AskedWrites
<1> HIDE DEF w
<1>2. /\ a \in Step
      /\ a.skill = "write" => goal.asksWrite
      /\ a.skill = "read" => goal.asksRead
  BY <1>1, ClipIs DEF P!AskedReads
<1> HIDE DEF a
<1>3. b \in Step /\ b.skill = a.skill
  BY <1>2, AtIs DEF P!NotesDefault, PlanArgs
<1> HIDE DEF b
<1>4. /\ c \in Step
      /\ c.skill = b.skill \/ c.skill = "clip"
      /\ c.skill \in {"write", "read"} => c.arg \in {"safe", "default"}
  BY <1>3, ClipIs, AtIs DEF P!InNotes, P!Texts, PlanArgs
<1> HIDE DEF c
<1>5. Sound(P!AskedTools(c))
  <2>1. CASE c.skill = "shell" /\ c.arg = "tooling" /\ ~goal.asksShell
    BY <2>1, ClipIs DEF P!AskedTools, Sound, P!Texts
  <2>2. CASE ~(c.skill = "shell" /\ c.arg = "tooling" /\ ~goal.asksShell)
    BY <1>2, <1>3, <1>4, <2>2 DEF P!AskedTools, Sound, P!Texts
  <2> QED BY <2>1, <2>2
<1> QED BY <1>5 DEF P!Rewritten, w, a, b, c

(* A step's arguments renamed or completed make a step.                     *)
LEMMA NamedIsAStep ==
  ASSUME NEW s \in Step
  PROVE  P!Named(s) \in Step
<1>1. s = [skill |-> s.skill, arg |-> s.arg, key |-> s.key]
      /\ s.skill \in PlanSkills /\ s.arg \in PlanArgs /\ s.key \in PlanKeys
  BY DEF Step
<1>2. \A t \in Step : [t EXCEPT !.key = "right"] \in Step
  BY DEF Step, PlanKeys
<1>3. P!At(s, "none") \in Step /\ P!At(s, "empty") \in Step
  BY AtIs DEF PlanArgs
<1> QED BY <1>2, <1>3 DEF P!Named

LEMMA RepliesAreSteps == P!Steps \subseteq Step
BY DEF P!Steps, Step, PlanSkills, P!Texts, PlanArgs, PlanKeys

(* What the plan's message has a name for, health.json has that name for,   *)
(* or one that it looks for earlier, whatever the failure says.             *)
LEMMA NamesAreKnown ==
  ASSUME NEW f
  PROVE  /\ P!PlannerClass(f) = "timeout" => P!FallbackReason(f) = "TIMEOUT"
         /\ P!PlannerClass(f) = "rate_limit" => P!FallbackReason(f) \in {"TIMEOUT", "RATE_LIMIT"}
         /\ P!PlannerClass(f) = "malformed_json" =>
               P!FallbackReason(f) \in {"TIMEOUT", "RATE_LIMIT", "AUTH", "MALFORMED"}
BY DEF P!PlannerClass, P!FallbackReason, P!Says

(* What really happened is one of six things.                               *)
LEMMA FailuresHaveReasons ==
  ASSUME NEW f \in P!Failures
  PROVE  f.why \in {"time", "limit", "auth", "garbled", "network", "other"}
<1>1. \A k, w, s : P!Failure(k, w, s).why = w
  BY DEF P!Failure
<1>2. \A g \in P!Raised : g.why \in {"time", "limit", "auth", "garbled", "network", "other"}
  BY <1>1 DEF P!Raised
<1>3. \A q : \A g \in P!Quoting(q) : g.why \in {"garbled", "auth", "other"}
  BY <1>1 DEF P!Quoting
<1> QED BY <1>2, <1>3 DEF P!Failures

(* Without a quotation health.json names a failure rightly or not at all.   *)
LEMMA RaisedAreSure ==
  ASSUME NEW f \in P!Raised
  PROVE  P!FallbackReason(f) \in {"UNKNOWN", P!TrueReason(f.why)}
BY DEF P!Raised, P!Failure, P!FallbackReason, P!TrueReason, P!Says

(* The planner begins in its invariant ...                                  *)
LEMMA InitPlan == P!Init => PlanInv
BY DEF P!Init, PlanInv, TiersInOrder, CheckedIsAStep, PlannedIsSound, P!NamedInHealth,
       P!SureUnlessQuoting

(* ... and no answer, failure or rewrite leaves it.                         *)
LEMMA StepPlan ==
  ASSUME Tiers \in Seq(P!Range(Tiers)), PlanInv, [P!Next]_(P!vars)
  PROVE  PlanInv'
<1> USE DEF PlanInv, TiersInOrder, CheckedIsAStep, PlannedIsSound, P!NamedInHealth,
            P!SureUnlessQuoting
<1>1. CASE P!TooLong \/ P!NoBrain \/ P!AllFailed \/ P!Refuse
  BY <1>1 DEF P!TooLong, P!NoBrain, P!AllFailed, P!Refuse, P!Fails, P!Goto
<1>2. CASE P!PlanByRule
  <2>1. Sound(step)'
    BY <1>2 DEF P!PlanByRule, Sound, P!Texts
  <2> QED BY <1>2, <2>1 DEF P!PlanByRule, P!Goto
<1>3. CASE P!Candidates
  BY <1>3 DEF P!Candidates, P!MayAsk, P!NeedsABrain, P!Goto
<1>4. ASSUME NEW f \in P!Failures, P!TierFails(f) PROVE PlanInv'
  <2> DEFINE e == [tier |-> P!NextTier, class |-> P!PlannerClass(f), reason |-> P!FallbackReason(f),
                  why |-> f.why, quotes |-> f \notin P!Raised]
  <2>1. P!NextTier \in P!Range(Tiers) /\ Len(asked) = Len(errors) /\ cloud
    BY <1>4 DEF P!TierFails, P!NextTier, P!Range
  <2>2. /\ asked' \in Seq(P!Range(Tiers)) /\ Len(asked') = Len(asked) + 1
        /\ \A i \in 1 .. Len(asked') :
              asked'[i] = IF i <= Len(asked) THEN asked[i] ELSE P!NextTier
    BY <1>4, <2>1, AppendProperties DEF P!TierFails
  <2>3. /\ errors' \in Seq(Error) /\ Len(errors') = Len(errors) + 1
        /\ \A i \in 1 .. Len(errors') :
              errors'[i] = IF i <= Len(errors) THEN errors[i] ELSE e
    <3>1. e \in Error
      BY <1>4, <2>1, FailuresHaveReasons DEF Error, P!PlannerClass, P!FallbackReason
    <3> QED BY <1>4, <2>1, <3>1, AppendProperties DEF P!TierFails
  <2>4. P!SureUnlessQuoting'
    <3>1. ~e.quotes => e.reason \in {"UNKNOWN", P!TrueReason(e.why)}
      BY RaisedAreSure
    <3> HIDE DEF e
    <3> QED BY <2>3, <3>1
  <2>5. P!NamedInHealth'
    BY <2>3, NamesAreKnown
  <2>6. TiersInOrder'
    BY <1>4, <2>1, <2>2, <2>3 DEF P!TierFails, P!NextTier
  <2> QED BY <1>4, <2>4, <2>5, <2>6 DEF P!TierFails
<1>5. ASSUME NEW r \in P!Replies, P!TierAnswers(r) PROVE PlanInv'
  <2>1. P!NextTier \in P!Range(Tiers) /\ Len(asked) = Len(errors) /\ cloud
    BY <1>5 DEF P!TierAnswers, P!NextTier, P!Range
  <2>2. /\ asked' \in Seq(P!Range(Tiers)) /\ Len(asked') = Len(asked) + 1
        /\ \A i \in 1 .. Len(asked') :
              asked'[i] = IF i <= Len(asked) THEN asked[i] ELSE P!NextTier
    BY <1>5, <2>1, AppendProperties DEF P!TierAnswers
  <2>3. step' \in Step
    BY <1>5, RepliesAreSteps DEF P!TierAnswers, P!Replies
  <2> QED BY <1>5, <2>1, <2>2, <2>3 DEF P!TierAnswers, P!NextTier, P!Goto
<1>6. CASE P!Accept
  <2>1. Sound(P!Rewritten(P!Named(step)))
    BY <1>6, NamedIsAStep, RewrittenIsSound DEF P!Accept
  <2> QED BY <1>6, <2>1 DEF P!Accept, P!Goto, Sound
<1>7. CASE UNCHANGED P!vars
  BY <1>7 DEF P!vars, Sound
<1> QED BY <1>1, <1>2, <1>3, <1>4, <1>5, <1>6, <1>7 DEF P!Next

(* Whatever the brains answer, and however many tiers there are, a plan     *)
(* reads and writes text only when its goal asks for it, and only in notes; *)
(* the tiers are asked in their order; a failure that has a name in the     *)
(* plan has one in health, and one that quotes nothing no wrong one there.  *)
THEOREM PlansAreSound ==
  ASSUME Tiers \in Seq(P!Range(Tiers))
  PROVE  P!Spec => []P!PlansStayInBounds
<1>1. PlanInv => P!PlansStayInBounds
  <2> SUFFICES ASSUME PlanInv PROVE P!PlansStayInBounds
    OBVIOUS
  <2>1. P!OnlyWhatIsAsked /\ P!TextsAreNotes
    BY DEF PlanInv, PlannedIsSound, Sound, P!OnlyWhatIsAsked, P!TextsAreNotes
  <2>2. P!AskedInOrder
    <3>1. P!IsPrefix(asked, Tiers)
      BY DEF PlanInv, TiersInOrder, P!IsPrefix
    <3> QED BY <3>1 DEF PlanInv, TiersInOrder, P!AskedInOrder
  <2> QED BY <2>1, <2>2 DEF P!PlansStayInBounds, PlanInv
<1> QED BY InitPlan, StepPlan, <1>1, PTL DEF P!Spec

(* A behaviour that begins in the planner stays there and is one of its     *)
(* own; in any other, nothing of it changes.                                *)
LEMMA PlanAlone ==
  /\ Init /\ In("plan") => P!Init
  /\ [Next]_vars /\ In("plan") => In("plan")' /\ [P!Next]_(P!vars)
  /\ [Next]_vars /\ ~In("plan") => ~In("plan")' /\ UNCHANGED P!vars
BY DEF Init, Next, vars, plan, P!vars, In

(* The same of the run that checks it: a plan reads and writes text only    *)
(* when its goal asks for it and only in notes, the tiers are asked in      *)
(* their order, and the reasons of failures are those health.json knows.    *)
THEOREM PlansHold == Spec => []PlansStayInBounds
<1>0. Tiers \in Seq(P!Range(Tiers))
  BY PartBounds DEF P!Range
<1>1. P!Spec => []P!PlansStayInBounds
  BY <1>0, PlansAreSound
<1>2. P!Init /\ [][P!Next]_(P!vars) => []P!PlansStayInBounds
  BY <1>1 DEF P!Spec
<1>3. Init /\ [][Next]_vars => [](In("plan") => P!PlansStayInBounds)
  BY <1>2, PlanAlone, PTL
<1>4. PlansStayInBounds <=> (In("plan") => P!PlansStayInBounds)
  BY DEF PlansStayInBounds, In
<1> QED BY <1>3, <1>4, PTL DEF Spec

-----------------------------------------------------------------------------
(* FileSkills *)
(* A behaviour that begins in the skills stays there and is one of its own;  *)
(* in any other, nothing of it changes.                                     *)
LEMMA SkillsAlone ==
  /\ Init /\ In("skills") => F!Init
  /\ [Next]_vars /\ In("skills") => In("skills")' /\ [F!Next]_(F!vars)
  /\ [Next]_vars /\ ~In("skills") => ~In("skills")' /\ UNCHANGED F!vars
BY DEF Init, Next, vars, skills, F!vars, F!notes, F!flow, F!given, In

(* QueueIsLeftAlone, of a behaviour of MCParts.                             *)
THEOREM ControlPlaneHolds == Spec => []ControlPlaneUntouched
<1>1. F!Init /\ [][F!Next]_(F!vars) => []F!ControlPlaneUntouched
  BY F!QueueIsLeftAlone, PartBounds DEF F!Spec, F!FileBounds
<1>2. Init /\ [][Next]_vars => [](In("skills") => F!ControlPlaneUntouched)
  BY <1>1, SkillsAlone, PTL
<1>3. ControlPlaneUntouched <=> (In("skills") => F!ControlPlaneUntouched)
  BY DEF ControlPlaneUntouched, In
<1> QED BY <1>2, <1>3, PTL DEF Spec

(* NoFileIsLost, of a behaviour of MCParts.                                 *)
THEOREM FilesHold == Spec => []FilesSurvive
<1> DEFINE Good == F!TypeOK /\ F!OriginalSurvives /\ F!NothingOverwritten
                   /\ F!RefusalLeavesTheFiles /\ F!DoneIsDone
<1>1. F!Init /\ [][F!Next]_(F!vars) => []Good
  BY F!NoFileIsLost, PartBounds DEF F!Spec, F!FileBounds
<1>2. FilesSurvive <=> (In("skills") => Good)
  BY DEF FilesSurvive, In
<1> HIDE DEF Good
<1>3. Init /\ [][Next]_vars => [](In("skills") => Good)
  BY <1>1, SkillsAlone, PTL
<1> QED BY <1>2, <1>3, PTL DEF Spec

-----------------------------------------------------------------------------
(* Hygiene *)
(* What a mover may still do to the file of its job: drop it, or rename it  *)
(* to a bucket further on.  Only a retry or a relocation may do anything    *)
(* else.                                                                    *)
Onward(o) ==
    o.kind = "job" =>
        \/ o.op = "drop"
        \/ /\ o.op = "move"
           /\ \A i \in 1..5 : H!Order[i] = o.from => \E k \in 1..5 : k > i /\ H!Order[k] = o.to
Operation ==
    {o \in [op : {"move", "follow", "make", "drop", "write"}, kind : H!Kinds,
            from : H!Buckets \cup {"approvals"}, to : H!Buckets \cup {"approvals"}] :
       o.kind = "job" => o.op \in {"move", "drop"} /\ o.from \in H!Buckets /\ o.to \in H!Buckets}
OnwardOps == {o \in Operation : Onward(o)}

(* A job is in one bucket, and jobs that nobody sent back only go onward.   *)
InOnePlace ==
    /\ ops \in [Jobs -> Seq(Operation)]
    /\ \A j \in Jobs : j \notin back => ops[j] \in Seq(OnwardOps)
    /\ \A j \in Jobs, b, c \in H!Buckets : H!At(j, b) /\ H!At(j, c) => b = c

(* Who a lookup or a report looks for, and where it still looks.            *)
Lookups == {"lookup", "again", "in_pending", "in_inbox", "looked_up"}
Wanted(j) ==
    \/ tool.cmd \in {"report", "reported"} /\ j \in H!Named
    \/ tool.cmd \in Lookups /\ j = tool.job
StillToSee(j) ==
    tool.cmd \in {"report", "lookup"} /\ \E i \in 1..5 : i >= tool.at /\ H!At(j, H!Order[i])
IsCommand(t) == "cmd" \in DOMAIN t /\ "at" \in DOMAIN t
SeenOrAhead ==
    /\ IsCommand(tool)
    /\ tool.cmd \in {"report", "lookup"} => tool.at \in Nat \ {0}
    /\ tool.cmd \in Lookups => tool.job \in Jobs
    /\ \A j \in Jobs :
         Wanted(j) /\ (\E b \in H!Buckets : H!File(j, "job", b) \in snap) =>
             \/ j \in found \/ (j \in back /\ j \in stirred)
             \/ H!Around(j) = {} \/ StillToSee(j)

LEMMA OrderIs ==
  /\ DOMAIN H!Order = 1..5
  /\ H!Order[1] = "inbox" /\ H!Order[2] = "pending" /\ H!Order[3] = "done"
  /\ H!Order[4] = "failed" /\ H!Order[5] = "canceled"
  /\ H!Buckets = {"inbox", "pending", "done", "failed", "canceled"}
<1> DEFINE Texts == {"inbox", "pending", "done", "failed", "canceled"}
           s == <<"inbox", "pending">>
           t == <<"done", "failed", "canceled">>
<1>1. H!Order = s \o t
  BY DEF H!Order, H!Terminal
<1>2. /\ s \in Seq(Texts) /\ Len(s) = 2 /\ s[1] = "inbox" /\ s[2] = "pending"
      /\ t \in Seq(Texts) /\ Len(t) = 3 /\ t[1] = "done" /\ t[2] = "failed" /\ t[3] = "canceled"
  <2>1. s \in Seq(Texts) /\ t \in Seq(Texts)
    OBVIOUS
  <2>2. Len(s) = 2 /\ s[1] = "inbox" /\ s[2] = "pending"
    OBVIOUS
  <2>3. Len(t) = 3 /\ t[1] = "done" /\ t[2] = "failed" /\ t[3] = "canceled"
    OBVIOUS
  <2> QED BY <2>1, <2>2, <2>3
<1> HIDE DEF s, t
<1>3. /\ DOMAIN H!Order = 1..5
      /\ H!Order[1] = "inbox" /\ H!Order[2] = "pending" /\ H!Order[3] = "done"
      /\ H!Order[4] = "failed" /\ H!Order[5] = "canceled"
  <2>1. /\ s \o t \in Seq(Texts) /\ Len(s \o t) = 5
        /\ \A i \in 1..5 : (s \o t)[i] = IF i <= 2 THEN s[i] ELSE t[i - 2]
    <3>1. /\ s \o t \in Seq(Texts) /\ Len(s \o t) = Len(s) + Len(t)
          /\ \A i \in 1..(Len(s) + Len(t)) : (s \o t)[i] = IF i <= Len(s) THEN s[i] ELSE t[i - Len(s)]
      <4>1. s \in Seq(Texts) /\ t \in Seq(Texts)
        BY <1>2
      <4> HIDE DEF Texts
      <4> QED BY <4>1, ConcatProperties, Zenon
    <3>2. Len(s) = 2 /\ Len(t) = 3
      BY <1>2
    <3> QED BY <3>1, <3>2
  <2> QED BY <1>1, <1>2, <2>1
<1> QED BY <1>3 DEF H!Buckets

(* The pieces that plans are made of.                                       *)
LEMMA PiecesAreOps ==
  /\ \A b \in H!Buckets : H!WriteState(b) \in Seq(OnwardOps)
  /\ \A b \in H!Buckets : H!Make("error", b) \in Seq(OnwardOps)
  /\ H!Make("approval", "approvals") \in Seq(OnwardOps) /\ H!Unpark \in Seq(OnwardOps)
  /\ H!Make("marker", "pending") \in Seq(OnwardOps) /\ H!Drop("marker", "pending") \in Seq(OnwardOps)
  /\ H!Drop("error", "failed") \in Seq(OnwardOps)
  /\ \A b \in H!Buckets : H!Drop("job", b) \in Seq(OnwardOps)
  /\ \A b \in H!Buckets : H!Move(b, "inbox") \in Seq(Operation)
  /\ H!Move("inbox", "pending") \in Seq(OnwardOps)
  /\ \A b \in {"inbox", "pending"}, c \in {"done", "failed", "canceled"} :
       H!Move(b, c) \in Seq(OnwardOps)
  /\ \A s, t \in Seq(OnwardOps) : s \o t \in Seq(OnwardOps)
  /\ \A s, t \in Seq(Operation) : s \o t \in Seq(Operation)
  /\ <<>> \in Seq(OnwardOps)
  /\ Seq(OnwardOps) \subseteq Seq(Operation)
<1> DEFINE Op(op, kind, old, to) == [op |-> op, kind |-> kind, from |-> old, to |-> to]
<1>1. \A op \in {"follow", "make", "write", "drop"}, kind \in H!Kinds \ {"job"},
         b, c \in H!Buckets \cup {"approvals"} : Op(op, kind, b, c) \in OnwardOps
  BY DEF OnwardOps, Onward, Operation, H!Kinds
<1>2. \A b \in H!Buckets : Op("drop", "job", b, b) \in OnwardOps
  BY DEF OnwardOps, Onward, Operation, H!Kinds
<1>3. \A b, c \in H!Buckets : Op("move", "job", b, c) \in Operation
  BY DEF Operation, H!Kinds
<1>4. \A b, c \in H!Buckets :
         (\A i \in 1..5 : H!Order[i] = b => \E k \in 1..5 : k > i /\ H!Order[k] = c)
         => Op("move", "job", b, c) \in OnwardOps
  BY <1>3 DEF OnwardOps, Onward
<1>5. /\ Op("move", "job", "inbox", "pending") \in OnwardOps
      /\ \A b \in {"inbox", "pending"}, c \in {"done", "failed", "canceled"} :
           Op("move", "job", b, c) \in OnwardOps
  <2>1. \A i \in 1..5 : i = 1 \/ i = 2 \/ i = 3 \/ i = 4 \/ i = 5
    OBVIOUS
  <2>2. ASSUME NEW b \in {"inbox", "pending"}, NEW c \in {"done", "failed", "canceled"},
               NEW i \in 1..5, H!Order[i] = b
        PROVE  \E k \in 1..5 : k > i /\ H!Order[k] = c
    <3>1. i \in {1, 2}
      BY <2>1, <2>2, OrderIs
    <3>2. \E k \in 3..5 : H!Order[k] = c
      BY OrderIs
    <3> QED BY <3>1, <3>2
  <2>3. ASSUME NEW i \in 1..5, H!Order[i] = "inbox"
        PROVE  \E k \in 1..5 : k > i /\ H!Order[k] = "pending"
    BY <2>1, <2>3, OrderIs
  <2> QED BY <1>4, <2>2, <2>3, OrderIs
<1>6. \A op \in {"follow", "make", "write", "drop"}, kind \in {"state", "error", "approval", "marker"},
         b, c \in H!Buckets \cup {"approvals"} : Op(op, kind, b, c) \in OnwardOps
  BY <1>1 DEF H!Kinds
<1>7. OnwardOps \subseteq Operation
  BY DEF OnwardOps
<1>8. /\ \A b \in H!Buckets : H!WriteState(b) \in Seq(OnwardOps)
           /\ H!Make("error", b) \in Seq(OnwardOps)
      /\ H!Make("approval", "approvals") \in Seq(OnwardOps) /\ H!Unpark \in Seq(OnwardOps)
      /\ H!Make("marker", "pending") \in Seq(OnwardOps)
      /\ H!Drop("marker", "pending") \in Seq(OnwardOps)
      /\ H!Drop("error", "failed") \in Seq(OnwardOps)
  <2>1. "failed" \in H!Buckets /\ "pending" \in H!Buckets
    BY OrderIs
  <2>2. /\ H!Drop("marker", "pending") \in Seq(OnwardOps)
        /\ H!Drop("approval", "approvals") \in Seq(OnwardOps)
    BY <1>6, <2>1 DEF H!Drop
  <2>3. \A s, t \in Seq(OnwardOps) : s \o t \in Seq(OnwardOps)
    OBVIOUS
  <2>4. H!Unpark \in Seq(OnwardOps)
    BY <2>2, <2>3 DEF H!Unpark
  <2> QED BY <1>6, <2>1, <2>2, <2>4 DEF H!WriteState, H!Make, H!Drop
<1>9. \A b \in H!Buckets : H!Drop("job", b) \in Seq(OnwardOps)
  <2> TAKE b \in H!Buckets
  <2> QED BY <1>2, H!Drop("job", b) = <<Op("drop", "job", b, b)>> DEF H!Drop
<1>10. \A b \in H!Buckets : H!Move(b, "inbox") \in Seq(Operation)
  <2> TAKE b \in H!Buckets
  <2>1. Op("move", "job", b, "inbox") \in Operation
          /\ Op("follow", "state", b, "inbox") \in Operation
    BY <1>3, <1>6, <1>7, OrderIs
  <2> QED BY <2>1 DEF H!Move
<1>11. H!Move("inbox", "pending") \in Seq(OnwardOps)
  BY <1>5, <1>6, OrderIs DEF H!Move
<1>12. \A b \in {"inbox", "pending"}, c \in {"done", "failed", "canceled"} :
         H!Move(b, c) \in Seq(OnwardOps)
  <2> TAKE b \in {"inbox", "pending"}, c \in {"done", "failed", "canceled"}
  <2>1. Op("move", "job", b, c) \in OnwardOps /\ Op("follow", "state", b, c) \in OnwardOps
    BY <1>5, <1>6, OrderIs
  <2> QED BY <2>1 DEF H!Move
<1> QED BY <1>7, <1>8, <1>9, <1>10, <1>11, <1>12

LEMMA PlacesInit == H!Init => InOnePlace /\ SeenOrAhead
<1> SUFFICES ASSUME H!Init PROVE InOnePlace /\ SeenOrAhead
  OBVIOUS
<1>1. InOnePlace
  BY PiecesAreOps DEF H!Init, InOnePlace, H!At, H!File
<1>2. SeenOrAhead
  BY DEF H!Init, SeenOrAhead, H!NoTool, Wanted, Lookups, StillToSee, IsCommand
<1> QED BY <1>1, <1>2

(* A mover sets out: its plan is well typed, and onward unless it retries   *)
(* or relocates.                                                            *)
LEMMA PlansGoOnward ==
  ASSUME InOnePlace, NEW j \in Jobs, H!Moves(j)
  PROVE  \/ /\ ops' \in [Jobs -> Seq(Operation)]
            /\ jobFiles' = jobFiles /\ stirred' = stirred \cup {j}
            /\ back \subseteq back' /\ \A k \in Jobs : k \notin back' =>
                 ops'[k] \in Seq(OnwardOps)
            /\ UNCHANGED <<tool, found, snap, helped>>
         \/ H!Operate(j)
<1> DEFINE Good == /\ ops' \in [Jobs -> Seq(Operation)]
                   /\ jobFiles' = jobFiles /\ stirred' = stirred \cup {j}
                   /\ back \subseteq back' /\ \A k \in Jobs : k \notin back' =>
                        ops'[k] \in Seq(OnwardOps)
                   /\ UNCHANGED <<tool, found, snap, helped>>
<1>1. ASSUME NEW s, H!Sets(j, s), s \in Seq(OnwardOps), UNCHANGED back PROVE Good
  BY <1>1, PiecesAreOps DEF H!Sets, InOnePlace, H!cmd
<1>2. ASSUME NEW s, H!Sets(j, s), s \in Seq(Operation), back' = back \cup {j} PROVE Good
  BY <1>2, PiecesAreOps DEF H!Sets, InOnePlace, H!cmd
<1>3. ASSUME NEW old \in {"inbox", "pending"}, H!Park(j, old) PROVE Good
  <2>1. /\ (IF old = "inbox" THEN H!Move(old, "pending") ELSE <<>>) \in Seq(OnwardOps)
        /\ H!WriteState(old) \in Seq(OnwardOps) /\ H!WriteState("pending") \in Seq(OnwardOps)
    BY PiecesAreOps, OrderIs
  <2>2. H!WriteState(old) \o (IF old = "inbox" THEN H!Move(old, "pending") ELSE <<>>)
          \o H!Make("approval", "approvals") \o H!Make("marker", "pending")
          \o H!WriteState("pending") \in Seq(OnwardOps)
    BY <2>1, PiecesAreOps
  <2> QED BY <1>1, <1>3, <2>2 DEF H!Park
<1>8. CASE H!Gate(j)
  <2> DEFINE parked == H!File(j, "approval", "approvals") \in jobFiles
  <2>1. /\ (IF parked THEN <<>> ELSE H!Make("approval", "approvals")) \in Seq(OnwardOps)
        /\ (IF parked THEN <<>> ELSE H!WriteState("pending")) \in Seq(OnwardOps)
        /\ H!WriteState("inbox") \in Seq(OnwardOps) /\ H!Move("inbox", "pending") \in Seq(OnwardOps)
    BY PiecesAreOps, OrderIs
  <2>2. H!WriteState("inbox") \o H!Move("inbox", "pending")
          \o (IF parked THEN <<>> ELSE H!Make("approval", "approvals"))
          \o H!Drop("marker", "pending")
          \o (IF parked THEN <<>> ELSE H!WriteState("pending")) \in Seq(OnwardOps)
    BY <2>1, PiecesAreOps
  <2> QED BY <1>1, <1>8, <2>2 DEF H!Gate
<1>9. CASE H!Relocate(j)
  BY <1>2, <1>9, PiecesAreOps, OrderIs DEF H!Relocate
<1>4. ASSUME NEW old \in {"inbox", "pending"}, H!Cancel(j, old) PROVE Good
  <2>1. H!Move(old, "canceled") \o H!Unpark \o H!Drop("error", "failed")
          \o H!WriteState("canceled")
          \in Seq(OnwardOps)
    BY PiecesAreOps, OrderIs
  <2> QED BY <1>1, <1>4, <2>1 DEF H!Cancel
<1>5. ASSUME NEW old \in {"inbox", "pending"}, NEW to \in {"done", "failed"}, H!End(j, old, to)
      PROVE  Good
  <2>1. /\ (IF to = "failed" THEN H!Make("error", "failed") ELSE <<>>) \in Seq(OnwardOps)
        /\ (IF old = "pending" THEN H!Unpark ELSE <<>>) \in Seq(OnwardOps)
        /\ H!WriteState(old) \in Seq(OnwardOps) /\ H!WriteState(to) \in Seq(OnwardOps)
        /\ H!Move(old, to) \in Seq(OnwardOps)
    BY PiecesAreOps, OrderIs
  <2>2. H!WriteState(old) \o H!Move(old, to)
          \o (IF to = "failed" THEN H!Make("error", "failed") ELSE <<>>)
          \o H!WriteState(to) \o (IF old = "pending" THEN H!Unpark ELSE <<>>) \in Seq(OnwardOps)
    BY <2>1, PiecesAreOps
  <2> QED BY <1>1, <1>5, <2>2 DEF H!End
<1>6. ASSUME NEW old \in {"done", "failed", "canceled"}, H!Delete(j, old) PROVE Good
  <2>1. /\ (IF old = "failed" THEN H!Drop("error", "failed") ELSE <<>>) \in Seq(OnwardOps)
        /\ H!Drop("job", old) \in Seq(OnwardOps) /\ H!Unpark \in Seq(OnwardOps)
    BY PiecesAreOps, OrderIs
  <2>2. H!Drop("job", old) \o (IF old = "failed" THEN H!Drop("error", "failed") ELSE <<>>)
          \o H!Unpark \in Seq(OnwardOps)
    BY <2>1, PiecesAreOps
  <2> QED BY <1>1, <1>6, <2>2 DEF H!Delete
<1>7. ASSUME NEW old \in {"failed", "canceled"}, H!Retry(j, old) PROVE Good
  <2>1. /\ (IF old = "failed" THEN H!Drop("error", "failed") ELSE <<>>) \in Seq(Operation)
        /\ H!Move(old, "inbox") \in Seq(Operation)
    BY PiecesAreOps, OrderIs
  <2>2. (IF old = "failed" THEN H!Drop("error", "failed") ELSE <<>>)
          \o H!Move(old, "inbox") \in Seq(Operation)
    BY <2>1, PiecesAreOps
  <2> QED BY <1>2, <1>7, <2>2 DEF H!Retry
<1> QED BY <1>3, <1>4, <1>5, <1>6, <1>7, <1>8, <1>9 DEF H!Moves

(* One operation: the job goes onward, away, or back if it was sent back.   *)
LEMMA PlacesOperate ==
  ASSUME InOnePlace, SeenOrAhead, NEW j \in Jobs, H!Operate(j)
  PROVE  InOnePlace' /\ SeenOrAhead'
<1> DEFINE o == Head(ops[j])
           it == H!File(j, o.kind, o.from)
<1>1. /\ o \in Operation /\ (j \notin back => Onward(o))
      /\ ops' \in [Jobs -> Seq(Operation)]
      /\ \A k \in Jobs : k \notin back => ops'[k] \in Seq(OnwardOps)
  <2>1. ops[j] \in Seq(Operation) /\ ops[j] # <<>>
    BY DEF InOnePlace, H!Operate, H!Rests
  <2>2. Head(ops[j]) \in Operation /\ Tail(ops[j]) \in Seq(Operation)
    BY <2>1
  <2>3. ASSUME j \notin back PROVE Head(ops[j]) \in OnwardOps /\ Tail(ops[j]) \in Seq(OnwardOps)
    BY <2>1, <2>3, ops[j] \in Seq(OnwardOps) DEF InOnePlace
  <2>4. ops'[j] \in {<<>>, Tail(ops[j])} /\ ops' = [ops EXCEPT ![j] = ops'[j]]
    BY DEF InOnePlace, H!Operate
  <2> QED BY <2>2, <2>3, <2>4, PiecesAreOps DEF InOnePlace, OnwardOps
<1>2. \A k \in Jobs \ {j}, b \in H!Buckets : H!At(k, b)' <=> H!At(k, b)
  BY DEF H!Operate, H!At, H!File
<1>3. /\ \A b \in H!Buckets : H!At(j, b)' =>
           H!At(j, b) \/ (b = o.to /\ o.kind = "job" /\ o.op = "move")
      /\ o.kind # "job" => \A b \in H!Buckets : H!At(j, b)' <=> H!At(j, b)
      /\ o.kind = "job" /\ o.op = "drop" => jobFiles' = jobFiles \ {it}
      /\ o.kind = "job" /\ o.op = "move" =>
            jobFiles' = IF it \in jobFiles
              THEN (jobFiles \ {it}) \cup {H!File(j, "job", o.to)} ELSE jobFiles
  BY <1>1 DEF H!Operate, H!At, H!File, Operation
<1>4. InOnePlace'
  <2>1. back' = back
    BY DEF H!Operate
  <2>2. ASSUME NEW b \in H!Buckets, NEW c \in H!Buckets, H!At(j, b)', H!At(j, c)' PROVE b = c
    <3>1. CASE H!At(j, b) /\ H!At(j, c)
      BY <3>1 DEF InOnePlace
    <3>2. CASE o.kind = "job" /\ o.op = "move" /\ it \in jobFiles
      <4>1. \A d \in H!Buckets : H!At(j, d)' => d = o.to
        <5> TAKE d \in H!Buckets
        <5>1. o.from \in H!Buckets /\ H!At(j, o.from)
          BY <3>2, <1>1 DEF Operation, H!At
        <5> QED BY <1>3, <3>2, <5>1 DEF InOnePlace, H!At, H!File
      <4> QED BY <2>2, <4>1
    <3>3. CASE o.kind = "job" /\ o.op = "move" /\ it \notin jobFiles
      BY <1>3, <2>2, <3>3 DEF InOnePlace, H!At
    <3> QED BY <1>3, <2>2, <3>1, <3>2, <3>3
  <2>3. \A k \in Jobs, b, c \in H!Buckets : H!At(k, b)' /\ H!At(k, c)' => b = c
    BY <1>2, <2>2 DEF InOnePlace
  <2> QED BY <1>1, <2>1, <2>3 DEF InOnePlace
<1>5. SeenOrAhead'
  <2>1. UNCHANGED <<tool, found, snap, helped, back>> /\ stirred' = stirred \cup {j}
    BY DEF H!Operate, H!cmd
  <2> SUFFICES ASSUME NEW k \in Jobs, Wanted(k),
                      \E b \in H!Buckets : H!File(k, "job", b) \in snap,
                      ~(k \in found), ~(k \in back /\ k \in stirred'), (H!Around(k) # {})'
               PROVE  StillToSee(k)'
    BY <2>1 DEF SeenOrAhead, Wanted, H!Named, H!File
  <2>2. ~(k \in back /\ k \in stirred)
    BY <2>1
  <2>3. CASE k # j \/ \A b \in H!Buckets : H!At(j, b)' <=> H!At(j, b)
    <3>1. \A b \in H!Buckets : H!At(k, b)' <=> H!At(k, b)
      BY <1>2, <2>3
    <3>2. H!Around(k) # {}
      BY <3>1 DEF H!Around
    <3>3. StillToSee(k)
      BY <2>2, <3>2 DEF SeenOrAhead
    <3> QED BY <2>1, <3>1, <3>3, OrderIs DEF StillToSee
  <2>4. CASE k = j /\ ~(\A b \in H!Buckets : H!At(j, b)' <=> H!At(j, b))
    <3>1. k \notin back
      BY <2>1, <2>4
    <3>2. Onward(o) /\ o.kind = "job" /\ it \in jobFiles
      <4>1. o.kind = "job"
        BY <1>3, <2>4
      <4>2. o.op \in {"move", "drop"}
        BY <1>1, <4>1 DEF Operation
      <4>3. it \in jobFiles
        BY <1>3, <2>4, <4>1, <4>2 DEF H!At
      <4> QED BY <1>1, <2>4, <3>1, <4>1, <4>3
    <3>3. o.from \in H!Buckets /\ H!At(j, o.from)
      BY <1>1, <3>2 DEF Operation, H!At
    <3>4. o.op = "move"
      <4>1. PICK b \in H!Buckets : H!At(j, b)'
        BY <2>4 DEF H!Around
      <4>2. o.op # "drop"
        <5> SUFFICES ASSUME o.op = "drop" PROVE FALSE
          OBVIOUS
        <5>1. H!At(j, b) /\ H!File(j, "job", b) # it
          BY <1>3, <3>2, <4>1 DEF H!At
        <5> QED BY <3>2, <3>3, <5>1 DEF InOnePlace
      <4> QED BY <1>1, <3>2, <4>2 DEF Operation
    <3>5. StillToSee(j)
      <4>1. H!Around(j) # {}
        BY <3>3 DEF H!Around
      <4> QED BY <2>2, <2>4, <4>1, <3>1 DEF SeenOrAhead
    <3>6. PICK i \in 1..5 : i >= tool.at /\ H!At(j, H!Order[i])
      BY <3>5 DEF StillToSee
    <3>7. H!Order[i] = o.from
      BY <3>3, <3>6, OrderIs DEF InOnePlace
    <3>8. PICK n \in 1..5 : n > i /\ H!Order[n] = o.to
      BY <3>2, <3>4, <3>7 DEF Onward
    <3>9. H!At(j, H!Order[n])'
      BY <1>3, <3>2, <3>4, <3>8 DEF H!At
    <3> QED BY <2>1, <2>4, <3>5, <3>6, <3>8, <3>9 DEF StillToSee, SeenOrAhead
  <2> QED BY <2>3, <2>4
<1> QED BY <1>4, <1>5

(* A mover that sets out changes nothing that is looked at.                 *)
LEMMA PlacesMove ==
  ASSUME InOnePlace, SeenOrAhead, NEW j \in Jobs, H!Moves(j)
  PROVE  InOnePlace' /\ SeenOrAhead'
<1>1. CASE H!Operate(j)
  BY <1>1, PlacesOperate
<1>2. CASE /\ ops' \in [Jobs -> Seq(Operation)]
           /\ jobFiles' = jobFiles /\ stirred' = stirred \cup {j}
           /\ back \subseteq back' /\ \A k \in Jobs : k \notin back' => ops'[k] \in Seq(OnwardOps)
           /\ UNCHANGED <<tool, found, snap, helped>>
  <2>1. \A k \in Jobs, b \in H!Buckets : H!At(k, b)' <=> H!At(k, b)
    BY <1>2 DEF H!At, H!File
  <2>2. \A k \in Jobs : (H!Around(k) = {})' = (H!Around(k) = {})
          /\ (StillToSee(k)' <=> StillToSee(k))
    BY <1>2, <2>1, OrderIs DEF H!Around, StillToSee
  <2>3. InOnePlace'
    BY <1>2, <2>1 DEF InOnePlace
  <2>4. SeenOrAhead'
    BY <1>2, <2>2 DEF SeenOrAhead, Wanted, H!Named, H!File, H!Around, H!At
  <2> QED BY <2>3, <2>4
<1> QED BY <1>1, <1>2, PlansGoOnward

(* A command that begins has everything ahead of it.                        *)
LEMMA PlacesBegin ==
  ASSUME InOnePlace, SeenOrAhead,
         \/ \E keep \in 1..H!Cardinality(Jobs),
               cutoff \in {0} \cup {j \in Jobs : H!Newer(Jobs, j) # {}} : H!Prune(keep, cutoff)
         \/ H!Report \/ H!Fix \/ \E j \in Jobs : H!Lookup(j)
  PROVE  InOnePlace' /\ SeenOrAhead'
<1>1. InOnePlace' /\ jobFiles' = jobFiles /\ snap' = jobFiles
  BY DEF H!Prune, H!Report, H!Fix, H!Lookup, H!Begins, H!jobs, InOnePlace, H!At
<1>2. /\ IsCommand(tool')
      /\ tool'.cmd \in {"prune", "scan", "report", "lookup"} /\ tool'.at = 1
      /\ tool'.cmd = "lookup" => tool'.job \in Jobs
  BY DEF H!Prune, H!Report, H!Fix, H!Lookup, H!Begins, IsCommand
<1>3. ASSUME NEW j \in Jobs, Wanted(j)', NEW b \in H!Buckets, H!At(j, b) PROVE StillToSee(j)'
  <2>1. PICK i \in 1..5 : H!Order[i] = b
    BY OrderIs
  <2> QED BY <1>1, <1>2, <1>3, <2>1 DEF StillToSee, Wanted, Lookups, H!At
<1> QED BY <1>1, <1>2, <1>3 DEF SeenOrAhead, Lookups, H!At

LEMMA PlacesLook ==
  ASSUME InOnePlace, SeenOrAhead, H!Look \/ H!LookAgain \/ H!Prefer \/ H!Confirm \/ H!Looked
  PROVE  InOnePlace' /\ SeenOrAhead'
<1>1. InOnePlace' /\ UNCHANGED <<jobFiles, snap, helped, back, stirred>>
  BY DEF H!Look, H!LookAgain, H!Prefer, H!Confirm, H!Looked, H!Goes, H!Finish, H!jobs,
     InOnePlace, H!At
<1>2. \A j \in Jobs : (H!Around(j) = {})' = (H!Around(j) = {})
  BY <1>1 DEF H!Around, H!At
<1>3. CASE H!Look
  <2>1. /\ tool' = [tool EXCEPT !.at = @ + 1] /\ tool.cmd \in {"report", "lookup"}
             /\ tool.at \in 1..5
        /\ found' = found \cup {j \in IF H!Works("report") THEN H!Named ELSE {tool.job} :
                                H!At(j, H!Order[tool.at])}
    BY <1>3, OrderIs DEF H!Look, H!Goes
  <2>4. /\ IsCommand(tool') /\ tool'.cmd = tool.cmd /\ tool'.job = tool.job
        /\ tool'.at \in Nat \ {0}
    BY <2>1 DEF SeenOrAhead, IsCommand
  <2>5. \A j \in Jobs : Wanted(j)' = Wanted(j)
    BY <1>1, <2>4 DEF Wanted, H!Named
  <2> SUFFICES ASSUME NEW j \in Jobs, Wanted(j), StillToSee(j), j \notin found'
               PROVE  StillToSee(j)'
    BY <1>1, <1>2, <2>1, <2>4, <2>5 DEF SeenOrAhead, H!File
  <2>2. PICK i \in 1..5 : i >= tool.at /\ H!At(j, H!Order[i])
    BY DEF StillToSee
  <2>3. i # tool.at
    BY <2>1, <2>2 DEF Wanted, Lookups, H!Works
  <2> QED BY <1>1, <2>1, <2>2, <2>3 DEF StillToSee, H!At
<1>4. ASSUME IsCommand(tool'), tool'.job = tool.job, found' = found,
             tool.cmd \in {"again"} \/ tool.at \notin 1..5, tool.cmd \in Lookups,
             tool'.cmd \in {"again", "in_pending", "in_inbox"}
      PROVE  SeenOrAhead'
  <2>2. \A j \in Jobs : ~StillToSee(j)
    BY <1>4 DEF StillToSee, SeenOrAhead, Lookups
  <2>3. \A j \in Jobs : Wanted(j)' => Wanted(j)
    BY <1>1, <1>4 DEF Wanted, Lookups, H!Named
  <2> QED BY <1>1, <1>2, <1>4, <2>2, <2>3 DEF SeenOrAhead, Lookups, H!File
<1>5. CASE H!LookAgain
  <2>1. /\ tool' = [tool EXCEPT !.cmd = "again"] /\ found' = found
        /\ tool.cmd = "lookup" /\ tool.at \notin 1..5
    BY <1>5, OrderIs DEF H!LookAgain, H!Works, H!Past, H!Goes
  <2>2. IsCommand(tool') /\ tool'.job = tool.job /\ tool'.cmd = "again"
    BY <2>1 DEF SeenOrAhead, IsCommand
  <2> QED BY <1>1, <1>4, <2>1, <2>2 DEF Lookups
<1>6. CASE H!Prefer
  <2>1. /\ \/ tool' = [tool EXCEPT !.cmd = "in_pending"]
           \/ tool' = [tool EXCEPT !.cmd = "in_inbox"]
        /\ found' = found /\ tool.cmd = "again"
    BY <1>6 DEF H!Prefer, H!Works, H!Goes
  <2>2. IsCommand(tool') /\ tool'.job = tool.job /\ tool'.cmd \in {"in_pending", "in_inbox"}
    <3>1. "cmd" \in DOMAIN tool
      BY DEF SeenOrAhead, IsCommand
    <3>2. CASE tool' = [tool EXCEPT !.cmd = "in_pending"]
      BY <3>1, <3>2 DEF SeenOrAhead, IsCommand
    <3>3. CASE tool' = [tool EXCEPT !.cmd = "in_inbox"]
      BY <3>1, <3>3 DEF SeenOrAhead, IsCommand
    <3> QED BY <2>1, <3>2, <3>3
  <2> QED BY <1>1, <1>4, <2>1, <2>2 DEF Lookups
<1>7. CASE H!Confirm \/ H!Looked
  <2>1. /\ \/ tool' = [tool EXCEPT !.cmd = "reported", !.at = 0] /\ tool.cmd = "report"
              /\ tool.at \notin 1..5
           \/ tool' = [tool EXCEPT !.cmd = "looked_up", !.at = 0] /\ tool.cmd = "lookup"
              /\ tool.at \notin 1..5
           \/ tool' = [tool EXCEPT !.cmd = "looked_up", !.at = 0]
              /\ tool.cmd \in {"in_pending", "in_inbox"}
        /\ found \subseteq found'
    <3>1. CASE H!Confirm
      BY <3>1 DEF H!Confirm, H!Goes, H!Finish
    <3>2. CASE H!Looked
      BY <3>2, OrderIs DEF H!Looked, H!Past, H!Works, H!Goes, H!Finish
    <3> QED BY <1>7, <3>1, <3>2
  <2>2. \A j \in Jobs : ~StillToSee(j)
    BY <2>1 DEF StillToSee, SeenOrAhead
  <2>3. /\ IsCommand(tool') /\ tool'.job = tool.job
        /\ tool'.cmd = IF tool.cmd = "report" THEN "reported" ELSE "looked_up"
    <3>1. "cmd" \in DOMAIN tool /\ "at" \in DOMAIN tool
      BY DEF SeenOrAhead, IsCommand
    <3>2. CASE tool' = [tool EXCEPT !.cmd = "reported", !.at = 0] /\ tool.cmd = "report"
      BY <3>1, <3>2 DEF IsCommand
    <3>3. CASE tool' = [tool EXCEPT !.cmd = "looked_up", !.at = 0] /\ tool.cmd # "report"
      BY <3>1, <3>3 DEF IsCommand
    <3> QED BY <2>1, <3>2, <3>3
  <2>4. \A j \in Jobs : Wanted(j)' => Wanted(j)
    BY <1>1, <2>1, <2>3 DEF Wanted, Lookups, H!Named
  <2> QED BY <1>1, <1>2, <2>1, <2>2, <2>3, <2>4 DEF SeenOrAhead, Wanted, Lookups, H!File
<1> QED BY <1>1, <1>3, <1>5, <1>6, <1>7

LEMMA PlacesStep == InOnePlace /\ SeenOrAhead /\ [H!Next]_(H!vars) => InOnePlace' /\ SeenOrAhead'
<1> SUFFICES ASSUME InOnePlace, SeenOrAhead, [H!Next]_(H!vars) PROVE InOnePlace' /\ SeenOrAhead'
  OBVIOUS
<1>1. ASSUME NEW j \in Jobs, H!Moves(j) PROVE InOnePlace' /\ SeenOrAhead'
  BY <1>1, PlacesMove
<1>2. CASE H!ListBucket \/ H!DeleteEntry \/ H!Pruned \/ H!ScanBucket \/ H!FixBegins
           \/ H!Quarantine \/ H!Fixed \/ H!Return
  <2>1. UNCHANGED <<ops, back>> /\ jobFiles' \subseteq jobFiles
    BY <1>2 DEF H!ListBucket, H!DeleteEntry, H!Pruned, H!ScanBucket, H!FixBegins, H!Quarantine,
       H!Fixed,
       H!Return, H!Goes, H!Finish, H!jobs
  <2>2. InOnePlace'
    BY <2>1 DEF InOnePlace, H!At
  <2>3. IsCommand(tool') /\ tool'.cmd \notin Lookups \cup {"report", "reported"}
    <3>0. Lookups = {"lookup", "again", "in_pending", "in_inbox", "looked_up"}
      BY DEF Lookups
    <3>1. CASE H!ListBucket
      BY <3>0, <3>1 DEF H!ListBucket, H!Goes, H!Works, SeenOrAhead, IsCommand
    <3>2. CASE H!DeleteEntry \/ H!Quarantine
      BY <3>0, <3>2 DEF H!DeleteEntry, H!Quarantine, H!Works, SeenOrAhead
    <3>3. CASE H!Pruned \/ H!Fixed
      BY <3>0, <3>3 DEF H!Pruned, H!Fixed, H!Finish, H!Goes, H!Works, SeenOrAhead, IsCommand
    <3>4. CASE H!ScanBucket
      BY <3>0, <3>4 DEF H!ScanBucket, H!Goes, H!Works, SeenOrAhead, IsCommand
    <3>5. CASE H!FixBegins \/ H!Return
      BY <3>0, <3>5 DEF H!FixBegins, H!Return, H!Goes, H!Works, H!NoTool, SeenOrAhead, IsCommand
    <3> QED BY <1>2, <3>1, <3>2, <3>3, <3>4, <3>5
  <2> QED BY <2>2, <2>3 DEF SeenOrAhead, Wanted, Lookups
<1>3. CASE UNCHANGED H!vars
  BY <1>3 DEF H!vars, H!jobs, H!cmd, InOnePlace, SeenOrAhead, Wanted, StillToSee, H!Named, H!At,
     H!Around
<1>4. CASE H!Report \/ H!Fix \/ \E j \in Jobs : H!Lookup(j)
  BY <1>4, PlacesBegin
<1>5. ASSUME NEW keep \in 1..H!Cardinality(Jobs),
             NEW cutoff \in {0} \cup {j \in Jobs : H!Newer(Jobs, j) # {}}, H!Prune(keep, cutoff)
      PROVE  InOnePlace' /\ SeenOrAhead'
  BY <1>5, PlacesBegin
<1>6. CASE H!Look \/ H!LookAgain \/ H!Prefer \/ H!Confirm \/ H!Looked
  BY <1>6, PlacesLook
<1> QED BY <1>1, <1>2, <1>3, <1>4, <1>5, <1>6 DEF H!Next

(* A lookup or a report misses no job but one that was sent back, by a      *)
(* retry or by the daemon's relocation.                                     *)
THEOREM NoneSlipsPast == H!Spec => []H!SeenOrSentBack
<1>1. InOnePlace /\ SeenOrAhead => H!SeenOrSentBack
  BY DEF SeenOrAhead, H!SeenOrSentBack, Wanted, Lookups, StillToSee, H!Works, H!Named
<1> QED BY <1>1, PlacesInit, PlacesStep, PTL DEF H!Spec

(* A behaviour that begins in the queue stays there and is one of its own;  *)
(* in any other, nothing of it changes.                                     *)
LEMMA QueueAlone ==
  /\ Init /\ In("queue") => H!Init
  /\ [Next]_vars /\ In("queue") => In("queue")' /\ [H!Next]_(H!vars)
  /\ [Next]_vars /\ ~In("queue") => ~In("queue")' /\ UNCHANGED H!vars
BY DEF Init, Next, vars, queue, H!vars, H!jobs, H!cmd, In

(* NoneSlipsPast, of a behaviour of MCParts.                            *)
THEOREM LookupsHold == Spec => []SeenOrSentBack
<1>1. H!Init /\ [][H!Next]_(H!vars) => []H!SeenOrSentBack
  BY NoneSlipsPast DEF H!Spec
<1>2. Init /\ [][Next]_vars => [](In("queue") => H!SeenOrSentBack)
  BY <1>1, QueueAlone, PTL
<1>3. SeenOrSentBack <=> (In("queue") => H!SeenOrSentBack)
  BY DEF SeenOrSentBack, In
<1> QED BY <1>2, <1>3, PTL DEF Spec

-----------------------------------------------------------------------------
(* Speech *)

(* The size of a set is the same in Speech as here.                         *)
LEMMA SameCount == \A Y : S!Cardinality(Y) = Cardinality(Y)
BY DEF S!Cardinality, Cardinality

SpeechBounds ==
    /\ S!Nobody \notin Threads
    /\ MaxTokens \in Nat \ {0} /\ Ttl \in Nat /\ MaxTime \in Nat
    /\ MaxCalls \in Nat /\ MaxSaves \in Nat

Backends == [flags : S!Configs, model : {"absent", "loaded"}, lock : Threads \cup {S!Nobody}]
Tokens == [call : Nat, until : Nat]

(* Saves that have not overlapped each began with the config there is.      *)
SavingOk ==
    /\ config \in S!Configs /\ wanted \in S!Configs /\ saves \in 0..MaxSaves
    /\ \A w \in Writers :
         \/ saving[w] = [at |-> "idle"]
         \/ \E fm \in S!Forms, c \in S!Configs :
                S!Listed(fm) /\ saving[w] = [at |-> "read", form |-> fm, copy |-> c]
    /\ DOMAIN saving = Writers
    /\ ~overlapped =>
         /\ config = wanted
         /\ \A w \in Writers : S!Idle(w) \/ saving[w].copy = config
         /\ \A w, v \in Writers : S!Idle(w) \/ S!Idle(v) \/ w = v

SpeechTyped ==
    /\ side \in {"stt", "tts"}
    /\ built \in Seq(Backends) /\ cache = Len(built)
    /\ threadAt \in [Threads -> {"idle", "asking", "looking", "building", "have", "waiting",
                                 "checking", "loading", "ready", "working", "spoken"}]
    /\ flags \in [Threads -> S!Configs] /\ backend \in [Threads -> 0..Len(built)]
    /\ answer \in [Threads -> {"none", "unavailable", "unsupported", "failed", "succeeded"}]
    /\ cacheLock \in Threads \cup {S!Nobody}
    /\ calls \in 0..MaxCalls /\ call \in [Threads -> 0..calls]
    /\ registry \subseteq Tokens /\ IsFiniteSet(registry) /\ now \in Nat

(* What a thread has of the shared backend, and what it holds to get it.    *)
BackendOk(t) ==
    /\ threadAt[t] \in {"looking", "building"} <=> cacheLock = t
    /\ threadAt[t] = "building" => ~S!Hit(t)
    /\ S!Has(t) => backend[t] # 0 /\ S!Mine(t).flags = flags[t]
    /\ S!Has(t) /\ threadAt[t] # "have" => ~S!Null(S!Mine(t))
    /\ threadAt[t] \in {"checking", "loading"} => S!Mine(t).lock = t
    /\ threadAt[t] = "loading" => ~S!Loaded(t)
    /\ threadAt[t] \in {"ready", "working", "spoken"} => S!Loaded(t)
    /\ threadAt[t] # "idle" => answer[t] = "none"
    /\ answer[t] = "succeeded" => backend[t] # 0 /\ flags[t].on /\ S!Loaded(t)

(* A model is being loaded by the one thread that holds its lock, and each  *)
(* backend was built because the one before would not do.                   *)
BuiltOk ==
    \A i \in 1..Len(built) :
        /\ built[i].lock # S!Nobody =>
             LET t == built[i].lock IN backend[t] = i /\ threadAt[t] \in {"checking", "loading"}
        /\ i > 1 => built[i].flags # built[i - 1].flags

(* Each call has a number of its own, and its file until it lets go.        *)
CallOk(t) ==
    /\ \A u \in Threads \ {t} : call[u] = call[t] => call[t] = 0
    /\ threadAt[t] # "idle" => call[t] # 0 /\ \A e \in registry : e.call # call[t]
    /\ threadAt[t] = "spoken" \/ (threadAt[t] = "working" /\ side = "tts") => call[t] \in audio

(* No two tokens are for one call, each has its file, and of any of them    *)
(* there is an oldest.                                                      *)
TokensOk ==
    /\ \A e \in registry : e.call \in audio /\ e.call \in 1..calls
    /\ \A e, f \in registry : e.call = f.call => e = f
    /\ \A X \in SUBSET registry : X # {} => S!OldestOf(X) # {}

SpeechInv ==
    /\ SavingOk /\ SpeechTyped
    /\ \A t \in Threads : BackendOk(t) /\ CallOk(t)
    /\ BuiltOk /\ TokensOk /\ S!NoAudioLeft

-----------------------------------------------------------------------------
(* Saving options *)

SpeechSaves == \E w \in Writers : S!Replace(w) \/ S!SaveFails(w) \/ \E fm \in S!Forms : S!BeginSave(w, fm)

(* Options merged into a config make a config.                              *)
LEMMA MergedConfig ==
    ASSUME NEW c \in S!Configs, NEW fm \in S!Forms, S!Listed(fm)
    PROVE  S!Merged(c, fm) \in S!Configs
<1>1. DOMAIN fm \subseteq {"backend", "model"} /\ DOMAIN c = {"on", "backend", "model"}
  BY DEF S!Forms, S!Configs
<1>2. \A f \in DOMAIN fm : fm[f] \in {"none", "local", "small"}
  BY DEF S!Forms
<1>3. /\ S!Merged(c, fm) = [on |-> IF "on" \in DOMAIN fm THEN fm["on"] ELSE c["on"],
                            backend |-> IF "backend" \in DOMAIN fm THEN fm["backend"] ELSE c["backend"],
                            model |-> IF "model" \in DOMAIN fm THEN fm["model"] ELSE c["model"]]
  BY <1>1 DEF S!Merged
<1> QED BY <1>1, <1>2, <1>3 DEF S!Configs, S!Listed

(* While no two saves overlapped, the config is what its savers asked for.  *)
LEMMA SavesOk ==
    ASSUME SpeechBounds, SavingOk, SpeechSaves
    PROVE  SavingOk'
<1> USE DEF SpeechBounds
<1>1. ASSUME NEW w \in Writers, S!Replace(w) PROVE SavingOk'
  <2>1. PICK fm \in S!Forms, c \in S!Configs :
            S!Listed(fm) /\ saving[w] = [at |-> "read", form |-> fm, copy |-> c]
    BY <1>1 DEF S!Replace, SavingOk
  <2>2. wanted' = S!Merged(wanted, fm) /\ config' = S!Merged(c, fm)
    BY <1>1, <2>1 DEF S!Replace, S!Merged
  <2>3. config' \in S!Configs /\ wanted' \in S!Configs
    BY <2>1, <2>2, MergedConfig DEF SavingOk
  <2>4. ~overlapped => c = config /\ config = wanted /\ \A v \in Writers \ {w} : S!Idle(v)
    BY <2>1 DEF SavingOk, S!Idle
  <2>5. /\ saving' = [saving EXCEPT ![w] = [at |-> "idle"]]
        /\ UNCHANGED <<overlapped, saves>>
    BY <1>1 DEF S!Replace
  <2> QED BY <2>2, <2>3, <2>4, <2>5 DEF SavingOk, S!Idle
<1>2. ASSUME NEW w \in Writers, S!SaveFails(w) PROVE SavingOk'
  BY <1>2 DEF S!SaveFails, SavingOk, S!Idle
<1>3. ASSUME NEW w \in Writers, NEW fm \in S!Forms, S!BeginSave(w, fm) PROVE SavingOk'
  <2>1. /\ S!Idle(w) /\ S!Listed(fm) /\ config \in S!Configs /\ DOMAIN saving = Writers
        /\ saving' = [saving EXCEPT ![w] = [at |-> "read", form |-> fm, copy |-> config]]
        /\ overlapped' = (overlapped \/ \E v \in Writers \ {w} : ~S!Idle(v))
        /\ saves' \in 0..MaxSaves /\ UNCHANGED <<config, wanted>>
    BY <1>3 DEF S!BeginSave, SavingOk
  <2>2. /\ saving'[w] = [at |-> "read", form |-> fm, copy |-> config]
        /\ \A v \in Writers \ {w} : saving'[v] = saving[v]
        /\ DOMAIN saving' = Writers
    BY <2>1
  <2>3. ~overlapped' => \A v \in Writers \ {w} : S!Idle(v)'
    BY <2>1, <2>2 DEF S!Idle
  <2>4. saving'[w].copy = config
    BY <2>2
  <2> QED BY <2>1, <2>2, <2>3, <2>4 DEF SavingOk
<1> QED BY <1>1, <1>2, <1>3 DEF SpeechSaves

-----------------------------------------------------------------------------
(* The shared backend *)

SpeechSame(u) ==
    /\ threadAt'[u] = threadAt[u] /\ flags'[u] = flags[u] /\ backend'[u] = backend[u]
    /\ answer'[u] = answer[u] /\ call'[u] = call[u]

BackendInv == SpeechTyped /\ BuiltOk /\ \A t \in Threads : BackendOk(t)

(* Steps that leave the backends alone: of those, a thread that only waits, *)
LEMMA BackendStays ==
    ASSUME SpeechBounds, BackendInv, SavingOk, NEW t \in Threads, UNCHANGED S!shared,
           \/ S!Ask(t) \/ S!Miss(t) \/ S!Unavailable(t) \/ S!Fast(t) \/ S!Enter(t) \/ S!BeginLoad(t)
           \/ S!MakeFile(t) \/ S!ReadAsIs(t) \/ S!Register(t) \/ S!Abandon(t)
           \/ \E s \in {"unavailable", "unsupported", "failed"} : S!Cannot(t, s)
           \/ \E out \in {"good", "nothing", "raised"} : S!Work(t, out)
    PROVE  BuiltOk' /\ \A u \in Threads : BackendOk(u)'
<1> USE DEF SpeechBounds
<1>1. \A u \in Threads \ {t} : SpeechSame(u)
  BY DEF SpeechSame, S!Ask, S!Miss, S!Unavailable, S!Fast, S!Enter, S!BeginLoad, S!MakeFile,
       S!ReadAsIs, S!Register,
     S!Abandon, S!Cannot, S!Work, S!Goes, S!Answers, BackendInv, SpeechTyped
<1>2. \A u \in Threads \ {t} : BackendOk(u)'
  BY <1>1 DEF SpeechSame, BackendOk, BackendInv, SpeechTyped, S!shared, S!Has, S!Mine, S!Hit,
       S!Loaded, S!Null
<1>3. backend' = backend /\ (threadAt[t] # "idle" => flags'[t] = flags[t])
  BY DEF S!Ask, S!Miss, S!Unavailable, S!Fast, S!Enter, S!BeginLoad, S!MakeFile, S!ReadAsIs,
       S!Register,
     S!Abandon, S!Cannot, S!Work, S!Goes, S!Answers
<1>4. BackendOk(t)'
  <2> USE DEF BackendInv, SpeechTyped, BackendOk, S!shared, S!Has, S!Mine, S!Hit, S!Loaded, S!Null
  <2>1. CASE S!Ask(t)
    <3>1. threadAt'[t] = "asking" /\ answer'[t] = "none" /\ threadAt[t] = "idle"
      BY <2>1 DEF S!Ask, S!Goes
    <3> QED BY <3>1
  <2>2. CASE S!Miss(t)
    BY <2>2 DEF S!Miss, S!Goes
  <2>3. CASE S!Unavailable(t)
    BY <2>3 DEF S!Unavailable, S!Answers, S!Goes
  <2>4. CASE S!Fast(t) \/ S!Enter(t)
    <3>1. CASE S!Fast(t)
      BY <3>1 DEF S!Fast, S!Goes
    <3>2. CASE S!Enter(t)
      BY <3>2 DEF S!Enter, S!Goes
    <3> QED BY <2>4, <3>1, <3>2
  <2>9. CASE S!BeginLoad(t)
    BY <2>9 DEF S!BeginLoad, S!LoadedMeanwhile, S!Goes
  <2>5. CASE S!MakeFile(t) \/ S!ReadAsIs(t)
    BY <2>5 DEF S!MakeFile, S!ReadAsIs, S!Goes
  <2>6. CASE \E s \in {"unavailable", "unsupported", "failed"} : S!Cannot(t, s)
    <3>1. PICK s \in {"unavailable", "unsupported", "failed"} : S!Cannot(t, s)
      BY <2>6
    <3>2. threadAt[t] = "have" /\ threadAt'[t] = "idle" /\ answer'[t] = s /\ cacheLock # t
      BY <3>1 DEF S!Cannot, S!Answers, S!Goes
    <3> HIDE DEF BackendInv, SpeechTyped, SpeechBounds, S!Mine, S!Hit, S!Loaded, S!Null
    <3> QED BY <3>2
  <2>7. CASE S!Register(t) \/ S!Abandon(t)
    BY <2>7 DEF S!Register, S!Abandon, S!Answers, S!Goes
  <2>8. CASE \E out \in {"good", "nothing", "raised"} : S!Work(t, out)
    BY <2>8 DEF S!Work, S!Answers, S!Goes
  <2> QED BY <2>1, <2>2, <2>3, <2>4, <2>5, <2>6, <2>7, <2>8, <2>9
<1>5. BuiltOk'
  <2>1. ASSUME NEW i \in 1..Len(built), built[i].lock # S!Nobody
        PROVE  LET u == built[i].lock IN u \in Threads /\ backend[u] = i
             /\ threadAt'[u] \in {"checking", "loading"}
    <3> DEFINE u == built[i].lock
    <3>1. u \in Threads /\ backend[u] = i /\ threadAt[u] \in {"checking", "loading"}
      <4>1. built[i] \in Backends
        BY <2>1, ElementOfSeq DEF BackendInv, SpeechTyped
      <4> QED BY <2>1, <4>1 DEF BackendInv, Backends, BuiltOk
    <3>2. threadAt[t] \in {"checking", "loading"} => threadAt'[t] \in {"checking", "loading"}
      BY DEF S!Ask, S!Miss, S!Unavailable, S!Fast, S!Enter, S!BeginLoad, S!MakeFile, S!ReadAsIs,
           S!Register,
             S!Abandon, S!Cannot, S!Work, S!Goes, BackendInv, SpeechTyped
    <3> QED BY <1>1, <3>1, <3>2 DEF SpeechSame
  <2> QED BY <1>3, <2>1 DEF BackendInv, BuiltOk, S!shared
<1> QED BY <1>2, <1>4, <1>5

(* the one that takes the lock of the cache, and finds what it looks for;   *)
LEMMA BackendShared ==
    ASSUME SpeechBounds, BackendInv, NEW t \in Threads, S!Lock(t) \/ S!Share(t)
    PROVE  BuiltOk' /\ \A u \in Threads : BackendOk(u)'
<1> USE DEF SpeechBounds
<1>1. /\ \A u \in Threads \ {t} : SpeechSame(u)
      /\ flags' = flags /\ answer' = answer /\ UNCHANGED <<built, cache>>
      /\ threadAt[t] \notin {"checking", "loading"} /\ ~S!Has(t)
  BY DEF SpeechSame, S!Lock, S!Share, S!Goes, BackendInv, SpeechTyped, S!Has
<1>2. \A u \in Threads \ {t} : BackendOk(u)'
  <2>1. \A u \in Threads \ {t} : cacheLock' = u <=> cacheLock = u
    BY DEF S!Lock, S!Share, S!CacheIsFree, BackendInv, BackendOk
  <2> QED BY <1>1, <2>1 DEF SpeechSame, BackendOk, BackendInv, SpeechTyped, S!Has, S!Mine, S!Hit,
             S!Loaded, S!Null
<1>3. BackendOk(t)'
  <2>1. CASE S!Lock(t)
    BY <1>1, <2>1 DEF S!Lock, S!Goes, BackendInv, SpeechTyped, BackendOk, S!Has, S!Hit
  <2>2. CASE S!Share(t)
    <3>1. backend'[t] = cache /\ cache # 0 /\ built[cache].flags = flags[t]
         /\ threadAt'[t] = "have" /\ cacheLock' = S!Nobody
          /\ answer[t] = "none"
      <4>1. cache \in 1..Len(built)
        BY <2>2, LenProperties DEF S!Share, S!Hit, BackendInv, SpeechTyped
      <4>5. built[cache] \in Backends /\ flags[t] \in S!Configs
        BY <4>1, ElementOfSeq DEF BackendInv, SpeechTyped
      <4>2. built[cache].flags \in S!Configs
        BY <4>5 DEF Backends
      <4>3. S!Key(built[cache].flags) = S!Key(flags[t])
        BY <2>2 DEF S!Share, S!Hit
      <4>4. built[cache].flags = flags[t]
        BY <4>2, <4>3, <4>5 DEF S!Key, S!Configs
      <4> QED BY <2>2, <4>4 DEF S!Share, S!Hit, S!Goes, BackendInv, SpeechTyped, BackendOk
    <3> QED BY <1>1, <3>1 DEF BackendOk, S!Has, S!Mine
  <2> QED BY <2>1, <2>2
<1>4. BuiltOk'
  <2>1. ASSUME NEW i \in 1..Len(built), built[i].lock # S!Nobody
        PROVE  built[i].lock \in Threads \ {t}
    <4>1. built[i] \in Backends
      BY <2>1, ElementOfSeq DEF BackendInv, SpeechTyped
    <4> QED BY <1>1, <2>1, <4>1 DEF BackendInv, Backends, BuiltOk
  <2> QED BY <1>1, <2>1 DEF BackendInv, BuiltOk, SpeechSame
<1> QED BY <1>2, <1>3, <1>4

(* the one that builds another;                                             *)
LEMMA BackendBuilt ==
    ASSUME SpeechBounds, BackendInv, NEW t \in Threads, S!Build(t)
    PROVE  BuiltOk' /\ \A u \in Threads : BackendOk(u)'
<1> USE DEF SpeechBounds
<1> DEFINE b == [flags |-> flags[t], model |-> "absent", lock |-> S!Nobody]
<1>1. b \in Backends /\ Len(built) \in Nat
  BY LenProperties DEF BackendInv, SpeechTyped, Backends
<1>2. /\ Len(built') = Len(built) + 1 /\ built'[Len(built) + 1] = b
      /\ \A i \in 1..Len(built) : built'[i] = built[i]
  BY <1>1, AppendProperties DEF S!Build, BackendInv, SpeechTyped
<1>3. /\ \A u \in Threads \ {t} : SpeechSame(u)
      /\ threadAt[t] = "building" /\ threadAt'[t] = "have" /\ backend'[t] = Len(built) + 1
      /\ cacheLock' = S!Nobody /\ cacheLock = t /\ answer'[t] = "none" /\ flags' = flags
      /\ cache' = Len(built) + 1 /\ cache = Len(built)
      /\ cache # 0 => built[cache].flags # flags[t]
  BY <1>1, <1>2 DEF SpeechSame, S!Build, S!Goes, BackendInv, SpeechTyped, BackendOk, S!Hit
<1>4. ASSUME NEW u \in Threads \ {t} PROVE BackendOk(u)'
  <2>1. backend[u] # 0 => backend[u] \in 1..Len(built)
    BY <1>1 DEF BackendInv, SpeechTyped
  <2>2. SpeechSame(u) /\ BackendOk(u) /\ u # cacheLock /\ u # cacheLock' /\ threadAt[u] # "building"
    BY <1>3 DEF BackendInv, BackendOk
  <2> QED BY <1>2, <2>1, <2>2 DEF SpeechSame, BackendOk, S!Has, S!Mine, S!Loaded, S!Null
<1>5. BackendOk(t)'
  BY <1>1, <1>2, <1>3 DEF BackendOk, S!Has, S!Mine
<1>6. BuiltOk'
  <2>1. ASSUME NEW i \in 1..Len(built), built[i].lock # S!Nobody
        PROVE  built[i].lock \in Threads \ {t}
    <4>1. built[i] \in Backends
      BY <2>1, ElementOfSeq DEF BackendInv, SpeechTyped
    <4> QED BY <1>3, <2>1, <4>1 DEF BackendInv, Backends, BuiltOk
  <2>2. ASSUME NEW i \in 1..Len(built), built[i].lock # S!Nobody
        PROVE  LET u == built[i].lock IN backend'[u] = i /\ threadAt'[u] \in {"checking", "loading"}
    BY <1>3, <2>1, <2>2 DEF BackendInv, BuiltOk, SpeechSame
  <2>3. ASSUME NEW i \in 1..Len(built), i > 1 PROVE built[i].flags # built[i - 1].flags
    BY <2>3 DEF BackendInv, BuiltOk
  <2> QED BY <1>1, <1>2, <1>3, <2>2, <2>3 DEF BuiltOk
<1> QED BY <1>4, <1>5, <1>6

(* and those that load its model, under its lock.                           *)
LEMMA BackendLoaded ==
    ASSUME SpeechBounds, BackendInv, NEW t \in Threads,
           S!LoadLock(t) \/ S!FoundLoaded(t) \/ S!EndLoad(t) \/ S!LoadFails(t)
    PROVE  BuiltOk' /\ built' \in Seq(Backends) /\ Len(built') = Len(built)
           /\ \A u \in Threads : BackendOk(u)'
<1> USE DEF SpeechBounds
<1> DEFINE m == backend[t]
<1>1. m \in 1..Len(built) /\ built[m] \in Backends /\ Len(built) \in Nat
  <2>1. m \in 1..Len(built) /\ Len(built) \in Nat
    BY LenProperties DEF S!LoadLock, S!FoundLoaded, S!EndLoad, S!LoadFails, BackendInv, SpeechTyped,
       BackendOk, S!Has
  <2> QED BY <2>1, ElementOfSeq DEF BackendInv, SpeechTyped
<1>2. PICK b \in Backends :
        /\ built' = [built EXCEPT ![m] = b] /\ b.flags = built[m].flags
        /\ b.lock \in {S!Nobody, t} /\ built[m].lock \in {S!Nobody, t}
        /\ b.lock = t <=> threadAt'[t] \in {"checking", "loading"}
        /\ b.model = "loaded" <=> built[m].model = "loaded" \/ S!EndLoad(t)
  <2> DEFINE r == built[m]
             locked == [r EXCEPT !.lock = t]
             left == [r EXCEPT !.lock = S!Nobody]
             done == [r EXCEPT !.lock = S!Nobody, !.model = "loaded"]
  <2>1. /\ {locked, left, done} \subseteq Backends
        /\ locked.flags = r.flags /\ locked.lock = t /\ locked.model = r.model
        /\ left.flags = r.flags /\ left.lock = S!Nobody /\ left.model = r.model
        /\ done.flags = r.flags /\ done.lock = S!Nobody /\ done.model = "loaded"
    BY <1>1 DEF Backends
  <2>2. BackendOk(t) /\ DOMAIN threadAt = Threads
    BY DEF BackendInv, SpeechTyped
  <2>3. CASE S!LoadLock(t)
    <3>1. built' = [built EXCEPT ![m] = locked] /\ r.lock = S!Nobody
         /\ threadAt'[t] = "checking" /\ ~S!EndLoad(t)
      BY <2>2, <2>3 DEF S!LoadLock, S!EndLoad, S!Goes, S!Mine
    <3> HIDE DEF locked
    <3> QED BY <2>1, <3>1
  <2>4. CASE S!FoundLoaded(t)
    <3>1. built' = [built EXCEPT ![m] = left] /\ r.lock = t /\ threadAt'[t] = "ready"
         /\ ~S!EndLoad(t)
      BY <2>2, <2>4 DEF S!FoundLoaded, S!EndLoad, S!Goes, S!Mine, BackendOk
    <3> HIDE DEF left
    <3> QED BY <2>1, <3>1
  <2>5. CASE S!EndLoad(t)
    <3>1. built' = [built EXCEPT ![m] = done] /\ r.lock = t /\ threadAt'[t] = "ready"
      BY <2>2, <2>5 DEF S!EndLoad, S!Goes, S!Mine, BackendOk
    <3> HIDE DEF done
    <3> QED BY <2>1, <2>5, <3>1
  <2>6. CASE S!LoadFails(t)
    <3>1. built' = [built EXCEPT ![m] = left] /\ r.lock = t /\ threadAt'[t] = "idle"
         /\ ~S!EndLoad(t)
      BY <2>2, <2>6 DEF S!LoadFails, S!AfterFailure, S!Answers, S!EndLoad, S!Goes, S!Mine, BackendOk
    <3> HIDE DEF left
    <3> QED BY <2>1, <3>1
  <2> QED BY <2>3, <2>4, <2>5, <2>6
<1>3. /\ built' \in Seq(Backends) /\ Len(built') = Len(built)
      /\ built'[m] = b /\ \A i \in 1..Len(built) \ {m} : built'[i] = built[i]
  BY <1>1, <1>2, ExceptSeq DEF BackendInv, SpeechTyped
<1>4. /\ \A u \in Threads \ {t} : SpeechSame(u)
      /\ UNCHANGED <<backend, flags, cache, cacheLock>>
  BY DEF SpeechSame, S!LoadLock, S!FoundLoaded, S!EndLoad, S!LoadFails, S!Answers, S!Goes,
       BackendInv,
     SpeechTyped
<1>5. ASSUME NEW u \in Threads \ {t} PROVE BackendOk(u)'
  <2>1. backend[u] # 0 => backend[u] \in 1..Len(built)
    BY <1>1 DEF BackendInv, SpeechTyped
  <2>2. SpeechSame(u) /\ BackendOk(u)
    BY <1>4 DEF BackendInv
  <2>3. backend[u] # 0 =>
             /\ built'[backend[u]].flags = built[backend[u]].flags
             /\ built[backend[u]].lock = u => built'[backend[u]] = built[backend[u]]
             /\ built[backend[u]].model = "loaded" => built'[backend[u]].model = "loaded"
    BY <1>2, <1>3, <2>1
  <2>4. S!Hit(u)' <=> S!Hit(u)
    <3>1. cache # 0 => cache \in 1..Len(built)
      BY <1>1 DEF BackendInv, SpeechTyped
    <3>2. cache # 0 => built'[cache].flags = built[cache].flags
      BY <1>2, <1>3, <3>1
    <3> QED BY <1>4, <3>2 DEF S!Hit
  <2> QED BY <1>4, <2>2, <2>3, <2>4 DEF SpeechSame, BackendOk, S!Has, S!Mine, S!Loaded, S!Null
<1>6. BackendOk(t)'
  <2>1. /\ BackendOk(t) /\ S!Has(t) /\ threadAt[t] # "have"
       /\ (threadAt[t] = "loading" <=> S!EndLoad(t) \/ S!LoadFails(t))
        /\ cacheLock # t /\ answer[t] = "none" /\ backend[t] # 0 /\ flags[t] = built[m].flags
        /\ ~S!Null(built[m])
    BY DEF S!LoadLock, S!FoundLoaded, S!EndLoad, S!LoadFails, BackendInv, BackendOk, S!Has, S!Mine
  <2>2. S!Mine(t)' = b /\ flags'[t] = b.flags /\ backend'[t] = m /\ ~S!Null(b)
    BY <1>2, <1>3, <1>4, <2>1 DEF S!Mine, S!Null
  <2>3. \/ threadAt'[t] = "checking" /\ answer'[t] = "none" /\ b.lock = t
        \/ threadAt'[t] = "ready" /\ answer'[t] = "none" /\ b.model = "loaded"
        \/ threadAt'[t] = "idle" /\ answer'[t] = "failed"
    BY <1>2, <2>1 DEF S!LoadLock, S!FoundLoaded, S!LoadedMeanwhile, S!Loaded, S!EndLoad,
         S!LoadFails, S!Answers,
       S!Goes, S!Mine,
       BackendInv, SpeechTyped
  <2> QED BY <1>4, <2>1, <2>2, <2>3 DEF BackendOk, S!Has, S!Loaded
<1>7. BuiltOk'
  <2>1. ASSUME NEW i \in 1..Len(built) \ {m}, built[i].lock # S!Nobody
        PROVE  built[i].lock \in Threads \ {t}
    <4>1. built[i] \in Backends
      BY <2>1, ElementOfSeq DEF BackendInv, SpeechTyped
    <4> QED BY <2>1, <4>1 DEF BackendInv, Backends, BuiltOk
  <2>2. \A i \in 1..Len(built) : built'[i].flags = built[i].flags
    BY <1>2, <1>3
  <2>3. \A i \in 1..Len(built) : i > 1 => i - 1 \in 1..Len(built)
    BY <1>1
  <2> QED BY <1>1, <1>2, <1>3, <1>4, <2>1, <2>2, <2>3 DEF BackendInv, BuiltOk, SpeechSame
<1> QED BY <1>3, <1>5, <1>6, <1>7

-----------------------------------------------------------------------------
(* Calls, their files and their tokens *)

(* No step leaves the types: only Ask starts a call, only Build adds a      *)
(* backend.                                                                 *)
LEMMA SpeechTypedStep ==
    ASSUME SpeechBounds, SpeechInv, [S!Next]_(S!vars)
    PROVE  SpeechTyped'
<1> USE DEF SpeechBounds, SpeechInv, SpeechTyped
<1>1. Len(built) \in Nat
  BY LenProperties
<1>2. CASE \E t \in Threads : S!Ask(t)
  <2>1. PICK t \in Threads : S!Ask(t)
    BY <1>2
  <2>2. /\ threadAt' = [threadAt EXCEPT ![t] = "asking"] /\ flags' = [flags EXCEPT ![t] = config]
        /\ answer' = [answer EXCEPT ![t] = "none"]
        /\ calls' \in 0..MaxCalls /\ calls' = calls + 1 /\ call' = [call EXCEPT ![t] = calls']
        /\ config \in S!Configs
        /\ UNCHANGED <<side, backend, S!shared, S!files>>
    BY <2>1 DEF S!Ask, S!Goes, SavingOk
  <2>3. call' \in [Threads -> 0..calls']
    BY <2>2
  <2> QED BY <2>2, <2>3 DEF S!shared, S!files
<1>12. CASE \E t \in Threads : S!Share(t)
  <2>1. cache \in 0..Len(built)
    BY <1>1
  <2> QED BY <1>12, <2>1 DEF S!Share, S!Goes, S!files
<1>3. CASE \E t \in Threads : S!Lock(t) \/ S!Miss(t) \/ S!Fast(t) \/ S!Enter(t) \/ S!BeginLoad(t)
  BY <1>3 DEF S!Lock, S!Miss, S!Fast, S!Enter, S!BeginLoad, S!Goes, S!shared, S!files
<1>4. CASE \E t \in Threads : S!Build(t)
  <2>1. PICK t \in Threads : S!Build(t)
    BY <1>4
  <2> DEFINE b == [flags |-> flags[t], model |-> "absent", lock |-> S!Nobody]
  <2>2. b \in Backends
    BY DEF Backends
  <2>3. built' \in Seq(Backends) /\ Len(built') = Len(built) + 1
    BY <2>1, <2>2, AppendProperties DEF S!Build
  <2> QED BY <1>1, <2>1, <2>3 DEF S!Build, S!Goes, S!files
<1>5. CASE \E t \in Threads : S!LoadLock(t) \/ S!FoundLoaded(t) \/ S!EndLoad(t) \/ S!LoadFails(t)
  <2>1. built' \in Seq(Backends) /\ Len(built') = Len(built)
    BY <1>5, BackendLoaded DEF BackendInv
  <2> QED BY <1>5, <2>1 DEF S!LoadLock, S!FoundLoaded, S!EndLoad, S!LoadFails, S!Answers, S!Goes,
       S!files
<1>6. CASE \E t \in Threads : S!MakeFile(t) \/ S!ReadAsIs(t)
  BY <1>6 DEF S!MakeFile, S!ReadAsIs, S!Goes, S!shared, S!files
<1>7. CASE \E t \in Threads : \/ S!Unavailable(t) \/ S!Abandon(t)
                              \/ \E s \in {"unavailable", "unsupported", "failed"} : S!Cannot(t, s)
  BY <1>7 DEF S!Unavailable, S!Abandon, S!Cannot, S!Answers, S!Goes, S!shared, S!files
<1>8. CASE \E t \in Threads, out \in {"good", "nothing", "raised"} : S!Work(t, out)
  BY <1>8 DEF S!Work, S!Answers, S!Goes, S!shared
<1>9. CASE \E t \in Threads : S!Register(t)
  <2>1. PICK t \in Threads : S!Register(t)
    BY <1>9
  <2>2. PICK dropped : registry' = (registry \ dropped) \cup {[call |-> call[t],
       until |-> now + Ttl]}
    BY <2>1 DEF S!Register
  <2>3. IsFiniteSet(registry \ dropped)
    BY FS_Difference
  <2>4. IsFiniteSet(registry')
    BY <2>2, <2>3, FS_AddElement
  <2>5. [call |-> call[t], until |-> now + Ttl] \in Tokens
    BY DEF Tokens
  <2> QED BY <2>1, <2>2, <2>4, <2>5 DEF S!Register, S!Answers, S!Goes, S!shared
<1>10. CASE S!Tick \/ SpeechSaves \/ UNCHANGED S!vars
  BY <1>10 DEF S!Tick, SpeechSaves, S!Replace, S!SaveFails, S!BeginSave, S!vars, S!threads,
       S!shared, S!files
<1>11. CASE \E e \in registry : S!Fetch(e)
  <2>1. PICK e \in registry : S!Fetch(e)
    BY <1>11
  <2>2. IsFiniteSet(registry')
    BY <2>1, FS_RemoveElement DEF S!Fetch
  <2> QED BY <2>1, <2>2 DEF S!Fetch, S!threads, S!shared
<1> QED BY <1>2, <1>3, <1>4, <1>5, <1>6, <1>7, <1>8, <1>9, <1>10, <1>11, <1>12
        DEF S!Next, S!Thread, SpeechSaves

OldestIn(R) == \A X \in SUBSET R : X # {} => S!OldestOf(X) # {}

(* One more token leaves an oldest of any of them.                          *)
LEMMA OldestStays ==
    ASSUME NEW R \in SUBSET Tokens, OldestIn(R), NEW x \in Tokens
    PROVE  OldestIn(R \cup {x})
<1> SUFFICES ASSUME NEW X \in SUBSET (R \cup {x}), X # {} PROVE S!OldestOf(X) # {}
  BY DEF OldestIn
<1>1. CASE X \subseteq {x}
  BY <1>1 DEF S!OldestOf, Tokens
<1>2. CASE X \ {x} # {}
  <2>1. PICK m \in X \ {x} : \A f \in X \ {x} :
            m.until < f.until \/ (m.until = f.until /\ m.call <= f.call)
    BY <1>2 DEF OldestIn, S!OldestOf
  <2>2. \A f \in X : f.until \in Nat /\ f.call \in Nat
    BY DEF Tokens
  <2>3. \/ m.until < x.until \/ (m.until = x.until /\ m.call <= x.call)
        \/ x.until < m.until \/ (x.until = m.until /\ x.call <= m.call)
    BY <2>1, <2>2 DEF Tokens
  <2>4. ASSUME m.until < x.until \/ (m.until = x.until /\ m.call <= x.call)
        PROVE  m \in S!OldestOf(X)
    BY <2>1, <2>4 DEF S!OldestOf
  <2>5. ASSUME x \in X, x.until < m.until \/ (x.until = m.until /\ x.call <= m.call)
        PROVE  x \in S!OldestOf(X)
    <3>1. ASSUME NEW f \in X PROVE x.until < f.until \/ (x.until = f.until /\ x.call <= f.call)
      BY <2>1, <2>2, <2>5
    <3> QED BY <2>5, <3>1 DEF S!OldestOf
  <2>6. x \notin X => m \in S!OldestOf(X)
    BY <2>1 DEF S!OldestOf
  <2> QED BY <2>3, <2>4, <2>5, <2>6
<1> QED BY <1>1, <1>2

AudioInv == TokensOk /\ S!NoAudioLeft /\ \A t \in Threads : CallOk(t)
Calls(R) == {e.call : e \in R}

(* A step that touches no file and begins no call.                          *)
LEMMA FilesStay ==
    ASSUME SpeechTyped, AudioInv, NEW t \in Threads, UNCHANGED <<side, S!files, calls, call>>,
           \A u \in Threads \ {t} : threadAt'[u] = threadAt[u],
           threadAt[t] # "idle", threadAt[t] \notin {"working", "spoken"},
                threadAt'[t] \notin {"working", "spoken"}
    PROVE  AudioInv'
<1> USE DEF S!files
<1>1. TokensOk'
  BY DEF AudioInv, TokensOk, S!OldestOf
<1>2. S!NoAudioLeft'
  BY DEF AudioInv, S!NoAudioLeft
<1>3. ASSUME NEW u \in Threads PROVE CallOk(u)'
  BY DEF AudioInv, CallOk
<1> QED BY <1>1, <1>2, <1>3 DEF AudioInv

(* Tokens that go take their files with them.                               *)
LEMMA TokensGo ==
    ASSUME SpeechBounds, SpeechTyped, AudioInv, NEW dropped \in SUBSET registry,
           registry' = registry \ dropped, audio' = audio \ Calls(dropped),
           UNCHANGED <<side, threadAt, calls, call, lost>>
    PROVE  AudioInv'
<1>1. \A e \in registry' : e.call \in audio'
  BY DEF AudioInv, TokensOk, Calls
<1>2. OldestIn(registry)'
  BY DEF AudioInv, TokensOk, OldestIn, S!OldestOf
<1>3. TokensOk'
  BY <1>1, <1>2 DEF AudioInv, TokensOk, OldestIn
<1>4. S!NoAudioLeft'
  <2>1. Cardinality(registry') <= MaxTokens
    BY SameCount, FS_Subset, FS_CardinalityType DEF SpeechBounds, AudioInv, S!NoAudioLeft,
         SpeechTyped
  <2>2. ASSUME NEW c \in audio', c \notin lost, c \in Calls(registry) PROVE c \in Calls(registry')
    BY <2>2 DEF Calls
  <2> QED BY <2>1, <2>2, SameCount DEF AudioInv, S!NoAudioLeft, Calls
<1>5. ASSUME NEW u \in Threads PROVE CallOk(u)'
  BY <1>5 DEF AudioInv, CallOk, Calls
<1> QED BY <1>3, <1>4, <1>5 DEF AudioInv

(* Audio, tokens and calls stay tied to each other in every step.           *)
LEMMA AudioStep ==
    ASSUME SpeechBounds, SpeechInv, [S!Next]_(S!vars)
    PROVE  AudioInv'
<1> USE DEF SpeechBounds
<1>0. AudioInv /\ SpeechTyped
  BY DEF SpeechInv, AudioInv
<1>1. ASSUME NEW t \in Threads, S!Ask(t) PROVE AudioInv'
  <2>1. /\ calls' = calls + 1 /\ calls \in Nat /\ threadAt[t] = "idle" /\ threadAt'[t] = "asking"
        /\ call'[t] = calls + 1 /\ UNCHANGED <<side, S!files>>
        /\ \A u \in Threads \ {t} : threadAt'[u] = threadAt[u] /\ call'[u] = call[u]
        /\ \A u \in Threads : call[u] \in 0..calls
    BY <1>0, <1>1 DEF S!Ask, S!Goes, SpeechTyped
  <2>2. \A e \in registry : e.call \in 1..calls
    BY <1>0 DEF AudioInv, TokensOk
  <2>3. TokensOk'
    BY <1>0, <2>1, <2>2 DEF AudioInv, TokensOk, S!OldestOf, S!files
  <2>4. S!NoAudioLeft'
    BY <1>0, <2>1 DEF AudioInv, S!NoAudioLeft, S!files
  <2>5. ASSUME NEW u \in Threads PROVE CallOk(u)'
    BY <1>0, <2>1, <2>2 DEF AudioInv, CallOk, S!files
  <2> QED BY <2>3, <2>4, <2>5 DEF AudioInv
<1>2. ASSUME NEW t \in Threads,
             \/ S!Lock(t) \/ S!Share(t) \/ S!Miss(t) \/ S!Build(t) \/ S!Unavailable(t) \/ S!Fast(t) \/ S!Enter(t)
             \/ S!LoadLock(t) \/ S!FoundLoaded(t) \/ S!BeginLoad(t) \/ S!EndLoad(t) \/ S!LoadFails(t)
             \/ \E s \in {"unavailable", "unsupported", "failed"} : S!Cannot(t, s)
      PROVE  AudioInv'
  <2>1. /\ UNCHANGED <<side, S!files, calls, call>>
        /\ \A u \in Threads \ {t} : threadAt'[u] = threadAt[u]
        /\ threadAt[t] \notin {"idle", "working", "spoken"} /\ threadAt'[t] \notin {"working",
             "spoken"}
    BY <1>0, <1>2 DEF SpeechTyped, S!Lock, S!Share, S!Miss, S!Build, S!Unavailable, S!Fast,
         S!Enter, S!LoadLock,
       S!FoundLoaded,
       S!BeginLoad, S!EndLoad, S!LoadFails, S!Cannot, S!Answers, S!Goes, S!files
  <2> QED BY <1>0, <2>1, FilesStay
<1>3. ASSUME NEW t \in Threads, S!MakeFile(t) \/ S!ReadAsIs(t) PROVE AudioInv'
  <2>1. /\ UNCHANGED <<side, registry, lost, now, calls, call>>
        /\ threadAt[t] = "ready" /\ threadAt'[t] = "working"
             /\ \A u \in Threads \ {t} : threadAt'[u] = threadAt[u]
        /\ audio \subseteq audio' /\ audio' \subseteq audio \cup {call[t]}
        /\ side = "tts" => call[t] \in audio'
    BY <1>0, <1>3 DEF SpeechTyped, S!MakeFile, S!ReadAsIs, S!Goes, S!files
  <2>2. TokensOk'
    BY <1>0, <2>1 DEF AudioInv, TokensOk, S!OldestOf
  <2>3. S!NoAudioLeft'
    BY <1>0, <2>1 DEF AudioInv, S!NoAudioLeft
  <2>4. ASSUME NEW u \in Threads PROVE CallOk(u)'
    BY <1>0, <2>1 DEF AudioInv, CallOk
  <2> QED BY <2>2, <2>3, <2>4 DEF AudioInv
<1>4. ASSUME NEW t \in Threads, NEW out \in {"good", "nothing", "raised"}, S!Work(t, out)
      PROVE  AudioInv'
  <2>1. /\ UNCHANGED <<side, registry, lost, now, calls, call>>
        /\ threadAt[t] = "working" /\ \A u \in Threads \ {t} : threadAt'[u] = threadAt[u]
        /\ \/ threadAt'[t] = "spoken" /\ audio' = audio /\ side = "tts"
           \/ threadAt'[t] = "idle" /\ audio' = audio \ {call[t]}
    BY <1>0, <1>4 DEF SpeechTyped, S!Work, S!Dropped, S!Answers, S!Goes
  <2>2. TokensOk'
    BY <1>0, <2>1 DEF AudioInv, TokensOk, S!OldestOf, CallOk
  <2>3. S!NoAudioLeft'
    BY <1>0, <2>1 DEF AudioInv, S!NoAudioLeft
  <2>4. ASSUME NEW u \in Threads PROVE CallOk(u)'
    BY <1>0, <2>1 DEF AudioInv, CallOk, SpeechTyped
  <2> QED BY <2>2, <2>3, <2>4 DEF AudioInv
<1>5. ASSUME NEW t \in Threads, S!Abandon(t) PROVE AudioInv'
  <2>1. /\ UNCHANGED <<side, registry, audio, now, calls, call>> /\ lost' = lost \cup {call[t]}
        /\ threadAt[t] = "spoken" /\ threadAt'[t] = "idle"
             /\ \A u \in Threads \ {t} : threadAt'[u] = threadAt[u]
    BY <1>0, <1>5 DEF SpeechTyped, S!Abandon, S!Answers, S!Goes
  <2>2. TokensOk'
    BY <1>0, <2>1 DEF AudioInv, TokensOk, S!OldestOf, CallOk
  <2>3. S!NoAudioLeft'
    BY <1>0, <2>1 DEF AudioInv, S!NoAudioLeft
  <2>4. ASSUME NEW u \in Threads PROVE CallOk(u)'
    BY <1>0, <2>1 DEF AudioInv, CallOk
  <2> QED BY <2>2, <2>3, <2>4 DEF AudioInv
<1>6. ASSUME NEW t \in Threads, S!Register(t) PROVE AudioInv'
  <2> DEFINE dropped == S!Expired \cup S!Evicted
             x == [call |-> call[t], until |-> now + Ttl]
             rest == registry \ dropped
  <2>1. /\ UNCHANGED <<side, calls, call, lost>>
        /\ threadAt[t] = "spoken" /\ threadAt'[t] = "idle"
             /\ \A u \in Threads \ {t} : threadAt'[u] = threadAt[u]
        /\ registry' = rest \cup {x} /\ audio' = audio \ Calls(dropped)
    BY <1>0, <1>6 DEF SpeechTyped, S!Register, S!Answers, S!Goes, Calls
  <2>2. /\ x \in Tokens /\ x.call = call[t] /\ call[t] \in 1..calls /\ call[t] \in audio
        /\ \A e \in registry : e.call # call[t]
    BY <1>0, <2>1 DEF SpeechTyped, Tokens, AudioInv, CallOk
  <2>3. dropped \subseteq registry
    BY DEF S!Expired, S!Evicted, S!OldestOf
  <2>4. OldestIn(registry) /\ OldestIn(rest)
    BY <1>0 DEF AudioInv, TokensOk, OldestIn
  <2>5. OldestIn(rest \cup {x})
    BY <1>0, <2>2, <2>4, OldestStays DEF SpeechTyped
  <2> HIDE DEF x, dropped, rest
  <2>6. TokensOk'
    <3>1. OldestIn(registry)'
      BY <2>1, <2>5 DEF OldestIn, S!OldestOf
    <3>2. \A e \in registry' : e.call \in audio' /\ e.call \in 1..calls
      BY <1>0, <2>1, <2>2, <2>3 DEF AudioInv, TokensOk, Calls, rest
    <3>3. \A e, f \in registry' : e.call = f.call => e = f
      BY <1>0, <2>1, <2>2 DEF AudioInv, TokensOk, rest
    <3> QED BY <2>1, <3>1, <3>2, <3>3 DEF TokensOk, OldestIn
  <2>7. Cardinality(registry') <= MaxTokens
    <3>1. /\ IsFiniteSet(registry \ S!Expired) /\ IsFiniteSet(rest)
          /\ Cardinality(registry \ S!Expired) \in Nat /\ Cardinality(rest) \in Nat
      BY <1>0, FS_Subset, FS_CardinalityType DEF SpeechTyped, rest
    <3>2. Cardinality(rest) < MaxTokens
      <4>1. CASE Cardinality(registry \ S!Expired) < MaxTokens
        <5>1. rest \in SUBSET (registry \ S!Expired)
          BY DEF rest, dropped
        <5> QED BY <3>1, <4>1, <5>1, FS_Subset
      <4>2. CASE Cardinality(registry \ S!Expired) >= MaxTokens
        <5>1. registry \ S!Expired # {}
          BY <4>2, FS_EmptySet
        <5>2. PICK m : m \in S!OldestOf(registry \ S!Expired)
          BY <2>4, <5>1 DEF OldestIn
        <5>3. m \in registry \ S!Expired /\ m \in dropped
          BY <4>2, <5>2, SameCount DEF dropped, S!Evicted, S!OldestOf
        <5>4. rest \in SUBSET ((registry \ S!Expired) \ {m})
          BY <5>3 DEF rest, dropped
        <5>5. /\ IsFiniteSet((registry \ S!Expired) \ {m})
              /\ Cardinality((registry \ S!Expired) \ {m}) = Cardinality(registry \ S!Expired) - 1
          BY <3>1, <5>3, FS_RemoveElement
        <5>6. Cardinality(rest) <= Cardinality(registry \ S!Expired) - 1
          BY <5>4, <5>5, FS_Subset
        <5>7. Cardinality(registry \ S!Expired) <= Cardinality(registry)
          BY <1>0, FS_Subset DEF SpeechTyped
        <5>8. Cardinality(registry) <= MaxTokens /\ Cardinality(registry) \in Nat
          BY <1>0, SameCount, FS_CardinalityType DEF SpeechTyped, AudioInv, S!NoAudioLeft
        <5> QED BY <3>1, <5>6, <5>7, <5>8
      <4> QED BY <3>1, <4>1, <4>2
    <3>3. Cardinality(rest \cup {x}) \in {Cardinality(rest), Cardinality(rest) + 1}
      BY <3>1, FS_AddElement
    <3> QED BY <2>1, <3>1, <3>2, <3>3
  <2>8. S!NoAudioLeft'
    <3>1. ASSUME NEW c \in audio', c \in Calls(registry) PROVE c \in Calls(registry')
      BY <2>1, <3>1 DEF Calls, rest
    <3>2. call[t] \in Calls(registry')
      BY <2>1, <2>2 DEF Calls
    <3> QED BY <1>0, <2>1, <2>7, <3>1, <3>2, SameCount DEF AudioInv, S!NoAudioLeft, Calls
  <2>9. ASSUME NEW u \in Threads PROVE CallOk(u)'
    <3>1. threadAt'[u] # "idle" => call[u] # call[t] /\ u # t
      BY <1>0, <2>1, <2>2, <2>9 DEF AudioInv, CallOk
    <3>2. \A e \in registry' : e \in registry \/ e = x
      BY <2>1 DEF rest
    <3>3. threadAt[u] # "idle" => \A e \in registry : e.call # call[u]
      BY <1>0 DEF AudioInv, CallOk
    <3>4. call[u] \in audio => call[u] \in audio' \/ threadAt[u] = "idle"
      BY <2>1, <2>3, <3>3 DEF Calls
    <3> QED BY <1>0, <2>1, <2>2, <3>1, <3>2, <3>3, <3>4 DEF AudioInv, CallOk
  <2> QED BY <2>6, <2>8, <2>9 DEF AudioInv
<1>7. ASSUME NEW e \in registry, S!Fetch(e) PROVE AudioInv'
  <2>1. /\ registry' = registry \ {e} /\ audio' = audio \ Calls({e})
        /\ UNCHANGED <<side, threadAt, calls, call, lost>>
    BY <1>7 DEF S!Fetch, Calls, S!threads
  <2> QED BY <1>0, <2>1, TokensGo
<1>8. ASSUME S!Tick \/ SpeechSaves \/ UNCHANGED S!vars PROVE AudioInv'
  <2>1. registry' = registry \ {} /\ audio' = audio \ Calls({}) /\ UNCHANGED <<side, threadAt,
       calls, call, lost>>
    BY <1>8 DEF S!Tick, SpeechSaves, S!Replace, S!SaveFails, S!BeginSave, S!vars, S!threads,
         S!files, Calls
  <2> QED BY <1>0, <2>1, TokensGo
<1> QED BY <1>1, <1>2, <1>3, <1>4, <1>5, <1>6, <1>7, <1>8 DEF S!Next, S!Thread, SpeechSaves

-----------------------------------------------------------------------------
(* The speech part begins in its invariant ...                              *)
LEMMA SpeechInit == ASSUME SpeechBounds, S!Init PROVE SpeechInv
<1> USE DEF SpeechBounds, S!Init
<1>1. SavingOk
  BY DEF SavingOk, S!Idle
<1>2. SpeechTyped
  BY EmptySeq, FS_EmptySet DEF SpeechTyped
<1>3. \A t \in Threads : BackendOk(t)
  BY DEF BackendOk, S!Has
<1>4. BuiltOk
  BY DEF BuiltOk
<1>5. TokensOk /\ S!NoAudioLeft /\ \A t \in Threads : CallOk(t)
  BY SameCount, FS_EmptySet DEF TokensOk, S!NoAudioLeft, CallOk
<1> QED BY <1>1, <1>2, <1>3, <1>4, <1>5 DEF SpeechInv

(* ... and no step of a thread, a writer or the clock leaves it.            *)
LEMMA SpeechStep == ASSUME SpeechBounds, SpeechInv, [S!Next]_(S!vars) PROVE SpeechInv'
<1>0. BackendInv /\ SavingOk
  BY DEF SpeechInv, BackendInv
<1>1. SavingOk'
  <2>1. CASE SpeechSaves
    BY <1>0, <2>1, SavesOk
  <2>2. CASE UNCHANGED S!configs
    BY <1>0, <2>2 DEF SavingOk, S!configs, S!Idle
  <2> QED BY <2>1, <2>2 DEF S!Next, S!Thread, SpeechSaves, S!vars, S!configs, S!Ask, S!Lock,
       S!Share, S!Miss,
             S!Build,
       S!Unavailable, S!Fast, S!Enter, S!LoadLock, S!FoundLoaded, S!BeginLoad, S!EndLoad,
            S!LoadFails,
       S!MakeFile, S!ReadAsIs, S!Cannot, S!Work, S!Register, S!Abandon, S!Tick, S!Fetch, S!Answers
<1>2. BuiltOk' /\ \A t \in Threads : BackendOk(t)'
  <2>1. CASE UNCHANGED <<S!threads, S!shared>>
    BY <1>0, <2>1 DEF BackendInv, BuiltOk, BackendOk, S!threads, S!shared, S!Has, S!Mine, S!Hit,
         S!Loaded,
       S!Null
  <2>2. CASE S!Tick \/ SpeechSaves \/ UNCHANGED S!vars \/ \E e \in registry : S!Fetch(e)
    BY <2>1, <2>2 DEF S!Tick, SpeechSaves, S!Replace, S!SaveFails, S!BeginSave, S!Fetch, S!vars
  <2>3. ASSUME NEW t \in Threads, S!Thread(t) PROVE BuiltOk' /\ \A u \in Threads : BackendOk(u)'
    <3>1. UNCHANGED S!shared \/ S!Lock(t) \/ S!Share(t) \/ S!Build(t) \/ S!LoadLock(t) \/ S!FoundLoaded(t)
          \/ S!EndLoad(t) \/ S!LoadFails(t)
      BY <2>3 DEF S!Thread, S!Ask, S!Miss, S!Unavailable, S!Fast, S!Enter, S!BeginLoad,
                  S!MakeFile, S!ReadAsIs, S!Cannot, S!Work, S!Register, S!Abandon
    <3>2. CASE S!Lock(t) \/ S!Share(t)
      BY <1>0, <3>2, BackendShared
    <3>3. CASE S!Build(t)
      BY <1>0, <3>3, BackendBuilt
    <3>4. CASE S!LoadLock(t) \/ S!FoundLoaded(t) \/ S!EndLoad(t) \/ S!LoadFails(t)
      BY <1>0, <3>4, BackendLoaded
    <3> QED BY <1>0, <2>3, <3>1, <3>2, <3>3, <3>4, BackendStays DEF S!Thread
  <2> QED BY <2>2, <2>3 DEF S!Next, SpeechSaves
<1> QED BY <1>1, <1>2, SpeechTypedStep, AudioStep DEF SpeechInv, AudioInv

(* What the runs check follows from the invariant.                          *)
LEMMA SpeechGood ==
    ASSUME SpeechBounds
    PROVE  SpeechInv => S!TypeOK /\ S!OwnBackend /\ S!LoadedOnce /\ S!BuiltOnce
         /\ S!SuccessIsReal /\ S!SavesStay
<1> SUFFICES ASSUME SpeechInv
             PROVE  S!TypeOK /\ S!OwnBackend /\ S!LoadedOnce /\ S!BuiltOnce /\ S!SuccessIsReal
                  /\ S!SavesStay
  OBVIOUS
<1> USE DEF SpeechBounds, SpeechInv
<1>1. DOMAIN built = 1..Len(built) /\ Len(built) \in Nat
  BY LenProperties DEF SpeechTyped
<1>2. S!TypeOK
  <2>1. \A i \in DOMAIN built : built[i].lock # S!Nobody => threadAt[built[i].lock] \in {"checking", "loading"}
    BY <1>1 DEF BuiltOk
  <2>2. cacheLock # S!Nobody => threadAt[cacheLock] \in {"looking", "building"}
    BY DEF SpeechTyped, BackendOk
  <2> QED BY <1>1, <2>1, <2>2 DEF S!TypeOK, SpeechTyped, SavingOk
<1>3. S!OwnBackend /\ S!LoadedOnce
  BY DEF S!OwnBackend, S!LoadedOnce, BackendOk, S!Has, S!Mine
<1>4. S!BuiltOnce
  BY <1>1 DEF S!BuiltOnce, BuiltOk
<1>5. S!SuccessIsReal
  BY DEF S!SuccessIsReal, BackendOk, S!Loaded, TokensOk
<1>6. S!SavesStay
  BY DEF S!SavesStay, SavingOk
<1> QED BY <1>2, <1>3, <1>4, <1>5, <1>6

(* Backends, models, tokens, audio and saved options stay in order, for any *)
(* number of threads, writers, tokens and calls.                            *)
THEOREM SpeechSound ==
    ASSUME SpeechBounds
    PROVE  S!Spec => [](SpeechInv)
  BY SpeechInit, SpeechStep, PTL DEF S!Spec

(* A behaviour that begins with speech stays there and is one of its own;   *)
(* in any other, nothing of it changes.                                     *)
LEMMA SpeechAlone ==
  /\ Init /\ In("speech") => S!Init
  /\ [Next]_vars /\ In("speech") => In("speech")' /\ [S!Next]_(S!vars)
  /\ [Next]_vars /\ ~In("speech") => ~In("speech")' /\ UNCHANGED S!vars
BY DEF Init, Next, vars, speech, S!vars, S!configs, S!threads, S!shared, S!files, In

(* SpeechSound, of a behaviour of MCParts.                                  *)
LEMMA SpeechInvHolds == Spec => [](In("speech") => SpeechInv)
<1>1. S!Spec => []SpeechInv
  BY SpeechSound, PartBounds DEF SpeechBounds, S!Nobody
<1>2. S!Init /\ [][S!Next]_(S!vars) => []SpeechInv
  BY <1>1 DEF S!Spec
<1> QED BY <1>2, SpeechAlone, PTL DEF Spec

(* No call is served by another's backend, no model is loaded or built      *)
(* twice, success is real and a saved option stays, for any number of       *)
(* threads, writers, calls and saves.                                       *)
THEOREM SpeechHolds == Spec => []SpeechIsShared
<1>1. (In("speech") => SpeechInv) => SpeechIsShared
  BY SpeechGood, PartBounds DEF SpeechIsShared, In, SpeechBounds, S!Nobody
<1> QED BY <1>1, SpeechInvHolds, PTL

(* Only tokens and calls under way have audio, for any of them and any      *)
(* time to live.                                                            *)
THEOREM AudioHolds == Spec => []NoAudioLeft
<1>1. (In("speech") => SpeechInv) => NoAudioLeft
  BY DEF NoAudioLeft, In, SpeechInv
<1> QED BY <1>1, SpeechInvHolds, PTL

-----------------------------------------------------------------------------
(* Voice *)

(* A behaviour that begins with voice stays there and is one of its own; in *)
(* any other, nothing of it changes.                                        *)
LEMMA VoiceAlone ==
  /\ Init /\ In("voice") => V!Init
  /\ [Next]_vars /\ In("voice") => In("voice")' /\ [V!Next]_(V!vars)
  /\ [Next]_vars /\ ~In("voice") => ~In("voice")' /\ UNCHANGED V!vars
BY DEF Init, Next, vars, voice, V!vars, V!mind, V!session, V!queue, V!page, V!world, In

(* VoiceSound, of a behaviour of MCParts.                                   *)
LEMMA VoiceInvHolds == Spec => [](In("voice") => V!VoiceInv)
<1>0. V!VoiceBounds
  BY PartBounds DEF V!VoiceBounds, IsFiniteSet, V!IsFiniteSet
<1>1. V!Spec => []V!VoiceInv
  BY <1>0, V!VoiceSound
<1>2. V!Init /\ [][V!Next]_(V!vars) => []V!VoiceInv
  BY <1>1 DEF V!Spec
<1> QED BY <1>2, VoiceAlone, PTL DEF Spec

(* Recordings go with their requests, and what was not asked for by voice   *)
(* is not done, for any requests, jobs, other writers and faults.           *)
THEOREM ConsentHolds == Spec => []VoiceByConsent
<1>1. (In("voice") => V!VoiceInv) => VoiceByConsent
  BY V!VoiceGood DEF VoiceByConsent, In
<1> QED BY <1>1, VoiceInvHolds, PTL

(* What voice says was done was done, by this request and to the job that   *)
(* was listed.                                                              *)
THEOREM VoiceTells == Spec => []VoiceIsTrue
<1>1. (In("voice") => V!VoiceInv) => VoiceIsTrue
  BY V!VoiceGood DEF VoiceIsTrue, In
<1> QED BY <1>1, VoiceInvHolds, PTL

-----------------------------------------------------------------------------
(* ChatLanes *)

ChatBounds == AutoIds \subseteq Nat \ {0} /\ IsFiniteSet(AutoIds)

-----------------------------------------------------------------------------
LessThan == {ss \in Nat \X Nat : ss[1] < ss[2]}

LEMMA LessThanWellFounded == IsWellFoundedOn(LessThan, Nat)
<1>1. OpToRel(<, Nat) = LessThan
  BY DEF OpToRel, LessThan
<1> QED BY <1>1, NatLessThanWellFounded, Zenon

(* Every set of naturals has a least element.                               *)
LEMMA LeastOf ==
    ASSUME NEW X \in SUBSET Nat, X # {}
    PROVE  \E m \in X : \A k \in X : m <= k
<1>1. PICK m \in X : \A k \in X : ~(<<k, m>> \in LessThan)
  BY LessThanWellFounded, WFMin
<1>2. ASSUME NEW k \in X PROVE m <= k
  <2>1. k \in Nat /\ m \in Nat
    OBVIOUS
  <2>2. <<k, m>> \in LessThan <=> k < m
    BY <2>1 DEF LessThan
  <2> QED BY <1>1, <2>1, <2>2
<1> QED BY <1>2

Claimers(m) == {i \in 1..Len(C!Lanes) : C!Claims(C!Lanes[i], m)}

LEMMA LaneOfIs == ASSUME NEW m, Claimers(m) # {} PROVE C!LaneOf(m) = C!Lanes[C!Min(Claimers(m))]
BY DEF C!LaneOf, C!SelectInSeq, Claimers

(* A message goes to the first lane that claims it, and some lane does.     *)
LEMMA FirstLane ==
    ASSUME NEW m
    PROVE  \E i \in 1..20 : /\ C!LaneOf(m) = C!Lanes[i] /\ C!Claims(C!Lanes[i], m)
                            /\ \A j \in 1..20 : j < i => ~C!Claims(C!Lanes[j], m)
<1>1. Len(C!Lanes) = 20 /\ C!Lanes[20] = "other"
  BY DEF C!Lanes
<1>0. C!Claims("other", m)
  BY DEF C!Claims
<1>2. 20 \in Claimers(m) /\ Claimers(m) \in SUBSET Nat
  BY <1>0, <1>1 DEF Claimers
<1>3. PICK i \in Claimers(m) : \A j \in Claimers(m) : i <= j
  BY <1>2, LeastOf
<1>4. C!Min(Claimers(m)) \in Claimers(m) /\ \A j \in Claimers(m) : C!Min(Claimers(m)) <= j
  BY <1>3 DEF C!Min
<1> QED BY <1>1, <1>2, <1>4, LaneOfIs DEF Claimers

-----------------------------------------------------------------------------
Shape(d) ==
    \/ d = C!None
    \/ d = [kind |-> "file", by |-> d.by, step |-> d.step]
    \/ /\ d = [kind |-> "automation", title |-> d.title, when |-> d.when,
              does |-> d.does, on |-> d.on]
       /\ d.when # "daily"

ChatInv ==
    /\ Shape(draft) /\ C!SavedAsShown
    /\ saved = [a \in AutoIds |-> saved[a]]
    /\ dealt \subseteq AutoIds /\ topic \in dealt \cup {0}
    /\ gone \subseteq AutoIds /\ (\A a \in gone : saved[a] = C!Deleted) /\ C!DeletedIsForgotten
    /\ tour \in 0..C!LastStep \cup {C!Off} /\ C!TourShowsItsStep
    /\ kept \in BOOLEAN /\ twice \in BOOLEAN /\ refused = FALSE
    /\ late \in BOOLEAN
    /\ mishaps \in Nat /\ (mishaps = 0 => ~kept /\ ~twice)
    /\ C!NeverGuesses

(* What having got as far as a lane says of the draft and the message.      *)
LEMMA LaneMeans ==
    ASSUME NEW m
    PROVE  /\ C!LaneOf(m) \in {"followup", "derived", "findings", "manage"} => ~C!InFlight(m)
           /\ C!LaneOf(m) \in {"save", "revise"} => C!IsAutomation(draft)
           /\ C!LaneOf(m) = "queue" => draft # C!None /\ ~C!IsAutomation(draft)
           /\ C!LaneOf(m) = "author" => draft = C!None
           /\ C!LaneOf(m) = "advance" => tour < C!LastStep
           /\ tour < C!LastStep => C!LaneOf(m) \in {"inspect", "exit", "advance"}
<1>1. PICK i \in 1..20 : /\ C!LaneOf(m) = C!Lanes[i] /\ C!Claims(C!Lanes[i], m)
                         /\ \A j \in 1..20 : j < i => ~C!Claims(C!Lanes[j], m)
  BY FirstLane
<1>2. C!Claims(C!LaneOf(m), m)
  BY <1>1
<1>5. ASSUME C!LaneOf(m) = "queue" PROVE draft # C!None /\ ~C!IsAutomation(draft)
  <2>1. i = 14
    BY <1>1, <1>5 DEF C!Lanes
  <2>2. ~C!Claims("save", m)
    BY <1>1, <2>1 DEF C!Lanes
  <2>3. C!Claims("queue", m)
    BY <1>2, <1>5
  <2> QED BY <2>2, <2>3 DEF C!Claims
<1>7. ASSUME tour < C!LastStep PROVE C!LaneOf(m) \in {"inspect", "exit", "advance"}
  <2>1. C!Claims("advance", m)
    BY <1>7 DEF C!Claims
  <2>2. i <= 3
    BY <1>1, <2>1 DEF C!Lanes
  <2> QED BY <1>1, <2>2 DEF C!Lanes
<1>9. C!LaneOf(m) \in {"followup", "derived", "findings", "manage"} => ~C!InFlight(m)
  BY <1>2 DEF C!Claims
<1>10. C!LaneOf(m) \in {"save", "revise"} => C!IsAutomation(draft)
  BY <1>2 DEF C!Claims
<1>11. /\ C!LaneOf(m) = "author" => draft = C!None
       /\ C!LaneOf(m) = "advance" => tour < C!LastStep
  BY <1>2 DEF C!Claims
<1> QED BY <1>5, <1>7, <1>9, <1>10, <1>11

-----------------------------------------------------------------------------
(* What leaves the automations as they are.                                 *)
LEMMA FilesOnly ==
    ASSUME ChatInv, C!KeepAutomations, acted' = C!None, mishaps' \in {mishaps, mishaps + 1},
           Shape(draft'), draft' = draft \/ ~C!IsAutomation(draft'), kept' \in {kept, FALSE},
           tour' \in 0..C!LastStep \cup {C!Off}, C!TourShowsItsStep', late' \in BOOLEAN
    PROVE  ChatInv'
<1>1. mishaps' \in Nat /\ (mishaps' = 0 => mishaps = 0) /\ (mishaps > 0 => mishaps' > 0)
  BY DEF ChatInv
<1>2. C!SavedAsShown' /\ C!DeletedIsForgotten' /\ C!NeverGuesses'
  BY <1>1 DEF ChatInv, C!KeepAutomations, C!SavedAsShown, C!DeletedIsForgotten, C!NeverGuesses
<1>3. /\ (saved = [a \in AutoIds |-> saved[a]])' /\ (\A a \in gone : saved[a] = C!Deleted)'
      /\ dealt' \subseteq AutoIds /\ topic' \in dealt' \cup {0} /\ gone' \subseteq AutoIds
  BY DEF ChatInv, C!KeepAutomations
<1>4. kept' \in BOOLEAN /\ twice' \in BOOLEAN /\ refused' = FALSE
  BY DEF ChatInv, C!KeepAutomations
<1>5. mishaps' = 0 => ~kept' /\ ~twice'
  BY <1>1 DEF ChatInv, C!KeepAutomations
<1>6. Shape(draft)'
  BY DEF Shape
<1> QED BY <1>1, <1>2, <1>3, <1>4, <1>5, <1>6 DEF ChatInv

EarlyTurn(l, m) ==
    \/ C!Answers(l) \/ C!Reviews(l) \/ C!FollowsUp(l) \/ C!SavesDerived(l) \/ C!SavesFindings(l)
    \/ C!TourStarts(l) \/ C!TourAdvances(l, m) \/ C!TourEnds(l)
    \/ C!Unresolved(l, m) \/ C!Applies(l) \/ C!AsksTheModel(l, m)

LEMMA FilesAreFiles ==
    \A by, n : /\ Shape(C!File(by)) /\ ~C!IsAutomation(C!File(by))
               /\ Shape(C!TourFile(n)) /\ ~C!IsAutomation(C!TourFile(n))
BY DEF Shape, C!File, C!TourFile, C!IsAutomation

(* The lanes before the automations touch only file previews and the tour.  *)
LEMMA EarlyTurnKeeps ==
    ASSUME ChatInv, NEW m, EarlyTurn(C!LaneOf(m), m), acted' = C!None PROVE ChatInv'
<1> DEFINE l == C!LaneOf(m)
<1>1. /\ C!KeepAutomations /\ mishaps' \in {mishaps, mishaps + 1} /\ late' \in {late, FALSE}
      /\ \/ UNCHANGED <<draft, kept>>
         \/ (\E by : draft' = C!File(by)) /\ kept' = FALSE
         \/ (\E n : draft' = C!TourFile(n)) /\ kept' = FALSE
  <2>1. CASE C!Answers(l) \/ C!Reviews(l) \/ C!FollowsUp(l) \/ C!SavesDerived(l)
             \/ C!SavesFindings(l)
    BY <2>1 DEF C!Answers, C!Reviews, C!FollowsUp, C!SavesDerived, C!SavesFindings, C!Fine,
       C!Installed, C!walk
  <2>2. CASE C!TourStarts(l) \/ C!TourAdvances(l, m) \/ C!TourEnds(l)
    BY <2>2 DEF C!TourStarts, C!TourAdvances, C!TourEnds, C!Shows, C!Ended, C!Fine, C!Mishap,
       C!Installed, C!walk
  <2>3. CASE C!Unresolved(l, m) \/ C!Applies(l) \/ C!AsksTheModel(l, m)
    BY <2>3 DEF C!Unresolved, C!Applies, C!AsksTheModel, C!Fine, C!Installed, C!walk
  <2> QED BY <2>1, <2>2, <2>3 DEF EarlyTurn
<1>2. Shape(draft') /\ (draft' = draft \/ ~C!IsAutomation(draft')) /\ kept' \in {kept, FALSE}
  BY <1>1, FilesAreFiles DEF ChatInv
<1>3. tour' \in 0..C!LastStep \cup {C!Off} /\ C!TourShowsItsStep'
  <2>0. tour \in {0, 1, 2, 3, 9} /\ C!TourShowsItsStep /\ mishaps \in Nat
    BY DEF ChatInv, C!LastStep, C!Off
  <2>6. ASSUME NEW n \in {0, 1, 2, 3}, C!Shows(n)
        PROVE  tour' \in 0..C!LastStep \cup {C!Off} /\ C!TourShowsItsStep'
    BY <2>0, <2>6 DEF C!Shows, C!TourShowsItsStep, C!Installed, C!Mishap, C!walk, C!LastStep, C!Off
  <2>1. CASE C!TourStarts(l)
    BY <2>1, <2>6 DEF C!TourStarts
  <2>2. CASE C!TourAdvances(l, m)
    <3>1. tour < C!LastStep
      BY <2>2, LaneMeans DEF C!TourAdvances
    <3>2. CASE "idle" \in m.says
      BY <1>1, <2>0, <2>2, <3>2 DEF C!TourAdvances, C!TourShowsItsStep, C!Fine, C!walk,
         C!LastStep, C!Off
    <3>3. CASE "idle" \notin m.says
      <4>1. tour + 1 \in {0, 1, 2, 3} /\ C!Shows(tour + 1)
        BY <2>0, <2>2, <3>1, <3>3 DEF C!TourAdvances, C!LastStep
      <4> QED BY <2>6, <4>1
    <3> QED BY <3>2, <3>3
  <2>3. CASE C!TourEnds(l)
    BY <2>3 DEF C!TourEnds, C!Ended, C!TourShowsItsStep, C!LastStep, C!Off
  <2>4. CASE C!Answers(l)
    BY <1>1, <2>0, <2>4 DEF C!Answers, C!TourShowsItsStep, C!Fine, C!walk, C!LastStep, C!Off
  <2>5. CASE C!Reviews(l) \/ C!FollowsUp(l) \/ C!SavesDerived(l) \/ C!SavesFindings(l)
              \/ C!Unresolved(l, m) \/ C!Applies(l) \/ C!AsksTheModel(l, m)
    <3>1. tour' = tour /\ l \notin {"inspect", "exit", "advance"}
      BY <2>5 DEF C!Reviews, C!FollowsUp, C!SavesDerived, C!SavesFindings, C!Unresolved,
         C!Applies, C!AsksTheModel, C!walk
    <3>2. ~(tour < C!LastStep)
      BY <3>1, LaneMeans
    <3> QED BY <2>0, <3>1, <3>2 DEF C!TourShowsItsStep, C!LastStep, C!Off
  <2> QED BY <2>1, <2>2, <2>3, <2>4, <2>5 DEF EarlyTurn
<1>4. late' \in BOOLEAN
  BY <1>1 DEF ChatInv
<1> QED BY <1>1, <1>2, <1>3, <1>4, FilesOnly

(* The answer of the model is a file, or clears one, and may come too late  *)
(* for the tour.                                                            *)
LEMMA AnswersKeep == ASSUME ChatInv, C!ModelAnswers PROVE ChatInv'
<1>1. /\ C!KeepAutomations /\ acted' = C!None /\ mishaps' = mishaps /\ tour' = tour
      /\ kept' \in {kept, FALSE}
      /\ late' = (late \/ (tour < C!LastStep /\ draft' # draft))
      /\ draft' = draft \/ draft' = C!None \/ draft' = C!File("user")
  BY DEF C!ModelAnswers, C!Fine, C!Installed, C!Cleared
<1>2. Shape(draft') /\ (draft' = draft \/ ~C!IsAutomation(draft'))
  <2>1. Shape(C!None) /\ ~C!IsAutomation(C!None)
    BY DEF Shape, C!IsAutomation, C!None
  <2> QED BY <1>1, <2>1, FilesAreFiles DEF ChatInv
<1>3. late' \in BOOLEAN /\ C!TourShowsItsStep'
  <2>1. CASE draft' = draft
    BY <1>1, <2>1 DEF ChatInv, C!TourShowsItsStep
  <2>2. CASE draft' # draft
    BY <1>1, <2>2 DEF ChatInv, C!TourShowsItsStep
  <2> QED BY <2>1, <2>2
<1>4. tour' \in 0..C!LastStep \cup {C!Off}
  BY <1>1 DEF ChatInv
<1> QED BY <1>1, <1>2, <1>3, <1>4, FilesOnly

(* What saves a definition, and what is queued.                             *)
LEMMA SavesKeep ==
    ASSUME ChatInv, acted' = C!None, C!IsAutomation(draft), C!SaveDefinition PROVE ChatInv'
<1>0. mishaps # 0 \/ late \/ ~(tour < C!LastStep)
  BY DEF ChatInv, C!TourShowsItsStep, C!TourFile, C!IsAutomation
<1>1. mishaps \in Nat /\ mishaps' \in {mishaps, mishaps + 1} /\ UNCHANGED <<tour, late, refused>>
      /\ (mishaps > 0 => mishaps' > 0)
  BY DEF ChatInv, C!SaveDefinition, C!Fine, C!Mishap, C!session, C!ghosts, C!walk
<1>2. C!TourShowsItsStep' /\ C!NeverGuesses'
  BY <1>0, <1>1 DEF C!TourShowsItsStep, C!NeverGuesses
<1>3. CASE UNCHANGED <<C!session, saved, C!ghosts>>
  BY <1>1, <1>2, <1>3 DEF ChatInv, C!session, C!ghosts, C!SavedAsShown, C!DeletedIsForgotten
<1>4. ASSUME NEW a \in AutoIds, saved[a] = C!Unused,
             saved' = [saved EXCEPT ![a] = C!Definition(draft)],
             twice' = (twice \/ kept), UNCHANGED <<explained, refused, gone>>,
             C!Cleared \/ (draft' = draft /\ kept' = TRUE /\ C!Mishap),
             UNCHANGED <<topic, dealt>> \/ (topic' = a /\ dealt' = dealt \cup {a}),
             \/ stash' = stash /\ C!Mishap
             \/ stash' = [kind |-> "stash", title |-> draft.title, of |-> a]
      PROVE  ChatInv'
  <2>1. a \notin gone
    BY <1>4 DEF ChatInv, C!Unused, C!Deleted
  <2>2. (saved = [b \in AutoIds |-> saved[b]])' /\ (\A b \in gone : saved'[b] = C!Deleted)
    BY <1>4, <2>1 DEF ChatInv
  <2>3. Shape(draft)' /\ C!SavedAsShown'
    <3>1. CASE C!Cleared
      BY <3>1 DEF C!Cleared, Shape, C!SavedAsShown, C!IsAutomation, C!None
    <3>2. CASE draft' = draft
      BY <1>1, <1>4, <3>2 DEF ChatInv, Shape, C!SavedAsShown
    <3> QED BY <1>4, <3>1, <3>2
  <2>4. C!DeletedIsForgotten' /\ dealt' \subseteq AutoIds /\ topic' \in dealt' \cup {0}
    <3>1. topic' \in {topic, a} /\ (stash' # C!None => stash' = stash \/ stash'.of = a)
      BY <1>4
    <3> QED BY <1>4, <2>1, <3>1 DEF ChatInv, C!DeletedIsForgotten
  <2>5. kept' \in BOOLEAN /\ twice' \in BOOLEAN /\ (mishaps' = 0 => ~kept' /\ ~twice')
    <3>1. kept' \in BOOLEAN /\ twice' \in BOOLEAN /\ (~kept /\ ~twice => ~twice')
      BY <1>4 DEF ChatInv, C!Cleared
    <3>2. mishaps' = 0 => mishaps = 0 /\ ~C!Mishap
      BY <1>1 DEF C!Mishap
    <3>3. ~C!Mishap => ~kept'
      BY <1>4 DEF C!Cleared
    <3>4. mishaps = 0 => ~kept /\ ~twice
      BY DEF ChatInv
    <3> QED BY <3>1, <3>2, <3>3, <3>4
  <2> QED BY <1>1, <1>2, <1>4, <2>2, <2>3, <2>4, <2>5 DEF ChatInv
<1>5. ASSUME NEW a \in AutoIds, saved[a] = C!Unused,
             saved' = [saved EXCEPT ![a] = C!Definition(draft)],
             twice' = (twice \/ kept), UNCHANGED <<explained, refused, gone>>,
             NEW written \in 0..3,
             IF written > 0 THEN C!Cleared ELSE draft' = draft /\ kept' = TRUE,
             IF written > 1 THEN topic' = a /\ dealt' = dealt \cup {a}
                            ELSE UNCHANGED <<topic, dealt>>,
             IF written = 3
             THEN stash' = [kind |-> "stash", title |-> draft.title, of |-> a] /\ C!Fine
             ELSE UNCHANGED stash /\ C!Mishap
      PROVE  ChatInv'
  <2>1. C!Cleared \/ (draft' = draft /\ kept' = TRUE /\ C!Mishap)
    BY <1>5
  <2>2. UNCHANGED <<topic, dealt>> \/ (topic' = a /\ dealt' = dealt \cup {a})
    BY <1>5
  <2>3. \/ stash' = stash /\ C!Mishap
        \/ stash' = [kind |-> "stash", title |-> draft.title, of |-> a]
    BY <1>5
  <2> QED BY <1>4, <1>5, <2>1, <2>2, <2>3
<1> QED BY <1>3, <1>5 DEF C!SaveDefinition

(* A file preview that is submitted leaves the automations alone.           *)
LEMMA QueueKeeps ==
    ASSUME ChatInv, acted' = C!None, draft # C!None, ~C!IsAutomation(draft), C!Queue
    PROVE  ChatInv'
<1>0. C!IsNormal(draft) /\ tour \in {0, 1, 2, 3, 9}
  BY DEF ChatInv, Shape, C!IsAutomation, C!IsNormal, C!LastStep, C!Off
<1>1. mishaps \in Nat /\ mishaps' \in {mishaps, mishaps + 1}
  BY DEF ChatInv, C!Queue, C!Fine, C!Mishap
<1>2. ASSUME draft' = C!None, kept' = FALSE, C!Ended \/ (C!Mishap /\ UNCHANGED C!walk),
             C!KeepAutomations
      PROVE  ChatInv'
  <2>1. tour' \in {0, 1, 2, 3, 9} /\ C!TourShowsItsStep' /\ late' \in BOOLEAN
    <3>1. CASE C!Ended
      <4>1. tour' = 9 /\ late' = FALSE
        BY <3>1 DEF C!Ended, C!Off
      <4>2. C!TourShowsItsStep'
        BY <4>1 DEF C!TourShowsItsStep, C!LastStep
      <4> QED BY <4>1, <4>2
    <3>2. CASE C!Mishap /\ UNCHANGED C!walk
      <4>1. mishaps' # 0 /\ tour' = tour /\ late' = late
        BY <1>1, <3>2 DEF C!Mishap, C!walk
      <4> QED BY <1>0, <4>1 DEF ChatInv, C!TourShowsItsStep
    <3> QED BY <1>2, <3>1, <3>2
  <2>2. Shape(C!None) /\ ~C!IsAutomation(C!None)
    BY DEF Shape, C!IsAutomation, C!None
  <2>3. kept' \in {kept, FALSE}
    BY <1>2
  <2>4. tour' \in 0..C!LastStep \cup {C!Off}
    BY <2>1 DEF C!LastStep, C!Off
  <2> QED BY <1>1, <1>2, <2>1, <2>2, <2>3, <2>4, FilesOnly
<1>3. CASE C!Mishap /\ UNCHANGED refused
           /\ UNCHANGED <<C!session, saved, explained, kept, twice, dealt, gone>>
  <2>1. C!KeepAutomations /\ UNCHANGED <<draft, kept, tour, late>>
    BY <1>3 DEF C!session, C!walk, C!KeepAutomations
  <2>2. C!TourShowsItsStep' /\ Shape(draft')
    BY <1>1, <1>3, <2>1 DEF ChatInv, C!TourShowsItsStep, C!Mishap
  <2> QED BY <1>1, <2>1, <2>2, FilesOnly DEF ChatInv
<1> QED BY <1>0, <1>2, <1>3 DEF C!Queue

-----------------------------------------------------------------------------
(* What is told of an automation preview.                                   *)
LEMMA DraftsKeep ==
    ASSUME ChatInv, NEW m, C!Revises(C!LaneOf(m), m) \/ C!Authors(C!LaneOf(m), m), acted' = C!None
    PROVE  ChatInv'
<1>1. /\ UNCHANGED <<saved, topic, stash, tour, late, job, twice, refused, dealt, gone>>
      /\ mishaps' \in {mishaps, mishaps + 1}
      /\ kept' \in {kept, FALSE} /\ ~(tour < C!LastStep)
  BY LaneMeans DEF C!Revises, C!Authors, C!Offered, C!Fine, C!Mishap, C!Installed, C!walk
<1>9. mishaps \in Nat /\ mishaps' \in Nat /\ (mishaps > 0 => mishaps' > 0)
  BY <1>1 DEF ChatInv
<1> DEFINE Words(w) == explained' = w \/ (explained' = C!Untold /\ C!Mishap)
<1>2. Shape(draft') /\ C!SavedAsShown'
  <2>1. CASE UNCHANGED <<draft, explained>>
    BY <1>9, <2>1 DEF ChatInv, C!SavedAsShown
  <2>2. ASSUME NEW t, NEW w, NEW does, NEW o, NEW when,
               draft' = [kind |-> "automation", title |-> t, when |-> w, does |-> does, on |-> o],
               w = C!Config(when), w # "daily", Words(C!Explained(draft', when))
        PROVE  Shape(draft') /\ C!SavedAsShown'
    <3>1. draft'.title = t /\ draft'.does = does /\ draft'.when = w /\ draft'.on = o
      BY <2>2
    <3>2. Shape(draft')
      BY <2>2, <3>1 DEF Shape
    <3> QED BY <1>9, <2>2, <3>1, <3>2 DEF C!SavedAsShown, C!Explained, C!Mishap
  <2>3. \A t : C!Config(t) # "daily" /\ (t # "daily" => C!Config(t) = t)
    BY DEF C!Config
  <2>4. CASE C!Revises(C!LaneOf(m), m)
    <3>1. C!IsAutomation(draft)
      BY <2>4, LaneMeans DEF C!Revises
    <3>2. /\ draft = [kind |-> "automation", title |-> draft.title,
                      when |-> draft.when, does |-> draft.does,
                      on |-> draft.on]
          /\ draft.when # "daily"
      BY <3>1 DEF ChatInv, Shape, C!IsAutomation, C!None
    <3>3. ASSUME NEW title, draft' = [draft EXCEPT !.title = title],
                 Words(C!Explained(draft', draft'.when))
          PROVE  Shape(draft') /\ C!SavedAsShown'
      <4>1. /\ draft' = [kind |-> "automation", title |-> title,
                         when |-> draft.when, does |-> draft.does,
                         on |-> draft.on]
            /\ draft'.when = draft.when
        BY <3>2, <3>3
      <4> QED BY <2>2, <2>3, <3>2, <3>3, <4>1
    <3>4. ASSUME draft' = [draft EXCEPT !.when = C!Config(m.when)],
                 Words(C!Explained(draft', m.when))
          PROVE  Shape(draft') /\ C!SavedAsShown'
      <4>1. draft' = [kind |-> "automation", title |-> draft.title,
                      when |-> C!Config(m.when), does |-> draft.does,
                      on |-> draft.on]
        BY <3>2, <3>4
      <4> QED BY <2>2, <2>3, <3>4, <4>1
    <3>5. ASSUME draft' = [draft EXCEPT !.does = m.does],
                 Words(C!Explained(draft', draft'.when))
          PROVE  Shape(draft') /\ C!SavedAsShown'
      <4>1. /\ draft' = [kind |-> "automation", title |-> draft.title,
                         when |-> draft.when, does |-> m.does,
                         on |-> draft.on]
            /\ draft'.when = draft.when
        BY <3>2, <3>5
      <4> QED BY <2>2, <2>3, <3>2, <3>5, <4>1
    <3>6. ASSUME draft' = [draft EXCEPT !.on = (m.flag = "on")], Words(explained)
          PROVE  Shape(draft') /\ C!SavedAsShown'
      <4>1. /\ draft' = [kind |-> "automation", title |-> draft.title,
                         when |-> draft.when, does |-> draft.does,
                         on |-> (m.flag = "on")]
            /\ draft'.title = draft.title /\ draft'.does = draft.does /\ draft'.when = draft.when
            /\ draft'.on = (m.flag = "on")
        BY <3>2, <3>6
      <4>2. Shape(draft')
        BY <3>2, <4>1 DEF Shape
      <4> QED BY <1>9, <3>1, <3>6, <4>1, <4>2 DEF ChatInv, C!SavedAsShown, C!Mishap
    <3>7. \/ UNCHANGED <<draft, explained>>
          \/ \E title : /\ draft' = [draft EXCEPT !.title = title]
                        /\ Words(C!Explained(draft', draft'.when))
          \/ /\ draft' = [draft EXCEPT !.when = C!Config(m.when)]
             /\ Words(C!Explained(draft', m.when))
          \/ /\ draft' = [draft EXCEPT !.does = m.does]
             /\ Words(C!Explained(draft', draft'.when))
          \/ draft' = [draft EXCEPT !.on = (m.flag = "on")] /\ Words(explained)
      <4>1. CASE m.name # "none"
        <5>1. /\ draft' = [draft EXCEPT !.title = <<m.name, "named">>]
              /\ Words(C!Explained(draft', draft'.when))
          BY <2>4, <4>1 DEF C!Revises, C!Offered, C!Installed
        <5> QED BY <5>1
      <4>2. CASE m.name = "none" /\ m.when = "badtime"
        BY <2>4, <4>2 DEF C!Revises
      <4>3. CASE m.name = "none" /\ m.when \notin {"none", "badtime"}
        BY <2>4, <4>3 DEF C!Revises, C!Offered, C!Installed
      <4>4. CASE m.name = "none" /\ m.when = "none" /\ m.does # "none"
        BY <2>4, <4>4 DEF C!Revises, C!Offered, C!Installed
      <4>5. CASE m.name = "none" /\ m.when = "none" /\ m.does = "none"
        BY <2>4, <4>5 DEF C!Revises, C!Offered, C!Installed
      <4> QED BY <4>1, <4>2, <4>3, <4>4, <4>5
    <3> QED BY <2>1, <3>3, <3>4, <3>5, <3>6, <3>7
  <2>5. CASE C!Authors(C!LaneOf(m), m)
    <3>1. CASE m.when \in {"none", "badtime"} \/ m.does = "none"
      BY <2>1, <2>5, <3>1 DEF C!Authors
    <3>2. CASE ~(m.when \in {"none", "badtime"} \/ m.does = "none")
      <4>1. /\ draft' = [kind |-> "automation", title |-> <<m.does, m.when>>,
                         when |-> C!Config(m.when), does |-> m.does, on |-> TRUE]
            /\ Words(C!Explained(draft', m.when))
        BY <2>5, <3>2 DEF C!Authors, C!Offered, C!Installed
      <4> QED BY <2>2, <2>3, <4>1
    <3> QED BY <3>1, <3>2
  <2> QED BY <2>4, <2>5
<1>3. /\ (saved = [a \in AutoIds |-> saved[a]])' /\ (\A a \in gone : saved[a] = C!Deleted)'
      /\ dealt' \subseteq AutoIds /\ topic' \in dealt' \cup {0} /\ gone' \subseteq AutoIds
  BY <1>1 DEF ChatInv
<1>4. kept' \in BOOLEAN /\ twice' \in BOOLEAN /\ refused' = FALSE /\ late' \in BOOLEAN
  BY <1>1 DEF ChatInv
<1>5. mishaps' \in Nat /\ (mishaps' = 0 => ~kept' /\ ~twice')
  <2>1. mishaps' \in Nat /\ (mishaps' = 0 => mishaps = 0)
    BY <1>1, <1>9
  <2>2. mishaps = 0 => ~kept /\ ~twice
    BY DEF ChatInv
  <2>3. kept' = kept \/ kept' = FALSE
    BY <1>1
  <2>4. twice' = twice
    BY <1>1
  <2>5. (~kept => ~kept') /\ (~twice => ~twice')
    BY <2>3, <2>4
  <2> QED BY <2>1, <2>2, <2>5
<1>6. C!DeletedIsForgotten' /\ C!NeverGuesses'
  BY <1>1 DEF ChatInv, C!DeletedIsForgotten, C!NeverGuesses
<1>7. tour' \in 0..C!LastStep \cup {C!Off} /\ C!TourShowsItsStep'
  BY <1>1 DEF ChatInv, C!TourShowsItsStep
<1>8. Shape(draft)'
  BY <1>2 DEF Shape
<1> QED BY <1>2, <1>3, <1>4, <1>5, <1>6, <1>7, <1>8 DEF ChatInv

-----------------------------------------------------------------------------
(* What is done to saved automations.                                       *)
LEMMA SoleIs == ASSUME NEW X, NEW a \in C!Sole(X) PROVE X = {a}
BY DEF C!Sole

(* A message names an automation there may be, or none.                     *)
LEMMA MessageIds == ASSUME NEW m \in C!Messages PROVE m.id \in AutoIds \cup {0}
<1>1. \A s, t, d : C!Says(s, t, d).id = 0
  BY DEF C!Says
<1>2. \A s, i, a, h : C!Command(s, i, a, h).id = a
  BY DEF C!Command
<1>3. m \in C!Talk => m.id = 0
  BY <1>1 DEF C!Talk
<1>6. m \in C!Authoring => m.id = 0
  BY <1>1 DEF C!Authoring
<1>4. m \in C!Editing => m.id = 0
  BY DEF C!Editing, C!Plain, C!Says
<1>5. m \in C!Managing => m.id \in AutoIds \cup {0}
  BY <1>2 DEF C!Managing
<1> QED BY <1>3, <1>4, <1>5, <1>6 DEF C!Messages

(* What a command resolves to is saved, and one the user can have meant.    *)
LEMMA ResolvedIsKnown ==
    ASSUME ChatBounds, ChatInv, NEW m \in C!Messages, NEW a \in C!Resolved(m)
    PROVE  a \in AutoIds /\ C!IsSaved(a) /\ C!Known(a, m)
<1>0. topic # 0 => topic \in dealt /\ topic \in AutoIds
  BY DEF ChatInv
<1>1. CASE m.id # 0 /\ C!IsSaved(m.id)
  BY <1>1, MessageIds DEF C!Resolved, C!Known
<1>2. CASE ~(m.id # 0 /\ C!IsSaved(m.id)) /\ topic # 0 /\ C!IsSaved(topic)
  BY <1>0, <1>2 DEF C!Resolved, C!Known
<1> DEFINE early == (m.id # 0 /\ C!IsSaved(m.id)) \/ (topic # 0 /\ C!IsSaved(topic))
<1>3. CASE ~early /\ C!Stashed # {}
  <2>1. a \in C!Stashed
    BY <1>3 DEF C!Resolved
  <2> QED BY <2>1 DEF C!Stashed, C!Known
<1>4. CASE ~early /\ C!Stashed = {} /\ m.hint # "none" /\ C!Titled(m.hint) # {}
  <2>1. a \in C!Sole(C!Titled(m.hint)) /\ C!Titled(m.hint) \in SUBSET AutoIds
    BY <1>4 DEF C!Resolved, C!Titled
  <2>2. C!Titled(m.hint) = {a}
    BY <2>1, SoleIs
  <2> QED BY <2>2 DEF C!Titled, C!Known
<1>5. CASE ~early /\ C!Stashed = {} /\ ~(m.hint # "none" /\ C!Titled(m.hint) # {})
  <2>1. a \in C!Sole(C!All) /\ C!All \in SUBSET AutoIds
    BY <1>5 DEF C!Resolved, C!All
  <2>2. C!All = {a}
    BY <2>1, SoleIs
  <2> QED BY <2>2 DEF C!All, C!Known
<1> QED BY <1>1, <1>2, <1>3, <1>4, <1>5

(* A command about a saved automation shows, changes or deletes that one.   *)
LEMMA ManagesKeep ==
    ASSUME ChatBounds, ChatInv, NEW m \in C!Messages, C!Manages(C!LaneOf(m), m) PROVE ChatInv'
<1>1. PICK a \in C!Resolved(m) : C!Handles(a, m)
  BY DEF C!Manages
<1>2. a \in AutoIds /\ C!IsSaved(a) /\ C!Known(a, m)
  BY <1>1, ResolvedIsKnown
<1>3. a \notin gone
  BY <1>2 DEF ChatInv, C!IsSaved, C!Deleted
<1>12. PICK done \in BOOLEAN, written \in 0..2 :
         /\ acted' = [kind |-> "acted", id |-> a, known |-> C!Known(a, m)]
         /\ saved' = IF ~done THEN saved ELSE [saved EXCEPT ![a] =
                CASE m.intent = "enable" -> [@ EXCEPT !.on = TRUE]
                  [] m.intent = "disable" -> [@ EXCEPT !.on = FALSE]
                  [] m.intent = "delete" -> C!Deleted
                  [] OTHER -> @]
         /\ topic' = IF written = 0 THEN topic ELSE IF m.intent = "delete" THEN 0 ELSE a
         /\ stash' = IF m.intent = "delete" /\ written = 2 THEN C!None ELSE stash
         /\ dealt' = IF m.intent = "delete" \/ written = 0 THEN dealt ELSE dealt \cup {a}
         /\ gone' = IF m.intent = "delete" /\ done /\ written = 2 THEN gone \cup {a} ELSE gone
         /\ IF done /\ written = 2 THEN C!Fine ELSE C!Mishap
         /\ UNCHANGED <<draft, C!walk, job, explained, kept, twice, refused>>
  BY <1>1 DEF C!Handles
<1>4. /\ UNCHANGED <<draft, tour, late, explained, kept, twice, refused>>
      /\ mishaps' \in {mishaps, mishaps + 1}
  BY <1>12 DEF C!Fine, C!Mishap, C!walk
<1>5. /\ mishaps \in Nat /\ mishaps' \in Nat /\ (mishaps' = 0 => mishaps = 0)
      /\ (mishaps > 0 => mishaps' > 0)
  BY <1>4 DEF ChatInv
<1>6. C!NeverGuesses'
  <2>1. acted' = [kind |-> "acted", id |-> a, known |-> C!Known(a, m)]
    BY <1>12
  <2> QED BY <1>2, <2>1 DEF C!NeverGuesses
<1>7. /\ saved' = [b \in AutoIds |-> saved'[b]] /\ gone' \subseteq AutoIds
      /\ \A b \in gone' : saved'[b] = C!Deleted
      /\ gone' \subseteq gone \cup {a} /\ (m.intent # "delete" => gone' = gone)
  <2>1. CASE UNCHANGED <<saved, gone>>
    BY <2>1 DEF ChatInv
  <2>2. ASSUME NEW new, saved' = [saved EXCEPT ![a] = new],
               m.intent = "delete" => new = C!Deleted,
               gone' = gone \/ (m.intent = "delete" /\ gone' = gone \cup {a})
        PROVE  /\ saved' = [b \in AutoIds |-> saved'[b]] /\ gone' \subseteq AutoIds
               /\ \A b \in gone' : saved'[b] = C!Deleted
               /\ gone' \subseteq gone \cup {a} /\ (m.intent # "delete" => gone' = gone)
    BY <1>2, <1>3, <2>2 DEF ChatInv
  <2> DEFINE new == CASE m.intent = "enable" -> [saved[a] EXCEPT !.on = TRUE]
                      [] m.intent = "disable" -> [saved[a] EXCEPT !.on = FALSE]
                      [] m.intent = "delete" -> C!Deleted
                      [] OTHER -> saved[a]
  <2>3. m.intent = "delete" => new = C!Deleted
    OBVIOUS
  <2>4. \/ UNCHANGED <<saved, gone>>
        \/ /\ saved' = [saved EXCEPT ![a] = new]
           /\ gone' = gone \/ (m.intent = "delete" /\ gone' = gone \cup {a})
    <3>1. CASE done
      BY <1>12, <3>1
    <3>2. CASE ~done
      BY <1>12, <3>2
    <3> QED BY <3>1, <3>2
  <2> QED BY <2>1, <2>2, <2>3, <2>4
<1>8. /\ dealt' \subseteq AutoIds /\ topic' \in dealt' \cup {0} /\ C!DeletedIsForgotten'
  <2>1. CASE m.intent = "delete" /\ written = 2
    <3>1. topic' = 0 /\ stash' = C!None /\ dealt' = dealt
      BY <1>12, <2>1
    <3> QED BY <1>7, <3>1 DEF ChatBounds, ChatInv, C!DeletedIsForgotten
  <2>3. CASE ~(m.intent = "delete" /\ written = 2)
    <3>1. stash' = stash /\ gone' = gone
      BY <1>12, <2>3
    <3>2. topic' \in {topic, 0, a} /\ (topic' = a => topic' = topic \/ dealt' = dealt \cup {a})
          /\ (dealt' = dealt \/ dealt' = dealt \cup {a})
      BY <1>2, <1>12 DEF ChatBounds
    <3>3. 0 \notin gone
      BY DEF ChatBounds, ChatInv
    <3> QED BY <1>2, <1>3, <3>1, <3>2, <3>3 DEF ChatInv, C!DeletedIsForgotten
  <2> QED BY <2>1, <2>3
<1>9. /\ Shape(draft)' /\ C!SavedAsShown'
      /\ tour' \in 0..C!LastStep \cup {C!Off} /\ C!TourShowsItsStep'
  BY <1>4, <1>5 DEF ChatInv, Shape, C!SavedAsShown, C!TourShowsItsStep
<1>10. kept' \in BOOLEAN /\ twice' \in BOOLEAN /\ refused' = FALSE /\ late' \in BOOLEAN
  BY <1>4 DEF ChatInv
<1>11. mishaps' = 0 => ~kept' /\ ~twice'
  <2>1. kept' = kept /\ twice' = twice
    BY <1>4
  <2> QED BY <1>5, <2>1 DEF ChatInv
<1> QED BY <1>5, <1>6, <1>7, <1>8, <1>9, <1>10, <1>11 DEF ChatInv

-----------------------------------------------------------------------------
(* No turn leaves the invariant, whichever lane takes the message.          *)
LEMMA TurnKeeps ==
    ASSUME ChatBounds, ChatInv, NEW m \in C!Messages, C!Turn(m) PROVE ChatInv'
<1>1. \/ C!Manages(C!LaneOf(m), m)
      \/ /\ acted' = C!None
         /\ \/ EarlyTurn(C!LaneOf(m), m) \/ C!SubmitsAutomation(C!LaneOf(m))
            \/ C!SubmitsFile(C!LaneOf(m))
            \/ C!Revises(C!LaneOf(m), m) \/ C!Authors(C!LaneOf(m), m)
  BY DEF C!Turn, EarlyTurn
<1>2. CASE acted' = C!None /\ C!SubmitsAutomation(C!LaneOf(m))
  BY <1>2, LaneMeans, SavesKeep DEF C!SubmitsAutomation
<1>3. CASE acted' = C!None /\ C!SubmitsFile(C!LaneOf(m))
  BY <1>3, LaneMeans, QueueKeeps DEF C!SubmitsFile
<1> QED BY <1>1, <1>2, <1>3, ManagesKeep, EarlyTurnKeeps, DraftsKeep

(* The chat begins in its invariant ...                                     *)
LEMMA ChatInit == C!Init => ChatInv
<1> SUFFICES ASSUME C!Init PROVE ChatInv
  OBVIOUS
<1>1. C!SavedAsShown
  BY DEF C!Init, C!SavedAsShown, C!IsAutomation, C!None
<1>2. Shape(draft) /\ C!DeletedIsForgotten /\ C!NeverGuesses
  BY DEF C!Init, Shape, C!DeletedIsForgotten, C!NeverGuesses
<1>3. tour \in 0..C!LastStep \cup {C!Off} /\ C!TourShowsItsStep
  BY DEF C!Init, C!TourShowsItsStep, C!LastStep, C!Off
<1>4. saved = [a \in AutoIds |-> saved[a]] /\ gone = {} /\ dealt = {} /\ topic = 0 /\ mishaps = 0
  BY DEF C!Init
<1>5. kept = FALSE /\ twice = FALSE /\ refused = FALSE /\ late = FALSE
  BY DEF C!Init
<1> QED BY <1>1, <1>2, <1>3, <1>4, <1>5 DEF ChatInv

(* ... and no turn, and nothing that happens elsewhere, leaves it.          *)
LEMMA ChatStep ==
    ASSUME ChatBounds
    PROVE  ChatInv /\ [C!Next]_(C!vars) => ChatInv'
<1> SUFFICES ASSUME ChatInv, [C!Next]_(C!vars) PROVE ChatInv'
  OBVIOUS
<1>1. CASE UNCHANGED C!vars
  <2>1. UNCHANGED <<draft, topic, stash, tour, late, job, saved,
                   explained, kept, twice, refused, dealt, gone, acted, mishaps>>
    BY <1>1 DEF C!vars, C!session, C!walk, C!ghosts
  <2> QED BY <2>1 DEF ChatInv, Shape, C!SavedAsShown, C!DeletedIsForgotten, C!TourShowsItsStep,
             C!NeverGuesses
<1>2. CASE C!Elsewhere
  <2>1. /\ UNCHANGED <<draft, topic, stash, tour, late, job, explained, kept, twice, refused,
                       dealt, gone, mishaps>>
        /\ acted' = C!None
    BY <1>2 DEF C!Elsewhere, C!session, C!walk, C!ghosts
  <2>2. (saved = [a \in AutoIds |-> saved[a]])' /\ \A a \in gone : saved'[a] = C!Deleted
    <3>0. PICK a \in AutoIds : /\ saved[a] = C!Unused \/ C!IsSaved(a)
                              /\ \E new : saved' = [saved EXCEPT ![a] = new]
      BY <1>2 DEF C!Elsewhere
    <3>1. PICK new : saved' = [saved EXCEPT ![a] = new]
      BY <3>0, Zenon
    <3>2. a \notin gone
      BY <3>0 DEF ChatInv, C!IsSaved, C!Unused, C!Deleted
    <3>3. /\ gone \subseteq AutoIds /\ (\A b \in gone : saved[b] = C!Deleted)
          /\ saved = [b \in AutoIds |-> saved[b]]
      BY DEF ChatInv
    <3>4. \A b \in gone : saved'[b] = C!Deleted
      BY <3>0, <3>1, <3>2, <3>3
    <3>5. saved' = [b \in AutoIds |-> saved'[b]]
      BY <3>0, <3>1, <3>3
    <3> QED BY <3>4, <3>5
  <2> QED BY <2>1, <2>2 DEF ChatInv, Shape, C!SavedAsShown, C!DeletedIsForgotten,
     C!TourShowsItsStep,
             C!NeverGuesses
<1>3. CASE C!Handoff
  <2>1. acted' = C!None
    BY <1>3 DEF C!Handoff
  <2>2. CASE C!IsAutomation(draft) /\ C!SaveDefinition
    BY <2>1, <2>2, SavesKeep
  <2>3. CASE C!IsNormal(draft) /\ C!Queue
    <3>1. draft # C!None /\ ~C!IsAutomation(draft)
      BY <2>3 DEF C!IsNormal, C!IsAutomation, C!None
    <3> QED BY <2>1, <2>3, <3>1, QueueKeeps
  <2> QED BY <1>3, <2>2, <2>3 DEF C!Handoff
<1>4. CASE C!Clear
  <2>1. /\ draft' = C!None /\ topic' = 0 /\ stash' = C!None /\ tour' = C!Off /\ acted' = C!None
        /\ dealt' = {} /\ UNCHANGED <<saved, gone, mishaps>> /\ late' = FALSE
    BY <1>4 DEF C!Clear, C!Ended, C!Fine
  <2>2. kept' = FALSE /\ twice' = twice /\ refused' = refused
    BY <1>4 DEF C!Clear
  <2>3. Shape(draft)' /\ C!SavedAsShown'
    BY <2>1 DEF Shape, C!SavedAsShown, C!IsAutomation, C!None
  <2>4. C!DeletedIsForgotten' /\ C!TourShowsItsStep' /\ C!NeverGuesses'
    BY <2>1 DEF ChatBounds, ChatInv, C!DeletedIsForgotten, C!TourShowsItsStep, C!NeverGuesses,
       C!LastStep,
       C!Off
  <2>5. mishaps' = 0 => ~kept' /\ ~twice'
    BY <2>1, <2>2 DEF ChatInv
  <2>6. kept' \in BOOLEAN /\ twice' \in BOOLEAN /\ refused' = FALSE
    BY <2>2 DEF ChatInv
  <2>7. tour' \in 0..C!LastStep \cup {C!Off}
    BY <2>1
  <2> QED BY <2>1, <2>3, <2>4, <2>5, <2>6, <2>7 DEF ChatInv
<1>5. CASE \E m \in C!Messages : C!Turn(m)
  BY <1>5, TurnKeeps
<1>6. CASE C!ModelAnswers
  BY <1>6, AnswersKeep
<1> QED BY <1>1, <1>2, <1>3, <1>4, <1>5, <1>6 DEF C!Next, C!User

(* What the runs check follows from the invariant.                          *)
LEMMA ChatGood ==
    ChatInv => /\ C!SavedAsShown /\ C!SavedOnce /\ C!NeverGuesses /\ C!DeletedIsForgotten
               /\ C!TourShowsItsStep /\ C!NothingRefused
BY DEF ChatInv, C!SavedOnce, C!NothingRefused

(* Previews, saved automations, the topic and the tour stay in order, for   *)
(* any automations and any number of turns.                                 *)
THEOREM ChatSound ==
    ASSUME ChatBounds
    PROVE  C!Spec => []ChatInv
BY ChatInit, ChatStep, PTL DEF C!Spec

-----------------------------------------------------------------------------
(* A message that may revise is in flight before any lane that would take   *)
(* it for something else.                                                   *)
LEMMA RevisionStep ==
    ASSUME C!Next, heard', C!IsNormal(draft)
    PROVE  /\ acted' = C!None
           /\ C!IsNormal(draft') /\ draft'.by \in {"evidence", "research"} => draft' = draft
<1> DEFINE Other == \/ draft' \in {draft, C!None} \/ (\E n : draft' = C!TourFile(n))
                    \/ \E by \in {"user", "script"} : draft' = C!File(by)
<1>1. ASSUME C!ModelAnswers PROVE acted' = C!None /\ Other
  BY <1>1 DEF C!ModelAnswers, C!Installed, C!Cleared
<1>2. ASSUME NEW m \in C!Messages, m.says \cap C!Revising # {}, C!Turn(m)
      PROVE  acted' = C!None /\ Other
  <2>1. C!InFlight(m)
    BY <1>2 DEF C!InFlight
  <2> DEFINE l == C!LaneOf(m)
  <2>2. l \notin {"followup", "derived", "findings", "manage", "save", "revise", "author"}
    <3>1. ~C!IsAutomation(draft) /\ draft # C!None
      BY DEF C!IsNormal, C!IsAutomation, C!None
    <3> QED BY <2>1, <3>1, LaneMeans
  <2>3. acted' = C!None
    BY <1>2, <2>2 DEF C!Turn, C!Manages
  <2>4. CASE C!Answers(l) \/ C!Reviews(l) \/ C!TourStarts(l) \/ C!TourAdvances(l, m)
             \/ C!TourEnds(l)
    BY <2>3, <2>4 DEF C!Answers, C!Reviews, C!TourStarts, C!TourAdvances, C!TourEnds, C!Shows,
       C!Installed
  <2>5. CASE C!Unresolved(l, m) \/ C!Applies(l) \/ C!AsksTheModel(l, m)
    BY <2>3, <2>5 DEF C!Unresolved, C!Applies, C!AsksTheModel, C!Installed
  <2>6. CASE C!SubmitsFile(l)
    BY <2>3, <2>6 DEF C!SubmitsFile, C!Queue, C!session
  <2>7. ~C!FollowsUp(l) /\ ~C!SavesDerived(l) /\ ~C!SavesFindings(l)
        /\ ~C!SubmitsAutomation(l) /\ ~C!Revises(l, m)
        /\ ~C!Authors(l, m) /\ ~C!Manages(l, m)
    BY <2>2 DEF C!FollowsUp, C!SavesDerived, C!SavesFindings, C!SubmitsAutomation, C!Revises,
       C!Authors, C!Manages
  <2> QED BY <1>2, <2>3, <2>4, <2>5, <2>6, <2>7 DEF C!Turn
<1>3. acted' = C!None /\ Other
  BY <1>1, <1>2 DEF C!Next, C!User, C!Elsewhere, C!Handoff, C!Clear
<1>6. \A n, by : /\ C!TourFile(n).by = "tour" /\ C!File(by).by = by
  BY DEF C!TourFile, C!File
<1>7. ~C!IsNormal(C!None)
  BY DEF C!IsNormal, C!None
<1> QED BY <1>3, <1>6, <1>7

(* A message that may revise the file preview never loses it to another     *)
(* lane.                                                                    *)
THEOREM RevisionsHold == C!Spec => C!RevisionsKeepTheDraft
<1>1. [C!Next]_(C!vars) => [heard' /\ C!IsNormal(draft)
         => /\ acted' = C!None
            /\ C!IsNormal(draft') /\ draft'.by \in {"evidence", "research"}
               => draft' = draft]_(C!vars)
  BY RevisionStep
<1> QED BY <1>1, PTL DEF C!Spec, C!RevisionsKeepTheDraft

-----------------------------------------------------------------------------
(* A behaviour that begins in the chat stays there and is one of its own;   *)
(* in any other, nothing of it changes.                                     *)
LEMMA ChatAlone ==
  /\ Init /\ In("chat") => C!Init
  /\ [Next]_vars /\ In("chat") => In("chat")' /\ [C!Next]_(C!vars)
  /\ [Next]_vars /\ ~In("chat") => ~In("chat")' /\ UNCHANGED C!vars
BY DEF Init, Next, vars, chat, C!vars, C!session, C!walk, C!ghosts, In

(* Previews and automations are dealt with as the user was told, for any    *)
(* automations and any number of turns.                                     *)
THEOREM ChatIsToldTrue == Spec => []DoneAsTold
<1>0. ChatBounds
  BY PartBounds DEF ChatBounds
<1>1. C!Spec => []ChatInv
  BY <1>0, ChatSound
<1>2. C!Init /\ [][C!Next]_(C!vars) => []ChatInv
  BY <1>1 DEF C!Spec
<1>3. (In("chat") => ChatInv) => DoneAsTold
  BY ChatGood DEF DoneAsTold, In
<1> QED BY <1>2, <1>3, ChatAlone, PTL DEF Spec

(* No revision of the file preview is taken for anything else, whatever the *)
(* wording and whatever else is in flight.                                  *)
THEOREM RevisionsStay == Spec => RevisionsKeepTheDraft
<1>1. C!Spec => C!RevisionsKeepTheDraft
  BY RevisionsHold
<1>2. C!Init /\ [][C!Next]_(C!vars) => C!RevisionsKeepTheDraft
  BY <1>1 DEF C!Spec
<1> QED BY <1>2, ChatAlone, PTL DEF Spec, RevisionsKeepTheDraft, C!RevisionsKeepTheDraft
=============================================================================
