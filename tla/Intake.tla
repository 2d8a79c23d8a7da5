------------------------------- MODULE Intake -------------------------------
(***************************************************************************)
(* How one job gets into the queue and becomes a mission: the writers of   *)
(* inbox/, the daemon's retried read, the payload contract and the choice  *)
(* of what to run, up to the end of the mission.                           *)
(*                                                                         *)
(* A payload is a record of what its fields are worth to this code:        *)
(* "none" is an absent field, "bad" one its validator refuses.             *)
(***************************************************************************)
EXTENDS Naturals, FiniteSets

CONSTANTS MaxFields,      \* fields of a payload that are present
          Retries,        \* _PARSE_RETRY_ATTEMPTS
          MaxReplans      \* max_replan_attempts

VARIABLES payload,        \* what the submitter asks for
          via,            \* who writes it
          file,           \* inbox/<job>.json
          told,           \* what the submitter was told
          phase,          \* where the daemon is with it
          tries,          \* reads so far
          attempt,        \* plans so far
          first           \* the skill of the mission's first step

writer == <<payload, via, told>>
vars == <<writer, file, phase, tries, attempt, first>>

Fields ==
    [mission : {"none", "blank", "known", "unknown"}, goal : {"none", "open", "free"},
     steps : {"none", "open", "run", "bad"}, write : {"none", "ok", "bad"},
     org : {"none", "ok", "bad"}, child : {"none", "ok", "bad"},
     kind : {"none", "goal", "inline_steps", "assistant_question", "other"},
     hint : {"none", "free"}, approval : {"none", "required"}]

Present(p) == {f \in DOMAIN p : p[f] # "none"}
Payloads(n) == {p \in Fields : Cardinality(Present(p)) \in 1..n}

(* The panel sends a mission or a goal, the file commands inline steps; the *)
(* helper's other callers (Vera, automations) send any payload, and a      *)
(* person may drop a file of their own into inbox/.                        *)
Vias == {"panel", "files", "helper", "drop"}
Sends(v, p) ==
    CASE v = "panel" -> Present(p) \in {{"mission"}, {"goal"}, {"goal", "approval"}}
                        /\ p.mission # "blank"
      [] v = "files" -> p.goal = "free" /\ p.steps = "run" /\ Present(p) = {"goal", "steps"}
      [] OTHER -> TRUE
UsesHelper == via \in {"helper", "files"}

-----------------------------------------------------------------------------
(* The payload contract *)

Anchored(p) ==
    p.mission \notin {"none", "blank"} \/ \E f \in {"goal", "steps", "write", "org"} : p[f] # "none"

(* detect_request_kind: the declared kind, then the fields in this order.  *)
Detect(p) ==
    CASE p.kind # "none" -> p.kind
      [] p.kind = "none" /\ p.mission \notin {"none", "blank"} -> "mission_id"
      [] p.kind = "none" /\ p.mission \in {"none", "blank"} /\ p.org # "none" -> "file_organize"
      [] p.kind = "none" /\ p.mission \in {"none", "blank"} /\ p.org = "none"
         /\ p.goal # "none" -> "goal"
      [] OTHER -> IF p.steps # "none" THEN "inline_steps" ELSE "other"

(* The lane the daemon really takes: another order, and a blank mission id *)
(* is a mission id.                                                        *)
Lane(p) ==
    CASE p.mission # "none" -> "mission"
      [] p.mission = "none" /\ p.steps # "none" -> "steps"
      [] p.mission = "none" /\ p.steps = "none" /\ p.org # "none" -> "org"
      [] p.mission = "none" /\ p.steps = "none" /\ p.org = "none" /\ p.write # "none" -> "write"
      [] OTHER -> IF p.goal # "none" THEN "goal" ELSE "none"

(* enrich_queue_job_payload fixes the kind in job_intent and fills an      *)
(* absent goal from the intent the caller sent along.                      *)
Enriched(p) == [p EXCEPT !.kind = Detect(p), !.goal = IF @ = "none" THEN p.hint ELSE @]
Written == IF via = "drop" THEN payload ELSE Enriched(payload)

(* _normalize_payload and the child request: what may raise.               *)
WellFormedLane(p) == p[IF Lane(p) \in {"write", "org"} THEN Lane(p) ELSE "child"] # "bad"
WellFormed(p) == p.write # "bad" /\ p.org # "bad" /\ p.child # "bad"
Normalized == [Written EXCEPT !.kind = Detect(Written)]
Kind == Detect(Normalized)

(* classify_simple_operator_intent: a goal such as "open firefox" allows   *)
(* one family of first skills, any other goal allows all.                  *)
Skills == {"open", "run", "write"}
Family == IF Kind = "goal" /\ Normalized.goal = "open" THEN {"open"} ELSE Skills

-----------------------------------------------------------------------------
Init ==
    /\ payload \in Payloads(MaxFields) /\ via \in Vias /\ Sends(via, payload)
    /\ file = "none" /\ told = "nothing" /\ phase = "watch"
    /\ tries = 0 /\ attempt = 0 /\ first = "none"

Daemon == <<phase, tries, attempt, first>>

(* add_inbox_payload refuses a payload with no anchor, then opens the      *)
(* final name and writes it where it is.                                   *)
Refuse ==
    /\ UsesHelper /\ told = "nothing" /\ file = "none" /\ ~Anchored(payload)
    /\ told' = "refused"
    /\ UNCHANGED <<payload, via, file, Daemon>>

OpenInPlace ==
    /\ via # "panel" /\ told = "nothing" /\ file = "none"
    /\ UsesHelper => Anchored(payload)
    /\ file' = "torn"
    /\ UNCHANGED <<writer, Daemon>>

(* The panel writes .<job>.tmp.json and renames it.                        *)
OpenTemporaryBare == file' = "torn"
OpenTemporary == file' = "tmp"
WriteTemporary ==
    /\ via = "panel" /\ told = "nothing" /\ file = "none"
    /\ OpenTemporary
    /\ UNCHANGED <<writer, Daemon>>

Close ==
    /\ file \in {"torn", "tmp"} /\ told = "nothing"
    /\ file' = "whole" /\ told' = "accepted"
    /\ UNCHANGED <<payload, via, Daemon>>

(* The writer is killed half way through.                                  *)
Killed ==
    /\ file \in {"torn", "tmp"} /\ told = "nothing"
    /\ told' = "killed"
    /\ UNCHANGED <<payload, via, file, Daemon>>

-----------------------------------------------------------------------------
Ready == file \in {"torn", "whole"}          \* _is_ready_job_file
Ends(verdict) == phase' = verdict /\ UNCHANGED <<writer, file, tries, attempt, first>>

Pick ==
    /\ phase = "watch" /\ Ready
    /\ phase' = "read"
    /\ UNCHANGED <<writer, file, tries, attempt, first>>

(* _load_job_payload_with_retry reads the file anew on every attempt.      *)
Reread == file = "whole"
Read ==
    /\ phase = "read" /\ tries < Retries
    /\ tries' = tries + 1
    /\ phase' = IF Reread THEN "load" ELSE IF tries' = Retries THEN "unparsable" ELSE "read"
    /\ UNCHANGED <<writer, file, attempt, first>>

Load ==
    /\ phase = "load"
    /\ Ends(CASE Detect(Written) = "assistant_question" -> "advisory"
              [] Detect(Written) # "assistant_question" /\ ~WellFormed(Written) -> "invalid"
              [] OTHER -> IF Written.approval = "required" THEN "parked" ELSE "plan")

(* The command that approves a parked job builds its mission again, looks  *)
(* at no family and plans once; if that fails the job stays parked.        *)
Approve ==
    /\ phase = "parked"
    /\ Ends("rebuild")

(* _build_mission_for_payload, one lane each; the planner may answer a     *)
(* goal with any first skill, or fail in a way worth another plan.         *)
Build(skill) ==
    /\ phase \in {"plan", "rebuild"}
    /\ \/ Lane(Normalized) = "mission" /\ Normalized.mission = "known" /\ skill = "open"
       \/ Lane(Normalized) = "steps" /\ skill = Normalized.steps
       \/ Lane(Normalized) \in {"org", "write"} /\ skill = "write"
       \/ Lane(Normalized) = "goal" /\ skill \in Skills
    /\ attempt' = attempt + 1
    /\ phase' = (IF phase = "plan" THEN "check" ELSE "run") /\ first' = skill
    /\ UNCHANGED <<writer, file, tries>>

MayNotBuild ==
    \/ Lane(Normalized) = "mission" /\ Normalized.mission # "known"
    \/ Lane(Normalized) = "steps" /\ Normalized.steps = "bad"
    \/ Lane(Normalized) = "goal"

BuildFails ==
    /\ phase \in {"plan", "rebuild"} /\ MayNotBuild
    /\ Ends(IF phase = "plan" THEN "invalid" ELSE "parked")

NoRequest ==
    /\ phase \in {"plan", "rebuild"} /\ Lane(Normalized) = "none"
    /\ Ends(IF phase = "plan" THEN "no_request" ELSE "parked")

(* A job of kind goal is planned again when the text of the error looks    *)
(* like a mistake about a skill or its arguments, in whichever lane.       *)
MayReplan == Kind = "goal" /\ attempt < MaxReplans
BuildAgain ==
    /\ phase = "plan" /\ MayNotBuild /\ MayReplan
    /\ attempt' = attempt + 1
    /\ UNCHANGED <<writer, file, phase, tries, first>>

(* The first step is checked against the goal on every attempt.            *)
Fits == first \in Family
Check ==
    /\ phase = "check"
    /\ Ends(IF Fits THEN "run" ELSE "mismatch")

Resumed == Written.approval = "required"
(* A failed run that can be planned again goes back to the planner.        *)
RunFails(replannable) ==
    /\ phase = "run"
    /\ replannable => Kind = "goal" /\ ~Resumed /\ attempt <= MaxReplans
    /\ Ends(IF replannable THEN "plan" ELSE "failed")
RunEnds ==
    /\ phase = "run"
    /\ Ends("done")

Submitting == Refuse \/ OpenInPlace \/ WriteTemporary \/ Close \/ Killed
Next ==
    \/ Submitting
    \/ Pick \/ Read \/ Load \/ Approve
    \/ \E skill \in Skills : Build(skill)
    \/ BuildFails \/ NoRequest \/ BuildAgain \/ Check \/ RunEnds
    \/ \E b \in BOOLEAN : RunFails(b)

Spec == Init /\ [][Next]_vars

-----------------------------------------------------------------------------
(* The types: in particular no job is read or planned more often than the  *)
(* two limits allow.                                                       *)
TypeOK ==
    /\ payload \in Payloads(MaxFields) /\ via \in Vias
    /\ file \in {"none", "tmp", "torn", "whole"}
    /\ told \in {"nothing", "refused", "accepted", "killed"}
    /\ phase \in {"watch", "read", "load", "unparsable", "advisory", "invalid", "parked", "plan", "rebuild",
                  "no_request", "check", "mismatch", "run", "failed", "done"}
    /\ tries \in 0..Retries /\ attempt \in 0..(MaxReplans + 1)
    /\ first \in Skills \cup {"none"}

(* A job fails as unparsable only while its writer has not returned, and   *)
(* never one the panel wrote: what a caller was told is queued, and what   *)
(* is renamed into place, is readable however the reads fall.              *)
UnparsableIsUnfinished ==
    [][phase' = "unparsable" /\ phase # "unparsable" => told # "accepted" /\ via # "panel"]_vars

(* What the submission helper accepts has something the daemon can run:    *)
(* the anchors it looks for and the lanes of the daemon are written in two *)
(* files and must not drift apart.                                         *)
AcceptedHasARequest == told = "accepted" /\ UsesHelper => phase # "no_request"

(* Enrichment never turns a job into another: the lane and the kind of the *)
(* payload as the daemon sees it are those of the payload as submitted.    *)
EnrichmentKeepsTheLane ==
    Anchored(payload) => Lane(Normalized) = Lane(payload) /\ Kind = Detect(payload)

(* A mission runs only if every structured part of the job is sound, the   *)
(* ones this lane does not use and the child it would start included.      *)
StartedIsSound == phase \in {"run", "failed", "done"} =>
    payload.write # "bad" /\ payload.org # "bad" /\ payload.child # "bad"

(* A goal that names one simple action starts with a skill of its family,  *)
(* after a new plan as well as after the first; only what an operator      *)
(* approved at the hard gate goes round the check.                         *)
GoalsKeepTheirFamily ==
    phase \in {"run", "failed", "done"} /\ ~Resumed /\ Kind = "goal" /\ payload.goal = "open"
        => first = "open"

(* Whatever way a payload comes in: what the submission helper accepts has *)
(* something the daemon can run, enrichment never turns a job into another *)
(* one, a mission runs only if every structured part of the job is sound,  *)
(* and a goal that names one simple action starts with a skill of its      *)
(* family, after a new plan as well as after the first.                    *)
WhatRunsIsSound ==
    /\ TypeOK /\ AcceptedHasARequest /\ EnrichmentKeepsTheLane
    /\ StartedIsSound /\ GoalsKeepTheirFamily
=============================================================================
