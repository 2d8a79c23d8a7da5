---------------------------- MODULE MissionQueue ----------------------------
(***************************************************************************)
(* The VoxeraOS mission queue: job files moving between bucket            *)
(* directories, the sidecars that travel beside them, the queue daemon     *)
(* that claims, plans and runs jobs, and the operator processes (CLI or    *)
(* panel) that approve, deny, cancel, retry and delete the same jobs at    *)
(* the same time, with no lock in common but the file system.              *)
(*                                                                         *)
(* One step is one file-system operation that another process can observe: *)
(* the rename of a job, the rename of its state sidecar, and the writes    *)
(* that settle it are separate steps, and so is each step of a mission.    *)
(***************************************************************************)
EXTENDS Naturals, Sequences

CONSTANTS
    Jobs,           \* job file stems; a stem is submitted once
    NoJob,          \* the job of a process that holds none
    Daemons,        \* daemon processes; the flock admits one while it holds
    Ops,            \* CLI and panel processes, one command at a time each
    Skills,         \* skills of the registry
    Plans,          \* missions: non-empty sequences of skills
    PlansOf,        \* the missions planning a job can yield
    AskSkills,      \* the policy answers "ask" and nothing auto-approves it
    DenySkills,     \* the policy, or a capability check, answers "deny"
    GoalJobs,       \* planned by the brain, so they may be replanned
    HardJobs,       \* payload says approval_required: true
    BadJobs,        \* payload that cannot be parsed or normalised
    AssistantJobs,  \* payload asks for the read-only advisory lane
    Intake,         \* where job files appear: inbox, pending, root
    ChildrenOf,     \* stems the enqueue_child request of a job may take
    MaxReplans,     \* max_replan_attempts
    Retention,      \* TRUE iff failed-artifact retention is configured
    ExclusiveLock,  \* FALSE after `queue unlock --force` on a live daemon
    MaxCommands,    \* bound: operator commands in a behaviour
    MaxStops        \* bound: crashes and shutdown signals in a behaviour

Procs == Daemons \cup Ops
NoPlan == << >>

ASSUME ProcsAssumption == Daemons \cap Ops = {}
ASSUME JobsAssumption ==
    /\ NoJob \notin Jobs
    /\ GoalJobs \cup HardJobs \cup BadJobs \cup AssistantJobs \subseteq Jobs
ASSUME PlansAssumption ==
    /\ Plans \subseteq Seq(Skills) \ {NoPlan}
    /\ PlansOf \in [Jobs -> SUBSET Plans]
ASSUME ChildrenAssumption ==
    /\ ChildrenOf \in [Jobs -> SUBSET Jobs]
    /\ \A j, k \in Jobs : j # k => ChildrenOf[j] \cap ChildrenOf[k] = {}
ASSUME BoundsAssumption ==
    /\ MaxReplans \in Nat /\ MaxCommands \in Nat /\ MaxStops \in Nat
    /\ Intake \subseteq {"inbox", "pending", "root"}
    /\ Retention \in BOOLEAN /\ ExclusiveLock \in BOOLEAN

VARIABLES
    loc,        \* loc[j]: the directory that holds <j>.json
    side,       \* side[j]: <j>.state.json: its directory and what it says
    meta,       \* meta[j]: pending/<j>.pending.json: mission and resume step
    art,        \* art[j]: approvals/<j>.approval.json: the skill it shows
    err,        \* err[j]: failed/<j>.error.json exists
    grants,     \* approvals/grants.json: the skills approved for always
    paused,     \* the .paused marker exists
    shutdown,   \* shutdown[d]: _shutdown_requested of daemon d
    pc,         \* pc[p]: where process p is
    cmd,        \* cmd[p]: what p does, and
    job,        \* job[p]: to which job
    src,        \* src[p], dst[p]: the move p makes
    dst,
    plan,       \* plan[p]: the mission p runs,
    step,       \* step[p]: the step it has reached,
    key,        \* key[p]: the step _approved_steps lets it take (0: none),
    out,        \* out[p]: and how it came out
    reps,       \* reps[p]: replan_count
    todo,       \* todo[d]: the rest of the directory listing d iterates over
    did,        \* history: did[j]: the <<mission, step>> that succeeded for j
    approved,   \* history: approved[j]: the <<mission, step>> an approve resumed
    cmds,       \* bound: operator commands left
    stops       \* bound: crashes and signals left

files == <<loc, side, meta, art, err, grants>>
flags == <<paused, shutdown>>
hist == <<did, approved>>
bounds == <<cmds, stops>>
moves == <<cmd, job, src, dst>>
runs == <<plan, step, key, out, reps>>
locals == <<moves, runs>>
vars == <<files, flags, pc, locals, todo, hist, bounds>>

-----------------------------------------------------------------------------
(* Types *)

Terminal == {"done", "failed", "canceled"}
Buckets == {"inbox", "pending"} \cup Terminal
Locations == Buckets \cup {"absent", "root", "gone"}
Lifecycles ==
    {"queued", "planning", "running", "awaiting_approval", "advisory_running",
     "done", "failed", "step_failed", "blocked", "canceled"}
Outcomes == {"succeeded", "failed", "blocked", "denied", "canceled"}
TerminalLifecycles == {"done", "failed", "step_failed", "blocked", "canceled"}

NoSide == [at |-> "none", life |-> "queued", term |-> "none"]
NoMeta == [plan |-> NoPlan, step |-> 0]

SideRec == [at : Buckets \cup {"none"}, life : Lifecycles,
            term : Outcomes \cup {"none"}]
MetaRec == [plan : Plans \cup {NoPlan}, step : Nat]
Commands == {"none", "recover", "relocate", "process",
             "approve", "deny", "cancel", "retry"}
Results == {"none", "invalid", "gate", "pending", "ok", "fail", "retry",
            "blocked", "shutdown"}
DaemonPCs == {"down", "recover", "idle", "relocate", "scan", "claimed", "load",
              "plan", "advise"}
MovePCs == {"rename", "sidecar", "settle", "unlink"}
PCs == DaemonPCs \cup MovePCs \cup {"resume", "run", "ran"}

FilesTyped ==
    /\ loc \in [Jobs -> Locations]
    /\ side \in [Jobs -> SideRec]
    /\ meta \in [Jobs -> MetaRec]
    /\ art \in [Jobs -> Skills \cup {"none", "hard"}]
    /\ err \in [Jobs -> BOOLEAN]
    /\ grants \in SUBSET Skills

ProcsTyped ==
    /\ pc \in [Procs -> PCs] /\ cmd \in [Procs -> Commands]
    /\ job \in [Procs -> Jobs \cup {NoJob}]
    /\ src \in [Procs -> Locations] /\ dst \in [Procs -> Buckets]
    /\ plan \in [Procs -> Plans \cup {NoPlan}]
    /\ step \in [Procs -> Nat] /\ key \in [Procs -> Nat]
    /\ out \in [Procs -> Results] /\ reps \in [Procs -> Nat]

TypeOK ==
    /\ FilesTyped /\ ProcsTyped
    /\ paused \in BOOLEAN
    /\ shutdown \in [Daemons -> BOOLEAN]
    /\ todo \in [Daemons -> SUBSET Jobs]
    /\ did \in [Jobs -> SUBSET (Plans \X Nat)]
    /\ approved \in [Jobs -> SUBSET (Plans \X Nat)]
    /\ cmds \in Nat
    /\ stops \in Nat

-----------------------------------------------------------------------------
(* The files *)

(* _update_job_state: the sidecar is rewritten where it is, and created in *)
(* the directory `dir` of the job reference when there is none.  An        *)
(* outcome of "none" keeps the one already recorded.                       *)
TermAfter(old, life, term) ==
    IF term # "none" THEN term
    ELSE IF old # "none" THEN old
    ELSE CASE life = "done" -> "succeeded"
           [] life = "awaiting_approval" -> "blocked"
           [] OTHER -> "none"

StateWritten(old, dir, life, term) ==
    [at |-> IF old.at = "none" THEN dir ELSE old.at,
     life |-> life,
     term |-> TermAfter(IF old.at = "none" THEN "none" ELSE old.term, life, term)]

UpdateJobState(j, dir, life, term) ==
    side' = [side EXCEPT ![j] = StateWritten(@, dir, life, term)]

(* The units prune_failed_artifacts may remove after j has failed; ages    *)
(* and counts decide which, so any of them.                                *)
Prunable(j) == {k \in Jobs : loc[k] = "failed" \/ err[k] \/ k = j}
PruneChoices(j) == IF Retention THEN SUBSET Prunable(j) ELSE {{}}

-----------------------------------------------------------------------------
(* Processes *)

Init ==
    /\ loc = [j \in Jobs |-> "absent"]
    /\ side = [j \in Jobs |-> NoSide]
    /\ meta = [j \in Jobs |-> NoMeta]
    /\ art = [j \in Jobs |-> "none"]
    /\ err = [j \in Jobs |-> FALSE]
    /\ grants = {}
    /\ paused = FALSE
    /\ shutdown = [d \in Daemons |-> FALSE]
    /\ pc = [p \in Procs |-> IF p \in Daemons THEN "down" ELSE "idle"]
    /\ cmd = [p \in Procs |-> "none"]
    /\ job = [p \in Procs |-> NoJob]
    /\ src = [p \in Procs |-> "absent"] /\ dst = [p \in Procs |-> "inbox"]
    /\ plan = [p \in Procs |-> NoPlan]
    /\ step = [p \in Procs |-> 0] /\ key = [p \in Procs |-> 0]
    /\ out = [p \in Procs |-> "none"] /\ reps = [p \in Procs |-> 0]
    /\ todo = [d \in Daemons |-> {}]
    /\ did = [j \in Jobs |-> {}]
    /\ approved = [j \in Jobs |-> {}]
    /\ cmds = MaxCommands
    /\ stops = MaxStops

Goto(p, c) == pc' = [pc EXCEPT ![p] = c] /\ UNCHANGED locals

(* Turn to another job, or to none; nothing of the last one is left.       *)
Turn(p, c, what, j, from, to) ==
    /\ pc' = [pc EXCEPT ![p] = c]
    /\ cmd' = [cmd EXCEPT ![p] = what]
    /\ job' = [job EXCEPT ![p] = j]
    /\ src' = [src EXCEPT ![p] = from]
    /\ dst' = [dst EXCEPT ![p] = to]
    /\ plan' = [plan EXCEPT ![p] = NoPlan]
    /\ step' = [step EXCEPT ![p] = 0]
    /\ key' = [key EXCEPT ![p] = 0]
    /\ out' = [out EXCEPT ![p] = "none"]
    /\ reps' = [reps EXCEPT ![p] = 0]

Rest(p, c) == Turn(p, c, "none", NoJob, "absent", "inbox")

(* Decide to move the job of p, with this result.                          *)
Move(p, from, to, result) ==
    /\ pc' = [pc EXCEPT ![p] = "rename"]
    /\ src' = [src EXCEPT ![p] = from]
    /\ dst' = [dst EXCEPT ![p] = to]
    /\ out' = [out EXCEPT ![p] = result]
    /\ UNCHANGED <<cmd, job, plan, step, key, reps>>

(* The command is over: the loop it was called from, or the shell.         *)
Caller(what) ==
    CASE what = "process" -> "scan"
      [] what \in {"relocate", "recover"} -> what
      [] OTHER -> "idle"

Return(p) == Rest(p, Caller(cmd[p]))

Command == cmds > 0 /\ cmds' = cmds - 1 /\ UNCHANGED stops
Stoppage == stops > 0 /\ stops' = stops - 1 /\ UNCHANGED cmds

(* The steps of a mission the record of p has reached.                     *)
FinishedEarly(p) == step[p] >= Len(plan[p])
Finished(p) == step[p] > Len(plan[p])
CurrentSkill(p) == plan[p][step[p]]

-----------------------------------------------------------------------------
(* The environment: submissions, the pause marker, signals and crashes *)

(* A job file appears: in the inbox (add_inbox_payload), or dropped by hand *)
(* in pending/ or in the legacy queue root.  Child stems are enqueued only. *)
Submit(j, b) ==
    /\ loc[j] = "absent"
    /\ \A k \in Jobs : j \notin ChildrenOf[k]
    /\ loc' = [loc EXCEPT ![j] = b]
    /\ UNCHANGED <<side, meta, art, err, grants, flags, pc, locals, todo, hist, bounds>>

Pause ==
    /\ ~paused /\ Command
    /\ paused' = TRUE
    /\ UNCHANGED <<files, shutdown, pc, locals, todo, hist>>

Resume ==
    /\ paused
    /\ paused' = FALSE
    /\ UNCHANGED <<files, shutdown, pc, locals, todo, hist, bounds>>

(* SIGTERM.  The handler is installed after startup recovery; before that  *)
(* the signal kills the process, which is Crash.                           *)
RequestShutdown(d) ==
    /\ pc[d] \notin {"down", "recover"} /\ cmd[d] # "recover"
    /\ ~shutdown[d] /\ Stoppage
    /\ shutdown' = [shutdown EXCEPT ![d] = TRUE]
    /\ UNCHANGED <<files, paused, pc, locals, todo, hist>>

(* A process dies between any two of its file operations; the flock of a   *)
(* daemon goes with it, and so do its keys in _approved_steps.             *)
Crash(p) ==
    /\ Stoppage
    /\ IF p \in Daemons
       THEN /\ pc[p] # "down"
            /\ Rest(p, "down")
            /\ shutdown' = [shutdown EXCEPT ![p] = FALSE]
            /\ todo' = [todo EXCEPT ![p] = {}]
       ELSE /\ pc[p] # "idle"
            /\ Rest(p, "idle")
            /\ UNCHANGED <<shutdown, todo>>
    /\ UNCHANGED <<files, paused, hist>>

-----------------------------------------------------------------------------
(* The daemon: startup, recovery, the tick *)

(* _detected_inflight_pending_jobs *)
Inflight == {j \in Jobs : loc[j] = "pending"
                       /\ (meta[j] # NoMeta \/ side[j].at = "pending")}

Start(d) ==
    /\ pc[d] = "down"
    /\ ExclusiveLock => \A e \in Daemons : pc[e] = "down"
    /\ todo' = [todo EXCEPT ![d] = Inflight]
    /\ Goto(d, "recover")
    /\ UNCHANGED <<files, flags, hist, bounds>>

Recover(d, j) ==
    /\ pc[d] = "recover" /\ j \in todo[d]
    /\ todo' = [todo EXCEPT ![d] = @ \ {j}]
    /\ Turn(d, "rename", "recover", j, "pending", "failed")
    /\ UNCHANGED <<files, flags, hist, bounds>>

(* Approvals without a pending job and state sidecars without a job go to  *)
(* recovery/startup-<ts>/, which nothing reads again.                      *)
RecoverOrphans(d) ==
    /\ pc[d] = "recover" /\ todo[d] = {}
    /\ art' = [j \in Jobs |-> IF loc[j] = "pending" THEN art[j] ELSE "none"]
    /\ side' = [j \in Jobs |-> IF loc[j] \in Buckets THEN side[j] ELSE NoSide]
    /\ Goto(d, "idle")
    /\ UNCHANGED <<loc, meta, err, grants, flags, todo, hist, bounds>>

UnseenOnly == {j \in Jobs : loc[j] = "inbox" /\ side[j].at = "none"}
InboxListing == {j \in Jobs : loc[j] = "inbox"}

PollsUntilEmpty(d) == ~shutdown[d] \/ InboxListing # {}
Polls(d) == ~shutdown[d]

(* One poll: first the jobs dropped outside the inbox, then the inbox.     *)
Tick(d) ==
    /\ pc[d] = "idle" /\ Polls(d)
    /\ todo' = [todo EXCEPT ![d] = {j \in Jobs : loc[j] \in {"root", "pending"}}]
    /\ Goto(d, "relocate")
    /\ UNCHANGED <<files, flags, hist, bounds>>

MisplacedOrParked(j) == loc[j] \in {"root", "pending"}

(* A job in pending/ is "misplaced" exactly when its .pending.json is not  *)
(* there.                                                                  *)
Misplaced(j) == loc[j] = "root" \/ (loc[j] = "pending" /\ meta[j] = NoMeta)

Relocate(d, j) ==
    /\ pc[d] = "relocate" /\ j \in todo[d]
    /\ todo' = [todo EXCEPT ![d] = @ \ {j}]
    /\ IF Misplaced(j)
       THEN Turn(d, "rename", "relocate", j, loc[j], "inbox")
       ELSE UNCHANGED <<pc, locals>>
    /\ UNCHANGED <<files, flags, hist, bounds>>

Scan(d) ==
    /\ pc[d] = "relocate" /\ todo[d] = {}
    /\ IF shutdown[d] \/ paused
       THEN Goto(d, "idle") /\ UNCHANGED todo
       ELSE /\ todo' = [todo EXCEPT ![d] = InboxListing]
            /\ Goto(d, "scan")
    /\ UNCHANGED <<files, flags, hist, bounds>>

(* process_job_file looks once more before it takes the job.               *)
Claim(d, j) ==
    /\ pc[d] = "scan" /\ ~shutdown[d] /\ j \in todo[d]
    /\ todo' = [todo EXCEPT ![d] = @ \ {j}]
    /\ IF loc[j] = "inbox"
       THEN Turn(d, "claimed", "process", j, "absent", "inbox")
       ELSE UNCHANGED <<pc, locals>>
    /\ UNCHANGED <<files, flags, hist, bounds>>

EndTick(d) ==
    /\ pc[d] = "scan" /\ (shutdown[d] \/ todo[d] = {})
    /\ todo' = [todo EXCEPT ![d] = {}]
    /\ Goto(d, "idle")
    /\ UNCHANGED <<files, flags, hist, bounds>>

Stop(d) ==
    /\ pc[d] = "idle" /\ shutdown[d]
    /\ shutdown' = [shutdown EXCEPT ![d] = FALSE]
    /\ Goto(d, "down")
    /\ UNCHANGED <<files, paused, todo, hist, bounds>>

-----------------------------------------------------------------------------
(* The daemon: process_job_file *)

Keep == UNCHANGED <<flags, todo, bounds>>
KeepFiles == UNCHANGED files

(* queued, then planning.  A shutdown seen here leaves the job in the inbox. *)
MarkPlanning(d) ==
    /\ pc[d] = "claimed"
    /\ UpdateJobState(job[d], "inbox", "planning", "none")
    /\ IF shutdown[d] THEN Return(d) ELSE Goto(d, "load")
    /\ UNCHANGED <<loc, meta, art, err, grants, hist>> /\ Keep

(* The payload is gone, or it does not parse, or it does not validate.     *)
LoadInvalid(d) ==
    LET j == job[d] IN
    /\ pc[d] = "load"
    /\ loc[j] # "inbox" \/ j \in BadJobs
    /\ Move(d, "inbox", "failed", "invalid")
    /\ KeepFiles /\ UNCHANGED hist /\ Keep

LoadAssistant(d) ==
    LET j == job[d] IN
    /\ pc[d] = "load" /\ loc[j] = "inbox"
    /\ j \in AssistantJobs \ BadJobs
    /\ UpdateJobState(j, "inbox", "advisory_running", "none")
    /\ Goto(d, "advise")
    /\ UNCHANGED <<loc, meta, art, err, grants, hist>> /\ Keep

GatedOnce(j) == j \in HardJobs \ (BadJobs \cup AssistantJobs) /\ art[j] = "none"
Gated(j) == j \in HardJobs \ (BadJobs \cup AssistantJobs)

(* approval_required: true sends the job to pending/ before any planning.  *)
LoadGate(d) ==
    LET j == job[d] IN
    /\ pc[d] = "load" /\ loc[j] = "inbox"
    /\ Gated(j)
    /\ Move(d, "inbox", "pending", "gate")
    /\ KeepFiles /\ UNCHANGED hist /\ Keep

LoadPlan(d) ==
    LET j == job[d] IN
    /\ pc[d] = "load" /\ loc[j] = "inbox"
    /\ j \notin BadJobs \cup AssistantJobs /\ ~Gated(j)
    /\ Goto(d, "plan")
    /\ KeepFiles /\ UNCHANGED hist /\ Keep

(* Where a result sends the job.                                            *)
DestinationLax(result) ==
    CASE result = "pending" -> "pending"
      [] result \in {"fail", "retry"} -> "failed"
      [] OTHER -> "done"
Destination(result) ==
    CASE result = "pending" -> "pending"
      [] result = "ok" -> "done"
      [] OTHER -> "failed"

(* The advisory lane runs no mission: it answers or it fails.              *)
Advise(d, result) ==
    /\ pc[d] = "advise" /\ result \in {"ok", "fail"}
    /\ Move(d, "inbox", Destination(result), result)
    /\ KeepFiles /\ UNCHANGED hist /\ Keep

Replannable(p) == job[p] \in GoalJobs /\ reps[p] < MaxReplans

(* The planner answers with a mission; its state says running before the   *)
(* first step, whatever has become of the job meanwhile.                   *)
Plan(d, m) ==
    /\ pc[d] = "plan" /\ m \in PlansOf[job[d]]
    /\ UpdateJobState(job[d], "inbox", "running", "none")
    /\ pc' = [pc EXCEPT ![d] = "run"]
    /\ plan' = [plan EXCEPT ![d] = m]
    /\ step' = [step EXCEPT ![d] = 1]
    /\ UNCHANGED <<moves, key, out, reps>>
    /\ UNCHANGED <<loc, meta, art, err, grants, hist>> /\ Keep

(* Planning raises, retryably or not, or its first skill contradicts the   *)
(* simple intent of the goal.                                              *)
PlanFails(d, retryable) ==
    /\ pc[d] = "plan"
    /\ IF retryable /\ Replannable(d)
       THEN reps' = [reps EXCEPT ![d] = @ + 1]
            /\ UNCHANGED <<pc, moves, plan, step, key, out>>
       ELSE Move(d, "inbox", "failed", "invalid")
    /\ KeepFiles /\ UNCHANGED hist /\ Keep

-----------------------------------------------------------------------------
(* MissionRunner.run, by the daemon or by the approve command *)

Granted(p) == CurrentSkill(p) \in grants
KeyedOnce(p) == key[p] # 0
Keyed(p) == key[p] = step[p]
Asks(p) == CurrentSkill(p) \in AskSkills

(* The skill of the current step is dispatched and returns.  An approval   *)
(* key is tried before the grants, and works once.                         *)
RunStep(p, result) ==
    LET j == job[p] IN
    /\ pc[p] = "run" /\ ~Finished(p)
    /\ CurrentSkill(p) \notin DenySkills
    /\ Asks(p) => Keyed(p) \/ Granted(p)
    /\ result \in {"ok", "fail", "retry", "blocked"}
    /\ IF result = "ok"
       THEN /\ did' = [did EXCEPT ![j] = @ \cup {<<plan[p], step[p]>>}]
            /\ step' = [step EXCEPT ![p] = @ + 1]
            /\ UNCHANGED <<pc, out>>
       ELSE /\ pc' = [pc EXCEPT ![p] = "ran"]
            /\ out' = [out EXCEPT ![p] = result]
            /\ UNCHANGED <<did, step>>
    /\ key' = IF Asks(p) /\ Keyed(p) THEN [key EXCEPT ![p] = 0] ELSE key
    /\ UNCHANGED <<moves, plan, reps>>
    /\ KeepFiles /\ UNCHANGED approved /\ Keep

Ran(p, result) ==
    /\ pc' = [pc EXCEPT ![p] = "ran"]
    /\ out' = [out EXCEPT ![p] = result]
    /\ UNCHANGED <<moves, plan, step, key, reps>>

StepDenied(p) ==
    /\ pc[p] = "run" /\ ~Finished(p)
    /\ CurrentSkill(p) \in DenySkills
    /\ Ran(p, "blocked")
    /\ KeepFiles /\ UNCHANGED hist /\ Keep

(* The mission pauses at a step that asks.                                 *)
StepAsks(p) ==
    /\ pc[p] = "run" /\ ~Finished(p)
    /\ CurrentSkill(p) \notin DenySkills
    /\ Asks(p) /\ ~Keyed(p) /\ ~Granted(p)
    /\ Ran(p, "pending")
    /\ KeepFiles /\ UNCHANGED hist /\ Keep

MissionDone(p) ==
    /\ pc[p] = "run" /\ Finished(p)
    /\ Ran(p, "ok")
    /\ KeepFiles /\ UNCHANGED hist /\ Keep

-----------------------------------------------------------------------------
(* The daemon: what became of the mission *)

(* A shutdown requested during the run fails the job, whatever the run did. *)
EvaluateShutdown(d) ==
    /\ pc[d] = "ran" /\ d \in Daemons /\ shutdown[d]
    /\ Move(d, "inbox", "failed", "shutdown")
    /\ KeepFiles /\ UNCHANGED hist /\ Keep

EvaluateReplan(d) ==
    /\ pc[d] = "ran" /\ d \in Daemons /\ ~shutdown[d]
    /\ out[d] = "retry" /\ Replannable(d)
    /\ pc' = [pc EXCEPT ![d] = "plan"]
    /\ reps' = [reps EXCEPT ![d] = @ + 1]
    /\ plan' = [plan EXCEPT ![d] = NoPlan]
    /\ step' = [step EXCEPT ![d] = 0]
    /\ out' = [out EXCEPT ![d] = "none"]
    /\ UNCHANGED <<moves, key>>
    /\ KeepFiles /\ UNCHANGED hist /\ Keep

Failures == {"invalid", "fail", "retry", "blocked", "shutdown"}

EvaluateParkOrFail(d) ==
    /\ pc[d] = "ran" /\ d \in Daemons /\ ~shutdown[d]
    /\ out[d] \in {"pending", "fail", "retry", "blocked"}
    /\ out[d] = "retry" => ~Replannable(d)
    /\ Move(d, "inbox", Destination(out[d]), out[d])
    /\ KeepFiles /\ UNCHANGED hist /\ Keep

EndedUnasked(d) == out[d] \in {"ok", "blocked"}
Succeeded(d) == out[d] = "ok"

(* On success the child is enqueued first and the parent moved after.  A   *)
(* child always has a fresh name: the stems of ChildrenOf are the bound.   *)
EvaluateOk(d) ==
    LET fresh == {c \in ChildrenOf[job[d]] : loc[c] = "absent"} IN
    /\ pc[d] = "ran" /\ d \in Daemons /\ ~shutdown[d]
    /\ Succeeded(d)
    /\ IF fresh = {} THEN UNCHANGED loc
       ELSE \E c \in fresh : loc' = [loc EXCEPT ![c] = "inbox"]
    /\ Move(d, "inbox", Destination(out[d]), out[d])
    /\ UNCHANGED <<side, meta, art, err, grants, hist>> /\ Keep

-----------------------------------------------------------------------------
(* Moving a job, and what is written once it has moved *)

(* move_job_with_sidecar: rename the job ... *)
Rename(p) ==
    LET j == job[p] IN
    /\ pc[p] = "rename"
    /\ IF loc[j] = src[p]
       THEN loc' = [loc EXCEPT ![j] = dst[p]] /\ Goto(p, "sidecar")
       ELSE /\ UNCHANGED loc
            /\ IF cmd[p] \in {"approve", "deny"} THEN Goto(p, "unlink")
               ELSE Return(p)
    /\ UNCHANGED <<side, meta, art, err, grants, hist>> /\ Keep

(* ... then its state sidecar, if it lies beside the place it left.        *)
MoveSidecar(p) ==
    LET j == job[p] IN
    /\ pc[p] = "sidecar"
    /\ side' = IF side[j].at = src[p]
               THEN [side EXCEPT ![j] = [at |-> dst[p], life |-> @.life,
                                         term |-> @.term]]
               ELSE side
    /\ IF cmd[p] \in {"relocate", "retry"} THEN Return(p) ELSE Goto(p, "settle")
    /\ UNCHANGED <<loc, meta, art, err, grants, hist>> /\ Keep

(* The approval markers of a resolved approval are removed last.           *)
AfterSettle(p) ==
    IF cmd[p] = "process" THEN Return(p) ELSE Goto(p, "unlink")

RecordFailureUnexplained(j, mayPrune) ==
    \E gone \in IF mayPrune THEN PruneChoices(j) ELSE {{}} :
        /\ err' = [k \in Jobs |-> err[k] /\ k \notin gone]
        /\ loc' = [k \in Jobs |-> IF k \in gone /\ loc[k] = "failed"
                                  THEN "gone" ELSE loc[k]]

(* _write_failed_error_sidecar, then prune_failed_artifacts.               *)
RecordFailure(j, mayPrune) ==
    \E gone \in IF mayPrune THEN PruneChoices(j) ELSE {{}} :
        /\ err' = [k \in Jobs |-> (err[k] \/ k = j) /\ k \notin gone]
        /\ loc' = [k \in Jobs |-> IF k \in gone /\ loc[k] = "failed"
                                  THEN "gone" ELSE loc[k]]

FailureState(result) ==
    IF result = "blocked" THEN [life |-> "blocked", term |-> "blocked"]
    ELSE [life |-> "step_failed", term |-> "failed"]

SettleFailure(p) ==
    LET j == job[p]
        s == FailureState(out[p])
    IN
    /\ pc[p] = "settle" /\ cmd[p] \in {"process", "approve"}
    /\ out[p] \in Failures
    /\ RecordFailure(j, out[p] # "fail" \/ j \notin AssistantJobs)
    /\ UpdateJobState(j, "failed", s.life, s.term)
    /\ AfterSettle(p)
    /\ UNCHANGED <<meta, art, grants, hist>> /\ Keep

SettleDone(p) ==
    /\ pc[p] = "settle" /\ out[p] = "ok"
    /\ UpdateJobState(job[p], "done", "done", "succeeded")
    /\ AfterSettle(p)
    /\ UNCHANGED <<loc, meta, art, err, grants, hist>> /\ Keep

(* The hard gate.  When an approval file is already there, the job only    *)
(* loses its resume point; its state is not written.                       *)
SettleGate(d) ==
    LET j == job[d] IN
    /\ pc[d] = "settle" /\ out[d] = "gate"
    /\ IF art[j] # "none" THEN UNCHANGED <<art, side>>
       ELSE /\ art' = [art EXCEPT ![j] = "hard"]
            /\ UpdateJobState(j, "pending", "awaiting_approval", "none")
    /\ meta' = [meta EXCEPT ![j] = NoMeta]
    /\ Return(d)
    /\ UNCHANGED <<loc, err, grants, hist>> /\ Keep

NextPoint(p) == [plan |-> plan[p], step |-> step[p] + 1]
ResumePoint(p) == [plan |-> plan[p], step |-> step[p]]

FirstSkill(p) == plan[p][1]
ShownSkill(p) == CurrentSkill(p)

(* _write_pending_artifacts: what to show, where to resume; then the state. *)
SettlePending(p) ==
    LET j == job[p] IN
    /\ pc[p] = "settle" /\ out[p] = "pending"
    /\ art' = [art EXCEPT ![j] = ShownSkill(p)]
    /\ meta' = [meta EXCEPT ![j] = ResumePoint(p)]
    /\ UpdateJobState(j, "pending", "awaiting_approval", "none")
    /\ Return(p)
    /\ UNCHANGED <<loc, err, grants, hist>> /\ Keep

SettleDeny(o) ==
    LET j == job[o] IN
    /\ pc[o] = "settle" /\ cmd[o] = "deny"
    /\ RecordFailure(j, TRUE)
    /\ UpdateJobState(j, "failed", "failed", "failed")
    /\ Goto(o, "unlink")
    /\ UNCHANGED <<meta, art, grants, hist>> /\ Keep

SettleCancel(o) ==
    LET j == job[o] IN
    /\ pc[o] = "settle" /\ cmd[o] = "cancel"
    /\ meta' = [meta EXCEPT ![j] = NoMeta]
    /\ art' = [art EXCEPT ![j] = "none"]
    /\ err' = [err EXCEPT ![j] = FALSE]
    /\ UpdateJobState(j, "canceled", "canceled", "canceled")
    /\ Return(o)
    /\ UNCHANGED <<loc, grants, hist>> /\ Keep

(* A recovered job gets an error sidecar; its state sidecar, moved with it, *)
(* is not rewritten.  The markers go to recovery/startup-<ts>/.            *)
SettleRecover(d) ==
    LET j == job[d] IN
    /\ pc[d] = "settle" /\ cmd[d] = "recover"
    /\ err' = [err EXCEPT ![j] = TRUE]
    /\ meta' = [meta EXCEPT ![j] = NoMeta]
    /\ art' = [art EXCEPT ![j] = "none"]
    /\ side' = IF side[j].at = "pending" THEN [side EXCEPT ![j] = NoSide] ELSE side
    /\ Return(d)
    /\ UNCHANGED <<loc, grants, hist>> /\ Keep

Unlink(p) ==
    LET j == job[p] IN
    /\ pc[p] = "unlink"
    /\ meta' = [meta EXCEPT ![j] = NoMeta]
    /\ art' = [art EXCEPT ![j] = "none"]
    /\ Return(p)
    /\ UNCHANGED <<loc, side, err, grants, hist>> /\ Keep

-----------------------------------------------------------------------------
(* Operator commands: each builds a queue object of its own *)

Begin(o) == pc[o] = "idle" /\ Command

GrantShown(j, always) ==
    grants' = IF always /\ art[j] \in Skills THEN grants \cup {art[j]} ELSE grants

(* The mission and the step a resumed run starts from: the ones the parked *)
(* run left, or a mission built anew from the payload, from its first step. *)
ResumePoints(j) ==
    IF meta[j] # NoMeta THEN {<<meta[j].plan, meta[j].step>>}
    ELSE {<<m, 1>> : m \in PlansOf[j]}

Approve(o, j, always) ==
    /\ Begin(o) /\ loc[j] = "pending"
    /\ pc' = [pc EXCEPT ![o] = "resume"]
    /\ cmd' = [cmd EXCEPT ![o] = "approve"]
    /\ job' = [job EXCEPT ![o] = j]
    /\ UNCHANGED <<src, dst, out, reps>>
    /\ GrantShown(j, always)
    /\ \E at \in ResumePoints(j) :
           /\ plan' = [plan EXCEPT ![o] = at[1]]
           /\ step' = [step EXCEPT ![o] = at[2]]
           /\ key' = [key EXCEPT ![o] = at[2]]
           /\ approved' = [approved EXCEPT ![j] = @ \cup {at}]
    /\ UNCHANGED <<loc, side, meta, art, err, flags, todo, did>>

(* Building the mission raises: only the grant stays.                      *)
ApproveFails(o, j, always) ==
    /\ Begin(o) /\ loc[j] = "pending" /\ meta[j] = NoMeta
    /\ GrantShown(j, always)
    /\ UNCHANGED <<loc, side, meta, art, err, flags, pc, locals, todo, hist>>

(* resumed, then running *)
ResumeRun(o) ==
    /\ pc[o] = "resume"
    /\ UpdateJobState(job[o], "pending", "running", "none")
    /\ Goto(o, "run")
    /\ UNCHANGED <<loc, meta, art, err, grants, hist>> /\ Keep

(* The markers removed before the job is moved.                             *)
EvaluateApprovedUnlinked(o) ==
    /\ pc[o] = "ran" /\ o \in Ops
    /\ IF out[o] = "pending" THEN Goto(o, "settle") /\ UNCHANGED meta
       ELSE /\ Move(o, "pending", Destination(out[o]), out[o])
            /\ meta' = [meta EXCEPT ![job[o]] = NoMeta]
    /\ UNCHANGED <<loc, side, art, err, grants, hist>> /\ Keep

(* An approved run is never replanned, and enqueues no child.              *)
EvaluateApproved(o) ==
    /\ pc[o] = "ran" /\ o \in Ops
    /\ IF out[o] = "pending" THEN Goto(o, "settle")
       ELSE Move(o, "pending", Destination(out[o]), out[o])
    /\ KeepFiles /\ UNCHANGED hist /\ Keep

Deny(o, j) ==
    /\ Begin(o) /\ loc[j] = "pending"
    /\ Turn(o, "rename", "deny", j, "pending", "failed")
    /\ KeepFiles /\ UNCHANGED <<flags, todo, hist>>

Cancel(o, j) ==
    /\ Begin(o) /\ loc[j] \in {"inbox", "pending"}
    /\ Turn(o, "rename", "cancel", j, loc[j], "canceled")
    /\ KeepFiles /\ UNCHANGED <<flags, todo, hist>>

(* The error sidecar is archived before the move.                          *)
Retry(o, j) ==
    /\ Begin(o) /\ loc[j] \in {"failed", "canceled"}
    /\ Turn(o, "rename", "retry", j, loc[j], "inbox")
    /\ err' = [err EXCEPT ![j] = @ /\ loc[j] # "failed"]
    /\ UNCHANGED <<loc, side, meta, art, grants, flags, todo, hist>>

(* delete_terminal_job leaves the state sidecar behind.                    *)
Delete(o, j) ==
    /\ Begin(o) /\ loc[j] \in Terminal
    /\ loc' = [loc EXCEPT ![j] = "gone"]
    /\ err' = [err EXCEPT ![j] = @ /\ loc[j] # "failed"]
    /\ meta' = [meta EXCEPT ![j] = NoMeta]
    /\ art' = [art EXCEPT ![j] = "none"]
    /\ UNCHANGED <<side, grants, flags, pc, locals, todo, hist>>

-----------------------------------------------------------------------------
Environment ==
    \/ \E j \in Jobs, b \in Intake : Submit(j, b)
    \/ Pause \/ Resume
    \/ \E d \in Daemons : RequestShutdown(d)
    \/ \E p \in Procs : Crash(p)

(* A move and what follows it, and the steps of a mission, are the same    *)
(* code in a daemon and in a command.                                      *)
Shared(p) ==
    \/ \E r \in {"ok", "fail", "retry", "blocked"} : RunStep(p, r)
    \/ StepDenied(p) \/ StepAsks(p) \/ MissionDone(p)
    \/ Rename(p) \/ MoveSidecar(p)
    \/ SettleFailure(p) \/ SettleDone(p) \/ SettlePending(p) \/ Unlink(p)

DaemonWorks(d) ==
    \/ \E j \in Jobs : Recover(d, j) \/ Relocate(d, j) \/ Claim(d, j)
    \/ RecoverOrphans(d) \/ Tick(d) \/ Scan(d) \/ EndTick(d) \/ Stop(d)
    \/ MarkPlanning(d)
    \/ LoadInvalid(d) \/ LoadAssistant(d) \/ LoadGate(d) \/ LoadPlan(d)
    \/ \E r \in {"ok", "fail"} : Advise(d, r)
    \/ \E m \in Plans : Plan(d, m)
    \/ \E b \in BOOLEAN : PlanFails(d, b)
    \/ EvaluateShutdown(d) \/ EvaluateReplan(d) \/ EvaluateParkOrFail(d)
    \/ EvaluateOk(d)
    \/ SettleGate(d) \/ SettleRecover(d)
    \/ Shared(d)

OpBegins(o) ==
    \E j \in Jobs :
        \/ \E a \in BOOLEAN : Approve(o, j, a) \/ ApproveFails(o, j, a)
        \/ Deny(o, j) \/ Cancel(o, j) \/ Retry(o, j) \/ Delete(o, j)

OpWorks(o) ==
    ResumeRun(o) \/ EvaluateApproved(o) \/ SettleDeny(o) \/ SettleCancel(o) \/ Shared(o)

Next ==
    \/ Environment
    \/ \E d \in Daemons : Start(d) \/ DaemonWorks(d)
    \/ \E o \in Ops : OpBegins(o) \/ OpWorks(o)

Spec == Init /\ [][Next]_vars

(* A daemon that is up and a command that has begun go on; nobody has to   *)
(* start a daemon, and the environment owes nothing.                       *)
FairSpec ==
    /\ Spec
    /\ \A d \in Daemons : WF_vars(DaemonWorks(d))
    /\ \A o \in Ops : WF_vars(OpWorks(o))

-----------------------------------------------------------------------------
(* Properties *)

(* No step that asks ever runs unless an operator granted its skill for     *)
(* always or resumed this very mission at this very step                    *)
(* (_queue_approval_prompt, resolve_approval): whatever crashes, however    *)
(* many daemons and commands, however the job is moved between the two.     *)
AskedStepsWereApproved ==
    \A j \in Jobs : \A s \in did[j] :
        s[1][s[2]] \in AskSkills => s[1][s[2]] \in grants \/ s \in approved[j]

(* A job that says approval_required: true runs no step at all before an    *)
(* operator approved it (_ensure_hard_approval_gate), although it goes back *)
(* and forth between the inbox and pending/.                                *)
HardGateHolds ==
    \A j \in HardJobs \ AssistantJobs : did[j] # {} => approved[j] # {}

Complete(j) ==
    \E m \in PlansOf[j] : \A s \in 1..Len(m) : <<m, s>> \in did[j]

(* A job lies in done/ only if it asked for advice, or one mission planned  *)
(* for it has every step behind it: also when its steps ran in several      *)
(* processes, before and after parking, retries and crashes.                *)
DoneIsEarned ==
    \A j \in Jobs : loc[j] = "done" => j \in AssistantJobs \/ Complete(j)

(* A child exists only if its parent completed a mission                    *)
(* (_enqueue_child_job_from_parent).                                        *)
ChildrenComeAfter ==
    \A j \in Jobs : \A c \in ChildrenOf[j] : loc[c] # "absent" => Complete(j)

(* A parked run can be resumed: its marker names a mission of the job and a *)
(* step of it, and every step before it has succeeded.                      *)
ResumePointsHold ==
    \A j \in Jobs : meta[j] # NoMeta =>
        /\ meta[j].plan \in PlansOf[j]
        /\ meta[j].step \in 1..Len(meta[j].plan)
        /\ \A s \in 1..(meta[j].step - 1) : <<meta[j].plan, s>> \in did[j]

Idle(j) == \A p \in Procs : job[p] # j

(* No two processes run steps of one job at once: a parked job is claimed   *)
(* by no tick, a resumed one stays in pending/ until its run is over.  For  *)
(* one operator command at a time, and jobs submitted through the inbox.    *)
ExclusiveExecution ==
    \A p, q \in Procs :
        p # q /\ pc[p] \in {"run", "ran"} /\ pc[q] \in {"run", "ran"}
            => job[p] # job[q]

(* When nothing works on it, a job in failed/ has its error sidecar: also   *)
(* after retries, which archive the sidecar, and refused or lost moves.     *)
FailedJobsExplained ==
    \A j \in Jobs : Idle(j) /\ loc[j] = "failed" => err[j]

(* When nothing works on it, a job parked by a step that asks can be        *)
(* approved as shown: the marker, the approval file and the state agree.    *)
ParkedJobsResumable ==
    \A j \in Jobs \ HardJobs : Idle(j) /\ loc[j] = "pending" =>
        /\ meta[j] # NoMeta
        /\ art[j] = meta[j].plan[meta[j].step]
        /\ side[j].life = "awaiting_approval"

(* While an approve command runs a job, the job stays in pending/: neither  *)
(* the relocation of misplaced jobs nor a late write of the daemon takes it  *)
(* away under the run, whose result would then be lost.                      *)
ApprovedJobStays ==
    \A o \in Ops :
        cmd[o] = "approve" /\ pc[o] \in {"resume", "run", "ran", "rename"}
            => loc[job[o]] = "pending"

(* Every job of the inbox is decided, parked or taken out, unless the queue *)
(* is paused or no daemon is up.                                            *)
InboxDrains ==
    \A j \in Jobs : loc[j] = "inbox" ~>
        loc[j] # "inbox" \/ paused \/ \A d \in Daemons : pc[d] = "down"

(* A daemon told to stop does stop, whatever it was doing.                  *)
ShutdownCompletes ==
    \A d \in Daemons : shutdown[d] ~> pc[d] = "down"

-----------------------------------------------------------------------------
(* What the documents say and the code does not do *)

(* Approvals: the daemon holds the job until the operator resolves it.      *)
HeldUntilResolved ==
    [][\A j \in Jobs : loc[j] = "pending" /\ art[j] # "none"
            => loc'[j] # "inbox"]_vars

-----------------------------------------------------------------------------
(* The inductive invariant behind the first five properties *)

Resting == {"down", "recover", "idle", "relocate", "scan"}

(* A process that is past its loop, or its prompt, has a job.               *)
BusyWithAJob == \A p \in Procs : pc[p] \notin Resting => job[p] \in Jobs

HoldsMission(p) ==
    \/ pc[p] \in {"resume", "run", "ran"}
    \/ pc[p] \in {"rename", "sidecar", "settle"} /\ out[p] = "pending"

(* A process that runs a mission runs one planned for its job, and every    *)
(* step before the one it has reached has succeeded.                        *)
MissionsProgress ==
    \A p \in Procs : HoldsMission(p) =>
        /\ plan[p] \in PlansOf[job[p]]
        /\ step[p] \in 1..(Len(plan[p]) + 1)
        /\ \A s \in 1..(step[p] - 1) : <<plan[p], s>> \in did[job[p]]
        /\ pc[p] \notin {"resume", "run"} /\ out[p] = "pending" => step[p] <= Len(plan[p])

(* An approval key names a mission and a step an operator approved; only a  *)
(* command ever holds one.                                                  *)
KeysAreApproved ==
    \A p \in Procs : key[p] # 0 =>
        p \in Ops /\ job[p] \in Jobs /\ <<plan[p], key[p]>> \in approved[job[p]]

(* The daemon answers the jobs that ask for advice, plans and runs ungated  *)
(* jobs only; a command runs approved ones only.                            *)
GateIsBehind ==
    /\ \A d \in Daemons : pc[d] \in {"plan", "run", "ran"} =>
           job[d] \notin HardJobs \cup AssistantJobs
    /\ \A d \in Daemons : pc[d] = "advise" => job[d] \in AssistantJobs
    /\ \A o \in Ops : pc[o] \in {"resume", "run", "ran"} =>
           approved[job[o]] # {}

(* A result "ok" has been earned, and only such a result moves to done/.    *)
OkIsEarned ==
    \A p \in Procs :
        /\ pc[p] \in {"ran", "rename", "sidecar", "settle"} /\ out[p] = "ok" =>
               /\ job[p] \in Jobs
               /\ job[p] \in AssistantJobs \/ Complete(job[p])
        /\ pc[p] = "rename" =>
               /\ src[p] # "absent"
               /\ dst[p] = "done" => out[p] = "ok"

ProcInv ==
    BusyWithAJob /\ MissionsProgress /\ KeysAreApproved /\ GateIsBehind /\ OkIsEarned

FileInv ==
    /\ AskedStepsWereApproved /\ HardGateHolds /\ DoneIsEarned
    /\ ChildrenComeAfter /\ ResumePointsHold

IInv == TypeOK /\ ProcInv /\ FileInv

=============================================================================
