------------------------- MODULE MissionQueueProofs -------------------------
(***************************************************************************)
(* TLAPS proofs about MissionQueue, for any number of jobs, missions,       *)
(* daemons and commands: IInv is inductive, and with it the five            *)
(* properties of approvals, of the hard gate and of completed missions      *)
(* hold in every behaviour of Spec.                                         *)
(*                                                                          *)
(* In the second part, which begins at OneOperator, nothing stops and one   *)
(* operator command runs at a time: runs of a job exclude each other, a     *)
(* job that is approved stays where it is, a parked job can be approved as  *)
(* shown, and a failed one is explained.  For any number of jobs,           *)
(* missions, children and daemons under the flock, with replanning,         *)
(* advisory jobs, payloads that do not parse and retention pruning.         *)
(***************************************************************************)
EXTENDS MissionQueue, SequenceTheorems, TLAPS

USE DEF Procs, files, flags, hist, bounds, moves, runs, locals, Keep, KeepFiles

-----------------------------------------------------------------------------
(* Types of what the helpers of the model write *)

(* A state sidecar that _update_job_state has written is well typed.        *)
LEMMA UpdateTyped ==
    ASSUME side \in [Jobs -> SideRec], NEW j, NEW dir \in Buckets,
           NEW life \in Lifecycles, NEW term \in Outcomes \cup {"none"},
           UpdateJobState(j, dir, life, term)
    PROVE  side' \in [Jobs -> SideRec]
BY DEF UpdateJobState, StateWritten, TermAfter, SideRec, Outcomes

(* A process that goes on elsewhere stays well typed;                       *)
LEMMA GotoTyped ==
    ASSUME ProcsTyped, NEW p \in Procs, NEW c \in PCs, Goto(p, c)
    PROVE  ProcsTyped'
BY DEF ProcsTyped, Goto

(* so does one that turns to another job,                                   *)
LEMMA TurnTyped ==
    ASSUME ProcsTyped, NEW p \in Procs, NEW c \in PCs, NEW what \in Commands,
           NEW j \in Jobs \cup {NoJob}, NEW from \in Locations, NEW to \in Buckets,
           Turn(p, c, what, j, from, to)
    PROVE  ProcsTyped'
BY DEF ProcsTyped, Turn, Results

(* one that rests,                                                          *)
LEMMA RestTyped ==
    ASSUME ProcsTyped, NEW p \in Procs, NEW c \in PCs, Rest(p, c)
    PROVE  ProcsTyped'
BY TurnTyped DEF Rest, Commands, Locations, Buckets

(* one that returns to the loop it was called from,                         *)
LEMMA ReturnTyped ==
    ASSUME ProcsTyped, NEW p \in Procs, Return(p)
    PROVE  ProcsTyped'
BY RestTyped DEF Return, Caller, PCs, DaemonPCs

(* and one that decides to move its job.                                    *)
LEMMA MoveTyped ==
    ASSUME ProcsTyped, NEW p \in Procs, NEW from \in Locations,
           NEW to \in Buckets, NEW result \in Results, Move(p, from, to, result)
    PROVE  ProcsTyped'
BY DEF ProcsTyped, Move, PCs, MovePCs

(* A mission that ends, or pauses, leaves its process well typed.           *)
LEMMA RanTyped ==
    ASSUME ProcsTyped, NEW p \in Procs, NEW result \in Results, Ran(p, result)
    PROVE  ProcsTyped'
BY DEF ProcsTyped, Ran, PCs

(* Where only the record of a process changes, its type decides.            *)
LEMMA ProcsOnly ==
    ASSUME TypeOK, ProcsTyped', KeepFiles, UNCHANGED hist, Keep
    PROVE  TypeOK'
BY DEF TypeOK, FilesTyped

(* Where only a state sidecar and the record of a process change.           *)
LEMMA SideOnly ==
    ASSUME TypeOK, ProcsTyped', NEW j, NEW dir \in Buckets,
           NEW life \in Lifecycles, NEW term \in Outcomes \cup {"none"},
           UpdateJobState(j, dir, life, term),
           UNCHANGED <<loc, meta, art, err, grants, hist>>, Keep
    PROVE  TypeOK'
BY UpdateTyped DEF TypeOK, FilesTyped

(* Only a result "ok" is sent to done/.                                     *)
LEMMA DestinationFacts ==
    ASSUME NEW r
    PROVE  /\ Destination(r) \in {"pending", "done", "failed"}
           /\ Destination(r) \in Buckets
           /\ Destination(r) = "done" => r = "ok"
           /\ r \notin {"ok", "pending"} => Destination(r) = "failed"
BY DEF Destination, Buckets, Terminal

(* A mission is a non-empty sequence of skills.                             *)
LEMMA MissionsAreSequences ==
    ASSUME NEW j \in Jobs, NEW m \in PlansOf[j]
    PROVE  m \in Plans /\ m \in Seq(Skills) /\ Len(m) \in Nat \ {0}
BY PlansAssumption, EmptySeq DEF NoPlan

-----------------------------------------------------------------------------
(* Steps that leave the invariants of processes alone *)

\* Control points at which a process neither holds a mission nor moves a job.
Quiet == Resting \cup {"claimed", "load", "unlink"}

(* A process that goes on to a quiet point keeps ProcInv;                   *)
LEMMA GotoQuiet ==
    ASSUME TypeOK, ProcInv, UNCHANGED hist, NEW p \in Procs,
           NEW c \in Quiet \cup {"sidecar", "settle"},
           c \in {"sidecar", "settle"} => pc[p] \in {"ran", "rename", "sidecar"},
           c \in Resting \/ pc[p] \notin Resting, Goto(p, c)
    PROVE  ProcInv'
BY ProcsAssumption DEF ProcInv, BusyWithAJob, MissionsProgress, KeysAreApproved,
   GateIsBehind, OkIsEarned, Resting, HoldsMission, Complete, Goto, Quiet, TypeOK,
   ProcsTyped

(* so does one that turns to another job without anything of the last one,  *)
LEMMA TurnQuiet ==
    ASSUME TypeOK, ProcInv, UNCHANGED hist, NEW p \in Procs,
           NEW what, NEW j, NEW from, NEW to,
           NEW c \in Quiet \cup {"rename"}, c \in Resting \/ j \in Jobs,
           c = "rename" => from # "absent" /\ to # "done",
           Turn(p, c, what, j, from, to)
    PROVE  ProcInv'
BY ProcsAssumption DEF ProcInv, BusyWithAJob, MissionsProgress, KeysAreApproved,
   GateIsBehind, OkIsEarned, Resting, HoldsMission, Complete, Turn, Quiet, TypeOK,
   ProcsTyped

(* one that returns,                                                        *)
LEMMA ReturnQuiet ==
    ASSUME TypeOK, ProcInv, UNCHANGED hist, NEW p \in Procs, Return(p)
    PROVE  ProcInv'
<1>1. Caller(cmd[p]) \in Quiet \cap Resting
  BY DEF Caller, Quiet, PCs, DaemonPCs, Resting
<1> QED BY <1>1, TurnQuiet DEF Return, Rest, Quiet, Resting

(* and one that decides to move its job, to done/ only with a result "ok"   *)
(* that has been earned.                                                    *)
LEMMA MoveQuiet ==
    ASSUME TypeOK, ProcInv, UNCHANGED hist, NEW p \in Procs,
           NEW from, NEW to, NEW result, pc[p] \notin Resting,
           from # "absent", to = "done" => result = "ok",
           result = "ok" => job[p] \in AssistantJobs \/ Complete(job[p]),
           result = "pending" => pc[p] = "ran" /\ out[p] = "pending",
           Move(p, from, to, result)
    PROVE  ProcInv'
BY ProcsAssumption DEF ProcInv, BusyWithAJob, MissionsProgress, KeysAreApproved,
   GateIsBehind, OkIsEarned, Resting, HoldsMission, Complete, Move, TypeOK,
   ProcsTyped

(* Files move anywhere but to done/, markers only go away, and no child     *)
(* appears: what is true of the files stays so.                             *)
LEMMA FilesQuiet ==
    ASSUME FileInv, UNCHANGED hist, grants \subseteq grants',
           \A j \in Jobs : meta'[j] \in {meta[j], NoMeta},
           \A j \in Jobs : loc'[j] = "done" => loc[j] = "done",
           \A j \in Jobs : loc[j] = "absent" =>
               loc'[j] = "absent" \/ \A k \in Jobs : j \notin ChildrenOf[k]
    PROVE  FileInv'
<1>1. AskedStepsWereApproved' /\ HardGateHolds'
  BY DEF FileInv, AskedStepsWereApproved, HardGateHolds
<1>2. DoneIsEarned'
  BY DEF FileInv, DoneIsEarned, Complete
<1>3. ChildrenComeAfter'
  BY ChildrenAssumption DEF FileInv, ChildrenComeAfter, Complete
<1>4. ResumePointsHold'
  BY DEF FileInv, ResumePointsHold
<1> QED BY <1>1, <1>2, <1>3, <1>4 DEF FileInv

(* In particular where no job, no marker and no grant changes.              *)
LEMMA FilesKept ==
    ASSUME FileInv, UNCHANGED <<loc, meta, grants, hist>>
    PROVE  FileInv'
BY FilesQuiet

-----------------------------------------------------------------------------
(* The initial states *)

(* IInv holds when nothing has been submitted and nothing runs.             *)
LEMMA InitIInv == Init => IInv
<1> SUFFICES ASSUME Init PROVE IInv
  OBVIOUS
<1>1. TypeOK
  <2>1. FilesTyped
    BY DEF Init, FilesTyped, Locations, Buckets, NoSide, NoMeta, SideRec, MetaRec,
           Lifecycles
  <2>2. ProcsTyped
    BY DEF Init, ProcsTyped, PCs, DaemonPCs, Commands, Locations, Buckets, Results
  <2> QED BY <2>1, <2>2, BoundsAssumption DEF Init, TypeOK
<1>2. ProcInv
  BY DEF Init, ProcInv, BusyWithAJob, MissionsProgress, KeysAreApproved, GateIsBehind,
         OkIsEarned, Resting, HoldsMission
<1>3. FileInv
  BY ChildrenAssumption DEF Init, FileInv, AskedStepsWereApproved, HardGateHolds,
     DoneIsEarned, ChildrenComeAfter, ResumePointsHold
<1> QED BY <1>1, <1>2, <1>3 DEF IInv

-----------------------------------------------------------------------------
(* The environment *)

(* Submissions, pause and resume, signals and crashes keep IInv.            *)
LEMMA EnvironmentStep == ASSUME IInv, Environment PROVE IInv'
<1> USE DEF IInv
<1>1. ASSUME NEW j \in Jobs, NEW b \in Intake, Submit(j, b) PROVE IInv'
  <2>1. b \in Locations /\ b # "done"
    BY BoundsAssumption DEF Locations, Buckets
  <2>2. TypeOK'
    BY <1>1, <2>1 DEF Submit, TypeOK, FilesTyped, ProcsTyped
  <2>3. ProcInv'
    BY <1>1 DEF Submit, ProcInv, BusyWithAJob, MissionsProgress, KeysAreApproved,
       GateIsBehind, OkIsEarned, Resting, HoldsMission, Complete
  <2>4. FileInv'
    BY <1>1, <2>1, FilesQuiet DEF Submit, TypeOK, FilesTyped
  <2> QED BY <2>2, <2>3, <2>4
<1>2. ASSUME Pause \/ Resume \/ \E d \in Daemons : RequestShutdown(d) PROVE IInv'
  <2>1. TypeOK'
    <3>1. FilesTyped' /\ ProcsTyped'
      BY <1>2 DEF Pause, Resume, RequestShutdown, TypeOK, FilesTyped, ProcsTyped
    <3>2. cmds' \in Nat /\ stops' \in Nat
      BY <1>2 DEF Pause, Resume, RequestShutdown, Command, Stoppage, TypeOK
    <3>3. paused' \in BOOLEAN /\ shutdown' \in [Daemons -> BOOLEAN]
      BY <1>2 DEF Pause, Resume, RequestShutdown, TypeOK
    <3> QED BY <1>2, <3>1, <3>2, <3>3 DEF Pause, Resume, RequestShutdown, TypeOK
  <2>2. ProcInv'
    BY <1>2 DEF Pause, Resume, RequestShutdown, ProcInv, BusyWithAJob, MissionsProgress,
                KeysAreApproved, GateIsBehind, OkIsEarned, Resting, HoldsMission, Complete
  <2>3. FileInv'
    BY <1>2, FilesKept DEF Pause, Resume, RequestShutdown
  <2> QED BY <2>1, <2>2, <2>3
<1>3. ASSUME NEW p \in Procs, Crash(p) PROVE IInv'
  <2>1. PICK c \in {"down", "idle"} : Rest(p, c)
    BY <1>3 DEF Crash
  <2>2. TypeOK'
    <3>1. ProcsTyped'
      BY <2>1, RestTyped DEF TypeOK, PCs, DaemonPCs
    <3>2. shutdown' \in [Daemons -> BOOLEAN] /\ todo' \in [Daemons -> SUBSET Jobs]
      BY <1>3 DEF Crash, TypeOK
    <3> QED BY <1>3, <3>1, <3>2 DEF Crash, Stoppage, TypeOK, FilesTyped
  <2>3. c \in Quiet \cap Resting
    BY DEF Quiet, PCs, DaemonPCs, Resting
  <2>4. ProcInv'
    BY <1>3, <2>1, <2>3, TurnQuiet DEF Rest, Crash, Quiet
  <2>5. FileInv'
    BY <1>3, FilesKept DEF Crash
  <2> QED BY <2>2, <2>4, <2>5
<1> QED BY <1>1, <1>2, <1>3 DEF Environment

-----------------------------------------------------------------------------
(* The daemon: startup, recovery, the tick *)

(* Starting, recovering, relocating, scanning, claiming and stopping.       *)
DaemonLoop(d) ==
    \/ Start(d) \/ RecoverOrphans(d) \/ Tick(d) \/ Scan(d) \/ EndTick(d) \/ Stop(d)
    \/ \E j \in Jobs : Recover(d, j) \/ Relocate(d, j) \/ Claim(d, j)

(* None of them runs a step or moves a job yet: IInv is kept.               *)
LEMMA DaemonLoopStep == ASSUME IInv, NEW d \in Daemons, DaemonLoop(d) PROVE IInv'
<1> USE DEF IInv
<1>1. ASSUME Start(d) \/ RecoverOrphans(d) \/ Tick(d) \/ EndTick(d) \/ Stop(d)
             \/ Scan(d)
      PROVE  IInv'
  <2>1. PICK c \in {"recover", "idle", "relocate", "scan", "down"} : Goto(d, c)
    BY <1>1 DEF Start, RecoverOrphans, Tick, EndTick, Stop, Scan
  <2>2. TypeOK'
    <3>1. ProcsTyped'
      BY <2>1, GotoTyped DEF TypeOK, PCs, DaemonPCs
    <3>2. FilesTyped'
      BY <1>1 DEF Start, RecoverOrphans, Tick, EndTick, Stop, Scan, TypeOK,
                  FilesTyped, SideRec, NoSide, Lifecycles
    <3>3. todo' \in [Daemons -> SUBSET Jobs] /\ shutdown' \in [Daemons -> BOOLEAN]
      BY <1>1 DEF Start, RecoverOrphans, Tick, EndTick, Stop, Scan, Inflight,
           InboxListing, TypeOK
    <3> QED BY <1>1, <3>1, <3>2, <3>3
            DEF Start, RecoverOrphans, Tick, EndTick, Stop, Scan, TypeOK
  <2>3. ProcInv'
    <3>1. c \in Quiet \cap Resting
      BY DEF Quiet, PCs, DaemonPCs, Resting
    <3> QED BY <1>1, <2>1, <3>1, GotoQuiet
            DEF Start, RecoverOrphans, Tick, EndTick, Stop, Scan
  <2>4. FileInv'
    BY <1>1, FilesKept DEF Start, RecoverOrphans, Tick, EndTick, Stop, Scan
  <2> QED BY <2>2, <2>3, <2>4
<1>2. ASSUME NEW j \in Jobs, Recover(d, j) \/ Relocate(d, j) \/ Claim(d, j)
      PROVE  IInv'
  <2>1. CASE UNCHANGED <<pc, locals>>
    <3>1. TypeOK'
      BY <1>2, <2>1 DEF Recover, Relocate, Claim, TypeOK, FilesTyped, ProcsTyped
    <3>2. ProcInv'
      BY <1>2, <2>1 DEF Recover, Relocate, Claim, ProcInv, BusyWithAJob, MissionsProgress,
           KeysAreApproved, GateIsBehind, OkIsEarned, Resting, HoldsMission, Complete
    <3>3. FileInv'
      BY <1>2, FilesKept DEF Recover, Relocate, Claim
    <3> QED BY <3>1, <3>2, <3>3
  <2>2. CASE ~UNCHANGED <<pc, locals>>
    <3>1. PICK c \in {"rename", "claimed"}, what \in {"recover", "relocate", "process"},
               from \in Locations, to \in {"failed", "inbox"} :
            Turn(d, c, what, j, from, to) /\ (c = "rename" => from # "absent")
      BY <1>2, <2>2 DEF Recover, Relocate, Claim, Misplaced, Locations, Buckets
    <3>2. TypeOK'
      <4>1. ProcsTyped'
        BY <3>1, TurnTyped DEF TypeOK, PCs, DaemonPCs, MovePCs, Commands, Buckets,
             Terminal
      <4>2. todo' \in [Daemons -> SUBSET Jobs]
        BY <1>2 DEF Recover, Relocate, Claim, TypeOK
      <4> QED BY <1>2, <4>1, <4>2 DEF Recover, Relocate, Claim, TypeOK, FilesTyped
    <3>3. ProcInv'
      <4>1. c \in Quiet \cup {"rename"}
        BY DEF Quiet, PCs, DaemonPCs
      <4> QED BY <1>2, <3>1, <4>1, TurnQuiet DEF Recover, Relocate, Claim
    <3>4. FileInv'
      BY <1>2, FilesKept DEF Recover, Relocate, Claim
    <3> QED BY <3>2, <3>3, <3>4
  <2> QED BY <2>1, <2>2
<1> QED BY <1>1, <1>2 DEF DaemonLoop

-----------------------------------------------------------------------------
(* The daemon: process_job_file up to the mission *)

(* Loading the payload, the gate, the advisory lane and planning.           *)
DaemonJob(d) ==
    \/ MarkPlanning(d)
    \/ LoadInvalid(d) \/ LoadAssistant(d) \/ LoadGate(d) \/ LoadPlan(d)
    \/ \E r \in {"ok", "fail"} : Advise(d, r)
    \/ \E m \in Plans : Plan(d, m)
    \/ \E b \in BOOLEAN : PlanFails(d, b)

(* They keep IInv: only an ungated job is planned, and the mission it gets  *)
(* is one of its own.                                                       *)
LEMMA DaemonJobStep == ASSUME IInv, NEW d \in Daemons, DaemonJob(d) PROVE IInv'
<1> USE DEF IInv
<1>1. ASSUME MarkPlanning(d) PROVE IInv'
  <2>1. CASE shutdown[d]
    <3>1. ProcsTyped'
      BY <1>1, <2>1, ReturnTyped DEF MarkPlanning, TypeOK
    <3>2. TypeOK'
      BY <1>1, <3>1, SideOnly DEF MarkPlanning, Buckets, Lifecycles
    <3> QED BY <1>1, <2>1, <3>2, ReturnQuiet, FilesKept DEF MarkPlanning
  <2>2. CASE ~shutdown[d]
    <3>1. ProcsTyped'
      BY <1>1, <2>2, GotoTyped DEF MarkPlanning, TypeOK, PCs, DaemonPCs
    <3>2. TypeOK'
      BY <1>1, <3>1, SideOnly DEF MarkPlanning, Buckets, Lifecycles
    <3>3. "load" \in Quiet /\ pc[d] \notin Resting
      BY <1>1 DEF MarkPlanning, Quiet, PCs, DaemonPCs, Resting
    <3> QED BY <1>1, <2>2, <3>2, <3>3, GotoQuiet, FilesKept DEF MarkPlanning
  <2> QED BY <2>1, <2>2
<1>2. ASSUME NEW to \in Buckets, NEW r \in Results, Move(d, "inbox", to, r),
             pc[d] \notin Resting, to = "done" => r = "ok",
                r = "ok" => job[d] \in AssistantJobs, r # "pending",
             KeepFiles, UNCHANGED hist, Keep
      PROVE  IInv'
  <2>1. ProcsTyped'
    BY <1>2, MoveTyped DEF TypeOK, Locations, Buckets
  <2>2. TypeOK'
    BY <1>2, <2>1, ProcsOnly
  <2>3. ProcInv'
    BY <1>2, MoveQuiet
  <2> QED BY <1>2, <2>2, <2>3, FilesKept
<1>3. ASSUME LoadInvalid(d) \/ LoadGate(d) PROVE IInv'
  BY <1>2, <1>3 DEF LoadInvalid, LoadGate, Resting, Buckets, Terminal, Results
<1>4. ASSUME LoadAssistant(d) PROVE IInv'
  <2>1. ProcsTyped'
    BY <1>4, GotoTyped DEF LoadAssistant, TypeOK, PCs, DaemonPCs
  <2>2. TypeOK'
    BY <1>4, <2>1, SideOnly DEF LoadAssistant, Buckets, Lifecycles
  <2>3. ProcInv'
    BY <1>4 DEF LoadAssistant, Goto, ProcInv, BusyWithAJob, MissionsProgress,
         KeysAreApproved, GateIsBehind, OkIsEarned, Resting, HoldsMission, Complete,
         TypeOK, ProcsTyped
  <2> QED BY <1>4, <2>2, <2>3, FilesKept DEF LoadAssistant
<1>5. ASSUME LoadPlan(d) PROVE IInv'
  <2>1. TypeOK'
    BY <1>5, GotoTyped, ProcsOnly DEF LoadPlan, TypeOK, PCs, DaemonPCs
  <2>2. ProcInv'
    BY <1>5 DEF LoadPlan, Gated, Goto, ProcInv, BusyWithAJob, MissionsProgress,
       KeysAreApproved, GateIsBehind, OkIsEarned, Resting, HoldsMission, Complete,
       TypeOK, ProcsTyped
  <2> QED BY <1>5, <2>1, <2>2, FilesKept DEF LoadPlan
<1>6. ASSUME NEW r \in {"ok", "fail"}, Advise(d, r) PROVE IInv'
  <2>1. job[d] \in AssistantJobs
    BY <1>6 DEF Advise, ProcInv, GateIsBehind
  <2> QED BY <1>2, <1>6, <2>1, DestinationFacts DEF Advise, Resting, Results
<1>7. ASSUME NEW m \in Plans, Plan(d, m) PROVE IInv'
  <2>1. TypeOK'
    <3>1. ProcsTyped'
      BY <1>7, PlansAssumption DEF Plan, TypeOK, ProcsTyped, PCs
    <3> QED BY <1>7, <3>1, SideOnly DEF Plan, Buckets, Lifecycles
  <2>2. job[d] \in Jobs /\ m \in PlansOf[job[d]] /\ Len(m) \in Nat \ {0}
    BY <1>7, MissionsAreSequences DEF Plan, Resting, ProcInv, BusyWithAJob
  <2>3. ProcInv'
    <3>1. plan'[d] = m /\ step'[d] = 1 /\ pc'[d] = "run"
      BY <1>7 DEF Plan, TypeOK, ProcsTyped
    <3>2. MissionsProgress'
      BY <1>7, <2>2, <3>1
         DEF Plan, ProcInv, MissionsProgress, OkIsEarned, HoldsMission
    <3>3. KeysAreApproved'
      BY <1>7, ProcsAssumption DEF Plan, ProcInv, KeysAreApproved, TypeOK, ProcsTyped
    <3>4. BusyWithAJob' /\ GateIsBehind'
      BY <1>7, <3>1, ProcsAssumption
         DEF Plan, ProcInv, BusyWithAJob, Resting, GateIsBehind, TypeOK, ProcsTyped
    <3>5. OkIsEarned'
      BY <1>7, <3>1 DEF Plan, ProcInv, OkIsEarned, Complete, TypeOK, ProcsTyped
    <3> QED BY <3>2, <3>3, <3>4, <3>5 DEF ProcInv
  <2> QED BY <1>7, <2>1, <2>3, FilesKept DEF Plan
<1>8. ASSUME NEW b \in BOOLEAN, PlanFails(d, b) PROVE IInv'
  <2>1. CASE b /\ Replannable(d)
    <3>1. TypeOK'
      BY <1>8, <2>1, ProcsOnly DEF PlanFails, TypeOK, ProcsTyped
    <3>2. ProcInv'
      BY <1>8, <2>1 DEF PlanFails, ProcInv, BusyWithAJob, MissionsProgress,
           KeysAreApproved, GateIsBehind, OkIsEarned, HoldsMission, Complete
    <3> QED BY <1>8, <3>1, <3>2, FilesKept DEF PlanFails
  <2>2. CASE ~(b /\ Replannable(d))
    BY <1>2, <1>8, <2>2 DEF PlanFails, Resting, Buckets, Terminal, Results
  <2> QED BY <2>1, <2>2
<1> QED BY <1>1, <1>3, <1>4, <1>5, <1>6, <1>7, <1>8 DEF DaemonJob

-----------------------------------------------------------------------------
(* Running a mission *)

(* RunStep is the only action that runs a skill; the others say how a run   *)
(* comes out.                                                               *)
Runner(p) ==
    \/ \E r \in {"ok", "fail", "retry", "blocked"} : RunStep(p, r)
    \/ StepDenied(p) \/ StepAsks(p) \/ MissionDone(p)

(* A step that runs is granted or approved, its job is past the hard gate,  *)
(* and every step before it has succeeded; so IInv is kept.                 *)
LEMMA RunnerStep == ASSUME IInv, NEW p \in Procs, Runner(p) PROVE IInv'
<1> USE DEF IInv
<1>1. pc[p] = "run" /\ HoldsMission(p) /\ job[p] \in Jobs
  BY DEF Runner, RunStep, StepDenied, StepAsks, MissionDone, HoldsMission,
         ProcInv, BusyWithAJob, Resting
<1>2. /\ plan[p] \in PlansOf[job[p]] /\ plan[p] \in Plans
      /\ plan[p] \in Seq(Skills) /\ Len(plan[p]) \in Nat \ {0}
      /\ step[p] \in 1..(Len(plan[p]) + 1)
      /\ \A s \in 1..(step[p] - 1) : <<plan[p], s>> \in did[job[p]]
  BY <1>1, MissionsAreSequences DEF ProcInv, MissionsProgress
<1>3. ASSUME NEW r \in {"ok", "fail", "retry", "blocked"}, RunStep(p, r)
      PROVE  IInv'
  <2>1. /\ step[p] <= Len(plan[p])
        /\ UNCHANGED <<cmd, job, src, dst, plan, approved>>
        /\ \A q \in Procs \ {p} : /\ pc'[q] = pc[q] /\ step'[q] = step[q]
                                  /\ key'[q] = key[q] /\ out'[q] = out[q]
    BY <1>2, <1>3 DEF RunStep, Finished, TypeOK, ProcsTyped
  <2>12. \A j \in Jobs : did[j] \subseteq did'[j]
    BY <1>1, <1>3 DEF RunStep, TypeOK
  <2>2. TypeOK'
    <3>1. ProcsTyped'
      <4>1. step' \in [Procs -> Nat]
        BY <1>3 DEF RunStep, TypeOK, ProcsTyped
      <4>3. key' \in [Procs -> Nat]
        BY <1>3 DEF RunStep, TypeOK, ProcsTyped
      <4>2. pc' \in [Procs -> PCs] /\ out' \in [Procs -> Results]
        BY <1>3 DEF RunStep, TypeOK, ProcsTyped, PCs, Results
      <4> QED BY <1>3, <4>1, <4>2, <4>3 DEF RunStep, TypeOK, ProcsTyped
    <3>2. did' \in [Jobs -> SUBSET (Plans \X Nat)]
      BY <1>1, <1>2, <1>3 DEF RunStep, TypeOK
    <3> QED BY <1>3, <3>1, <3>2 DEF RunStep, TypeOK, FilesTyped
  <2>3. key'[p] \in {0, key[p]}
    BY <1>3 DEF RunStep, TypeOK, ProcsTyped
  <2>4. r = "ok" => /\ pc'[p] = "run" /\ step'[p] = step[p] + 1 /\ out'[p] = out[p]
                    /\ <<plan[p], step[p]>> \in did'[job[p]]
    BY <1>1, <1>3 DEF RunStep, TypeOK, ProcsTyped
  <2>5. r # "ok" => /\ pc'[p] = "ran" /\ step'[p] = step[p] /\ out'[p] = r
                    /\ UNCHANGED did
    BY <1>3 DEF RunStep, TypeOK, ProcsTyped
  <2>6. MissionsProgress'
    <3>1. ASSUME NEW q \in Procs \ {p}, HoldsMission(q)' PROVE HoldsMission(q)
      BY <2>1, <3>1 DEF HoldsMission
    <3>2. ASSUME NEW q \in Procs \ {p}, HoldsMission(q)'
          PROVE  /\ plan'[q] \in PlansOf[job'[q]]
                 /\ step'[q] \in 1..(Len(plan'[q]) + 1)
                 /\ \A s \in 1..(step'[q] - 1) : <<plan'[q], s>> \in did'[job'[q]]
                 /\ pc'[q] \notin {"resume", "run"} /\ out'[q] = "pending"
                      => step'[q] <= Len(plan'[q])
      BY <2>1, <2>12, <3>1, <3>2 DEF ProcInv, MissionsProgress, BusyWithAJob,
         HoldsMission,
         Resting
    <3>3. /\ plan'[p] \in PlansOf[job'[p]]
          /\ step'[p] \in 1..(Len(plan'[p]) + 1)
          /\ \A s \in 1..(step'[p] - 1) : <<plan'[p], s>> \in did'[job'[p]]
      <4>1. CASE r = "ok"
        <5>1. step'[p] \in 1..(Len(plan[p]) + 1)
          BY <1>2, <2>1, <2>4, <4>1
        <5>2. ASSUME NEW s \in 1..(step'[p] - 1)
              PROVE  <<plan[p], s>> \in did'[job[p]]
          <6>1. s = step[p] \/ s \in 1..(step[p] - 1)
            BY <1>2, <2>4, <4>1
          <6> QED BY <1>1, <1>2, <2>12, <2>4, <4>1, <6>1
        <5> QED BY <1>2, <2>1, <5>1, <5>2
      <4>2. CASE r # "ok"
        BY <1>1, <1>2, <2>1, <2>5, <4>2
      <4> QED BY <4>1, <4>2
    <3>4. pc'[p] \notin {"resume", "run"} /\ out'[p] = "pending"
            => step'[p] <= Len(plan'[p])
      BY <2>4, <2>5
    <3> QED BY <3>2, <3>3, <3>4 DEF MissionsProgress
  <2>7. BusyWithAJob' /\ KeysAreApproved' /\ GateIsBehind'
    BY <1>1, <2>1, <2>3, <2>4, <2>5
       DEF ProcInv, BusyWithAJob, KeysAreApproved, GateIsBehind, Resting
  <2>8. OkIsEarned'
    BY <1>1, <2>1, <2>12, <2>4, <2>5 DEF ProcInv, OkIsEarned, Complete
  <2>9. AskedStepsWereApproved'
    <3>1. Asks(p) => CurrentSkill(p) \in grants
                     \/ <<plan[p], step[p]>> \in approved[job[p]]
      <4>1. key[p] = step[p] => <<plan[p], step[p]>> \in approved[job[p]]
        BY <1>2 DEF ProcInv, KeysAreApproved
      <4> QED BY <1>3, <4>1 DEF RunStep, Keyed, Granted
    <3> QED BY <1>1, <1>3, <2>1, <2>5, <3>1
            DEF RunStep, Asks, CurrentSkill, TypeOK, FileInv, AskedStepsWereApproved
  <2>10. HardGateHolds'
    <3>1. job[p] \in HardJobs \ AssistantJobs => approved[job[p]] # {}
      BY <1>1 DEF ProcInv, GateIsBehind
    <3> QED BY <1>1, <1>3, <2>1, <3>1, JobsAssumption DEF RunStep, TypeOK, FileInv,
       HardGateHolds
  <2>11. DoneIsEarned' /\ ChildrenComeAfter' /\ ResumePointsHold'
    BY <1>3, <2>1, <2>12, PlansAssumption, ChildrenAssumption
       DEF RunStep, FileInv, DoneIsEarned, ChildrenComeAfter, ResumePointsHold, Complete
  <2> QED BY <2>2, <2>6, <2>7, <2>8, <2>9, <2>10, <2>11 DEF ProcInv, FileInv
<1>4. ASSUME NEW r \in {"blocked", "pending", "ok"}, Ran(p, r),
             r = "pending" => step[p] <= Len(plan[p]),
             r = "ok" => step[p] > Len(plan[p]),
             KeepFiles, UNCHANGED hist, Keep
      PROVE  IInv'
  <2>1. TypeOK'
    BY <1>4, RanTyped, ProcsOnly DEF TypeOK, Results
  <2>2. Complete(job[p]) \/ r # "ok"
    <3>1. r = "ok" => step[p] - 1 = Len(plan[p])
      BY <1>2, <1>4
    <3> QED BY <1>1, <1>2, <3>1 DEF Complete
  <2>3. ProcInv'
    BY <1>1, <1>2, <1>4, <2>2 DEF Ran, ProcInv, BusyWithAJob, MissionsProgress,
       KeysAreApproved, GateIsBehind, OkIsEarned, Resting, HoldsMission, Complete,
       TypeOK, ProcsTyped
  <2> QED BY <1>4, <2>1, <2>3, FilesKept
<1>5. ASSUME StepDenied(p) \/ StepAsks(p) \/ MissionDone(p) PROVE IInv'
  BY <1>2, <1>4, <1>5 DEF StepDenied, StepAsks, MissionDone, Finished
<1> QED BY <1>3, <1>5 DEF Runner

-----------------------------------------------------------------------------
(* What becomes of a mission that has run *)

(* Deciding where the job goes, replanning, enqueuing the child.            *)
Outcome(p) ==
    \/ p \in Daemons /\ (EvaluateShutdown(p) \/ EvaluateReplan(p)
                         \/ EvaluateParkOrFail(p) \/ EvaluateOk(p))
    \/ EvaluateApproved(p)

(* A job is sent to done/, and its child enqueued, only on a result "ok",   *)
(* which has been earned: IInv is kept.                                     *)
LEMMA OutcomeStep == ASSUME IInv, NEW p \in Procs, Outcome(p) PROVE IInv'
<1> USE DEF IInv
<1>1. pc[p] = "ran" /\ job[p] \in Jobs
  BY DEF Outcome, EvaluateShutdown, EvaluateReplan, EvaluateParkOrFail, EvaluateOk,
         EvaluateApproved, ProcInv, BusyWithAJob, Resting
<1>2. out[p] = "ok" => job[p] \in AssistantJobs \/ Complete(job[p])
  BY <1>1 DEF ProcInv, OkIsEarned
<1>3. ASSUME NEW from \in {"inbox", "pending"}, NEW to \in Buckets, NEW r \in Results,
             Move(p, from, to, r), to = "done" => r = "ok",
             r \in {"ok", "pending"} => r = out[p]
      PROVE  ProcsTyped' /\ (UNCHANGED hist => ProcInv')
  <2>1. ProcsTyped'
    BY <1>3, MoveTyped DEF TypeOK, Locations, Buckets
  <2>2. UNCHANGED hist => ProcInv'
    BY <1>1, <1>2, <1>3, MoveQuiet DEF Resting
  <2> QED BY <2>1, <2>2
<1>4. out[p] \in Results
  BY DEF TypeOK, ProcsTyped
<1>5. ASSUME p \in Daemons, EvaluateShutdown(p) \/ EvaluateParkOrFail(p) PROVE IInv'
  <2>1. PICK to \in {"pending", "failed"}, r \in Results \ {"ok"} :
          Move(p, "inbox", to, r) /\ (r = "pending" => r = out[p])
    BY <1>4, <1>5, DestinationFacts DEF EvaluateShutdown, EvaluateParkOrFail, Results
  <2>2. ProcsTyped' /\ ProcInv'
    BY <1>3, <1>5, <2>1 DEF EvaluateShutdown, EvaluateParkOrFail, Buckets, Terminal
  <2> QED BY <1>5, <2>2, ProcsOnly, FilesKept
          DEF EvaluateShutdown, EvaluateParkOrFail
<1>6. ASSUME p \in Daemons, EvaluateReplan(p) PROVE IInv'
  <2>1. ProcsTyped'
    BY <1>6 DEF EvaluateReplan, TypeOK, ProcsTyped, PCs, DaemonPCs, Results
  <2>2. MissionsProgress' /\ KeysAreApproved'
    BY <1>6, ProcsAssumption DEF EvaluateReplan, ProcInv, MissionsProgress,
       KeysAreApproved, HoldsMission, TypeOK, ProcsTyped
  <2>3. BusyWithAJob' /\ GateIsBehind' /\ OkIsEarned'
    BY <1>1, <1>6, ProcsAssumption DEF EvaluateReplan, ProcInv, BusyWithAJob,
       GateIsBehind, OkIsEarned, Resting, Complete, TypeOK, ProcsTyped
  <2> QED BY <1>6, <2>1, <2>2, <2>3, ProcsOnly, FilesKept DEF EvaluateReplan, ProcInv
<1>7. ASSUME p \in Daemons, EvaluateOk(p) PROVE IInv'
  <2>1. ProcsTyped' /\ ProcInv'
    BY <1>3, <1>4, <1>7, DestinationFacts DEF EvaluateOk
  <2>2. Complete(job[p])
    BY <1>1, <1>2, <1>7 DEF EvaluateOk, Succeeded, ProcInv, GateIsBehind
  <2>3. \/ UNCHANGED loc
        \/ \E c \in ChildrenOf[job[p]] : loc' = [loc EXCEPT ![c] = "inbox"]
    BY <1>7 DEF EvaluateOk
  <2>4. /\ TypeOK'
        /\ \A k \in Jobs : loc'[k] # loc[k] =>
              k \in ChildrenOf[job[p]] /\ loc'[k] = "inbox"
    BY <1>1, <1>7, <2>1, <2>3, ChildrenAssumption
       DEF EvaluateOk, TypeOK, FilesTyped, Locations, Buckets
  <2>5. FileInv'
    <3>1. DoneIsEarned'
      BY <1>7, <2>4 DEF EvaluateOk, FileInv, DoneIsEarned, Complete
    <3>2. ChildrenComeAfter'
      BY <1>1, <1>7, <2>2, <2>4, ChildrenAssumption
         DEF EvaluateOk, FileInv, ChildrenComeAfter, Complete
    <3>3. AskedStepsWereApproved' /\ HardGateHolds' /\ ResumePointsHold'
      BY <1>7 DEF EvaluateOk, FileInv, AskedStepsWereApproved, HardGateHolds,
                  ResumePointsHold
    <3> QED BY <3>1, <3>2, <3>3 DEF FileInv
  <2> QED BY <2>1, <2>4, <2>5
<1>8. ASSUME EvaluateApproved(p) PROVE IInv'
  <2>1. CASE out[p] = "pending"
    <3>1. ProcsTyped' /\ ProcInv'
      BY <1>1, <1>8, <2>1, GotoTyped, GotoQuiet
         DEF EvaluateApproved, TypeOK, PCs, MovePCs, Resting
    <3> QED BY <1>8, <3>1, ProcsOnly, FilesKept DEF EvaluateApproved
  <2>2. CASE out[p] # "pending"
    <3>1. ProcsTyped' /\ ProcInv'
      BY <1>3, <1>4, <1>8, <2>2, DestinationFacts DEF EvaluateApproved
    <3> QED BY <1>8, <3>1, ProcsOnly, FilesKept DEF EvaluateApproved
  <2> QED BY <2>1, <2>2
<1> QED BY <1>5, <1>6, <1>7, <1>8 DEF Outcome

-----------------------------------------------------------------------------
(* Moving a job and settling it *)

(* The rename, the move of the sidecar, and all that is written after it.   *)
Settles(p) ==
    \/ Rename(p) \/ MoveSidecar(p)
    \/ SettleFailure(p) \/ SettleDone(p) \/ SettlePending(p) \/ Unlink(p)
    \/ p \in Daemons /\ (SettleGate(p) \/ SettleRecover(p))
    \/ p \in Ops /\ (SettleDeny(p) \/ SettleCancel(p))

(* Returning, or going on to the unlinks, is well typed and keeps ProcInv.  *)
LEMMA OverStep ==
    ASSUME TypeOK, ProcInv, UNCHANGED hist, NEW p \in Procs, pc[p] \notin Resting,
           Return(p) \/ Goto(p, "unlink")
    PROVE  ProcsTyped' /\ ProcInv'
<1>1. CASE Return(p)
  BY <1>1, ReturnTyped, ReturnQuiet DEF TypeOK
<1>2. CASE Goto(p, "unlink")
  BY <1>2, GotoTyped, GotoQuiet DEF TypeOK, PCs, MovePCs, Quiet
<1> QED BY <1>1, <1>2

(* A job reaches done/ only where its result "ok" sends it, and a marker    *)
(* says only what the run it parks had reached: IInv is kept.               *)
LEMMA SettlesStep == ASSUME IInv, NEW p \in Procs, Settles(p) PROVE IInv'
<1> USE DEF IInv
<1>1. pc[p] \in {"rename", "sidecar", "settle", "unlink"} /\ job[p] \in Jobs
  BY DEF Settles, Rename, MoveSidecar, SettleFailure, SettleDone, SettlePending,
         Unlink, SettleGate, SettleRecover, SettleDeny, SettleCancel, ProcInv,
         BusyWithAJob, Resting
<1>2. pc[p] \notin Resting
  BY <1>1 DEF Resting
<1>3. ASSUME Rename(p) PROVE IInv'
  <2>1. CASE loc[job[p]] = src[p]
    <3>1. ProcsTyped' /\ ProcInv'
      BY <1>2, <1>3, <2>1, GotoTyped, GotoQuiet DEF Rename, TypeOK, PCs, MovePCs
    <3>2. TypeOK'
      <4>1. loc' \in [Jobs -> Locations]
        BY <1>3, <2>1 DEF Rename, TypeOK, FilesTyped, ProcsTyped, Locations
      <4> QED BY <1>3, <3>1, <4>1 DEF Rename, TypeOK, FilesTyped
    <3>3. /\ loc'[job[p]] = dst[p]
          /\ \A k \in Jobs \ {job[p]} : loc'[k] = loc[k]
      BY <1>1, <1>3, <2>1 DEF Rename, TypeOK, FilesTyped
    <3>4. loc[job[p]] # "absent" /\ (dst[p] = "done" => out[p] = "ok")
      <4>1. pc[p] = "rename"
        BY <1>3 DEF Rename
      <4> QED BY <2>1, <4>1 DEF ProcInv, OkIsEarned
    <3>5. FileInv'
      <4>1. DoneIsEarned'
        BY <1>1, <1>3, <3>3, <3>4 DEF Rename, ProcInv, OkIsEarned, FileInv, DoneIsEarned,
                                Complete
      <4>2. ChildrenComeAfter'
        BY <1>1, <1>3, <3>3, <3>4, ChildrenAssumption
           DEF Rename, FileInv, ChildrenComeAfter, Complete
      <4>3. AskedStepsWereApproved' /\ HardGateHolds' /\ ResumePointsHold'
        BY <1>3 DEF Rename, FileInv, AskedStepsWereApproved, HardGateHolds,
                    ResumePointsHold
      <4> QED BY <4>1, <4>2, <4>3 DEF FileInv
    <3> QED BY <3>1, <3>2, <3>5
  <2>2. CASE loc[job[p]] # src[p]
    <3>1. ProcsTyped' /\ ProcInv'
      BY <1>2, <1>3, <2>2, OverStep DEF Rename
    <3> QED BY <1>3, <2>2, <3>1, ProcsOnly, FilesKept DEF Rename
  <2> QED BY <2>1, <2>2
<1>4. ASSUME MoveSidecar(p) PROVE IInv'
  <2>1. ProcsTyped' /\ ProcInv'
    <3>1. CASE Return(p)
      BY <1>2, <1>4, <3>1, OverStep DEF MoveSidecar
    <3>2. CASE Goto(p, "settle")
      BY <1>2, <1>4, <3>2, GotoTyped, GotoQuiet DEF MoveSidecar, TypeOK, PCs, MovePCs
    <3> QED BY <1>4, <3>1, <3>2 DEF MoveSidecar
  <2>2. side' \in [Jobs -> SideRec]
    BY <1>4 DEF MoveSidecar, TypeOK, FilesTyped, ProcsTyped, SideRec
  <2>3. TypeOK'
    BY <1>4, <2>1, <2>2 DEF MoveSidecar, TypeOK, FilesTyped
  <2> QED BY <1>4, <2>1, <2>3, FilesKept DEF MoveSidecar
<1>5. ASSUME UNCHANGED hist, Return(p) \/ Goto(p, "unlink"), FilesTyped', Keep,
             UNCHANGED grants,
             \A j \in Jobs : meta'[j] \in {meta[j], NoMeta},
             \A j \in Jobs : loc'[j] = "done" => loc[j] = "done",
             \A j \in Jobs : loc[j] = "absent" => loc'[j] = "absent"
      PROVE  IInv'
  <2>1. ProcsTyped' /\ ProcInv'
    BY <1>2, <1>5, OverStep
  <2>2. TypeOK'
    BY <1>5, <2>1 DEF TypeOK
  <2>3. FileInv'
    BY <1>5, FilesQuiet
  <2> QED BY <2>1, <2>2, <2>3
<1>6. ASSUME NEW b \in BOOLEAN, RecordFailure(job[p], b)
      PROVE  /\ loc' \in [Jobs -> Locations] /\ err' \in [Jobs -> BOOLEAN]
             /\ \A j \in Jobs : loc'[j] = "done" => loc[j] = "done"
             /\ \A j \in Jobs : loc[j] = "absent" => loc'[j] = "absent"
  BY <1>6 DEF RecordFailure, TypeOK, FilesTyped, Locations
<1>7. ASSUME SettleFailure(p) PROVE IInv'
  <2>1. side' \in [Jobs -> SideRec]
    BY <1>7, UpdateTyped DEF SettleFailure, FailureState, TypeOK, FilesTyped, Buckets,
                             Terminal, Lifecycles, Outcomes
  <2>2. FilesTyped'
    BY <1>6, <1>7, <2>1 DEF SettleFailure, TypeOK, FilesTyped
  <2> QED BY <1>5, <1>6, <1>7, <2>2 DEF SettleFailure, AfterSettle
<1>8. ASSUME p \in Ops, SettleDeny(p) PROVE IInv'
  <2>1. side' \in [Jobs -> SideRec]
    BY <1>8, UpdateTyped DEF SettleDeny, TypeOK, FilesTyped, Buckets, Terminal,
                             Lifecycles, Outcomes
  <2>2. FilesTyped'
    BY <1>6, <1>8, <2>1 DEF SettleDeny, TypeOK, FilesTyped
  <2> QED BY <1>5, <1>6, <1>8, <2>2 DEF SettleDeny
<1>9. ASSUME SettleDone(p) PROVE IInv'
  <2>1. FilesTyped'
    BY <1>9, UpdateTyped DEF SettleDone, TypeOK, FilesTyped, Buckets, Terminal,
                             Lifecycles, Outcomes
  <2> QED BY <1>5, <1>9, <2>1 DEF SettleDone, AfterSettle
<1>10. ASSUME Unlink(p) PROVE IInv'
  <2>1. FilesTyped'
    BY <1>10 DEF Unlink, TypeOK, FilesTyped, MetaRec, NoMeta
  <2> QED BY <1>5, <1>10, <2>1 DEF Unlink, TypeOK, FilesTyped
<1>11. ASSUME p \in Daemons, SettleGate(p) PROVE IInv'
  <2>1. side' \in [Jobs -> SideRec]
    BY <1>11, UpdateTyped DEF SettleGate, TypeOK, FilesTyped, Buckets, Lifecycles
  <2>2. FilesTyped'
    BY <1>11, <2>1 DEF SettleGate, TypeOK, FilesTyped, MetaRec, NoMeta
  <2> QED BY <1>5, <1>11, <2>2 DEF SettleGate, TypeOK, FilesTyped
<1>12. ASSUME p \in Daemons, SettleRecover(p) PROVE IInv'
  <2>1. FilesTyped'
    BY <1>12 DEF SettleRecover, TypeOK, FilesTyped, MetaRec, NoMeta, NoSide, SideRec,
                 Lifecycles
  <2> QED BY <1>5, <1>12, <2>1 DEF SettleRecover, TypeOK, FilesTyped
<1>13. ASSUME p \in Ops, SettleCancel(p) PROVE IInv'
  <2>1. side' \in [Jobs -> SideRec]
    BY <1>13, UpdateTyped DEF SettleCancel, TypeOK, FilesTyped, Buckets, Terminal,
                              Lifecycles, Outcomes
  <2>2. FilesTyped'
    BY <1>13, <2>1 DEF SettleCancel, TypeOK, FilesTyped, MetaRec, NoMeta
  <2> QED BY <1>5, <1>13, <2>2 DEF SettleCancel, TypeOK, FilesTyped
<1>14. ASSUME SettlePending(p) PROVE IInv'
  <2> DEFINE j == job[p]
  <2>1. /\ plan[p] \in PlansOf[j] /\ plan[p] \in Plans /\ plan[p] \in Seq(Skills)
        /\ step[p] \in 1..Len(plan[p])
        /\ \A s \in 1..(step[p] - 1) : <<plan[p], s>> \in did[j]
    <3>1. HoldsMission(p) /\ pc[p] \notin {"resume", "run"} /\ out[p] = "pending"
      BY <1>14 DEF SettlePending, HoldsMission
    <3> QED BY <1>1, <3>1, MissionsAreSequences DEF ProcInv, MissionsProgress
  <2>2. CurrentSkill(p) \in Skills
    BY <2>1 DEF CurrentSkill
  <2>3. side' \in [Jobs -> SideRec]
    BY <1>14, UpdateTyped DEF SettlePending, TypeOK, FilesTyped, Buckets, Lifecycles
  <2>4. meta'[j] = [plan |-> plan[p], step |-> step[p]]
        /\ \A k \in Jobs \ {j} : meta'[k] = meta[k]
    BY <1>1, <1>14 DEF SettlePending, ResumePoint, TypeOK, FilesTyped
  <2>5. FilesTyped'
    <3>1. [plan |-> plan[p], step |-> step[p]] \in MetaRec
      BY <2>1 DEF MetaRec
    <3>2. meta' \in [Jobs -> MetaRec]
      BY <1>14, <3>1 DEF SettlePending, ResumePoint, TypeOK, FilesTyped
    <3>3. art' \in [Jobs -> Skills \cup {"none", "hard"}]
      BY <1>14, <2>2 DEF SettlePending, ShownSkill, TypeOK, FilesTyped
    <3> QED BY <1>14, <2>3, <3>2, <3>3 DEF SettlePending, TypeOK, FilesTyped
  <2>6. ProcsTyped' /\ ProcInv'
    BY <1>2, <1>14, OverStep DEF SettlePending
  <2>7. TypeOK'
    BY <1>14, <2>5, <2>6 DEF SettlePending, TypeOK
  <2>8. FileInv'
    <3>1. ResumePointsHold'
      BY <1>14, <2>1, <2>4 DEF SettlePending, FileInv, ResumePointsHold
    <3> QED BY <1>14, <3>1
            DEF SettlePending, FileInv, AskedStepsWereApproved, HardGateHolds,
                DoneIsEarned, ChildrenComeAfter, Complete
  <2> QED BY <2>6, <2>7, <2>8
<1> QED BY <1>3, <1>4, <1>7, <1>8, <1>9, <1>10, <1>11, <1>12, <1>13, <1>14 DEF Settles

-----------------------------------------------------------------------------
(* Operator commands *)

(* How a command begins, and how an approved run does.                      *)
Commanded(o) == OpBegins(o) \/ ResumeRun(o)

(* A command that begins takes its job, and an approve what the marker or   *)
(* the payload lets it resume: IInv is kept.                                *)
LEMMA CommandStep == ASSUME IInv, NEW o \in Ops, Commanded(o) PROVE IInv'
<1> USE DEF IInv
<1>1. ASSUME NEW j \in Jobs, NEW a \in BOOLEAN, GrantShown(j, a)
      PROVE  grants \subseteq grants' /\ grants' \in SUBSET Skills
  BY <1>1 DEF GrantShown, TypeOK, FilesTyped
<1>2. ASSUME NEW j \in Jobs, NEW a \in BOOLEAN, Approve(o, j, a) PROVE IInv'
  <2>1. PICK at \in ResumePoints(j) :
          /\ plan' = [plan EXCEPT ![o] = at[1]]
          /\ step' = [step EXCEPT ![o] = at[2]]
          /\ key' = [key EXCEPT ![o] = at[2]]
          /\ approved' = [approved EXCEPT ![j] = @ \cup {at}]
    BY <1>2 DEF Approve
  <2>2. /\ at[1] \in PlansOf[j] /\ at[1] \in Plans /\ at[1] \in Seq(Skills)
        /\ at[2] \in 1..Len(at[1]) /\ at = <<at[1], at[2]>>
        /\ \A s \in 1..(at[2] - 1) : <<at[1], s>> \in did[j]
    <3>1. CASE meta[j] # NoMeta
      BY <3>1, MissionsAreSequences DEF ResumePoints, FileInv, ResumePointsHold
    <3>2. CASE meta[j] = NoMeta
      BY <3>2, MissionsAreSequences DEF ResumePoints
    <3> QED BY <3>1, <3>2
  <2>3. TypeOK'
    <3>1. ProcsTyped'
      BY <1>2, <2>1, <2>2 DEF Approve, TypeOK, ProcsTyped, PCs, Commands
    <3>2. approved' \in [Jobs -> SUBSET (Plans \X Nat)]
      BY <2>1, <2>2 DEF TypeOK
    <3> QED BY <1>1, <1>2, <3>1, <3>2
            DEF Approve, Begin, Command, TypeOK, FilesTyped
  <2>4. \A k \in Jobs : approved[k] \subseteq approved'[k]
    BY <2>1 DEF TypeOK
  <2>5. /\ plan'[o] = at[1] /\ step'[o] = at[2] /\ key'[o] = at[2] /\ job'[o] = j
        /\ pc'[o] = "resume" /\ out' = out /\ at \in approved'[j]
        /\ \A q \in Procs \ {o} :
              /\ plan'[q] = plan[q] /\ step'[q] = step[q] /\ key'[q] = key[q]
              /\ job'[q] = job[q] /\ pc'[q] = pc[q]
    BY <1>2, <2>1 DEF Approve, TypeOK, ProcsTyped
  <2>6. ProcInv'
    <3>1. BusyWithAJob' /\ KeysAreApproved'
      <4>1. BusyWithAJob'
        BY <2>5 DEF ProcInv, BusyWithAJob
      <4>2. KeysAreApproved'
        <5> SUFFICES ASSUME NEW q \in Procs, key'[q] # 0
                     PROVE  /\ q \in Ops /\ job'[q] \in Jobs
                            /\ <<plan'[q], key'[q]>> \in approved'[job'[q]]
          BY DEF KeysAreApproved
        <5>1. CASE q = o
          BY <2>2, <2>5, <5>1
        <5>2. CASE q # o
          <6>1. /\ plan'[q] = plan[q] /\ key'[q] = key[q] /\ job'[q] = job[q]
                /\ key[q] # 0
            BY <2>5, <5>2
          <6>2. /\ q \in Ops /\ job[q] \in Jobs
                /\ <<plan[q], key[q]>> \in approved[job[q]]
            BY <6>1 DEF ProcInv, KeysAreApproved
          <6> QED BY <2>4, <6>1, <6>2
        <5> QED BY <5>1, <5>2
      <4> QED BY <4>1, <4>2
    <3>4. OkIsEarned'
      BY <1>2, <2>5 DEF Approve, ProcInv, OkIsEarned, Complete
    <3>2. MissionsProgress'
      BY <1>2, <2>2, <2>5 DEF Approve, ProcInv, MissionsProgress, HoldsMission
    <3>3. GateIsBehind'
      BY <2>4, <2>5, ProcsAssumption DEF ProcInv, GateIsBehind, BusyWithAJob, Resting
    <3> QED BY <3>1, <3>2, <3>3, <3>4 DEF ProcInv
  <2>7. FileInv'
    BY <1>1, <1>2, <2>4, JobsAssumption DEF Approve, FileInv, AskedStepsWereApproved,
       HardGateHolds, DoneIsEarned, ChildrenComeAfter, ResumePointsHold, Complete
  <2> QED BY <2>3, <2>6, <2>7
<1>3. ASSUME NEW j \in Jobs, NEW a \in BOOLEAN, ApproveFails(o, j, a) PROVE IInv'
  <2>1. TypeOK'
    BY <1>1, <1>3 DEF ApproveFails, Begin, Command, TypeOK, FilesTyped, ProcsTyped
  <2>2. ProcInv'
    BY <1>3 DEF ApproveFails, ProcInv, BusyWithAJob, MissionsProgress, KeysAreApproved,
                GateIsBehind, OkIsEarned, HoldsMission, Complete
  <2>3. FileInv'
    BY <1>1, <1>3, FilesQuiet DEF ApproveFails
  <2> QED BY <2>1, <2>2, <2>3
<1>4. ASSUME NEW j \in Jobs, Deny(o, j) \/ Cancel(o, j) \/ Retry(o, j) PROVE IInv'
  <2>1. PICK what \in {"deny", "cancel", "retry"}, from \in Locations \ {"absent"},
             to \in {"failed", "canceled", "inbox"} :
          Turn(o, "rename", what, j, from, to)
    BY <1>4 DEF Deny, Cancel, Retry, Terminal, Locations, Buckets
  <2>2. ProcsTyped'
    BY <2>1, TurnTyped DEF TypeOK, PCs, MovePCs, Commands, Buckets, Terminal
  <2>3. TypeOK'
    <3>1. FilesTyped'
      BY <1>4 DEF Deny, Cancel, Retry, TypeOK, FilesTyped
    <3>2. cmds' \in Nat /\ stops' \in Nat
      BY <1>4 DEF Deny, Cancel, Retry, Begin, Command, TypeOK
    <3> QED BY <1>4, <2>2, <3>1, <3>2 DEF Deny, Cancel, Retry, TypeOK
  <2>4. ProcInv'
    BY <1>4, <2>1, TurnQuiet DEF Deny, Cancel, Retry
  <2> QED BY <1>4, <2>3, <2>4, FilesKept DEF Deny, Cancel, Retry
<1>5. ASSUME NEW j \in Jobs, Delete(o, j) PROVE IInv'
  <2>1. TypeOK'
    BY <1>5 DEF Delete, Begin, Command, TypeOK, FilesTyped, ProcsTyped, MetaRec, NoMeta,
                Locations
  <2>2. ProcInv'
    BY <1>5 DEF Delete, ProcInv, BusyWithAJob, MissionsProgress, KeysAreApproved,
                GateIsBehind, OkIsEarned, HoldsMission, Complete
  <2>3. FileInv'
    BY <1>5, FilesQuiet DEF Delete, Terminal, TypeOK, FilesTyped
  <2> QED BY <2>1, <2>2, <2>3
<1>6. ASSUME ResumeRun(o) PROVE IInv'
  <2>1. ProcsTyped'
    BY <1>6, GotoTyped DEF ResumeRun, TypeOK, PCs
  <2>2. TypeOK'
    BY <1>6, <2>1, SideOnly DEF ResumeRun, Buckets, Lifecycles
  <2>3. ProcInv'
    BY <1>6, ProcsAssumption DEF ResumeRun, Goto, ProcInv, BusyWithAJob,
       MissionsProgress, KeysAreApproved, GateIsBehind, OkIsEarned, Resting,
       HoldsMission, Complete, TypeOK, ProcsTyped
  <2> QED BY <1>6, <2>2, <2>3, FilesKept DEF ResumeRun
<1> QED BY <1>2, <1>3, <1>4, <1>5, <1>6 DEF Commanded, OpBegins

-----------------------------------------------------------------------------
(* Theorems *)

(* Every step of the queue keeps IInv.                                      *)
LEMMA NextIInv == IInv /\ [Next]_vars => IInv'
<1> SUFFICES ASSUME IInv, [Next]_vars PROVE IInv'
  OBVIOUS
<1>1. CASE Environment
  BY <1>1, EnvironmentStep
<1>2. ASSUME NEW d \in Daemons, Start(d) \/ DaemonWorks(d) PROVE IInv'
  <2>1. DaemonLoop(d) \/ DaemonJob(d) \/ Runner(d) \/ Outcome(d) \/ Settles(d)
    BY <1>2 DEF DaemonWorks, Shared, DaemonLoop, DaemonJob, Runner, Outcome, Settles
  <2> QED BY <2>1, DaemonLoopStep, DaemonJobStep, RunnerStep, OutcomeStep, SettlesStep
<1>3. ASSUME NEW o \in Ops, OpBegins(o) \/ OpWorks(o) PROVE IInv'
  <2>1. Commanded(o) \/ Runner(o) \/ Outcome(o) \/ Settles(o)
    BY <1>3 DEF OpWorks, Shared, Commanded, Runner, Outcome, Settles
  <2> QED BY <2>1, CommandStep, RunnerStep, OutcomeStep, SettlesStep
<1>4. CASE UNCHANGED vars
  <2>1. TypeOK'
    BY <1>4 DEF vars, IInv, TypeOK, FilesTyped, ProcsTyped
  <2>2. ProcInv'
    BY <1>4 DEF vars, IInv, ProcInv, BusyWithAJob, MissionsProgress, KeysAreApproved,
                GateIsBehind, OkIsEarned, HoldsMission, Complete
  <2>3. FileInv'
    BY <1>4, FilesKept DEF vars, IInv
  <2> QED BY <2>1, <2>2, <2>3 DEF IInv
<1> QED BY <1>1, <1>2, <1>3, <1>4 DEF Next

(* IInv holds in every state the queue reaches, for any number of jobs,     *)
(* daemons and commands, and whatever crashes.                              *)
THEOREM QueueInvariant == Spec => []IInv
BY InitIInv, NextIInv, PTL DEF Spec

(* The state of the queue is well typed.                                    *)
THEOREM TypeCorrect == Spec => []TypeOK
<1>1. IInv => TypeOK
  BY DEF IInv
<1> QED BY <1>1, QueueInvariant, PTL

(* No step that asks runs without a grant, or the approval of that mission  *)
(* at that step.                                                            *)
THEOREM ApprovalBeforeAskedSteps == Spec => []AskedStepsWereApproved
<1>1. IInv => AskedStepsWereApproved
  BY DEF IInv, FileInv
<1> QED BY <1>1, QueueInvariant, PTL

(* A job with approval_required runs nothing before it has been approved.   *)
THEOREM HardGateSafe == Spec => []HardGateHolds
<1>1. IInv => HardGateHolds
  BY DEF IInv, FileInv
<1> QED BY <1>1, QueueInvariant, PTL

(* Only completed missions, and advice, end in done/.                       *)
THEOREM DoneMeansComplete == Spec => []DoneIsEarned
<1>1. IInv => DoneIsEarned
  BY DEF IInv, FileInv
<1> QED BY <1>1, QueueInvariant, PTL

(* A child comes after the completed mission of its parent.                 *)
THEOREM ParentsFirst == Spec => []ChildrenComeAfter
<1>1. IInv => ChildrenComeAfter
  BY DEF IInv, FileInv
<1> QED BY <1>1, QueueInvariant, PTL

(* What a marker says can be resumed, with nothing left out before it.      *)
THEOREM MarkersResume == Spec => []ResumePointsHold
<1>1. IInv => ResumePointsHold
  BY DEF IInv, FileInv
<1> QED BY <1>1, QueueInvariant, PTL

-----------------------------------------------------------------------------
(* One operator at a time *)

HIDE DEF files, flags, hist, bounds, moves, runs, locals, Keep, KeepFiles

(* The conditions: a signal or a crash, a second command, a job dropped in  *)
(* pending/ by hand, or the hard gate, whose parked jobs have no marker,    *)
(* each breaks one of the four properties.                                  *)
OneOperator ==
    /\ \A o1, o2 \in Ops : o1 = o2
    /\ MaxStops = 0
    /\ Intake \subseteq {"inbox"}
    /\ \A j \in Jobs : ~Gated(j)
    /\ ExclusiveLock

-----------------------------------------------------------------------------
(* The inductive invariant *)

Awake(d) == pc[d] \notin {"down", "recover"}

(* The daemon is putting its job into pending/, and has yet to say so.      *)
Parks(d) == pc[d] \in {"sidecar", "settle"} /\ out[d] = "pending"

(* The daemon moves jobs out of the inbox only, to where the result says,   *)
(* and the job it works on is not parked.                                   *)
DaemonOk(d) ==
    /\ pc[d] \notin {"resume", "unlink"}
    /\ pc[d] = "recover" => todo[d] = {}
    /\ pc[d] \notin Resting => cmd[d] = "process"
    /\ pc[d] \in {"rename", "sidecar", "settle"} =>
           /\ src[d] = "inbox" /\ dst[d] = Destination(out[d])
           /\ out[d] \in Failures \cup {"ok", "pending"}
    /\ pc[d] \notin Resting /\ ~Parks(d) => loc[job[d]] # "pending"

(* The command runs its parked job, or is about to move it on.              *)
Runs(o) ==
    /\ cmd[o] = "approve"
    /\ \/ pc[o] \in {"resume", "run", "ran", "rename"}
       \/ pc[o] = "settle" /\ out[o] = "pending"

(* What a command moves, and where its job is then.                         *)
OpMoves(o) ==
    \/ /\ cmd[o] = "approve"
       /\ \/ /\ out[o] \in Failures \cup {"ok"}
             /\ src[o] = "pending" /\ dst[o] = Destination(out[o])
          \/ out[o] = "pending" /\ pc[o] = "settle"
    \/ /\ cmd[o] = "deny" /\ out[o] = "none"
       /\ src[o] = "pending" /\ dst[o] = "failed"
    \/ cmd[o] = "cancel" /\ out[o] = "none" /\ dst[o] = "canceled"
    \/ /\ cmd[o] = "retry" /\ out[o] = "none" /\ dst[o] = "inbox"
       /\ src[o] \in {"failed", "canceled"} /\ pc[o] # "settle"

OpOk(o) ==
    /\ pc[o] \in {"idle", "resume", "run", "ran"} \cup MovePCs
    /\ pc[o] \in {"resume", "run", "ran"} => cmd[o] = "approve"
    /\ pc[o] = "ran" => out[o] \in Failures \cup {"ok", "pending"}
    /\ pc[o] = "unlink" => cmd[o] \in {"approve", "deny"}
    /\ pc[o] \in {"rename", "sidecar", "settle"} => OpMoves(o)
    /\ Runs(o) \/ (cmd[o] = "deny" /\ pc[o] = "rename") => loc[job[o]] = "pending"
    /\ cmd[o] \in {"approve", "deny"} /\ pc[o] \in {"sidecar", "settle", "unlink"} =>
           Runs(o) \/ loc[job[o]] \in Terminal \cup {"gone"}
    /\ cmd[o] = "cancel" /\ pc[o] \in {"sidecar", "settle"} => loc[job[o]] = "canceled"
    /\ cmd[o] = "retry" /\ pc[o] = "rename" /\ src[o] = "failed" =>
           loc[job[o]] \in {"failed", "gone"}

ProcOk(p) == (p \in Daemons => DaemonOk(p)) /\ (p \in Ops => OpOk(p))

BeingParked(j) == \E d \in Daemons : Parks(d) /\ job[d] = j
BeingRun(j) == \E o \in Ops : job[o] = j /\ Runs(o) /\ pc[o] # "resume"

(* A parked job has its marker and the approval that shows it, and says     *)
(* that it waits unless a command runs it.                                  *)
ParkedOk(j) ==
    loc[j] = "pending" =>
        /\ \E d \in Daemons : Awake(d)
        /\ ~BeingParked(j) =>
               /\ meta[j] # NoMeta
               /\ art[j] = meta[j].plan[meta[j].step]
               /\ BeingRun(j) \/ side[j].life = "awaiting_approval"

(* A failed job has its error sidecar, or the process that will write it,   *)
(* or the command that has archived it and takes the job away.              *)
Explains(p, j) ==
    /\ job[p] = j
    /\ \/ pc[p] \in {"sidecar", "settle"} /\ dst[p] = "failed"
       \/ pc[p] = "rename" /\ cmd[p] = "retry" /\ src[p] = "failed"

FailedOk(j) == loc[j] = "failed" => err[j] \/ \E p \in Procs : Explains(p, j)

JobOk(j) == loc[j] # "root" /\ ParkedOk(j) /\ FailedOk(j)

Unstopped ==
    /\ stops = 0 /\ \A d \in Daemons : ~shutdown[d]
    /\ \A d, e \in Daemons : pc[d] # "down" /\ pc[e] # "down" => d = e

OneInv ==
    /\ Unstopped
    /\ \A p \in Procs : ProcOk(p)
    /\ \A j \in Jobs : JobOk(j)

-----------------------------------------------------------------------------
(* What a step leaves alone *)

(* What counts of a process here does not change;                           *)
Same(q) ==
    /\ pc'[q] = pc[q] /\ cmd'[q] = cmd[q] /\ job'[q] = job[q]
    /\ src'[q] = src[q] /\ dst'[q] = dst[q] /\ out'[q] = out[q]

(* nor does any other process;                                              *)
Others(p) ==
    /\ \A q \in Procs \ {p} : Same(q)
    /\ \A d \in Daemons \ {p} : todo'[d] = todo[d]

(* nor does a job, except that a failed one may be pruned and a child       *)
(* enqueued.                                                                *)
Aside(k) ==
    /\ loc'[k] = "pending" =>
           meta'[k] = meta[k] /\ art'[k] = art[k] /\ side'[k].life = side[k].life
    /\ \/ loc'[k] = loc[k] /\ (loc[k] = "failed" => err'[k] = err[k])
       \/ loc[k] = "failed" /\ loc'[k] = "gone"
       \/ loc[k] = "absent" /\ loc'[k] = "inbox"

(* No other daemon is up.                                                   *)
OnlyUp(d) == \A e \in Daemons \ {d} : pc[e] = "down"

(* A process whose record stays, and so what it needs of its job, is fine   *)
(* as it was.                                                               *)
LEMMA OpKept ==
    ASSUME NEW o \in Ops, OpOk(o), Same(o),
           \/ pc[o] = "idle"
           \/ loc'[job[o]] = loc[job[o]]
           \/ loc[job[o]] = "failed" /\ loc'[job[o]] = "gone"
           \/ loc[job[o]] \in {"absent", "inbox"}
    PROVE  OpOk(o)'
BY DEF OpOk, OpMoves, Runs, Terminal, MovePCs, Same

(* and a daemon, while its job is not put into pending/.                    *)
LEMMA DaemonKept ==
    ASSUME NEW d \in Daemons, DaemonOk(d), Same(d), todo'[d] = todo[d],
           \/ pc[d] \in Resting
           \/ loc'[job[d]] = loc[job[d]]
           \/ loc'[job[d]] # "pending"
    PROVE  DaemonOk(d)'
BY DEF DaemonOk, Parks, Resting, Same

(* One process and one job: what is left to show of a step.                 *)
LEMMA StepFrame ==
    ASSUME OneOperator, BusyWithAJob, OneInv, NEW p \in Procs, NEW j,
           Others(p), \A k \in Jobs \ {j} : Aside(k),
           UNCHANGED <<shutdown, stops>>,
           p \in Daemons => OnlyUp(p) /\ (Awake(p) => Awake(p)'),
           job[p] = j \/ pc[p] \in Resting,
           \/ j \notin Jobs
           \/ loc'[j] = loc[j]
           \/ loc[j] = "failed" /\ loc'[j] = "gone"
           \/ p \in Daemons /\ loc[j] \in {"absent", "inbox"}
           \/ p \in Ops /\ loc'[j] # "pending",
           ProcOk(p)', j \in Jobs => JobOk(j)'
    PROVE  OneInv'
<1>1. Unstopped'
  BY ProcsAssumption DEF OneInv, Unstopped, Others, Same, OnlyUp
<1>2. ASSUME NEW q \in Procs \ {p} PROVE ProcOk(q)'
  <2>3. Same(q) /\ (q \in Daemons => todo'[q] = todo[q])
    BY <1>2 DEF Others
  <2>4. ASSUME job[q] \in Jobs, job[q] # j
        PROVE  \/ loc'[job[q]] = loc[job[q]]
               \/ loc[job[q]] = "failed" /\ loc'[job[q]] = "gone"
               \/ loc[job[q]] = "absent" /\ loc'[job[q]] = "inbox"
    BY <2>4 DEF Aside
  <2>1. CASE q \in Ops
    <3>1. OpOk(q) /\ q \notin Daemons /\ p \in Daemons
      BY <1>2, <2>1, ProcsAssumption DEF OneInv, ProcOk, OneOperator
    <3>2. \/ pc[q] = "idle" \/ (job[q] = j /\ j \in Jobs) \/ job[q] \in Jobs \ {j}
      BY <3>1 DEF BusyWithAJob, Resting, OpOk, MovePCs
    <3>3. OpOk(q)'
      BY <2>1, <2>3, <2>4, <3>1, <3>2, OpKept, ProcsAssumption
    <3> QED BY <3>1, <3>3 DEF ProcOk
  <2>2. CASE q \in Daemons
    <3>1. DaemonOk(q) /\ q \notin Ops /\ (p \in Ops \/ pc[q] = "down")
      BY <1>2, <2>2, ProcsAssumption DEF OneInv, ProcOk, OnlyUp
    <3>2. \/ pc[q] \in Resting \/ (job[q] = j /\ j \in Jobs) \/ job[q] \in Jobs \ {j}
      BY DEF BusyWithAJob
    <3>3. DaemonOk(q)'
      BY <2>2, <2>3, <2>4, <3>1, <3>2, DaemonKept, ProcsAssumption DEF Resting
    <3> QED BY <3>1, <3>3 DEF ProcOk
  <2> QED BY <2>1, <2>2
<1>3. ASSUME NEW k \in Jobs \ {j} PROVE JobOk(k)'
  <2>1. JobOk(k) /\ Aside(k)
    BY <1>3 DEF OneInv
  <2>2. /\ p \in Daemons => ~(Parks(p) /\ job[p] = k)
        /\ p \in Ops => ~(Runs(p) /\ pc[p] # "resume" /\ job[p] = k)
        /\ ~Explains(p, k)
    BY DEF Parks, Runs, Explains, Resting, OneInv, ProcOk, OpOk, MovePCs
  <2>3. ASSUME loc[k] = "pending" PROVE ParkedOk(k)'
    <3>1. \E d \in Daemons : Awake(d)'
      BY <2>1, <2>3 DEF JobOk, ParkedOk, Awake, Others, Same
    <3>2. BeingParked(k) => BeingParked(k)'
      BY <2>2 DEF BeingParked, Parks, Others, Same
    <3>3. BeingRun(k) => BeingRun(k)'
      BY <2>2 DEF BeingRun, Runs, Others, Same
    <3> QED BY <2>1, <2>3, <3>1, <3>2, <3>3 DEF JobOk, ParkedOk, Aside
  <2>4. FailedOk(k)'
    <3>1. ASSUME NEW q \in Procs, Explains(q, k) PROVE Explains(q, k)'
      BY <2>2, <3>1 DEF Explains, Others, Same
    <3> QED BY <2>1, <3>1 DEF JobOk, FailedOk, Aside
  <2> QED BY <2>1, <2>3, <2>4 DEF JobOk, ParkedOk, Aside
<1> QED BY <1>1, <1>2, <1>3 DEF OneInv

(* A step that moves no job and touches no marker has only its own record   *)
(* to account for, if it keeps up what the job needs of it.                 *)
LEMMA RecordFrame ==
    ASSUME OneOperator, BusyWithAJob, OneInv, NEW p \in Procs, NEW j,
           Others(p), UNCHANGED <<meta, art, err, shutdown, stops>>,
           \A k \in Jobs : loc'[k] = loc[k] \/ (loc[k] = "absent" /\ loc'[k] = "inbox"),
           \A k \in Jobs \ {j} : side'[k].life = side[k].life,
           loc[j] # "pending" \/ side'[j].life = side[j].life \/ BeingRun(j)',
           p \in Daemons => OnlyUp(p) /\ (Awake(p) => Awake(p)'),
           job[p] = j \/ pc[p] \in Resting,
           p \in Daemons /\ Parks(p) => Parks(p)' /\ job'[p] = job[p],
           p \in Ops /\ Runs(p) => Runs(p)' /\ job'[p] = job[p] /\ pc'[p] # "resume",
           Explains(p, j) => Explains(p, j)' \/ loc[j] # "failed",
           ProcOk(p)'
    PROVE  OneInv'
<1>1. \A k \in Jobs \ {j} : Aside(k)
  BY DEF Aside
<1>2. ASSUME j \in Jobs PROVE JobOk(j)'
  <2>1. JobOk(j)
    BY <1>2 DEF OneInv
  <2>2. ASSUME loc[j] = "pending" PROVE ParkedOk(j)'
    <3>1. \E d \in Daemons : Awake(d)'
      BY <2>1, <2>2 DEF JobOk, ParkedOk, Awake, Others, Same
    <3>2. BeingParked(j) => BeingParked(j)'
      BY DEF BeingParked, Parks, Others, Same
    <3>3. BeingRun(j) => BeingRun(j)'
      BY DEF BeingRun, Runs, Others, Same
    <3> QED BY <2>1, <2>2, <3>1, <3>2, <3>3 DEF JobOk, ParkedOk
  <2>3. FailedOk(j)'
    <3>1. ASSUME NEW q \in Procs, Explains(q, j), loc[j] = "failed"
          PROVE  Explains(q, j)'
      BY <3>1 DEF Explains, Others, Same
    <3> QED BY <1>2, <2>1, <3>1 DEF JobOk, FailedOk
  <2>4. loc'[j] = loc[j] \/ loc'[j] = "inbox"
    BY <1>2
  <2> QED BY <2>1, <2>2, <2>3, <2>4 DEF JobOk, ParkedOk
<1>3. \/ j \notin Jobs
      \/ loc'[j] = loc[j]
      \/ p \in Daemons /\ loc[j] \in {"absent", "inbox"}
      \/ p \in Ops /\ loc'[j] # "pending"
  OBVIOUS
<1> QED BY <1>1, <1>2, <1>3, StepFrame

-----------------------------------------------------------------------------
(* What the helpers of the model write into the record of a process *)

(* A process that goes on elsewhere,                                        *)
LEMMA GotoRecord ==
    ASSUME ProcsTyped, NEW p \in Procs, NEW c, Goto(p, c),
           \A d \in Daemons \ {p} : todo'[d] = todo[d]
    PROVE  /\ Others(p) /\ pc'[p] = c
           /\ cmd' = cmd /\ job' = job /\ src' = src /\ dst' = dst /\ out' = out
BY DEF ProcsTyped, Goto, Others, Same, locals, moves, runs

(* one that turns to another job,                                           *)
LEMMA TurnRecord ==
    ASSUME ProcsTyped, NEW p \in Procs, NEW c, NEW what, NEW j, NEW from, NEW to,
           Turn(p, c, what, j, from, to),
           \A d \in Daemons \ {p} : todo'[d] = todo[d]
    PROVE  /\ Others(p) /\ pc'[p] = c /\ cmd'[p] = what /\ job'[p] = j
           /\ src'[p] = from /\ dst'[p] = to /\ out'[p] = "none"
BY DEF ProcsTyped, Turn, Others, Same

(* one that moves it,                                                       *)
LEMMA MoveRecord ==
    ASSUME ProcsTyped, NEW p \in Procs, NEW from, NEW to, NEW result,
           Move(p, from, to, result), UNCHANGED todo
    PROVE  /\ Others(p) /\ pc'[p] = "rename" /\ cmd' = cmd /\ job' = job
           /\ src'[p] = from /\ dst'[p] = to /\ out'[p] = result
BY DEF ProcsTyped, Move, Others, Same

(* and one whose mission has ended.                                         *)
LEMMA RanRecord ==
    ASSUME ProcsTyped, NEW p \in Procs, NEW result, Ran(p, result), UNCHANGED todo
    PROVE  /\ Others(p) /\ pc'[p] = "ran" /\ cmd' = cmd /\ job' = job
           /\ src' = src /\ dst' = dst /\ out'[p] = result
BY DEF ProcsTyped, Ran, Others, Same, moves

(* _update_job_state writes one sidecar.                                    *)
LEMMA UpdateRecord ==
    ASSUME FilesTyped, NEW j \in Jobs, NEW dir, NEW life, NEW term,
           UpdateJobState(j, dir, life, term)
    PROVE  /\ side'[j].life = life
           /\ \A k \in Jobs \ {j} : side'[k] = side[k]
BY DEF FilesTyped, UpdateJobState, StateWritten

(* A command, or the loop of a daemon, at rest is in order.                 *)
LEMMA ReturnOk ==
    ASSUME TypeOK, NEW p \in Procs, ProcOk(p), pc[p] \notin Resting, Return(p), UNCHANGED todo
    PROVE  /\ Others(p) /\ ProcOk(p)' /\ job'[p] = NoJob
           /\ p \in Daemons => Awake(p) /\ Awake(p)'
<1>1. pc'[p] = Caller(cmd[p]) /\ Others(p) /\ job'[p] = NoJob
  BY TurnRecord DEF Return, Rest, TypeOK
<1>2. p \in Daemons => pc'[p] = "scan" /\ Awake(p)
  BY <1>1 DEF ProcOk, DaemonOk, Caller, Awake, Resting
<1>3. p \in Ops => pc'[p] = "idle"
  BY <1>1 DEF ProcOk, OpOk, OpMoves, Caller, Resting, MovePCs
<1> QED BY <1>1, <1>2, <1>3, ProcsAssumption
        DEF ProcOk, DaemonOk, OpOk, Awake, Resting, Runs, MovePCs

-----------------------------------------------------------------------------
(* The daemon *)

(* The daemon that is up is the only one, and so the only one that parks.   *)
LEMMA OneUp ==
    ASSUME OneInv, NEW d \in Daemons, pc[d] # "down"
    PROVE  /\ OnlyUp(d) /\ ProcOk(d) /\ DaemonOk(d) /\ d \notin Ops /\ ~shutdown[d]
           /\ \A j \in Jobs : BeingParked(j) => Parks(d) /\ job[d] = j
BY ProcsAssumption DEF OneInv, Unstopped, OnlyUp, ProcOk, BeingParked, Parks

(* Startup and the tick find nothing to recover and nothing misplaced.      *)
LEMMA LoopOne ==
    ASSUME OneOperator, IInv, OneInv, NEW d \in Daemons, DaemonLoop(d)
    PROVE  OneInv'
<1> USE ProcsAssumption DEF IInv, ProcInv
<1>1. ProcsTyped
  BY DEF TypeOK
<1>2. ASSUME Start(d) PROVE OneInv'
  <2>1. \A e \in Daemons : pc[e] = "down"
    BY <1>2 DEF Start, OneOperator
  <2>2. Inflight = {}
    BY <2>1 DEF Inflight, OneInv, JobOk, ParkedOk, Awake
  <2>3. Others(d) /\ pc'[d] = "recover" /\ todo'[d] = {}
    BY <1>1, <1>2, <2>2, GotoRecord DEF Start, TypeOK
  <2>4. ProcOk(d)'
    BY <2>3 DEF ProcOk, DaemonOk, Resting, Parks
  <2> QED BY <1>2, <2>1, <2>3, <2>4, RecordFrame
          DEF Start, OnlyUp, Awake, Parks, Explains, Resting, files, flags, bounds
<1>3. ASSUME RecoverOrphans(d) PROVE OneInv'
  <2>1. Others(d) /\ pc'[d] = "idle"
    BY <1>1, <1>3, GotoRecord DEF RecoverOrphans
  <2>2. \A k \in Jobs : loc[k] # "pending"
    BY <1>3, OneUp DEF RecoverOrphans, OneInv, JobOk, ParkedOk, Awake, OnlyUp
  <2>3. \A k \in Jobs : Aside(k)
    BY <1>3, <2>2 DEF RecoverOrphans, Aside
  <2>4. ProcOk(d)'
    BY <2>1 DEF ProcOk, DaemonOk, Resting, Parks
  <2> QED BY <1>3, <2>1, <2>3, <2>4, OneUp, JobsAssumption, StepFrame
          DEF RecoverOrphans, Awake, Resting, flags, bounds
<1>4. ASSUME Tick(d) \/ Scan(d) \/ EndTick(d) PROVE OneInv'
  <2>1. /\ Others(d) /\ pc'[d] \in {"idle", "relocate", "scan"}
        /\ pc[d] \in {"idle", "relocate", "scan"}
    BY <1>1, <1>4, GotoRecord DEF Tick, Scan, EndTick, TypeOK
  <2>4. ProcOk(d)'
    BY <2>1 DEF ProcOk, DaemonOk, Resting, Parks
  <2> QED BY <1>4, <2>1, <2>4, OneUp, RecordFrame
          DEF Tick, Scan, EndTick, Awake, Parks, Explains, Resting, files, flags, bounds
<1>5. ASSUME NEW j \in Jobs, Relocate(d, j) PROVE OneInv'
  <2>1. ~Misplaced(j)
    BY <1>5, OneUp DEF Relocate, Misplaced, OneInv, JobOk, ParkedOk, Parks
  <2>2. Others(d) /\ pc'[d] = "relocate" /\ pc[d] = "relocate"
    BY <1>5, <2>1 DEF Relocate, Others, Same, TypeOK, locals, moves, runs
  <2>3. ProcOk(d)'
    BY <2>2 DEF ProcOk, DaemonOk, Resting, Parks
  <2> QED BY <1>5, <2>2, <2>3, OneUp, RecordFrame
          DEF Relocate, Awake, Parks, Explains, Resting, files, flags, bounds
<1>6. ASSUME NEW j \in Jobs, Claim(d, j) PROVE OneInv'
  <2>1. /\ Others(d) /\ pc[d] = "scan"
        /\ \/ pc'[d] = "scan"
           \/ pc'[d] = "claimed" /\ cmd'[d] = "process" /\ job'[d] = j /\ loc[j] = "inbox"
    <3>1. CASE loc[j] = "inbox"
      BY <1>1, <1>6, <3>1, TurnRecord DEF Claim, TypeOK
    <3>2. CASE loc[j] # "inbox"
      BY <1>6, <3>2 DEF Claim, Others, Same, TypeOK, locals, moves, runs
    <3> QED BY <3>1, <3>2
  <2>2. UNCHANGED <<files, flags, bounds>>
    BY <1>6 DEF Claim
  <2>3. ProcOk(d)'
    BY <2>1, <2>2 DEF ProcOk, DaemonOk, Resting, Parks, files
  <2> QED BY <2>1, <2>2, <2>3, OneUp, RecordFrame
          DEF Awake, Parks, Explains, Resting, files, flags, bounds
<1>7. ASSUME NEW j \in Jobs PROVE ~Recover(d, j)
  BY OneUp DEF Recover, DaemonOk
<1>8. ~Stop(d)
  BY OneUp DEF Stop
<1> QED BY <1>2, <1>3, <1>4, <1>5, <1>6, <1>7, <1>8 DEF DaemonLoop

(* Loading, planning and advising work on a job that is not parked.         *)
LEMMA JobOne ==
    ASSUME OneOperator, IInv, OneInv, NEW d \in Daemons, DaemonJob(d)
    PROVE  OneInv'
<1> USE DEF IInv, ProcInv
<1> DEFINE j == job[d]
<1>1. ProcsTyped /\ FilesTyped
  BY DEF TypeOK
<1>2. /\ pc[d] \in {"claimed", "load", "plan", "advise"}
      /\ j \in Jobs /\ loc[j] # "pending"
      /\ UNCHANGED <<loc, meta, art, err, shutdown, stops, todo>>
      /\ \A k \in Jobs \ {j} : side'[k] = side[k]
  <2>1. pc[d] \in {"claimed", "load", "plan", "advise"}
    BY DEF DaemonJob, MarkPlanning, LoadInvalid, LoadAssistant, LoadGate, LoadPlan,
           Advise, Plan, PlanFails
  <2>2. UNCHANGED <<loc, meta, art, err, shutdown, stops, todo>>
    BY DEF DaemonJob, MarkPlanning, LoadInvalid, LoadAssistant, LoadGate, LoadPlan,
           Advise, Plan, PlanFails, Keep, KeepFiles, files, flags, bounds
  <2>3. j \in Jobs
    BY <2>1 DEF BusyWithAJob, Resting
  <2>4. \A k \in Jobs \ {j} : side'[k] = side[k]
    BY <1>1, <2>3, UpdateRecord
    DEF DaemonJob, MarkPlanning, LoadInvalid, LoadAssistant, LoadGate, LoadPlan,
           Advise, Plan, PlanFails, Keep, KeepFiles, files, flags, bounds
  <2> QED BY <2>1, <2>2, <2>3, <2>4, OneUp DEF DaemonOk, Resting, Parks
<1>3. Others(d) /\ ProcOk(d)' /\ Awake(d)'
  <2>1. CASE Return(d)
    BY <1>2, <2>1, OneUp, ReturnOk DEF Resting
  <2>2. CASE \E c \in {"load", "advise", "plan"} : Goto(d, c)
    BY <1>1, <1>2, <2>2, GotoRecord, OneUp DEF ProcOk, DaemonOk, Resting, Parks, Awake
  <2>3. CASE \E r \in {"ok", "fail", "invalid"} : Move(d, "inbox", Destination(r), r)
    BY <1>1, <1>2, <2>3, MoveRecord, OneUp
    DEF ProcOk, DaemonOk, Resting, Parks, Awake, Failures
  <2>4. CASE UNCHANGED moves /\ UNCHANGED out /\ pc' \in {pc, [pc EXCEPT ![d] = "run"]}
    BY <1>1, <1>2, <2>4, OneUp
    DEF ProcsTyped, Others, Same, moves, ProcOk, DaemonOk, Resting, Parks, Awake
  <2>5. Destination("invalid") = "failed" /\ ~LoadGate(d)
    BY <1>2, DestinationFacts DEF LoadGate, OneOperator
  <2>6. Advise(d, "ok") \/ Advise(d, "fail") \/ LoadInvalid(d)
        => Others(d) /\ ProcOk(d)' /\ Awake(d)'
    BY <2>3, <2>5 DEF Advise, LoadInvalid
  <2>7. MarkPlanning(d) \/ LoadAssistant(d) \/ LoadPlan(d)
        => Others(d) /\ ProcOk(d)' /\ Awake(d)'
    BY <2>1, <2>2 DEF MarkPlanning, LoadAssistant, LoadPlan
  <2>8. ASSUME NEW b \in BOOLEAN, PlanFails(d, b) PROVE Others(d) /\ ProcOk(d)' /\ Awake(d)'
    BY <2>3, <2>4, <2>5, <2>8 DEF PlanFails, moves
  <2>9. ASSUME NEW m \in Plans, Plan(d, m) PROVE Others(d) /\ ProcOk(d)' /\ Awake(d)'
    BY <2>4, <2>9 DEF Plan
  <2> QED BY <2>5, <2>6, <2>7, <2>8, <2>9 DEF DaemonJob
<1> QED BY <1>2, <1>3, OneUp, RecordFrame, ProcsAssumption DEF Parks, Explains, Awake

(* A mission runs where its job is, in the daemon or in the command.        *)
LEMMA RunnerOne ==
    ASSUME OneOperator, IInv, OneInv, NEW p \in Procs, Runner(p)
    PROVE  OneInv'
<1> USE DEF IInv, ProcInv
<1>1. ProcsTyped
  BY DEF TypeOK
<1>2. /\ pc[p] = "run"
      /\ UNCHANGED <<files, shutdown, stops, todo, moves>>
  BY
  DEF Runner, RunStep, StepDenied, StepAsks, MissionDone, Ran, Keep, KeepFiles, flags,
      bounds
<1>3. /\ Others(p) /\ pc'[p] \in {"run", "ran"}
      /\ pc'[p] = "ran" => out'[p] \in {"ok", "fail", "retry", "blocked", "pending"}
  BY <1>1, <1>2
  DEF Runner, RunStep, StepDenied, StepAsks, MissionDone, Ran, ProcsTyped, Others, Same,
      moves
<1>4. ProcOk(p) /\ ProcOk(p)'
  BY <1>2, <1>3, ProcsAssumption
  DEF OneInv, ProcOk, DaemonOk, OpOk, Resting, Parks, Runs, MovePCs, Failures, moves,
      files
<1> QED BY <1>2, <1>3, <1>4, OneUp, RecordFrame, ProcsAssumption
        DEF Parks, Runs, ProcOk, OpOk, Explains, Awake, files, moves

(* What becomes of a mission is decided before anything is moved.           *)
LEMMA OutcomeOne ==
    ASSUME OneOperator, IInv, OneInv, NEW p \in Procs, Outcome(p)
    PROVE  OneInv'
<1> USE DEF IInv, ProcInv
<1> DEFINE j == job[p]
<1>1. ProcsTyped /\ FilesTyped
  BY DEF TypeOK
<1>2. /\ pc[p] = "ran" /\ j \in Jobs /\ ProcOk(p)
      /\ UNCHANGED <<side, meta, art, err, shutdown, stops, todo>>
  BY DEF Outcome, EvaluateShutdown, EvaluateReplan, EvaluateParkOrFail, EvaluateOk,
         EvaluateApproved, Keep, KeepFiles, files, flags, bounds, OneInv, BusyWithAJob, Resting
<1>3. ASSUME p \in Daemons,
             EvaluateShutdown(p) \/ EvaluateReplan(p) \/ EvaluateParkOrFail(p) \/ EvaluateOk(p)
      PROVE  OneInv'
  <2>1. \A k \in Jobs : loc'[k] = loc[k] \/ (loc[k] = "absent" /\ loc'[k] = "inbox")
    BY <1>1, <1>3
    DEF EvaluateShutdown, EvaluateReplan, EvaluateParkOrFail, EvaluateOk, FilesTyped,
        KeepFiles, files
  <2>2. loc[j] # "pending" /\ cmd[p] = "process" /\ ~shutdown[p]
    BY <1>2, <1>3, OneUp DEF DaemonOk, Parks, Resting
  <2>3. CASE EvaluateReplan(p)
    <3>1. Others(p) /\ pc'[p] = "plan" /\ UNCHANGED moves /\ UNCHANGED loc
      BY <1>1, <2>3
      DEF EvaluateReplan, ProcsTyped, Others, Same, Keep, KeepFiles, files, moves
    <3>2. ProcOk(p)'
      BY <1>2, <1>3, <2>2, <3>1, ProcsAssumption DEF ProcOk, DaemonOk, Resting, Parks, moves
    <3> QED BY <1>2, <1>3, <3>1, <3>2, OneUp, RecordFrame, ProcsAssumption
            DEF Parks, Explains, Awake
  <2>4. CASE /\ Move(p, "inbox", Destination(out[p]), out[p])
             /\ out[p] \in Failures \cup {"ok", "pending"}
    <3>1. /\ Others(p) /\ pc'[p] = "rename" /\ cmd' = cmd /\ job' = job
          /\ src'[p] = "inbox" /\ dst'[p] = Destination(out[p]) /\ out'[p] = out[p]
      BY <1>1, <1>2, <2>4, MoveRecord
    <3>2. ProcOk(p)'
      BY <1>2, <1>3, <2>1, <2>2, <2>4, <3>1, ProcsAssumption
      DEF ProcOk, DaemonOk, Resting, Parks
    <3> QED BY <1>2, <1>3, <2>1, <3>1, <3>2, OneUp, RecordFrame, ProcsAssumption
            DEF Parks, Explains, Awake
  <2> QED BY <1>3, <2>2, <2>3, <2>4
          DEF EvaluateShutdown, EvaluateParkOrFail, EvaluateOk, Succeeded, Failures
<1>4. ASSUME EvaluateApproved(p) PROVE OneInv'
  <2>1. p \in Ops /\ p \notin Daemons /\ OpOk(p) /\ cmd[p] = "approve" /\ loc[j] = "pending"
        /\ out[p] \in Failures \cup {"ok", "pending"}
    BY <1>2, <1>4, ProcsAssumption DEF EvaluateApproved, ProcOk, OpOk, Runs
  <2>2. UNCHANGED loc
    BY <1>4 DEF EvaluateApproved, KeepFiles, files
  <2>3. /\ Others(p) /\ cmd' = cmd /\ job' = job /\ out'[p] = out[p]
        /\ \/ pc'[p] = "settle" /\ out[p] = "pending"
           \/ /\ pc'[p] = "rename" /\ out[p] # "pending"
              /\ src'[p] = "pending" /\ dst'[p] = Destination(out[p])
    BY <1>1, <1>2, <1>4, MoveRecord, GotoRecord DEF EvaluateApproved
  <2>4. ProcOk(p)'
    BY <2>1, <2>2, <2>3 DEF ProcOk, OpOk, OpMoves, Runs, MovePCs
  <2> QED BY <1>2, <2>1, <2>2, <2>3, <2>4, RecordFrame DEF Runs, Explains
<1> QED BY <1>3, <1>4 DEF Outcome

-----------------------------------------------------------------------------
(* Moving a job, and what is written once it has moved *)

(* A job out of pending/ and failed/ needs nothing;                         *)
LEMMA JobElsewhere ==
    ASSUME NEW j, loc'[j] \notin {"root", "pending", "failed"}
    PROVE  JobOk(j)'
BY DEF JobOk, ParkedOk, FailedOk

(* nor does one whose failure has been explained, or which was pruned.      *)
LEMMA FailureRecorded ==
    ASSUME FilesTyped, NEW j \in Jobs, NEW b \in BOOLEAN, RecordFailure(j, b),
           loc[j] \notin {"root", "pending"}, UNCHANGED <<meta, art>>,
           \A k \in Jobs \ {j} : side'[k] = side[k]
    PROVE  /\ JobOk(j)' /\ \A k \in Jobs \ {j} : Aside(k)
           /\ loc'[j] = loc[j] \/ (loc[j] = "failed" /\ loc'[j] = "gone")
<1>1. PICK gone :
        /\ err' = [k \in Jobs |-> (err[k] \/ k = j) /\ k \notin gone]
        /\ loc' = [k \in Jobs |-> IF k \in gone /\ loc[k] = "failed"
                                  THEN "gone" ELSE loc[k]]
  BY DEF RecordFailure
<1>2. /\ loc'[j] = loc[j] \/ (loc[j] = "failed" /\ loc'[j] = "gone")
      /\ loc'[j] = "failed" => err'[j]
  BY <1>1
<1>3. \A k \in Jobs \ {j} : Aside(k)
  BY <1>1 DEF Aside, FilesTyped
<1> QED BY <1>2, <1>3 DEF JobOk, ParkedOk, FailedOk

(* A parked run leaves a marker that can be resumed as shown.               *)
LEMMA ParkedAsShown ==
    ASSUME TypeOK, ProcInv, NEW p \in Procs, NEW j \in Jobs, job[p] = j,
           SettlePending(p), loc[j] = "pending" => \E d \in Daemons : Awake(d)'
    PROVE  /\ ParkedOk(j)' /\ \A k \in Jobs \ {j} : Aside(k)
           /\ UNCHANGED <<loc, err>> /\ Return(p)
<1>1. step[p] >= 1
  BY DEF SettlePending, ProcInv, MissionsProgress, HoldsMission
<1>2. /\ meta'[j] = [plan |-> plan[p], step |-> step[p]]
      /\ art'[j] = plan[p][step[p]] /\ side'[j].life = "awaiting_approval"
      /\ \A k \in Jobs \ {j} : side'[k] = side[k] /\ meta'[k] = meta[k] /\ art'[k] = art[k]
      /\ UNCHANGED <<loc, err>> /\ Return(p)
  BY UpdateRecord
  DEF SettlePending, TypeOK, FilesTyped, ResumePoint, ShownSkill, CurrentSkill
<1>3. meta'[j] # NoMeta
  BY <1>1, <1>2 DEF NoMeta
<1> QED BY <1>2, <1>3 DEF ParkedOk, Aside

(* The daemon, whose job has left the inbox.                                *)
LEMMA DaemonSettles ==
    ASSUME OneOperator, IInv, OneInv, NEW d \in Daemons, Settles(d)
    PROVE  OneInv'
<1> USE DEF IInv, ProcInv
<1>1. ProcsTyped /\ FilesTyped
  BY DEF TypeOK
<1>2. /\ pc[d] \in {"rename", "sidecar", "settle", "unlink"}
      /\ UNCHANGED <<shutdown, stops, todo>>
  BY DEF Settles, Rename, MoveSidecar, SettleFailure, SettleDone, SettlePending, Unlink,
         SettleGate, SettleRecover, SettleDeny, SettleCancel, Keep, flags, bounds
<1>3. PICK j \in Jobs : job[d] = j
  BY <1>2 DEF BusyWithAJob, Resting
<1>4. /\ job[d] = j /\ OnlyUp(d) /\ ProcOk(d) /\ d \notin Ops /\ Awake(d)
      /\ pc[d] # "unlink" /\ cmd[d] = "process"
      /\ src[d] = "inbox" /\ dst[d] = Destination(out[d])
      /\ out[d] \in Failures \cup {"ok", "pending"}
      /\ Parks(d) \/ loc[j] # "pending"
  BY <1>2, <1>3, OneUp DEF DaemonOk, Resting, Awake
<1>5. Destination(out[d]) = IF out[d] = "pending" THEN "pending"
                            ELSE IF out[d] = "ok" THEN "done" ELSE "failed"
  BY DEF Destination
<1>6. Return(d) => Others(d) /\ ProcOk(d)' /\ job'[d] = NoJob /\ Awake(d)'
  BY <1>2, <1>4, ReturnOk DEF Resting
<1>7. CASE Rename(d)
  <2>1. CASE loc[j] = "inbox"
    <3>1. /\ Others(d) /\ pc'[d] = "sidecar" /\ cmd'[d] = cmd[d] /\ job'[d] = j
          /\ src'[d] = "inbox" /\ dst'[d] = dst[d] /\ out'[d] = out[d]
      BY <1>1, <1>2, <1>4, <1>7, <2>1, GotoRecord DEF Rename
    <3>2. /\ loc'[j] = dst[d] /\ \A k \in Jobs \ {j} : loc'[k] = loc[k]
          /\ UNCHANGED <<side, meta, art, err>>
      BY <1>1, <1>4, <1>7, <2>1 DEF Rename, FilesTyped
    <3>3. ProcOk(d)'
      BY <1>4, <1>5, <3>1, <3>2 DEF ProcOk, DaemonOk, Resting, Parks, Failures
    <3>4. JobOk(j)'
      <4>1. ParkedOk(j)'
        BY <1>4, <1>5, <3>1, <3>2 DEF ParkedOk, BeingParked, Parks, Awake
      <4>2. FailedOk(j)'
        BY <1>4, <3>1, <3>2 DEF FailedOk, Explains
      <4> QED BY <1>4, <1>5, <3>2, <4>1, <4>2 DEF JobOk
    <3>5. \A k \in Jobs \ {j} : Aside(k)
      BY <3>2 DEF Aside
    <3>6. Awake(d)'
      BY <3>1 DEF Awake
    <3> QED BY <1>2, <1>4, <2>1, <3>1, <3>3, <3>4, <3>5, <3>6, StepFrame
  <2>2. CASE loc[j] # "inbox"
    <3>1. Return(d) /\ UNCHANGED <<loc, side, meta, art, err>>
      BY <1>4, <1>7, <2>2 DEF Rename
    <3> QED BY <1>2, <1>4, <1>6, <1>7, <3>1, RecordFrame DEF Rename, Parks, Explains
  <2> QED BY <2>1, <2>2
<1>8. CASE MoveSidecar(d)
  <2>1. /\ Others(d) /\ pc'[d] = "settle" /\ cmd'[d] = cmd[d] /\ job'[d] = j
        /\ src'[d] = "inbox" /\ dst'[d] = dst[d] /\ out'[d] = out[d]
    BY <1>1, <1>2, <1>4, <1>8, GotoRecord DEF MoveSidecar
  <2>2. /\ \A k \in Jobs : side'[k].life = side[k].life
        /\ UNCHANGED <<loc, meta, art, err>> /\ pc[d] = "sidecar"
    BY <1>1, <1>4, <1>8 DEF MoveSidecar, FilesTyped
  <2>3. ProcOk(d)'
    BY <1>4, <2>1, <2>2 DEF ProcOk, DaemonOk, Resting, Parks
  <2> QED BY <1>2, <1>4, <2>1, <2>2, <2>3, RecordFrame DEF Parks, Explains, Awake
<1>9. CASE SettleFailure(d)
  <2>1. /\ out[d] \in Failures /\ Return(d) /\ UNCHANGED <<meta, art>> /\ ~Parks(d)
        /\ \E b \in BOOLEAN : RecordFailure(j, b)
    BY <1>4, <1>9 DEF SettleFailure, AfterSettle, Parks, Failures
  <2>2. \A k \in Jobs \ {j} : side'[k] = side[k]
    BY <1>1, <1>4, <1>9, UpdateRecord DEF SettleFailure
  <2>3. loc[j] \notin {"root", "pending"}
    BY <1>4, <2>1 DEF OneInv, JobOk
  <2> QED BY <1>1, <1>2, <1>4, <1>6, <2>1, <2>2, <2>3, FailureRecorded, StepFrame
<1>10. CASE SettleDone(d)
  <2>1. /\ out[d] = "ok" /\ Return(d) /\ UNCHANGED <<loc, meta, art, err>>
        /\ \A k \in Jobs \ {j} : side'[k] = side[k]
    BY <1>1, <1>4, <1>10, UpdateRecord DEF SettleDone, AfterSettle
  <2>2. ~Parks(d) /\ ~Explains(d, j)
    BY <1>4, <1>5, <1>10, <2>1 DEF Parks, Explains, SettleDone
  <2> QED BY <1>2, <1>4, <1>6, <2>1, <2>2, RecordFrame
<1>11. CASE SettlePending(d)
  <2>1. /\ ParkedOk(j)' /\ \A k \in Jobs \ {j} : Aside(k)
        /\ UNCHANGED <<loc, err>> /\ Return(d)
    <3>1. Awake(d)'
      BY <1>6, <1>11 DEF SettlePending
    <3> QED BY <1>4, <1>11, <3>1, ParkedAsShown
  <2>2. ~Explains(d, j)
    BY <1>4, <1>5, <1>11 DEF Explains, SettlePending
  <2>3. JobOk(j)'
    <3>1. JobOk(j)
      BY <1>4 DEF OneInv
    <3>2. \A q \in Procs : Explains(q, j) => Explains(q, j)'
      BY <1>6, <2>1, <2>2 DEF Others, Same, Explains
    <3>3. FailedOk(j)'
      BY <2>1, <3>1, <3>2 DEF JobOk, FailedOk
    <3> QED BY <2>1, <3>1, <3>3 DEF JobOk
  <2> QED BY <1>2, <1>4, <1>6, <2>1, <2>3, StepFrame
<1> QED BY <1>4, <1>7, <1>8, <1>9, <1>10, <1>11
        DEF Settles, Unlink, SettleGate, SettleRecover, Failures

(* The command, whose job has left pending/ unless it parks it again.       *)
LEMMA OpSettles ==
    ASSUME OneOperator, IInv, OneInv, NEW o \in Ops, Settles(o)
    PROVE  OneInv'
<1> USE DEF IInv, ProcInv
<1>1. ProcsTyped /\ FilesTyped
  BY DEF TypeOK
<1>2. /\ pc[o] \in {"rename", "sidecar", "settle", "unlink"}
      /\ UNCHANGED <<shutdown, stops, todo>>
  BY DEF Settles, Rename, MoveSidecar, SettleFailure, SettleDone, SettlePending, Unlink,
         SettleGate, SettleRecover, SettleDeny, SettleCancel, Keep, flags, bounds
<1>3. PICK j \in Jobs : job[o] = j
  BY <1>2 DEF BusyWithAJob, Resting
<1>4. o \notin Daemons /\ OpOk(o) /\ ProcOk(o) /\ JobOk(j)
  BY ProcsAssumption DEF OneInv, ProcOk
<1>5. Destination(out[o]) = IF out[o] = "pending" THEN "pending"
                            ELSE IF out[o] = "ok" THEN "done" ELSE "failed"
  BY DEF Destination
<1>6. Return(o) => Others(o) /\ ProcOk(o)' /\ job'[o] = NoJob
  BY <1>2, <1>4, ReturnOk DEF Resting
<1>7. ASSUME Goto(o, "unlink"), cmd[o] \in {"approve", "deny"},
             loc'[j] \in Terminal \cup {"gone"}
      PROVE  Others(o) /\ ProcOk(o)' /\ job'[o] = j
  <2>1. Others(o) /\ pc'[o] = "unlink" /\ cmd' = cmd /\ job'[o] = j
    BY <1>1, <1>2, <1>3, <1>7, GotoRecord
  <2> QED BY <1>4, <1>7, <2>1 DEF ProcOk, OpOk, Runs, MovePCs
<1>8. CASE Rename(o)
  <2>1. UNCHANGED <<side, meta, art, err>> /\ pc[o] = "rename" /\ OpMoves(o)
    BY <1>4, <1>8 DEF Rename, OpOk
  <2>2. CASE loc[j] = src[o]
    <3>1. /\ Others(o) /\ pc'[o] = "sidecar" /\ cmd'[o] = cmd[o] /\ job'[o] = j
          /\ src'[o] = src[o] /\ dst'[o] = dst[o] /\ out'[o] = out[o]
      BY <1>1, <1>2, <1>3, <1>8, <2>2, GotoRecord DEF Rename
    <3>2. loc'[j] = dst[o] /\ \A k \in Jobs \ {j} : loc'[k] = loc[k]
      BY <1>1, <1>3, <1>8, <2>2 DEF Rename, FilesTyped
    <3>3. ProcOk(o)' /\ dst[o] \in {"done", "failed", "canceled", "inbox"}
      BY <1>4, <1>5, <2>1, <3>1, <3>2
      DEF ProcOk, OpOk, OpMoves, Runs, MovePCs, Terminal, Failures
    <3>4. JobOk(j)'
      BY <3>1, <3>2, <3>3 DEF JobOk, ParkedOk, FailedOk, Explains
    <3>5. \A k \in Jobs \ {j} : Aside(k)
      BY <2>1, <3>2 DEF Aside
    <3> QED BY <1>2, <1>3, <1>4, <3>1, <3>2, <3>3, <3>4, <3>5, StepFrame
  <2>3. CASE loc[j] # src[o]
    <3>1. /\ cmd[o] \in {"cancel", "retry"} /\ Return(o) /\ UNCHANGED loc
          /\ ~Runs(o) /\ (loc[j] = "failed" => ~Explains(o, j))
      BY <1>3, <1>4, <1>8, <2>1, <2>3 DEF Rename, OpOk, OpMoves, Runs, Explains
    <3> QED BY <1>2, <1>3, <1>4, <1>6, <2>1, <3>1, RecordFrame
  <2> QED BY <2>2, <2>3
<1>9. CASE MoveSidecar(o)
  <2>1. /\ pc[o] = "sidecar" /\ OpMoves(o) /\ UNCHANGED <<loc, meta, art, err>>
        /\ \A k \in Jobs : side'[k].life = side[k].life
    BY <1>1, <1>3, <1>4, <1>9 DEF MoveSidecar, FilesTyped, OpOk
  <2>2. ~Runs(o)
    BY <2>1 DEF Runs
  <2>3. CASE cmd[o] = "retry"
    <3>1. Return(o) /\ ~Explains(o, j)
      BY <1>9, <2>1, <2>3 DEF MoveSidecar, Explains, OpMoves
    <3> QED BY <1>2, <1>3, <1>4, <1>6, <2>1, <2>2, <3>1, RecordFrame
  <2>4. CASE cmd[o] # "retry"
    <3>1. /\ Others(o) /\ pc'[o] = "settle" /\ cmd'[o] = cmd[o] /\ job'[o] = j
          /\ src'[o] = src[o] /\ dst'[o] = dst[o] /\ out'[o] = out[o]
      BY <1>1, <1>2, <1>3, <1>9, <2>1, <2>4, GotoRecord DEF MoveSidecar, OpMoves
    <3>2. ProcOk(o)'
      BY <1>3, <1>4, <2>1, <2>4, <3>1
      DEF ProcOk, OpOk, OpMoves, Runs, MovePCs, Failures
    <3> QED BY <1>2, <1>3, <1>4, <2>1, <2>2, <3>1, <3>2, RecordFrame DEF Explains
  <2> QED BY <2>3, <2>4
<1>10. ASSUME SettleFailure(o) \/ SettleDeny(o) PROVE OneInv'
  <2>1. /\ cmd[o] \in {"approve", "deny"} /\ Goto(o, "unlink") /\ UNCHANGED <<meta, art>>
        /\ \E b \in BOOLEAN : RecordFailure(j, b)
        /\ loc[j] \in Terminal \cup {"gone"}
    BY <1>3, <1>4, <1>10
    DEF SettleFailure, SettleDeny, AfterSettle, OpOk, OpMoves, Runs, Failures
  <2>2. \A k \in Jobs \ {j} : side'[k] = side[k]
    BY <1>1, <1>3, <1>10, UpdateRecord DEF SettleFailure, SettleDeny
  <2>3. /\ JobOk(j)' /\ \A k \in Jobs \ {j} : Aside(k)
        /\ loc'[j] = loc[j] \/ (loc[j] = "failed" /\ loc'[j] = "gone")
    BY <1>1, <2>1, <2>2, FailureRecorded DEF Terminal
  <2>4. Others(o) /\ ProcOk(o)' /\ job'[o] = j
    BY <1>7, <2>1, <2>3
  <2> QED BY <1>2, <1>3, <1>4, <2>3, <2>4, StepFrame
<1>11. CASE SettleDone(o)
  <2>1. /\ out[o] = "ok" /\ cmd[o] = "approve" /\ Goto(o, "unlink")
        /\ UNCHANGED <<loc, meta, art, err>> /\ loc[j] \in Terminal \cup {"gone"}
        /\ ~Runs(o) /\ ~Explains(o, j)
    BY <1>3, <1>4, <1>5, <1>11 DEF SettleDone, AfterSettle, OpOk, OpMoves, Runs, Explains
  <2>2. \A k \in Jobs \ {j} : side'[k] = side[k]
    BY <1>1, <1>3, <1>11, UpdateRecord DEF SettleDone
  <2> QED BY <1>2, <1>3, <1>4, <1>7, <2>1, <2>2, RecordFrame DEF Terminal
<1>12. CASE SettlePending(o)
  <2>1. loc[j] = "pending"
    BY <1>3, <1>4, <1>12 DEF SettlePending, OpOk, OpMoves, Runs
  <2>2. Return(o)
    BY <1>12 DEF SettlePending
  <2>3. \E d \in Daemons : Awake(d)'
    BY <1>4, <1>6, <2>1, <2>2 DEF JobOk, ParkedOk, Awake, Others, Same
  <2>4. /\ ParkedOk(j)' /\ UNCHANGED <<loc, err>>
        /\ \A k \in Jobs \ {j} : Aside(k)
    BY <1>3, <1>12, <2>3, ParkedAsShown
  <2>5. JobOk(j)'
    BY <2>1, <2>4 DEF JobOk, FailedOk
  <2> QED BY <1>2, <1>3, <1>4, <1>6, <2>2, <2>4, <2>5, StepFrame
<1>13. ASSUME SettleCancel(o) \/ Unlink(o) PROVE OneInv'
  <2>1. /\ Return(o) /\ UNCHANGED loc
        /\ loc[j] \in Terminal \cup {"gone"}
        /\ loc[j] = "failed" => UNCHANGED err /\ ~Explains(o, j)
    BY <1>3, <1>4, <1>13 DEF SettleCancel, Unlink, OpOk, OpMoves, Runs, Explains, Terminal
  <2>2. \A k \in Jobs \ {j} : Aside(k)
    BY <1>1, <1>3, <1>13, UpdateRecord DEF SettleCancel, Unlink, Aside, FilesTyped
  <2>3. JobOk(j)'
    <3>1. \A q \in Procs : loc[j] = "failed" /\ Explains(q, j) => Explains(q, j)'
      BY <1>6, <2>1 DEF Others, Same, Explains
    <3> QED BY <1>4, <2>1, <3>1 DEF JobOk, ParkedOk, FailedOk, Terminal
  <2> QED BY <1>2, <1>3, <1>4, <1>6, <2>1, <2>2, <2>3, StepFrame
<1> QED BY <1>4, <1>8, <1>9, <1>10, <1>11, <1>12, <1>13 DEF Settles

-----------------------------------------------------------------------------
(* Operator commands and submissions *)

(* A command that begins finds its job where it says it takes it from.      *)
LEMMA CommandOne ==
    ASSUME OneOperator, IInv, OneInv, NEW o \in Ops, Commanded(o)
    PROVE  OneInv'
<1> USE DEF IInv, ProcInv
<1>1. ProcsTyped /\ FilesTyped
  BY DEF TypeOK
<1>2. o \notin Daemons /\ OpOk(o)
  BY ProcsAssumption DEF OneInv, ProcOk
<1>3. ASSUME Begin(o) PROVE pc[o] = "idle" /\ pc[o] \in Resting /\ ~Runs(o) /\ UNCHANGED stops
  BY <1>3 DEF Begin, Command, Resting, Runs
<1>4. ASSUME NEW j \in Jobs, NEW a \in BOOLEAN, Approve(o, j, a) PROVE OneInv'
  <2>1. /\ Begin(o) /\ loc[j] = "pending"
        /\ UNCHANGED <<loc, side, meta, art, err, shutdown, todo>>
    BY <1>4 DEF Approve, flags
  <2>2. /\ Others(o) /\ pc'[o] = "resume" /\ cmd'[o] = "approve" /\ job'[o] = j
    BY <1>1, <1>4 DEF Approve, ProcsTyped, Others, Same
  <2>3. ProcOk(o)'
    BY <1>2, <2>1, <2>2 DEF ProcOk, OpOk, Runs, MovePCs
  <2> QED BY <1>2, <1>3, <2>1, <2>2, <2>3, RecordFrame
<1>5. ASSUME NEW j \in Jobs, NEW a \in BOOLEAN, ApproveFails(o, j, a) PROVE OneInv'
  <2>1. /\ Begin(o) /\ Others(o) /\ pc' = pc /\ cmd' = cmd
        /\ UNCHANGED <<loc, side, meta, art, err, shutdown>>
    BY <1>5 DEF ApproveFails, Others, Same, flags, locals, moves, runs
  <2>2. ProcOk(o)'
    BY <1>2, <1>3, <2>1 DEF ProcOk, OpOk, Runs
  <2> QED BY <1>2, <1>3, <2>1, <2>2, RecordFrame DEF Explains
<1>6. ASSUME NEW j \in Jobs, Deny(o, j) \/ Cancel(o, j) PROVE OneInv'
  <2>1. Begin(o) /\ UNCHANGED <<loc, side, meta, art, err, shutdown, todo>>
    BY <1>6 DEF Deny, Cancel, KeepFiles, files, flags
  <2>2. /\ Others(o) /\ pc'[o] = "rename" /\ job'[o] = j /\ out'[o] = "none"
        /\ \/ /\ cmd'[o] = "deny" /\ src'[o] = "pending" /\ dst'[o] = "failed"
              /\ loc[j] = "pending"
           \/ cmd'[o] = "cancel" /\ dst'[o] = "canceled"
    BY <1>1, <1>6, <2>1, TurnRecord DEF Deny, Cancel
  <2>3. ProcOk(o)'
    BY <1>2, <2>1, <2>2 DEF ProcOk, OpOk, OpMoves, Runs, MovePCs
  <2> QED BY <1>2, <1>3, <2>1, <2>2, <2>3, RecordFrame DEF Explains
<1>7. ASSUME NEW j \in Jobs, Retry(o, j) PROVE OneInv'
  <2>1. /\ Begin(o) /\ loc[j] \in {"failed", "canceled"}
        /\ UNCHANGED <<loc, side, meta, art, shutdown, todo>>
        /\ \A k \in Jobs \ {j} : err'[k] = err[k]
        /\ loc[j] # "failed" => err'[j] = err[j]
    BY <1>1, <1>7 DEF Retry, flags, FilesTyped
  <2>2. /\ Others(o) /\ pc'[o] = "rename" /\ job'[o] = j /\ out'[o] = "none"
        /\ cmd'[o] = "retry" /\ src'[o] = loc[j] /\ dst'[o] = "inbox"
    BY <1>1, <1>7, <2>1, TurnRecord DEF Retry
  <2>3. ProcOk(o)'
    BY <1>2, <2>1, <2>2 DEF ProcOk, OpOk, OpMoves, Runs, MovePCs
  <2>4. JobOk(j)'
    BY <2>1, <2>2 DEF JobOk, ParkedOk, FailedOk, Explains
  <2>5. \A k \in Jobs \ {j} : Aside(k)
    BY <2>1 DEF Aside
  <2> QED BY <1>2, <1>3, <2>1, <2>2, <2>3, <2>4, <2>5, StepFrame
<1>8. ASSUME NEW j \in Jobs, Delete(o, j) PROVE OneInv'
  <2>1. /\ Begin(o) /\ Others(o) /\ pc' = pc /\ cmd' = cmd /\ UNCHANGED shutdown
    BY <1>8 DEF Delete, Others, Same, flags, locals, moves, runs
  <2>2. loc'[j] = "gone" /\ \A k \in Jobs \ {j} : Aside(k)
    BY <1>1, <1>8 DEF Delete, FilesTyped, Aside
  <2>3. ProcOk(o)'
    BY <1>2, <1>3, <2>1 DEF ProcOk, OpOk, Runs
  <2> QED BY <1>2, <1>3, <2>1, <2>2, <2>3, JobElsewhere, StepFrame
<1>9. ASSUME ResumeRun(o) PROVE OneInv'
  <2>1. PICK j \in Jobs : job[o] = j
    BY <1>9 DEF ResumeRun, BusyWithAJob, Resting
  <2>2. /\ pc[o] = "resume" /\ UNCHANGED <<loc, meta, art, err, shutdown, stops, todo>>
        /\ \A k \in Jobs \ {j} : side'[k] = side[k]
    BY <1>1, <1>9, <2>1, UpdateRecord DEF ResumeRun, Keep, flags, bounds
  <2>3. Others(o) /\ pc'[o] = "run" /\ cmd' = cmd /\ job' = job
    BY <1>1, <1>9, <2>2, GotoRecord DEF ResumeRun
  <2>4. cmd[o] = "approve"
    BY <1>2, <2>2 DEF OpOk
  <2>5. ProcOk(o)'
    BY <1>2, <2>2, <2>3, <2>4 DEF ProcOk, OpOk, Runs, MovePCs
  <2>6. Runs(o)' /\ BeingRun(j)'
    BY <2>1, <2>3, <2>4 DEF BeingRun, Runs
  <2> QED BY <1>2, <2>1, <2>2, <2>3, <2>5, <2>6, RecordFrame DEF Explains
<1> QED BY <1>4, <1>5, <1>6, <1>7, <1>8, <1>9 DEF Commanded, OpBegins

(* Where no process moves.                                                  *)
LEMMA StillFrame ==
    ASSUME BusyWithAJob, OneInv, UNCHANGED <<pc, locals, shutdown, stops, todo>>,
           UNCHANGED <<side, meta, art, err>>,
           \A k \in Jobs : loc'[k] = loc[k] \/ (loc[k] = "absent" /\ loc'[k] = "inbox")
    PROVE  OneInv'
<1>1. UNCHANGED <<pc, cmd, job, src, dst, out>>
  BY DEF locals, moves, runs
<1>2. Unstopped'
  BY <1>1 DEF OneInv, Unstopped
<1>3. ASSUME NEW q \in Procs PROVE ProcOk(q)'
  <2>1. Same(q) /\ ProcOk(q) /\ (pc[q] \in Resting \/ job[q] \in Jobs)
    BY <1>1 DEF Same, OneInv, BusyWithAJob
  <2>2. OpOk(q) /\ pc[q] \in Resting => pc[q] = "idle"
    BY DEF OpOk, Resting, MovePCs
  <2> QED BY <2>1, <2>2, OpKept, DaemonKept DEF ProcOk
<1>4. ASSUME NEW k \in Jobs PROVE JobOk(k)'
  <2>1. JobOk(k) /\ (loc'[k] = loc[k] \/ loc'[k] = "inbox")
    BY DEF OneInv
  <2> QED BY <1>1, <2>1 DEF JobOk, ParkedOk, FailedOk, Awake, BeingParked, BeingRun,
                            Parks, Runs, Explains
<1> QED BY <1>2, <1>3, <1>4 DEF OneInv

(* Nothing stops, and jobs come through the inbox.                          *)
LEMMA EnvironmentOne ==
    ASSUME OneOperator, IInv, OneInv, Environment \/ UNCHANGED vars
    PROVE  OneInv'
<1> USE DEF IInv, ProcInv
<1>1. ~Stoppage
  BY DEF Stoppage, OneInv, Unstopped
<1>2. ASSUME NEW j \in Jobs, NEW b \in Intake, Submit(j, b) PROVE OneInv'
  <2>1. \A k \in Jobs : loc'[k] = loc[k] \/ (loc[k] = "absent" /\ loc'[k] = "inbox")
    BY <1>2 DEF Submit, OneOperator, TypeOK, FilesTyped
  <2> QED BY <1>2, <2>1, StillFrame DEF Submit, flags, bounds
<1>3. ASSUME Pause \/ Resume \/ UNCHANGED vars PROVE OneInv'
  <2>1. UNCHANGED <<pc, locals, shutdown, todo, stops, files>>
    BY <1>3 DEF Pause, Resume, Command, vars, flags, bounds
  <2>2. UNCHANGED <<side, meta, art, err>> /\ \A k \in Jobs : loc'[k] = loc[k]
    BY <2>1 DEF files
  <2> QED BY <2>1, <2>2, StillFrame
<1> QED BY <1>1, <1>2, <1>3 DEF Environment, RequestShutdown, Crash

-----------------------------------------------------------------------------
(* Theorems *)

(* OneInv holds at the beginning,                                           *)
LEMMA InitOne == ASSUME OneOperator, Init PROVE OneInv
<1>1. ASSUME NEW p \in Procs PROVE ProcOk(p)
  BY ProcsAssumption DEF Init, ProcOk, DaemonOk, OpOk, Resting, Parks, Runs, MovePCs
<1>2. ASSUME NEW j \in Jobs PROVE JobOk(j)
  BY DEF Init, JobOk, ParkedOk, FailedOk
<1> QED BY <1>1, <1>2, BoundsAssumption DEF Init, OneInv, Unstopped, OneOperator

(* after every step                                                         *)
LEMMA NextOne == ASSUME OneOperator, IInv, OneInv, [Next]_vars PROVE OneInv'
<1>1. CASE Environment \/ UNCHANGED vars
  BY <1>1, EnvironmentOne
<1>2. ASSUME NEW d \in Daemons, Start(d) \/ DaemonWorks(d) PROVE OneInv'
  <2>1. DaemonLoop(d) \/ DaemonJob(d) \/ Runner(d) \/ Outcome(d) \/ Settles(d)
    BY <1>2 DEF DaemonWorks, Shared, DaemonLoop, DaemonJob, Runner, Outcome, Settles
  <2> QED BY <2>1, LoopOne, JobOne, RunnerOne, OutcomeOne, DaemonSettles
<1>3. ASSUME NEW o \in Ops, OpBegins(o) \/ OpWorks(o) PROVE OneInv'
  <2>1. Commanded(o) \/ Runner(o) \/ Outcome(o) \/ Settles(o)
    BY <1>3 DEF OpWorks, Shared, Commanded, Runner, Outcome, Settles
  <2> QED BY <2>1, CommandOne, RunnerOne, OutcomeOne, OpSettles
<1> QED BY <1>1, <1>2, <1>3 DEF Next

(* and, with IInv, in every state of every behaviour under one operator.    *)
LEMMA OneInvariant == ASSUME OneOperator PROVE Spec => [](IInv /\ OneInv)
<1>1. Init => IInv /\ OneInv
  BY InitIInv, InitOne
<1>2. IInv /\ OneInv /\ [Next]_vars => (IInv /\ OneInv)'
  BY NextIInv, NextOne
<1> QED BY <1>1, <1>2, PTL DEF Spec

(* No two processes run steps of one job at once: the daemon holds only     *)
(* jobs out of pending/, a command only one in it.                          *)
THEOREM RunsExclude == ASSUME OneOperator PROVE Spec => []ExclusiveExecution
<1>1. IInv /\ OneInv => ExclusiveExecution
  <2> SUFFICES ASSUME IInv, OneInv, NEW p \in Procs, NEW q \in Procs, p # q,
                      pc[p] \in {"run", "ran"}, pc[q] \in {"run", "ran"},
                      job[p] = job[q]
               PROVE  FALSE
    BY DEF ExclusiveExecution
  <2>1. ASSUME NEW d \in Daemons, pc[d] \in {"run", "ran"}
        PROVE  loc[job[d]] # "pending" /\ OnlyUp(d)
    BY <2>1, OneUp DEF DaemonOk, Resting, Parks
  <2>2. ASSUME NEW o \in Ops, pc[o] \in {"run", "ran"} PROVE loc[job[o]] = "pending"
    BY <2>2 DEF OneInv, ProcOk, OpOk, Runs
  <2> QED BY <2>1, <2>2 DEF OneOperator, OnlyUp
<1> QED BY <1>1, OneInvariant, PTL

(* A failed job nobody works on has its error sidecar.                      *)
THEOREM FailuresExplained == ASSUME OneOperator PROVE Spec => []FailedJobsExplained
<1>1. OneInv => FailedJobsExplained
  BY DEF OneInv, JobOk, FailedOk, Explains, FailedJobsExplained, Idle
<1> QED BY <1>1, OneInvariant, PTL

(* A parked job nobody works on has its marker, the approval that shows the *)
(* step it waits at, and the state that says so.                            *)
THEOREM ParkedResumable == ASSUME OneOperator PROVE Spec => []ParkedJobsResumable
<1>1. OneInv => ParkedJobsResumable
  BY DEF OneInv, JobOk, ParkedOk, BeingParked, BeingRun, ParkedJobsResumable, Idle
<1> QED BY <1>1, OneInvariant, PTL

(* A job stays in pending/ while an approve runs it.                        *)
THEOREM ApprovedStays == ASSUME OneOperator PROVE Spec => []ApprovedJobStays
<1>1. OneInv => ApprovedJobStays
  BY DEF OneInv, ProcOk, OpOk, Runs, ApprovedJobStays
<1> QED BY <1>1, OneInvariant, PTL

=============================================================================
