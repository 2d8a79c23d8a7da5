----------------------------- MODULE Automation -----------------------------
(***************************************************************************)
(* Saved automations: definitions that say when a job is to be submitted,  *)
(* the runner that submits the due ones (a timer starts it every minute,   *)
(* under a lock), and the commands of the CLI, the panel and Vera, which   *)
(* read, change and fire the same files without that lock.                 *)
(***************************************************************************)
EXTENDS Naturals, FiniteSets

CONSTANTS
    Autos,          \* ids of definitions: numbers, for the runner sorts them
    Kind,           \* Kind[a]: the trigger kind
    Span,           \* Span[a]: run_at_ms, delay_ms or interval_ms
    Runners,        \* `automation run-due-once`, by a timer or by hand
    Ops,            \* commands on one definition
    None,
    Missing, Gone,  \* no file of this id: none yet, or deleted
    MaxTime,        \* bound: the last instant
    MaxCommands,    \* bound: commands begun
    MaxFaults       \* bound: processes killed, and file operations that fail

Kinds == {"once_at", "delay", "recurring_interval", "recurring_cron", "watch_path"}
OneShotKinds == {"once_at", "delay"}
SupportedKinds == OneShotKinds \cup {"recurring_interval"}

ASSUME AutomationAssumption ==
    /\ Autos \subseteq Nat /\ None \notin Runners \cup Ops
    /\ Runners \cap Ops = {}
    /\ Kind \in [Autos -> Kinds] /\ Span \in [Autos -> Nat \ {0}]
    /\ MaxTime \in Nat \ {0} /\ MaxCommands \in Nat /\ MaxFaults \in Nat

Procs == Runners \cup Ops
Instants == 1 .. MaxTime
RunIds == Autos \X (1 .. MaxTime + 1)

VARIABLES
    now,
    store,      \* store[a]: the definition file, or why there is none
    tmp,        \* tmp[a]: <id>.json.tmp, of whoever saves
    inbox,      \* run ids of the submitted jobs no daemon has taken yet
    sent,       \* run ids ever submitted
    fires,      \* fires[a]: how often a was submitted
    history,    \* history[r]: the outcome on the record of run id r
    lock,       \* who has the flock of .runner.lock; the file is never unlinked
    pc, stamp,  \* of each process: where it is, and its now_ms
    todo,       \* of each runner: the definitions it has still to look at
    snap,       \* of each process: the definition it works on, as it read it
    act,        \* of each process: what it was asked to do
    commands, faults

files == <<store, tmp, inbox, sent, fires, history>>
locals == <<pc, stamp, todo, snap, act>>
vars == <<now, files, lock, locals, commands, faults>>

(* 0 stands for a time that is not set.                                     *)
Definition == [on : BOOLEAN, made : Instants, last : 0 .. MaxTime,
               next : Nat, refs : SUBSET RunIds]
Snapshot == [id : Autos, def : Definition]
Absent == {Missing, Gone}
ASSUME AbsentAssumption == Missing # Gone /\ \A x \in Absent : x \notin Definition
Acts == {"due", "run-now", "enable", "disable"}

TypeOK ==
    /\ now \in Instants
    /\ store \in [Autos -> Definition \cup Absent]
    /\ tmp \in [Autos -> Definition \cup {Missing}]
    /\ inbox \in SUBSET RunIds /\ sent \in SUBSET RunIds
    /\ fires \in [Autos -> Nat]
    /\ history \in [RunIds -> {"none", "submitted", "error"}]
    /\ lock \in Runners \cup {None}
    /\ pc \in [Procs -> {"idle", "list", "next", "emit", "record", "write",
                         "swap", "amend"}]
    /\ stamp \in [Procs -> Instants]
    /\ todo \in [Runners -> SUBSET Snapshot]
    /\ snap \in [Procs -> Snapshot \cup {None}]
    /\ act \in [Procs -> Acts]
    /\ commands \in 0 .. MaxCommands /\ faults \in 0 .. MaxFaults

Saved(a) == store[a] \notin Absent

Init ==
    /\ now = 1
    /\ store = [a \in Autos |-> Missing] /\ tmp = [a \in Autos |-> Missing]
    /\ inbox = {} /\ sent = {} /\ fires = [a \in Autos |-> 0]
    /\ history = [r \in RunIds |-> "none"]
    /\ lock = None
    /\ pc = [p \in Procs |-> "idle"] /\ stamp = [p \in Procs |-> 1]
    /\ todo = [r \in Runners |-> {}]
    /\ snap = [p \in Procs |-> None]
    /\ act = [p \in Procs |-> "due"]
    /\ commands = 0 /\ faults = 0

-----------------------------------------------------------------------------
(* When a definition is due *)

(* The instant from which a fires, if it ever does.                         *)
Anchors(a, d) ==
    CASE Kind[a] = "once_at" -> {Span[a]}
      [] Kind[a] = "delay" -> {d.made + Span[a]}
      [] Kind[a] = "recurring_interval" ->
             {IF d.next # 0 THEN d.next ELSE d.made + Span[a]}
      [] OTHER -> {}

Fired(a, d) == Kind[a] \in OneShotKinds /\ d.last # 0

(* run-now looks neither at the clock nor at what has fired.                *)
Due(a, d, t, forced) ==
    /\ d.on /\ Kind[a] \in SupportedKinds
    /\ \/ forced
       \/ ~Fired(a, d) /\ \E anchor \in Anchors(a, d) : anchor <= t

(* A definition saved as it was read but for its record, and one stamped    *)
(* with its next run.                                                       *)
AfterFireUnarmed(a, d, t) == [d EXCEPT !.refs = @ \cup {<<a, t>>}]

(* The definition after a fire at t: what was read, brought up to date.     *)
AfterFire(a, d, t) ==
    [d EXCEPT !.last = t, !.refs = @ \cup {<<a, t>>},
              !.on = Kind[a] \notin OneShotKinds,
              !.next = IF Kind[a] \in OneShotKinds THEN 0 ELSE t + Span[a]]

-----------------------------------------------------------------------------
(* The runner's pass *)

Release(p) == lock' = IF lock = p THEN None ELSE lock

(* A process that is over forgets what it had read.                         *)
Over(p) ==
    /\ pc' = [pc EXCEPT ![p] = "idle"]
    /\ stamp' = [stamp EXCEPT ![p] = 1]
    /\ snap' = [snap EXCEPT ![p] = None]
    /\ act' = [act EXCEPT ![p] = "due"]

(* The process is done with its definition: the pass goes on with the next, *)
(* a command is over.                                                       *)
Continue(p) ==
    IF p \in Ops THEN Over(p)
    ELSE /\ pc' = [pc EXCEPT ![p] = "next"]
         /\ snap' = [snap EXCEPT ![p] = None]
         /\ UNCHANGED <<stamp, act>>

(* acquire_runner_lock: a second runner is told "busy" and exits.           *)
Acquire(r) ==
    /\ pc[r] = "idle" /\ lock = None
    /\ lock' = r
    /\ pc' = [pc EXCEPT ![r] = "list"]
    /\ UNCHANGED <<now, files, stamp, todo, snap, act, commands, faults>>

(* run_due_automations: one stamp and one listing for the whole pass.       *)
List(r) ==
    /\ pc[r] = "list"
    /\ stamp' = [stamp EXCEPT ![r] = now]
    /\ todo' = [todo EXCEPT ![r] =
           {[id |-> a, def |-> store[a]] : a \in {b \in Autos : Saved(b)}}]
    /\ pc' = [pc EXCEPT ![r] = "next"]
    /\ UNCHANGED <<now, files, lock, snap, act, commands, faults>>

(* process_automation_definition: the next in the order of ids, if due.     *)
Take(r) ==
    /\ pc[r] = "next"
    /\ \E s \in todo[r] :
           /\ \A t \in todo[r] : s.id <= t.id
           /\ todo' = [todo EXCEPT ![r] = @ \ {s}]
           /\ IF Due(s.id, s.def, stamp[r], FALSE)
              THEN /\ pc' = [pc EXCEPT ![r] = "emit"]
                   /\ snap' = [snap EXCEPT ![r] = s]
              ELSE UNCHANGED <<pc, snap>>
    /\ UNCHANGED <<now, files, lock, stamp, act, commands, faults>>

(* A pass that ends with the lock held.                                     *)
EndPassHolding(r) ==
    /\ pc[r] = "next" /\ todo[r] = {}
    /\ Over(r)
    /\ UNCHANGED <<now, files, lock, todo, commands, faults>>

EndPass(r) ==
    /\ pc[r] = "next" /\ todo[r] = {}
    /\ Over(r) /\ Release(r)
    /\ UNCHANGED <<now, files, todo, commands, faults>>

(* The run id is a hash of the definition's id and of the stamp.            *)
RunId(p) == <<snap[p].id, stamp[p]>>

(* add_inbox_payload refuses a name that is in the inbox.                   *)
Emit(p) ==
    /\ pc[p] = "emit" /\ RunId(p) \notin inbox
    /\ inbox' = inbox \cup {RunId(p)}
    /\ sent' = sent \cup {RunId(p)}
    /\ fires' = [fires EXCEPT ![snap[p].id] = @ + 1]
    /\ pc' = [pc EXCEPT ![p] = "record"]
    /\ UNCHANGED <<now, store, tmp, history, lock, stamp, todo, snap, act,
                   commands, faults>>

Fault == faults < MaxFaults /\ faults' = faults + 1

(* No job, one error record, and the definition stays as it is.             *)
EmitFails(p) ==
    /\ pc[p] = "emit"
    /\ IF RunId(p) \in inbox THEN UNCHANGED faults ELSE Fault
    /\ history' = [history EXCEPT ![RunId(p)] = "error"]
    /\ Continue(p)
    /\ UNCHANGED <<now, store, tmp, inbox, sent, fires, lock, todo, commands>>

(* A fire that leaves no record.                                            *)
Unrecorded(p) ==
    /\ pc[p] = "record"
    /\ snap' = [snap EXCEPT ![p].def = AfterFire(snap[p].id, @, stamp[p])]
    /\ pc' = [pc EXCEPT ![p] = "write"]
    /\ UNCHANGED <<now, files, lock, stamp, todo, act, commands, faults>>

(* _persist_history, before the definition is saved.                        *)
Record(p) ==
    /\ pc[p] = "record"
    /\ history' = [history EXCEPT ![RunId(p)] = "submitted"]
    /\ snap' = [snap EXCEPT ![p].def = AfterFire(snap[p].id, @, stamp[p])]
    /\ pc' = [pc EXCEPT ![p] = "write"]
    /\ UNCHANGED <<now, store, tmp, inbox, sent, fires, lock, stamp, todo, act,
                   commands, faults>>

(* save_automation_definition: the temporary file, which has one name for   *)
(* all who save this definition, ...                                        *)
Write(p) ==
    /\ pc[p] = "write"
    /\ tmp' = [tmp EXCEPT ![snap[p].id] = snap[p].def]
    /\ pc' = [pc EXCEPT ![p] = "swap"]
    /\ UNCHANGED <<now, store, inbox, sent, fires, history, lock, stamp, todo,
                   snap, act, commands, faults>>

(* ... and the rename of what it holds by now, be there a definition to     *)
(* replace or none any more.                                                *)
Swap(p) ==
    LET a == snap[p].id IN
    /\ pc[p] = "swap" /\ tmp[a] # Missing
    /\ store' = [store EXCEPT ![a] = tmp[a]]
    /\ tmp' = [tmp EXCEPT ![a] = Missing]
    /\ Continue(p)
    /\ UNCHANGED <<now, inbox, sent, fires, history, lock, todo, commands, faults>>

Firing(p) == act[p] \in {"due", "run-now"}

(* Another process has renamed the file away, or the disk is full.  A fire  *)
(* is put on record once more, a command prints an error.                   *)
SaveFails(p) ==
    /\ pc[p] \in {"write", "swap"}
    /\ IF pc[p] = "swap" /\ tmp[snap[p].id] = Missing THEN UNCHANGED faults ELSE Fault
    /\ IF Firing(p)
       THEN pc' = [pc EXCEPT ![p] = "amend"] /\ UNCHANGED <<stamp, snap, act>>
       ELSE Over(p)
    /\ UNCHANGED <<now, files, lock, todo, commands>>

(* The second record has the run id of the next millisecond.                *)
Amend(p) ==
    /\ pc[p] = "amend"
    /\ history' = [history EXCEPT ![<<snap[p].id, stamp[p] + 1>>] = "error"]
    /\ Continue(p)
    /\ UNCHANGED <<now, store, tmp, inbox, sent, fires, lock, todo, commands, faults>>

(* A process is killed, or a record cannot be written, which no caller      *)
(* catches: the kernel drops the flock, and the rest of the pass is lost.   *)
Dies(p) ==
    /\ pc[p] # "idle" /\ Fault
    /\ Over(p) /\ Release(p)
    /\ todo' = [r \in Runners |-> IF r = p THEN {} ELSE todo[r]]
    /\ UNCHANGED <<now, files, commands>>

-----------------------------------------------------------------------------
(* The commands: none of them takes the lock *)

Command(o) ==
    /\ pc[o] = "idle" /\ commands < MaxCommands
    /\ commands' = commands + 1

(* The definition is read, and acted on from that reading.                  *)
Read(o, a, what, next, d) ==
    /\ Saved(a)
    /\ snap' = [snap EXCEPT ![o] = [id |-> a, def |-> d]]
    /\ stamp' = [stamp EXCEPT ![o] = now]
    /\ act' = [act EXCEPT ![o] = what]
    /\ pc' = [pc EXCEPT ![o] = next]
    /\ UNCHANGED <<now, files, lock, todo, faults>>

(* Nothing is saved that is already so.                                     *)
Enable(o, a) == ~store[a].on /\ Read(o, a, "enable", "write", [store[a] EXCEPT !.on = TRUE])
Disable(o, a) == store[a].on /\ Read(o, a, "disable", "write", [store[a] EXCEPT !.on = FALSE])

Fire(o, a, what) ==
    /\ Due(a, store[a], now, what = "run-now")
    /\ Read(o, a, what, "emit", store[a])

(* Deleted at once; the records stay.                                       *)
Delete(o, a) ==
    /\ Saved(a)
    /\ store' = [store EXCEPT ![a] = Gone]
    /\ UNCHANGED <<now, tmp, inbox, sent, fires, history, lock, locals, faults>>

(* submit_automation_preview: Vera saves a definition under a new id, on    *)
(* unless the preview says otherwise.  It has no reader before the rename.  *)
Create(o, a) ==
    /\ pc[o] = "idle" /\ store[a] = Missing
    /\ \E on \in BOOLEAN :
           store' = [store EXCEPT ![a] =
               [on |-> on, made |-> now, last |-> 0, next |-> 0, refs |-> {}]]
    /\ UNCHANGED <<now, tmp, inbox, sent, fires, history, lock, locals, commands, faults>>

CliEnable(o, a) == Saved(a) /\ Enable(o, a)
CliDisable(o, a) == Saved(a) /\ Disable(o, a)
CliDelete(o, a) == Delete(o, a)
CliRunNow(o, a) == Saved(a) /\ Fire(o, a, "run-now")
CliRunDueOnce(o, a) == Saved(a) /\ Fire(o, a, "due")     \* with --id

PanelToggle(o, a) == Saved(a) /\ (Enable(o, a) \/ Disable(o, a))
PanelRunNow(o, a) == Saved(a) /\ Fire(o, a, "run-now")
PanelDelete(o, a) == Delete(o, a)

(* Vera's handlers; which definition is meant has been resolved before.     *)
VeraHandles(o, a) ==
    /\ Saved(a)
    /\ Enable(o, a) \/ Disable(o, a) \/ Delete(o, a) \/ Fire(o, a, "run-now")

OpBegins(o) ==
  \E a \in Autos :
    \/ Create(o, a)
    \/ /\ Command(o)
       /\ \/ CliEnable(o, a) \/ CliDisable(o, a) \/ CliDelete(o, a)
          \/ CliRunNow(o, a) \/ CliRunDueOnce(o, a)
          \/ PanelToggle(o, a) \/ PanelRunNow(o, a) \/ PanelDelete(o, a)
          \/ VeraHandles(o, a)

-----------------------------------------------------------------------------
(* The daemon takes a submitted job out of the inbox.                       *)
DaemonTakes ==
    /\ \E r \in inbox : inbox' = inbox \ {r}
    /\ UNCHANGED <<now, store, tmp, sent, fires, history, lock, locals, commands,
                   faults>>

Tick ==
    /\ now < MaxTime /\ now' = now + 1
    /\ UNCHANGED <<files, lock, locals, commands, faults>>

Works(p) ==
    \/ Emit(p) \/ EmitFails(p) \/ Record(p) \/ Write(p) \/ Swap(p)
    \/ SaveFails(p) \/ Amend(p)

RunnerStep(r) == Acquire(r) \/ List(r) \/ Take(r) \/ EndPass(r) \/ Works(r)

Next ==
    \/ \E r \in Runners : RunnerStep(r)
    \/ \E o \in Ops : OpBegins(o) \/ Works(o)
    \/ \E p \in Procs : Dies(p)
    \/ DaemonTakes
    \/ Tick

(* The timer starts a runner again and again, a runner that is started goes *)
(* on, and the daemon empties the inbox; nothing is asked of the operators  *)
(* or of the clock.                                                         *)
Fairness == WF_vars(\E r \in Runners : RunnerStep(r)) /\ WF_vars(DaemonTakes)

Spec == Init /\ [][Next]_vars
LiveSpec == Spec /\ Fairness

-----------------------------------------------------------------------------
(* Properties *)

(* A definition refers to what exists: its last job was submitted, and each *)
(* of its references leads to a record, whoever died, failed to save or     *)
(* saved over whom.                                                         *)
ReferencesResolve ==
    \A a \in Autos : Saved(a) =>
        /\ store[a].last # 0 => <<a, store[a].last>> \in sent
        /\ \A r \in store[a].refs : r \in sent /\ history[r] # "none"

(* Every submitted job is on the record, unless the process that submitted  *)
(* it has died between the two or is about to write it.                     *)
FiresAreRecorded ==
    \A r \in sent :
        \/ history[r] # "none"
        \/ \E p \in Procs : pc[p] = "record" /\ RunId(p) = r
        \/ faults > 0

(* A one-shot fires once: each fire more is the doing of a command, or of a *)
(* process that died or failed between submitting and saving.  The runners  *)
(* alone, started as often as the timer likes, never fire it twice.         *)
OneShotsFireOnce ==
    \A a \in Autos : Kind[a] \in OneShotKinds => fires[a] <= 1 + commands + faults

(* And a recurring definition keeps its pace: no more fires than intervals  *)
(* have gone by since it was made, but for the same excuses.  A command may *)
(* be to blame for two: run-now fires, and any command that saves what it   *)
(* read some time ago sets the next run back.                               *)
RecurringKeepsPace ==
    \A a \in Autos :
        Kind[a] = "recurring_interval" /\ Saved(a) =>
            fires[a] <= (now - store[a].made) \div Span[a] + 2 * commands + faults

(* One pass at a time: what two runners do under the lock never overlaps.   *)
PassesAlone ==
    \A r \in Runners : pc[r] # "idle" <=> lock = r

DueNow(a) == Saved(a) /\ Due(a, store[a], now, FALSE)

(* Nothing fires without being due or asked for: the pace of each kind of   *)
(* definition is kept, and the passes of the runners do not overlap.        *)
FiresAreDue == OneShotsFireOnce /\ RecurringKeepsPace /\ PassesAlone

(* What a definition and its history say of the jobs submitted for it, and  *)
(* what was submitted, agree.                                               *)
FiresAreOnRecord == TypeOK /\ ReferencesResolve /\ FiresAreRecorded

(* A definition that is due is fired, disabled or deleted in the end.       *)
DueFires == \A a \in Autos : DueNow(a) ~> ~DueNow(a)
=============================================================================
