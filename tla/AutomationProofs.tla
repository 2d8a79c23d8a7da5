-------------------------- MODULE AutomationProofs --------------------------
(***************************************************************************)
(* TLAPS proofs about Automation, for any definitions, runners, commands   *)
(* and bounds: what a definition refers to exists, and what was submitted  *)
(* is on the record.  Definitions are copied about (listed by a runner,    *)
(* read by a command, written to the temporary file) and saved over one    *)
(* another, so the invariant says of every copy what is wanted of the file.*)
(* That nothing fires too often is proved by an account: what commands and *)
(* faults there were, less what has been fired and what commands at work   *)
(* may still do, is what is left to excuse a fire that is not due, and     *)
(* every copy a fire may come from is one from which that account allows   *)
(* it.                                                                     *)
(***************************************************************************)
EXTENDS Automation, Integers, FiniteSetTheorems, TLAPS

Working == {"emit", "record", "write", "swap", "amend"}

(* A copy of a's definition refers to what exists.                          *)
Resolves(a, d) ==
    /\ d.last # 0 => <<a, d.last>> \in sent
    /\ \A r \in d.refs : r \in sent /\ history[r] # "none"

Equipped == \A p \in Procs : pc[p] \in Working => snap[p] \in Snapshot
CopiesResolve ==
    /\ \A a \in Autos : Saved(a) => Resolves(a, store[a])
    /\ \A a \in Autos : tmp[a] # Missing => Resolves(a, tmp[a])
    /\ \A p \in Procs : pc[p] \in Working => Resolves(snap[p].id, snap[p].def)
    /\ \A r \in Runners : \A s \in todo[r] : Resolves(s.id, s.def)
RecordsFollow == \A p \in Procs : pc[p] = "record" => RunId(p) \in sent

Types == TypeOK /\ Equipped
RecordInv == Types /\ CopiesResolve /\ RecordsFollow /\ FiresAreRecorded

USE DEF files, locals

(* Nothing holds of anything before the first definition.                   *)
LEMMA InitRecord == Init => RecordInv
<1> SUFFICES ASSUME Init PROVE RecordInv
  OBVIOUS
<1> USE AutomationAssumption DEF Init
<1>1. TypeOK
  BY DEF TypeOK, Instants, RunIds, Procs, Acts, Absent
<1>2. Equipped /\ RecordsFollow /\ FiresAreRecorded
  BY DEF Equipped, RecordsFollow, FiresAreRecorded, Working
<1>3. CopiesResolve
  BY DEF CopiesResolve, Working, Saved, Absent
<1> QED BY <1>1, <1>2, <1>3 DEF RecordInv, Types

(* What the commands of the CLI, the panel and Vera come to.                *)
Reads(o, a) ==
    \E what \in Acts, next \in {"write", "emit"}, d \in Definition :
        /\ d.made = store[a].made /\ d.last = store[a].last /\ d.refs = store[a].refs
        /\ Read(o, a, what, next, d)
Commanded(o, a) ==
    \/ Create(o, a)
    \/ Command(o) /\ Delete(o, a)
    \/ Command(o) /\ Reads(o, a)

(* Every command is the making of a definition, a deletion or a reading.    *)
LEMMA CommandsComeToThis ==
  ASSUME TypeOK, NEW o \in Ops, OpBegins(o)
  PROVE  \E a \in Autos : Commanded(o, a)
<1>1. PICK a \in Autos : \/ Create(o, a)
                         \/ /\ Command(o)
                            /\ \/ Enable(o, a) \/ Disable(o, a) \/ Delete(o, a)
                               \/ Fire(o, a, "run-now") \/ Fire(o, a, "due")
  BY DEF OpBegins, CliEnable, CliDisable, CliDelete, CliRunNow, CliRunDueOnce,
         PanelToggle, PanelRunNow, PanelDelete, VeraHandles
<1>2. ASSUME Saved(a) PROVE store[a] \in Definition
  BY <1>2 DEF TypeOK, Saved
<1>3. CASE Enable(o, a) /\ Command(o)
  <2>1. Saved(a)
    BY <1>3 DEF Enable, Read
  <2>2. [store[a] EXCEPT !.on = TRUE] \in Definition
    BY <1>2, <2>1 DEF Definition
  <2>3. /\ [store[a] EXCEPT !.on = TRUE].last = store[a].last
        /\ [store[a] EXCEPT !.on = TRUE].refs = store[a].refs
        /\ [store[a] EXCEPT !.on = TRUE].made = store[a].made
    BY <1>2, <2>1 DEF Definition
  <2>4. Reads(o, a)
    BY <1>3, <2>2, <2>3 DEF Enable, Reads, Acts
  <2> QED BY <1>3, <2>4 DEF Commanded
<1>4. CASE Disable(o, a) /\ Command(o)
  <2>1. Saved(a)
    BY <1>4 DEF Disable, Read
  <2>2. [store[a] EXCEPT !.on = FALSE] \in Definition
    BY <1>2, <2>1 DEF Definition
  <2>3. /\ [store[a] EXCEPT !.on = FALSE].last = store[a].last
        /\ [store[a] EXCEPT !.on = FALSE].refs = store[a].refs
        /\ [store[a] EXCEPT !.on = FALSE].made = store[a].made
    BY <1>2, <2>1 DEF Definition
  <2>4. Reads(o, a)
    BY <1>4, <2>2, <2>3 DEF Disable, Reads, Acts
  <2> QED BY <1>4, <2>4 DEF Commanded
<1>5. CASE (Fire(o, a, "run-now") \/ Fire(o, a, "due")) /\ Command(o)
  <2>1. Saved(a)
    BY <1>5 DEF Fire, Read
  <2>2. Reads(o, a)
    BY <1>2, <1>5, <2>1 DEF Fire, Reads, Acts
  <2> QED BY <1>5, <2>2 DEF Commanded
<1> QED BY <1>1, <1>3, <1>4, <1>5 DEF Commanded

(* Every step leaves the state well typed, and who works on a definition    *)
(* has one.                                                                 *)
LEMMA TypeStep == Types /\ [Next]_vars => Types'
<1> SUFFICES ASSUME Types, [Next]_vars PROVE TypeOK' /\ Equipped'
  BY DEF Types
<1> USE AutomationAssumption DEF Types, TypeOK, Equipped, Working
<1>1. ASSUME NEW p \in Procs, Works(p) PROVE TypeOK' /\ Equipped'
  <2>0. pc[p] \in Working => /\ snap[p].id \in Autos /\ snap[p].def \in Definition
                             /\ RunId(p) \in RunIds /\ <<snap[p].id, stamp[p] + 1>> \in RunIds
    BY DEF Snapshot, RunId, RunIds, Instants
  <2>1. CASE Emit(p)
    <3>1. /\ inbox' \in SUBSET RunIds /\ sent' \in SUBSET RunIds
          /\ fires' \in [Autos -> Nat]
      <4>1. RunId(p) \in RunIds /\ snap[p].id \in Autos
        BY <2>0, <2>1 DEF Emit
      <4>2. inbox' \in SUBSET RunIds /\ sent' \in SUBSET RunIds
        BY <4>1, <2>1 DEF Emit
      <4>3. fires' = [fires EXCEPT ![snap[p].id] = fires[snap[p].id] + 1]
        BY <2>1 DEF Emit
      <4>4. fires' \in [Autos -> Nat]
        <5>1. fires \in [Autos -> Nat]
          OBVIOUS
        <5> HIDE DEF Types
        <5>2. fires[snap[p].id] \in Nat
          BY <4>1, <5>1
        <5>3. fires[snap[p].id] + 1 \in Nat
          BY <5>2
        <5> QED BY <4>1, <4>3, <5>1, <5>3
      <4> QED BY <4>2, <4>4
    <3>2. UNCHANGED <<now, store, tmp, history, lock, stamp, todo, snap, act, commands, faults>>
      BY <2>1 DEF Emit
    <3>3. /\ pc' = [pc EXCEPT ![p] = "record"] /\ pc[p] = "emit"
      BY <2>1 DEF Emit
    <3>4. Equipped'
      BY <2>0, <3>2, <3>3
    <3> QED BY <3>1, <3>2, <3>3, <3>4
  <2>2. CASE EmitFails(p)
    BY <2>0, <2>2 DEF EmitFails, Fault, Continue, Over, Procs, Acts, Instants
  <2>3. CASE Record(p)
    <3>1. AfterFire(snap[p].id, snap[p].def, stamp[p]) \in Definition
      <4>1. /\ snap[p].id \in Autos /\ snap[p].def \in Definition
            /\ RunId(p) \in RunIds /\ stamp[p] \in Instants
        BY <2>0, <2>3 DEF Record
      <4>2. /\ snap[p].def.refs \cup {<<snap[p].id, stamp[p]>>} \in SUBSET RunIds
            /\ stamp[p] \in 0 .. MaxTime
            /\ (IF Kind[snap[p].id] \in OneShotKinds THEN 0 ELSE stamp[p] + Span[snap[p].id]) \in Nat
        <5>1. snap[p].def.refs \in SUBSET RunIds
          BY <4>1 DEF Definition
        <5>2. <<snap[p].id, stamp[p]>> \in RunIds
          BY <4>1 DEF RunId
        <5>3. stamp[p] \in Nat /\ stamp[p] <= MaxTime /\ Span[snap[p].id] \in Nat
          <6>1. Span[snap[p].id] \in Nat \ {0}
            BY <4>1
          <6>2. stamp[p] \in 1 .. MaxTime
            BY <4>1 DEF Instants
          <6> QED BY <6>1, <6>2
        <5>4. snap[p].def.refs \cup {<<snap[p].id, stamp[p]>>} \in SUBSET RunIds
          BY <5>1, <5>2
        <5>5. stamp[p] \in 0 .. MaxTime
          BY <5>3
        <5>6. (IF Kind[snap[p].id] \in OneShotKinds THEN 0 ELSE stamp[p] + Span[snap[p].id]) \in Nat
          BY <5>3
        <5> QED BY <5>4, <5>5, <5>6
      <4> QED BY <4>1, <4>2 DEF AfterFire, Definition
    <3>2. [snap[p] EXCEPT !.def = AfterFire(snap[p].id, @, stamp[p])] \in Snapshot
      BY <2>3, <3>1 DEF Record, Snapshot
    <3>3. snap' = [snap EXCEPT ![p] = [snap[p] EXCEPT !.def = AfterFire(snap[p].id, @, stamp[p])]]
      BY <2>3 DEF Record
    <3> QED BY <2>0, <2>3, <3>2, <3>3 DEF Record
  <2>4. CASE Write(p)
    BY <2>0, <2>4 DEF Write
  <2>5. CASE Swap(p)
    <3>1. /\ store' \in [Autos -> Definition \cup Absent]
          /\ tmp' \in [Autos -> Definition \cup {Missing}]
      BY <2>0, <2>5 DEF Swap
    <3>2. /\ Continue(p) /\ pc[p] = "swap"
          /\ UNCHANGED <<now, inbox, sent, fires, history, lock, todo, commands, faults>>
      BY <2>5 DEF Swap
    <3> QED BY <3>1, <3>2 DEF Continue, Over, Procs, Acts, Instants
  <2>6. CASE SaveFails(p)
    BY <2>0, <2>6 DEF SaveFails, Fault, Over, Procs, Acts, Instants
  <2>7. CASE Amend(p)
    BY <2>0, <2>7 DEF Amend, Continue, Over, Procs, Acts, Instants
  <2> QED BY <1>1, <2>1, <2>2, <2>3, <2>4, <2>5, <2>6, <2>7 DEF Works
<1>2. ASSUME NEW r \in Runners, RunnerStep(r) PROVE TypeOK' /\ Equipped'
  <2>0. r \in Procs
    BY DEF Procs
  <2>1. CASE Acquire(r)
    BY <2>0, <2>1 DEF Acquire
  <2>2. CASE List(r)
    <3>1. {[id |-> a, def |-> store[a]] : a \in {b \in Autos : Saved(b)}} \subseteq Snapshot
      BY DEF Snapshot, Saved
    <3> QED BY <2>0, <2>2, <3>1 DEF List
  <2>3. CASE Take(r)
    <3>1. PICK s \in todo[r] :
            /\ todo' = [todo EXCEPT ![r] = @ \ {s}]
            /\ IF Due(s.id, s.def, stamp[r], FALSE)
               THEN /\ pc' = [pc EXCEPT ![r] = "emit"]
                    /\ snap' = [snap EXCEPT ![r] = s]
               ELSE UNCHANGED <<pc, snap>>
      BY <2>3 DEF Take
    <3>2. s \in Snapshot /\ todo' \in [Runners -> SUBSET Snapshot]
      BY <3>1
    <3>3. UNCHANGED <<now, store, tmp, inbox, sent, fires, history, lock, stamp, act, commands, faults>>
      BY <2>3 DEF Take
    <3>4. CASE Due(s.id, s.def, stamp[r], FALSE)
      BY <2>0, <3>1, <3>2, <3>3, <3>4
    <3>5. CASE ~Due(s.id, s.def, stamp[r], FALSE)
      BY <3>1, <3>2, <3>3, <3>5
    <3> QED BY <3>4, <3>5
  <2>4. CASE EndPass(r)
    BY <2>0, <2>4 DEF EndPass, Over, Release, Acts, Instants
  <2> QED BY <1>1, <1>2, <2>0, <2>1, <2>2, <2>3, <2>4 DEF RunnerStep
<1>3. ASSUME NEW o \in Ops, OpBegins(o) PROVE TypeOK' /\ Equipped'
  <2>0. PICK a \in Autos : Commanded(o, a)
    BY <1>3, CommandsComeToThis
  <2>1. CASE Create(o, a)
    <3>1. PICK on \in BOOLEAN :
            store' = [store EXCEPT ![a] =
                [on |-> on, made |-> now, last |-> 0, next |-> 0, refs |-> {}]]
      BY <2>1 DEF Create
    <3>2. [on |-> on, made |-> now, last |-> 0, next |-> 0, refs |-> {}] \in Definition
      <4>1. now \in Instants /\ 0 \in 0 .. MaxTime /\ {} \in SUBSET RunIds
        OBVIOUS
      <4> QED BY <4>1 DEF Definition
    <3> QED BY <2>1, <3>1, <3>2 DEF Create
  <2>2. CASE Command(o) /\ Delete(o, a)
    BY <2>2 DEF Command, Delete, Absent
  <2>3. CASE Command(o) /\ Reads(o, a)
    BY <2>3 DEF Command, Reads, Read, Procs, Snapshot
  <2> QED BY <2>0, <2>1, <2>2, <2>3 DEF Commanded
<1>4. ASSUME NEW p \in Procs, Dies(p) PROVE TypeOK' /\ Equipped'
  BY <1>4 DEF Dies, Fault, Over, Release, Procs, Acts, Instants
<1>5. CASE DaemonTakes
  BY <1>5 DEF DaemonTakes
<1>6. CASE Tick
  BY <1>6 DEF Tick, Instants
<1>7. CASE UNCHANGED vars
  BY <1>7 DEF vars
<1> QED BY <1>1, <1>2, <1>3, <1>4, <1>5, <1>6, <1>7 DEF Next, Procs

(* Jobs stay submitted and records stay written.                            *)
LEMMA RecordsStay ==
  ASSUME Types, [Next]_vars
  PROVE  /\ sent \subseteq sent'
         /\ \A r \in RunIds : history[r] # "none" => history'[r] # "none"
<1> USE DEF Types, TypeOK
<1>1. ASSUME NEW p \in Procs, Works(p)
      PROVE  /\ sent \subseteq sent'
             /\ \A r \in RunIds : history[r] # "none" => history'[r] # "none"
  BY <1>1 DEF Works, Emit, EmitFails, Record, Write, Swap, SaveFails, Amend
<1>2. ASSUME NEW r \in Runners, RunnerStep(r), ~Works(r) PROVE UNCHANGED <<sent, history>>
  BY <1>2 DEF RunnerStep, Acquire, List, Take, EndPass
<1>3. ASSUME NEW o \in Ops, OpBegins(o) PROVE UNCHANGED <<sent, history>>
  BY <1>3, CommandsComeToThis DEF Commanded, Create, Delete, Reads, Read
<1>4. ASSUME NEW p \in Procs, Dies(p) PROVE UNCHANGED <<sent, history>>
  BY <1>4 DEF Dies
<1>5. CASE DaemonTakes \/ Tick \/ UNCHANGED vars
  BY <1>5 DEF DaemonTakes, Tick, vars
<1> QED BY <1>1, <1>2, <1>3, <1>4, <1>5 DEF Next, Procs

(* A process that submits works on what it submitted until that is on the   *)
(* record: nobody else touches its reading.                                 *)
Same(p) == snap'[p] = snap[p] /\ stamp'[p] = stamp[p]
Submitting ==
    /\ \A p \in Procs : pc'[p] = "record" =>
           Same(p) /\ (pc[p] = "record" \/ RunId(p) \in sent')
    /\ \A p \in Procs : pc[p] = "record" =>
           \/ pc'[p] = "record" /\ Same(p)
           \/ history'[RunId(p)] # "none"
           \/ faults' > 0
    /\ \A r \in sent' : r \in sent \/ \E p \in Procs :
           pc'[p] = "record" /\ Same(p) /\ r = RunId(p)
    /\ faults > 0 => faults' > 0

(* Every step is one of these.                                              *)
LEMMA SubmittingStep == ASSUME Types, [Next]_vars PROVE Submitting
<1> USE AutomationAssumption DEF Submitting, Same
<1>0. /\ pc \in [Procs -> {"idle", "list", "next", "emit", "record", "write", "swap", "amend"}]
      /\ snap \in [Procs -> Snapshot \cup {None}] /\ stamp \in [Procs -> Instants]
      /\ faults \in Nat
  BY DEF Types, TypeOK
<1>1. ASSUME NEW p \in Procs, Works(p) PROVE Submitting
  <2>1. CASE Emit(p)
    BY <1>0, <2>1 DEF Emit
  <2>2. CASE EmitFails(p)
    BY <1>0, <2>2 DEF EmitFails, Fault, Continue, Over
  <2>3. CASE Record(p)
    <3>1. pc[p] = "record" => RunId(p) \in RunIds
      BY DEF Types, TypeOK, Equipped, Working, Snapshot, RunId, RunIds, Instants
    <3>2. history'[RunId(p)] = "submitted" /\ pc'[p] = "write"
      BY <1>0, <2>3, <3>1 DEF Record, Types, TypeOK
    <3>3. \A q \in Procs \ {p} : pc'[q] = pc[q] /\ Same(q)
      BY <1>0, <2>3 DEF Record
    <3>4. sent' = sent /\ faults' = faults
      BY <2>3 DEF Record
    <3> QED BY <3>2, <3>3, <3>4
  <2>4. CASE Write(p)
    BY <1>0, <2>4 DEF Write
  <2>5. CASE Swap(p)
    BY <1>0, <2>5 DEF Swap, Continue, Over
  <2>6. CASE SaveFails(p)
    BY <1>0, <2>6 DEF SaveFails, Fault, Over
  <2>7. CASE Amend(p)
    BY <1>0, <2>7 DEF Amend, Continue, Over
  <2> QED BY <1>1, <2>1, <2>2, <2>3, <2>4, <2>5, <2>6, <2>7 DEF Works
<1>2. ASSUME NEW r \in Runners, RunnerStep(r), ~Works(r) PROVE Submitting
  <2>0. r \in Procs
    BY DEF Procs
  <2>1. CASE Acquire(r)
    BY <1>0, <2>0, <2>1 DEF Acquire
  <2>2. CASE List(r)
    BY <1>0, <2>0, <2>2 DEF List
  <2>3. CASE Take(r)
    BY <1>0, <2>0, <2>3 DEF Take
  <2>4. CASE EndPass(r)
    BY <1>0, <2>0, <2>4 DEF EndPass, Over
  <2> QED BY <1>2, <2>1, <2>2, <2>3, <2>4 DEF RunnerStep
<1>3. ASSUME NEW o \in Ops, OpBegins(o) PROVE Submitting
  <2>0. o \in Procs
    BY DEF Procs
  <2>1. PICK a \in Autos : Commanded(o, a)
    BY <1>3, CommandsComeToThis DEF Types
  <2>2. CASE Command(o) /\ Reads(o, a)
    BY <1>0, <2>0, <2>2 DEF Command, Reads, Read
  <2>3. CASE Create(o, a) \/ (Command(o) /\ Delete(o, a))
    BY <2>3 DEF Create, Delete
  <2> QED BY <2>1, <2>2, <2>3 DEF Commanded
<1>4. ASSUME NEW p \in Procs, Dies(p) PROVE Submitting
  BY <1>0, <1>4 DEF Dies, Fault, Over
<1>5. CASE DaemonTakes \/ Tick \/ UNCHANGED vars
  BY <1>5 DEF DaemonTakes, Tick, vars
<1> QED BY <1>1, <1>2, <1>3, <1>4, <1>5 DEF Next, Procs

(* What is submitted is put on record, or about to be, or something died.   *)
LEMMA RecordsFollowStep ==
  ASSUME Types, RecordsFollow, FiresAreRecorded, [Next]_vars
  PROVE  RecordsFollow' /\ FiresAreRecorded'
<1>1. /\ sent \subseteq RunIds /\ sent \subseteq sent'
      /\ \A r \in RunIds : history[r] # "none" => history'[r] # "none"
  BY RecordsStay DEF Types, TypeOK
<1>2. Submitting
  BY SubmittingStep
<1>3. \A p \in Procs : Same(p) => RunId(p)' = RunId(p)
  BY DEF Same, RunId
<1>4. RecordsFollow'
  BY <1>1, <1>2, <1>3 DEF RecordsFollow, Submitting
<1>5. ASSUME NEW r \in sent', r \notin sent
      PROVE  \E p \in Procs : pc'[p] = "record" /\ RunId(p)' = r
  BY <1>2, <1>3, <1>5 DEF Submitting
<1>6. ASSUME NEW r \in sent
      PROVE  \/ history'[r] # "none" \/ faults' > 0
             \/ \E p \in Procs : pc'[p] = "record" /\ RunId(p)' = r
  <2>1. CASE history[r] # "none"
    BY <1>1, <2>1
  <2>2. CASE faults > 0
    BY <1>2, <2>2 DEF Submitting
  <2>3. CASE \E p \in Procs : pc[p] = "record" /\ RunId(p) = r
    BY <1>2, <1>3, <2>3 DEF Submitting
  <2> QED BY <2>1, <2>2, <2>3 DEF FiresAreRecorded
<1>7. FiresAreRecorded'
  BY <1>5, <1>6 DEF FiresAreRecorded
<1> QED BY <1>4, <1>7

(* A copy of a's definition will refer to what exists after the step: any   *)
(* that does before it, for records and jobs stay.                          *)
Later(a, d) ==
    /\ d.last # 0 => <<a, d.last>> \in sent'
    /\ \A r \in d.refs : r \in sent' /\ history'[r] # "none"

(* A copy that refers to what exists goes on doing so.                      *)
LEMMA CopiesKeep ==
  ASSUME Types, [Next]_vars, NEW a, NEW d \in Definition, Resolves(a, d)
  PROVE  Later(a, d)
<1>1. d.refs \subseteq RunIds
  BY DEF Definition
<1> QED BY <1>1, RecordsStay DEF Resolves, Later

(* The copy a fire is saved from refers to the job and the record it made.  *)
LEMMA FiredCopy ==
  ASSUME Types, CopiesResolve, RecordsFollow, [Next]_vars, NEW p \in Procs, Record(p)
  PROVE  Later(snap[p].id, AfterFire(snap[p].id, snap[p].def, stamp[p]))
<1> DEFINE a == snap[p].id  d == snap[p].def  e == AfterFire(a, d, stamp[p])
<1>1. /\ pc[p] = "record" /\ a \in Autos /\ d \in Definition /\ RunId(p) \in RunIds
      /\ RunId(p) = <<a, stamp[p]>>
  <2>1. /\ pc[p] = "record" /\ snap[p] \in Snapshot /\ stamp[p] \in 1 .. MaxTime
    BY DEF Record, Types, TypeOK, Equipped, Working, Instants
  <2>2. stamp[p] \in 1 .. MaxTime + 1
    BY <2>1, AutomationAssumption
  <2> QED BY <2>1, <2>2 DEF Snapshot, RunId, RunIds
<1>2. RunId(p) \in sent' /\ history'[RunId(p)] # "none"
  BY <1>1, RecordsStay DEF Record, RecordsFollow, Types, TypeOK
<1>3. Later(a, d)
  BY <1>1, CopiesKeep DEF CopiesResolve, Working
<1>4. e.last = stamp[p] /\ e.refs = d.refs \cup {RunId(p)}
  BY <1>1 DEF AfterFire, Definition
<1> QED BY <1>1, <1>2, <1>3, <1>4 DEF Later

(* Every copy after a step is one from before it, or the one of a fire.     *)
LEMMA CopiesStep == ASSUME RecordInv, [Next]_vars PROVE CopiesResolve'
<1>0. /\ Types /\ Types'
      /\ \A a \in Autos : Saved(a) => store[a] \in Definition /\ Later(a, store[a])
      /\ \A a \in Autos : tmp[a] # Missing => Later(a, tmp[a])
      /\ \A p \in Procs : pc[p] \in Working =>
             /\ snap[p].id \in Autos /\ Later(snap[p].id, snap[p].def)
      /\ \A r \in Runners : \A s \in todo[r] : Later(s.id, s.def)
  <2>1. Types /\ Types'
    BY TypeStep DEF RecordInv
  <2>2. \A a, d : d \in Definition /\ Resolves(a, d) => Later(a, d)
    BY <2>1, CopiesKeep
  <2>3. /\ \A a \in Autos : Saved(a) => store[a] \in Definition
        /\ \A a \in Autos : tmp[a] # Missing => tmp[a] \in Definition
        /\ \A p \in Procs : pc[p] \in Working => snap[p] \in Snapshot
        /\ \A r \in Runners : \A s \in todo[r] : s \in Snapshot
    BY <2>1 DEF Types, TypeOK, Equipped, Saved
  <2> QED BY <2>1, <2>2, <2>3 DEF RecordInv, CopiesResolve, Snapshot
<1>00. SUFFICES
      /\ \A a \in Autos : Saved(a)' => Later(a, store'[a])
      /\ \A a \in Autos : tmp'[a] # Missing => Later(a, tmp'[a])
      /\ \A p \in Procs : pc'[p] \in Working => Later(snap'[p].id, snap'[p].def)
      /\ \A r \in Runners : \A s \in todo'[r] : Later(s.id, s.def)
  BY DEF CopiesResolve, Resolves, Later
<1>t. /\ store \in [Autos -> Definition \cup Absent] /\ tmp \in [Autos -> Definition \cup {Missing}]
      /\ pc \in [Procs -> {"idle", "list", "next", "emit", "record", "write", "swap", "amend"}]
      /\ snap \in [Procs -> Snapshot \cup {None}] /\ todo \in [Runners -> SUBSET Snapshot]
  BY <1>0 DEF Types, TypeOK
<1>1. ASSUME NEW p \in Procs, Works(p) PROVE <1>00!1
  <2>1. CASE Emit(p)
    BY <1>0, <1>t, <2>1 DEF Emit, Saved, Working
  <2>2. CASE EmitFails(p)
    BY <1>0, <1>t, <2>2 DEF EmitFails, Continue, Over, Saved, Working
  <2>3. CASE Record(p)
    <3>1. Later(snap[p].id, AfterFire(snap[p].id, snap[p].def, stamp[p]))
      BY <1>0, <2>3, FiredCopy DEF RecordInv
    <3>2. snap[p] \in Snapshot
      BY <1>0, <2>3 DEF Record, Types, Equipped, Working
    <3>3. snap'[p].id = snap[p].id /\ snap'[p].def = AfterFire(snap[p].id, snap[p].def, stamp[p])
      BY <1>t, <2>3, <3>2 DEF Record, Snapshot
    <3>4. \A q \in Procs \ {p} : pc'[q] = pc[q] /\ snap'[q] = snap[q]
      BY <1>t, <2>3 DEF Record
    <3> QED BY <1>0, <2>3, <3>1, <3>3, <3>4 DEF Record, Saved
  <2>4. CASE Write(p)
    BY <1>0, <1>t, <2>4 DEF Write, Saved, Working
  <2>5. CASE Swap(p)
    BY <1>0, <1>t, <2>5 DEF Swap, Continue, Over, Saved, Working
  <2>6. CASE SaveFails(p)
    BY <1>0, <1>t, <2>6 DEF SaveFails, Over, Saved, Working
  <2>7. CASE Amend(p)
    BY <1>0, <1>t, <2>7 DEF Amend, Continue, Over, Saved, Working
  <2> QED BY <1>1, <2>1, <2>2, <2>3, <2>4, <2>5, <2>6, <2>7 DEF Works
<1>2. ASSUME NEW r \in Runners, RunnerStep(r), ~Works(r) PROVE <1>00!1
  <2>0. r \in Procs
    BY DEF Procs
  <2>1. CASE Acquire(r)
    BY <1>0, <1>t, <2>0, <2>1 DEF Acquire, Saved, Working
  <2>2. CASE List(r)
    BY <1>0, <1>t, <2>0, <2>2 DEF List, Saved, Working
  <2>3. CASE Take(r)
    BY <1>0, <1>t, <2>0, <2>3 DEF Take, Saved, Working
  <2>4. CASE EndPass(r)
    BY <1>0, <1>t, <2>0, <2>4 DEF EndPass, Over, Saved, Working
  <2> QED BY <1>2, <2>1, <2>2, <2>3, <2>4 DEF RunnerStep
<1>3. ASSUME NEW o \in Ops, OpBegins(o) PROVE <1>00!1
  <2>0. o \in Procs
    BY DEF Procs
  <2>1. PICK a \in Autos : Commanded(o, a)
    BY <1>0, <1>3, CommandsComeToThis DEF Types
  <2>2. CASE Command(o) /\ Reads(o, a)
    <3>1. PICK what \in Acts, next \in {"write", "emit"}, d \in Definition :
            /\ d.last = store[a].last /\ d.refs = store[a].refs
            /\ Read(o, a, what, next, d)
      BY <2>2 DEF Reads
    <3>2. Later(a, d)
      BY <1>0, <3>1 DEF Read, Later
    <3> QED BY <1>0, <1>t, <2>0, <3>1, <3>2 DEF Read, Saved, Working
  <2>3. CASE Create(o, a)
    <3>1. PICK on \in BOOLEAN :
            store' = [store EXCEPT ![a] =
                [on |-> on, made |-> now, last |-> 0, next |-> 0, refs |-> {}]]
      BY <2>3 DEF Create
    <3>2. Later(a, store'[a])
      BY <1>t, <3>1 DEF Later
    <3> QED BY <1>0, <1>t, <2>3, <3>1, <3>2 DEF Create, Saved
  <2>4. CASE Command(o) /\ Delete(o, a)
    BY <1>0, <1>t, <2>4 DEF Delete, Saved, Absent
  <2> QED BY <2>1, <2>2, <2>3, <2>4 DEF Commanded
<1>4. ASSUME NEW p \in Procs, Dies(p) PROVE <1>00!1
  BY <1>0, <1>t, <1>4 DEF Dies, Over, Saved, Working
<1>5. CASE DaemonTakes \/ Tick \/ UNCHANGED vars
  BY <1>0, <1>5 DEF DaemonTakes, Tick, vars, Saved
<1> QED BY <1>1, <1>2, <1>3, <1>4, <1>5 DEF Next, Procs

(* Whatever a definition's file says of its last job and its records exists,*)
(* and each submitted job is on the record unless its process died: for any *)
(* automations, runners, commands, faults and overlaps of their saves.      *)
THEOREM AutomationRecords == Spec => []FiresAreOnRecord
<1>1. RecordInv /\ [Next]_vars => RecordInv'
  BY TypeStep, CopiesStep, RecordsFollowStep DEF RecordInv
<1>2. RecordInv => FiresAreOnRecord
  BY DEF RecordInv, Types, CopiesResolve, Resolves, FiresAreOnRecord, ReferencesResolve
<1> QED BY InitRecord, <1>1, <1>2, PTL DEF Spec

-----------------------------------------------------------------------------
(* The pace of a definition *)

Recurring(a) == Kind[a] = "recurring_interval"

(* What the runners may have fired by t, of a definition made at m.         *)
Allowed(a, m, t) == IF Recurring(a) THEN (t - m) \div Span[a] ELSE 1

(* What an operator's process may be to blame for once it has read the      *)
(* definition: a fire, and the saving of an old copy.                       *)
Stale(a, d) == Recurring(a) \/ d.last = 0
OwesFire(a, place, s) == place = "emit" /\ s.id = a
OwesSave(a, place, s) ==
    \/ place \in {"emit", "record"} /\ s.id = a /\ Recurring(a)
    \/ place = "write" /\ s.id = a /\ Stale(a, s.def)
ToFire(a) == {o \in Ops : OwesFire(a, pc[o], snap[o])}
ToSave(a) == {o \in Ops : OwesSave(a, pc[o], snap[o])}
Owed(a) == Cardinality(ToFire(a)) + Cardinality(ToSave(a))

(* How many fires the commands and faults there were still excuse; saved is *)
(* 1 while the temporary file holds the old copy of a command.              *)
Left(a, saved) ==
    (IF Recurring(a) THEN 2 * commands ELSE commands) + faults - fires[a] - Owed(a) - saved

(* A copy from which nothing fires that n does not excuse: ever, or by t.   *)
Anchor(a, d) == IF d.next # 0 THEN d.next ELSE d.made + Span[a]
Harmless(a, m, n, d) ==
    IF Recurring(a) THEN Allowed(a, m, Anchor(a, d)) + n >= 1 ELSE d.last # 0
Ready(a, m, n, d, t) == Harmless(a, m, n, d) \/ Allowed(a, m, t) + n >= 1

Active == {"emit", "record", "write", "swap"}
At(p, a) == pc[p] \in Active /\ snap[p].id = a
Pending(a) == \E r \in Runners : At(r, a) /\ pc[r] \in {"record", "write"}
Swapping(a) == \E r \in Runners : At(r, a) /\ pc[r] = "swap" /\ tmp[a] # Missing

(* The file, the temporary file unless a command is to blame for it, what a *)
(* runner has listed and what it works on.                                  *)
FileReady(a, m, n) ==
    Saved(a) /\ ~Pending(a) /\ ~Swapping(a) => Ready(a, m, n, store[a], now)
CopyReady(a, m, n, saved) ==
    tmp[a] # Missing /\ saved = 0 /\ ~Pending(a) => Ready(a, m, n, tmp[a], now)
ListReady(r, a, m, n) == \A s \in todo[r] : s.id = a => Ready(a, m, n, s.def, stamp[r])
FireReady(r, a, m, n) ==
    At(r, a) =>
        /\ Kind[a] \in SupportedKinds
        /\ pc[r] = "emit" => Allowed(a, m, stamp[r]) + n >= 1
        /\ pc[r] = "record" => Allowed(a, m, stamp[r]) + n >= 0
        /\ pc[r] \in {"write", "swap"} => Harmless(a, m, n, snap[r].def)

MadeAt(a, m) ==
    /\ Saved(a) => store[a].made = m
    /\ tmp[a] # Missing => tmp[a].made = m
    /\ \A p \in Procs : At(p, a) => snap[p].def.made = m
    /\ \A r \in Runners : \A s \in todo[r] : s.id = a => s.def.made = m
Unmade(a) ==
    /\ tmp[a] = Missing /\ fires[a] = 0 /\ \A p \in Procs : ~At(p, a)
    /\ \A r \in Runners : \A s \in todo[r] : s.id # a

PaceWith(a, m, saved, n) ==
    /\ saved = 1 => tmp[a] # Missing
    /\ m <= now
    /\ MadeAt(a, m)
    /\ Allowed(a, m, now) + n >= 0
    /\ FileReady(a, m, n) /\ CopyReady(a, m, n, saved)
    /\ \A r \in Runners : ListReady(r, a, m, n) /\ FireReady(r, a, m, n)
Pace(a, m, saved) == PaceWith(a, m, saved, Left(a, saved))

PassOk ==
    /\ PassesAlone
    /\ \A r \in Runners :
         /\ act[r] = "due"
         /\ pc[r] \in {"idle", "list"} => todo[r] = {}
         /\ \A s, t \in todo[r] : s.id = t.id => s = t
         /\ pc[r] \in Working => \A s \in todo[r] : s.id # snap[r].id
StampsOk == \A p \in Procs : stamp[p] <= now
UnmadeOk == \A a \in Autos : store[a] = Missing => Unmade(a)
Counted == \A a \in Autos : IsFiniteSet(ToFire(a)) /\ IsFiniteSet(ToSave(a))

Paced(a) == \E m \in Instants, saved \in {0, 1} : Pace(a, m, saved)

PaceInv ==
    /\ PassOk /\ StampsOk /\ UnmadeOk /\ Counted
    /\ \A a \in Autos : Paced(a)

-----------------------------------------------------------------------------
(* Arithmetic *)

(* More time, no fewer intervals.                                           *)
LEMMA DivGrows ==
  ASSUME NEW k \in Nat \ {0}, NEW x \in Int, NEW y \in Int, x <= y
  PROVE  x \div k <= y \div k
OBVIOUS

(* One interval more is one more.                                           *)
LEMMA DivAdds ==
  ASSUME NEW k \in Nat \ {0}, NEW x \in Int
  PROVE  (x + k) \div k = x \div k + 1 /\ x \div k \in Int /\ 0 \div k = 0
OBVIOUS

(* What is allowed grows with the time.                                     *)
LEMMA AllowedGrows ==
  ASSUME NEW a \in Autos, NEW m \in Int, NEW t \in Int, NEW u \in Int, t <= u
  PROVE  /\ Allowed(a, m, t) \in Int /\ Allowed(a, m, u) \in Int
         /\ Allowed(a, m, t) <= Allowed(a, m, u)
<1>1. Span[a] \in Nat \ {0}
  BY AutomationAssumption
<1>2. (t - m) \div Span[a] <= (u - m) \div Span[a]
  BY <1>1, DivGrows
<1>3. \A x \in Int : x \div Span[a] \in Int
  BY <1>1, DivAdds
<1> QED BY <1>2, <1>3 DEF Allowed

(* A recurring definition is allowed one fire more an interval later, and   *)
(* none when it is made.                                                    *)
LEMMA AllowedAdds ==
  ASSUME NEW a \in Autos, Recurring(a), NEW m \in Int, NEW t \in Int
  PROVE  /\ Allowed(a, m, t + Span[a]) = Allowed(a, m, t) + 1
         /\ Allowed(a, m, m) = 0
<1>1. Span[a] \in Nat \ {0}
  BY AutomationAssumption
<1>2. ((t - m) + Span[a]) \div Span[a] = (t - m) \div Span[a] + 1
  BY <1>1, DivAdds
<1>3. (t - m) + Span[a] = (t + Span[a]) - m /\ m - m = 0
  BY <1>1
<1>4. 0 \div Span[a] = 0
  BY <1>1, DivAdds
<1> QED BY <1>2, <1>3, <1>4 DEF Allowed

(* What is ready stays ready as time goes by and excuses are added.         *)
LEMMA ReadyGrows ==
  ASSUME NEW a \in Autos, NEW m \in Int, NEW n \in Int, NEW k \in Int, n <= k, NEW d \in Definition,
         NEW t \in Int, NEW u \in Int, t <= u
  PROVE  /\ Harmless(a, m, n, d) => Harmless(a, m, k, d)
         /\ Ready(a, m, n, d, t) => Ready(a, m, k, d, u)
<1>1. Anchor(a, d) \in Int
  BY AutomationAssumption DEF Anchor, Definition, Instants
<1>2. Allowed(a, m, Anchor(a, d)) \in Int
  BY <1>1, AllowedGrows
<1>3. Harmless(a, m, n, d) => Harmless(a, m, k, d)
  BY <1>2 DEF Harmless
<1>4. /\ Allowed(a, m, t) \in Int /\ Allowed(a, m, u) \in Int
      /\ Allowed(a, m, t) <= Allowed(a, m, u)
  BY AllowedGrows
<1> QED BY <1>3, <1>4 DEF Ready

(* A runner takes only what may fire, or what its list's time allows.       *)
LEMMA DueIsAllowed ==
  ASSUME NEW a \in Autos, NEW m \in Int, NEW n \in Int, NEW d \in Definition, NEW t \in Int,
         Ready(a, m, n, d, t), Due(a, d, t, FALSE)
  PROVE  Allowed(a, m, t) + n >= 1
<1>1. CASE Recurring(a)
  <2>1. Anchor(a, d) \in Int /\ Anchor(a, d) <= t
    BY <1>1, AutomationAssumption DEF Due, Anchors, Anchor, Recurring, Definition, Instants
  <2>2. /\ Allowed(a, m, Anchor(a, d)) \in Int /\ Allowed(a, m, t) \in Int
        /\ Allowed(a, m, Anchor(a, d)) <= Allowed(a, m, t)
    BY <2>1, AllowedGrows
  <2> QED BY <1>1, <2>2 DEF Ready, Harmless
<1>2. CASE ~Recurring(a)
  BY <1>2 DEF Due, Fired, Ready, Harmless, Recurring, SupportedKinds
<1> QED BY <1>1, <1>2

(* What has been brought up to date fires no more than is allowed then.     *)
LEMMA FiredIsHarmless ==
  ASSUME NEW a \in Autos, NEW m \in Int, NEW n \in Int, NEW d \in Definition, NEW t \in Instants,
         Allowed(a, m, t) + n >= 0, Kind[a] \in SupportedKinds
  PROVE  Harmless(a, m, n, AfterFire(a, d, t)) /\ AfterFire(a, d, t).made = d.made
<1>1. /\ AfterFire(a, d, t).made = d.made /\ AfterFire(a, d, t).last = t
      /\ Recurring(a) => AfterFire(a, d, t).next = t + Span[a]
  BY DEF AfterFire, Definition, Recurring, OneShotKinds
<1>2. CASE Recurring(a)
  <2>1. Span[a] \in Nat \ {0} /\ t \in Int /\ t > 0
    BY AutomationAssumption DEF Instants
  <2>2. Anchor(a, AfterFire(a, d, t)) = t + Span[a]
    BY <1>1, <1>2, <2>1 DEF Anchor
  <2>3. Allowed(a, m, t + Span[a]) = Allowed(a, m, t) + 1 /\ Allowed(a, m, t) \in Int
    BY <1>2, <2>1, AllowedAdds, AllowedGrows
  <2> QED BY <1>1, <1>2, <2>2, <2>3 DEF Harmless
<1>3. CASE ~Recurring(a)
  BY <1>1, <1>3 DEF Harmless, Instants
<1> QED BY <1>1, <1>2, <1>3

-----------------------------------------------------------------------------
(* Counting *)

(* Two sets that differ by one element at most.                             *)
LEMMA OneMoved ==
  ASSUME NEW S, NEW T, NEW o, IsFiniteSet(S), \A x : x # o => (x \in S <=> x \in T)
  PROVE  /\ IsFiniteSet(T) /\ Cardinality(S) \in Nat /\ Cardinality(T) \in Nat
         /\ Cardinality(T) = Cardinality(S) + (IF o \in T THEN 1 ELSE 0) - (IF o \in S THEN 1 ELSE 0)
<1>1. CASE o \in S <=> o \in T
  <2>1. S = T
    BY <1>1
  <2> QED BY <1>1, <2>1, FS_CardinalityType
<1>2. CASE o \in S /\ o \notin T
  <2>1. T = S \ {o}
    BY <1>2
  <2> QED BY <1>2, <2>1, FS_RemoveElement, FS_CardinalityType
<1>3. CASE o \notin S /\ o \in T
  <2>1. T = S \cup {o}
    BY <1>3
  <2> QED BY <1>3, <2>1, FS_AddElement, FS_CardinalityType
<1> QED BY <1>1, <1>2, <1>3

(* What one process owes, once it has read the definition.                  *)
Owes(a, place, s) ==
    (IF OwesFire(a, place, s) THEN 1 ELSE 0) + (IF OwesSave(a, place, s) THEN 1 ELSE 0)

(* A step of one command changes only what that command owes.               *)
LEMMA OwedStep ==
  ASSUME Counted, NEW a \in Autos, NEW o \in Ops,
         \A q \in Ops \ {o} : pc'[q] = pc[q] /\ snap'[q] = snap[q]
  PROVE  /\ IsFiniteSet(ToFire(a)') /\ IsFiniteSet(ToSave(a)')
         /\ Owed(a) \in Nat /\ Owed(a)' \in Nat
         /\ Owed(a)' = Owed(a) + Owes(a, pc'[o], snap'[o]) - Owes(a, pc[o], snap[o])
<1>1. /\ \A x : x # o => (x \in ToFire(a) <=> x \in ToFire(a)')
      /\ o \in ToFire(a) <=> OwesFire(a, pc[o], snap[o])
      /\ o \in ToFire(a)' <=> OwesFire(a, pc'[o], snap'[o])
  BY DEF ToFire, OwesFire
<1>2. /\ \A x : x # o => (x \in ToSave(a) <=> x \in ToSave(a)')
      /\ o \in ToSave(a) <=> OwesSave(a, pc[o], snap[o])
      /\ o \in ToSave(a)' <=> OwesSave(a, pc'[o], snap'[o])
  BY DEF ToSave, OwesSave, Stale
<1>3. IsFiniteSet(ToFire(a)) /\ IsFiniteSet(ToSave(a))
  BY DEF Counted
<1>4. /\ IsFiniteSet(ToFire(a)') /\ Cardinality(ToFire(a)) \in Nat /\ Cardinality(ToFire(a)') \in Nat
      /\ Cardinality(ToFire(a)') = Cardinality(ToFire(a)) + (IF o \in ToFire(a)' THEN 1 ELSE 0)
                                                         - (IF o \in ToFire(a) THEN 1 ELSE 0)
  BY <1>1, <1>3, OneMoved
<1>5. /\ IsFiniteSet(ToSave(a)') /\ Cardinality(ToSave(a)) \in Nat /\ Cardinality(ToSave(a)') \in Nat
      /\ Cardinality(ToSave(a)') = Cardinality(ToSave(a)) + (IF o \in ToSave(a)' THEN 1 ELSE 0)
                                                         - (IF o \in ToSave(a) THEN 1 ELSE 0)
  BY <1>2, <1>3, OneMoved
<1>6. Owed(a) = Cardinality(ToFire(a)) + Cardinality(ToSave(a))
      /\ Owed(a)' = Cardinality(ToFire(a)') + Cardinality(ToSave(a)')
  BY DEF Owed
<1> QED BY <1>1, <1>2, <1>4, <1>5, <1>6 DEF Owes

(* A step of no command changes nothing of what is owed.                    *)
LEMMA OwedStays ==
  ASSUME Counted, NEW a \in Autos, \A q \in Ops : pc'[q] = pc[q] /\ snap'[q] = snap[q]
  PROVE  /\ IsFiniteSet(ToFire(a)') /\ IsFiniteSet(ToSave(a)')
         /\ Owed(a) \in Nat /\ Owed(a)' = Owed(a)
<1>1. ToFire(a)' = ToFire(a) /\ ToSave(a)' = ToSave(a)
  BY DEF ToFire, ToSave, OwesFire, OwesSave, Stale
<1> QED BY <1>1, FS_CardinalityType DEF Counted, Owed

-----------------------------------------------------------------------------
(* Steps *)

(* From the count, as a number, back to the count of the state reached.     *)
LEMMA PaceNow ==
  ASSUME NEW a \in Autos, NEW m \in Instants, NEW saved \in {0, 1}, NEW k \in Int,
         k = Left(a, saved)', PaceWith(a, m, saved, k)'
  PROVE  Pace(a, m, saved)'
BY DEF Pace

(* What the runner r has listed and works on of a is what it was.           *)
Unaltered(r, a) ==
    /\ At(r, a)' => At(r, a) /\ pc'[r] = pc[r] /\ snap'[r] = snap[r] /\ stamp'[r] = stamp[r]
    /\ \A s \in todo'[r] : s.id = a => s \in todo[r] /\ stamp'[r] = stamp[r]

(* The types of what the pace is about.                                     *)
LEMMA PaceTypes ==
  ASSUME Types, NEW a \in Autos
  PROVE  /\ now \in Instants /\ now \in Int
         /\ Saved(a) => store[a] \in Definition
         /\ tmp[a] # Missing => tmp[a] \in Definition
         /\ \A r \in Runners : /\ stamp[r] \in Int /\ r \in Procs
                               /\ At(r, a) => snap[r].def \in Definition
                               /\ \A s \in todo[r] : s.def \in Definition
         /\ commands \in Nat /\ faults \in Nat /\ fires[a] \in Nat
BY AutomationAssumption
   DEF Types, TypeOK, Equipped, Instants, Procs, Saved, Absent, Snapshot, At, Active, Working

(* What the clock and the excuses allow stays allowed.                      *)
LEMMA AllowedKeeps ==
  ASSUME Types, Types', NEW a \in Autos, NEW m \in Int, NEW n \in Int, NEW k \in Int, n <= k,
         now <= now', Allowed(a, m, now) + n >= 0
  PROVE  Allowed(a, m, now') + k >= 0 /\ (n + 1 <= k => Allowed(a, m, now') + k >= 1)
<1>1. now \in Int /\ now' \in Int
  BY DEF Types, TypeOK, Instants
<1>2. /\ Allowed(a, m, now) \in Int /\ Allowed(a, m, now') \in Int
      /\ Allowed(a, m, now) <= Allowed(a, m, now')
  BY <1>1, AllowedGrows
<1> QED BY <1>2

(* A file that is not saved over stays ready: before a runner's save is     *)
(* pending, or by the excuse that ends it.                                  *)
LEMMA FileKeeps ==
  ASSUME Types, Types', NEW a \in Autos, NEW m \in Int, NEW n \in Int, NEW k \in Int, n <= k,
         now <= now', Allowed(a, m, now) + n >= 0, FileReady(a, m, n),
         store'[a] \in {store[a], Gone},
         ~Pending(a)' /\ ~Swapping(a)' => (~Pending(a) /\ ~Swapping(a)) \/ n + 1 <= k
  PROVE  FileReady(a, m, k)'
<1> SUFFICES ASSUME Saved(a)', ~Pending(a)', ~Swapping(a)' PROVE Ready(a, m, k, store'[a], now')
  BY DEF FileReady, Ready, Harmless, Allowed, Anchor, Recurring
<1>1. Saved(a) /\ store'[a] = store[a] /\ store[a] \in Definition
      /\ now \in Int /\ now' \in Int
  BY PaceTypes DEF Saved, Absent, Types, TypeOK, Instants
<1>2. CASE n + 1 <= k
  BY <1>2, AllowedKeeps DEF Ready
<1>3. CASE ~Pending(a) /\ ~Swapping(a)
  <2>1. Ready(a, m, n, store[a], now)
    BY <1>1, <1>3 DEF FileReady
  <2> QED BY <1>1, <2>1, ReadyGrows
<1> QED BY <1>2, <1>3

(* So does a temporary file nobody writes, ...                              *)
LEMMA CopyKeeps ==
  ASSUME Types, Types', NEW a \in Autos, NEW m \in Int, NEW n \in Int, NEW k \in Int, n <= k,
         NEW saved \in {0, 1}, now <= now', Allowed(a, m, now) + n >= 0,
         CopyReady(a, m, n, saved), tmp'[a] = tmp[a],
         ~Pending(a)' => ~Pending(a) \/ n + 1 <= k
  PROVE  CopyReady(a, m, k, saved)'
<1> SUFFICES ASSUME tmp'[a] # Missing, saved = 0, ~Pending(a)' PROVE Ready(a, m, k, tmp'[a], now')
  BY DEF CopyReady, Ready, Harmless, Allowed, Anchor, Recurring
<1>1. tmp[a] \in Definition /\ now \in Int /\ now' \in Int
  BY PaceTypes DEF Types, TypeOK, Instants
<1>2. CASE n + 1 <= k
  BY <1>2, AllowedKeeps DEF Ready
<1>3. CASE ~Pending(a)
  <2>1. Ready(a, m, n, tmp[a], now)
    BY <1>3 DEF CopyReady
  <2> QED BY <1>1, <2>1, ReadyGrows
<1> QED BY <1>2, <1>3

(* ... and what a runner has listed and works on.                           *)
LEMMA RunnerKeeps ==
  ASSUME Types, Types', NEW a \in Autos, NEW m \in Int, NEW n \in Int, NEW k \in Int, n <= k,
         NEW r \in Runners, ListReady(r, a, m, n), FireReady(r, a, m, n), Unaltered(r, a)
  PROVE  ListReady(r, a, m, k)' /\ FireReady(r, a, m, k)'
<1>1. ListReady(r, a, m, k)'
  <2> SUFFICES ASSUME NEW s \in todo'[r], s.id = a PROVE Ready(a, m, k, s.def, stamp'[r])
    BY DEF ListReady, Ready, Harmless, Allowed, Anchor, Recurring
  <2>1. /\ Ready(a, m, n, s.def, stamp[r]) /\ s.def \in Definition
        /\ stamp'[r] = stamp[r] /\ stamp[r] \in Int
    BY PaceTypes DEF Unaltered, ListReady
  <2> QED BY <2>1, ReadyGrows
<1>2. FireReady(r, a, m, k)'
  <2> SUFFICES ASSUME At(r, a)'
               PROVE  /\ Kind[a] \in SupportedKinds
                      /\ pc'[r] = "emit" => Allowed(a, m, stamp'[r]) + k >= 1
                      /\ pc'[r] = "record" => Allowed(a, m, stamp'[r]) + k >= 0
                      /\ pc'[r] \in {"write", "swap"} => Harmless(a, m, k, snap'[r].def)
    BY DEF FireReady, Harmless, Allowed, Anchor, Recurring
  <2>1. /\ At(r, a) /\ pc'[r] = pc[r] /\ snap'[r] = snap[r] /\ stamp'[r] = stamp[r]
        /\ snap[r].def \in Definition /\ stamp[r] \in Int
    BY PaceTypes DEF Unaltered
  <2>2. Harmless(a, m, n, snap[r].def) => Harmless(a, m, k, snap[r].def)
    BY <2>1, ReadyGrows
  <2>3. Allowed(a, m, stamp[r]) \in Int
    BY <2>1, AllowedGrows
  <2> QED BY <2>1, <2>2, <2>3 DEF FireReady
<1> QED BY <1>1, <1>2

(* By how much a step adds to what is left: the excuses, less what they pay.*)
Gain(a) ==
    (IF Recurring(a) THEN 2 * (commands' - commands) ELSE commands' - commands)
        + (faults' - faults) - (fires'[a] - fires[a]) - (Owed(a)' - Owed(a))

(* What is left after a step, for any two choices of what the temporary     *)
(* file holds.                                                              *)
LEMMA LeftGains ==
  ASSUME Types, Types', Counted, Counted', NEW a \in Autos, NEW s \in {0, 1}, NEW t \in {0, 1}
  PROVE  /\ Left(a, s) \in Int /\ Left(a, t)' \in Int /\ Gain(a) \in Int
         /\ Left(a, t)' = Left(a, s) + Gain(a) + s - t
<1>1. /\ Cardinality(ToFire(a)) \in Nat /\ Cardinality(ToSave(a)) \in Nat
      /\ Cardinality(ToFire(a)') \in Nat /\ Cardinality(ToSave(a)') \in Nat
  BY FS_CardinalityType DEF Counted
<1>2. Owed(a) \in Nat /\ Owed(a)' \in Nat
  BY <1>1 DEF Owed
<1>3. /\ commands \in Nat /\ faults \in Nat /\ fires[a] \in Nat
      /\ commands' \in Nat /\ faults' \in Nat /\ fires'[a] \in Nat
  BY AutomationAssumption DEF Types, TypeOK
<1>4. Recurring(a)' <=> Recurring(a)
  BY DEF Recurring
<1> QED BY <1>2, <1>3, <1>4 DEF Left, Gain

(* A step that neither saves a definition nor has it listed, nor lets a     *)
(* runner fire it, keeps its pace.                                          *)
Quiet(a) ==
    /\ now <= now' /\ tmp'[a] = tmp[a] /\ store'[a] \in {store[a], Gone}
    /\ \A r \in Runners : Unaltered(r, a)
    /\ Gain(a) >= 0
    /\ ~Pending(a)' => ~Pending(a) \/ Gain(a) >= 1
    /\ ~Pending(a)' /\ ~Swapping(a)' => (~Pending(a) /\ ~Swapping(a)) \/ Gain(a) >= 1

(* Such a step keeps the pace: no copy changes that a fire could come from. *)
LEMMA QuietPace ==
  ASSUME Types, Types', Counted, Counted', NEW a \in Autos, NEW m \in Instants,
         NEW saved \in {0, 1}, Pace(a, m, saved), MadeAt(a, m)', Quiet(a)
  PROVE  Paced(a)'
<1>0. m \in Int
  BY DEF Instants
<1>1. PICK n \in Int : n = Left(a, saved)
  BY LeftGains
<1>2. PICK k \in Int : k = Left(a, saved)'
  BY LeftGains
<1>3. k = n + Gain(a) /\ Gain(a) \in Int
  BY <1>1, <1>2, LeftGains
<1>4. n <= k /\ (Gain(a) >= 1 => n + 1 <= k) /\ now <= now'
  BY <1>3 DEF Quiet
<1>5. PaceWith(a, m, saved, n)
  BY <1>1 DEF Pace
<1>6. Allowed(a, m, now') + k >= 0
  BY <1>0, <1>4, <1>5, AllowedKeeps DEF PaceWith
<1>7. FileReady(a, m, k)'
  BY <1>0, <1>4, <1>5, FileKeeps DEF PaceWith, Quiet
<1>8. CopyReady(a, m, k, saved)'
  BY <1>0, <1>4, <1>5, CopyKeeps DEF PaceWith, Quiet
<1>9. \A r \in Runners : ListReady(r, a, m, k)' /\ FireReady(r, a, m, k)'
  BY <1>0, <1>4, <1>5, RunnerKeeps DEF PaceWith, Quiet
<1>10. (saved = 1 => tmp'[a] # Missing) /\ m <= now'
  BY <1>0, <1>4, <1>5 DEF PaceWith, Quiet, Types, TypeOK, Instants
<1>11. PaceWith(a, m, saved, k)'
  BY <1>6, <1>7, <1>8, <1>9, <1>10 DEF PaceWith, Allowed, Recurring
<1> QED BY <1>2, <1>11, PaceNow DEF Paced

-----------------------------------------------------------------------------
(* The steps that keep quiet *)

(* The shapes of the variables, and who is who.                             *)
LEMMA PaceShapes ==
  ASSUME Types
  PROVE  /\ store \in [Autos -> Definition \cup Absent] /\ tmp \in [Autos -> Definition \cup {Missing}]
         /\ pc \in [Procs -> {"idle", "list", "next", "emit", "record", "write", "swap", "amend"}]
         /\ stamp \in [Procs -> Instants] /\ todo \in [Runners -> SUBSET Snapshot]
         /\ snap \in [Procs -> Snapshot \cup {None}] /\ fires \in [Autos -> Nat]
         /\ now \in Nat /\ commands \in Nat /\ faults \in Nat
         /\ Runners \subseteq Procs /\ Ops \subseteq Procs /\ Runners \cap Ops = {}
         /\ \A p \in Procs : pc[p] \in Working => snap[p] \in Snapshot
BY AutomationAssumption DEF Types, TypeOK, Equipped, Instants, Procs

(* A process at work on a definition changes nothing of what the others do. *)
Others(p) ==
    /\ \A q \in Procs \ {p} : pc'[q] = pc[q] /\ snap'[q] = snap[q] /\ stamp'[q] = stamp[q]
    /\ \A r \in Runners \ {p} : todo'[r] = todo[r]

(* Whatever a process does, the others do not notice.                       *)
LEMMA OthersStay ==
  ASSUME Types, NEW p \in Procs,
         Works(p) \/ Dies(p) \/ (p \in Runners /\ RunnerStep(p)) \/ (p \in Ops /\ OpBegins(p))
  PROVE  Others(p) /\ faults' \in {faults, faults + 1}
<1> USE PaceShapes
<1>1. CASE Works(p)
  <2>1. CASE Emit(p) \/ Record(p) \/ Write(p)
    BY <2>1 DEF Emit, Record, Write, Others
  <2>2. CASE EmitFails(p) \/ Swap(p) \/ SaveFails(p) \/ Amend(p)
    BY <2>2 DEF EmitFails, Swap, SaveFails, Amend, Continue, Over, Fault, Others
  <2> QED BY <1>1, <2>1, <2>2 DEF Works
<1>2. CASE Dies(p)
  BY <1>2 DEF Dies, Over, Fault, Others
<1>3. CASE p \in Runners /\ RunnerStep(p)
  BY <1>1, <1>3 DEF RunnerStep, Acquire, List, Take, EndPass, Over, Others
<1>4. CASE p \in Ops /\ OpBegins(p)
  <2>1. PICK a \in Autos : Commanded(p, a)
    BY <1>4, CommandsComeToThis DEF Types
  <2> QED BY <1>4, <2>1 DEF Commanded, Create, Delete, Reads, Read, Others
<1> QED BY <1>1, <1>2, <1>3, <1>4

(* A pass keeps its time until it ends.                                     *)
LEMMA StampStays ==
  ASSUME Types, PassOk, NEW p \in Procs, Works(p), p \in Runners
  PROVE  stamp'[p] = stamp[p]
BY PaceShapes
   DEF Works, Emit, EmitFails, Record, Write, Swap, SaveFails, Amend, Continue, Firing, PassOk

(* The steps that touch nothing of the definitions and of who works on them.*)
LEMMA ElseQuiet ==
  ASSUME Types, Counted, NEW a \in Autos, DaemonTakes \/ Tick \/ UNCHANGED vars
  PROVE  Quiet(a)
<1>1. /\ now <= now' /\ UNCHANGED <<store, tmp, fires, pc, snap, stamp, todo, commands, faults>>
  BY PaceShapes DEF DaemonTakes, Tick, vars
<1>2. Owed(a) \in Nat /\ Owed(a)' = Owed(a)
  BY <1>1, OwedStays
<1>3. Gain(a) = 0
  BY <1>1, <1>2, PaceShapes DEF Gain
<1>4. Pending(a)' = Pending(a) /\ Swapping(a)' = Swapping(a) /\ \A r \in Runners : Unaltered(r, a)
  BY <1>1 DEF Pending, Swapping, At, Unaltered
<1> QED BY <1>1, <1>3, <1>4 DEF Quiet

(* A command that begins: it pays for what it will owe.                     *)
LEMMA CommandQuiet ==
  ASSUME Types, Counted, NEW a \in Autos, NEW b \in Autos, NEW o \in Ops,
         (Command(o) /\ (Delete(o, b) \/ Reads(o, b))) \/ (Create(o, b) /\ b # a)
  PROVE  Quiet(a)
<1>0. Commanded(o, b)
  BY DEF Commanded
<1>1. /\ Others(o) /\ o \in Procs /\ \A r \in Runners : r \in Procs \ {o}
  <2>1. CASE Command(o) /\ Reads(o, b)
    BY <2>1, PaceShapes DEF Reads, Read, Others
  <2>2. CASE Delete(o, b) \/ Create(o, b)
    BY <2>2, PaceShapes DEF Delete, Create, Others
  <2> QED BY <2>1, <2>2, PaceShapes
<1>2. /\ UNCHANGED <<now, tmp, fires, todo, faults>> /\ store'[a] \in {store[a], Gone}
  BY PaceShapes DEF Command, Delete, Reads, Read, Create
<1>3. /\ Owed(a) \in Nat /\ Owed(a)' \in Nat
      /\ Owed(a)' = Owed(a) + Owes(a, pc'[o], snap'[o]) - Owes(a, pc[o], snap[o])
  BY <1>1, OwedStep, PaceShapes DEF Others
<1>4. Gain(a) >= 0
  <2>1. CASE Command(o) /\ Reads(o, b)
    <3>1. pc[o] = "idle" /\ commands' = commands + 1 /\ pc'[o] \in {"write", "emit"}
      BY <1>1, <2>1, PaceShapes DEF Command, Reads, Read
    <3>2. /\ Owes(a, pc[o], snap[o]) = 0
          /\ Owes(a, pc'[o], snap'[o]) \in 0 .. (IF Recurring(a) THEN 2 ELSE 1)
      BY <3>1 DEF Owes, OwesFire, OwesSave
    <3> QED BY <1>2, <1>3, <3>1, <3>2, PaceShapes DEF Gain
  <2>2. CASE (Command(o) /\ Delete(o, b)) \/ Create(o, b)
    <3>1. UNCHANGED <<pc, snap>> /\ commands' \in {commands, commands + 1}
      BY <2>2 DEF Command, Delete, Create
    <3>2. Owed(a)' = Owed(a)
      BY <3>1, OwedStays
    <3> QED BY <1>2, <1>3, <3>1, <3>2, PaceShapes DEF Gain
  <2> QED BY <2>1, <2>2
<1>5. \A r \in Runners : pc'[r] = pc[r] /\ snap'[r] = snap[r] /\ stamp'[r] = stamp[r]
  BY <1>1 DEF Others
<1>6. Pending(a)' = Pending(a) /\ Swapping(a)' = Swapping(a) /\ \A r \in Runners : Unaltered(r, a)
  BY <1>2, <1>5 DEF Pending, Swapping, At, Unaltered
<1>7. now <= now' /\ tmp'[a] = tmp[a]
  BY <1>2, PaceShapes
<1> QED BY <1>2, <1>4, <1>6, <1>7 DEF Quiet

(* A runner that begins or ends its pass.                                   *)
LEMMA RunnerQuiet ==
  ASSUME Types, Counted, PassOk, NEW a \in Autos, NEW r \in Runners, Acquire(r) \/ EndPass(r)
  PROVE  Quiet(a)
<1>1. Others(r) /\ r \in Procs /\ \A o \in Ops : o \in Procs \ {r}
  BY OthersStay, PaceShapes DEF RunnerStep
<1>2. /\ UNCHANGED <<now, store, tmp, fires, todo, commands, faults>>
      /\ pc[r] \notin Active /\ pc'[r] \notin Active /\ todo[r] = {}
  BY PaceShapes DEF Acquire, EndPass, Over, Active, PassOk
<1>3. Owed(a) \in Nat /\ Owed(a)' = Owed(a)
  BY <1>1, OwedStays DEF Others
<1>4. Gain(a) = 0 /\ now <= now' /\ tmp'[a] = tmp[a] /\ store'[a] = store[a]
  BY <1>2, <1>3, PaceShapes DEF Gain
<1>5. \A q \in Runners : Unaltered(q, a)
  BY <1>1, <1>2, PaceShapes DEF Others, Unaltered, At
<1>6. Pending(a)' = Pending(a) /\ Swapping(a)' = Swapping(a)
  BY <1>1, <1>2, PaceShapes DEF Others, Pending, Swapping, At
<1> QED BY <1>4, <1>5, <1>6 DEF Quiet

(* What is owed after a step of a process, which has nothing to do with it  *)
(* unless the process is a command.                                         *)
LEMMA OwedThen ==
  ASSUME Types, Counted, NEW a \in Autos, NEW p \in Procs, Others(p)
  PROVE  /\ Owed(a) \in Nat /\ Owed(a)' \in Nat
         /\ p \in Ops => Owed(a)' = Owed(a) + Owes(a, pc'[p], snap'[p]) - Owes(a, pc[p], snap[p])
         /\ p \notin Ops => Owed(a)' = Owed(a)
         /\ Owes(a, pc[p], snap[p]) \in Nat /\ Owes(a, pc'[p], snap'[p]) \in Nat
<1>1. CASE p \in Ops
  <2>1. /\ Owed(a) \in Nat /\ Owed(a)' \in Nat
        /\ Owed(a)' = Owed(a) + Owes(a, pc'[p], snap'[p]) - Owes(a, pc[p], snap[p])
    BY <1>1, OwedStep, PaceShapes DEF Others
  <2> QED BY <1>1, <2>1 DEF Owes
<1>2. CASE p \notin Ops
  <2>1. Owed(a) \in Nat /\ Owed(a)' = Owed(a)
    BY <1>2, OwedStays, PaceShapes DEF Others
  <2> QED BY <1>2, <2>1 DEF Owes
<1> QED BY <1>1, <1>2

(* A process that is killed, which excuses a fire.                          *)
LEMMA DiesQuiet ==
  ASSUME Types, Counted, NEW a \in Autos, NEW p \in Procs, Dies(p)
  PROVE  Quiet(a)
<1>1. Others(p)
  BY OthersStay
<1>2. /\ UNCHANGED <<now, store, tmp, fires, commands>> /\ faults' = faults + 1
      /\ pc'[p] = "idle" /\ (p \in Runners => todo'[p] = {})
  BY PaceShapes DEF Dies, Fault, Over
<1>3. Owes(a, pc'[p], snap'[p]) = 0
  BY <1>2 DEF Owes, OwesFire, OwesSave
<1>4. Gain(a) >= 1
  BY <1>1, <1>2, <1>3, OwedThen, PaceShapes DEF Gain
<1>5. \A r \in Runners : Unaltered(r, a)
  BY <1>1, <1>2, PaceShapes DEF Others, Unaltered, At, Active
<1>6. now <= now' /\ tmp'[a] = tmp[a] /\ store'[a] = store[a] /\ Gain(a) >= 0
  BY <1>1, <1>2, <1>3, OwedThen, PaceShapes DEF Gain
<1> QED BY <1>4, <1>5, <1>6 DEF Quiet

(* A process that works on another definition.                              *)
LEMMA ElsewhereQuiet ==
  ASSUME Types, Counted, PassOk, NEW a \in Autos, NEW p \in Procs, Works(p), snap[p].id # a
  PROVE  Quiet(a)
<1>0. /\ Others(p) /\ faults' \in {faults, faults + 1}
      /\ p \in Runners => stamp'[p] = stamp[p]
  BY OthersStay, StampStays
<1>1. pc[p] \in Working /\ snap[p] \in Snapshot /\ snap[p].id \in Autos
  <2>1. pc[p] \in Working
    BY DEF Works, Emit, EmitFails, Record, Write, Swap, SaveFails, Amend, Working
  <2> QED BY <2>1, PaceShapes DEF Snapshot
<1>2. UNCHANGED <<now, todo, commands>>
  BY DEF Works, Emit, EmitFails, Record, Write, Swap, SaveFails, Amend
<1>3. tmp'[a] = tmp[a] /\ store'[a] = store[a] /\ fires'[a] = fires[a]
  BY <1>1, PaceShapes DEF Works, Emit, EmitFails, Record, Write, Swap, SaveFails, Amend
<1>4. pc'[p] \notin Active \/ snap'[p].id # a
  <2>1. CASE Emit(p) \/ Write(p)
    BY <2>1 DEF Emit, Write
  <2>2. CASE Record(p)
    BY <1>1, <2>2, PaceShapes DEF Record, Snapshot
  <2>3. CASE EmitFails(p) \/ Swap(p) \/ SaveFails(p) \/ Amend(p)
    BY <2>3, PaceShapes DEF EmitFails, Swap, SaveFails, Amend, Continue, Over, Active
  <2> QED BY <2>1, <2>2, <2>3 DEF Works
<1>5. Owes(a, pc'[p], snap'[p]) = 0 /\ Owes(a, pc[p], snap[p]) = 0
  BY <1>4 DEF Owes, OwesFire, OwesSave, Active
<1>6. Gain(a) >= 0
  BY <1>0, <1>2, <1>3, <1>5, OwedThen, PaceShapes DEF Gain
<1>7. \A r \in Runners : Unaltered(r, a)
  BY <1>0, <1>2, <1>4, PaceShapes DEF Others, Unaltered, At
<1>8. Pending(a)' = Pending(a)
  BY <1>0, <1>4, PaceShapes DEF Others, Pending, At
<1>9. Swapping(a)' = Swapping(a)
  BY <1>0, <1>3, <1>4, PaceShapes DEF Others, Swapping, At
<1>10. now <= now'
  BY <1>2, PaceShapes
<1> QED BY <1>3, <1>6, <1>7, <1>8, <1>9, <1>10 DEF Quiet

(* A process that gives its definition up: an error excuses a fire, but if  *)
(* the file it was to rename is gone.                                       *)
LEMMA FailureQuiet ==
  ASSUME Types, Counted, PassOk, NEW a \in Autos, NEW p \in Procs, snap[p].id = a,
         EmitFails(p) \/ SaveFails(p) \/ Amend(p)
  PROVE  Quiet(a)
<1>0. /\ Others(p) /\ faults' \in {faults, faults + 1}
      /\ p \in Runners => stamp'[p] = stamp[p]
  BY OthersStay, StampStays DEF Works
<1>1. UNCHANGED <<now, store, tmp, fires, todo, commands>>
  BY DEF EmitFails, SaveFails, Amend
<1>2. pc'[p] \notin Active
  BY PaceShapes DEF EmitFails, SaveFails, Amend, Continue, Over, Active
<1>3. Owes(a, pc'[p], snap'[p]) = 0
  BY <1>2 DEF Owes, OwesFire, OwesSave, Active
<1>4. Gain(a) >= faults' - faults
  BY <1>0, <1>1, <1>3, OwedThen, PaceShapes DEF Gain
<1>5. Gain(a) >= 0 /\ (faults' = faults + 1 => Gain(a) >= 1)
  BY <1>0, <1>1, <1>3, OwedThen, PaceShapes DEF Gain
<1>6. \A r \in Runners : Unaltered(r, a)
  BY <1>0, <1>1, <1>2, PaceShapes DEF Others, Unaltered, At
<1>7. CASE faults' = faults + 1
  BY <1>1, <1>5, <1>6, <1>7, PaceShapes DEF Quiet
<1>8. CASE faults' = faults
  <2>1. pc[p] \in {"emit", "amend"} \/ (pc[p] = "swap" /\ tmp[a] = Missing)
    BY <1>8, PaceShapes DEF EmitFails, SaveFails, Amend, Fault
  <2>2. Pending(a)' = Pending(a)
    BY <1>0, <1>2, <2>1, PaceShapes DEF Others, Pending, At, Active
  <2>3. Swapping(a)' = Swapping(a)
    BY <1>0, <1>1, <1>2, <2>1, PaceShapes DEF Others, Swapping, At, Active
  <2> QED BY <1>1, <1>5, <1>6, <2>2, <2>3, PaceShapes DEF Quiet
<1> QED BY <1>0, <1>7, <1>8

(* A command that fires, and has the fire recorded.                         *)
LEMMA FireQuiet ==
  ASSUME Types, Counted, NEW a \in Autos, NEW o \in Ops, snap[o].id = a, Emit(o) \/ Record(o)
  PROVE  Quiet(a)
<1>0. Others(o) /\ o \in Procs /\ o \notin Runners
  BY OthersStay, PaceShapes DEF Works
<1>1. UNCHANGED <<now, store, tmp, todo, commands, faults>>
  BY DEF Emit, Record
<1>2. Gain(a) = 0
  <2>1. CASE Emit(o)
    <3>1. /\ pc[o] = "emit" /\ pc'[o] = "record" /\ snap'[o] = snap[o] /\ fires'[a] = fires[a] + 1
      BY <1>0, <2>1, PaceShapes DEF Emit
    <3>2. Owes(a, pc'[o], snap'[o]) - Owes(a, pc[o], snap[o]) = -1
      BY <3>1 DEF Owes, OwesFire, OwesSave
    <3>3. Owed(a) \in Nat /\ Owed(a)' = Owed(a) - 1
      BY <1>0, <3>2, OwedThen
    <3> QED BY <1>1, <3>1, <3>3, PaceShapes DEF Gain
  <2>2. CASE Record(o)
    <3>1. /\ pc[o] = "record" /\ pc'[o] = "write" /\ snap[o] \in Snapshot /\ fires' = fires
          /\ snap' = [snap EXCEPT ![o].def = AfterFire(a, snap[o].def, stamp[o])]
      BY <1>0, <2>2, PaceShapes DEF Record, Working
    <3>2. snap'[o].id = a /\ snap'[o].def = AfterFire(a, snap[o].def, stamp[o])
      BY <1>0, <3>1, PaceShapes DEF Snapshot
    <3>3. snap'[o].def.last # 0
      <4>1. AfterFire(a, snap[o].def, stamp[o]).last = stamp[o] /\ stamp[o] # 0
        BY <1>0, <3>1, PaceShapes DEF AfterFire, Snapshot, Definition, Instants
      <4> QED BY <3>2, <4>1
    <3>4. Owes(a, pc'[o], snap'[o]) = Owes(a, pc[o], snap[o])
      BY <3>1, <3>2, <3>3 DEF Owes, OwesFire, OwesSave, Stale
    <3>5. Owed(a) \in Nat /\ Owed(a)' = Owed(a)
      BY <1>0, <3>4, OwedThen
    <3> QED BY <1>1, <3>1, <3>5, PaceShapes DEF Gain
  <2> QED BY <2>1, <2>2
<1>3. \A r \in Runners : pc'[r] = pc[r] /\ snap'[r] = snap[r] /\ stamp'[r] = stamp[r]
  BY <1>0, PaceShapes DEF Others
<1>4. Pending(a)' = Pending(a) /\ Swapping(a)' = Swapping(a) /\ \A r \in Runners : Unaltered(r, a)
  BY <1>1, <1>3 DEF Pending, Swapping, At, Unaltered
<1>5. now <= now' /\ tmp'[a] = tmp[a] /\ store'[a] = store[a]
  BY <1>1, PaceShapes
<1> QED BY <1>2, <1>4, <1>5 DEF Quiet

-----------------------------------------------------------------------------
(* The steps that touch the definition *)

(* While a runner is at its pass, no other has listed anything.             *)
LEMMA OthersIdle ==
  ASSUME PassOk, NEW r \in Runners, NEW q \in Runners, pc[r] # "idle", q # r
  PROVE  pc[q] = "idle" /\ todo[q] = {}
BY DEF PassOk, PassesAlone

(* A runner fires: one excuse or one interval the less.                     *)
LEMMA EmitPaced ==
  ASSUME Types, Types', PassOk, StampsOk, Counted, Counted', NEW a \in Autos, NEW m \in Instants,
         NEW saved \in {0, 1}, Pace(a, m, saved), MadeAt(a, m)',
         NEW r \in Runners, Emit(r), snap[r].id = a
  PROVE  Paced(a)'
<1>0. m \in Int /\ r \in Procs /\ r \notin Ops /\ Others(r) /\ stamp'[r] = stamp[r]
  BY OthersStay, StampStays, PaceShapes DEF Works, Instants
<1>1. PICK n \in Int : n = Left(a, saved)
  BY LeftGains
<1>2. PICK k \in Int : k = Left(a, saved)'
  BY LeftGains
<1>3. /\ UNCHANGED <<now, store, tmp, todo, commands, faults, snap>> /\ fires'[a] = fires[a] + 1
      /\ pc[r] = "emit" /\ pc'[r] = "record" /\ At(r, a) /\ At(r, a)'
  BY <1>0, PaceShapes DEF Emit, At, Active
<1>4. Gain(a) = -1
  <2>1. Owed(a) \in Nat /\ Owed(a)' = Owed(a)
    BY <1>0, OwedThen
  <2> QED BY <1>3, <2>1, PaceShapes DEF Gain
<1>5. k = n - 1
  BY <1>1, <1>2, <1>4, LeftGains
<1>6. PaceWith(a, m, saved, n)
  BY <1>1 DEF Pace
<1>7. /\ Kind[a] \in SupportedKinds /\ Allowed(a, m, stamp[r]) + n >= 1
      /\ stamp[r] \in Int /\ now \in Int /\ stamp[r] <= now
  BY <1>0, <1>3, <1>6, PaceTypes DEF PaceWith, FireReady, StampsOk
<1>8. /\ Allowed(a, m, stamp[r]) + k >= 0 /\ Allowed(a, m, now) + k >= 0
  <2>1. /\ Allowed(a, m, stamp[r]) \in Int /\ Allowed(a, m, now) \in Int
        /\ Allowed(a, m, stamp[r]) <= Allowed(a, m, now)
    BY <1>0, <1>7, AllowedGrows
  <2> QED BY <1>5, <1>7, <2>1
<1>9. Pending(a)'
  BY <1>3 DEF Pending
<1>10. ASSUME NEW q \in Runners PROVE ListReady(q, a, m, k)' /\ FireReady(q, a, m, k)'
  <2>1. CASE q = r
    <3>1. ListReady(q, a, m, k)'
      BY <1>3, <2>1 DEF ListReady, PassOk, Working
    <3>2. FireReady(q, a, m, k)'
      BY <1>0, <1>3, <1>7, <1>8, <2>1 DEF FireReady, Allowed, Recurring
    <3> QED BY <3>1, <3>2
  <2>2. CASE q # r
    <3>1. pc'[q] = "idle" /\ todo'[q] = {}
      BY <1>0, <1>3, <2>2, OthersIdle, PaceShapes DEF Others
    <3> QED BY <3>1 DEF ListReady, FireReady, At, Active
  <2> QED BY <2>1, <2>2
<1>11. PaceWith(a, m, saved, k)'
  BY <1>3, <1>6, <1>8, <1>9, <1>10 DEF PaceWith, FileReady, CopyReady, Allowed, Recurring
<1> QED BY <1>2, <1>11, PaceNow DEF Paced

(* The copy that a fire brings up to date fires no more for now.            *)
LEMMA RecordPaced ==
  ASSUME Types, Types', PassOk, Counted, Counted', NEW a \in Autos, NEW m \in Instants,
         NEW saved \in {0, 1}, Pace(a, m, saved), MadeAt(a, m)',
         NEW r \in Runners, Record(r), snap[r].id = a
  PROVE  Paced(a)'
<1>0. m \in Int /\ r \in Procs /\ r \notin Ops /\ Others(r) /\ stamp'[r] = stamp[r]
  BY OthersStay, StampStays, PaceShapes DEF Works, Instants
<1>1. PICK n \in Int : n = Left(a, saved)
  BY LeftGains
<1>2. /\ UNCHANGED <<now, store, tmp, todo, commands, faults, fires>>
      /\ pc[r] = "record" /\ pc'[r] = "write" /\ snap[r] \in Snapshot
      /\ snap' = [snap EXCEPT ![r].def = AfterFire(a, snap[r].def, stamp[r])]
  BY <1>0, PaceShapes DEF Record, Working
<1>3. /\ snap'[r].id = a /\ snap'[r].def = AfterFire(a, snap[r].def, stamp[r])
      /\ At(r, a) /\ At(r, a)' /\ snap[r].def \in Definition /\ stamp[r] \in Instants
  BY <1>0, <1>2, PaceShapes DEF Snapshot, At, Active
<1>4. n = Left(a, saved)'
  <2>1. Owed(a) \in Nat /\ Owed(a)' = Owed(a)
    BY <1>0, OwedThen
  <2>2. Gain(a) = 0
    BY <1>2, <2>1, PaceShapes DEF Gain
  <2> QED BY <1>1, <2>2, LeftGains
<1>5. PaceWith(a, m, saved, n)
  BY <1>1 DEF Pace
<1>6. Harmless(a, m, n, snap'[r].def)
  <2>1. Kind[a] \in SupportedKinds /\ Allowed(a, m, stamp[r]) + n >= 0
    BY <1>2, <1>3, <1>5 DEF PaceWith, FireReady
  <2> QED BY <1>0, <1>3, <2>1, FiredIsHarmless
<1>7. Pending(a)'
  BY <1>2, <1>3 DEF Pending
<1>8. ASSUME NEW q \in Runners PROVE ListReady(q, a, m, n)' /\ FireReady(q, a, m, n)'
  <2>1. CASE q = r
    <3>1. ListReady(q, a, m, n)'
      BY <1>2, <2>1 DEF ListReady, PassOk, Working
    <3>2. FireReady(q, a, m, n)'
      <4>1. Kind[a] \in SupportedKinds
        BY <1>3, <1>5 DEF PaceWith, FireReady
      <4> QED BY <1>2, <1>6, <2>1, <4>1 DEF FireReady, Harmless, Allowed, Anchor, Recurring
    <3> QED BY <3>1, <3>2
  <2>2. CASE q # r
    <3>1. Unaltered(q, a)
      BY <1>0, <1>2, <2>2, PaceShapes DEF Others, Unaltered, At
    <3> QED BY <1>0, <1>5, <3>1, RunnerKeeps DEF PaceWith
  <2> QED BY <2>1, <2>2
<1>9. PaceWith(a, m, saved, n)'
  BY <1>2, <1>5, <1>7, <1>8 DEF PaceWith, FileReady, CopyReady, Allowed, Recurring
<1> QED BY <1>4, <1>9, PaceNow DEF Paced

(* A runner that takes what is due on its list.                             *)
LEMMA TakePaced ==
  ASSUME Types, Types', PassOk, Counted, Counted', NEW a \in Autos, NEW m \in Instants,
         NEW saved \in {0, 1}, Pace(a, m, saved), MadeAt(a, m)',
         NEW r \in Runners, Take(r)
  PROVE  Paced(a)'
<1>0. m \in Int /\ r \in Procs /\ r \notin Ops /\ Others(r)
  BY OthersStay, PaceShapes DEF RunnerStep, Instants
<1>1. PICK n \in Int : n = Left(a, saved)
  BY LeftGains
<1>2. /\ UNCHANGED <<now, store, tmp, commands, faults, fires, stamp>> /\ pc[r] = "next"
  BY DEF Take
<1>3. PICK s \in todo[r] :
        /\ todo' = [todo EXCEPT ![r] = @ \ {s}]
        /\ IF Due(s.id, s.def, stamp[r], FALSE)
           THEN pc' = [pc EXCEPT ![r] = "emit"] /\ snap' = [snap EXCEPT ![r] = s]
           ELSE UNCHANGED <<pc, snap>>
  BY DEF Take
<1>4. /\ todo'[r] \subseteq todo[r] /\ s.def \in Definition /\ stamp[r] \in Int
      /\ At(r, a)' => /\ pc'[r] = "emit" /\ s.id = a /\ Due(a, s.def, stamp[r], FALSE)
      /\ pc'[r] \in {"next", "emit"}
  <2>1. todo'[r] = todo[r] \ {s} /\ s \in Snapshot /\ stamp[r] \in Int
    BY <1>0, <1>3, PaceShapes DEF Instants
  <2>2. CASE Due(s.id, s.def, stamp[r], FALSE)
    <3>1. pc'[r] = "emit" /\ snap'[r] = s
      BY <1>0, <1>3, <2>2, PaceShapes
    <3> QED BY <2>1, <2>2, <3>1 DEF At, Snapshot
  <2>3. CASE ~Due(s.id, s.def, stamp[r], FALSE)
    <3>1. pc'[r] = "next"
      BY <1>2, <1>3, <2>3
    <3> QED BY <2>1, <3>1 DEF At, Active, Snapshot
  <2> QED BY <2>2, <2>3
<1>5. n = Left(a, saved)'
  <2>1. Owed(a) \in Nat /\ Owed(a)' = Owed(a)
    BY <1>0, OwedThen
  <2>2. Gain(a) = 0
    BY <1>2, <2>1, PaceShapes DEF Gain
  <2> QED BY <1>1, <2>2, LeftGains
<1>6. PaceWith(a, m, saved, n)
  BY <1>1 DEF Pace
<1>7. Pending(a)' = Pending(a)
  BY <1>0, <1>2, <1>4, PaceShapes DEF Pending, At, Others
<1>8. Swapping(a)' = Swapping(a)
  BY <1>0, <1>2, <1>4, PaceShapes DEF Swapping, At, Others
<1>9. FileReady(a, m, n)' /\ CopyReady(a, m, n, saved)' /\ Allowed(a, m, now') + n >= 0
  <2>1. now <= now' /\ tmp'[a] = tmp[a] /\ store'[a] = store[a]
    BY <1>2, PaceShapes
  <2>2. Allowed(a, m, now') + n >= 0
    BY <1>2, <1>6 DEF PaceWith
  <2>3. FileReady(a, m, n)'
    BY <1>0, <1>6, <1>7, <1>8, <2>1, FileKeeps DEF PaceWith
  <2>4. CopyReady(a, m, n, saved)'
    <3>1. Allowed(a, m, now) + n >= 0 /\ CopyReady(a, m, n, saved) /\ n <= n
      BY <1>6 DEF PaceWith
    <3> QED BY <1>0, <1>7, <2>1, <3>1, CopyKeeps
  <2> QED BY <2>2, <2>3, <2>4
<1>10. ASSUME NEW q \in Runners PROVE ListReady(q, a, m, n)' /\ FireReady(q, a, m, n)'
  <2>1. CASE q = r
    <3>1. ListReady(r, a, m, n)
      BY <1>6 DEF PaceWith
    <3>2. ListReady(q, a, m, n)'
      BY <1>2, <1>4, <2>1, <3>1 DEF ListReady, Ready, Harmless, Allowed, Anchor, Recurring
    <3>3. FireReady(q, a, m, n)'
      <4> SUFFICES ASSUME At(r, a)'
                   PROVE  Kind[a] \in SupportedKinds /\ Allowed(a, m, stamp[r]) + n >= 1
        BY <1>2, <1>4, <2>1 DEF FireReady, Allowed, Recurring
      <4>1. Ready(a, m, n, s.def, stamp[r]) /\ Due(a, s.def, stamp[r], FALSE)
        BY <1>4, <3>1 DEF ListReady
      <4>2. Kind[a] \in SupportedKinds
        BY <4>1 DEF Due
      <4> QED BY <1>0, <1>4, <4>1, <4>2, DueIsAllowed
    <3> QED BY <3>2, <3>3
  <2>2. CASE q # r
    <3>1. Unaltered(q, a)
      BY <1>0, <1>2, <2>2, PaceShapes DEF Others, Unaltered, At
    <3> QED BY <1>0, <1>6, <3>1, RunnerKeeps DEF PaceWith
  <2> QED BY <2>1, <2>2
<1>11. PaceWith(a, m, saved, n)'
  BY <1>2, <1>6, <1>9, <1>10 DEF PaceWith, Allowed, Recurring
<1> QED BY <1>5, <1>11, PaceNow DEF Paced

(* A runner that lists the files: nobody is half way through saving a fire. *)
LEMMA ListPaced ==
  ASSUME Types, Types', PassOk, Counted, Counted', NEW a \in Autos, NEW m \in Instants,
         NEW saved \in {0, 1}, Pace(a, m, saved), MadeAt(a, m)',
         NEW r \in Runners, List(r)
  PROVE  Paced(a)'
<1>0. m \in Int /\ r \in Procs /\ r \notin Ops /\ Others(r)
  BY OthersStay, PaceShapes DEF RunnerStep, Instants
<1>1. PICK n \in Int : n = Left(a, saved)
  BY LeftGains
<1>2. /\ UNCHANGED <<now, store, tmp, commands, faults, fires, snap>>
      /\ pc[r] = "list" /\ pc'[r] = "next" /\ stamp'[r] = now
      /\ todo'[r] = {[id |-> b, def |-> store[b]] : b \in {c \in Autos : Saved(c)}}
  BY <1>0, PaceShapes DEF List
<1>3. n = Left(a, saved)'
  <2>1. Owed(a) \in Nat /\ Owed(a)' = Owed(a)
    BY <1>0, OwedThen
  <2>2. Gain(a) = 0
    BY <1>2, <2>1, PaceShapes DEF Gain
  <2> QED BY <1>1, <2>2, LeftGains
<1>4. PaceWith(a, m, saved, n)
  BY <1>1 DEF Pace
<1>5. \A q \in Runners : ~At(q, a) /\ ~At(q, a)'
  <2>1. \A q \in Runners \ {r} : pc[q] = "idle" /\ pc'[q] = "idle"
    BY <1>0, <1>2, OthersIdle, PaceShapes DEF Others
  <2> QED BY <1>2, <2>1 DEF At, Active
<1>6. Saved(a) => Ready(a, m, n, store[a], now)
  BY <1>4, <1>5 DEF PaceWith, FileReady, Pending, Swapping
<1>7. FileReady(a, m, n)' /\ CopyReady(a, m, n, saved)' /\ Allowed(a, m, now') + n >= 0
  <2>0. ~Pending(a) /\ ~Swapping(a) /\ now <= now' /\ tmp'[a] = tmp[a] /\ store'[a] = store[a]
    BY <1>2, <1>5, PaceShapes DEF Pending, Swapping
  <2>2. Allowed(a, m, now') + n >= 0
    BY <1>2, <1>4 DEF PaceWith
  <2>3. FileReady(a, m, n)'
    BY <1>0, <1>4, <2>0, FileKeeps DEF PaceWith
  <2>4. CopyReady(a, m, n, saved)'
    BY <1>0, <1>4, <2>0, CopyKeeps DEF PaceWith
  <2> QED BY <2>2, <2>3, <2>4
<1>8. ASSUME NEW q \in Runners PROVE ListReady(q, a, m, n)' /\ FireReady(q, a, m, n)'
  <2>1. FireReady(q, a, m, n)'
    BY <1>5 DEF FireReady
  <2>2. CASE q = r
    <3>1. \A s \in todo'[r] : s.id = a => Saved(a) /\ s.def = store[a]
      BY <1>2
    <3>2. ListReady(q, a, m, n)'
      BY <1>2, <1>6, <2>2, <3>1 DEF ListReady, Ready, Harmless, Allowed, Anchor, Recurring
    <3> QED BY <2>1, <3>2
  <2>3. CASE q # r
    <3>1. todo'[q] = {}
      BY <1>0, <1>2, <2>3, OthersIdle DEF Others
    <3> QED BY <2>1, <3>1 DEF ListReady
  <2> QED BY <2>2, <2>3
<1>9. PaceWith(a, m, saved, n)'
  BY <1>2, <1>4, <1>7, <1>8 DEF PaceWith, Allowed, Recurring
<1> QED BY <1>3, <1>9, PaceNow DEF Paced

(* Whoever writes the temporary file: a runner what it has brought up to    *)
(* date, a command what it is to blame for if it is not.                    *)
LEMMA WritePaced ==
  ASSUME Types, Types', PassOk, Counted, Counted', NEW a \in Autos, NEW m \in Instants,
         NEW saved \in {0, 1}, Pace(a, m, saved), MadeAt(a, m)',
         NEW p \in Procs, Write(p), snap[p].id = a
  PROVE  Paced(a)'
<1>0. /\ m \in Int /\ Others(p) /\ (p \in Runners <=> p \notin Ops)
      /\ p \in Runners => stamp'[p] = stamp[p]
  BY OthersStay, StampStays, PaceShapes DEF Works, Instants, Procs
<1>1. PICK n \in Int : n = Left(a, saved)
  BY LeftGains
<1>2. /\ UNCHANGED <<now, store, todo, commands, faults, fires, snap>>
      /\ pc[p] = "write" /\ pc'[p] = "swap" /\ tmp'[a] = snap[p].def
      /\ snap[p].def \in Definition /\ tmp'[a] # Missing
  <2>1. snap[p] \in Snapshot /\ pc[p] = "write"
    BY PaceShapes DEF Write, Working
  <2>2. snap[p].def \in Definition
    BY <2>1 DEF Snapshot
  <2> QED BY <2>1, <2>2, AbsentAssumption, PaceShapes DEF Write, Absent
<1>3. PICK s \in {0, 1} : s = IF p \in Ops /\ Stale(a, snap[p].def) THEN 1 ELSE 0
  OBVIOUS
<1>4. PICK k \in Int : k = Left(a, s)'
  BY LeftGains
<1>5. Gain(a) = s
  <2>1. Owes(a, pc[p], snap[p]) = (IF Stale(a, snap[p].def) THEN 1 ELSE 0)
        /\ Owes(a, pc'[p], snap'[p]) = 0
    BY <1>2 DEF Owes, OwesFire, OwesSave
  <2>2. Owed(a) \in Nat /\ Owed(a)' = Owed(a) - s
    BY <1>0, <1>3, <2>1, OwedThen
  <2> QED BY <1>2, <2>2, PaceShapes DEF Gain
<1>6. n <= k
  BY <1>1, <1>4, <1>5, LeftGains
<1>7. PaceWith(a, m, saved, n)
  BY <1>1 DEF Pace
<1>8. \A q \in Runners : q # p => pc'[q] = pc[q] /\ snap'[q] = snap[q] /\ stamp'[q] = stamp[q]
  BY <1>0, PaceShapes DEF Others
<1>9. FileReady(a, m, k)'
  <2>1. ~Pending(a)' /\ ~Swapping(a)' => ~Pending(a) /\ ~Swapping(a)
    <3>1. CASE p \in Runners
      BY <1>2, <3>1 DEF Swapping, At, Active
    <3>2. CASE p \notin Runners
      <4>1. \A r \in Runners : r # p
        BY <3>2
      <4>2. ~Pending(a)' => ~Pending(a)
        BY <1>2, <1>8, <4>1 DEF Pending, At
      <4>3. ~Swapping(a)' => ~Swapping(a)
        BY <1>2, <1>8, <4>1 DEF Swapping, At
      <4> QED BY <4>2, <4>3
    <3> QED BY <3>1, <3>2
  <2>2. now <= now' /\ store'[a] \in {store[a], Gone}
    BY <1>2, PaceShapes
  <2>3. Allowed(a, m, now) + n >= 0 /\ FileReady(a, m, n)
    BY <1>7 DEF PaceWith
  <2> QED BY <1>0, <1>6, <2>1, <2>2, <2>3, FileKeeps
<1>10. p \in Runners => Harmless(a, m, k, snap[p].def)
  <2>1. p \in Runners => Harmless(a, m, n, snap[p].def)
    BY <1>2, <1>7 DEF PaceWith, FireReady, At, Active
  <2>2. now \in Int
    BY PaceShapes
  <2> QED BY <1>0, <1>2, <1>6, <2>1, <2>2, ReadyGrows
<1>11. CopyReady(a, m, k, s)'
  <2> SUFFICES ASSUME s = 0 PROVE Harmless(a, m, k, snap[p].def)
    BY <1>2 DEF CopyReady, Ready, Harmless, Allowed, Anchor, Recurring
  <2>1. CASE p \in Ops
    BY <1>3, <2>1 DEF Stale, Harmless
  <2> QED BY <1>0, <1>10, <2>1
<1>12. ASSUME NEW q \in Runners PROVE ListReady(q, a, m, k)' /\ FireReady(q, a, m, k)'
  <2>1. CASE q = p
    <3>1. ListReady(q, a, m, k)'
      BY <1>2, <2>1 DEF ListReady, PassOk, Working
    <3>2. FireReady(q, a, m, k)'
      <4>1. Kind[a] \in SupportedKinds
        BY <1>2, <1>7, <2>1 DEF PaceWith, FireReady, At, Active
      <4> QED BY <1>2, <1>10, <2>1, <4>1 DEF FireReady, Harmless, Allowed, Anchor, Recurring
    <3> QED BY <3>1, <3>2
  <2>2. CASE q # p
    <3>1. Unaltered(q, a)
      BY <1>2, <1>8, <2>2 DEF Unaltered, At
    <3> QED BY <1>0, <1>6, <1>7, <3>1, RunnerKeeps DEF PaceWith
  <2> QED BY <2>1, <2>2
<1>13. Allowed(a, m, now') + k >= 0 /\ m <= now'
  BY <1>0, <1>2, <1>6, <1>7, AllowedKeeps, PaceShapes DEF PaceWith
<1>14. PaceWith(a, m, s, k)'
  BY <1>2, <1>9, <1>11, <1>12, <1>13 DEF PaceWith, Allowed, Recurring
<1> QED BY <1>4, <1>14, PaceNow DEF Paced

(* Whoever renames it, whosever it is by then.                              *)
LEMMA SwapPaced ==
  ASSUME Types, Types', PassOk, Counted, Counted', NEW a \in Autos, NEW m \in Instants,
         NEW saved \in {0, 1}, Pace(a, m, saved), MadeAt(a, m)',
         NEW p \in Procs, Swap(p), snap[p].id = a
  PROVE  Paced(a)'
<1>0. /\ m \in Int /\ Others(p) /\ now \in Int
      /\ p \in Runners => stamp'[p] = stamp[p]
  BY OthersStay, StampStays, PaceShapes DEF Works, Instants
<1>1. PICK n \in Int : n = Left(a, saved)
  BY LeftGains
<1>2. PICK k \in Int : k = Left(a, 0)'
  BY LeftGains
<1>3. /\ UNCHANGED <<now, todo, commands, faults, fires>>
      /\ pc[p] = "swap" /\ pc'[p] \notin Active
      /\ tmp[a] # Missing /\ store'[a] = tmp[a] /\ tmp'[a] = Missing
      /\ tmp[a] \in Definition
  BY PaceShapes DEF Swap, Continue, Over, Active
<1>4. Gain(a) = 0
  <2>1. Owes(a, pc[p], snap[p]) = 0 /\ Owes(a, pc'[p], snap'[p]) = 0
    BY <1>3 DEF Owes, OwesFire, OwesSave, Active
  <2>2. Owed(a) \in Nat /\ Owed(a)' = Owed(a)
    BY <1>0, <2>1, OwedThen
  <2> QED BY <1>3, <2>2, PaceShapes DEF Gain
<1>5. k = n + saved
  BY <1>1, <1>2, <1>4, LeftGains
<1>6. PaceWith(a, m, saved, n)
  BY <1>1 DEF Pace
<1>7. ~Pending(a)' => ~Pending(a)
  BY <1>0, <1>3, PaceShapes DEF Pending, At, Others
<1>8. FileReady(a, m, k)'
  <2> SUFFICES ASSUME ~Pending(a)' PROVE Ready(a, m, k, tmp[a], now)
    BY <1>3 DEF FileReady, Ready, Harmless, Allowed, Anchor, Recurring
  <2>1. CASE saved = 1
    <3>1. Allowed(a, m, now) \in Int
      BY <1>0, AllowedGrows
    <3> QED BY <1>5, <1>6, <2>1, <3>1 DEF PaceWith, Ready
  <2>2. CASE saved = 0
    <3>1. n = k
      BY <1>5, <2>2
    <3> QED BY <1>3, <1>6, <1>7, <2>2, <3>1 DEF PaceWith, CopyReady
  <2> QED BY <2>1, <2>2
<1>9. CopyReady(a, m, k, 0)'
  BY <1>3 DEF CopyReady
<1>10. ASSUME NEW q \in Runners PROVE ListReady(q, a, m, k)' /\ FireReady(q, a, m, k)'
  <2>1. Unaltered(q, a)
    BY <1>0, <1>3, PaceShapes DEF Others, Unaltered, At
  <2>2. n <= k
    BY <1>5
  <2> QED BY <1>0, <1>6, <2>1, <2>2, RunnerKeeps DEF PaceWith
<1>11. Allowed(a, m, now') + k >= 0 /\ m <= now'
  <2>1. n <= k /\ now <= now' /\ Allowed(a, m, now) + n >= 0
    BY <1>0, <1>3, <1>5, <1>6 DEF PaceWith
  <2> QED BY <1>0, <1>3, <1>6, <2>1, AllowedKeeps DEF PaceWith
<1>12. PaceWith(a, m, 0, k)'
  BY <1>8, <1>9, <1>10, <1>11 DEF PaceWith, Allowed, Recurring
<1> QED BY <1>2, <1>12, PaceNow DEF Paced

(* A definition that is made: nothing has fired of it.                      *)
LEMMA CreatePaced ==
  ASSUME Types, Types', Counted, Counted', UnmadeOk, NEW a \in Autos, NEW o \in Ops, Create(o, a)
  PROVE  Paced(a)'
<1>1. PICK m \in Instants : m = now
  BY DEF Types, TypeOK
<1>2. /\ m \in Int /\ store[a] = Missing
      /\ UNCHANGED <<now, tmp, fires, commands, faults>>
      /\ UNCHANGED <<pc, snap, stamp, todo>>
  BY <1>1, PaceShapes DEF Create, Instants
<1>3. tmp[a] = Missing /\ fires[a] = 0 /\ (\A p \in Procs : ~At(p, a))
      /\ \A r \in Runners : \A s \in todo[r] : s.id # a
  BY <1>2 DEF UnmadeOk, Unmade
<1>4. PICK on \in BOOLEAN :
        store'[a] = [on |-> on, made |-> now, last |-> 0, next |-> 0, refs |-> {}]
  BY PaceShapes DEF Create
<1>5. PICK k \in Int : k = Left(a, 0)'
  BY LeftGains
<1>6. k >= 0
  <2>1. ToFire(a)' = {} /\ ToSave(a)' = {}
    BY <1>2, <1>3, PaceShapes DEF ToFire, ToSave, OwesFire, OwesSave, At, Active
  <2>2. Owed(a)' = 0
    BY <2>1, FS_EmptySet DEF Owed
  <2> QED BY <1>2, <1>3, <1>5, <2>2, PaceShapes DEF Left, Recurring
<1>7. MadeAt(a, m)'
  BY <1>1, <1>2, <1>3, <1>4 DEF MadeAt, At
<1>8. Allowed(a, m, now') + k >= 0
  <2>1. CASE Recurring(a)
    BY <1>1, <1>2, <1>6, <2>1, AllowedAdds
  <2>2. CASE ~Recurring(a)
    BY <1>6, <2>2 DEF Allowed
  <2> QED BY <2>1, <2>2
<1>9. Ready(a, m, k, store'[a], now')
  <2>1. CASE Recurring(a)
    <3>1. Anchor(a, store'[a]) = m + Span[a]
      BY <1>1, <1>4 DEF Anchor
    <3>2. Allowed(a, m, m + Span[a]) = 1
      BY <1>2, <2>1, AllowedAdds
    <3> QED BY <1>6, <2>1, <3>1, <3>2 DEF Ready, Harmless
  <2>2. CASE ~Recurring(a)
    BY <1>6, <2>2 DEF Ready, Allowed
  <2> QED BY <2>1, <2>2
<1>10. FileReady(a, m, k)' /\ CopyReady(a, m, k, 0)'
  BY <1>2, <1>3, <1>9 DEF FileReady, CopyReady, Ready, Harmless, Allowed, Anchor, Recurring
<1>11. \A r \in Runners : ListReady(r, a, m, k)' /\ FireReady(r, a, m, k)'
  BY <1>2, <1>3, PaceShapes DEF ListReady, FireReady, At
<1>12. PaceWith(a, m, 0, k)'
  BY <1>1, <1>2, <1>7, <1>8, <1>10, <1>11 DEF PaceWith, Allowed, Recurring
<1> QED BY <1>5, <1>12, PaceNow DEF Paced

-----------------------------------------------------------------------------
(* What else holds of copies and passes *)

(* Every copy of a definition says when it was made.                        *)
LEMMA MadeStep ==
  ASSUME Types, Types', NEW a \in Autos, NEW m, MadeAt(a, m), [Next]_vars,
         \A o \in Ops : ~Create(o, a)
  PROVE  MadeAt(a, m)'
<1> USE PaceShapes DEF MadeAt, At
<1>1. ASSUME NEW p \in Procs, Works(p) PROVE MadeAt(a, m)'
  <2>0. Others(p)
    BY <1>1, OthersStay
  <2>1. CASE Emit(p)
    BY <2>1 DEF Emit, Active, Saved
  <2>2. CASE EmitFails(p) \/ SaveFails(p) \/ Amend(p)
    BY <2>0, <2>2 DEF Others, EmitFails, SaveFails, Amend, Continue, Over, Active, Saved
  <2>3. CASE Record(p)
    <3>1. snap[p] \in Snapshot /\ pc[p] = "record"
      BY <2>3 DEF Record, Working
    <3>2. /\ snap'[p].id = snap[p].id
          /\ snap'[p].def = AfterFire(snap[p].id, snap[p].def, stamp[p])
      BY <2>3, <3>1 DEF Record, Snapshot
    <3>3. snap'[p].def.made = snap[p].def.made
      BY <3>1, <3>2 DEF AfterFire, Snapshot, Definition
    <3>4. At(p, a)' => snap'[p].def.made = m
      BY <3>1, <3>2, <3>3 DEF Active
    <3>5. \A q \in Procs \ {p} : At(q, a)' => snap'[q].def.made = m
      BY <2>0 DEF Others
    <3> QED BY <2>3, <3>4, <3>5 DEF Record, Saved
  <2>4. CASE Write(p)
    BY <2>4 DEF Write, Active, Saved
  <2>5. CASE Swap(p)
    <3>1. Saved(a)' => store'[a].made = m
      BY <2>5 DEF Swap, Saved
    <3>2. tmp'[a] # Missing => tmp'[a].made = m
      BY <2>5 DEF Swap
    <3>3. pc'[p] \notin Active
      BY <2>5 DEF Swap, Continue, Over, Active
    <3> QED BY <2>0, <2>5, <3>1, <3>2, <3>3 DEF Swap, Others
  <2> QED BY <1>1, <2>1, <2>2, <2>3, <2>4, <2>5 DEF Works
<1>2. ASSUME NEW r \in Runners, RunnerStep(r), ~Works(r) PROVE MadeAt(a, m)'
  <2>0. Others(r)
    BY <1>2, OthersStay
  <2>1. CASE Acquire(r) \/ EndPass(r)
    BY <2>0, <2>1 DEF Others, Acquire, EndPass, Over, Active, Saved
  <2>2. CASE List(r)
    BY <2>0, <2>2 DEF Others, List, Active, Saved
  <2>3. CASE Take(r)
    <3>1. PICK s \in todo[r] :
            /\ todo' = [todo EXCEPT ![r] = @ \ {s}]
            /\ IF Due(s.id, s.def, stamp[r], FALSE)
               THEN pc' = [pc EXCEPT ![r] = "emit"] /\ snap' = [snap EXCEPT ![r] = s]
               ELSE UNCHANGED <<pc, snap>>
      BY <2>3 DEF Take
    <3>2. CASE Due(s.id, s.def, stamp[r], FALSE)
      BY <2>0, <2>3, <3>1, <3>2 DEF Take, Others, Saved
    <3>3. CASE ~Due(s.id, s.def, stamp[r], FALSE)
      BY <2>0, <2>3, <3>1, <3>3 DEF Take, Saved
    <3> QED BY <3>2, <3>3
  <2> QED BY <1>2, <2>1, <2>2, <2>3 DEF RunnerStep
<1>3. ASSUME NEW o \in Ops, OpBegins(o) PROVE MadeAt(a, m)'
  <2>0. Others(o)
    BY <1>3, OthersStay
  <2>1. PICK b \in Autos : Commanded(o, b)
    BY <1>3, CommandsComeToThis DEF Types
  <2>2. CASE Command(o) /\ Reads(o, b)
    <3>1. PICK what \in Acts, next \in {"write", "emit"}, d \in Definition :
            d.made = store[b].made /\ Read(o, b, what, next, d)
      BY <2>2 DEF Reads
    <3>2. Saved(b) /\ snap'[o] = [id |-> b, def |-> d]
      BY <3>1 DEF Read
    <3> QED BY <2>0, <3>1, <3>2 DEF Read, Others, Saved
  <2>3. CASE Command(o) /\ Delete(o, b)
    BY <2>3 DEF Delete, Saved, Absent
  <2>4. CASE Create(o, b)
    BY <2>4 DEF Create, Saved
  <2> QED BY <2>1, <2>2, <2>3, <2>4 DEF Commanded
<1>4. ASSUME NEW p \in Procs, Dies(p) PROVE MadeAt(a, m)'
  BY <1>4, OthersStay DEF Dies, Over, Others, Active, Saved
<1>5. CASE DaemonTakes \/ Tick \/ UNCHANGED vars
  BY <1>5 DEF DaemonTakes, Tick, vars, Saved
<1> QED BY <1>1, <1>2, <1>3, <1>4, <1>5 DEF Next, Procs

(* Nothing is at work on a definition nobody has made yet.                  *)
LEMMA UnmadeStep == ASSUME Types, Types', UnmadeOk, [Next]_vars PROVE UnmadeOk'
<1> SUFFICES ASSUME NEW a \in Autos, store'[a] = Missing PROVE Unmade(a)'
  BY DEF UnmadeOk
<1> USE PaceShapes DEF Unmade, At
<1>m. /\ Missing # Gone /\ Missing \notin Definition
  BY AbsentAssumption DEF Absent
<1>0. store[a] = Missing => Unmade(a)
  BY DEF UnmadeOk
<1>1. ASSUME NEW p \in Procs, Works(p) PROVE Unmade(a)'
  <2>0. Others(p)
    BY <1>1, OthersStay
  <2>1. CASE Emit(p)
    BY <1>0, <2>1 DEF Emit, Active
  <2>2. CASE EmitFails(p) \/ SaveFails(p) \/ Amend(p)
    BY <1>0, <2>0, <2>2 DEF Others, EmitFails, SaveFails, Amend, Continue, Over, Active
  <2>3. CASE Record(p)
    <3>1. snap[p] \in Snapshot /\ pc[p] = "record"
      BY <2>3 DEF Record, Working
    <3>2. snap'[p].id = snap[p].id
      BY <2>3, <3>1 DEF Record, Snapshot
    <3> QED BY <1>0, <2>0, <2>3, <3>1, <3>2 DEF Record, Others, Active
  <2>4. CASE Write(p)
    BY <1>0, <2>4 DEF Write, Active
  <2>5. CASE Swap(p)
    <3>1. store[a] = Missing /\ snap[p].id # a
      BY <1>m, <1>0, <2>5 DEF Swap, Active
    <3>2. pc'[p] \notin Active
      BY <2>5 DEF Swap, Continue, Over, Active
    <3> QED BY <1>0, <2>0, <2>5, <3>1, <3>2 DEF Swap, Others
  <2> QED BY <1>1, <2>1, <2>2, <2>3, <2>4, <2>5 DEF Works
<1>2. ASSUME NEW r \in Runners, RunnerStep(r), ~Works(r) PROVE Unmade(a)'
  <2>0. Others(r)
    BY <1>2, OthersStay
  <2>1. CASE Acquire(r) \/ EndPass(r)
    BY <1>0, <2>0, <2>1 DEF Others, Acquire, EndPass, Over, Active
  <2>2. CASE List(r)
    BY <1>0, <2>0, <2>2 DEF Others, List, Active, Saved, Absent
  <2>3. CASE Take(r)
    <3>1. PICK s \in todo[r] :
            /\ todo' = [todo EXCEPT ![r] = @ \ {s}]
            /\ IF Due(s.id, s.def, stamp[r], FALSE)
               THEN pc' = [pc EXCEPT ![r] = "emit"] /\ snap' = [snap EXCEPT ![r] = s]
               ELSE UNCHANGED <<pc, snap>>
      BY <2>3 DEF Take
    <3>2. CASE Due(s.id, s.def, stamp[r], FALSE)
      BY <1>0, <2>0, <2>3, <3>1, <3>2 DEF Take, Others
    <3>3. CASE ~Due(s.id, s.def, stamp[r], FALSE)
      BY <1>0, <2>0, <2>3, <3>1, <3>3 DEF Take
    <3> QED BY <3>2, <3>3
  <2> QED BY <1>2, <2>1, <2>2, <2>3 DEF RunnerStep
<1>3. ASSUME NEW o \in Ops, OpBegins(o) PROVE Unmade(a)'
  <2>0. Others(o)
    BY <1>3, OthersStay
  <2>1. PICK b \in Autos : Commanded(o, b)
    BY <1>3, CommandsComeToThis DEF Types
  <2>2. CASE Command(o) /\ Reads(o, b)
    <3>1. PICK what \in Acts, next \in {"write", "emit"}, d \in Definition :
            Read(o, b, what, next, d)
      BY <2>2 DEF Reads
    <3>2. Saved(b) /\ snap'[o] = [id |-> b, def |-> d] /\ store' = store
      BY <3>1 DEF Read
    <3>3. b # a
      BY <3>2 DEF Saved, Absent
    <3> QED BY <1>0, <2>0, <3>1, <3>2, <3>3 DEF Read, Others
  <2>3. CASE Command(o) /\ Delete(o, b)
    BY <1>m, <1>0, <2>3 DEF Delete
  <2>4. CASE Create(o, b)
    <3>1. PICK on \in BOOLEAN :
            store' = [store EXCEPT ![b] =
                [on |-> on, made |-> now, last |-> 0, next |-> 0, refs |-> {}]]
      BY <2>4 DEF Create
    <3>2. store'[b] \in Definition
      <4>1. now \in Instants /\ 0 \in 0 .. MaxTime /\ {} \in SUBSET RunIds
        BY AutomationAssumption DEF Types, TypeOK
      <4> QED BY <3>1, <4>1 DEF Definition
    <3>3. store[a] = Missing
      BY <1>m, <3>1, <3>2
    <3> QED BY <1>0, <2>4, <3>3 DEF Create
  <2> QED BY <2>1, <2>2, <2>3, <2>4 DEF Commanded
<1>4. ASSUME NEW p \in Procs, Dies(p) PROVE Unmade(a)'
  BY <1>0, <1>4, OthersStay DEF Dies, Over, Others, Active
<1>5. CASE DaemonTakes \/ Tick \/ UNCHANGED vars
  BY <1>0, <1>5 DEF DaemonTakes, Tick, vars
<1> QED BY <1>1, <1>2, <1>3, <1>4, <1>5 DEF Next, Procs

(* What is owed for a definition is finite, however many commands there are.*)
LEMMA CountedStep == ASSUME Types, Counted, [Next]_vars PROVE Counted'
<1> SUFFICES ASSUME NEW a \in Autos PROVE IsFiniteSet(ToFire(a)') /\ IsFiniteSet(ToSave(a)')
  BY DEF Counted
<1>1. ASSUME NEW p \in Procs, Others(p)
      PROVE  IsFiniteSet(ToFire(a)') /\ IsFiniteSet(ToSave(a)')
  <2>1. CASE p \in Ops
    BY <1>1, <2>1, OwedStep, PaceShapes DEF Others
  <2>2. CASE p \notin Ops
    BY <1>1, <2>2, OwedStays, PaceShapes DEF Others
  <2> QED BY <2>1, <2>2
<1>2. CASE DaemonTakes \/ Tick \/ UNCHANGED vars
  BY <1>2, OwedStays DEF DaemonTakes, Tick, vars
<1>3. ASSUME NEW r \in Runners, RunnerStep(r) PROVE \E p \in Procs : Others(p)
  BY <1>3, OthersStay, PaceShapes
<1>4. ASSUME NEW o \in Ops, OpBegins(o) \/ Works(o) PROVE \E p \in Procs : Others(p)
  BY <1>4, OthersStay, PaceShapes
<1>5. ASSUME NEW p \in Procs, Dies(p) PROVE \E q \in Procs : Others(q)
  BY <1>5, OthersStay
<1> QED BY <1>1, <1>2, <1>3, <1>4, <1>5 DEF Next

(* No process acts at a time that is still to come.                         *)
LEMMA StampsStep == ASSUME Types, Types', StampsOk, [Next]_vars PROVE StampsOk'
<1> USE PaceShapes DEF StampsOk
<1>0. 1 <= now /\ now \in Nat
  BY DEF Types, TypeOK, Instants
<1>1. ASSUME NEW p \in Procs, Works(p) PROVE StampsOk'
  <2>1. now' = now
    BY <1>1 DEF Works, Emit, EmitFails, Record, Write, Swap, SaveFails, Amend
  <2>2. stamp'[p] \in {stamp[p], 1}
    BY <1>1 DEF Works, Emit, EmitFails, Record, Write, Swap, SaveFails, Amend, Continue, Over
  <2> QED BY <1>0, <1>1, <2>1, <2>2, OthersStay DEF Others
<1>2. ASSUME NEW r \in Runners, RunnerStep(r), ~Works(r) PROVE StampsOk'
  <2>1. r \in Procs /\ stamp[r] \in Nat
    BY DEF Instants
  <2>2. CASE Acquire(r) \/ Take(r)
    BY <2>2 DEF Acquire, Take
  <2>3. CASE List(r)
    BY <1>0, <2>1, <2>3 DEF List
  <2>4. CASE EndPass(r)
    BY <1>0, <2>1, <2>4 DEF EndPass, Over
  <2> QED BY <1>2, <2>2, <2>3, <2>4 DEF RunnerStep
<1>3. ASSUME NEW o \in Ops, OpBegins(o) PROVE StampsOk'
  BY <1>0, <1>3, CommandsComeToThis DEF Types, Commanded, Create, Delete, Reads, Read
<1>4. ASSUME NEW p \in Procs, Dies(p) PROVE StampsOk'
  BY <1>0, <1>4 DEF Dies, Over
<1>5. CASE Tick
  <2>1. now' = now + 1 /\ stamp' = stamp
    BY <1>5 DEF Tick
  <2>2. ASSUME NEW p \in Procs PROVE stamp'[p] <= now'
    <3>1. stamp[p] \in Nat /\ stamp[p] <= now
      BY DEF Instants
    <3> QED BY <1>0, <2>1, <3>1
  <2> QED BY <2>2
<1>6. CASE DaemonTakes \/ UNCHANGED vars
  BY <1>6 DEF DaemonTakes, vars
<1> QED BY <1>1, <1>2, <1>3, <1>4, <1>5, <1>6 DEF Next, Procs

(* One pass at a time, which looks at each definition once.                 *)
LEMMA PassStep == ASSUME Types, PassOk, [Next]_vars PROVE PassOk'
<1> USE PaceShapes DEF PassOk
<1>0. /\ act \in [Procs -> Acts] /\ lock \in Runners \cup {None} /\ None \notin Runners
  BY AutomationAssumption DEF Types, TypeOK
<1>1. PassesAlone' /\ \A r \in Runners : act'[r] = "due"
  <2> USE <1>0 DEF PassesAlone
  <2>1. ASSUME NEW p \in Procs, Works(p) PROVE <1>1!:
    <3>1. CASE Emit(p) \/ Record(p) \/ Write(p)
      BY <3>1 DEF Emit, Record, Write
    <3>2. CASE EmitFails(p) \/ Swap(p) \/ Amend(p)
      BY <3>2 DEF EmitFails, Swap, Amend, Continue, Over
    <3>3. CASE SaveFails(p)
      BY <3>3 DEF SaveFails, Firing, Over
    <3> QED BY <2>1, <3>1, <3>2, <3>3 DEF Works
  <2>2. ASSUME NEW r \in Runners, RunnerStep(r), ~Works(r) PROVE <1>1!:
    <3>1. CASE Acquire(r)
      BY <3>1 DEF Acquire
    <3>2. CASE List(r) \/ Take(r)
      BY <3>2 DEF List, Take
    <3>3. CASE EndPass(r)
      BY <3>3 DEF EndPass, Over, Release
    <3> QED BY <2>2, <3>1, <3>2, <3>3 DEF RunnerStep
  <2>3. ASSUME NEW o \in Ops, OpBegins(o) PROVE <1>1!:
    BY <2>3, CommandsComeToThis DEF Types, Commanded, Create, Delete, Reads, Read
  <2>4. ASSUME NEW p \in Procs, Dies(p) PROVE <1>1!:
    BY <2>4 DEF Dies, Over, Release
  <2>5. CASE DaemonTakes \/ Tick \/ UNCHANGED vars
    BY <2>5 DEF DaemonTakes, Tick, vars
  <2> QED BY <2>1, <2>2, <2>3, <2>4, <2>5 DEF Next, Procs
<1>2. ASSUME NEW r \in Runners
      PROVE  /\ pc'[r] \in {"idle", "list"} => todo'[r] = {}
             /\ \A s, t \in todo'[r] : s.id = t.id => s = t
             /\ pc'[r] \in Working => \A s \in todo'[r] : s.id # snap'[r].id
  <2>0. /\ pc[r] \in {"idle", "list"} => todo[r] = {}
        /\ \A s, t \in todo[r] : s.id = t.id => s = t
        /\ pc[r] \in Working => \A s \in todo[r] : s.id # snap[r].id
    OBVIOUS
  <2> HIDE DEF PassOk
  <2>1. ASSUME NEW p \in Procs, p # r, Others(p) PROVE <1>2!2
    BY <2>0, <2>1 DEF Others
  <2>2. CASE Works(r)
    <3>1. todo' = todo /\ pc[r] \in Working
      BY <2>2 DEF Works, Emit, EmitFails, Record, Write, Swap, SaveFails, Amend, Working
    <3>2. \/ pc'[r] = "next"
          \/ pc'[r] \in Working /\ snap'[r].id = snap[r].id
      <4>1. CASE Emit(r) \/ Write(r)
        BY <4>1 DEF Emit, Write, Working
      <4>2. CASE Record(r)
        BY <3>1, <4>2 DEF Record, Working, Snapshot
      <4>3. CASE EmitFails(r) \/ Swap(r) \/ Amend(r)
        BY <4>3 DEF EmitFails, Swap, Amend, Continue
      <4>4. CASE SaveFails(r)
        BY <4>4 DEF SaveFails, Firing, PassOk, Working
      <4> QED BY <2>2, <4>1, <4>2, <4>3, <4>4 DEF Works
    <3> QED BY <2>0, <3>1, <3>2 DEF Working
  <2>3. CASE Acquire(r)
    BY <2>0, <2>3 DEF Acquire, Working
  <2>4. CASE EndPass(r)
    BY <2>0, <2>4 DEF EndPass, Over, Working
  <2>5. CASE List(r)
    BY <2>0, <2>5 DEF List, Working
  <2>6. CASE Take(r)
    <3>1. PICK s \in todo[r] :
            /\ todo' = [todo EXCEPT ![r] = @ \ {s}]
            /\ IF Due(s.id, s.def, stamp[r], FALSE)
               THEN pc' = [pc EXCEPT ![r] = "emit"] /\ snap' = [snap EXCEPT ![r] = s]
               ELSE UNCHANGED <<pc, snap>>
      BY <2>6 DEF Take
    <3>2. pc[r] = "next" /\ todo'[r] = todo[r] \ {s}
      BY <2>6, <3>1 DEF Take
    <3>3. CASE Due(s.id, s.def, stamp[r], FALSE)
      <4>1. pc'[r] = "emit" /\ snap'[r] = s
        BY <3>1, <3>3
      <4> QED BY <2>0, <3>2, <4>1
    <3>4. CASE ~Due(s.id, s.def, stamp[r], FALSE)
      <4>1. pc'[r] = "next"
        BY <3>1, <3>2, <3>4
      <4> QED BY <2>0, <3>2, <4>1 DEF Working
    <3> QED BY <3>3, <3>4
  <2>7. CASE Dies(r)
    BY <2>0, <2>7 DEF Dies, Over, Working
  <2>8. CASE DaemonTakes \/ Tick \/ UNCHANGED vars
    BY <2>0, <2>8 DEF DaemonTakes, Tick, vars
  <2>9. ASSUME NEW p \in Procs, p # r,
               Works(p) \/ Dies(p) \/ (p \in Runners /\ RunnerStep(p)) \/ (p \in Ops /\ OpBegins(p))
        PROVE  <1>2!2
    BY <2>1, <2>9, OthersStay
  <2> QED BY <2>2, <2>3, <2>4, <2>5, <2>6, <2>7, <2>8, <2>9 DEF Next, RunnerStep
<1> QED BY <1>1, <1>2

-----------------------------------------------------------------------------
(* Every definition keeps its pace *)

(* Every step keeps the pace of every definition.                           *)
LEMMA PacedStep ==
  ASSUME Types, Types', PassOk, StampsOk, UnmadeOk, Counted, Counted', [Next]_vars,
         NEW a \in Autos, Paced(a)
  PROVE  Paced(a)'
<1>1. PICK m \in Instants, saved \in {0, 1} : Pace(a, m, saved)
  BY DEF Paced
<1>2. CASE \E o \in Ops : Create(o, a)
  BY <1>2, CreatePaced
<1>3. CASE ~\E o \in Ops : Create(o, a)
  <2>0. MadeAt(a, m)'
    BY <1>1, <1>3, MadeStep DEF Pace, PaceWith
  <2>1. Quiet(a) => Paced(a)'
    BY <1>1, <2>0, QuietPace
  <2>2. ASSUME NEW p \in Procs, Works(p) PROVE Paced(a)'
    <3>1. CASE snap[p].id # a
      BY <2>1, <2>2, <3>1, ElsewhereQuiet
    <3>2. CASE snap[p].id = a /\ (EmitFails(p) \/ SaveFails(p) \/ Amend(p))
      BY <2>1, <3>2, FailureQuiet
    <3>3. CASE snap[p].id = a /\ p \in Ops /\ (Emit(p) \/ Record(p))
      BY <2>1, <3>3, FireQuiet
    <3>4. CASE snap[p].id = a /\ p \in Runners /\ Emit(p)
      BY <1>1, <2>0, <3>4, EmitPaced
    <3>5. CASE snap[p].id = a /\ p \in Runners /\ Record(p)
      BY <1>1, <2>0, <3>5, RecordPaced
    <3>6. CASE snap[p].id = a /\ Write(p)
      BY <1>1, <2>0, <3>6, WritePaced
    <3>7. CASE snap[p].id = a /\ Swap(p)
      BY <1>1, <2>0, <3>7, SwapPaced
    <3> QED BY <2>2, <3>1, <3>2, <3>3, <3>4, <3>5, <3>6, <3>7 DEF Works, Procs
  <2>3. ASSUME NEW r \in Runners, RunnerStep(r) PROVE Paced(a)'
    <3>1. CASE Acquire(r) \/ EndPass(r)
      BY <2>1, <3>1, RunnerQuiet
    <3>2. CASE List(r)
      BY <1>1, <2>0, <3>2, ListPaced
    <3>3. CASE Take(r)
      BY <1>1, <2>0, <3>3, TakePaced
    <3> QED BY <2>2, <2>3, <3>1, <3>2, <3>3 DEF RunnerStep, Procs
  <2>4. ASSUME NEW o \in Ops, OpBegins(o) PROVE Paced(a)'
    <3>1. PICK b \in Autos : Commanded(o, b)
      BY <2>4, CommandsComeToThis DEF Types
    <3>2. Create(o, b) => b # a
      BY <1>3
    <3> QED BY <2>1, <3>1, <3>2, CommandQuiet DEF Commanded
  <2>5. ASSUME NEW p \in Procs, Dies(p) PROVE Paced(a)'
    BY <2>1, <2>5, DiesQuiet
  <2>6. CASE DaemonTakes \/ Tick \/ UNCHANGED vars
    BY <2>1, <2>6, ElseQuiet
  <2> QED BY <2>2, <2>3, <2>4, <2>5, <2>6 DEF Next, Procs
<1> QED BY <1>2, <1>3

(* And at first nothing has fired.                                          *)
LEMMA InitPace == Init => PaceInv
<1> SUFFICES ASSUME Init PROVE PaceInv
  OBVIOUS
<1> USE AutomationAssumption DEF Init
<1>1. PassOk /\ StampsOk
  BY DEF PassOk, PassesAlone, StampsOk, Procs, Working
<1>2. UnmadeOk
  BY DEF UnmadeOk, Unmade, At, Active, Procs
<1>3. \A a \in Autos : ToFire(a) = {} /\ ToSave(a) = {}
  BY DEF ToFire, ToSave, OwesFire, OwesSave, Procs
<1>4. Counted
  BY <1>3, FS_EmptySet DEF Counted
<1>5. ASSUME NEW a \in Autos PROVE Paced(a)
  <2>1. Left(a, 0) = 0
    BY <1>3, FS_EmptySet DEF Left, Owed
  <2>2. Allowed(a, 1, now) + 0 >= 0
    BY AllowedAdds DEF Allowed
  <2>3. 1 \in Instants /\ 1 <= now
    BY DEF Instants
  <2>4. PaceWith(a, 1, 0, 0)
    BY <2>2, <2>3 DEF PaceWith, MadeAt, FileReady, CopyReady, ListReady, FireReady, Saved, Absent,
                      At, Active, Procs
  <2> QED BY <2>1, <2>3, <2>4 DEF Pace, Paced
<1> QED BY <1>1, <1>2, <1>4, <1>5 DEF PaceInv

(* A one-shot definition fires once and a recurring one once an interval,   *)
(* but for what commands and faults excuse, and passes never overlap: for   *)
(* any automations, runners, commands, faults and overlaps of their saves.  *)
THEOREM PaceIsKept == Spec => []FiresAreDue
<1>1. Init => Types
  BY InitRecord DEF RecordInv
<1>2. Types /\ [Next]_vars => Types'
  BY TypeStep
<1>3. Types /\ PaceInv /\ [Next]_vars => PaceInv'
  BY <1>2, PassStep, StampsStep, UnmadeStep, CountedStep, PacedStep DEF PaceInv
<1>4. ASSUME Types, PaceInv PROVE FiresAreDue
  <2>1. ASSUME NEW a \in Autos
        PROVE  /\ Kind[a] \in OneShotKinds => fires[a] <= 1 + commands + faults
               /\ Recurring(a) /\ Saved(a) =>
                    fires[a] <= (now - store[a].made) \div Span[a] + 2 * commands + faults
    <3>1. PICK m \in Instants, saved \in {0, 1} : Pace(a, m, saved)
      BY <1>4 DEF PaceInv, Paced
    <3>2. Allowed(a, m, now) + Left(a, saved) >= 0 /\ (Saved(a) => store[a].made = m)
      BY <3>1 DEF Pace, PaceWith, MadeAt
    <3>3. Owed(a) \in Nat
      BY <1>4, FS_CardinalityType DEF PaceInv, Counted, Owed
    <3>4. fires[a] \in Nat /\ commands \in Nat /\ faults \in Nat /\ now \in Int /\ m \in Int
      BY <1>4, PaceShapes DEF Instants
    <3>5. Allowed(a, m, now) \in Int
      BY <3>4, AllowedGrows
    <3>6. CASE Recurring(a)
      <4>1. fires[a] <= Allowed(a, m, now) + 2 * commands + faults
        BY <3>2, <3>3, <3>4, <3>5, <3>6 DEF Left
      <4>2. Kind[a] \notin OneShotKinds
        BY <3>6 DEF Recurring, OneShotKinds
      <4>3. Saved(a) => Allowed(a, m, now) = (now - store[a].made) \div Span[a]
        BY <3>2, <3>6 DEF Allowed
      <4> QED BY <4>1, <4>2, <4>3
    <3>7. CASE ~Recurring(a)
      <4>1. Allowed(a, m, now) = 1
        BY <3>7 DEF Allowed
      <4> QED BY <3>2, <3>3, <3>4, <3>7, <4>1 DEF Left
    <3> QED BY <3>6, <3>7
  <2> QED BY <1>4, <2>1
          DEF FiresAreDue, OneShotsFireOnce, RecurringKeepsPace, PaceInv, PassOk, Recurring
<1> QED BY <1>1, <1>2, <1>3, <1>4, InitPace, PTL DEF Spec

(* Passes never overlap: a runner is at work when, and only when, it has    *)
(* the flock of .runner.lock, and one that is killed leaves it to the next. *)
THEOREM PassesAreAlone == Spec => []PassesAlone
<1>1. FiresAreDue => PassesAlone
  BY DEF FiresAreDue
<1> QED BY <1>1, PaceIsKept, PTL
=============================================================================
