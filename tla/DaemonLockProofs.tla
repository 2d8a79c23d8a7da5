-------------------------- MODULE DaemonLockProofs --------------------------
(***************************************************************************)
(* TLAPS proofs about DaemonLock, for any number of daemons and unlockers: *)
(* what a holder has written stays whatever is unlinked; and as long as    *)
(* nothing is, one daemon at most runs, and the lock implements WriterLock. *)
(***************************************************************************)
EXTENDS DaemonLock, TLAPS

USE DEF daemonVars, opVars

(* Nothing holds before anything has started.                               *)
LEMMA InitLock == Init => LockInv
BY LockAssumption
   DEF Init, LockInv, HeldInv, TypeOK, FlocksHeld, HeldFileNamesHolder, OneFile,
       Empty, Holding

(* Every step leaves the state well typed.                                  *)
LEMMA TypeStep == TypeOK /\ [Next]_vars => TypeOK'
<1> SUFFICES ASSUME TypeOK, [Next]_vars PROVE TypeOK'
  OBVIOUS
<1> USE DEF TypeOK
<1>1. ASSUME NEW d \in Daemons, DaemonStep(d) PROVE TypeOK'
  <2>1. CASE Open(d)
    <3>1. CASE path # NoFile
      BY <2>1, <3>1 DEF Open
    <3>2. CASE path = NoFile
      <4>1. PICK f \in Files : /\ path' = f /\ fd' = [fd EXCEPT ![d] = f]
                              /\ payload' = [payload EXCEPT ![f] = Empty]
        BY <2>1, <3>2 DEF Open
      <4> QED BY <2>1, <4>1 DEF Open, Empty
    <3> QED BY <3>1, <3>2
  <2>2. CASE Flock(d) \/ Refused(d)
    BY <2>2 DEF Flock, Refused
  <2>3. CASE Truncate(d) \/ Write(d)
    <3>1. PICK w \in [pid : Daemons \cup {NoDaemon}, old : BOOLEAN] :
            payload' = [payload EXCEPT ![fd[d]] = w]
      BY <2>3 DEF Truncate, Write, Empty
    <3> QED BY <2>3, <3>1 DEF Truncate, Write
  <2>4. CASE Stop(d)
    BY <2>4 DEF Stop
  <2> QED BY <1>1, <2>1, <2>2, <2>3, <2>4 DEF DaemonStep
<1>2. ASSUME NEW f \in Files, Age(f) PROVE TypeOK'
  BY <1>2 DEF Age
<1>3. ASSUME NEW o \in Ops, OpStep(o) PROVE TypeOK'
  BY <1>3 DEF OpStep, ReadPayload, Judge, UnlinkStale, ForceUnlock
<1>4. CASE UNCHANGED vars
  BY <1>4 DEF vars
<1> QED BY <1>1, <1>2, <1>3, <1>4 DEF Next

(* Only a daemon that gets the flock becomes its holder, and only a holder  *)
(* writes: what is held, and what names the holder, is kept.                *)
LEMMA HeldStep == HeldInv /\ [Next]_vars => HeldInv'
<1> SUFFICES ASSUME HeldInv, [Next]_vars PROVE FlocksHeld' /\ HeldFileNamesHolder'
  BY TypeStep DEF HeldInv
<1> USE LockAssumption DEF HeldInv, TypeOK
<1>1. ASSUME NEW d \in Daemons, Open(d) PROVE FlocksHeld' /\ HeldFileNamesHolder'
  <2>1. FlocksHeld'
    BY <1>1 DEF Open, FlocksHeld, Holding
  <2>2. HeldFileNamesHolder'
    BY <1>1 DEF Open, FlocksHeld, HeldFileNamesHolder, Holding, Free
  <2> QED BY <2>1, <2>2
<1>2. ASSUME NEW d \in Daemons, Flock(d) \/ Refused(d)
      PROVE  FlocksHeld' /\ HeldFileNamesHolder'
  <2>1. CASE Refused(d)
    BY <2>1 DEF Refused, FlocksHeld, HeldFileNamesHolder, Holding
  <2>2. CASE Flock(d)
    <3>1. /\ fd[d] \in Files /\ holder[fd[d]] = NoDaemon
          /\ holder'[fd[d]] = d /\ pc'[d] = "locked"
          /\ \A f \in Files \ {fd[d]} : holder'[f] = holder[f]
          /\ \A e \in Daemons \ {d} : pc'[e] = pc[e]
      BY <2>2 DEF Flock, Lockable, FlocksHeld
    <3>2. \A e \in Daemons : pc[e] \in Holding => e # d /\ fd[e] # fd[d]
      BY <2>2, <3>1 DEF Flock, FlocksHeld, Holding
    <3>3. FlocksHeld'
      BY <2>2, <3>1, <3>2 DEF Flock, FlocksHeld, Holding
    <3>4. HeldFileNamesHolder'
      BY <2>2, <3>1, <3>2 DEF Flock, HeldFileNamesHolder, Holding
    <3> QED BY <3>3, <3>4
  <2> QED BY <1>2, <2>1, <2>2
<1>3. ASSUME NEW d \in Daemons, Truncate(d) \/ Write(d)
      PROVE  FlocksHeld' /\ HeldFileNamesHolder'
  BY <1>3 DEF Truncate, Write, FlocksHeld, HeldFileNamesHolder, Holding
<1>4. ASSUME NEW d \in Daemons, Stop(d) PROVE FlocksHeld' /\ HeldFileNamesHolder'
  BY <1>4 DEF Stop, FlocksHeld, HeldFileNamesHolder, Holding
<1>5. ASSUME NEW f \in Files, Age(f) PROVE FlocksHeld' /\ HeldFileNamesHolder'
  BY <1>5 DEF Age, FlocksHeld, HeldFileNamesHolder, Holding
<1>6. ASSUME (\E o \in Ops : OpStep(o)) \/ UNCHANGED vars
      PROVE  FlocksHeld' /\ HeldFileNamesHolder'
  BY <1>6 DEF vars, OpStep, ReadPayload, Judge, UnlinkStale, ForceUnlock,
              FlocksHeld, HeldFileNamesHolder
<1> QED BY <1>1, <1>2, <1>3, <1>4, <1>5, <1>6 DEF Next, DaemonStep

(* Where nothing is unlinked, the name keeps its file.                      *)
LEMMA LockStep == ASSUME Unlocks = {} PROVE LockInv /\ [Next]_vars => LockInv'
<1> SUFFICES ASSUME LockInv, [Next]_vars PROVE OneFile'
  BY HeldStep DEF LockInv
<1> USE LockAssumption DEF LockInv, HeldInv, TypeOK
<1>1. ASSUME NEW d \in Daemons, DaemonStep(d) PROVE OneFile'
  BY <1>1 DEF DaemonStep, Open, Flock, Refused, Truncate, Write, Stop, OneFile,
              FlocksHeld
<1>2. ASSUME NEW o \in Ops, OpStep(o) PROVE FALSE
  BY <1>2, Unlocks = {} DEF OpStep, ReadPayload, Judge, UnlinkStale, ForceUnlock, OneFile
<1>3. ASSUME (\E f \in Files : Age(f)) \/ UNCHANGED vars PROVE OneFile'
  BY <1>3 DEF vars, Age, OneFile
<1> QED BY <1>1, <1>2, <1>3 DEF Next

(* One file, one flock on it, one writer.                                   *)
LEMMA LockInvSingle == LockInv => SingleWriter
BY DEF LockInv, HeldInv, OneFile, FlocksHeld, SingleWriter, Holding

(* What a running daemon has written in the lock file stays there.          *)
THEOREM HeldFileStays == Spec => []HeldFileNamesHolder
<1>1. Init => HeldInv
  BY InitLock DEF LockInv
<1>2. HeldInv => HeldFileNamesHolder
  BY DEF HeldInv
<1> QED BY <1>1, <1>2, HeldStep, PTL DEF Spec

(* The invariant of a queue nobody unlocks.                                 *)
LEMMA LockInvariant == ASSUME Unlocks = {} PROVE Spec => []LockInv
BY InitLock, LockStep, Unlocks = {}, PTL DEF Spec

(* As long as nobody unlocks, one daemon at most runs.                      *)
THEOREM OneWriter == ASSUME Unlocks = {} PROVE Spec => []SingleWriter
BY LockInvariant, LockInvSingle, Unlocks = {}, PTL

(* The running daemon is the owner.                                         *)
LEMMA OwnerRuns ==
    ASSUME SingleWriter, NEW d \in Daemons, pc[d] = "running" PROVE Owner = d
BY DEF Owner, SingleWriter

(* Every step changes the owner as WriterLock does, or not at all.          *)
LEMMA LockRefines ==
    ASSUME Unlocks = {}, LockInv, LockInv', [Next]_vars
    PROVE  [Lock!Next]_Owner
<1> USE LockAssumption DEF LockInv, HeldInv, TypeOK
<1>1. SingleWriter /\ SingleWriter'
  BY LockInvSingle DEF OneFile, FlocksHeld, SingleWriter, Holding
<1>2. CASE \A d \in Daemons : pc'[d] = "running" <=> pc[d] = "running"
  <2>1. Owner' = Owner
    BY <1>2 DEF Owner
  <2> QED BY <2>1
<1>3. ASSUME NEW d \in Daemons, Write(d) PROVE [Lock!Next]_Owner
  <2>1. \A e \in Daemons : pc[e] # "running"
    BY <1>3 DEF Write, OneFile, FlocksHeld, Holding
  <2>2. Owner = NoDaemon
    BY <2>1 DEF Owner
  <2>3. Owner' = d
    <3>1. pc'[d] = "running"
      BY <1>3 DEF Write
    <3>2. \A e \in Daemons : pc'[e] = "running" => e = d
      BY <1>1, <3>1 DEF SingleWriter
    <3> QED BY <3>1, <3>2 DEF Owner
  <2> QED BY <2>2, <2>3 DEF Lock!Next, Lock!Acquire
<1>4. ASSUME NEW d \in Daemons, Stop(d), pc[d] = "running" PROVE [Lock!Next]_Owner
  <2>1. Owner = d
    BY <1>1, <1>4, OwnerRuns
  <2>2. \A e \in Daemons : pc'[e] # "running"
    BY <1>1, <1>4 DEF Stop, SingleWriter
  <2>3. Owner' = NoDaemon
    BY <2>2 DEF Owner
  <2> QED BY <2>1, <2>3 DEF Lock!Next, Lock!Release
<1>5. ASSUME NEW d \in Daemons,
             Open(d) \/ Flock(d) \/ Refused(d) \/ Truncate(d)
             \/ (Stop(d) /\ pc[d] # "running")
      PROVE  [Lock!Next]_Owner
  BY <1>2, <1>5 DEF Open, Flock, Refused, Truncate, Stop
<1>6. ASSUME (\E f \in Files : Age(f)) \/ (\E o \in Ops : OpStep(o)) \/ UNCHANGED vars
      PROVE  [Lock!Next]_Owner
  BY <1>2, <1>6 DEF vars, Age, OpStep, ReadPayload, Judge, UnlinkStale, ForceUnlock
<1> QED BY <1>3, <1>4, <1>5, <1>6 DEF Next, DaemonStep

(* As long as nobody unlocks, the lock implements WriterLock.               *)
THEOREM LockCorrect == ASSUME Unlocks = {} PROVE Spec => LockImplemented
<1>1. Init => Lock!Init
  BY DEF Init, Lock!Init, Owner
<1>2. LockInv /\ LockInv' /\ [Next]_vars => [Lock!Next]_Owner
  BY LockRefines, Unlocks = {}
<1> QED BY <1>1, <1>2, LockInvariant, Unlocks = {}, PTL
        DEF Spec, LockImplemented, Lock!Spec

=============================================================================
