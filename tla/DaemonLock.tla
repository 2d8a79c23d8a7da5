----------------------------- MODULE DaemonLock -----------------------------
(***************************************************************************)
(* The lock that makes one daemon the writer of the queue: a flock on      *)
(* .daemon.lock, whose contents name the holder for those who look, and    *)
(* `queue unlock`, which removes the file.  The flock belongs to the file  *)
(* that was opened, not to its name: that is all of the difficulty.        *)
(***************************************************************************)
EXTENDS Naturals, FiniteSets

CONSTANTS
    Daemons,    \* daemon processes, by pid: one that restarts may get its old pid
    NoDaemon,   \* the pid of an empty payload
    Ops,        \* `queue unlock` processes
    Files,      \* inodes; bound: one more than there are processes is enough
    NoFile,
    Unlocks,    \* subset of {"safe", "force"}: what operators do
    MayAge      \* TRUE iff daemons run for longer than lock_stale_after_s

ASSUME LockAssumption ==
    NoDaemon \notin Daemons /\ NoFile \notin Files /\ MayAge \in BOOLEAN

VARIABLES
    path,       \* the file .daemon.lock names
    holder,     \* holder[f]: who has the flock of f
    payload,    \* payload[f]: the pid written in f, and whether long ago
    fd,         \* fd[d]: the file d has open
    pc,         \* pc[d]: where daemon d is in _acquire_daemon_lock and run
    opc,        \* opc[o]: where unlocker o is in try_unlock_stale
    seen        \* seen[o]: the payload it has read

daemonVars == <<fd, pc>>
opVars == <<opc, seen>>
vars == <<path, holder, payload, daemonVars, opVars>>

Empty == [pid |-> NoDaemon, old |-> FALSE]

TypeOK ==
    /\ path \in Files \cup {NoFile}
    /\ holder \in [Files -> Daemons \cup {NoDaemon}]
    /\ payload \in [Files -> [pid : Daemons \cup {NoDaemon}, old : BOOLEAN]]
    /\ fd \in [Daemons -> Files \cup {NoFile}]
    /\ pc \in [Daemons -> {"down", "opened", "locked", "truncated", "running"}]
    /\ opc \in [Ops -> {"idle", "judge", "unlink"}]
    /\ seen \in [Ops -> [pid : Daemons \cup {NoDaemon}, old : BOOLEAN]]

Init ==
    /\ path = NoFile
    /\ holder = [f \in Files |-> NoDaemon]
    /\ payload = [f \in Files |-> Empty]
    /\ fd = [d \in Daemons |-> NoFile]
    /\ pc = [d \in Daemons |-> "down"]
    /\ opc = [o \in Ops |-> "idle"]
    /\ seen = [o \in Ops |-> Empty]

Alive(d) == d # NoDaemon /\ pc[d] # "down"

(* A file with no name that nobody has open is gone, and may be had anew.   *)
Free(f) == f # path /\ \A d \in Daemons : fd[d] # f

-----------------------------------------------------------------------------
(* os.open(O_RDWR | O_CREAT) *)
Open(d) ==
    /\ pc[d] = "down"
    /\ pc' = [pc EXCEPT ![d] = "opened"]
    /\ IF path # NoFile
       THEN fd' = [fd EXCEPT ![d] = path] /\ UNCHANGED <<path, payload>>
       ELSE \E f \in Files :
                /\ Free(f)
                /\ path' = f
                /\ payload' = [payload EXCEPT ![f] = Empty]
                /\ fd' = [fd EXCEPT ![d] = f]
    /\ UNCHANGED <<holder, opVars>>

Lockable(d) == holder[fd[d]] = NoDaemon

(* A shared lock, LOCK_SH, is had whoever else has it.                      *)
FlockShared(d) ==
    /\ pc[d] = "opened"
    /\ holder' = [holder EXCEPT ![fd[d]] = d]
    /\ pc' = [pc EXCEPT ![d] = "locked"]
    /\ UNCHANGED <<path, payload, fd, opVars>>

(* flock(LOCK_EX | LOCK_NB): the lock is had, ...                           *)
Flock(d) ==
    /\ pc[d] = "opened" /\ Lockable(d)
    /\ holder' = [holder EXCEPT ![fd[d]] = d]
    /\ pc' = [pc EXCEPT ![d] = "locked"]
    /\ UNCHANGED <<path, payload, fd, opVars>>

(* A refused daemon that has reclaimed the file it could not lock.          *)
RefusedReclaiming(d) ==
    /\ pc[d] = "opened" /\ ~Lockable(d)
    /\ payload' = [payload EXCEPT ![fd[d]] = Empty]
    /\ pc' = [pc EXCEPT ![d] = "down"]
    /\ fd' = [fd EXCEPT ![d] = NoFile]
    /\ UNCHANGED <<path, holder, opVars>>

(* ... or the daemon is refused and exits.                                  *)
Refused(d) ==
    /\ pc[d] = "opened" /\ ~Lockable(d)
    /\ pc' = [pc EXCEPT ![d] = "down"]
    /\ fd' = [fd EXCEPT ![d] = NoFile]
    /\ UNCHANGED <<path, holder, payload, opVars>>

(* The payload is written in two steps, and another process may read        *)
(* between them.                                                            *)
Truncate(d) ==
    /\ pc[d] = "locked"
    /\ payload' = [payload EXCEPT ![fd[d]] = Empty]
    /\ pc' = [pc EXCEPT ![d] = "truncated"]
    /\ UNCHANGED <<path, holder, fd, opVars>>

Write(d) ==
    /\ pc[d] = "truncated"
    /\ payload' = [payload EXCEPT ![fd[d]] = [pid |-> d, old |-> FALSE]]
    /\ pc' = [pc EXCEPT ![d] = "running"]
    /\ UNCHANGED <<path, holder, fd, opVars>>

(* release_daemon_lock, or the death of the process: the kernel drops the   *)
(* flock with the descriptor.  The file and what it says stay.              *)
Stop(d) ==
    /\ pc[d] # "down"
    /\ holder' = [f \in Files |-> IF holder[f] = d THEN NoDaemon ELSE holder[f]]
    /\ fd' = [fd EXCEPT ![d] = NoFile]
    /\ pc' = [pc EXCEPT ![d] = "down"]
    /\ UNCHANGED <<path, payload, opVars>>

(* The timestamp is written once: it passes lock_stale_after_s in the end.  *)
Age(f) ==
    /\ MayAge /\ payload[f].pid # NoDaemon /\ ~payload[f].old
    /\ payload' = [payload EXCEPT ![f] = [pid |-> @.pid, old |-> TRUE]]
    /\ UNCHANGED <<path, holder, daemonVars, opVars>>

-----------------------------------------------------------------------------
(* try_unlock_stale: the payload is read, ...                               *)
ReadPayload(o) ==
    /\ "safe" \in Unlocks
    /\ opc[o] = "idle" /\ path # NoFile
    /\ seen' = [seen EXCEPT ![o] = payload[path]]
    /\ opc' = [opc EXCEPT ![o] = "judge"]
    /\ UNCHANGED <<path, holder, payload, daemonVars>>

Reclaimable(o) == seen[o].old \/ ~Alive(seen[o].pid)

(* ... its pid looked up, ...                                               *)
Judge(o) ==
    /\ opc[o] = "judge"
    /\ opc' = [opc EXCEPT ![o] = IF Reclaimable(o) THEN "unlink" ELSE "idle"]
    /\ UNCHANGED <<path, holder, payload, daemonVars, seen>>

(* ... and the name removed, whatever file it is the name of by now.        *)
UnlinkStale(o) ==
    /\ opc[o] = "unlink"
    /\ path' = NoFile
    /\ opc' = [opc EXCEPT ![o] = "idle"]
    /\ UNCHANGED <<holder, payload, daemonVars, seen>>

ForceUnlock(o) ==
    /\ "force" \in Unlocks
    /\ opc[o] = "idle" /\ path # NoFile
    /\ path' = NoFile
    /\ UNCHANGED <<holder, payload, daemonVars, opVars>>

-----------------------------------------------------------------------------
DaemonStep(d) ==
    Open(d) \/ Flock(d) \/ Refused(d) \/ Truncate(d) \/ Write(d) \/ Stop(d)

OpStep(o) == ReadPayload(o) \/ Judge(o) \/ UnlinkStale(o) \/ ForceUnlock(o)

Next ==
    \/ \E d \in Daemons : DaemonStep(d)
    \/ \E f \in Files : Age(f)
    \/ \E o \in Ops : OpStep(o)

Spec == Init /\ [][Next]_vars

-----------------------------------------------------------------------------
(* Properties *)

(* One daemon at most is past _acquire_daemon_lock and works on the queue.  *)
SingleWriter ==
    \A d, e \in Daemons : pc[d] = "running" /\ pc[e] = "running" => d = e

(* What a running daemon has written in the file it holds stays there: no   *)
(* other daemon, refused or late, truncates or overwrites it, although it    *)
(* may have opened the same file, and whatever has become of the name.      *)
HeldFileNamesHolder ==
    \A d \in Daemons : pc[d] = "running" =>
        holder[fd[d]] = d /\ payload[fd[d]].pid = d

(* The lock implements WriterLock as long as nobody removes its file.       *)
Owner ==
    IF \E d \in Daemons : pc[d] = "running"
    THEN CHOOSE d \in Daemons : pc[d] = "running"
    ELSE NoDaemon

Lock == INSTANCE WriterLock WITH owner <- Owner

LockImplemented == Lock!Spec

Holding == {"locked", "truncated", "running"}

(* The flock and the control points agree, whatever is unlinked: who is     *)
(* past the flock holds it, on the file it opened, and nobody else does.    *)
FlocksHeld ==
    /\ \A d \in Daemons : pc[d] # "down" => fd[d] \in Files
    /\ \A d \in Daemons : pc[d] \in Holding => holder[fd[d]] = d
    /\ \A f \in Files : holder[f] # NoDaemon =>
           pc[holder[f]] \in Holding /\ fd[holder[f]] = f

(* Without unlocks, every daemon that is up has the same file open: the one *)
(* .daemon.lock names.                                                      *)
OneFile ==
    /\ \A d \in Daemons : pc[d] # "down" => fd[d] = path
    /\ \A o \in Ops : opc[o] = "idle"

(* The inductive invariants behind HeldFileNamesHolder, and SingleWriter.   *)
HeldInv == TypeOK /\ FlocksHeld /\ HeldFileNamesHolder
LockInv == HeldInv /\ OneFile
=============================================================================
