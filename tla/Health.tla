------------------------------- MODULE Health -------------------------------
(***************************************************************************)
(* health.json: one snapshot that the daemon, its signal handler, the      *)
(* threads of the panel and `voxera queue health-reset` all read, change   *)
(* and replace, without a lock and by way of one temporary name.  The      *)
(* panel keeps its login lockouts in it, the daemon its degradation and    *)
(* the outcome of its last shutdown.                                       *)
(***************************************************************************)
EXTENDS Naturals, Sequences, FiniteSets

CONSTANTS
    Workers,        \* threads of the panel that serve requests
    Ips,            \* addresses, in the order of the keys of the file
    Threshold,      \* PANEL_AUTH_FAIL_THRESHOLD
    Window,         \* PANEL_AUTH_WINDOW_S
    Lockout,        \* PANEL_AUTH_LOCKOUT_S
    Ttl,            \* _PANEL_AUTH_PRUNE_TTL_MS
    MaxTracked,     \* _PANEL_AUTH_MAX_TRACKED_IPS
    Wishes,         \* what requests are for: a page, a change, a forged form
    Scopes,         \* what an operator resets
    MaxTime,        \* bound: the last instant
    MaxEvents,      \* bound: requests, commands, starts, jobs, faults, races
    MaxRequests,    \* bound: requests and commands while there is no daemon
    MaxBesides,     \* bound: requests and commands once there has been one
    MaxFaults,      \* bound: kills, and writes that fail
    MaxBusy,        \* bound: processes with something to do at a time
    MaxRaces,       \* bound: updates begun while another one is under way
    Missing, Torn   \* no file or request; a file that does not parse

ASSUME HealthAssumption ==
    /\ Ips \subseteq Nat \ {0} /\ IsFiniteSet(Ips)
    /\ {"daemon", "handler", "command"} \cap Workers = {}
    /\ Threshold \in Nat \ {0} /\ Window \in Nat /\ Lockout \in Nat /\ Ttl \in Nat
    /\ Wishes \subseteq {"view", "forged", "mutation", "reset"}
    /\ Scopes \subseteq {"current_state", "recent_history", "current_and_recent"}
    /\ MaxTracked \in Nat /\ MaxTime \in Nat \ {0} /\ MaxRequests \in Nat
    /\ MaxEvents \in Nat /\ MaxBesides \in Nat /\ MaxFaults \in Nat
    /\ MaxBusy \in Nat /\ MaxRaces \in Nat

Degrading == 3      \* _DEGRADED_THRESHOLD

Daemon == "daemon"
Handler == "handler"    \* its SIGTERM handler, run in between its steps
Command == "command"
Procs == Workers \cup {Daemon, Handler, Command}

VARIABLES
    live,       \* health.json
    tmp,        \* health.json.tmp
    fd,         \* of each process: which of them its open file is by now
    at,         \* of each process: where it is in an update
    got,        \* of each process: the snapshot it is about to write
    todo,       \* of each process: the updates it has still to make
    life,       \* of the daemon
    asked,      \* _shutdown_requested
    req,        \* of each worker: the request it serves
    now,
    tries,      \* tries[ip]: its failed logins; when they came, when they failed
    tally,      \* counts made since the counters were last reset
    races,      \* updates begun while another one was under way
    requests,   \* requests and commands begun
    starts,     \* daemons started
    jobs,       \* what the daemons have done
    faults

files == <<live, tmp, fd>>
procs == <<at, got, todo>>
daemon == <<life, asked>>
ghosts == <<tries, tally, races>>
bounds == <<requests, starts, jobs, faults>>
vars == <<files, procs, daemon, req, now, ghosts, bounds>>

Instants == 1 .. MaxTime
Outcomes == {"clean", "failed_shutdown", "startup_recovered", "unset"}
Places == {"rest", "open", "fill", "swap"}
Lives == {"down", "starting", "running", "failing", "stopping", "closing"}

(* What no file, an empty one and half a file read as: the defaults.        *)
Fresh == [fails |-> 0, degraded |-> FALSE, since |-> FALSE, out |-> "unset",
          stop |-> FALSE, count |-> 0,
          bad |-> [i \in Ips |-> [n |-> 0, first |-> 0, last |-> 0]],
          lock |-> [i \in Ips |-> [until |-> 0, last |-> 0]]]
Readable(f) == IF f \in {Missing, Torn} THEN Fresh ELSE f

-----------------------------------------------------------------------------
(* The panel's login failures *)

Unfailed == [n |-> 0, first |-> 0, last |-> 0]
Unlocked == [until |-> 0, last |-> 0]

(* The MaxTracked latest of S; of two as old the one that sorts last.       *)
Latest(S, when) ==
    {i \in S : Cardinality({j \in S : \/ when[j] > when[i]
                                      \/ when[j] = when[i] /\ j > i}) < MaxTracked}

Prune(c, t) ==
    LET badAt == [i \in Ips |-> c.bad[i].last]
        lockAt == [i \in Ips |-> c.lock[i].last]
        bad == Latest({i \in Ips : c.bad[i].n > 0 /\ badAt[i] + Ttl >= t}, badAt)
        locks == Latest({i \in Ips : /\ c.lock[i].until > 0
                                     /\ \/ c.lock[i].until + Ttl >= t
                                        \/ lockAt[i] + Ttl >= t}, lockAt)
    IN  [c EXCEPT !.bad = [i \in Ips |-> IF i \in bad THEN @[i] ELSE Unfailed],
                  !.lock = [i \in Ips |-> IF i \in locks THEN @[i] ELSE Unlocked]]

Locked(c, i, t) == t < c.lock[i].until

Failed(c, i, t) ==
    LET row == c.bad[i]
        new == row.n = 0 \/ t > row.first + Window
        n == IF new THEN 1 ELSE row.n + 1
        first == IF new THEN t ELSE row.first
    IN  [c EXCEPT !.bad[i] = [n |-> n, first |-> first, last |-> t],
                  !.lock[i] = IF n >= Threshold
                              THEN [until |-> t + Lockout, last |-> t] ELSE @]

(* A login that succeeds forgets the lockout too.                           *)
PassedUnlocks(c, i, t) == [c EXCEPT !.bad[i] = Unfailed, !.lock[i] = Unlocked]

Passed(c, i, t) ==
    [c EXCEPT !.bad[i] = Unfailed,
              !.lock[i] = IF Locked(c, i, t) THEN @ ELSE Unlocked]

-----------------------------------------------------------------------------
(* The updates *)

Fallback(c) ==
    LET n == c.fails + 1
    IN  [c EXCEPT !.fails = n, !.degraded = @ \/ n >= Degrading,
                  !.since = @ \/ (n >= Degrading /\ ~c.degraded)]

(* The next state starts from the defaults.                                 *)
SuccessFresh(c) == Fresh

Success(c) == [c EXCEPT !.fails = 0, !.degraded = FALSE, !.since = FALSE]

ResetFields(c, scope) ==
    LET state == scope \in {"current_state", "current_and_recent"}
        recent == scope \in {"recent_history", "current_and_recent"}
    IN  [c EXCEPT !.fails = IF state THEN 0 ELSE @,
                  !.degraded = @ /\ ~state,
                  !.since = FALSE,
                  !.out = IF recent THEN "unset" ELSE @]

Note == <<"note">>                      \* timestamps and texts only
Count == <<"count">>
Transition == <<"transition">>          \* record_fallback_transition counts too
Asking(b) == <<"asking", b>>
Outcome(o) == <<"outcome", o>>

Apply(u, c) ==
    CASE u[1] \in {"note", "applied"} -> c
      [] u[1] \in {"count", "transition"} -> [c EXCEPT !.count = @ + 1]
      [] u[1] = "asking" -> [c EXCEPT !.stop = u[2]]
      [] u[1] = "outcome" -> [c EXCEPT !.out = u[2]]
      [] u[1] = "fallback" -> Fallback(c)
      [] u[1] = "success" -> Success(c)
      [] u[1] = "reset" -> ResetFields(c, u[2])
      [] u[1] = "zero" -> [ResetFields(c, u[2]) EXCEPT !.count = 0]
      [] u[1] = "prune" -> Prune(c, u[3])
      [] u[1] = "failed" -> Failed(Prune(c, u[3]), u[2], u[3])
      [] u[1] = "passed" -> Passed(Prune(c, u[3]), u[2], u[3])

-----------------------------------------------------------------------------
(* The bounds *)

Room == requests + starts + jobs + faults + races < MaxEvents
Fails == Room /\ faults < MaxFaults
MoreRequests == Room /\ requests < IF starts = 0 THEN MaxRequests ELSE MaxBesides

-----------------------------------------------------------------------------
(* Errors *)

Release == <<Note, Count, Note>>

(* An update of a plan that fails is an error of the plan at most; any      *)
(* other one ends the loop of the daemon, its handlers or the process.      *)
Planning == todo[Daemon] # <<>>
            /\ Head(todo[Daemon])[1] \in {"applied", "transition", "fallback"}

AfterPlanError ==
    CASE Head(todo[Daemon])[1] = "applied" -> <<>>
      [] Head(todo[Daemon])[1] = "fallback" -> Tail(todo[Daemon])
      [] Head(todo[Daemon])[1] = "transition" ->
            IF at[Daemon] = "rest" THEN todo[Daemon] ELSE Tail(Tail(todo[Daemon]))

DaemonRaises ==
    IF life = "running" /\ Planning
    THEN todo' = [todo EXCEPT ![Daemon] = AfterPlanError, ![Handler] = <<>>]
         /\ UNCHANGED life
    ELSE /\ life' = CASE life = "running" -> "failing"
                      [] life = "failing" -> "stopping"
                      [] OTHER -> "down"
         /\ todo' = [todo EXCEPT
                ![Handler] = <<>>,
                ![Daemon] = CASE life = "running" -> <<Outcome("failed_shutdown"), Note>>
                              [] life = "failing" -> Release
                              [] OTHER -> <<>>]

(* The error of a handler comes up in what it interrupted.                  *)
Raise(p) ==
    /\ IF p \in {Daemon, Handler}
       THEN /\ DaemonRaises
            /\ at' = [at EXCEPT ![Daemon] = "rest", ![Handler] = "rest"]
            /\ fd' = [fd EXCEPT ![Daemon] = "none", ![Handler] = "none"]
            /\ got' = [got EXCEPT ![Daemon] = Fresh, ![Handler] = Fresh]
            /\ UNCHANGED req
       ELSE /\ todo' = [todo EXCEPT ![p] = <<>>]
            /\ at' = [at EXCEPT ![p] = "rest"]
            /\ fd' = [fd EXCEPT ![p] = "none"]
            /\ got' = [got EXCEPT ![p] = Fresh]
            /\ req' = IF p \in Workers THEN [req EXCEPT ![p] = Missing] ELSE req
            /\ UNCHANGED life
    /\ UNCHANGED asked

-----------------------------------------------------------------------------
(* One update: read and change, open and truncate, write, replace *)

(* Logins that came at t and failed at a are told apart by a number.        *)
Tried(S, t, a) == S \cup {<<t, a, Cardinality({x \in S : x[1] = t /\ x[2] = a})>>}

(* The daemon waits for its handler.                                        *)
Runs(p) == p # Daemon \/ todo[Handler] = <<>>

Busy == {p \in Procs : at[p] # "rest"}

Read(p) ==
    /\ Runs(p) /\ at[p] = "rest" /\ todo[p] # <<>>
    /\ Busy = {} \/ races < MaxRaces
    /\ LET u == Head(todo[p]) IN
       /\ got' = [got EXCEPT ![p] = Apply(u, Readable(live))]
       /\ tries' = IF u[1] = "failed"
                   THEN [tries EXCEPT ![u[2]] = Tried(@, u[3], now)] ELSE tries
    /\ at' = [at EXCEPT ![p] = "open"]
    /\ races' = IF Busy = {} THEN races ELSE races + 1
    /\ UNCHANGED <<files, todo, daemon, req, now, tally, bounds>>

(* The name is the same for all: who has it open has the same file.         *)
Open(p) ==
    /\ Runs(p) /\ at[p] = "open"
    /\ tmp' = Torn
    /\ fd' = [fd EXCEPT ![p] = "tmp"]
    /\ at' = [at EXCEPT ![p] = "fill"]
    /\ UNCHANGED <<live, got, todo, daemon, req, now, ghosts, bounds>>

(* A file that has something in it by now is written over from its start.   *)
Over(f, c) == IF f = Torn THEN {c} ELSE {c, Torn}

Fill(p) ==
    /\ Runs(p) /\ at[p] = "fill"
    /\ \/ fd[p] = "tmp" /\ tmp' \in Over(tmp, got[p]) /\ UNCHANGED live
       \/ fd[p] = "live" /\ live' \in Over(live, got[p]) /\ UNCHANGED tmp
       \/ fd[p] = "gone" /\ UNCHANGED <<live, tmp>>
    /\ fd' = [fd EXCEPT ![p] = "none"]
    /\ at' = [at EXCEPT ![p] = "swap"]
    /\ UNCHANGED <<got, todo, daemon, req, now, ghosts, bounds>>

FillFails(p) ==
    /\ Runs(p) /\ at[p] = "fill" /\ Fails
    /\ faults' = faults + 1
    /\ Raise(p)
    /\ UNCHANGED <<live, tmp, now, ghosts, requests, starts, jobs>>

(* What a request does once its update is through.                          *)
Refused == <<Count, Count>>

Wish(w) ==
    CASE req[w].wish = "view" -> <<>>
      [] req[w].wish = "forged" -> Refused
      [] req[w].wish = "mutation" -> <<Count, Note>>
      [] req[w].wish = "reset" -> <<Count, <<"reset", "current_and_recent">>>>

Goes(p, u, c) ==
    CASE u[1] = "prune" ->
           LET r == req[p] IN
           CASE Locked(c, r.ip, r.t) -> <<Count>>
             [] ~Locked(c, r.ip, r.t) /\ r.cred = "none" ->
                    <<<<"failed", r.ip, r.t, "none">>, Count>>
             [] ~Locked(c, r.ip, r.t) /\ r.cred = "wrong" ->
                    <<<<"failed", r.ip, r.t, "wrong">>>>
             [] OTHER -> <<<<"passed", r.ip, r.t>>>>
      [] u[1] = "failed" /\ u[4] = "wrong" ->
           IF Locked(c, u[2], u[3]) THEN <<Count>> ELSE Refused
      [] u[1] = "passed" -> Wish(p)
      [] OTHER -> Tail(todo[p])

Swap(p) ==
    /\ Runs(p) /\ at[p] = "swap" /\ tmp # Missing
    /\ LET u == Head(todo[p]) IN
       /\ todo' = [todo EXCEPT ![p] = Goes(p, u, got[p])]
       /\ req' = IF p \in Workers /\ todo'[p] = <<>>
                 THEN [req EXCEPT ![p] = Missing] ELSE req
       /\ tally' = CASE u[1] \in {"count", "transition"} -> tally + 1
                     [] u[1] = "zero" -> 0
                     [] OTHER -> tally
    /\ live' = tmp /\ tmp' = Missing
    /\ fd' = [q \in Procs |-> CASE fd[q] = "tmp" -> "live"
                                [] fd[q] = "live" -> "gone"
                                [] OTHER -> fd[q]]
    /\ at' = [at EXCEPT ![p] = "rest"] /\ got' = [got EXCEPT ![p] = Fresh]
    /\ UNCHANGED <<daemon, now, tries, races, bounds>>

(* Somebody else has renamed the file away.                                 *)
SwapFails(p) ==
    /\ Runs(p) /\ at[p] = "swap" /\ tmp = Missing
    /\ Raise(p)
    /\ UNCHANGED <<live, tmp, now, ghosts, bounds>>

Updates == \E p \in Procs : Read(p) \/ Open(p) \/ Fill(p) \/ FillFails(p)
                            \/ Swap(p) \/ SwapFails(p)

-----------------------------------------------------------------------------
(* The daemon *)

(* At rest, and with nothing left of what it did last.                      *)
Free(p) == Runs(p) /\ at[p] = "rest" /\ todo[p] = <<>>

Begins(p, updates) ==
    /\ Free(p) /\ Cardinality({q \in Procs : todo[q] # <<>>}) < MaxBusy
    /\ todo' = [todo EXCEPT ![p] = updates]
    /\ UNCHANGED <<files, at, got, now, ghosts>>

(* The lock file of an earlier daemon is there still, for it to reclaim; and *)
(* jobs may be found in flight.                                             *)
Start ==
    /\ life = "down" /\ Room
    /\ \E recovered \in BOOLEAN :
          Begins(Daemon,
                 <<Asking(FALSE)>> \o (IF starts > 0 THEN <<Count>> ELSE <<>>)
                 \o <<Note, Count, Note>>
                 \o (IF recovered THEN <<Count, Count, Note, Outcome("startup_recovered")>>
                     ELSE <<Count, Note>>))
    /\ life' = "starting" /\ asked' = FALSE
    /\ starts' = starts + 1
    /\ UNCHANGED <<req, requests, jobs, faults>>

Started ==
    /\ life = "starting" /\ Free(Daemon)
    /\ life' = "running"
    /\ UNCHANGED <<files, procs, asked, req, now, ghosts, bounds>>

Running == life = "running" /\ UNCHANGED <<life, req, requests, starts, faults>>

Tick ==
    /\ Running /\ ~asked /\ Room
    /\ Begins(Daemon, <<Note, Note>>)
    /\ jobs' = jobs + 1 /\ UNCHANGED asked

(* One plan: the sleep that its backoff asks for, then the brains in turn,  *)
(* of which the first few fail.                                             *)
Waits(c) == IF c.fails >= Degrading THEN <<<<"applied">>>> ELSE <<>>

Tiers == 3      \* primary, fast and fallback

Attempts(n) == [k \in 1 .. 2 * n |-> IF k % 2 = 1 THEN Transition ELSE <<"fallback">>]

Plan ==
    /\ Running /\ Room
    /\ \E failing \in 1 .. Tiers :
          Begins(Daemon, Waits(Readable(live)) \o Attempts(failing))
    /\ jobs' = jobs + 1 /\ UNCHANGED asked

MissionDone ==
    /\ Running /\ Room
    /\ Begins(Daemon, <<<<"success">>>>)
    /\ jobs' = jobs + 1 /\ UNCHANGED asked

(* The job it is at when it is told to stop fails.                          *)
JobCutShort ==
    /\ Running /\ asked /\ Room
    /\ Begins(Daemon, <<Asking(TRUE), Outcome("failed_shutdown")>>)
    /\ jobs' = jobs + 1 /\ UNCHANGED asked

(* request_shutdown: the handler runs where the daemon happens to be.       *)
Signal ==
    /\ life \in {"running", "failing"} /\ ~asked
    /\ asked' = TRUE
    /\ Begins(Handler, <<Asking(TRUE)>>)
    /\ UNCHANGED <<life, req, bounds>>

LeaveLoop ==
    /\ \/ life = "running" /\ asked
       \/ life = "failing"
    /\ Begins(Daemon, Release)
    /\ life' = "stopping"
    /\ UNCHANGED <<asked, req, bounds>>

(* The outcome is written without a look at the one on the record.          *)
RecordedAlways == IF asked THEN <<Outcome("clean")>> ELSE <<>>

(* _record_clean_shutdown looks before it writes.                           *)
Recorded == IF asked /\ Readable(live).out # "failed_shutdown"
            THEN <<Outcome("clean")>> ELSE <<>>

Close ==
    /\ life = "stopping"
    /\ Begins(Daemon, Recorded)
    /\ life' = "closing"
    /\ UNCHANGED <<asked, req, bounds>>

Down ==
    /\ life = "closing" /\ Free(Daemon)
    /\ life' = "down"
    /\ UNCHANGED <<files, procs, asked, req, now, ghosts, bounds>>

(* SIGKILL, or SIGTERM while its handler is not installed.                  *)
Kill ==
    /\ life # "down" /\ Fails
    /\ life' = "down" /\ faults' = faults + 1
    /\ todo' = [todo EXCEPT ![Daemon] = <<>>, ![Handler] = <<>>]
    /\ at' = [at EXCEPT ![Daemon] = "rest", ![Handler] = "rest"]
    /\ fd' = [fd EXCEPT ![Daemon] = "none", ![Handler] = "none"]
    /\ got' = [got EXCEPT ![Daemon] = Fresh, ![Handler] = Fresh]
    /\ UNCHANGED <<live, tmp, asked, req, now, ghosts, requests, starts, jobs>>

DaemonSteps == Start \/ Started \/ Tick \/ Plan \/ MissionDone \/ JobCutShort
               \/ Signal \/ LeaveLoop \/ Close \/ Down \/ Kill

-----------------------------------------------------------------------------
(* The panel and the command *)

Request == [ip : Ips, t : Instants, cred : {"none", "wrong", "good"},
            wish : Wishes]

(* The time of a request is taken before its first look at the file.        *)
Attempt(w) ==
    /\ req[w] = Missing /\ MoreRequests
    /\ \E r \in Request :
          /\ r.t = now
          /\ req' = [req EXCEPT ![w] = r]
          /\ Begins(w, <<<<"prune", r.ip, r.t>>>>)
    /\ requests' = requests + 1
    /\ UNCHANGED <<daemon, starts, jobs, faults>>

HealthReset ==
    /\ MoreRequests
    /\ \E scope \in Scopes, op \in {"reset", "zero"} : Begins(Command, <<<<op, scope>>>>)
    /\ requests' = requests + 1
    /\ UNCHANGED <<daemon, req, starts, jobs, faults>>

Clock ==
    /\ now < MaxTime /\ requests > 0 /\ now' = now + 1
    /\ UNCHANGED <<files, procs, daemon, req, ghosts, bounds>>

Init ==
    /\ live = Missing /\ tmp = Missing /\ fd = [p \in Procs |-> "none"]
    /\ at = [p \in Procs |-> "rest"] /\ todo = [p \in Procs |-> <<>>]
    /\ got = [p \in Procs |-> Fresh]
    /\ life = "down" /\ asked = FALSE
    /\ req = [w \in Workers |-> Missing] /\ now = 1
    /\ tries = [i \in Ips |-> {}] /\ tally = 0 /\ races = 0
    /\ requests = 0 /\ starts = 0 /\ jobs = 0 /\ faults = 0

Next == Updates \/ DaemonSteps \/ (\E w \in Workers : Attempt(w)) \/ HealthReset \/ Clock

Spec == Init /\ [][Next]_vars
-----------------------------------------------------------------------------
(* Properties *)

Contents == [fails : Nat, degraded : BOOLEAN, since : BOOLEAN, out : Outcomes,
             stop : BOOLEAN, count : Nat,
             bad : [Ips -> [n : Nat, first : Nat, last : Nat]],
             lock : [Ips -> [until : Nat, last : Nat]]]

ASSUME MarksAssumption == Missing # Torn /\ {Missing, Torn} \cap Contents = {}

(* Types of the snapshot and of what the processes hold.                    *)
TypeOK ==
    /\ live \in Contents \cup {Missing, Torn} /\ tmp \in Contents \cup {Missing, Torn}
    /\ fd \in [Procs -> {"none", "tmp", "live", "gone"}]
    /\ at \in [Procs -> Places] /\ got \in [Procs -> Contents]
    /\ \A p \in Procs : at[p] # "rest" => todo[p] # <<>>
    /\ \A p \in Procs : fd[p] # "none" <=> at[p] = "fill"
    /\ life \in Lives /\ asked \in BOOLEAN
    /\ req \in [Workers -> Request \cup {Missing}]
    /\ now \in Instants /\ tries \in [Ips -> SUBSET (Instants \X Instants \X Nat)]
    /\ races \in Nat /\ tally \in Nat /\ requests + starts + jobs + faults <= MaxEvents

(* A snapshot that is read is degraded exactly when the brains have failed  *)
(* three times and more since the last success, whoever wrote it, over      *)
(* whom, and whatever an operator reset (docs/ops.md: "`degraded` after 3   *)
(* consecutive brain fallback events").                                     *)
DegradedTruth ==
    LET c == Readable(live) IN
    /\ c.degraded <=> c.fails >= Degrading
    /\ c.since => c.degraded

(* A kill or a failed write loses no count and leaves no half snapshot, as  *)
(* long as no two updates overlap.                                          *)
NothingLost == races = 0 => Readable(live).count = tally

NeverTorn == races = 0 => live # Torn

(* The snapshot is whole, true to itself and to what was counted.           *)
SnapshotHolds == TypeOK /\ DegradedTruth /\ NothingLost /\ NeverTorn

(* A lockout has been earned: Threshold requests of the address that failed *)
(* were under way within one window, even when updates undo each other.     *)
Within(i, t) == {x \in tries[i] : x[1] <= t + Window /\ x[2] >= t}
Earned(i) == \E t \in Instants : Cardinality(Within(i, t)) >= Threshold
LockoutEarned == \A i \in Ips : Readable(live).lock[i].until > 0 => Earned(i)

(* A lockout in force stays until its time is up: no login, reset, kill or  *)
(* shutdown shortens it, unless more addresses are locked out than the      *)
(* panel tracks, or two updates overlap.  The one request that does shorten *)
(* it is a failed one that came before the lockout and is served after it.  *)
Late(i) ==
    \E w \in Workers :
       /\ at[w] = "swap" /\ Head(todo[w])[1] = "failed"
       /\ req[w].ip = i /\ req[w].t < Readable(live).lock[i].last

LockoutHolds ==
    [][\A i \in Ips :
          Locked(Readable(live), i, now) /\ races' = 0 /\ ~Late(i)
          /\ Cardinality({j \in Ips : Readable(live).lock[j].until > 0}) <= MaxTracked
          => Readable(live').lock[i].until >= Readable(live).lock[i].until]_vars

(* The login guard neither locks out who has not failed often enough nor    *)
(* lets in early who has.                                                   *)
GuardHolds == []LockoutEarned /\ LockoutHolds

(* That a shutdown has failed stays on the record through the stop that     *)
(* follows: only the recovery of a later start, or an operator, replaces it.*)
FailureIsKept ==
    [][Readable(live).out = "failed_shutdown" /\ Readable(live').out # "failed_shutdown"
          /\ races' = 0
       => life = "starting" \/ \E p \in Workers \cup {Command} : at[p] = "swap"]_vars
=============================================================================
