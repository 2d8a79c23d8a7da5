---------------------------- MODULE HealthProofs ----------------------------
(***************************************************************************)
(* TLAPS proofs about Health, for any threads, addresses, thresholds and   *)
(* bounds: what health.json still says truly though nothing locks it.      *)
(***************************************************************************)
EXTENDS Health, FiniteSetTheorems, SequenceTheorems, TLAPS

-----------------------------------------------------------------------------
(* The invariant *)

Plain == {Note, Count, Transition, <<"applied">>, <<"fallback">>, <<"success">>}

Ranges == {"current_state", "recent_history", "current_and_recent"}

Kinds ==
    Plain \cup {Asking(b) : b \in BOOLEAN} \cup {Outcome(o) : o \in Outcomes}
    \cup ({"reset", "zero"} \X Ranges)
    \cup ({"prune", "passed"} \X Ips \X Instants)
    \cup ({"failed"} \X Ips \X Instants \X {"none", "wrong"})

(* What process p may have to write when the daemon's life is l, the        *)
(* requests are q and the time is t.                                        *)
Fits(p, u, l, q, t) ==
    \/ /\ p = Daemon
       /\ IF l = "closing" THEN u = Outcome("clean")
          ELSE \/ u \in Plain \/ u \in {Asking(TRUE), Asking(FALSE), Outcome("failed_shutdown")}
               \/ l = "starting" /\ u = Outcome("startup_recovered")
    \/ p = Handler /\ u = Asking(TRUE)
    \/ p = Command /\ u[1] \in {"reset", "zero"}
    \/ /\ p \in Workers
       /\ \/ u \in {Note, Count, <<"reset", "current_and_recent">>}
          \/ /\ u[1] \in {"prune", "failed", "passed"}
             /\ q[p] \in Request /\ u[2] = q[p].ip /\ u[3] = q[p].t /\ q[p].t <= t

Fitting(p, s, l, q, t) == \A k \in 1 .. Len(s) : Fits(p, s[k], l, q, t)

(* Transitions come before the fallback they count.                         *)
Followed(s) == s # <<>> => s[Len(s)] # Transition

Work ==
    /\ todo \in [Procs -> Seq(Kinds)]
    /\ \A p \in Procs : Fitting(p, todo[p], life, req, now)
    /\ Followed(todo[Daemon])

Same(S, t, a) == {x \in S : x[1] = t /\ x[2] = a}
Numbered(S) == IsFiniteSet(S) /\ \A x \in S : x[3] < Cardinality(Same(S, x[1], x[2]))

Typed ==
    /\ TypeOK
    /\ requests \in Nat /\ starts \in Nat /\ jobs \in Nat /\ faults \in Nat
    /\ \A i \in Ips : Numbered(tries[i])

(* Logins that came before the window of t was over and failed after t.     *)
Around(S, t) == {x \in S : x[1] <= t + Window /\ x[2] >= t}

Degrades(c) == (c.degraded <=> c.fails >= Degrading) /\ (c.since => c.degraded)

(* No row counts more logins than failed in its window, and a lockout ends  *)
(* when it should.                                                          *)
Guards(c, T, t) ==
    \A i \in Ips :
       /\ c.bad[i].n > 0 =>
             /\ c.bad[i].first \in Instants /\ c.bad[i].first <= t
             /\ c.bad[i].n <= Cardinality(Around(T[i], c.bad[i].first))
       /\ c.lock[i].until > 0 =>
             /\ c.lock[i].until = c.lock[i].last + Lockout
             /\ \E s \in Instants : Cardinality(Around(T[i], s)) >= Threshold

True(c, T, t) == Degrades(c) /\ Guards(c, T, t)

Sound ==
    /\ True(Readable(live), tries, now) /\ True(Readable(tmp), tries, now)
    /\ \A p \in Procs : True(got[p], tries, now)

(* While no two updates overlap, one process at most is in the middle of    *)
(* one, and the temporary file is its own.                                  *)
Alone ==
    races = 0 =>
        /\ \A p, q \in Procs : at[p] # "rest" /\ at[q] # "rest" => p = q
        /\ live # Torn /\ Readable(live).count = tally
        /\ \A p \in Procs :
              /\ at[p] # "rest" => got[p] = Apply(Head(todo[p]), Readable(live))
              /\ at[p] = "fill" => fd[p] = "tmp" /\ tmp = Torn
              /\ at[p] = "swap" => tmp = got[p]
        /\ life = "closing" /\ todo[Daemon] # <<>> => Readable(live).out # "failed_shutdown"

HInv == Typed /\ Work /\ Sound /\ Alone

-----------------------------------------------------------------------------
(* What an update makes of a snapshot *)

(* The defaults are true of whatever happened.                              *)
LEMMA FreshIs == Fresh \in Contents /\ \A T, t : True(Fresh, T, t)
<1>1. Fresh \in Contents
  BY DEF Fresh, Contents, Outcomes
<1>2. \A T, t : Guards(Fresh, T, t)
  BY DEF Fresh, Guards
<1>3. Degrades(Fresh)
  BY DEF Fresh, Degrades, Degrading
<1> QED BY <1>1, <1>2, <1>3 DEF True

(* An update is of one of these forms.                                      *)
LEMMA KindsAre ==
  ASSUME NEW u \in Kinds
  PROVE  \/ u \in Plain
         \/ u = Asking(TRUE) \/ u = Asking(FALSE)
         \/ \E o \in Outcomes : u = Outcome(o)
         \/ \E op \in {"reset", "zero"}, s \in Ranges : u = <<op, s>>
         \/ \E op \in {"prune", "passed"}, i \in Ips, t \in Instants : u = <<op, i, t>>
         \/ \E i \in Ips, t \in Instants, w \in {"none", "wrong"} : u = <<"failed", i, t, w>>
<1>1. CASE u \in Plain \/ u \in {Asking(b) : b \in BOOLEAN} \/ u \in {Outcome(o) : o \in Outcomes}
  BY <1>1
<1>2. CASE u \in {"reset", "zero"} \X Ranges
  <2>1. u = <<u[1], u[2]>> /\ u[1] \in {"reset", "zero"} /\ u[2] \in Ranges
    BY <1>2
  <2> QED BY <2>1
<1>3. CASE u \in {"prune", "passed"} \X Ips \X Instants
  <2>1. /\ u = <<u[1], u[2], u[3]>> /\ u[1] \in {"prune", "passed"}
        /\ u[2] \in Ips /\ u[3] \in Instants
    BY <1>3
  <2> QED BY <2>1
<1>4. CASE u \in {"failed"} \X Ips \X Instants \X {"none", "wrong"}
  <2>1. /\ u = <<"failed", u[2], u[3], u[4]>>
        /\ u[2] \in Ips /\ u[3] \in Instants /\ u[4] \in {"none", "wrong"}
    BY <1>4
  <2> QED BY <2>1
<1> QED BY <1>1, <1>2, <1>3, <1>4 DEF Kinds

(* A snapshot with the logins of another.                                   *)
With(c, f, d, s, o, b, n) ==
    [fails |-> f, degraded |-> d, since |-> s, out |-> o, stop |-> b, count |-> n,
     bad |-> c.bad, lock |-> c.lock]

(* What is not about logins leaves their rows alone.                        *)
LEMMA PlainApplied ==
  ASSUME NEW c \in Contents, NEW u \in Kinds, u[1] \notin {"prune", "failed", "passed"}
  PROVE  /\ Apply(u, c) \in Contents
         /\ Apply(u, c).bad = c.bad /\ Apply(u, c).lock = c.lock
         /\ Degrades(c) => Degrades(Apply(u, c))
         /\ Apply(u, c).count = CASE u[1] \in {"count", "transition"} -> c.count + 1
                                  [] u[1] = "zero" -> 0
                                  [] OTHER -> c.count
         /\ \/ Apply(u, c).out = c.out
            \/ u[1] \in {"reset", "zero"} /\ Apply(u, c).out = "unset"
            \/ u[1] = "outcome" /\ Apply(u, c).out = u[2]
<1> PICK a : a = Apply(u, c)
  OBVIOUS
<1> DEFINE counted == CASE u[1] \in {"count", "transition"} -> c.count + 1
                        [] u[1] = "zero" -> 0
                        [] OTHER -> c.count
           Goal == /\ a \in Contents
                   /\ a.bad = c.bad /\ a.lock = c.lock
                   /\ Degrades(c) => Degrades(a)
                   /\ a.count = counted
                   /\ \/ a.out = c.out
                      \/ u[1] \in {"reset", "zero"} /\ a.out = "unset"
                      \/ u[1] = "outcome" /\ a.out = u[2]
<1> SUFFICES Goal
  OBVIOUS
<1>0. c = With(c, c.fails, c.degraded, c.since, c.out, c.stop, c.count)
  BY DEF Contents, With
<1>1. /\ c.fails \in Nat /\ c.degraded \in BOOLEAN /\ c.since \in BOOLEAN /\ c.out \in Outcomes
      /\ c.stop \in BOOLEAN /\ c.count \in Nat /\ c.bad \in [Ips -> [n : Nat, first : Nat, last : Nat]]
      /\ c.lock \in [Ips -> [until : Nat, last : Nat]] /\ "unset" \in Outcomes
  BY DEF Contents, Outcomes
<1>2. CASE u \in {Note, <<"applied">>}
  <2>1. a = c /\ u[1] \in {"note", "applied"}
    BY <1>2 DEF Apply, Note
  <2> QED BY <2>1
<1>3. CASE u \in {Count, Transition}
  <2>1. a = [c EXCEPT !.count = @ + 1] /\ u[1] \in {"count", "transition"}
    BY <1>3 DEF Apply, Count, Transition
  <2>2. a = With(c, c.fails, c.degraded, c.since, c.out, c.stop, c.count + 1)
    BY <2>1, <1>0 DEF With
  <2>3. /\ a.bad = c.bad /\ a.lock = c.lock /\ a.count = c.count + 1 /\ a.out = c.out
        /\ a.fails = c.fails /\ a.degraded = c.degraded /\ a.since = c.since
    BY <2>2 DEF With
  <2>4. a \in Contents
    BY <2>2, <1>1 DEF With, Contents
  <2> QED BY <2>1, <2>3, <2>4, <1>1 DEF Degrades
<1>4. ASSUME NEW b \in BOOLEAN, u = Asking(b) PROVE Goal
  <2>1. a = [c EXCEPT !.stop = b] /\ u[1] = "asking"
    BY <1>4 DEF Apply, Asking
  <2>2. a = With(c, c.fails, c.degraded, c.since, c.out, b, c.count)
    BY <2>1, <1>0 DEF With
  <2>3. /\ a.bad = c.bad /\ a.lock = c.lock /\ a.count = c.count /\ a.out = c.out
        /\ a.fails = c.fails /\ a.degraded = c.degraded /\ a.since = c.since
    BY <2>2 DEF With
  <2>4. a \in Contents
    BY <2>2, <1>1 DEF With, Contents
  <2> QED BY <2>1, <2>3, <2>4, <1>1 DEF Degrades
<1>5. ASSUME NEW o \in Outcomes, u = Outcome(o) PROVE Goal
  <2>1. a = [c EXCEPT !.out = o] /\ u[1] = "outcome" /\ u[2] = o
    BY <1>5 DEF Apply, Outcome
  <2>2. a = With(c, c.fails, c.degraded, c.since, o, c.stop, c.count)
    BY <2>1, <1>0 DEF With
  <2>3. /\ a.bad = c.bad /\ a.lock = c.lock /\ a.count = c.count /\ a.out = o
        /\ a.fails = c.fails /\ a.degraded = c.degraded /\ a.since = c.since
    BY <2>2 DEF With
  <2>4. a \in Contents
    BY <2>2, <1>1 DEF With, Contents
  <2> QED BY <2>1, <2>3, <2>4, <1>1 DEF Degrades
<1>6. CASE u = <<"fallback">>
  <2>0. a = Fallback(c) /\ u[1] = "fallback"
    BY <1>6 DEF Apply
  <2> DEFINE d == c.degraded \/ c.fails + 1 >= Degrading
             s == c.since \/ (c.fails + 1 >= Degrading /\ ~c.degraded)
  <2>1. a = [c EXCEPT !.fails = c.fails + 1, !.degraded = d, !.since = s]
    BY <2>0 DEF Fallback
  <2>5. c.fails + 1 \in Nat /\ d \in BOOLEAN /\ s \in BOOLEAN
    BY <1>1
  <2>6. Degrades(c) => (d <=> c.fails + 1 >= Degrading) /\ (s => d)
    BY <1>1 DEF Degrades, Degrading
  <2> HIDE DEF d, s
  <2>2. a = With(c, c.fails + 1, d, s, c.out, c.stop, c.count)
    BY <2>1, <1>0 DEF With
  <2>3. /\ a.bad = c.bad /\ a.lock = c.lock /\ a.count = c.count /\ a.out = c.out
        /\ a.fails = c.fails + 1 /\ a.degraded = d /\ a.since = s
    BY <2>2 DEF With
  <2>4. a \in Contents
    BY <2>2, <1>1, <2>5 DEF With, Contents
  <2> QED BY <2>0, <2>3, <2>4, <2>6 DEF Degrades
<1>7. CASE u = <<"success">>
  <2>1. a = [c EXCEPT !.fails = 0, !.degraded = FALSE, !.since = FALSE] /\ u[1] = "success"
    BY <1>7 DEF Apply, Success
  <2>2. a = With(c, 0, FALSE, FALSE, c.out, c.stop, c.count)
    BY <2>1, <1>0 DEF With
  <2>3. /\ a.bad = c.bad /\ a.lock = c.lock /\ a.count = c.count /\ a.out = c.out
        /\ a.fails = 0 /\ a.degraded = FALSE /\ a.since = FALSE
    BY <2>2 DEF With
  <2>4. a \in Contents
    BY <2>2, <1>1 DEF With, Contents
  <2> QED BY <2>1, <2>3, <2>4 DEF Degrades, Degrading
<1>8. ASSUME NEW op \in {"reset", "zero"}, NEW scope \in Ranges, u = <<op, scope>> PROVE Goal
  <2>0. /\ op = "reset" => a = ResetFields(c, scope)
        /\ op = "zero" => a = [ResetFields(c, scope) EXCEPT !.count = 0]
        /\ u[1] = op
    BY <1>8 DEF Apply
  <2> DEFINE state == scope \in {"current_state", "current_and_recent"}
             recent == scope \in {"recent_history", "current_and_recent"}
             f == IF state THEN 0 ELSE c.fails
             d == c.degraded /\ ~state
             o == IF recent THEN "unset" ELSE c.out
             n == IF op = "zero" THEN 0 ELSE c.count
  <2>5. f \in Nat /\ d \in BOOLEAN /\ o \in Outcomes /\ o \in {c.out, "unset"} /\ n \in Nat
    BY <1>1
  <2>6. Degrades(c) => (d <=> f >= Degrading)
    BY <1>1 DEF Degrades, Degrading
  <2>7. ResetFields(c, scope) = [c EXCEPT !.fails = f, !.degraded = d, !.since = FALSE, !.out = o]
    BY DEF ResetFields
  <2>8. /\ op = "zero" => n = 0
        /\ op = "reset" => n = c.count
    OBVIOUS
  <2> HIDE DEF f, d, o, n
  <2>9. ResetFields(c, scope) = With(c, f, d, FALSE, o, c.stop, c.count)
    BY <2>7, <1>0 DEF With
  <2>1. op = "zero" => a = With(c, f, d, FALSE, o, c.stop, 0)
    BY <2>0, <2>9 DEF With
  <2>2. a = With(c, f, d, FALSE, o, c.stop, n)
    BY <2>0, <2>1, <2>8, <2>9
  <2>3. /\ a.bad = c.bad /\ a.lock = c.lock /\ a.count = n /\ a.out = o
        /\ a.fails = f /\ a.degraded = d /\ a.since = FALSE
    BY <2>2 DEF With
  <2>4. a \in Contents
    BY <2>2, <1>1, <2>5 DEF With, Contents
  <2>10. Degrades(c) => Degrades(a)
    BY <2>3, <2>6 DEF Degrades
  <2>11. a.count = counted
    <3>1. CASE op = "zero"
      BY <2>0, <2>3, <2>8, <3>1
    <3>2. CASE op = "reset"
      BY <2>0, <2>3, <2>8, <3>2
    <3> QED BY <3>1, <3>2
  <2> HIDE DEF counted
  <2> QED BY <2>0, <2>3, <2>4, <2>5, <2>10, <2>11
<1>9. ~(\E op \in {"prune", "passed"}, i \in Ips, t \in Instants : u = <<op, i, t>>)
  OBVIOUS
<1>10. ~(\E i \in Ips, t \in Instants, w \in {"none", "wrong"} : u = <<"failed", i, t, w>>)
  OBVIOUS
<1> HIDE DEF Goal
<1> QED BY <1>2, <1>3, <1>4, <1>5, <1>6, <1>7, <1>8, <1>9, <1>10, KindsAre DEF Plain

-----------------------------------------------------------------------------
(* The rows of the logins *)

(* A snapshot with other logins.                                            *)
Rows(c, bad, lock) ==
    [fails |-> c.fails, degraded |-> c.degraded, since |-> c.since, out |-> c.out,
     stop |-> c.stop, count |-> c.count, bad |-> bad, lock |-> lock]

Bad == [Ips -> [n : Nat, first : Nat, last : Nat]]
Locks == [Ips -> [until : Nat, last : Nat]]

(* A snapshot is the rest of it and its rows.                               *)
LEMMA ContentsAre ==
  ASSUME NEW c \in Contents
  PROVE  /\ c = Rows(c, c.bad, c.lock) /\ c.bad \in Bad /\ c.lock \in Locks
         /\ c.count \in Nat /\ c.out \in Outcomes
<1>1. c = Rows(c, c.bad, c.lock)
  BY DEF Contents, Rows
<1>2. c.bad \in Bad /\ c.lock \in Locks /\ c.count \in Nat /\ c.out \in Outcomes
  <2>1. c.bad \in [Ips -> [n : Nat, first : Nat, last : Nat]]
    BY DEF Contents
  <2>2. c.lock \in [Ips -> [until : Nat, last : Nat]]
    BY DEF Contents
  <2>3. c.count \in Nat /\ c.out \in Outcomes
    BY DEF Contents
  <2> QED BY <2>1, <2>2, <2>3 DEF Bad, Locks
<1> QED BY <1>1, <1>2

(* Other rows make another snapshot, with the rest as it was.               *)
LEMMA RowsAre ==
  ASSUME NEW c \in Contents, NEW b \in Bad, NEW l \in Locks
  PROVE  /\ Rows(c, b, l) \in Contents /\ (Degrades(c) => Degrades(Rows(c, b, l)))
         /\ Rows(c, b, l).bad = b /\ Rows(c, b, l).lock = l
         /\ Rows(c, b, l).count = c.count /\ Rows(c, b, l).out = c.out
<1>1. /\ c.fails \in Nat /\ c.degraded \in BOOLEAN /\ c.since \in BOOLEAN /\ c.out \in Outcomes
      /\ c.stop \in BOOLEAN /\ c.count \in Nat
  BY DEF Contents
<1>2. Rows(c, b, l) \in Contents
  BY <1>1 DEF Rows, Contents, Bad, Locks
<1>3. /\ Rows(c, b, l).bad = b /\ Rows(c, b, l).lock = l
      /\ Rows(c, b, l).count = c.count /\ Rows(c, b, l).out = c.out
      /\ Rows(c, b, l).fails = c.fails /\ Rows(c, b, l).degraded = c.degraded
      /\ Rows(c, b, l).since = c.since
  BY DEF Rows
<1> QED BY <1>2, <1>3 DEF Degrades

(* Of no more than MaxTracked rows the latest are all of them.              *)
LEMMA LatestIs ==
  ASSUME NEW X \in SUBSET Ips, NEW when \in [Ips -> Nat], NEW i \in X
  PROVE  /\ Latest(X, when) \subseteq X
         /\ Cardinality(X) <= MaxTracked => i \in Latest(X, when)
<1> DEFINE newer == {j \in X : when[j] > when[i] \/ (when[j] = when[i] /\ j > i)}
<1>1. IsFiniteSet(X) /\ i \in Nat /\ MaxTracked \in Nat
  BY FS_Subset, HealthAssumption
<1>2. i \notin newer
  <2>1. when[i] \in Nat /\ ~(when[i] > when[i]) /\ ~(i > i)
    BY <1>1
  <2> QED BY <2>1
<1>3. newer \subseteq X \ {i}
  <2>1. newer \subseteq X
    OBVIOUS
  <2> HIDE DEF newer
  <2> QED BY <1>2, <2>1
<1>4. IsFiniteSet(X \ {i}) /\ Cardinality(X \ {i}) = Cardinality(X) - 1
  BY <1>1, FS_RemoveElement
<1>5. Cardinality(newer) <= Cardinality(X \ {i})
  BY <1>3, <1>4, FS_Subset
<1>6. Cardinality(newer) \in Nat /\ Cardinality(X) \in Nat
  BY <1>1, FS_Subset, FS_CardinalityType
<1>7. Cardinality(X) <= MaxTracked => Cardinality(newer) < MaxTracked
  BY <1>1, <1>4, <1>5, <1>6
<1> QED BY <1>7 DEF Latest

Dropped(c, b, l) ==
    \A i \in Ips : b[i] \in {c.bad[i], Unfailed} /\ l[i] \in {c.lock[i], Unlocked}

PrunedTo(c, t, b, l) ==
    /\ Prune(c, t) = Rows(c, b, l) /\ Dropped(c, b, l)
    /\ Cardinality({j \in Ips : c.lock[j].until > 0}) <= MaxTracked
       => \A i \in Ips : t < c.lock[i].until => l[i] = c.lock[i]

(* Pruning drops rows whole, and no lockout in force but for MaxTracked.    *)
LEMMA PruneIs ==
  ASSUME NEW c \in Contents, NEW t \in Instants
  PROVE  \E b \in Bad, l \in Locks : PrunedTo(c, t, b, l)
<1>0. c = Rows(c, c.bad, c.lock) /\ c.bad \in Bad /\ c.lock \in Locks
  BY ContentsAre
<1> DEFINE badAt == [i \in Ips |-> c.bad[i].last]
           lockAt == [i \in Ips |-> c.lock[i].last]
           bad == Latest({i \in Ips : c.bad[i].n > 0 /\ badAt[i] + Ttl >= t}, badAt)
           held == {i \in Ips : c.lock[i].until > 0
                                 /\ (c.lock[i].until + Ttl >= t \/ lockAt[i] + Ttl >= t)}
           locks == Latest(held, lockAt)
           b == [i \in Ips |-> IF i \in bad THEN c.bad[i] ELSE Unfailed]
           l == [i \in Ips |-> IF i \in locks THEN c.lock[i] ELSE Unlocked]
<1>1. Prune(c, t) = [c EXCEPT !.bad = b, !.lock = l]
  BY DEF Prune
<1>2. b \in Bad /\ l \in Locks
  BY <1>0 DEF Bad, Locks, Unfailed, Unlocked
<1>3. Dropped(c, b, l)
  BY DEF Dropped
<1>4. ASSUME Cardinality({j \in Ips : c.lock[j].until > 0}) <= MaxTracked,
             NEW i \in Ips, t < c.lock[i].until
      PROVE  l[i] = c.lock[i]
  <2>1. c.lock[i].until \in Nat /\ Ttl \in Nat /\ t \in Nat
    BY <1>0, HealthAssumption DEF Locks, Instants
  <2>2. i \in held
    BY <1>4, <2>1
  <2>3. held \subseteq {j \in Ips : c.lock[j].until > 0}
    OBVIOUS
  <2>4. IsFiniteSet({j \in Ips : c.lock[j].until > 0})
    BY FS_Subset, HealthAssumption
  <2>5. Cardinality(held) <= Cardinality({j \in Ips : c.lock[j].until > 0})
    BY <2>3, <2>4, FS_Subset
  <2>6. Cardinality(held) \in Nat /\ Cardinality({j \in Ips : c.lock[j].until > 0}) \in Nat
    BY <2>3, <2>4, FS_Subset, FS_CardinalityType
  <2>7. Cardinality(held) <= MaxTracked
    BY <1>4, <2>5, <2>6, HealthAssumption
  <2>8. lockAt \in [Ips -> Nat] /\ held \in SUBSET Ips
    BY <1>0 DEF Locks
  <2> HIDE DEF held, lockAt
  <2>9. i \in locks
    BY <2>2, <2>7, <2>8, LatestIs
  <2> QED BY <2>9
<1> HIDE DEF b, l
<1>5. Prune(c, t) = Rows(c, b, l)
  BY <1>0, <1>1 DEF Rows
<1> QED BY <1>2, <1>3, <1>4, <1>5 DEF PrunedTo

FailedTo(c, i, t, b, l) ==
    /\ Failed(c, i, t) = Rows(c, b, l)
    /\ \A j \in Ips : j # i => b[j] = c.bad[j] /\ l[j] = c.lock[j]
    /\ \/ b[i].n = 1 /\ b[i].first = t
       \/ /\ b[i].n = c.bad[i].n + 1 /\ b[i].first = c.bad[i].first /\ c.bad[i].n > 0
          /\ t <= c.bad[i].first + Window
    /\ l[i] = IF b[i].n >= Threshold THEN [until |-> t + Lockout, last |-> t] ELSE c.lock[i]

PassedTo(c, i, t, b, l) ==
    /\ Passed(c, i, t) = Rows(c, b, l) /\ Dropped(c, b, l)
    /\ \A j \in Ips : (j # i \/ t < c.lock[j].until) => l[j] = c.lock[j]

(* A login that fails adds to its row, or begins one, and may lock out.     *)
LEMMA FailedIs ==
  ASSUME NEW c \in Contents, NEW i \in Ips, NEW t \in Instants
  PROVE  \E b \in Bad, l \in Locks : FailedTo(c, i, t, b, l)
<1>0. c = Rows(c, c.bad, c.lock) /\ c.bad \in Bad /\ c.lock \in Locks
  BY ContentsAre
<1>1. /\ c.bad[i].n \in Nat /\ c.bad[i].first \in Nat /\ c.bad[i].last \in Nat
      /\ t \in Nat /\ Window \in Nat /\ Lockout \in Nat /\ Threshold \in Nat
  BY <1>0, HealthAssumption DEF Bad, Instants
<1> DEFINE new == c.bad[i].n = 0 \/ t > c.bad[i].first + Window
           n == IF new THEN 1 ELSE c.bad[i].n + 1
           first == IF new THEN t ELSE c.bad[i].first
           row == [n |-> n, first |-> first, last |-> t]
           lock == IF n >= Threshold THEN [until |-> t + Lockout, last |-> t] ELSE c.lock[i]
           b == [c.bad EXCEPT ![i] = row]
           l == [c.lock EXCEPT ![i] = lock]
<1>2. Failed(c, i, t) = [c EXCEPT !.bad[i] = row, !.lock[i] = lock]
  BY DEF Failed
<1>3. row \in [n : Nat, first : Nat, last : Nat] /\ row.n = n /\ row.first = first
  BY <1>1
<1>4. lock \in [until : Nat, last : Nat]
  BY <1>0, <1>1 DEF Locks
<1>5. \/ n = 1 /\ first = t
      \/ /\ n = c.bad[i].n + 1 /\ first = c.bad[i].first /\ c.bad[i].n > 0
         /\ t <= c.bad[i].first + Window
  BY <1>1
<1>6. lock = IF n >= Threshold THEN [until |-> t + Lockout, last |-> t] ELSE c.lock[i]
  OBVIOUS
<1> HIDE DEF row, lock, n, first
<1>7. b \in Bad /\ l \in Locks
  BY <1>0, <1>3, <1>4 DEF Bad, Locks
<1>8. /\ b[i] = row /\ l[i] = lock
      /\ \A j \in Ips : j # i => b[j] = c.bad[j] /\ l[j] = c.lock[j]
  BY <1>0 DEF Bad, Locks
<1>9. Failed(c, i, t) = [c EXCEPT !.bad = b, !.lock = l]
  BY <1>0, <1>2 DEF Rows
<1> HIDE DEF b, l
<1>10. Failed(c, i, t) = Rows(c, b, l)
  BY <1>0, <1>9 DEF Rows
<1> QED BY <1>3, <1>5, <1>6, <1>7, <1>8, <1>10 DEF FailedTo

(* A login that succeeds drops its row, and its lockout once that is over.  *)
LEMMA PassedIs ==
  ASSUME NEW c \in Contents, NEW i \in Ips, NEW t \in Instants
  PROVE  \E b \in Bad, l \in Locks : PassedTo(c, i, t, b, l)
<1>0. c = Rows(c, c.bad, c.lock) /\ c.bad \in Bad /\ c.lock \in Locks
  BY ContentsAre
<1> DEFINE lock == IF t < c.lock[i].until THEN c.lock[i] ELSE Unlocked
           b == [c.bad EXCEPT ![i] = Unfailed]
           l == [c.lock EXCEPT ![i] = lock]
<1>2. Passed(c, i, t) = [c EXCEPT !.bad[i] = Unfailed, !.lock[i] = lock]
  BY DEF Passed, Locked
<1>3. Unfailed \in [n : Nat, first : Nat, last : Nat] /\ Unlocked \in [until : Nat, last : Nat]
  BY DEF Unfailed, Unlocked
<1>4. lock \in [until : Nat, last : Nat]
  BY <1>0, <1>3 DEF Locks
<1>5. lock \in {c.lock[i], Unlocked} /\ (t < c.lock[i].until => lock = c.lock[i])
  OBVIOUS
<1> HIDE DEF lock
<1>7. b \in Bad /\ l \in Locks
  BY <1>0, <1>3, <1>4 DEF Bad, Locks
<1>8. /\ b[i] = Unfailed /\ l[i] = lock
      /\ \A j \in Ips : j # i => b[j] = c.bad[j] /\ l[j] = c.lock[j]
  BY <1>0 DEF Bad, Locks
<1>9. Passed(c, i, t) = [c EXCEPT !.bad = b, !.lock = l]
  BY <1>0, <1>2 DEF Rows
<1> HIDE DEF b, l
<1>10. Passed(c, i, t) = Rows(c, b, l)
  BY <1>0, <1>9 DEF Rows
<1>11. Dropped(c, b, l)
  BY <1>5, <1>8 DEF Dropped
<1> QED BY <1>5, <1>7, <1>8, <1>10, <1>11 DEF PassedTo

-----------------------------------------------------------------------------
(* The logins that failed *)

Tries == [Ips -> SUBSET (Instants \X Instants \X Nat)]

Adds(S, t, a, x) ==
    /\ x \notin S /\ x[1] = t /\ x[2] = a
    /\ Tried(S, t, a) = S \cup {x} /\ Numbered(S \cup {x})

(* One more login that failed is told from all that did before.             *)
LEMMA TriedIs ==
  ASSUME NEW S \in SUBSET (Instants \X Instants \X Nat), Numbered(S),
         NEW t \in Instants, NEW a \in Instants
  PROVE  \E x \in Instants \X Instants \X Nat : Adds(S, t, a, x)
<1> DEFINE n == Cardinality(Same(S, t, a))
           x == <<t, a, n>>
<1>1. /\ IsFiniteSet(S) /\ \A v, w : IsFiniteSet(Same(S, v, w))
      /\ \A v, w : Cardinality(Same(S, v, w)) \in Nat
  <2>1. \A v, w : Same(S, v, w) \subseteq S
    BY DEF Same
  <2> QED BY <2>1, FS_Subset, FS_CardinalityType DEF Numbered
<1>2. x \in Instants \X Instants \X Nat /\ x[1] = t /\ x[2] = a /\ x[3] = n
  BY <1>1
<1>3. x \notin S
  BY <1>1, <1>2 DEF Numbered
<1>4. Tried(S, t, a) = S \cup {x}
  BY DEF Tried, Same
<1> HIDE DEF x
<1>5. Numbered(S \cup {x})
  <2>1. IsFiniteSet(S \cup {x})
    BY <1>1, FS_AddElement
  <2>2. Same(S \cup {x}, t, a) = Same(S, t, a) \cup {x} /\ x \notin Same(S, t, a)
    BY <1>2, <1>3 DEF Same
  <2>3. Cardinality(Same(S \cup {x}, t, a)) = n + 1
    BY <1>1, <2>2, FS_AddElement
  <2>4. ASSUME NEW y \in S \cup {x}
        PROVE  y[3] < Cardinality(Same(S \cup {x}, y[1], y[2]))
    <3>1. CASE y = x
      BY <1>1, <1>2, <2>3, <3>1
    <3>2. CASE y \in S /\ y[1] = t /\ y[2] = a
      <4>1. y[3] \in Nat /\ y[3] < n /\ n \in Nat
        BY <1>1, <3>2 DEF Numbered
      <4> QED BY <2>3, <3>2, <4>1
    <3>3. CASE y \in S /\ ~(y[1] = t /\ y[2] = a)
      <4>1. Same(S \cup {x}, y[1], y[2]) = Same(S, y[1], y[2])
        BY <1>2, <3>3 DEF Same
      <4> QED BY <3>3, <4>1 DEF Numbered
    <3> QED BY <3>1, <3>2, <3>3
  <2> QED BY <2>1, <2>4 DEF Numbered
<1> QED BY <1>2, <1>3, <1>4, <1>5 DEF Adds

(* More logins and later times do no row an injustice.                      *)
LEMMA GuardsGrow ==
  ASSUME NEW c \in Contents, NEW T, NEW U, NEW t \in Instants, NEW s \in Instants,
         \A i \in Ips : T[i] \subseteq U[i] /\ IsFiniteSet(U[i]), t <= s, Guards(c, T, t)
  PROVE  Guards(c, U, s)
<1>1. ASSUME NEW i \in Ips, NEW v, NEW n, n \in Nat, n <= Cardinality(Around(T[i], v))
      PROVE  n <= Cardinality(Around(U[i], v))
  <2>1. Around(T[i], v) \subseteq Around(U[i], v) /\ Around(U[i], v) \subseteq U[i]
    BY DEF Around
  <2>2. IsFiniteSet(Around(U[i], v)) /\ IsFiniteSet(Around(T[i], v))
    BY <2>1, FS_Subset
  <2>3. /\ Cardinality(Around(U[i], v)) \in Nat /\ Cardinality(Around(T[i], v)) \in Nat
        /\ Cardinality(Around(T[i], v)) <= Cardinality(Around(U[i], v))
    BY <2>1, <2>2, FS_Subset, FS_CardinalityType
  <2> QED BY <1>1, <2>3
<1>2. ASSUME NEW i \in Ips, c.bad[i].n > 0
      PROVE  /\ c.bad[i].first \in Instants /\ c.bad[i].first <= s
             /\ c.bad[i].n <= Cardinality(Around(U[i], c.bad[i].first))
  <2>1. /\ c.bad[i].first \in Instants /\ c.bad[i].first <= t
        /\ c.bad[i].n <= Cardinality(Around(T[i], c.bad[i].first))
    BY <1>2 DEF Guards
  <2>2. c.bad[i].n \in Nat
    BY ContentsAre DEF Bad
  <2>3. c.bad[i].first <= s
    BY <2>1 DEF Instants
  <2> QED BY <1>1, <2>1, <2>2, <2>3
<1>3. ASSUME NEW i \in Ips, c.lock[i].until > 0
      PROVE  /\ c.lock[i].until = c.lock[i].last + Lockout
             /\ \E v \in Instants : Cardinality(Around(U[i], v)) >= Threshold
  <2>1. /\ c.lock[i].until = c.lock[i].last + Lockout
        /\ \E v \in Instants : Cardinality(Around(T[i], v)) >= Threshold
    BY <1>3 DEF Guards
  <2>2. PICK v \in Instants : Cardinality(Around(T[i], v)) >= Threshold
    BY <2>1
  <2>3. Threshold \in Nat /\ Threshold <= Cardinality(Around(T[i], v))
    BY <2>2, HealthAssumption
  <2>4. Threshold <= Cardinality(Around(U[i], v))
    BY <1>1, <2>3
  <2> QED BY <2>1, <2>4
<1> QED BY <1>2, <1>3 DEF Guards

(* A row dropped, and a row kept, do none either.                           *)
LEMMA GuardsDrop ==
  ASSUME NEW c \in Contents, NEW T, NEW t, NEW b \in Bad, NEW l \in Locks, Guards(c, T, t),
         Dropped(c, b, l)
  PROVE  Guards(Rows(c, b, l), T, t)
<1>1. Rows(c, b, l).bad = b /\ Rows(c, b, l).lock = l
  BY DEF Rows
<1>2. ~(Unfailed.n > 0) /\ ~(Unlocked.until > 0)
  BY DEF Unfailed, Unlocked
<1> QED BY <1>1, <1>2 DEF Guards, Dropped

Tallied(T) == T \in Tries /\ \A i \in Ips : Numbered(T[i])

Adding(T, i, s, t) == [T EXCEPT ![i] = Tried(@, s, t)]
Telling(T, u, t) == IF u[1] = "failed" THEN Adding(T, u[2], u[3], t) ELSE T

Grows(T, U, i, s, t) ==
    /\ Tallied(U)
    /\ \A j \in Ips : T[j] \subseteq U[j] /\ IsFiniteSet(U[j])
    /\ \E x \in U[i] \ T[i] : x[1] = s /\ x[2] = t /\ U[i] = T[i] \cup {x}

(* A login that failed is added to those of its address.                    *)
LEMMA TriesGrow ==
  ASSUME NEW T, Tallied(T), NEW i \in Ips, NEW s \in Instants, NEW t \in Instants, NEW U,
         U = Adding(T, i, s, t)
  PROVE  Grows(T, U, i, s, t)
<1>1. T \in Tries /\ \A j \in Ips : Numbered(T[j]) /\ T[j] \in SUBSET (Instants \X Instants \X Nat)
  BY DEF Tallied, Tries
<1> PICK S \in SUBSET (Instants \X Instants \X Nat) : S = T[i] /\ Numbered(S)
  BY <1>1
<1>6. PICK x \in Instants \X Instants \X Nat : Adds(S, s, t, x)
  BY TriedIs
<1>2. x \notin S /\ x[1] = s /\ x[2] = t /\ Tried(S, s, t) = S \cup {x} /\ Numbered(S \cup {x})
  BY <1>6 DEF Adds
<1>3. U[i] = T[i] \cup {x} /\ \A j \in Ips : j # i => U[j] = T[j]
  BY <1>1, <1>2 DEF Tries, Adding
<1>4. U \in Tries
  BY <1>1, <1>2 DEF Tries, Adding
<1>5. \A j \in Ips : Numbered(U[j]) /\ T[j] \subseteq U[j]
  <2> TAKE j \in Ips
  <2>1. CASE j = i
    BY <1>2, <1>3, <2>1
  <2>2. CASE j # i
    BY <1>1, <1>3, <2>2
  <2> QED BY <2>1, <2>2
<1> QED BY <1>2, <1>3, <1>4, <1>5 DEF Tallied, Numbered, Grows

(* A login that fails counts no login twice, and locks out only after       *)
(* Threshold of them.                                                       *)
LEMMA GuardsFailed ==
  ASSUME NEW c \in Contents, NEW T, Tallied(T), NEW i \in Ips, NEW s \in Instants,
         NEW t \in Instants, s <= t, Guards(c, T, t), NEW U,
         U = Adding(T, i, s, t)
  PROVE  Guards(Failed(c, i, s), U, t)
<1>1. /\ \A j \in Ips : T[j] \subseteq U[j] /\ IsFiniteSet(U[j])
      /\ \E x \in U[i] \ T[i] : x[1] = s /\ x[2] = t /\ U[i] = T[i] \cup {x}
  BY TriesGrow DEF Grows
<1>2. PICK x \in U[i] \ T[i] : x[1] = s /\ x[2] = t /\ U[i] = T[i] \cup {x}
  BY <1>1
<1>3. Guards(c, U, t)
  <2>1. t <= t
    BY DEF Instants
  <2> QED BY <1>1, <2>1, GuardsGrow
<1>4. s \in Nat /\ t \in Nat /\ Window \in Nat /\ Threshold \in Nat \ {0}
  BY HealthAssumption DEF Instants
<1>0. PICK b \in Bad, l \in Locks : FailedTo(c, i, s, b, l)
  BY FailedIs
<1>5.    /\ Failed(c, i, s) = Rows(c, b, l)
         /\ \A j \in Ips : j # i => b[j] = c.bad[j] /\ l[j] = c.lock[j]
         /\ \/ b[i].n = 1 /\ b[i].first = s
            \/ /\ b[i].n = c.bad[i].n + 1 /\ b[i].first = c.bad[i].first /\ c.bad[i].n > 0
               /\ s <= c.bad[i].first + Window
         /\ l[i] = IF b[i].n >= Threshold THEN [until |-> s + Lockout, last |-> s] ELSE c.lock[i]
  BY <1>0 DEF FailedTo
<1>6. ASSUME NEW v \in Instants, v <= t, s <= v + Window
      PROVE  /\ Cardinality(Around(T[i], v)) \in Nat
             /\ Cardinality(Around(U[i], v)) = Cardinality(Around(T[i], v)) + 1
  <2>1. v \in Nat
    BY DEF Instants
  <2>2. Around(U[i], v) = Around(T[i], v) \cup {x} /\ x \notin Around(T[i], v)
    BY <1>2, <1>4, <1>6, <2>1 DEF Around
  <2>3. Around(T[i], v) \subseteq U[i]
    BY <1>2 DEF Around
  <2>4. IsFiniteSet(Around(T[i], v))
    BY <1>1, <2>3, FS_Subset
  <2> QED BY <2>2, <2>4, FS_AddElement, FS_CardinalityType
<1>7. /\ b[i].first \in Instants /\ b[i].first <= t
      /\ b[i].n <= Cardinality(Around(U[i], b[i].first))
  <2>1. CASE b[i].n = 1 /\ b[i].first = s
    <3>1. s <= s + Window
      BY <1>4
    <3>2. /\ Cardinality(Around(T[i], s)) \in Nat
          /\ Cardinality(Around(U[i], s)) = Cardinality(Around(T[i], s)) + 1
      BY <1>6, <3>1
    <3> QED BY <2>1, <3>2
  <2>2. CASE /\ b[i].n = c.bad[i].n + 1 /\ b[i].first = c.bad[i].first /\ c.bad[i].n > 0
             /\ s <= c.bad[i].first + Window
    <3>1. /\ c.bad[i].first \in Instants /\ c.bad[i].first <= t
          /\ c.bad[i].n <= Cardinality(Around(T[i], c.bad[i].first))
      BY <2>2 DEF Guards
    <3>2. /\ Cardinality(Around(T[i], c.bad[i].first)) \in Nat
          /\ Cardinality(Around(U[i], c.bad[i].first))
             = Cardinality(Around(T[i], c.bad[i].first)) + 1
      BY <1>6, <2>2, <3>1
    <3>3. c.bad[i].n \in Nat
      BY ContentsAre DEF Bad
    <3> QED BY <2>2, <3>1, <3>2, <3>3
  <2> QED BY <1>5, <2>1, <2>2
<1>8. l[i].until > 0 =>
         /\ l[i].until = l[i].last + Lockout
         /\ \E v \in Instants : Cardinality(Around(U[i], v)) >= Threshold
  <2>1. CASE b[i].n >= Threshold
    <3>1. l[i] = [until |-> s + Lockout, last |-> s]
      BY <1>5, <2>1
    <3>2. Around(U[i], b[i].first) \subseteq U[i]
      BY DEF Around
    <3>3. Cardinality(Around(U[i], b[i].first)) \in Nat /\ b[i].n \in Nat
      BY <1>1, <3>2, FS_Subset, FS_CardinalityType DEF Bad
    <3>4. Cardinality(Around(U[i], b[i].first)) >= Threshold
      BY <1>4, <1>7, <2>1, <3>3
    <3> QED BY <1>7, <3>1, <3>4
  <2>2. CASE ~(b[i].n >= Threshold)
    BY <1>3, <1>5, <2>2 DEF Guards
  <2> QED BY <2>1, <2>2
<1>9. Rows(c, b, l).bad = b /\ Rows(c, b, l).lock = l
  BY DEF Rows
<1>10. ASSUME NEW j \in Ips
       PROVE  /\ b[j].n > 0 =>
                   /\ b[j].first \in Instants /\ b[j].first <= t
                   /\ b[j].n <= Cardinality(Around(U[j], b[j].first))
              /\ l[j].until > 0 =>
                   /\ l[j].until = l[j].last + Lockout
                   /\ \E v \in Instants : Cardinality(Around(U[j], v)) >= Threshold
  <2>1. CASE j = i
    BY <1>7, <1>8, <2>1
  <2>2. CASE j # i
    BY <1>3, <1>5, <2>2 DEF Guards
  <2> QED BY <2>1, <2>2
<1> QED BY <1>5, <1>9, <1>10 DEF Guards

(* What is about a login has its address and its time.                      *)
LEMMA LoginIs ==
  ASSUME NEW u \in Kinds, u[1] \in {"prune", "failed", "passed"}
  PROVE  /\ u[2] \in Ips /\ u[3] \in Instants
         /\ u \notin Plain /\ u # Asking(TRUE) /\ u # Asking(FALSE)
         /\ \A o : u # Outcome(o)
<1>1. u \notin Plain /\ u # Asking(TRUE) /\ u # Asking(FALSE)
  <2>1. /\ Note[1] = "note" /\ Count[1] = "count" /\ Transition[1] = "transition"
        /\ <<"applied">>[1] = "applied" /\ <<"fallback">>[1] = "fallback"
        /\ <<"success">>[1] = "success"
    BY DEF Note, Count, Transition
  <2>2. Asking(TRUE)[1] = "asking" /\ Asking(FALSE)[1] = "asking"
    BY DEF Asking
  <2>3. u # Asking(TRUE) /\ u # Asking(FALSE)
    BY <2>2
  <2>4. u # Note /\ u # Count /\ u # Transition
    BY <2>1
  <2>5. u # <<"applied">> /\ u # <<"fallback">> /\ u # <<"success">>
    BY <2>1
  <2> QED BY <2>3, <2>4, <2>5 DEF Plain
<1>2. \A o : u # Outcome(o)
  BY DEF Outcome
<1>3. ~\E op \in {"reset", "zero"}, v \in Ranges : u = <<op, v>>
  OBVIOUS
<1>4. \/ \E op \in {"prune", "passed"}, i \in Ips, v \in Instants : u = <<op, i, v>>
      \/ \E i \in Ips, v \in Instants, w \in {"none", "wrong"} : u = <<"failed", i, v, w>>
  BY <1>1, <1>2, <1>3, KindsAre
<1>5. u[2] \in Ips /\ u[3] \in Instants
  BY <1>4
<1> QED BY <1>1, <1>2, <1>5

(* What is about logins leaves the rest alone, and does no row an injustice.*)
LEMMA LoginApplied ==
  ASSUME NEW c \in Contents, NEW u \in Kinds, u[1] \in {"prune", "failed", "passed"},
         NEW t \in Instants, u[3] <= t, NEW T, Tallied(T), Guards(c, T, t), NEW U,
         U = Telling(T, u, t)
  PROVE  /\ Apply(u, c) \in Contents /\ Guards(Apply(u, c), U, t)
         /\ Degrades(c) => Degrades(Apply(u, c))
         /\ Apply(u, c).count = c.count /\ Apply(u, c).out = c.out
<1>1. u[2] \in Ips /\ u[3] \in Instants
  BY LoginIs
<1> PICK i \in Ips, s \in Instants : i = u[2] /\ s = u[3]
  BY <1>1
<1>0. s \in Nat
  BY DEF Instants
<1> PICK p : p = Prune(c, s)
  OBVIOUS
<1>2. PICK b \in Bad, l \in Locks : PrunedTo(c, s, b, l)
  BY PruneIs
<1>3. /\ p \in Contents /\ Guards(p, T, t) /\ (Degrades(c) => Degrades(p))
      /\ p.count = c.count /\ p.out = c.out
  BY <1>2, RowsAre, GuardsDrop DEF PrunedTo
<1>4. CASE u[1] = "prune"
  BY <1>3, <1>4 DEF Apply, Telling
<1>5. CASE u[1] = "failed"
  <2>1. Apply(u, c) = Failed(p, i, s)
    BY <1>5 DEF Apply
  <2>2. PICK bb \in Bad, ll \in Locks : FailedTo(p, i, s, bb, ll)
    BY <1>3, FailedIs
  <2>3. U = Adding(T, i, s, t)
    BY <1>5 DEF Telling
  <2>4. Guards(Failed(p, i, s), U, t)
    BY <1>3, <2>3, GuardsFailed
  <2> QED BY <1>3, <2>1, <2>2, <2>4, RowsAre DEF FailedTo
<1>6. CASE u[1] = "passed"
  <2>1. Apply(u, c) = Passed(p, i, s)
    BY <1>6 DEF Apply
  <2>2. PICK bb \in Bad, ll \in Locks : PassedTo(p, i, s, bb, ll)
    BY <1>3, PassedIs
  <2>3. U = T
    BY <1>6 DEF Telling
  <2>4. Guards(Passed(p, i, s), T, t)
    BY <1>3, <2>2, GuardsDrop DEF PassedTo
  <2> QED BY <1>3, <2>1, <2>2, <2>3, <2>4, RowsAre DEF PassedTo
<1> QED BY <1>4, <1>5, <1>6

-----------------------------------------------------------------------------
(* What is still to be written *)

(* What is left of what fits fits.                                          *)
LEMMA HeadFits ==
  ASSUME NEW p, NEW s \in Seq(Kinds), s # <<>>, NEW l, NEW q, NEW t, Fitting(p, s, l, q, t)
  PROVE  /\ Head(s) \in Kinds /\ Fits(p, Head(s), l, q, t)
         /\ Tail(s) \in Seq(Kinds) /\ Fitting(p, Tail(s), l, q, t)
         /\ Followed(s) => Followed(Tail(s)) /\ (Head(s) = Transition => Tail(s) # <<>>)
<1>1. /\ Len(s) \in Nat /\ Len(s) > 0 /\ Head(s) = s[1] /\ Head(s) \in Kinds
      /\ Tail(s) \in Seq(Kinds) /\ Len(Tail(s)) = Len(s) - 1
      /\ \A k \in 1 .. Len(Tail(s)) : Tail(s)[k] = s[k + 1]
  OBVIOUS
<1>2. Fits(p, Head(s), l, q, t)
  BY <1>1 DEF Fitting
<1>3. Fitting(p, Tail(s), l, q, t)
  <2>1. ASSUME NEW k \in 1 .. Len(Tail(s)) PROVE Fits(p, Tail(s)[k], l, q, t)
    <3>1. k + 1 \in 1 .. Len(s) /\ Tail(s)[k] = s[k + 1]
      BY <1>1
    <3> QED BY <3>1 DEF Fitting
  <2> QED BY <2>1 DEF Fitting
<1>4. \A r \in Seq(Kinds) : r = <<>> <=> Len(r) = 0
  BY EmptySeq
<1>5. ASSUME Followed(s) PROVE Followed(Tail(s)) /\ (Head(s) = Transition => Tail(s) # <<>>)
  <2>1. s[Len(s)] # Transition
    BY <1>5 DEF Followed
  <2>2. CASE Len(s) = 1
    <3>1. Head(s) # Transition
      BY <1>1, <2>1, <2>2
    <3>2. Len(Tail(s)) = 0
      BY <1>1, <2>2
    <3>3. Tail(s) = <<>>
      BY <1>1, <1>4, <3>2
    <3> QED BY <3>1, <3>3 DEF Followed
  <2>3. CASE Len(s) # 1
    <3>1. Len(Tail(s)) \in 1 .. Len(Tail(s)) /\ Len(Tail(s)) + 1 = Len(s)
      BY <1>1, <2>3
    <3>2. PICK k \in 1 .. Len(Tail(s)) : k = Len(Tail(s)) /\ k + 1 = Len(s)
      BY <3>1
    <3>3. Tail(s)[k] = s[k + 1]
      BY <1>1
    <3>4. Len(Tail(s)) # 0
      BY <1>1, <3>1
    <3>5. Tail(s) # <<>>
      BY <1>1, <1>4, <3>4, Zenon
    <3>6. s[k + 1] # Transition
      BY <2>1, <3>2
    <3>7. Tail(s)[k] # Transition
      BY <3>3, <3>6, Zenon
    <3>8. Followed(Tail(s))
      BY <3>2, <3>7, Zenon DEF Followed
    <3> QED BY <3>5, <3>8
  <2> QED BY <2>2, <2>3
<1> QED BY <1>1, <1>2, <1>3, <1>5

(* Nothing to write fits every process.                                     *)
LEMMA NoneFit == \A p, l, q, t : <<>> \in Seq(Kinds) /\ Fitting(p, <<>>, l, q, t) /\ Followed(<<>>)
BY DEF Fitting, Followed

(* One update that fits is all a process may have to write.                 *)
LEMMA OneFits ==
  ASSUME NEW p, NEW u \in Kinds, NEW l, NEW q, NEW t, Fits(p, u, l, q, t)
  PROVE  /\ <<u>> \in Seq(Kinds) /\ Fitting(p, <<u>>, l, q, t)
         /\ u # Transition => Followed(<<u>>)
<1>1. <<u>> \in Seq(Kinds) /\ Len(<<u>>) = 1 /\ <<u>>[1] = u
  OBVIOUS
<1> QED BY <1>1 DEF Fitting, Followed

(* What fits goes on fitting while its own process's life or request is the *)
(* same.                                                                    *)
LEMMA FitsMove ==
  ASSUME NEW p \in Procs, NEW s, NEW l, NEW q, NEW t \in Instants, Fitting(p, s, l, q, t),
         NEW m, NEW r, NEW v \in Instants, t <= v,
         p = Daemon => m = l, p \in Workers => r[p] = q[p]
  PROVE  Fitting(p, s, m, r, v)
<1>1. ASSUME NEW u, Fits(p, u, l, q, t) PROVE Fits(p, u, m, r, v)
  <2>1. CASE p \in Workers
    <3>1. r[p] = q[p] /\ p # Daemon /\ p # Handler /\ p # Command
      BY <2>1, HealthAssumption DEF Daemon, Handler, Command
    <3>2. q[p] \in Request /\ q[p].t <= t => q[p].t <= v
      BY DEF Request, Instants
    <3> QED BY <1>1, <2>1, <3>1, <3>2 DEF Fits
  <2>2. CASE p \notin Workers
    BY <1>1, <2>2 DEF Fits
  <2> QED BY <2>1, <2>2
<1> QED BY <1>1 DEF Fitting

-----------------------------------------------------------------------------
(* Steps that leave the files alone *)

Counting ==
    /\ requests \in Nat /\ starts \in Nat /\ jobs \in Nat /\ faults \in Nat
    /\ requests + starts + jobs + faults <= MaxEvents

(* The processes of R begin or give up what they do; the others go on.      *)
Aside(R) ==
    /\ at' \in [Procs -> Places] /\ fd' \in [Procs -> {"none", "tmp", "live", "gone"}]
    /\ got' \in [Procs -> Contents] /\ todo' \in [Procs -> Seq(Kinds)]
    /\ \A p \in Procs \ R : /\ at'[p] = at[p] /\ fd'[p] = fd[p]
                            /\ got'[p] = got[p] /\ todo'[p] = todo[p]
    /\ \A p \in R : /\ at'[p] = "rest" /\ fd'[p] = "none" /\ got'[p] \in {got[p], Fresh}
                    /\ Fitting(p, todo'[p], life', req', now')
    /\ Followed(todo'[Daemon])
    /\ UNCHANGED <<live, tmp, tries, tally, races>>
    /\ now' \in Instants /\ now <= now'
    /\ life' \in Lives /\ asked' \in BOOLEAN /\ req' \in [Workers -> Request \cup {Missing}]
    /\ life' = life \/ Daemon \in R
    /\ \A w \in Workers \ R : req'[w] = req[w]
    /\ Counting'
    /\ (races = 0 /\ life' = "closing" /\ todo'[Daemon] # <<>>)
       => Readable(live).out # "failed_shutdown"

(* Beginning and giving up keep the invariant.                              *)
LEMMA AsideKeeps ==
  ASSUME HInv, NEW R \in SUBSET Procs, Aside(R)
  PROVE  HInv'
<1>1. Typed'
  <2>1. ASSUME NEW p \in Procs
        PROVE  /\ at'[p] # "rest" => todo'[p] # <<>>
               /\ fd'[p] # "none" <=> at'[p] = "fill"
    BY DEF HInv, Typed, TypeOK, Aside
  <2> QED BY <2>1 DEF HInv, Typed, TypeOK, Aside, Counting
<1>2. Work'
  <2>1. ASSUME NEW p \in Procs \ R PROVE Fitting(p, todo'[p], life', req', now')
    <3>1. Fitting(p, todo[p], life, req, now) /\ todo'[p] = todo[p] /\ now \in Instants
      BY DEF HInv, Typed, TypeOK, Work, Aside
    <3>2. p = Daemon => life' = life
      BY DEF Aside
    <3>3. p \in Workers => req'[p] = req[p]
      BY DEF Aside
    <3>4. now' \in Instants /\ now <= now'
      BY DEF Aside
    <3>5. PICK s, m, r, v : s = todo[p] /\ m = life' /\ r = req' /\ v = now'
      OBVIOUS
    <3>6. PICK l, q, t : l = life /\ q = req /\ t = now
      OBVIOUS
    <3>7. Fitting(p, s, m, r, v)
      BY <3>1, <3>2, <3>3, <3>4, <3>5, <3>6, FitsMove
    <3> QED BY <3>1, <3>5, <3>7
  <2>2. \A p \in Procs : Fitting(p, todo'[p], life', req', now')
    BY <2>1 DEF Aside
  <2> QED BY <2>2 DEF Work, Aside
<1>3. Sound'
  <2>1. /\ now \in Instants /\ now' \in Instants /\ now <= now' /\ tries' = tries
        /\ live' = live /\ tmp' = tmp /\ \A i \in Ips : IsFiniteSet(tries[i])
    BY DEF HInv, Typed, TypeOK, Aside, Numbered
  <2>2. ASSUME NEW c \in Contents, True(c, tries, now) PROVE True(c, tries, now')
    <3>1. Guards(c, tries, now) /\ Degrades(c) /\ \A i \in Ips : tries[i] \subseteq tries[i]
      BY <2>2 DEF True
    <3>2. PICK t \in Instants, v \in Instants : t = now /\ v = now'
      BY <2>1
    <3>5. PICK T : T = tries
      OBVIOUS
    <3>3. Guards(c, T, t) /\ t <= v /\ \A i \in Ips : T[i] \subseteq T[i] /\ IsFiniteSet(T[i])
      BY <2>1, <3>1, <3>2, <3>5
    <3>4. Guards(c, T, v)
      BY <3>3, GuardsGrow
    <3> QED BY <3>1, <3>2, <3>4, <3>5 DEF True
  <2>3. /\ Readable(live) \in Contents /\ Readable(tmp) \in Contents
        /\ \A p \in Procs : got[p] \in Contents
    BY FreshIs DEF HInv, Typed, TypeOK, Readable
  <2>4. /\ True(Readable(live), tries, now') /\ True(Readable(tmp), tries, now')
        /\ \A p \in Procs : True(got[p], tries, now')
    BY <2>2, <2>3 DEF HInv, Sound
  <2>5. \A p \in Procs : got'[p] \in {got[p], Fresh}
    BY DEF Aside
  <2>6. True(Fresh, tries, now')
    BY FreshIs
  <2> QED BY <2>1, <2>4, <2>5, <2>6 DEF Sound, Readable
<1>4. Alone'
  <2>1. \A p \in Procs : at'[p] # "rest" =>
           /\ at'[p] = at[p] /\ fd'[p] = fd[p] /\ got'[p] = got[p] /\ todo'[p] = todo[p]
    BY DEF Aside
  <2>2. live' = live /\ tmp' = tmp /\ tally' = tally /\ races' = races
    BY DEF Aside
  <2>3. Readable(live)' = Readable(live)
    BY <2>2 DEF Readable
  <2>4. (races = 0 /\ life' = "closing" /\ todo'[Daemon] # <<>>)
        => Readable(live).out # "failed_shutdown"
    BY DEF Aside
  <2> QED BY <2>1, <2>2, <2>3, <2>4 DEF HInv, Alone
<1> QED BY <1>1, <1>2, <1>3, <1>4 DEF HInv

(* A process at rest begins something that fits it.                         *)
LEMMA BeginsKeeps ==
  ASSUME HInv, NEW p \in Procs, NEW u \in Seq(Kinds), Begins(p, u),
         Fitting(p, u, life', req', now'), p = Daemon => Followed(u),
         life' \in Lives, asked' \in BOOLEAN, req' \in [Workers -> Request \cup {Missing}],
         life' = life \/ p = Daemon, \A w \in Workers \ {p} : req'[w] = req[w], Counting',
         (p = Daemon /\ life' = "closing" /\ u # <<>>) => Readable(live).out # "failed_shutdown"
  PROVE  HInv'
<1>1. /\ todo' = [todo EXCEPT ![p] = u] /\ at[p] = "rest"
      /\ UNCHANGED <<live, tmp, fd, at, got, now, tries, tally, races>>
  BY DEF Begins, Free, files, ghosts
<1>2. /\ at \in [Procs -> Places] /\ fd \in [Procs -> {"none", "tmp", "live", "gone"}]
      /\ got \in [Procs -> Contents] /\ todo \in [Procs -> Seq(Kinds)]
      /\ now \in Instants /\ fd[p] = "none" /\ Daemon \in Procs
  BY <1>1 DEF HInv, Typed, TypeOK, Work, Procs
<1>3. /\ todo' \in [Procs -> Seq(Kinds)] /\ todo'[p] = u
      /\ \A q \in Procs \ {p} : todo'[q] = todo[q]
  BY <1>1, <1>2
<1>4. Followed(todo'[Daemon])
  BY <1>2, <1>3 DEF HInv, Work
<1>5. (races = 0 /\ life' = "closing" /\ todo'[Daemon] # <<>>)
      => Readable(live).out # "failed_shutdown"
  BY <1>2, <1>3 DEF HInv, Alone
<1>6. now <= now'
  BY <1>1, <1>2 DEF Instants
<1>7. Aside({p})
  BY <1>1, <1>2, <1>3, <1>4, <1>5, <1>6 DEF Aside
<1> QED BY <1>7, AsideKeeps

-----------------------------------------------------------------------------
(* The daemon's steps *)

Says == Plain \cup {Asking(TRUE), Asking(FALSE), Outcome("failed_shutdown")}
Recovers == Says \cup {Outcome("startup_recovered")}

(* What the daemon may say is an update, and seldom a transition.           *)
LEMMA WordsAre ==
  /\ Recovers \subseteq Kinds /\ Outcome("clean") \in Kinds
  /\ Note # Transition /\ Count # Transition /\ \A b : Asking(b) # Transition
  /\ \A o : Outcome(o) # Transition
  /\ <<"fallback">> # Transition /\ <<"success">> # Transition
<1>1. Asking(TRUE) \in Kinds /\ Asking(FALSE) \in Kinds
  BY DEF Kinds
<1>2. \A o \in Outcomes : Outcome(o) \in Kinds
  BY DEF Kinds
<1>3. Plain \subseteq Kinds
  BY DEF Kinds
<1>4. Recovers \subseteq Kinds /\ Outcome("clean") \in Kinds
  BY <1>1, <1>2, <1>3 DEF Recovers, Says, Outcomes
<1>5. /\ Note # Transition /\ Count # Transition
      /\ <<"fallback">> # Transition /\ <<"success">> # Transition
  BY DEF Note, Count, Transition
<1>6. (\A b : Asking(b) # Transition) /\ (\A o : Outcome(o) # Transition)
  BY DEF Asking, Outcome, Transition
<1> QED BY <1>4, <1>5, <1>6

(* What the daemon may say fits it.                                         *)
LEMMA SaysFit ==
  ASSUME NEW s, NEW l, NEW q, NEW t,
         (s \in Seq(Says) /\ l # "closing") \/ (s \in Seq(Recovers) /\ l = "starting")
  PROVE  s \in Seq(Kinds) /\ Fitting(Daemon, s, l, q, t)
<1>1. s \in Seq(Recovers)
  <2>1. Says \subseteq Recovers
    BY DEF Recovers
  <2> QED BY <2>1
<1>2. s \in Seq(Kinds)
  BY <1>1, WordsAre
<1>3. ASSUME NEW k \in 1 .. Len(s) PROVE Fits(Daemon, s[k], l, q, t)
  <2>1. CASE s \in Seq(Says) /\ l # "closing"
    <3>1. s[k] \in Says
      BY <2>1
    <3> QED BY <2>1, <3>1 DEF Fits, Says
  <2>2. CASE s \in Seq(Recovers) /\ l = "starting"
    <3>1. s[k] \in Recovers
      BY <2>2
    <3> QED BY <2>2, <3>1 DEF Fits, Recovers, Says
  <2> QED BY <2>1, <2>2
<1> QED BY <1>2, <1>3 DEF Fitting

(* What follows ends what it is added to.                                   *)
LEMMA CatFollowed ==
  ASSUME NEW a \in Seq(Kinds), NEW b \in Seq(Kinds), b # <<>>, Followed(b)
  PROVE  Followed(a \o b)
<1>1. /\ Len(a) \in Nat /\ Len(b) \in Nat /\ Len(b) > 0 /\ Len(a \o b) = Len(a) + Len(b)
      /\ \A k \in 1 .. (Len(a) + Len(b)) :
            (a \o b)[k] = IF k <= Len(a) THEN a[k] ELSE b[k - Len(a)]
  OBVIOUS
<1>2. (a \o b)[Len(a \o b)] = b[Len(b)]
  BY <1>1
<1> QED BY <1>2 DEF Followed

(* The attempts of a plan end with a fallback.                              *)
LEMMA AttemptsFit ==
  ASSUME NEW n \in Nat \ {0}
  PROVE  Attempts(n) \in Seq(Says) /\ Attempts(n) # <<>> /\ Followed(Attempts(n))
<1>1. Transition \in Says /\ <<"fallback">> \in Says
  BY DEF Says, Plain
<1>2. 2 * n \in Nat /\ 2 * n > 0
  OBVIOUS
<1>3. Attempts(n) \in [1 .. 2 * n -> Says]
  BY <1>1 DEF Attempts
<1>4. Attempts(n) \in Seq(Says) /\ Len(Attempts(n)) = 2 * n
  BY <1>2, <1>3
<1>5. Attempts(n) # <<>>
  BY <1>2, <1>4
<1>6. 2 * n \in 1 .. 2 * n /\ (2 * n) % 2 # 1
  BY <1>2
<1>7. Attempts(n)[2 * n] = <<"fallback">>
  BY <1>6 DEF Attempts
<1>8. Followed(Attempts(n))
  BY <1>4, <1>7, WordsAre DEF Followed
<1> QED BY <1>4, <1>5, <1>8

(* Short sequences.                                                         *)
LEMMA Literals ==
  ASSUME NEW S, NEW a \in S, NEW b \in S, NEW c \in S, NEW d \in S
  PROVE  /\ <<>> \in Seq(S) /\ <<a>> \in Seq(S) /\ <<a, b>> \in Seq(S)
         /\ <<a, b, c>> \in Seq(S) /\ <<a, b, c, d>> \in Seq(S)
         /\ b # Transition => Followed(<<a, b>>)
         /\ c # Transition => Followed(<<a, b, c>>)
         /\ d # Transition => Followed(<<a, b, c, d>>)
<1>1. /\ Len(<<a, b>>) = 2 /\ Len(<<a, b, c>>) = 3 /\ Len(<<a, b, c, d>>) = 4
      /\ <<a, b>>[2] = b /\ <<a, b, c>>[3] = c /\ <<a, b, c, d>>[4] = d
  OBVIOUS
<1>2. /\ <<>> \in Seq(S) /\ <<a>> \in Seq(S) /\ <<a, b>> \in Seq(S)
      /\ <<a, b, c>> \in Seq(S) /\ <<a, b, c, d>> \in Seq(S)
  OBVIOUS
<1> QED BY <1>1, <1>2 DEF Followed

(* The updates of a start end with a note or with the recovery.             *)
LEMMA StartFits ==
  ASSUME NEW x \in {<<Count>>, <<>>}, NEW s,
         NEW y \in {<<Count, Count, Note, Outcome("startup_recovered")>>, <<Count, Note>>},
         s = <<Asking(FALSE)>> \o x \o <<Note, Count, Note>> \o y
  PROVE  s \in Seq(Recovers) /\ Followed(s)
<1>1. PICK n \in Recovers, c \in Recovers, k \in Recovers, r \in Recovers :
         n = Note /\ c = Count /\ k = Asking(FALSE) /\ r = Outcome("startup_recovered")
  BY DEF Recovers, Says, Plain
<1>2. n # Transition /\ r # Transition
  BY <1>1, WordsAre
<1>3. x \in {<<c>>, <<>>} /\ y \in {<<c, c, n, r>>, <<c, n>>} /\ s = <<k>> \o x \o <<n, c, n>> \o y
  BY <1>1
<1>4. x \in Seq(Recovers) /\ <<k>> \in Seq(Recovers) /\ <<n, c, n>> \in Seq(Recovers)
  <2>1. <<>> \in Seq(Recovers) /\ <<c>> \in Seq(Recovers)
    BY Literals
  <2>2. <<k>> \in Seq(Recovers) /\ <<n, c, n>> \in Seq(Recovers)
    BY Literals
  <2> QED BY <1>3, <2>1, <2>2, Zenon
<1>5. PICK z \in Seq(Recovers) : z = <<n, c, n>>
  BY <1>4
<1>6. PICK a \in Seq(Recovers) : a = <<k>> \o x \o z
  <2>1. PICK w \in Seq(Recovers) : w = <<k>>
    BY <1>4
  <2>2. PICK v \in Seq(Recovers) : v = x
    BY <1>4
  <2>3. w \o v \o z \in Seq(Recovers)
    OBVIOUS
  <2> QED BY <2>1, <2>2, <2>3
<1>7. y \in Seq(Recovers) /\ Followed(y) /\ y # <<>>
  <2>1. <<c, c, n, r>> \in Seq(Recovers) /\ Followed(<<c, c, n, r>>)
    BY <1>2, Literals
  <2>2. <<c, n>> \in Seq(Recovers) /\ Followed(<<c, n>>)
    BY <1>2, Literals
  <2>3. <<c, c, n, r>> # <<>> /\ <<c, n>> # <<>>
    OBVIOUS
  <2> QED BY <1>3, <2>1, <2>2, <2>3, Zenon
<1>8. s = a \o y
  BY <1>3, <1>5, <1>6, Zenon
<1>9. a \in Seq(Kinds) /\ y \in Seq(Kinds)
  BY <1>6, <1>7, WordsAre
<1>10. Followed(s)
  BY <1>7, <1>8, <1>9, CatFollowed
<1>11. s \in Seq(Recovers)
  <2>1. PICK v \in Seq(Recovers) : v = y
    BY <1>7
  <2>2. a \o v \in Seq(Recovers)
    OBVIOUS
  <2> QED BY <1>8, <2>1, <2>2, Zenon
<1> QED BY <1>10, <1>11

(* The counts are in their bounds.                                          *)
LEMMA CountingHolds == HInv => Counting /\ races \in Nat /\ MaxEvents \in Nat
BY HealthAssumption DEF HInv, Typed, TypeOK, Counting

(* The daemon begins what it may say.                                       *)
LEMMA SaysKeeps ==
  ASSUME HInv, NEW u, Begins(Daemon, u), Followed(u),
         (u \in Seq(Says) /\ life' # "closing") \/ (u \in Seq(Recovers) /\ life' = "starting"),
         life' \in Lives, asked' \in BOOLEAN, req' = req, Counting'
  PROVE  HInv'
<1>1. PICK l, q, t : l = life' /\ q = req' /\ t = now'
  OBVIOUS
<1>2. u \in Seq(Kinds) /\ Fitting(Daemon, u, l, q, t)
  BY <1>1, SaysFit
<1>3. req' \in [Workers -> Request \cup {Missing}] /\ Daemon \in Procs /\ life' # "closing"
  BY DEF HInv, Typed, TypeOK, Procs
<1> QED BY <1>1, <1>2, <1>3, BeginsKeeps

(* A start keeps the invariant.                                             *)
LEMMA StartKeeps == HInv /\ Start => HInv'
<1> SUFFICES ASSUME HInv, Start PROVE HInv'
  OBVIOUS
<1>1. /\ life' = "starting" /\ asked' = FALSE /\ req' = req /\ starts' = starts + 1 /\ Room
      /\ UNCHANGED <<requests, jobs, faults>>
  BY DEF Start
<1>2. Counting'
  BY <1>1, CountingHolds DEF Counting, Room
<1>3. PICK recovered \in BOOLEAN :
          Begins(Daemon,
                 <<Asking(FALSE)>> \o (IF starts > 0 THEN <<Count>> ELSE <<>>)
                 \o <<Note, Count, Note>>
                 \o (IF recovered THEN <<Count, Count, Note, Outcome("startup_recovered")>>
                     ELSE <<Count, Note>>))
  BY DEF Start
<1>4. PICK x, y, s : /\ x = IF starts > 0 THEN <<Count>> ELSE <<>>
                     /\ y = IF recovered THEN <<Count, Count, Note, Outcome("startup_recovered")>>
                            ELSE <<Count, Note>>
                     /\ s = <<Asking(FALSE)>> \o x \o <<Note, Count, Note>> \o y
  OBVIOUS
<1>5. s \in Seq(Recovers) /\ Followed(s)
  BY <1>4, StartFits
<1>6. Begins(Daemon, s)
  BY <1>3, <1>4
<1> QED BY <1>1, <1>2, <1>5, <1>6, SaysKeeps DEF Lives

(* What the daemon says in its steps.                                       *)
LEMMA ShortSays ==
  /\ <<Note, Note>> \in Seq(Says) /\ Followed(<<Note, Note>>)
  /\ <<<<"success">>>> \in Seq(Says) /\ Followed(<<<<"success">>>>)
  /\ <<Asking(TRUE), Outcome("failed_shutdown")>> \in Seq(Says)
  /\ Followed(<<Asking(TRUE), Outcome("failed_shutdown")>>)
  /\ <<Outcome("failed_shutdown"), Note>> \in Seq(Says)
  /\ Followed(<<Outcome("failed_shutdown"), Note>>)
  /\ Release \in Seq(Says) /\ Followed(Release)
  /\ <<>> \in Seq(Says) /\ Followed(<<>>)
<1>1. /\ Note \in Says /\ Count \in Says /\ <<"success">> \in Says /\ Asking(TRUE) \in Says
      /\ Outcome("failed_shutdown") \in Says
  BY DEF Says, Plain
<1>2. <<<<"success">>>> \in Seq(Says) /\ Followed(<<<<"success">>>>)
  <2>1. PICK w \in Says : w = <<"success">>
    BY <1>1
  <2>2. Len(<<w>>) = 1 /\ <<w>>[1] = w /\ <<w>> \in Seq(Says)
    OBVIOUS
  <2> QED BY <2>1, <2>2, WordsAre DEF Followed
<1>3. <<Note, Note>> \in Seq(Says) /\ Followed(<<Note, Note>>)
  BY <1>1, WordsAre, Literals
<1>4. /\ <<Asking(TRUE), Outcome("failed_shutdown")>> \in Seq(Says)
      /\ Followed(<<Asking(TRUE), Outcome("failed_shutdown")>>)
  BY <1>1, WordsAre, Literals
<1>5. /\ <<Outcome("failed_shutdown"), Note>> \in Seq(Says)
      /\ Followed(<<Outcome("failed_shutdown"), Note>>)
  BY <1>1, WordsAre, Literals
<1>6. Release \in Seq(Says) /\ Followed(Release)
  BY <1>1, WordsAre, Literals DEF Release
<1>7. <<>> \in Seq(Says) /\ Followed(<<>>)
  BY DEF Followed
<1> QED BY <1>2, <1>3, <1>4, <1>5, <1>6, <1>7

(* What a running daemon begins.                                            *)
LEMMA RunningKeeps == HInv /\ (Tick \/ Plan \/ MissionDone \/ JobCutShort) => HInv'
<1> SUFFICES ASSUME HInv, Tick \/ Plan \/ MissionDone \/ JobCutShort PROVE HInv'
  OBVIOUS
<1>1. /\ life = "running" /\ life' = life /\ req' = req /\ asked' = asked /\ Room
      /\ jobs' = jobs + 1 /\ UNCHANGED <<requests, starts, faults>>
  BY DEF Tick, Plan, MissionDone, JobCutShort, Running
<1>2. Counting' /\ life' \in Lives /\ life' # "closing" /\ asked' \in BOOLEAN
  <2>1. Counting'
    BY <1>1, CountingHolds DEF Counting, Room
  <2> QED BY <1>1, <2>1 DEF HInv, Typed, TypeOK
<1>3. ASSUME NEW u \in Seq(Says), Followed(u), Begins(Daemon, u) PROVE HInv'
  BY <1>1, <1>2, <1>3, SaysKeeps
<1>4. CASE Tick
  BY <1>3, <1>4, ShortSays DEF Tick
<1>5. CASE MissionDone
  BY <1>3, <1>5, ShortSays DEF MissionDone
<1>6. CASE JobCutShort
  BY <1>3, <1>6, ShortSays DEF JobCutShort
<1>7. CASE Plan
  <2>1. PICK failing \in 1 .. Tiers :
            Begins(Daemon, Waits(Readable(live)) \o Attempts(failing))
    BY <1>7 DEF Plan
  <2>2. PICK a, b : a = Waits(Readable(live)) /\ b = Attempts(failing)
    OBVIOUS
  <2>3. a \in Seq(Says)
    <3>1. <<"applied">> \in Says
      BY DEF Says, Plain
    <3>2. <<>> \in Seq(Says) /\ <<<<"applied">>>> \in Seq(Says)
      BY <3>1, Literals
    <3> QED BY <2>2, <3>2 DEF Waits
  <2>4. b \in Seq(Says) /\ b # <<>> /\ Followed(b)
    <3>1. failing \in Nat \ {0}
      BY DEF Tiers
    <3> QED BY <2>2, <3>1, AttemptsFit
  <2>5. Seq(Says) \subseteq Seq(Kinds)
    BY WordsAre DEF Recovers
  <2>6. a \o b \in Seq(Says) /\ Followed(a \o b)
    <3>1. a \o b \in Seq(Says)
      BY <2>3, <2>4
    <3> QED BY <2>3, <2>4, <2>5, <3>1, CatFollowed
  <2>7. PICK u : u = a \o b
    OBVIOUS
  <2> QED BY <1>3, <2>1, <2>2, <2>6, <2>7
<1> QED BY <1>4, <1>5, <1>6, <1>7

(* So does the end of its loop,                                             *)
LEMMA LeaveLoopKeeps == HInv /\ LeaveLoop => HInv'
<1> SUFFICES ASSUME HInv, LeaveLoop PROVE HInv'
  OBVIOUS
<1>1. /\ life' = "stopping" /\ req' = req /\ asked' = asked /\ Begins(Daemon, Release)
      /\ UNCHANGED bounds
  BY DEF LeaveLoop
<1>2. Counting' /\ life' \in Lives /\ asked' \in BOOLEAN
  BY <1>1, CountingHolds DEF Counting, bounds, HInv, Typed, TypeOK, Lives
<1> QED BY <1>1, <1>2, ShortSays, SaysKeeps

(* The outcome is recorded where the record is of no failure.               *)
LEMMA CloseKeeps == HInv /\ Close => HInv'
<1> SUFFICES ASSUME HInv, Close PROVE HInv'
  OBVIOUS
<1>1. /\ life' = "closing" /\ req' = req /\ asked' = asked /\ Begins(Daemon, Recorded)
      /\ UNCHANGED bounds
  BY DEF Close
<1>2. Counting' /\ life' \in Lives /\ asked' \in BOOLEAN /\ Daemon \in Procs
      /\ req' \in [Workers -> Request \cup {Missing}]
  BY <1>1, CountingHolds DEF Counting, bounds, HInv, Typed, TypeOK, Lives, Procs
<1>3. PICK u, l, q, t : u = Recorded /\ l = life' /\ q = req' /\ t = now'
  OBVIOUS
<1>4. PICK c \in Kinds : c = Outcome("clean")
  BY WordsAre
<1>5. Fits(Daemon, c, l, q, t) /\ c # Transition
  BY <1>1, <1>3, <1>4, WordsAre DEF Fits
<1>6. /\ <<c>> \in Seq(Kinds) /\ Fitting(Daemon, <<c>>, l, q, t) /\ Followed(<<c>>)
      /\ <<>> \in Seq(Kinds) /\ Fitting(Daemon, <<>>, l, q, t) /\ Followed(<<>>)
  BY <1>5, OneFits, NoneFit
<1>7. /\ u \in {<<c>>, <<>>}
      /\ u # <<>> => Readable(live).out # "failed_shutdown"
  BY <1>3, <1>4 DEF Recorded
<1> HIDE DEF HInv
<1> QED BY <1>1, <1>2, <1>3, <1>6, <1>7, BeginsKeeps

(* The handler only asks,                                                   *)
LEMMA SignalKeeps == HInv /\ Signal => HInv'
<1> SUFFICES ASSUME HInv, Signal PROVE HInv'
  OBVIOUS
<1>1. /\ life' = life /\ req' = req /\ asked' = TRUE /\ Begins(Handler, <<Asking(TRUE)>>)
      /\ UNCHANGED bounds
  BY DEF Signal
<1>2. Counting' /\ life' \in Lives /\ asked' \in BOOLEAN /\ Handler \in Procs
      /\ req' \in [Workers -> Request \cup {Missing}] /\ Handler # Daemon
  BY <1>1, CountingHolds
  DEF Counting, bounds, HInv, Typed, TypeOK, Lives, Procs, Handler, Daemon
<1>3. PICK u, l, q, t : u = <<Asking(TRUE)>> /\ l = life' /\ q = req' /\ t = now'
  OBVIOUS
<1>4. PICK c \in Kinds : c = Asking(TRUE)
  BY WordsAre DEF Recovers, Says
<1>5. Fits(Handler, c, l, q, t)
  BY <1>4 DEF Fits
<1>6. u \in Seq(Kinds) /\ Fitting(Handler, u, l, q, t)
  BY <1>3, <1>4, <1>5, OneFits
<1> QED BY <1>1, <1>2, <1>3, <1>6, BeginsKeeps

(* a request begins with a look at the logins,                              *)
LEMMA AttemptKeeps ==
  ASSUME HInv, NEW w \in Workers, Attempt(w)
  PROVE  HInv'
<1>1. /\ requests' = requests + 1 /\ Room
      /\ UNCHANGED <<life, asked, starts, jobs, faults>>
  BY DEF Attempt, MoreRequests, daemon
<1>2. PICK r \in Request : /\ r.t = now /\ req' = [req EXCEPT ![w] = r]
                           /\ Begins(w, <<<<"prune", r.ip, r.t>>>>)
  BY DEF Attempt
<1>3. Counting' /\ life' \in Lives /\ asked' \in BOOLEAN /\ w \in Procs
  <2>1. Counting'
    BY <1>1, CountingHolds DEF Counting, Room
  <2> QED BY <1>1, <2>1 DEF HInv, Typed, TypeOK, Procs
<1>4. /\ req' \in [Workers -> Request \cup {Missing}] /\ req'[w] = r
      /\ \A v \in Workers \ {w} : req'[v] = req[v]
  BY <1>2 DEF HInv, Typed, TypeOK
<1>5. w # Daemon /\ w # Handler /\ w # Command
  BY HealthAssumption DEF Daemon, Handler, Command
<1>6. now' = now /\ now \in Nat /\ r.ip \in Ips /\ r.t \in Instants
  BY <1>2 DEF Begins, HInv, Typed, TypeOK, Request, Instants
<1>7. PICK c \in Kinds : c = <<"prune", r.ip, r.t>>
  BY <1>6 DEF Kinds
<1>8. PICK l, q, t : l = life' /\ q = req' /\ t = now'
  OBVIOUS
<1>9. Fits(w, c, l, q, t)
  <2>1. c[1] = "prune" /\ c[2] = r.ip /\ c[3] = r.t
    BY <1>7
  <2>2. q[w] = r /\ r.t <= t
    BY <1>2, <1>4, <1>6, <1>8
  <2> QED BY <2>1, <2>2 DEF Fits
<1>10. <<c>> \in Seq(Kinds) /\ Fitting(w, <<c>>, l, q, t)
  BY <1>9, OneFits
<1> QED BY <1>1, <1>2, <1>3, <1>4, <1>5, <1>7, <1>8, <1>10, BeginsKeeps

(* and a command resets.                                                    *)
LEMMA ResetKeeps == HInv /\ HealthReset => HInv'
<1> SUFFICES ASSUME HInv, HealthReset PROVE HInv'
  OBVIOUS
<1>1. /\ requests' = requests + 1 /\ Room
      /\ UNCHANGED <<life, asked, req, starts, jobs, faults>>
  BY DEF HealthReset, MoreRequests, daemon
<1>2. PICK scope \in Scopes, op \in {"reset", "zero"} : Begins(Command, <<<<op, scope>>>>)
  BY DEF HealthReset
<1>3. Counting' /\ life' \in Lives /\ asked' \in BOOLEAN /\ Command \in Procs
      /\ req' \in [Workers -> Request \cup {Missing}] /\ Command # Daemon
  <2>1. Counting'
    BY <1>1, CountingHolds DEF Counting, Room
  <2> QED BY <1>1, <2>1 DEF HInv, Typed, TypeOK, Procs, Command, Daemon
<1>7. PICK c \in Kinds : c = <<op, scope>>
  <2>1. scope \in Ranges
    BY HealthAssumption DEF Ranges
  <2>3. PICK c : c = <<op, scope>>
    OBVIOUS
  <2>4. c \in {"reset", "zero"} \X Ranges
    BY <2>1, <2>3
  <2> QED BY <2>3, <2>4, Zenon DEF Kinds
<1>8. PICK l, q, t : l = life' /\ q = req' /\ t = now'
  OBVIOUS
<1>9. Fits(Command, c, l, q, t)
  BY <1>7 DEF Fits
<1>10. <<c>> \in Seq(Kinds) /\ Fitting(Command, <<c>>, l, q, t)
  BY <1>9, OneFits
<1> QED BY <1>1, <1>2, <1>3, <1>7, <1>8, <1>10, BeginsKeeps

(* A daemon with nothing to do is started, or down.                         *)
LEMMA RestKeeps == HInv /\ (Started \/ Down \/ Clock) => HInv'
<1> SUFFICES ASSUME HInv, Started \/ Down \/ Clock PROVE HInv'
  OBVIOUS
<1>1. CASE Started \/ Down
  <2>1. /\ UNCHANGED <<live, tmp, fd, at, got, todo, asked, req, now, tries, tally, races>>
        /\ UNCHANGED <<requests, starts, jobs, faults>>
        /\ life' \in {"running", "down"} /\ at[Daemon] = "rest" /\ todo[Daemon] = <<>>
    BY <1>1 DEF Started, Down, Free, files, procs, ghosts, bounds
  <2>2. Counting' /\ Daemon \in Procs
    BY <2>1, CountingHolds DEF Counting, Procs
  <2>3. fd[Daemon] = "none" /\ now <= now'
    BY <2>1, <2>2 DEF HInv, Typed, TypeOK, Instants
  <2>4. Fitting(Daemon, todo'[Daemon], life', req', now') /\ Followed(todo'[Daemon])
    BY <2>1, NoneFit
  <2>5. Aside({Daemon})
    BY <2>1, <2>2, <2>3, <2>4 DEF Aside, HInv, Typed, TypeOK, Work, Lives
  <2>6. {Daemon} \in SUBSET Procs
    BY <2>2
  <2> QED BY <2>5, <2>6, AsideKeeps
<1>2. CASE Clock
  <2>1. /\ UNCHANGED <<live, tmp, fd, at, got, todo, life, asked, req, tries, tally, races>>
        /\ UNCHANGED <<requests, starts, jobs, faults>>
        /\ now < MaxTime /\ now' = now + 1
    BY <1>2 DEF Clock, files, procs, daemon, ghosts, bounds
  <2>2. Counting' /\ Daemon \in Procs
    BY <2>1, CountingHolds DEF Counting, Procs
  <2>3. now <= now' /\ now' \in Instants
    BY <2>1, HealthAssumption DEF HInv, Typed, TypeOK, Instants
  <2>4. (races = 0 /\ life' = "closing" /\ todo'[Daemon] # <<>>)
        => Readable(live).out # "failed_shutdown"
    BY <2>1 DEF HInv, Alone
  <2>5. Aside({})
    BY <2>1, <2>2, <2>3, <2>4 DEF Aside, HInv, Typed, TypeOK, Work
  <2> QED BY <2>5, AsideKeeps
<1> QED BY <1>1, <1>2

(* A daemon killed leaves what it was at.                                   *)
LEMMA KillKeeps == HInv /\ Kill => HInv'
<1> SUFFICES ASSUME HInv, Kill PROVE HInv'
  OBVIOUS
<1>1. /\ UNCHANGED <<live, tmp, asked, req, now, tries, tally, races, requests, starts, jobs>>
      /\ life' = "down" /\ faults' = faults + 1 /\ Room
      /\ todo' = [todo EXCEPT ![Daemon] = <<>>, ![Handler] = <<>>]
      /\ at' = [at EXCEPT ![Daemon] = "rest", ![Handler] = "rest"]
      /\ fd' = [fd EXCEPT ![Daemon] = "none", ![Handler] = "none"]
      /\ got' = [got EXCEPT ![Daemon] = Fresh, ![Handler] = Fresh]
  BY DEF Kill, Fails, ghosts
<1>2. Counting'
  BY <1>1, CountingHolds DEF Counting, Room
<1>3. /\ at \in [Procs -> Places] /\ fd \in [Procs -> {"none", "tmp", "live", "gone"}]
      /\ got \in [Procs -> Contents] /\ todo \in [Procs -> Seq(Kinds)]
      /\ now \in Instants /\ Daemon \in Procs /\ Handler \in Procs /\ Daemon # Handler
  BY DEF HInv, Typed, TypeOK, Work, Procs, Daemon, Handler
<1>4. /\ at' \in [Procs -> Places] /\ fd' \in [Procs -> {"none", "tmp", "live", "gone"}]
      /\ got' \in [Procs -> Contents] /\ todo' \in [Procs -> Seq(Kinds)]
  <2>1. at' \in [Procs -> Places] /\ fd' \in [Procs -> {"none", "tmp", "live", "gone"}]
    BY <1>1, <1>3 DEF Places
  <2>2. got' \in [Procs -> Contents]
    BY <1>1, <1>3, FreshIs
  <2>3. <<>> \in Seq(Kinds)
    OBVIOUS
  <2>4. todo' \in [Procs -> Seq(Kinds)]
    BY <1>1, <1>3, <2>3
  <2> QED BY <2>1, <2>2, <2>4
<1>5. ASSUME NEW p \in {Daemon, Handler}
      PROVE  at'[p] = "rest" /\ fd'[p] = "none" /\ got'[p] = Fresh /\ todo'[p] = <<>>
  BY <1>1, <1>3
<1>6. ASSUME NEW p \in Procs \ {Daemon, Handler}
      PROVE  at'[p] = at[p] /\ fd'[p] = fd[p] /\ got'[p] = got[p] /\ todo'[p] = todo[p]
  BY <1>1, <1>3
<1>7. now <= now'
  BY <1>1, <1>3 DEF Instants
<1>10. /\ life' \in Lives /\ asked' \in BOOLEAN /\ req' \in [Workers -> Request \cup {Missing}]
       /\ \A p \in {Daemon, Handler} : Fitting(p, todo'[p], life', req', now')
       /\ Followed(todo'[Daemon]) /\ todo'[Daemon] = <<>> /\ now' \in Instants
  <2>1. life' \in Lives /\ asked' \in BOOLEAN /\ req' \in [Workers -> Request \cup {Missing}]
    BY <1>1 DEF HInv, Typed, TypeOK, Lives
  <2> QED BY <1>1, <1>3, <1>5, <2>1, NoneFit
<1>8. Aside({Daemon, Handler})
  BY <1>1, <1>2, <1>4, <1>5, <1>6, <1>7, <1>10 DEF Aside
<1>9. {Daemon, Handler} \in SUBSET Procs
  BY <1>3
<1> QED BY <1>8, <1>9, AsideKeeps

(* Only a transition is called one.                                         *)
LEMMA TransitionIs == \A u \in Kinds : u[1] = "transition" => u = Transition
<1> TAKE u \in Kinds
<1> HAVE u[1] = "transition"
<1>1. /\ Note[1] = "note" /\ Count[1] = "count" /\ <<"applied">>[1] = "applied"
      /\ <<"fallback">>[1] = "fallback" /\ <<"success">>[1] = "success"
  BY DEF Note, Count
<1>2. u \in Plain => u = Transition
  BY <1>1 DEF Plain
<1>3. u # Asking(TRUE) /\ u # Asking(FALSE) /\ \A o \in Outcomes : u # Outcome(o)
  <2>1. \A b : Asking(b)[1] = "asking"
    BY DEF Asking
  <2>2. \A o : Outcome(o)[1] = "outcome"
    BY DEF Outcome
  <2> QED BY <2>1, <2>2
<1>4. ~\E op \in {"reset", "zero"}, s \in Ranges : u = <<op, s>>
  OBVIOUS
<1>5. ~\E op \in {"prune", "passed"}, i \in Ips, t \in Instants : u = <<op, i, t>>
  OBVIOUS
<1>6. ~\E i \in Ips, t \in Instants, w \in {"none", "wrong"} : u = <<"failed", i, t, w>>
  OBVIOUS
<1> QED BY <1>2, <1>3, <1>4, <1>5, <1>6, KindsAre

(* What an error leaves the daemon to do fits it.                           *)
LEMMA PlanErrorFits ==
  ASSUME HInv, Planning
  PROVE  /\ AfterPlanError \in Seq(Kinds) /\ Followed(AfterPlanError)
         /\ Fitting(Daemon, AfterPlanError, life, req, now)
<1>1. /\ todo[Daemon] \in Seq(Kinds) /\ todo[Daemon] # <<>> /\ Followed(todo[Daemon])
      /\ Fitting(Daemon, todo[Daemon], life, req, now)
      /\ Head(todo[Daemon])[1] \in {"applied", "transition", "fallback"}
  BY DEF HInv, Work, Planning, Procs
<1>2. PICK s, e : s = todo[Daemon] /\ e = AfterPlanError
  OBVIOUS
<1>3. PICK l, q, t : l = life /\ q = req /\ t = now
  OBVIOUS
<1>4. PICK h, r : h = Head(s) /\ r = Tail(s)
  OBVIOUS
<1>5. /\ Fitting(Daemon, s, l, q, t) /\ Fitting(Daemon, r, l, q, t)
      /\ Followed(s) /\ Followed(r) /\ (h = Transition => r # <<>>) /\ h \in Kinds
      /\ s \in Seq(Kinds) /\ r \in Seq(Kinds)
  <2>1. Fitting(Daemon, s, l, q, t) /\ Followed(s) /\ s # <<>> /\ s \in Seq(Kinds)
    BY <1>1, <1>2, <1>3
  <2> QED BY <1>4, <2>1, HeadFits
<1>6. CASE h[1] = "applied"
  <2>1. e = <<>>
    BY <1>2, <1>4, <1>6 DEF AfterPlanError
  <2> QED BY <1>2, <2>1, NoneFit
<1>7. CASE h[1] = "fallback"
  <2>1. e = r
    BY <1>2, <1>4, <1>7 DEF AfterPlanError
  <2> QED BY <1>2, <1>3, <1>5, <2>1
<1>8. CASE h[1] = "transition"
  <2>1. e \in {s, Tail(r)}
    BY <1>2, <1>4, <1>8 DEF AfterPlanError
  <2>2. r # <<>>
    BY <1>5, <1>8, TransitionIs
  <2>3. Tail(r) \in Seq(Kinds) /\ Fitting(Daemon, Tail(r), l, q, t) /\ Followed(Tail(r))
    BY <1>5, <2>2, HeadFits
  <2> QED BY <1>2, <1>3, <1>5, <2>1, <2>3
<1>9. h[1] \in {"applied", "transition", "fallback"}
  BY <1>1, <1>2, <1>4
<1> QED BY <1>6, <1>7, <1>8, <1>9, Zenon

(* So does what any error leaves it.                                        *)
LEMMA DaemonRaisesFit ==
  ASSUME HInv, DaemonRaises
  PROVE  /\ \E s \in Seq(Kinds) :
               /\ todo' = [todo EXCEPT ![Daemon] = s, ![Handler] = <<>>]
               /\ Fitting(Daemon, s, life', req, now) /\ Followed(s)
         /\ life' \in Lives /\ life' # "closing"
<1>1. CASE life = "running" /\ Planning
  <2>1. todo' = [todo EXCEPT ![Daemon] = AfterPlanError, ![Handler] = <<>>] /\ life' = life
    BY <1>1 DEF DaemonRaises
  <2>2. life' \in Lives /\ life' # "closing"
    BY <1>1, <2>1 DEF Lives
  <2> QED BY <1>1, <2>1, <2>2, PlanErrorFits
<1>2. CASE ~(life = "running" /\ Planning)
  <2> DEFINE s == CASE life = "running" -> <<Outcome("failed_shutdown"), Note>>
                    [] life = "failing" -> Release
                    [] OTHER -> <<>>
  <2>1. /\ life' = CASE life = "running" -> "failing"
                     [] life = "failing" -> "stopping"
                     [] OTHER -> "down"
        /\ todo' = [todo EXCEPT ![Handler] = <<>>, ![Daemon] = s]
    BY <1>2 DEF DaemonRaises
  <2>2. life' \in Lives /\ life' # "closing"
    BY <2>1 DEF Lives
  <2>3. s \in Seq(Says) /\ Followed(s)
    BY ShortSays
  <2> HIDE DEF s
  <2>4. PICK l, q, t : l = life' /\ q = req /\ t = now
    OBVIOUS
  <2>5. PICK v : v = s
    OBVIOUS
  <2>6. v \in Seq(Kinds) /\ Fitting(Daemon, v, l, q, t) /\ Followed(v)
    BY <2>2, <2>3, <2>4, <2>5, SaysFit
  <2>7. todo' = [todo EXCEPT ![Daemon] = v, ![Handler] = <<>>]
    <3>1. Daemon # Handler /\ todo \in [Procs -> Seq(Kinds)]
      BY DEF Daemon, Handler, HInv, Work
    <3> QED BY <2>1, <2>5, <3>1
  <2> QED BY <2>2, <2>4, <2>6, <2>7
<1> QED BY <1>1, <1>2

(* An error takes the update under way and what was to follow it.           *)
LEMMA RaiseKeeps ==
  ASSUME HInv, NEW p \in Procs, Raise(p), Counting', UNCHANGED <<live, tmp, now, ghosts>>
  PROVE  HInv'
<1>1. /\ at \in [Procs -> Places] /\ fd \in [Procs -> {"none", "tmp", "live", "gone"}]
      /\ got \in [Procs -> Contents] /\ todo \in [Procs -> Seq(Kinds)]
      /\ now \in Instants /\ Daemon \in Procs /\ Handler \in Procs /\ Daemon # Handler
      /\ life \in Lives /\ asked \in BOOLEAN /\ req \in [Workers -> Request \cup {Missing}]
  BY DEF HInv, Typed, TypeOK, Work, Procs, Daemon, Handler
<1>2. /\ UNCHANGED <<live, tmp, now, tries, tally, races>> /\ asked' = asked
      /\ now <= now'
  BY <1>1 DEF Raise, ghosts, Instants
<1>3. <<>> \in Seq(Kinds) /\ Fresh \in Contents /\ "rest" \in Places
  BY FreshIs DEF Places
<1>4. CASE p \in {Daemon, Handler}
  <2>1. /\ at' = [at EXCEPT ![Daemon] = "rest", ![Handler] = "rest"]
        /\ fd' = [fd EXCEPT ![Daemon] = "none", ![Handler] = "none"]
        /\ got' = [got EXCEPT ![Daemon] = Fresh, ![Handler] = Fresh]
        /\ DaemonRaises /\ req' = req
    BY <1>4 DEF Raise
  <2>2. PICK s \in Seq(Kinds) : /\ todo' = [todo EXCEPT ![Daemon] = s, ![Handler] = <<>>]
                                /\ Fitting(Daemon, s, life', req, now) /\ Followed(s)
    BY <2>1, DaemonRaisesFit
  <2>3. life' \in Lives /\ life' # "closing"
    BY <2>1, DaemonRaisesFit
  <2>4. todo' \in [Procs -> Seq(Kinds)] /\ todo'[Daemon] = s /\ todo'[Handler] = <<>>
    BY <1>1, <1>3, <2>2
  <2>5. at' \in [Procs -> Places] /\ fd' \in [Procs -> {"none", "tmp", "live", "gone"}]
    BY <1>1, <1>3, <2>1
  <2>6. got' \in [Procs -> Contents]
    BY <1>1, <1>3, <2>1
  <2>7. ASSUME NEW q \in {Daemon, Handler}
        PROVE  at'[q] = "rest" /\ fd'[q] = "none" /\ got'[q] = Fresh
    BY <1>1, <2>1
  <2>8. ASSUME NEW q \in Procs \ {Daemon, Handler}
        PROVE  at'[q] = at[q] /\ fd'[q] = fd[q] /\ got'[q] = got[q] /\ todo'[q] = todo[q]
    BY <1>1, <2>1, <2>2
  <2>9. \A q \in {Daemon, Handler} : Fitting(q, todo'[q], life', req', now')
    BY <1>2, <2>1, <2>2, <2>4, NoneFit
  <2>10. /\ asked' \in BOOLEAN /\ req' \in [Workers -> Request \cup {Missing}]
         /\ now' \in Instants /\ Followed(todo'[Daemon]) /\ {Daemon, Handler} \in SUBSET Procs
         /\ \A w \in Workers : req'[w] = req[w]
    BY <1>1, <1>2, <2>1, <2>2, <2>4
  <2>11. Aside({Daemon, Handler})
    BY <1>2, <2>3, <2>4, <2>5, <2>6, <2>7, <2>8, <2>9, <2>10 DEF Aside
  <2> QED BY <2>10, <2>11, AsideKeeps
<1>5. CASE p \notin {Daemon, Handler}
  <2>1. /\ todo' = [todo EXCEPT ![p] = <<>>] /\ at' = [at EXCEPT ![p] = "rest"]
        /\ fd' = [fd EXCEPT ![p] = "none"] /\ got' = [got EXCEPT ![p] = Fresh]
        /\ req' = (IF p \in Workers THEN [req EXCEPT ![p] = Missing] ELSE req)
        /\ life' = life
    BY <1>5 DEF Raise
  <2>2. todo' \in [Procs -> Seq(Kinds)] /\ todo'[p] = <<>>
    BY <1>1, <1>3, <2>1
  <2>3. /\ at' \in [Procs -> Places] /\ fd' \in [Procs -> {"none", "tmp", "live", "gone"}]
        /\ got' \in [Procs -> Contents]
        /\ at'[p] = "rest" /\ fd'[p] = "none" /\ got'[p] = Fresh
    BY <1>1, <1>3, <2>1
  <2>4. ASSUME NEW q \in Procs \ {p}
        PROVE  at'[q] = at[q] /\ fd'[q] = fd[q] /\ got'[q] = got[q] /\ todo'[q] = todo[q]
    BY <1>1, <2>1
  <2>5. /\ req' \in [Workers -> Request \cup {Missing}]
        /\ \A w \in Workers \ {p} : req'[w] = req[w]
    BY <1>1, <2>1
  <2>6. /\ Fitting(p, todo'[p], life', req', now') /\ todo'[Daemon] = todo[Daemon]
        /\ Followed(todo'[Daemon]) /\ asked' \in BOOLEAN /\ life' \in Lives /\ now' \in Instants
    BY <1>1, <1>2, <1>5, <2>1, <2>2, <2>4, NoneFit DEF HInv, Work
  <2>7. (races = 0 /\ life' = "closing" /\ todo'[Daemon] # <<>>)
        => Readable(live).out # "failed_shutdown"
    BY <2>1, <2>6 DEF HInv, Alone
  <2>8. Aside({p})
    BY <1>2, <2>1, <2>2, <2>3, <2>4, <2>5, <2>6, <2>7 DEF Aside
  <2> QED BY <2>8, AsideKeeps
<1> QED BY <1>4, <1>5

(* A write or a replacement that fails is an error.                         *)
LEMMA FailsKeep ==
  ASSUME HInv, NEW p \in Procs, FillFails(p) \/ SwapFails(p)
  PROVE  HInv'
<1>1. Raise(p) /\ UNCHANGED <<live, tmp, now, ghosts>>
  BY DEF FillFails, SwapFails
<1>2. Counting'
  <2>1. /\ UNCHANGED <<requests, starts, jobs>>
        /\ (faults' = faults + 1 /\ Room) \/ faults' = faults
    BY DEF FillFails, SwapFails, Fails, bounds
  <2> QED BY <2>1, CountingHolds DEF Counting, Room
<1> QED BY <1>1, <1>2, RaiseKeeps

-----------------------------------------------------------------------------
(* Updates *)

(* Only a worker has logins to record, and only those of its request.       *)
LEMMA LoginFits ==
  ASSUME NEW p \in Procs, NEW u \in Kinds, u[1] \in {"prune", "failed", "passed"},
         NEW l, NEW q, NEW t, Fits(p, u, l, q, t)
  PROVE  /\ p \in Workers /\ q[p] \in Request
         /\ u[2] = q[p].ip /\ u[3] = q[p].t /\ q[p].t <= t
         /\ p # Daemon /\ p # Handler /\ p # Command
<1>1. /\ u \notin Plain /\ u # Asking(TRUE) /\ u # Asking(FALSE)
      /\ \A o : u # Outcome(o)
  BY LoginIs
<1>2. p # Daemon /\ p # Handler /\ p # Command
  <2>1. Daemon \notin Workers /\ Handler \notin Workers /\ Command \notin Workers
    BY HealthAssumption DEF Daemon, Handler, Command
  <2>2. Daemon # Handler /\ Daemon # Command /\ Handler # Command
    BY DEF Daemon, Handler, Command
  <2>3. u[1] \notin {"reset", "zero"}
    OBVIOUS
  <2> QED BY <1>1, <2>1, <2>2, <2>3 DEF Fits
<1>3. u \notin {Note, Count, <<"reset", "current_and_recent">>}
  BY <1>1 DEF Plain
<1> QED BY <1>2, <1>3 DEF Fits

(* An update leaves a snapshot true, and what is true stays so.             *)
LEMMA Applied ==
  ASSUME NEW c \in Contents, NEW u \in Kinds, NEW t \in Instants, NEW T, Tallied(T),
         True(c, T, t), u[1] \in {"prune", "failed", "passed"} => u[3] <= t, NEW U,
         U = Telling(T, u, t)
  PROVE  /\ Apply(u, c) \in Contents
         /\ True(Apply(u, c), U, t)
         /\ Tallied(U) /\ \A i \in Ips : T[i] \subseteq U[i] /\ IsFiniteSet(U[i])
         /\ \A d \in Contents : True(d, T, t) => True(d, U, t)
<1>1. Tallied(U) /\ \A i \in Ips : T[i] \subseteq U[i] /\ IsFiniteSet(U[i])
  <2>1. CASE u[1] = "failed"
    <3>1. u[2] \in Ips /\ u[3] \in Instants
      BY <2>1, LoginIs
    <3>2. PICK i \in Ips, s \in Instants : i = u[2] /\ s = u[3]
      BY <3>1
    <3>3. U = Adding(T, i, s, t)
      BY <2>1, <3>2 DEF Telling
    <3>4. Grows(T, U, i, s, t)
      BY <3>3, TriesGrow
    <3> QED BY <3>4 DEF Grows
  <2>2. CASE u[1] # "failed"
    BY <2>2 DEF Tallied, Numbered, Telling
  <2> QED BY <2>1, <2>2
<1>2. ASSUME NEW d \in Contents, True(d, T, t) PROVE True(d, U, t)
  <2>1. t <= t
    BY DEF Instants
  <2>2. Guards(d, U, t)
    BY <1>1, <1>2, <2>1, GuardsGrow DEF True
  <2> QED BY <1>2, <2>2 DEF True
<1>3. CASE u[1] \in {"prune", "failed", "passed"}
  <2>1. u[3] <= t
    BY <1>3
  <2>2. /\ Apply(u, c) \in Contents /\ Guards(Apply(u, c), U, t)
        /\ Degrades(c) => Degrades(Apply(u, c))
    BY <1>3, <2>1, LoginApplied DEF True
  <2> QED BY <1>1, <1>2, <2>2 DEF True
<1>4. CASE u[1] \notin {"prune", "failed", "passed"}
  <2>1. /\ Apply(u, c) \in Contents
        /\ Apply(u, c).bad = c.bad /\ Apply(u, c).lock = c.lock
        /\ Degrades(c) => Degrades(Apply(u, c))
    BY <1>4, PlainApplied
  <2>2. Guards(c, T, t) => Guards(Apply(u, c), T, t)
    BY <2>1 DEF Guards
  <2>3. U = T
    BY <1>4 DEF Telling
  <2> QED BY <1>1, <1>2, <2>1, <2>2, <2>3 DEF True
<1> QED BY <1>3, <1>4

(* Reading changes what the process holds, and tells of a login that failed.*)
LEMMA ReadKeeps ==
  ASSUME HInv, NEW p \in Procs, Read(p)
  PROVE  HInv'
<1>1. /\ at[p] = "rest" /\ todo[p] # <<>> /\ at' = [at EXCEPT ![p] = "open"]
      /\ Busy = {} \/ races < MaxRaces
      /\ races' = IF Busy = {} THEN races ELSE races + 1
      /\ UNCHANGED <<live, tmp, fd, todo, life, asked, req, now, tally>>
      /\ UNCHANGED <<requests, starts, jobs, faults>>
  BY DEF Read, files, daemon, bounds
<1>2. /\ at \in [Procs -> Places] /\ fd \in [Procs -> {"none", "tmp", "live", "gone"}]
      /\ got \in [Procs -> Contents] /\ todo \in [Procs -> Seq(Kinds)]
      /\ now \in Instants /\ races \in Nat /\ Tallied(tries)
  BY DEF HInv, Typed, TypeOK, Work, Tallied, Tries
<1>3. PICK u, c, a, U : /\ u = Head(todo[p]) /\ c = Readable(live) /\ a = Apply(u, c)
                        /\ U = Telling(tries, u, now)
  OBVIOUS
<1>4. got' = [got EXCEPT ![p] = a] /\ tries' = U
  BY <1>3 DEF Read, Telling, Adding
<1>5. u \in Kinds /\ Fits(p, u, life, req, now)
  <2>1. PICK s, l, q, t : s = todo[p] /\ l = life /\ q = req /\ t = now
    OBVIOUS
  <2>2. s \in Seq(Kinds) /\ s # <<>> /\ Fitting(p, s, l, q, t)
    BY <1>1, <1>2, <2>1 DEF HInv, Work
  <2>3. Head(s) \in Kinds /\ Fits(p, Head(s), l, q, t)
    BY <2>2, HeadFits
  <2> QED BY <1>3, <2>1, <2>3
<1>6. u[1] \in {"prune", "failed", "passed"} => u[3] <= now
  <2>1. PICK l, q, t : l = life /\ q = req /\ t = now
    OBVIOUS
  <2> QED BY <1>5, <2>1, LoginFits
<1>7. c \in Contents /\ True(c, tries, now)
  BY <1>3, FreshIs DEF HInv, Typed, TypeOK, Sound, Readable
<1>8. /\ a \in Contents /\ True(a, U, now) /\ Tallied(U)
      /\ \A d \in Contents : True(d, tries, now) => True(d, U, now)
  <2>1. PICK t \in Instants : t = now
    BY <1>2
  <2>2. PICK T : T = tries
    OBVIOUS
  <2>3. /\ Apply(u, c) \in Contents /\ True(Apply(u, c), U, t) /\ Tallied(U)
        /\ \A d \in Contents : True(d, T, t) => True(d, U, t)
    <3>1. c \in Contents /\ u \in Kinds /\ Tallied(T) /\ True(c, T, t)
      BY <1>2, <1>5, <1>7, <2>1, <2>2
    <3>2. u[1] \in {"prune", "failed", "passed"} => u[3] <= t
      BY <1>6, <2>1
    <3>3. U = Telling(T, u, t)
      BY <1>3, <2>1, <2>2
    <3> QED BY <3>1, <3>2, <3>3, Applied
  <2> QED BY <1>3, <2>1, <2>2, <2>3
<1>9. /\ at'[p] = "open" /\ got'[p] = a
      /\ \A q \in Procs \ {p} : at'[q] = at[q] /\ got'[q] = got[q]
  BY <1>1, <1>2, <1>4
<1>10. Typed'
  <2>1. at' \in [Procs -> Places] /\ got' \in [Procs -> Contents] /\ races' \in Nat
    BY <1>1, <1>2, <1>4, <1>8 DEF Places
  <2>2. tries' \in Tries /\ \A i \in Ips : Numbered(tries'[i])
    BY <1>4, <1>8 DEF Tallied
  <2>3. ASSUME NEW q \in Procs
        PROVE  /\ at'[q] # "rest" => todo'[q] # <<>>
               /\ fd'[q] # "none" <=> at'[q] = "fill"
    BY <1>1, <1>9 DEF HInv, Typed, TypeOK
  <2> QED BY <1>1, <2>1, <2>2, <2>3 DEF HInv, Typed, TypeOK, Tries
<1>11. Work'
  BY <1>1 DEF HInv, Work
<1>12. Sound'
  <2>1. Readable(live)' = Readable(live) /\ Readable(tmp)' = Readable(tmp)
    BY <1>1 DEF Readable
  <2>2. Readable(tmp) \in Contents
    BY FreshIs DEF HInv, Typed, TypeOK, Readable
  <2>3. True(Readable(live), U, now) /\ True(Readable(tmp), U, now)
    BY <1>3, <1>7, <1>8, <2>2 DEF HInv, Sound
  <2>4. \A q \in Procs : True(got'[q], U, now)
    <3> TAKE q \in Procs
    <3>1. CASE q = p
      BY <1>8, <1>9, <3>1
    <3>2. CASE q # p
      BY <1>2, <1>8, <1>9, <3>2 DEF HInv, Sound
    <3> QED BY <3>1, <3>2
  <2> QED BY <1>1, <1>4, <2>1, <2>3, <2>4 DEF Sound
<1>13. Alone'
  <2> SUFFICES ASSUME races' = 0 PROVE Alone'
    BY DEF Alone
  <2>1. Busy = {} /\ races = 0
    BY <1>1, <1>2
  <2>2. \A q \in Procs \ {p} : at'[q] = "rest"
    BY <1>9, <2>1 DEF Busy
  <2>3. Readable(live)' = Readable(live)
    BY <1>1 DEF Readable
  <2>4. got'[p] = Apply(Head(todo'[p]), Readable(live)) /\ at'[p] = "open"
    BY <1>1, <1>3, <1>9
  <2> QED BY <1>1, <2>1, <2>2, <2>3, <2>4 DEF HInv, Alone
<1> QED BY <1>10, <1>11, <1>12, <1>13 DEF HInv

(* Opening empties the temporary file, whoever has it.                      *)
LEMMA OpenKeeps ==
  ASSUME HInv, NEW p \in Procs, Open(p)
  PROVE  HInv'
<1>1. /\ at[p] = "open" /\ at' = [at EXCEPT ![p] = "fill"]
      /\ tmp' = Torn /\ fd' = [fd EXCEPT ![p] = "tmp"]
      /\ UNCHANGED <<live, got, todo, life, asked, req, now, tries, tally, races>>
      /\ UNCHANGED <<requests, starts, jobs, faults>>
  BY DEF Open, daemon, ghosts, bounds
<1>2. /\ at \in [Procs -> Places] /\ fd \in [Procs -> {"none", "tmp", "live", "gone"}]
  BY DEF HInv, Typed, TypeOK
<1>3. /\ at'[p] = "fill" /\ fd'[p] = "tmp"
      /\ \A q \in Procs \ {p} : at'[q] = at[q] /\ fd'[q] = fd[q]
  BY <1>1, <1>2
<1>4. Typed'
  <2>1. /\ at' \in [Procs -> Places] /\ fd' \in [Procs -> {"none", "tmp", "live", "gone"}]
    BY <1>1, <1>2 DEF Places
  <2>2. ASSUME NEW q \in Procs
        PROVE  /\ at'[q] # "rest" => todo'[q] # <<>>
               /\ fd'[q] # "none" <=> at'[q] = "fill"
    BY <1>1, <1>3 DEF HInv, Typed, TypeOK
  <2> QED BY <1>1, <2>1, <2>2 DEF HInv, Typed, TypeOK
<1>5. Work'
  BY <1>1 DEF HInv, Work
<1>6. Sound'
  <2>1. Readable(live)' = Readable(live) /\ Readable(tmp)' = Fresh
    BY <1>1 DEF Readable
  <2>2. True(Fresh, tries, now)
    BY FreshIs
  <2> QED BY <1>1, <2>1, <2>2 DEF HInv, Sound
<1>7. Alone'
  <2> SUFFICES ASSUME races' = 0 PROVE Alone'
    BY DEF Alone
  <2>1. Readable(live)' = Readable(live) /\ races = 0
    BY <1>1 DEF Readable
  <2>2. \A q \in Procs \ {p} : at'[q] = "rest"
    BY <1>1, <1>3, <2>1 DEF HInv, Alone
  <2> QED BY <1>1, <1>3, <2>1, <2>2 DEF HInv, Alone
<1> QED BY <1>4, <1>5, <1>6, <1>7 DEF HInv

(* Writing leaves a file whole or torn.                                     *)
LEMMA FillKeeps ==
  ASSUME HInv, NEW p \in Procs, Fill(p)
  PROVE  HInv'
<1>1. /\ at[p] = "fill" /\ at' = [at EXCEPT ![p] = "swap"]
      /\ fd' = [fd EXCEPT ![p] = "none"]
      /\ \/ fd[p] = "tmp" /\ tmp' \in Over(tmp, got[p]) /\ UNCHANGED live
         \/ fd[p] = "live" /\ live' \in Over(live, got[p]) /\ UNCHANGED tmp
         \/ fd[p] = "gone" /\ UNCHANGED <<live, tmp>>
      /\ UNCHANGED <<got, todo, life, asked, req, now, tries, tally, races>>
      /\ UNCHANGED <<requests, starts, jobs, faults>>
  BY DEF Fill, daemon, ghosts, bounds
<1>2. /\ at \in [Procs -> Places] /\ fd \in [Procs -> {"none", "tmp", "live", "gone"}]
      /\ got[p] \in Contents
  BY DEF HInv, Typed, TypeOK
<1>3. /\ at'[p] = "swap" /\ fd'[p] = "none"
      /\ \A q \in Procs \ {p} : at'[q] = at[q] /\ fd'[q] = fd[q]
  BY <1>1, <1>2
<1>8. live' \in {live, got[p], Torn} /\ tmp' \in {tmp, got[p], Torn}
  BY <1>1 DEF Over
<1>4. Typed'
  <2>1. /\ at' \in [Procs -> Places] /\ fd' \in [Procs -> {"none", "tmp", "live", "gone"}]
    BY <1>1, <1>2 DEF Places
  <2>2. ASSUME NEW q \in Procs
        PROVE  /\ at'[q] # "rest" => todo'[q] # <<>>
               /\ fd'[q] # "none" <=> at'[q] = "fill"
    BY <1>1, <1>3 DEF HInv, Typed, TypeOK
  <2>3. live' \in Contents \cup {Missing, Torn} /\ tmp' \in Contents \cup {Missing, Torn}
    BY <1>2, <1>8 DEF HInv, Typed, TypeOK
  <2> QED BY <1>1, <2>1, <2>2, <2>3 DEF HInv, Typed, TypeOK
<1>5. Work'
  BY <1>1 DEF HInv, Work
<1>6. Sound'
  <2>1. Readable(got[p]) = got[p] /\ Readable(Torn) = Fresh
    BY <1>2, MarksAssumption DEF Readable
  <2>2. True(Fresh, tries, now) /\ True(got[p], tries, now)
    BY FreshIs DEF HInv, Sound
  <2>3. True(Readable(live)', tries, now) /\ True(Readable(tmp)', tries, now)
    BY <1>8, <2>1, <2>2 DEF HInv, Sound, Readable
  <2> QED BY <1>1, <2>3 DEF HInv, Sound
<1>7. Alone'
  <2> SUFFICES ASSUME races' = 0 PROVE Alone'
    BY DEF Alone
  <2>1. races = 0 /\ fd[p] = "tmp" /\ tmp = Torn
    BY <1>1 DEF HInv, Alone
  <2>2. tmp' = got[p] /\ live' = live
    BY <1>1, <2>1 DEF Over
  <2>3. Readable(live)' = Readable(live)
    BY <2>2 DEF Readable
  <2>4. \A q \in Procs \ {p} : at'[q] = "rest"
    BY <1>1, <1>3, <2>1 DEF HInv, Alone
  <2> QED BY <1>1, <1>3, <2>1, <2>2, <2>3, <2>4 DEF HInv, Alone
<1> QED BY <1>4, <1>5, <1>6, <1>7 DEF HInv

(* Updates go by their first words.                                         *)
LEMMA HeadsAre ==
  /\ \A u \in Plain : u[1] \in {"note", "count", "transition", "applied", "fallback", "success"}
  /\ \A b : Asking(b)[1] = "asking"
  /\ \A o : Outcome(o)[1] = "outcome" /\ Outcome(o)[2] = o
<1>1. /\ Note[1] = "note" /\ Count[1] = "count" /\ Transition[1] = "transition"
      /\ <<"applied">>[1] = "applied" /\ <<"fallback">>[1] = "fallback"
      /\ <<"success">>[1] = "success"
  BY DEF Note, Count, Transition
<1>2. \A u \in Plain : u[1] \in {"note", "count", "transition", "applied", "fallback", "success"}
  BY <1>1 DEF Plain
<1>3. \A b : Asking(b)[1] = "asking"
  BY DEF Asking
<1>4. \A o : Outcome(o)[1] = "outcome" /\ Outcome(o)[2] = o
  BY DEF Outcome
<1> QED BY <1>2, <1>3, <1>4

(* Only the daemon records an outcome: a failure, a recovery while it       *)
(* starts, and a clean stop in the end.  Only the panel and the command     *)
(* reset.                                                                   *)
LEMMA OutcomeFits ==
  ASSUME NEW p \in Procs, NEW u, NEW l, NEW q, NEW t, Fits(p, u, l, q, t)
  PROVE  /\ u[1] = "outcome" =>
               /\ p = Daemon
               /\ l = "closing" => u[2] = "clean"
               /\ l \in {"closing", "starting"} \/ u[2] = "failed_shutdown"
         /\ u[1] \in {"reset", "zero"} => p \in Workers \cup {Command}
<1>1. CASE p = Daemon
  <2>1. p \notin Workers /\ p # Handler /\ p # Command
    BY <1>1, HealthAssumption DEF Daemon, Handler, Command
  <2>2. CASE l = "closing"
    BY <1>1, <2>1, <2>2, HeadsAre DEF Fits
  <2>3. CASE l # "closing"
    <3>1. \/ u \in Plain \/ u \in {Asking(TRUE), Asking(FALSE), Outcome("failed_shutdown")}
          \/ l = "starting" /\ u = Outcome("startup_recovered")
      BY <1>1, <2>1, <2>3 DEF Fits
    <3>2. CASE u \in Plain
      BY <3>2, HeadsAre
    <3>3. CASE u \in {Asking(TRUE), Asking(FALSE), Outcome("failed_shutdown")}
      BY <1>1, <2>3, <3>3, HeadsAre
    <3>4. CASE l = "starting" /\ u = Outcome("startup_recovered")
      BY <1>1, <3>4, HeadsAre
    <3> QED BY <3>1, <3>2, <3>3, <3>4
  <2> QED BY <2>2, <2>3
<1>2. CASE p = Handler
  <2>1. p \notin Workers /\ p # Daemon /\ p # Command
    BY <1>2, HealthAssumption DEF Daemon, Handler, Command
  <2> QED BY <1>2, <2>1, HeadsAre DEF Fits
<1>3. CASE p = Command
  <2>1. p \notin Workers /\ p # Daemon /\ p # Handler
    BY <1>3, HealthAssumption DEF Daemon, Handler, Command
  <2> QED BY <1>3, <2>1 DEF Fits
<1>4. CASE p \in Workers
  <2>1. p # Command /\ p # Daemon /\ p # Handler
    BY <1>4, HealthAssumption DEF Daemon, Handler, Command
  <2>2. /\ Note[1] # "outcome" /\ Count[1] # "outcome"
        /\ <<"reset", "current_and_recent">>[1] # "outcome"
    BY DEF Note, Count
  <2>4. \/ u = Note \/ u = Count \/ u = <<"reset", "current_and_recent">>
        \/ u[1] \in {"prune", "failed", "passed"}
    BY <1>4, <2>1 DEF Fits
  <2>3. u[1] # "outcome"
    BY <2>2, <2>4
  <2> QED BY <1>4, <2>3
<1> QED BY <1>1, <1>2, <1>3, <1>4 DEF Procs

(* What an update does to the count and to the outcome.                     *)
LEMMA CountApplied ==
  ASSUME NEW c \in Contents, NEW u \in Kinds, NEW t \in Instants, NEW T, Tallied(T),
         True(c, T, t), u[1] \in {"prune", "failed", "passed"} => u[3] <= t
  PROVE  /\ Apply(u, c).count = CASE u[1] \in {"count", "transition"} -> c.count + 1
                                  [] u[1] = "zero" -> 0
                                  [] OTHER -> c.count
         /\ \/ Apply(u, c).out = c.out
            \/ u[1] \in {"reset", "zero"} /\ Apply(u, c).out = "unset"
            \/ u[1] = "outcome" /\ Apply(u, c).out = u[2]
<1>1. CASE u[1] \in {"prune", "failed", "passed"}
  <2>1. PICK U : U = Telling(T, u, t)
    OBVIOUS
  <2>2. Guards(c, T, t) /\ u[3] <= t
    BY <1>1 DEF True
  <2>3. Apply(u, c).count = c.count /\ Apply(u, c).out = c.out
    BY <1>1, <2>1, <2>2, LoginApplied
  <2> QED BY <1>1, <2>3
<1>2. CASE u[1] \notin {"prune", "failed", "passed"}
  BY <1>2, PlainApplied
<1> QED BY <1>1, <1>2

(* Updates that fit, each, fit together.                                    *)
LEMMA AllFit ==
  ASSUME NEW p, NEW l, NEW q, NEW t, NEW s \in Seq({v \in Kinds : Fits(p, v, l, q, t)})
  PROVE  s \in Seq(Kinds) /\ Fitting(p, s, l, q, t)
<1> DEFINE W == {v \in Kinds : Fits(p, v, l, q, t)}
<1>1. W \subseteq Kinds /\ \A v \in W : Fits(p, v, l, q, t)
  OBVIOUS
<1> HIDE DEF W
<1>2. s \in Seq(W)
  BY DEF W
<1>3. s \in Seq(Kinds)
  BY <1>1, <1>2
<1>4. \A k \in 1 .. Len(s) : s[k] \in W
  BY <1>2
<1> QED BY <1>1, <1>3, <1>4 DEF Fitting

(* What follows an update fits the process that made it.                    *)
LEMMA GoesFits ==
  ASSUME HInv, NEW p \in Procs, at[p] # "rest", NEW u, u = Head(todo[p]), NEW c, NEW s,
         s = Goes(p, u, c)
  PROVE  s \in Seq(Kinds) /\ Fitting(p, s, life, req, now) /\ (p = Daemon => Followed(s))
<1>1. PICK w, l, q, t : w = todo[p] /\ l = life /\ q = req /\ t = now
  OBVIOUS
<1>2. w \in Seq(Kinds) /\ w # <<>> /\ Fitting(p, w, l, q, t) /\ (p = Daemon => Followed(w))
  BY <1>1 DEF HInv, Typed, TypeOK, Work
<1>3. /\ u \in Kinds /\ Fits(p, u, l, q, t)
      /\ Tail(w) \in Seq(Kinds) /\ Fitting(p, Tail(w), l, q, t)
      /\ p = Daemon => Followed(Tail(w))
  BY <1>1, <1>2, HeadFits
<1> DEFINE W == {v \in Kinds : Fits(p, v, l, q, t)}
           Goal == s \in Seq(Kinds) /\ Fitting(p, s, l, q, t) /\ (p = Daemon => Followed(s))
<1> SUFFICES Goal
  BY <1>1
<1>4. CASE s = Tail(w)
  BY <1>3, <1>4
<1>5. ASSUME p \in Workers, s \in Seq(W) PROVE Goal
  <2>1. p # Daemon
    BY <1>5, HealthAssumption DEF Daemon
  <2> QED BY <1>5, <2>1, AllFit
<1>6. ASSUME p \in Workers
      PROVE  Note \in W /\ Count \in W /\ <<"reset", "current_and_recent">> \in W
  <2>1. Note \in Kinds /\ Count \in Kinds
    BY DEF Kinds, Plain
  <2>2. PICK v : v = <<"reset", "current_and_recent">>
    OBVIOUS
  <2>3. v \in {"reset", "zero"} \X Ranges
    BY <2>2 DEF Ranges
  <2>4. v \in Kinds
    BY <2>3, Zenon DEF Kinds
  <2> QED BY <1>6, <2>1, <2>2, <2>4 DEF Fits
<1> HIDE DEF W, Goal
<1>7. CASE u[1] = "prune"
  <2>1. /\ p \in Workers /\ q[p] \in Request /\ q[p].t <= t /\ q[p].ip \in Ips
        /\ q[p].t \in Instants
    BY <1>3, <1>7, LoginFits DEF Request
  <2>2. PICK n, x, g : /\ n = <<"failed", q[p].ip, q[p].t, "none">>
                       /\ x = <<"failed", q[p].ip, q[p].t, "wrong">>
                       /\ g = <<"passed", q[p].ip, q[p].t>>
    OBVIOUS
  <2>3. n \in Kinds /\ x \in Kinds /\ g \in Kinds
    <3>1. n \in {"failed"} \X Ips \X Instants \X {"none", "wrong"}
      BY <2>1, <2>2
    <3>2. x \in {"failed"} \X Ips \X Instants \X {"none", "wrong"}
      BY <2>1, <2>2
    <3>3. g \in {"prune", "passed"} \X Ips \X Instants
      BY <2>1, <2>2
    <3> QED BY <3>1, <3>2, <3>3, Zenon DEF Kinds
  <2>4. n \in W /\ x \in W /\ g \in W
    <3>1. \A v \in {n, x, g} : v[1] \in {"failed", "passed"} /\ v[2] = q[p].ip /\ v[3] = q[p].t
      BY <2>2
    <3>2. \A v \in {n, x, g} : Fits(p, v, l, q, t)
      BY <2>1, <3>1 DEF Fits
    <3> QED BY <2>3, <3>2 DEF W
  <2>5. s \in {<<Count>>, <<n, Count>>, <<x>>, <<g>>}
    BY <1>1, <1>7, <2>2 DEF Goes
  <2>6. /\ <<Count>> \in Seq(W) /\ <<n, Count>> \in Seq(W) /\ <<x>> \in Seq(W) /\ <<g>> \in Seq(W)
    <3>1. Count \in W
      BY <1>6, <2>1
    <3>2. <<Count>> \in Seq(W) /\ <<n, Count>> \in Seq(W)
      BY <2>4, <3>1, Literals
    <3>3. <<x>> \in Seq(W)
      BY <2>4, Literals
    <3>4. <<g>> \in Seq(W)
      BY <2>4, Literals
    <3> QED BY <3>2, <3>3, <3>4
  <2>7. s \in Seq(W)
    BY <2>5, <2>6, Zenon
  <2> QED BY <1>5, <2>1, <2>7
<1>8. CASE u[1] = "failed" /\ u[4] = "wrong"
  <2>1. p \in Workers
    BY <1>3, <1>8, LoginFits
  <2>2. s \in {<<Count>>, <<Count, Count>>}
    BY <1>8 DEF Goes, Refused
  <2>3. <<Count>> \in Seq(W) /\ <<Count, Count>> \in Seq(W)
    BY <1>6, <2>1, Literals
  <2>4. s \in Seq(W)
    BY <2>2, <2>3, Zenon
  <2> QED BY <1>5, <2>1, <2>4
<1>9. CASE u[1] = "passed"
  <2>1. p \in Workers /\ q[p] \in Request
    BY <1>3, <1>9, LoginFits
  <2>2. q[p].wish \in {"view", "forged", "mutation", "reset"}
    <3>1. q[p].wish \in Wishes
      BY <2>1 DEF Request
    <3> QED BY <3>1, HealthAssumption
  <2>3. PICK z : z = <<"reset", "current_and_recent">>
    OBVIOUS
  <2>4. s \in {<<>>, <<Count, Count>>, <<Count, Note>>, <<Count, z>>}
    <3>1. s = Wish(p)
      BY <1>9 DEF Goes
    <3> QED BY <1>1, <2>2, <2>3, <3>1 DEF Wish, Refused
  <2>5. /\ <<>> \in Seq(W) /\ <<Count, Count>> \in Seq(W) /\ <<Count, Note>> \in Seq(W)
        /\ <<Count, z>> \in Seq(W)
    <3>1. Note \in W /\ Count \in W /\ z \in W
      BY <1>6, <2>1, <2>3
    <3>2. <<>> \in Seq(W) /\ <<Count, Count>> \in Seq(W)
      BY <3>1, Literals
    <3>3. <<Count, Note>> \in Seq(W)
      BY <3>1, Literals
    <3>4. <<Count, z>> \in Seq(W)
      BY <3>1, Literals
    <3> QED BY <3>2, <3>3, <3>4
  <2>6. s \in Seq(W)
    BY <2>4, <2>5, Zenon
  <2> QED BY <1>5, <2>1, <2>6
<1>10. CASE /\ u[1] # "prune" /\ u[1] # "passed"
            /\ ~(u[1] = "failed" /\ u[4] = "wrong")
  <2>1. s = Tail(w)
    BY <1>1, <1>10 DEF Goes
  <2> QED BY <1>4, <2>1
<1> QED BY <1>7, <1>8, <1>9, <1>10

(* Replacing makes the temporary file the snapshot.                         *)
LEMMA SwapKeeps ==
  ASSUME HInv, NEW p \in Procs, Swap(p)
  PROVE  HInv'
<1>1. /\ at[p] = "swap" /\ tmp # Missing /\ at' = [at EXCEPT ![p] = "rest"]
      /\ got' = [got EXCEPT ![p] = Fresh] /\ live' = tmp /\ tmp' = Missing
      /\ fd' = [q \in Procs |-> CASE fd[q] = "tmp" -> "live"
                                  [] fd[q] = "live" -> "gone"
                                  [] OTHER -> fd[q]]
      /\ UNCHANGED <<life, asked, now, tries, races, requests, starts, jobs, faults>>
  BY DEF Swap, daemon, bounds
<1>2. PICK u, s : u = Head(todo[p]) /\ s = Goes(p, u, got[p])
  OBVIOUS
<1>3. /\ todo' = [todo EXCEPT ![p] = s]
      /\ req' = IF p \in Workers /\ todo'[p] = <<>> THEN [req EXCEPT ![p] = Missing] ELSE req
      /\ tally' = CASE u[1] \in {"count", "transition"} -> tally + 1
                    [] u[1] = "zero" -> 0
                    [] OTHER -> tally
  BY <1>2 DEF Swap
<1>4. /\ at \in [Procs -> Places] /\ fd \in [Procs -> {"none", "tmp", "live", "gone"}]
      /\ got \in [Procs -> Contents] /\ todo \in [Procs -> Seq(Kinds)]
      /\ req \in [Workers -> Request \cup {Missing}] /\ now \in Instants /\ tally \in Nat
      /\ fd[p] = "none" /\ Daemon \in Procs /\ todo[p] # <<>>
      /\ \A q \in Procs : at[q] # "rest" => todo[q] # <<>>
      /\ \A q \in Procs : fd[q] # "none" <=> at[q] = "fill"
  BY <1>1 DEF HInv, Typed, TypeOK, Work, Procs
<1>5. s \in Seq(Kinds) /\ Fitting(p, s, life, req, now) /\ (p = Daemon => Followed(s))
  BY <1>1, <1>2, GoesFits
<1>6. /\ at'[p] = "rest" /\ got'[p] = Fresh /\ todo'[p] = s
      /\ \A q \in Procs \ {p} : at'[q] = at[q] /\ got'[q] = got[q] /\ todo'[q] = todo[q]
  BY <1>1, <1>3, <1>4
<1>7. /\ req' \in [Workers -> Request \cup {Missing}]
      /\ \A w \in Workers : req'[w] = req[w] \/ (w = p /\ s = <<>>)
  BY <1>3, <1>4, <1>6
<1>8. PICK L : L = Readable(live)
  OBVIOUS
<1>9. L \in Contents /\ True(L, tries, now) /\ Tallied(tries) /\ L.count \in Nat
  <2>1. L \in Contents /\ True(L, tries, now) /\ Tallied(tries)
    BY <1>8, FreshIs DEF HInv, Typed, TypeOK, Sound, Readable, Tallied, Tries
  <2> QED BY <2>1, ContentsAre
<1>10. u \in Kinds /\ Fits(p, u, life, req, now)
  <2>1. PICK v, l, q, t : v = todo[p] /\ l = life /\ q = req /\ t = now
    OBVIOUS
  <2>2. v \in Seq(Kinds) /\ v # <<>> /\ Fitting(p, v, l, q, t)
    BY <1>4, <2>1 DEF HInv, Work
  <2>3. Head(v) \in Kinds /\ Fits(p, Head(v), l, q, t)
    BY <2>2, HeadFits
  <2> QED BY <1>2, <2>1, <2>3
<1>11. Typed'
  <2>1. at' \in [Procs -> Places] /\ got' \in [Procs -> Contents]
    BY <1>1, <1>4, FreshIs DEF Places
  <2>2. fd' \in [Procs -> {"none", "tmp", "live", "gone"}]
    BY <1>1, <1>4
  <2>3. ASSUME NEW q \in Procs
        PROVE  /\ at'[q] # "rest" => todo'[q] # <<>>
               /\ fd'[q] # "none" <=> at'[q] = "fill"
    <3>1. fd'[q] # "none" <=> fd[q] # "none"
      BY <1>1, <1>4
    <3> QED BY <1>1, <1>4, <1>6, <3>1
  <2>4. tally' \in Nat
    BY <1>3, <1>4
  <2>5. live' \in Contents \cup {Missing, Torn} /\ tmp' \in Contents \cup {Missing, Torn}
    BY <1>1 DEF HInv, Typed, TypeOK
  <2> QED BY <1>1, <1>7, <2>1, <2>2, <2>3, <2>4, <2>5 DEF HInv, Typed, TypeOK
<1>12. Work'
  <2>1. todo' \in [Procs -> Seq(Kinds)] /\ Followed(todo'[Daemon])
    BY <1>3, <1>4, <1>5, <1>6 DEF HInv, Work
  <2>2. ASSUME NEW q \in Procs PROVE Fitting(q, todo'[q], life', req', now')
    <3>1. PICK v, l, r, m : v = todo'[q] /\ l = life /\ r = req /\ m = req'
      OBVIOUS
    <3>2. PICK t \in Instants : t = now
      BY <1>4
    <3>3. t <= t
      BY DEF Instants
    <3>4. CASE v = <<>>
      BY <3>1, <3>4, NoneFit
    <3>5. CASE v # <<>>
      <4>1. Fitting(q, v, l, r, t)
        BY <1>5, <1>6, <3>1, <3>2 DEF HInv, Work
      <4>2. q \in Workers => m[q] = r[q]
        BY <1>6, <1>7, <3>1, <3>5
      <4>3. Fitting(q, v, l, m, t)
        BY <3>3, <4>1, <4>2, FitsMove
      <4> QED BY <1>1, <3>1, <3>2, <4>3
    <3> QED BY <3>4, <3>5
  <2> QED BY <2>1, <2>2 DEF Work
<1>13. Sound'
  <2>1. Readable(live)' = Readable(tmp) /\ Readable(tmp)' = Fresh
    BY <1>1 DEF Readable
  <2>2. True(Fresh, tries, now)
    BY FreshIs
  <2>3. \A q \in Procs : got'[q] \in {got[q], Fresh}
    BY <1>6
  <2> QED BY <1>1, <2>1, <2>2, <2>3 DEF HInv, Sound
<1>14. Alone'
  <2> SUFFICES ASSUME races' = 0 PROVE Alone'
    BY DEF Alone
  <2>1. /\ races = 0 /\ tmp = got[p] /\ got[p] = Apply(u, L) /\ L.count = tally
        /\ \A q \in Procs : at[q] # "rest" => q = p
    BY <1>1, <1>2, <1>8 DEF HInv, Alone
  <2>2. live' = Apply(u, L) /\ live' \in Contents
    BY <1>1, <1>4, <2>1
  <2>3. live' # Torn /\ Readable(live)' = Apply(u, L)
    BY <2>2, MarksAssumption DEF Readable
  <2>4. /\ Apply(u, L).count = CASE u[1] \in {"count", "transition"} -> L.count + 1
                                 [] u[1] = "zero" -> 0
                                 [] OTHER -> L.count
        /\ \/ Apply(u, L).out = L.out
           \/ u[1] \in {"reset", "zero"} /\ Apply(u, L).out = "unset"
           \/ u[1] = "outcome" /\ Apply(u, L).out = u[2]
    <3>1. PICK T : T = tries
      OBVIOUS
    <3>2. PICK t \in Instants : t = now
      BY <1>4
    <3>5. PICK l, q : l = life /\ q = req
      OBVIOUS
    <3>3. u[1] \in {"prune", "failed", "passed"} => u[3] <= t
      BY <1>10, <3>2, <3>5, LoginFits
    <3>4. Tallied(T) /\ True(L, T, t)
      BY <1>9, <3>1, <3>2
    <3> QED BY <1>9, <1>10, <3>3, <3>4, CountApplied
  <2>5. Apply(u, L).count = tally'
    BY <1>3, <2>1, <2>4
  <2>6. \A q \in Procs : at'[q] = "rest"
    BY <1>6, <2>1
  <2>7. ASSUME life = "closing", todo'[Daemon] # <<>>
        PROVE  Apply(u, L).out # "failed_shutdown"
    <3>1. todo[Daemon] # <<>>
      BY <1>4, <1>6, <2>7
    <3>2. L.out # "failed_shutdown"
      BY <1>8, <2>1, <2>7, <3>1 DEF HInv, Alone
    <3>3. u[1] = "outcome" => u[2] = "clean"
      <4>1. PICK l, q, t : l = life /\ q = req /\ t = now
        OBVIOUS
      <4> QED BY <1>10, <2>7, <4>1, OutcomeFits
    <3> QED BY <2>4, <3>2, <3>3
  <2> QED BY <1>1, <2>3, <2>5, <2>6, <2>7 DEF Alone
<1> QED BY <1>11, <1>12, <1>13, <1>14 DEF HInv

-----------------------------------------------------------------------------
(* The theorems *)

(* The invariant holds at first,                                            *)
LEMMA InitHolds == Init => HInv
<1> SUFFICES ASSUME Init PROVE HInv
  OBVIOUS
<1>1. /\ live = Missing /\ tmp = Missing /\ fd = [p \in Procs |-> "none"]
      /\ at = [p \in Procs |-> "rest"] /\ todo = [p \in Procs |-> <<>>]
      /\ got = [p \in Procs |-> Fresh] /\ life = "down" /\ asked = FALSE
      /\ req = [w \in Workers |-> Missing] /\ now = 1
      /\ tries = [i \in Ips |-> {}] /\ tally = 0 /\ races = 0
      /\ requests = 0 /\ starts = 0 /\ jobs = 0 /\ faults = 0
  BY DEF Init
<1>2. Typed
  <2>1. /\ now \in Instants /\ life \in Lives /\ Daemon \in Procs
    BY <1>1, HealthAssumption DEF Instants, Lives, Procs
  <2>2. at \in [Procs -> Places] /\ got \in [Procs -> Contents]
    BY <1>1, FreshIs DEF Places
  <2>3. \A i \in Ips : Numbered(tries[i])
    BY <1>1, FS_EmptySet DEF Numbered
  <2>4. requests + starts + jobs + faults <= MaxEvents
    BY <1>1, HealthAssumption
  <2> QED BY <1>1, <2>1, <2>2, <2>3, <2>4 DEF Typed, TypeOK
<1>3. Work
  <2>1. Daemon \in Procs
    BY DEF Procs
  <2>2. \A p \in Procs : todo[p] = <<>>
    BY <1>1
  <2>3. todo \in [Procs -> Seq(Kinds)]
    BY <1>1, NoneFit
  <2>4. (\A p \in Procs : Fitting(p, todo[p], life, req, now)) /\ Followed(todo[Daemon])
    BY <2>1, <2>2, NoneFit
  <2> QED BY <2>3, <2>4 DEF Work
<1>4. Sound
  BY <1>1, FreshIs DEF Sound, Readable
<1>5. Alone
  <2>1. Readable(live) = Fresh /\ live # Torn /\ Fresh.count = 0 /\ Fresh.out = "unset"
    BY <1>1, MarksAssumption DEF Readable, Fresh
  <2> QED BY <1>1, <2>1 DEF Alone
<1> QED BY <1>2, <1>3, <1>4, <1>5 DEF HInv

(* and every step keeps it.                                                 *)
LEMMA NextKeeps == HInv /\ [Next]_vars => HInv'
<1> SUFFICES ASSUME HInv, [Next]_vars PROVE HInv'
  OBVIOUS
<1>1. CASE Updates
  BY <1>1, ReadKeeps, OpenKeeps, FillKeeps, FailsKeep, SwapKeeps DEF Updates
<1>2. CASE DaemonSteps
  BY <1>2, StartKeeps, RunningKeeps, SignalKeeps, LeaveLoopKeeps, CloseKeeps, RestKeeps, KillKeeps
  DEF DaemonSteps
<1>3. CASE \E w \in Workers : Attempt(w)
  BY <1>3, AttemptKeeps
<1>4. CASE HealthReset
  BY <1>4, ResetKeeps
<1>5. CASE Clock
  BY <1>5, RestKeeps
<1>6. CASE UNCHANGED vars
  BY <1>6 DEF vars, files, procs, daemon, ghosts, bounds, HInv, Typed, TypeOK, Work, Sound, Alone,
     Readable
<1> QED BY <1>1, <1>2, <1>3, <1>4, <1>5, <1>6 DEF Next

(* So it holds always, for any threads, addresses, thresholds and bounds.   *)
THEOREM HealthInvariant == Spec => []HInv
<1> QED BY InitHolds, NextKeeps, PTL DEF Spec

(* health.json is whole, true to itself, and true to what was counted,      *)
(* whatever the daemon, its handler, the panel and the command do to it.    *)
THEOREM SnapshotIsSound == Spec => []SnapshotHolds
<1>1. HInv => SnapshotHolds
  <2> SUFFICES ASSUME HInv PROVE SnapshotHolds
    OBVIOUS
  <2>1. TypeOK
    BY DEF HInv, Typed
  <2>2. DegradedTruth
    BY DEF HInv, Sound, True, Degrades, DegradedTruth
  <2>3. NothingLost /\ NeverTorn
    BY DEF HInv, Alone, NothingLost, NeverTorn
  <2> QED BY <2>1, <2>2, <2>3 DEF SnapshotHolds
<1> QED BY <1>1, HealthInvariant, PTL

(* While no two updates overlap, only replacing changes what is read.       *)
LEMMA OnlySwap ==
  ASSUME HInv, [Next]_vars, races' = 0, live' # live
  PROVE  races = 0 /\ \E p \in Procs : Swap(p)
<1>1. CASE Updates
  <2>1. PICK p \in Procs : Read(p) \/ Open(p) \/ Fill(p) \/ FillFails(p) \/ Swap(p) \/ SwapFails(p)
    BY <1>1 DEF Updates
  <2>2. ~Read(p) /\ ~Open(p) /\ ~FillFails(p) /\ ~SwapFails(p)
    BY DEF Read, Open, FillFails, SwapFails, files
  <2>3. ASSUME Fill(p) PROVE FALSE
    <3>1. races = 0 /\ at[p] = "fill"
      BY <2>3 DEF Fill, ghosts
    <3>2. fd[p] = "tmp"
      BY <3>1 DEF HInv, Alone
    <3> QED BY <2>3, <3>2 DEF Fill
  <2> QED BY <2>1, <2>2, <2>3 DEF Swap
<1>2. CASE DaemonSteps
  BY <1>2 DEF DaemonSteps, Start, Started, Tick, Plan, MissionDone, JobCutShort, Signal, LeaveLoop,
     Close, Down, Kill, Begins, files
<1>3. CASE \E w \in Workers : Attempt(w)
  BY <1>3 DEF Attempt, Begins, files
<1>4. CASE HealthReset
  BY <1>4 DEF HealthReset, Begins, files
<1>5. CASE Clock
  BY <1>5 DEF Clock, files
<1>6. CASE UNCHANGED vars
  BY <1>6 DEF vars, files
<1> QED BY <1>1, <1>2, <1>3, <1>4, <1>5, <1>6 DEF Next

(* What replacing makes of the snapshot while no two updates overlap.       *)
LEMMA SwapApplies ==
  ASSUME HInv, NEW p \in Procs, Swap(p), races = 0, NEW L, L = Readable(live),
         NEW u, u = Head(todo[p])
  PROVE  /\ L \in Contents /\ True(L, tries, now) /\ Tallied(tries)
         /\ u \in Kinds /\ Fits(p, u, life, req, now) /\ todo[p] # <<>>
         /\ Readable(live)' = Apply(u, L) /\ at[p] = "swap"
<1>1. at[p] = "swap" /\ live' = tmp
  BY DEF Swap
<1>2. L \in Contents /\ True(L, tries, now) /\ Tallied(tries)
  BY FreshIs DEF HInv, Typed, TypeOK, Sound, Readable, Tallied, Tries
<1>3. u \in Kinds /\ Fits(p, u, life, req, now) /\ todo[p] # <<>>
  <2>1. PICK v, l, q, t : v = todo[p] /\ l = life /\ q = req /\ t = now
    OBVIOUS
  <2>2. v \in Seq(Kinds) /\ v # <<>> /\ Fitting(p, v, l, q, t)
    BY <1>1, <2>1 DEF HInv, Typed, TypeOK, Work
  <2>3. Head(v) \in Kinds /\ Fits(p, Head(v), l, q, t)
    BY <2>2, HeadFits
  <2> QED BY <2>1, <2>2, <2>3
<1>4. live' = Apply(u, L) /\ live' \in Contents
  BY <1>1 DEF HInv, Alone, Typed, TypeOK
<1>5. Readable(live)' = Apply(u, L)
  BY <1>4, MarksAssumption DEF Readable
<1> QED BY <1>1, <1>2, <1>3, <1>5

(* An update keeps the lockouts in force at t, but for MaxTracked and for a *)
(* late failure.                                                            *)
LEMMA LockKept ==
  ASSUME NEW c \in Contents, NEW u \in Kinds, NEW t \in Instants, NEW T, True(c, T, t),
         u[1] \in {"prune", "failed", "passed"} => u[3] <= t,
         NEW i \in Ips, t < c.lock[i].until,
         Cardinality({j \in Ips : c.lock[j].until > 0}) <= MaxTracked,
         ~(u[1] = "failed" /\ u[2] = i /\ u[3] < c.lock[i].last)
  PROVE  Apply(u, c).lock[i].until >= c.lock[i].until
<1>1. c.lock[i].until \in Nat /\ c.lock[i].last \in Nat /\ t \in Nat /\ Lockout \in Nat
  BY ContentsAre, HealthAssumption DEF Locks, Instants
<1>2. CASE u[1] \notin {"prune", "failed", "passed"}
  <2>1. Apply(u, c).lock = c.lock
    BY <1>2, PlainApplied
  <2> QED BY <1>1, <2>1
<1>3. CASE u[1] \in {"prune", "failed", "passed"}
  <2>1. u[2] \in Ips /\ u[3] \in Instants /\ u[3] <= t
    BY <1>3, LoginIs
  <2>2. PICK k \in Ips, s \in Instants : k = u[2] /\ s = u[3]
    BY <2>1
  <2>3. PICK d : d = Prune(c, s)
    OBVIOUS
  <2>4. PICK b \in Bad, l \in Locks : PrunedTo(c, s, b, l)
    BY PruneIs
  <2>5. s < c.lock[i].until /\ s \in Nat
    BY <1>1, <2>1, <2>2 DEF Instants
  <2>6. d = Rows(c, b, l) /\ l[i] = c.lock[i]
    BY <2>3, <2>4, <2>5 DEF PrunedTo
  <2>7. d \in Contents /\ d.lock[i] = c.lock[i]
    BY <2>6, RowsAre
  <2>8. CASE u[1] = "prune"
    <3>1. Apply(u, c) = d
      BY <2>2, <2>3, <2>8 DEF Apply
    <3> QED BY <1>1, <2>7, <3>1
  <2>9. CASE u[1] = "failed"
    <3>1. Apply(u, c) = Failed(d, k, s)
      BY <2>2, <2>3, <2>9 DEF Apply
    <3>2. PICK bb \in Bad, ll \in Locks : FailedTo(d, k, s, bb, ll)
      BY <2>7, FailedIs
    <3>3. Apply(u, c).lock = ll
      BY <3>1, <3>2 DEF FailedTo, Rows
    <3>4. CASE k # i
      <4>1. ll[i] = d.lock[i]
        BY <3>2, <3>4 DEF FailedTo
      <4> QED BY <1>1, <2>7, <3>3, <4>1
    <3>5. CASE k = i
      <4>1. ll[i] = IF bb[i].n >= Threshold THEN [until |-> s + Lockout, last |-> s] ELSE d.lock[i]
        BY <3>2, <3>5 DEF FailedTo
      <4>2. c.lock[i].until = c.lock[i].last + Lockout
        BY <1>1 DEF True, Guards
      <4>3. s >= c.lock[i].last
        BY <1>1, <2>2, <2>5, <2>9, <3>5
      <4>4. s + Lockout >= c.lock[i].until
        BY <1>1, <2>5, <4>2, <4>3
      <4>5. ll[i].until \in {s + Lockout, c.lock[i].until}
        BY <2>7, <4>1
      <4> QED BY <1>1, <3>3, <4>4, <4>5
    <3> QED BY <3>4, <3>5
  <2>10. CASE u[1] = "passed"
    <3>1. Apply(u, c) = Passed(d, k, s)
      BY <2>2, <2>3, <2>10 DEF Apply
    <3>2. PICK bb \in Bad, ll \in Locks : PassedTo(d, k, s, bb, ll)
      BY <2>7, PassedIs
    <3>3. Apply(u, c).lock = ll
      BY <3>1, <3>2 DEF PassedTo, Rows
    <3>4. ll[i] = d.lock[i]
      BY <2>5, <2>7, <3>2 DEF PassedTo
    <3> QED BY <1>1, <2>7, <3>3, <3>4
  <2> QED BY <1>3, <2>8, <2>9, <2>10
<1> QED BY <1>2, <1>3

(* The login guard locks out no address that has not failed often enough,   *)
(* and keeps a lockout in force until its time is up.                       *)
THEOREM GuardIsHeld == Spec => GuardHolds
<1>1. HInv => LockoutEarned
  <2>1. \A i \in Ips, t \in Instants : Within(i, t) = Around(tries[i], t)
    BY DEF Within, Around
  <2> QED BY <2>1 DEF HInv, Sound, True, Guards, LockoutEarned, Earned
<1> DEFINE Held(i) ==
              Locked(Readable(live), i, now) /\ races' = 0 /\ ~Late(i)
              /\ Cardinality({j \in Ips : Readable(live).lock[j].until > 0}) <= MaxTracked
              => Readable(live').lock[i].until >= Readable(live).lock[i].until
<1>2. ASSUME HInv, [Next]_vars, NEW i \in Ips PROVE Held(i)
  <2> SUFFICES ASSUME Locked(Readable(live), i, now), races' = 0, ~Late(i),
                      Cardinality({j \in Ips : Readable(live).lock[j].until > 0}) <= MaxTracked
               PROVE  Readable(live').lock[i].until >= Readable(live).lock[i].until
    OBVIOUS
  <2>1. CASE live' = live
    <3>1. Readable(live) \in Contents
      BY <1>2, FreshIs DEF HInv, Typed, TypeOK, Readable
    <3>2. Readable(live).lock[i].until \in Nat
      BY <3>1, ContentsAre DEF Locks
    <3>3. Readable(live') = Readable(live)
      BY <2>1
    <3> QED BY <3>2, <3>3
  <2>2. CASE live' # live
    <3>1. PICK p \in Procs : Swap(p) /\ races = 0
      BY <1>2, <2>2, OnlySwap
    <3>2. PICK L, u, T : L = Readable(live) /\ u = Head(todo[p]) /\ T = tries
      OBVIOUS
    <3>3. /\ L \in Contents /\ True(L, tries, now)
          /\ u \in Kinds /\ Fits(p, u, life, req, now)
          /\ Readable(live)' = Apply(u, L) /\ at[p] = "swap"
      BY <1>2, <3>1, <3>2, SwapApplies
    <3>4. PICK t \in Instants : t = now
      BY <1>2 DEF HInv, Typed, TypeOK
    <3>5. PICK l, q : l = life /\ q = req
      OBVIOUS
    <3>6. u[1] \in {"prune", "failed", "passed"} =>
            /\ p \in Workers /\ u[2] = req[p].ip /\ u[3] = req[p].t /\ u[3] <= t
      BY <3>3, <3>4, <3>5, LoginFits
    <3>7. ~(u[1] = "failed" /\ u[2] = i /\ u[3] < L.lock[i].last)
      BY <3>2, <3>3, <3>6 DEF Late
    <3>8. /\ True(L, T, t) /\ t < L.lock[i].until
          /\ Cardinality({j \in Ips : L.lock[j].until > 0}) <= MaxTracked
      BY <3>2, <3>3, <3>4 DEF Locked
    <3>9. Apply(u, L).lock[i].until >= L.lock[i].until
      BY <3>3, <3>6, <3>7, <3>8, LockKept
    <3>10. Readable(live') = Apply(u, L)
      BY <3>3 DEF Readable
    <3> QED BY <3>2, <3>9, <3>10
  <2> QED BY <2>1, <2>2
<1>3. HInv /\ [Next]_vars => [\A i \in Ips : Held(i)]_vars
  BY <1>2
<1>4. Spec => []LockoutEarned
  BY <1>1, HealthInvariant, PTL
<1>5. Spec => [][\A i \in Ips : Held(i)]_vars
  BY <1>3, HealthInvariant, PTL DEF Spec
<1> QED BY <1>4, <1>5 DEF GuardHolds, LockoutHolds

(* That a shutdown failed stays on the record through the stop that follows.*)
THEOREM FailureStays == Spec => FailureIsKept
<1> DEFINE Kept ==
              Readable(live).out = "failed_shutdown" /\ Readable(live').out # "failed_shutdown"
              /\ races' = 0
              => life = "starting" \/ \E p \in Workers \cup {Command} : at[p] = "swap"
<1>1. ASSUME HInv, [Next]_vars PROVE Kept
  <2> SUFFICES ASSUME Readable(live).out = "failed_shutdown",
                      Readable(live').out # "failed_shutdown", races' = 0
               PROVE  life = "starting" \/ \E p \in Workers \cup {Command} : at[p] = "swap"
    OBVIOUS
  <2>1. live' # live
    OBVIOUS
  <2>2. PICK p \in Procs : Swap(p) /\ races = 0
    BY <1>1, <2>1, OnlySwap
  <2>3. PICK L, u, T : L = Readable(live) /\ u = Head(todo[p]) /\ T = tries
    OBVIOUS
  <2>4. /\ L \in Contents /\ True(L, tries, now) /\ Tallied(tries)
        /\ u \in Kinds /\ Fits(p, u, life, req, now) /\ todo[p] # <<>>
        /\ Readable(live)' = Apply(u, L) /\ at[p] = "swap"
    BY <1>1, <2>2, <2>3, SwapApplies
  <2>5. PICK t \in Instants : t = now
    BY <1>1 DEF HInv, Typed, TypeOK
  <2>6. PICK l, q : l = life /\ q = req
    OBVIOUS
  <2>7. u[1] \in {"prune", "failed", "passed"} => u[3] <= t
    BY <2>4, <2>5, <2>6, LoginFits
  <2>8. \/ Apply(u, L).out = L.out
        \/ u[1] \in {"reset", "zero"} /\ Apply(u, L).out = "unset"
        \/ u[1] = "outcome" /\ Apply(u, L).out = u[2]
    BY <2>3, <2>4, <2>5, <2>7, CountApplied
  <2>9. Apply(u, L).out # L.out /\ Apply(u, L).out # "failed_shutdown"
    BY <2>3, <2>4 DEF Readable
  <2>10. /\ u[1] = "outcome" =>
               p = Daemon /\ (life \in {"closing", "starting"} \/ u[2] = "failed_shutdown")
         /\ u[1] \in {"reset", "zero"} => p \in Workers \cup {Command}
    BY <2>4, <2>5, <2>6, OutcomeFits
  <2>11. ~(p = Daemon /\ life = "closing")
    BY <1>1, <2>2, <2>4 DEF HInv, Alone
  <2> QED BY <2>4, <2>8, <2>9, <2>10, <2>11
<1>2. HInv /\ [Next]_vars => [Kept]_vars
  BY <1>1
<1> QED BY <1>2, HealthInvariant, PTL DEF Spec, FailureIsKept
=============================================================================
