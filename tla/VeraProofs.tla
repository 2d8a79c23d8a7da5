----------------------------- MODULE VeraProofs -----------------------------
(***************************************************************************)
(* TLAPS proofs about VeraSession, for any number of requests, jobs,        *)
(* previews and faults: a job is made of the preview its request saw, a     *)
(* preview is submitted once, a completion is noted once and truly, and     *)
(* the parts of the session file agree.                                     *)
(*                                                                          *)
(* Base holds whatever fails; CalmOk while nothing has failed and the       *)
(* daemon has written beside no request.  It speaks of the session as it    *)
(* is about to be (View), and of what each process has then still to do     *)
(* (Rest), so that a write that is half done is done.                       *)
(***************************************************************************)
EXTENDS VeraSession, SequenceTheorems, TLAPS

(* The shape of programs *)

IsNote(x) == x[1] = "turn" /\ x[2][1] = "note"
UserTurn(t) == <<"turn", <<"user", t>> >>

(* In a request's program x may come before y: completions are read before  *)
(* anything is submitted, a submission is the last but for words, and       *)
(* after a wait comes nothing else.                                         *)
Before(x, y) ==
    /\ y[1] # "registry"
    /\ y[1] \in {"ingest", "surface"} => x[1] \in {"ingest", "registry", "touch"}
    /\ IsNote(y) => x[1] \in {"registry", "turn"} /\ ~IsNote(x)
    /\ y[1] = "submit" => x[1] \in {"ingest", "surface", "registry", "turn", "touch"}
    /\ x[1] = "submit" => y[1] \in {"turn", "touch"} /\ ~IsNote(y)
    /\ x[1] = "wait" => y[1] \in {"wait", "touch", "turn"} /\ ~IsNote(y)

Shaped(t, s) ==
    /\ \A i, k \in DOMAIN s : i < k => Before(s[i], s[k])
    /\ \A i \in DOMAIN s : s[i][1] = "surface" => i + 1 \in DOMAIN s /\ s[i + 1] = UserTurn(t)
    /\ \A i \in DOMAIN s : s[i][1] # "deliver"

(* What the daemon has still to do when it looks after job j.               *)
DaemonShaped(s) ==
    \/ s = <<>>
    \/ \E j \in Jobs : s = << <<"ingest", {j}>>, <<"deliver", j>> >>
    \/ \E j \in Jobs, r \in Registries : s = << <<"registry", r>>, <<"deliver", j>> >>
    \/ \E j \in Jobs : s = << <<"deliver", j>> >>
    \/ \E r \in Registries : s = << <<"registry", r>> >>
    \/ \E j \in Jobs, r \in Registries :
          j \in r.told /\ s = << <<"turn", <<"note", j>> >>, <<"registry", r>> >>

(* What a request that waits has still to do.                               *)
Aside(x) == x[1] \in {"wait", "touch", "turn"} /\ ~IsNote(x)
Fields == {"preview", "handoff", "registry", "ctx"}

(* The request at a write is the one that has the event loop, and a process *)
(* at a write has that write at the head of its program.                    *)
AtOk ==
    /\ \A t \in Requests : at[t] \in {"get", "load", "cut", "fill"} <=> loop = t
    /\ at[Daemon] \notin {"wait", "over"}
    /\ at[Daemon] = "idle" => prog[Daemon] = <<>>
    /\ \A p \in Procs :
        /\ at[p] \in {"load", "cut", "fill"} => prog[p] # <<>>
        /\ at[p] = "load" =>
              \/ Head(prog[p])[1] = "turn" /\ edit[p] \in {"turns"} \X SUBSET Turns
              \/ Head(prog[p])[1] = "track" /\ edit[p] \in {"registry"} \X Registries
        /\ at[p] \in {"cut", "fill"} =>
              Head(prog[p])[1] \in Fields \cup {"touch", "turn", "track"}

(* A request that saw no preview, and submits, finds none.                  *)
ToSubmit(t) == \E i \in DOMAIN prog[t] : prog[t][i][1] = "submit"
NoneAround ==
    ~raced => \A t \in Requests :
        ToSubmit(t) /\ seen[t] = None =>
            /\ Contents.preview = None
            /\ at[t] \in {"cut", "fill"} => copy[t].preview = None

-----------------------------------------------------------------------------
(* The session as it is about to be *)

(* Once the file is cut the write counts as done.                           *)
Rest(p) == IF at[p] = "fill" THEN Tail(prog[p]) ELSE prog[p]
View == IF \E p \in Procs : at[p] = "fill" THEN copy[CHOOSE p \in Procs : at[p] = "fill"]
        ELSE Contents

(* The session c after op x.                                                *)
Applied(c, x) ==
    IF x[1] \in Fields THEN [c EXCEPT ![x[1]] = x[2]]
    ELSE IF x[1] = "turn" THEN [c EXCEPT !.turns = @ \cup {x[2]}]
    ELSE IF x[1] = "track" THEN [c EXCEPT !.registry.tracked = @ \cup {x[2]}]
    ELSE c
Alone(p) == \A q \in Procs \ {p} : at[q] # "fill"
NoFill == \A p \in Procs : at[p] # "fill"

(* Who is about to write writes the file as it is, with its op applied:     *)
(* nobody has written since it was read.                                    *)
FileOk ==
    \A p \in Procs :
        /\ at[p] = "fill" => file = Torn /\ Alone(p)
        /\ at[p] = "fill" /\ Head(prog[p])[1] = "turn" => Head(prog[p])[2] \in copy[p].turns
        /\ at[p] = "cut" /\ NoFill => copy[p] = Applied(Contents, Head(prog[p]))
        /\ at[p] = "load" /\ NoFill =>
              [Contents EXCEPT ![edit[p][1]] = edit[p][2]] = Applied(Contents, Head(prog[p]))

-----------------------------------------------------------------------------
(* Of a preview whose submission was accepted nothing is left, or the       *)
(* request that submitted it is about to clear it.                          *)

In(x, s) == \E i \in DOMAIN s : s[i] = x
Gone(v) ==
    /\ View.preview # v
    /\ \A t \in Requests : ~In(<<"preview", v>>, Rest(t)) /\ ~In(<<"submit", v>>, Rest(t))
Clearing(u) ==
    /\ loop = u
    /\ In(<<"preview", None>>, Rest(u))
    /\ \A i \in DOMAIN Rest(u) :
          /\ Rest(u)[i][1] \notin {"submit", "wait", "ingest", "surface", "unlink"}
          /\ Rest(u)[i][1] = "preview" => Rest(u)[i][2] = None
OnceOk ==
    \A j \in Jobs :
        sent[j] # None /\ ~sent[j].missed => Gone(sent[j].preview) \/ Clearing(sent[j].by)

-----------------------------------------------------------------------------
(* Notes of completions *)

(* As far as registry r goes, job j may have been noted, or was not.        *)
OkReg(r, j) == j \in r.told \/ j \notin r.tracked \cup r.seen
Lacks(r, j) == j \notin r.tracked \cup r.seen \cup r.told
Note(j) == <<"turn", <<"note", j>> >>
Pends(p, j) == In(Note(j), prog[p])

(* The session will not note j again;                                       *)
Settled(j) ==
    /\ OkReg(View.registry, j)
    /\ \A p \in Procs, r \in Registries : In(<<"registry", r>>, Rest(p)) => OkReg(r, j)

(* it is about to be marked, next, and by the daemon;                       *)
Tells(s, j) == s # <<>> /\ Head(s)[1] = "registry" /\ j \in Head(s)[2].told
Delivering(j) == Tells(Rest(Daemon), j)

(* and it does not know of j.                                               *)
Unheard(j) ==
    /\ Lacks(View.registry, j) /\ notes[j] = 0
    /\ \A p \in Procs : /\ ~Pends(p, j)
                        /\ \A r \in Registries : In(<<"registry", r>>, Rest(p)) => Lacks(r, j)
Tracks(j) == \E t \in Requests : In(<<"track", j>>, Rest(t))
WillTell(t, j) ==
    IF Rest(t) # <<>> /\ Head(Rest(t))[1] = "registry"
    THEN Tells(Rest(t), j) ELSE j \in View.registry.told

(* A job that is noted is settled or being marked; a request with a note    *)
(* to write has it marked before, the daemon after; and who is not tracked  *)
(* yet is unheard of.                                                       *)
NoteFine(j) ==
    /\ notes[j] \in {0, 1}
    /\ notes[j] = 1 => Settled(j) \/ Delivering(j)
    /\ \A t \in Requests : Pends(t, j) => (notes[j] = 0 \/ Delivering(j)) /\ WillTell(t, j)
    /\ Pends(Daemon, j) => notes[j] = 0
    /\ sent[j] = None \/ Tracks(j) => Unheard(j)
NoteOk == \A j \in Jobs : NoteFine(j)

-----------------------------------------------------------------------------
(* Turns, preview and context *)

(* Every turn that was said is there, or will be.                           *)
TurnsOk == said \subseteq View.turns

Follows(c) == c.ctx <=> c.preview # None

(* Program s ends with a preview and the flag that goes with it.            *)
SettlesAt(s, i, k) ==
    /\ i < k /\ s[i][1] = "preview" /\ s[k][1] = "ctx" /\ (s[k][2] <=> s[i][2] # None)
    /\ \A m \in DOMAIN s : /\ m > i => s[m][1] # "preview"
                           /\ m > k => s[m][1] # "ctx"
Settles(s) == (\E i, k \in DOMAIN s : SettlesAt(s, i, k))

(* After s field f, which is w now, is v;                                   *)
Lasts(s, f, w, v) ==
    \/ v = w /\ \A i \in DOMAIN s : s[i][1] # f
    \/ \E i \in DOMAIN s : /\ s[i][1] = f /\ s[i][2] = v
                          /\ \A k \in DOMAIN s : k > i => s[k][1] # f

(* so after s, from session c, preview and context agree.                   *)
Even(s, c) ==
    \E a \in BOOLEAN, v \in Previews \cup {None} :
        /\ Lasts(s, "ctx", c.ctx, a) /\ Lasts(s, "preview", c.preview, v)
        /\ a <=> v # None

(* Preview and context agree when the request at work is done.              *)
Clears == << <<"unlink">>, <<"ctx", FALSE>>, <<"touch">> >>
CtxOk ==
    IF loop = None THEN Follows(View)
    ELSE \/ Rest(loop) = Clears
         \/ ~In(<<"unlink">>, Rest(loop)) /\ Even(Rest(loop), View)

-----------------------------------------------------------------------------
(* The handoff *)

(* Program s ties no job to the session; it tracks j and ties no more; it   *)
(* puts j in the handoff and then tracks it.                                *)
Untied(s) ==
    \A i \in DOMAIN s : s[i][1] # "track" /\ ~(s[i][1] = "handoff" /\ s[i][2].job # None)
Tracking(s, j) == s # <<>> /\ Head(s) = <<"track", j>> /\ Untied(Tail(s))
Handing(s, j) ==
    s # <<>> /\ Head(s) = <<"handoff", [status |-> "submitted", job |-> j]>>
        /\ Tracking(Tail(s), j)

(* The job of the handoff was submitted, and is tracked or is about to be.  *)
HandoffKnown ==
    View.handoff.job # None =>
        /\ sent[View.handoff.job] # None /\ View.handoff.status = "submitted"
        /\ \/ View.handoff.job \in View.registry.tracked
           \/ loop # None /\ In(<<"track", View.handoff.job>>, Rest(loop))
Tied(s) == Untied(s) \/ \E j \in Jobs : sent[j] # None /\ (Tracking(s, j) \/ Handing(s, j))
Ties == \A t \in Requests : Tied(Rest(t))

(* Who is about to write a registry loses no tracked job.                   *)
TrackedKept ==
    \A p \in Procs, r \in Registries :
        Alone(p) /\ In(<<"registry", r>>, Rest(p)) => View.registry.tracked \subseteq r.tracked
HandoffOk == HandoffKnown /\ Ties /\ TrackedKept

-----------------------------------------------------------------------------
(* Programs *)

-----------------------------------------------------------------------------
(* Programs *)

(* An op is a pair of what is written and its value.                        *)
LEMMA OpsAre ==
    ASSUME NEW x \in Ops
    PROVE  /\ x[1] \in {"preview", "handoff", "registry", "ctx", "turn", "submit", "track",
                        "deliver", "submitted", "ingest", "surface", "touch", "unlink", "wait"}
           /\ x[1] \in {"preview", "submit"} => x[2] \in Previews \cup {None}
           /\ x[1] = "handoff" => x[2] \in Handoffs
           /\ x[1] = "registry" => x[2] \in Registries
           /\ x[1] = "ctx" => x[2] \in BOOLEAN
           /\ x[1] = "turn" => x[2] \in Turns
           /\ x[1] \in {"track", "deliver"} => x[2] \in Jobs
           /\ x[1] = "ingest" => x[2] \subseteq Jobs
<1> DEFINE Places == {"preview", "handoff", "registry", "ctx", "turn", "submit", "track",
                      "deliver", "submitted", "ingest", "surface", "touch", "unlink", "wait"}
<1>1. CASE x \in {"preview"} \X (Previews \cup {None})
               \/ x \in {"submit"} \X (Previews \cup {None})
  BY <1>1
<1>2. CASE x \in {"handoff"} \X Handoffs \/ x \in {"registry"} \X Registries
  BY <1>2
<1>3. CASE x \in {"ctx"} \X BOOLEAN \/ x \in {"turn"} \X Turns
  BY <1>3
<1>4. CASE x \in {"track", "deliver", "submitted"} \X Jobs
  BY <1>4
<1>5. CASE x \in {"ingest"} \X (SUBSET Jobs)
  BY <1>5
<1>6. CASE x \in {<<"surface">>, <<"touch">>, <<"unlink">>, <<"wait">>}
  BY <1>6
<1> QED BY <1>1, <1>2, <1>3, <1>4, <1>5, <1>6 DEF Ops

(* The places of a concatenation.                                           *)
LEMMA Joined ==
    ASSUME NEW S, NEW s \in Seq(S), NEW u \in Seq(S)
    PROVE  /\ s \o u \in Seq(S)
           /\ DOMAIN s = 1 .. Len(s) /\ DOMAIN u = 1 .. Len(u) /\ Len(s) \in Nat /\ Len(u) \in Nat
           /\ DOMAIN (s \o u) = 1 .. Len(s) + Len(u)
           /\ \A i \in DOMAIN s : (s \o u)[i] = s[i]
           /\ \A i \in DOMAIN u : i + Len(s) \in DOMAIN (s \o u) /\ (s \o u)[i + Len(s)] = u[i]
           /\ \A i \in DOMAIN (s \o u) :
                 \/ i \in DOMAIN s /\ (s \o u)[i] = s[i]
                 \/ i > Len(s) /\ i - Len(s) \in DOMAIN u /\ (s \o u)[i] = u[i - Len(s)]
<1>1. Len(s) \in Nat /\ Len(u) \in Nat /\ DOMAIN s = 1 .. Len(s) /\ DOMAIN u = 1 .. Len(u)
  BY LenProperties
<1>2. /\ s \o u \in Seq(S) /\ Len(s \o u) = Len(s) + Len(u)
      /\ \A i \in 1 .. Len(s) + Len(u) : (s \o u)[i] = IF i <= Len(s) THEN s[i] ELSE u[i - Len(s)]
  BY ConcatProperties
<1>3. DOMAIN (s \o u) = 1 .. Len(s) + Len(u)
  BY <1>2, LenProperties
<1> QED BY <1>1, <1>2, <1>3

(* ... and of what is left of a sequence.                                   *)
LEMMA Shorter ==
    ASSUME NEW S, NEW s \in Seq(S), s # <<>>
    PROVE  /\ Tail(s) \in Seq(S) /\ Head(s) = s[1] /\ Head(s) \in S /\ 1 \in DOMAIN s
           /\ DOMAIN s = 1 .. Len(s) /\ Len(s) \in Nat
           /\ \A i \in DOMAIN Tail(s) : i + 1 \in DOMAIN s /\ Tail(s)[i] = s[i + 1] /\ i \in Nat
                  /\ i >= 1
           /\ \A i \in DOMAIN s : i > 1 => i - 1 \in DOMAIN Tail(s) /\ Tail(s)[i - 1] = s[i]
<1>1. Tail(s) \in Seq(S) /\ Head(s) \in S /\ Len(Tail(s)) = Len(s) - 1
      /\ \A i \in 1 .. Len(Tail(s)) : Tail(s)[i] = s[i + 1]
  BY HeadTailProperties
<1>2. DOMAIN s = 1 .. Len(s) /\ Len(s) \in Nat /\ DOMAIN Tail(s) = 1 .. Len(Tail(s))
  BY <1>1, LenProperties
<1>3. Len(s) # 0
  BY EmptySeq
<1>4. Head(s) = s[1]
  OBVIOUS
<1> QED BY <1>1, <1>2, <1>3, <1>4

(* What is left of a sequence from its m-th place on.                       *)
LEMMA Dropped ==
    ASSUME NEW S, NEW s \in Seq(S), NEW m \in Nat \ {0}
    PROVE  /\ SubSeq(s, m, Len(s)) \in Seq(S)
           /\ \A i \in DOMAIN SubSeq(s, m, Len(s)) :
                 /\ i \in Nat /\ i >= 1 /\ i + m - 1 \in DOMAIN s
                 /\ SubSeq(s, m, Len(s))[i] = s[i + m - 1]
<1>1. DOMAIN s = 1 .. Len(s) /\ Len(s) \in Nat
  BY LenProperties
<1>2. \A i \in m .. Len(s) : s[i] \in S
  BY <1>1, ElementOfSeq
<1>3. /\ SubSeq(s, m, Len(s)) \in Seq(S)
      /\ Len(SubSeq(s, m, Len(s))) = IF m <= Len(s) THEN Len(s) - m + 1 ELSE 0
      /\ \A i \in 1 .. Len(s) - m + 1 : SubSeq(s, m, Len(s))[i] = s[m + i - 1]
  BY <1>1, <1>2, SubSeqProperties
<1>4. DOMAIN SubSeq(s, m, Len(s)) = 1 .. Len(SubSeq(s, m, Len(s)))
  BY <1>3, LenProperties
<1> QED BY <1>1, <1>3, <1>4

(* A program stays in shape as it is carried out,                           *)
LEMMA ShapedTail ==
    ASSUME NEW t, NEW s \in Seq(Ops), s # <<>>, Shaped(t, s)
    PROVE  Shaped(t, Tail(s))
<1>1. \A i \in DOMAIN Tail(s) : i + 1 \in DOMAIN s /\ Tail(s)[i] = s[i + 1] /\ i \in Nat
  BY Shorter
<1>2. \A i, k \in DOMAIN Tail(s) : i < k => Before(Tail(s)[i], Tail(s)[k])
  BY <1>1 DEF Shaped
<1>3. ASSUME NEW i \in DOMAIN Tail(s), Tail(s)[i][1] = "surface"
      PROVE  i + 1 \in DOMAIN Tail(s) /\ Tail(s)[i + 1] = UserTurn(t)
  <2>1. i + 2 \in DOMAIN s /\ s[i + 2] = UserTurn(t)
    BY <1>1, <1>3 DEF Shaped
  <2>2. i + 2 > 1 /\ i + 2 - 1 = i + 1
    BY <1>1
  <2> QED BY <2>1, <2>2, Shorter
<1> QED BY <1>1, <1>2, <1>3 DEF Shaped

(* when one is put before another that may follow it,                       *)
LEMMA ShapedJoin ==
    ASSUME NEW t, NEW s \in Seq(Ops), NEW u \in Seq(Ops), Shaped(t, s), Shaped(t, u),
           \A i \in DOMAIN s, k \in DOMAIN u : Before(s[i], u[k])
    PROVE  s \o u \in Seq(Ops) /\ Shaped(t, s \o u)
<1> DEFINE w == s \o u
<1>1. /\ w \in Seq(Ops)
      /\ DOMAIN s = 1 .. Len(s) /\ DOMAIN u = 1 .. Len(u) /\ Len(s) \in Nat /\ Len(u) \in Nat
      /\ DOMAIN w = 1 .. Len(s) + Len(u)
      /\ \A i \in DOMAIN s : w[i] = s[i]
      /\ \A i \in DOMAIN u : w[i + Len(s)] = u[i]
      /\ \A i \in DOMAIN w : \/ i \in DOMAIN s /\ w[i] = s[i]
                             \/ i > Len(s) /\ i - Len(s) \in DOMAIN u /\ w[i] = u[i - Len(s)]
  BY Joined
<1> HIDE DEF w
<1>2. ASSUME NEW i \in DOMAIN w, NEW k \in DOMAIN w, i < k PROVE Before(w[i], w[k])
  <2>1. CASE i \in DOMAIN s /\ k \in DOMAIN s
    BY <1>1, <1>2, <2>1 DEF Shaped
  <2>2. CASE i \in DOMAIN s /\ k \notin DOMAIN s
    BY <1>1, <1>2, <2>2
  <2>3. CASE i \notin DOMAIN s
    <3>1. i - Len(s) \in DOMAIN u /\ k - Len(s) \in DOMAIN u /\ w[i] = u[i - Len(s)]
              /\ w[k] = u[k - Len(s)]
          /\ i - Len(s) < k - Len(s)
      BY <1>1, <1>2, <2>3
    <3> QED BY <3>1 DEF Shaped
  <2> QED BY <2>1, <2>2, <2>3
<1>3. ASSUME NEW i \in DOMAIN w, w[i][1] = "surface"
      PROVE  i + 1 \in DOMAIN w /\ w[i + 1] = UserTurn(t)
  <2>1. CASE i \in DOMAIN s
    <3>1. i + 1 \in DOMAIN s /\ s[i + 1] = UserTurn(t)
      BY <1>1, <1>3, <2>1 DEF Shaped
    <3> QED BY <1>1, <3>1
  <2>2. CASE i \notin DOMAIN s
    <3>1. i - Len(s) \in DOMAIN u /\ u[i - Len(s)][1] = "surface"
      BY <1>1, <1>3, <2>2
    <3>2. (i - Len(s)) + 1 \in DOMAIN u /\ u[(i - Len(s)) + 1] = UserTurn(t)
      BY <3>1 DEF Shaped
    <3>3. ((i - Len(s)) + 1) + Len(s) = i + 1
      BY <1>1
    <3> QED BY <1>1, <3>2, <3>3
  <2> QED BY <2>1, <2>2
<1>4. \A i \in DOMAIN w : w[i][1] # "deliver"
  BY <1>1 DEF Shaped
<1> QED BY <1>1, <1>2, <1>3, <1>4 DEF Shaped, w

(* and when its beginning is cut off.                                       *)
LEMMA ShapedDrop ==
    ASSUME NEW t, NEW s \in Seq(Ops), NEW m \in Nat \ {0}, Shaped(t, s)
    PROVE  Shaped(t, SubSeq(s, m, Len(s)))
<1> DEFINE w == SubSeq(s, m, Len(s))
<1>1. /\ w \in Seq(Ops)
      /\ \A i \in DOMAIN w : i \in Nat /\ i >= 1 /\ i + m - 1 \in DOMAIN s /\ w[i] = s[i + m - 1]
  BY Dropped
<1>0. DOMAIN w = 1 .. Len(w) /\ Len(w) \in Nat /\ DOMAIN s = 1 .. Len(s) /\ Len(s) \in Nat
  BY <1>1, LenProperties
<1>5. Len(w) = IF m <= Len(s) THEN Len(s) - m + 1 ELSE 0
  <2>1. \A i \in m .. Len(s) : s[i] \in Ops
    BY <1>0, ElementOfSeq
  <2> QED BY <1>0, <2>1, SubSeqProperties
<1> HIDE DEF w
<1>2. \A i, k \in DOMAIN w : i < k => Before(w[i], w[k])
  <2> TAKE i, k \in DOMAIN w
  <2> HAVE i < k
  <2>1. i + m - 1 < k + m - 1 /\ i + m - 1 \in DOMAIN s /\ k + m - 1 \in DOMAIN s
    BY <1>1
  <2> QED BY <1>1, <2>1 DEF Shaped
<1>3. ASSUME NEW i \in DOMAIN w, w[i][1] = "surface"
      PROVE  i + 1 \in DOMAIN w /\ w[i + 1] = UserTurn(t)
  <2>1. (i + m - 1) + 1 \in DOMAIN s /\ s[(i + m - 1) + 1] = UserTurn(t)
    BY <1>1, <1>3 DEF Shaped
  <2>2. i + 1 \in DOMAIN w /\ (i + 1) + m - 1 = (i + m - 1) + 1
    BY <1>0, <1>1, <1>5, <2>1
  <2> QED BY <1>1, <2>1, <2>2
<1>4. \A i \in DOMAIN w : w[i][1] # "deliver"
  BY <1>1 DEF Shaped
<1> QED BY <1>2, <1>3, <1>4 DEF Shaped, w

(* A short sequence, written together.                                      *)
LEMMA Pair == ASSUME NEW a, NEW b PROVE <<a>> \o <<b>> = <<a, b>>
<1>1. <<a>> \in Seq({a, b}) /\ <<b>> \in Seq({a, b}) /\ <<a, b>> \in Seq({a, b})
  OBVIOUS
<1>2. Len(<<a>>) = 1 /\ Len(<<b>>) = 1 /\ Len(<<a, b>>) = 2
  OBVIOUS
<1>3. /\ <<a>> \o <<b>> \in Seq({a, b}) /\ Len(<<a>> \o <<b>>) = 2
      /\ \A i \in 1 .. 2 : (<<a>> \o <<b>>)[i] = IF i <= 1 THEN <<a>>[i] ELSE <<b>>[i - 1]
  BY <1>1, <1>2, ConcatProperties
<1>4. \A i \in 1 .. 2 : (<<a>> \o <<b>>)[i] = <<a, b>>[i]
  BY <1>3
<1> QED BY <1>1, <1>2, <1>3, <1>4, SeqEqual

(* The same in a set of elements,                                           *)
LEMMA Two ==
    ASSUME NEW S, NEW a \in S, NEW b \in S
    PROVE  <<a, b>> \in Seq(S) /\ DOMAIN <<a, b>> = {1, 2} /\ <<a, b>>[1] = a /\ <<a, b>>[2] = b
OBVIOUS

(* with three of them,                                                      *)
LEMMA Three ==
    ASSUME NEW S, NEW a \in S, NEW b \in S, NEW c \in S
    PROVE  /\ <<a, b, c>> \in Seq(S) /\ DOMAIN <<a, b, c>> = {1, 2, 3}
           /\ <<a, b, c>>[1] = a /\ <<a, b, c>>[2] = b /\ <<a, b, c>>[3] = c
OBVIOUS

(* written together.                                                        *)
LEMMA Triple == ASSUME NEW a, NEW b, NEW c PROVE <<a, b>> \o <<c>> = <<a, b, c>>
<1> DEFINE S == {a, b, c}
<1>1. <<a, b>> \in Seq(S) /\ <<c>> \in Seq(S) /\ <<a, b, c>> \in Seq(S)
  OBVIOUS
<1>2. Len(<<a, b>>) = 2 /\ Len(<<c>>) = 1 /\ Len(<<a, b, c>>) = 3
  OBVIOUS
<1>3. /\ <<a, b>> \o <<c>> \in Seq(S) /\ Len(<<a, b>> \o <<c>>) = 3
      /\ \A i \in 1 .. 3 : (<<a, b>> \o <<c>>)[i] = IF i <= 2 THEN <<a, b>>[i] ELSE <<c>>[i - 2]
  BY <1>1, <1>2, ConcatProperties
<1>4. \A i \in 1 .. 3 : (<<a, b>> \o <<c>>)[i] = <<a, b, c>>[i]
  BY <1>3
<1> QED BY <1>1, <1>2, <1>3, <1>4, SeqEqual

(* What ends with a preview and the flag that goes with it.                 *)
Kinds(s) == {s[i][1] : i \in DOMAIN s}

(* ... or leaves both alone.                                                *)
Closed(s) == (\A i \in DOMAIN s : s[i][1] \notin {"preview", "ctx"}) \/ Settles(s)

(* Two such, one after the other, and one whose first write is neither.     *)
LEMMA ClosedJoin ==
    ASSUME NEW s \in Seq(Ops), NEW u \in Seq(Ops), Closed(s), Closed(u)
    PROVE  Closed(s \o u)
<1> DEFINE w == s \o u
<1>1. /\ DOMAIN s = 1 .. Len(s) /\ DOMAIN u = 1 .. Len(u) /\ Len(s) \in Nat /\ Len(u) \in Nat
      /\ DOMAIN w = 1 .. Len(s) + Len(u)
      /\ \A i \in DOMAIN s : w[i] = s[i]
      /\ \A i \in DOMAIN u : i + Len(s) \in DOMAIN w /\ w[i + Len(s)] = u[i]
      /\ \A i \in DOMAIN w : \/ i \in DOMAIN s /\ w[i] = s[i]
                             \/ i > Len(s) /\ i - Len(s) \in DOMAIN u /\ w[i] = u[i - Len(s)]
  BY Joined
<1> HIDE DEF w
<1>2. CASE Settles(u)
  <2>1. PICK i, k \in DOMAIN u : SettlesAt(u, i, k)
    BY <1>2 DEF Settles
  <2> DEFINE i1 == i + Len(s)
             k1 == k + Len(s)
  <2>2. i1 \in DOMAIN w /\ k1 \in DOMAIN w /\ w[i1] = u[i] /\ w[k1] = u[k] /\ i1 < k1 /\ i \in Nat
            /\ k \in Nat
    BY <1>1, <2>1 DEF SettlesAt
  <2>3. ASSUME NEW m \in DOMAIN w
        PROVE  (m > i1 => w[m][1] # "preview") /\ (m > k1 => w[m][1] # "ctx")
    <3>1. CASE m \in DOMAIN s
      BY <1>1, <2>2, <3>1
    <3>2. CASE m \notin DOMAIN s
      <4>1. m - Len(s) \in DOMAIN u /\ w[m] = u[m - Len(s)]
        BY <1>1, <3>2
      <4>2. (m > i1 => m - Len(s) > i) /\ (m > k1 => m - Len(s) > k)
        BY <1>1, <2>2
      <4> QED BY <2>1, <4>1, <4>2 DEF SettlesAt
    <3> QED BY <3>1, <3>2
  <2>4. SettlesAt(w, i1, k1)
    BY <2>1, <2>2, <2>3 DEF SettlesAt
  <2> QED BY <2>2, <2>4 DEF Settles, Closed, w
<1>3. CASE Settles(s) /\ \A i \in DOMAIN u : u[i][1] \notin {"preview", "ctx"}
  <2>1. PICK i, k \in DOMAIN s : SettlesAt(s, i, k)
    BY <1>3 DEF Settles
  <2>2. SettlesAt(w, i, k) /\ i \in DOMAIN w /\ k \in DOMAIN w
    BY <1>1, <1>3, <2>1 DEF SettlesAt
  <2> QED BY <2>2 DEF Settles, Closed, w
<1>4. CASE /\ \A i \in DOMAIN s : s[i][1] \notin {"preview", "ctx"}
           /\ \A i \in DOMAIN u : u[i][1] \notin {"preview", "ctx"}
  BY <1>1, <1>4 DEF Closed, w
<1> QED BY <1>2, <1>3, <1>4 DEF Closed

(* What is left of it when it writes neither first.                         *)
LEMMA ClosedTail ==
    ASSUME NEW s \in Seq(Ops), s # <<>>, Closed(s), Head(s)[1] \notin {"preview", "ctx"}
    PROVE  Closed(Tail(s))
<1>1. /\ 1 \in DOMAIN s /\ Head(s) = s[1] /\ DOMAIN s = 1 .. Len(s) /\ Len(s) \in Nat
      /\ \A i \in DOMAIN Tail(s) : i + 1 \in DOMAIN s /\ Tail(s)[i] = s[i + 1] /\ i \in Nat
      /\ \A i \in DOMAIN s : i > 1 => i - 1 \in DOMAIN Tail(s) /\ Tail(s)[i - 1] = s[i]
  BY Shorter
<1>2. CASE Settles(s)
  <2>1. PICK i, k \in DOMAIN s : SettlesAt(s, i, k)
    BY <1>2 DEF Settles
  <2>2. i > 1 /\ k > 1 /\ i \in Nat /\ k \in Nat
    BY <1>1, <2>1 DEF SettlesAt
  <2>3. i - 1 \in DOMAIN Tail(s) /\ k - 1 \in DOMAIN Tail(s) /\ i - 1 < k - 1
    BY <1>1, <2>1, <2>2 DEF SettlesAt
  <2>4. SettlesAt(Tail(s), i - 1, k - 1)
    BY <1>1, <2>1, <2>2, <2>3 DEF SettlesAt
  <2> QED BY <2>3, <2>4 DEF Settles, Closed
<1>3. CASE \A i \in DOMAIN s : s[i][1] \notin {"preview", "ctx"}
  BY <1>1, <1>3 DEF Closed
<1> QED BY <1>2, <1>3 DEF Closed

(* The pieces of a program that begins now.                                 *)
NewOps ==
    {x \in Ops :
        /\ x[1] \notin {"registry", "track", "submitted", "deliver"} /\ ~IsNote(x)
        /\ x[1] = "handoff" => x[2].job = None
        /\ x[1] = "submit" => x[2] = Contents.preview
        /\ x[1] = "preview" => x[2] = None \/ (x[2].id > drafts /\ x[2].id <= drafts')}

(* A sequence of them that settles what it touches, and one that is done    *)
(* before the request ends.                                                 *)
Piece(s) == s \in Seq(NewOps) /\ Closed(s) /\ \A i \in DOMAIN s : s[i][1] # "unlink"

(* One that neither submits, waits nor reads completions.                   *)
Plain(s) == Piece(s) /\ \A i \in DOMAIN s : s[i][1] \notin {"submit", "wait", "ingest", "surface"}

(* New ops are ops.                                                         *)
LEMMA NewAreOps ==
    ASSUME NEW s \in Seq(NewOps)
    PROVE  s \in Seq(Ops) /\ \A i \in DOMAIN s : s[i] \in NewOps
<1>1. NewOps \subseteq Ops
  BY DEF NewOps
<1> QED BY <1>1, SeqMonotonic, ElementOfSeq, LenProperties

(* Pieces, one after the other,                                             *)
LEMMA PieceJoin ==
    ASSUME NEW s, NEW u, Piece(s), Piece(u)
    PROVE  Piece(s \o u)
<1>1. s \in Seq(Ops) /\ u \in Seq(Ops) /\ s \in Seq(NewOps) /\ u \in Seq(NewOps)
  BY NewAreOps DEF Piece
<1>2. Closed(s \o u)
  BY <1>1, ClosedJoin DEF Piece
<1>3. s \o u \in Seq(NewOps)
  BY <1>1, ConcatProperties
<1>4. \A i \in DOMAIN (s \o u) : (s \o u)[i][1] # "unlink"
  BY <1>1, Joined DEF Piece
<1> QED BY <1>2, <1>3, <1>4 DEF Piece

(* and plain ones.                                                          *)
LEMMA PlainJoin ==
    ASSUME NEW s, NEW u, Plain(s), Plain(u)
    PROVE  Plain(s \o u)
<1>1. s \in Seq(Ops) /\ u \in Seq(Ops)
  BY NewAreOps DEF Plain, Piece
<1>2. Piece(s \o u)
  BY PieceJoin DEF Plain
<1> QED BY <1>1, <1>2, Joined DEF Plain

(* A plain piece is in shape.                                               *)
LEMMA PlainShaped ==
    ASSUME NEW t, NEW s, Plain(s)
    PROVE  s \in Seq(Ops) /\ Shaped(t, s)
<1>1. s \in Seq(Ops) /\ \A i \in DOMAIN s : s[i] \in NewOps
  BY NewAreOps DEF Plain, Piece
<1>2. \A i \in DOMAIN s : s[i][1] \notin {"registry", "deliver", "submit", "wait", "ingest",
          "surface"}
                          /\ ~IsNote(s[i])
  BY <1>1 DEF Plain, NewOps
<1> QED BY <1>1, <1>2 DEF Shaped, Before

(* So is nothing.                                                           *)
LEMMA NothingPlain == Plain(<<>>)
BY DEF Plain, Piece, Closed

(* Short pieces.                                                            *)
LEMMA Touches == Plain(<< <<"touch">> >>)
BY DEF Plain, Piece, Closed, NewOps, Ops, IsNote

(* What a request says.                                                     *)
LEMMA Words ==
    ASSUME NEW t \in Requests
    PROVE  Plain(Asked(t)) /\ Plain(Says(t))
<1>1. <<"turn", <<"user", t>> >> \in NewOps /\ <<"turn", <<"vera", t>> >> \in NewOps
  BY DEF NewOps, Ops, IsNote, Turns
<1> QED BY <1>1 DEF Asked, Says, Plain, Piece, Closed

(* The writes that clear a preview, those that make a new one,              *)
LEMMA ClearPlain == Plain(ClearPreview)
<1>1. <<"preview", None>> \in NewOps /\ <<"ctx", FALSE>> \in NewOps
  <2>1. <<"preview", None>> \in Ops /\ <<"ctx", FALSE>> \in Ops
    BY DEF Ops
  <2> QED BY <2>1 DEF NewOps, IsNote
<1> DEFINE a == <<"preview", None>>
           b == <<"ctx", FALSE>>
           s == <<a, b>>
<1> HIDE DEF a, b
<1>2. DOMAIN s = {1, 2} /\ s[1] = a /\ s[2] = b /\ s \in Seq(NewOps)
  <2>1. a \in NewOps /\ b \in NewOps
    BY <1>1 DEF a, b
  <2> QED BY <2>1, Two
<1>3. SettlesAt(s, 1, 2)
  BY <1>2 DEF SettlesAt, a, b
<1>4. Settles(s)
  BY <1>2, <1>3 DEF Settles
<1>5. \A i \in DOMAIN s : s[i][1] \in {"preview", "ctx"}
  BY <1>2 DEF a, b
<1>6. s = ClearPreview
  BY DEF ClearPreview, a, b
<1> HIDE DEF s
<1> QED BY <1>2, <1>4, <1>5, <1>6 DEF Plain, Piece, Closed

(* which is not yet known,                                                  *)
LEMMA ResetPlain ==
    ASSUME TypeOK, NEW n \in 1 .. 2, NEW k \in 1 .. n, NEW auto \in BOOLEAN, Drafts(n)
    PROVE  Plain(Reset(New(k, auto)))
<1> DEFINE v == New(k, auto)
           p == <<"preview", v>>
           h == <<"handoff", Ready>>
           c == <<"ctx", TRUE>>
<1>0. drafts \in Nat
  BY SessionAssumption DEF TypeOK
<1>1. v \in Previews /\ v.id > drafts /\ v.id <= drafts' /\ v # None /\ v.auto = auto
  <2>1. drafts + k \in 1 .. MaxDrafts /\ drafts' = drafts + n
    BY <1>0, SessionAssumption DEF Drafts
  <2>2. v \in Previews
    BY <2>1 DEF New, Previews, Automations, JobPreviews
  <2>3. v.id = drafts + k /\ v.auto = auto
    BY DEF New
  <2>4. v # None
    BY <2>2, AbsentAssumption
  <2>5. drafts + k > drafts /\ drafts + k <= drafts'
    BY <1>0, <2>1
  <2> QED BY <2>2, <2>3, <2>4, <2>5
<1>2. p \in NewOps
  BY <1>1 DEF NewOps, Ops, IsNote
<1>3. h \in NewOps /\ c \in NewOps
  BY DEF NewOps, Ops, IsNote, Handoffs, Statuses, Ready
<1> HIDE DEF v
<1>4. Reset(v) = IF auto THEN <<p, c>> ELSE <<p, h, c>>
  <2>1. <<p>> \o <<>> = <<p>>
    <3>1. <<p>> \in Seq(NewOps)
      BY <1>2
    <3> QED BY <3>1, ConcatEmptySeq
  <2>2. <<p>> \o <<c>> = <<p, c>> /\ <<p>> \o <<h>> = <<p, h>> /\ <<p, h>> \o <<c>> = <<p, h, c>>
    BY Pair, Triple
  <2>3. Reset(v) = (<<p>> \o (IF auto THEN <<>> ELSE <<h>>)) \o <<c>>
    BY <1>1 DEF Reset
  <2>4. CASE auto
    BY <2>1, <2>2, <2>3, <2>4, Zenon
  <2>5. CASE ~auto
    BY <2>2, <2>3, <2>5, Zenon
  <2> QED BY <2>4, <2>5
<1> HIDE DEF p, h, c
<1>5. Plain(<<p, c>>)
  <2>1. <<p, c>> \in Seq(NewOps) /\ DOMAIN <<p, c>> = {1, 2} /\ <<p, c>>[1] = p /\ <<p, c>>[2] = c
    BY <1>2, <1>3, Two, Zenon
  <2>2. SettlesAt(<<p, c>>, 1, 2)
    BY <1>1, <2>1 DEF SettlesAt, p, c
  <2>3. Settles(<<p, c>>)
    BY <2>1, <2>2 DEF Settles
  <2>4. \A i \in DOMAIN <<p, c>> : <<p, c>>[i][1] \in {"preview", "ctx"}
    BY <2>1 DEF p, c
  <2> QED BY <2>1, <2>3, <2>4 DEF Plain, Piece, Closed
<1>6. Plain(<<p, h, c>>)
  <2>1. <<p, h, c>> \in Seq(NewOps) /\ DOMAIN <<p, h, c>> = {1, 2, 3} /\ <<p, h, c>>[1] = p
        /\ <<p, h, c>>[2] = h /\ <<p, h, c>>[3] = c
    <3>1. <<p, h, c>> \in Seq(NewOps)
      BY <1>2, <1>3, Three
    <3> QED BY <3>1
  <2>0. p[1] = "preview" /\ p[2] = v /\ h[1] = "handoff" /\ c[1] = "ctx" /\ c[2] = TRUE
    BY DEF p, h, c
  <2>2. SettlesAt(<<p, h, c>>, 1, 3)
    BY <1>1, <2>0, <2>1 DEF SettlesAt
  <2>3. Settles(<<p, h, c>>)
    BY <2>1, <2>2 DEF Settles
  <2>4. \A i \in DOMAIN <<p, h, c>> : <<p, h, c>>[i][1] \in {"preview", "ctx", "handoff"}
    BY <2>1 DEF p, h, c
  <2> QED BY <2>1, <2>3, <2>4 DEF Plain, Piece, Closed
<1> QED BY <1>4, <1>5, <1>6 DEF v

(* in each of the ways the handlers make it.                                *)
LEMMA ResetsPlain ==
    ASSUME TypeOK
    PROVE  /\ Drafts(1) => Plain(Reset(New(1, FALSE))) /\ Plain(Reset(New(1, TRUE)))
           /\ Drafts(2) => Plain(Reset(New(1, FALSE))) /\ Plain(Reset(New(2, FALSE)))
<1>1. 1 \in 1 .. 2 /\ 2 \in 1 .. 2 /\ 1 \in 1 .. 1 /\ TRUE \in BOOLEAN /\ FALSE \in BOOLEAN
  OBVIOUS
<1> QED BY <1>1, ResetPlain

-----------------------------------------------------------------------------
(* What a request begins with *)

(* A program as a request begins it: the clearing of a chat, or one that    *)
(* settles preview and context.                                             *)
Begun(t, s) ==
    /\ s \in Seq(NewOps) /\ Shaped(t, s)
    /\ s = Clears \/ (Closed(s) /\ \A i \in DOMAIN s : s[i][1] # "unlink")

(* Turns and touches may follow anything.                                   *)
Quiet(u) == \A i \in DOMAIN u : u[i][1] \in {"turn", "touch"} /\ ~IsNote(u[i])

(* They may end a program that begins.                                      *)
LEMMA QuietEnd ==
    ASSUME NEW t, NEW s, NEW u, Begun(t, s), s # Clears, Plain(u), Quiet(u)
    PROVE  Begun(t, s \o u) /\ (s # <<>> => s \o u # <<>>)
<1>1. s \in Seq(Ops) /\ u \in Seq(Ops) /\ Shaped(t, u) /\ Shaped(t, s) /\ Piece(s) /\ Piece(u)
  BY NewAreOps, PlainShaped DEF Begun, Piece, Plain
<1>2. \A i \in DOMAIN s, k \in DOMAIN u : Before(s[i], u[k])
  BY DEF Before, Quiet
<1>3. Shaped(t, s \o u)
  BY <1>1, <1>2, ShapedJoin
<1>4. Piece(s \o u)
  BY <1>1, PieceJoin
<1>5. s # <<>> => s \o u # <<>>
  BY <1>1, ConcatEqualIffEmpty
<1> QED BY <1>3, <1>4, <1>5 DEF Begun, Piece

(* The words of a handler are such.                                         *)
LEMMA QuietWords ==
    ASSUME NEW t \in Requests
    PROVE  /\ Plain(Asked(t)) /\ Quiet(Asked(t)) /\ Plain(Says(t)) /\ Quiet(Says(t))
           /\ Plain(Traced) /\ Quiet(Traced) /\ Quiet(<<>>)
BY Words, Touches DEF Quiet, Asked, Says, Traced, IsNote

(* What precedes a lane.                                                    *)
Front(t, submits) == << <<"ingest", Jobs>> >> \o (IF submits THEN <<>> ELSE << <<"surface">> >>)
    \o Asked(t)

(* It begins a program.                                                     *)
LEMMA FrontBegun ==
    ASSUME NEW t \in Requests, NEW submits \in BOOLEAN
    PROVE  /\ Begun(t, Front(t, submits)) /\ Front(t, submits) # Clears
           /\ \A i \in DOMAIN Front(t, submits) :
                 Front(t, submits)[i][1] \in {"ingest", "surface", "turn"}
                     /\ ~IsNote(Front(t, submits)[i])
<1> DEFINE a == <<"ingest", Jobs>>
           b == <<"surface">>
           c == <<"turn", <<"user", t>> >>
<1>1. a \in NewOps /\ b \in NewOps /\ c \in NewOps
  BY DEF NewOps, Ops, IsNote, Turns
<1>2. a[1] = "ingest" /\ b[1] = "surface" /\ c[1] = "turn" /\ c = UserTurn(t)
      /\ ~IsNote(a) /\ ~IsNote(b) /\ ~IsNote(c)
  BY DEF IsNote, UserTurn
<1>3. Front(t, submits) = (<<a>> \o (IF submits THEN <<>> ELSE <<b>>)) \o <<c>>
  BY DEF Front, Asked
<1> HIDE DEF a, b, c
<1>4. Front(t, submits) = IF submits THEN <<a, c>> ELSE <<a, b, c>>
  <2>1. <<a>> \in Seq(NewOps)
    BY <1>1
  <2>2. <<a>> \o <<>> = <<a>>
    BY <2>1, ConcatEmptySeq
  <2>3. <<a>> \o <<c>> = <<a, c>> /\ <<a>> \o <<b>> = <<a, b>> /\ <<a, b>> \o <<c>> = <<a, b, c>>
    BY Pair, Triple
  <2>4. CASE submits
    BY <2>2, <2>3, <1>3, <2>4, Zenon
  <2>5. CASE ~submits
    BY <2>3, <1>3, <2>5, Zenon
  <2> QED BY <2>4, <2>5
<1>5. CASE submits
  <2> DEFINE s == <<a, c>>
  <2>1. s \in Seq(NewOps) /\ DOMAIN s = {1, 2} /\ s[1] = a /\ s[2] = c
    BY <1>1, Two
  <2> HIDE DEF s
  <2>2. Shaped(t, s)
    BY <1>2, <2>1 DEF Shaped, Before
  <2>3. Begun(t, s)
    BY <1>2, <2>1, <2>2 DEF Begun, Closed
  <2>4. s # Clears
    <3>1. Clears[1][1] = "unlink" /\ s[1][1] = "ingest"
      BY <1>2, <2>1 DEF Clears
    <3> QED BY <3>1
  <2>5. Front(t, submits) = s
    BY <1>4, <1>5 DEF s
  <2> QED BY <1>2, <2>1, <2>3, <2>4, <2>5
<1>6. CASE ~submits
  <2> DEFINE s == <<a, b, c>>
  <2>1. s \in Seq(NewOps) /\ DOMAIN s = {1, 2, 3} /\ s[1] = a /\ s[2] = b /\ s[3] = c
    BY <1>1, Three
  <2> HIDE DEF s
  <2>2. Shaped(t, s)
    BY <1>2, <2>1 DEF Shaped, Before
  <2>3. Begun(t, s)
    BY <1>2, <2>1, <2>2 DEF Begun, Closed
  <2>4. s # Clears
    <3>1. Clears[1][1] = "unlink" /\ s[1][1] = "ingest"
      BY <1>2, <2>1 DEF Clears
    <3> QED BY <3>1
  <2>5. Front(t, submits) = s
    BY <1>4, <1>6 DEF s
  <2> QED BY <1>2, <2>1, <2>3, <2>4, <2>5
<1> QED BY <1>5, <1>6

(* What may follow it.                                                      *)
Lane(t, s) ==
    Piece(s) /\ Shaped(t, s) /\ \A i \in DOMAIN s : s[i][1] \notin {"ingest", "surface"}

(* Together they begin a program.                                           *)
LEMMA LaneAfter ==
    ASSUME NEW t \in Requests, NEW submits \in BOOLEAN, NEW s, Lane(t, s)
    PROVE  Begun(t, Front(t, submits) \o s) /\ Front(t, submits) \o s # Clears
<1> DEFINE f == Front(t, submits)
<1>1. /\ Begun(t, f) /\ f # Clears /\ f \in Seq(Ops) /\ Piece(f) /\ Shaped(t, f)
      /\ \A i \in DOMAIN f : f[i][1] \in {"ingest", "surface", "turn"} /\ ~IsNote(f[i])
  BY FrontBegun, NewAreOps DEF Begun, Piece
<1>2. s \in Seq(Ops) /\ \A i \in DOMAIN s : s[i] \in NewOps
  BY NewAreOps DEF Lane, Piece
<1> HIDE DEF f
<1>3. \A i \in DOMAIN f, k \in DOMAIN s : Before(f[i], s[k])
  BY <1>1, <1>2 DEF Before, Lane, NewOps
<1>4. Shaped(t, f \o s) /\ Piece(f \o s)
  BY <1>1, <1>2, <1>3, ShapedJoin, PieceJoin DEF Lane
<1>5. f \o s # Clears
  <2>1. \A i \in DOMAIN (f \o s) : (f \o s)[i][1] # "unlink"
    BY <1>4 DEF Piece
  <2>2. 1 \in DOMAIN Clears /\ Clears[1][1] = "unlink"
    BY DEF Clears
  <2> QED BY <2>1, <2>2
<1> QED BY <1>4, <1>5 DEF Begun, Piece, f

(* A plain piece is a lane.                                                 *)
LEMMA PlainLane == ASSUME NEW t, NEW s, Plain(s) PROVE Lane(t, s)
BY PlainShaped DEF Lane, Plain

(* Lanes with a submission or a wait.                                       *)
LEMMA TwoOpLane ==
    ASSUME NEW t, NEW a \in NewOps, NEW b \in NewOps, Before(a, b),
           a[1] \notin {"ingest", "surface", "preview", "ctx", "unlink"},
           b[1] \notin {"ingest", "surface", "preview", "ctx", "unlink"}
    PROVE  Lane(t, <<a, b>>)
<1> DEFINE s == <<a, b>>
<1>1. s \in Seq(NewOps) /\ DOMAIN s = {1, 2} /\ s[1] = a /\ s[2] = b
  BY Two
<1> HIDE DEF s
<1>2. \A i, k \in DOMAIN s : i < k => i = 1 /\ k = 2
  BY <1>1
<1>3. a[1] # "deliver" /\ b[1] # "deliver"
  BY DEF NewOps
<1>4. Shaped(t, s)
  BY <1>1, <1>2, <1>3 DEF Shaped
<1>5. Piece(s)
  BY <1>1 DEF Piece, Closed
<1> QED BY <1>1, <1>4, <1>5 DEF Lane, s

(* So is one op that is no preview,                                         *)
LEMMA OneOpLane ==
    ASSUME NEW t, NEW a \in NewOps, a[1] \notin {"ingest", "surface", "preview", "ctx", "unlink"}
    PROVE  Lane(t, <<a>>)
<1> DEFINE s == <<a>>
<1>1. s \in Seq(NewOps) /\ DOMAIN s = {1} /\ s[1] = a
  OBVIOUS
<1> HIDE DEF s
<1>2. ~\E i, k \in DOMAIN s : i < k
  BY <1>1
<1>3. a[1] # "deliver"
  BY DEF NewOps
<1>4. Shaped(t, s)
  BY <1>1, <1>2, <1>3 DEF Shaped
<1>5. Piece(s)
  BY <1>1 DEF Piece, Closed
<1> QED BY <1>1, <1>4, <1>5 DEF Lane, s

(* a wait or a submission.                                                  *)
LEMMA OpsToBegin ==
    ASSUME Contents.preview \in Previews \cup {None}
    PROVE
    /\ {<<"wait">>, <<"touch">>} \subseteq NewOps
    /\ <<"submit", Contents.preview>> \in NewOps
<1>1. {<<"wait">>, <<"touch">>} \subseteq NewOps
  BY DEF NewOps, Ops, IsNote
<1>2. <<"submit", Contents.preview>> \in NewOps
  <2> DEFINE v == Contents.preview
  <2> HIDE DEF v
  <2>1. <<"submit", v>> \in Ops
    BY DEF Ops, v
  <2> QED BY <2>1 DEF NewOps, IsNote, v
<1> QED BY <1>1, <1>2

(* A turn begins with a lane,                                               *)
LEMMA TurnBegins ==
    ASSUME NEW t \in Requests, NEW submits \in BOOLEAN, NEW s, Lane(t, s), Turn(t, submits, s)
    PROVE  \E b : Begun(t, b) /\ prog' = [prog EXCEPT ![t] = b]
<1> DEFINE b == Front(t, submits) \o s
           c == b \o Says(t)
           d == c \o Traced
<1>1. Begun(t, b) /\ b # Clears
  BY LaneAfter
<1> HIDE DEF b
<1>2. Begun(t, c)
  BY <1>1, QuietEnd, QuietWords
<1>3. c # Clears
  <2>1. b \in Seq(Ops) /\ Says(t) \in Seq(Ops) /\ Says(t) # <<>>
            /\ Says(t)[Len(Says(t))][1] = "turn"
    BY <1>1, QuietWords, NewAreOps DEF Begun, Plain, Piece, Says
  <2>2. Says(t) = << <<"turn", <<"vera", t>> >> >> /\ Len(Says(t)) = 1 /\ 1 \in DOMAIN Says(t)
    BY DEF Says
  <2>3. c[1 + Len(b)] = <<"turn", <<"vera", t>> >> /\ 1 + Len(b) \in DOMAIN c /\ Len(b) \in Nat
    BY <2>1, <2>2, Joined
  <2>4. \A i \in DOMAIN Clears : Clears[i][1] \in {"unlink", "ctx", "touch"}
    BY DEF Clears
  <2> QED BY <2>3, <2>4
<1> HIDE DEF c
<1>4. Begun(t, d)
  BY <1>2, <1>3, QuietEnd, QuietWords
<1>5. prog' = [prog EXCEPT ![t] = d]
  BY DEF Turn, Front, b, c, d
<1> QED BY <1>4, <1>5

(* an early exit with its own,                                              *)
LEMMA EarlyExitBegins ==
    ASSUME TypeOK, NEW t \in Requests, EarlyExit(t)
    PROVE  \E b : Begun(t, b) /\ prog' = [prog EXCEPT ![t] = b]
<1>1. CASE \E s \in {<<>>, << <<"touch">> >>} : Turn(t, FALSE, s)
  BY <1>1, NothingPlain, Touches, PlainLane, TurnBegins
<1>2. CASE Drafts(1) /\ Turn(t, FALSE, Reset(New(1, FALSE)) \o << <<"touch">> >>)
  <2>1. Plain(Reset(New(1, FALSE)) \o << <<"touch">> >>)
    BY <1>2, ResetsPlain, Touches, PlainJoin
  <2> QED BY <1>2, <2>1, PlainLane, TurnBegins
<1> QED BY <1>1, <1>2 DEF EarlyExit

(* and one that asks the model with a wait.                                 *)
LEMMA AskModelBegins ==
    ASSUME TypeOK, NEW t \in Requests, AskModel(t)
    PROVE  \E b : Begun(t, b) /\ prog' = [prog EXCEPT ![t] = b]
<1>1. PICK n \in {0, 1}, search \in BOOLEAN :
          /\ Drafts(n)
          /\ prog' = [prog EXCEPT ![t] =
                 << <<"ingest", Jobs>>, <<"surface">> >> \o Asked(t)
                 \o (IF n = 1 THEN Reset(New(1, FALSE)) ELSE <<>>)
                 \o (IF search THEN << <<"wait">>, <<"touch">> >> ELSE <<>>)
                 \o << <<"touch">>, <<"wait">> >>]
  BY DEF AskModel
<1> DEFINE r == IF n = 1 THEN Reset(New(1, FALSE)) ELSE <<>>
           w == IF search THEN << <<"wait">>, <<"touch">> >> ELSE <<>>
           e == << <<"touch">>, <<"wait">> >>
           f == << <<"ingest", Jobs>>, <<"surface">> >> \o Asked(t)
           g == f \o r
           h == g \o w
<1>2. f = Front(t, FALSE)
  <2>1. << <<"ingest", Jobs>> >> \o << <<"surface">> >> = << <<"ingest", Jobs>>, <<"surface">> >>
    BY Pair
  <2> QED BY <2>1, Zenon DEF Front
<1>3. Plain(r)
  BY <1>1, ResetsPlain, NothingPlain
<1>4. Lane(t, w) /\ \A i \in DOMAIN w : w[i][1] \in {"wait", "touch"}
  <2>1. <<"wait">> \in NewOps /\ <<"touch">> \in NewOps /\ Before(<<"wait">>, <<"touch">>)
    BY OpsToBegin DEF TypeOK, NewOps, Ops, IsNote, Before
  <2>2. Lane(t, << <<"wait">>, <<"touch">> >>)
    BY <2>1, TwoOpLane
  <2>3. Lane(t, <<>>)
    BY NothingPlain, PlainLane
  <2> QED BY <2>2, <2>3
<1>5. Lane(t, e) /\ \A i \in DOMAIN e : e[i][1] \in {"wait", "touch"}
  <2>1. <<"wait">> \in NewOps /\ <<"touch">> \in NewOps /\ Before(<<"touch">>, <<"wait">>)
    BY DEF NewOps, Ops, IsNote, Before
  <2> QED BY <2>1, TwoOpLane
<1> HIDE DEF r, w, e
<1>6. Begun(t, g) /\ g # Clears
  BY <1>2, <1>3, PlainLane, LaneAfter
<1>7. \A i \in DOMAIN g : g[i][1] # "submit"
  <2>1. /\ f \in Seq(Ops) /\ r \in Seq(Ops)
        /\ \A i \in DOMAIN f : f[i][1] # "submit"
        /\ \A i \in DOMAIN r : r[i][1] # "submit"
    BY <1>2, <1>3, FrontBegun, NewAreOps DEF Begun, Plain, Piece
  <2> HIDE DEF f
  <2> QED BY <2>1, Joined
<1> HIDE DEF f, g
<1>8. ASSUME NEW x, NEW u, x \in Seq(Ops), Shaped(t, x), Piece(x),
             \A i \in DOMAIN x : x[i][1] # "submit",
             Lane(t, u), \A i \in DOMAIN u : u[i][1] \in {"wait", "touch"}
      PROVE  Shaped(t, x \o u) /\ Piece(x \o u)
                 /\ \A i \in DOMAIN (x \o u) : (x \o u)[i][1] # "submit"
  <2>1. u \in Seq(Ops) /\ Piece(u) /\ Shaped(t, u) /\ \A i \in DOMAIN u : ~IsNote(u[i])
    BY <1>8, NewAreOps DEF Lane, Piece, IsNote
  <2>2. \A i \in DOMAIN x, k \in DOMAIN u : Before(x[i], u[k])
    BY <1>8, <2>1 DEF Before
  <2> QED BY <1>8, <2>1, <2>2, ShapedJoin, PieceJoin, Joined
<1>9. g \in Seq(Ops) /\ Shaped(t, g) /\ Piece(g)
  BY <1>6, NewAreOps DEF Begun, Piece
<1>10. Shaped(t, h) /\ Piece(h) /\ \A i \in DOMAIN h : h[i][1] # "submit"
  BY <1>4, <1>7, <1>8, <1>9
<1> HIDE DEF h
<1>11. h \in Seq(Ops)
  BY <1>10, NewAreOps DEF Piece
<1>12. Begun(t, h \o e)
  BY <1>5, <1>8, <1>10, <1>11 DEF Begun, Piece
<1>13. prog' = [prog EXCEPT ![t] = h \o e]
  BY <1>1 DEF h, g, f, r, w, e
<1> QED BY <1>12, <1>13

(* Every chat turn, handoff and clearing begins in this way.                *)
LEMMA ChatBegins ==
    ASSUME TypeOK, NEW t \in Requests, Chat(t)
    PROVE  /\ Begins(t) /\ (\E n \in {0, 1} : Drafts(n))
           /\ \E b : Begun(t, b) /\ prog' = [prog EXCEPT ![t] = b]
<1>0. Contents.preview \in Previews \cup {None}
  BY DEF TypeOK, Contents, Payloads, Default
<1>1. CASE EarlyExit(t)
  BY <1>1, EarlyExitBegins DEF EarlyExit
<1>2. CASE Weather(t)
  <2>1. <<"wait">> \in NewOps /\ <<"touch">> \in NewOps /\ Before(<<"wait">>, <<"touch">>)
    BY DEF NewOps, Ops, IsNote, Before
  <2>2. Lane(t, << <<"wait">>, <<"touch">> >>)
    BY <2>1, TwoOpLane
  <2> QED BY <1>2, <2>2, TurnBegins DEF Weather
<1>3. CASE SubmitWithoutPreview(t)
  <2>1. <<"submit", None>> \in NewOps
    BY <1>0, <1>3, OpsToBegin DEF SubmitWithoutPreview
  <2>2. Lane(t, << <<"submit", None>> >>)
    BY <2>1, OneOpLane
  <2> QED BY <1>3, <2>2, TurnBegins DEF SubmitWithoutPreview
<1>4. CASE SubmitAutomation(t)
  <2>1. Plain(SavesAutomation)
    BY ClearPlain, Touches, PlainJoin DEF SavesAutomation
  <2> QED BY <1>4, <2>1, PlainLane, TurnBegins DEF SubmitAutomation
<1>5. CASE SubmitActive(t)
  <2> DEFINE a == <<"touch">>
             b == <<"submit", Contents.preview>>
  <2>1. a \in NewOps /\ b \in NewOps /\ a[1] = "touch" /\ b[1] = "submit"
    BY <1>0, OpsToBegin
  <2>2. Turn(t, TRUE, <<a, b>>)
    BY <1>5 DEF SubmitActive
  <2> HIDE DEF a, b
  <2>3. Before(a, b)
    BY <2>1 DEF Before, IsNote
  <2>4. Lane(t, <<a, b>>)
    BY <2>1, <2>3, TwoOpLane
  <2> QED BY <1>5, <2>2, <2>4, TurnBegins DEF SubmitActive
<1>6. CASE Refuses(t)
  BY <1>6, NothingPlain, PlainLane, TurnBegins DEF Refuses
<1>7. CASE DraftAutomation(t)
  <2>1. Plain(Reset(New(1, TRUE)))
    BY <1>7, ResetsPlain DEF DraftAutomation
  <2> QED BY <1>7, <2>1, PlainLane, TurnBegins DEF DraftAutomation
<1>8. CASE ManageAutomation(t)
  BY <1>8, Touches, PlainLane, TurnBegins DEF ManageAutomation
<1>9. CASE ApplySuggestion(t)
  <2>1. Plain(Reset(New(1, FALSE)) \o << <<"touch">> >>)
    BY <1>9, ResetsPlain, Touches, PlainJoin DEF ApplySuggestion
  <2> QED BY <1>9, <2>1, PlainLane, TurnBegins DEF ApplySuggestion
<1>10. CASE AskModel(t)
  BY <1>10, AskModelBegins DEF AskModel
<1> QED BY <1>1, <1>2, <1>3, <1>4, <1>5, <1>6, <1>7, <1>8, <1>9, <1>10 DEF Chat

(* A plain piece begins a program,                                          *)
LEMMA PlainBegun == ASSUME NEW t, NEW s, Plain(s) PROVE Begun(t, s)
BY PlainShaped DEF Begun, Plain, Piece

(* as does a handoff from the page                                          *)
LEMMA HandoffBegins ==
    ASSUME TypeOK, NEW t \in Requests, Handoff(t)
    PROVE  /\ Begins(t) /\ (\E n \in {0, 1} : Drafts(n))
           /\ \E b : Begun(t, b) /\ prog' = [prog EXCEPT ![t] = b]
<1>0. Contents.preview \in Previews \cup {None}
  BY DEF TypeOK, Contents, Payloads, Default
<1> DEFINE v == Contents.preview
           l == IF v \in Automations THEN SavesAutomation ELSE << <<"submit", v>> >>
           f == Asked(t) \o l
<1>1. Lane(t, l)
  <2>1. Plain(SavesAutomation)
    BY ClearPlain, Touches, PlainJoin DEF SavesAutomation
  <2>2. Lane(t, << <<"submit", v>> >>)
    BY <1>0, OpsToBegin, OneOpLane
  <2> QED BY <2>1, <2>2, PlainLane
<1>2. Begins(t) /\ Drafts(0) /\ prog' = [prog EXCEPT ![t] = f \o Says(t)]
  BY DEF Handoff
<1> HIDE DEF l
<1>3. /\ Asked(t) \in Seq(Ops) /\ Piece(Asked(t)) /\ Shaped(t, Asked(t))
      /\ \A i \in DOMAIN Asked(t) : Asked(t)[i][1] = "turn" /\ ~IsNote(Asked(t)[i])
  <2>1. \A i \in DOMAIN Asked(t) : Asked(t)[i][1] = "turn" /\ ~IsNote(Asked(t)[i])
    BY DEF Asked, IsNote
  <2> QED BY <2>1, Words, PlainShaped DEF Plain
<1>4. l \in Seq(Ops) /\ \A i \in DOMAIN l : l[i] \in NewOps
  BY <1>1, NewAreOps DEF Lane, Piece
<1>5. \A i \in DOMAIN Asked(t), k \in DOMAIN l : Before(Asked(t)[i], l[k])
  BY <1>1, <1>3, <1>4 DEF Before, Lane, NewOps
<1>6. Shaped(t, f) /\ Piece(f)
  BY <1>1, <1>3, <1>4, <1>5, ShapedJoin, PieceJoin DEF Lane
<1>7. f # Clears
  <2>1. \A i \in DOMAIN f : f[i][1] # "unlink"
    BY <1>6 DEF Piece
  <2>2. 1 \in DOMAIN Clears /\ Clears[1][1] = "unlink"
    BY DEF Clears
  <2> QED BY <2>1, <2>2
<1> HIDE DEF f
<1>8. Begun(t, f \o Says(t))
  BY <1>6, <1>7, QuietEnd, QuietWords DEF Begun, Piece
<1> QED BY <1>2, <1>8

(* and the clearing of a chat.                                              *)
LEMMA ClearBegins ==
    ASSUME TypeOK, NEW t \in Requests, Clear(t)
    PROVE  /\ Begins(t) /\ (\E n \in {0, 1} : Drafts(n))
           /\ \E b : Begun(t, b) /\ prog' = [prog EXCEPT ![t] = b]
<1> DEFINE a == <<"unlink">>
           b == <<"ctx", FALSE>>
           c == <<"touch">>
<1>1. a \in NewOps /\ b \in NewOps /\ c \in NewOps /\ a[1] = "unlink" /\ b[1] = "ctx"
          /\ c[1] = "touch"
  <2>1. a \in Ops /\ b \in Ops /\ c \in Ops
    BY DEF Ops
  <2> QED BY <2>1 DEF NewOps, IsNote
<1>2. Clears = <<a, b, c>>
  BY DEF Clears
<1> HIDE DEF a, b, c
<1>3. Clears \in Seq(NewOps) /\ DOMAIN Clears = {1, 2, 3} /\ Clears[1] = a /\ Clears[2] = b
          /\ Clears[3] = c
  BY <1>1, <1>2, Three
<1>4. Shaped(t, Clears)
  BY <1>1, <1>3 DEF Shaped, Before, IsNote
<1>5. Begun(t, Clears)
  BY <1>3, <1>4 DEF Begun
<1>6. prog' = [prog EXCEPT ![t] = Clears] /\ Begins(t) /\ Drafts(0)
  BY DEF Clear, Clears
<1> QED BY <1>5, <1>6

(* So do the resumptions of a turn that waited, but for what it had still   *)
(* to do.                                                                   *)
LEMMA AnswerBegins ==
    ASSUME TypeOK, NEW t \in Requests, Answered(t)
    PROVE  Resumes(t) /\ (\E n \in 0 .. 2 : Drafts(n)) /\ \E b : Plain(b)
               /\ prog' = [prog EXCEPT ![t] = b]
<1>1. PICK n \in 0 .. 2, drop \in BOOLEAN :
          /\ Drafts(n)
          /\ prog' = [prog EXCEPT ![t] =
                 (IF n >= 1 THEN Reset(New(1, FALSE)) ELSE <<>>)
                 \o << <<"touch">> >>
                 \o (IF n = 2 THEN Reset(New(2, FALSE)) ELSE <<>>)
                 \o (IF drop THEN ClearPreview ELSE <<>>) \o Says(t) \o Traced]
  BY DEF Answered
<1> DEFINE r == IF n >= 1 THEN Reset(New(1, FALSE)) ELSE <<>>
           w == << <<"touch">> >>
           q == IF n = 2 THEN Reset(New(2, FALSE)) ELSE <<>>
           d == IF drop THEN ClearPreview ELSE <<>>
<1>2. Plain(r) /\ Plain(q)
  <2> DEFINE one == Reset(New(1, FALSE))
             two == Reset(New(2, FALSE))
  <2>0. (Drafts(1) => Plain(one)) /\ (Drafts(2) => Plain(one) /\ Plain(two)) /\ Plain(<<>>)
    BY ResetsPlain, NothingPlain
  <2> HIDE DEF one, two
  <2>1. r = IF n >= 1 THEN one ELSE <<>>
    BY DEF one
  <2>2. q = IF n = 2 THEN two ELSE <<>>
    BY DEF two
  <2> HIDE DEF r, q
  <2>3. n = 0 \/ n = 1 \/ n = 2
    OBVIOUS
  <2>4. Plain(r)
    BY <1>1, <2>0, <2>1, <2>3
  <2> QED BY <1>1, <2>0, <2>2, <2>3, <2>4
<1>3. Plain(w) /\ Plain(d)
  BY Touches, ClearPlain, NothingPlain
<1>4. prog' = [prog EXCEPT ![t] = ((((r \o w) \o q) \o d) \o Says(t)) \o Traced]
  BY <1>1
<1> HIDE DEF r, w, q, d
<1>5. Plain(((((r \o w) \o q) \o d) \o Says(t)) \o Traced)
  BY <1>2, <1>3, PlainJoin, QuietWords
<1> QED BY <1>1, <1>4, <1>5 DEF Answered

-----------------------------------------------------------------------------
(* What programs are made of *)

(* The previews drafted so far.                                             *)
Known == {v \in Previews : v.id <= drafts} \cup {None}

(* An op of p, as far as what it writes goes: a submission of what p saw,   *)
(* a preview that is known, a note of a job that is reported.               *)
OpGood(p, x) ==
    /\ p # Daemon /\ x[1] = "submit" => x[2] = seen[p]
    /\ x[1] = "preview" => x[2] \in Known
    /\ \A j \in Jobs : x = <<"turn", <<"note", j>> >> => state[j] = "reported"

(* A program of p.                                                          *)
ProgGood(p, s) ==
    /\ s \in Seq(Ops)
    /\ \A i \in DOMAIN s : OpGood(p, s[i])
    /\ IF p = Daemon THEN DaemonShaped(s) ELSE Shaped(p, s)

(* Everybody's program is such, and only the request at work has more than  *)
(* asides to do.                                                            *)
Programs ==
    /\ \A p \in Procs : ProgGood(p, prog[p])
    /\ \A t \in Requests : loop # t => \A i \in DOMAIN prog[t] : Aside(prog[t][i])

(* Whatever holds a preview holds a known one.                              *)
Names ==
    /\ file \notin {NoFile, Torn} => file.preview \in Known
    /\ \A p \in Procs : copy[p].preview \in Known
    /\ \A t \in Requests : seen[t] \in Known
    /\ \A j \in Jobs : sent[j] # None => sent[j].preview \in Known

(* A job is in the queue since a request that has come in submitted it.     *)
Submitters ==
    \A j \in Jobs :
        /\ sent[j] = None <=> state[j] = "none"
        /\ sent[j] # None => at[sent[j].by] # "idle"

(* What holds in every state, whatever fails.                               *)
Base == TypeOK /\ AtOk /\ Programs /\ Names /\ Submitters

(* Nothing becomes unknown, unsaid or undone.                               *)
Onward ==
    /\ drafts' \in Nat /\ drafts <= drafts'
    /\ \A j \in Jobs : state[j] = "reported" => state'[j] = "reported"

(* So an op stays good,                                                     *)
LEMMA OpStays ==
    ASSUME Base, Onward, NEW p \in Procs, NEW x, OpGood(p, x), p # Daemon => seen'[p] = seen[p]
    PROVE  OpGood(p, x)'
<1>1. Known \subseteq Known'
  <2> SUFFICES ASSUME NEW v \in Previews, v.id <= drafts PROVE v.id <= drafts'
    BY DEF Known
  <2>1. v.id \in 1 .. MaxDrafts
    BY DEF Previews, Automations, JobPreviews
  <2>2. drafts \in 0 .. MaxDrafts /\ MaxDrafts \in Nat
    BY SessionAssumption DEF Base, TypeOK
  <2> QED BY <2>1, <2>2 DEF Onward
<1>2. x[1] = "preview" => x[2] \in Known'
  BY <1>1 DEF OpGood
<1>3. \A j \in Jobs : x = <<"turn", <<"note", j>> >> => state'[j] = "reported"
  BY DEF OpGood, Onward
<1>4. p # Daemon /\ x[1] = "submit" => x[2] = seen'[p]
  BY DEF OpGood
<1> QED BY <1>2, <1>3, <1>4 DEF OpGood

(* what is left of a program is good,                                       *)
LEMMA TailGood ==
    ASSUME NEW p, NEW s, ProgGood(p, s), s # <<>>
    PROVE  ProgGood(p, Tail(s))
<1>1. s \in Seq(Ops)
  BY DEF ProgGood
<1>2. Tail(s) \in Seq(Ops) /\ \A i \in DOMAIN Tail(s) : OpGood(p, Tail(s)[i])
  BY <1>1, Shorter DEF ProgGood
<1>3. CASE p # Daemon
  BY <1>1, <1>2, <1>3, ShapedTail DEF ProgGood
<1>4. CASE p = Daemon
  <2>1. DaemonShaped(s)
    BY <1>4 DEF ProgGood
  <2>2. DaemonShaped(Tail(s))
    <3>1. ASSUME NEW a, NEW b, s = <<a, b>> PROVE Tail(s) = <<b>>
      BY <3>1
    <3>2. ASSUME NEW a, s = <<a>> PROVE Tail(s) = <<>>
      BY <3>2
    <3>3. CASE \E j \in Jobs : s = << <<"ingest", {j}>>, <<"deliver", j>> >>
      BY <3>1, <3>3, Zenon DEF DaemonShaped
    <3>4. CASE \E j \in Jobs, r \in Registries : s = << <<"registry", r>>, <<"deliver", j>> >>
      BY <3>1, <3>4, Zenon DEF DaemonShaped
    <3>5. CASE \E j \in Jobs : s = << <<"deliver", j>> >>
      BY <3>2, <3>5, Zenon DEF DaemonShaped
    <3>6. CASE \E r \in Registries : s = << <<"registry", r>> >>
      BY <3>2, <3>6, Zenon DEF DaemonShaped
    <3>7. CASE \E j \in Jobs, r \in Registries :
                  j \in r.told /\ s = << <<"turn", <<"note", j>> >>, <<"registry", r>> >>
      BY <3>1, <3>7, Zenon DEF DaemonShaped
    <3> QED BY <2>1, <3>3, <3>4, <3>5, <3>6, <3>7 DEF DaemonShaped
  <2> QED BY <1>2, <1>4, <2>2 DEF ProgGood
<1> QED BY <1>3, <1>4

(* and an empty one.                                                        *)
LEMMA NoneGood ==
    ASSUME NEW p PROVE ProgGood(p, <<>>)
<1>1. <<>> \in Seq(Ops) /\ DOMAIN <<>> = {}
  OBVIOUS
<1>2. Shaped(p, <<>>)
  BY <1>1, Zenon DEF Shaped
<1>3. DaemonShaped(<<>>)
  BY DEF DaemonShaped
<1> QED BY <1>1, <1>2, <1>3, Zenon DEF ProgGood

(* What a request puts before the rest of its program.                      *)
LEMMA JoinGood ==
    ASSUME NEW t \in Requests, NEW s, NEW u, s \in Seq(Ops), ProgGood(t, u), Shaped(t, s),
           \A i \in DOMAIN s : OpGood(t, s[i]),
           \A i \in DOMAIN s, k \in DOMAIN u : Before(s[i], u[k])
    PROVE  ProgGood(t, s \o u)
<1>1. t # Daemon
  BY SessionAssumption
<1>2. u \in Seq(Ops) /\ Shaped(t, u) /\ \A i \in DOMAIN u : OpGood(t, u[i])
  BY <1>1 DEF ProgGood
<1>3. s \o u \in Seq(Ops) /\ Shaped(t, s \o u)
  BY <1>2, ShapedJoin
<1>4. \A i \in DOMAIN (s \o u) : OpGood(t, (s \o u)[i])
  BY <1>2, Joined
<1> QED BY <1>1, <1>3, <1>4 DEF ProgGood

(* So an ingest of a request goes on with a good program,                   *)
LEMMA IngestGood ==
    ASSUME Base, NEW t \in Requests, Ingest(t)
    PROVE  \E s : prog' = [prog EXCEPT ![t] = s] /\ ProgGood(t, s)
<1> DEFINE r == Contents.registry
           new == {j \in Head(prog[t])[2] \cap r.tracked : j \notin r.seen /\ Terminal(j)}
           reg == [r EXCEPT !.seen = @ \cup new]
           a == <<"registry", reg>>
           b == <<"touch">>
           rest == Tail(prog[t])
<1>0. t # Daemon /\ t \in Procs
  BY SessionAssumption DEF Procs
<1>1. prog[t] # <<>> /\ Head(prog[t])[1] = "ingest" /\ ProgGood(t, prog[t]) /\ ProgGood(t, rest)
  BY <1>0, TailGood DEF Ingest, Doing, Base, Programs
<1>2. CASE new = {}
  <2>1. prog' = [prog EXCEPT ![t] = rest]
    BY <1>2 DEF Ingest, Skip
  <2> QED BY <1>1, <2>1
<1>3. CASE new # {}
  <2>1. prog' = [prog EXCEPT ![t] = (<<a>> \o <<b>>) \o rest]
    BY <1>0, <1>3 DEF Ingest, Skip
  <2>2. reg \in Registries
    <3>1. r \in Registries
      BY DEF Base, TypeOK, Contents, Payloads, Default, Registries
    <3> QED BY <3>1 DEF Registries
  <2>3. a \in Ops /\ b \in Ops /\ a[1] = "registry" /\ b[1] = "touch"
    BY <2>2 DEF Ops
  <2>4. OpGood(t, a) /\ OpGood(t, b) /\ Before(a, b)
    BY <2>3 DEF OpGood, Before, IsNote
  <2> HIDE DEF reg, new, r, a, b
  <2>5. prog[t] \in Seq(Ops) /\ Shaped(t, prog[t])
    BY <1>0, <1>1 DEF ProgGood
  <2>6. \A k \in DOMAIN rest : Before(Head(prog[t]), rest[k])
    BY <1>1, <2>5, Shorter DEF Shaped
  <2>7. \A k \in DOMAIN rest : Before(a, rest[k]) /\ Before(b, rest[k])
    BY <1>1, <2>3, <2>6 DEF Before
  <2> DEFINE s == <<a, b>>
  <2>8. s = <<a>> \o <<b>>
    BY Pair
  <2>9. s \in Seq(Ops) /\ DOMAIN s = {1, 2} /\ s[1] = a /\ s[2] = b
    BY <2>3, Two
  <2> HIDE DEF s
  <2>10. Shaped(t, s)
    BY <2>3, <2>4, <2>9 DEF Shaped
  <2>11. ProgGood(t, s \o rest)
    BY <1>1, <2>4, <2>7, <2>9, <2>10, JoinGood
  <2>12. prog' = [prog EXCEPT ![t] = s \o rest]
    BY <2>1, <2>8
  <2> QED BY <2>11, <2>12
<1> QED BY <1>2, <1>3

(* as does a surfacing.                                                     *)
LEMMA SurfaceGood ==
    ASSUME Base, NEW t \in Requests, Surface(t)
    PROVE  \E s : prog' = [prog EXCEPT ![t] = s] /\ ProgGood(t, s)
<1>0. t # Daemon /\ t \in Procs
  BY SessionAssumption DEF Procs
<1>1. /\ prog[t] # <<>> /\ Head(prog[t])[1] = "surface" /\ ProgGood(t, prog[t])
      /\ prog[t] \in Seq(Ops) /\ Shaped(t, prog[t])
  BY <1>0 DEF Surface, Doing, Base, Programs, ProgGood
<1>2. CASE prog' = [prog EXCEPT ![t] = Tail(prog[t])]
  BY <1>1, <1>2, TailGood
<1>3. ASSUME NEW j \in Candidates \ Contents.registry.told, Eligible(j),
             Skip(t, << <<"registry", [Contents.registry EXCEPT !.told = @ \cup {j}]>>,
                        prog[t][2], <<"turn", <<"note", j>> >> >>
                     \o SubSeq(prog[t], 3, Len(prog[t])))
      PROVE  \E s : prog' = [prog EXCEPT ![t] = s] /\ ProgGood(t, s)
  <2> DEFINE r == Contents.registry
             reg == [r EXCEPT !.told = @ \cup {j}]
             a == <<"registry", reg>>
             b == prog[t][2]
             c == <<"turn", <<"note", j>> >>
             rest == SubSeq(prog[t], 3, Len(prog[t]))
  <2>1. r \in Registries
    BY DEF Base, TypeOK, Contents, Payloads, Default, Registries
  <2>2. j \in Jobs
    BY <1>3, <2>1 DEF Candidates, Registries
  <2>3. reg \in Registries
    BY <2>1, <2>2 DEF Registries
  <2>4. b = UserTurn(t)
    <3>1. Head(prog[t]) = prog[t][1] /\ 1 \in DOMAIN prog[t]
      BY <1>1, Shorter
    <3> QED BY <1>1, <3>1 DEF Shaped
  <2>5. a \in Ops /\ c \in Ops /\ a[1] = "registry" /\ c[1] = "turn" /\ c[2] = <<"note", j>>
    BY <2>2, <2>3 DEF Ops, Turns
  <2>6. b \in Ops /\ b[1] = "turn" /\ ~IsNote(b)
    BY <2>4 DEF Ops, Turns, UserTurn, IsNote
  <2>7. OpGood(t, a) /\ OpGood(t, b) /\ OpGood(t, c)
    <3>1. \A k \in Jobs : c = <<"turn", <<"note", k>> >> => k = j
      OBVIOUS
    <3>2. \A k \in Jobs : b # <<"turn", <<"note", k>> >>
      BY <2>4 DEF UserTurn
    <3>3. state[j] = "reported"
      BY <1>3 DEF Eligible
    <3>4. OpGood(t, c)
      BY <2>5, <3>1, <3>3 DEF OpGood
    <3>5. OpGood(t, b)
      BY <2>6, <3>2 DEF OpGood
    <3>6. OpGood(t, a)
      BY <2>5 DEF OpGood
    <3> QED BY <3>4, <3>5, <3>6
  <2> DEFINE f == <<a, b, c>>
  <2>8. prog' = [prog EXCEPT ![t] = f \o rest]
    BY <1>3 DEF Skip
  <2> HIDE DEF a, b, c, rest, r, reg
  <2>9. Before(a, b) /\ Before(a, c) /\ Before(b, c)
    BY <2>5, <2>6 DEF Before, IsNote
  <2>10. f \in Seq(Ops) /\ DOMAIN f = {1, 2, 3} /\ f[1] = a /\ f[2] = b /\ f[3] = c
    BY <2>5, <2>6, Three
  <2> HIDE DEF f
  <2>11. Shaped(t, f)
    BY <2>5, <2>6, <2>9, <2>10 DEF Shaped
  <2>12. /\ rest \in Seq(Ops) /\ Shaped(t, rest)
         /\ \A k \in DOMAIN rest : k + 2 \in DOMAIN prog[t] /\ k + 2 > 1
                /\ rest[k] = prog[t][k + 2]
    <3>1. 3 \in Nat \ {0}
      OBVIOUS
    <3>2. /\ rest \in Seq(Ops) /\ Shaped(t, rest)
          /\ \A i \in DOMAIN rest : /\ i \in Nat /\ i >= 1 /\ i + 3 - 1 \in DOMAIN prog[t]
                                      /\ rest[i] = prog[t][i + 3 - 1]
      BY <1>1, <3>1, Dropped, ShapedDrop DEF rest
    <3> QED BY <3>2
  <2>13. \A k \in DOMAIN rest : Before(Head(prog[t]), rest[k]) /\ OpGood(t, rest[k])
    <3>1. Head(prog[t]) = prog[t][1] /\ 1 \in DOMAIN prog[t]
      BY <1>1, Shorter
    <3> QED BY <1>1, <2>12, <3>1 DEF Shaped, ProgGood
  <2>14. \A i \in DOMAIN f, k \in DOMAIN rest : Before(f[i], rest[k])
    BY <1>1, <2>5, <2>6, <2>10, <2>13 DEF Before
  <2>15. ProgGood(t, rest)
    BY <1>0, <2>12, <2>13 DEF ProgGood
  <2>16. ProgGood(t, f \o rest)
    BY <2>7, <2>10, <2>11, <2>14, <2>15, JoinGood
  <2> QED BY <2>8, <2>16
<1> QED BY <1>2, <1>3 DEF Surface, Skip

(* After a submission only words are left, and before them comes what it    *)
(* brings about.                                                            *)
LEMMA AcceptedAre ==
    ASSUME NEW j \in Jobs
    PROVE  /\ Accepted(j) \in Seq(Ops) /\ DOMAIN Accepted(j) = 1 .. 6
           /\ Accepted(j)[1] = <<"handoff", [status |-> "submitted", job |-> j]>>
           /\ Accepted(j)[2] = <<"track", j>> /\ Accepted(j)[3] = <<"preview", None>>
           /\ Accepted(j)[4] = <<"submitted", j>> /\ Accepted(j)[5] = <<"touch">>
           /\ Accepted(j)[6] = <<"ctx", FALSE>>
<1> DEFINE a == <<"handoff", [status |-> "submitted", job |-> j]>>
           b == <<"track", j>>
           c == <<"preview", None>>
           d == <<"submitted", j>>
           e == <<"touch">>
           f == <<"ctx", FALSE>>
<1>1. a \in Ops /\ b \in Ops /\ c \in Ops
  BY DEF Ops, Handoffs, Statuses
<1>2. d \in Ops /\ e \in Ops /\ f \in Ops
  BY DEF Ops
<1>3. Accepted(j) = <<a, b, c, d, e, f>>
  BY DEF Accepted
<1> HIDE DEF a, b, c, d, e, f
<1>4. <<a, b, c, d, e, f>> \in Seq(Ops) /\ DOMAIN <<a, b, c, d, e, f>> = 1 .. 6
  BY <1>1, <1>2
<1>5. /\ <<a, b, c, d, e, f>>[1] = a /\ <<a, b, c, d, e, f>>[2] = b /\ <<a, b, c, d, e, f>>[3] = c
      /\ <<a, b, c, d, e, f>>[4] = d /\ <<a, b, c, d, e, f>>[5] = e /\ <<a, b, c, d, e, f>>[6] = f
  OBVIOUS
<1> QED BY <1>3, <1>4, <1>5 DEF a, b, c, d, e, f

(* What an accepted or refused submission brings about.                     *)
Effects(t, s) ==
    /\ s \in Seq(Ops)
    /\ \A i \in DOMAIN s :
          /\ s[i][1] \in {"handoff", "track", "preview", "submitted", "touch", "ctx"}
          /\ s[i][1] = "preview" => s[i][2] = None

(* It is in shape and good,                                                 *)
LEMMA EffectsGood ==
    ASSUME NEW t \in Requests, NEW s, Effects(t, s)
    PROVE  Shaped(t, s) /\ \A i \in DOMAIN s : OpGood(t, s[i])
<1>1. Shaped(t, s)
  BY DEF Shaped, Before, IsNote, Effects
<1>2. \A i \in DOMAIN s : s[i][1] # "submit" /\ (s[i][1] = "preview" => s[i][2] \in Known)
  BY DEF Effects, Known
<1>3. ASSUME NEW i \in DOMAIN s, NEW j \in Jobs PROVE s[i] # <<"turn", <<"note", j>> >>
  <2>1. s[i][1] # "turn"
    BY DEF Effects
  <2> QED BY <2>1
<1> QED BY <1>1, <1>2, <1>3 DEF OpGood

(* whether the submission is accepted                                       *)
LEMMA AcceptedEffects == ASSUME NEW t, NEW j \in Jobs PROVE Effects(t, Accepted(j))
<1> DEFINE s == Accepted(j)
<1>1. /\ s \in Seq(Ops) /\ DOMAIN s = 1 .. 6
      /\ s[1][1] = "handoff" /\ s[2][1] = "track" /\ s[3][1] = "preview" /\ s[3][2] = None
      /\ s[4][1] = "submitted" /\ s[5][1] = "touch" /\ s[6][1] = "ctx"
  <2>1. /\ s \in Seq(Ops) /\ DOMAIN s = 1 .. 6
        /\ s[1] = <<"handoff", [status |-> "submitted", job |-> j]>>
        /\ s[2] = <<"track", j>> /\ s[3] = <<"preview", None>>
        /\ s[4] = <<"submitted", j>> /\ s[5] = <<"touch">> /\ s[6] = <<"ctx", FALSE>>
    BY AcceptedAre
  <2> HIDE DEF s
  <2> QED BY <2>1
<1> HIDE DEF s
<1> QED BY <1>1 DEF Effects, s

(* or refused.                                                              *)
LEMMA HandoffEffects ==
    ASSUME NEW t, NEW h
               \in {Failed, Refused("ambiguous_preview_state"), Refused("missing_preview")}
    PROVE  Effects(t, << <<"handoff", h>> >>)
<1>1. h \in Handoffs
  BY DEF Failed, Refused, Handoffs, Statuses
<1>2. <<"handoff", h>> \in Ops
  BY <1>1 DEF Ops
<1> QED BY <1>2 DEF Effects

(* Whatever replaces a submission at the head.                              *)
LEMMA InsteadGood ==
    ASSUME NEW t \in Requests, NEW s, Effects(t, s), ProgGood(t, prog[t]), prog[t] # <<>>,
           Head(prog[t])[1] = "submit"
    PROVE  /\ ProgGood(t, s \o Tail(prog[t]))
           /\ \A i \in DOMAIN Tail(prog[t]) :
                 Tail(prog[t])[i][1] \in {"turn", "touch"} /\ ~IsNote(Tail(prog[t])[i])
<1> DEFINE rest == Tail(prog[t])
<1>0. t # Daemon
  BY SessionAssumption
<1>1. ProgGood(t, rest) /\ prog[t] \in Seq(Ops) /\ Shaped(t, prog[t])
  BY <1>0, TailGood DEF ProgGood
<1>2. \A k \in DOMAIN rest : Before(Head(prog[t]), rest[k])
  BY <1>1, Shorter DEF Shaped
<1>3. \A k \in DOMAIN rest : rest[k][1] \in {"turn", "touch"} /\ ~IsNote(rest[k])
  BY <1>2 DEF Before
<1> HIDE DEF rest
<1>4. \A i \in DOMAIN s, k \in DOMAIN rest : Before(s[i], rest[k])
  BY <1>3 DEF Before, Effects
<1>5. ProgGood(t, s \o rest)
  BY <1>1, <1>4, EffectsGood, JoinGood DEF Effects
<1> QED BY <1>3, <1>5 DEF rest

(* A submission goes on with a good program, whatever becomes of it.        *)
LEMMA SubmitGood ==
    ASSUME Base, NEW t \in Requests, Submit(t) \/ EmitFails(t)
    PROVE  \E s : prog' = [prog EXCEPT ![t] = s] /\ ProgGood(t, s)
<1>0. t # Daemon /\ t \in Procs
  BY SessionAssumption DEF Procs
<1>1. prog[t] # <<>> /\ Head(prog[t])[1] = "submit" /\ ProgGood(t, prog[t])
  BY <1>0 DEF Submit, EmitFails, Doing, Base, Programs
<1>2. \/ \E h \in {Failed, Refused("ambiguous_preview_state"), Refused("missing_preview")} :
            prog' = [prog EXCEPT ![t] = << <<"handoff", h>> >> \o Tail(prog[t])]
      \/ \E j \in Jobs : prog' = [prog EXCEPT ![t] = Accepted(j) \o Tail(prog[t])]
  BY DEF Submit, EmitFails, Skip
<1> QED BY <1>1, <1>2, InsteadGood, AcceptedEffects, HandoffEffects

(* A write that fails.                                                      *)
LEMMA FailGood ==
    ASSUME Base, NEW p \in Procs, WriteFails(p)
    PROVE  \E s : prog' = [prog EXCEPT ![p] = s] /\ ProgGood(p, s) /\ (loop'= loop \/ s = <<>>)
<1>1. ProgGood(p, prog[p]) /\ prog[p] \in Seq(Ops)
  BY DEF Base, Programs, ProgGood
<1> DEFINE done == {i \in DOMAIN prog[p] : prog[p][i][1] = "submitted"}
<1>2. CASE prog' = [prog EXCEPT ![p] = <<>>]
  BY <1>2, NoneGood
<1>3. ASSUME NEW i \in done, UNCHANGED loop,
             prog' = [prog EXCEPT ![p] =
                 << <<"handoff", Failed>> >> \o SubSeq(prog[p], i + 3, Len(prog[p]))]
      PROVE  \E s : prog' = [prog EXCEPT ![p] = s] /\ ProgGood(p, s) /\ loop'= loop
  <2>1. p # Daemon
    <3> SUFFICES ASSUME p = Daemon PROVE FALSE
      OBVIOUS
    <3>1. DaemonShaped(prog[p])
      BY <1>1 DEF ProgGood
    <3>2. \A k \in DOMAIN prog[p] : prog[p][k][1] \in {"ingest", "deliver", "registry", "turn"}
      BY <3>1 DEF DaemonShaped
    <3> QED BY <1>3, <3>2
  <2>2. p \in Requests
    BY <2>1 DEF Procs
  <2>3. Shaped(p, prog[p]) /\ \A k \in DOMAIN prog[p] : OpGood(p, prog[p][k])
    BY <1>1, <2>1 DEF ProgGood
  <2>4. i \in Nat /\ i >= 1 /\ prog[p][i][1] = "submitted" /\ i \in DOMAIN prog[p]
    BY <1>1, <1>3, LenProperties
  <2> DEFINE m == i + 3
             rest == SubSeq(prog[p], m, Len(prog[p]))
             s == << <<"handoff", Failed>> >>
  <2>5. m \in Nat \ {0} /\ m > i
    BY <2>4
  <2> HIDE DEF m
  <2>6. /\ rest \in Seq(Ops) /\ Shaped(p, rest)
        /\ \A k \in DOMAIN rest : /\ k \in Nat /\ k >= 1 /\ k + m - 1 \in DOMAIN prog[p]
                                    /\ rest[k] = prog[p][k + m - 1]
    BY <1>1, <2>3, <2>5, Dropped, ShapedDrop
  <2> HIDE DEF rest
  <2>7. \A k \in DOMAIN rest : Before(prog[p][i], rest[k]) /\ OpGood(p, rest[k])
    <3> TAKE k \in DOMAIN rest
    <3>1. k + m - 1 > i /\ k + m - 1 \in DOMAIN prog[p]
      BY <2>4, <2>5, <2>6
    <3> QED BY <2>3, <2>4, <2>6, <3>1 DEF Shaped
  <2>8. Effects(p, s)
    BY HandoffEffects
  <2> HIDE DEF s
  <2>9. \A a \in DOMAIN s, k \in DOMAIN rest : Before(s[a], rest[k])
    BY <2>4, <2>7, <2>8 DEF Before, Effects
  <2>10. ProgGood(p, rest)
    BY <2>1, <2>6, <2>7 DEF ProgGood
  <2>11. ProgGood(p, s \o rest)
    BY <2>2, <2>8, <2>9, <2>10, EffectsGood, JoinGood DEF Effects
  <2>12. prog' = [prog EXCEPT ![p] = s \o rest]
    BY <1>3 DEF s, rest, m
  <2> QED BY <1>3, <2>11, <2>12
<1>4. ASSUME p = Daemon, Head(prog[p])[1] = "turn", at[p] \in {"cut", "fill"}, UNCHANGED loop,
             prog' = [prog EXCEPT ![p] =
                 << <<"registry", [prog[p][2][2] EXCEPT !.told = @ \ {Head(prog[p])[2][2]}]>> >>]
      PROVE  \E s : prog' = [prog EXCEPT ![p] = s] /\ ProgGood(p, s) /\ loop'= loop
  <2>1. prog[p] # <<>>
    BY <1>4 DEF Base, AtOk
  <2>2. Head(prog[p]) = prog[p][1]
    BY <1>1, <2>1, Shorter
  <2>3. PICK j \in Jobs, r \in Registries : prog[p]
                 = << <<"turn", <<"note", j>> >>, <<"registry", r>> >>
    <3>1. DaemonShaped(prog[p])
      BY <1>1, <1>4 DEF ProgGood
    <3> QED BY <1>4, <2>1, <2>2, <3>1 DEF DaemonShaped
  <2> DEFINE q == [r EXCEPT !.told = @ \ {Head(prog[p])[2][2]}]
  <2>4. q \in Registries /\ prog[p][2][2] = r
    BY <2>3 DEF Registries
  <2>5. prog' = [prog EXCEPT ![p] = << <<"registry", q>> >>]
    BY <1>4, <2>4
  <2> HIDE DEF q
  <2>6. <<"registry", q>> \in Ops
    BY <2>4 DEF Ops
  <2>7. OpGood(p, <<"registry", q>>)
    BY DEF OpGood
  <2>8. DaemonShaped(<< <<"registry", q>> >>)
    BY <2>4 DEF DaemonShaped
  <2>9. ProgGood(p, << <<"registry", q>> >>)
    BY <1>4, <2>6, <2>7, <2>8 DEF ProgGood
  <2> QED BY <1>4, <2>5, <2>9
<1>5. \/ prog' = [prog EXCEPT ![p] = <<>>]
      \/ /\ UNCHANGED loop
         /\ \E i \in done : prog' = [prog EXCEPT ![p] =
                 << <<"handoff", Failed>> >> \o SubSeq(prog[p], i + 3, Len(prog[p]))]
      \/ /\ UNCHANGED loop /\ p = Daemon /\ Head(prog[p])[1] = "turn" /\ at[p] \in {"cut", "fill"}
         /\ prog' = [prog EXCEPT ![p] =
                 << <<"registry", [prog[p][2][2] EXCEPT !.told = @ \ {Head(prog[p])[2][2]}]>> >>]
  BY DEF WriteFails, Stops
<1> QED BY <1>2, <1>3, <1>4, <1>5

(* The daemon's programs.                                                   *)
LEMMA DaemonOne ==
    ASSUME NEW x \in Ops, OpGood(Daemon, x), DaemonShaped(<<x>>)
    PROVE  ProgGood(Daemon, <<x>>)
BY DEF ProgGood

(* A program of the daemon with two ops,                                    *)
LEMMA DaemonTwo ==
    ASSUME NEW x \in Ops, NEW y \in Ops, OpGood(Daemon, x), OpGood(Daemon, y),
           DaemonShaped(<<x, y>>)
    PROVE  ProgGood(Daemon, <<x, y>>)
<1> DEFINE s == <<x, y>>
<1>1. s \in Seq(Ops) /\ DOMAIN s = {1, 2} /\ s[1] = x /\ s[2] = y
  BY Two
<1> HIDE DEF s
<1>2. ProgGood(Daemon, s)
  BY <1>1 DEF ProgGood, s
<1> QED BY <1>2 DEF s

(* the one it begins with when a job has finished,                          *)
LEMMA FoundGood ==
    ASSUME NEW j \in Jobs
    PROVE  ProgGood(Daemon, << <<"ingest", {j}>>, <<"deliver", j>> >>)
<1> DEFINE x == <<"ingest", {j}>>
           y == <<"deliver", j>>
<1>1. x \in Ops /\ y \in Ops
  BY DEF Ops
<1>2. OpGood(Daemon, x) /\ OpGood(Daemon, y)
  BY DEF OpGood
<1>3. DaemonShaped(<<x, y>>)
  BY Zenon DEF DaemonShaped
<1> HIDE DEF x, y
<1>4. ProgGood(Daemon, <<x, y>>)
  BY <1>1, <1>2, <1>3, DaemonTwo
<1> QED BY <1>4 DEF x, y

(* the one after its ingest                                                 *)
LEMMA DaemonIngestGood ==
    ASSUME Base, Ingest(Daemon)
    PROVE  \E s : prog' = [prog EXCEPT ![Daemon] = s] /\ ProgGood(Daemon, s)
<1> DEFINE r == Contents.registry
           new == {j \in Head(prog[Daemon])[2] \cap r.tracked : j \notin r.seen /\ Terminal(j)}
           reg == [r EXCEPT !.seen = @ \cup new]
           a == <<"registry", reg>>
           rest == Tail(prog[Daemon])
<1>0. Daemon \in Procs
  BY DEF Procs
<1>1. /\ prog[Daemon] # <<>> /\ Head(prog[Daemon])[1] = "ingest" /\ ProgGood(Daemon, prog[Daemon])
      /\ prog[Daemon] \in Seq(Ops) /\ DaemonShaped(prog[Daemon])
  BY <1>0 DEF Ingest, Doing, Base, Programs, ProgGood
<1>2. CASE new = {}
  <2>1. prog' = [prog EXCEPT ![Daemon] = rest]
    BY <1>2 DEF Ingest, Skip
  <2> QED BY <1>1, <2>1, TailGood
<1>3. CASE new # {}
  <2>1. prog' = [prog EXCEPT ![Daemon] = (<<a>> \o <<>>) \o rest]
    BY <1>3 DEF Ingest, Skip
  <2>2. reg \in Registries
    <3>1. r \in Registries
      BY DEF Base, TypeOK, Contents, Payloads, Default, Registries
    <3> QED BY <3>1 DEF Registries
  <2>3. a \in Ops
    BY <2>2 DEF Ops
  <2>4. OpGood(Daemon, a)
    BY DEF OpGood
  <2>5. PICK j \in Jobs : prog[Daemon] = << <<"ingest", {j}>>, <<"deliver", j>> >>
    <3>1. Head(prog[Daemon]) = prog[Daemon][1]
      BY <1>1, Shorter
    <3> QED BY <1>1, <3>1 DEF DaemonShaped
  <2> DEFINE b == <<"deliver", j>>
  <2>6. rest = <<b>> /\ b \in Ops /\ OpGood(Daemon, b)
    BY <2>5 DEF Ops, OpGood
  <2>7. DaemonShaped(<<a, b>>)
    BY <2>2, Zenon DEF DaemonShaped
  <2> HIDE DEF reg, new, r, a, b, rest
  <2>8. (<<a>> \o <<>>) \o <<b>> = <<a, b>>
    <3>1. <<a>> \in Seq(Ops)
      BY <2>3
    <3>2. <<a>> \o <<>> = <<a>>
      BY <3>1, ConcatEmptySeq
    <3> QED BY <3>2, Pair
  <2>9. ProgGood(Daemon, <<a, b>>)
    BY <2>3, <2>4, <2>6, <2>7, DaemonTwo
  <2> QED BY <2>1, <2>6, <2>8, <2>9
<1> QED BY <1>2, <1>3

(* and the one that reports in the chat.                                    *)
LEMMA DeliverGood ==
    ASSUME Base, Deliver(Daemon)
    PROVE  \E s : prog' = [prog EXCEPT ![Daemon] = s] /\ ProgGood(Daemon, s)
<1> DEFINE r == Contents.registry
           j == Head(prog[Daemon])[2]
           reg == [r EXCEPT !.told = @ \cup {j}]
           a == <<"registry", r>>
           b == <<"turn", <<"note", j>> >>
           c == <<"registry", reg>>
<1>0. Daemon \in Procs
  BY DEF Procs
<1>1. /\ prog[Daemon] # <<>> /\ Head(prog[Daemon])[1] = "deliver" /\ prog[Daemon] \in Seq(Ops)
  BY <1>0 DEF Deliver, Doing, Base, Programs, ProgGood
<1>2. j \in Jobs
  BY <1>1, Shorter, OpsAre
<1>3. r \in Registries /\ reg \in Registries
  <2>1. r \in Registries
    BY DEF Base, TypeOK, Contents, Payloads, Default, Registries
  <2> QED BY <1>2, <2>1 DEF Registries
<1>4. a \in Ops /\ c \in Ops
  BY <1>3 DEF Ops
<1>5. b \in Ops
  BY <1>2 DEF Ops, Turns
<1>6. OpGood(Daemon, a) /\ OpGood(Daemon, c)
  BY DEF OpGood
<1>7. j \in reg.told
  BY <1>3 DEF Registries
<1>8. DaemonShaped(<<a>>)
  BY <1>3 DEF DaemonShaped
<1>9. DaemonShaped(<<b, c>>)
  <2> HIDE DEF reg, j
  <2> QED BY <1>2, <1>3, <1>7 DEF DaemonShaped
<1>10. \/ prog' = [prog EXCEPT ![Daemon] = <<>>]
       \/ prog' = [prog EXCEPT ![Daemon] = <<a>>]
       \/ Eligible(j) /\ prog' = [prog EXCEPT ![Daemon] = <<b, c>>]
  BY DEF Deliver, Skip
<1>11. Eligible(j) => OpGood(Daemon, b)
  <2>1. \A k \in Jobs : b = <<"turn", <<"note", k>> >> => k = j
    OBVIOUS
  <2> QED BY <2>1 DEF OpGood, Eligible
<1> HIDE DEF r, j, reg, a, b, c
<1>12. ProgGood(Daemon, <<a>>)
  BY <1>4, <1>6, <1>8, DaemonOne
<1>13. Eligible(j) => ProgGood(Daemon, <<b, c>>)
  BY <1>4, <1>5, <1>6, <1>9, <1>11, DaemonTwo
<1> QED BY <1>10, <1>12, <1>13, NoneGood

(* A program that begins is good: what it submits is what the request sees  *)
(* as it comes in.                                                          *)
LEMMA BegunGood ==
    ASSUME Base, Onward, NEW t \in Requests, NEW b, Begun(t, b), seen'[t] = Contents.preview
    PROVE  ProgGood(t, b)'
<1>0. t # Daemon
  BY SessionAssumption
<1>1. b \in Seq(Ops) /\ Shaped(t, b) /\ \A i \in DOMAIN b : b[i] \in NewOps
  BY NewAreOps DEF Begun
<1>2. ASSUME NEW x \in NewOps PROVE OpGood(t, x)'
  <2>1. x[1] = "submit" => x[2] = seen'[t]
    BY DEF NewOps
  <2>2. x[1] = "preview" => x[2] \in Known'
    <3> SUFFICES ASSUME x[1] = "preview", x[2] # None PROVE x[2] \in Known'
      BY DEF Known
    <3>1. x[2] \in Previews /\ x[2].id <= drafts'
      BY OpsAre DEF NewOps
    <3> QED BY <3>1 DEF Known
  <2>3. \A j \in Jobs : x # <<"turn", <<"note", j>> >>
    <3>1. ~IsNote(x)
      BY DEF NewOps
    <3> QED BY <3>1 DEF IsNote
  <2> QED BY <2>1, <2>2, <2>3 DEF OpGood
<1>3. Shaped(t, b)' <=> Shaped(t, b)
  BY DEF Shaped
<1> QED BY <1>0, <1>1, <1>2 DEF ProgGood

-----------------------------------------------------------------------------
(* The steps, by what they do to the programs *)

(* A request comes in.                                                      *)
Starts(t) == Chat(t) \/ Handoff(t) \/ Clear(t)

(* One that waited goes on.                                                 *)
Returns(t) == Continues(t) \/ Interrupted(t) \/ Answered(t)

(* A process takes up its next write and reads what it depends on.          *)
Prepares(p) == Put(p) \/ Touch(p) \/ Load(p) \/ AppendTurn(p) \/ (p # Daemon /\ Track(p))

(* A process replaces the head of its program by what follows from what it  *)
(* reads.                                                                   *)
Rewrites(p) ==
    \/ Ingest(p)
    \/ p # Daemon /\ (Surface(p) \/ Submit(p) \/ EmitFails(p) \/ Submitted(p) \/ Unlink(p))
    \/ p = Daemon /\ Deliver(p)

(* Every step is one of these, a write, an end, a failure or the finishing  *)
(* of a job.                                                                *)
LEMMA Steps ==
    ASSUME Next
    PROVE  \/ \E t \in Requests : Starts(t) \/ Returns(t) \/ Wait(t)
           \/ \E p \in Procs : \/ Prepares(p) \/ Cut(p) \/ Fill(p) \/ Rewrites(p)
                               \/ Ends(p) \/ WriteFails(p)
           \/ \E j \in Jobs : DaemonFinishes(j) \/ CommandFinishes(j)
           \/ WebDies \/ DaemonDies
<1>1. Requests \subseteq Procs /\ Daemon \in Procs /\ \A t \in Requests : t # Daemon
  BY SessionAssumption DEF Procs
<1>2. ASSUME NEW t \in Requests, WebStep(t)
      PROVE  \/ Returns(t) \/ Wait(t) \/ Prepares(t) \/ Cut(t) \/ Fill(t) \/ Rewrites(t)
                    \/ Ends(t)
  BY <1>1, <1>2 DEF WebStep, Writes, Returns, Prepares, Rewrites
<1>3. ASSUME DaemonStep
      PROVE  Prepares(Daemon) \/ Cut(Daemon) \/ Fill(Daemon) \/ Rewrites(Daemon) \/ Ends(Daemon)
  BY <1>3 DEF DaemonStep, Writes, Prepares, Rewrites
<1>4. ASSUME NEW t \in Requests, EmitFails(t) PROVE Rewrites(t)
  BY <1>1, <1>4 DEF Rewrites
<1> QED BY <1>1, <1>2, <1>3, <1>4 DEF Next, Starts

(* A request that comes in begins a program.                                *)
LEMMA StartsDo ==
    ASSUME TypeOK, NEW t \in Requests, Starts(t)
    PROVE  /\ Begins(t) /\ (\E n \in {0, 1} : Drafts(n))
           /\ \E b : Begun(t, b) /\ prog' = [prog EXCEPT ![t] = b]
BY ChatBegins, HandoffBegins, ClearBegins DEF Starts

(* A plain program stays good.                                              *)
LEMMA PlainGood ==
    ASSUME Base, Onward, NEW t \in Requests, NEW b, Plain(b)
    PROVE  ProgGood(t, b)'
<1>0. t # Daemon
  BY SessionAssumption
<1>1. b \in Seq(Ops) /\ Shaped(t, b) /\ \A i \in DOMAIN b : b[i] \in NewOps /\ b[i][1] # "submit"
  BY NewAreOps, PlainShaped DEF Plain, Piece
<1>2. ASSUME NEW x \in NewOps, x[1] # "submit" PROVE OpGood(t, x)'
  <2>1. x[1] # "submit"
    BY <1>2
  <2>2. x[1] = "preview" => x[2] \in Known'
    <3> SUFFICES ASSUME x[1] = "preview", x[2] # None PROVE x[2] \in Known'
      BY DEF Known
    <3>1. x[2] \in Previews /\ x[2].id <= drafts'
      BY OpsAre DEF NewOps
    <3> QED BY <3>1 DEF Known
  <2>3. \A j \in Jobs : x # <<"turn", <<"note", j>> >>
    <3>1. ~IsNote(x)
      BY DEF NewOps
    <3> QED BY <3>1 DEF IsNote
  <2> QED BY <2>1, <2>2, <2>3 DEF OpGood
<1>3. Shaped(t, b)' <=> Shaped(t, b)
  BY DEF Shaped
<1> QED BY <1>0, <1>1, <1>2 DEF ProgGood

(* A rewriting leaves a good program and the file alone.                    *)
LEMMA RewritesDo ==
    ASSUME Base, NEW p \in Procs, Rewrites(p)
    PROVE  /\ \E s : prog' = [prog EXCEPT ![p] = s] /\ ProgGood(p, s)
           /\ UNCHANGED <<at, edit, copy, loop, seen, drafts>>
           /\ at[p] = "get" /\ Working(p) /\ prog[p] # <<>>
<1>1. p # Daemon => p \in Requests
  BY DEF Procs
<1>2. /\ UNCHANGED <<at, edit, copy, loop, seen, drafts>>
      /\ at[p] = "get" /\ Working(p) /\ prog[p] # <<>>
  BY DEF Rewrites, Ingest, Surface, Submit, EmitFails, Submitted, Unlink, Deliver, Skip, Doing
<1>3. CASE Submitted(p) \/ Unlink(p)
  <2>1. prog' = [prog EXCEPT ![p] = Tail(prog[p])]
    BY <1>3 DEF Submitted, Unlink, Skip
  <2>2. ProgGood(p, prog[p])
    BY DEF Base, Programs
  <2> QED BY <1>2, <2>1, <2>2, TailGood
<1>4. CASE Ingest(p)
  BY <1>1, <1>2, <1>4, IngestGood, DaemonIngestGood
<1>5. CASE p # Daemon /\ (Surface(p) \/ Submit(p) \/ EmitFails(p))
  BY <1>1, <1>2, <1>5, SurfaceGood, SubmitGood
<1>6. CASE p = Daemon /\ Deliver(p)
  BY <1>2, <1>6, DeliverGood
<1> QED BY <1>3, <1>4, <1>5, <1>6 DEF Rewrites

(* Every step goes onward.                                                  *)
LEMMA GoesOnward ==
    ASSUME Base, Next
    PROVE  Onward
<1>0. drafts \in Nat /\ state \in [Jobs -> {"none", "queued", "reported", "quiet"}]
  BY SessionAssumption DEF Base, TypeOK
<1>1. ASSUME NEW n \in 0 .. 2, Drafts(n) PROVE drafts' \in Nat /\ drafts <= drafts'
  BY <1>0, <1>1 DEF Drafts
<1>2. ASSUME NEW j \in Jobs, DaemonFinishes(j) \/ CommandFinishes(j)
      PROVE  drafts' = drafts /\ \A k \in Jobs : state[k] = "reported" => state'[k] = "reported"
  BY <1>0, <1>2 DEF DaemonFinishes, CommandFinishes
<1>3. ASSUME NEW t \in Requests, Submit(t)
      PROVE  \A k \in Jobs : state[k] = "reported" => state'[k] = "reported"
  <2>1. \/ UNCHANGED queue
        \/ \E j \in Jobs : FreshJob(j) /\ state' = [state EXCEPT ![j] = "queued"]
    BY <1>3 DEF Submit
  <2>2. \A j \in Jobs : FreshJob(j) => state[j] = "none"
    BY DEF FreshJob, Base, Submitters
  <2> QED BY <1>0, <2>1, <2>2 DEF queue
<1>4. CASE \E t \in Requests : Starts(t)
  <2>1. PICK t \in Requests : Starts(t)
    BY <1>4
  <2>2. Begins(t) /\ \E n \in {0, 1} : Drafts(n)
    BY <2>1, StartsDo DEF Base
  <2> QED BY <1>1, <2>2 DEF Begins, queue, Onward
<1>5. CASE \E t \in Requests : Returns(t)
  <2>1. PICK t \in Requests : Returns(t)
    BY <1>5
  <2>2. Resumes(t) /\ (UNCHANGED drafts \/ \E n \in 0 .. 2 : Drafts(n))
    BY <2>1, AnswerBegins DEF Returns, Continues, Interrupted, Base
  <2> QED BY <1>0, <1>1, <2>2 DEF Resumes, queue, Onward
<1>6. CASE \E t \in Requests : Wait(t)
  BY <1>0, <1>6 DEF Wait, queue, Onward
<1>7. ASSUME NEW p \in Procs, Rewrites(p) PROVE Onward
  <2>1. drafts' = drafts
    BY <1>7, RewritesDo
  <2>2. p # Daemon => p \in Requests
    BY DEF Procs
  <2>3. UNCHANGED state \/ (p # Daemon /\ Submit(p))
    BY <1>7 DEF Rewrites, Ingest, Surface, EmitFails, Submitted, Unlink, Deliver, queue
  <2> QED BY <1>0, <1>3, <2>1, <2>2, <2>3 DEF Onward
<1>8. ASSUME NEW p \in Procs, Prepares(p) \/ Cut(p) \/ Fill(p) \/ Ends(p) \/ WriteFails(p)
      PROVE  UNCHANGED <<drafts, state>>
  BY <1>8 DEF Prepares, Put, Touch, Load, AppendTurn, Track, Cut, Fill, Ends, WriteFails, queue
<1>9. WebDies \/ DaemonDies => UNCHANGED <<drafts, state>>
  BY DEF WebDies, DaemonDies, queue
<1> QED BY <1>0, <1>2, <1>4, <1>5, <1>6, <1>7, <1>8, <1>9, Steps DEF Onward

-----------------------------------------------------------------------------
(* What always holds stays so *)

(* What is known stays known,                                               *)
LEMMA MoreKnown == ASSUME Base, Onward PROVE Known \subseteq Known'
<1> SUFFICES ASSUME NEW v \in Previews, v.id <= drafts PROVE v.id <= drafts'
  BY DEF Known
<1>1. v.id \in 1 .. MaxDrafts
  BY DEF Previews, Automations, JobPreviews
<1>2. drafts \in 0 .. MaxDrafts /\ MaxDrafts \in Nat
  BY SessionAssumption DEF Base, TypeOK
<1> QED BY <1>1, <1>2 DEF Onward

(* and so is what a reader sees in the file.                                *)
LEMMA ContentsKnown ==
    ASSUME Base
    PROVE  Contents \in Payloads /\ Contents.preview \in Known
<1>1. Default \in Payloads /\ Default.preview = None /\ None \in Known
  BY DEF Default, Payloads, Handoffs, Statuses, Registries, Known
<1> QED BY <1>1 DEF Base, TypeOK, Names, Contents

(* A good program stays good,                                               *)
LEMMA GoodStays ==
    ASSUME Base, Onward, NEW p \in Procs, NEW s, ProgGood(p, s), p # Daemon => seen'[p] = seen[p]
    PROVE  ProgGood(p, s)'
<1>1. \A i \in DOMAIN s : OpGood(p, s[i])'
  BY OpStays DEF ProgGood
<1>2. (Shaped(p, s)' <=> Shaped(p, s)) /\ (DaemonShaped(s)' <=> DaemonShaped(s))
  BY DEF Shaped, DaemonShaped
<1> QED BY <1>1, <1>2 DEF ProgGood

(* by the program it is.                                                    *)
LEMMA AsPrimed ==
    ASSUME NEW p, NEW s, prog'[p] = s, ProgGood(p, s)'
    PROVE  ProgGood(p, prog[p])'
BY DEF ProgGood, OpGood

(* One process goes on with s.                                              *)
LEMMA OneProgram ==
    ASSUME Base, Onward, NEW p \in Procs, NEW s, prog' = [prog EXCEPT ![p] = s], ProgGood(p, s)',
           \A t \in Requests \ {p} : seen'[t] = seen[t],
           loop' = loop \/ loop = None \/ loop = p,
           loop' # p => p = Daemon \/ s = <<>>
    PROVE  Programs'
<1>0. Requests \subseteq Procs /\ prog \in [Procs -> Seq(Ops)] /\ Daemon \notin Requests
  BY SessionAssumption DEF Procs, Base, TypeOK
<1>1. ASSUME NEW q \in Procs PROVE ProgGood(q, prog[q])'
  <2>1. CASE q = p
    <3>1. prog'[p] = s
      BY <1>0
    <3> QED BY <2>1, <3>1, AsPrimed
  <2>2. CASE q # p
    <3>1. PICK u : u = prog[q]
      OBVIOUS
    <3>2. prog'[q] = u /\ ProgGood(q, u)
      BY <1>0, <2>2, <3>1 DEF Base, Programs
    <3>3. q # Daemon => seen'[q] = seen[q]
      BY <2>2 DEF Procs
    <3>4. ProgGood(q, u)'
      BY <3>2, <3>3, GoodStays
    <3> QED BY <3>2, <3>4, AsPrimed
  <2> QED BY <2>1, <2>2
<1>2. ASSUME NEW t \in Requests, loop' # t PROVE (\A i \in DOMAIN prog[t] : Aside(prog[t][i]))'
  <2>1. CASE t = p
    <3>1. prog'[t] = <<>>
      BY <1>0, <1>2, <2>1
    <3> QED BY <3>1
  <2>2. CASE t # p
    <3>1. prog'[t] = prog[t] /\ loop # t
      BY <1>0, <1>2, <2>2, SessionAssumption
    <3>2. \A i \in DOMAIN prog[t] : Aside(prog[t][i])
      BY <3>1 DEF Base, Programs
    <3> QED BY <3>1, <3>2 DEF Aside, IsNote
  <2> QED BY <2>1, <2>2
<1> QED BY <1>1, <1>2 DEF Programs

(* Nobody's program changes.                                                *)
LEMMA SamePrograms ==
    ASSUME Base, Onward, UNCHANGED <<prog, seen, loop>>
    PROVE  Programs'
<1>1. ASSUME NEW q \in Procs PROVE ProgGood(q, prog[q])'
  <2>1. PICK u : u = prog[q]
    OBVIOUS
  <2>2. prog'[q] = u /\ ProgGood(q, u)
    BY <2>1 DEF Base, Programs
  <2>3. ProgGood(q, u)'
    BY <2>2, GoodStays
  <2> QED BY <2>2, <2>3, AsPrimed
<1>2. (\A t \in Requests : loop # t => \A i \in DOMAIN prog[t] : Aside(prog[t][i]))'
  <2>1. \A t \in Requests : loop # t => \A i \in DOMAIN prog[t] : Aside(prog[t][i])
    BY DEF Base, Programs
  <2> QED BY <2>1 DEF Aside, IsNote
<1> QED BY <1>1, <1>2 DEF Programs

(* A request that waits has only words and other fields to write.           *)
LEMMA WaitsAside ==
    ASSUME Base, Onward, NEW t \in Requests, Wait(t)
    PROVE  Programs'
<1>0. t # Daemon /\ t \in Procs
  BY SessionAssumption DEF Procs
<1>1. /\ Working(t) /\ prog[t] # <<>> /\ Head(prog[t])[1] = "wait" /\ loop' = None
      /\ UNCHANGED <<prog, seen>>
  BY DEF Wait, Doing
<1>2. prog[t] \in Seq(Ops) /\ Shaped(t, prog[t])
  BY <1>0 DEF Base, Programs, ProgGood
<1>3. \A i \in DOMAIN prog[t] : Aside(prog[t][i])
  <2> SUFFICES ASSUME NEW i \in DOMAIN prog[t] PROVE Aside(prog[t][i])
    OBVIOUS
  <2>1. 1 \in DOMAIN prog[t] /\ Head(prog[t]) = prog[t][1] /\ DOMAIN prog[t] = 1 .. Len(prog[t])
    BY <1>1, <1>2, Shorter
  <2>2. i > 1 => Before(Head(prog[t]), prog[t][i])
    BY <1>2, <2>1 DEF Shaped
  <2>3. i = 1 \/ i > 1
    BY <1>2, <2>1, LenProperties
  <2> QED BY <1>1, <2>1, <2>2, <2>3 DEF Before, Aside, IsNote
<1>4. \A u \in Requests \ {t} : loop # u
  BY <1>0, <1>1 DEF Working
<1>5. \A u \in Requests : \A i \in DOMAIN prog[u] : Aside(prog[u][i])
  BY <1>3, <1>4 DEF Base, Programs
<1>6. ASSUME NEW q \in Procs PROVE ProgGood(q, prog[q])'
  <2>1. PICK u : u = prog[q]
    OBVIOUS
  <2>2. prog'[q] = u /\ ProgGood(q, u)
    BY <1>1, <2>1 DEF Base, Programs
  <2>3. ProgGood(q, u)'
    BY <1>1, <2>2, GoodStays
  <2> QED BY <2>2, <2>3, AsPrimed
<1> QED BY <1>1, <1>5, <1>6 DEF Programs, Aside, IsNote

(* The web process is killed.                                               *)
LEMMA KilledPrograms ==
    ASSUME Base, Onward, WebDies
    PROVE  Programs'
<1>0. \A t \in Requests : t # Daemon /\ t \in Procs
  BY SessionAssumption DEF Procs
<1>1. UNCHANGED seen /\ prog' = [p \in Procs |-> IF p # Daemon THEN <<>> ELSE prog[p]]
  BY DEF WebDies
<1>2. ASSUME NEW q \in Procs PROVE ProgGood(q, prog[q])'
  <2>1. PICK u : u = IF q # Daemon THEN <<>> ELSE prog[q]
    OBVIOUS
  <2>2. prog'[q] = u
    BY <1>1, <2>1
  <2>3. ProgGood(q, u)
    BY <2>1, NoneGood DEF Base, Programs
  <2>4. ProgGood(q, u)'
    BY <1>1, <2>3, GoodStays
  <2> QED BY <2>2, <2>4, AsPrimed
<1>3. \A t \in Requests : prog'[t] = <<>>
  BY <1>0, <1>1
<1> QED BY <1>2, <1>3 DEF Programs

(* Every step leaves everybody's program good.                              *)
LEMMA ProgramsStay ==
    ASSUME Base, Next
    PROVE  Programs'
<1>0. Onward
  BY GoesOnward
<1>00. /\ Requests \subseteq Procs /\ Daemon \in Procs /\ Daemon \notin Requests /\ TypeOK
       /\ seen \in [Requests -> Previews \cup {None}]
  BY SessionAssumption DEF Procs, Base, TypeOK
<1>1. ASSUME NEW t \in Requests, Starts(t) PROVE Programs'
  <2>1. Begins(t) /\ \E b : Begun(t, b) /\ prog' = [prog EXCEPT ![t] = b]
    BY <1>00, <1>1, StartsDo
  <2>2. PICK b : Begun(t, b) /\ prog' = [prog EXCEPT ![t] = b]
    BY <2>1
  <2>3. seen'[t] = Contents.preview /\ \A u \in Requests \ {t} : seen'[u] = seen[u]
    BY <1>00, <2>1 DEF Begins
  <2>4. ProgGood(t, b)'
    BY <1>0, <2>2, <2>3, BegunGood
  <2>5. loop' = t /\ loop = None
    BY <2>1 DEF Begins
  <2> QED BY <1>0, <1>00, <2>2, <2>3, <2>4, <2>5, OneProgram
<1>2. ASSUME NEW t \in Requests, Returns(t) PROVE Programs'
  <2>1. Resumes(t) /\ loop' = t /\ loop = None /\ UNCHANGED seen
    BY <1>2 DEF Returns, Continues, Interrupted, Answered, Resumes
  <2>2. \E s : prog' = [prog EXCEPT ![t] = s] /\ ProgGood(t, s)'
    <3>1. CASE Answered(t)
      BY <1>0, <1>00, <3>1, AnswerBegins, PlainGood
    <3>2. CASE Interrupted(t)
      <4>1. Plain(Says(t))
        BY Words
      <4>2. PICK s : s = Says(t)
        OBVIOUS
      <4> QED BY <1>0, <3>2, <4>1, <4>2, PlainGood DEF Interrupted
    <3>3. CASE Continues(t)
      <4>1. PICK s : s = Tail(prog[t])
        OBVIOUS
      <4>2. ProgGood(t, prog[t]) /\ prog[t] # <<>>
        <5>1. Tail(<<>>) = <<>>
          OBVIOUS
        <5> QED BY <1>00, <3>3, <5>1 DEF Base, Programs, Continues
      <4>3. ProgGood(t, s)
        BY <4>1, <4>2, TailGood
      <4>4. ProgGood(t, s)'
        BY <1>0, <1>00, <2>1, <4>3, GoodStays
      <4> QED BY <3>3, <4>1, <4>4 DEF Continues
    <3> QED BY <1>2, <3>1, <3>2, <3>3 DEF Returns
  <2> QED BY <1>0, <1>00, <2>1, <2>2, OneProgram
<1>3. ASSUME NEW t \in Requests, Wait(t) PROVE Programs'
  BY <1>0, <1>3, WaitsAside
<1>4. ASSUME NEW p \in Procs, Prepares(p) \/ Cut(p) PROVE Programs'
  <2>1. UNCHANGED <<prog, seen, loop>>
    BY <1>4 DEF Prepares, Put, Touch, Load, AppendTurn, Track, WillPut, Cut
  <2> QED BY <1>0, <2>1, SamePrograms
(* A process goes on with what is good for it now.                          *)
<1>5. ASSUME NEW p \in Procs, NEW s, prog' = [prog EXCEPT ![p] = s], ProgGood(p, s),
             UNCHANGED seen,
             loop' = loop \/ loop = p,
             loop' # p => p = Daemon \/ s = <<>>
      PROVE  Programs'
  <2>1. ProgGood(p, s)'
    BY <1>0, <1>5, GoodStays
  <2> QED BY <1>0, <1>5, <2>1, OneProgram
<1>6. ASSUME NEW p \in Procs, Fill(p) PROVE Programs'
  <2>1. /\ Working(p) /\ at[p] = "fill" /\ UNCHANGED <<seen, loop>>
        /\ prog' = [prog EXCEPT ![p] = Tail(prog[p])]
    BY <1>00, <1>6 DEF Fill, TypeOK
  <2>2. ProgGood(p, prog[p]) /\ prog[p] # <<>>
    BY <2>1 DEF Base, Programs, AtOk
  <2>3. PICK s : s = Tail(prog[p])
    OBVIOUS
  <2>4. ProgGood(p, s)
    BY <2>2, <2>3, TailGood
  <2> QED BY <1>5, <2>1, <2>3, <2>4 DEF Working
<1>7. ASSUME NEW p \in Procs, Rewrites(p) PROVE Programs'
  <2>1. \E s : prog' = [prog EXCEPT ![p] = s] /\ ProgGood(p, s)
    BY <1>7, RewritesDo
  <2>2. UNCHANGED <<loop, seen>> /\ Working(p)
    BY <1>7, RewritesDo
  <2> QED BY <1>5, <2>1, <2>2 DEF Working
<1>8. ASSUME NEW p \in Procs, Ends(p) PROVE Programs'
  <2>1. /\ prog[p] = <<>> /\ UNCHANGED <<prog, seen>> /\ (p = Daemon => loop' = loop)
        /\ (p # Daemon => loop = p)
    BY <1>8 DEF Ends, Working
  <2>2. prog' = [prog EXCEPT ![p] = <<>>]
    BY <1>00, <2>1 DEF TypeOK
  <2>3. ProgGood(p, <<>>)
    BY NoneGood
  <2> QED BY <1>5, <2>1, <2>2, <2>3
<1>9. ASSUME NEW p \in Procs, WriteFails(p) PROVE Programs'
  <2>1. \E s : prog' = [prog EXCEPT ![p] = s] /\ ProgGood(p, s) /\ (loop'= loop \/ s = <<>>)
    BY <1>9, FailGood
  <2>2. UNCHANGED seen /\ Working(p)
    BY <1>9 DEF WriteFails
  <2>3. p = Daemon => UNCHANGED loop
    BY <1>9 DEF WriteFails, Stops
  <2> QED BY <1>5, <2>1, <2>2, <2>3 DEF Working
<1>10. ASSUME NEW j \in Jobs, DaemonFinishes(j) PROVE Programs'
  <2>1. UNCHANGED <<seen, loop>>
    BY <1>10 DEF DaemonFinishes
  <2>2. CASE UNCHANGED prog
    BY <1>0, <2>1, <2>2, SamePrograms
  <2>3. CASE prog' = [prog EXCEPT ![Daemon] = << <<"ingest", {j}>>, <<"deliver", j>> >>]
    <3>1. PICK s : s = << <<"ingest", {j}>>, <<"deliver", j>> >>
      OBVIOUS
    <3>2. ProgGood(Daemon, s)
      BY <3>1, FoundGood
    <3> QED BY <1>5, <1>00, <2>1, <2>3, <3>1, <3>2
  <2> QED BY <1>10, <2>2, <2>3 DEF DaemonFinishes
<1>11. ASSUME NEW j \in Jobs, CommandFinishes(j) PROVE Programs'
  BY <1>0, <1>11, SamePrograms DEF CommandFinishes, work
<1>12. WebDies => Programs'
  BY <1>0, KilledPrograms
<1>13. DaemonDies => Programs'
  <2> SUFFICES ASSUME DaemonDies PROVE Programs'
    OBVIOUS
  <2>1. prog' = [prog EXCEPT ![Daemon] = <<>>] /\ UNCHANGED <<seen, loop>>
    BY DEF DaemonDies, Stops
  <2> QED BY <1>5, <1>00, <2>1, NoneGood
<1> QED BY <1>1, <1>2, <1>3, <1>4, <1>6, <1>7, <1>8, <1>9, <1>10, <1>11, <1>12, <1>13, Steps

(* Where a process is in its write, and what it is to do there.             *)
AtFine(p, a, s, e) ==
    /\ a \in {"load", "cut", "fill"} => s # <<>>
    /\ a = "load" =>
          \/ Head(s)[1] = "turn" /\ e \in {"turns"} \X SUBSET Turns
          \/ Head(s)[1] = "track" /\ e \in {"registry"} \X Registries
    /\ a \in {"cut", "fill"} => Head(s)[1] \in Fields \cup {"touch", "turn", "track"}
    /\ p = Daemon => a \notin {"wait", "over"} /\ (a = "idle" => s = <<>>)

(* This is what AtOk says of each process.                                  *)
LEMMA AllFine == AtOk => \A p \in Procs : AtFine(p, at[p], prog[p], edit[p])
BY DEF AtOk, AtFine

(* It stays so when one process moves,                                      *)
LEMMA OneAt ==
    ASSUME Base, NEW p \in Procs, NEW a, NEW s, NEW e, AtFine(p, a, s, e),
           at' = [at EXCEPT ![p] = a], prog' = [prog EXCEPT ![p] = s],
               edit' = [edit EXCEPT ![p] = e],
           p = Daemon => loop' = loop,
           p # Daemon => /\ a \in {"get", "load", "cut", "fill"} <=> loop' = p
                         /\ \A t \in Requests \ {p} : loop' = t <=> loop = t
    PROVE  AtOk'
<1>0. /\ Requests \subseteq Procs /\ Daemon \in Procs /\ Daemon \notin Requests
      /\ DOMAIN at = Procs /\ DOMAIN prog = Procs /\ DOMAIN edit = Procs
  BY SessionAssumption DEF Procs, Base, TypeOK
<1>1. /\ at'[p] = a /\ prog'[p] = s /\ edit'[p] = e
      /\ \A q \in Procs \ {p} : at'[q] = at[q] /\ prog'[q] = prog[q] /\ edit'[q] = edit[q]
  BY <1>0
<1>2. \A q \in Procs : AtFine(q, at'[q], prog'[q], edit'[q])
  <2> TAKE q \in Procs
  <2>1. CASE q = p
    BY <1>1, <2>1
  <2>2. CASE q # p
    <3>1. AtFine(q, at[q], prog[q], edit[q])
      BY AllFine DEF Base
    <3> QED BY <1>1, <2>2, <3>1
  <2> QED BY <2>1, <2>2
<1>3. \A t \in Requests : at'[t] \in {"get", "load", "cut", "fill"} <=> loop' = t
  <2> TAKE t \in Requests
  <2>1. at[t] \in {"get", "load", "cut", "fill"} <=> loop = t
    BY DEF Base, AtOk
  <2>2. CASE t = p
    BY <1>0, <1>1, <2>2
  <2>3. CASE t # p
    <3>1. at'[t] = at[t]
      BY <1>0, <1>1, <2>3
    <3>2. loop' = t <=> loop = t
      BY <2>3
    <3> QED BY <2>1, <3>1, <3>2
  <2> QED BY <2>2, <2>3
<1> QED BY <1>0, <1>2, <1>3 DEF AtOk, AtFine

(* prepares its write,                                                      *)
LEMMA PreparesAt ==
    ASSUME Base, NEW p \in Procs, Prepares(p)
    PROVE  AtOk' /\ Working(p)
               /\ UNCHANGED <<file, loop, prog, seen, queue, drafts, faults, history>>
<1>0. /\ Requests \subseteq Procs /\ Daemon \in Procs /\ Daemon \notin Requests
      /\ DOMAIN at = Procs /\ DOMAIN prog = Procs /\ DOMAIN edit = Procs
  BY SessionAssumption DEF Procs, Base, TypeOK
<1>1. Working(p) /\ UNCHANGED <<file, loop, prog, seen, queue, drafts, faults, history>>
  BY DEF Prepares, Put, Touch, Load, AppendTurn, Track, WillPut, Doing
<1>2. prog' = [prog EXCEPT ![p] = prog[p]] /\ UNCHANGED loop
  BY <1>0, <1>1 DEF Base, TypeOK
<1>3. Contents \in Payloads
  BY ContentsKnown
<1>4. AtFine(p, at[p], prog[p], edit[p]) /\ prog[p] \in Seq(Ops)
  BY AllFine DEF Base, TypeOK
<1>5. (p # Daemon => loop = p) /\ at[p] \in {"get", "load"}
  BY DEF Prepares, Put, Touch, Load, AppendTurn, Track, Doing, Working
<1>6. CASE Put(p) \/ Touch(p) \/ Load(p)
  <2>1. at' = [at EXCEPT ![p] = "cut"] /\ edit' = [edit EXCEPT ![p] = edit[p]]
    BY <1>0, <1>6 DEF Put, Touch, Load, Base, TypeOK
  <2>2. prog[p] # <<>> /\ Head(prog[p])[1] \in Fields \cup {"touch", "turn", "track"}
    BY <1>4, <1>6 DEF Put, Touch, Load, Doing, AtFine, Fields
  <2>3. AtFine(p, "cut", prog[p], edit[p])
    BY <2>2 DEF AtFine
  <2> QED BY <1>1, <1>2, <1>5, <2>1, <2>3, OneAt
<1>7. CASE AppendTurn(p)
  <2> DEFINE e == <<"turns", Contents.turns \cup {Head(prog[p])[2]}>>
  <2>1. at' = [at EXCEPT ![p] = "load"] /\ edit' = [edit EXCEPT ![p] = e] /\ prog[p] # <<>>
            /\ Head(prog[p])[1] = "turn"
    BY <1>7 DEF AppendTurn, WillPut, Doing
  <2>2. Head(prog[p])[2] \in Turns
    BY <1>4, <2>1, Shorter, OpsAre
  <2>3. e \in {"turns"} \X SUBSET Turns
    BY <1>3, <2>2 DEF Payloads
  <2> HIDE DEF e
  <2>4. AtFine(p, "load", prog[p], e)
    BY <2>1, <2>3 DEF AtFine
  <2> QED BY <1>1, <1>2, <1>5, <2>1, <2>4, OneAt
<1>8. CASE Track(p)
  <2> DEFINE e == <<"registry", [Contents.registry EXCEPT !.tracked = @ \cup {Head(prog[p])[2]}]>>
  <2>1. at' = [at EXCEPT ![p] = "load"] /\ edit' = [edit EXCEPT ![p] = e] /\ prog[p] # <<>>
            /\ Head(prog[p])[1] = "track"
    BY <1>8 DEF Track, WillPut, Doing
  <2>2. Head(prog[p])[2] \in Jobs
    BY <1>4, <2>1, Shorter, OpsAre
  <2>3. e \in {"registry"} \X Registries
    BY <1>3, <2>2 DEF Payloads, Registries
  <2> HIDE DEF e
  <2>4. AtFine(p, "load", prog[p], e)
    BY <2>1, <2>3 DEF AtFine
  <2> QED BY <1>1, <1>2, <1>5, <2>1, <2>4, OneAt
<1> QED BY <1>6, <1>7, <1>8 DEF Prepares

(* ends it,                                                                 *)
LEMMA FillAt ==
    ASSUME Base, NEW p \in Procs, Fill(p)
    PROVE  AtOk'
<1>0. /\ Requests \subseteq Procs /\ Daemon \in Procs /\ Daemon \notin Requests
      /\ prog \in [Procs -> Seq(Ops)]
  BY SessionAssumption DEF Procs, Base, TypeOK
<1>1. /\ at' = [at EXCEPT ![p] = "get"] /\ prog' = [prog EXCEPT ![p] = Tail(prog[p])]
      /\ edit' = [edit EXCEPT ![p] = None] /\ UNCHANGED loop /\ (p # Daemon => loop = p)
  BY <1>0 DEF Fill, Forgets, Working
<1>2. AtFine(p, "get", Tail(prog[p]), None)
  BY DEF AtFine
<1> QED BY <1>1, <1>2, OneAt

(* or does anything else.                                                   *)
LEMMA AtStays ==
    ASSUME Base, Next
    PROVE  AtOk'
<1>0. /\ Requests \subseteq Procs /\ Daemon \in Procs /\ Daemon \notin Requests
      /\ None \notin Requests
      /\ prog \in [Procs -> Seq(Ops)] /\ DOMAIN at = Procs
      /\ edit \in [Procs -> {None} \cup {"turns"} \X (SUBSET Turns)
             \cup {"registry"} \X Registries]
      /\ at \in [Procs -> {"idle", "get", "load", "cut", "fill", "wait", "over"}] /\ TypeOK
  BY SessionAssumption DEF Procs, Base, TypeOK
<1>1. ASSUME NEW t \in Requests, Starts(t) \/ Returns(t) PROVE AtOk'
  <2>1. /\ loop = None /\ loop' = t /\ at' = [at EXCEPT ![t] = "get"] /\ UNCHANGED edit
        /\ \E s : prog' = [prog EXCEPT ![t] = s]
    <3>1. CASE Starts(t)
      BY <1>0, <3>1, StartsDo DEF Begins
    <3>2. CASE Returns(t)
      BY <1>0, <3>2, AnswerBegins DEF Returns, Continues, Interrupted, Resumes
    <3> QED BY <1>1, <3>1, <3>2
  <2>2. PICK s : prog' = [prog EXCEPT ![t] = s]
    BY <2>1
  <2>3. edit' = [edit EXCEPT ![t] = edit[t]]
    BY <1>0, <2>1
  <2>4. AtFine(t, "get", s, edit[t])
    BY <1>0 DEF AtFine
  <2>5. t \in Procs /\ t # Daemon /\ \A u \in Requests \ {t} : loop' = u <=> loop = u
    BY <1>0, <2>1
  <2> QED BY <2>1, <2>2, <2>3, <2>4, <2>5, OneAt
<1>2. ASSUME NEW p \in Procs, NEW a, NEW s, AtFine(p, a, s, edit[p]), UNCHANGED edit,
             at' = [at EXCEPT ![p] = a], prog' = [prog EXCEPT ![p] = s],
             p = Daemon => loop' = loop,
             p # Daemon => /\ loop = p
                           /\ \/ loop' = p /\ a \in {"get", "load", "cut", "fill"}
                              \/ loop' = None /\ a \notin {"get", "load", "cut", "fill"}
      PROVE  AtOk'
  <2>1. edit' = [edit EXCEPT ![p] = edit[p]]
    BY <1>0, <1>2
  <2>2. p # Daemon => /\ a \in {"get", "load", "cut", "fill"} <=> loop' = p
                      /\ \A t \in Requests \ {p} : loop' = t <=> loop = t
    <3>1. p # Daemon => p \in Requests
      BY DEF Procs
    <3> QED BY <1>0, <1>2, <3>1
  <2> QED BY <1>2, <2>1, <2>2, OneAt
<1>3. ASSUME NEW t \in Requests, Wait(t) PROVE AtOk'
  <2>1. /\ loop = t /\ loop' = None /\ at' = [at EXCEPT ![t] = "wait"] /\ UNCHANGED edit
        /\ prog' = [prog EXCEPT ![t] = prog[t]] /\ t \in Procs
    BY <1>0, <1>3 DEF Wait, Doing, Working
  <2>2. AtFine(t, "wait", prog[t], edit[t])
    BY <1>0 DEF AtFine
  <2> QED BY <1>0, <1>2, <2>1, <2>2
<1>4. ASSUME NEW p \in Procs, Cut(p) PROVE AtOk'
  <2>1. /\ at' = [at EXCEPT ![p] = "fill"] /\ UNCHANGED <<loop, edit>> /\ (p # Daemon => loop = p)
        /\ prog' = [prog EXCEPT ![p] = prog[p]] /\ at[p] = "cut"
    BY <1>0, <1>4 DEF Cut, Working
  <2>2. AtFine(p, "fill", prog[p], edit[p])
    BY <2>1, AllFine DEF AtFine, Base
  <2> QED BY <1>2, <2>1, <2>2
<1>5. ASSUME NEW p \in Procs, Rewrites(p) PROVE AtOk'
  <2>1. \E s : prog' = [prog EXCEPT ![p] = s]
    BY <1>5, RewritesDo
  <2>2. PICK s : prog' = [prog EXCEPT ![p] = s]
    BY <2>1
  <2>3. UNCHANGED <<at, edit, loop>> /\ at[p] = "get" /\ (p # Daemon => loop = p)
    BY <1>5, RewritesDo DEF Working
  <2>4. at' = [at EXCEPT ![p] = "get"] /\ AtFine(p, "get", s, edit[p])
    BY <1>0, <2>3 DEF AtFine
  <2> QED BY <1>2, <2>2, <2>3, <2>4
<1>6. ASSUME NEW p \in Procs, Ends(p) PROVE AtOk'
  <2> DEFINE a == IF p = Daemon THEN "idle" ELSE "over"
  <2>1. /\ at' = [at EXCEPT ![p] = a] /\ UNCHANGED edit /\ prog' = [prog EXCEPT ![p] = <<>>]
        /\ (p # Daemon => loop = p /\ loop' = None) /\ (p = Daemon => loop' = loop)
    BY <1>0, <1>6 DEF Ends, Working
  <2>2. AtFine(p, a, <<>>, edit[p])
    BY DEF AtFine
  <2> QED BY <1>2, <2>1, <2>2
<1>7. ASSUME NEW p \in Procs, Stops(p), Forgets(p), p # Daemon => loop = p PROVE AtOk'
  <2> DEFINE a == IF p = Daemon THEN "idle" ELSE "over"
  <2>1. /\ at' = [at EXCEPT ![p] = a] /\ edit' = [edit EXCEPT ![p] = None]
        /\ prog' = [prog EXCEPT ![p] = <<>>]
        /\ (p # Daemon => loop = p /\ loop' = None) /\ (p = Daemon => loop' = loop)
    BY <1>7 DEF Stops, Forgets
  <2>2. AtFine(p, a, <<>>, None)
    BY DEF AtFine
  <2> HIDE DEF a
  <2>3. p # Daemon => a \notin {"get", "load", "cut", "fill"} /\ loop' # p
                      /\ \A t \in Requests \ {p} : loop' = t <=> loop = t
    BY <1>0, <2>1 DEF a, Procs
  <2> QED BY <2>1, <2>2, <2>3, OneAt
<1>8. ASSUME NEW p \in Procs, WriteFails(p) PROVE AtOk'
  <2>1. Forgets(p) /\ (p # Daemon => loop = p)
    BY <1>8 DEF WriteFails, Working
  <2>2. CASE Stops(p)
    BY <1>7, <2>1, <2>2
  <2>3. CASE ~Stops(p)
    <3>1. /\ at' = [at EXCEPT ![p] = "get"] /\ UNCHANGED loop
                 /\ \E s : prog' = [prog EXCEPT ![p] = s]
      BY <1>8, <2>3 DEF WriteFails
    <3>2. PICK s : prog' = [prog EXCEPT ![p] = s]
      BY <3>1
    <3>3. AtFine(p, "get", s, None)
      BY DEF AtFine
    <3> QED BY <2>1, <3>1, <3>2, <3>3, OneAt DEF Forgets
  <2> QED BY <2>2, <2>3
<1>9. ASSUME NEW j \in Jobs, DaemonFinishes(j) PROVE AtOk'
  <2>1. UNCHANGED <<loop, edit>>
    BY <1>9 DEF DaemonFinishes
  <2>2. CASE UNCHANGED <<at, prog>>
    BY <2>1, <2>2 DEF Base, AtOk
  <2>3. CASE /\ at' = [at EXCEPT ![Daemon] = "get"]
             /\ prog' = [prog EXCEPT ![Daemon] = << <<"ingest", {j}>>, <<"deliver", j>> >>]
    <3>1. PICK s : s = << <<"ingest", {j}>>, <<"deliver", j>> >>
      OBVIOUS
    <3>2. AtFine(Daemon, "get", s, edit[Daemon])
      BY DEF AtFine
    <3> QED BY <1>0, <1>2, <2>1, <2>3, <3>1, <3>2
  <2> QED BY <1>9, <2>2, <2>3 DEF DaemonFinishes
<1>10. ASSUME NEW j \in Jobs, CommandFinishes(j) PROVE AtOk'
  BY <1>10 DEF CommandFinishes, work, Base, AtOk
<1>11. WebDies => AtOk'
  <2> SUFFICES ASSUME WebDies PROVE AtOk'
    OBVIOUS
  <2>1. /\ at' = [p \in Procs |-> IF p # Daemon /\ at[p] # "idle" THEN "over" ELSE at[p]]
        /\ prog' = [p \in Procs |-> IF p # Daemon THEN <<>> ELSE prog[p]]
        /\ edit' = [p \in Procs |-> IF p # Daemon THEN None ELSE edit[p]]
        /\ loop' = None
    BY DEF WebDies
  <2>2. at'[Daemon] = at[Daemon] /\ prog'[Daemon] = prog[Daemon] /\ edit'[Daemon] = edit[Daemon]
    BY <1>0, <2>1
  <2>3. ASSUME NEW p \in Procs PROVE AtFine(p, at'[p], prog'[p], edit'[p])
    <3>1. AtFine(p, at[p], prog[p], edit[p])
      BY AllFine DEF Base
    <3>2. CASE p = Daemon
      BY <2>2, <3>1, <3>2
    <3>3. CASE p # Daemon
      <4>1. at'[p] \in {"idle", "over"}
        BY <2>1, <3>3
      <4> QED BY <3>3, <4>1 DEF AtFine
    <3> QED BY <3>2, <3>3
  <2>4. \A t \in Requests : at'[t] \in {"idle", "over"} /\ loop' # t
    BY <1>0, <2>1
  <2> QED BY <1>0, <2>3, <2>4 DEF AtOk, AtFine
<1>12. DaemonDies => AtOk'
  BY <1>0, <1>7 DEF DaemonDies
<1> QED BY <1>0, <1>1, <1>3, <1>4, <1>5, <1>6, <1>8, <1>9, <1>10, <1>11, <1>12, FillAt,
           PreparesAt, Steps

(* The session file and what a process is about to make of it.              *)
FileFine(c) == c \in Payloads /\ c.preview \in Known

(* Who reads the file finds a known preview, and so will it be.             *)
Files ==
    /\ file \in {NoFile, Torn} \/ FileFine(file)
    /\ copy \in [Procs -> Payloads] /\ \A p \in Procs : FileFine(copy[p])

(* All of which Base has,                                                   *)
LEMMA FilesAre == Base => Files
<1> HAVE Base
<1>1. file \in {NoFile, Torn} \/ FileFine(file)
  BY DEF Base, TypeOK, Names, FileFine
<1>2. copy \in [Procs -> Payloads] /\ \A p \in Procs : FileFine(copy[p])
  BY DEF Base, TypeOK, Names, FileFine
<1> QED BY <1>1, <1>2 DEF Files

(* of an empty session and of what a reader sees,                           *)
LEMMA DefaultFine == FileFine(Default) /\ (Base => FileFine(Contents))
<1>1. Default \in Payloads /\ Default.preview = None /\ None \in Known
  BY DEF Default, Payloads, Handoffs, Statuses, Registries, Known
<1> QED BY <1>1, ContentsKnown DEF FileFine

(* and of a copy as it is made.                                             *)
LEMMA CopyMade ==
    ASSUME Base, NEW p \in Procs, Prepares(p)
    PROVE  \E c : FileFine(c) /\ copy' = [copy EXCEPT ![p] = c]
<1>0. /\ FileFine(Contents) /\ copy \in [Procs -> Payloads] /\ prog[p] \in Seq(Ops)
      /\ FileFine(copy[p])
      /\ \A i \in DOMAIN prog[p] : OpGood(p, prog[p][i])
  BY DefaultFine, FilesAre DEF Base, TypeOK, Programs, ProgGood, Files
<1>1. CASE Put(p)
  <2>1. PICK f \in {"preview", "handoff", "registry", "ctx"} :
           /\ Doing(p, f)
           /\ copy' = [copy EXCEPT ![p] = [Contents EXCEPT ![f] = Head(prog[p])[2]]]
    BY <1>1 DEF Put
  <2>2. PICK x \in Ops : x = Head(prog[p]) /\ OpGood(p, x) /\ x[1] = f
    <3>1. prog[p] # <<>> /\ Head(prog[p])[1] = f
      BY <2>1 DEF Doing
    <3>2. Head(prog[p]) = prog[p][1] /\ Head(prog[p]) \in Ops /\ 1 \in DOMAIN prog[p]
      BY <1>0, <3>1, Shorter
    <3> QED BY <1>0, <3>1, <3>2
  <2>3. /\ x[1] = "preview" => x[2] \in Previews \cup {None} /\ x[2] \in Known
        /\ x[1] = "handoff" => x[2] \in Handoffs
        /\ x[1] = "registry" => x[2] \in Registries
        /\ x[1] = "ctx" => x[2] \in BOOLEAN
    BY <2>2, OpsAre DEF OpGood
  <2> DEFINE c == [Contents EXCEPT ![f] = x[2]]
  <2>4. FileFine(c)
    <3>1. CASE f = "preview"
      BY <1>0, <2>2, <2>3, <3>1 DEF FileFine, Payloads
    <3>2. CASE f = "handoff"
      BY <1>0, <2>2, <2>3, <3>2 DEF FileFine, Payloads
    <3>3. CASE f = "registry"
      BY <1>0, <2>2, <2>3, <3>3 DEF FileFine, Payloads
    <3>4. CASE f = "ctx"
      BY <1>0, <2>2, <2>3, <3>4 DEF FileFine, Payloads
    <3> QED BY <3>1, <3>2, <3>3, <3>4
  <2> QED BY <2>1, <2>2, <2>4
<1>2. CASE Touch(p)
  BY <1>0, <1>2 DEF Touch
<1>3. CASE Load(p)
  <2>1. edit[p] \in {"turns"} \X SUBSET Turns \/ edit[p] \in {"registry"} \X Registries
    BY <1>3, AllFine DEF Load, AtFine, Base
  <2> DEFINE c == [Contents EXCEPT ![edit[p][1]] = edit[p][2]]
  <2>2. FileFine(c)
    <3>1. CASE edit[p] \in {"turns"} \X SUBSET Turns
      BY <1>0, <3>1 DEF FileFine, Payloads
    <3>2. CASE edit[p] \in {"registry"} \X Registries
      BY <1>0, <3>2 DEF FileFine, Payloads
    <3> QED BY <2>1, <3>1, <3>2
  <2> QED BY <1>3, <2>2 DEF Load
<1>4. CASE AppendTurn(p) \/ Track(p)
  <2>1. UNCHANGED copy
    BY <1>4 DEF AppendTurn, Track, WillPut
  <2>2. copy' = [copy EXCEPT ![p] = copy[p]]
    BY <1>0, <2>1
  <2> QED BY <1>0, <2>2
<1> QED BY <1>1, <1>2, <1>3, <1>4 DEF Prepares

(* What a step does to the file and the copies.                             *)
LEMMA FileSteps ==
    ASSUME Base, Next
    PROVE  /\ \/ UNCHANGED file \/ file' \in {NoFile, Torn}
              \/ \E p \in Procs : file' = copy[p]
           /\ \/ UNCHANGED copy
              \/ \E p \in Procs : \E c : FileFine(c) /\ copy' = [copy EXCEPT ![p] = c]
              \/ copy' = [p \in Procs |-> IF p # Daemon THEN Default ELSE copy[p]]
<1>1. ASSUME NEW t \in Requests, Starts(t) \/ Returns(t) \/ Wait(t)
      PROVE  UNCHANGED <<file, copy>>
  <2>1. Starts(t) => UNCHANGED <<file, copy>>
    BY StartsDo DEF Begins, Base
  <2>2. Returns(t) \/ Wait(t) => UNCHANGED <<file, copy>>
    BY DEF Returns, Continues, Interrupted, Answered, Resumes, Wait
  <2> QED BY <1>1, <2>1, <2>2
<1>2. ASSUME NEW p \in Procs, Prepares(p)
      PROVE  UNCHANGED file /\ \E c : FileFine(c) /\ copy' = [copy EXCEPT ![p] = c]
  BY <1>2, CopyMade, PreparesAt
<1>3. ASSUME NEW p \in Procs, Rewrites(p) \/ Cut(p) \/ Ends(p)
      PROVE  UNCHANGED copy /\ (UNCHANGED file \/ file' \in {NoFile, Torn})
  <2>1. Cut(p) \/ Ends(p) => UNCHANGED copy /\ (UNCHANGED file \/ file' \in {NoFile, Torn})
    BY DEF Cut, Ends
  <2>2. Rewrites(p) => UNCHANGED copy
    BY RewritesDo
  <2>3. Rewrites(p) => UNCHANGED file \/ file' \in {NoFile, Torn}
    BY DEF Rewrites, Ingest, Surface, Submit, EmitFails, Submitted, Unlink, Deliver
  <2> QED BY <1>3, <2>1, <2>2, <2>3
<1>4. ASSUME NEW p \in Procs, Forgets(p)
      PROVE  \E c : FileFine(c) /\ copy' = [copy EXCEPT ![p] = c]
  BY <1>4, DefaultFine DEF Forgets
<1>5. ASSUME NEW p \in Procs, Fill(p) PROVE file' = copy[p] /\ Forgets(p)
  BY <1>5 DEF Fill
<1>6. ASSUME NEW p \in Procs, WriteFails(p) PROVE UNCHANGED file /\ Forgets(p)
  BY <1>6 DEF WriteFails
<1>7. DaemonDies => UNCHANGED file /\ Forgets(Daemon) /\ Daemon \in Procs
  BY DEF DaemonDies, Procs
<1>8. WebDies => UNCHANGED file
          /\ copy' = [p \in Procs |-> IF p # Daemon THEN Default ELSE copy[p]]
  BY DEF WebDies
<1>9. ASSUME NEW j \in Jobs, DaemonFinishes(j) \/ CommandFinishes(j)
      PROVE  UNCHANGED <<file, copy>>
  BY <1>9 DEF DaemonFinishes, CommandFinishes, work
<1> QED BY <1>1, <1>2, <1>3, <1>4, <1>5, <1>6, <1>7, <1>8, <1>9, Steps

(* It stays so.                                                             *)
LEMMA FilesStay ==
    ASSUME Base, Next
    PROVE  Files'
<1>0. Files /\ Known \subseteq Known' /\ FileFine(Default) /\ FileFine(Contents)
  BY FilesAre, MoreKnown, GoesOnward, DefaultFine
<1>1. ASSUME NEW c, FileFine(c) PROVE FileFine(c)'
  BY <1>0, <1>1 DEF FileFine
<1>2. (file \in {NoFile, Torn})' \/ FileFine(file)'
  <2>1. CASE UNCHANGED file
    BY <1>0, <2>1 DEF Files, FileFine
  <2>2. CASE file' \in {NoFile, Torn}
    BY <2>2
  <2>3. CASE \E p \in Procs : file' = copy[p]
    BY <1>0, <2>3 DEF Files, FileFine
  <2> QED BY <2>1, <2>2, <2>3, FileSteps
<1>3. (copy \in [Procs -> Payloads])' /\ (\A p \in Procs : FileFine(copy[p]))'
  <2>1. CASE UNCHANGED copy
    BY <1>0, <2>1 DEF Files, FileFine
  <2>2. CASE \E p \in Procs : \E c : FileFine(c) /\ copy' = [copy EXCEPT ![p] = c]
    BY <1>0, <2>2 DEF Files, FileFine
  <2>3. CASE copy' = [p \in Procs |-> IF p # Daemon THEN Default ELSE copy[p]]
    BY <1>0, <2>3 DEF Files, FileFine
  <2> QED BY <2>1, <2>2, <2>3, FileSteps
<1> QED BY <1>2, <1>3 DEF Files

(* A job is submitted by a request at work, and of what is known.           *)
LEMMA SubmitDoes ==
    ASSUME Base, NEW t \in Requests, Submit(t)
    PROVE  \/ UNCHANGED queue
           \/ \E j \in Jobs, v \in Known \ {None}, m \in BOOLEAN :
                /\ sent[j] = None /\ v \in Previews
                /\ v = IF Contents.preview # None THEN Contents.preview ELSE Head(prog[t])[2]
                /\ Head(prog[t])[2] = seen[t]
                /\ seen[t] # None => v = seen[t]
                /\ FreshJob(j)
                /\ Skip(t, (IF m THEN << <<"handoff", Failed>> >> ELSE Accepted(j)) \o Tail(prog[t]))
                /\ sent' = [sent EXCEPT ![j] = [preview |-> v, by |-> t, missed |-> m]]
                /\ state' = [state EXCEPT ![j] = "queued"]
<1>0. t # Daemon /\ t \in Procs
  BY SessionAssumption DEF Procs
<1> DEFINE x == Head(prog[t])
<1>1. prog[t] # <<>> /\ x[1] = "submit" /\ prog[t] \in Seq(Ops)
          /\ \A i \in DOMAIN prog[t] : OpGood(t, prog[t][i])
  BY <1>0 DEF Submit, Doing, Base, Programs, ProgGood
<1>2. x[2] = seen[t]
  BY <1>0, <1>1, Shorter DEF OpGood
<1>3. seen[t] \in Known /\ Contents.preview \in Known
  BY ContentsKnown DEF Base, Names
<1> DEFINE v == IF Contents.preview # None THEN Contents.preview ELSE x[2]
<1>4. \/ UNCHANGED queue
      \/ /\ v # None
         /\ Contents.preview \in {None, x[2]}
                \cup (IF x[2] = None THEN {Contents.preview} ELSE {})
         /\ \E j \in Jobs, m \in BOOLEAN :
                /\ FreshJob(j)
                /\ sent' = [sent EXCEPT ![j] = [preview |-> v, by |-> t, missed |-> m]]
                /\ state' = [state EXCEPT ![j] = "queued"]
                /\ Skip(t, (IF m THEN << <<"handoff", Failed>> >> ELSE Accepted(j)) \o Tail(prog[t]))
  BY DEF Submit
<1>5. v \in Known
  BY <1>2, <1>3
<1>6. Contents.preview \in {None, x[2]} \cup (IF x[2] = None THEN {Contents.preview} ELSE {})
      => (seen[t] # None => v = seen[t])
  BY <1>2
<1>7. v # None => v \in Previews
  BY <1>5 DEF Known
<1>8. v = IF Contents.preview # None THEN Contents.preview ELSE Head(prog[t])[2]
  OBVIOUS
<1> HIDE DEF v
<1> QED BY <1>2, <1>4, <1>5, <1>6, <1>7, <1>8 DEF FreshJob

(* Who else changes the queue.                                              *)
LEMMA QueueSteps ==
    ASSUME Base, Next
    PROVE  \/ UNCHANGED queue
           \/ \E t \in Requests : Submit(t) /\ Doing(t, "submit")
           \/ UNCHANGED sent /\ \E j \in Jobs : /\ state[j] = "queued"
                                                 /\ state' \in {[state EXCEPT ![j] = o] : o
                                                        \in {"reported", "quiet"}}
<1>1. ASSUME NEW t \in Requests, Starts(t) \/ Returns(t) \/ Wait(t)
      PROVE  UNCHANGED queue
  <2>1. Starts(t) => UNCHANGED queue
    BY StartsDo DEF Begins, Base
  <2>2. Returns(t) \/ Wait(t) => UNCHANGED queue
    BY DEF Returns, Continues, Interrupted, Answered, Resumes, Wait
  <2> QED BY <1>1, <2>1, <2>2
<1>2. ASSUME NEW p \in Procs, Prepares(p) \/ Cut(p) \/ Fill(p) \/ Ends(p) \/ WriteFails(p)
      PROVE  UNCHANGED queue
  BY <1>2, PreparesAt DEF Cut, Fill, Ends, WriteFails
<1>3. ASSUME NEW p \in Procs, Rewrites(p)
      PROVE  UNCHANGED queue \/ \E t \in Requests : Submit(t) /\ Doing(t, "submit")
  <2>1. p # Daemon => p \in Requests
    BY DEF Procs
  <2>2. UNCHANGED queue \/ (p # Daemon /\ Submit(p))
    BY <1>3 DEF Rewrites, Ingest, Surface, EmitFails, Submitted, Unlink, Deliver
  <2>3. Submit(p) => Doing(p, "submit")
    BY DEF Submit
  <2> QED BY <2>1, <2>2, <2>3
<1>4. ASSUME NEW j \in Jobs, DaemonFinishes(j) \/ CommandFinishes(j)
      PROVE  UNCHANGED sent /\ state[j] = "queued"
             /\ state' \in {[state EXCEPT ![j] = o] : o \in {"reported", "quiet"}}
  BY <1>4 DEF DaemonFinishes, CommandFinishes
<1>5. WebDies \/ DaemonDies => UNCHANGED queue
  BY DEF WebDies, DaemonDies
<1> QED BY <1>1, <1>2, <1>3, <1>4, <1>5, Steps

(* Who has come in has come in for good.                                    *)
LEMMA AtSteps ==
    ASSUME Base, Next
    PROVE  /\ at' \in [Procs -> {"idle", "get", "load", "cut", "fill", "wait", "over"}]
           /\ loop' \in Requests \cup {None}
           /\ \A t \in Requests : at[t] # "idle" => at'[t] # "idle"
<1>0. /\ Requests \subseteq Procs /\ Daemon \in Procs /\ Daemon \notin Requests
      /\ at \in [Procs -> {"idle", "get", "load", "cut", "fill", "wait", "over"}]
      /\ loop \in Requests \cup {None} /\ TypeOK
  BY SessionAssumption DEF Procs, Base, TypeOK
<1> DEFINE Ok == /\ at' \in [Procs -> {"idle", "get", "load", "cut", "fill", "wait", "over"}]
                 /\ loop' \in Requests \cup {None}
                 /\ \A t \in Requests : at[t] # "idle" => at'[t] # "idle"
<1>1. ASSUME NEW p \in Procs, NEW a \in {"idle", "get", "load", "cut", "fill", "wait", "over"},
             a # "idle" \/ p = Daemon, at' = [at EXCEPT ![p] = a], loop' \in Requests \cup {None}
      PROVE  Ok
  BY <1>0, <1>1
<1>2. ASSUME NEW t \in Requests, Starts(t) \/ Returns(t) PROVE Ok
  <2>1. at' = [at EXCEPT ![t] = "get"] /\ loop' = t
    <3>1. Starts(t) => at' = [at EXCEPT ![t] = "get"] /\ loop' = t
      BY <1>0, StartsDo DEF Begins
    <3>2. Returns(t) => at' = [at EXCEPT ![t] = "get"] /\ loop' = t
      BY DEF Returns, Continues, Interrupted, Answered, Resumes
    <3> QED BY <1>2, <3>1, <3>2
  <2> QED BY <1>0, <1>1, <2>1
<1>3. ASSUME NEW t \in Requests, Wait(t) PROVE Ok
  BY <1>0, <1>1, <1>3 DEF Wait
<1>4. ASSUME NEW p \in Procs, Prepares(p) PROVE Ok
  <2>1. \E a \in {"load", "cut"} : at' = [at EXCEPT ![p] = a]
    BY <1>4 DEF Prepares, Put, Touch, Load, AppendTurn, Track, WillPut
  <2>2. loop' = loop
    BY <1>4, PreparesAt
  <2> QED BY <1>0, <1>1, <2>1, <2>2
<1>5. ASSUME NEW p \in Procs, Cut(p) PROVE Ok
  BY <1>0, <1>1, <1>5 DEF Cut
<1>6. ASSUME NEW p \in Procs, Fill(p) PROVE Ok
  BY <1>0, <1>1, <1>6 DEF Fill
<1>7. ASSUME NEW p \in Procs, Rewrites(p) PROVE Ok
  BY <1>0, <1>7, RewritesDo
<1>8. ASSUME NEW p \in Procs, Stops(p) \/ Ends(p) PROVE Ok
  <2> DEFINE a == IF p = Daemon THEN "idle" ELSE "over"
  <2>1. /\ at' = [at EXCEPT ![p] = a] /\ loop' \in Requests \cup {None}
        /\ a \in {"idle", "over"} /\ (a # "idle" \/ p = Daemon)
    BY <1>0, <1>8 DEF Stops, Ends
  <2> HIDE DEF a
  <2> QED BY <1>1, <2>1
<1>9. ASSUME NEW p \in Procs, WriteFails(p) PROVE Ok
  <2>1. Stops(p) \/ (at' = [at EXCEPT ![p] = "get"] /\ UNCHANGED loop)
    BY <1>9 DEF WriteFails
  <2> QED BY <1>0, <1>1, <1>8, <2>1
<1>10. ASSUME NEW j \in Jobs, DaemonFinishes(j) PROVE Ok
  <2>1. UNCHANGED loop /\ (UNCHANGED at \/ at' = [at EXCEPT ![Daemon] = "get"])
    BY <1>10 DEF DaemonFinishes
  <2> QED BY <1>0, <1>1, <2>1
<1>11. ASSUME NEW j \in Jobs, CommandFinishes(j) PROVE Ok
  BY <1>0, <1>11 DEF CommandFinishes, work
<1>12. WebDies => Ok
  <2> SUFFICES ASSUME WebDies PROVE Ok
    OBVIOUS
  <2>1. at' = [p \in Procs |-> IF p # Daemon /\ at[p] # "idle" THEN "over" ELSE at[p]]
            /\ loop' = None
    BY DEF WebDies
  <2> QED BY <1>0, <2>1
<1>13. DaemonDies => Ok
  BY <1>0, <1>8 DEF DaemonDies
<1> QED BY <1>2, <1>3, <1>4, <1>5, <1>6, <1>7, <1>8, <1>9, <1>10, <1>11, <1>12, <1>13, Steps

(* So the queue and the requests go together.                               *)
LEMMA SubmittersStay ==
    ASSUME Base, Next
    PROVE  /\ Submitters' /\ (sent \in [Jobs -> Submissions \cup {None}])'
           /\ (state \in [Jobs -> {"none", "queued", "reported", "quiet"}])'
           /\ (\A j \in Jobs : sent[j] # None => sent[j].preview \in Known)'
<1>0. /\ state \in [Jobs -> {"none", "queued", "reported", "quiet"}]
      /\ sent \in [Jobs -> Submissions \cup {None}]
      /\ \A j \in Jobs : sent[j] # None => sent[j].preview \in Known
      /\ \A j \in Jobs : sent[j] # None => sent[j].by \in Requests
  BY DEF Base, TypeOK, Names, Submissions
<1>1. Known \subseteq Known' /\ \A t \in Requests : at[t] # "idle" => at'[t] # "idle"
  BY MoreKnown, GoesOnward, AtSteps
<1>2. CASE UNCHANGED queue
  <2>1. UNCHANGED <<state, sent>>
    BY <1>2 DEF queue
  <2> QED BY <1>0, <1>1, <2>1 DEF Base, Submitters
<1>3. CASE UNCHANGED sent /\ \E j \in Jobs : /\ state[j] = "queued"
                                             /\ state' \in {[state EXCEPT ![j] = o] : o
                                                    \in {"reported", "quiet"}}
  <2>1. PICK j \in Jobs, o \in {"reported", "quiet"} : state[j] = "queued"
                 /\ state' = [state EXCEPT ![j] = o]
    BY <1>3
  <2>2. \A k \in Jobs : state'[k] = "none" <=> state[k] = "none"
    BY <1>0, <2>1
  <2>3. state' \in [Jobs -> {"none", "queued", "reported", "quiet"}]
    BY <1>0, <2>1
  <2> QED BY <1>0, <1>1, <1>3, <2>2, <2>3 DEF Base, Submitters
<1>4. CASE \E t \in Requests : Submit(t) /\ Doing(t, "submit")
  <2>1. PICK t \in Requests : Submit(t) /\ Doing(t, "submit")
    BY <1>4
  <2>2. CASE ~UNCHANGED queue
    <3>1. PICK j \in Jobs, v \in Known \ {None}, m \in BOOLEAN :
                /\ sent[j] = None /\ v \in Previews
                /\ sent' = [sent EXCEPT ![j] = [preview |-> v, by |-> t, missed |-> m]]
                /\ state' = [state EXCEPT ![j] = "queued"]
      BY <2>1, <2>2, SubmitDoes
    <3> DEFINE r == [preview |-> v, by |-> t, missed |-> m]
    <3>2. r # None /\ r \in Submissions /\ r.by = t /\ r.preview = v
      BY <3>1, AbsentAssumption DEF Submissions
    <3>3. at[t] # "idle"
      BY <2>1 DEF Doing
    <3>4. /\ sent'[j] = r /\ state'[j] = "queued"
          /\ \A k \in Jobs \ {j} : sent'[k] = sent[k] /\ state'[k] = state[k]
          /\ sent' \in [Jobs -> Submissions \cup {None}]
          /\ state' \in [Jobs -> {"none", "queued", "reported", "quiet"}]
      BY <1>0, <3>1, <3>2
    <3> HIDE DEF r
    <3> QED BY <1>0, <1>1, <3>1, <3>2, <3>3, <3>4 DEF Base, Submitters
  <2> QED BY <1>2, <2>2
<1> QED BY <1>2, <1>3, <1>4, QueueSteps

(* What a process may have in mind to write.                                *)
Edits == {None} \cup {"turns"} \X (SUBSET Turns) \cup {"registry"} \X Registries

(* Types of what is left.                                                   *)
Places ==
    /\ prog \in [Procs -> Seq(Ops)] /\ edit \in [Procs -> Edits]
    /\ seen \in [Requests -> Previews \cup {None}] /\ \A t \in Requests : seen[t] \in Known
    /\ drafts \in 0 .. MaxDrafts /\ faults \in 0 .. MaxFaults

(* They stay.                                                               *)
LEMMA PlacesStay ==
    ASSUME Base, Next
    PROVE  Places'
<1>0. /\ Requests \subseteq Procs /\ Daemon \in Procs /\ Daemon \notin Requests /\ TypeOK
      /\ MaxDrafts \in Nat /\ MaxFaults \in Nat /\ None \in Known
      /\ None \in Edits
  BY SessionAssumption DEF Procs, Base, Known, Edits
<1>1. prog \in [Procs -> Seq(Ops)] /\ edit \in [Procs -> Edits] /\ drafts \in 0 .. MaxDrafts
          /\ faults \in 0 .. MaxFaults
  BY <1>0 DEF TypeOK, Edits
<1>2. /\ seen \in [Requests -> Previews \cup {None}] /\ \A t \in Requests : seen[t] \in Known
      /\ Contents.preview \in Previews \cup {None} /\ Contents.preview \in Known
      /\ Known \subseteq Known'
  BY ContentsKnown, MoreKnown, GoesOnward DEF Base, TypeOK, Names, Payloads
<1>3. ASSUME NEW p \in Procs PROVE prog'[p] \in Seq(Ops)
  BY <1>3, ProgramsStay DEF Programs, ProgGood
<1>4. ASSUME UNCHANGED seen
      PROVE  (seen \in [Requests -> Previews \cup {None}]
                 /\ \A t \in Requests : seen[t] \in Known)'
  BY <1>2, <1>4
<1>5. ASSUME NEW p, NEW s, prog' = [prog EXCEPT ![p] = s] PROVE prog' \in [Procs -> Seq(Ops)]
  BY <1>1, <1>3, <1>5
<1>6. ASSUME NEW n \in 0 .. 2, Drafts(n) PROVE drafts' \in 0 .. MaxDrafts
  BY <1>0, <1>1, <1>6 DEF Drafts
<1>7. ASSUME Fault PROVE faults' \in 0 .. MaxFaults
  BY <1>0, <1>1, <1>7 DEF Fault
<1>8. ASSUME NEW p \in Procs, Forgets(p) PROVE edit' \in [Procs -> Edits]
  BY <1>0, <1>1, <1>8 DEF Forgets
<1>9. ASSUME NEW t \in Requests, Starts(t) PROVE Places'
  <2>1. /\ Begins(t) /\ (\E n \in {0, 1} : Drafts(n))
        /\ \E b : Begun(t, b) /\ prog' = [prog EXCEPT ![t] = b]
    BY <1>0, <1>9, StartsDo
  <2>2. drafts' \in 0 .. MaxDrafts /\ prog' \in [Procs -> Seq(Ops)]
    <3>1. \E n \in 0 .. 2 : Drafts(n)
      BY <2>1
    <3> QED BY <1>5, <1>6, <2>1, <3>1
  <2>3. /\ seen' = [seen EXCEPT ![t] = Contents.preview] /\ UNCHANGED <<edit, faults>>
    BY <2>1 DEF Begins
  <2>4. (seen \in [Requests -> Previews \cup {None}] /\ \A u \in Requests : seen[u] \in Known)'
    BY <1>2, <2>3
  <2> QED BY <1>1, <2>2, <2>3, <2>4 DEF Places, Edits
<1>10. ASSUME NEW t \in Requests, Returns(t) PROVE Places'
  <2>1. Resumes(t) /\ (UNCHANGED drafts \/ \E n \in 0 .. 2 : Drafts(n))
            /\ \E s : prog' = [prog EXCEPT ![t] = s]
    BY <1>0, <1>10, AnswerBegins DEF Returns, Continues, Interrupted
  <2>2. drafts' \in 0 .. MaxDrafts /\ prog' \in [Procs -> Seq(Ops)]
    BY <1>1, <1>5, <1>6, <2>1
  <2>3. UNCHANGED <<seen, edit, faults>>
    BY <2>1 DEF Resumes
  <2> QED BY <1>1, <1>4, <2>2, <2>3 DEF Places, Edits
<1>11. ASSUME NEW t \in Requests, Wait(t) PROVE Places'
  BY <1>1, <1>4, <1>11 DEF Wait, Places, Edits
<1>12. ASSUME NEW p \in Procs, Prepares(p) PROVE Places'
  <2>1. UNCHANGED <<prog, seen, drafts, faults>>
    BY <1>12, PreparesAt
  <2>2. edit' \in [Procs -> Edits]
    <3>1. CASE Put(p) \/ Touch(p) \/ Load(p)
      BY <1>1, <3>1 DEF Put, Touch, Load
    <3>2. CASE AppendTurn(p)
      <4>1. edit' = [edit EXCEPT ![p] = <<"turns", Contents.turns \cup {Head(prog[p])[2]}>>]
            /\ prog[p] # <<>> /\ Head(prog[p])[1] = "turn"
        BY <3>2 DEF AppendTurn, WillPut, Doing
      <4>2. Head(prog[p])[2] \in Turns /\ Contents.turns \subseteq Turns
        BY <1>1, <4>1, Shorter, OpsAre, ContentsKnown DEF Payloads
      <4>3. <<"turns", Contents.turns \cup {Head(prog[p])[2]}>> \in Edits
        BY <4>2 DEF Edits
      <4> QED BY <1>1, <4>1, <4>3
    <3>3. CASE Track(p)
      <4> DEFINE r == [Contents.registry EXCEPT !.tracked = @ \cup {Head(prog[p])[2]}]
      <4>1. edit' = [edit EXCEPT ![p] = <<"registry", r>>]
            /\ prog[p] # <<>> /\ Head(prog[p])[1] = "track"
        BY <3>3 DEF Track, WillPut, Doing
      <4>2. Head(prog[p])[2] \in Jobs /\ Contents.registry \in Registries
        BY <1>1, <4>1, Shorter, OpsAre, ContentsKnown DEF Payloads
      <4>3. r \in Registries
        BY <4>2 DEF Registries
      <4> HIDE DEF r
      <4>4. <<"registry", r>> \in Edits
        BY <4>3 DEF Edits
      <4> QED BY <1>1, <4>1, <4>4
    <3> QED BY <1>12, <3>1, <3>2, <3>3 DEF Prepares
  <2> QED BY <1>1, <1>4, <2>1, <2>2 DEF Places, Edits
<1>13. ASSUME NEW p \in Procs, Cut(p) \/ Ends(p) PROVE Places'
  <2>1. UNCHANGED <<prog, edit, seen, drafts, faults>>
    BY <1>13 DEF Cut, Ends
  <2> QED BY <1>1, <1>4, <2>1 DEF Places, Edits
<1>14. ASSUME NEW p \in Procs, Fill(p) PROVE Places'
  <2>1. UNCHANGED <<seen, drafts, faults>> /\ Forgets(p)
            /\ prog' = [prog EXCEPT ![p] = Tail(prog[p])]
    BY <1>1, <1>14 DEF Fill
  <2> QED BY <1>1, <1>4, <1>5, <1>8, <2>1 DEF Places, Edits
<1>15. ASSUME NEW p \in Procs, Rewrites(p) PROVE Places'
  <2>1. UNCHANGED <<seen, drafts, edit>> /\ \E s : prog' = [prog EXCEPT ![p] = s]
    BY <1>15, RewritesDo
  <2>2. UNCHANGED faults \/ Fault
    BY <1>15 DEF Rewrites, Ingest, Surface, Submit, EmitFails, Submitted, Unlink, Deliver
  <2> QED BY <1>1, <1>4, <1>5, <1>7, <2>1, <2>2 DEF Places, Edits
<1>16. ASSUME NEW p \in Procs, WriteFails(p) PROVE Places'
  <2>1. UNCHANGED <<seen, drafts>> /\ Forgets(p) /\ Fault
    BY <1>16 DEF WriteFails
  <2>2. \E s : prog' = [prog EXCEPT ![p] = s]
    BY <1>16, FailGood
  <2> QED BY <1>1, <1>4, <1>5, <1>7, <1>8, <2>1, <2>2 DEF Places, Edits
<1>17. ASSUME NEW j \in Jobs, DaemonFinishes(j) PROVE Places'
  <2>1. UNCHANGED <<seen, drafts, faults, edit>>
        /\ (UNCHANGED prog \/ \E s : prog' = [prog EXCEPT ![Daemon] = s])
    BY <1>17 DEF DaemonFinishes
  <2> QED BY <1>1, <1>4, <1>5, <2>1 DEF Places, Edits
<1>18. ASSUME NEW j \in Jobs, CommandFinishes(j) PROVE Places'
  BY <1>1, <1>4, <1>18 DEF CommandFinishes, work, Places, Edits
<1>19. WebDies => Places'
  <2> SUFFICES ASSUME WebDies PROVE Places'
    OBVIOUS
  <2>1. /\ UNCHANGED <<seen, drafts>> /\ Fault
        /\ prog' = [p \in Procs |-> IF p # Daemon THEN <<>> ELSE prog[p]]
        /\ edit' = [p \in Procs |-> IF p # Daemon THEN None ELSE edit[p]]
    BY DEF WebDies
  <2>2. prog' \in [Procs -> Seq(Ops)] /\ edit' \in [Procs -> Edits]
    BY <1>0, <1>1, <1>3, <2>1
  <2> QED BY <1>1, <1>4, <1>7, <2>1, <2>2 DEF Places, Edits
<1>20. DaemonDies => Places'
  <2> SUFFICES ASSUME DaemonDies PROVE Places'
    OBVIOUS
  <2>1. UNCHANGED <<seen, drafts>> /\ Forgets(Daemon) /\ Fault
            /\ prog' = [prog EXCEPT ![Daemon] = <<>>]
    BY DEF DaemonDies, Stops
  <2> QED BY <1>0, <1>1, <1>4, <1>5, <1>7, <1>8, <2>1 DEF Places, Edits
<1> QED BY <1>9, <1>10, <1>11, <1>12, <1>13, <1>14, <1>15, <1>16, <1>17, <1>18, <1>19, <1>20,
           Steps

(* What is said, and how often a note is.                                   *)
LEMMA SaidSteps ==
    ASSUME Base, Next
    PROVE  \/ UNCHANGED <<said, notes>>
           \/ \E p \in Procs : Fill(p) /\ Head(prog[p])[1] = "turn" /\ prog[p] # <<>>
           \/ said' = {} /\ UNCHANGED notes
<1>1. ASSUME NEW t \in Requests, Starts(t) \/ Returns(t) \/ Wait(t)
      PROVE  UNCHANGED history
  <2>1. Starts(t) => UNCHANGED history
    BY StartsDo DEF Begins, Base
  <2>2. Returns(t) \/ Wait(t) => UNCHANGED history
    BY DEF Returns, Continues, Interrupted, Answered, Resumes, Wait
  <2> QED BY <1>1, <2>1, <2>2
<1>2. ASSUME NEW p \in Procs, Prepares(p) \/ Ends(p) \/ WriteFails(p) PROVE UNCHANGED history
  BY <1>2, PreparesAt DEF Ends, WriteFails
<1>3. ASSUME NEW p \in Procs, Cut(p) PROVE UNCHANGED <<said, notes>>
  BY <1>3 DEF Cut
<1>4. ASSUME NEW p \in Procs, Fill(p)
      PROVE  UNCHANGED <<said, notes>> \/ (Head(prog[p])[1] = "turn" /\ prog[p] # <<>>)
  BY <1>4, AllFine DEF Fill, Base, AtFine
<1>5. ASSUME NEW p \in Procs, Rewrites(p)
      PROVE  UNCHANGED history \/ (said' = {} /\ UNCHANGED notes)
  BY <1>5 DEF Rewrites, Ingest, Surface, Submit, EmitFails, Submitted, Unlink, Deliver
<1>6. ASSUME NEW j \in Jobs, DaemonFinishes(j) \/ CommandFinishes(j) PROVE UNCHANGED history
  BY <1>6 DEF DaemonFinishes, CommandFinishes
<1>7. WebDies \/ DaemonDies => UNCHANGED history
  BY DEF WebDies, DaemonDies
<1> QED BY <1>1, <1>2, <1>3, <1>4, <1>5, <1>6, <1>7, Steps DEF history

(* A turn that is written is said, and counted if it is a note.             *)
LEMMA FilledTurn ==
    ASSUME Base, NEW p \in Procs, Fill(p), Head(prog[p])[1] = "turn", prog[p] # <<>>
    PROVE  /\ Head(prog[p])[2] \in Turns /\ Head(prog[p]) = <<"turn", Head(prog[p])[2]>>
           /\ OpGood(p, Head(prog[p]))
           /\ said' = said \cup {Head(prog[p])[2]}
           /\ notes' = [j \in Jobs |-> notes[j] + IF Head(prog[p])[2]
                  = <<"note", j>> THEN 1 ELSE 0]
<1>1. prog[p] \in Seq(Ops) /\ \A i \in DOMAIN prog[p] : OpGood(p, prog[p][i])
  BY DEF Base, Programs, ProgGood
<1>2. Head(prog[p]) = prog[p][1] /\ Head(prog[p]) \in Ops /\ 1 \in DOMAIN prog[p]
  BY <1>1, Shorter
<1>3. Head(prog[p])[2] \in Turns
  BY <1>2, OpsAre
<1>4. Head(prog[p]) = <<"turn", Head(prog[p])[2]>>
  BY <1>2 DEF Ops
<1> QED BY <1>1, <1>2, <1>3, <1>4 DEF Fill

(* So the history keeps its type.                                           *)
LEMMA SaidStays ==
    ASSUME Base, Next
    PROVE  (said \in SUBSET Turns /\ notes \in [Jobs -> Nat])'
<1>0. said \in SUBSET Turns /\ notes \in [Jobs -> Nat]
  BY DEF Base, TypeOK
<1>1. ASSUME NEW p \in Procs, Fill(p), Head(prog[p])[1] = "turn", prog[p] # <<>>
      PROVE  (said \in SUBSET Turns /\ notes \in [Jobs -> Nat])'
  <2>1. /\ Head(prog[p])[2] \in Turns /\ said' = said \cup {Head(prog[p])[2]}
        /\ notes' = [j \in Jobs |-> notes[j] + IF Head(prog[p])[2] = <<"note", j>> THEN 1 ELSE 0]
    BY <1>1, FilledTurn
  <2> QED BY <1>0, <2>1
<1> QED BY <1>0, <1>1, SaidSteps

(* Who raced has raced.                                                     *)
LEMMA RacedSteps ==
    ASSUME Base, Next
    PROVE  raced' \in BOOLEAN /\ (raced => raced')
<1>0. raced \in BOOLEAN
  BY DEF Base, TypeOK
<1>1. ASSUME NEW t \in Requests, Starts(t) \/ Returns(t) \/ Wait(t)
      PROVE  UNCHANGED history
  <2>1. Starts(t) => UNCHANGED history
    BY StartsDo DEF Begins, Base
  <2>2. Returns(t) \/ Wait(t) => UNCHANGED history
    BY DEF Returns, Continues, Interrupted, Answered, Resumes, Wait
  <2> QED BY <1>1, <2>1, <2>2
<1>2. ASSUME NEW p \in Procs, Prepares(p) \/ Ends(p) \/ WriteFails(p) PROVE UNCHANGED history
  BY <1>2, PreparesAt DEF Ends, WriteFails
<1>3. ASSUME NEW p \in Procs, Cut(p) \/ Fill(p) PROVE Races(p)
  BY <1>3 DEF Cut, Fill
<1>5. ASSUME NEW p \in Procs, Rewrites(p) PROVE UNCHANGED history \/ Races(p)
  BY <1>5 DEF Rewrites, Ingest, Surface, Submit, EmitFails, Submitted, Unlink, Deliver
<1>6. ASSUME NEW j \in Jobs, DaemonFinishes(j) \/ CommandFinishes(j) PROVE UNCHANGED history
  BY <1>6 DEF DaemonFinishes, CommandFinishes
<1>7. WebDies \/ DaemonDies => UNCHANGED history
  BY DEF WebDies, DaemonDies
<1>8. ASSUME NEW p \in Procs, Races(p) PROVE raced' \in BOOLEAN /\ (raced => raced')
  BY <1>0, <1>8 DEF Races
<1> QED BY <1>0, <1>1, <1>2, <1>3, <1>5, <1>6, <1>7, <1>8, Steps DEF history

(* So what always holds stays so, and it does at the beginning.             *)
LEMMA BaseStays ==
    ASSUME Base, Next
    PROVE  Base'
<1>1. TypeOK'
  <2>1. (file \in Payloads \cup {NoFile, Torn} /\ copy \in [Procs -> Payloads])'
    BY FilesStay DEF Files, FileFine
  <2>2. Places'
    BY PlacesStay
  <2> QED BY <2>1, <2>2, AtSteps, SubmittersStay, SaidStays, RacedSteps DEF TypeOK, Places, Edits
<1>2. Names'
  BY FilesStay, PlacesStay, SubmittersStay DEF Names, Files, FileFine, Places
<1> QED BY <1>1, <1>2, AtStays, ProgramsStay, SubmittersStay DEF Base

(* It holds at the beginning.                                               *)
LEMMA BaseInit == Init => Base
<1> SUFFICES ASSUME Init PROVE Base
  OBVIOUS
<1>0. Default \in Payloads /\ Default.preview = None /\ None \in Known
  BY DEF Default, Payloads, Handoffs, Statuses, Registries, Known
<1>1. drafts \in 0 .. MaxDrafts
          /\ (file = NoFile \/ (file \in Payloads /\ file.preview \in Known))
  <2>1. CASE file = NoFile /\ drafts = 0
    BY <2>1, SessionAssumption
  <2>2. ASSUME NEW v \in Previews,
               file = [Default EXCEPT !.preview = v, !.ctx = TRUE,
                        !.handoff.status = IF v.auto THEN "none" ELSE "preview_ready"],
               v.id = 1, drafts = 1
        PROVE  drafts \in 0 .. MaxDrafts /\ file \in Payloads /\ file.preview \in Known
    <3>1. v.id \in 1 .. MaxDrafts
      BY DEF Previews, Automations, JobPreviews
    <3>2. drafts \in 0 .. MaxDrafts /\ v \in Known
      BY <2>2, <3>1, SessionAssumption DEF Known
    <3>3. file \in Payloads /\ file.preview = v
      BY <2>2 DEF Default, Payloads, Handoffs, Statuses, Registries
    <3> QED BY <3>2, <3>3
  <2> QED BY <2>1, <2>2 DEF Init
<1>2. TypeOK
  <2>1. /\ at \in [Procs -> {"idle", "get", "load", "cut", "fill", "wait", "over"}]
        /\ prog \in [Procs -> Seq(Ops)] /\ copy \in [Procs -> Payloads]
    <3>1. <<>> \in Seq(Ops)
      OBVIOUS
    <3> QED BY <1>0, <3>1 DEF Init
  <2>2. edit \in [Procs -> {None} \cup {"turns"} \X (SUBSET Turns)
            \cup {"registry"} \X Registries]
    BY DEF Init
  <2>3. /\ seen \in [Requests -> Previews \cup {None}]
        /\ state \in [Jobs -> {"none", "queued", "reported", "quiet"}]
        /\ sent \in [Jobs -> Submissions \cup {None}]
        /\ notes \in [Jobs -> Nat]
    BY DEF Init
  <2>4. loop \in Requests \cup {None} /\ faults \in 0 .. MaxFaults /\ said \in SUBSET Turns
            /\ raced \in BOOLEAN
    <3>1. loop = None /\ faults = 0 /\ said = {} /\ raced = FALSE
      BY DEF Init
    <3>2. MaxFaults \in Nat
      BY SessionAssumption
    <3>3. 0 \in 0 .. MaxFaults
      BY <3>2
    <3>4. said \in SUBSET Turns
      BY <3>1
    <3> QED BY <3>1, <3>3, <3>4
  <2> QED BY <1>1, <2>1, <2>2, <2>3, <2>4 DEF TypeOK
<1>3. Names
  BY <1>0, <1>1 DEF Init, Names
<1>4. AtOk
  BY SessionAssumption DEF Init, AtOk, Procs
<1>5. Programs
  <2>1. \A p \in Procs : prog[p] = <<>>
    BY DEF Init
  <2>2. \A t \in Requests : prog[t] = <<>>
    BY <2>1 DEF Procs
  <2> QED BY <2>1, <2>2, NoneGood DEF Programs
<1>6. Submitters
  BY DEF Init, Submitters
<1> QED BY <1>2, <1>3, <1>4, <1>5, <1>6 DEF Base

-----------------------------------------------------------------------------
(* What is said is true *)

(* A note that is said is of a job that is reported: the daemon and the     *)
(* ingest look at the queue first.                                          *)
LEMMA TrueStays ==
    ASSUME Base, NotesAreTrue, Next
    PROVE  NotesAreTrue'
<1>0. \A j \in Jobs : state[j] = "reported" => state'[j] = "reported"
  BY GoesOnward DEF Onward
<1>1. CASE UNCHANGED said \/ said' = {}
  BY <1>0, <1>1 DEF NotesAreTrue
<1>2. ASSUME NEW p \in Procs, Fill(p), Head(prog[p])[1] = "turn", prog[p] # <<>>
      PROVE  NotesAreTrue'
  <2> DEFINE x == Head(prog[p])
  <2>1. x = <<"turn", x[2]>> /\ OpGood(p, x) /\ said' = said \cup {x[2]}
    BY <1>2, FilledTurn
  <2> HIDE DEF x
  <2>2. \A j \in Jobs : <<"note", j>> = x[2] => state[j] = "reported"
    BY <2>1 DEF OpGood
  <2> QED BY <1>0, <2>1, <2>2 DEF NotesAreTrue
<1> QED BY <1>1, <1>2, SaidSteps

-----------------------------------------------------------------------------
(* What is submitted was seen *)

(* What is left of a program is of it.                                      *)
LEMMA TailToSubmit ==
    ASSUME NEW s \in Seq(Ops), s # <<>>, NEW i \in DOMAIN Tail(s)
    PROVE  \E k \in DOMAIN s : s[k] = Tail(s)[i]
BY Shorter

(* A request that has come in plans no submission any more.                 *)
LEMMA RewritesSubmit ==
    ASSUME Base, NEW t \in Requests, Rewrites(t), ~ToSubmit(t)
    PROVE  ~ToSubmit(t)'
<1>0. t # Daemon /\ t \in Procs /\ prog \in [Procs -> Seq(Ops)] /\ prog[t] \in Seq(Ops)
  BY SessionAssumption DEF Procs, Base, TypeOK
<1>1. prog[t] # <<>> /\ \A i \in DOMAIN prog[t] : prog[t][i][1] # "submit"
  BY RewritesDo, <1>0 DEF ToSubmit
<1> DEFINE rest == Tail(prog[t])
<1>2. rest \in Seq(Ops) /\ \A i \in DOMAIN rest : rest[i][1] # "submit"
  BY <1>0, <1>1, Shorter
<1>3. ASSUME NEW s, prog' = [prog EXCEPT ![t] = s], \A i \in DOMAIN s : s[i][1] # "submit"
      PROVE  ~ToSubmit(t)'
  <2>1. prog'[t] = s
    BY <1>0, <1>3
  <2> QED BY <1>3, <2>1 DEF ToSubmit
<1>4. CASE prog' = [prog EXCEPT ![t] = rest]
  BY <1>2, <1>3, <1>4
<1>5. ASSUME NEW f \in Seq(Ops), NEW u \in Seq(Ops), prog' = [prog EXCEPT ![t] = f \o u],
             \A i \in DOMAIN f : f[i][1] # "submit",
             \A i \in DOMAIN u : u[i][1] # "submit"
      PROVE  ~ToSubmit(t)'
  <2>1. \A i \in DOMAIN (f \o u) : (f \o u)[i][1] # "submit"
    BY <1>5, Joined
  <2>2. PICK s : s = f \o u
    OBVIOUS
  <2> QED BY <1>3, <1>5, <2>1, <2>2
<1>6. CASE Ingest(t)
  <2> DEFINE r == Contents.registry
             new == {j \in Head(prog[t])[2] \cap r.tracked : j \notin r.seen /\ Terminal(j)}
             reg == [r EXCEPT !.seen = @ \cup new]
             a == <<"registry", reg>>
             b == <<"touch">>
  <2>1. prog' = [prog EXCEPT ![t] = rest] \/ prog' = [prog EXCEPT ![t] = (<<a>> \o <<b>>) \o rest]
    BY <1>0, <1>6 DEF Ingest, Skip
  <2>2. reg \in Registries
    BY ContentsKnown DEF Payloads, Registries
  <2>3. a \in Ops /\ b \in Ops /\ a[1] # "submit" /\ b[1] # "submit"
    BY <2>2 DEF Ops
  <2> HIDE DEF a, b, r, new, reg, rest
  <2>4. <<a>> \o <<b>> = <<a, b>>
    BY Pair
  <2>5. <<a, b>> \in Seq(Ops) /\ DOMAIN <<a, b>> = {1, 2} /\ <<a, b>>[1] = a /\ <<a, b>>[2] = b
    BY <2>3, Two
  <2> DEFINE f == <<a, b>>
  <2>6. f \in Seq(Ops) /\ \A i \in DOMAIN f : f[i][1] # "submit"
    <3> HIDE DEF f
    <3>1. f \in Seq(Ops) /\ DOMAIN f = {1, 2} /\ f[1] = a /\ f[2] = b
      BY <2>5 DEF f
    <3> QED BY <2>3, <3>1
  <2> HIDE DEF f
  <2>7. prog' = [prog EXCEPT ![t] = rest] \/ prog' = [prog EXCEPT ![t] = f \o rest]
    BY <2>1, <2>4 DEF f
  <2> QED BY <1>2, <1>4, <1>5, <2>6, <2>7 DEF rest
<1>7. CASE Surface(t)
  <2> DEFINE u == SubSeq(prog[t], 3, Len(prog[t]))
  <2>1. \/ prog' = [prog EXCEPT ![t] = rest]
        \/ \E j \in Candidates \ Contents.registry.told :
              prog' = [prog EXCEPT ![t] =
                << <<"registry", [Contents.registry EXCEPT !.told = @ \cup {j}]>>,
                            prog[t][2], <<"turn", <<"note", j>> >> >> \o u]
    BY <1>7 DEF Surface, Skip
  <2>2. u \in Seq(Ops) /\ \A i \in DOMAIN u : u[i][1] # "submit"
    <3>1. 3 \in Nat \ {0}
      OBVIOUS
    <3> QED BY <1>0, <1>1, <3>1, Dropped
  <2>3. ASSUME NEW j \in Candidates \ Contents.registry.told,
               prog' = [prog EXCEPT ![t] =
                << <<"registry", [Contents.registry EXCEPT !.told = @ \cup {j}]>>,
                            prog[t][2], <<"turn", <<"note", j>> >> >> \o u]
        PROVE  ~ToSubmit(t)'
    <3> DEFINE a == <<"registry", [Contents.registry EXCEPT !.told = @ \cup {j}]>>
               b == prog[t][2]
               c == <<"turn", <<"note", j>> >>
               f == <<a, b, c>>
    <3>1. Contents.registry \in Registries
      BY ContentsKnown DEF Payloads
    <3>2. j \in Jobs
      BY <3>1 DEF Candidates, Registries
    <3>3. a \in Ops /\ a[1] # "submit"
      <4>1. [Contents.registry EXCEPT !.told = @ \cup {j}] \in Registries
        BY <3>1, <3>2 DEF Registries
      <4> QED BY <4>1 DEF Ops
    <3>4. c \in Ops /\ c[1] # "submit"
      BY <3>2 DEF Ops, Turns
    <3>5. b \in Ops /\ b[1] # "submit"
      <4>1. Shaped(t, prog[t]) /\ Head(prog[t])[1] = "surface" /\ Head(prog[t]) = prog[t][1]
                /\ 1 \in DOMAIN prog[t]
        BY <1>0, <1>1, <1>7, Shorter DEF Surface, Doing, Base, Programs, ProgGood
      <4>2. b = UserTurn(t)
        BY <4>1 DEF Shaped
      <4> QED BY <4>2 DEF UserTurn, Ops, Turns
    <3>6. prog' = [prog EXCEPT ![t] = f \o u]
      BY <2>3
    <3> HIDE DEF a, b, c, u
    <3>7. f \in Seq(Ops) /\ DOMAIN f = {1, 2, 3} /\ f[1] = a /\ f[2] = b /\ f[3] = c
      BY <3>3, <3>4, <3>5, Three
    <3> HIDE DEF f
    <3>8. \A i \in DOMAIN f : f[i][1] # "submit"
      BY <3>3, <3>4, <3>5, <3>7
    <3> QED BY <1>5, <2>2, <3>6, <3>7, <3>8 DEF u
  <2> QED BY <1>4, <2>1, <2>3
<1>8. CASE Submitted(t) \/ Unlink(t)
  BY <1>4, <1>8 DEF Submitted, Unlink, Skip
<1>9. ~Submit(t) /\ ~EmitFails(t)
  <2>1. Head(prog[t])[1] # "submit"
    BY <1>0, <1>1, Shorter
  <2> QED BY <2>1 DEF Submit, EmitFails, Doing
<1> QED BY <1>0, <1>6, <1>7, <1>8, <1>9 DEF Rewrites

(* What replaces a submission contains none.                                *)
LEMMA SubmitsOnce ==
    ASSUME Base, NEW t \in Requests, Submit(t) \/ EmitFails(t)
    PROVE  ~ToSubmit(t)'
<1>0. t # Daemon /\ t \in Procs /\ prog \in [Procs -> Seq(Ops)] /\ prog[t] \in Seq(Ops)
  BY SessionAssumption DEF Procs, Base, TypeOK
<1>1. prog[t] # <<>> /\ Head(prog[t])[1] = "submit" /\ ProgGood(t, prog[t])
  BY <1>0 DEF Submit, EmitFails, Doing, Base, Programs
<1>2. \/ \E h \in {Failed, Refused("ambiguous_preview_state"), Refused("missing_preview")} :
            prog' = [prog EXCEPT ![t] = << <<"handoff", h>> >> \o Tail(prog[t])]
      \/ \E j \in Jobs : prog' = [prog EXCEPT ![t] = Accepted(j) \o Tail(prog[t])]
  BY DEF Submit, EmitFails, Skip
<1>3. \E s : Effects(t, s) /\ prog' = [prog EXCEPT ![t] = s \o Tail(prog[t])]
  BY <1>2, AcceptedEffects, HandoffEffects
<1>4. PICK s : Effects(t, s) /\ prog' = [prog EXCEPT ![t] = s \o Tail(prog[t])]
  BY <1>3
<1>5. /\ s \in Seq(Ops) /\ Tail(prog[t]) \in Seq(Ops)
      /\ \A i \in DOMAIN s : s[i][1] # "submit"
      /\ \A i \in DOMAIN Tail(prog[t]) : Tail(prog[t])[i][1] # "submit"
  BY <1>0, <1>1, <1>4, InsteadGood, Shorter DEF Effects
<1>6. \A i \in DOMAIN (s \o Tail(prog[t])) : (s \o Tail(prog[t]))[i][1] # "submit"
  BY <1>5, Joined
<1>7. prog'[t] = s \o Tail(prog[t])
  BY <1>0, <1>4
<1> QED BY <1>6, <1>7 DEF ToSubmit

(* A request with a submission to come makes no other preview first.        *)
LEMMA CopyKeeps ==
    ASSUME Base, NEW t \in Requests, Prepares(t), ToSubmit(t), Contents.preview = None,
           at[t] \in {"cut", "fill"} => copy[t].preview = None
    PROVE  at'[t] \in {"cut", "fill"} => copy'[t].preview = None
<1>0. /\ t # Daemon /\ t \in Procs /\ prog[t] \in Seq(Ops) /\ Shaped(t, prog[t])
      /\ copy \in [Procs -> Payloads] /\ Contents \in Payloads
      /\ at \in [Procs -> {"idle", "get", "load", "cut", "fill", "wait", "over"}]
  BY SessionAssumption, ContentsKnown DEF Procs, Base, TypeOK, Programs, ProgGood
<1>1. CASE Put(t)
  <2>1. PICK f \in {"preview", "handoff", "registry", "ctx"} :
           /\ Doing(t, f)
           /\ copy' = [copy EXCEPT ![t] = [Contents EXCEPT ![f] = Head(prog[t])[2]]]
    BY <1>1 DEF Put
  <2>2. f # "preview"
    <3> SUFFICES ASSUME f = "preview" PROVE FALSE
      OBVIOUS
    <3>1. PICK i \in DOMAIN prog[t] : prog[t][i][1] = "submit"
      BY DEF ToSubmit
    <3>2. prog[t] # <<>> /\ Head(prog[t])[1] = "preview"
      BY <2>1 DEF Doing
    <3>3. Head(prog[t]) = prog[t][1] /\ 1 \in DOMAIN prog[t] /\ DOMAIN prog[t] = 1 .. Len(prog[t])
      BY <1>0, <3>2, Shorter
    <3>4. i > 1
      BY <1>0, <3>1, <3>2, <3>3, LenProperties
    <3>5. Before(prog[t][1], prog[t][i])
      BY <1>0, <3>3, <3>4 DEF Shaped
    <3> QED BY <3>1, <3>2, <3>3, <3>5 DEF Before
  <2>3. copy'[t] = [Contents EXCEPT ![f] = Head(prog[t])[2]]
    BY <1>0, <2>1
  <2> QED BY <1>0, <2>2, <2>3 DEF Payloads
<1>2. CASE Touch(t)
  <2>1. copy'[t] = Contents
    BY <1>0, <1>2 DEF Touch
  <2> QED BY <2>1
<1>3. CASE Load(t)
  <2>1. edit[t] \in {"turns"} \X SUBSET Turns \/ edit[t] \in {"registry"} \X Registries
    BY <1>0, <1>3, AllFine DEF Load, AtFine, Base
  <2>2. copy'[t] = [Contents EXCEPT ![edit[t][1]] = edit[t][2]]
    BY <1>0, <1>3 DEF Load
  <2>3. edit[t][1] # "preview"
    BY <2>1
  <2> QED BY <1>0, <2>2, <2>3 DEF Payloads
<1>4. CASE AppendTurn(t) \/ Track(t)
  <2>1. at'[t] = "load"
    BY <1>0, <1>4 DEF AppendTurn, Track, WillPut
  <2> QED BY <2>1
<1> QED BY <1>1, <1>2, <1>3, <1>4 DEF Prepares

(* Only the request at work has a submission to come.                       *)
LEMMA SubmitterWorks ==
    ASSUME Programs, NEW t \in Requests, ToSubmit(t)
    PROVE  loop = t
BY DEF Programs, ToSubmit, Aside

(* After a write that fails a submission is to come only if it was.         *)
LEMMA FailsSubmit ==
    ASSUME Base, NEW t \in Requests, WriteFails(t), ToSubmit(t)', loop' = t
    PROVE  ToSubmit(t) /\ at'[t] = "get"
<1>0. t # Daemon /\ t \in Procs /\ prog \in [Procs -> Seq(Ops)] /\ prog[t] \in Seq(Ops)
      /\ at \in [Procs -> {"idle", "get", "load", "cut", "fill", "wait", "over"}]
      /\ loop' # None
  BY SessionAssumption DEF Procs, Base, TypeOK
<1>1. CASE Stops(t)
  BY <1>0, <1>1 DEF Stops
<1>2. ASSUME NEW i \in DOMAIN prog[t], at' = [at EXCEPT ![t] = "get"],
             prog' = [prog EXCEPT ![t] = << <<"handoff", Failed>> >>
                 \o SubSeq(prog[t], i + 3, Len(prog[t]))]
      PROVE  ToSubmit(t) /\ at'[t] = "get"
  <2> DEFINE s == << <<"handoff", Failed>> >>
             m == i + 3
             u == SubSeq(prog[t], m, Len(prog[t]))
  <2>1. Effects(t, s)
    BY HandoffEffects
  <2>2. i \in Nat /\ m \in Nat \ {0}
    BY <1>0, LenProperties
  <2> HIDE DEF m
  <2>3. u \in Seq(Ops) /\ \A k \in DOMAIN u : k + m - 1 \in DOMAIN prog[t]
            /\ u[k] = prog[t][k + m - 1]
    BY <1>0, <2>2, Dropped
  <2>4. prog'[t] = s \o u
    BY <1>0, <1>2 DEF m
  <2> HIDE DEF s, u
  <2>5. PICK k \in DOMAIN (s \o u) : (s \o u)[k][1] = "submit"
    BY <2>4 DEF ToSubmit
  <2>6. \A k1 \in DOMAIN s : s[k1][1] # "submit"
    BY <2>1 DEF Effects
  <2>7. \E k1 \in DOMAIN u : u[k1][1] = "submit"
    BY <2>1, <2>3, <2>5, <2>6, Joined DEF Effects
  <2> QED BY <1>0, <1>2, <2>3, <2>7 DEF ToSubmit
<1> QED BY <1>0, <1>1, <1>2 DEF WriteFails

(* So a request that saw no preview, and submits, finds none, unless        *)
(* somebody works beside it.                                                *)
LEMMA NoneStays ==
    ASSUME Base, NoneAround, Next
    PROVE  NoneAround'
<1>0. /\ Requests \subseteq Procs /\ Daemon \in Procs /\ Daemon \notin Requests
      /\ None \notin Requests
      /\ TypeOK /\ copy \in [Procs -> Payloads] /\ prog \in [Procs -> Seq(Ops)]
      /\ at \in [Procs -> {"idle", "get", "load", "cut", "fill", "wait", "over"}]
      /\ seen \in [Requests -> Previews \cup {None}]
  BY SessionAssumption DEF Procs, Base, TypeOK
<1>00. Programs' /\ (raced => raced') /\ NoFile \notin Payloads /\ Torn \notin Payloads
           /\ Programs
  BY ProgramsStay, RacedSteps, AbsentAssumption DEF Base
<1> SUFFICES ASSUME ~raced', NEW t \in Requests, ToSubmit(t)', seen'[t] = None
             PROVE  /\ Contents'.preview = None
                    /\ at'[t] \in {"cut", "fill"} => copy'[t].preview = None
  BY DEF NoneAround
<1>1. loop' = t
  <2>1. (loop = t)'
    BY <1>00 DEF Programs, ToSubmit, Aside
  <2> QED BY <2>1
<1>2. ASSUME ToSubmit(t), seen[t] = None
      PROVE  Contents.preview = None /\ (at[t] \in {"cut", "fill"} => copy[t].preview = None)
                 /\ loop = t
  BY <1>00, <1>2, SubmitterWorks DEF NoneAround
<1>3. ASSUME ToSubmit(t), UNCHANGED <<seen, file>>, at'[t] = at[t], copy'[t] = copy[t]
      PROVE  /\ Contents'.preview = None
             /\ at'[t] \in {"cut", "fill"} => copy'[t].preview = None
  BY <1>2, <1>3 DEF Contents
<1>4. ASSUME NEW u \in Requests, Starts(u)
      PROVE  Contents'.preview = None /\ at'[t] = "get"
  <2>1. Begins(u)
    BY <1>0, <1>4, StartsDo
  <2>2. u = t
    BY <1>1, <2>1 DEF Begins
  <2> QED BY <1>0, <2>1, <2>2 DEF Begins, Contents
<1>5. ASSUME NEW u \in Requests, Returns(u)
      PROVE  FALSE
  <2>1. loop = None /\ loop' = u
    BY <1>5 DEF Returns, Continues, Interrupted, Answered, Resumes
  <2>2. u = t /\ ~ToSubmit(t)
    BY <1>0, <1>00, <1>1, <2>1, SubmitterWorks
  <2>3. PICK s : prog' = [prog EXCEPT ![t] = s] /\ \A i \in DOMAIN s : s[i][1] # "submit"
    <3>1. CASE Answered(t)
      BY <1>0, <3>1, AnswerBegins DEF Plain
    <3>2. CASE Interrupted(t)
      BY <3>2, Words DEF Plain, Interrupted
    <3>3. CASE Continues(t)
      <4>1. prog[t] # <<>> /\ prog[t] \in Seq(Ops)
        <5>1. Tail(<<>>) = <<>>
          OBVIOUS
        <5> QED BY <1>0, <3>3, <5>1 DEF Continues
      <4>2. \A i \in DOMAIN Tail(prog[t]) : Tail(prog[t])[i][1] # "submit"
        BY <2>2, <4>1, TailToSubmit DEF ToSubmit
      <4>3. PICK s : s = Tail(prog[t])
        OBVIOUS
      <4> QED BY <1>0, <3>3, <4>2, <4>3 DEF Continues
    <3> QED BY <1>5, <2>2, <3>1, <3>2, <3>3 DEF Returns
  <2>4. prog'[t] = s
    BY <1>0, <2>3
  <2> QED BY <2>3, <2>4 DEF ToSubmit
<1>6. ASSUME NEW u \in Requests, Wait(u) PROVE FALSE
  BY <1>0, <1>1, <1>6 DEF Wait
<1>7. ASSUME NEW p \in Procs, Prepares(p)
      PROVE  /\ Contents'.preview = None
             /\ at'[t] \in {"cut", "fill"} => copy'[t].preview = None
  <2>1. Working(p) /\ UNCHANGED <<file, loop, prog, seen>>
    BY <1>7, PreparesAt
  <2>2. ToSubmit(t) /\ seen[t] = None /\ Contents' = Contents
    BY <2>1 DEF ToSubmit, Contents
  <2>3. CASE p = t
    BY <1>2, <1>7, <2>2, <2>3, CopyKeeps
  <2>4. CASE p # t
    <3>1. p = Daemon
      BY <1>1, <2>1, <2>4 DEF Working
    <3>2. at'[t] = at[t]
      BY <1>0, <1>7, <2>4 DEF Prepares, Put, Touch, Load, AppendTurn, Track, WillPut
    <3>3. copy'[t] = copy[t]
      BY <1>0, <1>7, <2>4, CopyMade
    <3> QED BY <1>3, <2>1, <2>2, <3>2, <3>3
  <2> QED BY <2>3, <2>4
<1>8. ASSUME NEW p \in Procs, Cut(p) \/ Fill(p)
      PROVE  /\ Contents'.preview = None
             /\ at'[t] \in {"cut", "fill"} => copy'[t].preview = None
  <2>1. Races(p) /\ UNCHANGED <<loop, seen>> /\ at[p] \in {"cut", "fill"}
    BY <1>8 DEF Cut, Fill
  <2>2. p = t
    <3>1. Working(t)
      BY <1>0, <1>1, <2>1 DEF Working
    <3> QED BY <1>0, <2>1, <3>1 DEF Races
  <2>3. ToSubmit(t)
    <3>1. CASE Cut(p)
      BY <3>1 DEF Cut, ToSubmit
    <3>2. CASE Fill(p)
      <4>1. prog[t] # <<>> /\ prog'[t] = Tail(prog[t]) /\ prog[t] \in Seq(Ops)
        BY <1>0, <2>2, <3>2, AllFine DEF Fill, AtFine, Base
      <4> QED BY <4>1, TailToSubmit DEF ToSubmit
    <3> QED BY <1>8, <3>1, <3>2
  <2>4. copy[t].preview = None /\ copy[t] \in Payloads
    BY <1>0, <1>2, <2>1, <2>2, <2>3
  <2>5. CASE Cut(p)
    <3>1. file' = Torn /\ copy'[t] = copy[t]
      BY <2>5 DEF Cut
    <3>2. Contents'.preview = None
      BY <3>1 DEF Contents, Default
    <3> QED BY <2>4, <3>1, <3>2
  <2>6. CASE Fill(p)
    <3>1. file' = copy[t] /\ at'[t] = "get"
      BY <1>0, <2>2, <2>6 DEF Fill
    <3>2. Contents' = copy[t]
      BY <1>00, <2>4, <3>1 DEF Contents
    <3> QED BY <2>4, <3>1, <3>2
  <2> QED BY <1>8, <2>5, <2>6
<1>9. ASSUME NEW p \in Procs, Rewrites(p)
      PROVE  /\ Contents'.preview = None
             /\ at'[t] \in {"cut", "fill"} => copy'[t].preview = None
  <2>1. UNCHANGED <<at, copy, loop, seen>> /\ at[p] = "get" /\ Working(p)
        /\ \E s : prog' = [prog EXCEPT ![p] = s]
    BY <1>9, RewritesDo
  <2>2. CASE p = t
    <3>1. ToSubmit(t)
      BY <1>9, <2>2, RewritesSubmit
    <3>2. Contents.preview = None
      BY <1>2, <2>1, <3>1
    <3>3. UNCHANGED file \/ file' = NoFile
      BY <1>9 DEF Rewrites, Ingest, Surface, Submit, EmitFails, Submitted, Unlink, Deliver
    <3> QED BY <2>1, <2>2, <3>2, <3>3 DEF Contents, Default
  <2>3. CASE p # t
    <3>1. p = Daemon /\ UNCHANGED file
      BY <1>1, <1>9, <2>1, <2>3 DEF Working, Rewrites, Ingest, Deliver
    <3>2. ToSubmit(t)
      BY <1>0, <2>1, <2>3 DEF ToSubmit
    <3> QED BY <1>3, <2>1, <3>1, <3>2
  <2> QED BY <2>2, <2>3
<1>10. ASSUME NEW p \in Procs, Ends(p)
      PROVE  /\ Contents'.preview = None
             /\ at'[t] \in {"cut", "fill"} => copy'[t].preview = None
  <2>1. p = Daemon /\ UNCHANGED <<file, prog, copy, seen>>
    BY <1>0, <1>1, <1>10 DEF Ends
  <2>2. at'[t] = at[t] /\ ToSubmit(t)
    BY <1>0, <1>10, <2>1 DEF Ends, ToSubmit
  <2> QED BY <1>3, <2>1, <2>2
<1>11. ASSUME NEW p \in Procs, WriteFails(p)
      PROVE  /\ Contents'.preview = None
             /\ at'[t] \in {"cut", "fill"} => copy'[t].preview = None
  <2>1. Working(p) /\ UNCHANGED <<file, seen>> /\ Forgets(p)
    BY <1>11 DEF WriteFails
  <2>2. CASE p = t
    <3>1. ToSubmit(t) /\ at'[t] = "get"
      BY <1>1, <1>11, <2>2, FailsSubmit
    <3> QED BY <1>2, <2>1, <3>1 DEF Contents
  <2>3. CASE p # t
    <3>1. p = Daemon
      <4>1. p # Daemon => loop = p /\ (loop' = loop \/ loop' = None)
        BY <1>11, <2>1 DEF Working, WriteFails, Stops
      <4> QED BY <1>0, <1>1, <2>3, <4>1
    <3>2. at'[t] = at[t]
      BY <1>0, <1>11, <2>3 DEF WriteFails, Stops
    <3>3. copy'[t] = copy[t]
      BY <1>0, <2>1, <2>3 DEF Forgets
    <3>4. ToSubmit(t)
      <4>1. PICK s : prog' = [prog EXCEPT ![p] = s]
        BY <1>11, FailGood
      <4>2. prog'[t] = prog[t]
        BY <1>0, <2>3, <4>1
      <4> QED BY <4>2 DEF ToSubmit
    <3> QED BY <1>3, <2>1, <3>2, <3>3, <3>4
  <2> QED BY <2>2, <2>3
<1>12. ASSUME NEW j \in Jobs, DaemonFinishes(j) \/ CommandFinishes(j)
      PROVE  /\ Contents'.preview = None
             /\ at'[t] \in {"cut", "fill"} => copy'[t].preview = None
  <2>1. UNCHANGED <<file, copy, seen>>
    BY <1>12 DEF DaemonFinishes, CommandFinishes, work
  <2>2. at'[t] = at[t] /\ prog'[t] = prog[t]
    BY <1>0, <1>12 DEF DaemonFinishes, CommandFinishes, work
  <2>3. ToSubmit(t)
    BY <2>2 DEF ToSubmit
  <2> QED BY <1>3, <2>1, <2>2, <2>3
<1>13. ~WebDies
  BY <1>0, <1>1 DEF WebDies
<1>14. ASSUME DaemonDies
      PROVE  /\ Contents'.preview = None
             /\ at'[t] \in {"cut", "fill"} => copy'[t].preview = None
  <2>1. UNCHANGED <<file, seen>>
    BY <1>14 DEF DaemonDies
  <2>2. at'[t] = at[t] /\ prog'[t] = prog[t] /\ copy'[t] = copy[t]
    BY <1>0, <1>14 DEF DaemonDies, Stops, Forgets
  <2>3. ToSubmit(t)
    BY <2>2 DEF ToSubmit
  <2> QED BY <1>3, <2>1, <2>2, <2>3
<1> QED BY <1>4, <1>5, <1>6, <1>7, <1>8, <1>9, <1>10, <1>11, <1>12, <1>13, <1>14, Steps

(* Who has submitted reads no preview again.                                *)
LEMMA SeenSteps ==
    ASSUME Base, Next, NEW t \in Requests, at[t] # "idle"
    PROVE  seen'[t] = seen[t]
<1>0. /\ TypeOK /\ seen \in [Requests -> Previews \cup {None}]
  BY DEF Base, TypeOK
<1>1. ASSUME NEW u \in Requests, Starts(u) PROVE seen'[t] = seen[t]
  <2>1. Begins(u)
    BY <1>0, <1>1, StartsDo
  <2>2. u # t
    BY <2>1 DEF Begins
  <2> QED BY <1>0, <2>1, <2>2 DEF Begins
<1>2. ASSUME NEW u \in Requests, Returns(u) \/ Wait(u) PROVE UNCHANGED seen
  BY <1>2 DEF Returns, Continues, Interrupted, Answered, Resumes, Wait
<1>3. ASSUME NEW p \in Procs, Prepares(p) \/ Cut(p) \/ Fill(p) \/ Ends(p) \/ WriteFails(p)
      PROVE  UNCHANGED seen
  BY <1>3, PreparesAt DEF Cut, Fill, Ends, WriteFails
<1>4. ASSUME NEW p \in Procs, Rewrites(p) PROVE UNCHANGED seen
  BY <1>4, RewritesDo
<1>5. ASSUME NEW j \in Jobs, DaemonFinishes(j) \/ CommandFinishes(j) PROVE UNCHANGED seen
  BY <1>5 DEF DaemonFinishes, CommandFinishes
<1>6. WebDies \/ DaemonDies => UNCHANGED seen
  BY DEF WebDies, DaemonDies
<1> QED BY <1>1, <1>2, <1>3, <1>4, <1>5, <1>6, Steps

(* So what is submitted is what its request saw.                            *)
LEMMA SeenStays ==
    ASSUME Base, NoneAround, SubmittedAsSeen, Next
    PROVE  SubmittedAsSeen'
<1> SUFFICES ASSUME ~raced', NEW j \in Jobs, sent'[j] # None
             PROVE  sent'[j].preview = seen'[sent'[j].by]
  BY DEF SubmittedAsSeen
<1>0. /\ ~raced /\ sent \in [Jobs -> Submissions \cup {None}]
      /\ Requests \subseteq Procs /\ Daemon \notin Requests
  BY RacedSteps, SessionAssumption DEF Base, TypeOK, Procs
<1>1. CASE sent'[j] = sent[j]
  <2>1. sent[j] # None /\ sent[j].by \in Requests /\ at[sent[j].by] # "idle"
        /\ sent[j].preview = seen[sent[j].by]
    BY <1>0, <1>1 DEF Base, Submitters, SubmittedAsSeen, Submissions
  <2>2. seen'[sent[j].by] = seen[sent[j].by]
    BY <2>1, SeenSteps
  <2> QED BY <1>1, <2>1, <2>2
<1>2. CASE sent'[j] # sent[j]
  <2>1. PICK t \in Requests : Submit(t) /\ Doing(t, "submit") /\ ~UNCHANGED queue
    BY <1>2, QueueSteps DEF queue
  <2>2. PICK k \in Jobs, v \in Known \ {None}, m \in BOOLEAN :
                /\ v = IF Contents.preview # None THEN Contents.preview ELSE Head(prog[t])[2]
                /\ Head(prog[t])[2] = seen[t]
                /\ seen[t] # None => v = seen[t]
                /\ sent' = [sent EXCEPT ![k] = [preview |-> v, by |-> t, missed |-> m]]
    BY <2>1, SubmitDoes
  <2>3. sent'[j] = [preview |-> v, by |-> t, missed |-> m]
    BY <1>0, <1>2, <2>2
  <2>4. ToSubmit(t)
    <3>1. prog[t] \in Seq(Ops) /\ prog[t] # <<>> /\ Head(prog[t])[1] = "submit"
      BY <1>0, <2>1 DEF Base, TypeOK, Doing
    <3> QED BY <3>1, Shorter DEF ToSubmit
  <2>5. seen[t] # None
    BY <1>0, <2>2, <2>4 DEF NoneAround
  <2>6. seen'[t] = seen[t]
    BY <2>1, SeenSteps DEF Doing
  <2> QED BY <2>2, <2>3, <2>5, <2>6
<1> QED BY <1>1, <1>2

(* The inductive invariant of SubmittedAsSeen.                              *)
Inv1 == Base /\ NotesAreTrue /\ NoneAround /\ SubmittedAsSeen

(* It holds at the beginning                                                *)
LEMMA Inv1Init == Init => Inv1
<1> SUFFICES ASSUME Init PROVE Inv1
  OBVIOUS
<1>1. Base
  BY BaseInit
<1>2. NotesAreTrue /\ SubmittedAsSeen
  BY DEF Init, NotesAreTrue, SubmittedAsSeen
<1>3. NoneAround
  <2>1. \A t \in Requests : prog[t] = <<>>
    BY DEF Init, Procs
  <2> QED BY <2>1 DEF NoneAround, ToSubmit
<1> QED BY <1>1, <1>2, <1>3 DEF Inv1

(* and after every step.                                                    *)
LEMMA Inv1Stays == Inv1 /\ [Next]_vars => Inv1'
<1>1. ASSUME Inv1, Next PROVE Inv1'
  BY <1>1, BaseStays, TrueStays, NoneStays, SeenStays DEF Inv1
<1>2. ASSUME Inv1, UNCHANGED vars PROVE Inv1'
  <2>1. UNCHANGED <<file, loop, at, prog, edit, copy, seen, state, sent, drafts, faults, said,
            notes, raced>>
    BY <1>2 DEF vars, work, queue, history
  <2>2. Onward
    BY <1>2, <2>1, SessionAssumption DEF Onward, Inv1, Base, TypeOK
  <2>3. Programs'
    BY <1>2, <2>1, <2>2, SamePrograms DEF Inv1
  <2>4. TypeOK' /\ AtOk' /\ Submitters'
    BY <1>2, <2>1 DEF Inv1, Base, TypeOK, AtOk, Submitters
  <2>5. Names'
    BY <1>2, <2>1 DEF Inv1, Base, Names, Known
  <2>6. NotesAreTrue' /\ SubmittedAsSeen'
    BY <1>2, <2>1 DEF Inv1, NotesAreTrue, SubmittedAsSeen
  <2>7. NoneAround'
    BY <1>2, <2>1 DEF Inv1, NoneAround, ToSubmit, Contents
  <2> QED BY <2>3, <2>4, <2>5, <2>6, <2>7 DEF Inv1, Base
<1> QED BY <1>1, <1>2

(* What a job was made of is the preview its request saw as it came in,     *)
(* unless the daemon worked beside a request: between the read of the       *)
(* preview and the submission of it no other request gets to write one,     *)
(* even when writes fail and processes are killed.                          *)
THEOREM Seen == Spec => []SubmittedAsSeen
<1>1. Inv1 => SubmittedAsSeen
  BY DEF Inv1
<1> QED BY <1>1, Inv1Init, Inv1Stays, PTL DEF Spec

-----------------------------------------------------------------------------
(* The session file while nothing disturbs it *)

(* In a step after which nothing disturbs the session nothing fails, and    *)
(* who writes is alone.                                                     *)
LEMMA Calmly ==
    ASSUME Base, Next, Undisturbed'
    PROVE  /\ Undisturbed
           /\ \A p \in Procs : ~WriteFails(p)
           /\ \A t \in Requests : ~EmitFails(t)
           /\ ~WebDies /\ ~DaemonDies
           /\ \A p \in Procs : Cut(p) \/ Fill(p) \/ Unlink(p)
                  => \A q \in Procs \ {p} : ~Working(q)
<1>0. faults \in Nat /\ (raced => raced')
  BY RacedSteps, SessionAssumption DEF Base, TypeOK
<1>1. faults' = 0 /\ ~raced'
  BY DEF Undisturbed
<1>2. ~Fault
  BY <1>0, <1>1 DEF Fault
<1>3. /\ \A p \in Procs : ~WriteFails(p)
      /\ \A t \in Requests : ~EmitFails(t)
      /\ ~WebDies /\ ~DaemonDies
  BY <1>2 DEF WriteFails, EmitFails, WebDies, DaemonDies
<1>4. \A p \in Procs : Cut(p) \/ Fill(p) \/ Unlink(p) => \A q \in Procs \ {p} : ~Working(q)
  BY <1>1 DEF Cut, Fill, Unlink, Races
<1>5. faults = 0
  <2>1. ASSUME NEW t \in Requests, Starts(t) \/ Returns(t) \/ Wait(t) PROVE UNCHANGED faults
    <3>1. Starts(t) => UNCHANGED faults
      BY StartsDo DEF Begins, Base
    <3>2. Returns(t) \/ Wait(t) => UNCHANGED faults
      BY DEF Returns, Continues, Interrupted, Answered, Resumes, Wait
    <3> QED BY <2>1, <3>1, <3>2
  <2>2. ASSUME NEW p \in Procs, Prepares(p) \/ Cut(p) \/ Fill(p) \/ Ends(p) PROVE UNCHANGED faults
    BY <2>2, PreparesAt DEF Cut, Fill, Ends
  <2>3. ASSUME NEW p \in Procs, Rewrites(p) PROVE UNCHANGED faults
    BY <1>2, <2>3 DEF Rewrites, Ingest, Surface, Submit, EmitFails, Submitted, Unlink, Deliver
  <2>4. ASSUME NEW j \in Jobs, DaemonFinishes(j) \/ CommandFinishes(j) PROVE UNCHANGED faults
    BY <2>4 DEF DaemonFinishes, CommandFinishes
  <2> QED BY <1>1, <1>3, <2>1, <2>2, <2>3, <2>4, Steps
<1> QED BY <1>0, <1>1, <1>3, <1>4, <1>5 DEF Undisturbed

(* Who does not work is at no write.                                        *)
LEMMA NotWorking ==
    ASSUME Base, NEW q \in Procs, ~Working(q)
    PROVE  at[q] \notin {"get", "load", "cut", "fill"}
BY SessionAssumption DEF Base, AtOk, Working, Procs

(* What p is about to write is the file with its next op applied.           *)
LEMMA MadeApplied ==
    ASSUME Base, FileOk, NEW p \in Procs, Prepares(p), NoFill
    PROVE  /\ at'[p] = "cut" => copy'[p] = Applied(Contents, Head(prog[p]))
           /\ at'[p] = "load" =>
                [Contents EXCEPT ![(edit'[p])[1]] = (edit'[p])[2]]
                    = Applied(Contents, Head(prog[p]))
           /\ at'[p] \in {"cut", "load"}
<1>0. /\ copy \in [Procs -> Payloads] /\ Contents \in Payloads /\ DOMAIN edit = Procs
      /\ at \in [Procs -> {"idle", "get", "load", "cut", "fill", "wait", "over"}]
  BY ContentsKnown DEF Base, TypeOK
<1>1. CASE Put(p)
  <2>1. PICK f \in {"preview", "handoff", "registry", "ctx"} :
           /\ Head(prog[p])[1] = f
           /\ copy' = [copy EXCEPT ![p] = [Contents EXCEPT ![f] = Head(prog[p])[2]]]
    BY <1>1 DEF Put, Doing
  <2>2. copy'[p] = [Contents EXCEPT ![f] = Head(prog[p])[2]] /\ at'[p] = "cut"
    BY <1>0, <1>1, <2>1 DEF Put
  <2>3. Applied(Contents, Head(prog[p])) = [Contents EXCEPT ![f] = Head(prog[p])[2]]
    BY <2>1 DEF Applied, Fields
  <2> QED BY <2>2, <2>3
<1>2. CASE Touch(p)
  <2>1. copy'[p] = Contents /\ at'[p] = "cut" /\ Head(prog[p])[1] = "touch"
    BY <1>0, <1>2 DEF Touch, Doing
  <2> QED BY <2>1 DEF Applied, Fields
<1>3. CASE Load(p)
  <2>1. copy'[p] = [Contents EXCEPT ![edit[p][1]] = edit[p][2]] /\ at'[p] = "cut"
            /\ at[p] = "load"
    BY <1>0, <1>3 DEF Load
  <2> QED BY <2>1 DEF FileOk
<1>4. CASE AppendTurn(p)
  <2> DEFINE x == Head(prog[p])
  <2>1. at'[p] = "load" /\ edit'[p] = <<"turns", Contents.turns \cup {x[2]}>> /\ x[1] = "turn"
    BY <1>0, <1>4 DEF AppendTurn, WillPut, Doing
  <2>2. Applied(Contents, x) = [Contents EXCEPT !.turns = Contents.turns \cup {x[2]}]
    BY <2>1 DEF Applied, Fields
  <2> QED BY <2>1, <2>2
<1>5. CASE Track(p)
  <2> DEFINE x == Head(prog[p])
             r == [Contents.registry EXCEPT !.tracked = @ \cup {x[2]}]
  <2>1. at'[p] = "load" /\ edit'[p] = <<"registry", r>> /\ x[1] = "track"
    BY <1>0, <1>5 DEF Track, WillPut, Doing
  <2>2. Applied(Contents, x) = [Contents EXCEPT !.registry = r]
    BY <1>0, <2>1 DEF Applied, Fields, Payloads
  <2> QED BY <2>1, <2>2
<1> QED BY <1>1, <1>2, <1>3, <1>4, <1>5 DEF Prepares

(* A turn that is applied is there.                                         *)
LEMMA TurnApplied ==
    ASSUME NEW c \in Payloads, NEW x, x[1] = "turn"
    PROVE  x[2] \in Applied(c, x).turns
BY DEF Applied, Fields, Payloads

(* A step that leaves the file alone.                                       *)
LEMMA FileLeft ==
    ASSUME Base, FileOk, NEW p \in Procs, UNCHANGED file,
           \A q \in Procs \ {p} : /\ at'[q] = at[q] /\ prog'[q] = prog[q]
                                  /\ copy'[q] = copy[q] /\ edit'[q] = edit[q],
           at[p] # "fill",
           \/ at'[p] \notin {"load", "cut", "fill"}
           \/ Prepares(p)
    PROVE  FileOk'
<1>0. (Contents = Contents') /\ (Prepares(p) => at'[p] \in {"cut", "load"} /\ UNCHANGED prog)
  <2>1. Contents = Contents'
    BY DEF Contents
  <2>2. at \in [Procs -> {"idle", "get", "load", "cut", "fill", "wait", "over"}]
    BY DEF Base, TypeOK
  <2>3. Prepares(p) => at'[p] \in {"cut", "load"} /\ UNCHANGED prog
    BY <2>2 DEF Prepares, Put, Touch, Load, AppendTurn, Track, WillPut
  <2> QED BY <2>1, <2>3
<1>1. NoFill' <=> NoFill
  BY <1>0 DEF NoFill
<1>2. \A q \in Procs : at[q] = "fill" <=> at'[q] = "fill"
  BY <1>0
<1>3. ASSUME NEW q \in Procs
      PROVE  /\ at'[q] = "fill" => file' = Torn /\ \A u \in Procs \ {q} : at'[u] # "fill"
             /\ at'[q] = "fill" /\ Head(prog'[q])[1] = "turn"
                    => Head(prog'[q])[2] \in copy'[q].turns
             /\ at'[q] = "cut" /\ NoFill => copy'[q] = Applied(Contents, Head(prog'[q]))
             /\ at'[q] = "load" /\ NoFill =>
                  [Contents EXCEPT ![(edit'[q])[1]] = (edit'[q])[2]]
                      = Applied(Contents, Head(prog'[q]))
  <2>1. CASE q # p
    BY <1>2, <2>1 DEF FileOk, Alone
  <2>2. CASE q = p
    BY <1>0, <2>2, MadeApplied
  <2> QED BY <2>1, <2>2
<1>4. \A c, x : Applied(c, x)' = Applied(c, x)
  BY DEF Applied, Fields
<1> QED BY <1>0, <1>1, <1>3 DEF FileOk, Alone, Applied, Fields

(* So the file is what the next op of its writer makes of it, as it is      *)
(* written.                                                                 *)
LEMMA FileOkStays ==
    ASSUME Base, FileOk, Next, Undisturbed'
    PROVE  FileOk'
<1>0. /\ Requests \subseteq Procs /\ Daemon \in Procs /\ Daemon \notin Requests
      /\ copy \in [Procs -> Payloads] /\ prog \in [Procs -> Seq(Ops)] /\ DOMAIN edit = Procs
      /\ at \in [Procs -> {"idle", "get", "load", "cut", "fill", "wait", "over"}] /\ TypeOK
      /\ Contents \in Payloads
  BY SessionAssumption, ContentsKnown DEF Procs, Base, TypeOK
<1>1. /\ \A p \in Procs : ~WriteFails(p)
      /\ \A t \in Requests : ~EmitFails(t)
      /\ ~WebDies /\ ~DaemonDies
      /\ \A p \in Procs : Cut(p) \/ Fill(p) \/ Unlink(p) => \A q \in Procs \ {p} : ~Working(q)
  BY Calmly
<1>2. ASSUME NEW t \in Requests, Starts(t) \/ Returns(t) PROVE FileOk'
  <2>1. /\ UNCHANGED <<file, copy, edit>> /\ at' = [at EXCEPT ![t] = "get"]
        /\ at[t] \in {"idle", "wait"}
        /\ \E s : prog' = [prog EXCEPT ![t] = s]
    <3>1. CASE Starts(t)
      BY <1>0, <3>1, StartsDo DEF Begins
    <3>2. CASE Returns(t)
      BY <1>0, <3>2, AnswerBegins DEF Returns, Continues, Interrupted, Resumes
    <3> QED BY <1>2, <3>1, <3>2
  <2>2. PICK s : prog' = [prog EXCEPT ![t] = s]
    BY <2>1
  <2>3. t \in Procs /\ at'[t] = "get" /\ at[t] # "fill"
    BY <1>0, <2>1
  <2>4. \A q \in Procs \ {t} : at'[q] = at[q] /\ prog'[q] = prog[q] /\ copy'[q] = copy[q]
            /\ edit'[q] = edit[q]
    BY <1>0, <2>1, <2>2
  <2> QED BY <2>1, <2>3, <2>4, FileLeft
<1>3. ASSUME NEW t \in Requests, Wait(t) PROVE FileOk'
  <2>1. t \in Procs /\ at'[t] = "wait" /\ at[t] = "get" /\ UNCHANGED file
    BY <1>0, <1>3 DEF Wait, Doing
  <2>2. \A q \in Procs \ {t} : at'[q] = at[q] /\ prog'[q] = prog[q] /\ copy'[q] = copy[q]
            /\ edit'[q] = edit[q]
    BY <1>0, <1>3 DEF Wait
  <2> QED BY <2>1, <2>2, FileLeft
<1>4. ASSUME NEW p \in Procs, Prepares(p) PROVE FileOk'
  <2>1. UNCHANGED <<file, prog>>
    BY <1>4, PreparesAt
  <2>2. at[p] # "fill" /\ \A q \in Procs \ {p} : at'[q] = at[q] /\ edit'[q] = edit[q]
            /\ copy'[q] = copy[q]
    BY <1>0, <1>4 DEF Prepares, Put, Touch, Load, AppendTurn, Track, WillPut, Doing
  <2> QED BY <1>4, <2>1, <2>2, FileLeft
<1>5. ASSUME NEW p \in Procs, Cut(p) PROVE FileOk'
  <2>1. /\ file' = Torn /\ at' = [at EXCEPT ![p] = "fill"] /\ UNCHANGED <<prog, copy, edit>>
        /\ at[p] = "cut"
    BY <1>5 DEF Cut
  <2>2. \A q \in Procs \ {p} : at[q] \notin {"get", "load", "cut", "fill"}
    BY <1>1, <1>5, NotWorking
  <2>3. NoFill
    BY <2>1, <2>2 DEF NoFill
  <2>4. copy[p] = Applied(Contents, Head(prog[p]))
    BY <2>1, <2>3 DEF FileOk
  <2>5. Head(prog[p])[1] = "turn" => Head(prog[p])[2] \in copy[p].turns
    BY <1>0, <2>4, TurnApplied
  <2>6. at'[p] = "fill" /\ \A q \in Procs \ {p} : at'[q] \notin {"load", "cut", "fill"}
    BY <1>0, <2>1, <2>2
  <2> QED BY <2>1, <2>5, <2>6 DEF FileOk, Alone
<1>6. ASSUME NEW p \in Procs, Fill(p) \/ Unlink(p) PROVE FileOk'
  <2>1. at'[p] = "get"
    BY <1>0, <1>6 DEF Fill, Unlink, Skip, Doing
  <2>2. \A q \in Procs \ {p} : at[q] \notin {"get", "load", "cut", "fill"}
    BY <1>1, <1>6, NotWorking
  <2>3. \A q \in Procs \ {p} : at'[q] = at[q]
    BY <1>0, <1>6 DEF Fill, Unlink, Skip
  <2>4. \A q \in Procs : at'[q] \notin {"load", "cut", "fill"}
    BY <2>1, <2>2, <2>3
  <2> QED BY <2>4 DEF FileOk
<1>7. ASSUME NEW p \in Procs, Rewrites(p), ~Unlink(p) PROVE FileOk'
  <2>1. UNCHANGED <<at, edit, copy>> /\ at[p] = "get" /\ \E s : prog' = [prog EXCEPT ![p] = s]
    BY <1>7, RewritesDo
  <2>2. UNCHANGED file
    BY <1>7 DEF Rewrites, Ingest, Surface, Submit, EmitFails, Submitted, Deliver
  <2>3. \A q \in Procs \ {p} : prog'[q] = prog[q]
    BY <1>0, <2>1
  <2> QED BY <2>1, <2>2, <2>3, FileLeft
<1>8. ASSUME NEW p \in Procs, Ends(p) PROVE FileOk'
  <2>1. UNCHANGED <<file, prog, edit, copy>> /\ at[p] = "get" /\ at'[p] \in {"idle", "over"}
        /\ \A q \in Procs \ {p} : at'[q] = at[q]
    BY <1>0, <1>8 DEF Ends
  <2> QED BY <2>1, FileLeft
<1>9. ASSUME NEW j \in Jobs, DaemonFinishes(j) PROVE FileOk'
  <2>1. UNCHANGED <<file, edit, copy>> /\ at[Daemon] = "idle" /\ at'[Daemon] \in {"idle", "get"}
        /\ \A q \in Procs \ {Daemon} : at'[q] = at[q] /\ prog'[q] = prog[q]
    BY <1>0, <1>9 DEF DaemonFinishes
  <2> QED BY <1>0, <2>1, FileLeft
<1>10. ASSUME NEW j \in Jobs, CommandFinishes(j) PROVE FileOk'
  <2>1. UNCHANGED <<file, at, prog, edit, copy>>
    BY <1>10 DEF CommandFinishes, work
  <2> QED BY <2>1 DEF FileOk, Alone, NoFill, Contents
<1> QED BY <1>1, <1>2, <1>3, <1>4, <1>5, <1>6, <1>7, <1>8, <1>9, <1>10, Steps

(* The file as it is, or as it is about to be again.                        *)
LEMMA ViewIs ==
    ASSUME FileOk
    PROVE  /\ NoFill => View = Contents
           /\ \A p \in Procs : at[p] = "fill" => View = copy[p] /\ \A q \in Procs : at[q] = "fill"
                  => q = p
<1>1. NoFill => View = Contents
  BY DEF NoFill, View
<1>2. ASSUME NEW p \in Procs, at[p] = "fill"
      PROVE  View = copy[p] /\ \A q \in Procs : at[q] = "fill" => q = p
  <2>1. \A q \in Procs : at[q] = "fill" => q = p
    BY <1>2 DEF FileOk, Alone
  <2>2. (CHOOSE q \in Procs : at[q] = "fill") = p
    BY <1>2, <2>1
  <2> QED BY <1>2, <2>1, <2>2 DEF View
<1> QED BY <1>1, <1>2

(* The same of the next state.                                              *)
LEMMA ViewIsNext ==
    ASSUME FileOk'
    PROVE  /\ NoFill' => View' = Contents'
           /\ \A p \in Procs : at'[p] = "fill" => View' = copy'[p]
<1>1. NoFill' => View' = Contents'
  BY DEF NoFill, View
<1>2. ASSUME NEW p \in Procs, at'[p] = "fill" PROVE View' = copy'[p]
  <2>1. \A q \in Procs : at'[q] = "fill" => q = p
    BY <1>2 DEF FileOk, Alone
  <2>2. (CHOOSE q \in Procs : at'[q] = "fill") = p
    BY <1>2, <2>1
  <2> QED BY <1>2, <2>2 DEF View
<1> QED BY <1>1, <1>2

(* It is a session.                                                         *)
LEMMA ViewFine == ASSUME Base, FileOk PROVE View \in Payloads
<1>1. Contents \in Payloads /\ copy \in [Procs -> Payloads]
  BY ContentsKnown DEF Base, TypeOK
<1> QED BY <1>1, ViewIs DEF NoFill

(* A step that is no write leaves it.                                       *)
LEMMA ViewLeft ==
    ASSUME FileOk, FileOk', UNCHANGED file,
           \A p \in Procs : at[p] = "fill" <=> at'[p] = "fill",
           \A p \in Procs : at[p] = "fill" => copy'[p] = copy[p]
    PROVE  View' = View
<1>1. CASE NoFill
  <2>1. NoFill' /\ Contents' = Contents
    BY <1>1 DEF NoFill, Contents
  <2> QED BY <1>1, <2>1, ViewIs, ViewIsNext
<1>2. CASE ~NoFill
  <2>1. PICK p \in Procs : at[p] = "fill"
    BY <1>2 DEF NoFill
  <2> QED BY <2>1, ViewIs, ViewIsNext
<1> QED BY <1>1, <1>2

-----------------------------------------------------------------------------
(* What the steps do to the file as it is about to be, and to what is left  *)
(* to do                                                                    *)

(* What is left to do is part of the program.                               *)
LEMMA RestParts ==
    ASSUME Base, NEW p \in Procs
    PROVE  /\ Rest(p) \in Seq(Ops)
           /\ \A i \in DOMAIN Rest(p) : (\E k \in DOMAIN prog[p] : prog[p][k] = Rest(p)[i])
                  /\ OpGood(p, Rest(p)[i])
           /\ p # Daemon /\ loop # p => \A i \in DOMAIN Rest(p) : Aside(Rest(p)[i])
           /\ p = Daemon => \A i \in DOMAIN Rest(p) : Rest(p)[i][1]
                  \in {"ingest", "deliver", "registry", "turn"}
           /\ at[p] # "fill" => Rest(p) = prog[p]
<1>0. prog[p] \in Seq(Ops) /\ \A i \in DOMAIN prog[p] : OpGood(p, prog[p][i])
  BY DEF Base, TypeOK, Programs, ProgGood
<1>1. /\ Rest(p) \in Seq(Ops)
      /\ \A i \in DOMAIN Rest(p) : \E k \in DOMAIN prog[p] : prog[p][k] = Rest(p)[i]
  <2>1. CASE at[p] = "fill"
    <3>1. prog[p] # <<>>
      BY <2>1 DEF Base, AtOk
    <3> QED BY <1>0, <2>1, <3>1, Shorter DEF Rest
  <2>2. CASE at[p] # "fill"
    BY <1>0, <2>2 DEF Rest
  <2> QED BY <2>1, <2>2
<1>2. p # Daemon /\ loop # p => \A i \in DOMAIN prog[p] : Aside(prog[p][i])
  BY DEF Procs, Base, Programs
<1>3. p = Daemon => \A i \in DOMAIN prog[p] : prog[p][i][1]
          \in {"ingest", "deliver", "registry", "turn"}
  <2> SUFFICES ASSUME p = Daemon PROVE \A i \in DOMAIN prog[p] : prog[p][i][1]
                          \in {"ingest", "deliver", "registry", "turn"}
    OBVIOUS
  <2>1. DaemonShaped(prog[p])
    BY DEF Base, Programs, ProgGood
  <2> QED BY <2>1 DEF DaemonShaped
<1>4. \A i \in DOMAIN Rest(p) : OpGood(p, Rest(p)[i])
  BY <1>0, <1>1
<1>5. p # Daemon /\ loop # p => \A i \in DOMAIN Rest(p) : Aside(Rest(p)[i])
  BY <1>1, <1>2
<1>6. p = Daemon => \A i \in DOMAIN Rest(p) : Rest(p)[i][1]
          \in {"ingest", "deliver", "registry", "turn"}
  BY <1>1, <1>3
<1> QED BY <1>1, <1>4, <1>5, <1>6 DEF Rest

(* Everybody but p goes on as before.                                       *)
OthersLeft(p) == \A q \in Procs \ {p} : Rest(q)' = Rest(q)

(* Everybody but p rests.                                                   *)
Idle(p) == \A q \in Procs \ {p} : ~Working(q)

(* As the file is cut, it becomes the one with the next op applied.         *)
LEMMA CutDoes ==
    ASSUME Base, FileOk, FileOk', Next, Undisturbed', NEW p \in Procs, Cut(p)
    PROVE  /\ NoFill /\ View = Contents /\ Idle(p) /\ Working(p)
           /\ prog[p] # <<>> /\ Rest(p) = prog[p] /\ Rest(p)' = Tail(prog[p]) /\ OthersLeft(p)
           /\ View' = Applied(View, Head(prog[p])) /\ Head(prog[p]) \in Ops
           /\ Head(prog[p])[1] \in Fields \cup {"touch", "turn", "track"}
           /\ UNCHANGED <<loop, seen, queue, drafts, said, notes, prog>>
<1>1. /\ file' = Torn /\ at' = [at EXCEPT ![p] = "fill"] /\ UNCHANGED <<prog, copy, edit>>
      /\ at[p] = "cut"
      /\ Working(p) /\ UNCHANGED <<loop, seen, queue, drafts, said, notes>>
  BY DEF Cut
<1>2. Idle(p)
  BY Calmly DEF Idle
<1>3. \A q \in Procs \ {p} : at[q] \notin {"get", "load", "cut", "fill"}
  BY <1>2, NotWorking DEF Idle
<1>4. NoFill
  BY <1>1, <1>3 DEF NoFill
<1>5. DOMAIN at = Procs /\ prog[p] \in Seq(Ops)
  BY DEF Base, TypeOK
<1>6. prog[p] # <<>> /\ Head(prog[p])[1] \in Fields \cup {"touch", "turn", "track"}
  BY <1>1 DEF Base, AtOk
<1>7. View = Contents
  BY <1>4, ViewIs
<1>8. View' = copy[p]
  BY <1>1, <1>5, ViewIsNext
<1>9. copy[p] = Applied(Contents, Head(prog[p]))
  BY <1>1, <1>4 DEF FileOk
<1>10. Rest(p) = prog[p] /\ Rest(p)' = Tail(prog[p])
  BY <1>1, <1>5 DEF Rest
<1>11. OthersLeft(p)
  BY <1>1, <1>5 DEF OthersLeft, Rest
<1> QED BY <1>1, <1>2, <1>4, <1>5, <1>6, <1>7, <1>8, <1>9, <1>10, <1>11, Shorter

(* As it is filled, nothing changes any more.                               *)
LEMMA FillDoes ==
    ASSUME Base, FileOk, FileOk', Next, Undisturbed', NEW p \in Procs, Fill(p)
    PROVE  /\ View' = View /\ \A q \in Procs : Rest(q)' = Rest(q) /\ (q # p => prog'[q] = prog[q])
           /\ Idle(p) /\ Working(p) /\ prog[p] # <<>>
           /\ Head(prog[p])[1] = "turn" => Head(prog[p])[2] \in View.turns
           /\ prog'[p] = Tail(prog[p])
           /\ Rest(p) = Tail(prog[p])
           /\ UNCHANGED <<loop, seen, queue, drafts>>
<1>0. /\ DOMAIN at = Procs /\ DOMAIN prog = Procs /\ prog[p] \in Seq(Ops) /\ copy[p] \in Payloads
  BY DEF Base, TypeOK
<1>1. /\ file' = copy[p] /\ at' = [at EXCEPT ![p] = "get"]
      /\ prog' = [prog EXCEPT ![p] = Tail(prog[p])]
      /\ at[p] = "fill" /\ Working(p) /\ UNCHANGED <<loop, seen, queue, drafts>>
  BY <1>0 DEF Fill
<1>2. Idle(p)
  BY Calmly DEF Idle
<1>3. \A q \in Procs \ {p} : at[q] \notin {"get", "load", "cut", "fill"}
  BY <1>2, NotWorking DEF Idle
<1>4. prog[p] # <<>>
  BY <1>1 DEF Base, AtOk
<1>5. View = copy[p]
  BY <1>1, ViewIs
<1>6. NoFill'
  BY <1>0, <1>1, <1>3 DEF NoFill
<1>7. View' = copy[p]
  <2>1. Contents' = copy[p]
    BY <1>0, <1>1, AbsentAssumption DEF Contents
  <2> QED BY <1>6, <2>1, ViewIsNext
<1>8. Rest(p) = Tail(prog[p]) /\ prog'[p] = Tail(prog[p])
  BY <1>0, <1>1 DEF Rest
<1>9. \A q \in Procs : Rest(q)' = Rest(q) /\ (q # p => prog'[q] = prog[q])
  BY <1>0, <1>1 DEF Rest
<1>10. Head(prog[p])[1] = "turn" => Head(prog[p])[2] \in View.turns
  BY <1>1, <1>5 DEF FileOk
<1> QED BY <1>1, <1>2, <1>4, <1>5, <1>7, <1>8, <1>9, <1>10

(* As it is removed, nothing is left of it.                                 *)
LEMMA UnlinkDoes ==
    ASSUME Base, FileOk, FileOk', Next, Undisturbed', NEW p \in Procs, Unlink(p)
    PROVE  /\ NoFill /\ View' = Default /\ Idle(p) /\ Working(p)
           /\ prog[p] # <<>> /\ Head(prog[p])[1] = "unlink"
           /\ Rest(p) = prog[p] /\ Rest(p)' = Tail(prog[p]) /\ OthersLeft(p)
           /\ prog' = [prog EXCEPT ![p] = Tail(prog[p])]
           /\ said' = {} /\ UNCHANGED <<loop, seen, queue, drafts, notes>>
<1>0. /\ DOMAIN at = Procs /\ DOMAIN prog = Procs /\ prog[p] \in Seq(Ops)
  BY DEF Base, TypeOK
<1>1. /\ file' = NoFile /\ UNCHANGED at /\ prog' = [prog EXCEPT ![p] = Tail(prog[p])]
      /\ at[p] = "get" /\ Working(p) /\ prog[p] # <<>> /\ Head(prog[p])[1] = "unlink"
      /\ said' = {} /\ UNCHANGED <<loop, seen, queue, drafts, notes>>
  BY DEF Unlink, Doing, Skip
<1>2. Idle(p)
  BY Calmly DEF Idle
<1>3. \A q \in Procs \ {p} : at[q] \notin {"get", "load", "cut", "fill"}
  BY <1>2, NotWorking DEF Idle
<1>4. NoFill /\ NoFill'
  BY <1>1, <1>3 DEF NoFill
<1>5. View' = Default
  <2>1. Contents' = Default
    BY <1>1 DEF Contents
  <2> QED BY <1>4, <2>1, ViewIsNext
<1>6. Rest(p) = prog[p] /\ Rest(p)' = Tail(prog[p]) /\ OthersLeft(p)
  BY <1>0, <1>1 DEF Rest, OthersLeft
<1> QED BY <1>1, <1>2, <1>4, <1>5, <1>6

(* A step of p that is none of these.                                       *)
LEMMA MoveLeaves ==
    ASSUME FileOk, FileOk', NEW p \in Procs, UNCHANGED file,
           \A q \in Procs \ {p} : at'[q] = at[q] /\ prog'[q] = prog[q] /\ copy'[q] = copy[q],
           at[p] # "fill", at'[p] # "fill"
    PROVE  View' = View /\ OthersLeft(p) /\ Rest(p) = prog[p] /\ Rest(p)' = prog'[p]
<1>1. View' = View
  BY ViewLeft
<1>2. OthersLeft(p)
  BY DEF OthersLeft, Rest
<1> QED BY <1>1, <1>2 DEF Rest

(* A request comes in,                                                      *)
LEMMA StartsMove ==
    ASSUME Base, FileOk, FileOk', NEW t \in Requests, Starts(t)
    PROVE  /\ View' = View /\ OthersLeft(t) /\ loop = None /\ loop' = t /\ at[t] = "idle"
           /\ (\E b : Begun(t, b) /\ Rest(t)' = b /\ prog' = [prog EXCEPT ![t] = b])
           /\ UNCHANGED <<queue, said, notes>> /\ drafts' >= drafts
           /\ t \in Procs /\ Contents.preview \in {None, View.preview}
           /\ seen'[t] = Contents.preview
<1>0. /\ t \in Procs /\ prog \in [Procs -> Seq(Ops)] /\ DOMAIN at = Procs /\ TypeOK
             /\ drafts \in Nat
      /\ DOMAIN seen = Requests
  BY SessionAssumption DEF Procs, Base, TypeOK
<1>1. /\ Begins(t) /\ (\E n \in {0, 1} : Drafts(n))
      /\ \E b : Begun(t, b) /\ prog' = [prog EXCEPT ![t] = b]
  BY <1>0, StartsDo
<1>2. PICK b : Begun(t, b) /\ prog' = [prog EXCEPT ![t] = b]
  BY <1>1
<1>3. at[t] = "idle" /\ at'[t] = "get" /\ loop = None /\ loop' = t
          /\ UNCHANGED <<file, copy, queue, history>>
      /\ \A q \in Procs \ {t} : at'[q] = at[q] /\ prog'[q] = prog[q]
  BY <1>0, <1>1, <1>2 DEF Begins
<1>4. prog'[t] = b
  BY <1>0, <1>2
<1>5. View' = View /\ OthersLeft(t) /\ Rest(t)' = b
  BY <1>0, <1>3, <1>4, MoveLeaves
<1>6. drafts' >= drafts
  BY <1>0, <1>1 DEF Drafts
<1>7. Contents.preview \in {None, View.preview}
  <2>1. CASE NoFill
    BY <2>1, ViewIs
  <2>2. CASE ~NoFill
    <3>1. file = Torn
      BY <2>2 DEF NoFill, FileOk
    <3> QED BY <3>1 DEF Contents, Default
  <2> QED BY <2>1, <2>2
<1>8. seen'[t] = Contents.preview
  BY <1>0, <1>1 DEF Begins
<1> QED BY <1>0, <1>2, <1>3, <1>5, <1>6, <1>7, <1>8 DEF history

(* one that waited goes on with what it had left, or with plain words and   *)
(* writes,                                                                  *)
LEMMA ReturnsMove ==
    ASSUME Base, FileOk, FileOk', NEW t \in Requests, Returns(t)
    PROVE  /\ View' = View /\ OthersLeft(t) /\ loop = None /\ loop' = t /\ at[t] = "wait"
           /\ (\E b : Rest(t)' = b /\ prog' = [prog EXCEPT ![t] = b]
                      /\ (Plain(b) \/ (b = Tail(prog[t]) /\ b # <<>>)))
           /\ UNCHANGED <<queue, said, notes, seen>> /\ drafts' >= drafts
           /\ t \in Procs
<1>0. /\ t \in Procs /\ prog \in [Procs -> Seq(Ops)] /\ DOMAIN at = Procs /\ TypeOK
             /\ drafts \in Nat
  BY SessionAssumption DEF Procs, Base, TypeOK
<1>1. Resumes(t) /\ (UNCHANGED drafts \/ \E n \in 0 .. 2 : Drafts(n))
  BY <1>0, AnswerBegins DEF Returns, Continues, Interrupted
<1>2. \E b : prog' = [prog EXCEPT ![t] = b] /\ (Plain(b) \/ (b = Tail(prog[t]) /\ b # <<>>))
  <2>1. CASE Answered(t)
    BY <1>0, <2>1, AnswerBegins
  <2>2. CASE Interrupted(t)
    BY <2>2, Words DEF Interrupted
  <2>3. CASE Continues(t)
    BY <1>0, <2>3 DEF Continues
  <2> QED BY <2>1, <2>2, <2>3 DEF Returns
<1>3. PICK b : prog' = [prog EXCEPT ![t] = b] /\ (Plain(b) \/ (b = Tail(prog[t]) /\ b # <<>>))
  BY <1>2
<1>4. at[t] = "wait" /\ at'[t] = "get" /\ loop = None /\ loop' = t
          /\ UNCHANGED <<file, copy, queue, history, seen>>
      /\ \A q \in Procs \ {t} : at'[q] = at[q] /\ prog'[q] = prog[q]
  BY <1>0, <1>1, <1>3 DEF Resumes
<1>5. prog'[t] = b
  BY <1>0, <1>3
<1>6. View' = View /\ OthersLeft(t) /\ Rest(t)' = b
  BY <1>0, <1>4, <1>5, MoveLeaves
<1>7. drafts' >= drafts
  BY <1>0, <1>1 DEF Drafts
<1> QED BY <1>0, <1>3, <1>4, <1>6, <1>7 DEF history

(* and a head is replaced: the file stays as it is.                         *)
LEMMA RewritesMove ==
    ASSUME Base, FileOk, FileOk', NEW p \in Procs, Rewrites(p), ~Unlink(p)
    PROVE  /\ View' = View /\ OthersLeft(p) /\ loop' = loop /\ Working(p) /\ at[p] = "get"
           /\ Rest(p) = prog[p] /\ Rest(p)' = prog'[p] /\ prog[p] # <<>>
           /\ UNCHANGED <<said, notes, drafts, seen>>
           /\ \A q \in Procs \ {p} : prog'[q] = prog[q]
<1>0. /\ prog \in [Procs -> Seq(Ops)]
  BY DEF Base, TypeOK
<1>1. UNCHANGED <<at, edit, copy, loop, drafts, seen>> /\ at[p] = "get" /\ Working(p)
          /\ prog[p] # <<>>
      /\ \E s : prog' = [prog EXCEPT ![p] = s]
  BY RewritesDo
<1>2. UNCHANGED <<file, said, notes>>
  BY DEF Rewrites, Ingest, Surface, Submit, EmitFails, Submitted, Deliver, history
<1>3. \A q \in Procs \ {p} : prog'[q] = prog[q]
  BY <1>0, <1>1
<1> QED BY <1>1, <1>2, <1>3, MoveLeaves

(* The rest leaves it all, or sends the daemon off.                         *)
LEMMA OthersMove ==
    ASSUME Base, FileOk, FileOk',
           \/ \E t \in Requests : Wait(t)
           \/ \E p \in Procs : Prepares(p) \/ Ends(p)
           \/ \E j \in Jobs : DaemonFinishes(j) \/ CommandFinishes(j)
    PROVE  /\ View' = View /\ UNCHANGED <<sent, said, notes, seen, drafts>>
           /\ \A q \in Procs \ {Daemon} : Rest(q)' = Rest(q) /\ prog'[q] = prog[q]
           /\ \/ Rest(Daemon)' = Rest(Daemon) /\ prog'[Daemon] = prog[Daemon]
              \/ NoFill /\ Rest(Daemon) = <<>> /\ \E j \in Jobs :
                    /\ Rest(Daemon)' = << <<"ingest", {j}>>, <<"deliver", j>> >>
                    /\ prog'[Daemon] = << <<"ingest", {j}>>, <<"deliver", j>> >>
           /\ \/ loop' = loop
              \/ /\ loop \in Requests /\ loop' = None
                 /\ Rest(loop) = <<>> \/ (Wait(loop) /\ at[loop] = "get")
<1>0. /\ Daemon \in Procs /\ Requests \subseteq Procs /\ Daemon \notin Requests
      /\ prog \in [Procs -> Seq(Ops)] /\ DOMAIN at = Procs /\ copy \in [Procs -> Payloads]
  BY SessionAssumption DEF Procs, Base, TypeOK
<1>1. ASSUME NEW t \in Requests, Wait(t)
      PROVE  /\ View' = View /\ (\A q \in Procs : Rest(q)' = Rest(q) /\ prog'[q] = prog[q])
             /\ UNCHANGED <<sent, said, notes, seen, drafts>> /\ loop = t /\ loop' = None
             /\ at[t] = "get"
  <2>1. /\ at[t] = "get" /\ at'[t] = "wait" /\ loop = t /\ loop' = None
        /\ UNCHANGED <<file, prog, copy>>
        /\ UNCHANGED <<sent, said, notes, seen, drafts>>
        /\ \A q \in Procs \ {t} : at'[q] = at[q]
    BY <1>0, <1>1 DEF Wait, Doing, Working, queue, history
  <2>2. View' = View /\ OthersLeft(t) /\ Rest(t) = prog[t] /\ Rest(t)' = prog'[t]
    BY <1>0, <2>1, MoveLeaves
  <2> QED BY <2>1, <2>2 DEF OthersLeft
<1>2. ASSUME NEW p \in Procs, Prepares(p)
      PROVE  /\ View' = View /\ (\A q \in Procs : Rest(q)' = Rest(q) /\ prog'[q] = prog[q])
             /\ UNCHANGED <<sent, said, notes, seen, drafts, loop>>
  <2>1. UNCHANGED <<file, loop, prog, sent, said, notes, seen, drafts>>
    BY <1>2, PreparesAt DEF queue, history
  <2>2. /\ at[p] # "fill" /\ at'[p] # "fill"
        /\ \A q \in Procs \ {p} : at'[q] = at[q] /\ copy'[q] = copy[q]
    BY <1>0, <1>2 DEF Prepares, Put, Touch, Load, AppendTurn, Track, WillPut, Doing
  <2>3. View' = View /\ OthersLeft(p) /\ Rest(p) = prog[p] /\ Rest(p)' = prog'[p]
    BY <2>1, <2>2, MoveLeaves
  <2> QED BY <2>1, <2>3 DEF OthersLeft
<1>3. ASSUME NEW p \in Procs, Ends(p)
      PROVE  /\ View' = View /\ (\A q \in Procs : Rest(q)' = Rest(q) /\ prog'[q] = prog[q])
             /\ UNCHANGED <<sent, said, notes, seen, drafts>>
             /\ \/ loop' = loop
                \/ loop = p /\ p \in Requests /\ loop' = None /\ Rest(p) = <<>>
  <2>1. /\ at[p] = "get" /\ at'[p] \in {"idle", "over"} /\ prog[p] = <<>>
        /\ UNCHANGED <<file, prog, copy, sent, said, notes, seen, drafts>>
        /\ \A q \in Procs \ {p} : at'[q] = at[q]
        /\ (loop' = loop \/ (loop = p /\ p # Daemon /\ loop' = None))
    BY <1>0, <1>3 DEF Ends, Working, queue, history
  <2>2. View' = View /\ OthersLeft(p) /\ Rest(p) = prog[p] /\ Rest(p)' = prog'[p]
    BY <2>1, MoveLeaves
  <2> QED BY <2>1, <2>2 DEF OthersLeft, Procs
<1>4. ASSUME NEW j \in Jobs, DaemonFinishes(j)
      PROVE  /\ View' = View
                    /\ (\A q \in Procs \ {Daemon} : Rest(q)' = Rest(q) /\ prog'[q] = prog[q])
             /\ UNCHANGED <<sent, said, notes, seen, drafts, loop>>
             /\ \/ Rest(Daemon)' = Rest(Daemon) /\ prog'[Daemon] = prog[Daemon]
                \/ /\ NoFill /\ Rest(Daemon) = <<>>
                   /\ Rest(Daemon)' = << <<"ingest", {j}>>, <<"deliver", j>> >>
                   /\ prog'[Daemon] = << <<"ingest", {j}>>, <<"deliver", j>> >>
  <2>1. /\ at[Daemon] = "idle" /\ at'[Daemon] \in {"idle", "get"}
        /\ UNCHANGED <<file, copy, loop>>
        /\ UNCHANGED <<sent, said, notes, seen, drafts>>
        /\ \A q \in Procs \ {Daemon} : at'[q] = at[q] /\ prog'[q] = prog[q]
    BY <1>0, <1>4 DEF DaemonFinishes, history
  <2>2. View' = View /\ OthersLeft(Daemon) /\ Rest(Daemon) = prog[Daemon]
            /\ Rest(Daemon)' = prog'[Daemon]
    BY <1>0, <2>1, MoveLeaves
  <2>3. prog[Daemon] = <<>>
    BY <2>1 DEF Base, AtOk
  <2>4. CASE UNCHANGED prog
    BY <2>1, <2>2, <2>4 DEF OthersLeft
  <2>5. CASE /\ j \in Contents.registry.tracked
             /\ prog' = [prog EXCEPT ![Daemon] = << <<"ingest", {j}>>, <<"deliver", j>> >>]
    <3>1. prog'[Daemon] = << <<"ingest", {j}>>, <<"deliver", j>> >>
      BY <1>0, <2>5
    <3>2. NoFill
      <4> SUFFICES ASSUME ~NoFill PROVE FALSE
        OBVIOUS
      <4>1. file = Torn
        BY DEF NoFill, FileOk
      <4> QED BY <2>5, <4>1 DEF Contents, Default
    <3> QED BY <2>1, <2>2, <2>3, <3>1, <3>2 DEF OthersLeft
  <2> QED BY <1>4, <2>4, <2>5 DEF DaemonFinishes
<1>5. ASSUME NEW j \in Jobs, CommandFinishes(j)
      PROVE  /\ View' = View /\ (\A q \in Procs : Rest(q)' = Rest(q) /\ prog'[q] = prog[q])
             /\ UNCHANGED <<sent, said, notes, seen, drafts, loop>>
  <2>1. UNCHANGED <<file, at, prog, copy, loop, sent, said, notes, seen, drafts>>
    BY <1>5 DEF CommandFinishes, work, history
  <2> QED BY <2>1, ViewLeft DEF Rest
<1> QED BY <1>0, <1>1, <1>2, <1>3, <1>4, <1>5

-----------------------------------------------------------------------------
(* How a program goes on *)

(* What is in a concatenation,                                              *)
LEMMA InJoin ==
    ASSUME NEW s \in Seq(Ops), NEW u \in Seq(Ops), NEW x
    PROVE  In(x, s \o u) <=> In(x, s) \/ In(x, u)
<1>0. /\ \A i \in DOMAIN s : i \in DOMAIN (s \o u) /\ (s \o u)[i] = s[i]
      /\ \A i \in DOMAIN u : i + Len(s) \in DOMAIN (s \o u) /\ (s \o u)[i + Len(s)] = u[i]
      /\ \A i \in DOMAIN (s \o u) :
            \/ i \in DOMAIN s /\ (s \o u)[i] = s[i]
            \/ i - Len(s) \in DOMAIN u /\ (s \o u)[i] = u[i - Len(s)]
  BY Joined
<1>1. In(x, s) => In(x, s \o u)
  BY <1>0 DEF In
<1>2. In(x, u) => In(x, s \o u)
  BY <1>0 DEF In
<1>3. In(x, s \o u) => In(x, s) \/ In(x, u)
  BY <1>0 DEF In
<1> QED BY <1>1, <1>2, <1>3

(* in a tail,                                                               *)
LEMMA InTail ==
    ASSUME NEW s \in Seq(Ops), s # <<>>, NEW x
    PROVE  /\ In(x, s) <=> x = Head(s) \/ In(x, Tail(s))
           /\ In(x, s) => x \in Ops
<1>1. /\ Head(s) = s[1] /\ 1 \in DOMAIN s
      /\ \A i \in DOMAIN Tail(s) : i + 1 \in DOMAIN s /\ Tail(s)[i] = s[i + 1]
      /\ \A i \in DOMAIN s : i > 1 => i - 1 \in DOMAIN Tail(s) /\ Tail(s)[i - 1] = s[i]
      /\ \A i \in DOMAIN s : i = 1 \/ i > 1
  BY Shorter, LenProperties
<1>2. In(x, s) => x \in Ops
  BY ElementOfSeq, LenProperties DEF In
<1> QED BY <1>1, <1>2 DEF In

(* and after the first two.                                                 *)
LEMMA SkipTwo ==
    ASSUME NEW s \in Seq(Ops), 2 \in DOMAIN s
    PROVE  /\ SubSeq(s, 3, Len(s)) = Tail(Tail(s)) /\ s # <<>> /\ Tail(s) # <<>>
           /\ Head(Tail(s)) = s[2] /\ Tail(s) \in Seq(Ops) /\ Tail(Tail(s)) \in Seq(Ops)
<1> DEFINE a == SubSeq(s, 3, Len(s))
           b == Tail(Tail(s))
<1>1. s # <<>> /\ Len(s) \in Nat /\ DOMAIN s = 1 .. Len(s) /\ Len(s) >= 2
  BY LenProperties
<1>2. /\ Tail(s) \in Seq(Ops) /\ Len(Tail(s)) = Len(s) - 1
      /\ \A i \in 1 .. Len(Tail(s)) : Tail(s)[i] = s[i + 1]
  BY <1>1, HeadTailProperties
<1>3. Tail(s) # <<>>
  <2>1. Len(Tail(s)) # 0
    BY <1>1, <1>2
  <2>2. Len(<<>>) = 0
    BY EmptySeq
  <2> QED BY <2>1, <2>2
<1>4. /\ b \in Seq(Ops) /\ Len(b) = Len(s) - 2
      /\ \A i \in 1 .. Len(b) : b[i] = Tail(s)[i + 1]
  BY <1>1, <1>2, <1>3, HeadTailProperties
<1>5. \A i \in 1 .. Len(b) : b[i] = s[i + 2]
  <2> TAKE i \in 1 .. Len(b)
  <2>1. i + 1 \in 1 .. Len(Tail(s)) /\ (i + 1) + 1 = i + 2
    BY <1>1, <1>2, <1>4
  <2> QED BY <1>2, <1>4, <2>1
<1>6. /\ a \in Seq(Ops) /\ Len(a) = Len(s) - 2
      /\ \A i \in 1 .. Len(a) : a[i] = s[i + 2]
  <2>1. \A i \in 3 .. Len(s) : s[i] \in Ops
    BY <1>1, ElementOfSeq
  <2>2. /\ a \in Seq(Ops)
        /\ Len(a) = IF 3 <= Len(s) THEN Len(s) - 3 + 1 ELSE 0
        /\ \A i \in 1 .. Len(s) - 3 + 1 : a[i] = s[3 + i - 1]
    BY <1>1, <2>1, SubSeqProperties
  <2> QED BY <1>1, <2>2
<1> HIDE DEF a, b
<1>7. a = b
  BY <1>4, <1>5, <1>6, SeqEqual
<1>8. Head(Tail(s)) = s[2]
  <2>1. Head(Tail(s)) = Tail(s)[1]
    OBVIOUS
  <2> QED BY <1>1, <1>2, <2>1
<1> QED BY <1>1, <1>2, <1>3, <1>4, <1>7, <1>8 DEF a, b

(* A registry with completions ingested,                                    *)
Marked(r, new) == [r EXCEPT !.seen = @ \cup new]

(* and with one surfaced.                                                   *)
Told(r, j) == [r EXCEPT !.told = @ \cup {j}]

(* Only words follow.                                                       *)
Words2(s) == \A i \in DOMAIN s : s[i][1] \in {"turn", "touch"} /\ ~IsNote(s[i])

(* An ingest puts the completions it found before what it was to do next.   *)
IngestsTo(p, s) ==
    /\ Head(prog[p])[1] = "ingest"
    /\ \E new \in SUBSET Jobs, f \in Seq(Ops) :
          /\ \A j \in new : j \in Contents.registry.tracked /\ Terminal(j)
          /\ f = << <<"registry", Marked(Contents.registry, new)>> >> \/
             f = << <<"registry", Marked(Contents.registry, new)>>, <<"touch">> >>
          /\ s = f \o Tail(prog[p])

(* A surfacing marks a completion and puts its note after the words of the  *)
(* user.                                                                    *)
SurfacesTo(p, s) ==
    /\ p # Daemon /\ Head(prog[p])[1] = "surface" /\ 2 \in DOMAIN prog[p]
           /\ prog[p][2] = UserTurn(p)
    /\ \E j \in Candidates \ Contents.registry.told :
          /\ j \in Jobs /\ j \in Contents.registry.seen
          /\ s = << <<"registry", Told(Contents.registry, j)>>, UserTurn(p),
                 <<"turn", <<"note", j>> >> >>
                 \o Tail(Tail(prog[p]))

(* A submission that is refused, or missed, leaves a word of it in the      *)
(* handoff.                                                                 *)
SubmitsTo(p, s) ==
    /\ p # Daemon /\ Head(prog[p])[1] = "submit" /\ Words2(Tail(prog[p]))
    /\ \E h \in Handoffs : h.job = None /\ s = << <<"handoff", h>> >> \o Tail(prog[p])

(* One makes job j of the preview in the file, or of the one seen;          *)
MakesJob(p, j, m) ==
    /\ p # Daemon /\ Head(prog[p])[1] = "submit" /\ Words2(Tail(prog[p]))
    /\ \E v \in Previews :
          /\ v.id <= drafts /\ Head(prog[p])[2] = seen[p]
          /\ v = IF Contents.preview # None THEN Contents.preview ELSE Head(prog[p])[2]
          /\ FreshJob(j)
          /\ sent' = [sent EXCEPT ![j] = [preview |-> v, by |-> p, missed |-> m]]

(* it is accepted, or missed.                                               *)
AcceptsTo(p, s) == \E j \in Jobs : MakesJob(p, j, FALSE) /\ s = Accepted(j) \o Tail(prog[p])
Misses(p) == \E j \in Jobs : MakesJob(p, j, TRUE)

(* The daemon drops a completion, marks it, or reports it and marks it.     *)
DeliversTo(p, s) ==
    /\ p = Daemon /\ Head(prog[p])[1] = "deliver"
    /\ LET r == Contents.registry  j == Head(prog[p])[2] IN
       \/ s = <<>>
       \/ s = << <<"registry", r>> >> /\ j \in r.seen
              /\ (j \in r.told \/ ~Eligible(j) \/ file = NoFile)
       \/ /\ j \in Jobs /\ j \in r.seen \ r.told /\ Eligible(j)
          /\ s = << <<"turn", <<"note", j>> >>, <<"registry", Told(r, j)>> >>

(* These are the rewritings there are.                                      *)
LEMMA RewriteForms ==
    ASSUME Base, NEW p \in Procs, Rewrites(p), ~Unlink(p), ~EmitFails(p)
    PROVE  /\ prog[p] # <<>> /\ prog[p] \in Seq(Ops)
           /\ \/ Head(prog[p])[1] \in {"ingest", "surface", "submitted"}
                     /\ prog'[p] = Tail(prog[p])
              \/ IngestsTo(p, prog'[p])
              \/ SurfacesTo(p, prog'[p])
              \/ SubmitsTo(p, prog'[p])
              \/ AcceptsTo(p, prog'[p])
              \/ DeliversTo(p, prog'[p])
           /\ UNCHANGED sent \/ AcceptsTo(p, prog'[p]) \/ (Misses(p) /\ SubmitsTo(p, prog'[p]))
<1>0. /\ prog \in [Procs -> Seq(Ops)] /\ prog[p] \in Seq(Ops) /\ ProgGood(p, prog[p])
      /\ Contents.registry \in Registries
      /\ p # Daemon => p \in Requests /\ Shaped(p, prog[p])
  BY ContentsKnown DEF Base, TypeOK, Programs, ProgGood, Payloads, Procs
<1>1. prog[p] # <<>>
  BY RewritesDo
<1>2. UNCHANGED sent \/ (p # Daemon /\ Submit(p))
  BY DEF Rewrites, Ingest, Surface, Submitted, Deliver, queue
<1>3. CASE Ingest(p)
  <2> DEFINE r == Contents.registry
             new == {j \in Head(prog[p])[2] \cap r.tracked : j \notin r.seen /\ Terminal(j)}
  <2>1. Head(prog[p])[1] = "ingest"
    BY <1>3 DEF Ingest, Doing
  <2>2. CASE new = {}
    <3>1. prog'[p] = Tail(prog[p])
      BY <1>0, <1>3, <2>2 DEF Ingest, Skip
    <3> QED BY <1>0, <1>1, <1>2, <1>3, <2>1, <3>1 DEF Submit, Doing
  <2>3. CASE new # {}
    <3> DEFINE a == <<"registry", Marked(r, new)>>
               b == <<"touch">>
    <3>1. prog'[p] = (<<a>> \o (IF p = Daemon THEN <<>> ELSE <<b>>)) \o Tail(prog[p])
      BY <1>0, <1>3, <2>3 DEF Ingest, Skip, Marked
    <3>2. new \in SUBSET Jobs /\ (\A j \in new : j \in r.tracked /\ Terminal(j))
      BY <1>0 DEF Registries
    <3>3. a \in Ops /\ b \in Ops
      <4>1. Marked(r, new) \in Registries
        BY <1>0, <3>2 DEF Marked, Registries
      <4> QED BY <4>1 DEF Ops
    <3> HIDE DEF new
    <3>4. \E f \in Seq(Ops) : (f = <<a>> \/ f = <<a, b>>) /\ prog'[p] = f \o Tail(prog[p])
      <4> HIDE DEF a, b
      <4>1. <<a>> \in Seq(Ops) /\ <<a, b>> \in Seq(Ops)
        BY <3>3
      <4>2. <<a>> \o <<b>> = <<a, b>> /\ <<a>> \o <<>> = <<a>>
        BY <4>1, Pair, ConcatEmptySeq
      <4> QED BY <3>1, <4>1, <4>2
    <3>5. IngestsTo(p, prog'[p])
      BY <2>1, <3>2, <3>4 DEF IngestsTo
    <3> QED BY <1>0, <1>1, <1>2, <1>3, <2>1, <3>5 DEF Submit, Doing
  <2> QED BY <2>2, <2>3
<1>4. CASE p # Daemon /\ Surface(p)
  <2>1. Head(prog[p])[1] = "surface" /\ Head(prog[p]) = prog[p][1] /\ 1 \in DOMAIN prog[p]
    BY <1>0, <1>1, <1>4, Shorter DEF Surface, Doing
  <2>2. 2 \in DOMAIN prog[p] /\ prog[p][2] = UserTurn(p)
    BY <1>0, <1>4, <2>1 DEF Shaped
  <2>3. SubSeq(prog[p], 3, Len(prog[p])) = Tail(Tail(prog[p]))
    BY <1>0, <2>2, SkipTwo
  <2>4. prog'[p] = Tail(prog[p]) \/ SurfacesTo(p, prog'[p])
    <3>1. CASE prog' = [prog EXCEPT ![p] = Tail(prog[p])]
      BY <1>0, <3>1
    <3>2. ASSUME NEW j \in Candidates \ Contents.registry.told,
                 prog' = [prog EXCEPT ![p] =
                    << <<"registry", [Contents.registry EXCEPT !.told = @ \cup {j}]>>,
                       prog[p][2], <<"turn", <<"note", j>> >> >>
                           \o SubSeq(prog[p], 3, Len(prog[p]))]
          PROVE  SurfacesTo(p, prog'[p])
      <4>1. prog'[p] = << <<"registry", Told(Contents.registry, j)>>, UserTurn(p),
                <<"turn", <<"note", j>> >> >>
                       \o Tail(Tail(prog[p]))
        BY <1>0, <2>2, <2>3, <3>2 DEF Told
      <4>2. j \in Jobs /\ j \in Contents.registry.seen
        BY <1>0 DEF Candidates, Registries
      <4> QED BY <1>4, <2>1, <2>2, <4>1, <4>2 DEF SurfacesTo
    <3> QED BY <1>4, <3>1, <3>2 DEF Surface, Skip
  <2> QED BY <1>0, <1>1, <1>2, <2>1, <2>4 DEF Submit, Doing
<1>5. CASE p # Daemon /\ Submit(p)
  <2> DEFINE u == prog[p]
  <2>1. Head(u)[1] = "submit" /\ p \in Requests
    BY <1>0, <1>5 DEF Submit, Doing
  <2>2. Words2(Tail(u))
    <3>1. Effects(p, << <<"handoff", Failed>> >>)
      BY HandoffEffects
    <3>2. PICK e : e = << <<"handoff", Failed>> >>
      OBVIOUS
    <3> QED BY <1>0, <1>1, <2>1, <3>1, <3>2, InsteadGood DEF Words2
  <2>3. CASE UNCHANGED queue
    <3>1. \E h \in {Refused("ambiguous_preview_state"), Refused("missing_preview")} :
             prog' = [prog EXCEPT ![p] = << <<"handoff", h>> >> \o Tail(u)]
      <4>1. ASSUME NEW j \in Jobs, FreshJob(j), state' = [state EXCEPT ![j] = "queued"]
            PROVE  FALSE
        <5>1. state[j] = "none" /\ state'[j] = "queued"
          BY <4>1 DEF FreshJob, Base, Submitters, TypeOK
        <5> QED BY <2>3, <5>1 DEF queue
      <4> QED BY <1>5, <4>1 DEF Submit, Skip
    <3>2. PICK h \in {Refused("ambiguous_preview_state"), Refused("missing_preview")} :
             prog' = [prog EXCEPT ![p] = << <<"handoff", h>> >> \o Tail(u)]
      BY <3>1
    <3>3. h \in Handoffs /\ h.job = None
      BY DEF Refused, Handoffs, Statuses
    <3>4. prog'[p] = << <<"handoff", h>> >> \o Tail(u)
      BY <1>0, <3>2
    <3>5. SubmitsTo(p, prog'[p])
      BY <1>5, <2>1, <2>2, <3>3, <3>4 DEF SubmitsTo
    <3> QED BY <1>0, <1>1, <2>3, <3>5 DEF queue
  <2>4. CASE ~UNCHANGED queue
    <3>1. PICK j \in Jobs, v \in Known \ {None}, m \in BOOLEAN :
                /\ v \in Previews
                /\ v = IF Contents.preview # None THEN Contents.preview ELSE Head(prog[p])[2]
                /\ Head(prog[p])[2] = seen[p]
                /\ FreshJob(j)
                /\ Skip(p, (IF m THEN << <<"handoff", Failed>> >> ELSE Accepted(j)) \o Tail(prog[p]))
                /\ sent' = [sent EXCEPT ![j] = [preview |-> v, by |-> p, missed |-> m]]
      BY <1>5, <2>1, <2>4, SubmitDoes
    <3>2. v.id <= drafts
      BY <3>1 DEF Known
    <3>3. MakesJob(p, j, m)
      BY <1>5, <2>1, <2>2, <3>1, <3>2 DEF MakesJob
    <3>4. CASE m = FALSE
      <4>1. prog'[p] = Accepted(j) \o Tail(prog[p])
        BY <1>0, <3>1, <3>4 DEF Skip
      <4>2. AcceptsTo(p, prog'[p])
        BY <3>3, <3>4, <4>1 DEF AcceptsTo
      <4> QED BY <1>0, <1>1, <4>2
    <3>5. CASE m = TRUE
      <4>1. prog'[p] = << <<"handoff", Failed>> >> \o Tail(prog[p])
        BY <1>0, <3>1, <3>5 DEF Skip
      <4>2. Failed \in Handoffs /\ Failed.job = None
        BY DEF Failed, Handoffs, Statuses
      <4>3. SubmitsTo(p, prog'[p]) /\ Misses(p)
        BY <1>5, <2>1, <2>2, <3>3, <3>5, <4>1, <4>2 DEF SubmitsTo, Misses
      <4> QED BY <1>0, <1>1, <4>3
    <3> QED BY <3>4, <3>5
  <2> QED BY <2>3, <2>4
<1>6. CASE p # Daemon /\ Submitted(p)
  <2>1. Head(prog[p])[1] = "submitted" /\ prog'[p] = Tail(prog[p])
    BY <1>0, <1>6 DEF Submitted, Doing, Skip
  <2> QED BY <1>0, <1>1, <1>2, <2>1 DEF Submit, Doing
<1>7. CASE p = Daemon /\ Deliver(p)
  <2> DEFINE r == Contents.registry
             j == Head(prog[p])[2]
  <2>1. Head(prog[p])[1] = "deliver"
    BY <1>7 DEF Deliver, Doing
  <2>2. j \in Jobs
    BY <1>0, <1>1, <2>1, Shorter, OpsAre
  <2>3. \/ prog'[p] = <<>>
        \/ prog'[p] = << <<"registry", r>> >> /\ j \in r.seen
               /\ (j \in r.told \/ ~Eligible(j) \/ file = NoFile)
        \/ /\ j \in r.seen \ r.told /\ Eligible(j)
           /\ prog'[p] = << <<"turn", <<"note", j>> >>, <<"registry", Told(r, j)>> >>
    BY <1>0, <1>7 DEF Deliver, Skip, Told
  <2> QED BY <1>0, <1>1, <1>2, <1>7, <2>1, <2>2, <2>3 DEF DeliversTo
<1> QED BY <1>3, <1>4, <1>5, <1>6, <1>7 DEF Rewrites

-----------------------------------------------------------------------------
(* What is left to do, as a collection                                      *)

(* An op is its parts.                                                      *)
LEMMA OpIs ==
    ASSUME NEW x \in Ops
    PROVE  /\ x[1] \in {"preview", "handoff", "registry", "ctx", "turn", "submit", "track"}
                  => x = <<x[1], x[2]>>
           /\ x[1] = "unlink" => x = <<"unlink">>
<1>1. CASE x \in {"preview"} \X (Previews \cup {None})
               \/ x \in {"submit"} \X (Previews \cup {None})
  BY <1>1
<1>2. CASE x \in {"handoff"} \X Handoffs \/ x \in {"registry"} \X Registries
  BY <1>2
<1>3. CASE x \in {"ctx"} \X BOOLEAN \/ x \in {"turn"} \X Turns
  BY <1>3
<1>4. CASE x \in {"track", "deliver", "submitted"} \X Jobs
  BY <1>4
<1>5. CASE x \in {"ingest"} \X (SUBSET Jobs)
  BY <1>5
<1>6. CASE x \in {<<"surface">>, <<"touch">>, <<"unlink">>, <<"wait">>}
  BY <1>6
<1> QED BY <1>1, <1>2, <1>3, <1>4, <1>5, <1>6 DEF Ops

(* What is in a short sequence.                                             *)
LEMMA InNone == ASSUME NEW x PROVE ~In(x, <<>>)
BY DEF In

(* The same of one element,                                                 *)
LEMMA InOne == ASSUME NEW a, NEW x PROVE In(x, <<a>>) <=> x = a
BY DEF In

(* of two                                                                   *)
LEMMA InTwo == ASSUME NEW a, NEW b, NEW x PROVE In(x, <<a, b>>) <=> x = a \/ x = b
<1> DEFINE s == <<a, b>>
<1>1. DOMAIN s = {1, 2} /\ s[1] = a /\ s[2] = b
  OBVIOUS
<1> HIDE DEF s
<1> QED BY <1>1 DEF In, s

(* and of three.                                                            *)
LEMMA InThree ==
    ASSUME NEW a, NEW b, NEW c, NEW x
    PROVE  In(x, <<a, b, c>>) <=> x = a \/ x = b \/ x = c
<1> DEFINE s == <<a, b, c>>
<1>1. DOMAIN s = {1, 2, 3} /\ s[1] = a /\ s[2] = b /\ s[3] = c
  OBVIOUS
<1> HIDE DEF s
<1> QED BY <1>1 DEF In, s

(* The head is in a sequence.                                               *)
LEMMA HeadIn == ASSUME NEW s \in Seq(Ops), s # <<>> PROVE In(Head(s), s)
BY Shorter DEF In

(* What is left to do is of the program, and good.                          *)
LEMMA RestIn ==
    ASSUME Base, NEW p \in Procs, NEW x, In(x, Rest(p))
    PROVE  /\ x \in Ops /\ In(x, prog[p]) /\ OpGood(p, x)
           /\ p # Daemon /\ loop # p => Aside(x)
           /\ p = Daemon => x[1] \in {"ingest", "deliver", "registry", "turn"}
<1>1. Rest(p) \in Seq(Ops)
  BY RestParts
<1>2. PICK i \in DOMAIN Rest(p) : Rest(p)[i] = x
  BY DEF In
<1>3. x \in Ops
  BY <1>1, <1>2, ElementOfSeq, LenProperties
<1> QED BY <1>2, <1>3, RestParts DEF In

(* The head of a program comes before what follows.                         *)
LEMMA HeadBefore ==
    ASSUME NEW t, NEW s \in Seq(Ops), Shaped(t, s), s # <<>>, NEW x, In(x, Tail(s))
    PROVE  Before(Head(s), x)
<1>1. PICK i \in DOMAIN Tail(s) : Tail(s)[i] = x
  BY DEF In
<1>2. 1 \in DOMAIN s /\ i + 1 \in DOMAIN s /\ Tail(s)[i] = s[i + 1] /\ i >= 1 /\ i \in Nat
          /\ Head(s) = s[1]
  BY Shorter
<1>3. 1 < i + 1
  BY <1>2
<1> QED BY <1>1, <1>2, <1>3 DEF Shaped

(* A torn file shows nothing.                                               *)
LEMMA ContentsIs ==
    ASSUME FileOk
    PROVE  Contents \in {View, Default} /\ (NoFill => Contents = View)
<1>1. CASE NoFill
  BY <1>1, ViewIs
<1>2. CASE ~NoFill
  <2>1. file = Torn
    BY <1>2 DEF NoFill, FileOk
  <2> QED BY <1>2, <2>1 DEF Contents
<1> QED BY <1>1, <1>2

(* What an op makes of each part of a session.                              *)
LEMMA AppliedParts ==
    ASSUME NEW c \in Payloads, NEW x, x[1] \in Fields \cup {"touch", "turn", "track"}
    PROVE  /\ Applied(c, x).turns = IF x[1] = "turn" THEN c.turns \cup {x[2]} ELSE c.turns
           /\ Applied(c, x).preview = IF x[1] = "preview" THEN x[2] ELSE c.preview
           /\ Applied(c, x).handoff = IF x[1] = "handoff" THEN x[2] ELSE c.handoff
           /\ Applied(c, x).ctx = IF x[1] = "ctx" THEN x[2] ELSE c.ctx
           /\ x[1] = "registry" => Applied(c, x).registry = x[2]
           /\ x[1] = "track" => Applied(c, x).registry
                  = [c.registry EXCEPT !.tracked = @ \cup {x[2]}]
           /\ x[1] \notin {"registry", "track"} => Applied(c, x).registry = c.registry
<1>1. CASE x[1] = "turn"
  BY <1>1 DEF Applied, Fields, Payloads
<1>2. CASE x[1] = "track"
  BY <1>2 DEF Applied, Fields, Payloads
<1>3. CASE x[1] = "touch"
  BY <1>3 DEF Applied, Fields, Payloads
<1>4. CASE x[1] = "preview"
  BY <1>4 DEF Applied, Fields, Payloads
<1>5. CASE x[1] = "handoff"
  BY <1>5 DEF Applied, Fields, Payloads
<1>6. CASE x[1] = "registry"
  BY <1>6 DEF Applied, Fields, Payloads
<1>7. CASE x[1] = "ctx"
  BY <1>7 DEF Applied, Fields, Payloads
<1> QED BY <1>1, <1>2, <1>3, <1>4, <1>5, <1>6, <1>7 DEF Fields

(* Who is not at work has nothing but asides to do.                         *)
LEMMA IdleRest ==
    ASSUME Base, NEW q \in Procs, ~Working(q), NEW x, In(x, prog[q])
    PROVE  q # Daemon /\ Aside(x)
<1>1. q = Daemon => prog[q] = <<>>
  BY DEF Working, Base, AtOk
<1>2. q # Daemon
  BY <1>1 DEF In
<1>3. q \in Requests /\ loop # q
  BY <1>2 DEF Procs, Working
<1> QED BY <1>2, <1>3 DEF Base, Programs, In

(* The head of a concatenation.                                             *)
LEMMA HeadJoin ==
    ASSUME NEW s \in Seq(Ops), NEW u \in Seq(Ops), s # <<>>
    PROVE  s \o u # <<>> /\ Head(s \o u) = Head(s)
<1>1. 1 \in DOMAIN s /\ Head(s) = s[1]
  BY Shorter
<1>2. DOMAIN (s \o u) = 1 .. Len(s) + Len(u) /\ (s \o u)[1] = s[1] /\ 1 \in DOMAIN (s \o u)
          /\ s \o u \in Seq(Ops)
  BY <1>1, Joined
<1>3. s \o u # <<>>
  BY <1>2
<1> QED BY <1>1, <1>2, <1>3, Shorter

(* What is in the program after each rewriting: an ingest,                  *)
LEMMA IngestIn ==
    ASSUME Base, NEW p \in Procs, prog[p] # <<>>, NEW s, IngestsTo(p, s)
    PROVE  \E new \in SUBSET Jobs :
              /\ \A j \in new : j \in Contents.registry.tracked /\ Terminal(j)
              /\ s # <<>> /\ Head(s) = <<"registry", Marked(Contents.registry, new)>>
              /\ Head(s) \in Ops /\ Marked(Contents.registry, new) \in Registries
              /\ \A x : In(x, s) => x = Head(s) \/ x = <<"touch">> \/ In(x, Tail(prog[p]))
              /\ \A x : In(x, Tail(prog[p])) => In(x, s)
<1>1. prog[p] \in Seq(Ops) /\ Tail(prog[p]) \in Seq(Ops) /\ Contents.registry \in Registries
  BY Shorter, ContentsKnown DEF Base, TypeOK, Payloads
<1>2. PICK new \in SUBSET Jobs, f \in Seq(Ops) :
          /\ \A j \in new : j \in Contents.registry.tracked /\ Terminal(j)
          /\ f = << <<"registry", Marked(Contents.registry, new)>> >> \/
             f = << <<"registry", Marked(Contents.registry, new)>>, <<"touch">> >>
          /\ s = f \o Tail(prog[p])
  BY DEF IngestsTo
<1> DEFINE a == <<"registry", Marked(Contents.registry, new)>>
           b == <<"touch">>
<1>3. f = <<a>> \/ f = <<a, b>>
  BY <1>2
<1>4. Marked(Contents.registry, new) \in Registries
  BY <1>1 DEF Marked, Registries
<1>5. a \in Ops
  BY <1>4 DEF Ops
<1> HIDE DEF a, b
<1>6. f # <<>> /\ Head(f) = a /\ \A x : In(x, f) => x = a \/ x = b
  BY <1>3, InOne, InTwo
<1>7. s # <<>> /\ Head(s) = a
  BY <1>1, <1>2, <1>6, HeadJoin
<1>8. \A x : In(x, s) <=> In(x, f) \/ In(x, Tail(prog[p]))
  BY <1>1, <1>2, InJoin
<1> QED BY <1>2, <1>4, <1>5, <1>6, <1>7, <1>8 DEF a, b

(* a surfacing,                                                             *)
LEMMA SurfaceIn ==
    ASSUME Base, FileOk, NEW p \in Procs, prog[p] # <<>>, NEW s, SurfacesTo(p, s)
    PROVE  \E j \in Jobs :
              /\ j \in View.registry.seen \ View.registry.told /\ Contents = View
              /\ s # <<>> /\ Head(s) = <<"registry", Told(View.registry, j)>>
              /\ \A x : In(x, s) <=> \/ x = Head(s) \/ x = UserTurn(p) \/ x = Note(j)
                                     \/ In(x, Tail(Tail(prog[p])))
              /\ \A x : In(x, prog[p]) <=> \/ x = Head(prog[p]) \/ x = UserTurn(p)
                                           \/ In(x, Tail(Tail(prog[p])))
              /\ Head(prog[p])[1] = "surface"
<1>0. prog[p] \in Seq(Ops) /\ 2 \in DOMAIN prog[p] /\ prog[p][2] = UserTurn(p)
          /\ Contents \in Payloads /\ p \in Requests
  BY ContentsKnown DEF Base, TypeOK, SurfacesTo, Procs
<1>1. /\ Tail(prog[p]) \in Seq(Ops) /\ Tail(Tail(prog[p])) \in Seq(Ops)
      /\ Tail(prog[p]) # <<>> /\ Head(Tail(prog[p])) = UserTurn(p)
  BY <1>0, SkipTwo
<1>2. PICK j \in Candidates \ Contents.registry.told :
          /\ j \in Jobs /\ j \in Contents.registry.seen
          /\ s = << <<"registry", Told(Contents.registry, j)>>, UserTurn(p),
                 <<"turn", <<"note", j>> >> >>
                 \o Tail(Tail(prog[p]))
  BY DEF SurfacesTo
<1>3. Contents = View
  <2>1. j \notin Default.registry.seen
    BY DEF Default
  <2> QED BY <1>2, <2>1, ContentsIs
<1> DEFINE a == <<"registry", Told(View.registry, j)>>
           b == UserTurn(p)
           c == Note(j)
           f == <<a, b, c>>
<1>4. s = f \o Tail(Tail(prog[p]))
  BY <1>2, <1>3 DEF Note
<1>5. f \in Seq(Ops)
  <2>1. Told(View.registry, j) \in Registries
    BY <1>0, <1>2, <1>3 DEF Told, Registries, Payloads
  <2>2. a \in Ops /\ b \in Ops /\ c \in Ops
    BY <1>0, <1>2, <2>1 DEF Ops, UserTurn, Note, Turns
  <2> HIDE DEF a, b, c
  <2> QED BY <2>2, Three
<1>6. f # <<>> /\ Head(f) = a
  OBVIOUS
<1>7. \A x : In(x, f) <=> x = a \/ x = b \/ x = c
  <2> HIDE DEF a, b, c
  <2> QED BY InThree
<1> HIDE DEF f, a
<1>8. s # <<>> /\ Head(s) = a
  BY <1>1, <1>4, <1>5, <1>6, HeadJoin
<1>9. \A x : In(x, s) <=> In(x, f) \/ In(x, Tail(Tail(prog[p])))
  BY <1>1, <1>4, <1>5, InJoin
<1>10. \A x : In(x, prog[p]) <=> x = Head(prog[p]) \/ x = UserTurn(p)
           \/ In(x, Tail(Tail(prog[p])))
  BY <1>0, <1>1, InTail
<1>11. j \in View.registry.seen \ View.registry.told /\ Head(prog[p])[1] = "surface"
  BY <1>2, <1>3 DEF SurfacesTo
<1> QED BY <1>2, <1>3, <1>7, <1>8, <1>9, <1>10, <1>11 DEF a

(* a submission that is refused                                             *)
LEMMA SubmitsIn ==
    ASSUME Base, NEW p \in Procs, prog[p] # <<>>, NEW s, SubmitsTo(p, s)
    PROVE  /\ p \in Requests /\ Head(prog[p])[1] = "submit" /\ Words2(Tail(prog[p]))
           /\ \E h \in Handoffs : h.job = None /\ \A x : In(x, s)
                  => x = <<"handoff", h>> \/ In(x, Tail(prog[p]))
<1>1. prog[p] \in Seq(Ops) /\ Tail(prog[p]) \in Seq(Ops) /\ p \in Requests
  BY Shorter DEF Base, TypeOK, SubmitsTo, Procs
<1>2. PICK h \in Handoffs : h.job = None /\ s = << <<"handoff", h>> >> \o Tail(prog[p])
  BY DEF SubmitsTo
<1>3. << <<"handoff", h>> >> \in Seq(Ops)
  BY DEF Ops
<1>4. \A x : In(x, s) => x = <<"handoff", h>> \/ In(x, Tail(prog[p]))
  <2> TAKE x
  <2> QED BY <1>1, <1>2, <1>3, InJoin, InOne
<1> QED BY <1>1, <1>2, <1>4 DEF SubmitsTo

(* and one that is accepted.                                                *)
LEMMA AcceptsIn ==
    ASSUME NEW j \in Jobs, NEW u \in Seq(Ops), Words2(u)
    PROVE  LET s == Accepted(j) \o u IN
           /\ s \in Seq(Ops) /\ s # <<>> /\ Handing(s, j)
           /\ \A x : In(x, s) =>
                 \/ x = <<"handoff", [status |-> "submitted", job |-> j]>> \/ x = <<"track", j>>
                 \/ x = <<"preview", None>> \/ x = <<"submitted", j>> \/ x = <<"touch">>
                        \/ x = <<"ctx", FALSE>>
                 \/ In(x, u)
           /\ In(<<"track", j>>, s) /\ In(<<"preview", None>>, s)
           /\ \A c : Lasts(s, "ctx", c, FALSE) /\ Lasts(s, "preview", c, None)
<1> DEFINE h == <<"handoff", [status |-> "submitted", job |-> j]>>
           k == <<"track", j>>
           A == Accepted(j)
           s == A \o u
<1>1. /\ A \in Seq(Ops) /\ DOMAIN A = 1 .. 6
      /\ A[1] = h /\ A[2] = k /\ A[3] = <<"preview", None>> /\ A[4] = <<"submitted", j>>
      /\ A[5] = <<"touch">> /\ A[6] = <<"ctx", FALSE>>
  BY AcceptedAre
<1>2. h[1] = "handoff" /\ k[1] = "track"
  OBVIOUS
<1> HIDE DEF A, h, k
<1>3. Len(A) = 6
  BY <1>1, LenProperties
<1>39. A \in Seq(Ops)
  BY <1>1
<1>40. /\ s \in Seq(Ops)
       /\ DOMAIN A = 1 .. Len(A) /\ DOMAIN u = 1 .. Len(u) /\ Len(A) \in Nat /\ Len(u) \in Nat
       /\ DOMAIN s = 1 .. Len(A) + Len(u)
       /\ \A i \in DOMAIN A : s[i] = A[i]
       /\ \A i \in DOMAIN u : i + Len(A) \in DOMAIN s /\ s[i + Len(A)] = u[i]
       /\ \A i \in DOMAIN s :
             \/ i \in DOMAIN A /\ s[i] = A[i]
             \/ i > Len(A) /\ i - Len(A) \in DOMAIN u /\ s[i] = u[i - Len(A)]
  BY <1>39, Joined
<1> HIDE DEF s
<1>41. \A i \in DOMAIN s : i \in 1 .. 6 \/ (i > 6 /\ i - 6 \in DOMAIN u /\ s[i] = u[i - 6])
  <2> TAKE i \in DOMAIN s
  <2>1. \/ i \in DOMAIN A /\ s[i] = A[i]
        \/ i > Len(A) /\ i - Len(A) \in DOMAIN u /\ s[i] = u[i - Len(A)]
    BY <1>40
  <2>2. DOMAIN A = 1 .. 6
    BY <1>1, <1>3, LenProperties
  <2> QED BY <1>3, <2>1, <2>2
<1>42. \A i \in 1 .. 6 : i \in DOMAIN s /\ s[i] = A[i]
  <2>1. DOMAIN A = 1 .. 6
    BY <1>1, <1>3, LenProperties
  <2>2. 1 .. 6 \subseteq DOMAIN s
    BY <1>3, <1>40
  <2> QED BY <1>40, <2>1, <2>2
<1>4. /\ s \in Seq(Ops) /\ DOMAIN s = 1 .. 6 + Len(u) /\ Len(u) \in Nat
      /\ \A i \in 1 .. 6 : i \in DOMAIN s /\ s[i] = A[i]
      /\ \A i \in DOMAIN s : i \in 1 .. 6 \/ (i > 6 /\ i - 6 \in DOMAIN u /\ s[i] = u[i - 6])
  BY <1>3, <1>40, <1>41, <1>42
<1>5. \A i \in DOMAIN s : i > 6 => s[i][1] \in {"turn", "touch"}
  BY <1>4 DEF Words2
<1>70. s[1] = A[1] /\ s[2] = A[2] /\ s[3] = A[3] /\ s[4] = A[4] /\ s[5] = A[5] /\ s[6] = A[6]
       /\ {1, 2, 3, 4, 5, 6} \subseteq DOMAIN s
  BY <1>4
<1>7. s[1] = h /\ s[2] = k /\ s[3] = <<"preview", None>> /\ s[6] = <<"ctx", FALSE>>
      /\ {1, 2, 3, 4, 5, 6} \subseteq DOMAIN s /\ s[4] = <<"submitted", j>> /\ s[5] = <<"touch">>
  BY <1>1, <1>70
<1>6. \A x : In(x, s) => \/ x = h \/ x = k
                         \/ x = <<"preview", None>> \/ x = <<"submitted", j>> \/ x = <<"touch">>
                         \/ x = <<"ctx", FALSE>> \/ In(x, u)
  <2> TAKE x
  <2> HAVE In(x, s)
  <2>1. PICK i \in DOMAIN s : s[i] = x
    BY DEF In
  <2>2. CASE i \in 1 .. 6
    <3>1. i \in {1, 2, 3, 4, 5, 6}
      BY <2>2
    <3> QED BY <1>7, <2>1, <3>1
  <2>3. CASE i > 6
    <3>0. i \notin 1 .. 6 /\ i \in DOMAIN s /\ s[i] = x
      BY <2>1, <2>3
    <3>01. i \in 1 .. 6 \/ (i > 6 /\ i - 6 \in DOMAIN u /\ s[i] = u[i - 6])
      BY <1>41, <3>0
    <3>1. i - 6 \in DOMAIN u /\ u[i - 6] = x
      BY <3>0, <3>01
    <3>2. In(x, u)
      BY <3>1 DEF In
    <3> QED BY <3>2
  <2> QED BY <1>4, <2>2, <2>3
<1>8. In(k, s) /\ In(<<"preview", None>>, s)
  BY <1>7 DEF In
<1>9. s # <<>> /\ Head(s) = h /\ Tail(s) \in Seq(Ops) /\ Tail(s) # <<>> /\ Head(Tail(s)) = k
      /\ Tail(Tail(s)) \in Seq(Ops) /\ Tail(Tail(s)) = SubSeq(s, 3, Len(s))
  <2>1. 2 \in DOMAIN s
    BY <1>7
  <2> QED BY <1>4, <1>7, <2>1, SkipTwo, Shorter
<1>10. Untied(Tail(Tail(s)))
  <2>1. \A i \in DOMAIN SubSeq(s, 3, Len(s)) : i \in Nat /\ i >= 1 /\ i + 3 - 1 \in DOMAIN s
            /\ SubSeq(s, 3, Len(s))[i] = s[i + 3 - 1]
    BY <1>4, Dropped
  <2>2. \A i \in DOMAIN s : i > 2 => s[i][1] \notin {"track", "handoff"}
    <3> TAKE i \in DOMAIN s
    <3> HAVE i > 2
    <3>1. CASE i > 6
      BY <1>5, <3>1
    <3>2. CASE i \in 1 .. 6
      <4>1. i \in {3, 4, 5, 6}
        BY <3>2
      <4> QED BY <1>7, <4>1
    <3> QED BY <1>4, <3>1, <3>2
  <2>3. \A i \in DOMAIN Tail(Tail(s)) : Tail(Tail(s))[i][1] \notin {"track", "handoff"}
    <3> TAKE i \in DOMAIN Tail(Tail(s))
    <3>1. i + 3 - 1 \in DOMAIN s /\ i + 3 - 1 > 2 /\ Tail(Tail(s))[i] = s[i + 3 - 1]
      BY <1>9, <2>1
    <3> QED BY <2>2, <3>1
  <2> QED BY <2>3 DEF Untied
<1>11. Handing(s, j)
  BY <1>9, <1>10 DEF Handing, Tracking, h, k
<1>12. \A c : Lasts(s, "ctx", c, FALSE)
  <2>1. \A i \in DOMAIN s : i > 6 => s[i][1] # "ctx"
    BY <1>5
  <2>2. 6 \in DOMAIN s /\ s[6][1] = "ctx" /\ s[6][2] = FALSE
    BY <1>7
  <2> QED BY <2>1, <2>2 DEF Lasts
<1>13. \A c : Lasts(s, "preview", c, None)
  <2>1. \A i \in DOMAIN s : i > 3 => s[i][1] # "preview"
    <3> TAKE i \in DOMAIN s
    <3> HAVE i > 3
    <3>1. CASE i > 6
      BY <1>5, <3>1
    <3>2. CASE i \in 1 .. 6
      <4>1. i \in {4, 5, 6}
        BY <3>2
      <4> QED BY <1>7, <4>1
    <3> QED BY <1>4, <3>1, <3>2
  <2>2. 3 \in DOMAIN s /\ s[3][1] = "preview" /\ s[3][2] = None
    BY <1>7
  <2> QED BY <2>1, <2>2 DEF Lasts
<1> QED BY <1>4, <1>6, <1>8, <1>9, <1>11, <1>12, <1>13 DEF s, A, h, k

-----------------------------------------------------------------------------
(* A preview is submitted once                                              *)

(* The steps that leave session, programs and submissions alone, or send    *)
(* the daemon off.                                                          *)
Others ==
    \/ \E t \in Requests : Wait(t)
    \/ \E p \in Procs : Prepares(p) \/ Ends(p)
    \/ \E j \in Jobs : DaemonFinishes(j) \/ CommandFinishes(j)

(* The steps there are while nothing disturbs the session.                  *)
LEMMA Moves ==
    ASSUME Base, Next, Undisturbed'
    PROVE  \/ \E p \in Procs : Cut(p) \/ Fill(p)
           \/ \E p \in Procs : Rewrites(p) /\ ~Unlink(p) /\ ~EmitFails(p)
           \/ \E t \in Requests : Unlink(t) \/ Starts(t) \/ Returns(t)
           \/ Others
<1>1. /\ \A p \in Procs : ~WriteFails(p)
      /\ \A t \in Requests : ~EmitFails(t)
      /\ ~WebDies /\ ~DaemonDies
  BY Calmly
<1>2. ~EmitFails(Daemon)
  <2>1. faults \in Nat /\ faults' = 0
    BY SessionAssumption DEF Base, TypeOK, Undisturbed
  <2> QED BY <2>1 DEF EmitFails, Fault
<1>3. \A p \in Procs : ~EmitFails(p)
  BY <1>1, <1>2 DEF Procs
<1>4. \A p \in Procs : Rewrites(p) => (Rewrites(p) /\ ~Unlink(p) /\ ~EmitFails(p))
          \/ (p \in Requests /\ Unlink(p))
  <2> SUFFICES ASSUME NEW p \in Procs, Rewrites(p), Unlink(p) PROVE p \in Requests
    BY <1>3
  <2>1. p # Daemon
    <3> SUFFICES ASSUME p = Daemon PROVE FALSE
      OBVIOUS
    <3>1. Ingest(p) \/ Deliver(p)
      BY DEF Rewrites
    <3> QED BY <3>1 DEF Ingest, Deliver, Unlink, Doing
  <2> QED BY <2>1 DEF Procs
<1> QED BY <1>1, <1>4, Steps DEF Others

(* A program in the making takes up no preview and no submission.           *)
LEMMA RewriteNew ==
    ASSUME Base, FileOk, NEW p \in Procs, Rewrites(p), ~Unlink(p), ~EmitFails(p),
           NEW x, In(x, prog'[p])
    PROVE  \/ In(x, prog[p])
           \/ x[1] \in {"registry", "touch", "handoff", "track", "submitted", "ctx"}
           \/ x = <<"preview", None>> \/ IsNote(x)
<1>1. prog[p] # <<>> /\ prog[p] \in Seq(Ops) /\ Tail(prog[p]) \in Seq(Ops)
  BY RewriteForms, Shorter
<1>2. \A y : In(y, Tail(prog[p])) => In(y, prog[p])
  BY <1>1, InTail
<1>3. CASE prog'[p] = Tail(prog[p])
  BY <1>2, <1>3
<1>4. CASE IngestsTo(p, prog'[p])
  <2>1. \E new \in SUBSET Jobs : x = <<"registry", Marked(Contents.registry, new)>>
            \/ x = <<"touch">> \/ In(x, Tail(prog[p]))
    <3>1. PICK s : s = prog'[p]
      OBVIOUS
    <3>2. IngestsTo(p, s) /\ In(x, s)
      BY <1>4, <3>1
    <3> QED BY <1>1, <3>2, IngestIn
  <2> QED BY <1>2, <2>1
<1>5. CASE SurfacesTo(p, prog'[p])
  <2>1. PICK s : s = prog'[p]
    OBVIOUS
  <2>2. SurfacesTo(p, s) /\ In(x, s)
    BY <1>5, <2>1
  <2>3. PICK j \in Jobs :
              /\ s # <<>> /\ Head(s) = <<"registry", Told(View.registry, j)>>
              /\ \A y : In(y, s) <=> \/ y = Head(s) \/ y = UserTurn(p) \/ y = Note(j)
                                     \/ In(y, Tail(Tail(prog[p])))
              /\ \A y : In(y, prog[p]) <=> \/ y = Head(prog[p]) \/ y = UserTurn(p)
                                           \/ In(y, Tail(Tail(prog[p])))
    BY <1>1, <2>2, SurfaceIn
  <2> QED BY <2>2, <2>3 DEF Note, IsNote
<1>6. CASE SubmitsTo(p, prog'[p])
  <2>1. PICK s : s = prog'[p]
    OBVIOUS
  <2>2. SubmitsTo(p, s) /\ In(x, s)
    BY <1>6, <2>1
  <2>3. \E h \in Handoffs : x = <<"handoff", h>> \/ In(x, Tail(prog[p]))
    BY <1>1, <2>2, SubmitsIn
  <2> QED BY <1>2, <2>3
<1>7. CASE AcceptsTo(p, prog'[p])
  <2>1. PICK j \in Jobs : prog'[p] = Accepted(j) \o Tail(prog[p]) /\ Words2(Tail(prog[p]))
    BY <1>7 DEF AcceptsTo, MakesJob
  <2>2. \/ x = <<"handoff", [status |-> "submitted", job |-> j]>> \/ x = <<"track", j>>
        \/ x = <<"preview", None>> \/ x = <<"submitted", j>> \/ x = <<"touch">>
               \/ x = <<"ctx", FALSE>>
        \/ In(x, Tail(prog[p]))
    BY <1>1, <2>1, AcceptsIn
  <2>3. x = <<"handoff", [status |-> "submitted", job |-> j]>> => x[1] = "handoff"
    OBVIOUS
  <2>4. x = <<"track", j>> => x[1] = "track"
    OBVIOUS
  <2>6. x = <<"submitted", j>> => x[1] = "submitted"
    OBVIOUS
  <2>7. x = <<"touch">> => x[1] = "touch"
    OBVIOUS
  <2>5. x = <<"ctx", FALSE>> => x[1] = "ctx"
    OBVIOUS
  <2> QED BY <1>2, <2>2, <2>3, <2>4, <2>5, <2>6, <2>7
<1>8. CASE DeliversTo(p, prog'[p])
  <2> DEFINE r == Contents.registry
             j == Head(prog[p])[2]
  <2>1. prog'[p] \in {<<>>, << <<"registry", r>> >>, << Note(j), <<"registry", Told(r, j)>> >>}
    BY <1>8 DEF DeliversTo, Note
  <2>2. x = <<"registry", r>> \/ x = Note(j) \/ x = <<"registry", Told(r, j)>>
    BY <2>1, InNone, InOne, InTwo
  <2> QED BY <2>2 DEF Note, IsNote
<1> QED BY <1>3, <1>4, <1>5, <1>6, <1>7, <1>8, RewriteForms

(* A request that gets the event loop.                                      *)
LEMMA BeginsTo ==
    ASSUME Base, FileOk, FileOk', NEW p \in Requests, Starts(p) \/ Returns(p)
    PROVE  /\ View' = View /\ OthersLeft(p) /\ loop = None /\ loop' = p /\ ~Working(p)
           /\ at[p] \in {"idle", "wait"} /\ Rest(p) = prog[p]
           /\ UNCHANGED <<queue, said, notes>>
           /\ \E b \in Seq(Ops) :
                 /\ Rest(p)' = b /\ prog' = [prog EXCEPT ![p] = b]
                 /\ Begun(p, b) \/ \A i \in DOMAIN b : Aside(b[i])
                 /\ \A x : In(x, b) => x \in Ops /\ (x \in NewOps \/ (Aside(x) /\ In(x, prog[p])))
<1>0. /\ prog \in [Procs -> Seq(Ops)] /\ p \in Procs /\ p # Daemon
      /\ \A t \in Requests : loop # t => \A i \in DOMAIN prog[t] : Aside(prog[t][i])
  BY SessionAssumption DEF Procs, Base, TypeOK, Programs
<1>1. /\ View' = View /\ OthersLeft(p) /\ loop = None /\ loop' = p /\ at[p] \in {"idle", "wait"}
      /\ UNCHANGED <<queue, said, notes>>
  BY StartsMove, ReturnsMove
<1>2. ~Working(p) /\ Rest(p) = prog[p]
  BY <1>0, <1>1, SessionAssumption DEF Working, Rest
<1>3. CASE Starts(p)
  <2>1. PICK b : Begun(p, b) /\ Rest(p)' = b /\ prog' = [prog EXCEPT ![p] = b]
    BY <1>3, StartsMove
  <2>2. b \in Seq(Ops) /\ \A i \in DOMAIN b : b[i] \in NewOps
    BY <2>1, NewAreOps DEF Begun
  <2>3. \A x : In(x, b) => x \in Ops /\ x \in NewOps
    BY <2>2 DEF In, NewOps
  <2> QED BY <1>1, <1>2, <2>1, <2>2, <2>3
<1>4. CASE Returns(p)
  <2>1. PICK b : /\ Rest(p)' = b /\ prog' = [prog EXCEPT ![p] = b]
                 /\ Plain(b) \/ (b = Tail(prog[p]) /\ b # <<>>)
    BY <1>4, ReturnsMove
  <2>2. CASE Plain(b)
    <3>1. Begun(p, b)
      BY <2>2, PlainBegun
    <3>2. b \in Seq(Ops) /\ \A i \in DOMAIN b : b[i] \in NewOps
      BY <3>1, NewAreOps DEF Begun
    <3>3. \A x : In(x, b) => x \in Ops /\ x \in NewOps
      BY <3>2 DEF In, NewOps
    <3> QED BY <1>1, <1>2, <2>1, <3>1, <3>2, <3>3
  <2>3. CASE b = Tail(prog[p]) /\ b # <<>>
    <3>1. prog[p] # <<>>
      <4>1. Tail(<<>>) = <<>>
        OBVIOUS
      <4> QED BY <2>3, <4>1
    <3>2. b \in Seq(Ops) /\ \A x : In(x, b) => In(x, prog[p]) /\ x \in Ops
      BY <1>0, <2>3, <3>1, Shorter, InTail
    <3>3. \A x : In(x, prog[p]) => Aside(x)
      BY <1>0, <1>2, IdleRest
    <3>4. \A i \in DOMAIN b : Aside(b[i])
      BY <3>2, <3>3 DEF In
    <3> QED BY <1>1, <1>2, <2>1, <3>2, <3>3, <3>4
  <2> QED BY <2>1, <2>2, <2>3
<1> QED BY <1>3, <1>4

(* A preview that is gone does not come back.                               *)
LEMMA IsPreview ==
    ASSUME NEW v \in Previews
    PROVE  v # None /\ v.id \in Nat
<1>1. v # None
  BY AbsentAssumption
<1>2. MaxDrafts \in Nat
  BY SessionAssumption
<1>3. v.id \in 1 .. MaxDrafts
  BY DEF Previews, Automations, JobPreviews
<1> QED BY <1>1, <1>2, <1>3

(* An op that brings back no preview that is gone.                          *)
Harmless(x) ==
    /\ x[1] = "preview" => x[2] = None \/ x[2].id > drafts
    /\ x[1] = "submit" => x[2] \in {None, View.preview}

(* If nothing else is added a preview that is gone stays so,                *)
LEMMA GoneKeeps ==
    ASSUME Base, NEW v \in Previews, v.id <= drafts, Gone(v), View'.preview # v,
           \A t \in Requests : \A x : In(x, Rest(t))' =>
              In(x, Rest(t)) \/ Harmless(x)
    PROVE  Gone(v)'
<1>0. v # None /\ v.id \in Nat /\ drafts \in Nat
  BY SessionAssumption, IsPreview DEF Base, TypeOK
<1>1. ASSUME NEW t \in Requests, In(<<"preview", v>>, Rest(t))' PROVE FALSE
  <2>1. ~In(<<"preview", v>>, Rest(t))
    BY DEF Gone
  <2>2. v = None \/ v.id > drafts
    BY <1>1, <2>1 DEF Harmless
  <2> QED BY <1>0, <2>2
<1>2. ASSUME NEW t \in Requests, In(<<"submit", v>>, Rest(t))' PROVE FALSE
  <2>1. ~In(<<"submit", v>>, Rest(t)) /\ View.preview # v
    BY DEF Gone
  <2>2. v \in {None, View.preview}
    BY <1>2, <2>1 DEF Harmless
  <2> QED BY <1>0, <2>1, <2>2
<1> QED BY <1>1, <1>2 DEF Gone

(* and every step adds nothing else.                                        *)
LEMMA GoneStays ==
    ASSUME Base, FileOk, FileOk', Next, Undisturbed', NEW v \in Previews, v.id <= drafts, Gone(v)
    PROVE  Gone(v)'
<1>0. /\ v # None /\ Requests \subseteq Procs /\ Daemon \in Procs /\ Daemon \notin Requests
      /\ prog \in [Procs -> Seq(Ops)] /\ View \in Payloads
      /\ drafts \in Nat /\ v.id \in Nat /\ View.preview # v
  BY SessionAssumption, ViewFine, IsPreview DEF Procs, Base, TypeOK, Gone
<1>1. ASSUME NEW p \in Procs, Cut(p) PROVE Gone(v)'
  <2>1. /\ prog[p] # <<>> /\ Rest(p) = prog[p] /\ Rest(p)' = Tail(prog[p]) /\ OthersLeft(p)
        /\ View' = Applied(View, Head(prog[p])) /\ Head(prog[p]) \in Ops
        /\ Head(prog[p])[1] \in Fields \cup {"touch", "turn", "track"}
    BY <1>1, CutDoes
  <2>2. View'.preview = IF Head(prog[p])[1] = "preview" THEN Head(prog[p])[2] ELSE View.preview
    BY <1>0, <2>1, AppliedParts
  <2>3. p = Daemon => Head(prog[p])[1] # "preview"
    BY <2>1, HeadIn, <1>0, RestIn
  <2>4. Head(prog[p])[1] = "preview" => Head(prog[p])[2] # v
    <3> SUFFICES ASSUME Head(prog[p])[1] = "preview", Head(prog[p])[2] = v PROVE FALSE
      OBVIOUS
    <3>1. p \in Requests
      BY <2>3 DEF Procs
    <3>2. Head(prog[p]) = <<"preview", v>>
      BY <2>1, OpIs
    <3>3. In(<<"preview", v>>, Rest(p))
      BY <1>0, <2>1, <3>2, HeadIn
    <3> QED BY <3>1, <3>3 DEF Gone
  <2>5. ASSUME NEW t \in Requests, NEW x, In(x, Rest(t))' PROVE In(x, Rest(t))
    <3>1. CASE t = p
      BY <1>0, <2>1, <2>5, <3>1, InTail
    <3>2. CASE t # p
      BY <1>0, <2>1, <2>5, <3>2 DEF OthersLeft
    <3> QED BY <3>1, <3>2
  <2> QED BY <1>0, <2>2, <2>4, <2>5, GoneKeeps
<1>2. ASSUME NEW p \in Procs, Fill(p) PROVE Gone(v)'
  <2>1. View' = View /\ \A q \in Procs : Rest(q)' = Rest(q)
    BY <1>2, FillDoes
  <2> QED BY <1>0, <2>1 DEF Gone
<1>3. ASSUME NEW p \in Requests, Unlink(p) PROVE Gone(v)'
  <2>1. /\ View' = Default /\ prog[p] # <<>> /\ Rest(p) = prog[p] /\ Rest(p)' = Tail(prog[p])
        /\ OthersLeft(p)
    BY <1>0, <1>3, UnlinkDoes
  <2>2. View'.preview = None
    BY <2>1 DEF Default
  <2>5. ASSUME NEW t \in Requests, NEW x, In(x, Rest(t))' PROVE In(x, Rest(t))
    <3>1. CASE t = p
      BY <1>0, <2>1, <2>5, <3>1, InTail
    <3>2. CASE t # p
      BY <1>0, <2>1, <2>5, <3>2 DEF OthersLeft
    <3> QED BY <3>1, <3>2
  <2> QED BY <1>0, <2>2, <2>5, GoneKeeps
<1>4. ASSUME NEW p \in Requests, Starts(p) \/ Returns(p) PROVE Gone(v)'
  <2>1. /\ View' = View /\ OthersLeft(p) /\ Contents \in {View, Default}
        /\ \A x : In(x, Rest(p))' => x \in NewOps \/ Aside(x)
    BY <1>4, BeginsTo, ContentsIs
  <2>2. Contents.preview \in {None, View.preview}
    BY <2>1 DEF Default
  <2>3. \A x : In(x, Rest(p))' => Harmless(x)
    BY <2>1, <2>2 DEF NewOps, Aside, Harmless
  <2>5. \A t \in Requests : \A x : In(x, Rest(t))' => In(x, Rest(t)) \/ Harmless(x)
    <3> TAKE t \in Requests
    <3> TAKE x
    <3>1. CASE t = p
      BY <2>3, <3>1
    <3>2. CASE t # p
      BY <1>0, <2>1, <3>2 DEF OthersLeft
    <3> QED BY <3>1, <3>2
  <2> QED BY <1>0, <2>1, <2>5, GoneKeeps
<1>5. ASSUME NEW p \in Procs, Rewrites(p), ~Unlink(p), ~EmitFails(p) PROVE Gone(v)'
  <2>1. View' = View /\ OthersLeft(p) /\ Rest(p) = prog[p] /\ Rest(p)' = prog'[p]
    BY <1>5, RewritesMove
  <2>2. \A x : In(x, Rest(p))' => In(x, Rest(p)) \/ Harmless(x)
    <3> TAKE x
    <3> HAVE In(x, Rest(p))'
    <3>1. In(x, prog'[p])
      BY <2>1
    <3>2. \/ In(x, prog[p])
          \/ x[1] \in {"registry", "touch", "handoff", "track", "submitted", "ctx"}
          \/ x = <<"preview", None>> \/ IsNote(x)
      BY <1>5, <3>1, RewriteNew
    <3> QED BY <2>1, <3>2 DEF IsNote, Harmless
  <2>3. \A t \in Requests : \A x : In(x, Rest(t))' => In(x, Rest(t)) \/ Harmless(x)
    BY <1>0, <2>1, <2>2 DEF OthersLeft
  <2> QED BY <1>0, <2>1, <2>3, GoneKeeps
<1>6. CASE Others
  <2>1. View' = View /\ \A q \in Procs \ {Daemon} : Rest(q)' = Rest(q)
    BY <1>6, OthersMove DEF Others
  <2> QED BY <1>0, <2>1 DEF Gone
<1> QED BY <1>1, <1>2, <1>3, <1>4, <1>5, <1>6, Moves

(* A request that has submitted a preview clears it.                        *)
Clearable(x) ==
    /\ x[1] \notin {"submit", "wait", "ingest", "surface", "unlink"}
    /\ x[1] = "preview" => x[2] = None

(* What this says of what is left to do,                                    *)
LEMMA ClearingHas ==
    ASSUME NEW u, Clearing(u)
    PROVE  loop = u /\ In(<<"preview", None>>, Rest(u)) /\ \A x : In(x, Rest(u)) => Clearable(x)
BY DEF Clearing, In, Clearable

(* and what says this of it.                                                *)
LEMMA ClearingNext ==
    ASSUME NEW u, loop' = u, In(<<"preview", None>>, Rest(u))',
           \A x : In(x, Rest(u))' => Clearable(x)
    PROVE  Clearing(u)'
<1>1. \A i \in DOMAIN (Rest(u)') : Clearable((Rest(u)')[i])
  BY DEF In
<1> QED BY <1>1 DEF Clearing, Clearable

(* Whoever clears a preview goes on to, or the preview is gone.             *)
LEMMA ClearingStays ==
    ASSUME Base, FileOk, FileOk', Next, Undisturbed', NEW u \in Requests, NEW v \in Previews,
           Clearing(u)
    PROVE  Clearing(u)' \/ Gone(v)'
<1>0. /\ v # None /\ u \in Procs /\ Daemon \in Procs /\ u # Daemon /\ None \notin Requests
      /\ Requests \subseteq Procs
      /\ prog \in [Procs -> Seq(Ops)] /\ View \in Payloads
  BY SessionAssumption, ViewFine, IsPreview DEF Procs, Base, TypeOK
<1>00. loop = u /\ In(<<"preview", None>>, Rest(u)) /\ \A x : In(x, Rest(u)) => Clearable(x)
  BY ClearingHas
<1>1. ASSUME NEW p \in Procs, Cut(p) PROVE Clearing(u)' \/ Gone(v)'
  <2>1. /\ prog[p] # <<>> /\ Rest(p) = prog[p] /\ Rest(p)' = Tail(prog[p]) /\ OthersLeft(p)
        /\ View' = Applied(View, Head(prog[p])) /\ Head(prog[p]) \in Ops /\ Idle(p)
        /\ Head(prog[p])[1] \in Fields \cup {"touch", "turn", "track"} /\ loop' = loop
    BY <1>1, CutDoes
  <2>2. p = u
    <3> SUFFICES ASSUME p # u PROVE FALSE
      OBVIOUS
    <3>1. ~Working(u)
      BY <1>0, <2>1 DEF Idle
    <3> QED BY <1>0, <1>00, <3>1 DEF Working
  <2>20. \A x : In(x, prog[u]) <=> x = Head(prog[u]) \/ In(x, Tail(prog[u]))
    BY <1>0, <2>1, <2>2, InTail
  <2>21. \A x : In(x, Rest(u))' <=> In(x, Tail(prog[u]))
    BY <2>1, <2>2
  <2>22. Rest(u) = prog[u]
    BY <2>1, <2>2
  <2>3. \A x : In(x, Rest(u))' => Clearable(x)
    BY <1>00, <2>20, <2>21, <2>22
  <2>4. CASE In(<<"preview", None>>, Rest(u))'
    BY <1>00, <2>1, <2>3, <2>4, ClearingNext
  <2>5. CASE ~In(<<"preview", None>>, Rest(u))'
    <3>1. Head(prog[p]) = <<"preview", None>>
      BY <1>00, <2>2, <2>5, <2>20, <2>21, <2>22
    <3>2. View'.preview = None
      <4>1. Head(prog[p])[1] = "preview" /\ Head(prog[p])[2] = None
        BY <3>1
      <4> QED BY <1>0, <2>1, <4>1, AppliedParts
    <3>3. ASSUME NEW t \in Requests, NEW x \in {<<"preview", v>>, <<"submit", v>>},
                 In(x, Rest(t))'
          PROVE  FALSE
      <4>1. (x[1] = "preview" \/ x[1] = "submit") /\ x[2] = v
        BY <3>3
      <4>2. CASE t = u
        <5>1. Clearable(x)
          BY <2>3, <3>3, <4>2
        <5> QED BY <1>0, <4>1, <5>1 DEF Clearable
      <4>3. CASE t # u
        <5>1. In(x, Rest(t))
          BY <1>0, <2>1, <2>2, <3>3, <4>3 DEF OthersLeft
        <5>2. Aside(x)
          BY <1>0, <1>00, <4>3, <5>1, RestIn, SessionAssumption
        <5> QED BY <4>1, <5>2 DEF Aside
      <4> QED BY <4>2, <4>3
    <3>4. Gone(v)'
      BY <1>0, <3>2, <3>3 DEF Gone
    <3> QED BY <3>4
  <2> QED BY <2>4, <2>5
<1>2. ASSUME NEW p \in Procs, Fill(p) PROVE Clearing(u)'
  <2>1. loop' = loop /\ \A q \in Procs : Rest(q)' = Rest(q)
    BY <1>2, FillDoes
  <2> QED BY <1>0, <1>00, <2>1, ClearingNext
<1>3. ASSUME NEW p \in Requests, Unlink(p) PROVE FALSE
  <2>1. /\ prog[p] # <<>> /\ Rest(p) = prog[p] /\ Working(p) /\ Head(prog[p])[1] = "unlink"
    BY <1>0, <1>3, UnlinkDoes
  <2>2. p = u
    BY <1>0, <1>00, <2>1, SessionAssumption DEF Working
  <2>3. Clearable(Head(prog[p]))
    BY <1>0, <1>00, <2>1, <2>2, HeadIn
  <2> QED BY <2>1, <2>3 DEF Clearable
<1>4. ASSUME NEW p \in Requests, Starts(p) \/ Returns(p) PROVE FALSE
  <2>1. loop = None
    BY <1>4, BeginsTo
  <2> QED BY <1>0, <1>00, <2>1
<1>5. ASSUME NEW p \in Procs, Rewrites(p), ~Unlink(p), ~EmitFails(p) PROVE Clearing(u)'
  <2>1. /\ OthersLeft(p) /\ Rest(p) = prog[p] /\ Rest(p)' = prog'[p] /\ loop' = loop /\ Working(p)
        /\ prog[p] # <<>>
    BY <1>5, RewritesMove
  <2>2. CASE p = u
    <3>1. Clearable(Head(prog[p]))
      BY <1>0, <1>00, <2>1, <2>2, HeadIn
    <3>2. prog'[p] = Tail(prog[p]) /\ Head(prog[p])[1] = "submitted"
      <4>1. Head(prog[p])[1] \notin {"ingest", "surface", "submit"} /\ p # Daemon
        BY <1>0, <2>2, <3>1 DEF Clearable
      <4> QED BY <1>5, <4>1, RewriteForms DEF IngestsTo, SurfacesTo, SubmitsTo, AcceptsTo, MakesJob,
                 DeliversTo
    <3>20. \A x : In(x, prog[u]) <=> x = Head(prog[u]) \/ In(x, Tail(prog[u]))
      BY <1>0, <2>1, <2>2, InTail
    <3>21. \A x : In(x, Rest(u))' <=> In(x, Tail(prog[u]))
      BY <2>1, <2>2, <3>2
    <3>22. Rest(u) = prog[u]
      BY <2>1, <2>2
    <3>3. \A x : In(x, Rest(u))' => Clearable(x)
      BY <1>00, <3>20, <3>21, <3>22
    <3>4. In(<<"preview", None>>, Rest(u))'
      <4>1. Head(prog[p]) # <<"preview", None>>
        BY <3>2
      <4> QED BY <1>00, <2>2, <3>20, <3>21, <3>22, <4>1
    <3> QED BY <1>00, <2>1, <3>3, <3>4, ClearingNext
  <2>3. CASE p # u
    <3>1. Rest(u)' = Rest(u)
      BY <1>0, <2>1, <2>3 DEF OthersLeft
    <3> QED BY <1>00, <2>1, <3>1, ClearingNext
  <2> QED BY <2>2, <2>3
<1>6. CASE Others
  <2>1. /\ \A q \in Procs \ {Daemon} : Rest(q)' = Rest(q)
        /\ \/ loop' = loop
           \/ loop \in Requests /\ loop' = None
                  /\ (Rest(loop) = <<>> \/ (Wait(loop) /\ at[loop] = "get"))
    BY <1>6, OthersMove DEF Others
  <2>2. loop' = loop
    <3>1. Rest(u) # <<>>
      BY <1>00, InNone
    <3>2. ~(Wait(u) /\ at[u] = "get")
      <4> SUFFICES ASSUME Wait(u), at[u] = "get" PROVE FALSE
        OBVIOUS
      <4>1. Rest(u) = prog[u] /\ prog[u] # <<>> /\ Head(prog[u])[1] = "wait"
        BY DEF Rest, Wait, Doing
      <4>2. Clearable(Head(prog[u]))
        BY <1>0, <1>00, <4>1, HeadIn
      <4> QED BY <4>1, <4>2 DEF Clearable
    <3> QED BY <1>00, <2>1, <3>1, <3>2
  <2>3. Rest(u)' = Rest(u)
    BY <1>0, <2>1
  <2> QED BY <1>00, <2>2, <2>3, ClearingNext
<1> QED BY <1>1, <1>2, <1>3, <1>4, <1>5, <1>6, Moves

(* What changes in the queue.                                               *)
LEMMA SentSteps ==
    ASSUME Base, Next, Undisturbed'
    PROVE  UNCHANGED sent \/ \E p \in Procs : Rewrites(p) /\ ~Unlink(p) /\ ~EmitFails(p)
               /\ (AcceptsTo(p, prog'[p]) \/ Misses(p))
<1>1. \A p \in Procs : Cut(p) \/ Fill(p) => UNCHANGED sent
  BY DEF Cut, Fill, queue
<1>2. \A t \in Requests : Unlink(t) => UNCHANGED sent
  BY DEF Unlink, queue
<1>3. \A t \in Requests : Starts(t) => UNCHANGED sent
  BY StartsDo DEF Begins, queue, Base
<1>4. \A t \in Requests : Returns(t) \/ Wait(t) => UNCHANGED sent
  BY DEF Returns, Continues, Interrupted, Answered, Resumes, Wait, queue
<1>5. \A p \in Procs : Prepares(p) \/ Ends(p) => UNCHANGED sent
  BY PreparesAt DEF Ends, queue
<1>6. \A j \in Jobs : DaemonFinishes(j) \/ CommandFinishes(j) => UNCHANGED sent
  BY DEF DaemonFinishes, CommandFinishes
<1>7. \A p \in Procs : Rewrites(p) /\ ~Unlink(p) /\ ~EmitFails(p)
          => UNCHANGED sent \/ AcceptsTo(p, prog'[p]) \/ Misses(p)
  BY RewriteForms
<1> QED BY <1>1, <1>2, <1>3, <1>4, <1>5, <1>6, <1>7, Moves DEF Others

(* Jobs are used in their order, and one whose submission was accepted is   *)
(* the last of its preview.                                                 *)
Distinct ==
    \A j, k \in Jobs :
        /\ sent[k] # None /\ j < k => sent[j] # None
        /\ Again(j, k) => sent[j].missed

(* A submission is of a known preview, by a request.                        *)
LEMMA SentIs ==
    ASSUME Base, NEW j \in Jobs, sent[j] # None
    PROVE  sent[j].preview \in Previews /\ sent[j].preview.id <= drafts /\ sent[j].by \in Requests
<1>1. sent[j] \in Submissions /\ sent[j].preview \in Known
  BY DEF Base, TypeOK, Names
<1>2. sent[j].preview \in Previews /\ sent[j].by \in Requests
  BY <1>1 DEF Submissions
<1>3. sent[j].preview # None
  BY <1>2, IsPreview
<1> QED BY <1>1, <1>2, <1>3 DEF Known

(* What a request submits is not what another submission was accepted for.  *)
LEMMA MakesFresh ==
    ASSUME Base, FileOk, FileOk', OnceOk, NEW p \in Procs, Rewrites(p), ~Unlink(p),
           NEW j \in Jobs, NEW m, MakesJob(p, j, m)
    PROVE  \E v \in Previews :
              /\ sent[j] = None /\ (\A k \in Jobs : sent[k] = None => j <= k)
              /\ sent' = [sent EXCEPT ![j] = [preview |-> v, by |-> p, missed |-> m]]
              /\ p \in Requests
              /\ \A k \in Jobs : sent[k] # None /\ ~sent[k].missed => sent[k].preview # v
<1>0. p \in Requests /\ p # Daemon /\ prog \in [Procs -> Seq(Ops)]
  BY DEF MakesJob, Procs, Base, TypeOK
<1>1. /\ OthersLeft(p) /\ Rest(p) = prog[p] /\ Rest(p)' = prog'[p] /\ loop' = loop /\ Working(p)
      /\ prog[p] # <<>>
  BY RewritesMove
<1>2. PICK v \in Previews :
        /\ v = IF Contents.preview # None THEN Contents.preview ELSE Head(prog[p])[2]
        /\ FreshJob(j)
        /\ sent' = [sent EXCEPT ![j] = [preview |-> v, by |-> p, missed |-> m]]
  BY DEF MakesJob
<1>3. Head(prog[p])[1] = "submit" /\ Words2(Tail(prog[p])) /\ loop = p
  BY <1>0, <1>1 DEF MakesJob, Working
<1>4. Head(prog[p]) \in Ops /\ In(Head(prog[p]), Rest(p)) /\ Tail(prog[p]) \in Seq(Ops)
  BY <1>0, <1>1, HeadIn, Shorter
<1>5. ASSUME NEW k \in Jobs, sent[k] # None, ~sent[k].missed PROVE sent[k].preview # v
  <2> DEFINE w == sent[k].preview
  <2>0. w # None
    BY <1>5, SentIs, IsPreview
  <2>1. ~Clearing(sent[k].by)
    <3> SUFFICES ASSUME Clearing(sent[k].by) PROVE FALSE
      OBVIOUS
    <3>1. PICK u : u = sent[k].by
      OBVIOUS
    <3>2. loop = u /\ \A x : In(x, Rest(u)) => Clearable(x)
      BY <3>1, ClearingHas
    <3>3. Clearable(Head(prog[p]))
      BY <1>3, <1>4, <3>2
    <3> QED BY <1>3, <3>3 DEF Clearable
  <2>2. Gone(w)
    BY <1>5, <2>1 DEF OnceOk
  <2>3. CASE Contents.preview # None
    <3>1. Default.preview = None
      BY DEF Default
    <3>2. Contents = View
      BY <2>3, <3>1, ContentsIs
    <3>3. View.preview # w
      BY <2>2 DEF Gone
    <3> QED BY <1>2, <2>3, <3>2, <3>3
  <2>4. CASE Contents.preview = None
    <3>1. v = Head(prog[p])[2]
      BY <1>2, <2>4
    <3>2. Head(prog[p]) = <<"submit", v>>
      BY <1>3, <1>4, <3>1, OpIs
    <3>3. In(<<"submit", v>>, Rest(p))
      BY <1>4, <3>2
    <3>4. ~In(<<"submit", w>>, Rest(p))
      BY <1>0, <2>2 DEF Gone
    <3> QED BY <3>3, <3>4
  <2> QED BY <2>3, <2>4
<1> QED BY <1>0, <1>2, <1>5 DEF FreshJob

(* One that is accepted goes on to clear the preview.                       *)
LEMMA AcceptsClears ==
    ASSUME Base, FileOk, FileOk', NEW p \in Procs, Rewrites(p), ~Unlink(p),
           NEW j \in Jobs, MakesJob(p, j, FALSE), prog'[p] = Accepted(j) \o Tail(prog[p])
    PROVE  Clearing(p)'
<1>0. p \in Requests /\ p # Daemon /\ prog \in [Procs -> Seq(Ops)]
  BY DEF MakesJob, Procs, Base, TypeOK
<1>1. /\ OthersLeft(p) /\ Rest(p) = prog[p] /\ Rest(p)' = prog'[p] /\ loop' = loop /\ Working(p)
      /\ prog[p] # <<>>
  BY RewritesMove
<1>3. Head(prog[p])[1] = "submit" /\ Words2(Tail(prog[p])) /\ loop = p
  BY <1>0, <1>1 DEF MakesJob, Working
<1>4. Head(prog[p]) \in Ops /\ In(Head(prog[p]), Rest(p)) /\ Tail(prog[p]) \in Seq(Ops)
  BY <1>0, <1>1, HeadIn, Shorter
<1>6. Clearing(p)'
  <2>1. PICK s : s = Accepted(j) \o Tail(prog[p])
    OBVIOUS
  <2>2. Rest(p)' = s
    BY <1>1, <2>1
  <2>3. In(<<"preview", None>>, s)
    BY <1>3, <1>4, <2>1, AcceptsIn
  <2>4. ASSUME NEW x, In(x, s) PROVE Clearable(x)
    <3>1. \/ x = <<"handoff", [status |-> "submitted", job |-> j]>> \/ x = <<"track", j>>
          \/ x = <<"preview", None>> \/ x = <<"submitted", j>> \/ x = <<"touch">>
                 \/ x = <<"ctx", FALSE>>
          \/ In(x, Tail(prog[p]))
      BY <1>3, <1>4, <2>1, <2>4, AcceptsIn
    <3>2. CASE x = <<"handoff", [status |-> "submitted", job |-> j]>>
      BY <3>2 DEF Clearable
    <3>3. CASE x = <<"track", j>> \/ x = <<"submitted", j>>
      BY <3>3 DEF Clearable
    <3>4. CASE x = <<"preview", None>>
      BY <3>4 DEF Clearable
    <3>5. CASE x = <<"touch">>
      BY <3>5 DEF Clearable
    <3>7. CASE x = <<"ctx", FALSE>>
      BY <3>7 DEF Clearable
    <3>6. CASE In(x, Tail(prog[p]))
      <4>1. x[1] \in {"turn", "touch"}
        BY <1>3, <3>6 DEF Words2, In
      <4> QED BY <4>1 DEF Clearable
    <3> QED BY <3>1, <3>2, <3>3, <3>4, <3>5, <3>6, <3>7
  <2>5. In(<<"preview", None>>, Rest(p))' /\ \A x : In(x, Rest(p))' => Clearable(x)
    BY <2>2, <2>3, <2>4
  <2> QED BY <1>1, <1>3, <2>5, ClearingNext
<1> QED BY <1>1, <1>6

(* So no preview is submitted after it was accepted: then it is neither in  *)
(* the file nor in what anybody has left to do, but for the request that is *)
(* about to clear it.                                                       *)
LEMMA OnceStays ==
    ASSUME Base, FileOk, FileOk', OnceOk, Distinct, Next, Undisturbed'
    PROVE  OnceOk' /\ Distinct'
<1>0. sent \in [Jobs -> Submissions \cup {None}] /\ Jobs \subseteq Nat
  BY SessionAssumption DEF Base, TypeOK
<1>1. ASSUME NEW j \in Jobs, sent[j] # None, ~sent[j].missed
      PROVE  Gone(sent[j].preview)' \/ Clearing(sent[j].by)' \/ sent'[j] # sent[j]
  <2>1. PICK v \in Previews, u \in Requests : v = sent[j].preview /\ u = sent[j].by
                 /\ v.id <= drafts
    BY <1>1, SentIs
  <2>2. Gone(v) \/ Clearing(u)
    BY <1>1, <2>1 DEF OnceOk
  <2>3. Gone(v)' \/ Clearing(u)'
    BY <2>1, <2>2, GoneStays, ClearingStays
  <2>4. CASE sent'[j] = sent[j]
    <3>1. v = sent'[j].preview /\ u = sent'[j].by
      BY <2>1, <2>4
    <3> QED BY <2>3, <3>1
  <2> QED BY <2>4
<1>2. CASE UNCHANGED sent
  BY <1>1, <1>2 DEF OnceOk, Distinct, Again
<1>3. ASSUME NEW p \in Procs, Rewrites(p), ~Unlink(p), NEW j \in Jobs, NEW m \in BOOLEAN,
             MakesJob(p, j, m), m = FALSE => Clearing(p)'
      PROVE  OnceOk' /\ Distinct'
  <2>2. PICK v \in Previews :
              /\ sent[j] = None /\ (\A k \in Jobs : sent[k] = None => j <= k)
              /\ sent' = [sent EXCEPT ![j] = [preview |-> v, by |-> p, missed |-> m]]
              /\ p \in Requests
              /\ \A k \in Jobs : sent[k] # None /\ ~sent[k].missed => sent[k].preview # v
    BY <1>3, MakesFresh
  <2>3. /\ sent'[j].preview = v /\ sent'[j].by = p /\ sent'[j].missed = m
        /\ \A k \in Jobs \ {j} : sent'[k] = sent[k]
    BY <1>0, <2>2
  <2>4. OnceOk'
    BY <1>1, <1>3, <2>2, <2>3 DEF OnceOk
  <2>6. ASSUME NEW i \in Jobs, NEW k \in Jobs, sent'[k] # None, i < k PROVE sent'[i] # None
    <3>1. sent'[j] # None
      BY <2>2, <2>3, <1>0, AbsentAssumption DEF Submissions
    <3>2. CASE k = j
      BY <1>0, <2>2, <2>3, <2>6, <3>1, <3>2
    <3>3. CASE k # j
      BY <2>3, <2>6, <3>1, <3>3 DEF Distinct
    <3> QED BY <3>2, <3>3
  <2>7. ASSUME NEW i \in Jobs, NEW k \in Jobs, Again(i, k)' PROVE sent'[i].missed
    <3>1. i < k /\ sent'[i] # None /\ sent'[k] # None /\ sent'[i].preview = sent'[k].preview
      BY <2>7 DEF Again
    <3>2. CASE k = j
      BY <1>0, <2>2, <2>3, <3>1, <3>2, <1>3
    <3>3. CASE i = j
      <4>1. sent[k] # None /\ sent[j] = None
        BY <1>0, <2>2, <2>3, <3>1, <3>3
      <4> QED BY <3>1, <3>3, <4>1 DEF Distinct
    <3>4. CASE i # j /\ k # j
      BY <2>3, <3>1, <3>4 DEF Distinct, Again
    <3> QED BY <3>2, <3>3, <3>4
  <2>5. Distinct'
    BY <2>6, <2>7 DEF Distinct
  <2> QED BY <2>4, <2>5
<1>4. CASE \E p \in Procs : Rewrites(p) /\ ~Unlink(p) /\ ~EmitFails(p)
               /\ (AcceptsTo(p, prog'[p]) \/ Misses(p))
  <2>1. PICK p \in Procs : Rewrites(p) /\ ~Unlink(p) /\ (AcceptsTo(p, prog'[p]) \/ Misses(p))
    BY <1>4
  <2>2. CASE AcceptsTo(p, prog'[p])
    <3>1. PICK j \in Jobs : MakesJob(p, j, FALSE) /\ prog'[p] = Accepted(j) \o Tail(prog[p])
      BY <2>2 DEF AcceptsTo
    <3> QED BY <1>3, <2>1, <3>1, AcceptsClears
  <2>3. CASE Misses(p)
    <3>1. PICK j \in Jobs : MakesJob(p, j, TRUE)
      BY <2>3 DEF Misses
    <3> QED BY <1>3, <2>1, <3>1
  <2> QED BY <2>1, <2>2, <2>3
<1> QED BY <1>2, <1>4, SentSteps

-----------------------------------------------------------------------------
(* The turns, and the context                                               *)

(* What is said stays in the session: a request that wrote what it had      *)
(* read before a wait would lose what was said meanwhile.                   *)
LEMMA TurnsStay ==
    ASSUME Base, FileOk, FileOk', TurnsOk, Next, Undisturbed'
    PROVE  TurnsOk'
<1>0. View \in Payloads /\ DOMAIN prog = Procs /\ Requests \subseteq Procs
  BY ViewFine DEF Base, TypeOK, Procs
<1>1. ASSUME NEW p \in Procs, Cut(p) PROVE TurnsOk'
  <2>1. /\ View' = Applied(View, Head(prog[p])) /\ said' = said
        /\ Head(prog[p])[1] \in Fields \cup {"touch", "turn", "track"}
    BY <1>1, CutDoes
  <2>2. View.turns \subseteq View'.turns
    BY <1>0, <2>1, AppliedParts
  <2> QED BY <2>1, <2>2 DEF TurnsOk
<1>2. ASSUME NEW p \in Procs, Fill(p) PROVE TurnsOk'
  <2>1. View' = View /\ (Head(prog[p])[1] = "turn" => Head(prog[p])[2] \in View.turns)
    BY <1>2, FillDoes
  <2>2. said' = said \/ (Head(prog[p])[1] = "turn" /\ said' = said \cup {Head(prog[p])[2]})
    BY <1>2 DEF Fill
  <2> QED BY <2>1, <2>2 DEF TurnsOk
<1>3. ASSUME NEW p \in Requests, Unlink(p) PROVE TurnsOk'
  BY <1>0, <1>3, UnlinkDoes DEF TurnsOk
<1>4. ASSUME NEW p \in Requests, Starts(p) \/ Returns(p) PROVE TurnsOk'
  BY <1>4, BeginsTo DEF TurnsOk
<1>5. ASSUME NEW p \in Procs, Rewrites(p), ~Unlink(p) PROVE TurnsOk'
  BY <1>5, RewritesMove DEF TurnsOk
<1>6. CASE Others
  BY <1>6, OthersMove DEF TurnsOk, Others
<1> QED BY <1>1, <1>2, <1>3, <1>4, <1>5, <1>6, Moves

(* The last write of a field, or what the field is if there is none.        *)
LEMMA LastsTail ==
    ASSUME NEW s \in Seq(Ops), s # <<>>, NEW f, NEW w, NEW v, Lasts(s, f, w, v)
    PROVE  Lasts(Tail(s), f, IF Head(s)[1] = f THEN Head(s)[2] ELSE w, v)
<1>1. /\ Head(s) = s[1] /\ 1 \in DOMAIN s
      /\ \A i \in DOMAIN Tail(s) : i + 1 \in DOMAIN s /\ Tail(s)[i] = s[i + 1] /\ i \in Nat
             /\ i >= 1
      /\ \A i \in DOMAIN s : i > 1 => i - 1 \in DOMAIN Tail(s) /\ Tail(s)[i - 1] = s[i]
      /\ \A i \in DOMAIN s : i \in Nat /\ (i = 1 \/ i > 1)
  BY Shorter
<1>2. CASE v = w /\ \A i \in DOMAIN s : s[i][1] # f
  BY <1>1, <1>2 DEF Lasts
<1>3. CASE \E i \in DOMAIN s : s[i][1] = f /\ s[i][2] = v /\ \A k \in DOMAIN s : k > i
               => s[k][1] # f
  <2>1. PICK i \in DOMAIN s : s[i][1] = f /\ s[i][2] = v /\ \A k \in DOMAIN s : k > i
                 => s[k][1] # f
    BY <1>3
  <2>2. CASE i = 1
    <3>1. \A k \in DOMAIN Tail(s) : Tail(s)[k][1] # f
      <4> TAKE k \in DOMAIN Tail(s)
      <4>1. k + 1 \in DOMAIN s /\ Tail(s)[k] = s[k + 1] /\ k + 1 > i
        BY <1>1, <2>2
      <4> QED BY <2>1, <4>1
    <3> QED BY <1>1, <2>1, <2>2, <3>1 DEF Lasts
  <2>3. CASE i > 1
    <3>1. i - 1 \in DOMAIN Tail(s) /\ Tail(s)[i - 1] = s[i]
      BY <1>1, <2>3
    <3>2. \A k \in DOMAIN Tail(s) : k > i - 1 => Tail(s)[k][1] # f
      <4> TAKE k \in DOMAIN Tail(s)
      <4> HAVE k > i - 1
      <4>1. k + 1 \in DOMAIN s /\ Tail(s)[k] = s[k + 1] /\ k + 1 > i
        BY <1>1
      <4> QED BY <2>1, <4>1
    <3> QED BY <2>1, <3>1, <3>2 DEF Lasts
  <2> QED BY <1>1, <2>2, <2>3
<1> QED BY <1>2, <1>3 DEF Lasts

(* What does not write a field may come before.                             *)
LEMMA LastsJoin ==
    ASSUME NEW s \in Seq(Ops), NEW u \in Seq(Ops), NEW f, NEW w, NEW v, Lasts(u, f, w, v),
           \A i \in DOMAIN s : s[i][1] # f
    PROVE  Lasts(s \o u, f, w, v)
<1>1. /\ \A i \in DOMAIN u : i + Len(s) \in DOMAIN (s \o u) /\ (s \o u)[i + Len(s)] = u[i]
      /\ \A i \in DOMAIN (s \o u) :
            \/ i \in DOMAIN s /\ (s \o u)[i] = s[i]
            \/ i > Len(s) /\ i - Len(s) \in DOMAIN u /\ (s \o u)[i] = u[i - Len(s)]
      /\ Len(s) \in Nat /\ DOMAIN s = 1 .. Len(s) /\ DOMAIN u = 1 .. Len(u) /\ Len(u) \in Nat
      /\ DOMAIN (s \o u) = 1 .. Len(s) + Len(u)
  BY Joined
<1> DEFINE c == s \o u
<1> HIDE DEF c
<1>2. CASE v = w /\ \A i \in DOMAIN u : u[i][1] # f
  <2>1. \A i \in DOMAIN (s \o u) : (s \o u)[i][1] # f
    BY <1>1, <1>2
  <2> QED BY <1>2, <2>1 DEF Lasts
<1>3. CASE \E i \in DOMAIN u : u[i][1] = f /\ u[i][2] = v /\ \A k \in DOMAIN u : k > i
               => u[k][1] # f
  <2>1. PICK i \in DOMAIN u : u[i][1] = f /\ u[i][2] = v /\ \A k \in DOMAIN u : k > i
                 => u[k][1] # f
    BY <1>3
  <2>2. i + Len(s) \in DOMAIN (s \o u) /\ (s \o u)[i + Len(s)] = u[i]
    BY <1>1
  <2>3. \A k \in DOMAIN (s \o u) : k > i + Len(s) => (s \o u)[k][1] # f
    <3> TAKE k \in DOMAIN (s \o u)
    <3> HAVE k > i + Len(s)
    <3>1. k - Len(s) \in DOMAIN u /\ (s \o u)[k] = u[k - Len(s)] /\ k - Len(s) > i
      BY <1>1
    <3> QED BY <2>1, <3>1
  <2> QED BY <2>1, <2>2, <2>3 DEF Lasts
<1> QED BY <1>2, <1>3 DEF Lasts

(* As an op is carried out, preview and context end up even as before,      *)
LEMMA EvenTail ==
    ASSUME NEW s \in Seq(Ops), s # <<>>, NEW c \in Payloads, Even(s, c),
           Head(s)[1] \in Fields \cup {"touch", "turn", "track"}
    PROVE  Even(Tail(s), Applied(c, Head(s)))
<1>1. PICK a \in BOOLEAN, v \in Previews \cup {None} :
        Lasts(s, "ctx", c.ctx, a) /\ Lasts(s, "preview", c.preview, v) /\ (a <=> v # None)
  BY DEF Even
<1>2. /\ Lasts(Tail(s), "ctx", IF Head(s)[1] = "ctx" THEN Head(s)[2] ELSE c.ctx, a)
      /\ Lasts(Tail(s), "preview", IF Head(s)[1] = "preview" THEN Head(s)[2] ELSE c.preview, v)
  BY <1>1, LastsTail
<1>3. /\ Applied(c, Head(s)).preview = IF Head(s)[1] = "preview" THEN Head(s)[2] ELSE c.preview
      /\ Applied(c, Head(s)).ctx = IF Head(s)[1] = "ctx" THEN Head(s)[2] ELSE c.ctx
  BY AppliedParts
<1>4. Lasts(Tail(s), "ctx", Applied(c, Head(s)).ctx, a)
          /\ Lasts(Tail(s), "preview", Applied(c, Head(s)).preview, v)
  BY <1>2, <1>3
<1> QED BY <1>1, <1>4 DEF Even

(* as one is that writes neither,                                           *)
LEMMA EvenSkip ==
    ASSUME NEW s \in Seq(Ops), s # <<>>, NEW c, Even(s, c), Head(s)[1] \notin {"preview", "ctx"}
    PROVE  Even(Tail(s), c)
<1>1. PICK a \in BOOLEAN, v \in Previews \cup {None} :
        Lasts(s, "ctx", c.ctx, a) /\ Lasts(s, "preview", c.preview, v) /\ (a <=> v # None)
  BY DEF Even
<1>2. Lasts(Tail(s), "ctx", IF Head(s)[1] = "ctx" THEN Head(s)[2] ELSE c.ctx, a)
  BY <1>1, LastsTail
<1>3. Lasts(Tail(s), "preview", IF Head(s)[1] = "preview" THEN Head(s)[2] ELSE c.preview, v)
  BY <1>1, LastsTail
<1>4. Lasts(Tail(s), "ctx", c.ctx, a) /\ Lasts(Tail(s), "preview", c.preview, v)
  BY <1>2, <1>3
<1> QED BY <1>1, <1>4 DEF Even

(* and as some that do not come first.                                      *)
LEMMA EvenJoin ==
    ASSUME NEW s \in Seq(Ops), NEW u \in Seq(Ops), NEW c, Even(u, c),
           \A i \in DOMAIN s : s[i][1] \notin {"preview", "ctx"}
    PROVE  Even(s \o u, c)
<1>1. PICK a \in BOOLEAN, v \in Previews \cup {None} :
        Lasts(u, "ctx", c.ctx, a) /\ Lasts(u, "preview", c.preview, v) /\ (a <=> v # None)
  BY DEF Even
<1>2. Lasts(s \o u, "ctx", c.ctx, a) /\ Lasts(s \o u, "preview", c.preview, v)
  BY <1>1, LastsJoin
<1> QED BY <1>1, <1>2 DEF Even

(* What leaves preview and context alone, or settles both.                  *)
LEMMA EvenClosed ==
    ASSUME NEW s \in Seq(Ops), Closed(s), NEW c \in Payloads, Follows(c)
    PROVE  Even(s, c)
<1>0. c.ctx \in BOOLEAN /\ c.preview \in Previews \cup {None} /\ (c.ctx <=> c.preview # None)
  BY DEF Follows, Payloads
<1>1. CASE \A i \in DOMAIN s : s[i][1] \notin {"preview", "ctx"}
  <2>1. Lasts(s, "ctx", c.ctx, c.ctx) /\ Lasts(s, "preview", c.preview, c.preview)
    BY <1>1 DEF Lasts
  <2> QED BY <1>0, <2>1 DEF Even
<1>2. CASE Settles(s)
  <2>1. PICK i, k \in DOMAIN s : SettlesAt(s, i, k)
    BY <1>2 DEF Settles
  <2>2. s[i] \in Ops /\ s[k] \in Ops
    BY ElementOfSeq, LenProperties
  <2>3. s[i][2] \in Previews \cup {None} /\ s[k][2] \in BOOLEAN /\ (s[k][2] <=> s[i][2] # None)
    BY <2>1, <2>2, OpsAre DEF SettlesAt
  <2>4. Lasts(s, "ctx", c.ctx, s[k][2]) /\ Lasts(s, "preview", c.preview, s[i][2])
    BY <2>1 DEF Lasts, SettlesAt
  <2> QED BY <2>3, <2>4 DEF Even
<1> QED BY <1>1, <1>2 DEF Closed

(* When nothing is left that writes either, they are.                       *)
LEMMA EvenAside ==
    ASSUME NEW s, NEW c, Even(s, c), \A i \in DOMAIN s : s[i][1] \notin {"preview", "ctx"}
    PROVE  Follows(c)
<1>1. PICK a \in BOOLEAN, v \in Previews \cup {None} :
        Lasts(s, "ctx", c.ctx, a) /\ Lasts(s, "preview", c.preview, v) /\ (a <=> v # None)
  BY DEF Even
<1>2. a = c.ctx /\ v = c.preview
  BY <1>1 DEF Lasts
<1> QED BY <1>1, <1>2 DEF Follows

(* A short tail.                                                            *)
LEMMA TailThree == ASSUME NEW a, NEW b, NEW c PROVE Tail(<<a, b, c>>) = <<b, c>>
OBVIOUS

(* A rewriting leaves the context following the preview,                    *)
LEMMA CtxRewrites ==
    ASSUME Base, FileOk, FileOk', CtxOk, NEW p \in Procs, Rewrites(p), ~Unlink(p), ~EmitFails(p)
    PROVE  CtxOk'
<1>0. /\ prog \in [Procs -> Seq(Ops)] /\ View \in Payloads /\ loop \in Requests \cup {None}
      /\ None \notin Requests /\ Requests \subseteq Procs /\ Daemon \notin Requests
  BY SessionAssumption, ViewFine DEF Procs, Base, TypeOK
<1>1. /\ View' = View /\ OthersLeft(p) /\ loop' = loop /\ Working(p)
      /\ Rest(p) = prog[p] /\ Rest(p)' = prog'[p] /\ prog[p] # <<>>
  BY RewritesMove
<1>2. CASE p = Daemon
  <2>1. loop # None => Rest(loop)' = Rest(loop)
    BY <1>0, <1>1, <1>2 DEF OthersLeft
  <2> QED BY <1>1, <2>1 DEF CtxOk, Follows
<1>3. CASE p # Daemon
  <2> DEFINE s == prog[p]
  <2>0. s \in Seq(Ops) /\ s # <<>> /\ loop = p /\ Head(s) \in Ops /\ Tail(s) \in Seq(Ops)
            /\ loop # None
    BY <1>0, <1>1, <1>3, Shorter DEF Working, Procs
  <2>1. Head(s)[1] \in {"ingest", "surface", "submit", "submitted"}
    BY <1>3, RewriteForms DEF IngestsTo, SurfacesTo, SubmitsTo, AcceptsTo, MakesJob, DeliversTo
  <2>2. s # Clears
    <3>1. Head(Clears)[1] = "unlink"
      BY DEF Clears
    <3> QED BY <2>1, <3>1
  <2>3. ~In(<<"unlink">>, s) /\ Even(s, View)
    BY <1>1, <2>0, <2>2 DEF CtxOk
  <2>4. ~In(<<"unlink">>, prog'[p])
    BY <2>3, RewriteNew DEF IsNote
  <2>5. Even(Tail(s), View)
    <3>1. Head(s)[1] \notin {"preview", "ctx"}
      BY <2>1
    <3> QED BY <2>0, <2>3, <3>1, EvenSkip
  <2>6. Even(prog'[p], View)
    <3>1. CASE prog'[p] = Tail(s)
      BY <2>5, <3>1
    <3>2. CASE IngestsTo(p, prog'[p])
      <4>1. PICK new \in SUBSET Jobs, f \in Seq(Ops) :
          /\ f = << <<"registry", Marked(Contents.registry, new)>> >> \/
             f = << <<"registry", Marked(Contents.registry, new)>>, <<"touch">> >>
          /\ prog'[p] = f \o Tail(s)
        BY <3>2 DEF IngestsTo
      <4>2. \A i \in DOMAIN f : f[i][1] \notin {"preview", "ctx"}
        BY <4>1
      <4> QED BY <2>0, <2>5, <4>1, <4>2, EvenJoin
    <3>3. CASE SurfacesTo(p, prog'[p])
      <4>1. /\ 2 \in DOMAIN s /\ s[2] = UserTurn(p)
            /\ Tail(s) # <<>> /\ Head(Tail(s)) = UserTurn(p) /\ Tail(Tail(s)) \in Seq(Ops)
        BY <2>0, <3>3, SkipTwo DEF SurfacesTo
      <4>2. Even(Tail(Tail(s)), View)
        <5>1. Head(Tail(s))[1] \notin {"preview", "ctx"}
          BY <4>1 DEF UserTurn
        <5> QED BY <2>0, <2>5, <4>1, <5>1, EvenSkip
      <4>3. PICK j \in Jobs :
              prog'[p] = << <<"registry", Told(Contents.registry, j)>>, UserTurn(p), Note(j) >>
                  \o Tail(Tail(s))
        BY <3>3 DEF SurfacesTo, Note
      <4> DEFINE a == <<"registry", Told(Contents.registry, j)>>
                 f == <<a, UserTurn(p), Note(j)>>
      <4>4. f \in Seq(Ops)
        <5>1. Contents.registry \in Registries
          BY ContentsKnown DEF Payloads
        <5>2. Told(Contents.registry, j) \in Registries
          BY <5>1 DEF Told, Registries
        <5>3. a \in Ops
          BY <5>2 DEF Ops
        <5>4. UserTurn(p) \in Ops /\ Note(j) \in Ops
          BY <1>3 DEF Ops, UserTurn, Note, Turns, Procs
        <5> HIDE DEF a
        <5> QED BY <5>3, <5>4, Three
      <4>5. \A i \in DOMAIN f : f[i][1] \notin {"preview", "ctx"}
        <5>1. a[1] = "registry" /\ UserTurn(p)[1] = "turn" /\ Note(j)[1] = "turn"
          BY DEF UserTurn, Note
        <5> HIDE DEF a
        <5> QED BY <5>1
      <4> HIDE DEF f
      <4>6. prog'[p] = f \o Tail(Tail(s))
        BY <4>3 DEF f
      <4> QED BY <4>1, <4>2, <4>4, <4>5, <4>6, EvenJoin
    <3>4. CASE SubmitsTo(p, prog'[p])
      <4>1. PICK h \in Handoffs : prog'[p] = << <<"handoff", h>> >> \o Tail(s)
        BY <3>4 DEF SubmitsTo
      <4>2. << <<"handoff", h>> >> \in Seq(Ops)
                /\ \A i \in DOMAIN << <<"handoff", h>> >> : << <<"handoff",
                       h>> >>[i][1] \notin {"preview", "ctx"}
        BY DEF Ops
      <4> QED BY <2>0, <2>5, <4>1, <4>2, EvenJoin
    <3>5. CASE AcceptsTo(p, prog'[p])
      <4>1. PICK j \in Jobs : prog'[p] = Accepted(j) \o Tail(s) /\ Words2(Tail(s))
        BY <3>5 DEF AcceptsTo, MakesJob
      <4>2. Lasts(prog'[p], "ctx", View.ctx, FALSE)
                /\ Lasts(prog'[p], "preview", View.preview, None)
        <5>1. \A c : LET u == Accepted(j) \o Tail(s) IN Lasts(u, "ctx", c, FALSE)
                  /\ Lasts(u, "preview", c, None)
          BY <2>0, <4>1, AcceptsIn
        <5> QED BY <4>1, <5>1
      <4> QED BY <4>2 DEF Even
    <3> QED BY <1>3, <3>1, <3>2, <3>3, <3>4, <3>5, RewriteForms DEF DeliversTo
  <2> QED BY <1>1, <2>0, <2>4, <2>6 DEF CtxOk
<1> QED BY <1>2, <1>3

(* and so does every step.                                                  *)
LEMMA CtxStays ==
    ASSUME Base, Base', FileOk, FileOk', CtxOk, Next, Undisturbed'
    PROVE  CtxOk'
<1>0. /\ prog \in [Procs -> Seq(Ops)] /\ View \in Payloads /\ loop \in Requests \cup {None}
      /\ None \notin Requests /\ Requests \subseteq Procs /\ Daemon \notin Requests
      /\ Daemon \in Procs
  BY SessionAssumption, ViewFine DEF Procs, Base, TypeOK
<1>1. ASSUME NEW p \in Procs, Cut(p) PROVE CtxOk'
  <2>1. /\ prog[p] # <<>> /\ Rest(p) = prog[p] /\ Rest(p)' = Tail(prog[p]) /\ OthersLeft(p)
        /\ View' = Applied(View, Head(prog[p])) /\ Head(prog[p]) \in Ops /\ Idle(p) /\ Working(p)
        /\ Head(prog[p])[1] \in Fields \cup {"touch", "turn", "track"} /\ loop' = loop
    BY <1>1, CutDoes
  <2>2. CASE p = Daemon
    <3>1. loop = None
      BY <1>0, <2>1, <2>2 DEF Idle, Working
    <3>2. Head(prog[p])[1] \notin {"preview", "ctx"}
      BY <1>0, <2>1, <2>2, HeadIn, RestIn
    <3>3. View'.preview = View.preview /\ View'.ctx = View.ctx
      BY <1>0, <2>1, <3>2, AppliedParts
    <3> QED BY <2>1, <3>1, <3>3 DEF CtxOk, Follows
  <2>3. CASE p # Daemon
    <3>1. loop = p /\ loop # None /\ prog[p] \in Seq(Ops)
      BY <1>0, <2>1, <2>3 DEF Working, Procs
    <3>2. prog[p] # Clears
      <4>1. Head(Clears)[1] = "unlink"
        BY DEF Clears
      <4> QED BY <2>1, <4>1 DEF Fields
    <3>3. ~In(<<"unlink">>, prog[p]) /\ Even(prog[p], View)
      BY <2>1, <3>1, <3>2 DEF CtxOk
    <3>4. Even(Tail(prog[p]), View')
      BY <1>0, <2>1, <3>1, <3>3, EvenTail
    <3>5. ~In(<<"unlink">>, Tail(prog[p]))
      BY <2>1, <3>1, <3>3, InTail
    <3> QED BY <2>1, <3>1, <3>4, <3>5 DEF CtxOk
  <2> QED BY <2>2, <2>3
<1>2. ASSUME NEW p \in Procs, Fill(p) PROVE CtxOk'
  <2>1. View' = View /\ loop' = loop /\ \A q \in Procs : Rest(q)' = Rest(q)
    BY <1>2, FillDoes
  <2>2. loop # None => Rest(loop)' = Rest(loop)
    BY <1>0, <2>1
  <2> QED BY <2>1, <2>2 DEF CtxOk, Follows
<1>3. ASSUME NEW p \in Requests, Unlink(p) PROVE CtxOk'
  <2>1. /\ prog[p] # <<>> /\ Rest(p) = prog[p] /\ Working(p) /\ Head(prog[p])[1] = "unlink"
        /\ Rest(p)' = Tail(prog[p]) /\ View' = Default /\ loop' = loop
    BY <1>0, <1>3, UnlinkDoes
  <2>2. loop = p /\ prog[p] \in Seq(Ops) /\ p # None
    BY <1>0, <2>1 DEF Working
  <2>3. In(<<"unlink">>, prog[p])
    <3>1. Head(prog[p]) = <<"unlink">>
      BY <2>1, <2>2, Shorter, OpIs
    <3> QED BY <2>1, <2>2, <3>1, HeadIn
  <2>4. prog[p] = Clears
    BY <2>1, <2>2, <2>3 DEF CtxOk
  <2> DEFINE a == <<"ctx", FALSE>>
             b == <<"touch">>
             u == <<a, b>>
  <2>5. Rest(p)' = u
    <3>1. Tail(Clears) = u
      BY TailThree DEF Clears
    <3> HIDE DEF u
    <3> QED BY <2>1, <2>4, <3>1
  <2>6. DOMAIN u = {1, 2} /\ u[1] = a /\ u[2] = b /\ a[1] = "ctx" /\ a[2] = FALSE
            /\ b[1] = "touch"
    <3>1. a[1] = "ctx"
      OBVIOUS
    <3>2. a[2] = FALSE
      OBVIOUS
    <3>3. b[1] = "touch"
      OBVIOUS
    <3> HIDE DEF a, b
    <3>4. DOMAIN u = {1, 2} /\ u[1] = a /\ u[2] = b
      OBVIOUS
    <3> QED BY <3>1, <3>2, <3>3, <3>4
  <2>7. Default.preview = None
    BY DEF Default
  <2> HIDE DEF u, a, b
  <2>8. Lasts(u, "ctx", Default.ctx, FALSE)
    BY <2>6 DEF Lasts
  <2>9. Lasts(u, "preview", Default.preview, None)
    BY <2>6, <2>7 DEF Lasts
  <2>10. Even(u, Default)
    BY <2>8, <2>9 DEF Even
  <2>11. ~In(<<"unlink">>, u)
    BY <2>6 DEF In
  <2> QED BY <2>1, <2>2, <2>5, <2>10, <2>11 DEF CtxOk
<1>4. ASSUME NEW p \in Requests, Starts(p) \/ Returns(p) PROVE CtxOk'
  <2>1. /\ View' = View /\ loop = None /\ loop' = p
        /\ \E b \in Seq(Ops) : /\ Rest(p)' = b /\ (Begun(p, b) \/ \A i \in DOMAIN b : Aside(b[i]))
    BY <1>4, BeginsTo
  <2>2. PICK b \in Seq(Ops) : Rest(p)' = b /\ (Begun(p, b) \/ \A i \in DOMAIN b : Aside(b[i]))
    BY <2>1
  <2>3. Follows(View)
    BY <2>1 DEF CtxOk
  <2>4. b = Clears \/ (Closed(b) /\ \A i \in DOMAIN b : b[i][1] # "unlink")
    BY <2>2 DEF Begun, Closed, Aside
  <2>5. CASE b = Clears
    BY <1>0, <2>1, <2>2, <2>5 DEF CtxOk
  <2>6. CASE Closed(b) /\ \A i \in DOMAIN b : b[i][1] # "unlink"
    <3>1. Even(b, View)
      BY <1>0, <2>3, <2>6, EvenClosed
    <3>2. ~In(<<"unlink">>, b)
      BY <2>6 DEF In
    <3> QED BY <1>0, <2>1, <2>2, <3>1, <3>2 DEF CtxOk
  <2> QED BY <2>4, <2>5, <2>6
<1>5. ASSUME NEW p \in Procs, Rewrites(p), ~Unlink(p), ~EmitFails(p) PROVE CtxOk'
  BY <1>5, CtxRewrites
<1>6. CASE Others
  <2>1. /\ View' = View /\ \A q \in Procs \ {Daemon} : Rest(q)' = Rest(q) /\ prog'[q] = prog[q]
        /\ \/ loop' = loop
           \/ loop \in Requests /\ loop' = None
                  /\ (Rest(loop) = <<>> \/ (Wait(loop) /\ at[loop] = "get"))
    BY <1>6, OthersMove DEF Others
  <2>2. CASE loop' = loop
    <3>1. CASE loop = None
      BY <2>1, <2>2, <3>1 DEF CtxOk, Follows
    <3>2. CASE loop # None
      <4>1. PICK t \in Requests : t = loop
        BY <1>0, <3>2
      <4>2. Rest(t)' = Rest(t)
        BY <1>0, <2>1
      <4> QED BY <2>1, <2>2, <3>2, <4>1, <4>2 DEF CtxOk
    <3> QED BY <3>1, <3>2
  <2>3. CASE loop \in Requests /\ loop' = None
                 /\ (Rest(loop) = <<>> \/ (Wait(loop) /\ at[loop] = "get"))
    <3>1. \A i \in DOMAIN Rest(loop) : Aside(Rest(loop)[i])
      <4>1. CASE Rest(loop) = <<>>
        BY <4>1
      <4>2. CASE at[loop] = "get"
        <5>1. PICK t \in Requests : t = loop
          BY <2>3
        <5>2. Rest(t) = prog[t] /\ prog'[t] = prog[t]
          BY <1>0, <2>1, <4>2, <5>1 DEF Rest
        <5>3. \A i \in DOMAIN prog'[t] : Aside(prog'[t][i])
          BY <1>0, <2>3 DEF Base, Programs, Aside, IsNote
        <5> QED BY <5>1, <5>2, <5>3
      <4> QED BY <2>3, <4>1, <4>2
    <3>2. Rest(loop) # Clears
      <4>1. 1 \in DOMAIN Clears /\ Clears[1][1] = "unlink"
        BY DEF Clears
      <4> QED BY <3>1, <4>1 DEF Aside
    <3>3. Even(Rest(loop), View)
      BY <1>0, <2>3, <3>2 DEF CtxOk
    <3>4. Follows(View)
      BY <3>1, <3>3, EvenAside DEF Aside
    <3> QED BY <2>1, <2>3, <3>4 DEF CtxOk, Follows
  <2> QED BY <2>1, <2>2, <2>3
<1> QED BY <1>1, <1>2, <1>3, <1>4, <1>5, <1>6, Moves

-----------------------------------------------------------------------------
(* The handoff, and the jobs the session tracks                             *)

(* An op that ties no job to the session.                                   *)
Loose(x) == x[1] # "track" /\ ~(x[1] = "handoff" /\ x[2].job # None)

(* Programs of such ops tie none.                                           *)
LEMMA UntiedIs == ASSUME NEW s PROVE Untied(s) <=> \A x : In(x, s) => Loose(x)
BY DEF Untied, In, Loose

(* One that ties a job goes on to,                                          *)
LEMMA TiedTail ==
    ASSUME NEW s \in Seq(Ops), s # <<>>, Tied(s)
    PROVE  Tied(Tail(s))
<1>1. CASE Untied(s)
  <2>1. \A x : In(x, Tail(s)) => In(x, s)
    BY InTail
  <2>2. \A x : In(x, Tail(s)) => Loose(x)
    BY <1>1, <2>1, UntiedIs
  <2> QED BY <2>2, UntiedIs DEF Tied
<1>2. CASE \E j \in Jobs : sent[j] # None /\ (Tracking(s, j) \/ Handing(s, j))
  BY <1>2 DEF Tied, Tracking, Handing
<1> QED BY <1>1, <1>2 DEF Tied

(* and none does after anything else.                                       *)
LEMMA TiedHead ==
    ASSUME NEW s \in Seq(Ops), s # <<>>, Tied(s), Head(s)[1] \notin {"handoff", "track"}
    PROVE  Untied(s)
<1>1. \A j \in Jobs : ~Tracking(s, j) /\ ~Handing(s, j)
  BY DEF Tracking, Handing
<1> QED BY <1>1 DEF Tied

(* A job that is submitted stays so.                                        *)
LEMMA SentKept ==
    ASSUME Base, Next, Undisturbed', NEW j \in Jobs, sent[j] # None
    PROVE  sent'[j] = sent[j]
<1>1. CASE UNCHANGED sent
  BY <1>1
<1>2. CASE \E p \in Procs : AcceptsTo(p, prog'[p]) \/ Misses(p)
  BY <1>2 DEF AcceptsTo, Misses, MakesJob, FreshJob, Base, TypeOK
<1> QED BY <1>1, <1>2, SentSteps

(* So a program that stays, stays tied.                                     *)
LEMMA TiedKept ==
    ASSUME Base, Next, Undisturbed', NEW s, Tied(s), NEW t, Rest(t)' = s
    PROVE  Tied(Rest(t))'
<1>1. CASE Untied(s)
  BY <1>1 DEF Tied
<1>2. CASE \E j \in Jobs : sent[j] # None /\ (Tracking(s, j) \/ Handing(s, j))
  <2>1. PICK j \in Jobs : sent[j] # None /\ (Tracking(s, j) \/ Handing(s, j))
    BY <1>2
  <2>2. sent'[j] # None
    BY <2>1, SentKept
  <2> QED BY <2>1, <2>2 DEF Tied
<1> QED BY <1>1, <1>2 DEF Tied

(* What a rewriting adds.                                                   *)
Fresh(x) ==
    \/ x[1] = "touch" \/ IsNote(x) \/ (x[1] = "handoff" /\ x[2].job = None)
    \/ x[1] = "registry" /\ x[2].tracked = Contents.registry.tracked

(* This is all it adds, unless a submission is accepted, and then no        *)
(* registry.                                                                *)
LEMMA RewriteIn ==
    ASSUME Base, FileOk, NEW p \in Procs, Rewrites(p), ~Unlink(p), ~EmitFails(p),
           NEW x, In(x, prog'[p])
    PROVE  /\ In(x, prog[p]) \/ Fresh(x) \/ AcceptsTo(p, prog'[p])
           /\ AcceptsTo(p, prog'[p]) => In(x, prog[p]) \/ x[1] # "registry"
<1>1. prog[p] # <<>> /\ prog[p] \in Seq(Ops) /\ Tail(prog[p]) \in Seq(Ops)
          /\ Contents.registry \in Registries
  BY RewriteForms, Shorter, ContentsKnown DEF Payloads
<1>2. \A y : In(y, Tail(prog[p])) => In(y, prog[p])
  BY <1>1, InTail
<1>3. AcceptsTo(p, prog'[p]) => In(x, prog[p]) \/ x[1] # "registry"
  <2> SUFFICES ASSUME AcceptsTo(p, prog'[p]) PROVE In(x, prog[p]) \/ x[1] # "registry"
    OBVIOUS
  <2>1. PICK j \in Jobs : prog'[p] = Accepted(j) \o Tail(prog[p]) /\ Words2(Tail(prog[p]))
    BY DEF AcceptsTo, MakesJob
  <2>2. \/ x = <<"handoff", [status |-> "submitted", job |-> j]>> \/ x = <<"track", j>>
        \/ x = <<"preview", None>> \/ x = <<"submitted", j>> \/ x = <<"touch">>
               \/ x = <<"ctx", FALSE>>
        \/ In(x, Tail(prog[p]))
    BY <1>1, <2>1, AcceptsIn
  <2>3. CASE x = <<"handoff", [status |-> "submitted", job |-> j]>>
    BY <2>3
  <2>4. CASE x = <<"track", j>> \/ x = <<"preview", None>> \/ x = <<"submitted", j>>
    BY <2>4
  <2>5. CASE x = <<"touch">>
    BY <2>5
  <2>6. CASE x = <<"ctx", FALSE>>
    BY <2>6
  <2> QED BY <1>2, <2>2, <2>3, <2>4, <2>5, <2>6
<1>4. CASE prog'[p] = Tail(prog[p])
  BY <1>2, <1>3, <1>4
<1>5. CASE IngestsTo(p, prog'[p])
  <2>1. PICK new \in SUBSET Jobs :
          \A y : In(y, prog'[p]) => \/ y = <<"registry", Marked(Contents.registry, new)>>
                                    \/ y = <<"touch">> \/ In(y, Tail(prog[p]))
    BY <1>1, <1>5, IngestIn
  <2>2. Marked(Contents.registry, new).tracked = Contents.registry.tracked
    BY <1>1 DEF Marked, Registries
  <2>3. x = <<"registry", Marked(Contents.registry, new)>> => Fresh(x)
    BY <2>2 DEF Fresh
  <2>4. x = <<"touch">> => Fresh(x)
    BY DEF Fresh
  <2> QED BY <1>2, <1>3, <2>1, <2>3, <2>4
<1>6. CASE SurfacesTo(p, prog'[p])
  <2>1. PICK j \in Jobs :
          /\ Contents = View
          /\ Head(prog'[p]) = <<"registry", Told(View.registry, j)>>
          /\ \A y : In(y, prog'[p]) <=> \/ y = Head(prog'[p]) \/ y = UserTurn(p) \/ y = Note(j)
                                        \/ In(y, Tail(Tail(prog[p])))
          /\ \A y : In(y, prog[p]) <=> \/ y = Head(prog[p]) \/ y = UserTurn(p)
                                       \/ In(y, Tail(Tail(prog[p])))
    BY <1>1, <1>6, SurfaceIn
  <2>2. Told(View.registry, j).tracked = Contents.registry.tracked
    BY <1>1, <2>1 DEF Told, Registries
  <2>3. x = <<"registry", Told(View.registry, j)>> => Fresh(x)
    BY <2>2 DEF Fresh
  <2>4. x = Note(j) => Fresh(x)
    BY DEF Fresh, Note, IsNote
  <2>5. In(x, prog[p]) \/ Fresh(x)
    BY <2>1, <2>3, <2>4
  <2> QED BY <1>3, <2>5
<1>7. CASE SubmitsTo(p, prog'[p])
  <2>1. PICK h \in Handoffs : h.job = None /\ \A y : In(y, prog'[p])
                 => y = <<"handoff", h>> \/ In(y, Tail(prog[p]))
    BY <1>1, <1>7, SubmitsIn
  <2>2. x = <<"handoff", h>> => Fresh(x)
    BY <2>1 DEF Fresh
  <2> QED BY <1>2, <1>3, <2>1, <2>2
<1>8. CASE DeliversTo(p, prog'[p])
  <2> DEFINE r == Contents.registry
             j == Head(prog[p])[2]
             n == <<"turn", <<"note", j>> >>
             a == <<"registry", r>>
             b == <<"registry", Told(r, j)>>
  <2>1. prog'[p] = <<>> \/ prog'[p] = <<a>> \/ prog'[p] = <<n, b>>
    BY <1>8 DEF DeliversTo
  <2>2. Told(r, j).tracked = r.tracked
    BY <1>1 DEF Told, Registries
  <2>3. Fresh(a)
    BY DEF Fresh
  <2>4. Fresh(b)
    BY <2>2 DEF Fresh
  <2>5. Fresh(n)
    BY DEF Fresh, IsNote
  <2> HIDE DEF a, b, n
  <2>6. x = a \/ x = n \/ x = b
    <3>1. CASE prog'[p] = <<>>
      BY <3>1, InNone
    <3>2. CASE prog'[p] = <<a>>
      BY <3>2, InOne
    <3>3. CASE prog'[p] = <<n, b>>
      BY <3>3, InTwo
    <3> QED BY <2>1, <3>1, <3>2, <3>3
  <2> QED BY <1>3, <2>3, <2>4, <2>5, <2>6
<1>9. CASE AcceptsTo(p, prog'[p])
  BY <1>3, <1>9
<1> QED BY <1>4, <1>5, <1>6, <1>7, <1>8, <1>9, RewriteForms

(* So what ties a job to the session is the end of an accepted submission.  *)
LEMMA TiesStay ==
    ASSUME Base, FileOk, FileOk', Ties, Next, Undisturbed'
    PROVE  Ties'
<1>0. prog \in [Procs -> Seq(Ops)] /\ Requests \subseteq Procs /\ Daemon \in Procs
          /\ Daemon \notin Requests
  BY SessionAssumption DEF Procs, Base, TypeOK
<1>00. \A t \in Requests : Tied(Rest(t))
  BY DEF Ties
<1>01. ASSUME NEW t \in Requests, Rest(t)' = Rest(t) PROVE Tied(Rest(t))'
  <2>1. PICK s : s = Rest(t)
    OBVIOUS
  <2> QED BY <1>00, <1>01, <2>1, TiedKept
<1>02. ASSUME NEW t \in Requests, prog[t] # <<>>, Rest(t) = prog[t], Rest(t)' = Tail(prog[t])
       PROVE  Tied(Rest(t))'
  <2>1. Tied(Tail(prog[t]))
    BY <1>0, <1>00, <1>02, TiedTail
  <2>2. PICK s : s = Tail(prog[t])
    OBVIOUS
  <2> QED BY <1>02, <2>1, <2>2, TiedKept
<1>1. ASSUME NEW p \in Procs, Cut(p) PROVE Ties'
  <2>1. prog[p] # <<>> /\ Rest(p) = prog[p] /\ Rest(p)' = Tail(prog[p]) /\ OthersLeft(p)
    BY <1>1, CutDoes
  <2> SUFFICES ASSUME NEW t \in Requests PROVE Tied(Rest(t))'
    BY DEF Ties
  <2> QED BY <1>0, <1>01, <1>02, <2>1 DEF OthersLeft
<1>2. ASSUME NEW p \in Procs, Fill(p) PROVE Ties'
  <2>1. \A q \in Procs : Rest(q)' = Rest(q)
    BY <1>2, FillDoes
  <2> QED BY <1>0, <1>01, <2>1 DEF Ties
<1>3. ASSUME NEW p \in Requests, Unlink(p) PROVE Ties'
  <2>1. prog[p] # <<>> /\ Rest(p) = prog[p] /\ Rest(p)' = Tail(prog[p]) /\ OthersLeft(p)
    BY <1>0, <1>3, UnlinkDoes
  <2> SUFFICES ASSUME NEW t \in Requests PROVE Tied(Rest(t))'
    BY DEF Ties
  <2> QED BY <1>0, <1>01, <1>02, <2>1 DEF OthersLeft
<1>4. ASSUME NEW p \in Requests, Starts(p) \/ Returns(p) PROVE Ties'
  <2>1. OthersLeft(p)
    BY <1>4, BeginsTo
  <2>2. PICK b \in Seq(Ops) : Rest(p)' = b /\ \A x : In(x, b)
                 => x \in Ops /\ (x \in NewOps \/ (Aside(x) /\ In(x, prog[p])))
    BY <1>4, BeginsTo
  <2>3. \A x : In(x, b) => Loose(x)
    <3>1. \A x : x \in NewOps \/ Aside(x) => Loose(x)
      BY DEF NewOps, Aside, Loose
    <3> QED BY <2>2, <3>1
  <2>4. Untied(b)
    BY <2>3, UntiedIs
  <2> SUFFICES ASSUME NEW t \in Requests PROVE Tied(Rest(t))'
    BY DEF Ties
  <2>5. CASE t = p
    BY <2>2, <2>4, <2>5 DEF Tied
  <2>6. CASE t # p
    BY <1>0, <1>01, <2>1, <2>6 DEF OthersLeft
  <2> QED BY <2>5, <2>6
<1>5. ASSUME NEW p \in Procs, Rewrites(p), ~Unlink(p), ~EmitFails(p) PROVE Ties'
  <2>1. OthersLeft(p) /\ Rest(p) = prog[p] /\ Rest(p)' = prog'[p] /\ prog[p] # <<>>
            /\ prog[p] \in Seq(Ops)
    BY <1>0, <1>5, RewritesMove
  <2> SUFFICES ASSUME NEW t \in Requests PROVE Tied(Rest(t))'
    BY DEF Ties
  <2>2. CASE t # p
    BY <1>0, <1>01, <2>1, <2>2 DEF OthersLeft
  <2>3. CASE t = p
    <3>1. CASE AcceptsTo(p, prog'[p])
      <4>1. PICK j \in Jobs, v \in Previews :
              /\ sent' = [sent EXCEPT ![j] = [preview |-> v, by |-> p, missed |-> FALSE]]
              /\ prog'[p] = Accepted(j) \o Tail(prog[p]) /\ Words2(Tail(prog[p]))
        BY <3>1 DEF AcceptsTo, MakesJob
      <4>2. Handing(prog'[p], j)
        <5>1. Tail(prog[p]) \in Seq(Ops)
          BY <2>1, Shorter
        <5> QED BY <4>1, <5>1, AcceptsIn
      <4>3. sent'[j] # None
        <5>1. sent'[j] = [preview |-> v, by |-> p, missed |-> FALSE]
          BY <4>1 DEF Base, TypeOK
        <5>2. [preview |-> v, by |-> p, missed |-> FALSE] \in Submissions
          BY <2>3 DEF Submissions
        <5> QED BY <5>1, <5>2, AbsentAssumption
      <4> QED BY <2>1, <2>3, <4>2, <4>3 DEF Tied
    <3>2. CASE ~AcceptsTo(p, prog'[p])
      <4>1. Head(prog[p])[1] \notin {"handoff", "track"}
        BY <1>0, <1>5, <2>3, <3>2, RewriteForms DEF IngestsTo, SurfacesTo, SubmitsTo, DeliversTo
      <4>2. Untied(prog[p])
        BY <1>00, <2>1, <2>3, <4>1, TiedHead
      <4>3. \A x : In(x, prog[p]) => Loose(x)
        BY <4>2, UntiedIs
      <4>4. \A x : Fresh(x) => Loose(x)
        BY DEF Fresh, Loose, IsNote
      <4>5. \A x : In(x, prog'[p]) => Loose(x)
        BY <1>5, <3>2, <4>3, <4>4, RewriteIn
      <4>6. Untied(prog'[p])
        BY <4>5, UntiedIs
      <4> QED BY <2>1, <2>3, <4>6 DEF Tied
    <3> QED BY <3>1, <3>2
  <2> QED BY <2>2, <2>3
<1>6. CASE Others
  <2>1. \A q \in Procs \ {Daemon} : Rest(q)' = Rest(q)
    BY <1>6, OthersMove DEF Others
  <2> QED BY <1>0, <1>01, <2>1 DEF Ties
<1> QED BY <1>1, <1>2, <1>3, <1>4, <1>5, <1>6, Moves

(* So the job in the handoff was submitted, and is tracked, or will be      *)
(* before its request is done.                                              *)
LEMMA KnownStays ==
    ASSUME Base, Base', FileOk, FileOk', HandoffKnown, Ties, TrackedKept, Next, Undisturbed'
    PROVE  HandoffKnown'
<1>0. /\ prog \in [Procs -> Seq(Ops)] /\ View \in Payloads /\ loop \in Requests \cup {None}
      /\ None \notin Requests /\ Requests \subseteq Procs /\ Daemon \notin Requests
      /\ Daemon \in Procs
  BY SessionAssumption, ViewFine DEF Procs, Base, TypeOK
<1> DEFINE J == View.handoff.job
<1>01. /\ J \in Jobs \cup {None} /\ None \notin Jobs
       /\ View.registry \in Registries
  BY <1>0, AbsentAssumption DEF Payloads, Handoffs
<1>02. J # None =>
         /\ sent[J] # None /\ sent'[J] # None /\ View.handoff.status = "submitted"
         /\ J \in View.registry.tracked \/ (loop # None /\ In(<<"track", J>>, Rest(loop)))
  BY <1>01, SentKept DEF HandoffKnown
<1>1. ASSUME NEW p \in Procs, Cut(p) PROVE HandoffKnown'
  <2> DEFINE s == prog[p]
             h == Head(s)
  <2>1. /\ s # <<>> /\ Rest(p) = s /\ Rest(p)' = Tail(s) /\ OthersLeft(p) /\ s \in Seq(Ops)
        /\ View' = Applied(View, h) /\ h \in Ops /\ Idle(p) /\ Working(p)
        /\ h[1] \in Fields \cup {"touch", "turn", "track"} /\ loop' = loop
    BY <1>0, <1>1, CutDoes
  <2>2. In(h, Rest(p)) /\ \A x : In(x, s) <=> x = h \/ In(x, Tail(s))
    BY <2>1, HeadIn, InTail
  <2>3. p = Daemon => loop = None /\ h[1] \in {"registry", "turn"}
    <3> SUFFICES ASSUME p = Daemon PROVE loop = None /\ h[1] \in {"registry", "turn"}
      OBVIOUS
    <3>1. loop = None
      BY <1>0, <2>1 DEF Idle, Working
    <3>2. h[1] \in {"ingest", "deliver", "registry", "turn"}
      BY <1>0, <2>2, RestIn
    <3> QED BY <2>1, <3>1, <3>2 DEF Fields
  <2>4. p # Daemon => loop = p /\ p \in Requests /\ p # None
    BY <1>0, <2>1 DEF Working, Procs
  <2>5. CASE h[1] = "handoff"
    <3>1. p # Daemon
      BY <2>3, <2>5
    <3>2. View'.handoff = h[2]
      BY <1>0, <2>1, <2>5, AppliedParts
    <3>3. CASE h[2].job = None
      BY <3>2, <3>3 DEF HandoffKnown
    <3>4. CASE h[2].job # None
      <4>1. ~Untied(s)
        BY <2>1, <2>2, <2>5, <3>4, UntiedIs DEF Loose
      <4>2. PICK j \in Jobs : sent[j] # None /\ (Tracking(s, j) \/ Handing(s, j))
        BY <2>1, <2>4, <3>1, <4>1 DEF Ties, Tied
      <4>3. ~Tracking(s, j)
        BY <2>5 DEF Tracking
      <4>4. h[2] = [status |-> "submitted", job |-> j] /\ Tracking(Tail(s), j)
        BY <4>2, <4>3 DEF Handing
      <4>5. sent'[j] # None
        BY <4>2, SentKept
      <4>6. In(<<"track", j>>, Tail(s))
        <5>1. Tail(s) # <<>> /\ Head(Tail(s)) = <<"track", j>> /\ Tail(s) \in Seq(Ops)
          BY <2>1, <4>4, Shorter DEF Tracking
        <5> QED BY <5>1, HeadIn
      <4>7. View'.handoff.job = j /\ View'.handoff.status = "submitted"
        BY <3>2, <4>4
      <4>8. loop' # None /\ In(<<"track", j>>, Rest(loop))'
        <5>1. loop' = p /\ p # None
          BY <2>1, <2>4, <3>1
        <5> QED BY <2>1, <4>6, <5>1
      <4> QED BY <4>5, <4>7, <4>8 DEF HandoffKnown
    <3> QED BY <3>3, <3>4
  <2>6. CASE h[1] # "handoff"
    <3>1. View'.handoff = View.handoff
      BY <1>0, <2>1, <2>6, AppliedParts
    <3> SUFFICES ASSUME J # None
                 PROVE  J \in View'.registry.tracked
                            \/ (loop' # None /\ In(<<"track", J>>, Rest(loop))')
      BY <1>02, <3>1 DEF HandoffKnown
    <3>2. View.registry.tracked \subseteq View'.registry.tracked
      <4>1. CASE h[1] = "registry"
        <5>1. h[2] \in Registries /\ h = <<"registry", h[2]>> /\ View'.registry = h[2]
          BY <1>0, <2>1, <4>1, AppliedParts, OpIs, OpsAre
        <5>2. Alone(p)
          BY <2>1, NotWorking DEF Idle, Alone
        <5>3. In(<<"registry", h[2]>>, Rest(p))
          BY <2>2, <5>1
        <5> QED BY <5>1, <5>2, <5>3 DEF TrackedKept
      <4>2. CASE h[1] = "track"
        <5>1. View'.registry = [View.registry EXCEPT !.tracked = @ \cup {h[2]}]
          BY <1>0, <2>1, <4>2, AppliedParts
        <5> QED BY <1>01, <5>1 DEF Registries
      <4>3. CASE h[1] \notin {"registry", "track"}
        BY <1>0, <2>1, <4>3, AppliedParts
      <4> QED BY <4>1, <4>2, <4>3
    <3>3. CASE J \in View.registry.tracked
      BY <3>2, <3>3
    <3>4. CASE loop # None /\ In(<<"track", J>>, Rest(loop))
      <4>1. p # Daemon /\ loop = p /\ p \in Requests /\ p # None
        BY <2>3, <2>4, <3>4
      <4>2. In(<<"track", J>>, s)
        BY <2>1, <3>4, <4>1
      <4>3. CASE In(<<"track", J>>, Tail(s))
        BY <2>1, <3>1, <4>1, <4>3
      <4>4. CASE h = <<"track", J>>
        <5>1. View'.registry = [View.registry EXCEPT !.tracked = @ \cup {h[2]}] /\ h[2] = J
          <6>1. h[1] = "track"
            BY <4>4
          <6>2. h[2] = J
            BY <4>4
          <6> QED BY <1>0, <2>1, <6>1, <6>2, AppliedParts
        <5> QED BY <1>01, <5>1 DEF Registries
      <4> QED BY <2>2, <4>2, <4>3, <4>4
    <3> QED BY <1>02, <3>3, <3>4
  <2> QED BY <2>5, <2>6
<1>2. ASSUME View' = View, loop' = loop, loop # None => Rest(loop)' = Rest(loop)
      PROVE  HandoffKnown'
  <2>1. CASE loop = None
    BY <1>02, <1>2, <2>1 DEF HandoffKnown
  <2>2. CASE loop # None
    BY <1>02, <1>2, <2>2 DEF HandoffKnown
  <2> QED BY <2>1, <2>2
<1>3. ASSUME NEW p \in Requests, Unlink(p) PROVE HandoffKnown'
  <2>1. View' = Default
    BY <1>0, <1>3, UnlinkDoes
  <2> QED BY <2>1 DEF HandoffKnown, Default
<1>4. ASSUME NEW p \in Requests, Starts(p) \/ Returns(p) PROVE HandoffKnown'
  <2>1. View' = View /\ loop = None
    BY <1>4, BeginsTo
  <2> QED BY <1>02, <2>1 DEF HandoffKnown
<1>5. ASSUME NEW p \in Procs, Rewrites(p), ~Unlink(p), ~EmitFails(p) PROVE HandoffKnown'
  <2>1. /\ View' = View /\ OthersLeft(p) /\ loop' = loop /\ Working(p)
        /\ Rest(p) = prog[p] /\ prog[p] # <<>> /\ prog[p] \in Seq(Ops)
    BY <1>0, <1>5, RewritesMove
  <2>2. CASE loop = None \/ loop # p
    <3>1. loop # None => Rest(loop)' = Rest(loop)
      <4> SUFFICES ASSUME loop # None PROVE Rest(loop)' = Rest(loop)
        OBVIOUS
      <4>1. PICK t \in Requests : t = loop
        BY <1>0
      <4>2. Rest(t)' = Rest(t)
        BY <1>0, <2>1, <2>2, <4>1 DEF OthersLeft
      <4> QED BY <2>1, <4>1, <4>2
    <3> QED BY <1>2, <2>1, <3>1
  <2>3. CASE loop = p /\ loop # None
    <3>1. p \in Requests
      BY <1>0, <2>3
    <3>2. J # None => J \in View.registry.tracked
      <4> SUFFICES ASSUME J # None, In(<<"track", J>>, Rest(p)) PROVE FALSE
        BY <1>02, <2>3
      <4>1. Head(prog[p])[1] \notin {"handoff", "track"}
        BY <1>0, <1>5, <3>1, RewriteForms DEF IngestsTo, SurfacesTo, SubmitsTo, DeliversTo,
           AcceptsTo, MakesJob
      <4>2. Untied(prog[p])
        BY <2>1, <3>1, <4>1, TiedHead DEF Ties
      <4> QED BY <2>1, <4>2, UntiedIs DEF Loose
    <3> QED BY <1>02, <2>1, <3>2 DEF HandoffKnown
  <2> QED BY <2>2, <2>3
<1>6. CASE Others
  <2>1. /\ View' = View /\ \A q \in Procs \ {Daemon} : Rest(q)' = Rest(q) /\ prog'[q] = prog[q]
        /\ \/ loop' = loop
           \/ loop \in Requests /\ loop' = None
                  /\ (Rest(loop) = <<>> \/ (Wait(loop) /\ at[loop] = "get"))
    BY <1>6, OthersMove DEF Others
  <2>2. CASE loop' = loop
    <3>1. loop # None => Rest(loop)' = Rest(loop)
      <4> SUFFICES ASSUME loop # None PROVE Rest(loop)' = Rest(loop)
        OBVIOUS
      <4>1. PICK t \in Requests : t = loop
        BY <1>0
      <4>2. Rest(t)' = Rest(t)
        BY <1>0, <2>1
      <4> QED BY <2>2, <4>1, <4>2
    <3> QED BY <1>2, <2>1, <2>2, <3>1
  <2>3. CASE loop \in Requests /\ loop' = None
                 /\ (Rest(loop) = <<>> \/ (Wait(loop) /\ at[loop] = "get"))
    <3>1. ~In(<<"track", J>>, Rest(loop))
      <4>1. CASE Rest(loop) = <<>>
        BY <4>1, InNone
      <4>2. CASE at[loop] = "get"
        <5>1. PICK t \in Requests : t = loop
          BY <2>3
        <5>2. Rest(t) = prog[t] /\ prog'[t] = prog[t]
          BY <1>0, <2>1, <4>2, <5>1 DEF Rest
        <5>3. \A i \in DOMAIN prog'[t] : Aside(prog'[t][i])
          BY <1>0, <2>3 DEF Base, Programs, Aside, IsNote
        <5> QED BY <5>1, <5>2, <5>3 DEF In, Aside
      <4> QED BY <2>3, <4>1, <4>2
    <3> QED BY <1>02, <2>1, <3>1 DEF HandoffKnown
  <2> QED BY <2>1, <2>2, <2>3
<1>7. ASSUME NEW p \in Procs, Fill(p) PROVE HandoffKnown'
  <2>1. View' = View /\ loop' = loop /\ \A q \in Procs : Rest(q)' = Rest(q)
    BY <1>7, FillDoes
  <2>2. loop # None => Rest(loop)' = Rest(loop)
    BY <1>0, <2>1
  <2> QED BY <1>2, <2>1, <2>2
<1> QED BY <1>1, <1>3, <1>4, <1>5, <1>6, <1>7, Moves

(* Nobody begins or ends to write unless he cuts the file or fills it.      *)
LEMMA NoNewFill ==
    ASSUME Base, Next, Undisturbed', \A p \in Procs : ~Cut(p) /\ ~Fill(p), NEW q \in Procs
    PROVE  at'[q] = "fill" <=> at[q] = "fill"
<1>0. Requests \subseteq Procs /\ Daemon \in Procs /\ DOMAIN at = Procs
  BY DEF Procs, Base, TypeOK
<1>1. ASSUME NEW p \in Procs, Rewrites(p) PROVE at'[q] = "fill" <=> at[q] = "fill"
  BY <1>1, RewritesDo
<1>2. ASSUME NEW t \in Requests, Unlink(t) PROVE at'[q] = "fill" <=> at[q] = "fill"
  BY <1>2 DEF Unlink, Skip
<1>3. ASSUME NEW t \in Requests, Starts(t) PROVE at'[q] = "fill" <=> at[q] = "fill"
  <2>1. at[t] = "idle" /\ at' = [at EXCEPT ![t] = "get"]
    BY <1>3, StartsDo DEF Begins, Base
  <2> QED BY <1>0, <2>1
<1>4. ASSUME NEW t \in Requests, Returns(t) \/ Wait(t) PROVE at'[q] = "fill" <=> at[q] = "fill"
  <2>1. at[t] \in {"wait", "get"} /\ \E a \in {"get", "wait"} : at' = [at EXCEPT ![t] = a]
    BY <1>4 DEF Returns, Continues, Interrupted, Answered, Resumes, Wait, Doing
  <2> QED BY <1>0, <2>1
<1>5. ASSUME NEW p \in Procs, Prepares(p) PROVE at'[q] = "fill" <=> at[q] = "fill"
  <2>1. at[p] # "fill" /\ \E a \in {"load", "cut"} : at' = [at EXCEPT ![p] = a]
    BY <1>5 DEF Prepares, Put, Touch, Load, AppendTurn, Track, WillPut, Doing
  <2> QED BY <1>0, <2>1
<1>6. ASSUME NEW p \in Procs, Ends(p) PROVE at'[q] = "fill" <=> at[q] = "fill"
  <2>1. at[p] = "get" /\ \E a \in {"idle", "over"} : at' = [at EXCEPT ![p] = a]
    BY <1>6 DEF Ends
  <2> QED BY <1>0, <2>1
<1>7. ASSUME NEW j \in Jobs, DaemonFinishes(j) PROVE at'[q] = "fill" <=> at[q] = "fill"
  BY <1>0, <1>7 DEF DaemonFinishes
<1>8. ASSUME NEW j \in Jobs, CommandFinishes(j) PROVE at'[q] = "fill" <=> at[q] = "fill"
  BY <1>8 DEF CommandFinishes, work
<1> QED BY <1>1, <1>2, <1>3, <1>4, <1>5, <1>6, <1>7, <1>8, Moves DEF Others

(* Of the daemon, only a note that it puts in the chat precedes a registry. *)
LEMMA DaemonTail ==
    ASSUME Base, prog[Daemon] # <<>>, NEW x, In(x, Tail(prog[Daemon])), x[1] = "registry"
    PROVE  Head(prog[Daemon])[1] = "turn"
<1> DEFINE s == prog[Daemon]
<1>0. DaemonShaped(s)
  BY DEF Base, Programs, ProgGood, Procs
<1>1. CASE \E j \in Jobs : s = << <<"ingest", {j}>>, <<"deliver", j>> >>
  <2>1. PICK j \in Jobs : s = << <<"ingest", {j}>>, <<"deliver", j>> >>
    BY <1>1
  <2> DEFINE a == <<"ingest", {j}>>
             b == <<"deliver", j>>
  <2>2. b[1] = "deliver"
    OBVIOUS
  <2> HIDE DEF a, b
  <2>3. Tail(s) = <<b>>
    <3>1. s = <<a, b>>
      BY <2>1 DEF a, b
    <3> QED BY <3>1
  <2>4. x = b
    BY <2>3, InOne
  <2> QED BY <2>2, <2>4
<1>2. CASE \E j \in Jobs, r \in Registries : s = << <<"registry", r>>, <<"deliver", j>> >>
  <2>1. PICK j \in Jobs, r \in Registries : s = << <<"registry", r>>, <<"deliver", j>> >>
    BY <1>2
  <2> DEFINE a == <<"registry", r>>
             b == <<"deliver", j>>
  <2>2. b[1] = "deliver"
    OBVIOUS
  <2> HIDE DEF a, b
  <2>3. Tail(s) = <<b>>
    <3>1. s = <<a, b>>
      BY <2>1 DEF a, b
    <3> QED BY <3>1
  <2>4. x = b
    BY <2>3, InOne
  <2> QED BY <2>2, <2>4
<1>3. CASE (\E j \in Jobs : s = << <<"deliver", j>> >>)
               \/ (\E r \in Registries : s = << <<"registry", r>> >>)
  <2>1. \A a : Tail(<<a>>) = <<>>
    OBVIOUS
  <2>2. \E a : s = <<a>>
    BY <1>3
  <2>3. Tail(s) = <<>>
    BY <2>1, <2>2
  <2> QED BY <2>3, InNone
<1>4. CASE \E j \in Jobs, r \in Registries : s
               = << <<"turn", <<"note", j>> >>, <<"registry", r>> >>
  BY <1>4
<1> QED BY <1>0, <1>1, <1>2, <1>3, <1>4 DEF DaemonShaped

(* So who writes a registry loses no tracked job: nobody tracked one since  *)
(* he read it.                                                              *)
LEMMA KeptStays ==
    ASSUME Base, Base', FileOk, FileOk', TrackedKept, Next, Undisturbed'
    PROVE  TrackedKept'
<1>0. /\ prog \in [Procs -> Seq(Ops)] /\ View \in Payloads /\ loop \in Requests \cup {None}
      /\ Requests \subseteq Procs /\ Daemon \notin Requests /\ Daemon \in Procs
  BY SessionAssumption, ViewFine DEF Procs, Base, TypeOK
<1> SUFFICES ASSUME NEW q \in Procs, NEW r \in Registries, Alone(q)',
                    In(<<"registry", r>>, Rest(q))'
             PROVE  View'.registry.tracked \subseteq r.tracked
  BY DEF TrackedKept
<1> DEFINE x == <<"registry", r>>
<1>01. In(x, Rest(q)')
  OBVIOUS
<1>02. x[1] = "registry"
  OBVIOUS
<1>03. ASSUME Alone(q), In(x, Rest(q)), View'.registry.tracked = View.registry.tracked
       PROVE  View'.registry.tracked \subseteq r.tracked
  BY <1>03 DEF TrackedKept
<1>04. (\A p \in Procs : ~Cut(p) /\ ~Fill(p)) => Alone(q)
  BY NoNewFill DEF Alone
<1> HIDE DEF x
<1>1. ASSUME NEW p \in Procs, Cut(p) PROVE View'.registry.tracked \subseteq r.tracked
  <2> DEFINE s == prog[p]
             h == Head(s)
  <2>1. /\ s # <<>> /\ Rest(p) = s /\ Rest(p)' = Tail(s) /\ s \in Seq(Ops)
        /\ View' = Applied(View, h) /\ h \in Ops /\ Idle(p)
        /\ h[1] \in Fields \cup {"touch", "turn", "track"}
    BY <1>0, <1>1, CutDoes
  <2>2. q = p
    <3>1. at'[p] = "fill"
      BY <1>1 DEF Cut, Base, TypeOK
    <3> QED BY <3>1 DEF Alone
  <2>3. In(x, Tail(s)) /\ In(x, s)
    BY <1>01, <2>1, <2>2, InTail
  <2>4. p = Daemon
    <3> SUFFICES ASSUME p \in Requests PROVE FALSE
      BY DEF Procs
    <3>1. Shaped(p, s)
      BY <1>0, <2>1 DEF Base, Programs, ProgGood
    <3>2. Before(h, x)
      BY <2>1, <2>3, <3>1, HeadBefore
    <3> QED BY <1>02, <3>2 DEF Before
  <2>5. h[1] = "turn"
    BY <1>02, <2>1, <2>3, <2>4, DaemonTail
  <2>6. View'.registry = View.registry
    BY <1>0, <2>1, <2>5, AppliedParts
  <2>7. Alone(q)
    BY <2>1, <2>2, NotWorking DEF Alone, Idle
  <2> QED BY <1>03, <2>1, <2>2, <2>3, <2>6, <2>7
<1>2. ASSUME NEW p \in Procs, Fill(p) PROVE View'.registry.tracked \subseteq r.tracked
  <2>1. View' = View /\ Rest(q)' = Rest(q) /\ Idle(p)
    BY <1>2, FillDoes
  <2>2. CASE q = p
    <3>1. Alone(q)
      BY <2>1, <2>2, NotWorking DEF Alone, Idle
    <3> QED BY <1>01, <1>03, <2>1, <3>1
  <2>3. CASE q # p
    <3>1. ~Working(q)
      BY <2>1, <2>3 DEF Idle
    <3>2. In(x, prog[q])
      BY <1>01, <2>1, RestIn
    <3> QED BY <1>02, <3>1, <3>2, IdleRest DEF Aside
  <2> QED BY <2>2, <2>3
<1>3. ASSUME NEW p \in Requests, Unlink(p) PROVE View'.registry.tracked \subseteq r.tracked
  <2>1. View' = Default
    BY <1>0, <1>3, UnlinkDoes
  <2> QED BY <2>1 DEF Default
<1> SUFFICES ASSUME \A p \in Procs : ~Cut(p) /\ ~Fill(p)
             PROVE  View'.registry.tracked \subseteq r.tracked
  BY <1>1, <1>2
<1>4. ASSUME NEW p \in Requests, Starts(p) \/ Returns(p)
      PROVE  View'.registry.tracked \subseteq r.tracked
  <2>1. View' = View /\ OthersLeft(p)
    BY <1>4, BeginsTo
  <2>2. PICK b \in Seq(Ops) : Rest(p)' = b /\ \A y : In(y, b)
                 => y \in Ops /\ (y \in NewOps \/ (Aside(y) /\ In(y, prog[p])))
    BY <1>4, BeginsTo
  <2>3. CASE q = p
    <3>1. x \in NewOps \/ Aside(x)
      BY <1>01, <2>2, <2>3
    <3> QED BY <1>02, <3>1 DEF NewOps, Aside
  <2>4. CASE q # p
    <3>1. Rest(q)' = Rest(q)
      BY <2>1, <2>4 DEF OthersLeft
    <3> QED BY <1>01, <1>03, <1>04, <2>1, <3>1
  <2> QED BY <2>3, <2>4
<1>5. ASSUME NEW p \in Procs, Rewrites(p), ~Unlink(p), ~EmitFails(p)
      PROVE  View'.registry.tracked \subseteq r.tracked
  <2>1. View' = View /\ OthersLeft(p) /\ Rest(p) = prog[p] /\ Rest(p)' = prog'[p] /\ at[p] = "get"
    BY <1>0, <1>5, RewritesMove
  <2>2. CASE q = p
    <3>1. In(x, prog'[p])
      BY <1>01, <2>1, <2>2
    <3>2. In(x, prog[p]) \/ Fresh(x)
      BY <1>02, <1>5, <3>1, RewriteIn
    <3>3. CASE In(x, prog[p])
      BY <1>03, <1>04, <2>1, <2>2, <3>3
    <3>4. CASE Fresh(x)
      <4>1. x[2].tracked = Contents.registry.tracked
        BY <1>02, <3>4 DEF Fresh, IsNote
      <4>2. NoFill
        BY <1>04, <2>1, <2>2 DEF Alone, NoFill
      <4>3. Contents = View
        BY <4>2, ContentsIs
      <4>4. x[2] = r
        BY DEF x
      <4> QED BY <2>1, <4>1, <4>3, <4>4
    <3> QED BY <3>2, <3>3, <3>4
  <2>3. CASE q # p
    <3>1. Rest(q)' = Rest(q)
      BY <2>1, <2>3 DEF OthersLeft
    <3> QED BY <1>01, <1>03, <1>04, <2>1, <3>1
  <2> QED BY <2>2, <2>3
<1>6. CASE Others
  <2>1. /\ View' = View /\ \A p \in Procs \ {Daemon} : Rest(p)' = Rest(p)
        /\ \/ Rest(Daemon)' = Rest(Daemon)
           \/ \E j \in Jobs : Rest(Daemon)' = << <<"ingest", {j}>>, <<"deliver", j>> >>
    BY <1>6, OthersMove DEF Others
  <2>2. CASE Rest(q)' = Rest(q)
    BY <1>01, <1>03, <1>04, <2>1, <2>2
  <2>3. CASE \E j \in Jobs : Rest(q)' = << <<"ingest", {j}>>, <<"deliver", j>> >>
    <3>1. PICK j \in Jobs : Rest(q)' = << <<"ingest", {j}>>, <<"deliver", j>> >>
      BY <2>3
    <3> DEFINE a == <<"ingest", {j}>>
               b == <<"deliver", j>>
    <3>2. a[1] = "ingest"
      OBVIOUS
    <3>3. b[1] = "deliver"
      OBVIOUS
    <3>4. Rest(q)' = <<a, b>>
      BY <3>1
    <3> HIDE DEF a, b
    <3>5. x = a \/ x = b
      BY <1>01, <3>4, InTwo
    <3> QED BY <1>02, <3>2, <3>3, <3>5
  <2> QED BY <2>1, <2>2, <2>3
<1> QED BY <1>3, <1>4, <1>5, <1>6, Moves

(* The three together.                                                      *)
LEMMA HandoffStays ==
    ASSUME Base, Base', FileOk, FileOk', HandoffOk, Next, Undisturbed'
    PROVE  HandoffOk'
BY KnownStays, TiesStay, KeptStays DEF HandoffOk

-----------------------------------------------------------------------------
(* A job is noted once                                                      *)

(* A completion that is ingested and not surfaced.                          *)
Unsaid(j) == j \in View.registry.seen \ View.registry.told

(* A registry that knows as much of j as the file.                          *)
Derived(r, j) ==
    (OkReg(View.registry, j) => OkReg(r, j)) /\ (Lacks(View.registry, j) => Lacks(r, j))

(* What keeps the notes of j as they are to be.                             *)
LEMMA NoteKeeps ==
    ASSUME NEW j \in Jobs, NoteFine(j), View'.registry = View.registry, notes'[j] = notes[j],
           (sent[j] = None \/ Tracks(j))' => sent[j] = None \/ Tracks(j),
           \A q \in Procs, r \in Registries :
              In(<<"registry", r>>, Rest(q))' => In(<<"registry", r>>, Rest(q)) \/ Derived(r, j),
           Delivering(j) => Delivering(j)',
           \A t \in Requests : Pends(t, j)' =>
              \/ Pends(t, j) /\ (WillTell(t, j) => WillTell(t, j)')
              \/ Unsaid(j) /\ WillTell(t, j)',
           Pends(Daemon, j)' => Pends(Daemon, j) \/ (Unsaid(j) /\ ~Delivering(j))
    PROVE  NoteFine(j)'
<1>0. Requests \subseteq Procs /\ Daemon \in Procs /\ Procs = Requests \cup {Daemon}
  BY DEF Procs
<1>1. Unsaid(j) => notes[j] = 0 \/ Delivering(j)
  BY DEF Unsaid, NoteFine, Settled, OkReg
<1>2. notes'[j] \in {0, 1}
  BY DEF NoteFine
<1>3. ASSUME Settled(j) PROVE Settled(j)'
  <2>1. OkReg(View.registry, j)'
    BY <1>3 DEF Settled, OkReg
  <2>2. ASSUME NEW q \in Procs, NEW r \in Registries, In(<<"registry", r>>, Rest(q))'
        PROVE  OkReg(r, j)
    BY <1>3, <2>2 DEF Settled, Derived
  <2>3. \A q \in Procs, r \in Registries : In(<<"registry", r>>, Rest(q))' => OkReg(r, j)
    BY <2>2
  <2> QED BY <2>1, <2>3 DEF Settled
<1>4. notes'[j] = 1 => Settled(j)' \/ Delivering(j)'
  BY <1>3 DEF NoteFine
<1>5. ASSUME NEW t \in Requests, Pends(t, j)'
      PROVE  (notes'[j] = 0 \/ Delivering(j)') /\ WillTell(t, j)'
  BY <1>1, <1>5 DEF NoteFine
<1>6. Pends(Daemon, j)' => notes'[j] = 0
  BY <1>1 DEF NoteFine
<1>7. ASSUME Unheard(j) PROVE Unheard(j)'
  <2>1. Lacks(View.registry, j) /\ notes[j] = 0
    BY <1>7 DEF Unheard
  <2>2. Lacks(View.registry, j)'
    BY <2>1 DEF Lacks
  <2>3. ~Unsaid(j)
    BY <2>1 DEF Lacks, Unsaid
  <2>4. \A q \in Procs : ~Pends(q, j)
    BY <1>7 DEF Unheard
  <2>5. \A q \in Procs : ~Pends(q, j)'
    BY <1>0, <2>3, <2>4
  <2>6. ASSUME NEW q \in Procs, NEW r \in Registries, In(<<"registry", r>>, Rest(q))'
        PROVE  Lacks(r, j)
    BY <1>7, <2>1, <2>6 DEF Unheard, Derived
  <2>7. \A q \in Procs, r \in Registries : In(<<"registry", r>>, Rest(q))' => Lacks(r, j)
    BY <2>6
  <2> QED BY <2>1, <2>2, <2>5, <2>7 DEF Unheard
<1>8. (sent[j] = None \/ Tracks(j))' => Unheard(j)'
  BY <1>7 DEF NoteFine
<1> QED BY <1>2, <1>4, <1>5, <1>6, <1>8 DEF NoteFine

(* Nobody but p has a note to put in the chat, a registry or a job to       *)
(* track, while p writes.                                                   *)
LEMMA IdleHas ==
    ASSUME Base, NEW p \in Procs, Idle(p), NEW q \in Procs, q # p
    PROVE  /\ \A j : ~Pends(q, j) /\ ~In(<<"track", j>>, Rest(q))
           /\ \A r : ~In(<<"registry", r>>, Rest(q))
           /\ q = Daemon => prog[q] = <<>> /\ Rest(q) = <<>> /\ \A j : ~Delivering(j)
<1>1. ~Working(q) /\ Rest(q) = prog[q]
  <2>1. ~Working(q)
    BY DEF Idle
  <2> QED BY <2>1, NotWorking DEF Rest
<1>2. \A x : In(x, prog[q]) => q # Daemon /\ Aside(x)
  BY <1>1, IdleRest
<1>3. ASSUME NEW j PROVE ~Pends(q, j) /\ ~In(<<"track", j>>, Rest(q))
  <2>1. ~Aside(Note(j)) /\ ~Aside(<<"track", j>>)
    BY DEF Aside, Note, IsNote
  <2> QED BY <1>1, <1>2, <2>1 DEF Pends
<1>4. ASSUME NEW r PROVE ~In(<<"registry", r>>, Rest(q))
  <2>1. ~Aside(<<"registry", r>>)
    BY DEF Aside
  <2> QED BY <1>1, <1>2, <2>1
<1>5. q = Daemon => prog[q] = <<>>
  BY <1>1 DEF Working, Base, AtOk
<1> QED BY <1>1, <1>3, <1>4, <1>5 DEF Delivering, Tells

(* So they are when the file is cut,                                        *)
LEMMA NoteCut ==
    ASSUME Base, FileOk, FileOk', Ties, Next, Undisturbed', NEW p \in Procs, Cut(p),
           NEW j \in Jobs, NoteFine(j)
    PROVE  NoteFine(j)'
<1> DEFINE s == prog[p]
           h == Head(s)
<1>0. /\ prog \in [Procs -> Seq(Ops)] /\ View \in Payloads /\ View.registry \in Registries
      /\ Requests \subseteq Procs /\ Daemon \notin Requests /\ Daemon \in Procs
      /\ Procs = Requests \cup {Daemon}
      /\ notes[j] \in {0, 1}
  BY SessionAssumption, ViewFine DEF Procs, Base, TypeOK, Payloads, NoteFine
<1>1. /\ s # <<>> /\ Rest(p) = s /\ Rest(p)' = Tail(s) /\ OthersLeft(p) /\ s \in Seq(Ops)
      /\ View' = Applied(View, h) /\ h \in Ops /\ Idle(p)
      /\ h[1] \in Fields \cup {"touch", "turn", "track"}
      /\ UNCHANGED <<sent, notes, prog>>
  BY <1>0, CutDoes DEF queue
<1>2. \A x : In(x, s) <=> x = h \/ In(x, Tail(s))
  BY <1>1, InTail
<1>3. In(h, s)
  BY <1>2
<1>4. \A q \in Procs : q # p =>
         /\ ~Pends(q, j) /\ ~In(<<"track", j>>, Rest(q)) /\ \A r : ~In(<<"registry", r>>, Rest(q))
         /\ q = Daemon => prog[q] = <<>> /\ Rest(q) = <<>> /\ ~Delivering(j)
  BY <1>1, IdleHas
<1>5. \A q \in Procs : q # p => Rest(q)' = Rest(q)
  BY <1>1 DEF OthersLeft
<1>6. \A q \in Procs : \A x : In(x, Rest(q)') => In(x, Rest(q))
  BY <1>1, <1>2, <1>5
<1>7. p \in Requests => \A r : ~In(<<"registry", r>>, Tail(s))
  <2> SUFFICES ASSUME p \in Requests, NEW r, In(<<"registry", r>>, Tail(s)) PROVE FALSE
    OBVIOUS
  <2>1. Shaped(p, s)
    BY <1>0, <1>1 DEF Base, Programs, ProgGood
  <2>2. Before(h, <<"registry", r>>)
    BY <1>1, <2>1, HeadBefore
  <2> QED BY <2>2 DEF Before
<1>8. /\ h[1] = "registry" => View'.registry = h[2] /\ h = <<"registry", h[2]>>
             /\ h[2] \in Registries
      /\ h[1] = "track" => /\ View'.registry = [View.registry EXCEPT !.tracked = @ \cup {h[2]}]
                           /\ h = <<"track", h[2]>>
      /\ h[1] \notin {"registry", "track"} => View'.registry = View.registry
  BY <1>0, <1>1, AppliedParts, OpIs, OpsAre
<1>9. Tracks(j)' => Tracks(j)
  BY <1>0, <1>6 DEF Tracks
<1>10. h = <<"track", j>> => Tracks(j) /\ sent[j] # None /\ ~Tracks(j)'
  <2> SUFFICES ASSUME h = <<"track", j>> PROVE Tracks(j) /\ sent[j] # None /\ ~Tracks(j)'
    OBVIOUS
  <2>0. h[1] = "track" /\ h[2] = j
    <3>1. h[1] = "track"
      OBVIOUS
    <3>2. h[2] = j
      OBVIOUS
    <3> QED BY <3>1, <3>2
  <2>1. p \in Requests
    <3>1. p = Daemon => h[1] \in {"ingest", "deliver", "registry", "turn"}
      BY <1>0, <1>1, <1>3, RestIn
    <3> QED BY <1>0, <2>0, <3>1
  <2>2. ~Untied(s)
    BY <1>3, <2>0, UntiedIs DEF Loose
  <2>3. PICK k \in Jobs : sent[k] # None /\ (Tracking(s, k) \/ Handing(s, k))
    BY <1>1, <2>1, <2>2 DEF Ties, Tied
  <2>4. ~Handing(s, k)
    BY <2>0 DEF Handing
  <2>5. k = j /\ Untied(Tail(s))
    <3>1. h = <<"track", k>> /\ Untied(Tail(s))
      BY <2>3, <2>4 DEF Tracking
    <3>2. h[2] = k
      BY <3>1
    <3> QED BY <2>0, <3>1, <3>2
  <2>6. ~In(<<"track", j>>, Tail(s))
    BY <2>5, UntiedIs DEF Loose
  <2>7. ~Tracks(j)'
    BY <1>0, <1>1, <1>4, <1>5, <2>6 DEF Tracks
  <2> QED BY <1>1, <1>3, <2>1, <2>3, <2>5, <2>7 DEF Tracks
<1>11. ASSUME notes[j] = 1 PROVE Settled(j)'
  <2>1. CASE Settled(j)
    <3>1. OkReg(View.registry, j) /\ \A q \in Procs,
              r \in Registries : In(<<"registry", r>>, Rest(q)) => OkReg(r, j)
      BY <2>1 DEF Settled
    <3>2. \A q \in Procs, r \in Registries : In(<<"registry", r>>, Rest(q)') => OkReg(r, j)
      BY <1>6, <3>1
    <3>3. OkReg(View'.registry, j)
      <4>1. CASE h[1] = "registry"
        BY <1>1, <1>3, <1>8, <3>1, <4>1
      <4>2. CASE h[1] = "track"
        <5>1. h[2] # j
          <6>1. ~Unheard(j)
            BY <1>11 DEF Unheard
          <6> QED BY <1>8, <1>10, <4>2, <6>1 DEF NoteFine
        <5> QED BY <1>0, <1>8, <3>1, <4>2, <5>1 DEF OkReg, Registries
      <4>3. CASE h[1] \notin {"registry", "track"}
        BY <1>8, <3>1, <4>3
      <4> QED BY <4>1, <4>2, <4>3
    <3> QED BY <3>2, <3>3 DEF Settled
  <2>2. CASE Delivering(j)
    <3>1. p = Daemon
      BY <1>0, <1>4, <2>2
    <3>2. h[1] = "registry" /\ j \in h[2].told
      BY <1>1, <2>2, <3>1 DEF Delivering, Tells
    <3>3. OkReg(View'.registry, j)
      BY <1>8, <3>2 DEF OkReg
    <3>4. \A q \in Procs, r \in Registries : ~In(<<"registry", r>>, Rest(q)')
      <4> SUFFICES ASSUME NEW q \in Procs, NEW r \in Registries, In(<<"registry", r>>, Rest(q)')
                   PROVE  FALSE
        OBVIOUS
      <4>1. q = p
        BY <1>4, <1>5
      <4>2. In(<<"registry", r>>, Tail(prog[Daemon]))
        BY <1>1, <3>1, <4>1
      <4>3. Head(prog[Daemon])[1] = "turn"
        <5>1. PICK x : x = <<"registry", r>>
          OBVIOUS
        <5>2. x[1] = "registry"
          BY <5>1
        <5> QED BY <1>1, <3>1, <4>2, <5>1, <5>2, DaemonTail
      <4> QED BY <3>1, <3>2, <4>3
    <3> QED BY <3>3, <3>4 DEF Settled
  <2> QED BY <1>11, <2>1, <2>2 DEF NoteFine
<1>12. ASSUME NEW t \in Requests, Pends(t, j)' PROVE notes'[j] = 0 /\ WillTell(t, j)'
  <2>1. Pends(t, j)
    BY <1>1, <1>12 DEF Pends
  <2>2. t = p /\ p \in Requests /\ p # Daemon
    BY <1>0, <1>4, <2>1
  <2>3. ~Delivering(j)
    BY <1>0, <1>4, <2>2
  <2>4. notes[j] = 0 /\ WillTell(t, j)
    BY <2>1, <2>3 DEF NoteFine
  <2>5. j \in View'.registry.told
    <3>1. CASE h[1] = "registry"
      <4>1. j \in h[2].told
        BY <1>1, <2>2, <2>4, <3>1 DEF WillTell, Tells
      <4> QED BY <1>8, <3>1, <4>1
    <3>2. CASE h[1] # "registry"
      <4>1. j \in View.registry.told
        BY <1>1, <2>2, <2>4, <3>2 DEF WillTell
      <4> QED BY <1>0, <1>8, <3>2, <4>1 DEF Registries
    <3> QED BY <3>1, <3>2
  <2>6. ~(Rest(t)' # <<>> /\ Head(Rest(t)')[1] = "registry")
    <3> SUFFICES ASSUME Tail(s) # <<>>, Head(Tail(s))[1] = "registry" PROVE FALSE
      BY <1>1, <2>2
    <3>1. Tail(s) \in Seq(Ops)
      BY <1>1, Shorter
    <3>2. Head(Tail(s)) \in Ops /\ In(Head(Tail(s)), Tail(s))
      BY <3>1, Shorter, HeadIn
    <3>3. Head(Tail(s)) = <<"registry", Head(Tail(s))[2]>>
      BY <3>2, OpIs
    <3> QED BY <1>7, <2>2, <3>2, <3>3
  <2> QED BY <1>1, <2>4, <2>5, <2>6 DEF WillTell
<1>13. ASSUME sent'[j] = None \/ Tracks(j)' PROVE Unheard(j)'
  <2>1. Unheard(j)
    BY <1>1, <1>9, <1>13 DEF NoteFine
  <2>2. /\ Lacks(View.registry, j) /\ notes[j] = 0 /\ \A q \in Procs : ~Pends(q, j)
        /\ \A q \in Procs, r \in Registries : In(<<"registry", r>>, Rest(q)) => Lacks(r, j)
    BY <2>1 DEF Unheard
  <2>3. Lacks(View'.registry, j)
    <3>1. CASE h[1] = "registry"
      BY <1>1, <1>3, <1>8, <2>2, <3>1
    <3>2. CASE h[1] = "track"
      <4>1. h[2] # j
        BY <1>1, <1>8, <1>10, <1>13, <3>2
      <4> QED BY <1>0, <1>8, <2>2, <3>2, <4>1 DEF Lacks, Registries
    <3>3. CASE h[1] \notin {"registry", "track"}
      BY <1>8, <2>2, <3>3
    <3> QED BY <3>1, <3>2, <3>3
  <2>4. \A q \in Procs, r \in Registries : In(<<"registry", r>>, Rest(q)') => Lacks(r, j)
    BY <1>6, <2>2
  <2>5. \A q \in Procs : ~Pends(q, j)'
    BY <1>1, <2>2 DEF Pends
  <2> QED BY <1>1, <2>2, <2>3, <2>4, <2>5 DEF Unheard
<1>14. Pends(Daemon, j)' => notes'[j] = 0
  BY <1>1 DEF NoteFine, Pends
<1> QED BY <1>0, <1>1, <1>11, <1>12, <1>13, <1>14 DEF NoteFine

(* After a note of a request comes neither a registry nor another note.     *)
LEMMA AfterNote ==
    ASSUME Base, NEW t \in Requests, prog[t] # <<>>, NEW x, In(x, Tail(prog[t])),
           IsNote(Head(prog[t])) \/ Head(prog[t])[1] = "unlink"
    PROVE  x[1] # "registry" /\ ~IsNote(x)
<1>1. prog[t] \in Seq(Ops) /\ Shaped(t, prog[t])
  BY SessionAssumption DEF Base, TypeOK, Programs, ProgGood, Procs
<1>2. Before(Head(prog[t]), x)
  BY <1>1, HeadBefore
<1> QED BY <1>2 DEF Before, IsNote

(* The daemon's note is followed by the registry that marks it.             *)
LEMMA DaemonNotes ==
    ASSUME Base, prog[Daemon] # <<>>, NEW j \in Jobs, Head(prog[Daemon]) = Note(j)
    PROVE  Tells(Tail(prog[Daemon]), j) /\ ~In(Note(j), Tail(prog[Daemon]))
<1> DEFINE s == prog[Daemon]
<1>0. DaemonShaped(s)
  BY DEF Base, Programs, ProgGood, Procs
<1>1. Head(s)[1] = "turn" /\ Head(s)[2] = <<"note", j>> /\ Head(s)[2][2] = j
  BY DEF Note
<1>2. PICK k \in Jobs, r \in Registries :
          k \in r.told /\ s = << <<"turn", <<"note", k>> >>, <<"registry", r>> >>
  BY <1>0, <1>1 DEF DaemonShaped
<1> DEFINE a == <<"turn", <<"note", k>> >>
           b == <<"registry", r>>
<1>3. a[2] = <<"note", k>> /\ a[2][2] = k
  OBVIOUS
<1>4. b[1] = "registry"
  OBVIOUS
<1>5. b[2] = r
  OBVIOUS
<1>6. s = <<a, b>>
  BY <1>2
<1> HIDE DEF a, b
<1>7. Head(s) = a /\ Tail(s) = <<b>> /\ Tail(s) # <<>> /\ Head(Tail(s)) = b
  BY <1>6
<1>8. k = j
  BY <1>1, <1>3, <1>7
<1>9. Note(j) # b
  BY <1>4 DEF Note
<1> QED BY <1>2, <1>4, <1>5, <1>7, <1>8, <1>9, InOne DEF Tells

(* filled                                                                   *)
LEMMA NoteFills ==
    ASSUME Base, FileOk, FileOk', Next, Undisturbed', NEW p \in Procs, Fill(p),
           NEW j \in Jobs, NoteFine(j)
    PROVE  NoteFine(j)'
<1> DEFINE s == prog[p]
           h == Head(s)
<1>0. /\ prog \in [Procs -> Seq(Ops)] /\ notes \in [Jobs -> Nat]
      /\ Requests \subseteq Procs /\ Daemon \notin Requests /\ Daemon \in Procs
      /\ Procs = Requests \cup {Daemon}
      /\ notes[j] \in {0, 1}
  BY SessionAssumption DEF Procs, Base, TypeOK, NoteFine
<1>1. /\ View' = View /\ Idle(p) /\ s # <<>> /\ s \in Seq(Ops) /\ prog'[p] = Tail(s)
      /\ Rest(p) = Tail(s)
      /\ \A q \in Procs : Rest(q)' = Rest(q) /\ (q # p => prog'[q] = prog[q])
  BY <1>0, FillDoes
<1>2. \A x : In(x, s) <=> x = h \/ In(x, Tail(s))
  BY <1>1, InTail
<1>3. \A q \in Procs : Pends(q, j)' => Pends(q, j)
  BY <1>1, <1>2 DEF Pends
<1>4. \A q \in Procs : q # p =>
         /\ ~Pends(q, j) /\ \A r : ~In(<<"registry", r>>, Rest(q))
         /\ q = Daemon => prog[q] = <<>> /\ Rest(q) = <<>> /\ ~Delivering(j)
  BY <1>1, IdleHas
<1>5. UNCHANGED sent
  BY DEF Fill, queue
<1>6. \A k \in Jobs : h = Note(k) <=> h[1] = "turn" /\ h[2] = <<"note", k>>
  <2> TAKE k \in Jobs
  <2>1. h = Note(k) => h[1] = "turn" /\ h[2] = <<"note", k>>
    BY DEF Note
  <2>2. h \in Ops
    BY <1>1, Shorter
  <2>3. h[1] = "turn" => h = <<"turn", h[2]>>
    BY <2>2, OpIs
  <2> QED BY <2>1, <2>3 DEF Note
<1>7. notes'[j] = IF h = Note(j) THEN notes[j] + 1 ELSE notes[j]
  <2>1. CASE h[1] = "turn"
    <3>1. notes' = [k \in Jobs |-> notes[k] + IF h[2] = <<"note", k>> THEN 1 ELSE 0]
      BY <2>1 DEF Fill
    <3>2. notes'[j] = notes[j] + IF h[2] = <<"note", j>> THEN 1 ELSE 0
      BY <3>1
    <3>3. h = Note(j) <=> h[2] = <<"note", j>>
      BY <1>6, <2>1
    <3> QED BY <1>0, <3>2, <3>3
  <2>2. CASE h[1] # "turn"
    <3>1. UNCHANGED notes
      BY <2>2 DEF Fill
    <3> QED BY <1>6, <2>2, <3>1
  <2> QED BY <2>1, <2>2
<1>8. Tracks(j)' <=> Tracks(j)
  BY <1>0, <1>1 DEF Tracks
<1>9. CASE h # Note(j)
  <2>1. \A t \in Requests : WillTell(t, j)' <=> WillTell(t, j)
    BY <1>0, <1>1 DEF WillTell, Tells
  <2>2. Delivering(j)' <=> Delivering(j)
    BY <1>0, <1>1 DEF Delivering, Tells
  <2>3. (sent[j] = None \/ Tracks(j))' => sent[j] = None \/ Tracks(j)
    BY <1>5, <1>8
  <2>4. \A q \in Procs, r \in Registries : In(<<"registry", r>>, Rest(q))'
            => In(<<"registry", r>>, Rest(q))
    BY <1>1
  <2>5. \A t \in Requests : Pends(t, j)' => Pends(t, j)
    BY <1>0, <1>3
  <2>6. Pends(Daemon, j)' => Pends(Daemon, j)
    BY <1>0, <1>3
  <2> QED BY <1>1, <1>7, <1>9, <2>1, <2>2, <2>3, <2>4, <2>5, <2>6, NoteKeeps
<1>10. CASE h = Note(j)
  <2>0. Pends(p, j)
    BY <1>2, <1>10 DEF Pends
  <2>1. ~Unheard(j)
    BY <2>0 DEF Unheard
  <2>2. ~(sent'[j] = None \/ Tracks(j)')
    BY <1>5, <1>8, <2>1 DEF NoteFine
  <2>3. CASE p = Daemon
    <3>1. notes[j] = 0 /\ notes'[j] = 1
      BY <1>7, <1>10, <2>0, <2>3 DEF NoteFine
    <3>2. Tells(Tail(s), j) /\ ~In(Note(j), Tail(s))
      BY <1>1, <1>10, <2>3, DaemonNotes
    <3>3. Delivering(j)'
      <4>1. Rest(Daemon)' = Tail(s)
        BY <1>1, <2>3
      <4> QED BY <3>2, <4>1 DEF Delivering, Tells
    <3>4. ~Pends(Daemon, j)'
      BY <1>1, <2>3, <3>2 DEF Pends
    <3>5. \A t \in Requests : ~Pends(t, j)'
      BY <1>0, <1>3, <1>4, <2>3
    <3> QED BY <2>2, <3>1, <3>3, <3>4, <3>5 DEF NoteFine
  <2>4. CASE p # Daemon
    <3>1. p \in Requests
      BY <1>0, <2>4
    <3>2. notes[j] = 0 /\ WillTell(p, j) /\ notes'[j] = 1
      BY <1>0, <1>4, <1>7, <1>10, <2>0, <2>4, <3>1 DEF NoteFine
    <3>3. \A x : In(x, Tail(s)) => x[1] # "registry" /\ ~IsNote(x)
      <4>1. IsNote(h)
        BY <1>10 DEF IsNote, Note
      <4> QED BY <1>1, <3>1, <4>1, AfterNote
    <3>4. j \in View.registry.told
      <4>1. Tail(s) # <<>> => In(Head(Tail(s)), Tail(s))
        BY <1>1, Shorter, HeadIn
      <4> QED BY <1>1, <3>2, <3>3, <4>1 DEF WillTell
    <3>5. \A q \in Procs, r \in Registries : ~In(<<"registry", r>>, Rest(q)')
      <4> SUFFICES ASSUME NEW q \in Procs, NEW r \in Registries, In(<<"registry", r>>, Rest(q)')
                   PROVE  FALSE
        OBVIOUS
      <4>1. q = p
        BY <1>1, <1>4
      <4>2. <<"registry", r>>[1] # "registry"
        BY <1>1, <3>3, <4>1
      <4> QED BY <4>2
    <3>6. Settled(j)'
      BY <1>1, <3>4, <3>5 DEF Settled, OkReg
    <3>7. \A t \in Requests : ~Pends(t, j)'
      <4> SUFFICES ASSUME NEW t \in Requests, Pends(t, j)' PROVE FALSE
        OBVIOUS
      <4>1. t = p
        BY <1>0, <1>3, <1>4
      <4>2. In(Note(j), Tail(s))
        BY <1>1, <4>1 DEF Pends
      <4> QED BY <3>3, <4>2 DEF IsNote, Note
    <3>8. ~Pends(Daemon, j)'
      BY <1>0, <1>3, <1>4, <2>4
    <3> QED BY <2>2, <3>2, <3>6, <3>7, <3>8 DEF NoteFine
  <2> QED BY <2>3, <2>4
<1> QED BY <1>9, <1>10

(* or removed,                                                              *)
LEMMA NoteUnlinks ==
    ASSUME Base, FileOk, FileOk', Next, Undisturbed', NEW p \in Requests, Unlink(p),
           NEW j \in Jobs, NoteFine(j)
    PROVE  NoteFine(j)'
<1> DEFINE s == prog[p]
<1>0. /\ prog \in [Procs -> Seq(Ops)] /\ p \in Procs /\ p # Daemon
      /\ Requests \subseteq Procs /\ Daemon \notin Requests /\ Daemon \in Procs
      /\ Procs = Requests \cup {Daemon}
      /\ notes[j] \in {0, 1}
  BY SessionAssumption DEF Procs, Base, TypeOK, NoteFine
<1>1. /\ View' = Default /\ Idle(p) /\ s # <<>> /\ s \in Seq(Ops) /\ Head(s)[1] = "unlink"
      /\ Rest(p) = s /\ Rest(p)' = Tail(s) /\ OthersLeft(p)
      /\ prog' = [prog EXCEPT ![p] = Tail(s)] /\ UNCHANGED <<sent, notes>>
  BY <1>0, UnlinkDoes DEF queue
<1>2. \A x : In(x, s) <=> x = Head(s) \/ In(x, Tail(s))
  BY <1>1, InTail
<1>3. \A x : In(x, Tail(s)) => x[1] # "registry" /\ ~IsNote(x)
  BY <1>1, AfterNote
<1>4. \A q \in Procs : q # p =>
         /\ ~Pends(q, j) /\ ~In(<<"track", j>>, Rest(q)) /\ \A r : ~In(<<"registry", r>>, Rest(q))
  BY <1>0, <1>1, IdleHas
<1>5. \A q \in Procs : q # p => Rest(q)' = Rest(q) /\ prog'[q] = prog[q]
  BY <1>0, <1>1 DEF OthersLeft
<1>6. prog'[p] = Tail(s)
  BY <1>0, <1>1
<1>7. \A q \in Procs, r \in Registries : ~In(<<"registry", r>>, Rest(q)')
  <2> SUFFICES ASSUME NEW q \in Procs, NEW r \in Registries, In(<<"registry", r>>, Rest(q)')
               PROVE  FALSE
    OBVIOUS
  <2>1. q = p
    BY <1>4, <1>5
  <2>2. <<"registry", r>>[1] # "registry"
    BY <1>1, <1>3, <2>1
  <2> QED BY <2>2
<1>8. \A q \in Procs : ~Pends(q, j)'
  <2> SUFFICES ASSUME NEW q \in Procs, Pends(q, j)' PROVE FALSE
    OBVIOUS
  <2>1. q = p
    BY <1>4, <1>5 DEF Pends
  <2>2. In(Note(j), Tail(s))
    BY <1>6, <2>1 DEF Pends
  <2> QED BY <1>3, <2>2 DEF IsNote, Note
<1>9. View'.registry.told = {} /\ View'.registry.seen = {} /\ View'.registry.tracked = {}
  BY <1>1 DEF Default
<1>10. Settled(j)'
  BY <1>7, <1>9 DEF Settled, OkReg
<1>11. Tracks(j)' => Tracks(j)
  <2>1. \A q \in Procs : \A x : In(x, Rest(q)') => In(x, Rest(q))
    BY <1>1, <1>2, <1>5
  <2> QED BY <1>0, <2>1 DEF Tracks
<1>12. ASSUME sent'[j] = None \/ Tracks(j)' PROVE Unheard(j)'
  <2>1. notes'[j] = 0
    BY <1>1, <1>11, <1>12 DEF NoteFine, Unheard
  <2> QED BY <1>7, <1>8, <1>9, <2>1 DEF Unheard, Lacks
<1> QED BY <1>0, <1>1, <1>8, <1>10, <1>12 DEF NoteFine

(* A registry with completions ingested knows as much,                      *)
LEMMA DerivedMarked ==
    ASSUME Base, FileOk, NEW new \in SUBSET Jobs, \A k \in new : k \in Contents.registry.tracked,
           NEW j \in Jobs
    PROVE  Derived(Marked(Contents.registry, new), j)
<1>1. Contents.registry \in Registries
  BY ContentsKnown DEF Payloads
<1>2. CASE Contents = View
  BY <1>1, <1>2 DEF Derived, Marked, OkReg, Lacks, Registries
<1>3. CASE Contents = Default
  <2>1. new = {}
    BY <1>3 DEF Default
  <2>2. Marked(Contents.registry, new) = Default.registry
    BY <1>3, <2>1 DEF Marked, Default
  <2>3. ~(j \in Default.registry.tracked \cup Default.registry.seen \cup Default.registry.told)
    BY DEF Default
  <2> QED BY <2>2, <2>3 DEF Derived, OkReg, Lacks
<1> QED BY <1>2, <1>3, ContentsIs

(* and one with a completion surfaced.                                      *)
LEMMA DerivedTold ==
    ASSUME Base, FileOk, NEW k \in Jobs, k \in View.registry.seen, NEW j \in Jobs
    PROVE  Derived(Told(View.registry, k), j)
<1>1. View.registry \in Registries
  BY ViewFine DEF Payloads
<1> QED BY <1>1 DEF Derived, Told, OkReg, Lacks, Registries

(* What a rewriting adds has to do with notes only so far as its author has *)
(* seen what the file says.                                                 *)
NotesTo(p, j) ==
    /\ \A r \in Registries : In(<<"registry", r>>, prog'[p])
           => In(<<"registry", r>>, prog[p]) \/ Derived(r, j)
    /\ In(Note(j), prog'[p]) => IF p = Daemon THEN In(Note(j), prog[p]) \/ Unsaid(j)
                                ELSE Unsaid(j) /\ Tells(prog'[p], j)

(* This is all a rewriting adds.                                            *)
LEMMA RewriteNotes ==
    ASSUME Base, FileOk, NEW p \in Procs, Rewrites(p), ~Unlink(p), ~EmitFails(p), NEW j \in Jobs
    PROVE  NotesTo(p, j)
<1> DEFINE s == prog[p]
           u == prog'[p]
<1>1. s # <<>> /\ s \in Seq(Ops) /\ Tail(s) \in Seq(Ops) /\ Contents.registry \in Registries
          /\ View.registry \in Registries
  BY RewriteForms, Shorter, ContentsKnown, ViewFine DEF Payloads
<1>2. \A y : In(y, Tail(s)) => In(y, s)
  BY <1>1, InTail
<1>3. Head(s)[1] \in {"ingest", "surface", "submitted", "submit", "deliver"}
  BY RewriteForms DEF IngestsTo, SurfacesTo, SubmitsTo, AcceptsTo, MakesJob, DeliversTo
<1>4. p # Daemon => ~In(Note(j), Tail(s))
  <2> SUFFICES ASSUME p # Daemon, In(Note(j), Tail(s)) PROVE FALSE
    OBVIOUS
  <2>1. Shaped(p, s)
    BY DEF Base, Programs, ProgGood
  <2>2. Before(Head(s), Note(j))
    BY <1>1, <2>1, HeadBefore
  <2>3. IsNote(Note(j))
    BY DEF IsNote, Note
  <2> QED BY <1>3, <2>2, <2>3 DEF Before
<1>5. ASSUME \A y : In(y, u) => In(y, Tail(s)) \/ (y[1] # "registry" /\ ~IsNote(y))
      PROVE  NotesTo(p, j)
  <2>1. IsNote(Note(j))
    BY DEF IsNote, Note
  <2>2. In(Note(j), u) => In(Note(j), Tail(s))
    BY <1>5, <2>1
  <2>3. \A r : In(<<"registry", r>>, u) => In(<<"registry", r>>, Tail(s))
    BY <1>5
  <2> QED BY <1>2, <1>4, <2>2, <2>3 DEF NotesTo
<1>6. CASE u = Tail(s)
  BY <1>5, <1>6
<1>7. CASE IngestsTo(p, u)
  <2>1. PICK new \in SUBSET Jobs :
          /\ \A k \in new : k \in Contents.registry.tracked
          /\ \A y : In(y, u) => \/ y = <<"registry", Marked(Contents.registry, new)>>
                                \/ y = <<"touch">> \/ In(y, Tail(s))
    BY <1>1, <1>7, IngestIn
  <2>2. Derived(Marked(Contents.registry, new), j)
    BY <2>1, DerivedMarked
  <2>3. ASSUME NEW r \in Registries, In(<<"registry", r>>, u)
        PROVE  In(<<"registry", r>>, s) \/ Derived(r, j)
    <3>1. \/ <<"registry", r>> = <<"registry", Marked(Contents.registry, new)>>
          \/ <<"registry", r>> = <<"touch">> \/ In(<<"registry", r>>, Tail(s))
      BY <2>1, <2>3
    <3>2. <<"registry", r>> = <<"registry", Marked(Contents.registry, new)>>
              => r = Marked(Contents.registry, new)
      OBVIOUS
    <3>3. <<"registry", r>> # <<"touch">>
      OBVIOUS
    <3> QED BY <1>2, <2>2, <3>1, <3>2, <3>3
  <2>4. In(Note(j), u) => In(Note(j), Tail(s))
    <3>1. Note(j)[1] = "turn"
      BY DEF Note
    <3>2. Note(j) # <<"registry", Marked(Contents.registry, new)>>
      BY <3>1
    <3>3. Note(j) # <<"touch">>
      BY <3>1
    <3> QED BY <2>1, <3>2, <3>3
  <2> QED BY <1>2, <1>4, <2>3, <2>4 DEF NotesTo
<1>8. CASE SurfacesTo(p, u)
  <2>0. p # Daemon
    BY <1>8 DEF SurfacesTo
  <2>1. PICK k \in Jobs :
          /\ k \in View.registry.seen \ View.registry.told
          /\ u # <<>> /\ Head(u) = <<"registry", Told(View.registry, k)>>
          /\ \A y : In(y, u) <=> \/ y = Head(u) \/ y = UserTurn(p) \/ y = Note(k)
                                 \/ In(y, Tail(Tail(s)))
          /\ \A y : In(y, s) <=> \/ y = Head(s) \/ y = UserTurn(p)
                                 \/ In(y, Tail(Tail(s)))
    BY <1>1, <1>8, SurfaceIn
  <2>2. Derived(Told(View.registry, k), j)
    BY <2>1, DerivedTold
  <2>3. ASSUME NEW r \in Registries, In(<<"registry", r>>, u)
        PROVE  In(<<"registry", r>>, s) \/ Derived(r, j)
    <3>1. \/ <<"registry", r>> = <<"registry", Told(View.registry, k)>>
          \/ <<"registry", r>> = Note(k) \/ In(<<"registry", r>>, s)
      BY <2>1, <2>3
    <3>2. <<"registry", r>> = <<"registry", Told(View.registry, k)>> => r = Told(View.registry, k)
      OBVIOUS
    <3>3. <<"registry", r>> # Note(k)
      BY DEF Note
    <3> QED BY <2>2, <3>1, <3>2, <3>3
  <2>4. ASSUME In(Note(j), u) PROVE Unsaid(j) /\ Tells(u, j)
    <3>1. Note(j)[1] = "turn" /\ Note(j)[2] = <<"note", j>> /\ Note(k)[2] = <<"note", k>>
      BY DEF Note
    <3>2. Note(j) # <<"registry", Told(View.registry, k)>>
      BY <3>1
    <3>3. ~In(Note(j), s)
      <4>1. Note(j) # Head(s)
        BY <1>3, <3>1
      <4> QED BY <1>1, <1>4, <2>0, <4>1, InTail
    <3>4. Note(j) = Note(k)
      BY <2>1, <2>4, <3>2, <3>3
    <3>5. j = k
      <4>1. <<"note", j>> = <<"note", k>>
        BY <3>1, <3>4
      <4> QED BY <4>1
    <3>6. Head(u)[1] = "registry" /\ Head(u)[2] = Told(View.registry, k)
      BY <2>1
    <3>7. k \in Told(View.registry, k).told
      BY <1>1 DEF Told, Registries
    <3> QED BY <2>1, <3>5, <3>6, <3>7 DEF Unsaid, Tells
  <2> QED BY <2>0, <2>3, <2>4 DEF NotesTo
<1>9. CASE SubmitsTo(p, u)
  <2>1. PICK h \in Handoffs : \A y : In(y, u) => y = <<"handoff", h>> \/ In(y, Tail(s))
    BY <1>1, <1>9, SubmitsIn
  <2>2. <<"handoff", h>>[1] # "registry" /\ ~IsNote(<<"handoff", h>>)
    BY DEF IsNote
  <2> QED BY <1>5, <2>1, <2>2
<1>10. CASE AcceptsTo(p, u)
  <2>1. PICK k \in Jobs : u = Accepted(k) \o Tail(s) /\ Words2(Tail(s))
    BY <1>10 DEF AcceptsTo, MakesJob
  <2>2. ASSUME NEW x, In(x, u) PROVE In(x, Tail(s)) \/ (x[1] # "registry" /\ ~IsNote(x))
    <3>1. \/ x = <<"handoff", [status |-> "submitted", job |-> k]>> \/ x = <<"track", k>>
          \/ x = <<"preview", None>> \/ x = <<"submitted", k>> \/ x = <<"touch">>
                 \/ x = <<"ctx", FALSE>>
          \/ In(x, Tail(s))
      BY <1>1, <2>1, <2>2, AcceptsIn
    <3>2. CASE x = <<"handoff", [status |-> "submitted", job |-> k]>>
      BY <3>2 DEF IsNote
    <3>3. CASE x = <<"track", k>>
      BY <3>3 DEF IsNote
    <3>4. CASE x = <<"preview", None>>
      BY <3>4 DEF IsNote
    <3>5. CASE x = <<"submitted", k>>
      BY <3>5 DEF IsNote
    <3>6. CASE x = <<"touch">>
      BY <3>6 DEF IsNote
    <3>7. CASE x = <<"ctx", FALSE>>
      BY <3>7 DEF IsNote
    <3> QED BY <3>1, <3>2, <3>3, <3>4, <3>5, <3>6, <3>7
  <2> QED BY <1>5, <2>2
<1>11. CASE DeliversTo(p, u)
  <2> DEFINE r0 == Contents.registry
             k == Head(s)[2]
             n == <<"turn", <<"note", k>> >>
             a == <<"registry", r0>>
             b == <<"registry", Told(r0, k)>>
  <2>1. /\ p = Daemon
        /\ \/ u = <<>>
           \/ u = <<a>> /\ k \in r0.seen
           \/ u = <<n, b>> /\ k \in Jobs /\ k \in r0.seen \ r0.told
    BY <1>11 DEF DeliversTo
  <2>2. a[1] = "registry" /\ a[2] = r0
    OBVIOUS
  <2>3. b[1] = "registry" /\ b[2] = Told(r0, k)
    OBVIOUS
  <2>4. n = Note(k) /\ Note(j)[1] = "turn" /\ Note(j)[2] = <<"note", j>>
            /\ Note(k)[2] = <<"note", k>>
    BY DEF Note
  <2>5. \A z : k \in r0.seen => r0 = View.registry
    <3>1. k \in r0.seen => Contents # Default
      BY DEF Default
    <3> QED BY <3>1, ContentsIs
  <2> HIDE DEF a, b, n
  <2>6. CASE u = <<>>
    <3>1. \A y : ~In(y, u)
      BY <2>6, InNone
    <3> QED BY <1>5, <3>1
  <2>7. CASE u = <<a>> /\ k \in r0.seen
    <3>1. \A y : In(y, u) <=> y = a
      BY <2>7, InOne
    <3>2. ~In(Note(j), u)
      BY <2>2, <2>4, <3>1
    <3>3. \A r : In(<<"registry", r>>, u) => r = View.registry
      <4> TAKE r
      <4>1. <<"registry", r>>[2] = r
        OBVIOUS
      <4> QED BY <2>2, <2>5, <2>7, <3>1, <4>1
    <3>4. Derived(View.registry, j)
      BY DEF Derived
    <3> QED BY <3>2, <3>3, <3>4 DEF NotesTo
  <2>8. CASE u = <<n, b>> /\ k \in Jobs /\ k \in r0.seen \ r0.told
    <3>1. \A y : In(y, u) <=> y = n \/ y = b
      BY <2>8, InTwo
    <3>2. In(Note(j), u) => Unsaid(j)
      <4> SUFFICES ASSUME In(Note(j), u) PROVE Unsaid(j)
        OBVIOUS
      <4>1. Note(j) = Note(k)
        BY <2>3, <2>4, <3>1
      <4>2. <<"note", j>> = <<"note", k>>
        BY <2>4, <4>1
      <4>3. j = k
        BY <4>2
      <4> QED BY <2>5, <2>8, <4>3 DEF Unsaid
    <3>3. \A r : In(<<"registry", r>>, u) => r = Told(View.registry, k)
      <4> TAKE r
      <4>1. <<"registry", r>>[2] = r /\ <<"registry", r>>[1] = "registry"
        OBVIOUS
      <4>2. n[1] = "turn"
        BY DEF n
      <4> QED BY <2>3, <2>5, <2>8, <3>1, <4>1, <4>2
    <3>4. Derived(Told(View.registry, k), j)
      BY <2>5, <2>8, DerivedTold
    <3> QED BY <2>1, <3>2, <3>3, <3>4 DEF NotesTo
  <2> QED BY <2>1, <2>6, <2>7, <2>8
<1> QED BY <1>6, <1>7, <1>8, <1>9, <1>10, <1>11, RewriteForms

(* So the notes are as they are to be when a head is replaced,              *)
LEMMA NoteRewrites ==
    ASSUME Base, FileOk, FileOk', Next, Undisturbed', NEW p \in Procs,
           Rewrites(p), ~Unlink(p), ~EmitFails(p), NEW j \in Jobs, NoteFine(j)
    PROVE  NoteFine(j)'
<1> DEFINE s == prog[p]
           u == prog'[p]
<1>0. /\ prog \in [Procs -> Seq(Ops)] /\ Requests \subseteq Procs /\ Daemon \notin Requests
      /\ Daemon \in Procs /\ Procs = Requests \cup {Daemon}
  BY SessionAssumption DEF Procs, Base, TypeOK
<1>1. /\ View' = View /\ OthersLeft(p) /\ Rest(p) = s /\ Rest(p)' = u /\ s # <<>>
      /\ s \in Seq(Ops)
      /\ UNCHANGED notes /\ \A q \in Procs \ {p} : prog'[q] = prog[q]
  BY <1>0, RewritesMove
<1>2. \A q \in Procs : q # p => Rest(q)' = Rest(q)
  BY <1>1 DEF OthersLeft
<1>3. Head(s)[1] \in {"ingest", "surface", "submitted", "submit", "deliver"}
  BY RewriteForms DEF IngestsTo, SurfacesTo, SubmitsTo, AcceptsTo, MakesJob, DeliversTo
<1>4. NotesTo(p, j)
  BY RewriteNotes
<1>5. p = Daemon => ~Delivering(j)
  BY <1>1, <1>3 DEF Delivering, Tells
<1>6. Delivering(j) => Delivering(j)'
  BY <1>0, <1>2, <1>5 DEF Delivering, Tells
<1>7. \A q \in Procs, r \in Registries :
         In(<<"registry", r>>, Rest(q))' => In(<<"registry", r>>, Rest(q)) \/ Derived(r, j)
  <2> TAKE q \in Procs, r \in Registries
  <2>1. CASE q = p
    BY <1>1, <1>4, <2>1 DEF NotesTo
  <2>2. CASE q # p
    BY <1>2, <2>2
  <2> QED BY <2>1, <2>2
<1>8. (sent[j] = None \/ Tracks(j))' => sent[j] = None \/ Tracks(j)
  <2>1. sent'[j] = None => sent[j] = None
    BY SentKept
  <2>2. ASSUME NEW t \in Requests, In(<<"track", j>>, Rest(t)') PROVE sent[j] = None \/ Tracks(j)
    <3>1. CASE t # p
      BY <1>0, <1>2, <2>2, <3>1 DEF Tracks
    <3>2. CASE t = p
      <4>0. In(<<"track", j>>, u)
        BY <1>1, <2>2, <3>2
      <4>1. In(<<"track", j>>, s) => Tracks(j)
        BY <1>1, <2>2, <3>2 DEF Tracks
      <4>2. ~Fresh(<<"track", j>>)
        BY DEF Fresh, IsNote
      <4>3. CASE AcceptsTo(p, u)
        <5>1. PICK k \in Jobs : FreshJob(k) /\ u = Accepted(k) \o Tail(s) /\ Words2(Tail(s))
          BY <4>3 DEF AcceptsTo, MakesJob
        <5>2. Tail(s) \in Seq(Ops) /\ (In(<<"track", j>>, Tail(s)) => In(<<"track", j>>, s))
          BY <1>1, Shorter, InTail
        <5> DEFINE x == <<"track", j>>
        <5>30. \A y : In(y, Accepted(k) \o Tail(s)) =>
                  \/ y = <<"handoff", [status |-> "submitted", job |-> k]>> \/ y = <<"track", k>>
                  \/ y = <<"preview", None>> \/ y = <<"submitted", k>> \/ y = <<"touch">>
                  \/ y = <<"ctx", FALSE>> \/ In(y, Tail(s))
          BY <5>1, <5>2, AcceptsIn
        <5>31. In(x, Accepted(k) \o Tail(s))
          BY <4>0, <5>1
        <5>3. \/ x = <<"handoff", [status |-> "submitted", job |-> k]>> \/ x = <<"track", k>>
              \/ x = <<"preview", None>> \/ x = <<"submitted", k>> \/ x = <<"touch">>
              \/ x = <<"ctx", FALSE>> \/ In(x, Tail(s))
          BY <5>30, <5>31
        <5>4. x[1] = "track" /\ x[2] = j
          OBVIOUS
        <5> HIDE DEF x
        <5>5. CASE x = <<"track", k>>
          <6>1. j = k
            BY <5>4, <5>5
          <6> QED BY <5>1, <6>1 DEF FreshJob
        <5>6. CASE x = <<"handoff", [status |-> "submitted", job |-> k]>>
          BY <5>4, <5>6
        <5>7. CASE x = <<"preview", None>> \/ x = <<"submitted", k>>
          BY <5>4, <5>7
        <5>8. CASE x = <<"touch">>
          BY <5>4, <5>8
        <5>9. CASE x = <<"ctx", FALSE>>
          BY <5>4, <5>9
        <5>10. CASE In(x, Tail(s))
          BY <4>1, <5>2, <5>10 DEF x
        <5> QED BY <5>3, <5>5, <5>6, <5>7, <5>8, <5>9, <5>10
      <4> QED BY <4>0, <4>1, <4>2, <4>3, RewriteIn
    <3> QED BY <3>1, <3>2
  <2> QED BY <2>1, <2>2 DEF Tracks
<1>9. \A t \in Requests : Pends(t, j)' =>
         \/ Pends(t, j) /\ (WillTell(t, j) => WillTell(t, j)')
         \/ Unsaid(j) /\ WillTell(t, j)'
  <2> SUFFICES ASSUME NEW t \in Requests, Pends(t, j)'
               PROVE  \/ Pends(t, j) /\ (WillTell(t, j) => WillTell(t, j)')
                      \/ Unsaid(j) /\ WillTell(t, j)'
    OBVIOUS
  <2>1. CASE t # p
    <3>1. Pends(t, j)
      BY <1>0, <1>1, <2>1 DEF Pends
    <3>2. WillTell(t, j) => WillTell(t, j)'
      BY <1>0, <1>1, <1>2, <2>1 DEF WillTell, Tells
    <3> QED BY <3>1, <3>2
  <2>2. CASE t = p
    <3>1. Unsaid(j) /\ Tells(u, j)
      BY <1>0, <1>4, <2>2 DEF NotesTo, Pends
    <3>2. WillTell(t, j)'
      BY <1>1, <2>2, <3>1 DEF WillTell, Tells
    <3> QED BY <3>1, <3>2
  <2> QED BY <2>1, <2>2
<1>10. Pends(Daemon, j)' => Pends(Daemon, j) \/ (Unsaid(j) /\ ~Delivering(j))
  <2>1. CASE p = Daemon
    BY <1>4, <1>5, <2>1 DEF NotesTo, Pends
  <2>2. CASE p # Daemon
    BY <1>0, <1>1, <2>2 DEF Pends
  <2> QED BY <2>1, <2>2
<1> HIDE DEF s, u
<1> QED BY <1>1, <1>6, <1>7, <1>8, <1>9, <1>10, NoteKeeps

(* when a request comes in or goes on                                       *)
LEMMA NoteBegins ==
    ASSUME Base, FileOk, FileOk', Next, Undisturbed', NEW p \in Requests,
           Starts(p) \/ Returns(p), NEW j \in Jobs, NoteFine(j)
    PROVE  NoteFine(j)'
<1>0. /\ prog \in [Procs -> Seq(Ops)] /\ Requests \subseteq Procs /\ Daemon \notin Requests
      /\ Daemon \in Procs /\ Procs = Requests \cup {Daemon} /\ p # Daemon
  BY SessionAssumption DEF Procs, Base, TypeOK
<1>1. View' = View /\ OthersLeft(p) /\ UNCHANGED <<sent, notes>>
  BY BeginsTo DEF queue
<1>2. PICK b \in Seq(Ops) :
        /\ Rest(p)' = b /\ prog' = [prog EXCEPT ![p] = b]
        /\ \A x : In(x, b) => x \in Ops /\ (x \in NewOps \/ (Aside(x) /\ In(x, prog[p])))
  BY BeginsTo
<1>3. \A q \in Procs : q # p => Rest(q)' = Rest(q) /\ prog'[q] = prog[q]
  BY <1>0, <1>1, <1>2 DEF OthersLeft
<1>4. prog'[p] = b
  BY <1>0, <1>2
<1>5. \A x : In(x, b) => x[1] \notin {"registry", "track"} /\ ~IsNote(x)
  <2>1. \A x : x \in NewOps \/ Aside(x) => x[1] \notin {"registry", "track"} /\ ~IsNote(x)
    BY DEF NewOps, Aside
  <2> QED BY <1>2, <2>1
<1>6. Delivering(j) => Delivering(j)'
  BY <1>0, <1>3 DEF Delivering, Tells
<1>7. \A q \in Procs, r \in Registries :
         In(<<"registry", r>>, Rest(q))' => In(<<"registry", r>>, Rest(q)) \/ Derived(r, j)
  <2> TAKE q \in Procs, r \in Registries
  <2>1. CASE q = p
    <3>1. ~In(<<"registry", r>>, b)
      BY <1>5
    <3> QED BY <1>2, <2>1, <3>1
  <2>2. CASE q # p
    BY <1>3, <2>2
  <2> QED BY <2>1, <2>2
<1>8. (sent[j] = None \/ Tracks(j))' => sent[j] = None \/ Tracks(j)
  <2>1. ~In(<<"track", j>>, b)
    BY <1>5
  <2>2. Tracks(j)' => Tracks(j)
    BY <1>0, <1>2, <1>3, <2>1 DEF Tracks
  <2> QED BY <1>1, <2>2
<1>9. ASSUME NEW t \in Requests, Pends(t, j)'
      PROVE Pends(t, j) /\ (WillTell(t, j) => WillTell(t, j)')
  <2>1. t # p
    <3>1. ~In(Note(j), b)
      BY <1>5 DEF Note, IsNote
    <3> QED BY <1>4, <1>9, <3>1 DEF Pends
  <2>2. Pends(t, j)
    BY <1>0, <1>3, <1>9, <2>1 DEF Pends
  <2>3. WillTell(t, j) => WillTell(t, j)'
    BY <1>0, <1>1, <1>3, <2>1 DEF WillTell, Tells
  <2> QED BY <2>2, <2>3
<1>10. Pends(Daemon, j)' => Pends(Daemon, j)
  BY <1>0, <1>3 DEF Pends
<1> QED BY <1>1, <1>6, <1>7, <1>8, <1>9, <1>10, NoteKeeps

(* and when neither happens.                                                *)
LEMMA NoteOthers ==
    ASSUME Base, FileOk, FileOk', Next, Undisturbed', Others, NEW j \in Jobs, NoteFine(j)
    PROVE  NoteFine(j)'
<1>0. /\ Requests \subseteq Procs /\ Daemon \notin Requests
      /\ Daemon \in Procs /\ Procs = Requests \cup {Daemon}
  BY SessionAssumption DEF Procs
<1>1. /\ View' = View /\ UNCHANGED <<sent, notes>>
      /\ \A q \in Procs \ {Daemon} : Rest(q)' = Rest(q) /\ prog'[q] = prog[q]
      /\ \/ Rest(Daemon)' = Rest(Daemon) /\ prog'[Daemon] = prog[Daemon]
         \/ Rest(Daemon) = <<>> /\ \E k \in Jobs :
               /\ Rest(Daemon)' = << <<"ingest", {k}>>, <<"deliver", k>> >>
               /\ prog'[Daemon] = << <<"ingest", {k}>>, <<"deliver", k>> >>
  BY OthersMove DEF Others
<1>2. /\ Delivering(j) => Delivering(j)'
      /\ \A r : In(<<"registry", r>>, Rest(Daemon))' => In(<<"registry", r>>, Rest(Daemon))
      /\ Pends(Daemon, j)' => Pends(Daemon, j)
  <2>1. CASE Rest(Daemon)' = Rest(Daemon) /\ prog'[Daemon] = prog[Daemon]
    BY <2>1 DEF Delivering, Tells, Pends
  <2>2. CASE Rest(Daemon) = <<>> /\ \E k \in Jobs :
               /\ Rest(Daemon)' = << <<"ingest", {k}>>, <<"deliver", k>> >>
               /\ prog'[Daemon] = << <<"ingest", {k}>>, <<"deliver", k>> >>
    <3>1. PICK k \in Jobs :
               /\ Rest(Daemon)' = << <<"ingest", {k}>>, <<"deliver", k>> >>
               /\ prog'[Daemon] = << <<"ingest", {k}>>, <<"deliver", k>> >>
      BY <2>2
    <3> DEFINE a == <<"ingest", {k}>>
               b == <<"deliver", k>>
    <3>2. a[1] = "ingest"
      OBVIOUS
    <3>3. b[1] = "deliver"
      OBVIOUS
    <3>4. Rest(Daemon)' = <<a, b>> /\ prog'[Daemon] = <<a, b>>
      BY <3>1
    <3> HIDE DEF a, b
    <3>5. \A x : In(x, Rest(Daemon)') \/ In(x, prog'[Daemon]) => x = a \/ x = b
      BY <3>4, InTwo
    <3>6. ~Delivering(j)
      BY <2>2 DEF Delivering, Tells
    <3>7. ~Pends(Daemon, j)'
      <4>1. Note(j)[1] = "turn"
        BY DEF Note
      <4> QED BY <3>2, <3>3, <3>5, <4>1 DEF Pends
    <3>8. \A r : ~In(<<"registry", r>>, Rest(Daemon)')
      BY <3>2, <3>3, <3>5
    <3> QED BY <3>6, <3>7, <3>8
  <2> QED BY <1>1, <2>1, <2>2
<1>3. \A q \in Procs, r \in Registries :
         In(<<"registry", r>>, Rest(q))' => In(<<"registry", r>>, Rest(q))
  <2> TAKE q \in Procs, r \in Registries
  <2>1. CASE q = Daemon
    BY <1>2, <2>1
  <2>2. CASE q # Daemon
    BY <1>1, <2>2
  <2> QED BY <2>1, <2>2
<1>4. (sent[j] = None \/ Tracks(j))' => sent[j] = None \/ Tracks(j)
  BY <1>0, <1>1 DEF Tracks
<1>5. ASSUME NEW t \in Requests, Pends(t, j)'
      PROVE Pends(t, j) /\ (WillTell(t, j) => WillTell(t, j)')
  <2>1. Pends(t, j)
    BY <1>0, <1>1, <1>5 DEF Pends
  <2>2. WillTell(t, j) => WillTell(t, j)'
    BY <1>0, <1>1 DEF WillTell, Tells
  <2> QED BY <2>1, <2>2
<1> QED BY <1>1, <1>2, <1>3, <1>4, <1>5, NoteKeeps

(* So every completion is noted once: whoever notes it marks it as told     *)
(* before, or, the daemon, right after.                                     *)
LEMMA NotesStay ==
    ASSUME Base, FileOk, FileOk', Ties, NoteOk, Next, Undisturbed'
    PROVE  NoteOk'
<1> SUFFICES ASSUME NEW j \in Jobs PROVE NoteFine(j)'
  BY DEF NoteOk
<1>1. NoteFine(j)
  BY DEF NoteOk
<1>2. ASSUME NEW p \in Procs, Cut(p) \/ Fill(p) PROVE NoteFine(j)'
  BY <1>1, <1>2, NoteCut, NoteFills
<1>3. ASSUME NEW p \in Requests, Unlink(p) PROVE NoteFine(j)'
  BY <1>1, <1>3, NoteUnlinks
<1>4. ASSUME NEW p \in Requests, Starts(p) \/ Returns(p) PROVE NoteFine(j)'
  BY <1>1, <1>4, NoteBegins
<1>5. ASSUME NEW p \in Procs, Rewrites(p), ~Unlink(p), ~EmitFails(p) PROVE NoteFine(j)'
  BY <1>1, <1>5, NoteRewrites
<1>6. CASE Others
  BY <1>1, <1>6, NoteOthers
<1> QED BY <1>2, <1>3, <1>4, <1>5, <1>6, Moves

-----------------------------------------------------------------------------
(* While nobody disturbs the session                                        *)

(* What holds while nothing has failed and the daemon has worked beside no  *)
(* request.                                                                 *)
CalmOk == FileOk /\ OnceOk /\ Distinct /\ NoteOk /\ TurnsOk /\ CtxOk /\ HandoffOk

(* The inductive invariant of SubmittedOnce, NotesHold and SessionHolds.    *)
Inv2 == Base /\ NotesAreTrue /\ (Undisturbed => CalmOk)

(* It holds at the beginning                                                *)
LEMMA Inv2Init == Init => Inv2
<1> SUFFICES ASSUME Init PROVE Inv2
  OBVIOUS
<1>1. Base /\ NotesAreTrue
  BY Inv1Init DEF Inv1
<1>2. /\ at = [p \in Procs |-> "idle"] /\ prog = [p \in Procs |-> <<>>] /\ loop = None
      /\ sent = [j \in Jobs |-> None] /\ notes = [j \in Jobs |-> 0] /\ said = {}
      /\ Requests \subseteq Procs /\ Daemon \in Procs
  BY DEF Init, Procs
<1>3. FileOk /\ NoFill
  BY <1>2 DEF FileOk, NoFill
<1>4. View = Contents
  BY <1>3, ViewIs
<1>5. /\ Contents.registry = [tracked |-> {}, seen |-> {}, told |-> {}]
      /\ Contents.handoff.job = None /\ Follows(Contents)
  <2>1. CASE file = NoFile
    BY <2>1 DEF Contents, Default, Follows
  <2>2. CASE \E v \in Previews :
              file = [Default EXCEPT !.preview = v, !.ctx = TRUE,
                        !.handoff.status = IF v.auto THEN "none" ELSE "preview_ready"]
    <3>1. PICK v \in Previews :
              file = [Default EXCEPT !.preview = v, !.ctx = TRUE,
                        !.handoff.status = IF v.auto THEN "none" ELSE "preview_ready"]
      BY <2>2
    <3>2. v # None
      BY IsPreview
    <3>3. /\ file.registry = [tracked |-> {}, seen |-> {}, told |-> {}]
          /\ file.handoff.job = None /\ file.ctx = TRUE /\ file.preview = v
      BY <3>1 DEF Default
    <3>4. file \notin {NoFile, Torn}
      <4>1. (file \in Payloads)
        BY <1>1, <3>1 DEF Base, TypeOK, Default, Payloads, Handoffs, Statuses, Registries
      <4> QED BY <4>1, AbsentAssumption
    <3> QED BY <3>2, <3>3, <3>4 DEF Contents, Follows
  <2> QED BY <2>1, <2>2 DEF Init
<1>6. \A p \in Procs : Rest(p) = <<>> /\ prog[p] = <<>>
  BY <1>2 DEF Rest
<1>7. \A p \in Procs : \A x : ~In(x, Rest(p)) /\ ~In(x, prog[p])
  BY <1>6, InNone
<1>8. OnceOk /\ Distinct
  BY <1>2 DEF OnceOk, Distinct, Again
<1>9. NoteOk
  <2> SUFFICES ASSUME NEW j \in Jobs PROVE NoteFine(j)
    BY DEF NoteOk
  <2>1. notes[j] = 0
    BY <1>2
  <2>2. Unheard(j)
    BY <1>4, <1>5, <1>7, <2>1 DEF Unheard, Lacks, Pends
  <2> QED BY <1>2, <1>7, <2>1, <2>2 DEF NoteFine, Pends
<1>10. TurnsOk
  BY <1>2 DEF TurnsOk
<1>11. CtxOk
  BY <1>2, <1>4, <1>5 DEF CtxOk
<1>12. HandoffKnown
  BY <1>4, <1>5 DEF HandoffKnown
<1>13. Ties
  BY <1>2, <1>7, UntiedIs DEF Ties, Tied
<1>14. TrackedKept
  BY <1>7 DEF TrackedKept
<1> QED BY <1>1, <1>3, <1>8, <1>9, <1>10, <1>11, <1>12, <1>13, <1>14 DEF Inv2, CalmOk, HandoffOk

(* and after every step.                                                    *)
LEMMA Inv2Stays == Inv2 /\ [Next]_vars => Inv2'
<1> SUFFICES ASSUME Inv2, [Next]_vars PROVE Inv2'
  OBVIOUS
<1>1. CASE Next
  <2>1. Base' /\ NotesAreTrue'
    BY <1>1, BaseStays, TrueStays DEF Inv2
  <2>2. ASSUME Undisturbed' PROVE CalmOk'
    <3>1. CalmOk /\ Base
      BY <1>1, <2>2, Calmly DEF Inv2
    <3>2. FileOk'
      BY <1>1, <2>2, <3>1, FileOkStays DEF CalmOk
    <3>3. OnceOk' /\ Distinct'
      BY <1>1, <2>2, <3>1, <3>2, OnceStays DEF CalmOk
    <3>4. NoteOk'
      BY <1>1, <2>2, <3>1, <3>2, NotesStay DEF CalmOk, HandoffOk
    <3>5. TurnsOk'
      BY <1>1, <2>2, <3>1, <3>2, TurnsStay DEF CalmOk
    <3>6. CtxOk'
      BY <1>1, <2>1, <2>2, <3>1, <3>2, CtxStays DEF CalmOk
    <3>7. HandoffOk'
      BY <1>1, <2>1, <2>2, <3>1, <3>2, HandoffStays DEF CalmOk
    <3> QED BY <3>2, <3>3, <3>4, <3>5, <3>6, <3>7 DEF CalmOk
  <2> QED BY <2>1, <2>2 DEF Inv2
<1>2. CASE UNCHANGED vars
  <2>1. UNCHANGED <<file, loop, at, prog, edit, copy, seen, state, sent, drafts, faults, said,
            notes, raced>>
    BY <1>2 DEF vars, work, queue, history
  <2>2. Contents' = Contents /\ Undisturbed' = Undisturbed /\ NoFill' = NoFill
    BY <2>1 DEF Contents, Undisturbed, NoFill
  <2>3. Base' /\ NotesAreTrue'
    BY <2>1, <2>2 DEF Inv2, Base, TypeOK, AtOk, Programs, ProgGood, OpGood, Names, Known,
       Submitters, NotesAreTrue
  <2>4. CalmOk => CalmOk'
    <3> SUFFICES ASSUME CalmOk PROVE CalmOk'
      OBVIOUS
    <3>1. View' = View /\ \A p : Rest(p)' = Rest(p)
      BY <2>1, <2>2 DEF View, Rest
    <3>2. FileOk'
      BY <2>1, <2>2 DEF CalmOk, FileOk, Alone
    <3>3. OnceOk' /\ Distinct'
      BY <2>1, <3>1 DEF CalmOk, OnceOk, Distinct, Again, Gone, Clearing
    <3>4. NoteOk'
      BY <2>1, <3>1 DEF CalmOk, NoteOk, NoteFine, Settled, Delivering, Tells, Unheard, Pends,
         Tracks, WillTell, OkReg, Lacks
    <3>5. TurnsOk' /\ CtxOk'
      BY <2>1, <3>1 DEF CalmOk, TurnsOk, CtxOk, Follows
    <3>6. HandoffOk'
      BY <2>1, <3>1 DEF CalmOk, HandoffOk, HandoffKnown, Ties, Tied, TrackedKept, Alone
    <3> QED BY <3>2, <3>3, <3>4, <3>5, <3>6 DEF CalmOk
  <2> QED BY <2>2, <2>3, <2>4 DEF Inv2
<1> QED BY <1>1, <1>2

(* When nobody is at work the file is what it is about to be.               *)
LEMMA CalmFile == ASSUME Inv2, Calm PROVE CalmOk /\ Base /\ loop = None /\ Contents = View
<1>1. CalmOk /\ Base /\ loop = None /\ at[Daemon] = "idle"
  BY DEF Inv2, Calm
<1>2. NoFill
  BY <1>1, SessionAssumption DEF NoFill, Base, AtOk, Procs
<1> QED BY <1>1, <1>2, ContentsIs DEF CalmOk

(* So the three properties hold.                                            *)
LEMMA CalmHolds == Inv2 => SubmittedOnce /\ NotesHold /\ SessionHolds
<1> SUFFICES ASSUME Inv2 PROVE SubmittedOnce /\ NotesHold /\ SessionHolds
  OBVIOUS
<1>1. SubmittedOnce
  BY DEF Inv2, CalmOk, Distinct, SubmittedOnce
<1>2. NotesHold
  BY DEF Inv2, CalmOk, NoteOk, NoteFine, NotesOnce, NotesHold
<1>3. TypeOK
  BY DEF Inv2, Base
<1>4. TurnsAreKept
  BY CalmFile DEF TurnsAreKept, CalmOk, TurnsOk
<1>5. ContextFollowsPreview
  BY CalmFile DEF ContextFollowsPreview, CalmOk, CtxOk, Follows
<1>6. HandoffIsTracked
  BY CalmFile DEF HandoffIsTracked, CalmOk, HandoffOk, HandoffKnown
<1> QED BY <1>1, <1>2, <1>3, <1>4, <1>5, <1>6 DEF SessionHolds

(* A preview whose submission was accepted is not submitted again, whatever *)
(* requests overlap at their waits: a handler that submits clears it from   *)
(* the file before another request gets the event loop, so none finds it    *)
(* there or has it in hand.  Only one whose job was taken before it was     *)
(* looked for is left to submit again.                                      *)
THEOREM Once == Spec => []SubmittedOnce
BY Inv2Init, Inv2Stays, CalmHolds, PTL DEF Spec

(* A job is noted in the chat once and only when it is reported: the        *)
(* daemon's report and the one at the next turn both mark the completion    *)
(* in the registry, and look there first.                                   *)
THEOREM Noted == Spec => []NotesHold
BY Inv2Init, Inv2Stays, CalmHolds, PTL DEF Spec

(* When nobody is at work the session file is whole and its parts agree:    *)
(* every turn said since the chat was cleared is there, the context refers  *)
(* to a preview exactly when there is one, and the job of the handoff was   *)
(* submitted and is tracked.                                                *)
THEOREM Held == Spec => []SessionHolds
BY Inv2Init, Inv2Stays, CalmHolds, PTL DEF Spec
=============================================================================
