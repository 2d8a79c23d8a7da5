---------------------------- MODULE VoiceProofs ----------------------------
(***************************************************************************)
(* TLAPS proofs about Voice, for any requests, jobs, other writers of the  *)
(* session and failures.                                                   *)
(***************************************************************************)
EXTENDS Voice, FiniteSetTheorems, WellFoundedInduction, TLAPS

VoiceBounds ==
    /\ Requests \subseteq 1..9 /\ Mic \subseteq Requests
    /\ Jobs \subseteq Nat \ {0} /\ IsFiniteSet(Jobs) /\ MaxOthers \in Nat /\ MaxFaults \in Nat

PlacesOfVoice ==
    {"idle", "over", "turn", "preview", "list", "reply", "draft", "speech", "claim", "enqueue",
     "handoff", "link", "clear", "reread", "links", "resolve", "done"} \cup Acks
AwayFromLoop == {"idle", "reply", "speech", "done"}

VoiceTyped ==
    /\ loop \in Requests \cup {0} /\ pc \in [Requests -> PlacesOfVoice]
    /\ ask \in [Requests -> Asks] /\ on \in [Requests -> BOOLEAN] /\ voiceOn \in BOOLEAN
    /\ listed \in [Requests -> SUBSET [job : Jobs, step : {1, 2}]]
    /\ linked \in [Requests -> SUBSET Jobs] /\ got \in [Requests -> Nat]
    /\ preview \in Nat /\ handoff \in Jobs \cup {0} /\ links \subseteq Jobs
    /\ state \in [Jobs -> {"none", "queued", "parked", "over"}]
    /\ stepOf \in [Jobs -> {1, 2}]
    /\ from \in [Jobs -> [by : Requests \cup {0}, draft : Nat]]
    /\ meanwhile \in [Requests -> SUBSET {"session", "queue", "voice"}]
    /\ others \in Nat /\ faults \in Nat

(* What a request leaves behind.                                            *)
HasActed(r) ==
    \/ \E t \in turns : t.by = r
    \/ \E j \in Jobs : from[j].by = r
    \/ \E x \in resolved : x.by = r
    \/ \E c \in claim : c.by = r
    \/ r \in spoke
Consented(r) == ask[r] # "unsent" /\ on[r]

ConsentOk(r) ==
    /\ pc[r] \in AwayFromLoop <=> loop # r
    /\ pc[r] \notin {"idle", "over", "done"} => Consented(r)
    /\ HasActed(r) => Consented(r) /\ pc[r] # "idle"

(* The one approval it chooses from what it has listed.                     *)
ApprovalOk(r) ==
    /\ pc[r] \in {"links", "resolve"} /\ "queue" \notin meanwhile[r] =>
         \A e \in listed[r] : stepOf[e.job] = e.step
    /\ pc[r] = "resolve" => \E e : Matches(r, linked[r]) = {e}
    /\ (\E x \in resolved : x.by = r) =>
         pc[r] \in {"resolved", "speech", "draft", "claim", "over", "done"}
    /\ pc[r] = "resolved" =>
         \E x \in resolved : x.by = r /\ x.job = got[r] /\ (x.yes => x.end = "done")

(* A draft that has been queued by voice.                                   *)
Spent(d) == \E j \in Jobs : from[j].by # 0 /\ from[j].draft = d
KnownAt(d, most, where) == d <= 10 + most /\ (d \in Requests => where[d] \in {"claim", "over", "done"})
KnownDraft(d) == KnownAt(d, others, pc)

(* The job it makes of a draft.                                             *)
SubmitOk(r) ==
    /\ pc[r] = "enqueue" => got[r] # 0 /\ KnownDraft(got[r]) /\ (faults = 0 => ~Spent(got[r]))
    /\ pc[r] \in {"handoff", "link", "clear", "reread", "submitted"} =>
         got[r] \in Jobs /\ from[got[r]].by = r
    /\ pc[r] \in {"link", "clear", "reread"} => handoff = got[r] \/ "session" \in meanwhile[r]
    /\ pc[r] = "claim" => preview = r \/ "session" \in meanwhile[r]

DraftsOk ==
    /\ KnownDraft(preview) /\ \A j \in Jobs : KnownDraft(from[j].draft)
    /\ \A j \in Jobs : from[j].by # 0 => state[j] # "none"
    /\ faults = 0 /\ preview # 0 /\ Spent(preview) =>
         loop # 0 /\ pc[loop] \in {"handoff", "link", "clear"}
    /\ QueuedOnce

HistoryOk ==
    /\ \A x \in resolved : x.by \in Requests
    /\ \A t \in turns : t.by \in Requests /\ (t.text = "submitted" => t.job \in Jobs)
    /\ \A c \in claim : c.by \in Requests /\ (c.what = "job" => "session" \in c.late \/ c.of \in Jobs)

VoiceInv ==
    /\ VoiceTyped /\ DraftsOk /\ HistoryOk
    /\ \A r \in Requests : ConsentOk(r) /\ ApprovalOk(r) /\ SubmitOk(r)
    /\ RecordingsGo /\ OnlyTheListed /\ AcksAreTrue /\ ClaimsAreOwn

-----------------------------------------------------------------------------
LessThan == {ss \in Nat \X Nat : ss[1] < ss[2]}

LEMMA LessThanWellFounded == IsWellFoundedOn(LessThan, Nat)
<1>1. OpToRel(<, Nat) = LessThan
  BY DEF OpToRel, LessThan
<1> QED BY <1>1, NatLessThanWellFounded, Zenon

(* Every set of naturals has a least element.                               *)
LEMMA LeastOf ==
    ASSUME NEW S \in SUBSET Nat, S # {}
    PROVE  \E m \in S : \A k \in S : m <= k
<1>1. PICK m \in S : \A k \in S : ~(<<k, m>> \in LessThan)
  BY LessThanWellFounded, WFMin
<1>2. ASSUME NEW k \in S PROVE m <= k
  <2>1. k \in Nat /\ m \in Nat
    OBVIOUS
  <2>2. <<k, m>> \in LessThan <=> k < m
    BY <2>1 DEF LessThan
  <2> QED BY <1>1, <2>1, <2>2
<1> QED BY <1>2

(* A new job has an id that no other has.                                   *)
LEMMA NextJobUnmade ==
    ASSUME VoiceBounds, Unmade # {} PROVE NextJob \in Jobs /\ state[NextJob] = "none"
<1>1. Unmade \in SUBSET Nat
  BY DEF VoiceBounds, Unmade
<1>2. PICK j \in Unmade : \A k \in Unmade : j <= k
  BY <1>1, LeastOf
<1>3. NextJob \in Unmade
  BY <1>2 DEF NextJob
<1> QED BY <1>3 DEF Unmade

-----------------------------------------------------------------------------
(* The steps of a request by what they touch.                               *)
Talks(r) ==
    \/ \E a \in Asks : Begin(r, a)
    \/ SayTurn(r) \/ Answered(r) \/ Unanswered(r)
    \/ \E made \in BOOLEAN : Speech(r, made)
    \/ TurnFails(r) \/ End(r) \/ Ack(r)
Drafts(r) == NoDraft(r) \/ DraftFails(r) \/ Draft(r) \/ ReadDraft(r) \/ DraftIsGone(r)
Submits(r) ==
    \/ ReadPreview(r) \/ Enqueue(r) \/ WriteHandoff(r) \/ Link(r) \/ Clear(r)
    \/ SubmitFails(r) \/ ReadHandoff(r)
Decides(r) ==
    \/ ListApprovals(r) \/ Select(r)
    \/ \E end \in {"done", "failed", "parked"} : Resolve(r, end)
    \/ ResolveFails(r)
Outside ==
    \/ VeraDrafts \/ VeraSubmits \/ SwitchVoice
    \/ \E j \in Jobs : Parks(j) \/ \E again \in BOOLEAN : OperatorResolves(j, again)

LEMMA ByKind == Next <=> Outside \/ \E r \in Requests : Talks(r) \/ Drafts(r) \/ Submits(r) \/ Decides(r)
BY DEF Next, Outside, Talks, Drafts, Submits, Decides

(* What a spoken decision resolves is the one entry that matched.           *)
LEMMA ChosenIsOne ==
    ASSUME VoiceTyped, NEW r \in Requests, ApprovalOk(r), pc[r] = "resolve"
    PROVE  /\ Chosen(r) \in Jobs
           /\ \E e \in listed[r] : /\ Matches(r, linked[r]) = {e}
                                   /\ e.job = Chosen(r) /\ e = [job |-> e.job, step |-> e.step]
<1>1. PICK e : Matches(r, linked[r]) = {e}
  BY DEF ApprovalOk
<1>2. e \in listed[r] /\ (CHOOSE x \in {e} : TRUE) = e
  BY <1>1 DEF Matches
<1>3. e \in [job : Jobs, step : {1, 2}]
  BY <1>2 DEF VoiceTyped
<1>4. Chosen(r) = e.job
  BY <1>1, <1>2 DEF Chosen
<1> QED BY <1>1, <1>2, <1>3, <1>4

(* No step leaves the types.                                                *)
LEMMA VoiceTypes ==
    ASSUME VoiceBounds, VoiceInv, [Next]_vars PROVE VoiceTyped'
<1> USE DEF VoiceBounds, VoiceTyped, session, queue, mind, page, world
<1>0. VoiceTyped
  BY DEF VoiceInv
<1>1. ASSUME NEW r \in Requests, Talks(r) PROVE VoiceTyped'
  <2>1. UNCHANGED <<listed, linked, got, preview, handoff, links, queue, world>>
    BY <1>1 DEF Talks, Begin, SayTurn, Answered, Unanswered, Speech, TurnFails, End, Ack, Alone,
       Elsewhere
  <2>2. loop' \in {loop, 0, r} /\ faults' \in Nat
    BY <1>0, <1>1 DEF Talks, Begin, SayTurn, Answered, Unanswered, Speech, TurnFails, End, Ack,
       Alone, Fails,
       Goes, Awaits
  <2>3. /\ ask' \in [Requests -> Asks] /\ on' \in [Requests -> BOOLEAN]
    <3>1. UNCHANGED <<ask, on>> \/ \E a \in Asks : Begin(r, a)
      BY <1>1 DEF Talks, SayTurn, Answered, Unanswered, Speech, TurnFails, End, Ack, Elsewhere
    <3>2. ASSUME NEW a \in Asks, Begin(r, a)
          PROVE  ask' = [ask EXCEPT ![r] = a] /\ on' = [on EXCEPT ![r] = voiceOn]
      BY <3>2 DEF Begin
    <3> QED BY <1>0, <3>1, <3>2
  <2>4. pc' \in [Requests -> PlacesOfVoice]
    <3>1. \E c \in PlacesOfVoice : pc' = [pc EXCEPT ![r] = c]
      BY <1>0, <1>1 DEF Talks, Begin, SayTurn, Answered, Unanswered, Speech, TurnFails, End, Ack,
         Goes, Awaits, PlacesOfVoice
    <3> QED BY <1>0, <3>1
  <2> QED BY <1>0, <2>1, <2>2, <2>3, <2>4
<1>2. ASSUME NEW r \in Requests, Drafts(r) PROVE VoiceTyped'
  <2>1. CASE Draft(r)
    BY <1>0, <2>1 DEF Draft, PlacesOfVoice, Goes, Looks
  <2>2. CASE NoDraft(r) \/ DraftIsGone(r) \/ ReadDraft(r)
    BY <1>0, <2>2 DEF NoDraft, DraftIsGone, ReadDraft, PlacesOfVoice, Goes, Elsewhere, Alone
  <2>3. CASE DraftFails(r)
    <3>1. r \in Nat
      OBVIOUS
    <3> QED BY <1>0, <2>3, <3>1 DEF DraftFails, PlacesOfVoice, Goes, Fails
  <2> QED BY <1>2, <2>1, <2>2, <2>3 DEF Drafts
<1>3. ASSUME NEW r \in Requests, Submits(r) PROVE VoiceTyped'
  <2>1. CASE Enqueue(r)
    BY <1>0, <2>1, NextJobUnmade DEF Enqueue, Queue, PlacesOfVoice, Runs, Goes, Looks
  <2>2. CASE WriteHandoff(r) \/ Link(r)
    <3>1. got[r] \in Jobs
      BY <2>2 DEF VoiceInv, SubmitOk, WriteHandoff, Link, Runs
    <3> QED BY <1>0, <2>2, <3>1 DEF WriteHandoff, Link, PlacesOfVoice, Runs, Goes, Alone
  <2>3. CASE ReadPreview(r)
    BY <1>0, <2>3 DEF ReadPreview, PlacesOfVoice, Acks, Goes, Alone
  <2>4. CASE Clear(r)
    BY <1>0, <2>4 DEF Clear, ClearedPreview, PlacesOfVoice, Goes, Alone
  <2>6. CASE ReadHandoff(r)
    BY <1>0, <2>6 DEF ReadHandoff, PlacesOfVoice, Acks, Goes, Alone
  <2>5. CASE SubmitFails(r)
    BY <1>0, <2>5 DEF SubmitFails, PlacesOfVoice, Acks, Goes, Fails
  <2> QED BY <1>3, <2>1, <2>2, <2>3, <2>4, <2>5, <2>6 DEF Submits
<1>4. ASSUME NEW r \in Requests, Decides(r) PROVE VoiceTyped'
  <2>1. CASE ListApprovals(r)
    <3>1. Entries \subseteq [job : Jobs, step : {1, 2}]
      BY <1>0 DEF Entries
    <3> QED BY <1>0, <2>1, <3>1 DEF ListApprovals, PlacesOfVoice, Runs, Goes, Elsewhere, Looks
  <2>2. CASE Select(r)
    BY <1>0, <2>2 DEF Select, PlacesOfVoice, Acks, Runs, Goes, Elsewhere, Alone
  <2>3. ASSUME NEW end \in {"done", "failed", "parked"}, Resolve(r, end) PROVE VoiceTyped'
    <3>1. Chosen(r) \in Jobs /\ Chosen(r) \in Nat
      BY <1>0, <2>3, ChosenIsOne DEF VoiceInv, Resolve, Runs
    <3> QED BY <1>0, <2>3, <3>1 DEF Resolve, PlacesOfVoice, Acks, Runs, Goes, Alone
  <2>4. CASE ResolveFails(r)
    BY <1>0, <2>4 DEF ResolveFails, PlacesOfVoice, Runs, Goes, Elsewhere, Alone
  <2> QED BY <1>4, <2>1, <2>2, <2>3, <2>4 DEF Decides
<1>5. ASSUME Outside PROVE VoiceTyped'
  <2>0. ASSUME NEW what \in {"session", "queue", "voice"}, Noted(what)
        PROVE  /\ meanwhile' \in [Requests -> SUBSET {"session", "queue", "voice"}] /\ others' \in Nat
               /\ UNCHANGED <<loop, pc, ask, on, listed, linked, got, faults>>
    BY <1>0, <2>0 DEF Noted
  <2>1. CASE VeraDrafts
    BY <1>0, <2>0, <2>1 DEF VeraDrafts
  <2>4. CASE SwitchVoice
    BY <1>0, <2>0, <2>4 DEF SwitchVoice
  <2>2. CASE VeraSubmits
    BY <1>0, <2>0, <2>2, NextJobUnmade DEF VeraSubmits, Queue
  <2>3. CASE \E j \in Jobs : Parks(j) \/ \E again \in BOOLEAN : OperatorResolves(j, again)
    BY <1>0, <2>0, <2>3 DEF Parks, OperatorResolves
  <2> QED BY <1>5, <2>1, <2>2, <2>3, <2>4 DEF Outside
<1>6. CASE UNCHANGED vars
  BY <1>0, <1>6 DEF vars
<1> QED BY <1>1, <1>2, <1>3, <1>4, <1>5, <1>6, ByKind

-----------------------------------------------------------------------------
(* Who has the loop, and what was asked for.                                *)
LEMMA VoiceConsent ==
    ASSUME VoiceBounds, VoiceInv, [Next]_vars, NEW q \in Requests PROVE ConsentOk(q)'
<1> USE DEF VoiceBounds, session, queue, mind, page, world, AwayFromLoop
<1>0. VoiceTyped /\ ConsentOk(q) /\ 0 \notin Requests
  BY DEF VoiceInv
<1>1. ASSUME NEW r \in Requests, Talks(r) PROVE ConsentOk(q)'
  <2>1. ConsentOk(r)
    BY DEF VoiceInv
  <2>2. /\ UNCHANGED <<from, resolved, claim>>
        /\ \A x \in Requests \ {r} : pc'[x] = pc[x] /\ ask'[x] = ask[x] /\ on'[x] = on[x]
    BY <1>0, <1>1 DEF Talks, Begin, SayTurn, Answered, Unanswered, Speech, TurnFails, End, Ack,
       Elsewhere,
       Goes, Awaits, VoiceTyped
  <2>3. /\ (\E t \in turns' : t.by = q) => (\E t \in turns : t.by = q) \/ (q = r /\ pc[r] \notin {"idle", "over", "done"})
        /\ q \in spoke' => q \in spoke \/ (q = r /\ pc[r] \notin {"idle", "over", "done"})
    BY <1>1 DEF Talks, Begin, SayTurn, Answered, Unanswered, Speech, TurnFails, End, Ack,
       Elsewhere, Runs, Turn, Acks
  <2>4. CASE \E a \in Asks : Begin(r, a)
    <3>1. PICK a \in Asks : Begin(r, a)
      BY <2>4
    <3>2. /\ loop = 0 /\ loop' = r /\ pc[r] = "idle" /\ ask'[r] = a /\ on'[r] = voiceOn
          /\ \/ pc'[r] = "over"
             \/ pc'[r] = "turn" /\ on'[r] /\ a # "unsent"
      BY <1>0, <3>1 DEF Begin, Hears, VoiceTyped
    <3> QED BY <1>0, <2>1, <2>2, <2>3, <3>2 DEF ConsentOk, HasActed, Consented
  <2>5. CASE ~\E a \in Asks : Begin(r, a)
    <3>1. /\ UNCHANGED <<ask, on>> /\ loop \in {0, r} /\ pc[r] \notin {"idle", "done"}
          /\ \/ loop' = 0 /\ pc'[r] \in {"reply", "speech", "done"}
             \/ loop' = r /\ pc'[r] \notin AwayFromLoop
          /\ pc'[r] \notin {"over", "done"} => pc[r] # "over"
      BY <1>0, <1>1, <2>1, <2>5 DEF Talks, SayTurn, Answered, Unanswered, Speech, TurnFails, End,
         Ack, Elsewhere,
         Goes, Awaits, Runs, Acks, VoiceTyped, ConsentOk
    <3> QED BY <1>0, <2>1, <2>2, <2>3, <3>1 DEF ConsentOk, HasActed, Consented
  <2> QED BY <2>4, <2>5
<1>2. ASSUME NEW r \in Requests, Drafts(r) \/ Submits(r) \/ Decides(r) PROVE ConsentOk(q)'
  <2>1. ConsentOk(r)
    BY DEF VoiceInv
  <2>2. /\ UNCHANGED <<ask, on, turns, spoke, loop>> /\ loop = r /\ pc[r] \notin AwayFromLoop \cup {"over"}
        /\ \A x \in Requests \ {r} : pc'[x] = pc[x]
        /\ pc'[r] \notin AwayFromLoop
    BY <1>0, <1>2 DEF Drafts, NoDraft, DraftFails, Draft, ReadDraft, DraftIsGone, Submits,
       ReadPreview, Enqueue,
       WriteHandoff, Link, Clear, SubmitFails, ReadHandoff, Decides, ListApprovals, Select,
       Resolve, ResolveFails,
       Claims, Goes, Runs, Elsewhere, VoiceTyped, Acks
  <2>3. /\ (\E c \in claim' : c.by = q) => (\E c \in claim : c.by = q) \/ q = r
        /\ (\E x \in resolved' : x.by = q) => (\E x \in resolved : x.by = q) \/ q = r
    BY <1>2 DEF Drafts, NoDraft, DraftFails, Draft, ReadDraft, DraftIsGone, Submits, ReadPreview,
       Enqueue,
       WriteHandoff, Link, Clear, SubmitFails, ReadHandoff, Decides, ListApprovals, Select,
       Resolve, ResolveFails,
       Claim, Elsewhere
  <2>4. (\E j \in Jobs : from'[j].by = q) => (\E j \in Jobs : from[j].by = q) \/ q = r
    <3>1. CASE UNCHANGED from
      BY <3>1
    <3>2. CASE Enqueue(r)
      BY <1>0, <3>2, NextJobUnmade DEF Enqueue, Queue, VoiceTyped
    <3> QED BY <1>2, <3>1, <3>2 DEF Drafts, NoDraft, DraftFails, Draft, ReadDraft, DraftIsGone,
               Submits, ReadPreview,
       WriteHandoff, Link, Clear, SubmitFails, ReadHandoff, Decides, ListApprovals, Select,
       Resolve, ResolveFails,
       Elsewhere
  <2> QED BY <1>0, <2>1, <2>2, <2>3, <2>4 DEF ConsentOk, HasActed, Consented
<1>3. ASSUME Outside PROVE ConsentOk(q)'
  <2>1. UNCHANGED <<loop, pc, ask, on, turns, spoke, claim, resolved>>
    BY <1>3 DEF Outside, VeraDrafts, VeraSubmits, SwitchVoice, Parks, OperatorResolves, Noted
  <2>2. (\E j \in Jobs : from'[j].by = q) => (\E j \in Jobs : from[j].by = q)
    <3>1. CASE UNCHANGED from
      BY <3>1
    <3>2. CASE VeraSubmits
      BY <1>0, <3>2, NextJobUnmade DEF VeraSubmits, Queue, VoiceTyped
    <3> QED BY <1>3, <3>1, <3>2 DEF Outside, VeraDrafts, SwitchVoice, Parks, OperatorResolves
  <2> QED BY <1>0, <2>1, <2>2 DEF ConsentOk, HasActed, Consented
<1>4. CASE UNCHANGED vars
  BY <1>0, <1>4 DEF vars, ConsentOk, HasActed, Consented
<1> QED BY <1>1, <1>2, <1>3, <1>4, ByKind

-----------------------------------------------------------------------------
(* A step of a request is its own: the others wait away from the loop.      *)
Acts(r) == Talks(r) \/ Drafts(r) \/ Submits(r) \/ Decides(r)

(* Only the request on the loop acts; the others wait away from it and keep *)
(* what they read.                                                          *)
LEMMA OneActs ==
    ASSUME VoiceBounds, VoiceInv, NEW r \in Requests, Acts(r), NEW q \in Requests, q # r
    PROVE  /\ pc'[q] = pc[q] /\ pc[q] \in AwayFromLoop
           /\ UNCHANGED <<listed[q], linked[q], got[q], meanwhile[q]>>
<1> USE DEF VoiceBounds, session, queue, mind, page, world
<1>1. VoiceTyped /\ ConsentOk(q)
  BY DEF VoiceInv
<1>2. loop \in {0, r}
  BY DEF Acts, Talks, Begin, SayTurn, Answered, Unanswered, Speech, TurnFails, End, Ack,
     Drafts, NoDraft, DraftFails, Draft, ReadDraft, DraftIsGone, Submits, ReadPreview, Enqueue,
     WriteHandoff, Link, Clear, SubmitFails, ReadHandoff, Decides, ListApprovals, Select, Resolve,
     ResolveFails, Runs
<1>3. pc[q] \in AwayFromLoop
  BY <1>1, <1>2 DEF ConsentOk
<1>4. CASE Talks(r)
  BY <1>1, <1>3, <1>4 DEF Talks, Begin, SayTurn, Answered, Unanswered, Speech, TurnFails, End,
     Ack, Elsewhere,
     Goes, Awaits, Alone, VoiceTyped
<1>5. CASE Drafts(r)
  BY <1>1, <1>3, <1>5 DEF Drafts, NoDraft, DraftFails, Draft, ReadDraft, DraftIsGone, Elsewhere,
     Looks,
     Goes, Awaits, Alone, VoiceTyped
<1>6. CASE Submits(r)
  BY <1>1, <1>3, <1>6 DEF Submits, ReadPreview, Enqueue, WriteHandoff, Link, Clear, SubmitFails,
     ReadHandoff,
     Looks, Goes, Awaits, Alone, VoiceTyped
<1>7. CASE Decides(r)
  BY <1>1, <1>3, <1>7 DEF Decides, ListApprovals, Select, Resolve, ResolveFails, Elsewhere,
     Looks, Goes, Awaits, Alone, VoiceTyped
<1> QED BY <1>4, <1>5, <1>6, <1>7 DEF Acts

(* A job of voice's making stays that, and a request that is done with     *)
(* drafting stays so.                                                      *)
Drafted == {"claim", "over", "done"}

(* A job stays that of the request and the draft it was made from.          *)
LEMMA JobsKeep ==
    ASSUME VoiceBounds, VoiceInv, [Next]_vars, NEW j \in Jobs, from[j].by # 0
    PROVE  from'[j] = from[j]
<1> USE DEF VoiceBounds, session, queue, mind, page, world
<1>1. VoiceTyped /\ state[j] # "none"
  BY DEF VoiceInv, DraftsOk
<1>2. CASE UNCHANGED from
  BY <1>2
<1>3. ASSUME NEW by, NEW draft, Queue(by, draft) PROVE from'[j] = from[j]
  BY <1>1, <1>3, NextJobUnmade DEF Queue, VoiceTyped
<1>4. UNCHANGED from \/ VeraSubmits \/ \E r \in Requests : Enqueue(r)
  BY DEF vars, Next, Begin, SayTurn, Answered, Unanswered, Speech, TurnFails, End, Ack,
     NoDraft, DraftFails, Draft, ReadDraft, DraftIsGone, ReadPreview,
     WriteHandoff, Link, Clear, SubmitFails, ReadHandoff, ListApprovals, Select, Resolve,
     ResolveFails, Elsewhere, VeraDrafts, SwitchVoice, Parks, OperatorResolves
<1> QED BY <1>2, <1>3, <1>4 DEF VeraSubmits, Enqueue

(* A request that has drafted does not draft again.                         *)
LEMMA DraftedKeeps ==
    ASSUME VoiceBounds, VoiceInv, [Next]_vars, NEW q \in Requests, pc[q] \in Drafted
    PROVE  pc'[q] \in Drafted
<1> USE DEF VoiceBounds, session, queue, mind, page, world, Drafted
<1>1. VoiceTyped
  BY DEF VoiceInv
<1>2. CASE UNCHANGED pc
  BY <1>2
<1>3. ASSUME NEW r \in Requests, Acts(r) PROVE pc'[q] \in Drafted
  <2>1. CASE q # r
    BY <1>3, <2>1, OneActs
  <2>2. CASE q = r
    BY <1>1, <1>3, <2>2 DEF Acts, Talks, Begin, SayTurn, Answered, Unanswered, Speech, TurnFails,
       End, Ack,
     Drafts, NoDraft, DraftFails, Draft, ReadDraft, DraftIsGone, Submits, ReadPreview, Enqueue,
     WriteHandoff, Link, Clear, SubmitFails, ReadHandoff, Decides, ListApprovals, Select, Resolve,
     ResolveFails, Runs, Claims, Goes, Awaits, VoiceTyped, Acks
  <2> QED BY <2>1, <2>2
<1>4. ASSUME Outside PROVE UNCHANGED pc
  BY <1>4 DEF Outside, VeraDrafts, VeraSubmits, SwitchVoice, Parks, OperatorResolves, Noted
<1> QED BY <1>2, <1>3, <1>4, ByKind DEF vars, Acts

-----------------------------------------------------------------------------
(* The approval it resolves.                                                *)
LEMMA ListedIsFinite ==
    ASSUME VoiceBounds
    PROVE  IsFiniteSet([job : Jobs, step : {1, 2}])
<1> DEFINE EntryOf == [p \in Jobs \X {1, 2} |-> [job |-> p[1], step |-> p[2]]]
<1>1. IsFiniteSet({1} \cup {2}) /\ {1, 2} = {1} \cup {2}
  BY FS_Singleton, FS_Union
<1>2. IsFiniteSet(Jobs \X {1, 2})
  BY <1>1, FS_Product DEF VoiceBounds
<1>3. EntryOf \in Surjection(Jobs \X {1, 2}, [job : Jobs, step : {1, 2}])
  <2>1. EntryOf \in [Jobs \X {1, 2} -> [job : Jobs, step : {1, 2}]]
    OBVIOUS
  <2>2. ASSUME NEW e \in [job : Jobs, step : {1, 2}]
        PROVE  \E p \in Jobs \X {1, 2} : EntryOf[p] = e
    <3>1. <<e.job, e.step>> \in Jobs \X {1, 2} /\ EntryOf[<<e.job, e.step>>] = e
      OBVIOUS
    <3> QED BY <3>1
  <2> QED BY <2>1, <2>2 DEF Surjection
<1> QED BY <1>2, <1>3, FS_Surjection

(* From the list read to the decision made, the request's entries, links    *)
(* and choice agree.                                                        *)
LEMMA VoiceApproval ==
    ASSUME VoiceBounds, VoiceInv, [Next]_vars, NEW q \in Requests PROVE ApprovalOk(q)'
<1> USE DEF VoiceBounds, session, queue, mind, page, world, Matches
<1>0. VoiceTyped /\ ApprovalOk(q) /\ ConsentOk(q)
  BY DEF VoiceInv
<1>1. CASE UNCHANGED vars
  BY <1>0, <1>1 DEF vars, ApprovalOk
<1>2. ASSUME NEW r \in Requests, Acts(r), q # r PROVE ApprovalOk(q)'
  <2>1. /\ pc'[q] = pc[q] /\ pc[q] \in AwayFromLoop
    BY <1>2, OneActs
  <2>2. (\E x \in resolved' : x.by = q) => \E x \in resolved : x.by = q
    BY <1>2 DEF Acts, Talks, Begin, SayTurn, Answered, Unanswered, Speech, TurnFails, End, Ack,
     Drafts, NoDraft, DraftFails, Draft, ReadDraft, DraftIsGone, Submits, ReadPreview, Enqueue,
     WriteHandoff, Link, Clear, SubmitFails, ReadHandoff, Decides, ListApprovals, Select, Resolve,
     ResolveFails, Elsewhere
  <2> QED BY <1>0, <2>1, <2>2 DEF ApprovalOk, AwayFromLoop
<1>3. CASE Talks(q)
  <2>1. resolved' = resolved
    BY <1>3 DEF Talks, Begin, SayTurn, Answered, Unanswered, Speech, TurnFails, End, Ack,
       Elsewhere
  <2>2. /\ pc'[q] \notin {"links", "resolve", "resolved"}
        /\ \/ pc[q] \in {"idle", "turn", "reply"}
           \/ pc[q] \in Acks \cup {"over", "speech"} /\ pc'[q] \in {"done", "draft", "speech", "over"}
    BY <1>0, <1>3 DEF Talks, Begin, SayTurn, Answered, Unanswered, Speech, TurnFails, End, Ack,
       VoiceTyped,
       Runs, Goes, Awaits
  <2> QED BY <1>0, <2>1, <2>2 DEF ApprovalOk, Acks
<1>4. CASE Drafts(q)
  <2>1. resolved' = resolved
    BY <1>4 DEF Drafts, NoDraft, DraftFails, Draft, ReadDraft, DraftIsGone, Elsewhere
  <2>2. pc'[q] \in {"claim", "over"}
    BY <1>0, <1>4 DEF Drafts, NoDraft, DraftFails, Draft, ReadDraft, DraftIsGone, VoiceTyped,
       Runs, Goes, Awaits
  <2> QED BY <1>0, <2>1, <2>2 DEF ApprovalOk
<1>5. CASE Submits(q)
  <2>1. resolved' = resolved
    BY <1>5 DEF Submits, ReadPreview, Enqueue, WriteHandoff, Link, Clear, SubmitFails, ReadHandoff
  <2>2. /\ pc'[q] \in {"no_preview", "enqueue", "handoff", "link", "clear", "reread", "submitted", "not_queued"}
        /\ pc[q] \notin {"resolved", "speech", "draft", "claim", "over", "done"}
    BY <1>0, <1>5 DEF Submits, ReadPreview, Enqueue, WriteHandoff, Link, Clear, SubmitFails,
       ReadHandoff, VoiceTyped,
       Runs, Goes, Awaits
  <2> QED BY <1>0, <2>1, <2>2 DEF ApprovalOk
<1>6. CASE ListApprovals(q)
  <2>1. /\ pc'[q] = "links" /\ pc[q] = "list" /\ listed'[q] = Entries /\ UNCHANGED <<stepOf, resolved>>
    BY <1>0, <1>6 DEF ListApprovals, VoiceTyped, Runs, Goes, Elsewhere
  <2>2. \A e \in Entries : stepOf[e.job] = e.step
    BY DEF Entries
  <2> QED BY <1>0, <2>1, <2>2 DEF ApprovalOk
<1>7. CASE Select(q)
  <2>1. /\ pc[q] = "links" /\ UNCHANGED <<stepOf, resolved, listed, got, meanwhile>> /\ linked'[q] = links
        /\ pc'[q] = IF Matches(q, links) = {} THEN "nothing_pending"
                    ELSE IF Cardinality(Matches(q, links)) > 1 THEN "ambiguous" ELSE "resolve"
    BY <1>0, <1>7 DEF Select, VoiceTyped, Runs, Goes, Elsewhere, Alone
  <2>2. IsFiniteSet(Matches(q, links))
    <3>1. Matches(q, links) \subseteq [job : Jobs, step : {1, 2}]
      BY <1>0 DEF VoiceTyped
    <3> QED BY <3>1, ListedIsFinite, FS_Subset
  <2>3. pc'[q] = "resolve" => \E e : Matches(q, links) = {e}
    <3>1. SUFFICES ASSUME Matches(q, links) # {}, ~(Cardinality(Matches(q, links)) > 1)
                   PROVE  \E e : Matches(q, links) = {e}
      BY <2>1
    <3>2. Cardinality(Matches(q, links)) \in Nat /\ Cardinality(Matches(q, links)) # 0
      BY <2>2, <3>1, FS_CardinalityType, FS_EmptySet
    <3>3. Cardinality(Matches(q, links)) = 1
      BY <3>1, <3>2
    <3> QED BY <2>2, <3>3, FS_Singleton
  <2> QED BY <1>0, <2>1, <2>3 DEF ApprovalOk
<1>8. ASSUME NEW end \in {"done", "failed", "parked"}, Resolve(q, end) PROVE ApprovalOk(q)'
  <2> DEFINE x == [by |-> q, job |-> Chosen(q), step |-> stepOf[Chosen(q)], yes |-> ask[q] = "approve",
                   end |-> end, late |-> meanwhile[q]]
  <2>1. /\ pc'[q] = IF Answer(ask[q] = "approve", end) THEN "resolved" ELSE "over"
        /\ resolved' = resolved \cup {x} /\ got'[q] = Chosen(q)
    BY <1>0, <1>8 DEF Resolve, VoiceTyped, Goes
  <2>2. x.by = q /\ x.job = Chosen(q) /\ x.yes = (ask[q] = "approve") /\ x.end = end /\ x \in resolved'
    BY <2>1
  <2>3. pc'[q] = "resolved" => (x.yes => x.end = "done")
    BY <2>1, <2>2 DEF Answer
  <2> HIDE DEF x
  <2> QED BY <2>1, <2>2, <2>3 DEF ApprovalOk
<1>9. CASE ResolveFails(q)
  BY <1>0, <1>9 DEF ResolveFails, Goes, VoiceTyped, Elsewhere, ApprovalOk
<1>10. CASE Outside
  <2>1. UNCHANGED <<pc, listed, linked, got, resolved>> /\ meanwhile[q] \subseteq meanwhile'[q]
    BY <1>0, <1>10 DEF Outside, VeraDrafts, VeraSubmits, SwitchVoice, Parks, OperatorResolves,
       Noted
  <2>2. UNCHANGED stepOf \/ "queue" \in meanwhile'[q]
    BY <1>10 DEF Outside, VeraDrafts, VeraSubmits, SwitchVoice, Parks, OperatorResolves, Noted,
       Queue
  <2> QED BY <1>0, <2>1, <2>2 DEF ApprovalOk
<1> QED BY <1>1, <1>2, <1>3, <1>4, <1>5, <1>6, <1>7, <1>8, <1>9, <1>10, ByKind DEF Acts, Decides

(* The job it makes.                                                        *)
LEMMA VoiceSubmission ==
    ASSUME VoiceBounds, VoiceInv, [Next]_vars, NEW q \in Requests PROVE SubmitOk(q)'
<1> USE DEF VoiceBounds, session, queue, mind, page, world
<1>0. VoiceTyped /\ SubmitOk(q) /\ DraftsOk /\ 0 \notin Requests
  BY DEF VoiceInv
<1>k. \A j \in Jobs : from[j].by # 0 => from'[j] = from[j]
  BY JobsKeep
<1>d. \A p \in Requests : pc[p] \in Drafted => pc'[p] \in Drafted
  BY DraftedKeeps
<1>1. CASE UNCHANGED vars
  BY <1>0, <1>1 DEF vars, SubmitOk, KnownDraft, KnownAt, Spent
<1>2. ASSUME NEW r \in Requests, Acts(r), q # r PROVE SubmitOk(q)'
  BY <1>2, OneActs DEF SubmitOk, AwayFromLoop
<1>3. CASE Talks(q) \/ Decides(q)
  <2>1. pc'[q] \notin {"enqueue", "handoff", "link", "clear", "reread", "submitted", "claim"}
    BY <1>0, <1>3 DEF Talks, Begin, SayTurn, Answered, Unanswered, Speech, TurnFails, End, Ack,
       VoiceTyped,
       Runs, Goes, Awaits, Decides, ListApprovals, Select, Resolve, ResolveFails
  <2> QED BY <2>1 DEF SubmitOk
<1>4. CASE Drafts(q)
  <2>1. pc'[q] = "over" \/ (pc'[q] = "claim" /\ preview' = q)
    BY <1>0, <1>4 DEF Drafts, NoDraft, DraftFails, Draft, ReadDraft, DraftIsGone, VoiceTyped,
       Runs, Goes, Awaits
  <2> QED BY <2>1 DEF SubmitOk
<1>5. CASE ReadPreview(q)
  <2>1. /\ loop = q /\ pc[q] = "preview" /\ UNCHANGED <<from, faults, others>>
        /\ \/ pc'[q] = "no_preview"
           \/ preview # 0 /\ got'[q] = preview /\ pc'[q] = "enqueue"
    BY <1>0, <1>5 DEF ReadPreview, Runs, Goes, Alone, VoiceTyped
  <2>2. KnownDraft(preview) /\ (faults = 0 /\ preview # 0 => ~Spent(preview))
    BY <1>0, <2>1 DEF DraftsOk
  <2>3. KnownDraft(preview)' /\ (faults' = 0 /\ preview # 0 => ~Spent(preview)')
    BY <1>d, <1>5, <2>1, <2>2 DEF KnownDraft, KnownAt, Spent, Drafted, ReadPreview
  <2>4. preview' = preview
    BY <1>5 DEF ReadPreview
  <2> QED BY <2>1, <2>3, <2>4 DEF SubmitOk, KnownDraft, KnownAt, Spent
<1>6. CASE Enqueue(q)
  <2>1. pc'[q] = "handoff" /\ got'[q] = NextJob /\ from'[NextJob].by = q /\ NextJob \in Jobs
    BY <1>0, <1>6, NextJobUnmade DEF Enqueue, Queue, Goes, VoiceTyped
  <2> QED BY <2>1 DEF SubmitOk
<1>7. CASE WriteHandoff(q) \/ Link(q) \/ Clear(q) \/ ReadHandoff(q)
  <2>1. /\ pc[q] \in {"handoff", "link", "clear", "reread"} /\ UNCHANGED <<got, meanwhile>>
        /\ pc'[q] \in {"link", "clear", "reread", "submitted"}
        /\ handoff' = got[q] \/ (pc[q] # "handoff" /\ handoff' = handoff)
    BY <1>0, <1>7 DEF WriteHandoff, Link, Clear, ReadHandoff, Runs, Goes, Alone, VoiceTyped
  <2> QED BY <1>0, <1>k, <2>1 DEF SubmitOk
<1>8. CASE SubmitFails(q)
  BY <1>0, <1>8 DEF SubmitFails, Goes, VoiceTyped, SubmitOk
<1>9. CASE Outside
  <2>1. UNCHANGED <<pc, got, faults>> /\ meanwhile[q] \subseteq meanwhile'[q]
    BY <1>0, <1>9 DEF Outside, VeraDrafts, VeraSubmits, SwitchVoice, Parks, OperatorResolves,
       Noted
  <2>2. UNCHANGED <<preview, handoff>> \/ "session" \in meanwhile'[q]
    BY <1>9 DEF Outside, VeraDrafts, VeraSubmits, SwitchVoice, Parks, OperatorResolves, Noted
  <2>3. \A j \in Jobs : from'[j] = from[j] \/ from'[j].by = 0
    BY <1>0, <1>9, NextJobUnmade DEF Outside, VeraDrafts, VeraSubmits, SwitchVoice, Parks,
       OperatorResolves, Queue,
       VoiceTyped
  <2>4. others' \in Nat /\ others' >= others
    BY <1>0, <1>9 DEF Outside, VeraDrafts, VeraSubmits, SwitchVoice, Parks, OperatorResolves,
       Noted, VoiceTyped
  <2>5. ASSUME pc[q] = "enqueue"
        PROVE  got'[q] # 0 /\ KnownDraft(got[q])' /\ (faults' = 0 => ~Spent(got[q])')
    <3>1. got[q] \in Nat /\ others \in Nat
      BY <1>0 DEF VoiceTyped
    <3> QED BY <1>0, <2>1, <2>3, <2>4, <2>5, <3>1 DEF SubmitOk, KnownDraft, KnownAt, Spent
  <2> QED BY <1>0, <1>k, <2>1, <2>2, <2>5 DEF SubmitOk, KnownDraft, KnownAt, Spent
<1> QED BY <1>1, <1>2, <1>3, <1>4, <1>5, <1>6, <1>7, <1>8, <1>9, ByKind DEF Acts, Submits

-----------------------------------------------------------------------------
(* The drafts.                                                              *)
LEMMA QueuesOne ==
    ASSUME VoiceBounds, VoiceInv, NEW by \in Requests \cup {0}, NEW draft \in Nat, Queue(by, draft)
    PROVE  /\ NextJob \in Jobs
           /\ from'[NextJob] = [by |-> by, draft |-> draft] /\ state'[NextJob] = "queued"
           /\ \A j \in Jobs \ {NextJob} : from'[j] = from[j] /\ state'[j] = state[j]
BY NextJobUnmade DEF VoiceBounds, Queue, VoiceInv, VoiceTyped

(* A draft just made has not been queued.                                   *)
LEMMA NewDraft ==
    ASSUME VoiceInv, NEW d, d # 0, ~KnownDraft(d) \/ d > 10 + others
    PROVE  ~Spent(d)
BY DEF VoiceInv, DraftsOk, KnownDraft, KnownAt, Spent, VoiceTyped

(* Every draft in the session or behind a job was made by a request or by   *)
(* Vera.                                                                    *)
LEMMA VoiceDraftsKnown ==
    ASSUME VoiceBounds, VoiceInv, [Next]_vars
    PROVE  /\ KnownDraft(preview)' /\ (\A j \in Jobs : KnownDraft(from[j].draft))'
           /\ (\A j \in Jobs : from[j].by # 0 => state[j] # "none")'
<1> USE DEF VoiceBounds, session, queue, mind, page, world
<1>0. VoiceTyped /\ DraftsOk /\ 0 \notin Requests
  BY DEF VoiceInv
<1>1. ASSUME NEW d \in Nat, KnownDraft(d) PROVE KnownAt(d, others', pc')
  <2>1. others \in Nat /\ others' \in Nat /\ others' >= others
    <3>1. others' = others \/ others' = others + 1
      BY DEF vars, Next, Begin, SayTurn, Answered, Unanswered, Speech, TurnFails, End, Ack,
        NoDraft, DraftFails, Draft, ReadDraft, DraftIsGone, ReadPreview, Enqueue,
        WriteHandoff, Link, Clear, SubmitFails, ReadHandoff, ListApprovals, Select, Resolve,
        ResolveFails, Elsewhere, VeraDrafts, VeraSubmits, SwitchVoice, Parks, OperatorResolves,
        Noted, Looks, Alone
    <3> QED BY <1>0, <3>1 DEF VoiceTyped
  <2>2. d <= 10 + others'
    <3>1. d \in Nat /\ d <= 10 + others
      BY <1>1 DEF KnownDraft, KnownAt
    <3>2. \A x, y \in Nat : d <= 10 + x /\ y >= x => d <= 10 + y
      BY <3>1
    <3> QED BY <2>1, <3>1, <3>2
  <2>3. d \in Requests => pc[d] \in Drafted
    BY <1>1 DEF KnownDraft, KnownAt, Drafted
  <2>4. d \in Requests => pc'[d] \in Drafted
    BY <2>3, DraftedKeeps
  <2> QED BY <2>2, <2>4 DEF KnownAt, Drafted
<1>2. ASSUME NEW d \in Nat, d <= 10 + others, d \notin Requests PROVE KnownDraft(d)
  BY <1>2 DEF KnownDraft, KnownAt
<1>3. KnownAt(preview', others', pc')
  <2>1. CASE preview' = preview
    BY <1>0, <1>1, <2>1 DEF DraftsOk, VoiceTyped, KnownDraft
  <2>2. CASE preview' = 0
    <3>1. KnownDraft(0)
      BY <1>0, <1>2 DEF VoiceTyped
    <3> QED BY <1>1, <2>2, <3>1
  <2>3. ASSUME NEW r \in Requests, DraftFails(r) \/ Draft(r), preview' = r
        PROVE  KnownAt(r, others', pc')
    <3>1. pc'[r] \in Drafted
      BY <1>0, <2>3 DEF DraftFails, Draft, Goes, VoiceTyped, Drafted
    <3>2. r <= 10 + others' /\ r \in Nat
      BY <1>0, <2>3 DEF DraftFails, Draft, VoiceTyped, Looks, Fails
    <3> QED BY <3>1, <3>2 DEF KnownDraft, KnownAt, Drafted
  <2>4. ASSUME VeraDrafts PROVE KnownAt(preview', others', pc')
    <3>1. preview' = 10 + others' /\ preview' \in Nat /\ preview' \notin Requests
      BY <1>0, <2>4 DEF VeraDrafts, Noted, VoiceTyped
    <3> QED BY <3>1 DEF KnownDraft, KnownAt
  <2> QED BY <2>1, <2>2, <2>3, <2>4 DEF vars, Next, Begin, SayTurn, Answered, Unanswered, Speech,
             TurnFails, End, Ack,
     NoDraft, DraftFails, Draft, ReadDraft, DraftIsGone, ReadPreview, Enqueue,
     WriteHandoff, Link, Clear, ClearedPreview, SubmitFails, ReadHandoff, ListApprovals, Select,
     Resolve,
     ResolveFails, Elsewhere, VeraSubmits, SwitchVoice, Parks, OperatorResolves
<1>4. ASSUME NEW j \in Jobs
      PROVE  KnownAt(from'[j].draft, others', pc') /\ (from'[j].by # 0 => state'[j] # "none")
  <2>1. CASE from' = from
    <3>1. state'[j] = state[j] \/ state'[j] # "none"
      BY <1>0, <2>1 DEF VoiceTyped, vars, Next, Begin, SayTurn, Answered, Unanswered, Speech,
         TurnFails, End, Ack,
        NoDraft, DraftFails, Draft, ReadDraft, DraftIsGone, ReadPreview, Enqueue,
        WriteHandoff, Link, Clear, SubmitFails, ReadHandoff, ListApprovals, Select, Resolve,
        ResolveFails, Elsewhere, VeraDrafts, VeraSubmits, SwitchVoice, Parks, OperatorResolves,
        Queue
    <3> QED BY <1>0, <1>1, <2>1, <3>1 DEF DraftsOk, VoiceTyped
  <2>2. ASSUME NEW by \in Requests \cup {0}, NEW draft \in Nat, Queue(by, draft), KnownDraft(draft)
        PROVE  KnownAt(from'[j].draft, others', pc') /\ (from'[j].by # 0 => state'[j] # "none")
    <3>1. KnownAt(draft, others', pc') /\ KnownAt(from[j].draft, others', pc') /\ (from[j].by # 0 => state[j] # "none")
      BY <1>0, <1>1, <2>2 DEF DraftsOk, VoiceTyped
    <3>2. /\ from'[NextJob] = [by |-> by, draft |-> draft] /\ state'[NextJob] = "queued"
          /\ j # NextJob => from'[j] = from[j] /\ state'[j] = state[j]
      BY <2>2, QueuesOne
    <3> QED BY <3>1, <3>2 DEF KnownDraft, KnownAt
  <2>3. CASE \E r \in Requests : Enqueue(r)
    <3>1. PICK r \in Requests : Enqueue(r)
      BY <2>3
    <3>2. Queue(r, got[r]) /\ got[r] \in Nat /\ KnownDraft(got[r])
      BY <1>0, <3>1 DEF VoiceInv, SubmitOk, Enqueue, Runs, VoiceTyped
    <3> QED BY <2>2, <3>2
  <2>4. CASE VeraSubmits
    <3>1. Queue(0, preview) /\ preview \in Nat /\ KnownDraft(preview)
      BY <1>0, <2>4 DEF VeraSubmits, DraftsOk, VoiceTyped
    <3> QED BY <2>2, <3>1
  <2> QED BY <2>1, <2>3, <2>4 DEF vars, Next, Begin, SayTurn, Answered, Unanswered, Speech,
             TurnFails, End, Ack,
     NoDraft, DraftFails, Draft, ReadDraft, DraftIsGone, ReadPreview,
     WriteHandoff, Link, Clear, SubmitFails, ReadHandoff, ListApprovals, Select, Resolve,
     ResolveFails, Elsewhere, VeraDrafts, SwitchVoice, Parks, OperatorResolves
<1> QED BY <1>3, <1>4 DEF KnownDraft

(* No draft that is queued by voice stays the preview, and none is queued  *)
(* twice.                                                                  *)
LEMMA VoiceDraftsSpent ==
    ASSUME VoiceBounds, VoiceInv, [Next]_vars, faults' = 0
    PROVE  /\ preview' # 0 /\ Spent(preview)' => loop' # 0 /\ pc'[loop'] \in {"handoff", "link", "clear"}
           /\ QueuedOnce'
<1> USE DEF VoiceBounds, session, queue, mind, page, world
<1>0. VoiceTyped /\ DraftsOk /\ 0 \notin Requests
  BY DEF VoiceInv
<1>1. faults = 0 /\ UNCHANGED faults
  BY <1>0 DEF VoiceTyped, vars, Next, Begin, SayTurn, Answered, Unanswered, Speech, TurnFails,
     End, Ack,
     NoDraft, DraftFails, Draft, ReadDraft, DraftIsGone, ReadPreview, Enqueue, Fails, Alone,
     Looks, Noted,
     WriteHandoff, Link, Clear, SubmitFails, ReadHandoff, ListApprovals, Select, Resolve,
     ResolveFails, VeraDrafts, VeraSubmits, SwitchVoice, Parks, OperatorResolves
<1>2. \A i, j \in Jobs : from[i].by # 0 /\ from[j].by # 0 /\ from[i].draft = from[j].draft => i = j
  BY <1>0, <1>1 DEF DraftsOk, QueuedOnce, VoiceTyped
<1>3. CASE \E r \in Requests : Enqueue(r)
  <2>1. PICK r \in Requests : Enqueue(r)
    BY <1>3
  <2>2. /\ loop' = r /\ pc'[r] = "handoff" /\ Queue(r, got[r]) /\ got[r] \in Nat /\ ~Spent(got[r])
    BY <1>0, <1>1, <2>1 DEF VoiceInv, SubmitOk, Enqueue, Runs, Goes, VoiceTyped
  <2>3. /\ from'[NextJob] = [by |-> r, draft |-> got[r]]
        /\ \A j \in Jobs \ {NextJob} : from'[j] = from[j]
    BY <2>2, QueuesOne
  <2> QED BY <1>0, <1>2, <2>2, <2>3 DEF QueuedOnce, Spent
<1>4. CASE VeraSubmits
  <2>1. preview' = 0 /\ Queue(0, preview) /\ preview \in Nat
    BY <1>0, <1>4 DEF VeraSubmits, VoiceTyped
  <2>2. /\ from'[NextJob] = [by |-> 0, draft |-> preview]
        /\ \A j \in Jobs \ {NextJob} : from'[j] = from[j]
    BY <2>1, QueuesOne
  <2> QED BY <1>2, <2>1, <2>2 DEF QueuedOnce
<1>5. CASE from' = from
  <2>1. QueuedOnce'
    BY <1>2, <1>5 DEF QueuedOnce
  <2>2. ASSUME NEW r \in Requests, Draft(r) PROVE ~Spent(preview)'
    <3>1. ~KnownDraft(r) /\ r # 0
      BY <1>0, <2>2 DEF KnownDraft, KnownAt, Draft, Runs
    <3>2. ~Spent(r) /\ preview' = r
      BY <2>2, <3>1, NewDraft DEF Draft
    <3> QED BY <1>5, <3>2 DEF Spent
  <2>3. ASSUME VeraDrafts PROVE ~Spent(preview)'
    <3>1. preview' = 11 + others /\ preview' # 0 /\ preview' > 10 + others
      BY <1>0, <2>3 DEF VeraDrafts, VoiceTyped
    <3>2. ~Spent(preview')
      BY <3>1, NewDraft
    <3> QED BY <1>5, <3>2 DEF Spent
  <2>4. CASE preview' = preview /\ UNCHANGED <<loop, pc>>
    BY <1>0, <1>1, <1>5, <2>1, <2>4 DEF DraftsOk, Spent
  <2>5. ASSUME NEW r \in Requests, Acts(r), preview' = preview, preview # 0, Spent(preview)
        PROVE  loop' # 0 /\ pc'[loop'] \in {"handoff", "link", "clear"}
    <3>1. loop # 0 /\ pc[loop] \in {"handoff", "link", "clear"} /\ loop \in Requests
      BY <1>0, <1>1, <2>5 DEF DraftsOk, VoiceTyped
    <3>2. loop = r
      BY <2>5, <3>1, OneActs DEF AwayFromLoop
    <3>3. CASE WriteHandoff(r) \/ Link(r)
      BY <1>0, <3>1, <3>2, <3>3 DEF WriteHandoff, Link, Runs, Goes, VoiceTyped
    <3>4. ~SubmitFails(r) /\ ~Enqueue(r)
      BY <1>1, <3>1, <3>2 DEF SubmitFails, Fails, Enqueue, Runs
    <3>5. ~Clear(r)
      BY <2>5 DEF Clear, ClearedPreview
    <3> QED BY <2>5, <3>1, <3>2, <3>3, <3>4, <3>5 DEF Acts, Talks, Begin, SayTurn, Answered,
               Unanswered, Speech,
        TurnFails, End, Ack, Acks, Drafts, NoDraft, DraftFails, Draft, ReadDraft, DraftIsGone,
        Submits, ReadPreview,
        ReadHandoff, Decides, ListApprovals, Select, Resolve, ResolveFails, Runs, Claims
  <2>6. ASSUME NEW r \in Requests, Acts(r), preview' # preview, preview' # 0 PROVE Draft(r)
    BY <1>1, <2>6 DEF Acts, Talks, Begin, SayTurn, Answered, Unanswered, Speech, Fails,
        TurnFails, End, Ack, Acks, Drafts, NoDraft, DraftFails, ReadDraft, DraftIsGone, Submits,
        ReadPreview,
        Enqueue, WriteHandoff, Link, Clear, ClearedPreview, SubmitFails, ReadHandoff,
        Decides, ListApprovals, Select, Resolve, ResolveFails, Elsewhere
  <2>7. CASE \E r \in Requests : Acts(r)
    BY <1>5, <2>1, <2>2, <2>5, <2>6, <2>7 DEF Spent
  <2>8. CASE SwitchVoice \/ \E j \in Jobs : Parks(j) \/ \E again \in BOOLEAN : OperatorResolves(j, again)
    BY <2>4, <2>8 DEF SwitchVoice, Parks, OperatorResolves, Noted
  <2>9. CASE UNCHANGED vars
    BY <2>4, <2>9 DEF vars
  <2> QED BY <1>4, <2>1, <2>3, <2>7, <2>8, <2>9, ByKind DEF Acts, Outside
<1> QED BY <1>3, <1>4, <1>5 DEF vars, Next, Begin, SayTurn, Answered, Unanswered, Speech,
           TurnFails, End, Ack,
     NoDraft, DraftFails, Draft, ReadDraft, DraftIsGone, ReadPreview,
     WriteHandoff, Link, Clear, SubmitFails, ReadHandoff, ListApprovals, Select, Resolve,
     ResolveFails, Elsewhere, VeraDrafts, SwitchVoice, Parks, OperatorResolves

(* One draft makes one job while no step of a submission fails.             *)
LEMMA VoiceDrafts ==
    ASSUME VoiceBounds, VoiceInv, [Next]_vars PROVE DraftsOk'
<1>1. CASE faults' = 0
  BY <1>1, VoiceDraftsKnown, VoiceDraftsSpent DEF DraftsOk
<1>2. CASE faults' # 0
  <2>1. faults' > 0
    BY <1>2, VoiceTypes DEF VoiceTyped
  <2> QED BY <1>2, <2>1, VoiceDraftsKnown DEF DraftsOk, QueuedOnce
<1> QED BY <1>1, <1>2

-----------------------------------------------------------------------------
(* What the requests leave behind.                                          *)
LEMMA VoiceRecordings ==
    ASSUME VoiceBounds, VoiceInv, [Next]_vars PROVE RecordingsGo'
<1> USE DEF VoiceBounds, session, queue, mind, page, world, RecordingsGo
<1>0. VoiceTyped /\ RecordingsGo
  BY DEF VoiceInv
<1>1. ASSUME NEW r \in Requests, Acts(r) PROVE RecordingsGo'
  <2>1. \A q \in Requests \ {r} : pc'[q] = pc[q]
    BY <1>1, OneActs
  <2>2. CASE \E a \in Asks : Begin(r, a)
    <3>1. /\ pc'[r] \in {"over", "turn"}
          /\ recordings' = IF r \in Mic THEN recordings \cup {r} ELSE recordings
      BY <1>0, <2>2 DEF Begin, VoiceTyped
    <3>2. \A q \in recordings : q \in Requests
      BY <1>0
    <3> QED BY <1>0, <2>1, <3>1, <3>2
  <2>3. CASE TurnFails(r) \/ End(r)
    BY <1>0, <2>1, <2>3 DEF TurnFails, End, RemoveRecording, VoiceTyped
  <2>4. CASE recordings' = recordings /\ pc'[r] \notin {"idle", "done"}
    BY <1>0, <2>1, <2>4
  <2>5. \/ recordings' = recordings /\ pc'[r] \notin {"idle", "done"}
        \/ TurnFails(r) \/ End(r) \/ \E a \in Asks : Begin(r, a)
    BY <1>0, <1>1 DEF Acts, Talks, SayTurn, Answered, Unanswered, Speech, Ack,
     Drafts, NoDraft, DraftFails, Draft, ReadDraft, DraftIsGone, Submits, ReadPreview, Enqueue,
     WriteHandoff, Link, Clear, SubmitFails, ReadHandoff, Decides, ListApprovals, Select, Resolve,
     ResolveFails, Runs, Claims, Goes, Awaits, VoiceTyped, Elsewhere
  <2> QED BY <2>2, <2>3, <2>4, <2>5
<1>2. ASSUME UNCHANGED vars \/ Outside PROVE RecordingsGo'
  BY <1>0, <1>2 DEF vars, Outside, VeraDrafts, VeraSubmits, SwitchVoice, Parks, OperatorResolves,
     Noted
<1> QED BY <1>1, <1>2, ByKind DEF Acts

(* Nothing else adds to the turns, the claims or the history.              *)
LEMMA VoiceAdds ==
    ASSUME VoiceInv, [Next]_vars
    PROVE  /\ \/ turns' = turns
              \/ \E r \in Requests : \/ turns' = turns \cup {Turn(r, "user", 0)}
                                     \/ turns' = turns \cup {Turn(r, "answer", 0)}
                                     \/ Ack(r)
           /\ claim' = claim \/ \E r \in Requests : ReadDraft(r) \/ ReadHandoff(r)
           /\ resolved' = resolved
              \/ \E r \in Requests : \E end \in {"done", "failed", "parked"} : Resolve(r, end)
<1> USE DEF session, queue, mind, page, world, Elsewhere
<1>1. ASSUME NEW r \in Requests, Talks(r) PROVE
        /\ turns' = turns \/ turns' = turns \cup {Turn(r, "user", 0)}
           \/ turns' = turns \cup {Turn(r, "answer", 0)} \/ Ack(r)
        /\ claim' = claim /\ resolved' = resolved
  BY <1>1 DEF Talks, Begin, SayTurn, Answered, Unanswered, Speech, TurnFails, End, Ack
<1>2. ASSUME NEW r \in Requests, Drafts(r)
      PROVE  turns' = turns /\ (claim' = claim \/ ReadDraft(r)) /\ resolved' = resolved
  BY <1>2 DEF Drafts, NoDraft, DraftFails, Draft, ReadDraft, DraftIsGone
<1>3. ASSUME NEW r \in Requests, Submits(r)
      PROVE  turns' = turns /\ (claim' = claim \/ ReadHandoff(r)) /\ resolved' = resolved
  BY <1>3 DEF Submits, ReadPreview, Enqueue, WriteHandoff, Link, Clear, SubmitFails, ReadHandoff
<1>4. ASSUME NEW r \in Requests, Decides(r)
      PROVE  /\ turns' = turns /\ claim' = claim
             /\ resolved' = resolved \/ \E end \in {"done", "failed", "parked"} : Resolve(r, end)
  BY <1>4 DEF Decides, ListApprovals, Select, Resolve, ResolveFails
<1>5. ASSUME Outside \/ UNCHANGED vars PROVE UNCHANGED <<turns, claim, resolved>>
  BY <1>5 DEF vars, Outside, VeraDrafts, VeraSubmits, SwitchVoice, Parks, OperatorResolves, Noted
<1> QED BY <1>1, <1>2, <1>3, <1>4, <1>5, ByKind

(* What is acknowledged has happened, and stays so.                         *)
LEMMA VoiceTurns ==
    ASSUME VoiceBounds, VoiceInv, [Next]_vars
    PROVE  /\ AcksAreTrue'
           /\ \A t \in turns' : t.by \in Requests /\ (t.text = "submitted" => t.job \in Jobs)
<1> USE DEF VoiceBounds, session, queue, mind, page, world
<1>0. VoiceTyped /\ HistoryOk /\ AcksAreTrue /\ 0 \notin Requests
  BY DEF VoiceInv
<1>1. resolved \subseteq resolved'
  BY VoiceAdds DEF Resolve
<1>2. ASSUME NEW t \in turns, t.text = "submitted" PROVE t.job \in Jobs /\ from'[t.job].by = t.by
  <2>1. t.job \in Jobs /\ from[t.job].by = t.by /\ t.by # 0
    BY <1>0, <1>2 DEF HistoryOk, AcksAreTrue
  <2> QED BY <2>1, JobsKeep
<1>3. ASSUME NEW r \in Requests, Ack(r)
      PROVE  /\ turns' = turns \cup {Turn(r, pc[r], got[r])} /\ UNCHANGED <<from, resolved>>
             /\ pc[r] = "submitted" => got[r] \in Jobs /\ from[got[r]].by = r
             /\ pc[r] = "resolved" => \E x \in resolved : x.by = r /\ x.job = got[r] /\ (x.yes => x.end = "done")
  BY <1>3 DEF Ack, VoiceInv, SubmitOk, ApprovalOk
<1>4. CASE turns' = turns
  BY <1>0, <1>1, <1>2, <1>4 DEF HistoryOk, AcksAreTrue
<1>5. ASSUME NEW r \in Requests, NEW text \in {"user", "answer"}, turns' = turns \cup {Turn(r, text, 0)}
      PROVE  /\ AcksAreTrue'
             /\ \A t \in turns' : t.by \in Requests /\ (t.text = "submitted" => t.job \in Jobs)
  BY <1>0, <1>1, <1>2, <1>5 DEF HistoryOk, AcksAreTrue, Turn
<1>6. ASSUME NEW r \in Requests, Ack(r)
      PROVE  /\ AcksAreTrue'
             /\ \A t \in turns' : t.by \in Requests /\ (t.text = "submitted" => t.job \in Jobs)
  BY <1>0, <1>3, <1>6 DEF HistoryOk, AcksAreTrue, Turn
<1> QED BY <1>4, <1>5, <1>6, VoiceAdds

(* A claim names what the request made, unless another wrote the session    *)
(* meanwhile.                                                               *)
LEMMA VoiceClaims ==
    ASSUME VoiceBounds, VoiceInv, [Next]_vars
    PROVE  /\ ClaimsAreOwn'
           /\ \A c \in claim' : c.by \in Requests /\ (c.what = "job" => "session" \in c.late \/ c.of \in Jobs)
<1> USE DEF VoiceBounds, session, queue, mind, page, world
<1>0. VoiceTyped /\ HistoryOk /\ ClaimsAreOwn /\ 0 \notin Requests
  BY DEF VoiceInv
<1>1. ASSUME NEW c \in claim
      PROVE  /\ c.by \in Requests /\ (c.what = "job" => "session" \in c.late \/ c.of \in Jobs)
             /\ \/ "session" \in c.late
                \/ c.what = "preview" /\ c.of = c.by
                \/ c.what = "job" /\ from'[c.of].by = c.by
  <2>1. /\ c.by \in Requests /\ (c.what = "job" => "session" \in c.late \/ c.of \in Jobs)
        /\ \/ "session" \in c.late
           \/ c.what = "preview" /\ c.of = c.by
           \/ c.what = "job" /\ from[c.of].by = c.by
    BY <1>0 DEF HistoryOk, ClaimsAreOwn
  <2> QED BY <1>0, <2>1, JobsKeep
<1>2. CASE claim' = claim
  BY <1>1, <1>2 DEF ClaimsAreOwn
<1>3. ASSUME NEW r \in Requests, ReadDraft(r) \/ ReadHandoff(r)
      PROVE  /\ ClaimsAreOwn'
             /\ \A c \in claim' : c.by \in Requests /\ (c.what = "job" => "session" \in c.late \/ c.of \in Jobs)
  <2>1. SubmitOk(r)
    BY DEF VoiceInv
  <2>2. PICK c : /\ claim' = claim \cup {c} /\ c.by = r
                 /\ \/ "session" \in c.late
                    \/ c.what = "preview" /\ c.of = c.by
                    \/ c.what = "job" /\ c.of \in Jobs /\ from[c.of].by = c.by
    <3>1. CASE ReadDraft(r)
      <4> DEFINE c == [by |-> r, what |-> "preview", of |-> preview, late |-> meanwhile[r]]
      <4>1. claim' = claim \cup {c} /\ pc[r] = "claim"
        BY <3>1 DEF ReadDraft, Claim, Claims
      <4>2. "session" \in meanwhile[r] \/ preview = r
        BY <2>1, <4>1 DEF SubmitOk
      <4>3. c.by = r /\ c.what = "preview" /\ c.of = preview /\ c.late = meanwhile[r]
        OBVIOUS
      <4> HIDE DEF c
      <4> QED BY <4>1, <4>2, <4>3
    <3>2. CASE ReadHandoff(r)
      <4> DEFINE c == [by |-> r, what |-> "job", of |-> handoff, late |-> meanwhile[r]]
      <4>1. claim' = claim \cup {c} /\ pc[r] = "reread"
        BY <3>2 DEF ReadHandoff, Claim, Runs
      <4>2. \/ "session" \in meanwhile[r]
            \/ handoff \in Jobs /\ from[handoff].by = r
        BY <2>1, <4>1 DEF SubmitOk
      <4>3. c.by = r /\ c.what = "job" /\ c.of = handoff /\ c.late = meanwhile[r]
        OBVIOUS
      <4> HIDE DEF c
      <4> QED BY <4>1, <4>2, <4>3
    <3> QED BY <1>3, <3>1, <3>2
  <2>3. UNCHANGED from
    BY <1>3 DEF ReadDraft, ReadHandoff
  <2> QED BY <1>1, <2>2, <2>3 DEF ClaimsAreOwn
<1> QED BY <1>2, <1>3, VoiceAdds

(* A decision is about an entry that was listed for its request.            *)
LEMMA VoiceDecisions ==
    ASSUME VoiceBounds, VoiceInv, [Next]_vars
    PROVE  OnlyTheListed' /\ \A x \in resolved' : x.by \in Requests
<1> USE DEF VoiceBounds, session, queue, mind, page, world
<1>0. VoiceTyped /\ HistoryOk /\ OnlyTheListed
  BY DEF VoiceInv
<1>1. ASSUME NEW x \in resolved
      PROVE  x.by \in Requests /\ UNCHANGED <<listed[x.by], linked[x.by]>>
  <2>1. x.by \in Requests /\ pc[x.by] \notin {"list", "links"}
    BY <1>0 DEF HistoryOk, VoiceInv, ApprovalOk
  <2>2. UNCHANGED <<listed, linked>> \/ \E r \in Requests : ListApprovals(r) \/ Select(r)
    BY DEF vars, Next, Begin, SayTurn, Answered, Unanswered, Speech, TurnFails, End, Ack,
     NoDraft, DraftFails, Draft, ReadDraft, DraftIsGone, ReadPreview, Enqueue,
     WriteHandoff, Link, Clear, SubmitFails, ReadHandoff, Resolve,
     ResolveFails, VeraDrafts, VeraSubmits, SwitchVoice, Parks, OperatorResolves, Noted
  <2>3. ASSUME NEW r \in Requests, ListApprovals(r) \/ Select(r)
        PROVE  UNCHANGED <<listed[x.by], linked[x.by]>>
    <3>1. r # x.by
      BY <2>1, <2>3 DEF ListApprovals, Select, Runs
    <3> QED BY <1>0, <2>1, <2>3, <3>1 DEF ListApprovals, Select, VoiceTyped
  <2> QED BY <2>1, <2>2, <2>3
<1>2. ASSUME NEW x \in resolved
      PROVE  LET both == {e \in listed'[x.by] : e.job \in linked'[x.by]} IN
             /\ {e.job : e \in both} = {x.job}
             /\ "queue" \notin x.late => both = {[job |-> x.job, step |-> x.step]}
  BY <1>0, <1>1 DEF OnlyTheListed
<1>3. CASE resolved' = resolved
  BY <1>1, <1>2, <1>3 DEF OnlyTheListed
<1>4. ASSUME NEW r \in Requests, NEW end \in {"done", "failed", "parked"}, Resolve(r, end)
      PROVE  OnlyTheListed' /\ \A x \in resolved' : x.by \in Requests
  <2> DEFINE new == [by |-> r, job |-> Chosen(r), step |-> stepOf[Chosen(r)], yes |-> ask[r] = "approve",
                     end |-> end, late |-> meanwhile[r]]
  <2>1. resolved' = resolved \cup {new} /\ UNCHANGED <<listed, linked>> /\ pc[r] = "resolve"
    BY <1>4 DEF Resolve, Runs
  <2>2. PICK e \in listed[r] : /\ Matches(r, linked[r]) = {e}
                               /\ e.job = Chosen(r) /\ e = [job |-> e.job, step |-> e.step]
    BY <1>0, <2>1, ChosenIsOne DEF VoiceInv
  <2>3. "queue" \notin meanwhile[r] => stepOf[e.job] = e.step
    BY <2>1 DEF VoiceInv, ApprovalOk
  <2>4. /\ new.by = r /\ new.job = e.job /\ new.step = stepOf[e.job] /\ new.late = meanwhile[r]
    BY <2>2
  <2>5. {d \in listed'[new.by] : d.job \in linked'[new.by]} = {e}
    BY <2>1, <2>2, <2>4 DEF Matches
  <2> HIDE DEF new
  <2>6. /\ {d.job : d \in {e}} = {new.job}
        /\ "queue" \notin new.late => {e} = {[job |-> new.job, step |-> new.step]}
    BY <2>2, <2>3, <2>4
  <2> QED BY <1>1, <1>2, <2>1, <2>4, <2>5, <2>6 DEF OnlyTheListed
<1> QED BY <1>3, <1>4, VoiceAdds

-----------------------------------------------------------------------------
(* The voice part begins in its invariant ...                               *)
LEMMA VoiceInit ==
    ASSUME VoiceBounds
    PROVE  Init => VoiceInv
<1> SUFFICES ASSUME Init PROVE VoiceInv
  OBVIOUS
<1> USE DEF VoiceBounds, Init
<1>1. VoiceTyped
  BY DEF VoiceTyped, PlacesOfVoice, Asks
<1>2. DraftsOk /\ HistoryOk
  BY DEF DraftsOk, HistoryOk, KnownDraft, KnownAt, Spent, QueuedOnce
<1>3. ASSUME NEW r \in Requests PROVE ConsentOk(r) /\ ApprovalOk(r) /\ SubmitOk(r)
  BY DEF ConsentOk, ApprovalOk, SubmitOk, HasActed, AwayFromLoop
<1> QED BY <1>1, <1>2, <1>3 DEF VoiceInv, RecordingsGo, OnlyTheListed, AcksAreTrue, ClaimsAreOwn

(* ... and no step of a request, of Vera's process or of an operator leaves *)
(* it.                                                                      *)
LEMMA VoiceStep ==
    ASSUME VoiceBounds
    PROVE  VoiceInv /\ [Next]_vars => VoiceInv'
<1> SUFFICES ASSUME VoiceInv, [Next]_vars PROVE VoiceInv'
  OBVIOUS
<1>1. HistoryOk'
  BY VoiceTurns, VoiceClaims, VoiceDecisions DEF HistoryOk
<1> QED BY <1>1, VoiceTypes, VoiceDrafts, VoiceConsent, VoiceApproval, VoiceSubmission,
           VoiceRecordings,
           VoiceTurns, VoiceClaims, VoiceDecisions DEF VoiceInv

(* What the runs check follows from the invariant.                          *)
LEMMA VoiceGood ==
    VoiceInv => RecordingsGo /\ ConsentFirst /\ OnlyTheListed /\ AcksAreTrue /\ ClaimsAreOwn /\ QueuedOnce
BY DEF VoiceInv, DraftsOk, ConsentFirst, ConsentOk, HasActed, Consented

(* Consent, recordings, approvals, drafts and acknowledgements stay in      *)
(* order, for any requests, jobs, other writers and faults.                 *)
THEOREM VoiceSound ==
    ASSUME VoiceBounds
    PROVE  Spec => []VoiceInv
BY VoiceInit, VoiceStep, PTL DEF Spec
=============================================================================
