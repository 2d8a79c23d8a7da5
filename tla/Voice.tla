------------------------------- MODULE Voice --------------------------------
(***************************************************************************)
(* The voice workbench: a recording becomes a transcript, and the          *)
(* transcript a spoken command (submit, approve, deny) or a turn of Vera   *)
(* that may draft a preview.  Its requests share one event loop and give   *)
(* way only while Vera replies and while speech is made; the daemon, the   *)
(* operator's commands and Vera's own web process go on at any time.       *)
(* Writes of the session file are whole here: VeraSession has their races. *)
(***************************************************************************)
EXTENDS Naturals, FiniteSets

CONSTANTS Requests,       \* 1 .. n
          Mic,            \* those that bring a recording; the others name a file
          Aloud,          \* those that ask for the response to be spoken
          Jobs,           \* 1 .. m, in the order they are made
          MaxOthers,      \* moves of the other processes
          MaxFaults       \* failing writes

VARIABLES voiceOn,        \* are voice and voice input enabled
          loop,           \* the request that has the event loop, or 0
          pc, ask,        \* per request: where it is, what was asked of it
          on,             \* the flags as it read them
          listed, linked, \* the approvals and the linked jobs as it read them
          got,            \* the job it has to do with
          recordings,     \* temporary files of the microphone
          turns,          \* the session's turns
          preview,        \* the active preview; 0 for none
          handoff,        \* the job of the last handoff; 0 for none
          links,          \* the jobs linked to the session
          state,          \* per job: "none", "queued", "parked", "over"
          stepOf,         \* per job, the step it is parked at
          from,           \* per job, the request and the preview it came of
          claim,          \* what the page claims of preview and job
          spoke,          \* the requests that said something aloud
          resolved,       \* history: what requests resolved
          meanwhile,      \* history: what others did since a request looked
          others, faults

session == <<turns, preview, handoff, links>>
queue == <<state, stepOf, from>>
mind == <<ask, on, listed, linked, got>>
page == <<claim, spoke, resolved>>
world == <<voiceOn, others, meanwhile>>
vars == <<loop, pc, mind, recordings, session, queue, page, world, faults>>

(* What the words ask for; "unsent" is a run without send_to_vera.         *)
Asks == {"submit", "approve", "deny", "chat", "action", "unsent"}
Turn(r, text, job) == [by |-> r, text |-> text, job |-> job]
Unmade == {j \in Jobs : state[j] = "none"}
NextJob == CHOOSE j \in Unmade : \A k \in Unmade : j <= k
Parked(j) == state[j] = "parked"
Entries == {[job |-> j, step |-> stepOf[j]] : j \in {k \in Jobs : Parked(k)}}

Init ==
    /\ voiceOn \in BOOLEAN /\ loop = 0
    /\ pc = [r \in Requests |-> "idle"]
    /\ ask = [r \in Requests |-> "unsent"]
    /\ on = [r \in Requests |-> FALSE]
    /\ listed = [r \in Requests |-> {}] /\ linked = [r \in Requests |-> {}]
    /\ got = [r \in Requests |-> 0]
    /\ recordings = {} /\ turns = {} /\ preview \in {0, 10} /\ handoff = 0
    /\ state \in [Jobs -> {"none", "parked"}]
    /\ \A i, j \in Jobs : i < j /\ state[i] = "none" => state[j] = "none"
    /\ links \in SUBSET {j \in Jobs : state[j] # "none"}
    /\ stepOf = [j \in Jobs |-> 1]
    /\ from = [j \in Jobs |-> [by |-> 0, draft |-> 0]]
    /\ claim = {} /\ spoke = {} /\ resolved = {}
    /\ meanwhile = [r \in Requests |-> {}] /\ others = 0 /\ faults = 0

-----------------------------------------------------------------------------
(* The loop: a request runs until it awaits or ends.                       *)

Runs(r, where) == loop = r /\ pc[r] = where
Goes(r, where) == pc' = [pc EXCEPT ![r] = where] /\ UNCHANGED loop
Awaits(r, where) == pc' = [pc EXCEPT ![r] = where] /\ loop' = 0
Fails == faults < MaxFaults /\ faults' = faults + 1
Alone == UNCHANGED <<world, faults>>
Looks(r) == /\ meanwhile' = [meanwhile EXCEPT ![r] = {}]
            /\ UNCHANGED <<voiceOn, others, faults>>
Elsewhere == UNCHANGED <<recordings, session, queue, page>>

(* mic_upload, run: the recording is on disk and the flags are read, and   *)
(* transcription blocks the loop; a disabled voice has a backend that      *)
(* hears nothing.  Without send_to_vera the run ends with the transcript.  *)
HearsAnyway(r) == TRUE
Hears(r) == on'[r]
Begin(r, a) ==
    /\ loop = 0 /\ pc[r] = "idle" /\ loop' = r
    /\ ask' = [ask EXCEPT ![r] = a]
    /\ on' = [on EXCEPT ![r] = voiceOn]
    /\ recordings' = IF r \in Mic THEN recordings \cup {r} ELSE recordings
    /\ \/ pc' = [pc EXCEPT ![r] = "over"]
       \/ Hears(r) /\ a # "unsent" /\ pc' = [pc EXCEPT ![r] = "turn"]
    /\ UNCHANGED <<listed, linked, got, session, queue, page>> /\ Alone

(* append_session_turn, before anything else is done with the words.       *)
SayTurn(r) ==
    /\ Runs(r, "turn")
    /\ turns' = turns \cup {Turn(r, "user", 0)}
    /\ CASE ask[r] = "submit" -> Goes(r, "preview")
         [] ask[r] \in {"approve", "deny"} -> Goes(r, "list")
         [] OTHER -> Awaits(r, "reply")
    /\ UNCHANGED <<mind, recordings, preview, handoff, links, queue, page>> /\ Alone

(* Vera's reply: an answer becomes a turn, and is spoken if asked for; an  *)
(* error or an empty answer leaves the user's turn alone in the session.   *)
Answered(r) ==
    /\ loop = 0 /\ pc[r] = "reply"
    /\ turns' = turns \cup {Turn(r, "answer", 0)}
    /\ IF r \in Aloud THEN Awaits(r, "speech")
       ELSE loop' = r /\ pc' = [pc EXCEPT ![r] = "draft"]
    /\ UNCHANGED <<mind, recordings, preview, handoff, links, queue, page>> /\ Alone

Unanswered(r) ==
    /\ loop = 0 /\ pc[r] = "reply"
    /\ loop' = r /\ pc' = [pc EXCEPT ![r] = "draft"]
    /\ UNCHANGED mind /\ Elsewhere /\ Alone

(* synthesize_text_async: a failure leaves the text authoritative.         *)
Speech(r, made) ==
    /\ loop = 0 /\ pc[r] = "speech"
    /\ loop' = r /\ pc' = [pc EXCEPT ![r] = "draft"]
    /\ spoke' = IF made THEN spoke \cup {r} ELSE spoke
    /\ UNCHANGED <<mind, recordings, session, queue, claim, resolved>> /\ Alone

(* A write of a turn is what can raise through the whole run: the request  *)
(* fails, and its recording goes all the same, as it does at the end.      *)
RemoveRecording(r) == recordings \ {r}
Acks == {"no_preview", "not_queued", "submitted", "nothing_pending", "ambiguous", "resolved"}
TurnFails(r) ==
    /\ \/ loop = r /\ pc[r] \in Acks \cup {"turn"}
       \/ loop = 0 /\ pc[r] = "reply"
    /\ Fails
    /\ recordings' = RemoveRecording(r)
    /\ Awaits(r, "done")
    /\ UNCHANGED <<mind, session, queue, page, world>>

End(r) ==
    /\ Runs(r, "over")
    /\ recordings' = recordings \ {r}
    /\ Awaits(r, "done")
    /\ UNCHANGED <<mind, session, queue, page>> /\ Alone

-----------------------------------------------------------------------------
(* maybe_draft_canonical_preview_for_workbench, for a request for action.  *)
(* The page claims a draft of its own when the session shows one by then.  *)

NoDraft(r) ==
    /\ Runs(r, "draft")
    /\ Goes(r, "over")
    /\ UNCHANGED mind /\ Elsewhere /\ Alone

(* The preview is written, and then the handoff, which may fail: then the  *)
(* page claims nothing.                                                    *)
DraftFails(r) ==
    /\ Runs(r, "draft") /\ ask[r] = "action" /\ Fails
    /\ preview' \in {preview, r}
    /\ Goes(r, "over")
    /\ UNCHANGED <<mind, recordings, turns, handoff, links, queue, page, world>>

Draft(r) ==
    /\ Runs(r, "draft") /\ ask[r] = "action"
    /\ preview' = r /\ handoff' = 0
    /\ Looks(r)
    /\ Goes(r, "claim")
    /\ UNCHANGED <<mind, recordings, turns, links, queue, page>>

Claim(r, what, of) == claim' = claim \cup {[by |-> r, what |-> what, of |-> of, late |-> meanwhile[r]]}
Claims(r) == preview # 0 /\ pc[r] = "claim"
ReadDraft(r) ==
    /\ loop = r /\ Claims(r)
    /\ Claim(r, "preview", preview)
    /\ Goes(r, "over")
    /\ UNCHANGED <<mind, recordings, session, queue, spoke, resolved>> /\ Alone

DraftIsGone(r) ==
    /\ Runs(r, "claim") /\ preview = 0
    /\ Goes(r, "over")
    /\ UNCHANGED mind /\ Elsewhere /\ Alone

-----------------------------------------------------------------------------
(* _dispatch_submit, submit_active_preview_for_session                     *)

ReadPreview(r) ==
    /\ Runs(r, "preview")
    /\ IF preview = 0
       THEN handoff' = 0 /\ Goes(r, "no_preview") /\ UNCHANGED got
       ELSE got' = [got EXCEPT ![r] = preview] /\ Goes(r, "enqueue") /\ UNCHANGED handoff
    /\ UNCHANGED <<ask, on, listed, linked, recordings, turns, preview, links, queue, page>> /\ Alone

Queue(by, draft) ==
    /\ Unmade # {}
    /\ state' = [state EXCEPT ![NextJob] = "queued"]
    /\ from' = [from EXCEPT ![NextJob] = [by |-> by, draft |-> draft]]
    /\ UNCHANGED stepOf

Enqueue(r) ==
    /\ Runs(r, "enqueue")
    /\ Queue(r, got[r])
    /\ got' = [got EXCEPT ![r] = NextJob]
    /\ Looks(r)
    /\ Goes(r, "handoff")
    /\ UNCHANGED <<ask, on, listed, linked, recordings, session, page>>

WriteHandoff(r) ==
    /\ Runs(r, "handoff")
    /\ handoff' = got[r] /\ Goes(r, "link")
    /\ UNCHANGED <<mind, recordings, turns, preview, links, queue, page>> /\ Alone

Link(r) ==
    /\ Runs(r, "link")
    /\ links' = links \cup {got[r]} /\ Goes(r, "clear")
    /\ UNCHANGED <<mind, recordings, turns, preview, handoff, queue, page>> /\ Alone

ClearedPreview == 0
Clear(r) ==
    /\ Runs(r, "clear")
    /\ preview' = ClearedPreview /\ Goes(r, "reread")
    /\ UNCHANGED <<mind, recordings, turns, handoff, links, queue, page>> /\ Alone

(* Each of them may raise, also when the daemon has taken the job before   *)
(* submit_preview looks for it: the handoff is marked failed and the       *)
(* operator is told that nothing was queued.                               *)
SubmitFails(r) ==
    /\ loop = r /\ pc[r] \in {"enqueue", "handoff", "link", "clear"} /\ Fails
    /\ handoff' = 0
    /\ Goes(r, "not_queued")
    /\ UNCHANGED <<mind, recordings, turns, preview, links, queue, page, world>>

(* The job id is taken from the handoff that is in the session by then.    *)
ReadHandoff(r) ==
    /\ Runs(r, "reread")
    /\ Claim(r, "job", handoff)
    /\ Goes(r, "submitted")
    /\ UNCHANGED <<mind, recordings, session, queue, spoke, resolved>> /\ Alone

-----------------------------------------------------------------------------
(* _dispatch_approval                                                      *)

ListApprovals(r) ==
    /\ Runs(r, "list")
    /\ listed' = [listed EXCEPT ![r] = Entries]
    /\ Looks(r)
    /\ Goes(r, "links")
    /\ UNCHANGED <<ask, on, linked, got>> /\ Elsewhere

MatchesAny(r, refs) == listed[r]
Matches(r, refs) == {e \in listed[r] : e.job \in refs}
Select(r) ==
    /\ Runs(r, "links")
    /\ linked' = [linked EXCEPT ![r] = links]
    /\ Goes(r, IF Matches(r, links) = {} THEN "nothing_pending"
               ELSE IF Cardinality(Matches(r, links)) > 1 THEN "ambiguous" ELSE "resolve")
    /\ UNCHANGED <<ask, on, listed, got>> /\ Elsewhere /\ Alone

(* resolve_approval runs the rest of the mission; it answers FALSE when    *)
(* the mission fails, or parks again, although the approval was used: then *)
(* nothing is acknowledged.                                                *)
Chosen(r) == (CHOOSE e \in Matches(r, linked[r]) : TRUE).job
Answer(yes, end) == yes => end = "done"
Resolve(r, end) ==
    LET j == Chosen(r)
        yes == ask[r] = "approve"
    IN
    /\ Runs(r, "resolve") /\ Parked(j)
    /\ ~yes => end = "failed"
    /\ end = "parked" => stepOf[j] = 1
    /\ stepOf' = [stepOf EXCEPT ![j] = IF end = "parked" THEN 2 ELSE @]
    /\ state' = [state EXCEPT ![j] = IF end = "parked" THEN "parked" ELSE "over"]
    /\ resolved' = resolved \cup {[by |-> r, job |-> j, step |-> stepOf[j], yes |-> yes,
                                   end |-> end, late |-> meanwhile[r]]}
    /\ got' = [got EXCEPT ![r] = j]
    /\ Goes(r, IF Answer(yes, end) THEN "resolved" ELSE "over")
    /\ UNCHANGED <<ask, on, listed, linked, recordings, session, from, claim, spoke>> /\ Alone

(* The job has left pending meanwhile, and looking it up raises.           *)
ResolveFails(r) ==
    /\ Runs(r, "resolve") /\ ~Parked(Chosen(r))
    /\ Goes(r, "over")
    /\ UNCHANGED mind /\ Elsewhere /\ Alone

-----------------------------------------------------------------------------
(* The acknowledgement becomes a turn, and is spoken if asked for.         *)

Ack(r) ==
    /\ loop = r /\ pc[r] \in Acks
    /\ turns' = turns \cup {Turn(r, pc[r], got[r])}
    /\ IF r \in Aloud THEN Awaits(r, "speech") ELSE Goes(r, "over")
    /\ UNCHANGED <<mind, recordings, preview, handoff, links, queue, page>> /\ Alone

-----------------------------------------------------------------------------
(* The others: Vera's chat in its own process, the daemon, the operator.   *)

Noted(what) ==
    /\ others < MaxOthers /\ others' = others + 1
    /\ meanwhile' = [r \in Requests |-> meanwhile[r] \cup {what}]
    /\ UNCHANGED <<loop, pc, mind, recordings, turns, page, faults>>

VeraDrafts ==
    /\ preview' = 11 + others /\ handoff' = 0
    /\ Noted("session")
    /\ UNCHANGED <<voiceOn, links, queue>>

VeraSubmits ==
    /\ preview # 0
    /\ Queue(0, preview)
    /\ handoff' = NextJob /\ links' = links \cup {NextJob} /\ preview' = 0
    /\ Noted("session")
    /\ UNCHANGED voiceOn

Parks(j) ==
    /\ state[j] = "queued"
    /\ state' = [state EXCEPT ![j] = "parked"]
    /\ Noted("queue")
    /\ UNCHANGED <<voiceOn, preview, handoff, links, stepOf, from>>

OperatorResolves(j, again) ==
    /\ Parked(j) /\ (again => stepOf[j] = 1)
    /\ state' = [state EXCEPT ![j] = IF again THEN "parked" ELSE "over"]
    /\ stepOf' = [stepOf EXCEPT ![j] = IF again THEN 2 ELSE @]
    /\ Noted("queue")
    /\ UNCHANGED <<voiceOn, preview, handoff, links, from>>

SwitchVoice ==
    /\ voiceOn' = ~voiceOn
    /\ Noted("voice")
    /\ UNCHANGED <<preview, handoff, links, queue>>

Next ==
    \/ \E r \in Requests :
         \/ \E a \in Asks : Begin(r, a)
         \/ SayTurn(r) \/ Answered(r) \/ Unanswered(r)
         \/ \E made \in BOOLEAN : Speech(r, made)
         \/ TurnFails(r) \/ End(r)
         \/ NoDraft(r) \/ DraftFails(r) \/ Draft(r) \/ ReadDraft(r) \/ DraftIsGone(r)
         \/ ReadPreview(r) \/ Enqueue(r) \/ WriteHandoff(r) \/ Link(r) \/ Clear(r)
         \/ SubmitFails(r) \/ ReadHandoff(r)
         \/ ListApprovals(r) \/ Select(r)
         \/ \E end \in {"done", "failed", "parked"} : Resolve(r, end)
         \/ ResolveFails(r) \/ Ack(r)
    \/ VeraDrafts \/ VeraSubmits \/ SwitchVoice
    \/ \E j \in Jobs : Parks(j) \/ \E again \in BOOLEAN : OperatorResolves(j, again)

Spec == Init /\ [][Next]_vars

-----------------------------------------------------------------------------

(* Only the microphone's recordings are kept, and none outlives its        *)
(* request, however that ends.                                             *)
RecordingsGo ==
    \A r \in recordings : r \in Mic /\ pc[r] \notin {"idle", "done"}

(* Nothing is written, queued, resolved or drafted for a request that did  *)
(* not ask to send its words to Vera, or that began with voice disabled.   *)
ConsentFirst ==
    \A r \in Requests :
       (\/ \E t \in turns : t.by = r
        \/ \E j \in Jobs : from[j].by = r
        \/ \E x \in resolved : x.by = r
        \/ \E c \in claim : c.by = r
        \/ r \in spoke)
       => ask[r] # "unsent" /\ on[r]

(* A spoken approval or refusal resolves the one approval that was listed  *)
(* and linked to the session, and at the step it was listed with unless    *)
(* somebody else moved a job in between.                                   *)
OnlyTheListed ==
    \A x \in resolved :
       LET both == {e \in listed[x.by] : e.job \in linked[x.by]} IN
       /\ {e.job : e \in both} = {x.job}
       /\ "queue" \notin x.late => both = {[job |-> x.job, step |-> x.step]}

(* An acknowledgement in the session is true: what it calls resolved has   *)
(* been resolved as asked, by this request, to the mission's end, and what *)
(* it calls submitted is a job of this request.                            *)
AcksAreTrue ==
    \A t \in turns :
       /\ t.text = "resolved" =>
            \E x \in resolved :
               x.by = t.by /\ x.job = t.job /\ (x.yes => x.end = "done")
       /\ t.text = "submitted" => from[t.job].by = t.by

(* The page claims a preview or a job only of the request's own making,    *)
(* unless Vera's process wrote the session between the write and the       *)
(* second reading.                                                         *)
ClaimsAreOwn ==
    \A c \in claim :
       \/ "session" \in c.late
       \/ c.what = "preview" /\ c.of = c.by
       \/ c.what = "job" /\ from[c.of].by = c.by

(* One draft is not queued twice by voice, however often the operator says *)
(* it, unless the first time ended in an error though the job was queued:  *)
(* a write failed after it, or the daemon had taken the job before it was  *)
(* looked for.                                                             *)
QueuedOnce ==
    \A i, j \in Jobs :
       /\ from[i].by # 0 /\ from[j].by # 0 /\ from[i].draft = from[j].draft
       => i = j \/ faults > 0
=============================================================================
