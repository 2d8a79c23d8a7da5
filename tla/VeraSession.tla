---------------------------- MODULE VeraSession ----------------------------
(***************************************************************************)
(* One session of Vera: the requests of a browser, which the web process   *)
(* handles on one event loop, and the queue daemon, which reports finished *)
(* jobs into the same session file.  The file is read, changed and written *)
(* back in place, without a lock.                                          *)
(*                                                                         *)
(* A handler is a program: the writes it makes, in order.  A write is      *)
(* taken in steps (what it depends on is read, the file is read, cut to    *)
(* nothing, filled), and a reader in between sees no session at all.       *)
(***************************************************************************)
EXTENDS Naturals, Sequences

CONSTANTS
    Requests,       \* requests of the browser: 1 .. n
    Jobs,           \* ids of submitted jobs: 1 .. n
    Daemon, None,
    NoFile, Torn,   \* no session file; one that is cut and not yet filled
    MaxDrafts,      \* bound: previews drafted
    MaxFaults       \* bound: writes that fail, processes that are killed

ASSUME SessionAssumption ==
    /\ Requests \subseteq Nat /\ Jobs \subseteq Nat
    /\ Daemon \notin Requests /\ None \notin Requests
    /\ MaxDrafts \in Nat /\ MaxFaults \in Nat

Procs == Requests \cup {Daemon}
Automations == [id : 1 .. MaxDrafts, auto : {TRUE}]
JobPreviews == [id : 1 .. MaxDrafts, auto : {FALSE}]
Previews == Automations \cup JobPreviews
Turns == {"user", "vera"} \X Requests \cup {"note"} \X Jobs
Statuses == {"none", "preview_ready", "submitted", "submit_failed",
             "missing_preview", "ambiguous_preview_state"}
Handoffs == [status : Statuses, job : Jobs \cup {None}]

(* The linked jobs: tracked, completions ingested, completions surfaced.    *)
Registries == [tracked : SUBSET Jobs, seen : SUBSET Jobs, told : SUBSET Jobs]
Payloads == [turns : SUBSET Turns, preview : Previews \cup {None},
             handoff : Handoffs, registry : Registries,
             ctx : BOOLEAN]         \* does the shared context refer to a preview

(* A submission: of a preview, by a request, and whether the job was taken  *)
(* from the inbox before the request had looked for it there.               *)
Submissions == [preview : Previews, by : Requests, missed : BOOLEAN]

(* What is there when a thing is not is none of these things.               *)
ASSUME AbsentAssumption ==
    /\ None \notin Jobs \cup Previews \cup Submissions
    /\ NoFile \notin Payloads /\ Torn \notin Payloads /\ NoFile # Torn

Default ==
    [turns |-> {}, preview |-> None, handoff |-> [status |-> "none", job |-> None],
     registry |-> [tracked |-> {}, seen |-> {}, told |-> {}], ctx |-> FALSE]

VARIABLES
    file,       \* the session file
    loop,       \* the request that has the event loop
    at,         \* of each process: the step of its write it is at
    prog,       \* of each process: what it has still to do
    edit, copy, \* of each process: the field it writes, and the file to be
    seen,       \* seen[t]: the active preview as request t read it
    state,      \* state[j]: what has become of job j
    sent,       \* sent[j]: the submission job j was made by
    drafts, faults,
    said,       \* history: the turns in the chat since it was last cleared
    notes,      \* history: how often a note of j was put in the chat
    raced       \* history: the daemon and a request have worked at once

work == <<at, prog, edit, copy>>
queue == <<state, sent>>
history == <<said, notes, raced>>
vars == <<file, loop, work, seen, queue, drafts, faults, history>>

Ops ==
    {"preview"} \X (Previews \cup {None}) \cup {"handoff"} \X Handoffs
    \cup {"registry"} \X Registries \cup {"ctx"} \X BOOLEAN
    \cup {"turn"} \X Turns \cup {"submit"} \X (Previews \cup {None})
    \cup {"track", "deliver", "submitted"} \X Jobs
    \cup {"ingest"} \X (SUBSET Jobs)
    \cup {<<"surface">>, <<"touch">>, <<"unlink">>, <<"wait">>}

TypeOK ==
    /\ file \in Payloads \cup {NoFile, Torn}
    /\ loop \in Requests \cup {None}
    /\ at \in [Procs -> {"idle", "get", "load", "cut", "fill", "wait", "over"}]
    /\ prog \in [Procs -> Seq(Ops)]
    /\ edit \in [Procs -> {None} \cup {"turns"} \X (SUBSET Turns) \cup {"registry"} \X Registries]
    /\ copy \in [Procs -> Payloads]
    /\ seen \in [Requests -> Previews \cup {None}]
    /\ state \in [Jobs -> {"none", "queued", "reported", "quiet"}]
    /\ sent \in [Jobs -> Submissions \cup {None}]
    /\ drafts \in 0 .. MaxDrafts /\ faults \in 0 .. MaxFaults
    /\ said \in SUBSET Turns /\ notes \in [Jobs -> Nat] /\ raced \in BOOLEAN

(* A session that has yet to begin, or one with a preview in play.          *)
Init ==
    /\ \/ file = NoFile /\ drafts = 0
       \/ \E v \in Previews :
              /\ file = [Default EXCEPT !.preview = v, !.ctx = TRUE,
                        !.handoff.status = IF v.auto THEN "none" ELSE "preview_ready"]
              /\ v.id = 1 /\ drafts = 1
    /\ loop = None
    /\ at = [p \in Procs |-> "idle"] /\ prog = [p \in Procs |-> <<>>]
    /\ edit = [p \in Procs |-> None] /\ copy = [p \in Procs |-> Default]
    /\ seen = [t \in Requests |-> None]
    /\ state = [j \in Jobs |-> "none"] /\ sent = [j \in Jobs |-> None]
    /\ faults = 0
    /\ said = {} /\ notes = [j \in Jobs |-> 0] /\ raced = FALSE

(* _read_session_payload: what cannot be read is an empty session.          *)
Contents == IF file \in {NoFile, Torn} THEN Default ELSE file

-----------------------------------------------------------------------------
(* Writing the session file *)

Working(p) == IF p = Daemon THEN at[p] # "idle" ELSE loop = p

(* Somebody else is at work while p changes the file.                       *)
Races(p) == raced' = (raced \/ \E q \in Procs \ {p} : Working(q))

Doing(p, what) ==
    /\ Working(p) /\ at[p] = "get" /\ prog[p] # <<>> /\ Head(prog[p])[1] = what

Forgets(p) ==
    edit' = [edit EXCEPT ![p] = None] /\ copy' = [copy EXCEPT ![p] = Default]

(* p is going to write v into field f.                                      *)
WillPut(p, f, v) ==
    /\ edit' = [edit EXCEPT ![p] = <<f, v>>]
    /\ at' = [at EXCEPT ![p] = "load"]
    /\ UNCHANGED <<prog, copy>>

Skip(p, rest) ==
    /\ prog' = [prog EXCEPT ![p] = rest]
    /\ UNCHANGED <<at, edit, copy>>

(* _write_session_field: the rest of the file is read, ...                  *)
Put(p) ==
    /\ \E f \in {"preview", "handoff", "registry", "ctx"} :
           /\ Doing(p, f)
           /\ copy' = [copy EXCEPT ![p] = [Contents EXCEPT ![f] = Head(prog[p])[2]]]
    /\ at' = [at EXCEPT ![p] = "cut"]
    /\ UNCHANGED <<file, loop, prog, edit, seen, queue, drafts, faults, history>>

(* A write, or several in a row, of fields that are left out here.          *)
Touch(p) ==
    /\ Doing(p, "touch")
    /\ copy' = [copy EXCEPT ![p] = Contents]
    /\ at' = [at EXCEPT ![p] = "cut"]
    /\ UNCHANGED <<file, loop, prog, edit, seen, queue, drafts, faults, history>>

Load(p) ==
    /\ Working(p) /\ at[p] = "load"
    /\ copy' = [copy EXCEPT ![p] = [Contents EXCEPT ![edit[p][1]] = edit[p][2]]]
    /\ at' = [at EXCEPT ![p] = "cut"]
    /\ UNCHANGED <<file, loop, prog, edit, seen, queue, drafts, faults, history>>

(* ... and _write_session_payload opens it, which cuts it, and writes it.   *)
Cut(p) ==
    /\ Working(p) /\ at[p] = "cut"
    /\ file' = Torn
    /\ at' = [at EXCEPT ![p] = "fill"]
    /\ Races(p)
    /\ UNCHANGED <<loop, prog, edit, copy, seen, queue, drafts, faults, said, notes>>

Fill(p) ==
    /\ Working(p) /\ at[p] = "fill"
    /\ file' = copy[p]
    /\ at' = [at EXCEPT ![p] = "get"]
    /\ prog' = [prog EXCEPT ![p] = Tail(@)]
    /\ Forgets(p)
    /\ IF Head(prog[p])[1] = "turn"
       THEN /\ said' = said \cup {Head(prog[p])[2]}
            /\ notes' = [j \in Jobs |->
                   notes[j] + IF Head(prog[p])[2] = <<"note", j>> THEN 1 ELSE 0]
       ELSE UNCHANGED <<said, notes>>
    /\ Races(p)
    /\ UNCHANGED <<loop, seen, queue, drafts, faults>>

(* append_session_turn: the turns, and after them the rest.                 *)
AppendTurn(p) ==
    /\ Doing(p, "turn")
    /\ WillPut(p, "turns", Contents.turns \cup {Head(prog[p])[2]})
    /\ UNCHANGED <<file, loop, seen, queue, drafts, faults, history>>

(* register_session_linked_job                                              *)
Track(p) ==
    /\ Doing(p, "track")
    /\ WillPut(p, "registry", [Contents.registry EXCEPT !.tracked = @ \cup {Head(prog[p])[2]}])
    /\ UNCHANGED <<file, loop, seen, queue, drafts, faults, history>>

(* clear_session_turns removes the file.                                    *)
Unlink(p) ==
    /\ Doing(p, "unlink")
    /\ file' = NoFile
    /\ Skip(p, Tail(prog[p]))
    /\ said' = {}
    /\ Races(p)
    /\ UNCHANGED <<loop, seen, queue, drafts, faults, notes>>

-----------------------------------------------------------------------------
(* Completions of linked jobs *)

Terminal(j) == state[j] \in {"reported", "quiet"}

(* The surfacing policy of j's outcome allows a note in the chat.           *)
Eligible(j) == state[j] = "reported"

(* ingest_linked_job_completions, and the shared context after it.          *)
Ingest(p) ==
    LET r == Contents.registry
        new == {j \in Head(prog[p])[2] \cap r.tracked : j \notin r.seen /\ Terminal(j)} IN
    /\ Doing(p, "ingest")
    /\ IF new = {} THEN Skip(p, Tail(prog[p]))
       ELSE /\ Skip(p, << <<"registry", [r EXCEPT !.seen = @ \cup new]>> >>
                       \o (IF p = Daemon THEN <<>> ELSE << <<"touch">> >>)
                       \o Tail(prog[p]))
    /\ UNCHANGED <<file, loop, seen, queue, drafts, faults, history>>

(* What the next turn of the user may bring up: the completion of the job   *)
(* handed off last, or any when none was.                                   *)
Candidates ==
    LET r == Contents.registry  h == Contents.handoff.job IN
    IF h = None THEN r.seen ELSE r.seen \cap {h}

(* A completion that is surfaced without being marked.                      *)
SurfaceUnmarked(p) ==
    /\ Doing(p, "surface")
    /\ \/ \E j \in Candidates \ Contents.registry.told :
              /\ Eligible(j)
              /\ Skip(p, << <<"registry", Contents.registry>>, prog[p][2],
                            <<"turn", <<"note", j>> >> >>
                         \o SubSeq(prog[p], 3, Len(prog[p])))
       \/ /\ \A j \in Candidates \ Contents.registry.told : ~Eligible(j)
          /\ Skip(p, Tail(prog[p]))
    /\ UNCHANGED <<file, loop, seen, queue, drafts, faults, history>>

(* maybe_auto_surface_linked_completion marks one as surfaced; its note     *)
(* goes into the chat after the user's turn.                                *)
Surface(p) ==
    /\ Doing(p, "surface")
    /\ \/ \E j \in Candidates \ Contents.registry.told :
              /\ Eligible(j)
              /\ Skip(p, << <<"registry", [Contents.registry EXCEPT !.told = @ \cup {j}]>>,
                            prog[p][2], <<"turn", <<"note", j>> >> >>
                         \o SubSeq(prog[p], 3, Len(prog[p])))
       \/ /\ \A j \in Candidates \ Contents.registry.told : ~Eligible(j)
          /\ Skip(p, Tail(prog[p]))
    /\ UNCHANGED <<file, loop, seen, queue, drafts, faults, history>>

(* maybe_deliver_linked_completion_live, after the ingest: the note goes    *)
(* into the chat, and then the registry as it was read is written back.     *)
Deliver(p) ==
    LET r == Contents.registry  j == Head(prog[p])[2] IN
    /\ Doing(p, "deliver")
    /\ Skip(p,
         IF j \notin r.seen THEN <<>>
         ELSE IF j \in r.told \/ ~Eligible(j) \/ file = NoFile
              THEN << <<"registry", r>> >>
              ELSE << <<"turn", <<"note", j>> >>,
                      <<"registry", [r EXCEPT !.told = @ \cup {j}]>> >>)
    /\ UNCHANGED <<file, loop, seen, queue, drafts, faults, history>>

(* A finished job: the daemon looks for the sessions that track it.         *)
DaemonFinishes(j) ==
    /\ state[j] = "queued" /\ at[Daemon] = "idle"
    /\ \E outcome \in {"reported", "quiet"} : state' = [state EXCEPT ![j] = outcome]
    /\ IF j \in Contents.registry.tracked
       THEN /\ at' = [at EXCEPT ![Daemon] = "get"]
            /\ prog' = [prog EXCEPT ![Daemon] = << <<"ingest", {j}>>, <<"deliver", j>> >>]
       ELSE UNCHANGED <<at, prog>>
    /\ UNCHANGED <<file, loop, edit, copy, seen, sent, drafts, faults, history>>

(* Jobs also end by a command (a cancel, an approved run), which no session *)
(* is told of.                                                              *)
CommandFinishes(j) ==
    /\ state[j] = "queued"
    /\ \E outcome \in {"reported", "quiet"} : state' = [state EXCEPT ![j] = outcome]
    /\ UNCHANGED <<file, loop, work, seen, sent, drafts, faults, history>>

-----------------------------------------------------------------------------
(* The queue handoff *)

Ready == [status |-> "preview_ready", job |-> None]
Failed == [status |-> "submit_failed", job |-> None]
Refused(why) == [status |-> why, job |-> None]

(* The k-th next preview.                                                   *)
New(k, auto) == [id |-> drafts + k, auto |-> auto]
Drafts(n) == drafts + n <= MaxDrafts /\ drafts' = drafts + n

(* reset_active_preview; an automation leaves the handoff alone.            *)
Reset(v) ==
    << <<"preview", v>> >>
    \o (IF v.auto THEN <<>> ELSE << <<"handoff", Ready>> >>)
    \o << <<"ctx", TRUE>> >>

(* clear_active_preview                                                     *)
ClearPreview == << <<"preview", None>>, <<"ctx", FALSE>> >>

(* A submission that leaves the preview where it is.                        *)
AcceptedKept(j) ==
    << <<"handoff", [status |-> "submitted", job |-> j]>>, <<"track", j>>,
       <<"submitted", j>>, <<"touch">>, <<"ctx", FALSE>> >>

(* A submission whose job no session is told of.                            *)
AcceptedUntracked(j) ==
    << <<"handoff", [status |-> "submitted", job |-> j]>>,
       <<"preview", None>>, <<"submitted", j>>, <<"touch">>, <<"ctx", FALSE>> >>

(* What follows when the queue has taken job j, up to "submitted" under the *)
(* handler of submit_active_preview_for_session.                            *)
Accepted(j) ==
    << <<"handoff", [status |-> "submitted", job |-> j]>>, <<"track", j>>,
       <<"preview", None>>, <<"submitted", j>>, <<"touch">>, <<"ctx", FALSE>> >>

FreshJob(j) == sent[j] = None /\ \A k \in Jobs : sent[k] = None => j <= k

(* submit_active_preview_for_session: the preview on file and the one the   *)
(* request has read must agree.  The job is written to the inbox and looked *)
(* for there: when the daemon has taken it in between, it is missed, the    *)
(* submission is put down as failed and the preview stays.                  *)
Submit(t) ==
    LET canonical == Contents.preview
        given == Head(prog[t])[2]
        chosen == IF canonical # None THEN canonical ELSE given
        rest == Tail(prog[t]) IN
    /\ Doing(t, "submit")
    /\ \/ /\ canonical # None /\ given # None /\ given # canonical
          /\ Skip(t, << <<"handoff", Refused("ambiguous_preview_state")>> >> \o rest)
          /\ UNCHANGED queue
       \/ /\ chosen = None
          /\ Skip(t, << <<"handoff", Refused("missing_preview")>> >> \o rest)
          /\ UNCHANGED queue
       \/ /\ chosen # None /\ canonical \in {None, given} \cup (IF given = None THEN {canonical} ELSE {})
          /\ \E j \in Jobs, missed \in BOOLEAN :
                /\ FreshJob(j)
                /\ sent' = [sent EXCEPT ![j] = [preview |-> chosen, by |-> t,
                                                missed |-> missed]]
                /\ state' = [state EXCEPT ![j] = "queued"]
                /\ Skip(t, (IF missed THEN << <<"handoff", Failed>> >> ELSE Accepted(j)) \o rest)
    /\ UNCHANGED <<file, loop, seen, drafts, faults, history>>

Submitted(t) ==
    /\ Doing(t, "submitted")
    /\ Skip(t, Tail(prog[t]))
    /\ UNCHANGED <<file, loop, seen, queue, drafts, faults, history>>

-----------------------------------------------------------------------------
(* A chat turn: lanes, in the order of run_vera_chat_turn *)

(* The request gets the event loop and reads the active preview.            *)
Begins(t) ==
    /\ at[t] = "idle" /\ loop = None
    /\ \A u \in Requests : u < t => at[u] # "idle"
    /\ loop' = t
    /\ at' = [at EXCEPT ![t] = "get"]
    /\ seen' = [seen EXCEPT ![t] = Contents.preview]
    /\ UNCHANGED <<file, edit, copy, queue, faults, history>>

Says(t) == << <<"turn", <<"vera", t>> >> >>
Asked(t) == << <<"turn", <<"user", t>> >> >>
Traced == << <<"touch">> >>

(* A turn that claims the lane: what precedes, the lane's writes, the       *)
(* answer and the routing trace.  A submission brings up no completion.     *)
Turn(t, submits, lane) ==
    prog' = [prog EXCEPT ![t] =
        << <<"ingest", Jobs>> >> \o (IF submits THEN <<>> ELSE << <<"surface">> >>)
        \o Asked(t) \o lane \o Says(t) \o Traced]

(* dispatch_early_exit_intent and its writes: answers, reviews, follow-up   *)
(* previews, the guided tour.                                               *)
EarlyExit(t) ==
    /\ Begins(t)
    /\ \/ Drafts(0) /\ \E lane \in {<<>>, << <<"touch">> >>} : Turn(t, FALSE, lane)
       \/ Drafts(1) /\ Turn(t, FALSE, Reset(New(1, FALSE)) \o << <<"touch">> >>)

(* A confirmed weather lookup: the model is asked, with no preview about.   *)
Weather(t) ==
    /\ Begins(t) /\ Contents.preview = None /\ Drafts(0)
    /\ Turn(t, FALSE, << <<"wait">>, <<"touch">> >>)

SubmitWithoutPreview(t) ==
    /\ Begins(t) /\ Contents.preview = None /\ Drafts(0)
    /\ Turn(t, FALSE, << <<"submit", None>> >>)

(* An automation is saved as a definition (module Automation), not queued.  *)
SavesAutomation == ClearPreview \o << <<"touch">> >>

SubmitAutomation(t) ==
    /\ Begins(t) /\ Contents.preview \in Automations /\ Drafts(0)
    /\ Turn(t, TRUE, SavesAutomation)

(* A submission that waits, for a summary say, and takes what is then there. *)
SubmitLate(t) ==
    /\ Begins(t) /\ Contents.preview \in JobPreviews /\ Drafts(0)
    /\ Turn(t, TRUE, << <<"wait">>, <<"submit", None>> >>)

SubmitActive(t) ==
    /\ Begins(t) /\ Contents.preview \in JobPreviews /\ Drafts(0)
    /\ Turn(t, TRUE, << <<"touch">>, <<"submit", Contents.preview>> >>)

(* blocked files, clarifications, and a suggestion that is not there        *)
Refuses(t) == Begins(t) /\ Drafts(0) /\ Turn(t, FALSE, <<>>)

DraftAutomation(t) ==
    /\ Begins(t) /\ Contents.preview \notin JobPreviews /\ Drafts(1)
    /\ Turn(t, FALSE, Reset(New(1, TRUE)))

(* Commands on saved automations, unless one is being drafted.              *)
ManageAutomation(t) ==
    /\ Begins(t) /\ Contents.preview \notin Automations /\ Drafts(0)
    /\ Turn(t, FALSE, << <<"touch">> >>)

ApplySuggestion(t) ==
    /\ Begins(t) /\ Contents.preview \in JobPreviews /\ Drafts(1)
    /\ Turn(t, FALSE, Reset(New(1, FALSE)) \o << <<"touch">> >>)

(* The model is asked.  Before it is, a draft may be recovered from the     *)
(* history or a shell put in place, and the web searched.                   *)
AskModel(t) ==
    /\ Begins(t)
    /\ \E n \in {0, 1}, search \in BOOLEAN :
          /\ Drafts(n)
          /\ search => Contents.preview # None
          /\ prog' = [prog EXCEPT ![t] =
                 << <<"ingest", Jobs>>, <<"surface">> >> \o Asked(t)
                 \o (IF n = 1 THEN Reset(New(1, FALSE)) ELSE <<>>)
                 \o (IF search THEN << <<"wait">>, <<"touch">> >> ELSE <<>>)
                 \o << <<"touch">>, <<"wait">> >>]

(* The event loop is given up with the answer still to come.                *)
Wait(t) ==
    /\ Doing(t, "wait")
    /\ loop' = None
    /\ at' = [at EXCEPT ![t] = "wait"]
    /\ UNCHANGED <<file, prog, edit, copy, seen, queue, drafts, faults, history>>

Resumes(t) ==
    /\ at[t] = "wait" /\ loop = None
    /\ loop' = t
    /\ at' = [at EXCEPT ![t] = "get"]
    /\ UNCHANGED <<file, edit, copy, seen, queue, faults, history>>

(* There is more to do after the wait: the search, or the weather.          *)
Continues(t) ==
    /\ Resumes(t) /\ Tail(prog[t]) # <<>>
    /\ prog' = [prog EXCEPT ![t] = Tail(@)]
    /\ UNCHANGED drafts

(* The stream broke off: only that is said.                                 *)
Interrupted(t) ==
    /\ Resumes(t)
    /\ prog' = [prog EXCEPT ![t] = Says(t)]
    /\ UNCHANGED drafts

(* The model has answered: the builder's preview or a renamed one, the      *)
(* investigation and the weather, a draft bound to the preview, the         *)
(* suggestion, and the removal of an empty shell.                           *)
Answered(t) ==
    /\ Resumes(t) /\ Tail(prog[t]) = <<>>
    /\ \E n \in 0 .. 2, drop \in BOOLEAN :
          /\ Drafts(n)
          /\ prog' = [prog EXCEPT ![t] =
                 (IF n >= 1 THEN Reset(New(1, FALSE)) ELSE <<>>)
                 \o << <<"touch">> >>
                 \o (IF n = 2 THEN Reset(New(2, FALSE)) ELSE <<>>)
                 \o (IF drop THEN ClearPreview ELSE <<>>) \o Says(t) \o Traced]

Chat(t) ==
    \/ EarlyExit(t) \/ Weather(t) \/ SubmitWithoutPreview(t) \/ SubmitAutomation(t)
    \/ SubmitActive(t) \/ Refuses(t) \/ DraftAutomation(t) \/ ManageAutomation(t)
    \/ ApplySuggestion(t) \/ AskModel(t)

-----------------------------------------------------------------------------
(* The other requests *)

(* POST /handoff: the button.                                               *)
Handoff(t) ==
    LET v == Contents.preview IN
    /\ Begins(t) /\ Drafts(0)
    /\ prog' = [prog EXCEPT ![t] =
           Asked(t)
           \o (IF v \in Automations THEN SavesAutomation ELSE << <<"submit", v>> >>)
           \o Says(t)]

(* POST /clear                                                              *)
Clear(t) ==
    /\ Begins(t) /\ Drafts(0)
    /\ prog' = [prog EXCEPT ![t] = << <<"unlink">>, <<"ctx", FALSE>>, <<"touch">> >>]

Ends(p) ==
    /\ Working(p) /\ at[p] = "get" /\ prog[p] = <<>>
    /\ at' = [at EXCEPT ![p] = IF p = Daemon THEN "idle" ELSE "over"]
    /\ loop' = IF p = Daemon THEN loop ELSE None
    /\ UNCHANGED <<file, prog, edit, copy, seen, queue, drafts, faults, history>>

-----------------------------------------------------------------------------
(* Faults *)

Fault == faults < MaxFaults /\ faults' = faults + 1

Stops(p) ==
    /\ at' = [at EXCEPT ![p] = IF p = Daemon THEN "idle" ELSE "over"]
    /\ loop' = IF p = Daemon THEN loop ELSE None
    /\ prog' = [prog EXCEPT ![p] = <<>>]

(* The file cannot be opened, or the disk is full.  During a submission the *)
(* handoff is put down as failed; a note of the daemon that fails is left   *)
(* for the next turn; anything else ends the request, or the report.        *)
WriteFails(p) ==
    /\ Working(p) /\ at[p] \in {"cut", "fill"} /\ Fault
    /\ LET done == {i \in DOMAIN prog[p] : prog[p][i][1] = "submitted"}
           recover(rest) == /\ at' = [at EXCEPT ![p] = "get"] /\ UNCHANGED loop
                            /\ prog' = [prog EXCEPT ![p] = rest] IN
       IF done # {}
       THEN \E i \in done :
              recover(<< <<"handoff", Failed>> >> \o SubSeq(prog[p], i + 3, Len(prog[p])))
       ELSE IF p = Daemon /\ Head(prog[p])[1] = "turn"
       THEN recover(<< <<"registry", [prog[p][2][2] EXCEPT !.told = @ \ {Head(prog[p])[2][2]}]>> >>)
       ELSE Stops(p)
    /\ Forgets(p)
    /\ UNCHANGED <<file, seen, queue, drafts, history>>

(* add_inbox_payload fails: nothing is queued.                              *)
EmitFails(t) ==
    /\ Doing(t, "submit") /\ Fault
    /\ Head(prog[t])[2] # None \/ Contents.preview # None
    /\ Skip(t, << <<"handoff", Failed>> >> \o Tail(prog[t]))
    /\ UNCHANGED <<file, loop, seen, queue, drafts, history>>

(* The web process is killed, with all its requests, or the daemon is.      *)
WebDies ==
    /\ \E t \in Requests : at[t] \notin {"idle", "over"}
    /\ Fault
    /\ at' = [p \in Procs |-> IF p # Daemon /\ at[p] # "idle" THEN "over" ELSE at[p]]
    /\ prog' = [p \in Procs |-> IF p # Daemon THEN <<>> ELSE prog[p]]
    /\ edit' = [p \in Procs |-> IF p # Daemon THEN None ELSE edit[p]]
    /\ copy' = [p \in Procs |-> IF p # Daemon THEN Default ELSE copy[p]]
    /\ loop' = None
    /\ UNCHANGED <<file, seen, queue, drafts, history>>

DaemonDies ==
    /\ at[Daemon] # "idle" /\ Fault /\ Stops(Daemon) /\ Forgets(Daemon)
    /\ UNCHANGED <<file, seen, queue, drafts, history>>

-----------------------------------------------------------------------------
Writes(p) == Put(p) \/ Touch(p) \/ Load(p) \/ Cut(p) \/ Fill(p) \/ AppendTurn(p)

WebStep(t) ==
    \/ Writes(t) \/ Track(t) \/ Unlink(t) \/ Ingest(t) \/ Surface(t)
    \/ Submit(t) \/ Submitted(t) \/ Wait(t)
    \/ Continues(t) \/ Interrupted(t) \/ Answered(t) \/ Ends(t)

DaemonStep == Writes(Daemon) \/ Ingest(Daemon) \/ Deliver(Daemon) \/ Ends(Daemon)

Next ==
    \/ \E t \in Requests : Chat(t) \/ Handoff(t) \/ Clear(t) \/ WebStep(t)
                           \/ WriteFails(t) \/ EmitFails(t)
    \/ \E j \in Jobs : DaemonFinishes(j) \/ CommandFinishes(j)
    \/ DaemonStep \/ WriteFails(Daemon)
    \/ WebDies \/ DaemonDies

Spec == Init /\ [][Next]_vars

-----------------------------------------------------------------------------
(* Properties *)

(* Nobody is at work, no write has failed, and the daemon has never worked  *)
(* beside a request.                                                        *)
Undisturbed == faults = 0 /\ ~raced
Calm == Undisturbed /\ loop = None /\ at[Daemon] = "idle"

(* j and, after it, k are jobs of one preview (job ids ascend).             *)
Again(j, k) ==
    j < k /\ sent[j] # None /\ sent[k] # None /\ sent[j].preview = sent[k].preview

(* A submission that was accepted is followed by no other of its preview,   *)
(* whatever requests overlap at their waits: only one whose job was taken   *)
(* before it was looked for, and which the user was told had failed, may be *)
(* made again.                                                              *)
SubmittedOnce == Undisturbed => \A j, k \in Jobs : Again(j, k) => sent[j].missed

(* And it is the one the request saw when it came in, even after failures.  *)
SubmittedAsSeen ==
    ~raced => \A j \in Jobs : sent[j] # None => sent[j].preview = seen[sent[j].by]

(* No chat is told twice of one completion: the daemon's report and the     *)
(* report at the next turn exclude each other.                              *)
NotesOnce == Undisturbed => \A j \in Jobs : notes[j] <= 1

(* Come what may, a job is only reported as finished when it is.            *)
NotesAreTrue == \A j \in Jobs : <<"note", j>> \in said => state[j] = "reported"

(* A turn, once in the chat, stays there until the chat is cleared: a       *)
(* request that has waited keeps what was said meanwhile.                   *)
TurnsAreKept == Calm => said \subseteq Contents.turns

(* The shared context refers to a preview exactly when there is one.        *)
ContextFollowsPreview == Calm => (Contents.ctx <=> Contents.preview # None)

(* A job in the handoff was submitted, and is followed to its completion.   *)
HandoffIsTracked ==
    Calm /\ Contents.handoff.job # None =>
        /\ sent[Contents.handoff.job] # None
        /\ Contents.handoff.status = "submitted"
        /\ Contents.handoff.job \in Contents.registry.tracked

(* What the chat is told of completions, it is told once and truly.         *)
NotesHold == NotesOnce /\ NotesAreTrue

(* The parts of the session file agree with one another and with the queue, *)
(* however requests overlap at their waits: turns, preview, context and     *)
(* handoff.                                                                 *)
SessionHolds == TypeOK /\ TurnsAreKept /\ ContextFollowsPreview /\ HandoffIsTracked

(* "subsequent turns cannot re-submit a stale payload": not so when the     *)
(* daemon writes back a file it read before the submission, which had been  *)
(* accepted.                                                                *)
NeverTwice == \A j, k \in Jobs : Again(j, k) => sent[j].missed
=============================================================================
