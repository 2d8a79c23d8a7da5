----------------------------- MODULE ChatLanes -----------------------------
(***************************************************************************)
(* What one conversation with Vera does with its preview and with saved    *)
(* automations, turn by turn: which lane of run_vera_chat_turn claims a    *)
(* message, and what the lane writes (vera_web/app.py, its early exits,    *)
(* automation lane and review lane, the guided tour, and the drafting and  *)
(* management of automations in vera/).                                    *)
(*                                                                         *)
(* A message is the set of detectors it sets off, one or two of them, with *)
(* what the parsers of triggers, payloads, titles and references find in   *)
(* it.  A turn is one step but for one that asks the model: it waits, and  *)
(* any other turn may come first; what it writes then is a step of its     *)
(* own.  A write of the session may fail wherever there is one; the turn   *)
(* ends there, and the user is told nothing.                               *)
(***************************************************************************)
EXTENDS Naturals, SequencesExt

CONSTANTS
  AutoIds,        \* ids a definition may get
  MaxTurns,       \* bound on the turns, buttons included
  MaxElsewhere,   \* bound on what other sessions and the CLI do
  MaxMishaps      \* bound on the turns in which a write fails

VARIABLES
  draft,          \* pending_job_preview
  saved,          \* the definitions on disk, by id
  topic,          \* active_topic of the shared context: an id, or 0
  stash,          \* last_automation_preview, and (a ghost) which id it got
  tour,           \* walkthrough_state: the step, or Off
  late,           \* (a ghost) the step's preview was written over by an answer
  asking,         \* the turn that waits for the model: one at a time
  job,            \* the handoff or the context names a job with evidence
  explained,      \* what the user was last told of the automation preview
  kept, twice,    \* the preview has been saved; one was saved again
  refused,        \* the queue refused what it was handed
  dealt, gone,    \* ids saved or handled, ids deleted, in this conversation
  acted,          \* what the last turn did to a saved automation
  heard,          \* whether the last message may revise a file preview
  said, elsewhere, mishaps

walk == <<tour, late>>
session == <<draft, topic, stash, walk, job>>
ghosts == <<explained, kept, twice, refused, dealt, gone>>
vars == <<session, saved, asking, ghosts, acted, heard, said, elsewhere, mishaps>>

None == [kind |-> "none"]
Unused == [kind |-> "unused"]
Deleted == [kind |-> "deleted"]
Off == 9
LastStep == 3

Untold == [kind |-> "untold"]

IsAutomation(d) == d.kind = "automation"
IsNormal(d) == d.kind = "file"
File(by) == [kind |-> "file", by |-> by, step |-> 0]
TourFile(n) == [kind |-> "file", by |-> "tour", step |-> n]
IsSaved(a) == saved[a].kind = "definition"

-----------------------------------------------------------------------------
(* Messages *)

Words == {"inspect", "exit", "tour", "idle", "ask", "followup", "savefollow", "derived",
          "derive", "findings", "nearmiss", "draftref", "submit", "confirm", "blocked",
          "mutate", "apply"}
Intents == {"show", "enable", "disable", "delete", "run"}

Says(words, time, thing) ==
    [says |-> words, when |-> time, does |-> thing, name |-> "none", flag |-> "none",
     intent |-> "none", id |-> 0, hint |-> "none", pronoun |-> FALSE]
Plain == Says({}, "none", "none")

(* A command names an automation by its id, or by a pronoun with or        *)
(* without a hint of the title.                                            *)
Command(words, intent, id, hint) ==
    [says |-> words, when |-> "none", does |-> "none", name |-> "none", flag |-> "none",
     intent |-> intent, id |-> id, hint |-> hint, pronoun |-> (id = 0)]

(* The last two name no time a trigger can have: every 0 minutes, at 45.   *)
Times == {"none", "hourly", "daily", "zero", "badtime"}
Wordings == {{w} \cup s : w \in Words, s \in {{}, {"submit"}, {"mutate"}, {"exit"}}}
Talk == {Says(s, "none", "none") : s \in Wordings}
Authoring ==
    {Says(s, t, d) : s \in {{}, {"author"}}, t \in Times, d \in {"none", "diagnose", "note"}}
Editing ==
    {[Plain EXCEPT !.name = "morning"], [Says({}, "hourly", "none") EXCEPT !.name = "morning"],
     [Plain EXCEPT !.flag = "on"], [Plain EXCEPT !.flag = "off"]}
Managing ==
    {Command(s, i, 0, h) : s \in {{}, {"mutate"}}, i \in Intents, h \in {"none", "diagnose"}}
    \cup {Command(s, i, a, "none") : s \in {{}, {"mutate"}}, i \in Intents, a \in AutoIds}
Messages == Talk \cup Authoring \cup Editing \cup Managing

-----------------------------------------------------------------------------
(* Which lane claims a message *)

(* compute_active_preview_revision_in_flight: a clear revision of a file   *)
(* preview, or a phrase that may be one.                                   *)
Revising == {"mutate", "savefollow", "findings", "derived"}
InFlightNarrow(m) == IsNormal(draft) /\ "mutate" \in m.says
InFlight(m) == IsNormal(draft) /\ m.says \cap Revising # {}

(* revise_automation_preview finds something to change.                    *)
Revisable(m) == m.name # "none" \/ m.when # "none" \/ m.does # "none" \/ m.flag # "none"

Claims(l, m) ==
    CASE l = "inspect" -> "inspect" \in m.says
      [] l = "exit" -> tour # Off /\ "exit" \in m.says
      [] l = "advance" -> tour < LastStep
      [] l = "tour" -> "tour" \in m.says
      [] l = "ask" -> "ask" \in m.says
      [] l = "followup" -> m.says \cap {"followup", "savefollow"} # {} /\ ~InFlight(m)
      [] l = "derived" -> "derived" \in m.says /\ ~InFlight(m)
      [] l = "derive" -> "derive" \in m.says
      [] l = "findings" -> "findings" \in m.says /\ ~InFlight(m)
      [] l = "nearmiss" -> "nearmiss" \in m.says
      [] l = "draftref" -> "draftref" \in m.says /\ draft = None
      [] l = "nothing" -> m.says \cap {"submit", "confirm"} # {} /\ draft = None
      [] l = "save" -> "submit" \in m.says /\ IsAutomation(draft)
      [] l = "queue" -> "submit" \in m.says /\ draft # None
      [] l = "blocked" -> "blocked" \in m.says
      [] l = "revise" -> IsAutomation(draft) /\ Revisable(m)
      [] l = "author" -> draft = None /\ "author" \in m.says
      [] l = "manage" -> m.intent # "none" /\ ~IsAutomation(draft) /\ ~InFlight(m)
      [] l = "apply" -> "apply" \in m.says /\ draft # None
      [] l = "other" -> TRUE

Lanes ==
    <<"inspect", "exit", "advance", "tour", "ask", "followup", "derived", "derive", "findings",
      "nearmiss", "draftref", "nothing", "save", "queue", "blocked", "revise", "author",
      "manage", "apply", "other">>

LaneOf(m) == Lanes[SelectInSeq(Lanes, LAMBDA l : Claims(l, m))]

-----------------------------------------------------------------------------
(* Early exits *)

Mishap == mishaps < MaxMishaps /\ mishaps' = mishaps + 1
Fine == mishaps' = mishaps

KeepAutomations == UNCHANGED <<saved, topic, stash, explained, twice, refused, dealt, gone>>
Installed(d) == draft' = d /\ kept' = FALSE

(* Answers that leave the preview alone: inspection, a comparison, a near  *)
(* miss, a draft that is not there, nothing to submit, a blocked path.     *)
Answers(l) ==
    /\ l \in {"inspect", "derive", "nearmiss", "draftref", "nothing", "blocked"}
    /\ Fine /\ KeepAutomations
    /\ UNCHANGED <<draft, kept, walk, job>>

(* The time, a refusal, or a review; one that finds its job makes it the   *)
(* reviewed job of the context.                                            *)
Reviews(l) ==
    /\ l = "ask"
    /\ job' \in {job, TRUE}
    /\ Fine /\ KeepAutomations
    /\ UNCHANGED <<draft, kept, walk>>

(* A follow-up needs the evidence of a job, which may be gone by now.      *)
FollowsUp(l) ==
    /\ l = "followup"
    /\ \/ job /\ Installed(File("evidence"))
       \/ UNCHANGED <<draft, kept>>
    /\ Fine /\ KeepAutomations
    /\ UNCHANGED <<walk, job>>

(* A note from what was derived before, or from the findings, if there     *)
(* are any.                                                                *)
SavesDerived(l) ==
    /\ l = "derived"
    /\ Installed(File("research")) \/ UNCHANGED <<draft, kept>>
    /\ Fine /\ KeepAutomations
    /\ UNCHANGED <<walk, job>>

SavesFindings(l) ==
    /\ l = "findings"
    /\ Installed(File("research")) \/ UNCHANGED <<draft, kept>>
    /\ Fine /\ KeepAutomations
    /\ UNCHANGED <<walk, job>>

(* The guided tour: any message but a short one or a question moves it on. *)
(* The preview is written before the step.                                 *)
Shows(n) ==
    /\ Installed(TourFile(n))
    /\ \/ tour' = n /\ late' = FALSE /\ Fine
       \/ UNCHANGED walk /\ Mishap

TourStarts(l) ==
    /\ l = "tour"
    /\ Shows(0)
    /\ KeepAutomations /\ UNCHANGED job

TourAdvances(l, m) ==
    /\ l = "advance"
    /\ IF "idle" \in m.says
       THEN UNCHANGED <<draft, kept, walk>> /\ Fine
       ELSE Shows(tour + 1)
    /\ KeepAutomations /\ UNCHANGED job

Ended == tour' = Off /\ late' = FALSE
TourEnds(l) ==
    /\ l = "exit"
    /\ Ended
    /\ Fine /\ KeepAutomations /\ UNCHANGED <<draft, kept, job>>

-----------------------------------------------------------------------------
(* Submitting *)

(* What AutomationDefinition validates of a preview.                       *)
Valid(d) == d.when # "zero"

Cleared == draft' = None /\ kept' = FALSE

Definition(d) ==
    [kind |-> "definition", title |-> d.title, when |-> d.when, does |-> d.does, on |-> d.on,
     by |-> "vera"]

(* submit_automation_preview, then record_submit_success, the context and  *)
(* the stash, of which the session gets as many as it can write: with none *)
(* there is a definition it knows nothing of.                              *)
SaveDefinition ==
    \/ /\ Valid(draft)
       /\ \E a \in AutoIds :
              /\ saved[a] = Unused
              /\ saved' = [saved EXCEPT ![a] = Definition(draft)]
              /\ twice' = (twice \/ kept)
              /\ \E written \in 0..3 :
                     /\ IF written > 0 THEN Cleared ELSE draft' = draft /\ kept' = TRUE
                     /\ IF written > 1 THEN topic' = a /\ dealt' = dealt \cup {a}
                                       ELSE UNCHANGED <<topic, dealt>>
                     /\ IF written = 3
                        THEN stash' = [kind |-> "stash", title |-> draft.title, of |-> a] /\ Fine
                        ELSE UNCHANGED stash /\ Mishap
       /\ UNCHANGED <<walk, job, explained, refused, gone>>
    \/ /\ IF Valid(draft) THEN Mishap ELSE Fine
       /\ UNCHANGED <<session, saved, ghosts>>

(* _submit_handoff: a job that is accepted ends the tour.                  *)
Queue ==
    \/ /\ IsNormal(draft)
       /\ draft' = None /\ kept' = FALSE /\ job' = TRUE
       /\ \/ Ended /\ Fine
          \/ tour # Off /\ UNCHANGED walk /\ Mishap
       /\ KeepAutomations
    \/ /\ IF IsNormal(draft) THEN Mishap /\ UNCHANGED refused ELSE Fine /\ refused' = TRUE
       /\ UNCHANGED <<session, saved, explained, kept, twice, dealt, gone>>

SubmitsAutomation(l) == l = "save" /\ SaveDefinition
SubmitsFile(l) == l = "queue" /\ Queue

-----------------------------------------------------------------------------
(* Drafting an automation *)

(* An interval is all a definition knows of a time of day.                 *)
Config(t) == IF t = "daily" THEN "24h" ELSE t

Explained(d, when) == [kind |-> "told", title |-> d.title, when |-> when, does |-> d.does]

(* The preview is installed with several writes.  Only when all of them    *)
(* are done is the user told of it, unless it is a change without a word.  *)
Offered(d, words) ==
    /\ Installed(d)
    /\ \/ explained' = words /\ Fine
       \/ explained' = Untold /\ Mishap

(* The first thing the message names is changed, and the preview explained *)
(* again; a flag is changed without a word.  A time that is none raises.   *)
Revises(l, m) ==
    /\ l = "revise"
    /\ CASE m.name # "none" ->
              LET d == [draft EXCEPT !.title = <<m.name, "named">>] IN
              Offered(d, Explained(d, d.when))
         [] m.name = "none" /\ m.when = "badtime" -> UNCHANGED <<draft, kept, explained>> /\ Fine
         [] m.name = "none" /\ m.when \notin {"none", "badtime"} ->
              LET d == [draft EXCEPT !.when = Config(m.when)] IN
              Offered(d, Explained(d, m.when))
         [] m.name = "none" /\ m.when = "none" /\ m.does # "none" ->
              LET d == [draft EXCEPT !.does = m.does] IN
              Offered(d, Explained(d, d.when))
         [] OTHER ->
              Offered([draft EXCEPT !.on = (m.flag = "on")], explained)
    /\ UNCHANGED <<saved, topic, stash, walk, job, twice, refused, dealt, gone>>

(* Without a time or a thing to do the answer is a question.               *)
Authors(l, m) ==
    /\ l = "author"
    /\ IF m.when \in {"none", "badtime"} \/ m.does = "none"
       THEN UNCHANGED <<draft, kept, explained>> /\ Fine
       ELSE LET d == [kind |-> "automation", title |-> <<m.does, m.when>>,
                      when |-> Config(m.when), does |-> m.does, on |-> TRUE] IN
            Offered(d, Explained(d, m.when))
    /\ UNCHANGED <<saved, topic, stash, walk, job, twice, refused, dealt, gone>>

-----------------------------------------------------------------------------
(* Managing saved automations *)

Titled(h) == {a \in AutoIds : IsSaved(a) /\ h \in Range(saved[a].title)}
Stashed == {a \in AutoIds : IsSaved(a) /\ stash # None /\ saved[a].by = "vera"
                            /\ saved[a].title = stash.title}
All == {a \in AutoIds : IsSaved(a)}

SoleOrFirst(S) == S
Sole(S) == {a \in S : S = {a}}

(* resolve_automation_reference: an id that exists, the topic, the title   *)
(* of the last preview saved (the first that has it), the only title that  *)
(* matches, and the only definition there is; a title that matches several *)
(* stops it, one that matches none does not.                               *)
Resolved(m) ==
    IF m.id # 0 /\ IsSaved(m.id) THEN {m.id}
    ELSE IF topic # 0 /\ IsSaved(topic) THEN {topic}
    ELSE IF Stashed # {} THEN Stashed
    ELSE IF m.hint # "none" /\ Titled(m.hint) # {} THEN Sole(Titled(m.hint))
    ELSE IF m.pronoun THEN Sole(All) ELSE {}

(* Whether the user can have meant this one.                               *)
Known(a, m) ==
    \/ a \in {m.id} \cup dealt
    \/ stash # None /\ saved[a].title = stash.title
    \/ Titled(m.hint) = {a} \/ All = {a}

Changing == {"enable", "disable", "delete"}

(* The handler, which reports its own errors, then the context and, after  *)
(* a delete, the stash: a delete is forgotten whether it succeeded or not, *)
(* and told to the user when all is written.  A run is a job of the        *)
(* runner's.                                                               *)
Handles(a, m) ==
    \E done \in BOOLEAN, written \in 0..2 :
        /\ done \/ m.intent \in Changing
        /\ written # 1 \/ m.intent = "delete"
        /\ acted' = [kind |-> "acted", id |-> a, known |-> Known(a, m)]
        /\ saved' = IF ~done THEN saved ELSE [saved EXCEPT ![a] =
               CASE m.intent = "enable" -> [@ EXCEPT !.on = TRUE]
                 [] m.intent = "disable" -> [@ EXCEPT !.on = FALSE]
                 [] m.intent = "delete" -> Deleted
                 [] OTHER -> @]
        /\ topic' = IF written = 0 THEN topic ELSE IF m.intent = "delete" THEN 0 ELSE a
        /\ stash' = IF m.intent = "delete" /\ written = 2 THEN None ELSE stash
        /\ dealt' = IF m.intent = "delete" \/ written = 0 THEN dealt ELSE dealt \cup {a}
        /\ gone' = IF m.intent = "delete" /\ done /\ written = 2 THEN gone \cup {a} ELSE gone
        /\ IF done /\ written = 2 THEN Fine ELSE Mishap
        /\ UNCHANGED <<draft, walk, job, explained, kept, twice, refused>>

Manages(l, m) ==
    /\ l = "manage"
    /\ \E a \in Resolved(m) : Handles(a, m)

(* None meant, or several: a question or an apology.                       *)
Unresolved(l, m) ==
    /\ l = "manage" /\ Resolved(m) = {}
    /\ Fine /\ KeepAutomations
    /\ UNCHANGED <<draft, kept, walk, job>>

-----------------------------------------------------------------------------
(* The lanes that are left: a pending suggestion is applied to the file,   *)
(* or the model and the builder leave the preview, revise it or set a new  *)
(* one, for which an empty script may be set first.                        *)

Applies(l) ==
    /\ l = "apply"
    /\ \/ IsNormal(draft) /\ Installed(File("user"))
       \/ UNCHANGED <<draft, kept>>
    /\ Fine /\ KeepAutomations /\ UNCHANGED <<walk, job>>

(* What is read before the wait is not read again after it: the answer is  *)
(* installed over whatever preview there is by then, or an empty one is    *)
(* cleared.                                                                *)
AsksTheModel(l, m) ==
    /\ l = "other" /\ asking = "nothing"
    /\ asking' = IF m.says \cap Revising # {} THEN "revision" ELSE "message"
    /\ \/ draft = None /\ Installed(File("script"))
       \/ UNCHANGED <<draft, kept>>
    /\ Fine /\ KeepAutomations /\ UNCHANGED <<walk, job>>

ModelAnswers ==
    /\ asking # "nothing" /\ asking' = "nothing"
    /\ acted' = None /\ heard' = (asking = "revision")
    /\ \/ Installed(File("user"))
       \/ IsNormal(draft) /\ Cleared
       \/ UNCHANGED <<draft, kept>>
    /\ late' = (late \/ (tour < LastStep /\ draft' # draft))
    /\ Fine /\ KeepAutomations /\ UNCHANGED <<tour, job, said, elsewhere>>

Turn(m) ==
    \E l \in {LaneOf(m)} :
       \/ /\ acted' = None /\ UNCHANGED asking
          /\ \/ Answers(l) \/ Reviews(l) \/ FollowsUp(l) \/ SavesDerived(l) \/ SavesFindings(l)
             \/ TourStarts(l) \/ TourAdvances(l, m) \/ TourEnds(l)
             \/ SubmitsAutomation(l) \/ SubmitsFile(l) \/ Revises(l, m) \/ Authors(l, m)
             \/ Unresolved(l, m) \/ Applies(l)
       \/ acted' = None /\ AsksTheModel(l, m)
       \/ UNCHANGED asking /\ Manages(l, m)

(* The handoff button submits what there is.                               *)
Handoff ==
    /\ acted' = None /\ heard' = FALSE /\ UNCHANGED asking
    /\ \/ IsAutomation(draft) /\ SaveDefinition
       \/ IsNormal(draft) /\ Queue

Clear ==
    /\ acted' = None /\ heard' = FALSE /\ UNCHANGED asking
    /\ draft' = None /\ topic' = 0 /\ stash' = None /\ Ended /\ job' = FALSE
    /\ explained' = None /\ kept' = FALSE /\ dealt' = {}
    /\ Fine /\ UNCHANGED <<saved, twice, refused, gone>>

User ==
    /\ said < MaxTurns /\ said' = said + 1
    /\ (\E m \in Messages : heard' = (m.says \cap Revising # {}) /\ Turn(m)) \/ Handoff \/ Clear
    /\ UNCHANGED elsewhere

(* Another session or the command line creates a definition or deletes one. *)
Elsewhere ==
    /\ elsewhere < MaxElsewhere /\ elsewhere' = elsewhere + 1
    /\ \E a \in AutoIds :
           \/ /\ saved[a] = Unused
              /\ \E by \in {"vera", "cli"} :
                     saved' = [saved EXCEPT ![a] =
                         [kind |-> "definition", title |-> <<"diagnose", "hourly">>,
                          when |-> "hourly", does |-> "diagnose", on |-> TRUE, by |-> by]]
           \/ IsSaved(a) /\ saved' = [saved EXCEPT ![a] = Deleted]
    /\ acted' = None /\ heard' = FALSE
    /\ UNCHANGED <<session, asking, ghosts, said, mishaps>>

Init ==
    /\ draft = None /\ topic = 0 /\ stash = None /\ tour = Off /\ late = FALSE
    /\ job = FALSE /\ asking = "nothing"
    /\ saved = [a \in AutoIds |-> Unused]
    /\ explained = None /\ kept = FALSE /\ twice = FALSE /\ refused = FALSE
    /\ dealt = {} /\ gone = {} /\ acted = None /\ heard = FALSE
    /\ said = 0 /\ elsewhere = 0 /\ mishaps = 0

Next == User \/ ModelAnswers \/ Elsewhere

Spec == Init /\ [][Next]_vars
-----------------------------------------------------------------------------
(* Properties *)

(* A message that revises the file preview, or may be meant to, is not     *)
(* taken for a follow-up, a note from research or a command about an       *)
(* automation, neither at once nor when the model has answered: the        *)
(* preview stays, is revised, submitted, cleared, or the tour's.           *)
RevisionsKeepTheDraft ==
    [][heard' /\ IsNormal(draft)
       => /\ acted' = None
          /\ IsNormal(draft') /\ draft'.by \in {"evidence", "research"} => draft' = draft]_vars

(* After any revisions, what the user was last told of an automation       *)
(* preview is what there is to save; of a time of day, as an interval.  A  *)
(* write that failed while the preview was set leaves the user untold.     *)
SavedAsShown ==
    IsAutomation(draft) =>
        \/ mishaps > 0 /\ explained = Untold
        \/ /\ explained.title = draft.title /\ explained.does = draft.does
           /\ Config(explained.when) = draft.when

(* A preview is saved as one definition, however often it is submitted,    *)
(* unless a write has failed in between.                                   *)
SavedOnce == mishaps = 0 => ~twice

(* A command acts on an automation the user named, that this conversation  *)
(* has dealt with, that bears the title of the one last saved, or that is  *)
(* the only one it can be.                                                 *)
NeverGuesses == acted # None => acted.known

(* Once the user was told that an automation is deleted, neither the topic *)
(* of the conversation nor its stashed preview refers to it; a write that  *)
(* fails after the delete ends the turn before that.                       *)
DeletedIsForgotten == topic \notin gone /\ (stash # None => stash.of \notin gone)

(* While the tour runs, the preview is the one its step tells of, unless   *)
(* a write has failed, or the answer to a message from before the tour has *)
(* come since the step.                                                    *)
TourShowsItsStep == mishaps = 0 /\ ~late /\ tour < LastStep => draft = TourFile(tour)

(* An automation preview is never handed to the queue, which would refuse  *)
(* it: whichever way it is submitted, it is saved.                         *)
NothingRefused == ~refused
=============================================================================
