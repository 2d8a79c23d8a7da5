------------------------------ MODULE MCParts ------------------------------
(***************************************************************************)
(* Small instances of eight parts that share no state: a behaviour is one  *)
(* of one part, chosen at the start, and the variables of the others keep  *)
(* one value.                                                              *)
(***************************************************************************)
EXTENDS Naturals, Sequences, FiniteSets, TLC

CONSTANTS MaxFields, Retries, MaxReplans,        \* Intake
          Tiers,                                 \* Planner
          Names, MaxUser, MaxFaults,             \* FileSkills
          MaxEdits,                              \* SkillGate
          Jobs, MaxBack, MaxMoves, MaxTools,     \* Hygiene
          Threads, Writers, MaxCalls, MaxSaves,  \* Speech
          MaxTokens, Ttl, MaxTime,
          Requests, Mic, Aloud, VoiceJobs, MaxOthers,   \* Voice
          AutoIds, MaxTurns, MaxElsewhere, MaxMishaps   \* ChatLanes

ASSUME PartBounds ==
    /\ MaxFields \in Nat /\ Retries \in Nat \ {0} /\ MaxReplans \in Nat
    /\ Tiers \in Seq(STRING)
    /\ Names \cap {"queue", ".."} = {}        \* these Asked has besides
    /\ MaxUser \in Nat /\ MaxFaults \in Nat /\ MaxEdits \in Nat
    /\ Jobs \subseteq Nat /\ MaxBack \in Nat /\ MaxMoves \in Nat /\ MaxTools \in Nat
    /\ "nobody" \notin Threads /\ MaxCalls \in Nat /\ MaxSaves \in Nat
    /\ MaxTokens \in Nat \ {0} /\ Ttl \in Nat /\ MaxTime \in Nat
    /\ Requests \subseteq 1..9 /\ Mic \subseteq Requests /\ Aloud \subseteq Requests
    /\ VoiceJobs \subseteq Nat \ {0} /\ IsFiniteSet(VoiceJobs) /\ MaxOthers \in Nat
    /\ AutoIds \subseteq Nat \ {0} /\ IsFiniteSet(AutoIds) /\ MaxTurns \in Nat /\ MaxElsewhere \in Nat
    /\ MaxMishaps \in Nat

VARIABLES part,
          payload, via, file, told, phase, tries, attempt, first,
          goal, cloud, stage, asked, errors, reply, step,
          dirs, files, start, steps, at, pc, verdict, touched, faults,
          manifest, policy, mine, gate, args, dryrun, basis, grants, confirmed, edits,
          jobFiles, helped, ops, back, moves, tool, found, stirred, snap, quarantined, tools,
          side, config, saving, saves, wanted, overlapped, threadAt, flags, backend, answer,
          cache, cacheLock, built, audio, registry, lost, now, calls, call,
          voiceOn, loop, requestAt, ask, on, listed, linked, got, recordings, turns, preview,
          handoff, links, state, stepOf, from, claim, spoke, resolved, meanwhile, others, failed,
          draft, saved, topic, stash, tour, late, asking, job, explained, kept, twice, refused,
          dealt, gone, acted, heard, said, elsewhere, mishaps

I == INSTANCE Intake
P == INSTANCE Planner
G == INSTANCE SkillGate WITH phase <- gate, asked <- confirmed
H == INSTANCE Hygiene WITH files <- jobFiles
S == INSTANCE Speech WITH at <- threadAt, mine <- backend
(* Two with the proofs about them, which PartsProofs uses.                  *)
F == INSTANCE FileSkillsProofs
V == INSTANCE VoiceProofs WITH Jobs <- VoiceJobs, pc <- requestAt, faults <- failed
C == INSTANCE ChatLanes

intake == <<payload, via, file, told, phase, tries, attempt, first>>
plan == <<goal, cloud, stage, asked, errors, reply, step>>
skills == <<dirs, files, start, steps, at, pc, verdict, touched, faults>>
gates == <<manifest, policy, mine, gate, args, dryrun, basis, grants, confirmed, edits>>
queue == <<jobFiles, helped, ops, back, moves, tool, found, stirred, snap, quarantined, tools>>
speech == <<side, config, saving, saves, wanted, overlapped, threadAt, flags, backend, answer,
            cache, cacheLock, built, audio, registry, lost, now, calls, call>>
voice == <<voiceOn, loop, requestAt, ask, on, listed, linked, got, recordings, turns, preview,
           handoff, links, state, stepOf, from, claim, spoke, resolved, meanwhile, others, failed>>
chat == <<draft, saved, topic, stash, tour, late, asking, job, explained, kept, twice, refused,
          dealt, gone, acted, heard, said, elsewhere, mishaps>>

IntakeIdle ==
    /\ payload = 0 /\ via = 0 /\ file = 0 /\ told = "" /\ phase = "" /\ tries = 0 /\ attempt = 0
    /\ first = 0
PlanIdle ==
    /\ goal = 0 /\ cloud = 0 /\ stage = 0 /\ asked = 0 /\ errors = 0 /\ reply = 0 /\ step = 0
SkillsIdle ==
    /\ dirs = 0 /\ files = 0 /\ start = 0 /\ steps = 0 /\ at = 0 /\ pc = 0 /\ verdict = 0
    /\ touched = 0 /\ faults = 0
GatesIdle ==
    /\ manifest = 0 /\ policy = 0 /\ mine = 0 /\ gate = "" /\ args = 0 /\ dryrun = ""
    /\ basis = 0 /\ grants = 0 /\ confirmed = 0 /\ edits = 0
QueueIdle ==
    /\ jobFiles = 0 /\ helped = 0 /\ ops = 0 /\ back = 0 /\ moves = 0 /\ tool = 0 /\ found = 0
    /\ stirred = 0 /\ snap = 0 /\ quarantined = 0 /\ tools = 0
SpeechIdle ==
    /\ side = 0 /\ config = 0 /\ saving = 0 /\ saves = 0 /\ wanted = 0 /\ overlapped = 0
    /\ threadAt = 0 /\ flags = 0 /\ backend = 0 /\ answer = 0 /\ cache = 0 /\ cacheLock = 0
    /\ built = 0 /\ audio = 0 /\ registry = 0 /\ lost = 0 /\ now = 0 /\ calls = 0 /\ call = 0
VoiceIdle ==
    /\ voiceOn = 0 /\ loop = 0 /\ requestAt = 0 /\ ask = 0 /\ on = 0 /\ listed = 0 /\ linked = 0
    /\ got = 0 /\ recordings = 0 /\ turns = 0 /\ preview = 0 /\ handoff = 0 /\ links = 0
    /\ state = 0 /\ stepOf = 0 /\ from = 0 /\ claim = 0 /\ spoke = 0 /\ resolved = 0
    /\ meanwhile = 0 /\ others = 0 /\ failed = 0
ChatIdle ==
    /\ draft = 0 /\ saved = 0 /\ topic = 0 /\ stash = 0 /\ tour = 0 /\ late = FALSE
    /\ asking = 0 /\ job = 0 /\ explained = 0
    /\ kept = 0 /\ twice = 0 /\ refused = 0 /\ dealt = 0 /\ gone = 0 /\ acted = 0 /\ heard = FALSE
    /\ said = 0 /\ elsewhere = 0 /\ mishaps = 0

Init ==
    \/ /\ part = "intake" /\ I!Init
       /\ PlanIdle /\ SkillsIdle /\ GatesIdle /\ QueueIdle /\ SpeechIdle /\ VoiceIdle /\ ChatIdle
    \/ /\ part = "plan" /\ P!Init
       /\ IntakeIdle /\ SkillsIdle /\ GatesIdle /\ QueueIdle /\ SpeechIdle /\ VoiceIdle /\ ChatIdle
    \/ /\ part = "skills" /\ F!Init
       /\ IntakeIdle /\ PlanIdle /\ GatesIdle /\ QueueIdle /\ SpeechIdle /\ VoiceIdle /\ ChatIdle
    \/ /\ part = "gates" /\ G!Init
       /\ IntakeIdle /\ PlanIdle /\ SkillsIdle /\ QueueIdle /\ SpeechIdle /\ VoiceIdle /\ ChatIdle
    \/ /\ part = "queue" /\ H!Init
       /\ IntakeIdle /\ PlanIdle /\ SkillsIdle /\ GatesIdle /\ SpeechIdle /\ VoiceIdle /\ ChatIdle
    \/ /\ part = "speech" /\ S!Init
       /\ IntakeIdle /\ PlanIdle /\ SkillsIdle /\ GatesIdle /\ QueueIdle /\ VoiceIdle /\ ChatIdle
    \/ /\ part = "voice" /\ V!Init
       /\ IntakeIdle /\ PlanIdle /\ SkillsIdle /\ GatesIdle /\ QueueIdle /\ SpeechIdle /\ ChatIdle
    \/ /\ part = "chat" /\ C!Init
       /\ IntakeIdle /\ PlanIdle /\ SkillsIdle /\ GatesIdle /\ QueueIdle /\ SpeechIdle /\ VoiceIdle

Next ==
    \/ /\ part = "intake" /\ I!Next
       /\ UNCHANGED <<part, plan, skills, gates, queue, speech, voice, chat>>
    \/ /\ part = "plan" /\ P!Next
       /\ UNCHANGED <<part, intake, skills, gates, queue, speech, voice, chat>>
    \/ /\ part = "skills" /\ F!Next
       /\ UNCHANGED <<part, intake, plan, gates, queue, speech, voice, chat>>
    \/ /\ part = "gates" /\ G!Next
       /\ UNCHANGED <<part, intake, plan, skills, queue, speech, voice, chat>>
    \/ /\ part = "queue" /\ H!Next
       /\ UNCHANGED <<part, intake, plan, skills, gates, speech, voice, chat>>
    \/ /\ part = "speech" /\ S!Next
       /\ UNCHANGED <<part, intake, plan, skills, gates, queue, voice, chat>>
    \/ /\ part = "voice" /\ V!Next
       /\ UNCHANGED <<part, intake, plan, skills, gates, queue, speech, chat>>
    \/ /\ part = "chat" /\ C!Next
       /\ UNCHANGED <<part, intake, plan, skills, gates, queue, speech, voice>>

vars == <<part, intake, plan, skills, gates, queue, speech, voice, chat>>
Spec == Init /\ [][Next]_vars
-----------------------------------------------------------------------------
(* Intake *)

(* Whatever way a payload comes in: what the submission helper accepts has *)
(* something the daemon can run, enrichment never turns a job into another *)
(* one, a mission runs only if every structured part of the job is sound,  *)
(* and a goal that names one simple action starts with a skill of its      *)
(* family, after a new plan as well as after the first.                    *)
WhatRunsIsSound == part = "intake" => I!WhatRunsIsSound

(* A job fails as unparsable only while its writer has not returned, and   *)
(* never one the panel wrote: what a caller was told is queued, and what   *)
(* is renamed into place, is readable however the reads fall.              *)
UnparsableIsUnfinished == I!UnparsableIsUnfinished

(* Planner *)

(* Whatever the brains propose and in whatever order the rewrites come: a  *)
(* plan reads and writes text only when the goal asks for it, and then     *)
(* only notes; it uses shell tools only when the goal asks for it; each    *)
(* tier is asked once and in its order; a failure that the plan's message  *)
(* names is not an unknown one in health.json, and one that quotes nothing *)
(* is not a wrong one there.                                               *)
PlansStayInBounds == part = "plan" => P!PlansStayInBounds

(* FileSkills *)

(* Whatever step a mission names, and through whichever of its two paths,  *)
(* the queue below the notes directory stays as it was and nothing appears *)
(* outside: no mission can approve, cancel or forge a job by a file.       *)
ControlPlaneUntouched == part = "skills" => F!ControlPlaneUntouched

(* No file is lost: the source of a copy, move or rename is whole at its   *)
(* old or its new place in every state, after a failed call or a crash in  *)
(* any step too; without overwrite no file loses its text; a refusal       *)
(* leaves every file as it was; and an organize job that is done has its   *)
(* file where it was asked to be.                                          *)
FilesSurvive ==
    part = "skills" =>
        /\ F!TypeOK /\ F!OriginalSurvives /\ F!NothingOverwritten
        /\ F!RefusalLeavesTheFiles /\ F!DoneIsDone

(* SkillGate *)

(* Nothing runs that was denied, and nothing that must be asked for runs   *)
(* unasked: not with the network, not with side effects of class C, and    *)
(* not by a grant that was given in another scope, however manifests and   *)
(* policies change while a step waits.                                     *)
NothingUnasked == part = "gates" => G!NothingUnasked

(* What a dry run called blocked does not run in that process, and what it *)
(* called safe does not stop to ask.                                       *)
DryRunIsHonest == G!DryRunIsHonest

(* Hygiene *)

(* Upkeep takes nothing it should not, whatever moves meanwhile: reconcile *)
(* --fix no file of a resting job, and nothing it should take stays; prune *)
(* takes a job with all its sidecars or not at all, and the newest never.  *)
UpkeepIsHarmless ==
    part = "queue" =>
        /\ H!TypeOK /\ H!RestingJobsKeepTheirFiles /\ H!CleanAfterFix
        /\ H!PrunedWhole /\ H!NewestStay

(* A lookup and a report see every job that was there when they began and  *)
(* is there when they end, however it moved on meanwhile: only one sent    *)
(* back to the inbox, by a retry or by the daemon's relocation of a job    *)
(* that waits without a marker, can slip past.  In particular no other     *)
(* job's artifacts are reported as orphans.                                *)
SeenOrSentBack == part = "queue" => H!SeenOrSentBack

(* Speech *)

(* What the threads share is sound: no call is served by a backend built   *)
(* for other options, its model is loaded and built once, a call that      *)
(* succeeds had voice enabled, and a saved option stays.                   *)
SpeechIsShared ==
    part = "speech" =>
        S!TypeOK /\ S!OwnBackend /\ S!LoadedOnce /\ S!BuiltOnce /\ S!SuccessIsReal /\ S!SavesStay

(* Audio files are those with a token and those being worked on: no failed *)
(* call, no expired or evicted token leaves speech or a recording behind.  *)
(* Only speech whose listener went away stays.                             *)
NoAudioLeft == part = "speech" => S!NoAudioLeft

(* Voice *)

(* A recording does not outlive its request, however that ends, and        *)
(* nothing is written, queued, resolved or drafted for a request that did  *)
(* not ask to send its words to Vera, or began with voice disabled.        *)
VoiceByConsent == part = "voice" => V!RecordingsGo /\ V!ConsentFirst

(* What is said and shown is true: an approval resolves the one that was   *)
(* listed, an acknowledgement tells what this request did, the page claims *)
(* no other's preview or job, and one draft is not queued twice.           *)
VoiceIsTrue ==
    part = "voice" => V!OnlyTheListed /\ V!AcksAreTrue /\ V!ClaimsAreOwn /\ V!QueuedOnce

(* ChatLanes *)

(* A message that revises the file preview, or may be meant to, is not     *)
(* taken for a follow-up, a note from research or a command about an       *)
(* automation, neither at once nor when the model has answered: the        *)
(* preview stays, is revised, submitted, cleared, or the tour's.           *)
RevisionsKeepTheDraft == C!RevisionsKeepTheDraft

(* Previews and automations are dealt with as the user was told: what is   *)
(* saved is what was shown, once; a command acts on an automation that the *)
(* user can have meant; one said to be deleted is forgotten; the tour      *)
(* shows its step; and nothing is handed to the queue that it would        *)
(* refuse.  A write that fails half way through a turn leaves the user     *)
(* untold, and may let a preview be saved again or the tour show another   *)
(* step; so may, for the tour, the answer to a message from before it.     *)
DoneAsTold ==
    part = "chat" =>
        /\ C!SavedAsShown /\ C!SavedOnce /\ C!NeverGuesses /\ C!DeletedIsForgotten
        /\ C!TourShowsItsStep /\ C!NothingRefused
-----------------------------------------------------------------------------
(* Threads, and those who save options, differ in nothing.                  *)
Symmetry == Permutations(Threads) \cup Permutations(Writers)

PrimaryAndFast == <<"primary", "fast">>
=============================================================================
