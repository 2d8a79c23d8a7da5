# VoxeraOS: a verification project

TLA+ modules for the mission queue of VoxeraOS and for the parts around it, TLC
configurations that model-check them, and theorems about them that TLAPS
proves. Paths below are relative to the repository root.

## 1. The system

VoxeraOS runs *jobs*: JSON files in a queue directory. There is no server and no
database. The CLI, the panel, Vera and the automation timer write job files; one
daemon picks them up, has a model plan each of them into a *mission* (a sequence
of skills), runs it, asks the operator where the policy says so, and files the
job under what became of it. What the processes share is the directory tree:

    notes/queue/
      inbox/        <stem>.json               submitted
      pending/      <stem>.json               waiting for an approval
                    <stem>.pending.json       the mission and the step to resume at
        approvals/  <stem>.approval.json      what the operator is shown
                    grants.json               skills approved for always
      done/ failed/ canceled/
                    <stem>.json, failed/<stem>.error.json
      */<stem>.state.json                     lifecycle state and terminal outcome
      .daemon.lock  .paused  health.json  recovery/  automations/

Every command of the CLI or the panel builds a `MissionQueueDaemon` of its own
and works on the same files as the daemon, under no lock: the lock is taken by
`run` alone. So `approve` does not signal the daemon, it *runs the rest of the
mission itself*, while the daemon polls on.

### Inventory

| Part | Source (`src/voxera/`) | State | Operations | What makes it hard |
|---|---|---|---|---|
| Bucket transitions | `core/queue_paths.py`, `core/queue_state.py`, `core/queue_object_model.py` | job file, state sidecar | `move_job_with_sidecar`, `update_job_state_snapshot` | two renames and a write, each visible to others |
| Daemon | `core/queue_daemon.py` | flags, listing, job at hand | startup, tick, relocation, stop; `cancel_job`, `retry_job`, `delete_terminal_job` | listings that go stale, signals, crashes |
| Daemon lock | `core/queue_daemon.py` | `.daemon.lock`: inode, flock, payload | acquire, release, unlock, force unlock | the flock is on the inode, the unlock on the name |
| Execution | `core/queue_execution.py`, `core/execution_evaluator.py` | payload, plan, replan count | `process_job_file`, `process_pending_once` | long reads between the look and the move |
| Approvals | `core/queue_approvals.py` | approval file, marker, grants, keys | prompt, park, hard gate, `resolve_approval` | approve against daemon, approve against approve |
| Recovery | `core/queue_recovery.py` | | `recover_on_startup`, shutdown failure | fails whatever lies in `pending/` |
| Mission runner | `core/missions.py`, `skills/runner.py`, `policy.py` | the step reached | `MissionRunner.run`, `SkillRunner.run`, `decide` | effects cannot be undone |
| Assistant lane | `core/queue_assistant.py` | thread | `process_assistant_job` | |
| Intake | `core/inbox.py`, `core/queue_contracts.py`, `core/simple_intent.py` | payload, file in `inbox/` | `add_inbox_payload`, validation, enrichment, lane choice, replans | written in place, read with retries |
| Planner, brains | `core/mission_planner.py`, `brain/fallback.py` | tiers, errors | plan, fall back, rewrite | whatever a model says; eight rewrites in an order |
| Skill decision | `policy.py`, `core/execution_capabilities.py`, `skills/` | manifest, policy, grants | simulate, decide, park, approve | manifests and policy change while a step waits |
| File skills | `voxera_builtin_skills/files_*.py`, `skills/path_boundaries.py` | notes directory | copy, move, write, organize | several system calls beside a user |
| Automation | `automation/` | definitions, history, runner lock | evaluate, submit, record, save | submit and save are steps apart; run-now takes no lock |
| Health | `health.py`, `health_reset.py`, `panel/auth_enforcement.py` | `health.json`, lockouts | read, change, write back | lost updates; lockout against late failures |
| Hygiene | `core/queue_hygiene.py`, `core/queue_reconcile.py`, `core/queue_inspect.py` | listings | prune, reconcile, look up | beside jobs that move |
| Vera's session | `vera/handoff.py`, `vera/session_store.py`, `vera/linked_completions.py`, ... | session file | chat, hand off, clear, deliver | two processes write the file in place |
| Vera's lanes | `vera_web/app.py`, `vera/automation_preview.py`, `vera/first_run_tour.py` | preview, topic, stash, tour | a turn, a button | a dozen lanes that each may claim a message |
| Voice workbench | `panel/routes_voice.py` | recording, transcript | submit, approve, deny, chat | waits between a look and an act |
| Speech | `voice/input.py`, `voice/output.py`, `panel/routes_voice.py` | backends, tokens, flags file | transcribe, speak, save options | threads share a backend |
| Setup, doctor, bundles | `setup_wizard.py`, `doctor.py`, `ops_bundle.py`, ... | | I/O | |

`PROJECT.json` lists every part with what is modelled of it, and under
`hazards` the lines where it can go wrong in ways a test would hardly reach.

### What makes each part correct

* **Approvals**: no step that asks runs without an approval for it, whatever
  crashes or races; a hard-gated job runs nothing before one.
* **Execution**: `done/` means that every step of one mission succeeded; a failure
  is explained; a parked job can be resumed exactly where it stopped; no job runs
  twice at once.
* **Children** come from parents that succeeded.
* **Daemon**: the inbox drains; a stop request is honoured.
* **Lock**: one daemon at a time.
* **Intake**: what was accepted can be run; enrichment does not make another job of
  it; what runs is what was asked for. **Planner**: a plan does what its goal asks.
  **Skill decision**: nothing runs that was denied, or unasked. **File skills**: no
  file is lost, and no mission touches the queue.
* **Automation**: nothing fires too often, what fires is on record, what is due fires.
  **Health**: nothing is lost or torn, lockouts are earned and hold.
  **Hygiene**: upkeep takes nothing of a resting job and misses none.
* **Vera**: a job is the preview its request saw, and an accepted submission is the
  only one of it; a completion is told once, a revision stays a revision, an automation is
  saved as it was shown.
  **Voice**: nothing happens without consent, and what is said is true.
  **Speech**: no call is served by another's backend, and no audio is left behind.

## 2. Modules

| Module | Models | Checked by | Proofs |
|---|---|---|---|
| `MissionQueue` | the queue: files, daemons, operator commands, the environment | `MCMissionQueue` | `MissionQueueProofs` |
| `WriterLock`, `DaemonLock` | what the lock promises; the lock file, the flock, the unlock commands | `MCDaemonLock` | `DaemonLockProofs` |
| `Automation` | definitions, runners under their lock, commands without it | `MCAutomation` | `AutomationProofs` |
| `Health` | `health.json`, its writers, degradation, the login guard | `MCHealth` | `HealthProofs` |
| `VeraSession` | one session file, requests of the web process and the daemon | `MCVera` | `VeraProofs` |
| `Intake` | a payload from its writer to its mission | `MCParts` | `PartsProofs` |
| `Planner` | a goal from the brains to its plan | `MCParts` | `PartsProofs` |
| `SkillGate` | the decision about one skill | `MCParts` | `PartsProofs` |
| `FileSkills` | file skills over a tree that a user changes too | `MCParts` | `FileSkillsProofs` |
| `Hygiene` | prune, reconcile, lookups, beside moving jobs | `MCParts` | `PartsProofs` |
| `Speech` | backends and options shared by threads, audio files and tokens | `MCParts` | `PartsProofs` |
| `Voice` | a request of the voice workbench beside others | `MCParts` | `VoiceProofs` |
| `ChatLanes` | the lanes of a turn, previews and saved automations | `MCParts` | `PartsProofs` |

How they fit together. `MissionQueue` is the hub. Its other half are the writers of
`inbox/`: `VeraSession` and `Voice` submit jobs, follow what becomes of them and
approve them; `Automation` submits them on time; `Intake` has what happens between a
writer and the daemon's read. `Planner` refines the choice that `Plan` leaves open,
`SkillGate` what `AskSkills` and `DenySkills` abstract, `FileSkills` what a step does.
`ChatLanes` decides which lane has a turn, `VeraSession` what its writes meet on the
way. `Health` is written beside all of this. Each module has the others only as far
as they can disturb it (an operator moves a job, a daemon takes one).

`MissionQueue` uses the lock through one constant: `ExclusiveLock = TRUE` lets a
daemon start only when none is up (`Start`), which is what `DaemonLock` is proved
to implement while nobody unlocks (`LockCorrect`); `FALSE` is the queue after an
unlock under a live daemon, with any number of daemons at once.

### MissionQueue

State. `loc[j]` is the directory of the job file (`root` is the legacy queue root,
`gone` a deleted or pruned job); `side[j]` the state sidecar, with its own
directory, since it is renamed separately; `meta[j]` the `.pending.json`; `art[j]`
the approval file; `err[j]` the error sidecar; `grants`; the flags. A process has a
control point `pc`, what it is doing to which job, the move it makes (`src`,
`dst`), the mission it runs (`plan`, `step`), the approval `key` of
`_approved_steps`, the result `out` and the replan count. `did` and `approved` are
history variables: which steps succeeded, which resume points an approve resumed.

Steps. One action is what another process cannot see into, or whose inside does
not matter to the others: a read-and-decide, a rename, the writes that settle a job
once it has moved. So a processed job takes `Claim`, `MarkPlanning`, `LoadPlan`,
`Plan`, one `RunStep` a step, `MissionDone`, `EvaluateOk`, `Rename`, `MoveSidecar`,
`SettleDone`; any action of any other process may come in between, and `Crash`
too. An approve takes `Approve`, `ResumeRun`, the same `RunStep`s,
`EvaluateApproved`, the same move and settle, `Unlink`.

Lost moves: `Rename` does what `move_job_with_sidecar` does on
`FileNotFoundError`: nothing, and the caller returns (approve and deny still unlink
the markers).

What is abstracted:

* A mission is a sequence of skills, and a skill runs, asks or is denied
  (`AskSkills`, `DenySkills`): what policy, capabilities and manifest add up to.
  Planning yields any mission of `PlansOf[j]` or fails; a step yields ok, fail,
  retry (an error class that may be replanned) or blocked.
* A grant is per skill; in the code it also has a capability and a scope, which
  `SkillGate` has (the hazard at `skills/runner.py:180`).
* Of a state sidecar, the lifecycle state and the terminal outcome. `queued` and
  `planning` are one write, `resumed` and `running` are one. The two files
  `_write_pending_artifacts` writes and the state that follows are one step.
* Stems are unique and a stem has one state sidecar: the renaming of
  `move_job_with_sidecar` on a name collision is left out, and so is the reuse of
  a deleted stem.
* The relocation listing, the root's and pending's, is taken at once; recovery
  quarantines the marker that is there when the job is settled.
* Which failed jobs pruning removes depends on ages and counts: any set of them.
* `queue run --once` leaves after one tick; in the model that is a daemon that
  crashes while idle.
* Development-mode auto approval is off (it is in `SkillGate`).

### DaemonLock

`path` is the file the name refers to, `fd[d]` the file daemon d has open, and they
may differ: that is the point of the module. `holder` and `payload` belong to files.
`Truncate` and `Write` are two steps since `_acquire_daemon_lock` is; an unlock reads
(`ReadPayload`), judges (`Judge`) and unlinks (`UnlinkStale`) in three. A file that
nobody has open and nothing names may come back as a new one.

### Automation

A definition file is read, judged, submitted, recorded and saved in separate steps, by a
runner for each due definition in turn and by a command for one. `store` is what the
file holds, `tmp` the `.tmp` it is saved through, `history` the records; runners hold
the flock of `.runner.lock`, commands do not. `Dies` kills any process anywhere, `SaveFails`
and its kind are failing writes. Trigger kinds that the runner does not support are
modelled, since it has to skip them.

### Health

An update of `health.json` is a read, an open of `health.json.tmp`, a write and a rename.
The temporary name is one for all processes, which is why `fd` says which file an open
one has become. The daemon, its SIGTERM handler (which interrupts it between any two of
its steps), threads of the panel and `health-reset` make the updates the code makes, in
their order; the panel's login guard keeps its rows there.

### VeraSession, ChatLanes, Voice

`VeraSession` has a handler as a program, the list of the writes it makes, each of which
reads the session file, cuts it to nothing and fills it. The web process runs one handler
at a time but gives way at the wait for the model; the daemon reports completions into
the same file from its own process. `Submit` writes the job to the inbox and looks for it
there, as `submit_preview` does: if the daemon has taken it by then the job is *missed*, the
handoff is put down as failed and the preview stays.

`ChatLanes` has what `VeraSession` leaves open: which lane claims a message. A message is the
set of detectors it sets off and what the parsers find in it; the order of the early exits,
the automation lane, the submission and the review lane is the code's. A turn is one step,
but for one that asks the model, which is two (`AsksTheModel`, `ModelAnswers`): any other turn
may come between, and what was read before the wait is not read again. Where a lane makes
several writes of the session, any of them may fail: the turn ends with the writes before
it done and nothing told (`Shows`, `SaveDefinition`, `Queue`, `Offered`, `Handles`). `explained`
and `gone` are what the user has been *told*, of a preview and of a delete. `Voice` has the requests of the
workbench with their two waits, and the daemon, operators and Vera's own process between.

### Intake, Planner, SkillGate, FileSkills

`Intake` takes a payload of up to `MaxFields` fields, each absent, sound or bad, through
one of four writers, the retried read, enrichment, lane choice, the simple-intent check
and replans. `Planner` has the tiers, the failures of a tier and the rewrites of a step in
their order. A failure is an exception: the type the code looks at, the phrases its text has
that either classifier looks for, and (for the properties only) what really happened.
`PlannerClass` and `FallbackReason` are the two lists of words in their order, which are not
the same; `Raised` are the exceptions of the planner, the brains and their HTTP client, and
`Quoting` those whose text quotes what a model or a server sent, so that any phrase may be
in it. Of the tools on files the rewrites look at writing and reading text only; deleting,
moving, copying and the others (`fileop`) pass them, and are checked where they run (`FileSkills`). `SkillGate` has manifests (known, unknown and several
capabilities, network, scope), policies and grants, edited by an operator at any point,
and the three places that look at the network: policy, boundary, sandbox. `FileSkills`
has a skill as its look, its `mkdir`s, its clearing of the destination and its write, each
of which may fail or be the last before a crash, and a user who changes files in between.

### Hygiene, Speech

`Hygiene` has jobs that move by several file operations and a tool that lists one
directory after the other. Jobs are parked with a marker, or by the hard gate without one
(`Gate`); the daemon sends a job in `pending/` without a marker back to the inbox (`Relocate`),
an operator a failed or canceled one (`Retry`). A lookup goes through the buckets and, for a
job not found that has an approval file, looks in `pending/` and the inbox once more
(`LookAgain`, `Prefer`, `Confirm`). One job is moved at a time, so that relocation beside an
approve that runs the same job is left to `MissionQueue`. `Speech` has threads that read options, look for a backend
under the cache lock, load its model under the backend's and leave audio files; saving
options is a read and a write of the flags file.

## 3. What TLC checks

Passing runs.

| Run | Instance | Properties | Shows |
|---|---|---|---|
| `MCGated` | one hard-gated job dropped anywhere, mission of a free and two asking steps, 1 daemon, 2 operators, 3 commands, 1 crash or signal | `IInv`, `HardGateHolds`, `ResumePointsHold`, `AskedStepsWereApproved` | two approvals in a row, two operators at once, the bounce between inbox and pending, restarts; TLC's word for the invariant TLAPS proves |
| `MCOneOperator` | a goal and an advisory question, 1 daemon, 1 operator, 3 commands, no crash | `ExclusiveExecution`, `FailedJobsExplained`, `ParkedJobsResumable`, `ApprovedJobStays`, `DoneIsEarned` | what one careful operator may count on while the daemon polls on |
| `MCLive` | a goal with a child, a payload that does not parse, retention, 1 command, 1 crash or signal | `InboxDrains`, `ShutdownCompletes`, `ChildrenComeAfter` | liveness, with jobs pruned and canceled under the daemon's hands |
| `MCLockAlone` | 3 daemons, nobody unlocks | `SingleWriter`, `LockImplemented` | the flock implements `WriterLock` |
| `MCLockUnlocked` | 3 daemons, an operator who unlocks, stale or by force | `HeldFileNamesHolder` | what is left when the name may be removed |
| `MCAutomation` | a one-shot and a recurring definition, 2 runners, 1 command, 1 fault, 2 instants | `FiresAreDue`, `FiresAreOnRecord`, `DueFires` | no more fires than due, but for commands and faults; records; what is due fires |
| `MCVera` | 3 requests, 2 jobs, 2 drafts, 1 fault | `SubmittedOnce`, `SubmittedAsSeen`, `NotesHold`, `SessionHolds` | overlapping requests, jobs taken before they are looked for, completions told by two processes |
| `MCHealth` | 2 threads that ask for pages, 2 addresses, a daemon with its handler, a command, 3 events: 1 of them a race, 1 a fault | `SnapshotHolds`, `GuardHolds`, `FailureIsKept` | what survives of a file without a lock |
| `MCParts` | eight parts, below | fifteen, below | each part's own promises |

`MCParts` puts parts into one run that share no state and do not run together: a
behaviour chooses one at the start and leaves the variables of the others alone. The state
space is the sum of the eight, not their product, and the composition claims nothing
about them together.

| Part | Properties | Bounds |
|---|---|---|
| `Intake` | `WhatRunsIsSound`, `UnparsableIsUnfinished` | any payload of 3 fields, 4 reads, 1 replan |
| `Planner` | `PlansStayInBounds` | 2 tiers, any reply with one followed step |
| `FileSkills` | `ControlPlaneUntouched`, `FilesSurvive` | 2 names, paths of 2 names, 1 change by the user, 1 fault |
| `SkillGate` | `NothingUnasked`, `DryRunIsHonest` | manifests of up to 2 capabilities, 1 edit, a second load after a grant |
| `Hygiene` | `UpkeepIsHarmless`, `SeenOrSentBack` | 2 jobs, 2 moves, 1 way back (retry or relocation), 1 tool |
| `Speech` | `SpeechIsShared`, `NoAudioLeft` | 2 threads, 2 writers, 2 calls, 2 saves, 1 token |
| `Voice` | `VoiceByConsent`, `VoiceIsTrue` | 2 requests, 2 jobs, 1 move of others, 1 fault |
| `ChatLanes` | `RevisionsKeepTheDraft`, `DoneAsTold` | 2 definitions, 3 turns of which one waits for the model, 1 thing elsewhere, 1 turn with a failed write |

Most of these properties are conjunctions of named ones, each stated in its module with
the exception it needs: `FilesSurvive`, for one, is that the source of a copy or move
survives, that nothing is overwritten without `overwrite`, that a refusal leaves every file
and that a job that is done has its file where it was asked to be.

Why the bounds are enough to be worth something: the shortest bad behaviours found
while the models were built, and those of the mutants, need one or two actors besides
the main one, one fault and at most two commands. For the queue, missions of three steps
make a first, a middle and a last resume point, two asking skills tell a key for one step
from a key for another, and `MaxReplans` 1 has both a replan and its refusal; four lock
files are one more than three daemons can have open. For `VeraSession`, three requests
let one overlap a second and a third follow; the daemon works beside the first request
only (`OverlapsAreFew`). For `Health`, one update that begins inside another is all that
lost updates need, and more only repeats it; a reset asked for in the panel is the update
that the command makes, and a change or a forged form adds counts only. In `FileSkills`, two names make a file, a
directory and a path inside it, and one path inside another. In `ChatLanes`, three turns
are draft, revise or save, and refer back, or a question, the tour and a step of it, with
the late answer before or after; one turn at a time waits for the model, and what holds of
longer conversations is proved (section 4). In `Hygiene` one way back is enough to
pass a lookup by. Every bound is a constant named in the module.

Deadlock is checked where something is always possible (pausing, resuming and starting
daemons in the queue and the lock). The other runs end when their bounds are used up and
say `CHECK_DEADLOCK FALSE`.

`ExclusiveExecution`, `FailedJobsExplained`, `ParkedJobsResumable` and
`ApprovedJobStays` do not hold of more than one operator or across a crash, and the code
does not try: two approves of one job run it twice, and recovery fails a job an
approve is running. They are stated for the instance in which they are meant. In the same
way `SubmittedOnce` and `SessionHolds` say "while the daemon has not worked beside a
request" and "while no write has failed" (what a failed write leaves is in `SubmittedAsSeen`),
`NothingLost` and `LockoutHolds` "while no two updates overlap", `SavedOnce`
"unless a write failed": the files have no lock, and the excuse in the property is exactly
what the missing lock costs. `SubmittedOnce` has one more: a submission whose job was missed, which the user was told
had failed, may be made again. In `DoneAsTold`,
`SavedAsShown` lets a user be untold after a write that failed, `DeletedIsForgotten` is about
deletes the user was told of, and `TourShowsItsStep` lets the answer to a message from before
the tour replace the preview of its step. `SeenOrSentBack` lets a job slip past that went back
to the inbox meanwhile. `UpkeepIsHarmless` is about jobs that rest while the tool works;
`FailureIsKept` about updates that do not overlap.

Fairness. `FairSpec` of the queue gives weak fairness to the work of a daemon that is up and
of a command that has begun: each is one sequential thread that the operating system
schedules, with a poll interval and skill time-outs in between. Nothing obliges anyone to
start a daemon, resume a paused queue or issue a command. `InboxDrains` therefore
allows for a paused queue and for no daemon. `LiveSpec` of `Automation` gives weak
fairness to the runners together, since the timer starts one every minute, and to the
daemon that takes jobs from the inbox; neither to commands nor to the clock.

Violations: statements of the documentation or of a comment that the code does not keep.
Each run checks one statement; `PROJECT.json` quotes it.

| Run | Statement | What happens |
|---|---|---|
| `HeldUntilResolved` | an approval holds the job until it is resolved | the hard gate removes the `.pending.json`, relocation takes a pending job without one for misplaced, and the job bounces between inbox and pending, tick after tick |
| `UnlockSafe` | plain unlock removes stale locks only; one writer | an unlock that reads the lock file between the truncation and the write sees pid 0, removes the file of a live daemon, and a second one starts |
| `NeverTwice` | later turns cannot submit a stale payload again | the daemon writes back a session it read before a submission; the preview is there again, and the next handoff submits it a second time |

Met on the way and not given a run:

* Queue: a cancel between the daemon's rename and its markers leaves the markers; a canceled
  job's sidecar may say planning, a recovered one's awaiting_approval; a parent finished by
  an approve has no child; a denied job gets the outcome `failed` (`queue_approvals.py:659`)
  where the documentation says `denied`; a job that awaits approval has the terminal outcome
  `blocked` (`queue_state.py:161`).
* Intake: approving a hard-gated job rebuilds its mission with no family check, child or
  replan (docs/SECURITY.md:231 says otherwise); `add_inbox_payload` writes in place
  where docs/ARCHITECTURE.md:105 says atomic.
* Submission: `submit_preview` looks for the file of the job in the inbox after it has written it
  there (`preview_submission.py:247`). When the daemon has taken the job by then, the handoff is put
  down as failed, the user is told that "nothing was queued" (line 328), and the preview stays,
  to be submitted again: the `missed` submissions of `VeraSession`.
* Planner: "ambiguous failures map to `UNKNOWN` rather than risk a wrong label"
  (`brain/fallback.py:23`) does not hold of an exception whose text quotes what a model or a
  server sent: an answer that is no JSON and says "timeout" is a time-out (`Quoting`;
  `SureUnlessQuoting` is what holds of the others). The plan's failure message and `health.json`
  may give one failure two reasons, by their two lists of words (a 504 is `provider_error` in
  one and `TIMEOUT` in the other).
* File skills: a move with overwrite onto itself, an ancestor or into itself loses the
  source; a failed copy leaves a torn file; organizing into the notes root is refused.
* Skill decision: prompt and grant name the first capability of the manifest, and the
  development-mode approval looks at that one only.
* Hygiene: prune and report see `job-*.json` only, so the `inbox-*.json` of the submission
  helper are never pruned and their artifacts are reported as orphans; deleting a job
  leaves its state sidecar.
* Health: one temporary name for all writers where docs/ops.md:501 promises atomic writes;
  a failed shutdown is not replaced by a later clean one (docs/ops.md:1286); a late
  failed login sets the end of a lockout back.
* Automation and its drafting: completions of earlier handoffs are never surfaced
  (`linked_completions.py:640`); "every 0 minutes" is shown as savable and cannot be
  saved, "at 45" raises; two run ids of one millisecond are the same
  (`automation/history.py:70`); a topic beats a title named in the message, and an id that
  does not exist falls through to the next rule although the resolver "never guesses".
* Conversation: the early exits run before the explicit submission that the routing
  module calls lane 1; starting the tour overwrites any preview, and so does a late answer of
  the model; a session write that fails after a delete leaves the topic or the stash at what
  is deleted.
* Voice: an approval whose mission parks again is not acknowledged although it was used up;
  a failed write, or a daemon that takes the job at once, may answer "nothing was queued"
  although a job was.

Mutants. For each property of each passing run `PROJECT.json` names a plausible bug, an
operator beside the one it replaces (`GatedOnce`, `KeyedOnce`, `EndPassHolding`,
`EntryOfErrors`, ...), under which TLC finds the property violated.

## 4. What TLAPS proves

For every value of the constants that satisfies the assumptions: any jobs,
missions, daemons, operators, payloads, tiers, and bounds.

| Module | Theorem | Says |
|---|---|---|
| `MissionQueueProofs` | `QueueInvariant`, `TypeCorrect` | `Spec => []IInv`, `TypeOK` |
| | `ApprovalBeforeAskedSteps` | `AskedStepsWereApproved` |
| | `HardGateSafe` | `HardGateHolds` |
| | `DoneMeansComplete` | `DoneIsEarned` |
| | `ParentsFirst` | `ChildrenComeAfter` |
| | `MarkersResume` | `ResumePointsHold` |
| | `RunsExclude` | `ExclusiveExecution`, under `OneOperator` (below) |
| | `FailuresExplained` | `FailedJobsExplained`, the same |
| | `ParkedResumable` | `ParkedJobsResumable`, the same |
| | `ApprovedStays` | `ApprovedJobStays`, the same |
| `DaemonLockProofs` | `HeldFileStays` | `HeldFileNamesHolder`, whatever is unlocked |
| | `OneWriter` | `SingleWriter`, if nothing is unlocked |
| | `LockCorrect` | `DaemonLock` implements `WriterLock`, if nothing is unlocked |
| `AutomationProofs` | `AutomationRecords` | `FiresAreOnRecord`, type correctness included |
| | `PaceIsKept`, `PassesAreAlone` | `FiresAreDue`; of it, the part about the lock |
| `VeraProofs` | `Seen` | `SubmittedAsSeen` |
| | `Once` | `SubmittedOnce` |
| | `Noted` | `NotesHold` |
| | `Held` | `SessionHolds` |
| `PartsProofs` | `IntakeSound`, `UnparsableIsUnfinishedAlways` | of `Intake`: `WhatRunsIsSound`, `UnparsableIsUnfinished` |
| | `PlansAreSound` | of `Planner`: `PlansStayInBounds` |
| | `GateSound`, `DryRunsAreHonest` | of `SkillGate`: `NothingUnasked`, `DryRunIsHonest` |
| | `NoneSlipsPast` | of `Hygiene`: `SeenOrSentBack` |
| | `SpeechSound` | of `Speech`: `SpeechInv`, and so all its six promises |
| | `ChatSound`, `RevisionsHold` | of `ChatLanes`: `ChatInv`, and so all its six promises; `RevisionsKeepTheDraft` |
| `HealthProofs` | `SnapshotIsSound` | `SnapshotHolds`: `TypeOK`, `DegradedTruth`, `NothingLost`, `NeverTorn` |
| | `GuardIsHeld` | `GuardHolds`: `LockoutEarned` always, `LockoutHolds` of every step |
| | `FailureStays` | `FailureIsKept` |
| `FileSkillsProofs` | `QueueIsLeftAlone` | `ControlPlaneUntouched` |
| | `NoFileIsLost` | `TypeOK`, `OriginalSurvives`, `NothingOverwritten`, `RefusalLeavesTheFiles`, `DoneIsDone` |
| `VoiceProofs` | `VoiceSound` | `VoiceInv`, and so all six promises of `Voice` |
| `PartsProofs` | `IntakeHolds`, `ReadsHold`, `PlansHold`, `GatesHold`, `DryRunsHold`, `ControlPlaneHolds`, `FilesHold`, `LookupsHold`, `SpeechHolds`, `AudioHolds`, `ConsentHolds`, `VoiceTells`, `ChatIsToldTrue`, `RevisionsStay` | fourteen of the fifteen properties `MCParts` checks, as that run states them |

Assumptions: daemons and operators are different processes, missions are non-empty
sequences of skills, no stem is a child of two jobs, bounds are naturals; for the lock,
`NoDaemon` and `NoFile` are not in the sets they complete; runners and commands are
different processes, spans are positive, and the two marks for a file that is not there,
never written and deleted, differ from each other and from every definition
(`AbsentAssumption`); in `VeraSession` too, "none" is no job, preview or submission, and the
marks for no file and a torn one are no sessions, and in `Health` no snapshots; the brains are a sequence of whatever. `PartBounds` has the rest: a
payload is read at least once; the names of a tree are neither `queue` nor `..`, which
paths have besides; "nobody" is not a thread; there is at least one token; requests
of `Voice` are below ten, since the drafts of others are numbered above; its jobs and the ids
of automations are finitely many.

The argument for the queue. None of the five properties is inductive: `did` grows when
a step succeeds, and that step was approved only because of what the process read
earlier. `IInv` adds what each process knows: a process past its loop has a job
(`BusyWithAJob`); the mission it runs is one of its job's and every step before the one
reached has succeeded (`MissionsProgress`), which is what makes resume points and
completeness come out; an approval key names a step an operator approved, and daemons
never hold one (`KeysAreApproved`); the daemon plans and runs ungated jobs only, commands
run approved jobs only (`GateIsBehind`); a result `ok` has been earned and only such a
result moves to `done/` (`OkIsEarned`). `did` and `approved` only grow and `grants` is
never reduced, so that what is known of another process's past stays true: the proof
first shows, for each action, what it leaves alone, and then each conjunct for the
actions that can disturb it. `ChildrenComeAfter` needs the assumption that stems of
children are not submitted otherwise.

The argument for one operator. Four promises of the queue are about one careful operator,
and `OneOperator` says what that means: one command process, no signal or crash, jobs
arrive through `inbox/` only, no job is hard-gated, and one daemon at a time. Each condition
is needed: recovery fails a job a command
runs, two approvals run a job twice, a job dropped into `pending/` has no marker, and
neither has a job the hard gate parks. `OneInv` divides the buckets: a daemon past its
polls moves jobs out of `inbox/` only and to where the result says (`DaemonOk`), a command
runs a job that is in `pending/` only (`OpOk`), so that no daemon can take it away; a job
in `pending/` has its marker, artifact and state unless the daemon has yet to write them
(`ParkedOk`), and one in `failed/` its sidecar, with the same exception (`FailedOk`).

The argument for the lock. `FlocksHeld` ties flocks to control points, whatever is
unlinked, and gives `HeldFileNamesHolder`. Without unlocks, `OneFile`: every daemon has
the file open that the name refers to, so that two holders would hold one flock.

The argument for automations. That the file on disk refers to what exists is not
inductive: a process saves what it read long ago, and a save goes through a temporary
file that somebody else may rename. The invariant says it of every copy of a definition
there is, on disk, in the temporary file and in the hands of each process
(`CopiesResolve`), with one exception: the process that has just submitted refers to a
record it is about to write. Records are never removed, so copies stay sound however old.

The argument for the pace of automations. `FiresAreDue` counts, so its invariant is an
account (`Pace`): the fires that the commands and faults so far excuse, less those
there were and less what commands at work may still add (`Left`), make up, together with
what the schedule allows, a balance that is never negative. A temporary file a command left
counts as one of those debts, since whoever renames it brings back a definition from
before a fire. Every other copy of a definition, on disk, in the temporary file, in a
runner's list or in its hands, is `Harmless`, since its own next or last fire keeps it from
firing before its time, or there is one more fire to be had (`Ready`); the file on disk is
exempt while a runner's save of it is under way. Two runners cannot hold lists at once,
because a list is made under the flock (`PassesAlone`): without that the account does not
balance.

The argument for the session. A handler is a program that changes as it is carried out, so
the invariant must speak of every program at every point. `Base` does, and holds whatever
fails: each program has a shape (`Shaped`: completions are read first, a submission is the
last but for words, nothing but words follows a wait), what it writes is known (`OpGood`), and
a request at a write is the one that has the event loop (`AtOk`). With it, a request that saw
no preview and is to submit finds none (`NoneAround`), since whoever had the loop meanwhile
would have had to give it away between the read and the submission: that is `SubmittedAsSeen`.

The rest holds while nothing has failed and the daemon has written beside no request, and
is about two writers of one file that each read it first. `FileOk` says that a writer's copy
is the file with its next operation applied, nobody having written since. The other parts
speak of the session as it is about to be (`View`) and of what is then left to do (`Rest`), as if a
write that has cut the file were done, so that the torn file between two steps needs no
cases. A preview whose submission was accepted (its job was not missed) is neither in the file nor in a program, unless its request is
about to clear it (`OnceOk`). A completion is noted by a request that has it marked first, or by
the daemon, which marks it right after; a job that is not tracked yet is unheard of, in the
file and in every registry somebody is about to write (`NoteFine`). Programs settle preview
and context together or not at all, so that both agree whenever the loop is free (`CtxOk`); a
program that puts a job in the handoff tracks it next (`Ties`), and no registry about
to be written loses a tracked job (`TrackedKept`). On the instance of `MCVera` TLC finds
both invariants true of every state.

The argument for health.json. An update is a read, an open, a write and a replacement, and
any number of processes may be between them, so the invariant speaks of all the snapshots
there are: the file, the temporary file and what each process is about to write
(`Sound`). Each is degraded when its own count says so, and each row of failed logins counts
no more of them than failed within its window (`Guards`). Both can be said of a snapshot
without a word about the others, so they survive updates that overwrite each other, which
is why `LockoutEarned` needs no exception: a lost update only lowers a count. The log of
failed logins that rows are measured against is a set, in which two that came and failed
together are told apart by a number, and it only grows. What is left to do is typed by who is
to do it (`Work`): only the daemon records an outcome, a clean one last of all; only a worker
records logins, those of its own request and no later than now. The other promises are about
updates that do not overlap. `Alone` says that then one process at most is in the middle of
one, that its copy is the file with its update applied, that the temporary file is its
own, and that a daemon about to record a clean stop has no failure on the record. Then only a
replacement changes what is read (`OnlySwap`), and it applies one update (`SwapApplies`).
Pruning keeps every lockout in force unless there are more of them than `MaxTracked`
(`LatestIs`, `PruneIs`), and a failure that did not come late moves a lockout forward.

The argument for the parts. Intake: what the writer was told and what the file holds go
together (`Arrival`), and each phase has its checks behind it (`Passed`); enrichment
leaves alone the fields the lanes are chosen by (`Fieldwise`, `AnchorsAreLanes`). Skill decision:
what a step was let through for is a question that was asked about this manifest in
this scope, however the file on disk has changed. Planner: each rewrite keeps what the
ones before it have achieved, for any step whatever (`RewrittenIsSound`); and whatever the text
of a failure has in it, a phrase the plan's message has a name for is one `health.json` looks
for too, or it has found an earlier one (`NamesAreKnown`), and without a quotation that is the
right one (`RaisedAreSure`).

File skills: a path leads to the control plane or not by its first names alone, so that
putting, clearing, filling and renaming at a path that leads away never changes what is
under `queue/` (the `KeepsOff` lemmas), for paths of any length; and a skill past its checks
has two paths that lead away, for they are rigid once checked (`ChosenStep`).

That no file is lost (`NoFileIsLost`) rests on what a path is. `Under` and `Up` are treated
once, as an order on sequences of names of any length (`UnderOrder`, `UpIs`), and so is a
rename, which carries a subtree from one path to another (`Carried`, `Lands`): cleared, added to
or carried, a tree remains one (`TreeReplaced`), and nothing lands where something else was
(`LandsFree`). `FilesInv` then says where a mission is and what there must be. Every mission
has one step that may change files, followed at most by a delete of what a copy has copied
(`Shaped`). Before that step the files are those it began with (`Untouched`); once a move or a
rename has cleared its way, nothing is at the destination (`FreeTo`) and only what was there is
gone (`Rest`); a copy keeps its source until it has its text, and has the text when the source
is deleted (`Copied`). All this holds as long as the user keeps out, who may otherwise take
the source away at any time. That the files are a tree holds always, and so does that a step
that may not overwrite found no file of the mission's beginning at its destination, unless the
user had changed it (`Unclaimed`). TLC finds `FilesInv` true of every state of the instance
of `MCParts`.

Hygiene: every operation that is still to be made on a job file takes it onward in the order
of lookups (`PlansGoOnward`), unless the job was sent back by a retry or a relocation, so that
a job not found so far is in a bucket that is still to be looked at (`SeenOrAhead`).

Speech: between its steps a thread has no lock to show for what it read, so `BackendOk` and
`BuiltOk` tie each thread at a control point to the backend it has, and each lock to the
one thread at the points it guards; `SavesStay` excuses saves that have overlapped, and
nothing else. Voice: a request runs on an event loop, so what it knows is stable while it
has the loop and must be said weakly while it is away (`ConsentOk`, `ApprovalOk`, `SubmitOk`);
drafts are numbered once and queued once (`DraftsOk`). Conversation: the lane of a
turn is the first that claims it, which exists because lanes are a finite list
(`LaneMeans`); what each lane does to previews, stash and saved automations, however
many of its writes succeed, then keeps `ChatInv`, in which what was last explained to the user
is what is there to be saved; an answer that comes after a wait is one more step that keeps
it (`AnswersKeep`), since it installs a file preview and marks the tour's as late.

`PartsProofs` adds that a behaviour of `MCParts` is one of its part, and nothing else.

Model-checked only:

* liveness and fairness (`InboxDrains`, `ShutdownCompletes`, `DueFires`), out of the prover's reach;
* `UpkeepIsHarmless` of `Hygiene`, whose prune sorts and folds over the files of a bucket: what a
  fold computes for every input needs induction over data.

## 5. Not modelled, and what is left to do

* Text: prompts, the detectors of intents, rendering, the wording of notes. Models take what
  a detector finds as given and check what is done with it.
* Devices and models: recording, speech models, the HTTP clients of the brains.
* The watchdog mode of the daemon (`queue_daemon.py:1330`): the package it needs is not one the
  project installs; its observer thread would process jobs beside the main loop.
* The pruning of artifacts (`core/artifacts.py`), the sandbox command line, the
  canonicalisation of arguments, discovery of skills, snapshots and views.
* In `Health`, a missing operator password, which refuses everything, and the one-shot mode of
  the daemon. In `Speech`, the option that keeps failed recordings, and the files of the
  panel's own spoken answers, which no token stands for; a restart of the process, which forgets
  its tokens, and the write of an uploaded dictation.
* In `ChatLanes`, a write that fails is taken to leave the session as it was. `write_text` cuts the
  file first, so a disk that fills loses the whole session; `VeraSession` has that file as torn.
* Setup, doctor, configuration, bundles: sequential code that shares no state with the above.

Next: an abstract queue (submitted, decided, finished once) that `MissionQueue` implements
under one operator; the watchdog mode.
