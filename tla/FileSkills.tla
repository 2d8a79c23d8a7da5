----------------------------- MODULE FileSkills -----------------------------
(***************************************************************************)
(* The notes directory and the skills that change it, one mission at a     *)
(* time: a file_organize job's five steps, or a mission of one step.  A    *)
(* skill is not one step of the file system: it looks, makes directories,  *)
(* clears the destination and only then writes, and the person whose notes *)
(* they are may change them in between.                                    *)
(*                                                                         *)
(* A path is the sequence of its names below ~/VoxeraOS/notes; one that    *)
(* begins with ".." lies outside.                                          *)
(***************************************************************************)
EXTENDS Naturals, Sequences, SequencesExt, FiniteSets

CONSTANTS Names,          \* the names jobs use
          MaxUser,        \* changes by the user during the mission
          MaxFaults       \* failing file system calls

VARIABLES dirs,           \* the directories
          files,          \* the files: path |-> the texts it holds
          start,          \* what files was when the mission began
          steps,          \* the mission
          at,             \* the step being run
          pc,             \* where its skill is
          verdict,        \* the mission's outcome, or an error_class
          touched,        \* the paths the user changed meanwhile
          faults

notes == <<dirs, files>>
flow == <<at, pc, verdict>>
given == <<start, steps>>
vars == <<notes, flow, given, touched, faults>>

Root == <<>>
QueueDir == <<"queue">>
QueueJob == <<"queue", "j">>
In(d, n) == d \o <<n>>
Up(p) == SubSeq(p, 1, Len(p) - 1)
Base(p) == p[Len(p)]
Under(p, q) == IsPrefix(q, p)
Exists(p) == p \in dirs \/ p \in DOMAIN files
IsFile(p) == p \in DOMAIN files

Short == {<<n>> : n \in Names}
Deep == {<<m, n>> : m, n \in Names}
Paths == Short \cup Deep
Asked == Short \cup Deep \cup {<<"queue", "j">>, <<"..", "x">>}

-----------------------------------------------------------------------------
(* Missions *)

Step(skill, path, to, flag) == [skill |-> skill, path |-> path, to |-> to, flag |-> flag]

(* _build_mission_for_payload: the steps of a file_organize job.           *)
Organize(src, dir, mode, overwrite, delete) ==
    <<Step("exists", src, src, FALSE), Step("stat", src, src, FALSE), Step("mkdir", dir, dir, TRUE),
      Step(mode, src, dir \o <<Base(src)>>, overwrite)>>
    \o IF mode = "copy" /\ delete THEN <<Step("delete", src, src, FALSE)>> ELSE <<>>

Organizing ==
    {Organize(src, dir, mode, overwrite, delete) :
       src \in Asked, dir \in Short \cup {Root, QueueDir}, mode \in {"copy", "move"},
       overwrite \in BOOLEAN, delete \in BOOLEAN}
Plain == {<<Step(skill, p, p, flag)>> : skill \in {"mkdir", "delete", "write"}, p \in Asked, flag \in BOOLEAN}
Across == {<<Step(skill, p, q, flag)>> : skill \in {"copy", "move"}, p \in Short \cup Deep,
                                        q \in Short \cup {QueueDir}, flag \in BOOLEAN}
Renames == {<<Step("rename", p, Up(p) \o <<n>>, flag)>> :
              p \in Asked, n \in Names \cup {"queue"}, flag \in BOOLEAN}
Single == Plain \cup Across \cup Renames

(* Small trees: one level of directories, the queue's own files among them. *)
Inside(ds) == {In(d, n) : d \in ds, n \in Names}
Texts(fs) == [p \in fs |-> {p}]
Init ==
    /\ \E ds \in SUBSET Short :
         /\ dirs = ds \cup {Root, QueueDir}
         /\ \E fs \in SUBSET ((Short \ ds) \cup Inside(ds)) : files = Texts(fs \cup {QueueJob})
    /\ start = files
    /\ steps \in Organizing \cup Single
    /\ at = 1 /\ pc = "check" /\ verdict = "running" /\ touched = {} /\ faults = 0

-----------------------------------------------------------------------------
(* Going through one skill *)

step == steps[at]
Running(where) == verdict = "running" /\ pc = where
Goes(where) == pc' = where /\ UNCHANGED <<at, verdict, given, touched, faults>>
StepDone ==
    /\ IF at = Len(steps)
         THEN verdict' = "done" /\ UNCHANGED at
         ELSE at' = at + 1 /\ UNCHANGED verdict
    /\ pc' = "check" /\ UNCHANGED <<given, touched, faults>>
Fails(class) == verdict' = class /\ UNCHANGED <<at, pc, given, touched, faults>>

(* normalize_confined_path: a path that need not exist is refused for its  *)
(* parent first, so the notes directory itself is refused as a target.     *)
Outside(p) == p # Root /\ Head(p) = ".."
MustExist == {"stat", "copy", "move", "rename", "delete"}
OnlyOutside(p) == Outside(p)
Blocked(p) == Outside(p) \/ Under(p, QueueDir)
Boundary(p) == IF Outside(p) THEN "path_out_of_bounds" ELSE "path_blocked_scope"
RefusedNew(p) == p = Root \/ Blocked(p)
RefusedSource == step.skill \in MustExist /\ Blocked(step.path)
Missing == step.skill \in MustExist /\ ~Exists(step.path)
TwoPaths == step.skill \in {"copy", "move", "rename"}
RefusedTarget ==
    \/ TwoPaths /\ RefusedNew(step.to)
    \/ step.skill \in {"exists", "mkdir", "write"} /\ RefusedNew(step.path)

(* The rest of what each skill asks before it changes anything.            *)
NotAFile == step.skill \in {"copy", "delete"} /\ ~IsFile(step.path)
Occupied == TwoPaths /\ Exists(step.to) /\ ~step.flag
FileInTheWay == step.skill = "mkdir" /\ IsFile(step.path)
AlreadyMade == step.skill = "mkdir" /\ step.path \in dirs /\ ~step.flag

Resolvable == ~RefusedSource /\ ~Missing /\ ~RefusedTarget
Refuse ==
    /\ Running("check")
    /\ \/ RefusedSource /\ Fails(Boundary(step.path))
       \/ ~RefusedSource /\ Missing
          /\ (step.skill = "delete" => ~step.flag) /\ Fails("not_found")
       \/ ~RefusedSource /\ ~Missing /\ RefusedTarget
          /\ Fails(IF step.to = Root THEN "path_out_of_bounds" ELSE Boundary(step.to))
       \/ Resolvable /\ (NotAFile \/ FileInTheWay) /\ Fails("invalid_input")
       \/ Resolvable /\ ~NotAFile /\ (Occupied \/ AlreadyMade) /\ Fails("already_exists")
    /\ UNCHANGED notes

(* Nothing to change: the questions, and a delete that may find nothing.   *)
Answer ==
    /\ Running("check")
    /\ \/ step.skill \in {"exists", "stat"} /\ Resolvable
       \/ step.skill = "delete" /\ step.flag /\ ~RefusedSource /\ Missing
    /\ StepDone
    /\ UNCHANGED notes

Begin ==
    /\ Running("check") /\ Resolvable
    /\ step.skill \notin {"exists", "stat"}
    /\ ~NotAFile /\ ~Occupied /\ ~FileInTheWay /\ ~AlreadyMade
    /\ Goes(IF step.skill \in {"copy", "move", "write"} THEN "parents" ELSE "clear")
    /\ UNCHANGED notes

Above(p) == {SubSeq(p, 1, i) : i \in 0..(Len(p) - 1)}
CanMake(p) == \A q \in Above(p) : ~IsFile(q)
MakeParents ==
    /\ Running("parents")
    /\ IF CanMake(step.to)
         THEN dirs' = dirs \cup Above(step.to) /\ Goes("clear") /\ UNCHANGED files
         ELSE Fails("io_error") /\ UNCHANGED notes

(* A move or a rename that may overwrite removes the destination, a whole  *)
(* directory if it is one, before it has moved anything.                   *)
Without(p) ==
    /\ dirs' = {q \in dirs : ~Under(q, p)}
    /\ files' = [q \in {r \in DOMAIN files : ~Under(r, p)} |-> files[q]]
ClearAlways ==
    /\ Running("clear")
    /\ IF step.skill # "mkdir" /\ Exists(step.to) /\ step.flag
         THEN Without(step.to)
         ELSE UNCHANGED notes
    /\ Goes("put")
Clear ==
    /\ Running("clear")
    /\ IF step.skill \in {"move", "rename"} /\ Exists(step.to) /\ step.flag
         THEN Without(step.to)
         ELSE UNCHANGED notes
    /\ Goes("put")

(* Path.replace: one rename(2), of a file or of a whole directory.         *)
Below(p, q) == SubSeq(p, Len(q) + 1, Len(p))
CanReplace(p, q) ==
    /\ Exists(p) /\ Up(q) \in dirs
    /\ IF IsFile(p) THEN q \notin dirs
       ELSE /\ ~IsFile(q) /\ (p = q \/ ~Under(q, p))
            /\ \A r \in dirs \cup DOMAIN files : Under(r, q) => r = q
Replaced(p, q) ==
    LET stay == {r \in DOMAIN files : ~Under(r, p) /\ r # q}
        come == {q \o Below(r, p) : r \in {x \in DOMAIN files : Under(x, p)}}
    IN /\ dirs' = {r \in dirs : ~Under(r, p)} \cup {q \o Below(r, p) : r \in {x \in dirs : Under(x, p)}}
       /\ files' = [r \in stay \cup come |->
                      IF r \in come THEN files[p \o Below(r, q)] ELSE files[r]]
Replace ==
    /\ Running("put") /\ step.skill \in {"move", "rename"}
    /\ IF CanReplace(step.path, step.to)
         THEN (IF step.path = step.to THEN UNCHANGED notes ELSE Replaced(step.path, step.to)) /\ StepDone
         ELSE Fails("io_error") /\ UNCHANGED notes

(* copy2 and open(.., "w") truncate what is there and then fill it; a copy *)
(* to a directory goes into it.                                            *)
Target ==
    IF step.skill = "copy" /\ step.to \in dirs THEN step.to \o <<Base(step.path)>> ELSE step.to
Openable(p) == Up(p) \in dirs /\ p \notin dirs
Put(p, text) == files' = [q \in DOMAIN files \cup {p} |-> IF q = p THEN text ELSE files[q]]
Open ==
    /\ Running("put") /\ step.skill \in {"copy", "write"}
    /\ IF /\ Openable(Target)
          /\ step.skill = "copy" => IsFile(step.path) /\ Target # step.path
         THEN /\ Put(Target, IF step.skill = "write" /\ step.flag /\ IsFile(Target)
                               THEN files[Target] ELSE {})
              /\ Goes("fill") /\ UNCHANGED dirs
         ELSE Fails("io_error") /\ UNCHANGED notes
(* What was opened stays open: a source the user has removed or changed is *)
(* still read, and a removed destination is filled where nobody sees it.   *)
Text == IF step.skill = "write" THEN {<<"new">>}
        ELSE IF IsFile(step.path) THEN files[step.path] ELSE {}
Fill ==
    /\ Running("fill")
    /\ IF IsFile(Target) THEN Put(Target, files[Target] \cup Text) ELSE UNCHANGED files
    /\ (IF IsFile(Target) \/ step.skill = "write" THEN StepDone ELSE Fails("io_error"))
    /\ UNCHANGED dirs

Unlink ==
    /\ Running("put") /\ step.skill = "delete"
    /\ IF IsFile(step.path)
         THEN Without(step.path) /\ StepDone
         ELSE UNCHANGED notes /\ (IF step.flag THEN StepDone ELSE Fails("not_found"))

Mkdir ==
    /\ Running("put") /\ step.skill = "mkdir"
    /\ IF CanMake(step.path) /\ ~IsFile(step.path) /\ (step.flag \/ Up(step.path) \in dirs)
         THEN dirs' = dirs \cup Above(step.path) \cup {step.path} /\ StepDone /\ UNCHANGED files
         ELSE Fails(IF CanMake(step.path) /\ ~IsFile(step.path) THEN "not_found" ELSE "io_error")
              /\ UNCHANGED notes

(* A file system call fails, or the daemon dies there: the skill has no    *)
(* undo, and the next start of the daemon does not run the mission again.  *)
Fault ==
    /\ verdict = "running" /\ pc # "check" /\ faults < MaxFaults
    /\ faults' = faults + 1
    /\ verdict' \in {"io_error", "dead"}
    /\ UNCHANGED <<notes, at, pc, given, touched>>

(* The user makes, rewrites or removes a file.                             *)
User ==
    /\ verdict = "running" /\ Cardinality(touched) < MaxUser
    /\ \E p \in Paths :
         /\ touched' = touched \cup {p}
         /\ \/ IsFile(p) /\ Without(p)
            \/ Openable(p) /\ Put(p, {<<"user">>}) /\ UNCHANGED dirs
    /\ UNCHANGED <<flow, given, faults>>

Next ==
    \/ Refuse \/ Answer \/ Begin \/ MakeParents \/ Clear \/ Replace \/ Open \/ Fill
    \/ Unlink \/ Mkdir \/ Fault \/ User

Spec == Init /\ [][Next]_vars

-----------------------------------------------------------------------------
(* The notes stay a tree: every file and directory is in a directory, and  *)
(* nothing is both.                                                        *)
TypeOK ==
    /\ dirs \cap DOMAIN files = {}
    /\ \A p \in (dirs \cup DOMAIN files) \ {Root} : Up(p) \in dirs
    /\ at \in 1..Len(steps) /\ pc \in {"check", "parents", "clear", "put", "fill"}
    /\ verdict \in {"running", "done", "dead", "io_error", "not_found", "invalid_input",
                    "already_exists", "path_out_of_bounds", "path_blocked_scope"}
    /\ Cardinality(touched) <= MaxUser /\ faults \in 0..MaxFaults

last == steps[Len(steps)]
move == IF last.skill = "delete" /\ Len(steps) > 1 THEN steps[Len(steps) - 1] ELSE last
Moves == move.skill \in {"copy", "move", "rename"}

(* Whatever step a mission names, and through whichever of its two paths,  *)
(* the queue below the notes directory stays as it was and nothing appears *)
(* outside: no mission can approve, cancel or forge a job by a file.       *)
ControlPlaneUntouched ==
    /\ {p \in DOMAIN files : Under(p, QueueDir)} = {<<"queue", "j">>}
    /\ files[<<"queue", "j">>] = start[<<"queue", "j">>]
    /\ {p \in dirs : Under(p, QueueDir)} = {QueueDir}
    /\ \A p \in dirs \cup DOMAIN files : ~Outside(p)

(* What a mission copies, moves or renames is never gone: as long as the   *)
(* user keeps out, every file of the source is whole at its old or its new *)
(* place in every state, after a failed call or a crash in any step too.   *)
(* Only a move that may overwrite and whose two paths lie one in the other *)
(* clears files of its source away with the destination.                   *)
Overlapping == Under(move.path, move.to) \/ Under(move.to, move.path)
Arrived(p) ==
    \E q \in {p, move.to \o Below(p, move.path), move.to \o <<Base(move.path)>>} :
       IsFile(q) /\ start[p] \subseteq files[q]
OriginalSurvives ==
    /\ Moves /\ touched = {}
    /\ ~(move.skill # "copy" /\ move.flag /\ Overlapping)
    => \A p \in DOMAIN start : Under(p, move.path) => Arrived(p)

(* A copy, move or rename without overwrite costs no file its text: what   *)
(* was at the destination before is there after, unless the user put it    *)
(* there only after the skill had looked.                                  *)
NothingOverwritten ==
    Moves /\ ~move.flag
    => \A p \in DOMAIN start \ touched :
         ~Under(p, move.path) => IsFile(p) /\ files[p] = start[p]

(* A mission that fails for any reason but a failed call leaves every file *)
(* as it found it: no skill refuses half way, and the steps of an organize *)
(* job that come before the one that refuses only make directories.        *)
RefusalLeavesTheFiles ==
    verdict \notin {"running", "done", "dead", "io_error"} /\ touched = {} => files = start

(* An organize job that is done has the file where it was asked to be and, *)
(* unless it was a plain copy, no longer where it was; the exception is a  *)
(* copy over a directory, which goes into it.                              *)
DoneIsDone ==
    /\ verdict = "done" /\ Moves /\ touched = {}
    => /\ \A p \in DOMAIN start : Under(p, move.path) => Arrived(p)
       /\ (move.to \notin dirs \/ move.skill # "copy")
          => \A p \in DOMAIN start : Under(p, move.path) => IsFile(move.to \o Below(p, move.path))
       /\ (move # last \/ move.skill # "copy") /\ move.to # move.path => ~Exists(move.path)
=============================================================================
