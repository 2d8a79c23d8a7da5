-------------------------- MODULE FileSkillsProofs --------------------------
(***************************************************************************)
(* TLAPS proofs about FileSkills, for any names, any number of changes by  *)
(* the user and of faults: no mission touches the queue, the trees stay    *)
(* trees, and nothing that a mission copies, moves or finds in its way is  *)
(* lost.                                                                   *)
(***************************************************************************)
EXTENDS FileSkills, FiniteSetTheorems, SequenceTheorems, WellFoundedInduction, TLAPS

(* What the constants are.                                                  *)
FileBounds == Names \cap {"queue", ".."} = {} /\ MaxUser \in Nat /\ MaxFaults \in Nat

(* The order of the naturals is well-founded.                               *)
LessThan == {ss \in Nat \X Nat : ss[1] < ss[2]}

(* A descent ends.                                                          *)
LEMMA LessThanWellFounded == IsWellFoundedOn(LessThan, Nat)
<1>1. OpToRel(<, Nat) = LessThan
  BY DEF OpToRel, LessThan
<1> QED BY <1>1, NatLessThanWellFounded, Zenon

(* Every set of naturals has a least element.                               *)
LEMMA LeastOf ==
    ASSUME NEW X \in SUBSET Nat, X # {}
    PROVE  \E m \in X : \A k \in X : m <= k
<1>1. PICK m \in X : \A k \in X : ~(<<k, m>> \in LessThan)
  BY LessThanWellFounded, WFMin
<1>2. ASSUME NEW k \in X PROVE m <= k
  <2>1. k \in Nat /\ m \in Nat
    OBVIOUS
  <2>2. <<k, m>> \in LessThan <=> k < m
    BY <2>1 DEF LessThan
  <2> QED BY <1>1, <2>1, <2>2
<1> QED BY <1>2

(* The names and paths there are, and the steps of a mission.               *)
Name == Names \cup {"queue", "j", "..", "x"}
Path == Seq(Name)
(* The queue's own part of the tree, and what lies outside it.              *)
Off(p) == p # <<>> /\ p[1] \in {"queue", ".."}
Skills == {"exists", "stat", "mkdir", "delete", "write", "copy", "move", "rename"}
FileStep ==
    {s \in [skill : Skills, path : Path, to : Path, flag : BOOLEAN] :
       /\ s.skill # "mkdir" => s.path # <<>>
       /\ s.skill \in {"exists", "mkdir", "write", "delete"} => s.path = s.to}

(* Nothing has come near it, and a skill past its checks will not.          *)
QueueStands ==
    /\ dirs \subseteq Path /\ DOMAIN files \subseteq Path
    /\ {p \in dirs : Off(p)} = {QueueDir}
    /\ {p \in DOMAIN files : Off(p)} = {<<"queue", "j">>}
    /\ files[<<"queue", "j">>] = start[<<"queue", "j">>]
    /\ <<>> \notin DOMAIN files
Chosen ==
    /\ steps \in Seq(FileStep) /\ at \in 1..Len(steps)
    /\ pc # "check" => /\ ~Off(step.path) /\ ~Off(step.to) /\ step.path # <<>>
         /\ step.to # <<>>

(* A path leads away by its first name.                                     *)
LEMMA PathFacts ==
  /\ \A p \in Path : Under(p, QueueDir) <=> (p # <<>> /\ p[1] = "queue")
  /\ \A p \in Path : Blocked(p) <=> Off(p)
  /\ \A p \in Path : Outside(p) <=> (p # <<>> /\ p[1] = "..")
  /\ \A p \in Path, q \in Path : Under(p, q) /\ q # <<>> => p # <<>> /\ p[1] = q[1]
  /\ \A p \in Path, q \in Path : p # <<>> =>
       p \o q \in Path /\ p \o q # <<>> /\ (p \o q)[1] = p[1]
<1>1. \A p \in Path, q \in Path : Under(p, q) /\ q # <<>> => p # <<>> /\ p[1] = q[1]
  <2> SUFFICES ASSUME NEW p \in Path, NEW q \in Path, Under(p, q), q # <<>>
               PROVE  p # <<>> /\ p[1] = q[1]
    OBVIOUS
  <2>1. Len(q) \in Nat \ {0} /\ Len(q) <= Len(p) /\ SubSeq(q, 1, Len(q)) = SubSeq(p, 1, Len(q))
    BY DEF Under, IsPrefix, Path
  <2>2. SubSeq(q, 1, Len(q))[1] = q[1] /\ SubSeq(p, 1, Len(q))[1] = p[1]
    BY <2>1 DEF Path
  <2> QED BY <2>1, <2>2 DEF Path
<1>2. ASSUME NEW p \in Path, p # <<>>, p[1] = "queue" PROVE Under(p, QueueDir)
  <2>1. Len(p) \in Nat \ {0} /\ QueueDir \in Seq({"queue"}) /\ Len(QueueDir) = 1
          /\ QueueDir[1] = "queue"
    BY <1>2 DEF Path, QueueDir
  <2>2. SubSeq(p, 1, 1) \in Path /\ Len(SubSeq(p, 1, 1)) = 1 /\ SubSeq(p, 1, 1)[1] = "queue"
    BY <1>2, <2>1, SubSeqProperties DEF Path
  <2>3. /\ SubSeq(QueueDir, 1, 1) \in Seq({"queue"}) /\ Len(SubSeq(QueueDir, 1, 1)) = 1
        /\ SubSeq(QueueDir, 1, 1)[1] = "queue"
    BY <2>1, SubSeqProperties
  <2>4. SubSeq(QueueDir, 1, 1) = SubSeq(p, 1, 1)
    BY <2>2, <2>3, SeqEqual DEF Path
  <2> QED BY <2>1, <2>4 DEF Under, IsPrefix
<1>3. QueueDir \in Path /\ QueueDir # <<>> /\ QueueDir[1] = "queue"
  BY DEF QueueDir, Path, Name
<1>4. \A p \in Path : Outside(p) <=> (p # <<>> /\ p[1] = "..")
  BY DEF Outside, Root, Path
<1>5. \A p \in Path : Under(p, QueueDir) <=> (p # <<>> /\ p[1] = "queue")
  BY <1>1, <1>2, <1>3
<1>6. \A p \in Path : Blocked(p) <=> Off(p)
  BY <1>4, <1>5 DEF Blocked, Off
<1>7. \A p \in Path, q \in Path : p # <<>> =>
        p \o q \in Path /\ p \o q # <<>> /\ (p \o q)[1] = p[1]
  BY DEF Path
<1> QED BY <1>1, <1>4, <1>5, <1>6, <1>7

(* Every mission there is, a file_organize job's or one step, is well       *)
(* typed.                                                                   *)
LEMMA MissionsAreSteps == \A m \in Organizing \cup Single : m \in Seq(FileStep) /\ Len(m) >= 1
<1> DEFINE St(skill, path, to, flag) == [skill |-> skill, path |-> path, to |-> to, flag |-> flag]
<1>1. /\ Asked \subseteq Path \ {<<>>} /\ Short \subseteq Path /\ Deep \subseteq Path
      /\ QueueDir \in Path /\ <<>> \in Path
      /\ \A p \in Path : p # <<>> => Up(p) \in Path /\ Base(p) \in Name
  <2>1. Asked \subseteq Path \ {<<>>} /\ Short \subseteq Path \ {<<>>}
        /\ Deep \subseteq Path \ {<<>>}
    <3>1. ASSUME NEW p \in Short PROVE p \in Path \ {<<>>}
      <4>1. PICK n \in Names : p = <<n>>
        BY DEF Short
      <4> QED BY <4>1 DEF Path, Name
    <3>2. ASSUME NEW p \in Deep PROVE p \in Path \ {<<>>}
      <4>1. PICK m, n \in Names : p = <<m, n>>
        BY DEF Deep
      <4> QED BY <4>1 DEF Path, Name
    <3>3. <<"queue", "j">> \in Path \ {<<>>} /\ <<"..", "x">> \in Path \ {<<>>}
      BY DEF Path, Name
    <3> QED BY <3>1, <3>2, <3>3 DEF Asked
  <2>2. \A p \in Path : p # <<>> => Up(p) \in Path /\ Base(p) \in Name
    <3> SUFFICES ASSUME NEW p \in Path, p # <<>> PROVE Up(p) \in Path /\ Base(p) \in Name
      OBVIOUS
    <3>1. Len(p) \in Nat \ {0} /\ \A i \in 1..Len(p) : p[i] \in Name
      BY DEF Path
    <3>2. Up(p) \in Path
      BY <3>1, SubSeqProperties DEF Up, Path
    <3> QED BY <3>1, <3>2 DEF Base
  <2> QED BY <2>1, <2>2 DEF QueueDir, Path, Name
<1>2. \A skill \in Skills, p \in Path, flag \in BOOLEAN : p # <<>> \/ skill = "mkdir" =>
        St(skill, p, p, flag) \in FileStep
  BY DEF FileStep
<1>3. \A skill \in {"copy", "move", "rename"}, p, q \in Path, flag \in BOOLEAN : p # <<>> =>
        St(skill, p, q, flag) \in FileStep
  BY DEF FileStep, Skills
<1> HIDE DEF St
<1>4. ASSUME NEW src \in Asked, NEW dir \in Short \cup {Root, QueueDir},
             NEW mode \in {"copy", "move"},
             NEW overwrite \in BOOLEAN, NEW delete \in BOOLEAN
      PROVE  Organize(src, dir, mode, overwrite, delete) \in Seq(FileStep)
             /\ Len(Organize(src, dir, mode, overwrite, delete)) >= 1
  <2>1. src \in Path /\ src # <<>> /\ dir \in Path
    BY <1>1 DEF Root
  <2>2. <<Base(src)>> \in Path /\ dir \o <<Base(src)>> \in Path
    BY <1>1, <2>1, ConcatProperties DEF Path
  <2>3. /\ Step("exists", src, src, FALSE) \in FileStep
           /\ Step("stat", src, src, FALSE) \in FileStep
        /\ Step("mkdir", dir, dir, TRUE) \in FileStep
           /\ Step("delete", src, src, FALSE) \in FileStep
        /\ Step(mode, src, dir \o <<Base(src)>>, overwrite) \in FileStep
    BY <1>2, <1>3, <2>1, <2>2 DEF Step, St, Skills
  <2>4. ASSUME NEW a \in FileStep, NEW b \in FileStep, NEW c \in FileStep, NEW d \in FileStep,
               NEW t \in Seq(FileStep)
        PROVE  <<a, b, c, d>> \o t \in Seq(FileStep) /\ Len(<<a, b, c, d>> \o t) >= 1
    <3>1. <<a, b, c, d>> \in Seq(FileStep) /\ Len(<<a, b, c, d>>) = 4 /\ Len(t) \in Nat
      OBVIOUS
    <3> QED BY <3>1, ConcatProperties
  <2>5. (IF mode = "copy" /\ delete THEN <<Step("delete", src, src, FALSE)>> ELSE <<>>)
          \in Seq(FileStep)
    <3>1. PICK st \in FileStep : st = Step("delete", src, src, FALSE)
      BY <2>3
    <3>2. <<st>> \in Seq(FileStep) /\ <<>> \in Seq(FileStep)
      OBVIOUS
    <3> QED BY <3>1, <3>2
  <2> QED BY <2>3, <2>4, <2>5 DEF Organize
<1>5. ASSUME NEW m \in Organizing PROVE m \in Seq(FileStep) /\ Len(m) >= 1
  <2>1. PICK src \in Asked, dir \in Short \cup {Root, QueueDir},
          mode \in {"copy", "move"},
             overwrite \in BOOLEAN, delete \in BOOLEAN :
               m = Organize(src, dir, mode, overwrite, delete)
    BY DEF Organizing
  <2> QED BY <1>4, <2>1
<1>6. \A s \in FileStep : <<s>> \in Seq(FileStep) /\ Len(<<s>>) >= 1
  OBVIOUS
<1>7. ASSUME NEW m \in Single PROVE m \in Seq(FileStep) /\ Len(m) >= 1
  <2>1. ASSUME NEW skill \in {"mkdir", "delete", "write"}, NEW p \in Asked, NEW flag \in BOOLEAN
        PROVE  Step(skill, p, p, flag) \in FileStep
    BY <1>1, <1>2 DEF Step, St, Skills
  <2>2. ASSUME NEW skill \in {"copy", "move"}, NEW p \in Short \cup Deep,
               NEW q \in Short \cup {QueueDir},
               NEW flag \in BOOLEAN
        PROVE  Step(skill, p, q, flag) \in FileStep
    BY <1>1, <1>3, p \in Asked DEF Step, St, Asked
  <2>3. ASSUME NEW p \in Asked, NEW n \in Names \cup {"queue"}, NEW flag \in BOOLEAN
        PROVE  Step("rename", p, Up(p) \o <<n>>, flag) \in FileStep
    <3>1. Up(p) \in Path /\ <<n>> \in Path
      BY <1>1 DEF Path, Name
    <3>2. Up(p) \o <<n>> \in Path
      BY <3>1, ConcatProperties DEF Path
    <3> QED BY <1>1, <1>3, <3>2 DEF Step, St
  <2>4. CASE m \in Plain
    <3>1. PICK skill \in {"mkdir", "delete", "write"}, p \in Asked, flag \in BOOLEAN :
             m = <<Step(skill, p, p, flag)>>
      BY <2>4 DEF Plain
    <3> QED BY <1>6, <2>1, <3>1
  <2>5. CASE m \in Across
    <3>1. PICK skill \in {"copy", "move"}, p \in Short \cup Deep,
            q \in Short \cup {QueueDir},
               flag \in BOOLEAN : m = <<Step(skill, p, q, flag)>>
      BY <2>5 DEF Across
    <3> QED BY <1>6, <2>2, <3>1
  <2>6. CASE m \in Renames
    <3> DEFINE R(p, n, flag) == Step("rename", p, Up(p) \o <<n>>, flag)
    <3>1. Renames = {<<R(p, n, flag)>> : p \in Asked, n \in Names \cup {"queue"}, flag \in BOOLEAN}
      BY DEF Renames
    <3>2. PICK p \in Asked, n \in Names \cup {"queue"}, flag \in BOOLEAN : m = <<R(p, n, flag)>>
      <4> HIDE DEF R
      <4> QED BY <2>6, <3>1
    <3>3. PICK s \in FileStep : s = R(p, n, flag)
      BY <2>3
    <3> QED BY <1>6, <3>2, <3>3
  <2> QED BY <2>4, <2>5, <2>6 DEF Single
<1> QED BY <1>5, <1>7

(* At first no one but the queue has files below its directory.             *)
LEMMA QueueInit == ASSUME FileBounds, Init PROVE QueueStands /\ Chosen
<1>1. Chosen
  BY MissionsAreSteps DEF Init, Chosen
<1>2. PICK ds \in SUBSET Short :
        /\ dirs = ds \cup {Root, QueueDir}
        /\ \E fs \in SUBSET ((Short \ ds) \cup Inside(ds)) :
             files = Texts(fs \cup {QueueJob})
  BY DEF Init
<1>3. PICK fs \in SUBSET ((Short \ ds) \cup Inside(ds)) :
        files = Texts(fs \cup {QueueJob})
  BY <1>2
<1>4. ASSUME NEW p \in Short PROVE p \in Path /\ p # <<>> /\ ~Off(p)
  <2>1. PICK n \in Names : p = <<n>>
    BY DEF Short
  <2> QED BY <2>1 DEF FileBounds, Path, Name, Off
<1>5. ASSUME NEW p \in Inside(ds) PROVE p \in Path /\ p # <<>> /\ ~Off(p)
  <2>1. PICK d \in ds, n \in Names : p = In(d, n)
    BY DEF Inside
  <2>2. d \in Path /\ d # <<>> /\ ~Off(d) /\ <<n>> \in Path
    BY <1>4 DEF Path, Name
  <2> QED BY <2>1, <2>2, PathFacts DEF Off, In
<1>6. \A p \in fs : p \in Path /\ p # <<>> /\ ~Off(p)
  BY <1>4, <1>5
<1>7. /\ QueueDir \in Path /\ Off(QueueDir) /\ Root \in Path /\ ~Off(Root)
      /\ <<"queue", "j">> \in Path /\ Off(<<"queue", "j">>) /\ <<"queue", "j">> # <<>>
  BY DEF QueueDir, Root, Off, Path, Name
<1>8. dirs \subseteq Path /\ {p \in dirs : Off(p)} = {QueueDir}
  BY <1>2, <1>4, <1>7
<1>9. DOMAIN files = fs \cup {<<"queue", "j">>} /\ start = files
  BY <1>3 DEF Texts, QueueJob, Init
<1> QED BY <1>1, <1>6, <1>7, <1>8, <1>9 DEF QueueStands

(* Where control goes does not depend on the tree.                          *)
LEMMA ChosenStep == Chosen /\ [Next]_vars => Chosen' /\ start' = start
<1> SUFFICES ASSUME Chosen, [Next]_vars PROVE Chosen' /\ start' = start
  OBVIOUS
<1>1. CASE Begin
  <2> DEFINE st == step
  <2>1. st \in FileStep /\ UNCHANGED <<steps, at, start>>
    BY <1>1 DEF Chosen, step, Begin, Goes, given
  <2>2. st.path \in Path /\ st.to \in Path
    BY <2>1 DEF FileStep
  <2>3. st.skill \in {"mkdir", "delete", "write", "copy", "move", "rename"}
    BY <1>1, <2>1 DEF FileStep, Skills, Begin
  <2>4. CASE st.skill \in {"copy", "move", "rename"}
    <3>1. ~Blocked(st.path) /\ ~RefusedNew(st.to)
      BY <1>1, <2>4 DEF Begin, Resolvable, RefusedSource, RefusedTarget, MustExist,
         TwoPaths
    <3>2. ~Off(st.path) /\ ~Off(st.to) /\ st.path # <<>> /\ st.to # <<>>
      BY <2>1, <2>2, <2>4, <3>1, PathFacts DEF RefusedNew, Root, FileStep
    <3> QED BY <2>1, <3>2 DEF Chosen, step
  <2>5. CASE st.skill \in {"mkdir", "write"}
    <3>1. ~RefusedNew(st.path) /\ st.path = st.to
      BY <1>1, <2>1, <2>5 DEF Begin, Resolvable, RefusedTarget, FileStep
    <3>2. ~Off(st.path) /\ ~Off(st.to) /\ st.path # <<>> /\ st.to # <<>>
      BY <2>2, <3>1, PathFacts DEF RefusedNew, Root
    <3> QED BY <2>1, <3>2 DEF Chosen, step
  <2>6. CASE st.skill = "delete"
    <3>1. ~Blocked(st.path) /\ st.path = st.to /\ st.path # <<>>
      BY <1>1, <2>1, <2>6 DEF Begin, Resolvable, RefusedSource, MustExist, FileStep
    <3>2. ~Off(st.path) /\ ~Off(st.to) /\ st.path # <<>> /\ st.to # <<>>
      BY <2>2, <3>1, PathFacts
    <3> QED BY <2>1, <3>2 DEF Chosen, step
  <2> QED BY <2>3, <2>4, <2>5, <2>6
<1>2. \A where : Chosen /\ Goes(where) /\ pc # "check" => Chosen' /\ start' = start
  BY DEF Chosen, Goes, given, step
<1>3. Chosen /\ StepDone => Chosen' /\ start' = start
  BY DEF Chosen, StepDone, given, step
<1>4. \A class : Chosen /\ Fails(class) => Chosen' /\ start' = start
  BY DEF Chosen, Fails, given, step
<1>5. CASE Refuse
  BY <1>4, <1>5 DEF Refuse
<1>6. CASE Answer
  BY <1>3, <1>6 DEF Answer
<1>7. CASE MakeParents \/ Clear
  BY <1>2, <1>4, <1>7 DEF MakeParents, Clear, Running
<1>8. CASE Replace \/ Unlink \/ Mkdir
  BY <1>3, <1>4, <1>8 DEF Replace, Unlink, Mkdir
<1>9. CASE Open \/ Fill
  BY <1>2, <1>3, <1>4, <1>9 DEF Open, Fill, Running
<1>10. CASE Fault \/ User \/ UNCHANGED vars
  BY <1>10 DEF Fault, User, vars, flow, given, Chosen, step
<1> QED BY <1>1, <1>5, <1>6, <1>7, <1>8, <1>9, <1>10 DEF Next

(* What does not touch the queue's part of the tree.                        *)
KeepsOff ==
    /\ dirs' \subseteq Path /\ DOMAIN files' \subseteq Path /\ <<>> \notin DOMAIN files'
    /\ \A p \in Path : Off(p) =>
         (p \in dirs' <=> p \in dirs) /\ (p \in DOMAIN files' <=> p \in DOMAIN files)
    /\ files'[QueueJob] = files[QueueJob]

(* It is enough to keep off what is not the mission's.                      *)
LEMMA KeepsOffSuffices == QueueStands /\ KeepsOff /\ start' = start => QueueStands'
BY DEF QueueStands, KeepsOff, QueueJob

(* The queue's job is a path of the queue.                                  *)
LEMMA QueueJobIs ==
  ASSUME QueueStands
  PROVE  /\ QueueJob \in Path /\ Off(QueueJob) /\ QueueJob \in DOMAIN files
            /\ QueueJob # <<>>
         /\ QueueJob[1] = "queue"
BY DEF QueueStands, QueueJob, Path, Name, Off

(* Whoever changes no file keeps off, ...                                   *)
LEMMA UnchangedKeepsOff == QueueStands /\ UNCHANGED <<dirs, files>> => KeepsOff
BY DEF QueueStands, KeepsOff

(* ... whoever clears away a path elsewhere does, ...                       *)
LEMMA WithoutKeepsOff ==
  ASSUME QueueStands, NEW p \in Path, ~Off(p), p # <<>>, Without(p)
  PROVE  KeepsOff
<1>1. \A q \in Path : Off(q) => ~Under(q, p)
  BY PathFacts DEF Off
<1>2. DOMAIN files' = {r \in DOMAIN files : ~Under(r, p)}
        /\ dirs' = {q \in dirs : ~Under(q, p)}
  BY DEF Without
<1>3. files'[QueueJob] = files[QueueJob]
  BY <1>1, QueueJobIs DEF Without
<1> QED BY <1>1, <1>2, <1>3 DEF QueueStands, KeepsOff

(* ... so does whoever puts a file elsewhere.                               *)
LEMMA PutKeepsOff ==
  ASSUME QueueStands, NEW p \in Path, ~Off(p), p # <<>>, NEW text, Put(p, text), UNCHANGED dirs
  PROVE  KeepsOff
<1>1. DOMAIN files' = DOMAIN files \cup {p}
  BY DEF Put
<1>2. files'[QueueJob] = files[QueueJob]
  BY QueueJobIs DEF Put
<1> QED BY <1>1, <1>2 DEF QueueStands, KeepsOff

(* What lies above a path that is not off is not off either.                *)
LEMMA AboveIsNotOff ==
  ASSUME NEW p \in Path, ~Off(p), NEW q \in Above(p)
  PROVE  q \in Path /\ ~Off(q)
<1>1. PICK i \in 0..(Len(p) - 1) : q = SubSeq(p, 1, i)
  BY DEF Above
<1>2. i \in Nat /\ i < Len(p) /\ Len(p) \in Nat
  BY DEF Path
<1>3. /\ q \in Path /\ Len(q) = IF 1 <= i THEN i ELSE 0
      /\ \A k \in 1..i : q[k] = p[k]
  BY <1>1, <1>2, SubSeqProperties DEF Path
<1>4. q # <<>> => q[1] = p[1] /\ p # <<>>
  BY <1>2, <1>3 DEF Path
<1> QED BY <1>3, <1>4 DEF Off

(* One rename of a file or a whole directory.                               *)
LEMMA ReplacedKeepsOff ==
  ASSUME QueueStands, NEW p \in Path, NEW q \in Path, ~Off(p), ~Off(q), p # <<>>, q # <<>>,
         Replaced(p, q)
  PROVE  KeepsOff
<1> DEFINE stay == {r \in DOMAIN files : ~Under(r, p) /\ r # q}
           come == {q \o Below(r, p) : r \in {x \in DOMAIN files : Under(x, p)}}
           comeDirs == {q \o Below(r, p) : r \in {x \in dirs : Under(x, p)}}
<1>1. /\ dirs' = {r \in dirs : ~Under(r, p)} \cup comeDirs
      /\ files' = [r \in stay \cup come |->
                     IF r \in come THEN files[p \o Below(r, q)] ELSE files[r]]
  BY Zenon DEF Replaced
<1>2. ASSUME NEW r \in Path
      PROVE  q \o Below(r, p) \in Path /\ q \o Below(r, p) # <<>> /\ ~Off(q \o Below(r, p))
  <2>1. Below(r, p) \in Path
    <3>1. Len(r) \in Nat /\ Len(p) \in Nat /\ \A i \in 1..Len(r) : r[i] \in Name
      BY DEF Path
    <3> QED BY <3>1, SubSeqProperties DEF Below, Path
  <2> QED BY <2>1, PathFacts DEF Off
<1>3. \A r \in come \cup comeDirs : r \in Path /\ r # <<>> /\ ~Off(r)
  BY <1>2 DEF QueueStands
<1>4. \A r \in Path : Off(r) => ~Under(r, p) /\ r # q
  BY PathFacts DEF Off
<1> HIDE DEF come, comeDirs
<1>5. DOMAIN files' = stay \cup come
  BY <1>1
<1>6. files'[QueueJob] = files[QueueJob]
  BY <1>1, <1>3, <1>4, QueueJobIs
<1>7. \A r \in Path : Off(r) => (r \in dirs' <=> r \in dirs)
  BY <1>1, <1>3, <1>4
<1>8. \A r \in Path : Off(r) => (r \in DOMAIN files' <=> r \in DOMAIN files)
  BY <1>3, <1>4, <1>5
<1>9. dirs' \subseteq Path /\ DOMAIN files' \subseteq Path /\ <<>> \notin DOMAIN files'
  BY <1>1, <1>3, <1>5 DEF QueueStands
<1> QED BY <1>6, <1>7, <1>8, <1>9 DEF KeepsOff

(* A step of any skill, of its failures, and of the user.                   *)
LEMMA QueueStep == ASSUME FileBounds, QueueStands, Chosen, [Next]_vars PROVE QueueStands'
<1> SUFFICES KeepsOff
  BY ChosenStep, KeepsOffSuffices
<1> DEFINE st == step
<1>1. st.path \in Path /\ st.to \in Path /\ st \in FileStep
  BY DEF Chosen, step, FileStep
<1>2. pc # "check" => ~Off(st.path) /\ ~Off(st.to) /\ st.path # <<>> /\ st.to # <<>>
  BY DEF Chosen
<1>3. ASSUME UNCHANGED notes PROVE KeepsOff
  BY <1>3, UnchangedKeepsOff DEF notes
<1>4. ASSUME NEW p \in Path, ~Off(p),
             dirs' = dirs \cup Above(p) \/ dirs' = dirs \cup Above(p) \cup {p}, files' = files
      PROVE KeepsOff
  BY <1>4, AboveIsNotOff DEF QueueStands, KeepsOff
<1>5. CASE Refuse \/ Answer \/ Begin \/ Fault \/ UNCHANGED vars
  BY <1>3, <1>5 DEF Refuse, Answer, Begin, Fault, vars
<1>6. CASE MakeParents
  <2>1. UNCHANGED notes \/ (dirs' = dirs \cup Above(st.to) /\ files' = files)
    BY <1>6 DEF MakeParents
  <2>2. pc # "check"
    BY <1>6 DEF MakeParents, Running
  <2> QED BY <1>1, <1>2, <1>3, <1>4, <2>1, <2>2
<1>7. CASE Clear
  <2>1. (UNCHANGED notes \/ Without(st.to)) /\ pc # "check"
    BY <1>7 DEF Clear, Running
  <2> QED BY <1>1, <1>2, <1>3, <2>1, WithoutKeepsOff
<1>8. CASE Replace
  <2>1. (UNCHANGED notes \/ Replaced(st.path, st.to)) /\ pc # "check"
    BY <1>8 DEF Replace, Running
  <2> QED BY <1>1, <1>2, <1>3, <2>1, ReplacedKeepsOff
<1>9. pc # "check" => Target \in Path /\ Target # <<>> /\ ~Off(Target)
  <2> HAVE pc # "check"
  <2>1. <<Base(st.path)>> \in Path
    BY <1>1, <1>2 DEF Base, Path
  <2>2. st.to \o <<Base(st.path)>> \in Path /\ st.to \o <<Base(st.path)>> # <<>>
        /\ ~Off(st.to \o <<Base(st.path)>>)
    BY <1>1, <1>2, <2>1, PathFacts DEF Off
  <2> QED BY <1>1, <1>2, <2>2 DEF Target
<1>10. CASE Open
  <2>1. /\ pc # "check"
        /\ UNCHANGED notes \/ (UNCHANGED dirs /\ \E text : Put(Target, text))
    BY <1>10 DEF Open, Running
  <2> QED BY <1>3, <1>9, <2>1, PutKeepsOff
<1>11. CASE Fill
  <2>1. CASE IsFile(Target)
    <3>1. pc # "check" /\ UNCHANGED dirs /\ Put(Target, files[Target] \cup Text)
      BY <1>11, <2>1 DEF Fill, Running
    <3> QED BY <1>9, <3>1, PutKeepsOff
  <2>2. CASE ~IsFile(Target)
    BY <1>3, <1>11, <2>2 DEF Fill, notes
  <2> QED BY <2>1, <2>2
<1>12. CASE Unlink
  <2>1. (UNCHANGED notes \/ Without(st.path)) /\ pc # "check"
    BY <1>12 DEF Unlink, Running
  <2> QED BY <1>1, <1>2, <1>3, <2>1, WithoutKeepsOff
<1>13. CASE Mkdir
  <2>1. /\ pc # "check"
        /\ \/ UNCHANGED notes
           \/ dirs' = dirs \cup Above(st.path) \cup {st.path} /\ files' = files
    BY <1>13 DEF Mkdir, Running
  <2> QED BY <1>1, <1>2, <1>3, <1>4, <2>1
<1>14. CASE User
  <2>1. PICK p \in Paths : Without(p) \/ (UNCHANGED dirs /\ Put(p, {<<"user">>}))
    BY <1>14 DEF User
  <2>2. p \in Path /\ p # <<>> /\ ~Off(p)
    <3>1. CASE p \in Short
      <4>1. PICK n \in Names : p = <<n>>
        BY <3>1 DEF Short
      <4> QED BY <4>1 DEF FileBounds, Path, Name, Off
    <3>2. CASE p \in Deep
      <4>1. PICK m, n \in Names : p = <<m, n>>
        BY <3>2 DEF Deep
      <4> QED BY <4>1 DEF FileBounds, Path, Name, Off
    <3> QED BY <3>1, <3>2 DEF Paths
  <2> QED BY <2>1, <2>2, WithoutKeepsOff, PutKeepsOff
<1> QED BY <1>5, <1>6, <1>7, <1>8, <1>10, <1>11, <1>12, <1>13, <1>14 DEF Next

(* Whatever step a mission names, and through whichever of its two paths,   *)
(* nothing changes in the queue below the notes or outside them.            *)
THEOREM QueueIsLeftAlone ==
  ASSUME FileBounds
  PROVE  Spec => []ControlPlaneUntouched
<1>1. QueueStands => ControlPlaneUntouched
  BY PathFacts DEF QueueStands, Off, ControlPlaneUntouched, QueueJob, QueueDir
<1> QED BY <1>1, QueueInit, QueueStep, ChosenStep, PTL DEF Spec

-----------------------------------------------------------------------------

(* A path under another begins with its names.                              *)
LEMMA UnderMeans ==
  \A p, q \in Path : Under(p, q) <=> Len(q) <= Len(p) /\ \A i \in 1..Len(q) : p[i] = q[i]
<1> SUFFICES ASSUME NEW p \in Path, NEW q \in Path
             PROVE  Under(p, q) <=> Len(q) <= Len(p) /\ \A i \in 1..Len(q) : p[i] = q[i]
  OBVIOUS
<1>1. Len(p) \in Nat /\ Len(q) \in Nat /\ (\A i \in 1..Len(p) : p[i] \in Name)
      /\ (\A i \in 1..Len(q) : q[i] \in Name)
  BY DEF Path
<1>2. /\ SubSeq(q, 1, Len(q)) \in Path /\ Len(SubSeq(q, 1, Len(q))) = Len(q)
      /\ \A i \in 1..Len(q) : SubSeq(q, 1, Len(q))[i] = q[i]
  BY <1>1, SubSeqProperties DEF Path
<1>3. CASE Len(q) <= Len(p)
  <2>1. /\ SubSeq(p, 1, Len(q)) \in Path /\ Len(SubSeq(p, 1, Len(q))) = Len(q)
        /\ \A i \in 1..Len(q) : SubSeq(p, 1, Len(q))[i] = p[i]
    BY <1>1, <1>3, SubSeqProperties DEF Path
  <2>2. SubSeq(q, 1, Len(q)) = SubSeq(p, 1, Len(q)) <=> \A i \in 1..Len(q) : p[i] = q[i]
    <3>1. ASSUME \A i \in 1..Len(q) : p[i] = q[i]
          PROVE  SubSeq(q, 1, Len(q)) = SubSeq(p, 1, Len(q))
      BY <1>2, <2>1, <3>1, SeqEqual DEF Path
    <3> QED BY <1>2, <2>1, <3>1
  <2> QED BY <1>3, <2>2 DEF Under, IsPrefix
<1> QED BY <1>3 DEF Under, IsPrefix

(* It is a partial order, in which what lies above one path is a chain.     *)
LEMMA UnderOrder ==
  /\ \A p \in Path : Under(p, p) /\ Under(p, <<>>)
  /\ \A p, q, r \in Path : Under(p, q) /\ Under(q, r) => Under(p, r)
  /\ \A p, q \in Path : Under(p, q) /\ Under(q, p) => p = q
  /\ \A p, q, r \in Path : Under(p, q) /\ Under(p, r) => Under(q, r) \/ Under(r, q)
<1>1. \A p \in Path : Len(p) \in Nat
  BY DEF Path
<1>2. ASSUME NEW p \in Path PROVE Under(p, p) /\ Under(p, <<>>)
  <2>1. <<>> \in Path /\ Len(<<>>) = 0
    BY DEF Path
  <2> QED BY <1>1, <2>1, UnderMeans
<1>3. ASSUME NEW p \in Path, NEW q \in Path, NEW r \in Path, Under(p, q), Under(q, r)
      PROVE  Under(p, r)
  <2>1. Len(q) <= Len(p) /\ (\A i \in 1..Len(q) : p[i] = q[i])
    BY <1>3, UnderMeans
  <2>2. Len(r) <= Len(q) /\ (\A i \in 1..Len(r) : q[i] = r[i])
    BY <1>3, UnderMeans
  <2>3. Len(r) <= Len(p) /\ (\A i \in 1..Len(r) : p[i] = r[i])
    BY <1>1, <2>1, <2>2
  <2> QED BY <2>3, UnderMeans
<1>4. ASSUME NEW p \in Path, NEW q \in Path, Under(p, q), Under(q, p)
      PROVE  p = q
  <2>1. Len(q) <= Len(p) /\ Len(p) <= Len(q) /\ (\A i \in 1..Len(q) : p[i] = q[i])
    BY <1>4, UnderMeans
  <2>2. Len(q) = Len(p)
    BY <1>1, <2>1
  <2> QED BY <2>1, <2>2, SeqEqual DEF Path
<1>5. ASSUME NEW p \in Path, NEW q \in Path, NEW r \in Path, Under(p, q), Under(p, r)
      PROVE  Under(q, r) \/ Under(r, q)
  <2>1. (\A i \in 1..Len(q) : p[i] = q[i]) /\ (\A i \in 1..Len(r) : p[i] = r[i])
    BY <1>5, UnderMeans
  <2>2. CASE Len(r) <= Len(q)
    <3>1. \A i \in 1..Len(r) : q[i] = r[i]
      BY <1>1, <2>1, <2>2
    <3> QED BY <2>2, <3>1, UnderMeans
  <2>3. CASE Len(q) <= Len(r)
    <3>1. \A i \in 1..Len(q) : r[i] = q[i]
      BY <1>1, <2>1, <2>3
    <3> QED BY <2>3, <3>1, UnderMeans
  <2> QED BY <1>1, <2>2, <2>3
<1> QED BY <1>2, <1>3, <1>4, <1>5

(* The directory of a path is the nearest above it.                         *)
LEMMA UpIs ==
  ASSUME NEW p \in Path, p # <<>>
  PROVE  /\ Up(p) \in Path /\ Len(Up(p)) = Len(p) - 1 /\ Up(p) # p
         /\ Len(p) \in Nat \ {0}
         /\ \A i \in 1..(Len(p) - 1) : Up(p)[i] = p[i]
         /\ Under(p, Up(p))
         /\ \A q \in Path : Under(p, q) /\ q # p => Under(Up(p), q)
<1>1. Len(p) \in Nat \ {0} /\ (\A i \in 1..Len(p) : p[i] \in Name)
  BY DEF Path
<1>2. /\ Up(p) \in Path /\ Len(Up(p)) = Len(p) - 1
      /\ \A i \in 1..(Len(p) - 1) : Up(p)[i] = p[i]
  <2>1. /\ Up(p) \in Path
        /\ Len(Up(p)) = IF 1 <= Len(p) - 1 THEN Len(p) - 1 - 1 + 1 ELSE 0
        /\ \A i \in 1..(Len(p) - 1 - 1 + 1) : Up(p)[i] = p[1 + i - 1]
    BY <1>1, SubSeqProperties DEF Up, Path
  <2>2. Len(Up(p)) = Len(p) - 1
    <3>1. \A n \in Nat \ {0} : (IF 1 <= n - 1 THEN n - 1 - 1 + 1 ELSE 0) = n - 1
      OBVIOUS
    <3> QED BY <1>1, <2>1, <3>1, Zenon
  <2>3. ASSUME NEW i \in 1..(Len(p) - 1) PROVE Up(p)[i] = p[i]
    <3>1. i \in 1..(Len(p) - 1 - 1 + 1) /\ 1 + i - 1 = i
      BY <1>1
    <3> QED BY <2>1, <3>1
  <2> QED BY <2>1, <2>2, <2>3
<1>3. Under(p, Up(p)) /\ Up(p) # p
  BY <1>1, <1>2, UnderMeans
<1>4. ASSUME NEW q \in Path, Under(p, q), q # p PROVE Under(Up(p), q)
  <2>1. Len(q) \in Nat /\ Len(q) <= Len(p) /\ \A i \in 1..Len(q) : p[i] = q[i]
    BY <1>4, UnderMeans DEF Path
  <2>2. Len(q) # Len(p)
    BY <1>4, <2>1, SeqEqual DEF Path
  <2>3. Len(q) <= Len(Up(p)) /\ \A i \in 1..Len(q) : Up(p)[i] = q[i]
    BY <1>1, <1>2, <2>1, <2>2
  <2> QED BY <1>2, <2>3, UnderMeans
<1> QED BY <1>1, <1>2, <1>3, <1>4

(* What is left of a path below another, and a path put below another.      *)
LEMMA BelowIs ==
  ASSUME NEW p \in Path, NEW q \in Path, Under(p, q)
  PROVE  /\ Below(p, q) \in Path /\ Len(Below(p, q)) = Len(p) - Len(q)
         /\ \A i \in 1..(Len(p) - Len(q)) : Below(p, q)[i] = p[Len(q) + i]
         /\ q \o Below(p, q) = p
         /\ Below(p, q) = <<>> <=> p = q
<1>1. /\ Len(p) \in Nat /\ Len(q) \in Nat /\ (\A i \in 1..Len(p) : p[i] \in Name)
      /\ Len(q) <= Len(p) /\ \A i \in 1..Len(q) : p[i] = q[i]
  BY UnderMeans DEF Path
<1>2. /\ Below(p, q) \in Path /\ Len(Below(p, q)) = Len(p) - Len(q)
      /\ \A i \in 1..(Len(p) - Len(q)) : Below(p, q)[i] = p[Len(q) + i]
  <2>1. /\ Below(p, q) \in Path
        /\ Len(Below(p, q)) = IF Len(q) + 1 <= Len(p) THEN Len(p) - (Len(q) + 1) + 1 ELSE 0
        /\ \A i \in 1..(Len(p) - (Len(q) + 1) + 1) : Below(p, q)[i] = p[(Len(q) + 1) + i - 1]
    BY <1>1, SubSeqProperties DEF Below, Path
  <2> QED BY <1>1, <2>1
<1>3. q \o Below(p, q) = p
  <2>1. /\ q \o Below(p, q) \in Path /\ Len(q \o Below(p, q)) = Len(q) + Len(Below(p, q))
        /\ \A i \in 1..(Len(q) + Len(Below(p, q))) :
             (q \o Below(p, q))[i] = IF i <= Len(q) THEN q[i] ELSE Below(p, q)[i - Len(q)]
    BY <1>2, ConcatProperties DEF Path
  <2>2. Len(q \o Below(p, q)) = Len(p)
    BY <1>1, <1>2, <2>1
  <2>3. ASSUME NEW i \in 1..Len(p) PROVE (q \o Below(p, q))[i] = p[i]
    <3>1. CASE i <= Len(q)
      BY <1>1, <1>2, <2>1, <3>1
    <3>2. CASE i > Len(q)
      <4>1. i - Len(q) \in 1..(Len(p) - Len(q)) /\ Len(q) + (i - Len(q)) = i
        BY <1>1, <3>2
      <4>2. Below(p, q)[i - Len(q)] = p[i]
        BY <1>2, <4>1
      <4> QED BY <1>1, <1>2, <2>1, <3>2, <4>2
    <3>3. i <= Len(q) \/ i > Len(q)
      BY <1>1
    <3> QED BY <3>1, <3>2, <3>3, Zenon
  <2> QED BY <2>1, <2>2, <2>3, SeqEqual DEF Path
<1>4. Below(p, q) = <<>> <=> p = q
  <2>1. ASSUME Below(p, q) = <<>> PROVE p = q
    BY <1>3, <2>1, ConcatEmptySeq DEF Path
  <2>2. ASSUME p = q PROVE Below(p, q) = <<>>
    BY <1>1, <1>2, <2>2 DEF Path
  <2> QED BY <2>1, <2>2
<1> QED BY <1>2, <1>3, <1>4

(* A path written after another lies under it, at what was written.         *)
LEMMA ConcatIs ==
  ASSUME NEW q \in Path, NEW x \in Path
  PROVE  /\ q \o x \in Path /\ Under(q \o x, q) /\ Below(q \o x, q) = x
         /\ q \o x = q <=> x = <<>>
         /\ x # <<>> => q \o x # <<>> /\ Up(q \o x) = q \o Up(x)
<1>1. /\ Len(q) \in Nat /\ Len(x) \in Nat
      /\ q \o x \in Path /\ Len(q \o x) = Len(q) + Len(x)
      /\ \A i \in 1..(Len(q) + Len(x)) : (q \o x)[i] = IF i <= Len(q) THEN q[i] ELSE x[i - Len(q)]
  BY ConcatProperties DEF Path
<1>2. Under(q \o x, q)
  <2>1. Len(q) <= Len(q \o x) /\ \A i \in 1..Len(q) : (q \o x)[i] = q[i]
    BY <1>1
  <2> QED BY <1>1, <2>1, UnderMeans
<1>3. Below(q \o x, q) = x
  <2> DEFINE b == Below(q \o x, q)
  <2>1. /\ b \in Path /\ Len(b) = Len(q \o x) - Len(q)
        /\ \A i \in 1..(Len(q \o x) - Len(q)) : b[i] = (q \o x)[Len(q) + i]
    BY <1>1, <1>2, BelowIs
  <2>2. Len(b) = Len(x) /\ \A i \in 1..Len(x) : b[i] = x[i]
    BY <1>1, <2>1
  <2> HIDE DEF b
  <2>3. b = x
    BY <2>1, <2>2, SeqEqual DEF Path
  <2> QED BY <2>3 DEF b
<1>4. q \o x = q <=> x = <<>>
  BY ConcatEqualIffEmpty DEF Path
<1>5. ASSUME x # <<>> PROVE q \o x # <<>> /\ Up(q \o x) = q \o Up(x)
  <2>1. Len(x) \in Nat \ {0} /\ q \o x # <<>>
    BY <1>1, <1>5 DEF Path
  <2>2. /\ Up(x) \in Path /\ Len(Up(x)) = Len(x) - 1
        /\ \A i \in 1..(Len(x) - 1) : Up(x)[i] = x[i]
    BY <1>5, UpIs
  <2>3. /\ Up(q \o x) \in Path /\ Len(Up(q \o x)) = Len(q \o x) - 1
        /\ \A i \in 1..(Len(q \o x) - 1) : Up(q \o x)[i] = (q \o x)[i]
    BY <1>1, <2>1, UpIs
  <2>4. /\ q \o Up(x) \in Path /\ Len(q \o Up(x)) = Len(q) + Len(Up(x))
        /\ \A i \in 1..(Len(q) + Len(Up(x))) :
              (q \o Up(x))[i] = IF i <= Len(q) THEN q[i] ELSE Up(x)[i - Len(q)]
    BY <2>2, ConcatProperties DEF Path
  <2>5. Len(Up(q \o x)) = Len(q \o Up(x)) /\ Len(q \o Up(x)) = Len(q) + Len(x) - 1
    BY <1>1, <2>1, <2>2, <2>3, <2>4
  <2>6. ASSUME NEW i \in 1..(Len(q) + Len(x) - 1) PROVE Up(q \o x)[i] = (q \o Up(x))[i]
    <3>1. CASE i <= Len(q)
      BY <1>1, <2>1, <2>2, <2>3, <2>4, <3>1
    <3>2. CASE i > Len(q)
      <4>1. i - Len(q) \in 1..(Len(x) - 1) /\ i \in 1..(Len(q) + Len(x))
        BY <1>1, <2>1, <3>2
      <4>2. Up(x)[i - Len(q)] = x[i - Len(q)]
        BY <2>2, <4>1
      <4> QED BY <1>1, <2>1, <2>2, <2>3, <2>4, <3>2, <4>1, <4>2
    <3>3. i <= Len(q) \/ i > Len(q)
      BY <1>1
    <3> QED BY <3>1, <3>2, <3>3, Zenon
  <2>7. Up(q \o x) = q \o Up(x)
    BY <2>3, <2>4, <2>5, <2>6, SeqEqual DEF Path
  <2> QED BY <2>1, <2>7
<1> QED BY <1>1, <1>2, <1>3, <1>4, <1>5

(* The directory of a path written after another.                           *)
LEMMA UpBelow ==
  ASSUME NEW q \in Path, NEW x \in Path, x # <<>>
  PROVE  q \o x # <<>> /\ Up(q \o x) = q \o Up(x)
BY ConcatIs, Zenon

(* The directories mkdir -p makes on the way to a path.                     *)
LEMMA AboveIs ==
  ASSUME NEW p \in Path
  PROVE  /\ Above(p) \subseteq Path
         /\ p # <<>> => Up(p) \in Above(p)
         /\ \A q \in Above(p) : Under(p, q) /\ q # p /\ (q # <<>> => Up(q) \in Above(p))
<1>1. Len(p) \in Nat /\ (\A i \in 1..Len(p) : p[i] \in Name)
  BY DEF Path
<1>2. ASSUME NEW i \in 0..(Len(p) - 1)
      PROVE  /\ SubSeq(p, 1, i) \in Path /\ Len(SubSeq(p, 1, i)) = i
             /\ \A k \in 1..i : SubSeq(p, 1, i)[k] = p[k]
  <2>1. /\ SubSeq(p, 1, i) \in Path /\ Len(SubSeq(p, 1, i)) = IF 1 <= i THEN i - 1 + 1 ELSE 0
        /\ \A k \in 1..(i - 1 + 1) : SubSeq(p, 1, i)[k] = p[1 + k - 1]
    BY <1>1, SubSeqProperties DEF Path
  <2> QED BY <1>1, <2>1
<1>3. p # <<>> => Up(p) \in Above(p)
  BY <1>1 DEF Up, Above, Path
<1>4. ASSUME NEW q \in Above(p)
      PROVE  q \in Path /\ Under(p, q) /\ q # p /\ (q # <<>> => Up(q) \in Above(p))
  <2>1. PICK i \in 0..(Len(p) - 1) : q = SubSeq(p, 1, i)
    BY DEF Above
  <2>2. q \in Path /\ Len(q) = i /\ \A k \in 1..i : q[k] = p[k]
    BY <1>2, <2>1
  <2>3. Under(p, q) /\ q # p
    BY <1>1, <2>2, UnderMeans
  <2>4. ASSUME q # <<>> PROVE Up(q) \in Above(p)
    <3>1. i - 1 \in 0..(Len(p) - 1)
      BY <1>1, <2>2, <2>4 DEF Path
    <3>2. /\ SubSeq(p, 1, i - 1) \in Path /\ Len(SubSeq(p, 1, i - 1)) = i - 1
          /\ \A k \in 1..(i - 1) : SubSeq(p, 1, i - 1)[k] = p[k]
      BY <1>2, <3>1
    <3>3. /\ Up(q) \in Path /\ Len(Up(q)) = i - 1
          /\ \A k \in 1..(i - 1) : Up(q)[k] = q[k]
      BY <2>2, <2>4, UpIs
    <3>4. Up(q) = SubSeq(p, 1, i - 1)
      BY <1>1, <2>2, <3>1, <3>2, <3>3, SeqEqual DEF Path
    <3> QED BY <3>1, <3>4 DEF Above
  <2> QED BY <2>2, <2>3, <2>4
<1> QED BY <1>3, <1>4

(* Directories D and files E that make a tree.                              *)
IsTree(D, E) ==
    /\ D \subseteq Path /\ E \subseteq Path /\ <<>> \notin E /\ D \cap E = {}
    /\ \A p \in (D \cup E) \ {<<>>} : Up(p) \in D

(* Everything above what is there is a directory that is there.             *)
LEMMA TreeClosed ==
  ASSUME NEW D, NEW E, IsTree(D, E), NEW p \in D \cup E, NEW q \in Path, Under(p, q), p # q
  PROVE  q \in D
<1> SUFFICES ASSUME q \notin D PROVE FALSE
  OBVIOUS
<1> DEFINE Bad == {x \in D \cup E : Under(x, q) /\ x # q}
           Lens == {Len(x) : x \in Bad}
<1>1. D \cup E \subseteq Path /\ \A x \in D \cup E : Len(x) \in Nat
  BY DEF IsTree, Path
<1>2. p \in Bad /\ Lens \in SUBSET Nat /\ Lens # {}
  BY <1>1
<1>3. PICK n \in Lens : \A k \in Lens : n <= k
  BY <1>2, LeastOf
<1>4. PICK x \in Bad : n = Len(x)
  BY <1>3
<1>5. x \in Path /\ x # <<>>
  <2>1. x \in Path
    BY <1>1, <1>4
  <2>2. q # <<>> \/ x # <<>>
    BY <1>4
  <2>3. ASSUME x = <<>> PROVE FALSE
    <3>1. Under(q, x)
      BY <2>3, UnderOrder
    <3> QED BY <1>4, <2>1, <3>1, UnderOrder
  <2> QED BY <2>1, <2>3
<1>6. /\ Up(x) \in Path /\ Len(Up(x)) = Len(x) - 1 /\ Len(x) \in Nat \ {0}
      /\ Under(Up(x), q)
  BY <1>4, <1>5, UpIs
<1>7. Up(x) \in D
  BY <1>4, <1>5 DEF IsTree
<1>8. Up(x) # q
  BY <1>7
<1>9. Up(x) \in Bad
  BY <1>6, <1>7, <1>8
<1>10. n <= Len(Up(x))
  BY <1>3, <1>9
<1> QED BY <1>4, <1>6, <1>10

(* Nothing is under a file or under what is not there.                      *)
LEMMA NothingUnder ==
  ASSUME NEW D, NEW E, IsTree(D, E), NEW q \in Path, q \notin D, NEW p \in D \cup E, Under(p, q)
  PROVE  p = q
BY TreeClosed

(* What of D remains when q is cleared away.                                *)
Kept(D, q) == {r \in D : ~Under(r, q)}

(* What is cleared away, added, made or moved leaves a tree.                *)
LEMMA TreeWithout ==
  ASSUME NEW D, NEW E, IsTree(D, E), NEW q \in Path
  PROVE  IsTree(Kept(D, q), Kept(E, q))
<1>1. ASSUME NEW p \in (Kept(D, q) \cup Kept(E, q)) \ {<<>>} PROVE Up(p) \in Kept(D, q)
  <2>1. p \in Path /\ ~Under(p, q) /\ Up(p) \in D
    BY <1>1 DEF IsTree, Kept
  <2>2. Up(p) \in Path /\ Under(p, Up(p))
    BY <1>1, <2>1, UpIs
  <2>3. ~Under(Up(p), q)
    BY <2>1, <2>2, UnderOrder
  <2> QED BY <2>1, <2>3 DEF Kept
<1> QED BY <1>1 DEF IsTree, Kept

(* A file is put into a directory.                                          *)
LEMMA TreePut ==
  ASSUME NEW D, NEW E, IsTree(D, E), NEW q \in Path, q # <<>>, Up(q) \in D, q \notin D
  PROVE  IsTree(D, E \cup {q})
BY DEF IsTree

(* A path gets the directories above it, and may become one itself.         *)
LEMMA TreeMake ==
  ASSUME NEW D, NEW E, IsTree(D, E), NEW q \in Path, q # <<>>, \A r \in Above(q) : r \notin E
  PROVE  /\ IsTree(D \cup Above(q), E)
         /\ q \notin E => IsTree(D \cup Above(q) \cup {q}, E)
<1>1. /\ Above(q) \subseteq Path /\ Up(q) \in Above(q)
      /\ \A r \in Above(q) : r # <<>> => Up(r) \in Above(q)
  BY AboveIs
<1> QED BY <1>1 DEF IsTree

(* Where what is under p goes when p becomes q.                             *)
Carried(D, p, q) == {q \o Below(r, p) : r \in {x \in D : Under(x, p)}}

(* What may be renamed to what.                                             *)
Fits(D, E, p, q) ==
    /\ p \in D \cup E /\ Up(q) \in D
    /\ IF p \in E THEN q \notin D
       ELSE q \notin E /\ ~Under(q, p) /\ \A r \in D \cup E : Under(r, q) => r = q

(* Of two different paths the second is never in the first; a file is       *)
(* carried alone.                                                           *)
LEMMA FitsMeans ==
  ASSUME NEW D, NEW E, IsTree(D, E), NEW p \in Path, NEW q \in Path, p # <<>>, q # <<>>, p # q,
         Fits(D, E, p, q)
  PROVE  /\ ~Under(q, p)
         /\ p \in E => \A x \in D \cup E : Under(x, p) => x = p
<1>1. p \in E => \A x \in D \cup E : Under(x, p) => x = p
  <2> SUFFICES ASSUME p \in E PROVE \A x \in D \cup E : Under(x, p) => x = p
    OBVIOUS
  <2>1. p \notin D
    BY DEF IsTree
  <2> QED BY <2>1, NothingUnder
<1>2. ASSUME p \in E PROVE ~Under(q, p)
  <2>1. Up(q) \in Path /\ Under(q, Up(q)) /\ Up(q) \in D
    BY UpIs DEF Fits
  <2>2. ASSUME Under(q, p) PROVE FALSE
    <3>1. Under(Up(q), p)
      BY <2>2, UpIs
    <3>2. Up(q) = p
      BY <1>1, <1>2, <2>1, <3>1
    <3> QED BY <1>2, <2>1, <3>2 DEF IsTree
  <2> QED BY <2>2
<1>3. ASSUME p \notin E PROVE ~Under(q, p)
  BY <1>3 DEF Fits
<1> QED BY <1>1, <1>2, <1>3

(* Where what is carried goes, and where it comes from.                     *)
Lands(D, p, q, x) ==
    q \o Below(x, p) \in Carried(D, p, q) /\ p \o Below(q \o Below(x, p), q) = x

(* What is under p lands under q, and comes from where it was.              *)
LEMMA CarriedTo ==
  ASSUME NEW D, D \subseteq Path, NEW p \in Path, NEW q \in Path, NEW x \in D, Under(x, p)
  PROVE  Lands(D, p, q, x)
<1>1. Below(x, p) \in Path /\ p \o Below(x, p) = x
  BY BelowIs
<1> QED BY <1>1, ConcatIs DEF Carried, Lands

(* All that lands is under q and comes from under p.                        *)
LEMMA CarriedIs ==
  ASSUME NEW D, D \subseteq Path, NEW p \in Path, NEW q \in Path
  PROVE  /\ Carried(D, p, q) \subseteq Path
         /\ \A y \in Carried(D, p, q) :
              Under(y, q) /\ p \o Below(y, q) \in D /\ Under(p \o Below(y, q), p)
         /\ \A x \in D : Under(x, p) =>
              q \o Below(x, p) \in Carried(D, p, q) /\ p \o Below(q \o Below(x, p), q) = x
<1>1. ASSUME NEW x \in D, Under(x, p)
      PROVE  /\ q \o Below(x, p) \in Path /\ Under(q \o Below(x, p), q)
             /\ p \o Below(q \o Below(x, p), q) = x
  <2>1. Below(x, p) \in Path /\ p \o Below(x, p) = x
    BY <1>1, BelowIs
  <2> QED BY <2>1, ConcatIs
<1>2. ASSUME NEW y \in Carried(D, p, q)
      PROVE  /\ y \in Path /\ Under(y, q) /\ p \o Below(y, q) \in D
             /\ Under(p \o Below(y, q), p)
  <2>1. PICK x \in D : Under(x, p) /\ y = q \o Below(x, p)
    BY DEF Carried
  <2> QED BY <1>1, <2>1
<1> QED BY <1>1, <1>2 DEF Carried

(* What is carried lands where nothing was, but for the place named.        *)
LEMMA LandsFree ==
  ASSUME NEW D, NEW E, IsTree(D, E), NEW p \in Path, NEW q \in Path, p # <<>>, q # <<>>, p # q,
         Fits(D, E, p, q), NEW y \in Carried(E, p, q), y \in E
  PROVE  y = q
<1>1. /\ y \in Path /\ Under(y, q) /\ p \o Below(y, q) \in E
      /\ Under(p \o Below(y, q), p)
  BY CarriedIs DEF IsTree
<1>2. CASE p \in E
  <2>1. PICK z \in Path : z = Below(y, q)
    BY <1>1, BelowIs
  <2>2. p \o z = p
    BY <1>1, <1>2, <2>1, FitsMeans
  <2>3. z = <<>>
    BY <2>1, <2>2, ConcatIs
  <2> QED BY <1>1, <2>1, <2>3, BelowIs
<1>3. CASE p \notin E
  BY <1>1, <1>3 DEF Fits
<1> QED BY <1>2, <1>3

(* A rename leaves a tree.                                                  *)
LEMMA TreeReplaced ==
  ASSUME NEW D, NEW E, IsTree(D, E), NEW p \in Path, NEW q \in Path, p # <<>>, q # <<>>, p # q,
         Fits(D, E, p, q)
  PROVE  IsTree(Kept(D, p) \cup Carried(D, p, q), (Kept(E, p) \ {q}) \cup Carried(E, p, q))
<1> DEFINE D2 == Kept(D, p) \cup Carried(D, p, q)
           E2 == (Kept(E, p) \ {q}) \cup Carried(E, p, q)
<1>1. D \subseteq Path /\ E \subseteq Path /\ <<>> \notin E /\ D \cap E = {}
  BY DEF IsTree
<1>2. ~Under(q, p) /\ (p \in E => \A x \in D \cup E : Under(x, p) => x = p)
  BY FitsMeans
<1>3. D2 \subseteq Path /\ E2 \subseteq Path
  BY <1>1, CarriedIs DEF Kept
<1>4. \A y \in Carried(D, p, q) \cup Carried(E, p, q) : Under(y, q) /\ y # <<>>
  <2>1. \A y \in Carried(D, p, q) \cup Carried(E, p, q) : y \in Path /\ Under(y, q)
    BY <1>1, CarriedIs
  <2>2. ~Under(<<>>, q)
    <3>1. <<>> \in Path /\ Under(q, <<>>)
      BY UnderOrder DEF Path
    <3> QED BY <3>1, UnderOrder
  <2> QED BY <2>1, <2>2
<1>5. \A y \in E2 : y # <<>>
  BY <1>1, <1>4 DEF Kept
<1>6. ASSUME NEW y \in D2, y \in E2 PROVE FALSE
  <2>1. CASE y \in Carried(D, p, q) /\ y \in Carried(E, p, q)
    <3>1. p \o Below(y, q) \in D /\ p \o Below(y, q) \in E
      BY <1>1, <2>1, CarriedIs
    <3> QED BY <1>1, <3>1
  <2>2. CASE y \in Kept(D, p) /\ y \in Carried(E, p, q)
    <3> DEFINE x == p \o Below(y, q)
    <3>1. y \in D /\ y \in Path /\ Under(y, q) /\ x \in E /\ Under(x, p)
      BY <1>1, <2>2, CarriedIs DEF Kept
    <3>2. CASE p \in E
      <4>1. x = p
        BY <1>2, <3>1, <3>2
      <4>2. Below(y, q) \in Path /\ q \o Below(y, q) = y
        BY <3>1, BelowIs
      <4>3. Below(y, q) = <<>>
        BY <4>1, <4>2, ConcatIs
      <4>4. y = q
        BY <3>1, <4>3, BelowIs
      <4> QED BY <3>1, <3>2, <4>4 DEF Fits
    <3>3. CASE p \notin E
      <4>1. y = q
        BY <3>1, <3>3 DEF Fits
      <4>2. Below(y, q) = <<>>
        BY <3>1, <4>1, BelowIs
      <4>3. x = p
        BY <4>2, ConcatIs, <<>> \in Path DEF Path
      <4> QED BY <3>1, <3>3, <4>3
    <3> QED BY <3>2, <3>3
  <2>3. CASE y \in Carried(D, p, q) /\ y \in Kept(E, p) \ {q}
    <3> DEFINE x == p \o Below(y, q)
    <3>1. y \in E /\ y # q /\ y \in Path /\ Under(y, q) /\ x \in D /\ Under(x, p)
      BY <1>1, <2>3, CarriedIs DEF Kept
    <3>2. CASE p \in E
      BY <1>1, <1>2, <3>1, <3>2
    <3>3. CASE p \notin E
      BY <3>1, <3>3 DEF Fits
    <3> QED BY <3>2, <3>3
  <2>4. CASE y \in Kept(D, p) /\ y \in Kept(E, p)
    BY <1>1, <2>4 DEF Kept
  <2> QED BY <1>6, <2>1, <2>2, <2>3, <2>4
<1>7. ASSUME NEW y \in Kept(D, p) \cup Kept(E, p), y # <<>> PROVE Up(y) \in D2
  <2>1. y \in Path /\ Up(y) \in D /\ ~Under(y, p)
    BY <1>1, <1>7 DEF Kept, IsTree
  <2>2. Up(y) \in Path /\ Under(y, Up(y))
    BY <1>7, <2>1, UpIs
  <2>3. ~Under(Up(y), p)
    BY <2>1, <2>2, UnderOrder
  <2> QED BY <2>1, <2>3 DEF Kept
<1>8. Up(q) \in D2
  <2>1. Up(q) \in Path /\ Under(q, Up(q)) /\ Up(q) \in D
    BY UpIs DEF Fits
  <2>2. ~Under(Up(q), p)
    BY <1>2, <2>1, UnderOrder
  <2> QED BY <2>1, <2>2 DEF Kept
<1>9. ASSUME NEW x \in D \cup E, Under(x, p) PROVE Up(q \o Below(x, p)) \in D2
  <2>0. x \in Path
    BY <1>1
  <2>1. CASE x = p
    <3>1. Below(x, p) = <<>> /\ q \o <<>> = q
      BY <1>9, <2>0, <2>1, BelowIs, ConcatIs, <<>> \in Path DEF Path
    <3> QED BY <1>8, <3>1
  <2>2. CASE x # p
    <3>1. /\ Below(x, p) \in Path /\ Below(x, p) # <<>> /\ p \o Below(x, p) = x
      BY <1>9, <2>0, <2>2, BelowIs
    <3>2. PICK z \in Path : z = Below(x, p)
      BY <3>1
    <3>3. z # <<>> /\ p \o z = x
      BY <3>1, <3>2
    <3>4. Up(q \o z) = q \o Up(z)
      BY <3>3, UpBelow, Zenon
    <3>5. Up(x) = p \o Up(z) /\ x # <<>>
      BY <3>3, UpBelow, Zenon
    <3>6. Up(z) \in Path
      BY <3>3, UpIs
    <3>7. Below(Up(x), p) = Up(z) /\ Under(Up(x), p)
      BY <3>5, <3>6, ConcatIs
    <3>8. Up(x) \in D
      BY <3>5 DEF IsTree
    <3>9. q \o Below(Up(x), p) \in Carried(D, p, q)
      BY <1>1, <3>7, <3>8, CarriedIs
    <3> QED BY <3>2, <3>4, <3>7, <3>9
  <2> QED BY <2>1, <2>2
<1>10. ASSUME NEW y \in Carried(D, p, q) \cup Carried(E, p, q) PROVE Up(y) \in D2
  BY <1>9 DEF Carried
<1>11. \A y \in (D2 \cup E2) \ {<<>>} : Up(y) \in D2
  BY <1>7, <1>10
<1> HIDE DEF D2, E2
<1>12. IsTree(D2, E2)
  BY <1>3, <1>5, <1>6, <1>11 DEF IsTree
<1> QED BY <1>12 DEF D2, E2

(* A mission is one step, or asks about a file, makes a directory and       *)
(* copies or moves the file into it; only a copy is followed by a delete,   *)
(* of what was copied.                                                      *)
Shaped(s) ==
    \/ Len(s) = 1
    \/ /\ Len(s) \in {4, 5}
       /\ s[1].skill = "exists" /\ s[2].skill = "stat" /\ s[3].skill = "mkdir"
       /\ s[4].skill \in {"copy", "move"}
       /\ Len(s) = 5 => /\ s[4].skill = "copy" /\ s[5].skill = "delete" /\ ~s[5].flag
                        /\ s[5].path = s[4].path

(* Every mission there is has that shape.                                   *)
LEMMA MissionsAreShaped == \A m \in Organizing \cup Single : Shaped(m)
<1>1. ASSUME NEW m \in Single PROVE Len(m) = 1
  <2>1. \A s : Len(<<s>>) = 1
    OBVIOUS
  <2>2. CASE m \in Plain
    BY <2>1, <2>2 DEF Plain
  <2>3. CASE m \in Across
    BY <2>1, <2>3 DEF Across
  <2>4. CASE m \in Renames
    <3> DEFINE R(p, n, flag) == Step("rename", p, Up(p) \o <<n>>, flag)
    <3>1. Renames = {<<R(p, n, flag)>> : p \in Asked, n \in Names \cup {"queue"}, flag \in BOOLEAN}
      BY DEF Renames
    <3>2. PICK p \in Asked, n \in Names \cup {"queue"}, flag \in BOOLEAN : m = <<R(p, n, flag)>>
      <4> HIDE DEF R
      <4> QED BY <2>4, <3>1
    <3>3. PICK s : s = R(p, n, flag)
      OBVIOUS
    <3> QED BY <2>1, <3>2, <3>3
  <2> QED BY <2>2, <2>3, <2>4 DEF Single
<1>2. ASSUME NEW src, NEW dir, NEW mode \in {"copy", "move"}, NEW overwrite, NEW delete \in BOOLEAN
      PROVE  Shaped(Organize(src, dir, mode, overwrite, delete))
  <2>1. PICK a, b, c, d, e :
          /\ a = Step("exists", src, src, FALSE) /\ b = Step("stat", src, src, FALSE)
          /\ c = Step("mkdir", dir, dir, TRUE)
          /\ d = Step(mode, src, dir \o <<Base(src)>>, overwrite)
          /\ e = Step("delete", src, src, FALSE)
    OBVIOUS
  <2>2. /\ a.skill = "exists" /\ b.skill = "stat" /\ c.skill = "mkdir" /\ d.skill = mode
        /\ e.skill = "delete" /\ ~e.flag /\ e.path = d.path
    BY <2>1 DEF Step
  <2> DEFINE m == <<a, b, c, d>> \o IF mode = "copy" /\ delete THEN <<e>> ELSE <<>>
  <2>3. Organize(src, dir, mode, overwrite, delete) = m
    BY <2>1 DEF Organize
  <2>4. <<a, b, c, d>> \in Seq({a, b, c, d, e}) /\ <<e>> \in Seq({a, b, c, d, e})
        /\ <<>> \in Seq({a, b, c, d, e}) /\ Len(<<a, b, c, d>>) = 4 /\ Len(<<e>>) = 1
    OBVIOUS
  <2>5. CASE mode = "copy" /\ delete
    <3>1. m = <<a, b, c, d>> \o <<e>>
      BY <2>5
    <3>2. /\ Len(m) = 4 + 1
          /\ \A i \in 1..(4 + 1) : m[i] = IF i <= 4 THEN <<a, b, c, d>>[i] ELSE <<e>>[i - 4]
      BY <2>4, <3>1, ConcatProperties
    <3>3. Len(m) = 5 /\ m[1] = a /\ m[2] = b /\ m[3] = c /\ m[4] = d /\ m[5] = e
      BY <3>2
    <3> QED BY <2>2, <2>3, <2>5, <3>3 DEF Shaped
  <2>6. CASE ~(mode = "copy" /\ delete)
    <3>1. m = <<a, b, c, d>>
      BY <2>4, <2>6, ConcatEmptySeq
    <3>2. Len(m) = 4 /\ m[1] = a /\ m[2] = b /\ m[3] = c /\ m[4] = d
      BY <3>1
    <3> QED BY <2>2, <2>3, <3>2 DEF Shaped
  <2> QED BY <2>5, <2>6
<1>3. ASSUME NEW m \in Organizing PROVE Shaped(m)
  <2>1. PICK src \in Asked, dir \in Short \cup {Root, QueueDir}, mode \in {"copy", "move"},
             overwrite \in BOOLEAN, delete \in BOOLEAN :
               m = Organize(src, dir, mode, overwrite, delete)
    BY DEF Organizing
  <2> QED BY <1>2, <2>1
<1> QED BY <1>1, <1>3 DEF Shaped

(* Which step of the mission copies, moves or renames.                      *)
K == IF last.skill = "delete" /\ Len(steps) > 1 THEN Len(steps) - 1 ELSE Len(steps)

(* What the step is, what it has kept, and what there is.                   *)
Copies == move.skill = "copy"
Renaming == move.skill \in {"move", "rename"}
Whole(p) == IsFile(p) /\ files[p] = start[p]
There == dirs \cup DOMAIN files
Live == verdict # "done"

(* Where control is.                                                        *)
FlowOk ==
    /\ Shaped(steps) /\ DOMAIN start \subseteq Path
    /\ pc \in {"check", "parents", "clear", "put", "fill"}
    /\ pc # "check" => step.skill \notin {"exists", "stat"}
    /\ pc = "parents" => step.skill \in {"copy", "move", "write"}
    /\ pc = "fill" => step.skill \in {"copy", "write"}
    /\ verdict \in {"running", "done", "dead", "io_error", "not_found", "invalid_input",
                    "already_exists", "path_out_of_bounds", "path_blocked_scope"}
    /\ IsFiniteSet(touched) /\ Cardinality(touched) <= MaxUser
    /\ faults \in 0..MaxFaults
(* The files and the directories are a tree.                                *)
Tree == IsTree(dirs, DOMAIN files)

(* Before the step that copies, moves or renames has changed a file.        *)
Before ==
    /\ Live
    /\ at < K \/ (at = K /\ (pc \in {"check", "parents", "clear"} \/ (pc = "put" /\ ~Renaming)))
Untouched == Before => files = start

(* Once a move or a rename has cleared its destination, or was sure that it *)
(* is free, nothing is there; and nothing else has gone.                    *)
AtRename == Live /\ Renaming /\ at = K
FreeTo ==
    AtRename /\ pc # "check" /\ (pc = "put" \/ ~move.flag) =>
        \A x \in There : ~Under(x, move.to)
Rest ==
    AtRename /\ pc = "put" =>
        \A p \in DOMAIN start : Whole(p) \/ (move.flag /\ Under(p, move.to))

(* A copy that has been opened leaves its source, and once it is filled it  *)
(* has its text, which it keeps when the source is deleted.                 *)
CopyTo ==
    IF move.to \in dirs THEN move.to \o <<Base(move.path)>> ELSE move.to
AtCopy == Live /\ Copies /\ ((at = K /\ pc = "fill") \/ at > K)
Copied ==
    AtCopy =>
        /\ move.path \in DOMAIN start /\ Whole(move.path)
        /\ \A p \in DOMAIN start : Under(p, move.path) => p = move.path
        /\ IsFile(CopyTo) /\ CopyTo # move.path
        /\ at > K => start[move.path] \subseteq files[CopyTo] /\ ~Off(move.path)

(* All this as long as the user keeps out.                                  *)
Alone == touched = {} => Untouched /\ FreeTo /\ Rest /\ Copied /\ DoneIsDone

(* A step that may not overwrite goes to no file that was there before.     *)
Unclaimed ==
    Moves /\ ~move.flag /\ Live /\ at = K /\ pc # "check" =>
      /\ move.to \notin dirs
      /\ move.to \in DOMAIN start \ touched => Under(move.to, move.path)

(* The trees stay trees, and nothing of the mission is lost.                *)
FilesInv ==
    /\ QueueStands /\ Chosen /\ FlowOk /\ Tree /\ Alone /\ Unclaimed
    /\ NothingOverwritten /\ RefusalLeavesTheFiles

(* Where the steps of a mission stand to it.                                *)
LEMMA StepsAre ==
  ASSUME Chosen, Shaped(steps)
  PROVE  /\ K \in 1..Len(steps) /\ move = steps[K] /\ move \in FileStep /\ step \in FileStep
         /\ Len(steps) \in Nat /\ at \in Nat
         /\ at = K => step = move
         /\ at < K => step.skill \in {"exists", "stat", "mkdir"} /\ Moves /\ at # Len(steps)
         /\ at > K => /\ at = Len(steps) /\ Moves /\ Copies /\ step.skill = "delete"
                      /\ ~step.flag /\ step.path = move.path /\ move # last
         /\ at = K /\ at # Len(steps) => Copies
         /\ Moves <=> (Copies \/ Renaming)
         /\ ~Moves => K = Len(steps) /\ Len(steps) = 1
<1>1. Len(steps) \in Nat /\ at \in 1..Len(steps) /\ \A i \in 1..Len(steps) : steps[i] \in FileStep
  BY DEF Chosen
<1>2. Moves <=> (Copies \/ Renaming)
  BY DEF Moves, Copies, Renaming
<1>3. CASE Len(steps) = 1
  <2>1. K = 1 /\ move = steps[1] /\ at = 1 /\ step = steps[1]
    BY <1>1, <1>3 DEF K, move, last, step
  <2> QED BY <1>1, <1>2, <1>3, <2>1
<1>4. CASE Len(steps) # 1
  <2>1. /\ Len(steps) \in {4, 5} /\ steps[1].skill = "exists" /\ steps[2].skill = "stat"
        /\ steps[3].skill = "mkdir" /\ steps[4].skill \in {"copy", "move"}
        /\ Len(steps) = 5 =>
             /\ steps[4].skill = "copy" /\ steps[5].skill = "delete" /\ ~steps[5].flag
             /\ steps[5].path = steps[4].path
    BY <1>4 DEF Shaped
  <2>2. K = 4 /\ move = steps[4]
    BY <2>1 DEF K, move, last
  <2>3. Moves
    BY <2>1, <2>2 DEF Moves
  <2>4. at < 4 => step.skill \in {"exists", "stat", "mkdir"}
    BY <1>1, <2>1 DEF step
  <2>5. at > 4 => /\ at = 5 /\ Len(steps) = 5 /\ Copies /\ step.skill = "delete" /\ ~step.flag
                  /\ step.path = move.path /\ move # last
    BY <1>1, <2>1, <2>2 DEF step, last, Copies
  <2>6. at = 4 /\ at # Len(steps) => Copies
    BY <2>1, <2>2 DEF Copies
  <2>7. steps[4] \in FileStep /\ step \in FileStep
    BY <1>1, <2>1 DEF step
  <2> QED BY <1>1, <1>2, <2>1, <2>2, <2>3, <2>4, <2>5, <2>6, <2>7 DEF step
<1> QED BY <1>3, <1>4

(* Only a running mission goes on, and what it was stays.                   *)
LEMMA MissionStays ==
  ASSUME [Next]_vars
  PROVE  /\ UNCHANGED <<start, steps, K, move, last, Moves, Copies, Renaming>>
         /\ UNCHANGED vars \/ verdict = "running"
<1>1. UNCHANGED <<start, steps>> /\ (UNCHANGED vars \/ verdict = "running")
  <2>1. CASE Refuse \/ Answer \/ Begin \/ MakeParents \/ Clear
    BY <2>1 DEF Refuse, Answer, Begin, MakeParents, Clear, Running, Goes, Fails,
       StepDone, given
  <2>2. CASE Replace \/ Open \/ Fill \/ Unlink \/ Mkdir
    BY <2>2 DEF Replace, Open, Fill, Unlink, Mkdir, Running, Goes, Fails,
       StepDone, given
  <2>3. CASE Fault \/ User \/ UNCHANGED vars
    BY <2>3 DEF Fault, User, vars, given
  <2> QED BY <2>1, <2>2, <2>3 DEF Next
<1> QED BY <1>1 DEF K, move, last, Moves, Copies, Renaming

(* What is said of the files alone.                                         *)
Facts == Tree /\ Alone /\ Unclaimed /\ NothingOverwritten /\ RefusalLeavesTheFiles

(* The paths of the step being run, and where a copy goes.                  *)
LEMMA PathsAre ==
  ASSUME QueueStands, Chosen, FlowOk
  PROVE  /\ move.path \in Path /\ move.to \in Path /\ step.path \in Path /\ step.to \in Path
         /\ move.path # <<>> \/ ~Moves
         /\ move.flag \in BOOLEAN /\ step.flag \in BOOLEAN
         /\ pc # "check" => step.path # <<>> /\ step.to # <<>>
         /\ pc # "check" /\ at = K /\ Copies => Target = CopyTo
         /\ step.skill \in {"delete", "write", "mkdir"} => step.path = step.to
         /\ pc # "check" => Target \in Path /\ Target # <<>>
<1>1. /\ move \in FileStep /\ step \in FileStep /\ (at = K => step = move)
  BY StepsAre DEF FlowOk
<1>2. pc # "check" => step.path # <<>> /\ step.to # <<>>
  BY DEF Chosen
<1>3. pc # "check" => Target \in Path /\ Target # <<>>
  <2> SUFFICES ASSUME pc # "check" PROVE Target \in Path /\ Target # <<>>
    OBVIOUS
  <2>1. step.path \in Path /\ step.to \in Path
    BY <1>1 DEF FileStep
  <2>2. <<Base(step.path)>> \in Path
    BY <1>2, <2>1 DEF Base, Path
  <2>3. step.to \o <<Base(step.path)>> \in Path
        /\ step.to \o <<Base(step.path)>> # <<>>
    BY <2>1, <2>2, ConcatIs, ConcatEqualIffEmpty, <1>2 DEF Path
  <2> QED BY <1>2, <2>1, <2>3 DEF Target
<1> QED BY <1>1, <1>2, <1>3 DEF FileStep, Moves, Target, CopyTo, Copies

(* A step that stops where it is, with the files as they are.               *)
LEMMA Stopping ==
  ASSUME FilesInv, [Next]_vars, verdict = "running", verdict' # "done",
         UNCHANGED <<dirs, files, at, pc, touched>>,
         verdict' \in {"running", "dead", "io_error"} \/ (touched = {} => files = start)
  PROVE  Facts'
<1>1. UNCHANGED <<start, steps, K, move, last, Moves, Copies, Renaming>>
  BY MissionStays
<1>2. Live /\ Live'
  BY DEF Live
<1>3. Tree'
  BY DEF Tree, FilesInv
<1>4. UNCHANGED <<There, CopyTo>> /\ \A p : Whole(p)' <=> Whole(p)
  BY <1>1 DEF There, CopyTo, Whole, IsFile
<1>5. UNCHANGED <<Before, AtRename, AtCopy>>
  BY <1>1, <1>2 DEF Before, AtRename, AtCopy
<1>6. Untouched' <=> Untouched
  BY <1>1, <1>5 DEF Untouched
<1>7. FreeTo' <=> FreeTo
  BY <1>1, <1>4, <1>5 DEF FreeTo
<1>8. Rest' <=> Rest
  BY <1>1, <1>4, <1>5 DEF Rest
<1>9. Copied' <=> Copied
  BY <1>1, <1>4, <1>5 DEF Copied, IsFile
<1>10. DoneIsDone'
  BY DEF DoneIsDone
<1>11. Alone'
  BY <1>6, <1>7, <1>8, <1>9, <1>10 DEF Alone, FilesInv
<1>12. Unclaimed'
  BY <1>1, <1>2 DEF Unclaimed, FilesInv
<1>13. NothingOverwritten'
  BY <1>1 DEF NothingOverwritten, IsFile, FilesInv
<1>14. RefusalLeavesTheFiles'
  BY <1>1 DEF RefusalLeavesTheFiles, FilesInv
<1> QED BY <1>3, <1>11, <1>12, <1>13, <1>14 DEF Facts

(* A step of the mission is done: with the last of them the mission is.     *)
LEMMA DoneMeans ==
  ASSUME FilesInv, StepDone
  PROVE  /\ UNCHANGED <<start, steps, touched, faults>> /\ pc' = "check"
         /\ \/ at = Len(steps) /\ verdict' = "done" /\ at' = at
            \/ at # Len(steps) /\ verdict' = verdict /\ at' = at + 1
BY DEF StepDone, given

(* At check, in a step that asks and in one that is refused nothing changes.*)
LEMMA RefuseStep == ASSUME FilesInv, Refuse PROVE Facts'
<1>1. verdict = "running" /\ pc = "check" /\ UNCHANGED <<dirs, files, at, pc, touched>>
  BY DEF Refuse, Running, Fails, notes
<1>2. verdict' \in {"path_out_of_bounds", "path_blocked_scope", "not_found", "invalid_input",
                    "already_exists"}
  BY DEF Refuse, Fails, Boundary
<1>3. touched = {} => files = start
  <2> SUFFICES ASSUME touched = {} PROVE files = start
    OBVIOUS
  <2>1. CASE at < K \/ at = K
    BY <1>1, <2>1 DEF FilesInv, Alone, Untouched, Before, Live
  <2>2. CASE at > K
    <3>1. step.skill = "delete" /\ ~step.flag /\ step.path = move.path /\ Copies
      BY <2>2, StepsAre DEF FilesInv, FlowOk
    <3>2. IsFile(move.path) /\ ~Off(move.path)
      BY <1>1, <2>2, <3>1 DEF FilesInv, Alone, Copied, AtCopy, Live, Whole
    <3>3. ~RefusedSource
      BY <3>1, <3>2, PathsAre, PathFacts DEF RefusedSource, FilesInv
    <3>4. ~Missing /\ ~RefusedTarget /\ ~NotAFile /\ ~FileInTheWay /\ ~Occupied
          /\ ~AlreadyMade
      BY <3>1, <3>2 DEF Missing, RefusedTarget, NotAFile, FileInTheWay, Occupied,
         AlreadyMade, TwoPaths, Exists, IsFile
    <3> QED BY <3>3, <3>4 DEF Refuse
  <2>3. at \in Nat /\ K \in Nat
    BY StepsAre DEF FilesInv, FlowOk
  <2> QED BY <2>1, <2>2, <2>3
<1> QED BY <1>1, <1>2, <1>3, Stopping DEF Next

(* A question changes nothing.                                              *)
LEMMA AnswerStep == ASSUME FilesInv, Answer PROVE Facts'
<1>1. /\ verdict = "running" /\ pc = "check" /\ UNCHANGED <<dirs, files>> /\ StepDone
      /\ step.skill \in {"exists", "stat"} \/ (step.skill = "delete" /\ step.flag)
  BY DEF Answer, Running, notes
<1>2. UNCHANGED <<start, steps, K, move, last, Moves, Copies, Renaming>>
  BY MissionStays DEF Next
<1>3. /\ UNCHANGED touched /\ pc' = "check"
      /\ \/ at = Len(steps) /\ verdict' = "done" /\ at' = at
         \/ at # Len(steps) /\ verdict' = "running" /\ at' = at + 1
  BY <1>1, DoneMeans
<1>4. K \in Nat /\ at \in Nat /\ Len(steps) \in Nat
  BY StepsAre DEF FilesInv, FlowOk
<1>5. Tree' /\ NothingOverwritten' /\ RefusalLeavesTheFiles' /\ Unclaimed'
  BY <1>2, <1>1, <1>3 DEF Tree, NothingOverwritten, IsFile, RefusalLeavesTheFiles,
     Unclaimed, FilesInv
<1>6. CASE at < K
  <2>1. at' <= K' /\ verdict' = "running" /\ at # Len(steps)
    BY <1>2, <1>3, <1>4, <1>6, StepsAre DEF FilesInv, FlowOk
  <2>2. Before /\ ~AtCopy'
    BY <1>1, <1>2, <1>3, <1>4, <1>6, <2>1 DEF Before, AtCopy, Live
  <2>3. Alone'
    BY <1>1, <1>2, <1>3, <2>1, <2>2 DEF Alone, Untouched, FreeTo, Rest, Copied, DoneIsDone, FilesInv
  <2> QED BY <1>5, <2>3 DEF Facts
<1>7. CASE at = K
  <2>1. ~Moves /\ at = Len(steps)
    BY <1>1, <1>7, StepsAre DEF FilesInv, FlowOk, Moves
  <2>2. Alone'
    BY <1>2, <1>3, <2>1 DEF Alone, Untouched, Before, FreeTo, Rest, AtRename, Copied, AtCopy, Live,
       DoneIsDone
  <2> QED BY <1>5, <2>2 DEF Facts
<1>8. CASE at > K
  BY <1>1, <1>8, StepsAre DEF FilesInv, FlowOk
<1> QED BY <1>4, <1>6, <1>7, <1>8

(* A step that begins has found its source, and its destination free.       *)
LEMMA BeginStep == ASSUME FilesInv, Begin PROVE Facts'
<1>1. /\ verdict = "running" /\ pc = "check" /\ UNCHANGED <<dirs, files, at, verdict, touched>>
      /\ pc' \in {"parents", "clear"} /\ ~Occupied
  BY DEF Begin, Running, Goes, notes
<1>2. UNCHANGED <<start, steps, K, move, last, Moves, Copies, Renaming>>
  BY MissionStays DEF Next
<1>3. UNCHANGED <<There, CopyTo>> /\ \A p : Whole(p)' <=> Whole(p)
  BY <1>1, <1>2 DEF There, CopyTo, Whole, IsFile
<1>4. Tree' /\ NothingOverwritten' /\ RefusalLeavesTheFiles'
  BY <1>1, <1>2 DEF Tree, NothingOverwritten, IsFile, RefusalLeavesTheFiles, FilesInv
<1>5. at = K /\ Moves /\ ~move.flag => ~Exists(move.to)
  BY <1>1, StepsAre DEF Occupied, TwoPaths, FilesInv, FlowOk, Moves
<1>6. at = K /\ Moves /\ ~move.flag => \A x \in There : ~Under(x, move.to)
  <2> HAVE at = K /\ Moves /\ ~move.flag
  <2>1. move.to \notin There
    BY <1>5 DEF Exists, There
  <2> QED BY <2>1, NothingUnder, PathsAre DEF FilesInv, Tree, There
<1>7. Unclaimed'
  <2> SUFFICES ASSUME Moves, ~move.flag, at = K
               PROVE  /\ move.to \notin dirs
                      /\ move.to \in DOMAIN start \ touched => Under(move.to, move.path)
    BY <1>1, <1>2 DEF Unclaimed
  <2> QED BY <1>5 DEF Exists, IsFile, NothingOverwritten, FilesInv
<1>8. Alone'
  <2>1. Before' => Before
    BY <1>1, <1>2 DEF Before, Live
  <2>2. Untouched => Untouched'
    BY <1>1, <1>2, <2>1 DEF Untouched
  <2>3. FreeTo'
    BY <1>1, <1>2, <1>3, <1>6, StepsAre DEF FreeTo, AtRename, FilesInv, FlowOk
  <2>4. Rest'
    BY <1>1 DEF Rest
  <2>5. AtCopy' => AtCopy
    BY <1>1, <1>2 DEF AtCopy, Live
  <2>6. Copied => Copied'
    BY <1>1, <1>2, <1>3, <2>5 DEF Copied, IsFile
  <2>7. DoneIsDone'
    BY <1>1 DEF DoneIsDone
  <2> QED BY <1>1, <2>2, <2>3, <2>4, <2>6, <2>7 DEF Alone, FilesInv
<1> QED BY <1>4, <1>7, <1>8 DEF Facts

(* Directories on the way to the destination take the place of no file.     *)
LEMMA ParentsStep == ASSUME FilesInv, MakeParents PROVE Facts'
<1>1. verdict = "running" /\ pc = "parents" /\ UNCHANGED <<files, at, touched>>
  BY DEF MakeParents, Running, Goes, Fails, notes
<1>2. UNCHANGED <<start, steps, K, move, last, Moves, Copies, Renaming>>
  BY MissionStays DEF Next
<1>3. at = K /\ step = move
  <2>1. step.skill \in {"copy", "move", "write"}
    BY <1>1 DEF FilesInv, FlowOk
  <2> QED BY <2>1, StepsAre DEF FilesInv, FlowOk
<1> DEFINE to == move.to
<1>4. to \in Path /\ to # <<>>
  BY <1>1, <1>3, PathsAre DEF FilesInv
<1>5. CASE ~CanMake(step.to)
  <2>1. UNCHANGED <<dirs, files, pc>> /\ verdict' = "io_error"
    BY <1>5 DEF MakeParents, Fails, notes
  <2> QED BY <1>1, <2>1, Stopping DEF Next
<1>6. CASE CanMake(step.to)
  <2>1. dirs' = dirs \cup Above(to) /\ pc' = "clear" /\ verdict' = "running"
    BY <1>1, <1>3, <1>6 DEF MakeParents, Goes
  <2>2. \A x \in Above(to) : ~Under(x, to) /\ x # to
    <3>1. ASSUME NEW x \in Above(to) PROVE ~Under(x, to) /\ x # to
      <4>1. x \in Path /\ Under(to, x) /\ x # to
        BY <1>4, AboveIs
      <4> QED BY <1>4, <4>1, UnderOrder
    <3> QED BY <3>1
  <2>3. Tree'
    <3>1. \A r \in Above(to) : r \notin DOMAIN files
      BY <1>3, <1>6 DEF CanMake, IsFile
    <3>2. IsTree(dirs \cup Above(to), DOMAIN files)
      BY <1>4, <3>1, TreeMake DEF FilesInv, Tree
    <3> QED BY <1>1, <2>1, <3>2 DEF Tree
  <2>4. NothingOverwritten' /\ RefusalLeavesTheFiles'
    BY <1>1, <1>2, <2>1 DEF NothingOverwritten, IsFile, RefusalLeavesTheFiles, FilesInv
  <2>5. Unclaimed'
    BY <1>1, <1>2, <1>3, <2>1, <2>2 DEF Unclaimed, FilesInv, Live
  <2>6. Untouched => Untouched'
    BY <1>1, <1>2, <2>1 DEF Untouched, Before, Live
  <2>7. FreeTo => FreeTo'
    BY <1>1, <1>2, <2>1, <2>2 DEF FreeTo, AtRename, Live, There
  <2>8. Rest' /\ Copied' /\ DoneIsDone'
    BY <1>1, <1>2, <1>3, <2>1, StepsAre DEF Rest, Copied, AtCopy, DoneIsDone, FilesInv, FlowOk
  <2>9. Alone'
    BY <1>1, <2>6, <2>7, <2>8 DEF Alone, FilesInv
  <2> QED BY <2>3, <2>4, <2>5, <2>9 DEF Facts
<1> QED BY <1>5, <1>6

(* Clearing the destination of a move or a rename.                          *)
LEMMA ClearStep == ASSUME FilesInv, Clear PROVE Facts'
<1>1. /\ verdict = "running" /\ verdict' = "running" /\ pc = "clear" /\ pc' = "put"
      /\ UNCHANGED <<at, touched>>
  BY DEF Clear, Running, Goes
<1>2. UNCHANGED <<start, steps, K, move, last, Moves, Copies, Renaming>>
  BY MissionStays DEF Next
<1> DEFINE to == step.to
           Clears == step.skill \in {"move", "rename"} /\ Exists(to) /\ step.flag
<1>3. to \in Path /\ to # <<>>
  BY <1>1, PathsAre DEF FilesInv
<1>4. CASE Clears
  <2>1. /\ dirs' = Kept(dirs, to) /\ DOMAIN files' = Kept(DOMAIN files, to)
        /\ \A q \in DOMAIN files' : files'[q] = files[q]
    BY <1>4 DEF Clear, Without, Kept
  <2>2. at = K /\ step = move /\ Renaming /\ ~Copies /\ move.flag
    BY <1>4, StepsAre DEF FilesInv, FlowOk, Renaming, Copies
  <2>3. Tree'
    BY <1>3, <2>1, TreeWithout DEF Tree, FilesInv
  <2>4. NothingOverwritten' /\ RefusalLeavesTheFiles' /\ Unclaimed'
    BY <1>1, <1>2, <2>2 DEF NothingOverwritten, RefusalLeavesTheFiles, Unclaimed
  <2>5. Untouched' /\ Copied' /\ DoneIsDone'
    <3>1. K \in Nat
      BY StepsAre DEF FilesInv, FlowOk
    <3>2. ~Before' /\ ~AtCopy'
      BY <1>1, <1>2, <2>2, <3>1 DEF Before, AtCopy
    <3> QED BY <1>1, <3>2 DEF Untouched, Copied, DoneIsDone
  <2>6. FreeTo'
    <3>1. \A x \in There' : ~Under(x, move.to)
      BY <2>1, <2>2 DEF There, Kept
    <3>2. FreeTo' <=> (AtRename' /\ pc' # "check" /\ (pc' = "put" \/ ~move.flag) =>
                         \A x \in There' : ~Under(x, move.to))
      BY <1>2 DEF FreeTo
    <3> QED BY <3>1, <3>2
  <2>7. Untouched => Rest'
    <3>1. Before
      BY <1>1, <2>2 DEF Before, Live
    <3> QED BY <1>2, <2>1, <2>2, <3>1 DEF Untouched, Rest, Whole, IsFile, Kept
  <2>8. Alone'
    BY <1>1, <2>5, <2>6, <2>7 DEF Alone, FilesInv
  <2> QED BY <2>3, <2>4, <2>8 DEF Facts
<1>5. CASE ~Clears
  <2>1. UNCHANGED <<dirs, files>>
    BY <1>5 DEF Clear, notes
  <2>2. UNCHANGED <<There, CopyTo>> /\ \A p : Whole(p)' <=> Whole(p)
    BY <1>2, <2>1 DEF There, CopyTo, Whole, IsFile
  <2>3. Tree' /\ NothingOverwritten' /\ RefusalLeavesTheFiles'
    BY <1>1, <1>2, <2>1 DEF Tree, NothingOverwritten, IsFile, RefusalLeavesTheFiles, FilesInv
  <2>4. Unclaimed'
    BY <1>1, <1>2, <2>1 DEF Unclaimed, Live, FilesInv
  <2>5. Untouched => Untouched'
    BY <1>1, <1>2, <2>1 DEF Untouched, Before, Live
  <2>6. FreeTo => FreeTo'
    <3> SUFFICES ASSUME FreeTo, AtRename PROVE \A x \in There : ~Under(x, move.to)
      BY <1>1, <1>2, <2>2 DEF FreeTo, AtRename, Live
    <3>1. at = K /\ step = move /\ Renaming
      BY StepsAre DEF AtRename, FilesInv, FlowOk
    <3>2. CASE ~move.flag
      BY <1>1, <3>2 DEF FreeTo
    <3>3. CASE move.flag
      <4>1. move.to \notin There /\ move.to \in Path
        BY <1>3, <1>5, <3>1, <3>3 DEF Exists, There, Renaming
      <4> QED BY <4>1, NothingUnder DEF FilesInv, Tree, There
    <3> QED BY <3>2, <3>3
  <2>7. Untouched => Rest'
    <3> SUFFICES ASSUME Untouched, AtRename PROVE \A p \in DOMAIN start : Whole(p)
      BY <1>1, <1>2, <2>2 DEF Rest, AtRename, Live
    <3> QED BY <1>1 DEF Untouched, Before, AtRename, Whole, IsFile
  <2>8. AtCopy' => AtCopy
    BY <1>1, <1>2 DEF AtCopy, Live
  <2>9. Copied => Copied'
    BY <1>1, <1>2, <2>1, <2>2, <2>8 DEF Copied, IsFile
  <2>10. DoneIsDone'
    BY <1>1 DEF DoneIsDone
  <2>11. Alone'
    BY <1>1, <2>5, <2>6, <2>7, <2>9, <2>10 DEF Alone, FilesInv
  <2> QED BY <2>3, <2>4, <2>11 DEF Facts
<1> QED BY <1>4, <1>5

(* The rename itself.                                                       *)
LEMMA ReplaceStep == ASSUME FilesInv, Replace PROVE Facts'
<1> DEFINE src == move.path
           to == move.to
<1>1. /\ verdict = "running" /\ pc = "put" /\ UNCHANGED touched
      /\ step.skill \in {"move", "rename"}
  BY DEF Replace, Running, StepDone, Fails
<1>2. UNCHANGED <<start, steps, K, move, last, Moves, Copies, Renaming>>
  BY MissionStays DEF Next
<1>3. at = K /\ step = move /\ Renaming /\ ~Copies /\ at = Len(steps)
  BY <1>1, StepsAre DEF FilesInv, FlowOk, Renaming, Copies
<1>4. src \in Path /\ to \in Path /\ src # <<>> /\ to # <<>>
  BY <1>1, <1>3, PathsAre DEF FilesInv
<1>5. CASE ~CanReplace(src, to)
  <2>1. UNCHANGED <<dirs, files, at, pc>> /\ verdict' = "io_error"
    BY <1>3, <1>5 DEF Replace, Fails, notes
  <2> QED BY <1>1, <2>1, Stopping DEF Next
<1>6. CASE CanReplace(src, to)
  <2>1. verdict' = "done"
    BY <1>3, <1>6, DoneMeans DEF Replace
  <2>2. RefusalLeavesTheFiles' /\ Unclaimed' /\ Untouched' /\ FreeTo' /\ Rest' /\ Copied'
    BY <2>1 DEF RefusalLeavesTheFiles, Unclaimed, Untouched, Before, FreeTo, Rest,
               AtRename,
       Copied, AtCopy, Live
  <2>3. touched = {} => /\ \A x \in There : ~Under(x, to)
                        /\ \A p \in DOMAIN start : Whole(p) \/ Under(p, to)
    BY <1>1, <1>3 DEF FilesInv, Alone, FreeTo, Rest, AtRename, Live
  <2>4. src \in There
    BY <1>6 DEF CanReplace, Exists, There
  <2>5. touched = {} => ~Under(src, to)
    BY <2>3, <2>4
  <2>6. CASE src = to
    <3>1. UNCHANGED <<dirs, files>>
      BY <1>3, <1>6, <2>6 DEF Replace, notes
    <3>2. touched # {}
      BY <1>4, <2>5, <2>6, UnderOrder
    <3>3. Tree' /\ NothingOverwritten' /\ Alone'
      BY <1>1, <1>2, <3>1, <3>2 DEF Tree, NothingOverwritten, IsFile, Alone, FilesInv
    <3> QED BY <2>2, <3>3 DEF Facts
  <2>7. CASE src # to
    <3> DEFINE E == DOMAIN files
    <3>1. Fits(dirs, E, src, to) /\ IsTree(dirs, E)
      BY <1>6, <2>7 DEF CanReplace, Exists, IsFile, Fits, FilesInv, Tree
    <3>2. Replaced(src, to)
      BY <1>3, <1>6, <2>7 DEF Replace
    <3>3. /\ dirs' = Kept(dirs, src) \cup Carried(dirs, src, to)
          /\ files' = [r \in (Kept(E, src) \ {to}) \cup Carried(E, src, to) |->
                         IF r \in Carried(E, src, to)
                           THEN files[src \o Below(r, to)] ELSE files[r]]
      <4>1. {r \in DOMAIN files : ~Under(r, src) /\ r # to} = Kept(E, src) \ {to}
        BY DEF Kept
      <4> QED BY <3>2, <4>1 DEF Replaced, Kept, Carried
    <3>4. DOMAIN files' = (Kept(E, src) \ {to}) \cup Carried(E, src, to)
      BY <3>3
    <3>5. Tree'
      BY <1>4, <2>7, <3>1, <3>3, <3>4, TreeReplaced DEF Tree
    <3>6. /\ ~Under(to, src)
          /\ src \in E => \A x \in dirs \cup E : Under(x, src) => x = src
      BY <1>4, <2>7, <3>1, FitsMeans
    <3>7. dirs \subseteq Path /\ E \subseteq Path
      BY DEF FilesInv, QueueStands
    <3>8. ASSUME NEW y \in Carried(E, src, to)
          PROVE  y \in Path /\ Under(y, to) /\ src \o Below(y, to) \in E
                 /\ Under(src \o Below(y, to), src)
      BY <1>4, <3>7, CarriedIs
    <3>9. NothingOverwritten'
      <4> SUFFICES ASSUME Moves, ~move.flag, NEW p \in DOMAIN start \ touched, ~Under(p, src)
                   PROVE  p \in DOMAIN files' /\ files'[p] = start[p]
        BY <1>1, <1>2 DEF NothingOverwritten, IsFile
      <4>1. p \in E /\ files[p] = start[p]
        BY DEF NothingOverwritten, IsFile, FilesInv
      <4>2. p # to
        BY <1>1, <1>3 DEF Unclaimed, FilesInv, Live
      <4>3. ASSUME p \in Carried(E, src, to) PROVE FALSE
        <5>1. p = to
          BY <1>4, <2>7, <3>1, <4>1, <4>3, LandsFree
        <5> QED BY <4>2, <5>1
      <4>4. p \in Kept(E, src) \ {to}
        BY <4>1, <4>2 DEF Kept
      <4> QED BY <3>3, <3>4, <4>1, <4>3, <4>4
    <3>10. touched = {} => DoneIsDone'
      <4> SUFFICES ASSUME touched = {} PROVE DoneIsDone'
        OBVIOUS
      <4>1. ASSUME NEW p \in DOMAIN start, p \in Path, Under(p, src)
            PROVE  /\ to \o Below(p, src) \in DOMAIN files'
                   /\ files'[to \o Below(p, src)] = start[p]
        <5>1. ASSUME Under(p, to) PROVE FALSE
          <6>1. Under(src, to) \/ Under(to, src)
            BY <1>4, <4>1, <5>1, UnderOrder
          <6> QED BY <2>5, <3>6, <6>1
        <5>2. p \in E /\ files[p] = start[p]
          BY <2>3, <5>1 DEF Whole, IsFile
        <5>3. to \o Below(p, src) \in Carried(E, src, to)
                /\ src \o Below(to \o Below(p, src), to) = p
          <6>1. PICK D, a, b : D = E /\ a = src /\ b = to
            OBVIOUS
          <6>2. a \in Path /\ b \in Path /\ D \subseteq Path /\ p \in D /\ Under(p, a)
            BY <1>4, <3>7, <4>1, <5>2, <6>1
          <6>3. Lands(D, a, b, p)
            BY <6>2, CarriedTo
          <6> QED BY <6>1, <6>3 DEF Lands
        <5>4. PICK y : y = to \o Below(p, src)
          OBVIOUS
        <5>5. files'[y] = files[src \o Below(y, to)] /\ y \in DOMAIN files'
          BY <3>3, <3>4, <5>3, <5>4
        <5> QED BY <5>2, <5>3, <5>4, <5>5
      <4>2. src \notin dirs' /\ src \notin DOMAIN files'
        <5>1. Under(src, src)
          BY <1>4, UnderOrder
        <5>2. src \notin Kept(dirs, src) /\ src \notin Kept(E, src)
          BY <5>1 DEF Kept
        <5>3. src \notin Carried(dirs, src, to) /\ src \notin Carried(E, src, to)
          BY <1>4, <2>5, <3>7, CarriedIs
        <5> QED BY <3>3, <3>4, <5>2, <5>3
      <4>3. DOMAIN start \subseteq Path
        BY DEF FilesInv, FlowOk
      <4>4. \A p \in DOMAIN start : Under(p, src) => Arrived(p)'
        <5> SUFFICES ASSUME NEW p \in DOMAIN start, Under(p, src) PROVE Arrived(p)'
          OBVIOUS
        <5> QED BY <1>2, <4>1, <4>3 DEF Arrived, IsFile
      <4> QED BY <1>2, <4>1, <4>2, <4>3, <4>4 DEF DoneIsDone, IsFile, Exists
    <3>11. Alone'
      BY <1>1, <2>2, <3>10 DEF Alone
    <3> QED BY <2>2, <3>5, <3>9, <3>11 DEF Facts
  <2> QED BY <2>6, <2>7
<1> QED BY <1>5, <1>6

(* What a copy or a write opens is emptied, and nothing else is touched.    *)
LEMMA OpenStep == ASSUME FilesInv, Open PROVE Facts'
<1> DEFINE src == move.path
           to == move.to
<1>1. /\ verdict = "running" /\ pc = "put" /\ UNCHANGED <<dirs, at, touched>>
      /\ step.skill \in {"copy", "write"}
  BY DEF Open, Running, Goes, Fails, notes
<1>2. UNCHANGED <<start, steps, K, move, last, Moves, Copies, Renaming>>
  BY MissionStays DEF Next
<1>3. /\ at = K /\ step = move /\ ~Renaming /\ (Moves <=> Copies)
      /\ (Copies <=> step.skill = "copy") /\ K \in Nat
  BY <1>1, StepsAre DEF FilesInv, FlowOk, Renaming, Copies
<1>4. /\ src \in Path /\ to \in Path /\ Target \in Path /\ Target # <<>>
      /\ Copies => Target = CopyTo
  BY <1>1, <1>3, PathsAre DEF FilesInv
<1> DEFINE Opens == /\ Openable(Target)
                    /\ step.skill = "copy" => IsFile(step.path) /\ Target # step.path
<1>5. CASE ~Opens
  <2>1. UNCHANGED <<dirs, files, at, pc>> /\ verdict' = "io_error"
    BY <1>5 DEF Open, Fails, notes
  <2> QED BY <1>1, <2>1, Stopping DEF Next
<1>6. CASE Opens
  <2>1. pc' = "fill" /\ verdict' = "running" /\ \E text : Put(Target, text)
    BY <1>1, <1>6 DEF Open, Goes
  <2>2. PICK text : Put(Target, text)
    BY <2>1
  <2>3. /\ DOMAIN files' = DOMAIN files \cup {Target}
        /\ \A q \in DOMAIN files : q # Target => files'[q] = files[q]
    BY <2>2 DEF Put
  <2>4. Tree'
    <3>1. Up(Target) \in dirs /\ Target \notin dirs
      BY <1>6 DEF Openable
    <3>2. IsTree(dirs, DOMAIN files \cup {Target})
      BY <1>4, <3>1, TreePut DEF FilesInv, Tree
    <3> QED BY <1>1, <2>3, <3>2 DEF Tree
  <2>5. RefusalLeavesTheFiles'
    BY <2>1 DEF RefusalLeavesTheFiles
  <2>6. Unclaimed'
    BY <1>1, <1>2, <2>1 DEF Unclaimed, FilesInv, Live
  <2>7. NothingOverwritten'
    <3> SUFFICES ASSUME Moves, ~move.flag, NEW p \in DOMAIN start \ touched, ~Under(p, src)
                 PROVE  p \in DOMAIN files' /\ files'[p] = start[p]
      BY <1>1, <1>2 DEF NothingOverwritten, IsFile
    <3>1. p \in DOMAIN files /\ files[p] = start[p]
      BY DEF NothingOverwritten, IsFile, FilesInv
    <3>2. to \notin dirs /\ p # to
      BY <1>1, <1>3 DEF Unclaimed, FilesInv, Live
    <3>3. p # Target
      BY <1>3, <1>4, <3>2 DEF CopyTo
    <3> QED BY <2>3, <3>1, <3>3
  <2>8. Untouched' /\ FreeTo' /\ Rest' /\ DoneIsDone'
    <3>1. ~Before' /\ ~AtRename'
      BY <1>1, <1>2, <1>3, <2>1 DEF Before, AtRename
    <3> QED BY <2>1, <3>1 DEF Untouched, FreeTo, Rest, DoneIsDone
  <2>9. Untouched => Copied'
    <3> SUFFICES ASSUME files = start, Copies
                 PROVE  /\ src \in DOMAIN start /\ Whole(src)'
                        /\ \A p \in DOMAIN start : Under(p, src) => p = src
                        /\ IsFile(CopyTo)' /\ CopyTo' # src
      <4>1. Untouched => files = start
        BY <1>1, <1>3 DEF Untouched, Before, Live
      <4>2. ~(at' > K')
        BY <1>1, <1>2, <1>3
      <4> QED BY <1>2, <4>1, <4>2 DEF Copied, AtCopy, Whole
    <3>1. src \in DOMAIN files /\ Target # src /\ CopyTo = Target
      BY <1>3, <1>4, <1>6 DEF IsFile
    <3>2. CopyTo' = CopyTo
      BY <1>1, <1>2 DEF CopyTo
    <3>3. \A p \in DOMAIN files : Under(p, src) => p = src
      <4>1. src \notin dirs
        BY <3>1 DEF FilesInv, Tree, IsTree
      <4> QED BY <1>4, <4>1, NothingUnder DEF FilesInv, Tree
    <3> QED BY <1>2, <2>3, <3>1, <3>2, <3>3 DEF Whole, IsFile
  <2>10. Alone'
    BY <1>1, <2>8, <2>9 DEF Alone, FilesInv
  <2> QED BY <2>4, <2>5, <2>6, <2>7, <2>10 DEF Facts
<1> QED BY <1>5, <1>6

(* What was opened is filled.                                               *)
LEMMA FillStep == ASSUME FilesInv, Fill PROVE Facts'
<1> DEFINE src == move.path
           to == move.to
<1>1. /\ verdict = "running" /\ pc = "fill" /\ UNCHANGED <<dirs, touched>>
      /\ step.skill \in {"copy", "write"}
  BY DEF Fill, Running, StepDone, Fails, FilesInv, FlowOk
<1>2. UNCHANGED <<start, steps, K, move, last, Moves, Copies, Renaming>>
  BY MissionStays DEF Next
<1>3. /\ at = K /\ step = move /\ ~Renaming /\ (Moves <=> Copies)
      /\ (Copies <=> step.skill = "copy") /\ K \in Nat /\ at \in Nat
      /\ (at # Len(steps) => Copies) /\ (Moves => src # <<>>)
  BY <1>1, StepsAre, PathsAre DEF FilesInv, FlowOk, Renaming, Copies
<1>4. /\ src \in Path /\ to \in Path /\ Target \in Path /\ Target # <<>>
      /\ Copies => Target = CopyTo
  BY <1>1, <1>3, PathsAre DEF FilesInv
<1>5. CASE ~IsFile(Target) /\ step.skill # "write"
  <2>1. UNCHANGED <<dirs, files, at, pc>> /\ verdict' = "io_error"
    BY <1>5 DEF Fill, Fails
  <2> QED BY <1>1, <2>1, Stopping DEF Next
<1>6. CASE IsFile(Target) \/ step.skill = "write"
  <2>1. /\ pc' = "check"
        /\ \/ at = Len(steps) /\ verdict' = "done" /\ at' = at
           \/ at # Len(steps) /\ verdict' = "running" /\ at' = at + 1
    BY <1>1, <1>6, DoneMeans DEF Fill
  <2>2. /\ DOMAIN files' = DOMAIN files
        /\ \A q \in DOMAIN files : q # Target => files'[q] = files[q]
        /\ IsFile(Target) => files'[Target] = files[Target] \cup Text
    BY <1>6 DEF Fill, Put, IsFile
  <2>3. Tree'
    BY <1>1, <2>2 DEF Tree, FilesInv
  <2>4. RefusalLeavesTheFiles' /\ Unclaimed' /\ FreeTo' /\ Rest'
    BY <2>1 DEF RefusalLeavesTheFiles, Unclaimed, FreeTo, Rest
  <2>5. NothingOverwritten'
    <3> SUFFICES ASSUME Moves, ~move.flag, NEW p \in DOMAIN start \ touched, ~Under(p, src)
                 PROVE  p \in DOMAIN files' /\ files'[p] = start[p]
      BY <1>1, <1>2 DEF NothingOverwritten, IsFile
    <3>1. p \in DOMAIN files /\ files[p] = start[p]
      BY DEF NothingOverwritten, IsFile, FilesInv
    <3>2. to \notin dirs /\ p # to
      BY <1>1, <1>3 DEF Unclaimed, FilesInv, Live
    <3>3. p # Target
      BY <1>3, <1>4, <3>2 DEF CopyTo
    <3> QED BY <2>2, <3>1, <3>3
  <2>6. ~Before'
    BY <1>2, <1>3, <2>1 DEF Before, Live
  <2>7. CASE ~Copies
    BY <1>2, <1>3, <2>1, <2>3, <2>4, <2>5, <2>6, <2>7 DEF Facts, Alone, Untouched, Copied, AtCopy,
       DoneIsDone
  <2>8. CASE Copies /\ touched = {}
    <3>1. /\ src \in DOMAIN start /\ Whole(src) /\ IsFile(CopyTo) /\ CopyTo # src
          /\ \A p \in DOMAIN start : Under(p, src) => p = src
      BY <1>1, <1>3, <2>8 DEF FilesInv, Alone, Copied, AtCopy, Live
    <3>2. CopyTo' = CopyTo /\ Target = CopyTo
      BY <1>1, <1>2, <1>4, <2>8 DEF CopyTo
    <3>3. Text = start[src]
      BY <1>3, <2>8, <3>1 DEF Text, Whole
    <3>4. Whole(src)' /\ IsFile(CopyTo)' /\ start[src] \subseteq files'[CopyTo]
      BY <1>2, <2>2, <3>1, <3>2, <3>3 DEF Whole, IsFile
    <3>5. Copied'
      <4>1. ~Off(src)
        BY <1>1, <1>3 DEF FilesInv, Chosen
      <4> QED BY <1>2, <3>1, <3>2, <3>4, <4>1 DEF Copied
    <3>6. DoneIsDone'
      <4> SUFFICES ASSUME verdict' = "done" PROVE DoneIsDone'
        BY DEF DoneIsDone
      <4>1. K = Len(steps) /\ move = last
        BY <1>3, <2>1, StepsAre DEF FilesInv, FlowOk, last
      <4>2. ASSUME NEW p, p = src PROVE Arrived(p)'
        <5>1. src \in DOMAIN files' /\ start'[src] \subseteq files'[src]
          BY <1>2, <3>1, <3>4 DEF Whole, IsFile
        <5> QED BY <4>2, <5>1 DEF Arrived, IsFile
      <4>3. to \o Below(src, src) = to
        <5>1. Below(src, src) = <<>>
          BY <1>4, UnderOrder, BelowIs
        <5> QED BY <1>4, <5>1, ConcatEmptySeq DEF Path
      <4>4. to \notin dirs => to \in DOMAIN files'
        BY <3>2, <3>4 DEF CopyTo, IsFile
      <4>5. \A p \in DOMAIN start : Under(p, src) => Arrived(p)'
        BY <3>1, <4>2
      <4>6. to \notin dirs' =>
              \A p \in DOMAIN start : Under(p, src) => to \o Below(p, src) \in DOMAIN files'
        BY <1>1, <3>1, <4>3, <4>4
      <4> QED BY <1>2, <2>8, <4>1, <4>5, <4>6 DEF DoneIsDone, Copies, IsFile
    <3> QED BY <2>3, <2>4, <2>5, <2>6, <3>5, <3>6 DEF Facts, Alone, Untouched
  <2>9. CASE touched # {}
    BY <1>1, <2>3, <2>4, <2>5, <2>9 DEF Facts, Alone
  <2> QED BY <2>7, <2>8, <2>9
<1> QED BY <1>5, <1>6

(* Of an organize job that copies, only what has been copied is deleted.    *)
LEMMA UnlinkStep == ASSUME FilesInv, Unlink PROVE Facts'
<1> DEFINE src == move.path
           to == move.to
<1>1. verdict = "running" /\ pc = "put" /\ step.skill = "delete" /\ UNCHANGED touched
  BY DEF Unlink, Running, StepDone, Fails
<1>2. UNCHANGED <<start, steps, K, move, last, Moves, Copies, Renaming>>
  BY MissionStays DEF Next
<1>3. /\ K \in Nat /\ at \in Nat /\ at = Len(steps)
      /\ \/ at = K /\ ~Moves /\ ~Renaming
         \/ /\ at > K /\ Moves /\ Copies /\ ~step.flag /\ step.path = src
            /\ move # last
  BY <1>1, StepsAre DEF FilesInv, FlowOk, Renaming, Copies, Moves
<1>4. step.path \in Path /\ src \in Path /\ to \in Path
  BY PathsAre DEF FilesInv
<1>5. CASE IsFile(step.path)
  <2>1. /\ dirs' = Kept(dirs, step.path) /\ DOMAIN files' = Kept(DOMAIN files, step.path)
        /\ \A q \in DOMAIN files' : files'[q] = files[q]
        /\ verdict' = "done"
    BY <1>3, <1>5, DoneMeans DEF Unlink, Without, Kept
  <2>2. Tree'
    BY <1>4, <2>1, TreeWithout DEF Tree, FilesInv
  <2>3. RefusalLeavesTheFiles' /\ Unclaimed' /\ Untouched' /\ FreeTo' /\ Rest' /\ Copied'
    BY <2>1 DEF RefusalLeavesTheFiles, Unclaimed, Untouched, Before, FreeTo, Rest,
               AtRename,
       Copied, AtCopy, Live
  <2>4. NothingOverwritten'
    BY <1>1, <1>2, <1>3, <2>1 DEF NothingOverwritten, IsFile, Kept, FilesInv
  <2>5. CASE ~Moves
    BY <1>2, <2>2, <2>3, <2>4, <2>5 DEF Facts, Alone, DoneIsDone
  <2>6. CASE Moves /\ touched = {}
    <3>1. at > K /\ Copies /\ step.path = src /\ move # last
      BY <1>3, <2>6
    <3>2. /\ src \in DOMAIN start /\ IsFile(CopyTo) /\ CopyTo # src
          /\ start[src] \subseteq files[CopyTo]
          /\ \A p \in DOMAIN start : Under(p, src) => p = src
      BY <1>1, <2>6, <3>1 DEF FilesInv, Alone, Copied, AtCopy, Live
    <3>3. \A x \in There : Under(x, src) => x = src
      <4>1. src \notin dirs
        BY <1>5, <3>1 DEF FilesInv, Tree, IsTree, IsFile
      <4> QED BY <1>4, <4>1, NothingUnder DEF FilesInv, Tree, There
    <3>4. CopyTo \in DOMAIN files' /\ start[src] \subseteq files'[CopyTo]
      BY <2>1, <3>1, <3>2, <3>3 DEF Kept, There, IsFile
    <3>5. dirs' = dirs
      BY <1>5, <2>1, <3>1, <3>3 DEF Kept, There, IsFile, FilesInv, Tree, IsTree
    <3>6. to \o Below(src, src) = to
      <4>1. Below(src, src) = <<>>
        BY <1>4, UnderOrder, BelowIs
      <4> QED BY <1>4, <4>1, ConcatEmptySeq DEF Path
    <3>7. CopyTo \in {src, to \o Below(src, src), to \o <<Base(src)>>}
      BY <3>6 DEF CopyTo
    <3>8. ASSUME NEW p, p = src PROVE Arrived(p)'
      <4>1. PICK q : q = CopyTo
        OBVIOUS
      <4>2. q \in DOMAIN files' /\ start'[p] \subseteq files'[q]
        BY <1>2, <3>4, <3>8, <4>1
      <4>3. q \in {p, to' \o Below(p, src'), to' \o <<Base(src')>>}
        BY <1>2, <3>7, <3>8, <4>1
      <4> QED BY <4>2, <4>3 DEF Arrived, IsFile
    <3>9. to \notin dirs' => to \in DOMAIN files'
      BY <3>4, <3>5 DEF CopyTo
    <3>10. src \notin dirs' /\ src \notin DOMAIN files'
      BY <1>4, <2>1, <3>1, UnderOrder DEF Kept
    <3>11. \A p \in DOMAIN start : Under(p, src) => Arrived(p)'
      BY <3>2, <3>8
    <3>12. to \notin dirs' =>
             \A p \in DOMAIN start : Under(p, src) => to \o Below(p, src) \in DOMAIN files'
      BY <3>2, <3>6, <3>9
    <3>13. DoneIsDone'
      BY <1>2, <3>1, <3>10, <3>11, <3>12 DEF DoneIsDone, Exists, IsFile, Copies
    <3> QED BY <2>2, <2>3, <2>4, <3>13 DEF Facts, Alone
  <2>7. CASE touched # {}
    BY <1>1, <2>2, <2>3, <2>4, <2>7 DEF Facts, Alone
  <2> QED BY <2>5, <2>6, <2>7
<1>6. CASE ~IsFile(step.path)
  <2>1. UNCHANGED <<dirs, files>>
    BY <1>6 DEF Unlink, notes
  <2>2. CASE ~step.flag
    <3>1. UNCHANGED <<at, pc>> /\ verdict' = "not_found"
      BY <1>6, <2>2 DEF Unlink, Fails
    <3>2. touched = {} => files = start
      <4> SUFFICES ASSUME touched = {} PROVE files = start
        OBVIOUS
      <4>1. CASE at = K /\ ~Renaming
        BY <1>1, <4>1 DEF FilesInv, Alone, Untouched, Before, Live
      <4>2. CASE at > K
        BY <1>1, <1>3, <1>6, <4>2 DEF FilesInv, Alone, Copied, AtCopy, Live, Whole
      <4> QED BY <1>3, <4>1, <4>2
    <3> QED BY <1>1, <2>1, <3>1, <3>2, Stopping DEF Next
  <2>3. CASE step.flag
    <3>1. verdict' = "done" /\ ~Moves
      BY <1>3, <1>6, <2>3, DoneMeans DEF Unlink
    <3> QED BY <1>1, <1>2, <2>1, <3>1 DEF Facts, Tree, Alone, Untouched, Before, FreeTo, Rest,
               AtRename,
            Copied, AtCopy, Live, DoneIsDone, Unclaimed, NothingOverwritten,
            RefusalLeavesTheFiles, FilesInv
  <2> QED BY <2>2, <2>3
<1> QED BY <1>5, <1>6

(* A directory that is made takes the place of no file.                     *)
LEMMA MkdirStep == ASSUME FilesInv, Mkdir PROVE Facts'
<1>1. /\ verdict = "running" /\ pc = "put" /\ step.skill = "mkdir" /\ UNCHANGED <<files, touched>>
  BY DEF Mkdir, Running, StepDone, Fails, notes
<1>2. UNCHANGED <<start, steps, K, move, last, Moves, Copies, Renaming>>
  BY MissionStays DEF Next
<1>3. /\ K \in Nat /\ at \in Nat
      /\ \/ at < K /\ at # Len(steps)
         \/ at = K /\ ~Moves /\ ~Renaming /\ at = Len(steps)
  BY <1>1, StepsAre DEF FilesInv, FlowOk, Renaming, Copies, Moves
<1>4. Before
  BY <1>1, <1>3 DEF Before, Live
<1> DEFINE p == step.path
           Makes == CanMake(p) /\ ~IsFile(p) /\ (step.flag \/ Up(p) \in dirs)
<1>5. CASE ~Makes
  <2>1. UNCHANGED <<dirs, at, pc>> /\ verdict' \in {"not_found", "io_error"}
    BY <1>5 DEF Mkdir, Fails, notes
  <2>2. touched = {} => files = start
    BY <1>4 DEF FilesInv, Alone, Untouched
  <2> QED BY <1>1, <2>1, <2>2, Stopping DEF Next
<1>6. CASE Makes
  <2>1. /\ dirs' = dirs \cup Above(p) \cup {p} /\ pc' = "check"
        /\ \/ at = Len(steps) /\ verdict' = "done" /\ at' = at
           \/ at # Len(steps) /\ verdict' = "running" /\ at' = at + 1
    BY <1>1, <1>6, DoneMeans DEF Mkdir
  <2>2. Tree'
    <3>1. p \in Path /\ p # <<>>
      BY <1>1, PathsAre DEF FilesInv
    <3>2. p \notin DOMAIN files /\ \A r \in Above(p) : r \notin DOMAIN files
      BY <1>6 DEF CanMake, IsFile
    <3>3. IsTree(dirs \cup Above(p) \cup {p}, DOMAIN files)
      BY <3>1, <3>2, TreeMake DEF FilesInv, Tree
    <3> QED BY <1>1, <2>1, <3>3 DEF Tree
  <2>3. RefusalLeavesTheFiles' /\ Unclaimed' /\ NothingOverwritten'
    BY <1>1, <1>2, <2>1 DEF RefusalLeavesTheFiles, Unclaimed, NothingOverwritten, IsFile,
       FilesInv
  <2>4. FreeTo' /\ Rest' /\ Copied' /\ DoneIsDone'
    <3>1. ~AtCopy'
      BY <1>2, <1>3, <2>1 DEF AtCopy, Live
    <3>2. verdict' = "done" => ~Moves'
      BY <1>2, <1>3, <2>1
    <3> QED BY <2>1, <3>1, <3>2 DEF FreeTo, Rest, Copied, DoneIsDone
  <2>5. Untouched => Untouched'
    BY <1>1, <1>2, <1>4 DEF Untouched
  <2>6. Alone'
    BY <1>1, <2>4, <2>5 DEF Alone, FilesInv
  <2> QED BY <2>2, <2>3, <2>6 DEF Facts
<1> QED BY <1>5, <1>6

(* The user changes one file, and only that.                                *)
LEMMA UserStep == ASSUME FilesInv, User PROVE Facts'
<1>1. /\ verdict = "running" /\ UNCHANGED <<at, pc, verdict>>
  BY DEF User, flow
<1>2. UNCHANGED <<start, steps, K, move, last, Moves, Copies, Renaming>>
  BY MissionStays DEF Next
<1>3. PICK p \in Paths :
        /\ touched' = touched \cup {p}
        /\ \/ IsFile(p) /\ Without(p)
           \/ Openable(p) /\ Put(p, {<<"user">>}) /\ UNCHANGED dirs
  BY DEF User
<1>4. p \in Path /\ p # <<>>
  <2>1. CASE p \in Short
    <3>1. PICK n \in Names : p = <<n>>
      BY <2>1 DEF Short
    <3> QED BY <3>1 DEF Path, Name
  <2>2. CASE p \in Deep
    <3>1. PICK m, n \in Names : p = <<m, n>>
      BY <2>2 DEF Deep
    <3> QED BY <3>1 DEF Path, Name
  <2> QED BY <2>1, <2>2 DEF Paths
<1>5. Alone' /\ RefusalLeavesTheFiles'
  BY <1>3 DEF Alone, RefusalLeavesTheFiles
<1>6. Tree' /\ dirs' \subseteq dirs
      /\ \A q \in DOMAIN files : q # p => q \in DOMAIN files' /\ files'[q] = files[q]
  <2>1. CASE IsFile(p) /\ Without(p)
    <3>1. /\ dirs' = Kept(dirs, p) /\ DOMAIN files' = Kept(DOMAIN files, p)
          /\ \A q \in DOMAIN files' : files'[q] = files[q]
      BY <2>1 DEF Without, Kept
    <3>2. p \notin dirs
      BY <2>1 DEF FilesInv, Tree, IsTree, IsFile
    <3>3. \A q \in DOMAIN files : Under(q, p) => q = p
      BY <1>4, <3>2, NothingUnder DEF FilesInv, Tree
    <3>4. IsTree(Kept(dirs, p), Kept(DOMAIN files, p))
      BY <1>4, TreeWithout DEF FilesInv, Tree
    <3> QED BY <3>1, <3>3, <3>4 DEF Tree, Kept
  <2>2. CASE Openable(p) /\ Put(p, {<<"user">>}) /\ UNCHANGED dirs
    <3>1. /\ DOMAIN files' = DOMAIN files \cup {p}
          /\ \A q \in DOMAIN files : q # p => files'[q] = files[q]
      BY <2>2 DEF Put
    <3>2. IsTree(dirs, DOMAIN files \cup {p})
      BY <1>4, <2>2, TreePut DEF Openable, FilesInv, Tree
    <3> QED BY <2>2, <3>1, <3>2 DEF Tree
  <2> QED BY <1>3, <2>1, <2>2
<1>7. NothingOverwritten'
  BY <1>2, <1>3, <1>6 DEF NothingOverwritten, IsFile, FilesInv
<1>8. Unclaimed'
  BY <1>1, <1>2, <1>3, <1>6 DEF Unclaimed, Live, FilesInv
<1> QED BY <1>5, <1>6, <1>7, <1>8 DEF Facts

(* Where control goes, whatever the files are.                              *)
LEMMA FlowOkStep ==
  ASSUME FileBounds, QueueStands, Chosen, FlowOk, [Next]_vars
  PROVE  FlowOk'
<1> DEFINE Verdicts == {"running", "done", "dead", "io_error", "not_found", "invalid_input",
                        "already_exists", "path_out_of_bounds", "path_blocked_scope"}
<1>1. UNCHANGED <<start, steps>>
  BY MissionStays
<1>2. (Shaped(steps) /\ DOMAIN start \subseteq Path)'
  BY <1>1 DEF FlowOk, Shaped
<1>3. MaxUser \in Nat /\ MaxFaults \in Nat
  BY DEF FileBounds
<1>4. ASSUME StepDone PROVE FlowOk'
  <2>1. pc' = "check" /\ verdict' \in Verdicts /\ UNCHANGED <<touched, faults>>
    BY <1>4 DEF StepDone, FlowOk
  <2> QED BY <1>2, <2>1 DEF FlowOk
<1>5. ASSUME NEW class \in Verdicts, Fails(class) PROVE FlowOk'
  <2>1. verdict' \in Verdicts /\ UNCHANGED <<at, pc, touched, faults, step>>
    BY <1>1, <1>5 DEF Fails, step
  <2> QED BY <1>2, <2>1 DEF FlowOk
<1>6. ASSUME NEW where \in {"parents", "clear", "put", "fill"}, Goes(where),
             step.skill \notin {"exists", "stat"},
             where = "parents" => step.skill \in {"copy", "move", "write"},
             where = "fill" => step.skill \in {"copy", "write"}
      PROVE  FlowOk'
  <2>1. pc' = where /\ UNCHANGED <<at, verdict, touched, faults, step>>
    BY <1>1, <1>6 DEF Goes, step
  <2> QED BY <1>2, <1>6, <2>1 DEF FlowOk
<1>7. pc # "check" => step.skill \notin {"exists", "stat"}
  BY DEF FlowOk
<1>8. CASE Refuse
  <2>1. \A p : Boundary(p) \in Verdicts
    BY DEF Boundary
  <2>2. \E class \in Verdicts : Fails(class)
    BY <1>8, <2>1 DEF Refuse
  <2> QED BY <1>5, <2>2
<1>9. CASE Answer
  BY <1>4, <1>9 DEF Answer
<1>10. CASE Begin
  BY <1>6, <1>10 DEF Begin
<1>11. CASE MakeParents
  BY <1>5, <1>6, <1>7, <1>11 DEF MakeParents, Running
<1>12. CASE Clear
  BY <1>6, <1>7, <1>12 DEF Clear, Running
<1>13. CASE Replace
  BY <1>4, <1>5, <1>13 DEF Replace
<1>14. CASE Open
  BY <1>5, <1>6, <1>7, <1>14 DEF Open, Running
<1>15. CASE Fill
  BY <1>4, <1>5, <1>15 DEF Fill
<1>16. CASE Unlink
  BY <1>4, <1>5, <1>16 DEF Unlink
<1>17. CASE Mkdir
  BY <1>4, <1>5, <1>17 DEF Mkdir
<1>18. CASE Fault
  <2>1. verdict' \in Verdicts /\ UNCHANGED <<at, pc, touched, step>> /\ faults' \in 0..MaxFaults
    BY <1>1, <1>3, <1>18 DEF Fault, step, FlowOk
  <2> QED BY <1>2, <2>1 DEF FlowOk
<1>19. CASE User
  <2>1. UNCHANGED <<at, pc, verdict, faults, step>>
    BY <1>1, <1>19 DEF User, flow, step
  <2>2. PICK p : touched' = touched \cup {p}
    BY <1>19 DEF User
  <2>3. IsFiniteSet(touched) /\ Cardinality(touched) \in Nat /\ Cardinality(touched) < MaxUser
    <3>1. Cardinality(touched) < MaxUser
        BY <1>19 DEF User
    <3>2. IsFiniteSet(touched)
      BY DEF FlowOk
    <3> QED BY <3>1, <3>2, FS_CardinalityType
  <2>4. IsFiniteSet(touched') /\ Cardinality(touched') <= MaxUser
    <3>1. /\ IsFiniteSet(touched \cup {p})
          /\ Cardinality(touched \cup {p}) =
               IF p \in touched THEN Cardinality(touched) ELSE Cardinality(touched) + 1
      BY <2>3, FS_AddElement
    <3> QED BY <1>3, <2>2, <2>3, <3>1
  <2> QED BY <1>2, <2>1, <2>4 DEF FlowOk
<1>20. CASE UNCHANGED vars
  <2>1. UNCHANGED <<at, pc, verdict, faults, touched, step>>
    BY <1>20 DEF vars, flow, given, step
  <2> QED BY <1>2, <2>1 DEF FlowOk
<1> QED BY <1>8, <1>9, <1>10, <1>11, <1>12, <1>13, <1>14, <1>15, <1>16, <1>17, <1>18, <1>19, <1>20
        DEF Next

(* The small trees a mission begins in.                                     *)
LEMMA TreesBegin == ASSUME FileBounds, Init, QueueStands PROVE Tree
<1>1. PICK ds \in SUBSET Short :
        /\ dirs = ds \cup {Root, QueueDir}
        /\ \E fs \in SUBSET ((Short \ ds) \cup Inside(ds)) :
             files = Texts(fs \cup {QueueJob})
  BY DEF Init
<1>2. PICK fs \in SUBSET ((Short \ ds) \cup Inside(ds)) :
        files = Texts(fs \cup {QueueJob})
  BY <1>1
<1>3. DOMAIN files = fs \cup {QueueJob}
  BY <1>2 DEF Texts
<1>4. \A n : Len(<<n>>) = 1 /\ Up(<<n>>) = <<>>
  <2> TAKE n
  <2>1. <<n>> \in Seq({n}) /\ Len(<<n>>) = 1
    OBVIOUS
  <2>2. SubSeq(<<n>>, 1, 0) = <<>>
    BY SubSeqEmpty
  <2> QED BY <2>1, <2>2 DEF Up
<1>5. \A m, n : Len(<<m, n>>) = 2 /\ Up(<<m, n>>) = <<m>>
  <2> TAKE m, n
  <2>1. <<m, n>> \in Seq({m, n}) /\ Len(<<m, n>>) = 2 /\ <<m, n>>[1] = m
    OBVIOUS
  <2>2. SubSeq(<<m, n>>, 1, 1) \in Seq({m, n}) /\ Len(SubSeq(<<m, n>>, 1, 1)) = 1
          /\ SubSeq(<<m, n>>, 1, 1)[1] = m
    <3>1. \A i \in 1..1 : <<m, n>>[i] \in {m, n}
      BY <2>1
    <3>2. /\ SubSeq(<<m, n>>, 1, 1) \in Seq({m, n})
          /\ Len(SubSeq(<<m, n>>, 1, 1)) = IF 1 <= 1 THEN 1 - 1 + 1 ELSE 0
          /\ \A i \in 1..(1 - 1 + 1) : SubSeq(<<m, n>>, 1, 1)[i] = <<m, n>>[1 + i - 1]
      BY <3>1, SubSeqProperties
    <3> QED BY <2>1, <3>2
  <2>3. <<m>> \in Seq({m, n}) /\ Len(<<m>>) = 1 /\ <<m>>[1] = m
    OBVIOUS
  <2>4. SubSeq(<<m, n>>, 1, 1) = <<m>>
    <3>1. PICK a, b : a = SubSeq(<<m, n>>, 1, 1) /\ b = <<m>>
      OBVIOUS
    <3>2. a \in Seq({m, n}) /\ b \in Seq({m, n}) /\ Len(a) = Len(b) /\ Len(a) = 1
      BY <2>2, <2>3, <3>1
    <3>3. \A i \in 1..Len(a) : a[i] = b[i]
      BY <2>2, <2>3, <3>1, <3>2
    <3>4. a = b
      BY <3>2, <3>3, SeqEqual
    <3> QED BY <3>1, <3>4
  <2> QED BY <2>1, <2>4 DEF Up
<1>6. \A p \in Short : \E n \in Names : p = <<n>>
  BY DEF Short
<1>7. ASSUME NEW p \in Inside(ds) PROVE Len(p) = 2 /\ Up(p) \in ds
  <2>1. PICK d \in ds, n \in Names : p = In(d, n)
    BY DEF Inside
  <2>2. PICK m \in Names : d = <<m>>
    BY <1>6
  <2>3. p = <<m>> \o <<n>> /\ <<m>> \in Path /\ <<n>> \in Path /\ <<n>> # <<>>
    BY <2>1, <2>2 DEF In, Path, Name
  <2>4. Len(p) = 2
    <3>1. Len(<<m>> \o <<n>>) = Len(<<m>>) + Len(<<n>>)
      BY <2>3, ConcatProperties DEF Path
    <3> QED BY <1>4, <2>3, <3>1
  <2>5. Up(p) = <<m>>
    <3>1. Up(<<m>> \o <<n>>) = <<m>> \o <<>>
      BY <1>4, <2>3, UpBelow
    <3> QED BY <2>3, <3>1, ConcatEmptySeq DEF Path
  <2> QED BY <2>2, <2>4, <2>5
<1>8. ASSUME NEW p \in (dirs \cup DOMAIN files) \ {<<>>} PROVE Up(p) \in dirs
  <2>1. CASE p \in Short \cup {QueueDir}
    BY <1>1, <1>4, <1>6, <2>1 DEF QueueDir, Root
  <2>2. CASE p \in Inside(ds)
    BY <1>1, <1>7, <2>2
  <2>3. CASE p = QueueJob
    BY <1>1, <1>5, <2>3 DEF QueueJob, QueueDir
  <2> QED BY <1>1, <1>3, <2>1, <2>2, <2>3 DEF Root
<1>9. dirs \cap DOMAIN files = {}
  <2> SUFFICES ASSUME NEW p \in dirs, p \in DOMAIN files PROVE FALSE
    OBVIOUS
  <2>1. Len(p) # 2 /\ p # QueueJob
    <3>1. \A q \in ds : Len(q) = 1
      BY <1>4, <1>6
    <3>2. Len(Root) = 0 /\ Len(QueueDir) = 1 /\ Len(QueueJob) = 2
      BY <1>4, <1>5 DEF Root, QueueDir, QueueJob
    <3> QED BY <1>1, <3>1, <3>2
  <2>2. p \in Short \ ds
    BY <1>3, <1>7, <2>1
  <2>3. p # QueueDir /\ p # Root
    <3>1. PICK n \in Names : p = <<n>>
      BY <1>6, <2>2
    <3>2. n # "queue"
      BY DEF FileBounds
    <3>3. <<n>>[1] = n /\ <<"queue">>[1] = "queue" /\ <<n>> # <<>>
      OBVIOUS
    <3>4. <<n>> # <<"queue">>
      BY <3>2, <3>3
    <3> QED BY <3>1, <3>3, <3>4 DEF QueueDir, Root
  <2> QED BY <1>1, <2>2, <2>3
<1> QED BY <1>8, <1>9 DEF Tree, IsTree, QueueStands

(* FilesInv holds at first, ...                                             *)
LEMMA FilesBegin == ASSUME FileBounds, Init PROVE FilesInv
<1>1. /\ files = start /\ steps \in Organizing \cup Single
      /\ at = 1 /\ pc = "check" /\ verdict = "running" /\ touched = {} /\ faults = 0
  BY DEF Init
<1>2. QueueStands /\ Chosen
  BY QueueInit
<1>3. Shaped(steps)
  BY <1>1, MissionsAreShaped
<1>4. FlowOk
  <2>1. IsFiniteSet({}) /\ Cardinality({}) = 0
    BY FS_EmptySet
  <2> QED BY <1>1, <1>2, <1>3, <2>1 DEF FileBounds, FlowOk, QueueStands
<1>5. K \in Nat /\ at <= K
  BY <1>1, <1>2, <1>3, StepsAre
<1>6. Alone /\ Unclaimed /\ RefusalLeavesTheFiles
  BY <1>1, <1>5 DEF Alone, Untouched, FreeTo, Rest, Copied, AtCopy, DoneIsDone, Unclaimed,
     RefusalLeavesTheFiles
<1>7. NothingOverwritten
  BY <1>1 DEF NothingOverwritten, IsFile
<1> QED BY <1>2, <1>4, <1>6, <1>7, TreesBegin DEF FilesInv

(* ... and every step keeps it.                                             *)
LEMMA FilesStep == ASSUME FileBounds, FilesInv, [Next]_vars PROVE FilesInv'
<1>1. QueueStands' /\ Chosen' /\ FlowOk'
  BY QueueStep, ChosenStep, FlowOkStep DEF FilesInv
<1>2. Facts'
  <2>1. CASE Refuse \/ Answer \/ Begin \/ MakeParents \/ Clear \/ Replace
    BY <2>1, RefuseStep, AnswerStep, BeginStep, ParentsStep, ClearStep, ReplaceStep
  <2>2. CASE Open \/ Fill \/ Unlink \/ Mkdir \/ User
    BY <2>2, OpenStep, FillStep, UnlinkStep, MkdirStep, UserStep
  <2>3. CASE Fault
    <3>1. /\ verdict = "running" /\ verdict' \in {"io_error", "dead"}
          /\ UNCHANGED <<dirs, files, at, pc, touched>>
      BY <2>3 DEF Fault, notes
    <3> QED BY <3>1, Stopping
  <2>4. CASE UNCHANGED vars
    <3>1. UNCHANGED <<dirs, files, start, steps, at, pc, verdict, touched>>
      BY <2>4 DEF vars, notes, flow, given
    <3>2. UNCHANGED <<K, move, last, Moves, Copies, Renaming>>
      BY MissionStays
    <3>3. UNCHANGED <<There, CopyTo, Live>> /\ \A p : Whole(p)' <=> Whole(p)
      BY <3>1, <3>2 DEF There, CopyTo, Whole, IsFile, Live
    <3>4. UNCHANGED <<Before, AtRename, AtCopy>>
      BY <3>1, <3>2, <3>3 DEF Before, AtRename, AtCopy
    <3>5. Untouched' /\ FreeTo' /\ Rest' /\ Copied' /\ DoneIsDone' <=>
            Untouched /\ FreeTo /\ Rest /\ Copied /\ DoneIsDone
      <4>1. (Untouched' <=> Untouched) /\ (FreeTo' <=> FreeTo) /\ (Rest' <=> Rest)
        BY <3>1, <3>2, <3>3, <3>4 DEF Untouched, FreeTo, Rest
      <4>2. Copied' <=> Copied
        BY <3>1, <3>2, <3>3, <3>4 DEF Copied, IsFile
      <4>3. DoneIsDone' <=> DoneIsDone
        BY <3>1, <3>2 DEF DoneIsDone, Arrived, IsFile, Exists
      <4> QED BY <4>1, <4>2, <4>3
    <3>6. Alone'
      BY <3>1, <3>5 DEF Alone, FilesInv
    <3>7. Tree' /\ Unclaimed' /\ NothingOverwritten' /\ RefusalLeavesTheFiles'
      BY <3>1, <3>2, <3>3 DEF Tree, Unclaimed, NothingOverwritten, RefusalLeavesTheFiles,
         IsFile, FilesInv
    <3> QED BY <3>6, <3>7 DEF Facts
  <2> QED BY <2>1, <2>2, <2>3, <2>4 DEF Next
<1> QED BY <1>1, <1>2 DEF FilesInv, Facts

(* What is not gone is what the invariant keeps track of: before its step   *)
(* all of the source, at a rename all that is not under the destination,    *)
(* and after it what has arrived.                                           *)
LEMMA SourceSurvives == FilesInv => OriginalSurvives
<1> SUFFICES ASSUME FilesInv, Moves, touched = {},
                    ~(move.skill # "copy" /\ move.flag /\ Overlapping),
                    NEW p \in DOMAIN start, Under(p, move.path)
             PROVE  Arrived(p)
  BY DEF OriginalSurvives
<1>1. /\ p \in Path /\ move.path \in Path /\ move.to \in Path /\ at \in Nat /\ K \in Nat
      /\ Copies \/ Renaming
  BY StepsAre, PathsAre DEF FilesInv, FlowOk
<1>2. Whole(p) => Arrived(p)
  BY DEF Whole, Arrived
<1>3. CASE ~Live
  BY <1>3 DEF FilesInv, Alone, DoneIsDone, Live
<1>4. CASE Before
  BY <1>2, <1>4 DEF FilesInv, Alone, Untouched, Whole, IsFile
<1>5. CASE AtRename /\ pc = "put"
  <2>1. Whole(p) \/ (move.flag /\ Under(p, move.to))
    BY <1>5 DEF FilesInv, Alone, Rest
  <2>2. ASSUME move.flag, Under(p, move.to) PROVE FALSE
    <3>1. Under(move.path, move.to) \/ Under(move.to, move.path)
      BY <1>1, <2>2, UnderOrder
    <3>2. move.skill # "copy"
      BY <1>5 DEF AtRename, Renaming
    <3> QED BY <2>2, <3>1, <3>2 DEF Overlapping
  <2> QED BY <1>2, <2>1, <2>2
<1>6. CASE AtCopy
  <2>1. Whole(move.path) \/ at > K
    BY <1>6 DEF FilesInv, Alone, Copied
  <2>2. p = move.path /\ Whole(move.path)
    BY <1>6 DEF FilesInv, Alone, Copied
  <2> QED BY <1>2, <2>2
<1>7. Live => Before \/ (AtRename /\ pc = "put") \/ AtCopy
  <2> SUFFICES ASSUME Live PROVE Before \/ (AtRename /\ pc = "put") \/ AtCopy
    OBVIOUS
  <2>1. CASE at < K
    BY <2>1 DEF Before
  <2>2. CASE at > K
    BY <2>2, StepsAre DEF AtCopy, FilesInv, FlowOk
  <2>3. CASE at = K
    <3>1. step = move /\ pc \in {"check", "parents", "clear", "put", "fill"}
          /\ (pc = "fill" => step.skill \in {"copy", "write"})
      BY <2>3, StepsAre DEF FilesInv, FlowOk
    <3>2. Renaming => move.skill \notin {"copy", "write"}
      BY DEF Renaming
    <3> QED BY <1>1, <2>3, <3>1, <3>2 DEF Before, AtRename, AtCopy
  <2> QED BY <1>1, <2>1, <2>2, <2>3
<1> QED BY <1>3, <1>4, <1>5, <1>6, <1>7

(* The trees stay trees, and nothing of what a mission copies, moves or     *)
(* finds in its way is lost, for any names, however often the user and the  *)
(* file system interfere.                                                   *)
THEOREM NoFileIsLost ==
  ASSUME FileBounds
  PROVE  Spec => [](TypeOK /\ OriginalSurvives /\ NothingOverwritten /\ RefusalLeavesTheFiles
                    /\ DoneIsDone)
<1>1. FilesInv => TypeOK
  <2> SUFFICES ASSUME FilesInv PROVE TypeOK
    OBVIOUS
  <2>1. dirs \cap DOMAIN files = {}
        /\ \A p \in (dirs \cup DOMAIN files) \ {Root} : Up(p) \in dirs
    BY DEF FilesInv, Tree, IsTree, Root
  <2>2. /\ at \in 1..Len(steps) /\ pc \in {"check", "parents", "clear", "put", "fill"}
        /\ verdict \in {"running", "done", "dead", "io_error", "not_found", "invalid_input",
                        "already_exists", "path_out_of_bounds", "path_blocked_scope"}
        /\ Cardinality(touched) <= MaxUser /\ faults \in 0..MaxFaults
    BY DEF FilesInv, FlowOk, Chosen
  <2> QED BY <2>1, <2>2 DEF TypeOK
<1>2. FilesInv => DoneIsDone
  BY DEF FilesInv, Alone, DoneIsDone
<1>3. FilesInv => NothingOverwritten /\ RefusalLeavesTheFiles
  BY DEF FilesInv
<1> QED BY <1>1, <1>2, <1>3, SourceSurvives, FilesBegin, FilesStep, PTL DEF Spec
=============================================================================
