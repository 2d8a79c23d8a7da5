------------------------------ MODULE Hygiene -------------------------------
(***************************************************************************)
(* The tools that look over the whole queue directory, or clean it up,     *)
(* while jobs go on moving: queue prune, queue reconcile with and without  *)
(* --fix, and the lookup of one job.  None of them takes a lock; a job     *)
(* moves by several file operations, and so does a tool.                   *)
(***************************************************************************)
EXTENDS Naturals, Sequences, SequencesExt, FiniteSets

CONSTANTS Jobs,           \* numbered by the time of their submission
          MaxBack,        \* jobs sent back to the inbox
          MaxMoves,       \* moves, of all jobs together
          MaxTools        \* commands run

VARIABLES files,          \* every file about a job: its kind and directory
          helped,         \* jobs named inbox-<id>, as the helper names them
          ops,            \* per job, the file operations its mover has to do
          back,           \* jobs sent back to the inbox, retried or relocated
          moves,
          tool,           \* the command being run, and where it is
          found,          \* what it has listed
          stirred,        \* jobs that moved since it began
          snap,           \* the files when it began
          quarantined,    \* what reconcile --fix has put away since it began
          tools

jobs == <<files, ops, back, moves>>
cmd == <<tool, found, snap, quarantined, tools>>
vars == <<jobs, cmd, helped, stirred>>

Terminal == <<"done", "failed", "canceled">>
OrderTerminalFirst == Terminal \o <<"inbox", "pending">>
Order == <<"inbox", "pending">> \o Terminal
Buckets == {Order[i] : i \in DOMAIN Order}
Kinds == {"job", "state", "error", "approval", "marker"}   \* marker: .pending.json
File(j, kind, dir) == [job |-> j, kind |-> kind, dir |-> dir]
Sidecars == {"state", "error"}

At(j, dir) == File(j, "job", dir) \in files
Around(j) == {b \in Buckets : At(j, b)}
Named == Jobs \ helped                        \* job-*.json

-----------------------------------------------------------------------------
(* Jobs move *)

(* The operations on files a mover goes through.                           *)
Move(from, to) == <<[op |-> "move", kind |-> "job", from |-> from, to |-> to],
                    [op |-> "follow", kind |-> "state", from |-> from, to |-> to]>>
Make(kind, dir) == <<[op |-> "make", kind |-> kind, from |-> dir, to |-> dir]>>
Drop(kind, dir) == <<[op |-> "drop", kind |-> kind, from |-> dir, to |-> dir]>>
WriteState(dir) == <<[op |-> "write", kind |-> "state", from |-> dir, to |-> dir]>>
Unpark == Drop("marker", "pending") \o Drop("approval", "approvals")

NoTool == [cmd |-> "none", at |-> 0, keep |-> 0, cutoff |-> 0, job |-> 0]

Init ==
    /\ files = {File(j, "job", "inbox") : j \in Jobs} /\ helped \in SUBSET Jobs
    /\ ops = [j \in Jobs |-> <<>>]
    /\ back = {} /\ moves = 0 /\ tools = 0
    /\ tool = NoTool
    /\ found = <<>> /\ stirred = {} /\ snap = {} /\ quarantined = {}

Idle == tool.cmd = "none"
Over == Idle /\ tools = MaxTools          \* nothing more to see
Rests(j) == ops[j] = <<>>
(* One job is moved at a time: a bound, for movers share no file.          *)
Sets(j, plan) ==
    /\ \A k \in Jobs : Rests(k)
    /\ moves < MaxMoves /\ moves' = moves + 1
    /\ ops' = [ops EXCEPT ![j] = plan]
    /\ stirred' = stirred \cup {j}
    /\ UNCHANGED <<files, cmd, helped>>

(* The daemon parks a job or ends it, from the inbox or, on approval, from *)
(* pending.                                                                *)
Park(j, from) ==
    /\ Rests(j) /\ At(j, from)
    /\ Sets(j, WriteState(from) \o (IF from = "inbox" THEN Move(from, "pending") ELSE <<>>)
               \o Make("approval", "approvals") \o Make("marker", "pending") \o WriteState("pending"))
    /\ UNCHANGED back

(* The hard gate parks a job as well, and leaves it without a marker.      *)
Gate(j) ==
    /\ Rests(j) /\ At(j, "inbox")
    /\ LET parked == File(j, "approval", "approvals") \in files IN
       Sets(j, WriteState("inbox") \o Move("inbox", "pending")
               \o (IF parked THEN <<>> ELSE Make("approval", "approvals"))
               \o Drop("marker", "pending")
               \o (IF parked THEN <<>> ELSE WriteState("pending")))
    /\ UNCHANGED back

(* _auto_relocate_misplaced_pending_jobs, at every tick: a job in pending  *)
(* without a marker goes back to the inbox.                                *)
Relocate(j) ==
    /\ Rests(j) /\ At(j, "pending") /\ File(j, "marker", "pending") \notin files
    /\ Cardinality(back) < MaxBack
    /\ back' = back \cup {j}
    /\ Sets(j, Move("pending", "inbox"))

End(j, from, to) ==
    /\ Rests(j) /\ At(j, from)
    /\ Sets(j, WriteState(from) \o Move(from, to)
               \o (IF to = "failed" THEN Make("error", "failed") ELSE <<>>) \o WriteState(to)
               \o (IF from = "pending" THEN Unpark ELSE <<>>))
    /\ UNCHANGED back

Cancel(j, from) ==
    /\ Rests(j) /\ At(j, from)
    /\ Sets(j, Move(from, "canceled") \o Unpark \o Drop("error", "failed") \o WriteState("canceled"))
    /\ UNCHANGED back

Retry(j, from) ==
    /\ Rests(j) /\ At(j, from) /\ Cardinality(back) < MaxBack
    /\ back' = back \cup {j}
    /\ Sets(j, (IF from = "failed" THEN Drop("error", "failed") ELSE <<>>) \o Move(from, "inbox"))

(* delete_terminal_job forgets the state sidecar.                          *)
Delete(j, from) ==
    /\ Rests(j) /\ At(j, from)
    /\ Sets(j, Drop("job", from) \o (IF from = "failed" THEN Drop("error", "failed") ELSE <<>>)
               \o Unpark)
    /\ UNCHANGED back

(* One operation: a job that is no longer there ends the command; a state  *)
(* follows if it is there, and is written where one is found first.        *)
StateAt(j) == SelectInSeq(Order, LAMBDA b : File(j, "state", b) \in files)
Operate(j) ==
    LET o == Head(ops[j])
        it == File(j, o.kind, o.from)
    IN
    /\ ~Rests(j)
    /\ ops' = [ops EXCEPT ![j] = IF o.op = "move" /\ it \notin files THEN <<>> ELSE Tail(@)]
    /\ files' = CASE o.op \in {"move", "follow"} ->
                       IF it \in files THEN (files \ {it}) \cup {File(j, o.kind, o.to)} ELSE files
                  [] o.op = "drop" -> files \ {it}
                  [] o.op = "make" -> files \cup {it}
                  [] OTHER -> files \cup {IF StateAt(j) = 0 THEN it ELSE File(j, "state", Order[StateAt(j)])}
    /\ stirred' = stirred \cup {j}
    /\ UNCHANGED <<back, moves, cmd, helped>>

-----------------------------------------------------------------------------
(* A command begins *)

Begins(name, keep, cutoff, job, list) ==
    /\ Idle /\ tools < MaxTools
    /\ tools' = tools + 1
    /\ tool' = [cmd |-> name, at |-> 1, keep |-> keep, cutoff |-> cutoff, job |-> job]
    /\ found' = list /\ snap' = files /\ quarantined' = {}
    /\ stirred' = {j \in Jobs : ~Rests(j)}
    /\ UNCHANGED <<jobs, helped>>

(* keep is --max-count; the jobs up to cutoff are past --max-age-days.     *)
Prune(keep, cutoff) == Begins("prune", keep, cutoff, 0, <<>>)
Report == Begins("report", 0, 0, 0, {})
Lookup(j) == Begins("lookup", 0, 0, j, {})
Fix == Begins("scan", 0, 0, 0, {})

Works(name) == tool.cmd = name
Goes(next) == tool' = next /\ UNCHANGED <<jobs, helped, stirred, snap, tools>>
Finish(name) == Goes([tool EXCEPT !.cmd = name, !.at = 0])

(* Each bucket in turn, in the order a job goes through them.              *)
Look ==
    /\ tool.cmd \in {"report", "lookup"} /\ tool.at \in DOMAIN Order
    /\ found' = found \cup {j \in IF Works("report") THEN Named ELSE {tool.job} : At(j, Order[tool.at])}
    /\ Goes([tool EXCEPT !.at = @ + 1]) /\ UNCHANGED <<quarantined, files>>

(* lookup_job looks once more for a job that has an approval: in pending   *)
(* if it is there, or else in the inbox.                                   *)
Sought == File(tool.job, "approval", "approvals") \in files /\ found = {}
Past == tool.at \notin DOMAIN Order
LookAgain ==
    /\ Works("lookup") /\ Past /\ Sought
    /\ Goes([tool EXCEPT !.cmd = "again"]) /\ UNCHANGED <<found, quarantined, files>>
Prefer ==
    /\ Works("again")
    /\ Goes([tool EXCEPT !.cmd = IF At(tool.job, "pending") THEN "in_pending" ELSE "in_inbox"])
    /\ UNCHANGED <<found, quarantined, files>>
Confirm ==
    /\ tool.cmd \in {"in_pending", "in_inbox"}
    /\ found' = found \cup {j \in {tool.job} : At(j, IF Works("in_pending") THEN "pending" ELSE "inbox")}
    /\ Finish("looked_up") /\ UNCHANGED <<quarantined, files>>

Looked ==
    /\ Past
    /\ \/ Works("report") /\ Finish("reported")
       \/ Works("lookup") /\ ~Sought /\ Finish("looked_up")
    /\ UNCHANGED <<found, quarantined, files>>

-----------------------------------------------------------------------------
(* queue prune, one bucket after the other *)

Listed(b) == {j \in Named : At(j, b)}
Newer(S, j) == {k \in S : k > j}
Selected(S) == {j \in S : j <= tool.cutoff \/ Cardinality(Newer(S, j)) >= tool.keep}

(* list_jobs_in_bucket and select_union_prune: the newest first, each with *)
(* the sidecars it has at that moment.                                     *)
EntryOfErrors(j, b) ==
    <<File(j, "job", b)>> \o SelectSeq(<<File(j, "error", b)>>, LAMBDA f : f \in files)
Entry(j, b) ==
    <<File(j, "job", b)>>
    \o SelectSeq(<<File(j, "error", b), File(j, "state", b)>>, LAMBDA f : f \in files)
ListBucket ==
    /\ Works("prune") /\ found = <<>> /\ tool.at \in DOMAIN Terminal
    /\ LET b == Terminal[tool.at]
           gone == SetToSortSeq(Selected(Listed(b)), LAMBDA j, k : j > k)
       IN found' = FlattenSeq([i \in DOMAIN gone |-> Entry(gone[i], b)])
    /\ Goes([tool EXCEPT !.at = @ + 1]) /\ UNCHANGED <<quarantined, files>>

(* safe_delete_entry: what is already gone counts as deleted.              *)
DeleteEntry ==
    /\ Works("prune") /\ found # <<>>
    /\ files' = files \ {Head(found)}
    /\ found' = Tail(found)
    /\ UNCHANGED <<ops, back, moves, tool, snap, quarantined, tools, helped, stirred>>

Pruned ==
    /\ Works("prune") /\ found = <<>> /\ tool.at \notin DOMAIN Terminal
    /\ Finish("pruned") /\ UNCHANGED <<found, quarantined, files>>

-----------------------------------------------------------------------------
(* queue reconcile --fix: sidecars of each terminal bucket, then approvals *)

Scanned == Append(Terminal, "approvals")
SidecarsIn(b) == {f \in files : f.dir = b /\ f.kind \in Sidecars \cup {"approval"}}
Orphan(f) == ~At(f.job, IF f.kind = "approval" THEN "pending" ELSE f.dir)

(* Each file of the listing is looked at for itself: is there a job beside *)
(* it.                                                                     *)
ScanBucket ==
    /\ Works("scan") /\ tool.at \in DOMAIN Scanned
    /\ found' = found \cup {f \in SidecarsIn(Scanned[tool.at]) : Orphan(f)}
    /\ Goes([tool EXCEPT !.at = @ + 1]) /\ UNCHANGED <<quarantined, files>>

FixBegins ==
    /\ Works("scan") /\ tool.at \notin DOMAIN Scanned
    /\ Goes([tool EXCEPT !.cmd = "fix"]) /\ UNCHANGED <<found, quarantined, files>>

(* quarantine_reconcile_fixes moves what it found if it is still there; it *)
(* does not look again whether it is still alone.                          *)
Quarantine ==
    /\ Works("fix") /\ found # {}
    /\ \E f \in found :
         /\ found' = found \ {f}
         /\ files' = files \ {f}
         /\ quarantined' = quarantined \cup ({f} \cap files)
    /\ UNCHANGED <<ops, back, moves, tool, snap, tools, helped, stirred>>

Fixed ==
    /\ Works("fix") /\ found = {}
    /\ Finish("fixed") /\ UNCHANGED <<found, quarantined, files>>

(* The command has printed its result.                                     *)
Return ==
    /\ tool.cmd \in {"reported", "looked_up", "pruned", "fixed"}
    /\ tool' = NoTool
    /\ found' = <<>> /\ stirred' = {} /\ snap' = {} /\ quarantined' = {}
    /\ UNCHANGED <<jobs, helped, tools>>

-----------------------------------------------------------------------------
Moves(j) == ~Over /\
    \/ Gate(j) \/ Relocate(j) \/ Operate(j)
    \/ \E from \in {"inbox", "pending"} : Park(j, from)
    \/ \E from \in {"inbox", "pending"} :
         Cancel(j, from) \/ \E to \in {"done", "failed"} : End(j, from, to)
    \/ \E from \in {"done", "failed", "canceled"} : Delete(j, from)
    \/ \E from \in {"failed", "canceled"} : Retry(j, from)

Next ==
    \/ \E j \in Jobs : Moves(j) \/ Lookup(j)
    \/ \E keep \in 1..Cardinality(Jobs), cutoff \in {0} \cup {j \in Jobs : Newer(Jobs, j) # {}} : Prune(keep, cutoff)
    \/ Report \/ Fix \/ Look \/ LookAgain \/ Prefer \/ Confirm \/ Looked \/ ListBucket \/ DeleteEntry \/ Pruned
    \/ ScanBucket \/ FixBegins \/ Quarantine \/ Fixed \/ Return

Spec == Init /\ [][Next]_vars
-----------------------------------------------------------------------------
(* The types, and that a job is in one place: a rename moves it whole.     *)
TypeOK ==
    /\ files \subseteq [job : Jobs, kind : Kinds, dir : Buckets \cup {"approvals"}]
    /\ back \subseteq Jobs /\ stirred \subseteq Jobs
    /\ tool.cmd \in {"none", "prune", "pruned", "report", "reported", "lookup", "again",
                     "in_pending", "in_inbox", "looked_up", "scan", "fix", "fixed"}
    /\ quarantined \subseteq [job : Jobs, kind : Sidecars \cup {"approval"}, dir : STRING]
    /\ tools \in 0..MaxTools /\ moves \in 0..MaxMoves
    /\ \A j \in Jobs : Cardinality(Around(j)) <= 1

Lonely(S, f) == File(f.job, "job", IF f.kind = "approval" THEN "pending" ELSE f.dir) \notin S

(* reconcile --fix never takes a file from a job that stays where it is:   *)
(* what it puts away of a job that did not move meanwhile was an orphan    *)
(* when it began.  (Of a job that does move, a state sidecar between its   *)
(* two renames, or one written anew since the scan, may go.)               *)
RestingJobsKeepTheirFiles ==
    \A f \in quarantined : f.job \notin stirred => f \in snap /\ Lonely(snap, f)

(* What --fix leaves is clean, if nothing moved meanwhile: in particular   *)
(* the state sidecars that deleting a job leaves behind are all found.     *)
CleanAfterFix ==
    Works("fixed") /\ stirred = {} =>
        \A f \in files : f.kind = "approval" \/ f.dir \in Range(Terminal) => ~Lonely(files, f)

(* A prune takes a resting job with all its sidecars or leaves it all.     *)
FilesOf(S, j) == {f \in S : f.job = j /\ f.dir \in Buckets /\ f.kind \in Sidecars \cup {"job"}}
PrunedWhole ==
    Works("pruned") =>
        \A j \in Jobs \ stirred :
            (\E b \in Buckets : File(j, "job", b) \in snap) =>
                FilesOf(files, j) \in {{}, FilesOf(snap, j)}

(* The newest of a bucket that are not too old survive a prune, whatever   *)
(* moves into or out of the bucket while it works.                         *)
NewestStay ==
    Works("pruned") =>
        \A b \in Range(Terminal), j \in Jobs \ stirred :
            /\ File(j, "job", b) \in snap /\ j > tool.cutoff
            /\ Cardinality({k \in Newer(Jobs, j) : File(k, "job", b) \in snap \/ k \in stirred}) < tool.keep
            => At(j, b)

(* A lookup and a report see every job that was there when they began and  *)
(* is there when they end, however it moved on meanwhile: only one sent    *)
(* back to the inbox, by a retry or by the daemon's relocation of a job    *)
(* that waits without a marker, can slip past.  In particular no other     *)
(* job's artifacts are reported as orphans.                                *)
SeenOrSentBack ==
    tool.cmd \in {"looked_up", "reported"} =>
        \A j \in IF Works("reported") THEN Named ELSE {tool.job} :
            (\E b \in Buckets : File(j, "job", b) \in snap) /\ Around(j) # {} =>
                j \in found \/ (j \in back /\ j \in stirred)
=============================================================================
