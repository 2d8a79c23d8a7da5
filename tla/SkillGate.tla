----------------------------- MODULE SkillGate ------------------------------
(***************************************************************************)
(* What stands between a planned step and its effect: the registry that    *)
(* admits a manifest, the dry run, the capability checks and the policy,   *)
(* the operator's answer and the grants, and the runner that starts the    *)
(* skill.  The manifest and the policy are files that an upgrade or the    *)
(* operator may change while a step waits; every process reads both once.  *)
(***************************************************************************)
EXTENDS Naturals, Sequences, SequencesExt, FiniteSets

CONSTANT MaxEdits         \* changes to manifest or policy while a step waits

VARIABLES manifest,       \* the skill's manifest.yml
          policy,         \* the operator's policy, by policy field
          mine,           \* the two as the running process loaded them
          phase,
          args,           \* the step's arguments
          dryrun,         \* what the dry run of this process said
          basis,          \* why the step was let through
          grants,         \* grants.json
          asked,          \* the manifests an operator said yes to
          edits

vars == <<manifest, policy, mine, phase, args, dryrun, basis, grants, asked, edits>>

Decisions == {"allow", "ask", "deny"}
(* CAPABILITY_SEMANTICS, one capability of each kind; "bogus" is not in it. *)
Known == {"files.read", "files.write", "settings", "network"}
PolicyFields == {"settings", "network"}
Effect(c) == IF c = "files.read" THEN "read" ELSE "write"
Caps(m) == {m.caps[i] : i \in DOMAIN m.caps}

Manifests ==
    [caps : SeqOf(Known \cup {"bogus"}, 2), risk : {"low", "high"}, mode : {"local", "sandbox"},
     net : BOOLEAN, fs : {"read_only", "workspace_only", "broader"}]
Policies == [PolicyFields -> Decisions]
Args == {"plain", "net", "net_false", "net_one", "bad_argv"}

-----------------------------------------------------------------------------
(* The registry: manifests that are invalid stop every skill, incomplete   *)
(* ones are left out.                                                      *)
NetworkNamed(m) == "network" \in Caps(m)
InvalidByScope(m) ==
    \/ m.mode = "sandbox" /\ m.fs = "broader"
    \/ m.fs = "read_only" /\ "files.write" \in Caps(m)
Invalid(m) ==
    \/ "bogus" \in Caps(m)
    \/ InvalidByScope(m)
    \/ NetworkNamed(m) /\ ~m.net
Incomplete(m) == m.caps = <<>>

(* normalize_manifest_capabilities                                         *)
SideEffectClass(m) ==
    IF m.risk = "high" \/ m.fs = "broader" \/ m.net THEN "class_c"
    ELSE IF \E c \in Caps(m) \cap Known : Effect(c) = "write" THEN "class_b" ELSE "class_a"

(* decide: the strictest answer of the capabilities, and reasons to ask    *)
(* that only raise an "allow".                                             *)
CapDecision(c, pol) == IF c \in PolicyFields THEN pol[c] ELSE IF c \in Known THEN "allow" ELSE "ask"
TouchesNetwork(m) == NetworkNamed(m) \/ m.net
Truthy(a) == a \in {"net", "net_false", "net_one"}
AskAnyway(m, a) ==
    TouchesNetwork(m) \/ m.fs = "broader" \/ m.risk = "high" \/ (m.mode = "sandbox" /\ Truthy(a))
DecideLast(m, pol, a) ==
    LET said == IF m.caps = <<>> THEN "allow" ELSE CapDecision(m.caps[Len(m.caps)], pol)
    IN IF said = "allow" /\ AskAnyway(m, a) THEN "ask" ELSE said
Decide(m, pol, a) ==
    LET said == {CapDecision(c, pol) : c \in Caps(m)}
    IN IF "deny" \in said THEN "deny"
       ELSE IF "ask" \in said \/ AskAnyway(m, a) THEN "ask" ELSE "allow"

(* _enforce_runtime_capabilities adds what the dry run does not look at.   *)
Ambiguous(m) == Cardinality(Caps(m)) # Len(m.caps)
OverBoundary(m, a) == ~m.net /\ a = "net"
Enforce(m, pol, a) ==
    IF Incomplete(m) \/ ~(Caps(m) \subseteq Known) \/ Ambiguous(m) \/ OverBoundary(m, a)
      THEN "deny" ELSE Decide(m, pol, a)

(* The scope a grant is given for and looked up by, and the capability the *)
(* prompt names: the first of the manifest, whichever one asked.           *)
Scope(m) == [cap |-> IF m.caps = <<>> THEN "unknown" ELSE m.caps[1], fs |-> m.fs, net |-> m.net]

(* The sandbox reads the argument a third way.                             *)
Refuses(m, a) == m.mode = "sandbox" /\ a \in {"net_one", "bad_argv"}
Unexpected(m, a) == m.mode = "local" /\ Truthy(a)
HasNetwork(m, a) == m.mode = "sandbox" /\ a = "net"

-----------------------------------------------------------------------------
none == [m |-> [caps |-> <<>>], pol |-> <<>>]
disk == <<manifest, policy, edits>>

Init ==
    /\ manifest \in Manifests /\ policy \in Policies
    /\ mine = none /\ phase = "idle" /\ args = "plain" /\ dryrun = "none" /\ basis = "none"
    /\ grants = {} /\ asked = {} /\ edits = 0

(* A daemon or a command starts: SkillRegistry.discover and load_config.   *)
Load(from, ready) ==
    /\ phase = from
    /\ mine' = [m |-> manifest, pol |-> policy]
    /\ phase' = IF Invalid(manifest) THEN "refused" ELSE IF Incomplete(manifest) THEN "unknown" ELSE ready
    /\ args' = "plain" /\ dryrun' = "none" /\ basis' = "none"
    /\ UNCHANGED <<disk, grants, asked>>
Start == Load("idle", "planned")

Plan(a) ==
    /\ phase = "planned"
    /\ args' = a /\ phase' = "ready"
    /\ UNCHANGED <<disk, mine, dryrun, basis, grants, asked>>

SimulateUnasked == dryrun' = IF Decide(mine.m, mine.pol, "plain") = "allow" THEN "allow" ELSE "ask"
SimulatedDecision == dryrun' = Decide(mine.m, mine.pol, args)
Simulate ==
    /\ phase = "ready" /\ dryrun = "none"
    /\ SimulatedDecision
    /\ UNCHANGED <<disk, mine, phase, args, basis, grants, asked>>

Through(why) ==
    /\ phase' = "let_through" /\ basis' = why
    /\ UNCHANGED <<disk, mine, args, dryrun, grants, asked>>
Stops(at) == phase' = at /\ UNCHANGED <<disk, mine, args, dryrun, basis, grants, asked>>

(* SkillRunner.run in the queue: enforcement, then whatever answers the    *)
(* prompt, an approval of this very step before grants and the automatic   *)
(* approval of settings in development.                                    *)
verdict == Enforce(mine.m, mine.pol, args)
Ready == phase \in {"ready", "resumed"}
Deny == Ready /\ verdict = "deny" /\ Stops("denied")
Allow == Ready /\ verdict = "allow" /\ Through("allow")
Approved == phase = "resumed" /\ verdict = "ask" /\ Through("approved")
Granted == phase = "ready" /\ verdict = "ask" /\ Scope(mine.m) \in grants /\ Through("grant")
Ungranted == phase = "ready" /\ verdict = "ask" /\ Scope(mine.m) \notin grants
AutoApproved == Ungranted /\ mine.m.caps[1] = "settings" /\ Through("auto")
Park == Ungranted /\ Stops("pending")

(* The command line runs a read-only skill directly and asks at the        *)
(* terminal.                                                               *)
ReadOnly(m) == m.caps # <<>> /\ \A c \in Caps(m) : c \in Known /\ Effect(c) = "read"
Direct(yes) ==
    /\ phase = "ready" /\ ReadOnly(mine.m) /\ verdict # "deny"
    /\ IF verdict = "ask"
         THEN /\ phase' = (IF yes THEN "let_through" ELSE "rejected") /\ basis' = (IF yes THEN "approved" ELSE basis)
              /\ asked' = asked \cup IF yes THEN {mine.m} ELSE {}
         ELSE yes /\ phase' = "let_through" /\ basis' = "allow" /\ UNCHANGED asked
    /\ UNCHANGED <<disk, mine, args, dryrun, grants>>

(* While the step waits the skill may be upgraded or the policy edited.    *)
Edit ==
    /\ phase = "pending" \/ (phase = "done" /\ grants # {})
    /\ edits < MaxEdits
    /\ edits' = edits + 1
    /\ \/ \E f \in PolicyFields, d \in Decisions : policy' = [policy EXCEPT ![f] = d] /\ UNCHANGED manifest
       \/ \E m \in {[manifest EXCEPT !.net = ~@], [manifest EXCEPT !.fs = "broader"],
                    [manifest EXCEPT !.caps = <<"network">>, !.net = TRUE]} :
            manifest' = m /\ UNCHANGED policy
    /\ disk' # disk
    /\ UNCHANGED <<mine, phase, args, dryrun, basis, grants, asked>>

(* Approving, for once or for always, is a command: it loads both files    *)
(* anew and resumes the step it was shown.                                 *)
Approve(always) ==
    /\ phase = "pending"
    /\ asked' = asked \cup {mine.m}
    /\ grants' = grants \cup IF always THEN {Scope(mine.m)} ELSE {}
    /\ mine' = [m |-> manifest, pol |-> policy] /\ dryrun' = "none"
    /\ phase' = IF Invalid(manifest) THEN "refused" ELSE IF Incomplete(manifest) THEN "unknown" ELSE "resumed"
    /\ UNCHANGED <<disk, args, basis>>

Run ==
    /\ phase = "let_through"
    /\ Stops(IF Refuses(mine.m, args) THEN "blocked" ELSE IF Unexpected(mine.m, args) THEN "errored" ELSE "done")

(* The next job of the same skill, by a daemon that has been restarted;    *)
(* without a grant it is like the first.                                   *)
Again == grants # {} /\ Load("done", "planned")

Next ==
    \/ Start \/ \E a \in Args : Plan(a)
    \/ Simulate \/ Deny \/ Allow \/ Approved \/ Granted \/ AutoApproved \/ Park
    \/ \E yes \in BOOLEAN : Direct(yes)
    \/ Edit \/ \E always \in BOOLEAN : Approve(always)
    \/ Run \/ Again

Spec == Init /\ [][Next]_vars

-----------------------------------------------------------------------------
Runs == phase \in {"let_through", "done", "blocked", "errored"}

(* The types; and no process works with a manifest the registry refused.   *)
TypeOK ==
    /\ phase \in {"idle", "planned", "ready", "pending", "resumed", "let_through", "refused",
                  "unknown", "denied", "rejected", "blocked", "errored", "done"}
    /\ basis \in {"none", "allow", "approved", "grant", "auto"} /\ dryrun \in {"none"} \cup Decisions
    /\ edits \in 0..MaxEdits
    /\ phase \in {"planned", "ready", "resumed"} \/ Runs =>
         ~Invalid(mine.m) /\ ~Incomplete(mine.m)

(* A capability the operator denied never acts, in whatever order the      *)
(* manifest names it, and whatever was approved or granted before.         *)
DeniedNeverRuns == Runs => \A c \in Caps(mine.m) \cap PolicyFields : mine.pol[c] # "deny"

(* Three readers of one argument agree: a sandboxed command gets a network *)
(* only if its manifest declares one and somebody was asked for that skill *)
(* in that scope.                                                          *)
NetworkIsDeclaredAndAsked ==
    Runs /\ HasNetwork(mine.m, args)
    => mine.m.net /\ (basis \in {"approved", "grant"} \/ mine.m.caps[1] = "settings")

(* The class of side effects shown to operators and the policy are two     *)
(* tables: nothing of class C ever runs without a question.                *)
ClassCIsAsked == Runs /\ basis = "allow" => SideEffectClass(mine.m) # "class_c"

(* A grant lets a step through only in the scope an operator was shown: a  *)
(* skill that has since been given the network, or more of the file        *)
(* system, asks again.                                                     *)
GrantsKeepTheirScope ==
    basis = "grant" /\ Runs => \E s \in asked : s.fs = mine.m.fs /\ s.net = mine.m.net

(* Nothing runs that was denied, and nothing that must be asked for runs   *)
(* unasked: not with the network, not with side effects of class C, and    *)
(* not by a grant that was given in another scope, however manifests and   *)
(* policies change while a step waits.                                     *)
NothingUnasked ==
    /\ TypeOK /\ DeniedNeverRuns /\ NetworkIsDeclaredAndAsked
    /\ ClassCIsAsked /\ GrantsKeepTheirScope

(* What a dry run called blocked does not run in that process, and what it *)
(* called safe does not stop to ask.                                       *)
DryRunIsHonest ==
    [][/\ dryrun = "deny" => phase' # "let_through"
       /\ dryrun = "allow" => phase' # "pending"]_vars
=============================================================================
