------------------------------ MODULE Planner ------------------------------
(***************************************************************************)
(* plan_mission: how the text of a goal becomes the steps of a mission.    *)
(* Simple writes and reads are planned by rule; any other goal goes to the *)
(* configured brains, one tier after the other, and what comes back is     *)
(* checked and rewritten step by step.  The rewrites treat every step      *)
(* alike, so a reply has one step that is followed and a length.           *)
(***************************************************************************)
EXTENDS Naturals, Sequences, SequencesExt

CONSTANTS Tiers          \* the brains configured, in their order

VARIABLES goal,          \* what the goal's text asks for
          cloud,         \* privacy.cloud_allowed
          stage,         \* "start", "asking", "checking", "planned", "failed"
          asked,         \* the tiers asked so far
          errors,        \* one record for each that failed
          reply,         \* the payload of the tier that answered
          step           \* the step followed, as planned so far

vars == <<goal, cloud, stage, asked, errors, reply, step>>

(* byRule: planned without a brain; the three asks* are the planner's own  *)
(* reading of the goal (the rules know verbs that reading does not), and   *)
(* notesDir is "in the notes directory".                                   *)
Goals ==
    [byRule : {"no", "write", "read"}, asksWrite : BOOLEAN, asksRead : BOOLEAN,
     asksShell : BOOLEAN, notesDir : BOOLEAN, tooLong : BOOLEAN]

NoStep == [skill |-> "none", arg |-> "none", key |-> "right"]
Texts == {"write", "read"}

(* arg is what the step acts on, key the name the brain gave it.  fileop   *)
(* stands for the other tools on files: delete, move, copy, rename, mkdir  *)
(* and those that list and search.                                         *)
Steps ==
    [skill : Texts, arg : {"none", "safe", "placeholder", "outside"}, key : {"right", "wrong"}]
    \cup [skill : {"fileop"}, arg : {"safe", "outside"}, key : {"right", "wrong"}]
    \cup [skill : {"shell"}, arg : {"plain", "tooling", "empty"}, key : {"right", "alias", "wrong"}]
    \cup [skill : {"app"}, arg : {"listed", "unlisted"}, key : {"right", "wrong"}]
    \cup [skill : {"other", "unknown", "untyped"}, arg : {"none"}, key : {"right"}]

Replies == [keys : {"allowed", "extra"}, length : {"none", "few", "many"}, step : Steps]
NoReply == [keys |-> "none"]

(* What a tier raises: the type of the exception as far as it is looked    *)
(* at, what really happened, and the phrases its text has that are looked  *)
(* for: "too_many" is 429, "refused" a 401 or 403 on its own, "limited"    *)
(* "rate limit", "auth" the words that contain it and "forbidden",         *)
(* "timeout" also "deadline exceeded", "dns" the words about connections.  *)
Failure(kind, why, says) == [kind |-> kind, why |-> why, says |-> says]
Phrases ==
    {"timed_out", "timeout", "limited", "rate_limit", "too_many", "refused", "auth", "json",
     "non_json", "planner", "malformed_output", "decode", "dns"}

(* OpenAICompatBrain and httpx, GeminiBrain, and the planner itself, whose *)
(* own deadline takes the place of a TimeoutError.                         *)
Raised ==
    {Failure("slow", "time", {}), Failure("status", "time", {"timeout"}),
     Failure("status", "limit", {"too_many"}), Failure("denied", "auth", {"auth"}),
     Failure("status", "other", {}), Failure("decode", "garbled", {}),
     Failure("broken", "network", {}), Failure("other", "garbled", {}),
     Failure("other", "time", {"planner", "timed_out"}),
     Failure("other", "limit", {"limited", "too_many"}),
     Failure("other", "garbled", {"planner", "malformed_output"}),
     Failure("other", "network", {}), Failure("other", "network", {"dns"}),
     Failure("planner", "time", {"planner", "timed_out"}),
     Failure("planner", "garbled", {"planner", "json"})}

(* Two quote what they were sent: an answer that is no JSON, and the body  *)
(* of a refusal by Gemini.                                                 *)
Quoting(q) ==
    {Failure("planner", "garbled", {"planner", "json", "non_json"} \cup q),
     Failure("other", "auth", {"refused"} \cup q), Failure("other", "other", q)}
Failures == Raised \cup UNION {Quoting(q) : q \in {{}} \cup {{w} : w \in Phrases}}

Says(f, words) == f.says \cap words # {}

(* _classify_planner_error, for the failure message of the plan.           *)
PlannerClass(f) ==
    IF Says(f, {"timed_out"}) THEN "timeout"
    ELSE IF Says(f, {"limited", "too_many"}) THEN "rate_limit"
    ELSE IF \/ Says(f, {"non_json", "malformed_output"})
            \/ {"json", "planner"} \subseteq f.says THEN "malformed_json"
    ELSE IF f.kind = "planner" THEN "planner_error" ELSE "provider_error"

(* classify_fallback_reason, for health.json.  The status of an HTTP error *)
(* decides alone whether it is one of authorization.                       *)
FallbackReason(f) ==
    IF f.kind = "slow" \/ Says(f, {"timed_out", "timeout"}) THEN "TIMEOUT"
    ELSE IF Says(f, {"too_many", "limited", "rate_limit"}) THEN "RATE_LIMIT"
    ELSE IF f.kind = "denied" \/ (f.kind # "status" /\ Says(f, {"refused", "auth"})) THEN "AUTH"
    ELSE IF \/ f.kind = "decode"
            \/ Says(f, {"json", "non_json", "malformed_output", "decode"})
         THEN "MALFORMED"
    ELSE IF f.kind = "broken" \/ Says(f, {"dns"}) THEN "NETWORK" ELSE "UNKNOWN"

-----------------------------------------------------------------------------
(* What is done to a step *)

Clip == [skill |-> "clip", arg |-> "text", key |-> "right"]
At(s, arg) == [s EXCEPT !.arg = arg]

(* _normalize_step_args: an alias is renamed, a wrong key is taken for the *)
(* only parameter of a skill that has one, and dropped otherwise.          *)
Named(s) ==
    CASE s.key = "wrong" /\ s.skill \in {"read", "app"} -> [s EXCEPT !.key = "right"]
      [] s.key = "wrong" /\ s.skill \in {"write", "fileop"} -> [At(s, "none") EXCEPT !.key = "right"]
      [] s.key = "wrong" /\ s.skill = "shell" -> [At(s, "empty") EXCEPT !.key = "right"]
      [] OTHER -> [s EXCEPT !.key = "right"]

AskedWrites(s) == IF s.skill = "write" /\ ~goal.asksWrite THEN Clip ELSE s
AskedReads(s) == IF s.skill = "read" /\ ~goal.asksRead THEN Clip ELSE s
NotesDefault(s) ==
    IF s.skill = "write" /\ goal.notesDir /\ s.arg \in {"none", "placeholder"}
    THEN At(s, "default") ELSE s

(* _normalize_file_step_paths: a write outside the notes goes to the       *)
(* default note, a read outside them is not made; other tools on files are *)
(* left to what they check themselves (module FileSkills).                 *)
InNotes(s) ==
    IF s.skill \notin Texts \/ s.arg = "safe" THEN s
    ELSE IF s.skill = "write" THEN At(s, "default") ELSE Clip
AskedTools(s) == IF s.skill = "shell" /\ s.arg = "tooling" /\ ~goal.asksShell THEN Clip ELSE s

RewrittenNoReads(s) == AskedTools(InNotes(NotesDefault(AskedWrites(s))))
Rewritten(s) == AskedTools(InNotes(NotesDefault(AskedReads(AskedWrites(s)))))

(* The rewrites that raise, and the check against the capability snapshot. *)
Unusable(s) == s.skill = "shell" /\ s.arg = "empty"
Unlisted(s) == s.skill = "app" /\ s.arg = "unlisted"

-----------------------------------------------------------------------------
Init ==
    /\ goal \in Goals /\ cloud \in BOOLEAN
    /\ stage = "start" /\ asked = <<>> /\ errors = <<>>
    /\ reply = NoReply /\ step = NoStep

Goto(s) == stage' = s
Fails == Goto("failed") /\ UNCHANGED <<goal, cloud, asked, errors, reply, step>>

TooLong == stage = "start" /\ goal.tooLong /\ Fails

(* _extract_simple_write_args and its three companions, then the read.     *)
PlanByRule ==
    /\ stage = "start" /\ ~goal.tooLong /\ goal.byRule # "no"
    /\ Goto("planned")
    /\ step' = [skill |-> goal.byRule, arg |-> "safe", key |-> "right"]
    /\ UNCHANGED <<goal, cloud, asked, errors, reply>>

(* _build_brain_candidates raises when the cloud is not allowed or no      *)
(* brain is configured.                                                    *)
MayAsk == cloud /\ Tiers # <<>>
NeedsABrain == stage = "start" /\ ~goal.tooLong /\ goal.byRule = "no"
NoBrain == NeedsABrain /\ ~MayAsk /\ Fails
Candidates ==
    /\ NeedsABrain /\ MayAsk
    /\ Goto("asking")
    /\ UNCHANGED <<goal, cloud, asked, errors, reply, step>>

NextTier == Tiers[Len(errors) + 1]

(* Only an exception moves on to the next tier.                            *)
TierFails(f) ==
    /\ stage = "asking" /\ Len(errors) < Len(Tiers)
    /\ asked' = Append(asked, NextTier)
    /\ errors' = Append(errors, [tier |-> NextTier, class |-> PlannerClass(f),
                                 reason |-> FallbackReason(f), why |-> f.why,
                                 quotes |-> f \notin Raised])
    /\ UNCHANGED <<goal, cloud, stage, reply, step>>

TierAnswers(r) ==
    /\ stage = "asking" /\ Len(errors) < Len(Tiers)
    /\ asked' = Append(asked, NextTier)
    /\ reply' = r /\ step' = r.step
    /\ Goto("checking")
    /\ UNCHANGED <<goal, cloud, errors>>

AllFailed == stage = "asking" /\ Len(errors) = Len(Tiers) /\ Fails

(* What the answer is refused for, with no other tier asked.               *)
Refused ==
    \/ reply.keys = "extra" \/ reply.length # "few"
    \/ step.skill \in {"unknown", "untyped"}
Refuse == stage = "checking" /\ Refused /\ Fails

Accept ==
    /\ stage = "checking" /\ ~Refused
    /\ LET s == Rewritten(Named(step)) IN
       /\ step' = s
       /\ Goto(IF Unusable(s) \/ Unlisted(s) THEN "failed" ELSE "planned")
    /\ UNCHANGED <<goal, cloud, asked, errors, reply>>

Next ==
    \/ TooLong \/ PlanByRule \/ NoBrain \/ Candidates
    \/ \E f \in Failures : TierFails(f)
    \/ \E r \in Replies : TierAnswers(r)
    \/ AllFailed \/ Refuse \/ Accept

Spec == Init /\ [][Next]_vars

-----------------------------------------------------------------------------
(* A plan writes or reads text, and uses desktop or network tools in the   *)
(* sandbox, only when the goal asks for it, whatever the brain proposed    *)
(* and in whatever order the rewrites come.                                *)
OnlyWhatIsAsked ==
    stage = "planned" =>
        /\ step.skill = "write" => goal.asksWrite \/ goal.byRule = "write"
        /\ step.skill = "read" => goal.asksRead \/ goal.byRule = "read"
        /\ step.skill = "shell" /\ step.arg = "tooling" => goal.asksShell

(* Every text a plan writes or reads is one of the notes: in the notes     *)
(* directory, or the relative default the file skills resolve there.       *)
TextsAreNotes == stage = "planned" /\ step.skill \in Texts => step.arg \in {"safe", "default"}

(* With the cloud disallowed no brain sees the goal, and every tier is     *)
(* asked once, in its order, and only after all before it failed.          *)
AskedInOrder ==
    /\ asked # <<>> => cloud
    /\ IsPrefix(asked, Tiers)
    /\ Len(asked) \in {Len(errors), Len(errors) + 1}

(* The two classifiers read the same exception by different lists of words *)
(* and need not agree; but what the failure message of the plan has a name *)
(* for, health.json has that name for, or one it looks for earlier: never  *)
(* "unknown", nor a fault of the network.                                  *)
NamedInHealth ==
    \A i \in DOMAIN errors :
        /\ errors[i].class = "timeout" => errors[i].reason = "TIMEOUT"
        /\ errors[i].class = "rate_limit" => errors[i].reason \in {"TIMEOUT", "RATE_LIMIT"}
        /\ errors[i].class = "malformed_json" =>
              errors[i].reason \in {"TIMEOUT", "RATE_LIMIT", "AUTH", "MALFORMED"}

(* "ambiguous failures map to UNKNOWN rather than risk a wrong label": a   *)
(* failure that quotes nothing it was sent is in health.json what it was,  *)
(* or unknown.  (One that does may be labelled by any word of the          *)
(* quotation.)                                                             *)
TrueReason(why) ==
    CASE why = "time" -> "TIMEOUT"
      [] why = "limit" -> "RATE_LIMIT"
      [] why = "auth" -> "AUTH"
      [] why = "garbled" -> "MALFORMED"
      [] why = "network" -> "NETWORK"
      [] OTHER -> "UNKNOWN"
SureUnlessQuoting ==
    \A i \in DOMAIN errors :
        ~errors[i].quotes => errors[i].reason \in {"UNKNOWN", TrueReason(errors[i].why)}

(* Whatever the brains propose and in whatever order the rewrites come: a  *)
(* plan reads and writes text only when the goal asks for it, and then     *)
(* only notes; it uses shell tools only when the goal asks for it; each    *)
(* tier is asked once and in its order; a failure that the plan's message  *)
(* names is not an unknown one in health.json, and one that quotes nothing *)
(* is not a wrong one there.                                               *)
PlansStayInBounds ==
    OnlyWhatIsAsked /\ TextsAreNotes /\ AskedInOrder /\ NamedInHealth /\ SureUnlessQuoting
=============================================================================
