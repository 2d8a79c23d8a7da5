------------------------------- MODULE Speech -------------------------------
(***************************************************************************)
(* The local speech backends and the runtime config they are chosen by:    *)
(* one shared backend per process, built under a lock and kept until the   *)
(* flags of a call ask for another, whose model the first call loads under *)
(* a lock of its own.  Speaking and listening are written alike; side says *)
(* which one it is.                                                        *)
(***************************************************************************)
EXTENDS Naturals, Sequences, FiniteSets

CONSTANTS Threads,        \* of the panel or the web process
          Writers,        \* commands and requests that save options
          MaxCalls,       \* calls of a backend, of all threads together
          MaxSaves,
          MaxTokens,      \* _MAX_TTS_REGISTRY_ENTRIES
          Ttl, MaxTime    \* life of a token; the clock's last value

VARIABLES side,           \* "stt" or "tts"
          config,         \* the runtime config
          saving,         \* per writer, what it is saving
          saves,          \* saves begun
          wanted,         \* history: the config with each finished save applied
          overlapped,     \* history: two saves have overlapped
          at, flags, mine, \* per thread: where it is, its flags, its backend
          answer,         \* per thread, the status of its last call
          cache,          \* the shared backend and its key
          cacheLock,
          built,          \* the backends built so far
          audio,          \* temporary audio files, by call
          registry,       \* the tokens a browser may fetch speech by
          lost,           \* history: speech nobody waited for any more
          now,
          calls, call     \* calls made; the number of each thread's call

configs == <<config, saving, saves, wanted, overlapped>>
threads == <<at, flags, mine, answer, calls, call>>
shared == <<cache, cacheLock, built>>
files == <<audio, registry, lost, now>>
vars == <<side, configs, threads, shared, files>>

Nobody == "nobody"
(* An unknown backend is served like none.                                 *)
Configs == [on : BOOLEAN, backend : {"none", "local"}, model : {"none", "small"}]

(* A form names the fields it submits; "none" clears one.                  *)
Forms == UNION {[fs -> {"none", "local", "small"}] : fs \in SUBSET {"backend", "model"}}
Listed(form) ==
    /\ "backend" \in DOMAIN form => form["backend"] # "small"
    /\ "model" \in DOMAIN form => form["model"] # "local"

Init ==
    /\ side \in {"stt", "tts"}
    /\ config \in Configs /\ wanted = config /\ overlapped = FALSE
    /\ saving = [w \in Writers |-> [at |-> "idle"]] /\ saves = 0
    /\ at = [t \in Threads |-> "idle"] /\ flags = [t \in Threads |-> config]
    /\ mine = [t \in Threads |-> 0] /\ answer = [t \in Threads |-> "none"]
    /\ cache = 0 /\ cacheLock = Nobody /\ built = <<>>
    /\ audio = {} /\ registry = {} /\ lost = {} /\ now = 0 /\ calls = 0 /\ call = [t \in Threads |-> 0]

-----------------------------------------------------------------------------
(* voice_options_save and update_runtime_config: read, merge, replace.     *)

Idle(w) == saving[w].at = "idle"
BeginSave(w, form) ==
    /\ Idle(w) /\ saves < MaxSaves /\ Listed(form) /\ DOMAIN form # {}
    /\ saves' = saves + 1
    /\ saving' = [saving EXCEPT ![w] = [at |-> "read", form |-> form, copy |-> config]]
    /\ overlapped' = (overlapped \/ \E v \in Writers \ {w} : ~Idle(v))
    /\ UNCHANGED <<side, config, wanted, threads, shared, files>>

Merged(old, form) == [f \in DOMAIN old |-> IF f \in DOMAIN form THEN form[f] ELSE old[f]]

(* The temporary file has a name of its own and replaces the config whole; *)
(* a write that fails removes it.                                          *)
Replace(w) ==
    /\ saving[w].at = "read"
    /\ config' = Merged(saving[w].copy, saving[w].form)
    /\ wanted' = [f \in DOMAIN wanted |->
                    IF f \in DOMAIN saving[w].form THEN saving[w].form[f] ELSE wanted[f]]
    /\ saving' = [saving EXCEPT ![w] = [at |-> "idle"]]
    /\ UNCHANGED <<side, saves, overlapped, threads, shared, files>>

SaveFails(w) ==
    /\ saving[w].at = "read"
    /\ saving' = [saving EXCEPT ![w] = [at |-> "idle"]]
    /\ UNCHANGED <<side, config, wanted, saves, overlapped, threads, shared, files>>

-----------------------------------------------------------------------------
(* The shared backend *)

KeyByBackend(fl) == <<fl.on, fl.backend>>
Key(fl) == <<fl.on, fl.backend, fl.model>>
Null(b) == ~b.flags.on \/ b.flags.backend # "local"

Goes(t, where) == at' = [at EXCEPT ![t] = where]
Ask(t) ==
    /\ at[t] = "idle" /\ calls < MaxCalls
    /\ calls' = calls + 1 /\ call' = [call EXCEPT ![t] = calls']
    /\ flags' = [flags EXCEPT ![t] = config]
    /\ answer' = [answer EXCEPT ![t] = "none"]
    /\ Goes(t, "asking")
    /\ UNCHANGED <<side, configs, mine, shared, files>>

CacheIsFree(t) == cacheLock = Nobody
Lock(t) ==
    /\ at[t] = "asking" /\ CacheIsFree(t)
    /\ cacheLock' = t
    /\ Goes(t, "looking")
    /\ UNCHANGED <<side, configs, flags, mine, answer, calls, call, cache, built, files>>

Hit(t) == cache # 0 /\ Key(built[cache].flags) = Key(flags[t])
Share(t) ==
    /\ at[t] = "looking" /\ Hit(t)
    /\ mine' = [mine EXCEPT ![t] = cache] /\ cacheLock' = Nobody
    /\ Goes(t, "have")
    /\ UNCHANGED <<side, configs, flags, answer, calls, call, cache, built, files>>

Miss(t) ==
    /\ at[t] = "looking" /\ ~Hit(t)
    /\ Goes(t, "building")
    /\ UNCHANGED <<side, configs, flags, mine, answer, calls, call, shared, files>>

(* build_stt_backend, build_tts_backend: the constructor loads nothing.    *)
Build(t) ==
    /\ at[t] = "building"
    /\ built' = Append(built, [flags |-> flags[t], model |-> "absent", lock |-> Nobody])
    /\ cache' = Len(built') /\ mine' = [mine EXCEPT ![t] = Len(built')] /\ cacheLock' = Nobody
    /\ Goes(t, "have")
    /\ UNCHANGED <<side, configs, flags, answer, calls, call, files>>

-----------------------------------------------------------------------------
(* One call: transcribe_stt_request, synthesize_tts_request                *)

Mine(t) == built[mine[t]]
Answers(t, status) ==
    /\ answer' = [answer EXCEPT ![t] = status] /\ Goes(t, "idle")
    /\ UNCHANGED <<side, configs, flags, mine, calls, call>>

Unavailable(t) ==
    /\ at[t] = "have" /\ Null(Mine(t))
    /\ Answers(t, "unavailable") /\ UNCHANGED <<shared, files>>

(* A library or voice file that is not installed, a format or a source the *)
(* backend does not serve, a recording that is not there.                  *)
Cannot(t, status) ==
    /\ at[t] = "have" /\ ~Null(Mine(t))
    /\ Answers(t, status) /\ UNCHANGED <<shared, files>>

Loaded(t) == Mine(t).model = "loaded"
Fast(t) ==
    /\ at[t] = "have" /\ ~Null(Mine(t)) /\ Loaded(t)
    /\ Goes(t, "ready")
    /\ UNCHANGED <<side, configs, flags, mine, answer, calls, call, shared, files>>

Enter(t) ==
    /\ at[t] = "have" /\ ~Null(Mine(t)) /\ ~Loaded(t)
    /\ Goes(t, "waiting")
    /\ UNCHANGED <<side, configs, flags, mine, answer, calls, call, shared, files>>

LoadLock(t) ==
    /\ at[t] = "waiting" /\ Mine(t).lock = Nobody
    /\ built' = [built EXCEPT ![mine[t]].lock = t]
    /\ Goes(t, "checking")
    /\ UNCHANGED <<side, configs, flags, mine, answer, calls, call, cache, cacheLock, files>>

(* Double-checked: somebody may have loaded it while this thread waited.   *)
LoadedMeanwhile(t) == Loaded(t)
FoundLoaded(t) ==
    /\ at[t] = "checking" /\ LoadedMeanwhile(t)
    /\ built' = [built EXCEPT ![mine[t]].lock = Nobody]
    /\ Goes(t, "ready")
    /\ UNCHANGED <<side, configs, flags, mine, answer, calls, call, cache, cacheLock, files>>

BeginLoad(t) ==
    /\ at[t] = "checking" /\ ~LoadedMeanwhile(t)
    /\ Goes(t, "loading")
    /\ UNCHANGED <<side, configs, flags, mine, answer, calls, call, shared, files>>

EndLoad(t) ==
    /\ at[t] = "loading"
    /\ built' = [built EXCEPT ![mine[t]] = [@ EXCEPT !.lock = Nobody, !.model = "loaded"]]
    /\ Goes(t, "ready")
    /\ UNCHANGED <<side, configs, flags, mine, answer, calls, call, cache, cacheLock, files>>

(* The lock is let go of and nothing kept: the next call loads again.      *)
AfterFailure(b) == [b EXCEPT !.lock = Nobody]
LoadFails(t) ==
    /\ at[t] = "loading"
    /\ built' = [built EXCEPT ![mine[t]] = AfterFailure(@)]
    /\ Answers(t, "failed") /\ UNCHANGED <<cache, cacheLock, files>>

(* Speech goes to a temporary file, a recording that is no wav is turned   *)
(* into one; whisper reads it as it is.                                    *)
MakeFile(t) ==
    /\ at[t] = "ready"
    /\ audio' = audio \cup {call[t]}
    /\ Goes(t, "working")
    /\ UNCHANGED <<side, configs, flags, mine, answer, calls, call, shared, registry, lost, now>>

ReadAsIs(t) ==
    /\ at[t] = "ready" /\ side = "stt"
    /\ Goes(t, "working")
    /\ UNCHANGED <<side, configs, flags, mine, answer, calls, call, shared, files>>

(* What comes out: speech or a transcript, nothing, or an exception.       *)
DroppedIfRaised(t, out) == IF out = "raised" THEN audio \ {call[t]} ELSE audio
Dropped(t, out) ==
    IF out = "good" /\ side = "tts" THEN audio ELSE audio \ {call[t]}
Work(t, out) ==
    /\ at[t] = "working"
    /\ audio' = Dropped(t, out)
    /\ UNCHANGED <<registry, lost, now, shared>>
    /\ IF out = "good" /\ side = "tts"
         THEN Goes(t, "spoken") /\ UNCHANGED <<side, configs, flags, mine, answer, calls, call>>
         ELSE Answers(t, IF out = "good" THEN "succeeded" ELSE "failed")

(* _register_tts_audio: what has expired goes, and the oldest if there is  *)
(* no room; their files with them.                                         *)
Expired == {e \in registry : e.until <= now}
OldestOf(S) == {e \in S : \A f \in S : e.until < f.until \/ (e.until = f.until /\ e.call <= f.call)}
Evicted == LET live == registry \ Expired IN IF Cardinality(live) >= MaxTokens THEN OldestOf(live) ELSE {}
Register(t) ==
    /\ at[t] = "spoken"
    /\ LET gone == Expired \cup Evicted IN
       /\ registry' = (registry \ gone) \cup {[call |-> call[t], until |-> now + Ttl]}
       /\ audio' = audio \ {e.call : e \in gone}
    /\ Answers(t, "succeeded") /\ UNCHANGED <<shared, lost, now>>

(* The browser goes away while the speech is made: the thread finishes,    *)
(* and nobody takes the file.                                              *)
Abandon(t) ==
    /\ at[t] = "spoken"
    /\ lost' = lost \cup {call[t]}
    /\ Answers(t, "none") /\ UNCHANGED <<shared, audio, registry, now>>

(* vera_voice_audio: an expired token goes when it is asked for.           *)
Fetch(e) ==
    /\ e \in Expired
    /\ registry' = registry \ {e} /\ audio' = audio \ {e.call}
    /\ UNCHANGED <<side, configs, threads, shared, lost, now>>

Tick ==
    /\ now < MaxTime /\ registry # {}
    /\ now' = now + 1
    /\ UNCHANGED <<side, configs, threads, shared, audio, registry, lost>>

Thread(t) ==
    \/ Ask(t) \/ Lock(t) \/ Share(t) \/ Miss(t) \/ Build(t)
    \/ Unavailable(t) \/ Fast(t) \/ Enter(t) \/ LoadLock(t) \/ FoundLoaded(t)
    \/ BeginLoad(t) \/ EndLoad(t) \/ LoadFails(t) \/ MakeFile(t) \/ ReadAsIs(t)
    \/ \E s \in {"unavailable", "unsupported", "failed"} : Cannot(t, s)
    \/ \E out \in {"good", "nothing", "raised"} : Work(t, out)
    \/ Register(t) \/ Abandon(t)

Next ==
    \/ \E t \in Threads : Thread(t)
    \/ Tick \/ \E e \in registry : Fetch(e)
    \/ \E w \in Writers : Replace(w) \/ SaveFails(w) \/ \E form \in Forms : BeginSave(w, form)

Spec == Init /\ [][Next]_vars

-----------------------------------------------------------------------------
Has(t) == at[t] \in {"have", "waiting", "checking", "loading", "ready", "working", "spoken"}

(* The types; and the locks are held by threads that are about to let go.  *)
TypeOK ==
    /\ config \in Configs /\ cache \in 0..Len(built) /\ calls \in 0..MaxCalls /\ saves \in 0..MaxSaves
    /\ answer \in [Threads -> {"none", "unavailable", "unsupported", "failed", "succeeded"}]
    /\ cacheLock # Nobody => at[cacheLock] \in {"looking", "building"}
    /\ \A i \in DOMAIN built :
         built[i].lock # Nobody => at[built[i].lock] \in {"checking", "loading"}

(* No call is served by a backend built for other options: neither by one  *)
(* from before the operator changed them, nor by that of a thread that     *)
(* read them later.                                                        *)
OwnBackend == \A t \in Threads : Has(t) => Mine(t).flags = flags[t]

(* The model of a backend is loaded once, whoever comes first, and while   *)
(* the options stay no second backend is built.                            *)
LoadedOnce ==
    \A t \in Threads :
        at[t] = "loading" =>
            /\ ~Loaded(t)
            /\ \A u \in Threads \ {t} : at[u] = "loading" => mine[u] # mine[t]
BuiltOnce == \A i \in DOMAIN built : i > 1 => built[i].flags # built[i - 1].flags

(* A call that succeeded had voice enabled and a loaded model when it read *)
(* its flags, and every token stands for a file that is there.             *)
SuccessIsReal ==
    /\ \A t \in Threads : answer[t] = "succeeded" => flags[t].on /\ Mine(t).model = "loaded"
    /\ \A e \in registry : e.call \in audio

(* Audio files are those with a token and those being worked on: no failed *)
(* call, no expired or evicted token leaves speech or a recording behind.  *)
(* Only speech whose listener went away stays.                             *)
NoAudioLeft ==
    /\ audio \subseteq {e.call : e \in registry} \cup lost
         \cup {call[t] : t \in {u \in Threads : at[u] \in {"working", "spoken"}}}
    /\ Cardinality(registry) <= MaxTokens

(* A saved option stays, and a form changes no field it does not name:     *)
(* only saves that overlap may lose each other's fields.                   *)
SavesStay == ~overlapped => config = wanted
=============================================================================
