----------------------------- MODULE ProbeSuite -----------------------------
(***************************************************************************)
(* ProbeRunner::run_detailed (src/runner.rs) and the context ladder it     *)
(* climbs (src/probes/context_ladder.rs).                                  *)
(*                                                                         *)
(* A run asks the model in five phases: two joins of concurrent probes,    *)
(* the context ladder, the output cap and, unless native tool calls are    *)
(* Strong, the XML probe.  Every call holds a permit of the run's          *)
(* semaphore while it is out.  When a phase is complete its results are    *)
(* taken in a fixed order: an error that aborts ends the run, any other    *)
(* becomes a row and may cost the run its right to be cached.              *)
(***************************************************************************)
EXTENDS ProbeErrors, Sequences, FiniteSets

CONSTANTS
    Wave1, Wave2,   \* the probes of the first and of the second join!, in order
    Concurrency,    \* permits of the semaphore
    CallAnswers,    \* the answers the model may give to each call
    Misses,         \* [hits, finish] of rung replies that recall less than 3 facts
    Suites,         \* the suite tiers a runner may be built with
    VisionFlags,    \* the client catalog's supports_vision
    Advertised,     \* the client catalog's advertised window, 0 for none
    MaxRuns         \* bound on calls of run_detailed

Members(s) == {s[i] : i \in DOMAIN s}

Probes == Members(Wave1) \cup Members(Wave2)
Calls == Probes \cup {"ladder", "max_output_tokens", "xml_tool_calling"}

ASSUME WavesAssumption ==
    /\ Wave1 \in Seq(STRING) /\ Wave2 \in Seq(STRING)
    /\ "tool_calling" \in Members(Wave1)
    /\ Members(Wave1) \cap Members(Wave2) = {}
    /\ Probes \cap {"ladder", "max_output_tokens", "xml_tool_calling"} = {}

ASSUME ConcurrencyAssumption == Concurrency \in Nat \ {0}

\* A probe never answers "Skip": that is the runner's own doing.  The ladder's
\* entry lists the errors a rung may fail with.
ASSUME AnswersAssumption ==
    CallAnswers \in [Calls -> SUBSET {a \in Answers : a.kind # "Skip"}]

ASSUME LadderAssumption ==
    /\ \A a \in CallAnswers["ladder"] : a.kind # "Ok"
    /\ Misses \subseteq [hits : 0..2, finish : {"Stop", "Length"}]

ASSUME SettingsAssumption ==
    /\ Suites \subseteq {"policy", "full", "all"}
    /\ VisionFlags \subseteq {"yes", "no", "unset"}
    /\ Advertised \subseteq Nat
    /\ MaxRuns \in Nat

VARIABLES
    conf,       \* the runner's suite, the client's catalog and identity
    phase,      \* where run_detailed stands
    waiting,    \* calls queued for a permit
    running,    \* calls that hold a permit
    permits,    \* free permits of the semaphore
    answer,     \* what each call of this run has answered
    ladder,     \* the climb: tokens, recall_hits, rungs left
    cacheable,  \* run_detailed's local flag
    verdict,    \* the error run_detailed returned, "none" if it has not
    runs,       \* calls of run_detailed so far
    lastRun,    \* the runner's last_run
    stored      \* the run that persist wrote to the cache last

vars == <<conf, phase, waiting, running, permits, answer, ladder, cacheable,
          verdict, runs, lastRun, stored>>

NoAnswer == [kind |-> "None", level |-> "none", says |-> {}]
Unasked == [c \in Calls |-> NoAnswer]
NoRun == [run |-> 0, cacheable |-> FALSE, answer |-> Unasked,
          effective |-> 0, floor |-> 0,
          faithfulness |-> [level |-> "Weak", note |-> "failed"]]

RungSizes == <<4096, 8192, 16384>>

\* The two join!s of run_detailed, in the order their results are taken:
\* what Wave1 and Wave2 are in the program.
Join1 ==
    <<"tool_calling", "json_output", "instruction_following", "search_replace",
      "unified_diff", "complex_tool_calling", "nested_arguments", "tool_selection",
      "streaming_tool_calls", "code_syntax", "max_tokens_compliance",
      "system_message_adherence", "token_efficiency", "parallel_tool_scale", "vision">>
Join2 == <<"one_shot_tool_plan", "multi_turn_task_sequencing", "multi_turn_memory">>

----------------------------------------------------------------------------
(* What a run asks.                                                        *)

Promoted == {"multi_turn_task_sequencing"}
Diagnostics == {"code_syntax", "max_tokens_compliance", "system_message_adherence",
                "token_efficiency", "multi_turn_memory"}

\* A slip: the diagnostics run on every suite but policy.
SkippedOnPolicyOnly(p) ==
    \/ p \in Diagnostics \cup Promoted /\ conf.suite = "policy"
    \/ p = "vision" /\ conf.vision # "yes"
    \/ p = "one_shot_tool_plan"

\* gated_or_skip_named, the vision arm, and the retired one-shot probe.
Skipped(p) ==
    \/ p \in Diagnostics /\ conf.suite # "all"
    \/ p \in Promoted /\ conf.suite = "policy"
    \/ p = "vision" /\ conf.vision # "yes"
    \/ p = "one_shot_tool_plan"

\* vision_skip is Weak, named_skip is Medium.
SkipAnswer(p) == Skip(IF p = "vision" THEN "Weak" ELSE "Medium")

\* planned_probe_names: what the runner tells its caller it will ask.
PlannedNames(suite, vision) ==
    {"tool_calling", "json_output", "instruction_following", "search_replace",
     "unified_diff", "complex_tool_calling", "nested_arguments", "tool_selection",
     "streaming_tool_calls", "parallel_tool_scale", "context_faithfulness"}
    \cup (IF suite # "policy" THEN {"multi_turn_task_sequencing"} ELSE {})
    \cup (IF suite = "all" THEN Diagnostics ELSE {})
    \cup (IF vision THEN {"vision"} ELSE {})

\* A slip: a rung of just the advertised size is left out.
PlannedRungsUnder ==
    IF conf.suite = "policy" THEN 1
    ELSE Cardinality({i \in 1..3 : i = 1 \/ conf.advertised = 0 \/ RungSizes[i] < conf.advertised})

\* planned_context_rungs: the number of rungs of the climb.
PlannedRungs ==
    CHOOSE n \in 1..3 :
        /\ conf.suite = "policy" => n = 1
        /\ \A i \in 2..n : conf.advertised = 0 \/ RungSizes[i] <= conf.advertised
        /\ n < 3 => \/ conf.suite = "policy"
                    \/ conf.advertised # 0 /\ RungSizes[n + 1] > conf.advertised

\* The calls of each phase, in the order their results are taken.
PhaseCalls(ph) ==
    CASE ph = "wave1" -> Wave1
      [] ph = "wave2" -> Wave2
      [] ph = "ladder" -> <<"ladder">>
      [] ph = "max_output" -> <<"max_output_tokens">>
      [] ph = "xml" -> <<"xml_tool_calling">>
      [] OTHER -> <<>>

\* The flag that taking answer a of call c leaves behind.
CallCacheable(c, a) ==
    CASE c = "ladder" -> LadderCacheable(a)
      [] c = "max_output_tokens" -> MaxOutputCacheable(a)
      [] OTHER -> ResolvesCacheable(c, a)

----------------------------------------------------------------------------
Init ==
    /\ conf \in [suite : Suites, vision : VisionFlags, advertised : Advertised,
                 identified : BOOLEAN]
    /\ phase = "idle"
    /\ waiting = {} /\ running = {} /\ permits = Concurrency
    /\ answer = Unasked
    /\ ladder = [tokens |-> 0, hits |-> 0, next |-> 1]
    /\ cacheable = TRUE
    /\ verdict = "none"
    /\ runs = 0
    /\ lastRun = NoRun
    /\ stored = NoRun

\* The calls of phase ph are polled for the first time: a skipped one is
\* ready at once, the others queue for a permit.
Begin(ph, answers) ==
    LET asked == {c \in Members(PhaseCalls(ph)) : ~Skipped(c)} IN
    /\ phase' = ph
    /\ waiting' = asked
    /\ answer' = [c \in Calls |->
                    IF c \in Members(PhaseCalls(ph)) \ asked THEN SkipAnswer(c)
                    ELSE answers[c]]

Resting == phase \in {"idle", "done", "aborted"}

\* run_detailed is called: a fresh semaphore, a fresh flag, the first join!.
StartRun ==
    /\ Resting /\ runs < MaxRuns
    /\ conf.identified
    /\ runs' = runs + 1
    /\ permits' = Concurrency
    /\ running' = {}
    /\ cacheable' = TRUE
    /\ verdict' = "none"
    /\ ladder' = [tokens |-> 0, hits |-> 0, next |-> 1]
    /\ Begin("wave1", Unasked)
    /\ UNCHANGED <<conf, lastRun, stored>>

\* validate_probe_identity refuses the model or provider before any call.
RejectIdentity ==
    /\ Resting /\ runs < MaxRuns
    /\ ~conf.identified
    /\ runs' = runs + 1
    /\ phase' = "aborted"
    /\ verdict' = "Internal"
    /\ UNCHANGED <<conf, waiting, running, permits, answer, ladder, cacheable,
                   lastRun, stored>>

\* A slip: a call starts without waiting for a permit.
AcquireUngated ==
    \E c \in waiting :
        /\ waiting' = waiting \ {c}
        /\ running' = running \cup {c}
        /\ permits' = permits - 1
        /\ UNCHANGED <<conf, phase, answer, ladder, cacheable, verdict, runs,
                       lastRun, stored>>

\* The semaphore is fair: the first call of the join! still waiting is served.
Acquire ==
    \E i \in DOMAIN PhaseCalls(phase) :
        LET c == PhaseCalls(phase)[i] IN
        /\ permits > 0
        /\ c \in waiting
        /\ \A j \in 1..(i - 1) : PhaseCalls(phase)[j] \notin waiting
        /\ waiting' = waiting \ {c}
        /\ running' = running \cup {c}
        /\ permits' = permits - 1
        /\ UNCHANGED <<conf, phase, answer, ladder, cacheable, verdict, runs,
                       lastRun, stored>>

\* A slip: the permit of a failed call is not given back.
EndCallLeaks(c, a) ==
    /\ answer' = [answer EXCEPT ![c] = a]
    /\ running' = running \ {c}
    /\ permits' = IF Answered(a) THEN permits + 1 ELSE permits
    /\ UNCHANGED <<conf, phase, waiting, cacheable, verdict, runs, lastRun, stored>>

\* A call's future ends with answer a and drops its permit.
EndCall(c, a) ==
    /\ answer' = [answer EXCEPT ![c] = a]
    /\ running' = running \ {c}
    /\ permits' = permits + 1
    /\ UNCHANGED <<conf, phase, waiting, cacheable, verdict, runs, lastRun, stored>>

Respond ==
    \E c \in running \ {"ladder"} : \E a \in CallAnswers[c] :
        /\ EndCall(c, a)
        /\ UNCHANGED ladder

\* All three facts are recalled: climb on, or finish after the last rung.
RungPasses ==
    /\ "ladder" \in running
    /\ ladder' = [tokens |-> RungSizes[ladder.next], hits |-> 3, next |-> ladder.next + 1]
    /\ IF ladder.next = PlannedRungs
       THEN EndCall("ladder", Ok("none"))
       ELSE UNCHANGED <<conf, phase, waiting, running, permits, answer, cacheable,
                        verdict, runs, lastRun, stored>>

\* Fewer facts are recalled: a miss when the reply is whole, a transient
\* error when it was cut short.  Either way the hits are this reply's.
RungMisses ==
    /\ "ladder" \in running
    /\ \E m \in Misses :
        /\ ladder' = [ladder EXCEPT !.hits = m.hits]
        /\ EndCall("ladder", IF m.finish = "Length" THEN Fail("Transient", {})
                             ELSE Ok("none"))

\* The rung's call fails, or its reply is a safety stop.
RungFails ==
    /\ "ladder" \in running
    /\ \E a \in CallAnswers["ladder"] : EndCall("ladder", a)
    /\ UNCHANGED ladder

----------------------------------------------------------------------------
(* Taking the results of a phase, when every call of it has ended.         *)

PhaseOver == waiting = {} /\ running = {}

AbortingCalls == {i \in DOMAIN PhaseCalls(phase) : Aborts(answer[PhaseCalls(phase)[i]])}

\* A slip: any aborting result may win, as with try_join!.
AbortRunOnAny ==
    /\ PhaseOver
    /\ \E i \in AbortingCalls : verdict' = answer[PhaseCalls(phase)[i]].kind
    /\ phase' = "aborted"
    /\ UNCHANGED <<conf, waiting, running, permits, answer, ladder, cacheable, runs,
                   lastRun, stored>>

\* The `?` of the first result, in taking order, that aborts.
AbortRun ==
    /\ PhaseOver
    /\ \E i \in AbortingCalls :
        /\ \A j \in AbortingCalls : i <= j
        /\ verdict' = answer[PhaseCalls(phase)[i]].kind
    /\ phase' = "aborted"
    /\ UNCHANGED <<conf, waiting, running, permits, answer, ladder, cacheable, runs,
                   lastRun, stored>>

\* A slip: = for &=, the flag of an earlier phase is forgotten.
TakenAfresh == \A c \in Members(PhaseCalls(phase)) : CallCacheable(c, answer[c])

\* cacheable after the results of this phase are taken.
Taken == cacheable /\ \A c \in Members(PhaseCalls(phase)) : CallCacheable(c, answer[c])

TakeAndBegin(from, to) ==
    /\ phase = from
    /\ PhaseOver /\ AbortingCalls = {}
    /\ cacheable' = Taken
    /\ Begin(to, answer)
    /\ UNCHANGED <<conf, running, permits, ladder, verdict, runs, lastRun, stored>>

TakeWave1 == TakeAndBegin("wave1", "wave2")
TakeWave2 == TakeAndBegin("wave2", "ladder")
TakeLadder == TakeAndBegin("ladder", "max_output")

\* A slip: Medium native tool calls are taken for enough.
NativeToolsCompleted ==
    ResolvedRow("tool_calling", answer["tool_calling"]).level # "Weak"

NativeToolsStrong ==
    ResolvedRow("tool_calling", answer["tool_calling"]).level = "Strong"

TakeMaxOutput ==
    ~NativeToolsStrong /\ TakeAndBegin("max_output", "xml")

\* A slip: only a run worth storing is remembered.
FinishIfCacheable ==
    /\ phase = "xml" \/ (phase = "max_output" /\ NativeToolsStrong)
    /\ PhaseOver /\ AbortingCalls = {}
    /\ cacheable' = Taken
    /\ phase' = "done"
    /\ lastRun' = IF ~Taken THEN lastRun
                  ELSE [NoRun EXCEPT !.run = runs, !.cacheable = TRUE, !.answer = answer]
    /\ UNCHANGED <<conf, waiting, running, permits, answer, ladder, verdict, runs, stored>>

\* The ProbeRun is built, remembered and returned.
Finish ==
    /\ phase = "xml" \/ (phase = "max_output" /\ NativeToolsStrong)
    /\ PhaseOver /\ AbortingCalls = {}
    /\ cacheable' = Taken
    /\ phase' = "done"
    /\ lastRun' = [run |-> runs, cacheable |-> Taken, answer |-> answer,
                   effective |-> IF conf.suite = "policy" THEN 0 ELSE ladder.tokens,
                   floor |-> ladder.tokens,
                   faithfulness |-> Faithfulness(ladder.tokens, ladder.hits,
                                                 answer["ladder"])]
    /\ UNCHANGED <<conf, waiting, running, permits, answer, ladder, verdict, runs, stored>>

\* ProbeRunner::persist, which a host may call at any time: the last run is
\* written when it was cacheable, and nothing happens otherwise.
Persist ==
    /\ lastRun.run > 0 /\ lastRun.cacheable
    /\ stored' = lastRun
    /\ UNCHANGED <<conf, phase, waiting, running, permits, answer, ladder, cacheable,
                   verdict, runs, lastRun>>

RunStep ==
    \/ Acquire \/ Respond \/ RungPasses \/ RungMisses \/ RungFails
    \/ AbortRun \/ TakeWave1 \/ TakeWave2 \/ TakeLadder \/ TakeMaxOutput \/ Finish

Next == StartRun \/ RejectIdentity \/ RunStep \/ Persist

Spec == Init /\ [][Next]_vars

\* A run's future is polled until it ends, and a call that is out ends.
FairSpec == Spec /\ WF_vars(RunStep)

----------------------------------------------------------------------------
(* Properties.                                                             *)

AnswersSoFar == [Calls -> Answers \cup {NoAnswer}]
Runs == [run : 0..MaxRuns, cacheable : BOOLEAN, answer : AnswersSoFar,
         effective : Nat, floor : Nat,
         faithfulness : [level : Levels, note : {"scored", "failed"}]]

\* Every variable keeps to the values run_detailed can give it.
TypeOK ==
    /\ conf \in [suite : Suites, vision : VisionFlags, advertised : Advertised,
                 identified : BOOLEAN]
    /\ phase \in {"idle", "wave1", "wave2", "ladder", "max_output", "xml",
                  "done", "aborted"}
    /\ waiting \subseteq Calls /\ running \subseteq Calls
    /\ permits \in 0..Concurrency
    /\ answer \in AnswersSoFar
    /\ ladder \in [tokens : Nat, hits : 0..3, next : 1..4]
    /\ cacheable \in BOOLEAN
    /\ verdict \in {"none"} \cup ErrorKinds
    /\ runs \in 0..MaxRuns
    /\ lastRun \in Runs /\ stored \in Runs

\* While a phase is on, each of its calls is in exactly one place: queued,
\* holding a permit, or answered; no permit is lost or used twice.  A call
\* left out would be taken without an answer, one asked twice would cost
\* the user a second request (gated, the two join!s).
EveryCallAccountedFor ==
    /\ permits + Cardinality(running) = Concurrency
    /\ waiting \cap running = {}
    /\ waiting \cup running =
          {c \in Members(PhaseCalls(phase)) : answer[c] = NoAnswer}

\* The calls in the order run_detailed takes their results.
TakingOrder ==
    Wave1 \o Wave2 \o <<"ladder", "max_output_tokens", "xml_tool_calling">>

\* The error a run returns is that of the first call, in taking order, whose
\* answer aborts the suite, however the calls were interleaved; a run that
\* ends in a profile had no such answer.
VerdictIgnoresCompletionOrder ==
    /\ phase = "aborted" /\ conf.identified =>
          \E i \in DOMAIN TakingOrder :
              /\ Aborts(answer[TakingOrder[i]])
              /\ verdict = answer[TakingOrder[i]].kind
              /\ \A j \in 1..(i - 1) : ~Aborts(answer[TakingOrder[j]])
    /\ phase = "done" => \A c \in Calls : ~Aborts(answer[c])

\* An error that is no statement about the model, by its kind or its text:
\* architecture.md says it stays session-local.  The ladder's safety stop is
\* left out: take_ladder may read the refusal's own words as a statement about
\* the window and store the run, whatever architecture.md says of safety stops.
SessionLocal(c, a) ==
    \/ a.kind \in {"Transient", "Internal"} /\ a.says = {}
    \/ a.kind = "RateLimit" /\ a.says \subseteq {"window"}
    \/ a.kind = "Safety" /\ c # "ladder"

\* A run that persist writes for 30 days has no answer that was only the
\* weather of the session, in whatever phase it came (cacheable &=).
StoredRunIsMeasured ==
    stored.run > 0 => \A c \in Calls : ~SessionLocal(c, stored.answer[c])

\* A run that aborts leaves last_run alone, and a run that ends in a profile
\* replaces it: what persist writes later is the last profile, never a part
\* of an aborted run.
LastRunIsWhole ==
    /\ phase = "done" => lastRun.run = runs
    /\ phase # "done" => lastRun.run < runs \/ runs = 0
    /\ stored.run <= lastRun.run
    /\ stored.run > 0 => stored.cacheable

\* The rungs a suite and its prior allow: the first whatever the prior, and for
\* more than a policy run every other that is not larger than the prior.
Allowed(i) ==
    i = 1 \/ (conf.suite # "policy" /\ (conf.advertised = 0 \/ RungSizes[i] <= conf.advertised))

\* The window a card publishes was climbed to under the prior: no rung past
\* the advertised window except the first, nothing but a floor from the
\* one-rung climb of the policy suite.  And no rung is left out: a model that
\* recalls everything it is asked for gets the largest window allowed, a rung
\* of just the advertised size included.
WindowFitsPrior ==
    /\ lastRun.run > 0 =>
          /\ lastRun.effective \in {0, lastRun.floor}
          /\ conf.suite = "policy" => lastRun.effective = 0 /\ lastRun.floor <= 4096
          /\ \/ lastRun.floor <= 4096
             \/ conf.advertised = 0
             \/ lastRun.floor <= conf.advertised
    /\ (phase = "done" /\ answer["ladder"].kind = "Ok" /\ ladder.hits = 3) =>
          \A i \in 1..3 : RungSizes[i] <= lastRun.floor <=> Allowed(i)

\* The name a call is announced by, and the calls that a finished run has made.
\* The output cap and the XML probe are never announced.
Announced(c) == IF c = "ladder" THEN "context_faithfulness" ELSE c
Asked ==
    {c \in Calls \ {"max_output_tokens", "xml_tool_calling"} : answer[c].kind \notin {"None", "Skip"}}

\* Of the joins and the ladder, a finished run of the program's own probes has
\* asked the model exactly what planned_probe_names announced for this suite and
\* vision choice.
AskedAsPlanned ==
    phase = "done" =>
        {Announced(c) : c \in Asked} = PlannedNames(conf.suite, conf.vision = "yes")

\* Every run ends, in a profile or in an error, whatever is refused and
\* however few permits there are.
RunEnds == ~Resting ~> Resting

\* The run as its caller sees it: nothing shows until the verdict.
CallersView(r) == [run |-> r.run, cacheable |-> r.cacheable, answer |-> r.answer]

Verdict == INSTANCE SuiteVerdict
    WITH Order <- TakingOrder,
         busy <- ~Resting,
         answer <- IF Resting THEN answer ELSE Unasked,
         lastRun <- CallersView(lastRun),
         stored <- CallersView(stored)

\* Two joins, a ladder and a shared semaphore give the caller what asking
\* one call after the other would: run_detailed implements SuiteVerdict.
ImplementsVerdict == Verdict!Spec
=============================================================================
