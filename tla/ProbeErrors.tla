---------------------------- MODULE ProbeErrors ----------------------------
(***************************************************************************)
(* What a model call can answer, and what the probe runner makes of it:    *)
(* src/error.rs (ProbeError) and the resolving half of src/runner.rs       *)
(* (resolve_probe, take_ladder, take_max_output).                          *)
(*                                                                         *)
(* A vendor's message is abstracted to the set of phrases in it that the   *)
(* code searches for; everything else in the text is left out.             *)
(***************************************************************************)
EXTENDS Integers

Levels == {"Weak", "Medium", "Strong"}

\* ProbeError's variants.  "Safety" is the Transient that safety_stop_error
\* builds around a refusal; "Internal" stands for Io, Json and Internal.
ErrorKinds == {"Auth", "NotFound", "Llm", "Transient", "Safety",
               "Unreachable", "RateLimit", "Internal"}

\* The phrases: "does not support tools", no_multimodal_message,
\* image_too_large_message, "malformed_function_call",
\* is_context_window_message.
Phrases == {"no_tools", "no_images", "image_too_large", "malformed_call", "window"}

\* The result of one probe: a score, a skip, or an error.
Answers == [kind  : {"Ok", "Skip"} \cup ErrorKinds,
            level : Levels \cup {"none"},
            says  : SUBSET Phrases]

Ok(level) == [kind |-> "Ok", level |-> level, says |-> {}]
Skip(level) == [kind |-> "Skip", level |-> level, says |-> {}]
Fail(kind, says) == [kind |-> kind, level |-> "none", says |-> says]

ToolProbes == {"tool_calling", "complex_tool_calling", "nested_arguments",
               "tool_selection", "streaming_tool_calls", "parallel_tool_scale",
               "one_shot_tool_plan", "multi_turn_task_sequencing"}

\* The errors that end the whole suite: is_connect, and the two arms of
\* resolve_probe before it.
Aborts(a) == a.kind \in {"Auth", "NotFound", "Unreachable"}

\* A phrase inside a refusal's prose does not count.
Says(a, phrase) == a.kind # "Safety" /\ phrase \in a.says

Answered(a) == a.kind \in {"Ok", "Skip"}

\* A refusal that is itself a score: Weak, and final.
CompletedWeak(p, a) ==
    \/ p = "vision" /\ (Says(a, "image_too_large") \/ Says(a, "no_images"))
    \/ p \in ToolProbes /\ (Says(a, "malformed_call") \/ Says(a, "no_tools"))

\* The second component resolve_probe returns: may this result be stored.
ResolvesCacheable(p, a) ==
    Answered(a) \/ CompletedWeak(p, a) \/ Says(a, "no_tools")

\* The row resolve_probe returns: its level, and whether it was measured.
ResolvedRow(p, a) ==
    CASE a.kind = "Ok"       -> [level |-> a.level, note |-> "scored"]
      [] a.kind = "Skip"     -> [level |-> a.level, note |-> "skipped"]
      [] CompletedWeak(p, a) -> [level |-> "Weak", note |-> "scored"]
      [] OTHER               -> [level |-> "Medium", note |-> "failed"]

\* take_ladder: a window rejection keeps the run cacheable, whatever else
\* the error is, unless it is one of the kinds that block that reading.
WindowRejection(a) ==
    /\ ~Aborts(a)
    /\ a.kind # "RateLimit"
    /\ "window" \in a.says

LadderCacheable(a) ==
    WindowRejection(a) \/ ResolvesCacheable("effective_context_tokens", a)

\* probe_max_output_tokens turns a provider error into a reading of the
\* cap, take_max_output resolves the rest.
MaxOutputCacheable(a) ==
    a.kind = "Llm" \/ ResolvesCacheable("max_output_tokens", a)

\* classify on hits/3: 1.0 is Strong, 0.67 Medium, 0.33 and 0 Weak.
ClassifyHits(hits) ==
    CASE hits = 3 -> "Strong" [] hits = 2 -> "Medium" [] OTHER -> "Weak"

\* faithfulness_from_ladder: tokens is 0 when no rung passed.
Faithfulness(tokens, hits, a) ==
    IF tokens = 0 /\ ~Answered(a)
    THEN [level |-> "Medium", note |-> "failed"]
    ELSE [level |-> ClassifyHits(hits), note |-> "scored"]
=============================================================================
