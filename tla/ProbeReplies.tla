---------------------------- MODULE ProbeReplies ----------------------------
(***************************************************************************)
(* What every grader shares: src/probes/mod.rs, the classify of            *)
(* src/types.rs and the finish reasons of src/client.rs.                   *)
(*                                                                         *)
(* A score is counted in sixtieths, so that the halves, fifths, tenths and *)
(* thirds of the source are integers: 1.0 is 60, 0.8 is 48, 0.4 is 24.     *)
(***************************************************************************)
EXTENDS ProbeErrors, Sequences

Full == 60

\* ProbeFinish.  ToolCalls and Other are read as Stop by every grader.
Finishes == {"Stop", "Length", "Safety", "Malformed"}

\* classify.
Classify(score) ==
    IF score >= 48 THEN "Strong" ELSE IF score >= 24 THEN "Medium" ELSE "Weak"

SafetyStop == Fail("Safety", {})
CutShort == Fail("Transient", {})
MalformedCall == Fail("Llm", {"malformed_call"})

\* A slip: a cut reply is refused only when it is Weak.
IncompleteRefusalsWhenWeak(finish, score) ==
    {a \in {SafetyStop, CutShort} :
        \/ a = SafetyStop /\ finish = "Safety"
        \/ a = CutShort /\ finish = "Length" /\ score < 24}

\* refuse_truncated_incomplete: a reply stopped below a finished answer is
\* no measurement.
IncompleteRefusals(finish, score) ==
    {a \in {SafetyStop, CutShort} :
        \/ a = SafetyStop /\ finish = "Safety"
        \/ a = CutShort /\ finish = "Length" /\ score < Full}

\* refuse_truncated_tool_call, on whether the reply has any call.
ToolCallRefusals(finish, called) ==
    {a \in {SafetyStop, MalformedCall, CutShort} :
        \/ a = SafetyStop /\ finish = "Safety"
        \/ a = MalformedCall /\ finish = "Malformed" /\ ~called
        \/ a = CutShort /\ finish = "Length" /\ ~called}

\* A probe's answer: the refusal if there is one (never two), else a score.
Settle(refusals, level) ==
    IF refusals = {} THEN Ok(level) ELSE CHOOSE a \in refusals : TRUE

=============================================================================
