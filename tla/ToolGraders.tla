----------------------------- MODULE ToolGraders -----------------------------
(***************************************************************************)
(* The graders that read tool calls: src/probes/tool_calling.rs,           *)
(* parallel_tool_scale.rs, one_shot_tool_plan.rs,                          *)
(* multi_turn_task_sequencing.rs and streaming_tool_calls.rs.              *)
(*                                                                         *)
(* A call is a tool name and what its arguments amount to: "full" when     *)
(* every argument the grader asks for is a string with visible text,       *)
(* "part" when not.  Three graders look further: nested_arguments at the   *)
(* shape of edits, parallel_tool_scale at the path a call names, and       *)
(* streaming_tool_calls at the parts the arguments arrive in.              *)
(***************************************************************************)
EXTENDS ProbeReplies, FiniteSets, SequencesExt

Named(name, calls) == \E c \in ToSet(calls) : c.tool = name
Precise(name, calls) == \E c \in ToSet(calls) : c.tool = name /\ c.args = "full"

Half(score) == score \div 2

-----------------------------------------------------------------------------
(* tool_calling: one read_file with a path.  A name without visible text   *)
(* counts for nothing.                                                     *)

ScoreReadFile(calls) ==
    IF Precise("read_file", calls) THEN Full
    ELSE IF \E c \in ToSet(calls) : c.tool # "blank" THEN Half(Full) ELSE 0

\* complex_tool_calling: read_file and list_dir in one reply.
ScoreTwoTools(calls) ==
    LET precise == {t \in {"read_file", "list_dir"} : Precise(t, calls)}
        named == {t \in {"read_file", "list_dir"} : Named(t, calls)}
    IN  IF Cardinality(precise) = 2 THEN Full
        ELSE IF Cardinality(named) = 2 \/ precise # {} THEN Half(Full)
        ELSE IF calls # <<>> THEN 18 ELSE 0

\* nested_arguments: the best of the edit_file calls.  "full" has a usable
\* path and two whole edits, "pathless" the edits with a path that is not
\* text, "array" fewer whole edits, "object" one edit not in an array.
ScoreNestedCall(c) ==
    CASE c.args = "full"                             -> Full
      [] c.args \in {"pathless", "array", "object"}   -> Half(Full)
      [] OTHER                                       -> 0

ScoreNested(calls) ==
    LET edits == {c \in ToSet(calls) : c.tool = "edit_file"}
    IN  Max({0} \cup {ScoreNestedCall(c) : c \in edits})

\* tool_selection: three tasks, a preferred and an acceptable tool each,
\* in half points.  The level is not classify's: a generic file tool is
\* never Weak, and three points that are not all precise are not Strong.
Tasks == {[tool |-> "doc_set", alt |-> "edit_file"],
          [tool |-> "search", alt |-> "run_command"],
          [tool |-> "md_replace_section", alt |-> "edit_file"]}

\* A task is worth a point for either tool, and one more for a precise call
\* of the preferred one.
Touched(calls) == {t \in Tasks : Named(t.tool, calls) \/ Named(t.alt, calls)}
Mastered(calls) == {t \in Tasks : Precise(t.tool, calls)}

ScoreSelection(calls) == 10 * (Cardinality(Touched(calls)) + Cardinality(Mastered(calls)))

UsedGeneric(calls) == \E t \in {"edit_file", "search", "run_command"} : Named(t, calls)

SelectionLevel(calls) ==
    LET level == Classify(ScoreSelection(calls))
    IN  IF \/ level = "Weak" /\ UsedGeneric(calls)
           \/ level = "Strong" /\ Mastered(calls) # Tasks
        THEN "Medium" ELSE level

-----------------------------------------------------------------------------
(* parallel_tool_scale: distinct usable paths of the calls to an accepted  *)
(* tool.  Here args is the trimmed path, "part" when there is none.        *)

UsablePaths(accepted, calls) ==
    {c.args : c \in {d \in ToSet(calls) : d.tool \in accepted /\ d.args # "part"}}

\* A slip: the calls themselves are counted, and not the paths they name.
UsableCalls(accepted, calls) ==
    Cardinality({i \in DOMAIN calls : calls[i].tool \in accepted /\ calls[i].args # "part"})

DistinctPaths(accepted, calls) == Cardinality(UsablePaths(accepted, calls))

ScoreParallel(accepted, calls) ==
    LET unique == DistinctPaths(accepted, calls)
    IN  CASE unique >= 5 -> Full
          [] unique \in 1..4 -> 12 * unique
          [] unique = 0 -> IF \E c \in ToSet(calls) : c.tool \in accepted THEN 6 ELSE 0

-----------------------------------------------------------------------------
(* one_shot_tool_plan: read, edit and run in one reply, in that order.     *)

Chain == {"read_file", "edit_file", "run_command"}

\* A slip: a later call of the same tool takes the place of the first.
LastPrecise(tool, calls) ==
    SelectLastInSeq(calls, LAMBDA c : c.tool = tool /\ c.args = "full")

FirstPrecise(tool, calls) ==
    SelectInSeq(calls, LAMBDA c : c.tool = tool /\ c.args = "full")

InOrder(first) ==
    first["read_file"] < first["edit_file"] /\ first["edit_file"] < first["run_command"]

ScoreOneShot(calls) ==
    LET first == [t \in Chain |-> FirstPrecise(t, calls)]
        steps == Cardinality({t \in Chain : first[t] # 0})
        names == Cardinality({t \in Chain : Named(t, calls)})
    IN  IF steps = 3 THEN IF InOrder(first) THEN Full ELSE 42
        ELSE IF steps = 2 \/ names = 3 THEN Half(Full)
        ELSE IF calls # <<>> THEN 18 ELSE 0

\* multi_turn_task_sequencing: the same chain over the turns of a short
\* agent loop.  A turn is the sequence of its calls.
SeenIn(tool, turns) == \E calls \in ToSet(turns) : Named(tool, calls)

FirstTurn(tool, turns) == SelectInSeq(turns, LAMBDA calls : Precise(tool, calls))

ScoreChain(turns) ==
    LET seen == {t \in Chain : SeenIn(t, turns)}
        first == [t \in Chain |-> FirstTurn(t, turns)]
    IN  IF seen = Chain
        THEN IF \E t \in Chain : first[t] = 0 THEN Half(Full)
             ELSE IF InOrder(first) THEN Full ELSE 42
        ELSE CASE Cardinality(seen) = 2 -> 42
               [] Cardinality(seen) = 1 -> 18
               [] OTHER                 -> 0

\* The loop asks again while the model calls tools and has not run the tests.
LoopGoesOn(turns, calls) ==
    /\ calls # <<>>
    /\ ~SeenIn("run_command", Append(turns, calls))
    /\ Len(turns) < 2

-----------------------------------------------------------------------------
(* streaming_tool_calls: a fold over the chunks of a reply.  A slot per    *)
(* index holds the name and the arguments so far; ToolCallEnd carries no   *)
(* index.  "head" and "tail" together are JSON with a path, "bare" is JSON *)
(* without one, and anything else is not JSON.                             *)

Parsed(slot) ==
    CASE slot.args = <<"head", "tail">> -> "path"
      [] slot.args = <<"bare">>         -> "no_path"
      [] OTHER                          -> "malformed"

NoSlot == [tool |-> "none", args |-> <<>>]

\* flush_read_file_args: what the slots come to, for the best of the stream.
Flush(slots) == {Parsed(slots[i]) : i \in {j \in DOMAIN slots : slots[j].tool = "read_file"}}

SlotAt(st, i) == IF i \in DOMAIN st.slots THEN st.slots[i] ELSE NoSlot
WithSlot(st, i, slot) ==
    [st EXCEPT !.slots = [j \in DOMAIN st.slots \cup {i} |->
                              IF j = i THEN slot ELSE st.slots[j]]]

\* A start that names a tool opens the slot anew; arguments a read_file of
\* the same slot had gathered are judged first.
OnStart(st, e) ==
    LET old == SlotAt(st, e.index)
        judged == IF old.tool = "read_file" /\ old.args # <<>> THEN {Parsed(old)} ELSE {}
    IN  IF e.tool = "none" THEN WithSlot(st, e.index, old)
        ELSE [WithSlot(st, e.index, [tool |-> e.tool, args |-> <<>>])
                 EXCEPT !.best = @ \cup judged, !.other = @ \/ e.tool # "read_file"]

OnDelta(st, e) ==
    LET old == SlotAt(st, e.index)
    IN  WithSlot(st, e.index,
            IF old.tool = "read_file" THEN [old EXCEPT !.args = Append(@, e.part)] ELSE old)

\* A slip: whatever slots are open are closed.
OnEndEvery(st) == [st EXCEPT !.best = @ \cup Flush(st.slots), !.slots = <<>>]

\* Only a lone slot is closed: with two open the chunk may be of either.
OnEnd(st) ==
    IF Cardinality(DOMAIN st.slots) > 1 THEN st
    ELSE [st EXCEPT !.best = @ \cup Flush(st.slots), !.slots = <<>>]

StreamStep(st, e) ==
    CASE e.ev = "Start" -> OnStart(st, e)
      [] e.ev = "Delta" -> OnDelta(st, e)
      [] e.ev = "End"   -> OnEnd(st)

Streamed(events) ==
    LET st == FoldLeft(StreamStep, [slots |-> <<>>, best |-> {}, other |-> FALSE], events)
    IN  [best |-> st.best \cup Flush(st.slots), other |-> st.other]

ScoreStream(events) ==
    LET st == Streamed(events)
    IN  IF "path" \in st.best THEN Full
        ELSE IF st.best # {} \/ st.other THEN Half(Full) ELSE 0

\* A malformed finish is an error only when no tool was named.
StreamCalled(events) == LET st == Streamed(events) IN st.best # {} \/ st.other

=============================================================================
