------------------------------ MODULE GradeProbe ------------------------------
(***************************************************************************)
(* One probe of src/probes/ from its request to its result: the model      *)
(* answers piece by piece, the answer stops for a reason, and the grader   *)
(* of that probe turns it into a score or a refusal.                       *)
(*                                                                         *)
(* Three further readings are no probes of their own but what the code     *)
(* probes do to a text before they look at it: "code_text", "edit_text"    *)
(* and "signature".                                                        *)
(***************************************************************************)
EXTENDS ToolGraders

CONSTANTS Pieces,      \* what a reply to each reading is made of
          MaxPieces    \* the longest reply, or turn of a reply, looked at

Readings == DOMAIN Pieces

\* The three readings of a text, and the probes that have a grader here.
Texts == {"code_text", "edit_text", "signature"}

CallProbes == {"tool_calling", "complex_tool_calling", "nested_arguments",
               "tool_selection", "parallel_tool_scale", "one_shot_tool_plan",
               "multi_turn_task_sequencing"}
BudgetProbes == {"token_efficiency", "max_tokens_compliance"}
TextProbes == {"xml_tool_calling", "json_output", "instruction_following",
               "multi_turn_memory", "system_message_adherence",
               "effective_context_tokens", "context_faithfulness", "vision",
               "code_syntax", "search_replace", "unified_diff"}
Graders == CallProbes \cup {"streaming_tool_calls"} \cup BudgetProbes \cup TextProbes

ASSUME ReadingsAssumption == Readings \subseteq Graders \cup Texts
ASSUME MaxPiecesAssumption == MaxPieces \in [Readings -> Nat]

VARIABLES reading,   \* the probe that asks
          turns,     \* the turns of the conversation that are over
          said,      \* the reply so far
          finish,    \* why the last turn ended, "none" while it goes on
          outcome    \* the answer of the probe, Unasked until it ends

vars == <<reading, turns, said, finish, outcome>>

Text == INSTANCE TextGraders
Json == INSTANCE JsonScan
Code == INSTANCE CodeGraders
Edit == INSTANCE EditGraders

Unasked == [kind |-> "Unasked", level |-> "none", says |-> {}]

-----------------------------------------------------------------------------
(* The graders by probe.                                                   *)

\* The tool that the plain parallel probe offers.
Accepted == {"read_file"}

Score(r, over, reply, why) ==
    CASE r = "tool_calling"               -> ScoreReadFile(reply)
      [] r = "complex_tool_calling"       -> ScoreTwoTools(reply)
      [] r = "nested_arguments"           -> ScoreNested(reply)
      [] r = "tool_selection"             -> ScoreSelection(reply)
      [] r = "parallel_tool_scale"        -> ScoreParallel(Accepted, reply)
      [] r = "one_shot_tool_plan"         -> ScoreOneShot(reply)
      [] r = "multi_turn_task_sequencing" -> ScoreChain(Append(over, reply))
      [] r = "streaming_tool_calls"       -> ScoreStream(reply)
      [] r = "xml_tool_calling"           -> Text!ScoreXml(reply)
      [] r = "json_output"                -> Json!ScoreJson(reply)
      [] r = "instruction_following"      -> Text!ScoreCapital(reply)
      [] r = "multi_turn_memory"          -> Text!ScoreMemory(reply)
      [] r = "system_message_adherence"   -> Text!ScoreStatus(reply)
      [] r = "token_efficiency"           -> Text!ScoreTokens(reply)
      [] r = "max_tokens_compliance"      -> Text!ScoreBudget(reply, why)
      [] r = "effective_context_tokens"   -> 20 * Text!RecalledFacts(reply)
      [] r = "context_faithfulness"       -> Text!ScoreFaithfulness(reply)
      [] r = "vision"                     -> Text!ScoreVision(reply)
      [] r = "code_syntax"                -> Code!ScoreCode(reply)
      [] r = "search_replace"             -> Edit!ScoreSearchReplace(reply)
      [] r = "unified_diff"               -> Edit!ScoreDiff(reply)

Level(r, reply, score) ==
    IF r = "tool_selection" THEN SelectionLevel(reply) ELSE Classify(score)

\* The check before the reply is read.  The probes with calls refuse a reply
\* without any by a check of their own.
EarlyRefusals(r, reply, why) ==
    CASE r \in CallProbes -> ToolCallRefusals(why, reply # <<>>)
      [] r = "xml_tool_calling" ->
             IF Text!Holds(reply, "open") THEN {} ELSE ToolCallRefusals(why, FALSE)
      [] r = "streaming_tool_calls" ->
             IF why = "Malformed" /\ ~StreamCalled(reply) THEN {MalformedCall} ELSE {}
      [] OTHER -> {}

\* The check behind the score.
LateRefusals(r, reply, why, score) ==
    IF r \in BudgetProbes THEN Text!BudgetRefusals(reply, why)
                          ELSE IncompleteRefusals(why, score)

Graded(r, over, reply, why) ==
    LET score == Score(r, over, reply, why)
    IN  Settle(EarlyRefusals(r, reply, why) \cup LateRefusals(r, reply, why, score),
               Level(r, reply, score))

-----------------------------------------------------------------------------
(* The conversation.                                                       *)

Init == /\ reading \in Readings
        /\ turns = <<>>
        /\ said = <<>>
        /\ finish = "none"
        /\ outcome = Unasked

Say(piece) ==
    /\ outcome = Unasked
    /\ Len(said) < MaxPieces[reading]
    /\ said' = Append(said, piece)
    /\ UNCHANGED <<reading, turns, finish, outcome>>

\* The turns after which the probe asks again: the distraction of the memory
\* probe, whatever it says and however it ends, and the turns of the agent
\* loop.
AsksAgain(why) ==
    CASE reading = "multi_turn_memory"          -> turns = <<>>
      [] reading = "multi_turn_task_sequencing" ->
             LoopGoesOn(turns, said) /\ EarlyRefusals(reading, said, why) = {}
      [] OTHER                                  -> FALSE

NextTurn(why) ==
    /\ outcome = Unasked
    /\ reading \notin Texts
    /\ AsksAgain(why)
    /\ turns' = Append(turns, said)
    /\ said' = <<>>
    /\ UNCHANGED <<reading, finish, outcome>>

EndProbe(why) ==
    /\ outcome = Unasked
    /\ reading \notin Texts
    /\ ~AsksAgain(why)
    /\ finish' = why
    /\ outcome' = Graded(reading, turns, said, why)
    /\ UNCHANGED <<reading, turns, said>>

\* An error of the call: a chat gives no part of its reply then, a stream
\* may break off anywhere.
Drop ==
    /\ outcome = Unasked
    /\ reading \notin Texts
    /\ said = <<>> \/ reading = "streaming_tool_calls"
    /\ outcome' = Fail("Transient", {})
    /\ UNCHANGED <<reading, turns, said, finish>>

\* Only a probe with calls tells a malformed finish from a plain one.
Reasons == IF reading \in ToolProbes \cup {"xml_tool_calling"}
           THEN Finishes ELSE Finishes \ {"Malformed"}

Next == \/ \E piece \in Pieces[reading] : Say(piece)
        \/ \E why \in Reasons : NextTurn(why)
        \/ \E why \in Reasons : EndProbe(why)
        \/ Drop

Spec == Init /\ [][Next]_vars

-----------------------------------------------------------------------------
(* Properties.                                                             *)

\* A reply that was cut off or refused is never stored as a poor score: what
\* the grader makes of it, put through resolve_probe, is no row that may be
\* kept unless it is Strong.  The two probes about size are about being cut.
CutRepliesAreNotStoredWeak ==
    finish \in {"Length", "Safety"} /\ reading \notin BudgetProbes
        => \/ ~ResolvesCacheable(reading, outcome)
           \/ ResolvedRow(reading, outcome).level = "Strong"

\* The current score and level of what was said so far.
Now == Score(reading, turns, said, "Stop")

\* Graders that accept a cut reply with full marks on the ground that it is
\* complete: nothing the model could have gone on to say lowers them.
Monotone == CallProbes \cup {"xml_tool_calling", "search_replace", "unified_diff"}

CutScoresAreFinal ==
    (reading \in Monotone /\ Len(said') > Len(said) /\ Now = Full) => Now' = Full

\* A further call in a reply never lowers what the reply is worth.  For the
\* agent loop that is its level: three imprecise steps score below two.
LevelRank(level) == CASE level = "Weak" -> 0 [] level = "Medium" -> 1 [] OTHER -> 2

MoreCallsNeverHurt ==
    (reading \in CallProbes /\ Len(said') > Len(said)) =>
        /\ Now' >= Now \/ reading = "multi_turn_task_sequencing"
        /\ LevelRank(Level(reading, said', Now')) >= LevelRank(Level(reading, said, Now))

\* A reply that repeats the probe's own instructions and nothing else shows
\* no ability: it stays Weak.
CardPieces ==
    [r \in {"xml_tool_calling", "unified_diff", "vision"} |->
        CASE r = "xml_tool_calling" -> {"open", "close", "name_card", "args_card"}
          [] r = "unified_diff"     -> {"---", "+++", "@@", "-removed line", "+added line"}
          [] r = "vision"           -> {"the_question", "the_rule", "NONE"}]

EchoIsNotCapability ==
    reading \in DOMAIN CardPieces /\ ToSet(said) \subseteq CardPieces[reading]
        => Classify(Now) = "Weak"

\* parallel_floor_from_score: the hosts are told how many calls a model makes
\* at once by the score alone; it is the number of distinct usable paths.
ParallelFloor(score) == IF score < 12 THEN 0 ELSE score \div 12

FloorIsDistinctPaths ==
    reading = "parallel_tool_scale"
        => ParallelFloor(Now) =
               Min({5, Cardinality(UsablePaths(Accepted, said))})

\* The calls of a stream as they were sent: the events of each index in order.
IndexesOf(events) == {e.index : e \in {f \in ToSet(events) : f.ev = "Start"}}

SentCall(events, i) ==
    LET own == SelectSeq(events, LAMBDA e : e.ev # "End" /\ e.index = i)
    IN  [tool |-> Head(own).tool,
         args |-> [k \in 1..(Len(own) - 1) |-> own[k + 1].part]]

\* A provider's stream: an index is opened once and before its arguments, and
\* no more calls are closed than are whole.
Whole(call) == call.tool # "read_file" \/ call.args \in {<<"bare">>, <<"head", "tail">>}

WellSent(events) ==
    /\ \A k \in DOMAIN events :
           events[k].ev # "End" =>
               LET earlier == {j \in 1..(k - 1) : events[j].ev # "End"
                                                  /\ events[j].index = events[k].index}
               IN  (events[k].ev = "Start") = (earlier = {})
    /\ \A k \in DOMAIN events :
           LET sent == SubSeq(events, 1, k)
           IN  Cardinality({j \in 1..k : events[j].ev = "End"}) <=
               Cardinality({i \in IndexesOf(sent) : Whole(SentCall(sent, i))})

\* Calls that arrive interleaved are judged as if each had come on its own.
StreamedAsSent ==
    reading = "streaming_tool_calls" /\ WellSent(said) =>
        LET calls == {SentCall(said, i) : i \in IndexesOf(said)}
            whole == \E c \in calls : c.tool = "read_file" /\ c.args = <<"head", "tail">>
        IN  Now = (CASE whole -> Full [] calls = {} -> 0 [] OTHER -> 30)

\* Full marks go to a reply with a hello object that stands on its own, in
\* every text whose brackets match, and to no other.
JsonStandalone ==
    reading = "json_output" /\ Json!WellNested(said) =>
        ((Now = Full) = \E i \in DOMAIN said : Json!Standalone(said, i))

\* The two passes over a Python text leave what is in no comment and in no
\* string, and so do the two over a Rust text.
PythonCode ==
    reading = "code_text" =>
        Code!Visible(Code!CodeBody(said)) = Code!Visible(Code!PlainCode(said))

RustCode == reading = "edit_text" => Edit!CodeSeen(said) = Edit!PlainCode(said)

\* A signature as Python writes it is read as one: names with or without a
\* type, with or without a return type.
PythonSignatures ==
    LET param == {<<"name">>, <<"name", ":", "name">>}
        params == param \cup {p \o <<",">> \o q : p \in param, q \in param}
    IN  {<<"(">> \o p \o <<")">> \o r \o <<":">> :
            p \in params, r \in {<<>>, <<"->", "name">>}}

SignatureRead ==
    reading = "signature" /\ said \in PythonSignatures => Code!ReadsSignature(said)

\* A score tells of an ability, not of a layout: an echo shows none, a stream
\* is worth what was sent, JSON counts where it stands on its own, and the
\* readers of code see the code and only the code.
ScoresTellAbility ==
    /\ EchoIsNotCapability /\ StreamedAsSent /\ JsonStandalone
    /\ PythonCode /\ RustCode /\ SignatureRead

\* Going on never hurts: not the text after full marks, not a further call.
MoreNeverHurts == [][CutScoresAreFinal]_vars
FurtherCallsNeverHurt == [][MoreCallsNeverHurt]_vars
=============================================================================
