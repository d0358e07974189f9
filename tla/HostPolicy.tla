----------------------------- MODULE HostPolicy -----------------------------
(***************************************************************************)
(* What a host reads from a capability profile: the policy methods and the *)
(* envelope of src/types.rs, the cells of src/matrix.rs, the table and the *)
(* tool gate of src/report.rs, the rows of the overlays of src/export/ and *)
(* the exit code of the command line.                                      *)
(*                                                                         *)
(* All of them look at the same rows and none keeps state, so the module   *)
(* moves the rows: a later run may answer one probe otherwise, and loading *)
(* a cache written by other graders puts a row back to unprobed.  A row    *)
(* that did not finish still carries a score and a level.                  *)
(***************************************************************************)
EXTENDS Integers, FiniteSets

CONSTANTS Moving,      \* the probes whose answer a later run may change
          MaxChanges,  \* how many rows differ from the first run's
          Windows,     \* passing ladder rungs, in tokens; 0 for none
          Advertised   \* catalog windows; 0 for none or a zero

ASSUME WindowsAssumption ==
    /\ Windows \cup Advertised \subseteq Nat
    /\ \E n \in Windows : \A k \in Windows : k <= n
ASSUME MaxChangesAssumption == MaxChanges \in Nat

VARIABLES tier,      \* the suite of the run
          vision,    \* whether it sent an image
          first,     \* the rows of the first run
          rows,      \* the rows now
          ladder     \* the highest passing rung, 0 for none

vars == <<tier, vision, first, rows, ladder>>

-----------------------------------------------------------------------------
(* Rows.  Scores are in tenths.                                            *)

PolicyTier == {"tool_calling", "json_output", "instruction_following",
               "search_replace", "unified_diff", "complex_tool_calling",
               "nested_arguments", "tool_selection", "streaming_tool_calls",
               "parallel_tool_scale", "context_faithfulness", "xml_tool_calling"}
Diagnostics == {"token_efficiency", "system_message_adherence", "code_syntax",
                "max_tokens_compliance", "multi_turn_memory"}
Dimensions == PolicyTier \cup Diagnostics
                  \cup {"multi_turn_task_sequencing", "vision", "one_shot_tool_plan"}

Shown == PolicyTier \cup {"multi_turn_task_sequencing", "vision"}

Tiers == {"policy", "full", "all"}
RunDiagnostics(t) == t = "all"

Asked(t, v) == PolicyTier
                   \cup (IF t = "policy" THEN {} ELSE {"multi_turn_task_sequencing"})
                   \cup (IF RunDiagnostics(t) THEN Diagnostics ELSE {})
                   \cup (IF v THEN {"vision"} ELSE {})

Row(note, score) == [note |-> note, score |-> score]
Unprobed == Row("unprobed", 5)
Failed == Row("failed", 5)
Skipped(d) == Row("skipped", IF d = "vision" THEN 0 ELSE 5)
Scored(score) == Row("scored", score)

\* The parallel probe asks for five calls, the others are coarser.
Scores(d) == IF d = "parallel_tool_scale" THEN {2 * n : n \in 0..5} ELSE {0, 5, 10}

Answers(d) == {Scored(s) : s \in Scores(d)} \cup {Failed}

Level(row) == IF row.score >= 8 THEN 2 ELSE IF row.score >= 4 THEN 1 ELSE 0
Weak == 0
Medium == 1
Strong == 2
None == -1

\* A slip: the default of a missing dimension passes for a score.
MeasuredOrDefault(row) == row.note \notin {"failed", "skipped"}
Measured(row) == row.note = "scored"

\* measured_level and completed_level.
MeasuredLevel(row) == IF Measured(row) THEN Level(row) ELSE None
CompletedLevel(row) == IF Measured(row) THEN Level(row) ELSE Weak

Least(S) == CHOOSE n \in S : \A k \in S : n <= k

-----------------------------------------------------------------------------
(* The policy methods, on the rows p.                                      *)

Core == {"tool_calling", "json_output", "instruction_following"}

OverallLevel(p) ==
    LET done == {d \in Core : Measured(p[d])}
    IN  IF done = {} THEN Weak ELSE Least({Level(p[d]) : d \in done})

NeedsXmlFallback(p) == MeasuredLevel(p["tool_calling"]) = Weak
NeedsJsonRepair(p) == MeasuredLevel(p["json_output"]) \in {Weak, Medium}
Usable(row) == CompletedLevel(row) >= Medium
CanUseTools(p) == Usable(p["tool_calling"]) \/ Usable(p["xml_tool_calling"])
SupportsVision(p) == Usable(p["vision"])
UseStreaming(p) == Usable(p["streaming_tool_calls"])
SupportsNested(p) == Usable(p["nested_arguments"])

Unlimited == 1000
MaxTools(p) == CASE CompletedLevel(p["tool_selection"]) = Strong -> Unlimited
                 [] CompletedLevel(p["tool_selection"]) = Medium -> 20
                 [] OTHER -> 10

\* The edit formats, the better the higher.
WholeFile == 0
UnifiedDiff == 1
SearchReplace == 2

\* A slip: the middle rung of the ladder is tried first.
BestEditFormatDiffFirst(p) ==
    IF Usable(p["unified_diff"]) THEN UnifiedDiff
    ELSE IF CompletedLevel(p["search_replace"]) = Strong THEN SearchReplace
    ELSE WholeFile
BestEditFormat(p) ==
    IF CompletedLevel(p["search_replace"]) = Strong THEN SearchReplace
    ELSE IF Usable(p["unified_diff"]) THEN UnifiedDiff
    ELSE WholeFile

\* parallel_floor_from_score: its thresholds are the fifths of a full score.
FloorOf(score) == score \div 2

VerifiedParallel(p) == LET row == p["parallel_tool_scale"]
                       IN  IF Measured(row) THEN FloorOf(row.score) ELSE None

AgentLoop(p) == MeasuredLevel(p["multi_turn_task_sequencing"])

ConstraintPlacement(p) ==
    CASE MeasuredLevel(p["system_message_adherence"]) = None -> "none"
      [] MeasuredLevel(p["system_message_adherence"]) = Weak -> "user"
      [] OTHER -> "system"

\* The window: a policy run's one rung is no finished climb.
EffectiveContext == IF tier = "policy" THEN 0 ELSE ladder
ProbedFloor == ladder
MeasuredContext == IF EffectiveContext # 0 THEN EffectiveContext ELSE ProbedFloor

RecommendedContext(advertised) ==
    IF advertised = 0 \/ MeasuredContext = 0 THEN MeasuredContext
    ELSE Least({advertised, MeasuredContext})

Meets(p, required) == \A d \in DOMAIN required : CompletedLevel(p[d]) >= required[d]

-----------------------------------------------------------------------------
(* The command's exit code and the line of the table about tools.          *)

Bars == {"none", "weak", "degraded"}

FailOnHits(p, bar) ==
    {d \in Dimensions :
        /\ Measured(p[d])
        /\ \/ bar = "weak" /\ Level(p[d]) = Weak
           \/ bar = "degraded" /\ Level(p[d]) < Strong}

\* A slip: one finished probe is enough to give up.
ToolGateOnOne(p) == ~CanUseTools(p) /\ (NeedsXmlFallback(p)
                                          \/ MeasuredLevel(p["xml_tool_calling"]) = Weak)
ToolGateError(p) ==
    /\ ~CanUseTools(p)
    /\ MeasuredLevel(p["tool_calling"]) = Weak
    /\ MeasuredLevel(p["xml_tool_calling"]) = Weak

ExitCode(p, bar) == IF ToolGateError(p) \/ FailOnHits(p, bar) # {} THEN 2 ELSE 0

ToolsLine(p) == CASE CanUseTools(p) -> "yes"
                  [] ~CanUseTools(p) /\ ToolGateError(p) -> "no"
                  [] OTHER -> "unknown"

\* The rows the envelope of a tier lists, by the status it gives them.
InEnvelope(t) == Shown \cup (IF RunDiagnostics(t) THEN Diagnostics ELSE {})
Status(row) == CASE row.note = "scored" -> "completed"
                 [] row.note = "failed" -> "error"
                 [] OTHER -> row.note

\* The object canact probe --json prints, for a catalog window.
Envelope(p, advertised) ==
    [overall |-> OverallLevel(p), edit |-> BestEditFormat(p),
     tools |-> CanUseTools(p), vision |-> SupportsVision(p),
     maxTools |-> MaxTools(p), selection |-> Status(p["tool_selection"]),
     xmlFallback |-> NeedsXmlFallback(p), jsonRepair |-> NeedsJsonRepair(p),
     streaming |-> UseStreaming(p), nested |-> SupportsNested(p),
     parallel |-> VerifiedParallel(p), loop |-> AgentLoop(p),
     effective |-> EffectiveContext, floor |-> ProbedFloor,
     recommended |-> RecommendedContext(advertised),
     placement |-> IF RunDiagnostics(tier) THEN ConstraintPlacement(p) ELSE "none",
     probes |-> [d \in InEnvelope(tier) |-> Status(p[d])]]

\* What the table of canact probe says of a dimension.
NotProbed == None

TableLine(row) ==
    IF row.note \in {"skipped", "unprobed"} THEN [level |-> NotProbed, score |-> 0]
    ELSE [level |-> CompletedLevel(row),
          score |-> IF row.note = "failed" THEN 0 ELSE row.score]

\* The table, with --verbose.
Table(p, advertised) ==
    [line |-> [d \in Dimensions \ {"one_shot_tool_plan"} |-> TableLine(p[d])],
     overall |-> OverallLevel(p), edit |-> BestEditFormat(p), tools |-> ToolsLine(p),
     vision |-> CASE SupportsVision(p) -> "supported"
                  [] ~Measured(p["vision"]) -> "not probed"
                  [] OTHER -> "not supported",
     maxTools |-> MaxTools(p), recommended |-> RecommendedContext(advertised),
     placement |-> ConstraintPlacement(p),
     xmlFallback |-> MeasuredLevel(p["tool_calling"]) = Weak,
     jsonRepair |-> NeedsJsonRepair(p)]

\* What the overlays say of the card: aider_edit_format is one to one.
AiderRow(p) == [edit |-> BestEditFormat(p), repoMap |-> CanUseTools(p)]

ClineImages(p) == CASE ~Measured(p["vision"]) -> "omitted"
                    [] SupportsVision(p)      -> "yes"
                    [] OTHER                  -> "no"

-----------------------------------------------------------------------------
(* The cells of canact matrix, the better the higher.                      *)

FailCell == 0
DegradedCell == 1
PassCell == 2
SkippedCell == -1

MediumCell(row) == CASE MeasuredLevel(row) = None -> SkippedCell
                     [] MeasuredLevel(row) = Weak -> FailCell
                     [] OTHER -> PassCell

LevelCell(row) == CASE MeasuredLevel(row) = None -> SkippedCell
                    [] OTHER -> MeasuredLevel(row)

\* A slip: the workaround is looked at before the native calls.
XmlCellFirst(p) ==
    IF MeasuredLevel(p["xml_tool_calling"]) \in {Medium, Strong} THEN DegradedCell
    ELSE IF MeasuredLevel(p["tool_calling"]) \in {Medium, Strong} THEN PassCell
    ELSE IF Measured(p["tool_calling"]) \/ Measured(p["xml_tool_calling"]) THEN FailCell
    ELSE SkippedCell
XmlCell(p) ==
    IF MeasuredLevel(p["tool_calling"]) \in {Medium, Strong} THEN PassCell
    ELSE IF MeasuredLevel(p["xml_tool_calling"]) \in {Medium, Strong} THEN DegradedCell
    ELSE IF Measured(p["tool_calling"]) \/ Measured(p["xml_tool_calling"]) THEN FailCell
    ELSE SkippedCell

ParallelCell(p) == CASE VerifiedParallel(p) = None -> SkippedCell
                     [] VerifiedParallel(p) >= 2 -> PassCell
                     [] VerifiedParallel(p) = 1 -> DegradedCell
                     [] OTHER -> FailCell

EditCell(p) == IF Measured(p["search_replace"]) \/ Measured(p["unified_diff"])
               THEN BestEditFormat(p) ELSE SkippedCell

ContextCell == IF EffectiveContext # 0 \/ ProbedFloor # 0 THEN PassCell ELSE FailCell

ConstraintCell(p) ==
    CASE ConstraintPlacement(p) # "none" -> PassCell
      [] p["system_message_adherence"].note \in {"skipped", "unprobed"} -> SkippedCell
      [] OTHER -> FailCell

Cells(p) == [native |-> MediumCell(p["tool_calling"]), xml |-> XmlCell(p),
             streaming |-> MediumCell(p["streaming_tool_calls"]),
             nested |-> MediumCell(p["nested_arguments"]),
             complex |-> MediumCell(p["complex_tool_calling"]),
             parallel |-> ParallelCell(p), json |-> LevelCell(p["json_output"]),
             edit |-> EditCell(p), context |-> ContextCell,
             constraint |-> ConstraintCell(p)]

-----------------------------------------------------------------------------
(* Runs and loads.                                                         *)

\* The rows of a run that answers every probe it asks with the same.  Strong
\* native calls make the XML row an inferred Strong, which a uniform run
\* agrees with.
Uniform(t, v, answer) ==
    [d \in Dimensions |-> IF d \in Asked(t, v) THEN answer ELSE Skipped(d)]

FirstLadder == CHOOSE n \in Windows : \A k \in Windows : k <= n

Init ==
    /\ tier \in Tiers
    /\ vision \in BOOLEAN
    /\ \E answer \in {Scored(0), Scored(5), Scored(10), Failed} :
           first = Uniform(tier, vision, answer)
    /\ rows = first
    /\ ladder = FirstLadder

Changes(p, l) == Cardinality({d \in Dimensions : p[d] # first[d]})
                     + (IF l # FirstLadder THEN 1 ELSE 0)

Becomes(p) == /\ Changes(p, ladder) <= MaxChanges
              /\ rows' = p
              /\ UNCHANGED <<tier, vision, first, ladder>>

InferredXml == Scored(10)

\* The stored level decides whether XML is asked: a failed row is Medium.
SkipsXml(row) == Level(row) = Strong

\* Another run, in which one probe answered otherwise.  With native calls
\* Strong the XML probe is not asked, and without it is asked again.
Reprobe(d, row) ==
    /\ d \in Asked(tier, vision)
    /\ d = "xml_tool_calling" => ~SkipsXml(rows["tool_calling"])
    /\ CASE d # "tool_calling" -> Becomes([rows EXCEPT ![d] = row])
         [] d = "tool_calling" /\ SkipsXml(row) ->
                Becomes([rows EXCEPT ![d] = row, !["xml_tool_calling"] = InferredXml])
         [] OTHER ->
                \E xml \in (IF SkipsXml(rows[d]) THEN Answers("xml_tool_calling")
                                                 ELSE {rows["xml_tool_calling"]}) :
                    Becomes([rows EXCEPT ![d] = row, !["xml_tool_calling"] = xml])

\* A load by a release whose grader of d is another.
Reset(d) == Becomes([rows EXCEPT ![d] = Unprobed])

\* Another run, in which the climb ended elsewhere.
Reclimb(rung) == /\ Changes(rows, rung) <= MaxChanges
                 /\ ladder' = rung
                 /\ UNCHANGED <<tier, vision, first, rows>>

Next == \/ \E d \in Moving : \/ \E row \in Answers(d) : Reprobe(d, row)
                             \/ Reset(d)
        \/ \E rung \in Windows : Reclimb(rung)

Spec == Init /\ [][Next]_vars

-----------------------------------------------------------------------------
(* Properties.                                                             *)

\* What a host is offered, each the more the higher.
Offers(p) == <<IF CanUseTools(p) THEN 1 ELSE 0, IF SupportsVision(p) THEN 1 ELSE 0,
               IF UseStreaming(p) THEN 1 ELSE 0, IF SupportsNested(p) THEN 1 ELSE 0,
               MaxTools(p), BestEditFormat(p), VerifiedParallel(p), AgentLoop(p)>>

AtMost(s, t) == \A i \in DOMAIN s : s[i] <= t[i]

NoNewScores ==
    \A d \in Dimensions : rows'[d].note = "scored" => rows'[d] = rows[d]

\* A row that stops being a measurement (a probe that failed in a later run,
\* a grader epoch that resets it) never offers the host more than it had,
\* though it carries the level Medium (types.rs, completed_level).
UnfinishedNeverPromotes ==
    [][(rows' # rows /\ NoNewScores) => AtMost(Offers(rows'), Offers(rows))]_vars

\* A step in which every row keeps its note and none its level worse.
NoWorse == \A d \in Dimensions : /\ rows'[d].note = rows[d].note
                                 /\ rows'[d].score >= rows[d].score

\* A better answer to one probe makes nothing worse that a host branches on:
\* no offer, not overall, no repair or fallback turned on, no cell, no exit.
BetterAnswersBetterCard ==
    [][(NoWorse /\ rows' # rows) =>
          /\ AtMost(Offers(rows), Offers(rows'))
          /\ OverallLevel(rows) <= OverallLevel(rows')
          /\ NeedsXmlFallback(rows') => NeedsXmlFallback(rows)
          /\ NeedsJsonRepair(rows') => NeedsJsonRepair(rows)
          /\ LET old == Cells(rows)
                 new == Cells(rows')
             IN  \A c \in DOMAIN old : old[c] <= new[c]
          /\ \A bar \in Bars : ExitCode(rows', bar) <= ExitCode(rows, bar)]_vars

\* canact matrix and canact probe read the same rows by different code: a
\* model that may use tools is exactly one the table passes or degrades, a
\* skipped pair gates nothing, and the cells about edits, parallel calls,
\* JSON and the window say what the envelope says.
MatrixTellsTheCard ==
    LET c == Cells(rows)
    IN  /\ CanUseTools(rows) <=> c.xml \in {PassCell, DegradedCell}
        /\ c.native = PassCell => c.xml = PassCell
        /\ c.xml = SkippedCell => ~NeedsXmlFallback(rows) /\ ToolsLine(rows) = "unknown"
        /\ ToolsLine(rows) = "no" => c.native = FailCell /\ c.xml = FailCell
        /\ c.edit \in {PassCell, DegradedCell} <=> BestEditFormat(rows) # WholeFile
        /\ c.parallel = PassCell <=> Usable(rows["parallel_tool_scale"])
        /\ NeedsJsonRepair(rows) <=> c.json \in {DegradedCell, FailCell}
        /\ c.context = PassCell => \A a \in Advertised : RecommendedContext(a) \in 1..ladder
        /\ c.context # PassCell => \A a \in Advertised : RecommendedContext(a) = 0

\* The table a person reads and the envelope a host parses are made apart
\* (report.rs, types.rs) and say the same: every printed level is the one the
\* rules use and every missing one is missing in both, with no placement or
\* fallback in one of them alone.
TableTellsTheEnvelope ==
    \A a \in Advertised :
        LET t == Table(rows, a)
            e == Envelope(rows, a)
        IN  /\ \A d \in DOMAIN e.probes :
                   /\ t.line[d].level = NotProbed <=> e.probes[d] \in {"skipped", "unprobed"}
                   /\ t.line[d] \in [level : {Medium, Strong}, score : 0..10]
                          => e.probes[d] = "completed" /\ Level(rows[d]) = t.line[d].level
            /\ t.tools = "yes" <=> e.tools
            /\ e.xmlFallback => t.tools # "unknown" \/ e.probes["xml_tool_calling"] # "completed"
            /\ t.vision = "supported" <=> e.vision
            /\ t.vision = "not probed" <=> ClineImages(rows) = "omitted"
            /\ e.vision <=> ClineImages(rows) = "yes"
            /\ AiderRow(rows) = [edit |-> t.edit, repoMap |-> e.tools]
            /\ t.placement = e.placement
            /\ e.effective # 0 => e.recommended # 0 /\ e.effective = e.floor
            /\ e.loop # None => e.probes["multi_turn_task_sequencing"] = "completed"

\* Exit 2 is earned by finished measurements the printed envelope lists, the
\* tool gate by both tool probes; the stricter bar stops whatever the other
\* does, and a host's own requirement of Medium holds for what a bar of
\* "weak" lets through and was measured.
ExitTwoIsEarned ==
    /\ \A bar \in Bars :
           /\ \A d \in FailOnHits(rows, bar) :
                  d \in InEnvelope(tier) /\ Status(rows[d]) = "completed"
           /\ FailOnHits(rows, bar) \subseteq FailOnHits(rows, "degraded")
    /\ ToolGateError(rows) =>
           {"tool_calling", "xml_tool_calling"} \subseteq FailOnHits(rows, "weak")
    /\ FailOnHits(rows, "weak") = {} =>
           Meets(rows, [d \in {e \in Dimensions : Measured(rows[e])} |-> Medium])

\* canact matrix, canact probe's table and the envelope read one card by three
\* pieces of code, and what they say of it is the same.
ReportsAgree == MatrixTellsTheCard /\ TableTellsTheEnvelope
=============================================================================
