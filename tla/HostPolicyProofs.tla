--------------------------- MODULE HostPolicyProofs ---------------------------
(***************************************************************************)
(* Proofs about what a host reads from a card, for every card: any number  *)
(* of rows of any note and score, where the instance for TLC moves a few   *)
(* rows away from a run that answers alike.                                *)
(***************************************************************************)
EXTENDS HostPolicy, TLAPS

Notes == {"scored", "failed", "skipped", "unprobed"}
RowType == [note : Notes, score : 0..10]
Cards == [Dimensions -> RowType]

Levels == {Weak, Medium, Strong}

----------------------------------------------------------------------------
(* Facts about rows.                                                       *)

\* The dimensions that a host's policy reads by name.
LEMMA NamedDimensions ==
    /\ "tool_calling" \in Dimensions /\ "xml_tool_calling" \in Dimensions
    /\ "json_output" \in Dimensions /\ "instruction_following" \in Dimensions
    /\ "vision" \in Dimensions /\ "streaming_tool_calls" \in Dimensions
    /\ "nested_arguments" \in Dimensions /\ "complex_tool_calling" \in Dimensions
    /\ "tool_selection" \in Dimensions /\ "parallel_tool_scale" \in Dimensions
    /\ "search_replace" \in Dimensions /\ "unified_diff" \in Dimensions
    /\ "multi_turn_task_sequencing" \in Dimensions
    /\ "system_message_adherence" \in Dimensions
  BY DEF Dimensions, PolicyTier, Diagnostics

\* A level is one of three, and a level of an unfinished row is below them all
\* or Weak.
LEMMA LevelTypes ==
    ASSUME NEW a \in RowType
    PROVE  /\ Level(a) \in Levels
           /\ MeasuredLevel(a) \in Levels \cup {None}
           /\ CompletedLevel(a) \in Levels
           /\ Measured(a) <=> MeasuredLevel(a) # None
           /\ Measured(a) => CompletedLevel(a) = MeasuredLevel(a)
           /\ ~Measured(a) => CompletedLevel(a) = Weak
  BY DEF Level, MeasuredLevel, CompletedLevel, Measured, Levels, Weak, Medium, Strong, None,
         RowType, Notes

\* Row a promises no more than row b: at most its levels, and at most its
\* floor of parallel calls.
Below(a, b) == /\ MeasuredLevel(a) <= MeasuredLevel(b)
               /\ CompletedLevel(a) <= CompletedLevel(b)
               /\ Measured(a) => Measured(b) /\ FloorOf(a.score) <= FloorOf(b.score)

\* A floor is a number of calls.
LEMMA FloorType ==
    ASSUME NEW a \in RowType PROVE FloorOf(a.score) \in 0..5
  BY DEF FloorOf, RowType

\* A row that is not a measurement promises no more than any other.
LEMMA UnfinishedIsBelow ==
    ASSUME NEW a \in RowType, NEW b \in RowType, a.note = "scored" => a = b
    PROVE  Below(a, b)
  <1>1. CASE a.note = "scored"
    BY <1>1, LevelTypes, FloorType DEF Below, Levels, Weak, Medium, Strong, None
  <1>2. CASE a.note # "scored"
    BY <1>2, LevelTypes
    DEF Below, Measured, MeasuredLevel, CompletedLevel, Levels, Weak, Medium, Strong, None
  <1> QED
    BY <1>1, <1>2

\* With its note as it is, a row with a better score promises no less.
LEMMA BetterIsAbove ==
    ASSUME NEW a \in RowType, NEW b \in RowType, a.note = b.note, a.score <= b.score
    PROVE  Below(a, b) /\ Level(a) <= Level(b) /\ (Measured(a) <=> Measured(b))
  <1>1. FloorOf(a.score) <= FloorOf(b.score)
    BY DEF FloorOf, RowType
  <1>2. Level(a) <= Level(b)
    BY DEF Level, RowType
  <1> QED
    BY <1>1, <1>2
    DEF Below, Measured, MeasuredLevel, CompletedLevel, Weak, None

----------------------------------------------------------------------------
(* What a host is offered.                                                 *)

\* A card whose every row promises no more offers no more.
LEMMA OffersFollowRows ==
    ASSUME NEW p \in Cards, NEW q \in Cards,
           \A d \in Dimensions : Below(p[d], q[d])
    PROVE  AtMost(Offers(p), Offers(q))
  <1>0. \A d \in Dimensions : p[d] \in RowType /\ q[d] \in RowType
    BY DEF Cards
  <1>t. \A d \in Dimensions :
           /\ MeasuredLevel(p[d]) \in {-1, 0, 1, 2} /\ MeasuredLevel(q[d]) \in {-1, 0, 1, 2}
           /\ CompletedLevel(p[d]) \in {0, 1, 2} /\ CompletedLevel(q[d]) \in {0, 1, 2}
           /\ MeasuredLevel(p[d]) <= MeasuredLevel(q[d])
           /\ CompletedLevel(p[d]) <= CompletedLevel(q[d])
    BY <1>0, LevelTypes DEF Below, Levels, Weak, Medium, Strong, None
  <1>1. CanUseTools(p) => CanUseTools(q)
    BY <1>t, NamedDimensions DEF CanUseTools, Usable, Medium
  <1>2. SupportsVision(p) => SupportsVision(q)
    BY <1>t, NamedDimensions DEF SupportsVision, Usable, Medium
  <1>3. UseStreaming(p) => UseStreaming(q)
    BY <1>t, NamedDimensions DEF UseStreaming, Usable, Medium
  <1>4. SupportsNested(p) => SupportsNested(q)
    BY <1>t, NamedDimensions DEF SupportsNested, Usable, Medium
  <1>5. MaxTools(p) <= MaxTools(q)
    BY <1>t, NamedDimensions DEF MaxTools, Medium, Strong, Unlimited
  <1>6. BestEditFormat(p) <= BestEditFormat(q)
    <2>1. /\ CompletedLevel(p["search_replace"]) = Strong
                => CompletedLevel(q["search_replace"]) = Strong
          /\ Usable(p["unified_diff"]) => Usable(q["unified_diff"])
      BY <1>t, NamedDimensions DEF Usable, Medium, Strong
    <2> QED
      BY <2>1 DEF BestEditFormat, SearchReplace, UnifiedDiff, WholeFile
  <1>7. VerifiedParallel(p) <= VerifiedParallel(q)
    <2>1. Below(p["parallel_tool_scale"], q["parallel_tool_scale"])
      BY NamedDimensions
    <2>2. /\ FloorOf(p["parallel_tool_scale"].score) \in 0..5
          /\ FloorOf(q["parallel_tool_scale"].score) \in 0..5
      BY <1>0, NamedDimensions, FloorType
    <2> QED
      BY <2>1, <2>2 DEF VerifiedParallel, Below, None
  <1>8. AgentLoop(p) <= AgentLoop(q)
    BY <1>t, NamedDimensions DEF AgentLoop
  <1>9. DOMAIN Offers(p) = 1..8
    BY DEF Offers
  <1>10. \A i \in 1..8 : Offers(p)[i] <= Offers(q)[i]
    BY <1>1, <1>2, <1>3, <1>4, <1>5, <1>6, <1>7, <1>8 DEF Offers
  <1> QED
    BY <1>9, <1>10 DEF AtMost

----------------------------------------------------------------------------
(* The cells, overall and the exit code.                                   *)

\* q is p with better answers to the same probes.
Better(p, q) == \A d \in Dimensions : q[d].note = p[d].note /\ q[d].score >= p[d].score

\* What BetterIsAbove says of each row of two such cards.
LEMMA RowsRise ==
    ASSUME NEW p \in Cards, NEW q \in Cards, Better(p, q)
    PROVE  \A d \in Dimensions :
              /\ Below(p[d], q[d]) /\ (Measured(p[d]) <=> Measured(q[d]))
              /\ Level(p[d]) \in 0..2 /\ Level(q[d]) \in 0..2
              /\ Level(p[d]) <= Level(q[d])
              /\ p[d].note = q[d].note
  <1>1. \A d \in Dimensions : p[d] \in RowType /\ q[d] \in RowType
    BY DEF Cards
  <1>2. \A d \in Dimensions :
           Below(p[d], q[d]) /\ Level(p[d]) <= Level(q[d]) /\ (Measured(p[d]) <=> Measured(q[d]))
    BY <1>1, BetterIsAbove DEF Better
  <1>3. \A d \in Dimensions : Level(p[d]) \in 0..2 /\ Level(q[d]) \in 0..2
    BY <1>1, LevelTypes DEF Levels, Weak, Medium, Strong
  <1> QED
    BY <1>2, <1>3 DEF Better

\* The least of a nonempty set of levels is one of them and below the others.
LEMMA LeastLevel ==
    ASSUME NEW S \in SUBSET (0..2), S # {}
    PROVE  Least(S) \in S /\ \A k \in S : Least(S) <= k
  <1>1. \E n \in S : \A k \in S : n <= k
    <2>1. CASE 0 \in S
      BY <2>1
    <2>2. CASE 0 \notin S /\ 1 \in S
      BY <2>2
    <2>3. CASE 0 \notin S /\ 1 \notin S
      <3>1. \A k \in S : k = 2
        BY <2>3
      <3>2. PICK k \in S : TRUE
        OBVIOUS
      <3>3. k = 2
        BY <3>1, <3>2
      <3>4. \A n \in S : k <= n
        BY <3>1, <3>3
      <3> QED
        BY <3>2, <3>4
    <2> QED
      BY <2>1, <2>2, <2>3
  <1> QED
    BY <1>1 DEF Least

\* Overall follows the core rows.
LEMMA OverallRises ==
    ASSUME NEW p \in Cards, NEW q \in Cards, Better(p, q)
    PROVE  OverallLevel(p) <= OverallLevel(q)
  <1> DEFINE Done(r) == {d \in Core : Measured(r[d])}
             At(r) == {Level(r[d]) : d \in Done(r)}
  <1>1. Core \subseteq Dimensions
    BY NamedDimensions DEF Core
  <1>2. Done(p) = Done(q)
    BY <1>1, RowsRise
  <1>3. CASE Done(p) = {}
    BY <1>2, <1>3 DEF OverallLevel, Weak
  <1>4. CASE Done(p) # {}
    <2>1. At(p) \in SUBSET (0..2) /\ At(p) # {} /\ At(q) \in SUBSET (0..2) /\ At(q) # {}
      BY <1>1, <1>2, <1>4, RowsRise
    <2>2. /\ \A k \in At(p) : Least(At(p)) <= k
          /\ Least(At(q)) \in At(q) /\ Least(At(p)) \in At(p)
      BY <2>1, LeastLevel
    <2>3. PICK d \in Done(q) : Least(At(q)) = Level(q[d])
      BY <2>2
    <2>4. Level(p[d]) \in At(p) /\ Level(p[d]) <= Level(q[d]) /\ d \in Dimensions
      BY <1>1, <1>2, RowsRise
    <2>5. Least(At(p)) <= Level(p[d])
      BY <2>2, <2>4
    <2>6. Least(At(p)) <= Least(At(q))
      BY <2>1, <2>2, <2>3, <2>4, <2>5, RowsRise
    <2>7. OverallLevel(p) = Least(At(p)) /\ OverallLevel(q) = Least(At(q))
      BY <1>2, <1>4 DEF OverallLevel
    <2> QED
      BY <2>6, <2>7
  <1> QED
    BY <1>3, <1>4

\* No repair and no fallback is turned on by a better answer.
LEMMA NeedsFall ==
    ASSUME NEW p \in Cards, NEW q \in Cards, Better(p, q)
    PROVE  /\ NeedsXmlFallback(q) => NeedsXmlFallback(p)
           /\ NeedsJsonRepair(q) => NeedsJsonRepair(p)
  <1>1. /\ Measured(p["tool_calling"]) <=> Measured(q["tool_calling"])
        /\ Level(p["tool_calling"]) \in 0..2 /\ Level(q["tool_calling"]) \in 0..2
        /\ Level(p["tool_calling"]) <= Level(q["tool_calling"])
    BY RowsRise, NamedDimensions
  <1>2. /\ Measured(p["json_output"]) <=> Measured(q["json_output"])
        /\ Level(p["json_output"]) \in 0..2 /\ Level(q["json_output"]) \in 0..2
        /\ Level(p["json_output"]) <= Level(q["json_output"])
    BY RowsRise, NamedDimensions
  <1>3. NeedsXmlFallback(q) => NeedsXmlFallback(p)
    BY <1>1 DEF NeedsXmlFallback, MeasuredLevel, Weak, None
  <1>4. NeedsJsonRepair(q) => NeedsJsonRepair(p)
    BY <1>2 DEF NeedsJsonRepair, MeasuredLevel, Weak, Medium, None
  <1> QED
    BY <1>3, <1>4

\* No cell of the matrix gets worse.
LEMMA CellsRise ==
    ASSUME NEW p \in Cards, NEW q \in Cards, Better(p, q)
    PROVE  \A c \in DOMAIN Cells(p) : Cells(p)[c] <= Cells(q)[c]
  <1>1. \A d \in Dimensions :
           /\ MeasuredLevel(p[d]) \in {-1, 0, 1, 2} /\ MeasuredLevel(q[d]) \in {-1, 0, 1, 2}
           /\ MeasuredLevel(p[d]) <= MeasuredLevel(q[d])
           /\ Measured(p[d]) <=> Measured(q[d])
           /\ Measured(p[d]) <=> MeasuredLevel(p[d]) # -1
           /\ Measured(q[d]) <=> MeasuredLevel(q[d]) # -1
           /\ p[d].note = q[d].note
    <2>1. \A d \in Dimensions : p[d] \in RowType /\ q[d] \in RowType
      BY DEF Cards
    <2> QED
      BY <2>1, RowsRise, LevelTypes DEF Below, Levels, Weak, Medium, Strong, None
  <1>2. \A d \in Dimensions : MediumCell(p[d]) <= MediumCell(q[d])
    BY <1>1 DEF MediumCell, None, Weak, SkippedCell, FailCell, PassCell
  <1>3. \A d \in Dimensions : LevelCell(p[d]) <= LevelCell(q[d])
    BY <1>1 DEF LevelCell, None, SkippedCell
  <1>4. XmlCell(p) <= XmlCell(q)
    <2>1. /\ MeasuredLevel(p["tool_calling"]) \in {Medium, Strong}
                => MeasuredLevel(q["tool_calling"]) \in {Medium, Strong}
          /\ MeasuredLevel(p["xml_tool_calling"]) \in {Medium, Strong}
                => MeasuredLevel(q["xml_tool_calling"]) \in {Medium, Strong}
          /\ Measured(p["tool_calling"]) <=> Measured(q["tool_calling"])
          /\ Measured(p["xml_tool_calling"]) <=> Measured(q["xml_tool_calling"])
      BY <1>1, NamedDimensions DEF Medium, Strong
    <2> QED
      BY <2>1 DEF XmlCell, PassCell, DegradedCell, SkippedCell, FailCell
  <1>5. ParallelCell(p) <= ParallelCell(q)
    <2>1. /\ VerifiedParallel(p) <= VerifiedParallel(q)
          /\ VerifiedParallel(p) \in -1..5 /\ VerifiedParallel(q) \in -1..5
          /\ VerifiedParallel(p) = None <=> VerifiedParallel(q) = None
      <3>1. /\ FloorOf(p["parallel_tool_scale"].score) \in 0..5
            /\ FloorOf(q["parallel_tool_scale"].score) \in 0..5
        BY NamedDimensions, FloorType DEF Cards
      <3>2. /\ Below(p["parallel_tool_scale"], q["parallel_tool_scale"])
            /\ Measured(p["parallel_tool_scale"]) <=> Measured(q["parallel_tool_scale"])
        BY NamedDimensions, RowsRise
      <3> QED
        BY <3>1, <3>2 DEF VerifiedParallel, Below, None
    <2> QED
      BY <2>1 DEF ParallelCell, None, PassCell, DegradedCell, SkippedCell, FailCell
  <1>6. EditCell(p) <= EditCell(q)
    <2>1. BestEditFormat(p) <= BestEditFormat(q)
      <3>1. AtMost(Offers(p), Offers(q))
        BY RowsRise, OffersFollowRows
      <3>2. 6 \in DOMAIN Offers(p) /\ Offers(p)[6] = BestEditFormat(p)
            /\ Offers(q)[6] = BestEditFormat(q)
        BY DEF Offers
      <3> QED
        BY <3>1, <3>2 DEF AtMost
    <2>2. /\ Measured(p["search_replace"]) <=> Measured(q["search_replace"])
          /\ Measured(p["unified_diff"]) <=> Measured(q["unified_diff"])
      BY <1>1, NamedDimensions
    <2> QED
      BY <2>1, <2>2 DEF EditCell, SkippedCell
  <1>7. ConstraintCell(p) <= ConstraintCell(q)
    <2>1. /\ MeasuredLevel(p["system_message_adherence"]) = None
                <=> MeasuredLevel(q["system_message_adherence"]) = None
          /\ p["system_message_adherence"].note = q["system_message_adherence"].note
      BY <1>1, NamedDimensions DEF None
    <2>2. ConstraintPlacement(p) = "none" <=> ConstraintPlacement(q) = "none"
      BY <2>1 DEF ConstraintPlacement
    <2> QED
      BY <2>1, <2>2 DEF ConstraintCell, PassCell, SkippedCell, FailCell
  <1>8. ContextCell <= ContextCell
    BY DEF ContextCell, PassCell, FailCell
  <1>9. DOMAIN Cells(p) = {"native", "xml", "streaming", "nested", "complex", "parallel",
                           "json", "edit", "context", "constraint"}
    BY DEF Cells
  <1> QED
    BY <1>2, <1>3, <1>4, <1>5, <1>6, <1>7, <1>8, <1>9, NamedDimensions DEF Cells

\* Exit 2 does not come from a better answer.
LEMMA ExitFalls ==
    ASSUME NEW p \in Cards, NEW q \in Cards, Better(p, q)
    PROVE  \A bar \in Bars : ExitCode(q, bar) <= ExitCode(p, bar)
  <1>1. ToolGateError(q) => ToolGateError(p)
    <2>1. \A d \in Dimensions : MeasuredLevel(q[d]) = Weak => MeasuredLevel(p[d]) = Weak
      BY RowsRise DEF MeasuredLevel, Weak, None
    <2>2. CanUseTools(p) => CanUseTools(q)
      <3>1. AtMost(Offers(p), Offers(q))
        BY RowsRise, OffersFollowRows
      <3>2. /\ 1 \in DOMAIN Offers(p)
            /\ Offers(p)[1] = IF CanUseTools(p) THEN 1 ELSE 0
            /\ Offers(q)[1] = IF CanUseTools(q) THEN 1 ELSE 0
        BY DEF Offers
      <3> QED
        BY <3>1, <3>2 DEF AtMost
    <2> QED
      BY <2>1, <2>2, NamedDimensions DEF ToolGateError
  <1>2. \A bar \in Bars : FailOnHits(q, bar) \subseteq FailOnHits(p, bar)
    BY RowsRise DEF FailOnHits, Weak, Strong
  <1>3. \A bar \in Bars : FailOnHits(p, bar) = {} => FailOnHits(q, bar) = {}
    BY <1>2
  <1> QED
    BY <1>1, <1>3 DEF ExitCode

----------------------------------------------------------------------------
(* Runs and loads.                                                         *)

TypeInv == /\ first \in Cards /\ rows \in Cards
           /\ tier \in Tiers /\ vision \in BOOLEAN /\ ladder \in Windows

\* What makes the rows of a card the rows its run asked for.
OnlyAskedIsMeasured == \A d \in Dimensions : Measured(rows[d]) => d \in Asked(tier, vision)

IInv == TypeInv /\ OnlyAskedIsMeasured

\* Every answer is a row.
LEMMA AnswerTypes ==
    /\ \A d \in Dimensions : Answers(d) \subseteq RowType
    /\ Unprobed \in RowType /\ Failed \in RowType /\ InferredXml \in RowType
    /\ \A d \in Dimensions : Skipped(d) \in RowType /\ ~Measured(Skipped(d))
    /\ ~Measured(Unprobed)
  BY DEF Answers, Scores, Scored, Failed, Unprobed, InferredXml, Skipped, Row, RowType, Notes,
         Measured

\* The XML probe is one of every suite.
LEMMA AskedTypes ==
    ASSUME NEW t \in Tiers, NEW v \in BOOLEAN
    PROVE  /\ Asked(t, v) \subseteq Dimensions
           /\ Asked(t, v) \subseteq InEnvelope(t)
           /\ {"tool_calling", "xml_tool_calling"} \subseteq Asked(t, v)
  BY DEF Asked, InEnvelope, Shown, Dimensions, PolicyTier, Diagnostics

LEMMA InitIInv == Init => IInv
  <1> SUFFICES ASSUME Init PROVE IInv
    OBVIOUS
  <1>1. PICK answer \in {Scored(0), Scored(5), Scored(10), Failed} :
            first = Uniform(tier, vision, answer)
    BY DEF Init
  <1>2. answer \in RowType
    BY <1>1 DEF Scored, Failed, Row, RowType, Notes
  <1>3. tier \in Tiers /\ vision \in BOOLEAN /\ rows = first
    BY DEF Init
  <1>4. first \in Cards
    BY <1>1, <1>2, AnswerTypes DEF Uniform, Cards
  <1>5. \A d \in Dimensions : d \notin Asked(tier, vision) => ~Measured(first[d])
    BY <1>1, AnswerTypes DEF Uniform
  <1>6. ladder \in Windows
    BY WindowsAssumption DEF Init, FirstLadder
  <1> QED
    BY <1>3, <1>4, <1>5, <1>6 DEF IInv, TypeInv, OnlyAskedIsMeasured

\* A step that puts rows in place of one row, or of the two tool rows, that
\* the run asks for.
LEMMA NextIInv == IInv /\ [Next]_vars => IInv'
  <1> SUFFICES ASSUME IInv, [Next]_vars PROVE IInv'
    OBVIOUS
  <1> USE DEF IInv, TypeInv
  <1> DEFINE A == Asked(tier, vision)
  <1>0. A \subseteq Dimensions /\ "xml_tool_calling" \in A /\ "xml_tool_calling" \in Dimensions
    BY AskedTypes
  <1>1. ASSUME NEW p \in Cards, Becomes(p),
               \A d \in Dimensions : Measured(p[d]) => d \in A
        PROVE  IInv'
    BY <1>1 DEF Becomes, OnlyAskedIsMeasured
  <1>2. ASSUME NEW d \in Moving, NEW row \in Answers(d), Reprobe(d, row)
        PROVE  IInv'
    <2>1. d \in A /\ d \in Dimensions /\ row \in RowType
      BY <1>0, <1>2, AnswerTypes DEF Reprobe
    <2>2. ASSUME NEW xml \in RowType,
                 Becomes([rows EXCEPT ![d] = row, !["xml_tool_calling"] = xml])
          PROVE  IInv'
      <3> DEFINE p == [rows EXCEPT ![d] = row, !["xml_tool_calling"] = xml]
      <3>1. p \in Cards
        BY <2>1, <2>2 DEF Cards
      <3>2. \A e \in Dimensions : Measured(p[e]) => e \in A
        BY <2>1, <1>0 DEF OnlyAskedIsMeasured, Cards
      <3> QED
        BY <3>1, <3>2, <2>2, <1>1
    <2>3. CASE d # "tool_calling"
      <3> DEFINE p == [rows EXCEPT ![d] = row]
      <3>0. Becomes(p)
        BY <1>2, <2>3 DEF Reprobe
      <3>1. p \in Cards
        BY <2>1 DEF Cards
      <3>2. \A e \in Dimensions : Measured(p[e]) => e \in A
        BY <2>1 DEF OnlyAskedIsMeasured, Cards
      <3> QED
        BY <3>0, <3>1, <3>2, <1>1
    <2>4. CASE d = "tool_calling" /\ SkipsXml(row)
      <3>1. Becomes([rows EXCEPT ![d] = row, !["xml_tool_calling"] = InferredXml])
        BY <1>2, <2>4 DEF Reprobe
      <3> QED
        BY <3>1, <2>2, AnswerTypes
    <2>5. CASE d = "tool_calling" /\ ~SkipsXml(row)
      <3>1. PICK xml \in (IF SkipsXml(rows[d]) THEN Answers("xml_tool_calling")
                                               ELSE {rows["xml_tool_calling"]}) :
                Becomes([rows EXCEPT ![d] = row, !["xml_tool_calling"] = xml])
        BY <1>2, <2>5 DEF Reprobe
      <3>2. xml \in RowType
        BY <3>1, <1>0, AnswerTypes DEF Cards
      <3> QED
        BY <3>1, <3>2, <2>2
    <2> QED
      BY <2>3, <2>4, <2>5
  <1>3. ASSUME NEW d \in Moving, Reset(d)
        PROVE  IInv'
    <2> DEFINE p == [rows EXCEPT ![d] = Unprobed]
    <2>1. p \in Cards
      BY AnswerTypes DEF Cards
    <2>2. \A e \in Dimensions : Measured(p[e]) => e \in A
      BY AnswerTypes DEF OnlyAskedIsMeasured, Cards
    <2>3. Becomes(p)
      BY <1>3 DEF Reset
    <2> QED
      BY <2>1, <2>2, <2>3, <1>1
  <1>4. ASSUME NEW rung \in Windows, Reclimb(rung)
        PROVE  IInv'
    BY <1>4 DEF Reclimb, OnlyAskedIsMeasured
  <1>5. CASE UNCHANGED vars
    BY <1>5 DEF vars, OnlyAskedIsMeasured
  <1> QED
    BY <1>2, <1>3, <1>4, <1>5 DEF Next

\* Every state is a card whose measured rows the run asked for.
THEOREM RowsAreAsked == Spec => []IInv
  BY InitIInv, NextIInv, PTL DEF Spec

\* Failed rows and rows another release resets never raise an offer of the
\* policy methods, whatever the card (types.rs, completed_level).
THEOREM UnfinishedIsNoPromotion == Spec => UnfinishedNeverPromotes
  <1>1. IInv /\ IInv' => ((rows' # rows /\ NoNewScores) => AtMost(Offers(rows'), Offers(rows)))
    <2> SUFFICES ASSUME IInv, IInv', NoNewScores
                 PROVE  AtMost(Offers(rows'), Offers(rows))
      OBVIOUS
    <2>1. rows \in Cards /\ rows' \in Cards
      BY DEF IInv, TypeInv
    <2>2. \A d \in Dimensions : Below(rows'[d], rows[d])
      BY <2>1, UnfinishedIsBelow DEF NoNewScores, Cards
    <2> QED
      BY <2>1, <2>2, OffersFollowRows
  <1>2. IInv /\ IInv' /\ [Next]_vars
            => [(rows' # rows /\ NoNewScores) => AtMost(Offers(rows'), Offers(rows))]_vars
    BY <1>1
  <1> QED
    BY <1>2, RowsAreAsked, PTL DEF Spec, UnfinishedNeverPromotes

\* A better answer makes nothing worse that a host branches on, whatever the
\* card: no offer, cell or exit code (types.rs, matrix.rs, bin/canact.rs).
THEOREM BetterAnswersHelp == Spec => BetterAnswersBetterCard
  <1> DEFINE Helps ==
          (NoWorse /\ rows' # rows) =>
          /\ AtMost(Offers(rows), Offers(rows'))
          /\ OverallLevel(rows) <= OverallLevel(rows')
          /\ NeedsXmlFallback(rows') => NeedsXmlFallback(rows)
          /\ NeedsJsonRepair(rows') => NeedsJsonRepair(rows)
          /\ LET old == Cells(rows)
                 new == Cells(rows')
             IN  \A c \in DOMAIN old : old[c] <= new[c]
          /\ \A bar \in Bars : ExitCode(rows', bar) <= ExitCode(rows, bar)
  <1>1. IInv /\ IInv' => Helps
    <2> SUFFICES ASSUME IInv, IInv', NoWorse
                 PROVE  Helps
      OBVIOUS
    <2>1. rows \in Cards /\ rows' \in Cards /\ Better(rows, rows')
      BY DEF IInv, TypeInv, NoWorse, Better
    <2>2. AtMost(Offers(rows), Offers(rows'))
      BY <2>1, RowsRise, OffersFollowRows
    <2>3. OverallLevel(rows) <= OverallLevel(rows')
      BY <2>1, OverallRises
    <2>4. /\ NeedsXmlFallback(rows') => NeedsXmlFallback(rows)
          /\ NeedsJsonRepair(rows') => NeedsJsonRepair(rows)
      BY <2>1, NeedsFall
    <2>5. \A c \in DOMAIN Cells(rows) : Cells(rows)[c] <= Cells(rows')[c]
      BY <2>1, CellsRise
    <2>6. \A bar \in Bars : ExitCode(rows', bar) <= ExitCode(rows, bar)
      BY <2>1, ExitFalls
    <2> QED
      BY <2>2, <2>3, <2>4, <2>5, <2>6
  <1>2. IInv /\ IInv' /\ [Next]_vars => [Helps]_vars
    BY <1>1
  <1> QED
    BY <1>2, RowsAreAsked, PTL DEF Spec, BetterAnswersBetterCard

\* Exit 2 rests on finished measurements the printed envelope lists, and what
\* a bar lets through a host's own requirement lets through (bin/canact.rs,
\* report.rs, types.rs).
THEOREM ExitTwoEarned == Spec => []ExitTwoIsEarned
  <1>1. IInv => ExitTwoIsEarned
    <2> SUFFICES ASSUME IInv PROVE ExitTwoIsEarned
      OBVIOUS
    <2>0. \A d \in Dimensions : rows[d] \in RowType
      BY DEF IInv, TypeInv, Cards
    <2>1. \A d \in Dimensions : Measured(rows[d]) =>
              /\ d \in InEnvelope(tier) /\ Status(rows[d]) = "completed"
              /\ CompletedLevel(rows[d]) = Level(rows[d]) /\ Level(rows[d]) \in {0, 1, 2}
      BY <2>0, AskedTypes, LevelTypes
      DEF IInv, TypeInv, OnlyAskedIsMeasured, Status, Measured, MeasuredLevel, CompletedLevel,
          Levels, Weak, Medium, Strong
    <2>2. \A bar \in Bars :
              /\ \A d \in FailOnHits(rows, bar) :
                     d \in InEnvelope(tier) /\ Status(rows[d]) = "completed"
              /\ FailOnHits(rows, bar) \subseteq FailOnHits(rows, "degraded")
      BY <2>1 DEF FailOnHits, Weak, Strong
    <2>3. ToolGateError(rows) =>
              {"tool_calling", "xml_tool_calling"} \subseteq FailOnHits(rows, "weak")
      BY NamedDimensions DEF ToolGateError, FailOnHits, MeasuredLevel, Weak, None
    <2>4. ASSUME FailOnHits(rows, "weak") = {}
          PROVE  Meets(rows, [d \in {e \in Dimensions : Measured(rows[e])} |-> Medium])
      BY <2>1, <2>4 DEF FailOnHits, Meets, Weak, Medium
    <2> QED
      BY <2>2, <2>3, <2>4 DEF ExitTwoIsEarned
  <1> QED
    BY <1>1, RowsAreAsked, PTL

----------------------------------------------------------------------------
(* The reports.                                                            *)

\* What the reports look at in a row: its levels, and whether it is measured.
LEMMA RowLevels ==
    ASSUME NEW p \in Cards, NEW d \in Dimensions
    PROVE  /\ Level(p[d]) \in {0, 1, 2} /\ CompletedLevel(p[d]) \in {0, 1, 2}
           /\ Measured(p[d]) => /\ MeasuredLevel(p[d]) = Level(p[d])
                                /\ CompletedLevel(p[d]) = Level(p[d])
           /\ ~Measured(p[d]) => MeasuredLevel(p[d]) = None /\ CompletedLevel(p[d]) = Weak
           /\ p[d].note \in Notes /\ p[d].score \in 0..10
           /\ Measured(p[d]) <=> p[d].note = "scored"
  BY DEF Cards, RowType, Level, MeasuredLevel, CompletedLevel, Measured, Weak, None

\* The window is advised where a rung passed, and never above it.
LEMMA AdvisedWindow ==
    ASSUME ladder \in Nat, NEW a \in Nat
    PROVE  /\ RecommendedContext(a) \in Nat
           /\ RecommendedContext(a) # 0 <=> ladder # 0
           /\ RecommendedContext(a) <= ladder
           /\ MeasuredContext = ladder
           /\ EffectiveContext \in {0, ladder}
  <1>1. MeasuredContext = ladder /\ EffectiveContext \in {0, ladder}
    BY DEF MeasuredContext, EffectiveContext, ProbedFloor
  <1>2. CASE a = 0 \/ ladder = 0
    BY <1>1, <1>2 DEF RecommendedContext
  <1>3. CASE a # 0 /\ ladder # 0
    <2>1. \E n \in {a, ladder} : \A k \in {a, ladder} : n <= k
      <3>1. CASE a <= ladder
        BY <3>1
      <3>2. CASE ladder <= a
        BY <3>2
      <3> QED
        BY <3>1, <3>2
    <2>2. Least({a, ladder}) \in {a, ladder} /\ Least({a, ladder}) <= ladder
      BY <2>1 DEF Least
    <2>3. RecommendedContext(a) = Least({a, ladder})
      BY <1>1, <1>3 DEF RecommendedContext
    <2> QED
      BY <1>1, <1>3, <2>2, <2>3
  <1> QED
    BY <1>1, <1>2, <1>3

\* The matrix says of a card what its getters say.
LEMMA MatrixAgrees == IInv => MatrixTellsTheCard
  <1> SUFFICES ASSUME IInv PROVE MatrixTellsTheCard
    OBVIOUS
  <1> USE DEF Weak, Medium, Strong, None, PassCell, DegradedCell, FailCell, SkippedCell
  <1>0. rows \in Cards /\ ladder \in Nat
    BY WindowsAssumption DEF IInv, TypeInv
  <1> DEFINE tool == rows["tool_calling"]
             xml == rows["xml_tool_calling"]
  <1>1. /\ CompletedLevel(tool) \in {0, 1, 2} /\ CompletedLevel(xml) \in {0, 1, 2}
        /\ Measured(tool) => MeasuredLevel(tool) = CompletedLevel(tool)
        /\ Measured(xml) => MeasuredLevel(xml) = CompletedLevel(xml)
        /\ ~Measured(tool) => MeasuredLevel(tool) = None /\ CompletedLevel(tool) = Weak
        /\ ~Measured(xml) => MeasuredLevel(xml) = None /\ CompletedLevel(xml) = Weak
    BY <1>0, RowLevels, NamedDimensions
  <1>2. /\ CanUseTools(rows) <=> CompletedLevel(tool) >= 1 \/ CompletedLevel(xml) >= 1
        /\ NeedsXmlFallback(rows) <=> MeasuredLevel(tool) = 0
        /\ ToolGateError(rows) <=>
               ~CanUseTools(rows) /\ MeasuredLevel(tool) = 0 /\ MeasuredLevel(xml) = 0
    BY DEF CanUseTools, Usable, NeedsXmlFallback, ToolGateError
  <1> HIDE DEF tool, xml
  <1>3. /\ CanUseTools(rows) <=> XmlCell(rows) \in {PassCell, DegradedCell}
        /\ MediumCell(tool) = PassCell => XmlCell(rows) = PassCell
        /\ XmlCell(rows) = SkippedCell =>
               ~NeedsXmlFallback(rows) /\ ToolsLine(rows) = "unknown"
        /\ ToolsLine(rows) = "no" => MediumCell(tool) = FailCell /\ XmlCell(rows) = FailCell
    <2>1. XmlCell(rows) = IF MeasuredLevel(tool) \in {1, 2} THEN PassCell
                          ELSE IF MeasuredLevel(xml) \in {1, 2} THEN DegradedCell
                          ELSE IF Measured(tool) \/ Measured(xml) THEN FailCell
                          ELSE SkippedCell
      BY DEF XmlCell, tool, xml
    <2>2. /\ MeasuredLevel(tool) = -1 => MediumCell(tool) = SkippedCell
          /\ MeasuredLevel(tool) = 0 => MediumCell(tool) = FailCell
          /\ MeasuredLevel(tool) \in {1, 2} => MediumCell(tool) = PassCell
      BY DEF MediumCell
    <2>3. /\ CanUseTools(rows) => ToolsLine(rows) = "yes"
          /\ ToolGateError(rows) => ToolsLine(rows) = "no"
          /\ ~CanUseTools(rows) /\ ~ToolGateError(rows) => ToolsLine(rows) = "unknown"
      BY <1>2 DEF ToolsLine
    <2> QED
      BY <1>1, <1>2, <2>1, <2>2, <2>3
  <1>4. EditCell(rows) \in {PassCell, DegradedCell} <=> BestEditFormat(rows) # WholeFile
    <2>1. /\ CompletedLevel(rows["search_replace"]) = 2 => Measured(rows["search_replace"])
          /\ CompletedLevel(rows["unified_diff"]) >= 1 => Measured(rows["unified_diff"])
      BY <1>0, RowLevels, NamedDimensions
    <2> QED
      BY <2>1 DEF EditCell, BestEditFormat, Usable, WholeFile, UnifiedDiff, SearchReplace
  <1>5. ParallelCell(rows) = PassCell <=> Usable(rows["parallel_tool_scale"])
    <2> DEFINE row == rows["parallel_tool_scale"]
    <2>1. row.score \in 0..10
      BY <1>0, RowLevels, NamedDimensions
    <2>2. /\ Measured(row) => VerifiedParallel(rows) = row.score \div 2
          /\ ~Measured(row) => VerifiedParallel(rows) = -1
      BY DEF VerifiedParallel, FloorOf
    <2>3. Usable(row) <=> Measured(row) /\ row.score >= 4
      BY <2>1 DEF Usable, CompletedLevel, Level
    <2>4. /\ VerifiedParallel(rows) = -1 => ParallelCell(rows) = SkippedCell
          /\ VerifiedParallel(rows) = 0 => ParallelCell(rows) = FailCell
          /\ VerifiedParallel(rows) = 1 => ParallelCell(rows) = DegradedCell
          /\ VerifiedParallel(rows) \in 2..5 => ParallelCell(rows) = PassCell
      BY DEF ParallelCell
    <2> HIDE DEF row
    <2>5. Measured(row) => /\ VerifiedParallel(rows) \in 0..5
                           /\ VerifiedParallel(rows) >= 2 <=> row.score >= 4
      BY <2>1, <2>2
    <2>6. ParallelCell(rows) = PassCell <=> Measured(row) /\ row.score >= 4
      BY <2>2, <2>4, <2>5
    <2> QED
      BY <2>3, <2>6 DEF row
  <1>6. NeedsJsonRepair(rows) <=> LevelCell(rows["json_output"]) \in {DegradedCell, FailCell}
    <2>1. MeasuredLevel(rows["json_output"]) \in {-1, 0, 1, 2}
      BY <1>0, RowLevels, NamedDimensions
    <2> QED
      BY <2>1 DEF NeedsJsonRepair, LevelCell
  <1>7. \A a \in Advertised : /\ ContextCell = PassCell <=> RecommendedContext(a) # 0
                              /\ RecommendedContext(a) \in 0..ladder
    <2> SUFFICES ASSUME NEW a \in Advertised
                 PROVE  /\ ContextCell = PassCell <=> RecommendedContext(a) # 0
                        /\ RecommendedContext(a) \in 0..ladder
      OBVIOUS
    <2>1. a \in Nat
      BY WindowsAssumption
    <2>2. ContextCell = PassCell <=> ladder # 0
      BY <1>0 DEF ContextCell, EffectiveContext, ProbedFloor
    <2> QED
      BY <1>0, <2>1, <2>2, AdvisedWindow
  <1>8. /\ Cells(rows).native = MediumCell(tool) /\ Cells(rows).xml = XmlCell(rows)
        /\ Cells(rows).edit = EditCell(rows) /\ Cells(rows).parallel = ParallelCell(rows)
        /\ Cells(rows).json = LevelCell(rows["json_output"])
        /\ Cells(rows).context = ContextCell
    BY DEF Cells, tool
  <1> HIDE DEF Weak, Medium, Strong, None, PassCell, DegradedCell, FailCell, SkippedCell
  <1>9. /\ ContextCell = PassCell => \A a \in Advertised : RecommendedContext(a) \in 1..ladder
        /\ ContextCell # PassCell => \A a \in Advertised : RecommendedContext(a) = 0
    BY <1>0, <1>7
  <1>10. LET c == Cells(rows)
         IN  /\ CanUseTools(rows) <=> c.xml \in {PassCell, DegradedCell}
             /\ c.native = PassCell => c.xml = PassCell
             /\ c.xml = SkippedCell => ~NeedsXmlFallback(rows) /\ ToolsLine(rows) = "unknown"
             /\ ToolsLine(rows) = "no" => c.native = FailCell /\ c.xml = FailCell
    BY <1>3, <1>8
  <1>11. LET c == Cells(rows)
         IN  /\ c.edit \in {PassCell, DegradedCell} <=> BestEditFormat(rows) # WholeFile
             /\ c.parallel = PassCell <=> Usable(rows["parallel_tool_scale"])
             /\ NeedsJsonRepair(rows) <=> c.json \in {DegradedCell, FailCell}
    BY <1>4, <1>5, <1>6, <1>8
  <1>12. LET c == Cells(rows)
         IN  /\ c.context = PassCell =>
                    \A a \in Advertised : RecommendedContext(a) \in 1..ladder
             /\ c.context # PassCell => \A a \in Advertised : RecommendedContext(a) = 0
    BY <1>8, <1>9
  <1> QED
    BY <1>10, <1>11, <1>12 DEF MatrixTellsTheCard

\* A line of the table and the status of its row.
LEMMA LineAgrees ==
    ASSUME NEW p \in Cards, NEW d \in Dimensions
    PROVE  /\ TableLine(p[d]).level = NotProbed <=> Status(p[d]) \in {"skipped", "unprobed"}
           /\ TableLine(p[d]).level \in {Medium, Strong} =>
                  Status(p[d]) = "completed" /\ Level(p[d]) = TableLine(p[d]).level
  <1>1. /\ p[d].note \in Notes /\ Level(p[d]) \in {0, 1, 2} /\ CompletedLevel(p[d]) \in {0, 1, 2}
        /\ p[d].note = "scored" => CompletedLevel(p[d]) = Level(p[d])
        /\ p[d].note # "scored" => CompletedLevel(p[d]) = 0
    BY RowLevels DEF Weak
  <1>2. /\ p[d].note \in {"skipped", "unprobed"} => TableLine(p[d]).level = -1
        /\ p[d].note \notin {"skipped", "unprobed"} => TableLine(p[d]).level = CompletedLevel(p[d])
    BY DEF TableLine, NotProbed, None
  <1>3. /\ p[d].note = "scored" => Status(p[d]) = "completed"
        /\ p[d].note = "failed" => Status(p[d]) = "error"
        /\ p[d].note \in {"skipped", "unprobed"} => Status(p[d]) = p[d].note
    BY DEF Status
  <1> QED
    BY <1>1, <1>2, <1>3 DEF Notes, NotProbed, None, Medium, Strong

\* The table says of a card what its envelope says.
LEMMA TableAgrees == IInv => TableTellsTheEnvelope
  <1> SUFFICES ASSUME IInv, NEW a \in Advertised
               PROVE  LET t == Table(rows, a)
                          e == Envelope(rows, a)
                      IN  /\ \A d \in DOMAIN e.probes :
                                 /\ t.line[d].level = NotProbed
                                        <=> e.probes[d] \in {"skipped", "unprobed"}
                                 /\ t.line[d] \in [level : {Medium, Strong}, score : 0..10]
                                        => e.probes[d] = "completed"
                                           /\ Level(rows[d]) = t.line[d].level
                          /\ t.tools = "yes" <=> e.tools
                          /\ e.xmlFallback => t.tools # "unknown"
                                                 \/ e.probes["xml_tool_calling"] # "completed"
                          /\ t.vision = "supported" <=> e.vision
                          /\ t.vision = "not probed" <=> ClineImages(rows) = "omitted"
                          /\ e.vision <=> ClineImages(rows) = "yes"
                          /\ AiderRow(rows) = [edit |-> t.edit, repoMap |-> e.tools]
                          /\ t.placement = e.placement
                          /\ e.effective # 0 => e.recommended # 0 /\ e.effective = e.floor
                          /\ e.loop # None =>
                                 e.probes["multi_turn_task_sequencing"] = "completed"
    BY DEF TableTellsTheEnvelope
  <1>0. rows \in Cards /\ ladder \in Nat /\ a \in Nat /\ tier \in Tiers /\ vision \in BOOLEAN
    BY WindowsAssumption DEF IInv, TypeInv
  <1> DEFINE t == Table(rows, a)
             e == Envelope(rows, a)
  <1>t. /\ t.tools = ToolsLine(rows) /\ t.edit = BestEditFormat(rows)
        /\ t.placement = ConstraintPlacement(rows)
        /\ t.vision = CASE SupportsVision(rows) -> "supported"
                        [] ~Measured(rows["vision"]) -> "not probed"
                        [] OTHER -> "not supported"
        /\ \A d \in Dimensions \ {"one_shot_tool_plan"} : t.line[d] = TableLine(rows[d])
    BY DEF Table
  <1>e. /\ e.tools = CanUseTools(rows) /\ e.vision = SupportsVision(rows)
        /\ e.xmlFallback = NeedsXmlFallback(rows) /\ e.loop = AgentLoop(rows)
        /\ e.effective = EffectiveContext /\ e.floor = ProbedFloor
        /\ e.recommended = RecommendedContext(a)
        /\ e.placement = (IF RunDiagnostics(tier) THEN ConstraintPlacement(rows) ELSE "none")
        /\ e.probes = [d \in InEnvelope(tier) |-> Status(rows[d])]
    BY DEF Envelope
  <1>d. /\ InEnvelope(tier) \subseteq Dimensions \ {"one_shot_tool_plan"}
        /\ "xml_tool_calling" \in InEnvelope(tier)
        /\ "multi_turn_task_sequencing" \in InEnvelope(tier)
    BY DEF InEnvelope, Shown, Dimensions, PolicyTier, Diagnostics
  <1> HIDE DEF t, e
  <1>1. \A d \in DOMAIN e.probes :
            /\ t.line[d].level = NotProbed <=> e.probes[d] \in {"skipped", "unprobed"}
            /\ t.line[d] \in [level : {Medium, Strong}, score : 0..10]
                   => e.probes[d] = "completed" /\ Level(rows[d]) = t.line[d].level
    <2> SUFFICES ASSUME NEW d \in InEnvelope(tier)
                 PROVE  /\ t.line[d].level = NotProbed <=> e.probes[d] \in {"skipped", "unprobed"}
                        /\ t.line[d] \in [level : {Medium, Strong}, score : 0..10]
                               => e.probes[d] = "completed" /\ Level(rows[d]) = t.line[d].level
      BY <1>e
    <2>1. t.line[d] = TableLine(rows[d]) /\ e.probes[d] = Status(rows[d]) /\ d \in Dimensions
      BY <1>t, <1>e, <1>d
    <2> QED
      BY <2>1, <1>0, LineAgrees
  <1>2. t.tools = "yes" <=> e.tools
    BY <1>t, <1>e DEF ToolsLine
  <1>3. e.xmlFallback => t.tools # "unknown" \/ e.probes["xml_tool_calling"] # "completed"
    <2> SUFFICES ASSUME NeedsXmlFallback(rows), ToolsLine(rows) = "unknown",
                        Status(rows["xml_tool_calling"]) = "completed"
                 PROVE  FALSE
      BY <1>t, <1>e, <1>d
    <2>1. ~CanUseTools(rows) /\ ~ToolGateError(rows)
      BY DEF ToolsLine
    <2>2. Measured(rows["xml_tool_calling"])
      BY <1>0, NamedDimensions, RowLevels DEF Status, Measured, Notes
    <2>3. MeasuredLevel(rows["xml_tool_calling"]) = Weak
      <3>1. /\ MeasuredLevel(rows["xml_tool_calling"]) = CompletedLevel(rows["xml_tool_calling"])
            /\ CompletedLevel(rows["xml_tool_calling"]) \in {0, 1, 2}
        BY <1>0, <2>2, NamedDimensions, RowLevels
      <3> QED
        BY <2>1, <3>1 DEF CanUseTools, Usable, Medium, Weak
    <2> QED
      BY <2>1, <2>3 DEF ToolGateError, NeedsXmlFallback
  <1>4. /\ t.vision = "supported" <=> e.vision
        /\ t.vision = "not probed" <=> ClineImages(rows) = "omitted"
        /\ e.vision <=> ClineImages(rows) = "yes"
    <2>1. SupportsVision(rows) => Measured(rows["vision"])
      BY <1>0, NamedDimensions, RowLevels DEF SupportsVision, Usable, Weak, Medium
    <2>2. /\ SupportsVision(rows) => t.vision = "supported" /\ ClineImages(rows) = "yes"
          /\ ~Measured(rows["vision"]) => t.vision = "not probed" /\ ClineImages(rows) = "omitted"
          /\ ~SupportsVision(rows) /\ Measured(rows["vision"]) =>
                 t.vision = "not supported" /\ ClineImages(rows) = "no"
      BY <1>t, <2>1 DEF ClineImages
    <2> QED
      BY <1>e, <2>1, <2>2
  <1>5. AiderRow(rows) = [edit |-> t.edit, repoMap |-> e.tools]
    BY <1>t, <1>e DEF AiderRow
  <1>6. t.placement = e.placement
    <2>1. CASE RunDiagnostics(tier)
      BY <2>1, <1>t, <1>e
    <2>2. CASE ~RunDiagnostics(tier)
      <3>1. "system_message_adherence" \notin Asked(tier, vision)
        BY <2>2 DEF Asked, PolicyTier, Diagnostics
      <3>2. ~Measured(rows["system_message_adherence"])
        BY <3>1, NamedDimensions DEF IInv, OnlyAskedIsMeasured
      <3>3. ConstraintPlacement(rows) = "none"
        <4>1. MeasuredLevel(rows["system_message_adherence"]) = None
          BY <3>2 DEF MeasuredLevel
        <4> QED
          BY <4>1 DEF ConstraintPlacement, None, Weak
      <3> QED
        BY <2>2, <3>3, <1>t, <1>e
    <2> QED
      BY <2>1, <2>2
  <1>7. e.effective # 0 => e.recommended # 0 /\ e.effective = e.floor
    BY <1>0, <1>e, AdvisedWindow DEF ProbedFloor
  <1>8. e.loop # None => e.probes["multi_turn_task_sequencing"] = "completed"
    BY <1>d, <1>e DEF AgentLoop, MeasuredLevel, Measured, Status
  <1> QED
    BY <1>1, <1>2, <1>3, <1>4, <1>5, <1>6, <1>7, <1>8 DEF t, e

\* The table, the envelope, the matrix and the overlays read a card by code of
\* their own and say the same of it, whatever the card (report.rs, types.rs,
\* matrix.rs, src/export/).
THEOREM ReportsSayTheSame == Spec => []ReportsAgree
  <1>1. IInv => ReportsAgree
    BY MatrixAgrees, TableAgrees DEF ReportsAgree
  <1> QED
    BY <1>1, RowsAreAsked, PTL
=============================================================================
