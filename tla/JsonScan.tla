------------------------------- MODULE JsonScan -------------------------------
(***************************************************************************)
(* json_output: how src/probes/json_output.rs looks for one complete       *)
(* object about the word hello in a reply's text.                          *)
(*                                                                         *)
(* The text is a sequence of tokens: the four brackets; "key", a member's  *)
(* name and colon; the members "right" (the three fields, as asked),       *)
(* "typed" (the three with other values) and "one" (a single field);       *)
(* "string", a JSON string without the object; "string_hello", one whose   *)
(* text is the object; and "prose".  Commas are left out.                  *)
(***************************************************************************)
EXTENDS ProbeReplies, SequencesExt

Members == {"right", "typed", "one"}
Strings == {"string", "string_hello"}

\* serde_json on a span: a stack of what each open bracket expects next.
Ready(st) == st.stack # <<>> /\ Last(st.stack) \in {"value", "array"}

\* After a value, an object expects a member again.
Fed(stack) == IF stack # <<>> /\ Last(stack) = "value"
              THEN Append(Front(stack), "member") ELSE stack

ParseStep(st, t) ==
    LET top == IF st.stack = <<>> THEN "none" ELSE Last(st.stack)
    IN  CASE t \in {"{", "["} /\ (st.start \/ Ready(st)) ->
                 [st EXCEPT !.start = FALSE,
                     !.stack = Append(Fed(@), IF t = "{" THEN "member" ELSE "array")]
          [] t \in Strings /\ Ready(st)      -> [st EXCEPT !.stack = Fed(@)]
          [] t = "key" /\ top = "member"     -> [st EXCEPT !.stack = Append(Front(@), "value")]
          [] t \in Members /\ top = "member" -> st
          [] t = "}" /\ top = "member"       -> [st EXCEPT !.stack = Front(@)]
          [] t = "]" /\ top = "array"        -> [st EXCEPT !.stack = Front(@)]
          [] OTHER                          -> [st EXCEPT !.ok = FALSE]

IsJson(span) ==
    LET st == FoldLeft(ParseStep, [start |-> TRUE, ok |-> TRUE, stack |-> <<>>], span)
    IN  st.ok /\ ~st.start /\ st.stack = <<>>

\* delimited_span_end counts one kind of bracket; strings are skipped.
Depth(text, i, j, open, close) ==
    FoldLeft(LAMBDA d, t : d + (CASE t = open -> 1 [] t = close -> -1 [] OTHER -> 0),
             0, SubSeq(text, i, j))

SpanEnd(text, i, open, close) ==
    LET ends == {j \in i..Len(text) : Depth(text, i, j, open, close) = 0}
    IN  IF ends = {} THEN 0 ELSE Min(ends)

ObjectEnd(text, i) == SpanEnd(text, i, "{", "}")
ArrayEnd(text, i) == SpanEnd(text, i, "[", "]")

\* next_json_object and next_json_array.
IsSpan(text, i, end) == end # 0 /\ IsJson(SubSeq(text, i, end))

IsObjectAt(text, i) == text[i] = "{" /\ IsSpan(text, i, ObjectEnd(text, i))

\* The brackets open between i and j.
Nesting(text, i, j) ==
    Depth(text, i, j, "{", "}") + Depth(text, i, j, "[", "]")

\* score_json_object: a later member of the same name replaces an earlier.
OwnMembers(text, i) ==
    LET own == {j \in i..ObjectEnd(text, i) :
                    text[j] \in Members /\ Nesting(text, i, j) = 1}
    IN  SelectSeq([j \in 1..Len(text) |-> IF j \in own THEN text[j] ELSE "none"],
                  LAMBDA t : t # "none")

ScoreMembers(own, three) ==
    IF own = <<>> THEN 6
    ELSE IF three = 0 THEN 16
    ELSE IF own[three] = "right" /\ three = Len(own) THEN Full ELSE 30

LastOfThree(own) == SelectLastInSeq(own, LAMBDA t : t \in {"right", "typed"})
ScoreOwn(own) == ScoreMembers(own, LastOfThree(own))
ScoreObject(text, i) == ScoreOwn(OwnMembers(text, i))

\* The objects of a JSON value, and those reached through objects alone.
ObjectsWithin(text, i, j) == {k \in i..j : text[k] = "{"}
ObjectsThroughObjects(text, i) ==
    {k \in ObjectsWithin(text, i, ObjectEnd(text, i)) : Depth(text, i, k, "[", "]") = 0}

HasHello(text, i, j) ==
    \E k \in ObjectsWithin(text, i, j) : ScoreObject(text, k) = Full

\* inner_has_complete_hello, in a span that is not JSON as a whole.
HelloStep(inner, st, k, end) ==
    IF k < st.next \/ inner[k] # "{" \/ ~IsSpan(inner, k, end) THEN st
    ELSE [next |-> end + 1, hello |-> st.hello \/ HasHello(inner, k, end)]

InnerHello(inner) ==
    FoldLeft(LAMBDA st, k : HelloStep(inner, st, k, ObjectEnd(inner, k)),
             [next |-> 1, hello |-> FALSE], [k \in 1..Len(inner) |-> k]).hello

-----------------------------------------------------------------------------
(* consider_standalone_json: strings and arrays are skipped whole, objects *)
(* are scored with the objects in their values, and an opening bracket     *)
(* that leads nowhere is stepped over.                                     *)

Stepped(i) == [end |-> i, best |-> {}, inArray |-> FALSE, inString |-> FALSE]

VisitArray(text, i, end) ==
    IF end = 0 THEN Stepped(i)
    ELSE [Stepped(end) EXCEPT !.inArray = IF IsJson(SubSeq(text, i, end)) THEN HasHello(text, i, end)
                                          ELSE InnerHello(SubSeq(text, i + 1, end - 1))]

Visit(text, i) ==
    CASE text[i] = "string_hello" -> [Stepped(i) EXCEPT !.inString = TRUE]
      [] text[i] = "["            -> VisitArray(text, i, ArrayEnd(text, i))
      [] IsObjectAt(text, i)      ->
             [Stepped(ObjectEnd(text, i)) EXCEPT
                !.best = {ScoreObject(text, k) : k \in ObjectsThroughObjects(text, i)}]
      [] OTHER                    -> Stepped(i)

Seen(st, visit) ==
    [next |-> visit.end + 1,
     best |-> st.best \cup visit.best,
     inArray |-> st.inArray \/ visit.inArray,
     inString |-> st.inString \/ visit.inString]

Scan(text) ==
    FoldLeft(LAMBDA st, i : IF i < st.next THEN st ELSE Seen(st, Visit(text, i)),
             [next |-> 1, best |-> {}, inArray |-> FALSE, inString |-> FALSE],
             [i \in 1..Len(text) |-> i])

PartMarks == {6, 16, 30}
ScoreFound(found) ==
    IF Full \in found.best THEN Full
    ELSE IF found.inArray \/ found.inString THEN 0
    ELSE Max({0} \cup (PartMarks \cap found.best))

ScoreJson(text) == ScoreFound(Scan(text))

-----------------------------------------------------------------------------
(* What the score is for, said without a scanner: on a text whose brackets *)
(* match, full marks go to a hello object that no array encloses.          *)

BracketStep(stack, t) ==
    CASE t \in {"{", "["}                                          -> Append(stack, t)
      [] t = "}" /\ stack # <<>> /\ Last(stack) = "{"                -> Front(stack)
      [] t = "]" /\ stack # <<>> /\ Last(stack) = "["                -> Front(stack)
      [] t \in {"}", "]"}                                          -> Append(stack, "bad")
      [] OTHER                                                    -> stack

WellNested(text) == FoldLeft(BracketStep, <<>>, text) = <<>>

Standalone(text, i) ==
    /\ IsObjectAt(text, i)
    /\ ScoreObject(text, i) = Full
    /\ Depth(text, 1, i, "[", "]") = 0

=============================================================================
