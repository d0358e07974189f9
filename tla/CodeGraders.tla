----------------------------- MODULE CodeGraders -----------------------------
(***************************************************************************)
(* code_syntax: how src/probes/code_syntax.rs reads a Python function out  *)
(* of a reply.  Three readings of one text: its characters (comments and   *)
(* strings), the signature after "def merge_sorted", and its lines.        *)
(***************************************************************************)
EXTENDS ProbeReplies, FiniteSets, SequencesExt

(* Characters: "q" and "d" are the two quotation marks, "h" the hash, "b"  *)
(* a backslash, "n" a line end, "s" a blank, "x" anything else.            *)

Quotes == {"q", "d"}

OpensTriple(text, i) ==
    i + 2 <= Len(text) /\ \A k \in i..(i + 2) : text[k] = text[i]

\* skip_python_string: the position after the string that opens at i.  A
\* backslash hides the next character of a short string, not of a triple one.
AfterTriple(text, i) ==
    LET closers == {j \in (i + 3)..Len(text) : OpensTriple(text, j) /\ text[j] = text[i]}
    IN  IF closers = {} THEN Len(text) + 1 ELSE Min(closers) + 3

AfterShort(text, i) ==
    LET after[j \in (i + 1)..(Len(text) + 2)] ==
            CASE j > Len(text)      -> Len(text) + 1
              [] text[j] = "b"      -> after[IF j + 2 > Len(text) THEN Len(text) + 1 ELSE j + 2]
              [] text[j] = text[i]  -> j + 1
              [] OTHER              -> after[j + 1]
    IN  after[i + 1]

AfterString(text, i) ==
    IF OpensTriple(text, i) THEN AfterTriple(text, i) ELSE AfterShort(text, i)

LineEnd(text, i) ==
    LET ends == {j \in i..Len(text) : text[j] = "n"}
    IN  IF ends = {} THEN Len(text) + 1 ELSE Min(ends)

\* What is written of the current line so far.
LineStart(out) == SelectLastInSeq(out, LAMBDA c : c = "n")
OnlyIndent(out) == \A k \in (LineStart(out) + 1)..Len(out) : out[k] = "s"

\* Both strippers walk the text and jump: next is the first position that
\* is still to be read.
Walk(step(_, _), text) ==
    FoldLeft(LAMBDA st, i : IF i < st.next THEN st ELSE step(st, i),
             [out |-> <<>>, next |-> 1], [i \in 1..Len(text) |-> i]).out

\* strip_hash_comments: strings are kept whole; a line that is only a
\* comment goes with its line end.
\* A slip: a hash inside a string starts a comment.
HashStepBlind(text, st, i) ==
    IF text[i] = "h" THEN [st EXCEPT !.next = LineEnd(text, i)]
    ELSE [out |-> Append(st.out, text[i]), next |-> i + 1]

HashStep(text, st, i) ==
    LET end == LineEnd(text, i)
        after == AfterString(text, i)
    IN  CASE text[i] \in Quotes ->
                 [out |-> st.out \o SubSeq(text, i, after - 1), next |-> after]
          [] text[i] = "h" /\ OnlyIndent(st.out) ->
                 [out |-> SubSeq(st.out, 1, LineStart(st.out)), next |-> end + 1]
          [] text[i] = "h" /\ ~OnlyIndent(st.out) -> [st EXCEPT !.next = end]
          [] OTHER -> [out |-> Append(st.out, text[i]), next |-> i + 1]

StripHashComments(text) == Walk(LAMBDA st, i : HashStep(text, st, i), text)

\* strip_python_string_literals.
StringStep(text, st, i) ==
    IF text[i] \in Quotes THEN [st EXCEPT !.next = AfterString(text, i)]
    ELSE [out |-> Append(st.out, text[i]), next |-> i + 1]

StripStrings(text) == Walk(LAMBDA st, i : StringStep(text, st, i), text)

\* The two passes one after the other, as the probe calls them.
CodeBody(text) == StripStrings(StripHashComments(text))

\* What they are for, in one pass: the positions outside every comment and
\* string, found by Python's own states.
LexStep(text, st, i) ==
    CASE i < st.until                                     -> st
      [] st.mode = "comment" /\ text[i] # "n"             -> st
      [] st.mode # "comment" /\ text[i] \in Quotes        ->
             [st EXCEPT !.until = AfterString(text, i)]
      [] st.mode # "comment" /\ text[i] = "h"             -> [st EXCEPT !.mode = "comment"]
      [] OTHER -> [st EXCEPT !.mode = "code", !.code = Append(@, text[i])]

PlainCode(text) ==
    FoldLeft(LAMBDA st, i : LexStep(text, st, i),
             [mode |-> "code", until |-> 1, code |-> <<>>], [i \in 1..Len(text) |-> i]).code

Visible(text) == SelectSeq(text, LAMBDA c : c \notin {"n", "s"})

-----------------------------------------------------------------------------
(* The signature: the tokens after the function's name.                    *)

Count(text, token) == Cardinality({i \in DOMAIN text : text[i] = token})

\* How deep in parentheses and in brackets a position is.
Inside(text, i, open, close) ==
    Count(SubSeq(text, 1, i), open) - Count(SubSeq(text, 1, i), close)

TopLevel(text, i) == Inside(text, i, "(", ")") <= 0 /\ Inside(text, i, "[", "]") <= 0

\* signature_colon_offset, 0 when the line ends before any parenthesis.
SignatureColon(text) ==
    LET colon == SelectInSeq([i \in DOMAIN text |-> text[i] = ":" /\ TopLevel(text, i)],
                             LAMBDA hit : hit)
        lineEnd == \E i \in 1..(colon - 1) :
                       /\ text[i] = "nl"
                       /\ \A j \in 1..i : text[j] # "("
                       /\ Inside(text, i, "(", ")") <= 0
    IN  IF lineEnd THEN 0 ELSE colon

\* strip_return_annotation: what is left of "-> type" after the first
\* parenthesis closes.
StripAnnotation(text) ==
    LET close == SelectInSeq([i \in DOMAIN text |-> text[i] = ")" /\ Inside(text, i, "(", ")") = 0],
                             LAMBDA hit : hit)
        annotated == close # 0 /\ close < Len(text) /\ text[close + 1] = "->"
    IN  IF text # <<>> /\ Head(text) = "(" /\ annotated THEN SubSeq(text, 1, close) ELSE text

\* split_top_level_commas: the parts by the comma before them, the empty
\* ones left out.
CommaParts(text) ==
    LET cuts == {0, Len(text) + 1} \cup
                    {i \in DOMAIN text : text[i] = "," /\ TopLevel(text, i)}
        part(c) == SubSeq(text, c + 1, Min({d \in cuts : d > c}) - 1)
    IN  [c \in {d \in cuts \ {Len(text) + 1} : part(d) # <<>>} |-> part(c)]

\* is_parameter: the name before a default and a type hint, starred or not.
Before(text, token) ==
    LET i == SelectInSeq(text, LAMBDA t : t = token)
    IN  IF i = 0 THEN text ELSE SubSeq(text, 1, i - 1)

IsParameter(part) ==
    \/ part \in {<<"/">>, <<"*">>}
    \/ Before(Before(part, "="), ":") \in {<<"name">>, <<"*", "name">>}

LooksLikeParameterList(between) ==
    LET s == StripAnnotation(SelectSeq(between, LAMBDA t : t # "nl"))
        wrapped == s # <<>> /\ Head(s) = "(" /\ Last(s) = ")"
        parts == CommaParts(IF wrapped THEN SubSeq(s, 2, Len(s) - 1) ELSE s)
    IN  /\ \A c \in DOMAIN parts : IsParameter(parts[c])
        /\ IF wrapped THEN Count(s, "(") = Count(s, ")")
                      ELSE Cardinality(DOMAIN parts) > 1

ReadsSignature(text) ==
    LET colon == SignatureColon(text)
    IN  colon # 0 /\ LooksLikeParameterList(SubSeq(text, 1, colon - 1))

-----------------------------------------------------------------------------
(* The lines.  "def" is a def line the signature reader accepts, with      *)
(* nothing after its colon; "return", "return_dots", "pass" and "open" (an *)
(* assignment with a parenthesis left open) are indented statements,       *)
(* "close" an indented parenthesis; "dots" an indented ellipsis; "lecture" *)
(* indented words that are no statement, a comment or a docstring; "col0"  *)
(* text at the margin and "fence" a line of three back quotes.             *)

Statements == {"return", "return_dots", "pass", "open"}
AtMargin == {"def", "col0", "fence"}

\* The lines under the def at i, up to the next line at the margin.
BodyEnd(lines, i) ==
    LET margin == {j \in (i + 1)..Len(lines) : lines[j] \in AtMargin}
    IN  IF margin = {} THEN Len(lines) ELSE Min(margin) - 1
Body(lines, i) == {lines[j] : j \in (i + 1)..BodyEnd(lines, i)}

Defs(lines) == {i \in DOMAIN lines : lines[i] = "def"}

\* has_indented_merge_sorted_body gives up at the first def whose body ends
\* at the margin before a statement; a later def is then not looked at.
HasDef(lines) ==
    LET decided == {i \in Defs(lines) :
                        \/ Body(lines, i) \cap Statements # {}
                        \/ BodyEnd(lines, i) < Len(lines)}
    IN  decided # {} /\ Body(lines, Min(decided)) \cap Statements # {}

\* merge_sorted_body_has_return looks under every def.
HasReturn(lines) ==
    \E i \in Defs(lines) : Body(lines, i) \cap {"return", "return_dots"} # {}

\* extract_code_block: of the fenced bodies with a real def, the first with
\* a return, otherwise the first.
FencedBodies(lines) ==
    LET fences == {i \in DOMAIN lines : lines[i] = "fence"}
        nth(i) == Cardinality({j \in fences : j <= i})
        next(i) == Min({j \in fences : j > i})
    IN  [i \in {j \in fences : nth(j) % 2 = 1 /\ nth(j) < Cardinality(fences)} |->
            SubSeq(lines, i + 1, next(i) - 1)]

ExtractCodeBlock(lines) ==
    LET bodies == FencedBodies(lines)
        real == {i \in DOMAIN bodies : HasDef(bodies[i])}
        returning == {i \in real : HasReturn(bodies[i])}
    IN  CASE returning # {} -> bodies[Min(returning)]
          [] real # {}      -> bodies[Min(real)]
          [] OTHER          -> lines

ScoreCode(reply) ==
    LET code == ExtractCodeBlock(reply)
        balanced == Count(code, "open") = Count(code, "close")
        ellipsis == Count(code, "dots") + Count(code, "return_dots") > 0
    IN  IF ~HasDef(code) THEN 0
        ELSE IF HasReturn(code) /\ balanced /\ ~ellipsis THEN Full ELSE 30

=============================================================================
