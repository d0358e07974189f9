----------------------------- MODULE EditGraders -----------------------------
(***************************************************************************)
(* search_replace and unified_diff: src/probes/edit_format.rs.  A reply is *)
(* read by lines; whether a line holds code is decided by its characters,  *)
(* and whether code defines the function by the tokens of its signature.   *)
(***************************************************************************)
EXTENDS ProbeReplies, FiniteSets, SequencesExt

Holds(lines, piece) == piece \in ToSet(lines)

-----------------------------------------------------------------------------
(* SEARCH/REPLACE blocks.  "start", "sep" and "end" are the marker lines,  *)
(* "path" names greet.rs and "other_path" another file, "dash" is the      *)
(* card's separator.  "old_fn" holds fn greet and "old_hello" Hello, "old" *)
(* both; "new" holds fn welcome and Welcome.                               *)

Paths == {"path", "other_path"}

\* The first line of a kind from a position on, 0 when there is none.
NextLine(lines, from, kind) ==
    LET hits == {j \in from..Len(lines) : lines[j] = kind}
    IN  IF hits = {} THEN 0 ELSE Min(hits)

\* The separator and the end are searched with the line end before them, so
\* neither is seen right below the marker above it; the separator also has
\* to be followed by a line.
SepAfter(lines, start) ==
    LET j == NextLine(lines, start + 2, "sep") IN IF j < Len(lines) THEN j ELSE 0
EndAfter(lines, sep) == NextLine(lines, sep + 2, "end")

\* split_path_and_search and path_line_before: the path on the first line,
\* otherwise the last one above the block.
PathAbove(lines, start) ==
    LET above == {j \in 1..(start - 1) : lines[j] \in Paths}
    IN  IF above = {} THEN "none" ELSE lines[Max(above)]

Block(lines, start, sep, end) ==
    LET header == SubSeq(lines, start + 1, sep - 1)
    IN  [path    |-> IF Head(header) \in Paths THEN Head(header) ELSE PathAbove(lines, start),
         search  |-> ToSet(header),
         replace |-> ToSet(SubSeq(lines, sep + 1, end - 1))]

\* parse_search_replace_blocks.  A block that is not closed is left out and
\* the search goes on behind its separator.
ParsedBlocks(lines) ==
    LET from[i \in 1..(Len(lines) + 1)] ==
            LET start == NextLine(lines, i, "start")
                sep == IF start = 0 THEN 0 ELSE SepAfter(lines, start)
                end == IF sep = 0 THEN 0 ELSE EndAfter(lines, sep)
            IN  IF start = 0 THEN {}
                ELSE IF sep = 0 THEN from[start + 1]
                ELSE IF end = 0 THEN from[sep + 1]
                ELSE {Block(lines, start, sep, end)} \cup from[end + 1]
    IN  from[1]

WholeOld(search) == "old" \in search \/ {"old_fn", "old_hello"} \subseteq search
HasOld(b) == WholeOld(b.search)
HasNew(b) == "new" \in b.replace

ScoreBlock(b) ==
    IF b.path = "path" /\ HasOld(b) /\ HasNew(b) THEN Full
    ELSE IF HasOld(b) \/ HasNew(b) THEN 42 ELSE 24

\* Blocks may share the edit between them, down to its two halves.
EditIsShared(blocks) ==
    /\ \E b \in blocks : b.path = "path"
    /\ WholeOld(UNION {b.search : b \in blocks})
    /\ \E b \in blocks : HasNew(b)

ScoreSearchReplace(lines) ==
    LET blocks == ParsedBlocks(lines)
        markers == {m \in {"start", "sep", "end"} : Holds(lines, m)}
    IN  IF markers = {"start", "sep", "end"}
        THEN IF EditIsShared(blocks) THEN Full
             ELSE Max({24} \cup {ScoreBlock(b) : b \in blocks})
        ELSE IF markers \cap {"start", "end"} # {} THEN 24 ELSE 0

-----------------------------------------------------------------------------
(* Unified diffs.  "---" and "+++" are the header lines of greet.rs,       *)
(* "--- other" one of another file, "@@" a hunk header; "-old" removes     *)
(* fn greet and Hello, "+new" adds fn welcome and Welcome, "-other" and    *)
(* "+other" change other code, "-comment" only a comment; "-removed line"  *)
(* and "+added line" are the words of the format card.                     *)

DiffHas(lines, kinds) == \E l \in ToSet(lines) : l \in kinds

RealEdit(lines) ==
    /\ DiffHas(lines, {"---", "+++"})
    /\ DiffHas(lines, {"-old"}) /\ DiffHas(lines, {"+new"})

DiffCardEcho(lines) ==
    DiffHas(lines, {"-removed line"}) /\ DiffHas(lines, {"+added line"})

ScoreDiff(lines) ==
    LET headers == DiffHas(lines, {"---", "--- other"}) /\ DiffHas(lines, {"+++"})
        hunk == DiffHas(lines, {"@@"})
        changes == /\ DiffHas(lines, {"-old", "-other", "-removed line"})
                   /\ DiffHas(lines, {"+new", "+other", "+added line"})
    IN  IF DiffCardEcho(lines) /\ ~RealEdit(lines) THEN 0
        ELSE IF headers /\ hunk /\ changes /\ RealEdit(lines) THEN Full
        ELSE IF (headers \/ hunk) /\ changes THEN 30 ELSE 0

-----------------------------------------------------------------------------
(* The characters: "q" and "d" the quotation marks, "r" the raw prefix,    *)
(* "h" the hash, "/" and "*", "b" a backslash, "n" a line end and "x" any  *)
(* other letter.  Python's triple quotes and the prefixes of byte strings  *)
(* read like the quotes they begin with and are left out.                  *)

\* raw_string_end: unclosed, it runs to the end of the text.
HashesAt(text, i) ==
    LET runs == {k \in 0..(Len(text) + 1 - i) : \A j \in i..(i + k - 1) : text[j] = "h"}
    IN  Max(runs)

RawEnd(text, i) ==
    LET hashes == HashesAt(text, i + 1)
        quote == i + 1 + hashes
        closers == {j \in (quote + 1)..(Len(text) - hashes) :
                        text[j] = "d" /\ HashesAt(text, j + 1) >= hashes}
    IN  CASE text[i] # "r" \/ (i > 1 /\ text[i - 1] \in {"r", "x"})  -> 0
          [] quote > Len(text)                                    -> 0
          [] text[quote] # "d"                                    -> 0
          [] closers = {}                                         -> Len(text) + 1
          [] OTHER                                                -> Min(closers) + hashes + 1

\* escaped_string_end: stops before a line end.
StringEnd(text, i) ==
    LET end[j \in (i + 1)..(Len(text) + 2)] ==
            CASE j > Len(text)     -> Len(text) + 1
              [] text[j] = "b"     -> end[Min({j + 2, Len(text) + 1})]
              [] text[j] = "d"     -> j + 1
              [] text[j] = "n"     -> j
              [] OTHER             -> end[j + 1]
    IN  end[i + 1]

\* char_literal_end: one character or one escape between single quotes.
CharEnd(text, i) ==
    LET width == IF i + 1 <= Len(text) /\ text[i + 1] = "b" THEN 2 ELSE 1
        close == i + width + 1
    IN  CASE close > Len(text) \/ text[close] # "q"                 -> 0
          [] width = 1 /\ text[i + 1] \in {"n", "q"}               -> 0
          [] width = 2 /\ text[i + 2] = "n"                        -> 0
          [] OTHER                                                -> close + 1

\* single_quote_with_comment_mark_end: a quoted span on one line counts only
\* when it hides a comment mark; otherwise it is a lifetime.
QuotedEnd(text, i) ==
    LET close[j \in (i + 1)..(Len(text) + 2)] ==
            CASE j > Len(text)                -> 0
              [] text[j] = "n"                -> 0
              [] text[j] = "b"                ->
                     close[IF j < Len(text) /\ text[j + 1] # "n" THEN j + 2 ELSE j + 1]
              [] text[j] = "q"                -> j
              [] OTHER                        -> close[j + 1]
        marks == {j \in (i + 1)..(close[i + 1] - 1) :
                     \/ text[j] = "h"
                     \/ text[j] = "/" /\ text[j + 1] \in {"/", "*"}}
    IN  IF close[i + 1] # 0 /\ marks # {} THEN close[i + 1] + 1 ELSE 0

\* literal_end, 0 when no literal starts here.
LiteralEnd(text, i) ==
    CASE RawEnd(text, i) # 0                        -> RawEnd(text, i)
      [] text[i] = "d"                              -> StringEnd(text, i)
      [] text[i] = "q" /\ CharEnd(text, i) # 0       -> CharEnd(text, i)
      [] text[i] = "q" /\ CharEnd(text, i) = 0       -> QuotedEnd(text, i)
      [] OTHER                                      -> 0

\* Where a comment that starts here ends, 0 when none starts.  #[ and #! are
\* attributes; they need a character this alphabet leaves out.
LineEnd(text, i) ==
    LET ends == {j \in i..Len(text) : text[j] = "n"}
    IN  IF ends = {} THEN Len(text) + 1 ELSE Min(ends)

BlockEnd(text, i) ==
    LET closers == {j \in (i + 2)..(Len(text) - 1) : text[j] = "*" /\ text[j + 1] = "/"}
    IN  IF closers = {} THEN Len(text) + 1 ELSE Min(closers) + 2

Pair(text, i, second) == i < Len(text) /\ text[i] = "/" /\ text[i + 1] = second

LineComment(text, i) == text[i] = "h" \/ Pair(text, i, "/")

\* The walk of both passes: jumps over what was consumed.
Walk(step(_, _), text) ==
    FoldLeft(LAMBDA st, i : IF i < st.next THEN st ELSE step(st, i),
             [out |-> <<>>, next |-> 1], [i \in 1..Len(text) |-> i]).out

\* drop_rest_of_line: a line left blank goes with its line end.
DropLine(text, st, i) ==
    LET end == LineEnd(text, i)
        start == SelectLastInSeq(st.out, LAMBDA c : c = "n")
        blank == start = Len(st.out)
    IN  CASE blank              -> [st EXCEPT !.next = end + 1]
          [] ~blank /\ end > Len(text) -> [st EXCEPT !.next = end]
          [] OTHER              -> [out |-> Append(st.out, "n"), next |-> end + 1]

\* strip_comments: literals are kept as they are.
CommentStep(text, st, i) ==
    LET literal == LiteralEnd(text, i)
    IN  CASE literal # 0           -> [out |-> st.out \o SubSeq(text, i, literal - 1), next |-> literal]
          [] literal = 0 /\ LineComment(text, i)    -> DropLine(text, st, i)
          [] literal = 0 /\ Pair(text, i, "*")      -> [st EXCEPT !.next = BlockEnd(text, i)]
          [] OTHER                 -> [out |-> Append(st.out, text[i]), next |-> i + 1]

StripComments(text) == Walk(LAMBDA st, i : CommentStep(text, st, i), text)

\* mask_literals: a literal becomes blanks.
MaskStep(text, st, i) ==
    IF LiteralEnd(text, i) # 0
    THEN [out |-> st.out \o [k \in 1..(LiteralEnd(text, i) - i) |-> "blank"],
          next |-> LiteralEnd(text, i)]
    ELSE [out |-> Append(st.out, text[i]), next |-> i + 1]

MaskLiterals(text) == Walk(LAMBDA st, i : MaskStep(text, st, i), text)

\* has_code_fn_token looks for the function in what both passes leave.
CodeSeen(text) ==
    SelectSeq(MaskLiterals(StripComments(text)), LAMBDA c : c \notin {"blank", "n"})

\* What they are for, in one walk over the text: what is in no comment and
\* in no literal.
CodeStep(text, st, i) ==
    LET literal == LiteralEnd(text, i)
    IN  CASE literal # 0 -> [st EXCEPT !.next = literal]
          [] literal = 0 /\ LineComment(text, i) -> [st EXCEPT !.next = LineEnd(text, i)]
          [] literal = 0 /\ Pair(text, i, "*") -> [st EXCEPT !.next = BlockEnd(text, i)]
          [] OTHER -> [out |-> Append(st.out, text[i]), next |-> i + 1]

PlainCode(text) ==
    SelectSeq(Walk(LAMBDA st, i : CodeStep(text, st, i), text), LAMBDA c : c # "n")

=============================================================================
