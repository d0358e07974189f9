----------------------------- MODULE TextGraders -----------------------------
(***************************************************************************)
(* The graders that read a reply's text: json_output.rs (the capital of    *)
(* France), multi_turn_memory.rs, system_message_adherence.rs,             *)
(* token_efficiency.rs, max_tokens_compliance.rs, context_ladder.rs and    *)
(* context_faithfulness.rs, vision.rs and xml_fallback.rs.                 *)
(*                                                                         *)
(* A reply is the sequence of the pieces a grader tells apart; pieces are  *)
(* separated by single spaces unless a piece says otherwise.  The phrase   *)
(* tables of a grader are one piece per kind of phrase.                    *)
(***************************************************************************)
EXTENDS ProbeReplies, FiniteSets, SequencesExt

Holds(said, piece) == piece \in ToSet(said)

-----------------------------------------------------------------------------
(* instruction_following: "fence" is a line of three back quotes.  A fence *)
(* that is not closed is left where it is and counts as a word.            *)

PeelOneFence(said) ==
    IF Len(said) > 1 /\ Head(said) = "fence" /\ Last(said) = "fence"
    THEN SubSeq(said, 2, Len(said) - 1) ELSE said

ScoreCapital(said) ==
    LET words == PeelOneFence(said)
    IN  IF words = <<"Paris">> THEN Full
        ELSE IF Len(words) \in 1..4 THEN 30 ELSE 0

\* multi_turn_memory: the code is ZEPHYR then 4829, whatever dashes and
\* blanks are between them; a refusal anywhere outweighs it.
ScoreMemory(said) ==
    LET whole == \E i \in 1..(Len(said) - 1) : said[i] = "ZEPHYR" /\ said[i + 1] = "4829"
    IN  IF Holds(said, "refusal") THEN 0
        ELSE IF whole THEN Full
        ELSE IF Holds(said, "ZEPHYR") \/ Holds(said, "4829") THEN 30 ELSE 0

\* system_message_adherence: "STATUS:ok", then one integer and nothing else.
ScoreStatus(said) ==
    LET hasPrefix == said # <<>> /\ Head(said) = "STATUS:ok"
    IN  IF said = <<"STATUS:ok", "integer">> THEN Full
        ELSE IF hasPrefix \/ said = <<"integer">> THEN 30 ELSE 0

\* token_efficiency and max_tokens_compliance read only a reply's size.
\* Its pieces are numbers of characters, and a blank reply has none.
Chars(said) == FoldLeft(+, 0, said)
Tokens(said) == (Chars(said) + 3) \div 4

ScoreTokens(said) ==
    CASE said = <<>>         -> 0
      [] Tokens(said) <= 10  -> Full
      [] Tokens(said) <= 50  -> 30
      [] OTHER               -> 0

ScoreBudget(said, finish) ==
    CASE finish = "Length"    -> Full
      [] said = <<>>          -> 0
      [] Chars(said) > 800    -> 0
      [] Chars(said) <= 400   -> Full
      [] OTHER                -> 30

\* Both refuse only a safety stop and a reply cut before its first character.
BudgetRefusals(said, finish) ==
    IF finish = "Safety" \/ (finish = "Length" /\ said = <<>>)
    THEN IncompleteRefusals(finish, 0) ELSE {}

-----------------------------------------------------------------------------
(* The planted facts.  "nl" ends a line and "comma" is punctuation.  "s"   *)
(* is the letter alone, "so" a word that begins with it.                   *)

Breaks == {"nl", "comma"}

\* fold_marker drops blanks and dashes before contains_bounded looks, so a
\* word on the same line is glued to the code.
RecallsWarehouse(said) ==
    \E i \in DOMAIN said :
        /\ said[i] = "WH-4481"
        /\ i > 1 => said[i - 1] \in Breaks
        /\ i < Len(said) => said[i + 1] \in Breaks

RecallsProtocol(said) == Holds(said, "proto-9.2.11")

\* What follows a number once blanks, commas and line ends are gone.
Compact(said) == SelectSeq(said, LAMBDA w : w \notin Breaks)
Behind(said, number, words) ==
    LET text == Compact(said)
    IN  \E i \in 1..(Len(text) - 1) : text[i] = number /\ text[i + 1] \in words

HasUnit(said, units) == \E u \in units : Holds(said, u)

CompactSeconds(said, number) ==
    Behind(said, number, {"s", "so", "seconds"}) /\ ~Behind(said, number, {"ms"})

OtherUnits(said, number) ==
    HasUnit(said, {"seconds", "minutes", "hours"}) \/ CompactSeconds(said, number)

\* 2840 with another unit is a different fact, even beside milliseconds.
\* 2.84 counts as seconds, or named as the heartbeat with no other unit.
\* With the bare letter s it has to be the whole reply: once the blanks are
\* gone, contains_bounded takes a neighbour for a part of the number.
RecallsHeartbeat(said) ==
    LET inSeconds == Compact(said) = <<"2.84", "s">>
        named == Holds(said, "heartbeat") /\ ~HasUnit(said, {"ms", "minutes", "hours"})
    IN  IF Holds(said, "2840") THEN ~OtherUnits(said, "2840")
        ELSE inSeconds \/ (Holds(said, "2.84") /\ (Holds(said, "seconds") \/ named))

\* count_recalled_facts: the hits of one rung of the ladder.
Hit(recalled) == IF recalled THEN 1 ELSE 0

RecalledFacts(said) ==
    Hit(RecallsWarehouse(said)) + Hit(RecallsProtocol(said)) + Hit(RecallsHeartbeat(said))

\* The retired context_faithfulness probe asks for three other facts and is
\* laxer: milliseconds anywhere settle 1750, and a glued s settles 1.75.
RecallsTimeout(said) ==
    LET named == Holds(said, "timeout") /\ ~HasUnit(said, {"ms", "minutes", "hours"})
    IN  IF Holds(said, "1750") THEN Holds(said, "ms") \/ ~OtherUnits(said, "1750")
        ELSE \/ Behind(said, "1.75", {"s", "so", "seconds"})
             \/ Holds(said, "1.75") /\ (Holds(said, "seconds") \/ named)

ScoreFaithfulness(said) ==
    20 * (Hit(Holds(said, "9847")) + Hit(Holds(said, "3.7.42")) + Hit(RecallsTimeout(said)))

-----------------------------------------------------------------------------
(* vision: which of the grader's phrase tables each piece falls into.  The *)
(* tables overlap: a refusal to read letters still names letters.          *)

PhraseTables ==
    [BL           |-> {"identified"},
     black        |-> {"surface"},
     text         |-> {"surface"},
     letters      |-> {"glyphs"},
     cannot       |-> {"refused", "denies"},
     no_letters   |-> {"negated", "refused", "glyphs"},
     do_not_see   |-> {"negated", "denies"},
     cannot_read  |-> {"leftover", "refused", "denies"},
     unreadable   |-> {"leftover"},
     make_out     |-> {"make_out", "refused", "denies"},
     font         |-> {"font"},
     the_question |-> {"echo", "surface", "glyphs"},
     the_rule     |-> {"echo", "glyphs"},
     NONE         |-> {},
     other        |-> {}]

Tables(said) == UNION {PhraseTables[p] : p \in ToSet(said)}

\* A refusal that only hedges about the font is none.
Refused(t) == "refused" \in t /\ ~{"font", "denies"} \subseteq t

ScoreVision(said) ==
    LET t == Tables(said)
        unread == t \cap {"make_out", "leftover"} # {}
        read == "identified" \in t /\ "negated" \notin t /\ ~unread
        partly == /\ "negated" \notin t
                  /\ "glyphs" \in t \/ ("surface" \in t /\ unread)
    IN  IF said = <<"NONE">> THEN 0
        ELSE IF read THEN Full
        ELSE IF "echo" \in t THEN 0
        ELSE IF partly \/ ("surface" \in t /\ ~Refused(t)) THEN 30 ELSE 0

-----------------------------------------------------------------------------
(* xml_tool_calling: "open" and "close" are the tool_call tags, name_* one *)
(* name element, args_* one arguments element: with a usable path, without *)
(* one, the card's own example, not parseable but meant, "args_open" its   *)
(* opening tag and a brace.                                                *)

NamePieces == {"name_read", "name_card", "name_blank"}
ArgsPieces == {"args_path", "args_empty", "args_card", "args_broken", "args_open"}

\* The first element of a kind within a span, "none" when there is none.
FirstOf(span, pieces) ==
    LET i == SelectInSeq(span, LAMBDA p : p \in pieces)
    IN  IF i = 0 THEN "none" ELSE span[i]

\* The first arguments element.  An opening tag takes its end from the next
\* whole element, and its text is then no JSON: broken, or the card's.
ArgsOf(span) ==
    LET i == SelectInSeq(span, LAMBDA p : p \in ArgsPieces)
        rest == SubSeq(span, i + 1, Len(span))
        closer == FirstOf(rest, ArgsPieces \ {"args_open"})
    IN  CASE i = 0                      -> "none"
          [] span[i] # "args_open"      -> span[i]
          [] closer = "none"            -> "none"
          [] closer = "args_card"       -> "card_text"
          [] OTHER                      -> "args_broken"

\* The spans between an opening tag and the next closing tag, in order.
\* An opening tag inside a span is part of it.
TakeTag(st, p) ==
    IF st.inside
    THEN IF p = "close"
         THEN [st EXCEPT !.inside = FALSE, !.blocks = Append(@, st.span)]
         ELSE [st EXCEPT !.span = Append(@, p)]
    ELSE IF p = "open" THEN [st EXCEPT !.inside = TRUE, !.span = <<>>] ELSE st

NoTag == [inside |-> FALSE, span |-> <<>>, blocks |-> <<>>]

Spans(said) ==
    LET upTo[i \in 0..Len(said)] == IF i = 0 THEN NoTag ELSE TakeTag(upTo[i - 1], said[i])
    IN  upTo[Len(said)]

\* parse_xml_tool_block: the first block that is a real read, otherwise the
\* first that parses at all.
Parses(span) ==
    /\ FirstOf(span, NamePieces) # "none"
    /\ ArgsOf(span) \in {"args_path", "args_empty", "args_card"}

RealRead(span) == FirstOf(span, NamePieces) = "name_read" /\ ArgsOf(span) = "args_path"

ParsedBlock(blocks) ==
    LET real == SelectInSeq(blocks, RealRead)
    IN  blocks[IF real # 0 THEN real ELSE SelectInSeq(blocks, Parses)]

CardEcho(span) ==
    /\ ArgsOf(span) # "args_path"
    /\ FirstOf(span, NamePieces) = "name_card" \/ ArgsOf(span) = "args_card"

ScoreParsed(span) ==
    IF FirstOf(span, NamePieces) = "name_blank" \/ CardEcho(span) THEN 0
    ELSE IF RealRead(span) THEN Full ELSE 42

\* No block parses: an attempt at read_file that opened its arguments.
\* Without a closing tag anywhere, a read_file that does not repeat the card.
Attempt(span) ==
    Holds(span, "name_read") /\ ArgsOf(span) \in {"args_path", "args_empty", "args_broken"}
OpenAttempt(span) ==
    Holds(span, "name_read") /\ ArgsOf(span) \notin {"args_card", "card_text"}

AfterOpen(said) ==
    SubSeq(said, SelectInSeq(said, LAMBDA p : p = "open") + 1, Len(said))

ScoreXml(said) ==
    LET st == Spans(said)
        first == IF st.blocks # <<>> THEN Head(st.blocks) ELSE AfterOpen(said)
        parsed == \E b \in ToSet(st.blocks) : Parses(b)
        opened == Holds(said, "open")
        closed == Holds(said, "close")
    IN  IF ~opened THEN 0
        ELSE IF closed /\ parsed THEN ScoreParsed(ParsedBlock(st.blocks))
        ELSE IF IF closed THEN Attempt(first) ELSE OpenAttempt(AfterOpen(said))
             THEN 24 ELSE 0

=============================================================================
