------------------------------- MODULE McpWire ------------------------------
(***************************************************************************)
(* How the MCP server reads its standard input: read_message of            *)
(* src/mcp.rs.  A message is one line of JSON, or a block of headers, an   *)
(* empty line and a body of the length that Content-Length names; the two  *)
(* may follow one another on one stream.                                   *)
(*                                                                         *)
(* The stream is a sequence of pieces, each one byte long here: a JSON     *)
(* text, either half of one that is written over two lines, a newline, a   *)
(* blank, a Content-Length header, another header, or other text.          *)
(***************************************************************************)
EXTENDS Integers, SequencesExt

CONSTANT MaxMcpBytes    \* MAX_MCP_BYTES, in pieces

ASSUME MaxMcpBytesAssumption == MaxMcpBytes \in Nat \ {0}

Newline == [piece |-> "newline"]
Blank == [piece |-> "blank"]
OtherHeader == [piece |-> "header"]
Text(m) == [piece |-> "text", of |-> m]
Half(n, m) == [piece |-> "half", half |-> n, of |-> m]
ContentLength(n) == [piece |-> "length", length |-> n]   \* -1: not a number

\* The pieces of a stream whose texts are of the messages in M.
Pieces(M) ==
    [piece : {"newline", "blank", "header"}] \cup [piece : {"text"}, of : M]
      \cup [piece : {"half"}, half : {1, 2}, of : M] \cup [piece : {"length"}, length : Int]

IsBlank(x) == x \in {Newline, Blank}
Solid(s) == {i \in 1 .. Len(s) : ~IsBlank(s[i])}

\* Blanks are dropped everywhere, which no text here can tell from a trim.
\* serde_json reads s as one value: what it says, or nothing.
Parsed(s) ==
    {s[i].of : i \in {k \in Solid(s) : s[k].piece = "text" /\ Solid(s) = {k}}}
      \cup {s[i].of : i \in {k \in Solid(s) :
                /\ s[k].piece = "half" /\ s[k].half = 1
                /\ \E l \in Solid(s) : /\ k < l /\ Solid(s) = {k, l}
                                      /\ s[l] = Half(2, s[k].of)}}

\* The outcomes of a read; rest is what is left of the stream.
EndOfInput == [is |-> "eof"]
ReadFails == [is |-> "error"]
Message(m, rest) == [is |-> "message", message |-> m, rest |-> rest]
FromParse(s, rest) ==
    IF Parsed(s) = {} THEN ReadFails ELSE Message(CHOOSE m \in Parsed(s) : TRUE, rest)

\* Where the lines begin, and where the line that begins at i ends: with its
\* newline, or with the stream.
Starts(s) == {i \in 1 .. Len(s) : i = 1 \/ s[i - 1] = Newline}
LineEnd(s, i) == Min({j \in i .. Len(s) : s[j] = Newline \/ j = Len(s)})
LineFrom(s, i) == SubSeq(s, i, LineEnd(s, i))
TooLong(s, i) == Len(LineFrom(s, i)) > MaxMcpBytes
After(s, i) == SubSeq(s, i + 1, Len(s))

\* A Content-Length header stands at the start of its line, and the last one
\* counts, whether or not what follows is a number.
Lengths(headers) ==
    {i \in 1 .. Len(headers) : headers[i].piece = "length" /\ (i = 1 \/ headers[i - 1] = Newline)}
LengthOf(headers) ==
    IF Lengths(headers) = {} THEN -1
    ELSE LET i == Max(Lengths(headers)) IN
         IF i < Len(headers) /\ ~IsBlank(headers[i + 1]) THEN -1 ELSE headers[i].length

\* A slip: the body is read to the end of its line.
ReadBodyLine(headers, s) ==
    IF LengthOf(headers) \notin 0 .. MaxMcpBytes \/ LengthOf(headers) > Len(s) \/ s = <<>>
    THEN ReadFails
    ELSE FromParse(LineFrom(s, 1), After(s, LineEnd(s, 1)))

ReadBody(headers, s) ==
    LET n == LengthOf(headers) IN
    IF n \notin 0 .. MaxMcpBytes \/ n > Len(s) THEN ReadFails
    ELSE FromParse(SubSeq(s, 1, n), After(s, n))

\* read_content_length_body: the headers begin at i and end before the first
\* empty line.
ReadHeaders(s, i) ==
    LET stops == {j \in Starts(s) : j > i /\ (TooLong(s, j) \/ s[j] = Newline)} IN
    IF stops = {} \/ TooLong(s, Min(stops)) THEN ReadFails
    ELSE ReadBody(SubSeq(s, i, Min(stops) - 1), After(s, Min(stops)))

\* read_message: the lines of blanks are passed over, if they are not too long.
OpensValue(x) == x.piece = "text" \/ (x.piece = "half" /\ x.half = 1)
ReadMessage(s) ==
    LET stops == {i \in Starts(s) : TooLong(s, i) \/ Solid(LineFrom(s, i)) # {}}
        line == LineFrom(s, Min(stops))
    IN  IF stops = {} THEN EndOfInput
        ELSE IF TooLong(s, Min(stops)) THEN ReadFails
        ELSE IF OpensValue(line[Min(Solid(line))])
        THEN FromParse(line, After(s, LineEnd(s, Min(stops))))
        ELSE ReadHeaders(s, Min(stops))
=============================================================================
