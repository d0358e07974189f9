----------------------------- MODULE HostErrors -----------------------------
(***************************************************************************)
(* What the adapter makes of an error of its HTTP client: map_client_error *)
(* and redact_secrets of src/adapters/openai.rs, over the phrases that     *)
(* src/error.rs looks for.                                                 *)
(*                                                                         *)
(* A text is a sequence of pieces: words, which are runs of letters and    *)
(* digits, the prefix "sk-" that stands for the four prefixes of a key,    *)
(* and single marks.  "KEY" is the run of a secret.                        *)
(***************************************************************************)
EXTENDS ProbeErrors, SequencesExt

Space == " "
Separators == {":", "=", "'", Space}            \* ... and the quote and the backslash
TokenEnds == {Space, "'", ",", "}", "]", "&"}   \* ... and the quote
Marks == Separators \cup TokenEnds \cup {".", "/", "_", "-", "(", ")"}

\* A name is one piece, whatever marks are in it: authorization, x-api-key,
\* api-key, api_key and apikey.
Headers == {"authorization", "x-api-key"}
Redacted == "[REDACTED]"
RedactedKey == "sk-[REDACTED]"

EndsWord(x) == x \notin Marks \cup {"sk-"}      \* its last character is a letter or a digit
BeginsWord(x) == x \notin Marks

\* is_ascii_word_at.
Alone(text, i) ==
    /\ i > 1 => ~EndsWord(text[i - 1])
    /\ i < Len(text) => ~BeginsWord(text[i + 1])

HeaderAt(text, i) == text[i] \in Headers /\ Alone(text, i)
BearerAt(text, i) == text[i] = "bearer" /\ Alone(text, i)

\* One piece, in the mode that the pieces before it have left: plain text,
\* the separators after a header, the blanks after bearer, a token that is
\* dropped, or a key that is dropped.
Plain(text, i, out) ==
    CASE HeaderAt(text, i) -> [mode |-> "header", out |-> Append(out, text[i])]
      [] BearerAt(text, i) -> [mode |-> "bearer", out |-> Append(out, text[i])]
      [] text[i] = "sk-"   -> [mode |-> "key", out |-> Append(out, RedactedKey)]
      [] OTHER             -> [mode |-> "plain", out |-> Append(out, text[i])]

Token(text, i, out) ==
    IF text[i] \in TokenEnds THEN Plain(text, i, Append(out, Redacted))
    ELSE [mode |-> "token", out |-> Append(out, Redacted)]

OfKey(x) == x \notin Marks \ {"-", "_"}
Skips(mode, x) == (mode = "token" /\ x \notin TokenEnds) \/ (mode = "key" /\ OfKey(x))

\* A slip: what follows a header is dropped as one token, its scheme with it.
RedactStepBearer(text, r, i) ==
    LET x == text[i] IN
    IF r.mode \in {"header", "bearer"} /\ x \in Separators THEN [mode |-> r.mode, out |-> Append(r.out, x)]
    ELSE IF r.mode \in {"header", "bearer"} THEN Token(text, i, r.out)
    ELSE IF Skips(r.mode, x) THEN r ELSE Plain(text, i, r.out)

\* copy_separators and copy_whitespace.
Copies(mode, x) == (mode = "header" /\ x \in Separators) \/ (mode = "bearer" /\ x = Space)

RedactStep(text, r, i) ==
    LET x == text[i] IN
    IF Copies(r.mode, x) THEN [mode |-> r.mode, out |-> Append(r.out, x)]
    ELSE IF r.mode = "bearer" \/ (r.mode = "header" /\ ~BearerAt(text, i)) THEN Token(text, i, r.out)
    ELSE IF Skips(r.mode, x) THEN r ELSE Plain(text, i, r.out)

Redact(text) ==
    LET upTo[i \in 0 .. Len(text)] ==
            IF i = 0 THEN [mode |-> "plain", out |-> <<>>] ELSE RedactStep(text, upTo[i - 1], i)
    IN  upTo[Len(text)].out

----------------------------------------------------------------------------
(* Phrases.                                                                *)

Holds(text, phrase) ==
    \E i \in 0 .. (Len(text) - Len(phrase)) : SubSeq(text, i + 1, i + Len(phrase)) = phrase

Phrase(words) == FlattenSeq([i \in 1 .. Len(words) |-> IF i = 1 THEN <<words[i]>> ELSE <<Space, words[i]>>])

\* looks_like_model_not_found and looks_like_folded_not_found_display.
SaysNotFound(text) ==
    \/ Holds(text, Phrase(<<"does", "not", "exist">>))
    \/ Holds(text, Phrase(<<"unknown", "model">>)) \/ Holds(text, <<"model_not_found">>)
    \/ Holds(text, <<"model">>) /\ Holds(text, Phrase(<<"not", "found">>))
    \/ Holds(text, Phrase(<<"try", "pulling">>)) \/ Holds(text, Phrase(<<"http", "404">>))
    \/ Holds(text, <<"404">>) /\ Holds(text, Phrase(<<"not", "found">>))

\* looks_like_context_window.
SaysWindow(text) ==
    /\ ~Holds(text, Phrase(<<"tokens", "per", "min">>)) /\ ~Holds(text, Phrase(<<"rate", "limit">>))
    /\ ~Holds(text, Phrase(<<"rate", "limited">>))
    /\ \/ Holds(text, Phrase(<<"maximum", "context", "length">>))
       \/ Holds(text, Phrase(<<"request", "too", "large">>))

----------------------------------------------------------------------------
(* Errors.                                                                 *)

Failed(kind, text) == [kind |-> kind, text |-> text]

ConnectPrefix == Append(Phrase(<<"failed", "to", "connect">>), ":")

\* ProbeError::unreachable: the prefix that Display writes is not kept as well.
Unreachable(text) ==
    LET body == SubSeq(text, Len(ConnectPrefix) + 1, Len(text)) IN
    Failed("Unreachable",
           IF ~IsPrefix(ConnectPrefix, text) \/ body \in {<<>>, <<Space>>} THEN text
           ELSE IF Head(body) = Space THEN Tail(body) ELSE body)

LlmOrNotFound(text) ==
    LET t == Redact(text) IN Failed(IF SaysNotFound(t) THEN "NotFound" ELSE "Llm", t)

\* map_client_error; class is the variant of ClientError, connect its TransientKind.
MapClientError(e) ==
    CASE e.class \in {"Auth", "NotFound", "RateLimit"} -> Failed(e.class, Redact(e.text))
      [] e.class = "Transient" /\ e.connect -> Unreachable(Redact(e.text))
      [] e.class \in {"Vendor", "Map"} -> LlmOrNotFound(e.text)
      [] OTHER -> Failed("Transient", Redact(e.text))

RateLimited == Phrase(<<"rate", "limited">>)

\* The Display of an error, where its own words can be searched for.
Display(e) ==
    CASE e.kind = "RateLimit" ->
             IF e.text \in {<<>>, RateLimited} THEN RateLimited
             ELSE RateLimited \o <<":", Space>> \o e.text
      [] e.kind = "Unreachable" -> ConnectPrefix \o <<Space>> \o e.text
      [] OTHER -> e.text
=============================================================================
