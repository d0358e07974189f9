-------------------------- MODULE CanactHostProofs --------------------------
(***************************************************************************)
(* Theorems about CanactHost: which host is asked with which key, who is   *)
(* asked for a login, and what the caller is told, for any sessions.       *)
(***************************************************************************)
EXTENDS CanactHost, FiniteSetTheorems, TLAPS

\* A set of naturals that is not empty has a least element.
LEMMA LeastNat ==
    ASSUME NEW T, T \subseteq Nat, T # {}
    PROVE  \E x \in T : \A y \in T : x <= y
<1>1. ASSUME NEW R, IsWellFoundedOn(R, Nat), \A x, y \in Nat : y < x => <<y, x>> \in R
      PROVE  \E x \in T : \A y \in T : x <= y
  <2>1. PICK x \in T : \A y \in T : ~(<<y, x>> \in R)
    BY <1>1, WFMin
  <2>2. ASSUME NEW y \in T PROVE x <= y
    <3>1. x \in Nat /\ y \in Nat /\ ~(<<y, x>> \in R)
      BY <2>1
    <3>2. ~(y < x)
      BY <1>1, <3>1, Zenon
    <3> QED
      BY <3>1, <3>2
  <2> QED
    BY <2>2
<1> DEFINE R == OpToRel(<, Nat)
<1>2. IsWellFoundedOn(R, Nat)
  BY NatLessThanWellFounded
<1>3. \A x, y \in Nat : y < x => <<y, x>> \in R
  BY DEF OpToRel
<1> HIDE DEF R
<1> QED
  BY <1>1, <1>2, <1>3

----------------------------------------------------------------------------
(* What is read is what was sent.                                          *)

\* A slice of a sequence is a sequence of the same kind.
LEMMA SliceIn ==
    ASSUME NEW S, NEW s \in Seq(S), NEW a \in Nat, NEW b \in Nat, a >= 1, b <= Len(s)
    PROVE  SubSeq(s, a, b) \in Seq(S)
OBVIOUS

\* Min of a set of naturals is one of its elements.
LEMMA MinIn ==
    ASSUME NEW T, T \subseteq Nat, T # {}
    PROVE  Min(T) \in T
<1>1. PICK x \in T : \A y \in T : x <= y
  BY LeastNat
<1>2. \E x2 \in T : \A y \in T : x2 =< y
  BY <1>1
<1> QED
  BY <1>2, Zenon DEF Min

\* What a piece that is a text says is a message.
LEMMA PieceSays ==
    ASSUME NEW M, NEW x \in Pieces(M), x.piece \in {"text", "half"}
    PROVE  x.of \in M
BY DEF Pieces

\* A text that is read as one value is one that was sent.
LEMMA ParsedIn ==
    ASSUME NEW M, NEW s \in Seq(Pieces(M)), NEW m \in Parsed(s)
    PROVE  m \in M
<1>1. PICK i \in Solid(s) : s[i].piece \in {"text", "half"} /\ m = s[i].of
  BY DEF Parsed
<1>2. s[i] \in Pieces(M)
  BY DEF Solid
<1> QED
  BY <1>1, <1>2, PieceSays

\* The outcomes of reading a stream of M's messages: what is heard is one of
\* them, and what is left is such a stream.
Heard(M) ==
    [is : {"eof", "error"}] \cup [is : {"message"}, message : M, rest : Seq(Pieces(M))]

LEMMA FromParseHears ==
    ASSUME NEW M, NEW s \in Seq(Pieces(M)), NEW r \in Seq(Pieces(M))
    PROVE  FromParse(s, r) \in Heard(M)
<1>1. CASE Parsed(s) = {}
  BY <1>1 DEF FromParse, ReadFails, Heard
<1>2. CASE Parsed(s) # {}
  <2> DEFINE m == CHOOSE m \in Parsed(s) : TRUE
  <2>1. m \in Parsed(s)
    BY <1>2
  <2>2. m \in M
    BY <2>1, ParsedIn
  <2>3. FromParse(s, r) = Message(m, r)
    BY <1>2 DEF FromParse
  <2> HIDE DEF m
  <2> QED
    BY <2>2, <2>3 DEF Message, Heard
<1> QED
  BY <1>1, <1>2

\* A line ends in the stream.
LEMMA LineEnds ==
    ASSUME NEW S, NEW s \in Seq(S), NEW i \in 1 .. Len(s)
    PROVE  LineEnd(s, i) \in i .. Len(s)
<1> DEFINE ends == {j \in i .. Len(s) : s[j] = Newline \/ j = Len(s)}
<1>1. Len(s) \in ends /\ ends \subseteq Nat
  OBVIOUS
<1> HIDE DEF ends
<1>2. Min(ends) \in ends
  BY <1>1, MinIn
<1> QED
  BY <1>2 DEF LineEnd, ends

LEMMA BodyHears ==
    ASSUME NEW M, NEW h, NEW s \in Seq(Pieces(M))
    PROVE  ReadBody(h, s) \in Heard(M)
<1> DEFINE n == LengthOf(h)
<1> HIDE DEF n
<1>1. CASE n \notin 0 .. MaxMcpBytes \/ n > Len(s)
  BY <1>1 DEF ReadBody, ReadFails, Heard, n
<1>2. CASE ~(n \notin 0 .. MaxMcpBytes \/ n > Len(s))
  <2>1. n \in Nat /\ n <= Len(s) /\ Len(s) \in Nat
    BY <1>2, MaxMcpBytesAssumption
  <2>2. SubSeq(s, 1, n) \in Seq(Pieces(M))
    BY <2>1, SliceIn
  <2>3. After(s, n) \in Seq(Pieces(M))
    BY <2>1, SliceIn DEF After
  <2>4. ReadBody(h, s) = FromParse(SubSeq(s, 1, n), After(s, n))
    BY <1>2 DEF ReadBody, n
  <2> QED
    BY <2>2, <2>3, <2>4, FromParseHears
<1> QED
  BY <1>1, <1>2

LEMMA HeadersHear ==
    ASSUME NEW M, NEW s \in Seq(Pieces(M)), NEW i \in 1 .. Len(s)
    PROVE  ReadHeaders(s, i) \in Heard(M)
<1> DEFINE stops == {j \in Starts(s) : j > i /\ (TooLong(s, j) \/ s[j] = Newline)}
<1>1. stops \subseteq 1 .. Len(s) /\ stops \subseteq Nat
  BY DEF Starts
<1>2. ReadHeaders(s, i) =
        IF stops = {} \/ TooLong(s, Min(stops)) THEN ReadFails
        ELSE ReadBody(SubSeq(s, i, Min(stops) - 1), After(s, Min(stops)))
  BY DEF ReadHeaders
<1> HIDE DEF stops
<1>3. CASE stops = {} \/ TooLong(s, Min(stops))
  BY <1>2, <1>3 DEF ReadFails, Heard
<1>4. CASE ~(stops = {} \/ TooLong(s, Min(stops)))
  <2>1. Min(stops) \in stops
    BY <1>1, <1>4, MinIn
  <2>2. PICK n \in 1 .. Len(s) : n = Min(stops)
    BY <1>1, <2>1
  <2>3. After(s, n) \in Seq(Pieces(M))
    BY SliceIn DEF After
  <2> QED
    BY <1>2, <1>4, <2>2, <2>3, BodyHears
<1> QED
  BY <1>3, <1>4

\* read_message hears what was sent, whatever the stream is.
LEMMA ReadHears ==
    ASSUME NEW M, NEW s \in Seq(Pieces(M))
    PROVE  ReadMessage(s) \in Heard(M)
<1> DEFINE stops == {i \in Starts(s) : TooLong(s, i) \/ Solid(LineFrom(s, i)) # {}}
           line == LineFrom(s, Min(stops))
<1>1. stops \subseteq 1 .. Len(s) /\ stops \subseteq Nat
  BY DEF Starts
<1>2. ReadMessage(s) =
        IF stops = {} THEN EndOfInput
        ELSE IF TooLong(s, Min(stops)) THEN ReadFails
        ELSE IF OpensValue(line[Min(Solid(line))])
        THEN FromParse(line, After(s, LineEnd(s, Min(stops))))
        ELSE ReadHeaders(s, Min(stops))
  BY DEF ReadMessage
<1> HIDE DEF stops
<1>3. CASE stops = {} \/ TooLong(s, Min(stops))
  BY <1>2, <1>3 DEF ReadFails, EndOfInput, Heard
<1>4. CASE ~(stops = {} \/ TooLong(s, Min(stops)))
  <2>1. PICK i \in 1 .. Len(s) : i = Min(stops)
    BY <1>1, <1>4, MinIn
  <2>2. PICK j \in i .. Len(s) : j = LineEnd(s, i)
    BY LineEnds
  <2>3. line \in Seq(Pieces(M))
    BY <2>1, <2>2, SliceIn DEF LineFrom
  <2>4. After(s, LineEnd(s, Min(stops))) \in Seq(Pieces(M))
    BY <2>1, <2>2, SliceIn DEF After
  <2>5. FromParse(line, After(s, LineEnd(s, Min(stops)))) \in Heard(M)
    BY <2>3, <2>4, FromParseHears
  <2>6. ReadHeaders(s, Min(stops)) \in Heard(M)
    BY <2>1, HeadersHear
  <2> HIDE DEF line
  <2> QED
    BY <1>2, <1>4, <2>5, <2>6
<1> QED
  BY <1>3, <1>4

----------------------------------------------------------------------------
(* Hosts.                                                                  *)

\* A cloud's host is dialed under the name it has in the URL.
LEMMA CloudIsItself ==
    ASSUME NEW u, UrlHost(u) \in CloudHosts
    PROVE  /\ u.host = UrlHost(u)
           /\ DialedName(u.host) = u.host
           /\ u.host \notin Loopback
<1>1. UrlHost(u) \notin {"::1", ":", "127.1", "[::1]"} \cup Loopback
  BY DEF CloudHosts, OpenaiHosts, XaiHosts, GrokHosts, AnthropicHosts, GroqHosts, BedrockHosts, Loopback
<1>2. u.host = UrlHost(u)
  BY <1>1 DEF UrlHost, Bare
<1> QED
  BY <1>1, <1>2 DEF DialedName, Bare

\* The client that is built for a label and a base that do not conflict asks
\* the base's host, or the main host of the same vendor.
LEMMA DialsTheVendor ==
    ASSUME NEW p, NEW u, ~BaseConflict(p, u)
    PROVE  \/ /\ WireProfile(p, u) = "compat"
              /\ DialedHost(p, u) = DialedName(u.host)
           \/ \E hosts \in {GrokHosts, AnthropicHosts, GroqHosts, OpenaiHosts, BedrockHosts} :
                 /\ UrlHost(u) \in hosts
                 /\ DialedHost(p, u) \in hosts
<1>1. CASE WireProfile(p, u) = "anthropic"
  <2>1. DialedHost(p, u) = "api.anthropic.com"
    BY <1>1 DEF DialedHost, AnthropicUrl, Url
  <2>2. UrlHost(u) \in AnthropicHosts
    BY <1>1 DEF WireProfile
  <2> QED
    BY <2>1, <2>2 DEF AnthropicHosts
<1>2. CASE WireProfile(p, u) = "openai-codex"
  <2>1. DialedHost(p, u) = "api.openai.com"
    BY <1>2 DEF DialedHost, OpenaiUrl, Url
  <2>2. UrlHost(u) \in OpenaiHosts
    BY <1>2 DEF WireProfile, BaseConflict
  <2> QED
    BY <2>1, <2>2 DEF OpenaiHosts
<1>3. CASE WireProfile(p, u) \in {"xai-grok-build", "xai-grok-build-messages"}
  <2>1. DialedHost(p, u) = "cli-chat-proxy.grok.com"
    BY <1>3 DEF DialedHost, GrokBuildUrl, Url
  <2>2. UrlHost(u) \in GrokHosts
    BY <1>3 DEF WireProfile, BaseConflict
  <2> QED
    BY <2>1, <2>2 DEF GrokHosts
<1>4. CASE WireProfile(p, u) = "groq"
  <2>1. DialedHost(p, u) = "api.groq.com"
    BY <1>4 DEF DialedHost, GroqUrl, Url
  <2>2. UrlHost(u) \in GroqHosts
    BY <1>4 DEF WireProfile
  <2> QED
    BY <2>1, <2>2 DEF GroqHosts
<1>5. CASE WireProfile(p, u) = "amazon-bedrock"
  <2>1. DialedHost(p, u) = "bedrock-runtime.us-east-1.amazonaws.com"
    BY <1>5 DEF DialedHost, BedrockUrl, Url
  <2>2. UrlHost(u) \in BedrockHosts
    BY <1>5 DEF WireProfile
  <2> QED
    BY <2>1, <2>2 DEF BedrockHosts
<1>6. CASE WireProfile(p, u) = "compat"
  BY <1>6 DEF DialedHost
<1> QED
  BY <1>1, <1>2, <1>3, <1>4, <1>5, <1>6 DEF WireProfile

\* The vendors' hosts are cloud hosts.
LEMMA VendorsAreClouds ==
    \A hosts \in {XaiHosts, GrokHosts, AnthropicHosts, GroqHosts, OpenaiHosts, BedrockHosts} :
        hosts \subseteq CloudHosts
BY DEF CloudHosts

\* Where a request goes: to the vendor of the base's host, to this machine if
\* that is where the base is, and to no cloud if the base is none.
LEMMA DialsWhere ==
    ASSUME NEW p, NEW u, ~BaseConflict(p, u)
    PROVE  /\ SameVendor(DialedHost(p, u), DialedName(u.host))
           /\ UrlHost(u) \notin CloudHosts
                => WireProfile(p, u) = "compat" /\ DialedHost(p, u) \notin CloudHosts
           /\ {DialedName(u.host), Bare(u.host)} \subseteq Loopback => DialedHost(p, u) \in Loopback
<1>1. CASE /\ WireProfile(p, u) = "compat"
           /\ DialedHost(p, u) = DialedName(u.host)
  <2>1. UrlHost(u) \notin CloudHosts => DialedName(u.host) \notin CloudHosts
    <3>1. {"::1", "127.0.0.1"} \cap CloudHosts = {}
      BY DEF CloudHosts, OpenaiHosts, XaiHosts, GrokHosts, AnthropicHosts, GroqHosts, BedrockHosts
    <3> QED
      BY <3>1 DEF UrlHost, DialedName, Bare
  <2> QED
    BY <1>1, <2>1 DEF SameVendor
<1>2. CASE \E hosts \in {GrokHosts, AnthropicHosts, GroqHosts, OpenaiHosts, BedrockHosts} :
             /\ UrlHost(u) \in hosts
             /\ DialedHost(p, u) \in hosts
  <2>1. PICK hosts \in {GrokHosts, AnthropicHosts, GroqHosts, OpenaiHosts, BedrockHosts} :
               UrlHost(u) \in hosts /\ DialedHost(p, u) \in hosts
    BY <1>2
  <2>2. UrlHost(u) \in CloudHosts
    BY <2>1, VendorsAreClouds
  <2>3. DialedName(u.host) = UrlHost(u) /\ u.host \notin Loopback /\ u.host = UrlHost(u)
    BY <2>2, CloudIsItself
  <2>4. SameVendor(DialedHost(p, u), DialedName(u.host))
    BY <2>1, <2>3 DEF SameVendor
  <2> QED
    BY <2>2, <2>3, <2>4
<1> QED
  BY <1>1, <1>2, DialsTheVendor

----------------------------------------------------------------------------
(* Keys.                                                                   *)

LEMMA FirstOfTwo ==
    ASSUME NEW a, NEW b
    PROVE  FirstPresent(<<a, b>>) = IF a # "none" THEN a ELSE b
<1> DEFINE keys == <<a, b>>
           i == CHOOSE i \in 1 .. Len(keys) :
                  keys[i] # "none" /\ \A j \in 1 .. (i - 1) : keys[j] = "none"
<1>1. Len(keys) = 2 /\ keys[1] = a /\ keys[2] = b
  OBVIOUS
<1>2. FirstPresent(keys) =
        IF \E k \in 1 .. Len(keys) : keys[k] # "none" THEN keys[i] ELSE "none"
  BY DEF FirstPresent
<1> HIDE DEF keys
<1>3. CASE a # "none"
  <2>1. \E k \in 1 .. Len(keys) : keys[k] # "none" /\ \A j \in 1 .. (k - 1) : keys[j] = "none"
    BY <1>1, <1>3
  <2>2. i \in 1 .. Len(keys) /\ keys[i] # "none" /\ \A j \in 1 .. (i - 1) : keys[j] = "none"
    BY <2>1, Zenon
  <2> HIDE DEF i
  <2>3. i = 1
    BY <1>1, <1>3, <2>2
  <2> QED
    BY <1>1, <1>2, <1>3, <2>3 DEF keys
<1>4. CASE a = "none" /\ b # "none"
  <2>1. \E k \in 1 .. Len(keys) : keys[k] # "none" /\ \A j \in 1 .. (k - 1) : keys[j] = "none"
    <3>1. 2 \in 1 .. Len(keys) /\ keys[2] # "none" /\ \A j \in 1 .. (2 - 1) : keys[j] = "none"
      BY <1>1, <1>4
    <3> QED
      BY <3>1
  <2>2. i \in 1 .. Len(keys) /\ keys[i] # "none"
    BY <2>1, Zenon
  <2> HIDE DEF i
  <2>3. i = 2
    BY <1>1, <1>4, <2>2
  <2> QED
    BY <1>1, <1>2, <1>4, <2>3 DEF keys
<1>5. CASE a = "none" /\ b = "none"
  <2>1. \A k \in 1 .. Len(keys) : keys[k] = "none"
    BY <1>1, <1>5
  <2> QED
    BY <1>2, <1>5, <2>1 DEF keys
<1> QED
  BY <1>3, <1>4, <1>5

\* A variable's key is the variable or nothing.
LEMMA EnvKeys ==
    ASSUME NEW e, NEW p
    PROVE  /\ \A v : Read(e, v) \in {v, "none"}
           /\ XaiEnvKey(e) \in {"XAI_API_KEY", "GROK_API_KEY", "none"}
           /\ AnthropicEnvKey(e) \in {"ANTHROPIC_AUTH_TOKEN", "ANTHROPIC_API_KEY", "none"}
           /\ LabelKey(e, p) # "none" =>
                 \/ LabelKey(e, p) = "GROQ_API_KEY" /\ p \in GroqLabels
                 \/ LabelKey(e, p) = "AWS_BEARER_TOKEN_BEDROCK" /\ p \in BedrockLabels
BY FirstOfTwo DEF XaiEnvKey, AnthropicEnvKey, Read, LabelKey

LEMMA VendorKeysAreTheirs ==
    ASSUME NEW e, NEW logins, NEW own, NEW p, NEW explicit, NEW skip
    PROVE  LET keys == VendorKeys(e, logins, own, p, explicit, skip) IN
           keys.xai \in XaiKeys \cup {"none"} /\ keys.anthropic \in AnthropicKeys \cup {"none"}
BY EnvKeys DEF VendorKeys, XaiKeys, AnthropicKeys

\* What a route r says of its key, for the label p and the flag.
KeyFits(r, flag, p) ==
    /\ r.key \in XaiKeys => UsesXaiCredentials(p) \/ (p = "" /\ r.from = "xai")
    /\ r.key \in AnthropicKeys => p \in AnthropicLabels \/ (p = "" /\ r.from = "anthropic")
    /\ r.key = "GROQ_API_KEY" => p \in GroqLabels
    /\ r.key = "AWS_BEARER_TOKEN_BEDROCK" => p \in BedrockLabels
    /\ p \in VendorLabels \/ (p = "" /\ r.from \in {"xai", "anthropic"}) =>
          r.key \notin {"OPENAI_API_KEY", "OPENROUTER_API_KEY"}
    /\ flag # "none" => r.key = flag
    /\ r.from \in {"none", "openrouter", "xai", "anthropic"}
    /\ r.from = "openrouter" => OpenrouterDefaultOk(p)

\* The labels of two vendors are different labels.
LEMMA LabelsApart ==
    ASSUME NEW p
    PROVE  /\ p \in GroqLabels => p \notin BedrockLabels
           /\ p \in GroqLabels \cup BedrockLabels =>
                 ~UsesXaiCredentials(p) /\ p \notin AnthropicLabels \cup CodexLabels
           /\ p \in CodexLabels => p \notin VendorLabels /\ ~UsesXaiCredentials(p)
           /\ UsesXaiCredentials(p) => p \notin AnthropicLabels
           /\ p \in VendorLabels <=>
                 UsesXaiCredentials(p) \/ p \in AnthropicLabels \cup GroqLabels \cup BedrockLabels
           /\ p \in NamedLabels <=>
                 p \in VendorLabels \cup CodexLabels \cup {"", "openrouter", "openrouter.ai"}
           /\ OpenrouterDefaultOk(p) => p \notin VendorLabels \cup CodexLabels
           /\ p \in VendorLabels \cup CodexLabels => p # ""
BY DEF GroqLabels, BedrockLabels, BedrockHosts, UsesXaiCredentials, XaiLabels, GrokBuildLabels,
       GrokMessagesLabels, AnthropicLabels, CodexLabels, VendorLabels, NamedLabels, OpenrouterDefaultOk

LEMMA ResolvedFits ==
    ASSUME NEW p, NEW own,
           \/ own \in {"none", "flag"}
           \/ own = "GROQ_API_KEY" /\ p \in GroqLabels
           \/ own = "AWS_BEARER_TOKEN_BEDROCK" /\ p \in BedrockLabels,
           NEW openai \in {"OPENAI_API_KEY", "none"}, NEW openrouter \in {"OPENROUTER_API_KEY", "none"},
           NEW xai \in XaiKeys \cup {"none"}, NEW anthropic \in AnthropicKeys \cup {"none"}
    PROVE  KeyFits(ResolveApiKeyFrom(own, openai, openrouter, xai, anthropic, p),
                   IF own = "flag" THEN own ELSE "none", p)
<1> DEFINE r == ResolveApiKeyFrom(own, openai, openrouter, xai, anthropic, p)
           flag == IF own = "flag" THEN own ELSE "none"
<1> SUFFICES KeyFits(r, flag, p)
  OBVIOUS
<1> HIDE DEF r
<1>0. \A k, f : Route(k, f).key = k /\ Route(k, f).from = f
  BY DEF Route
<1>1. CASE p \in GroqLabels \cup BedrockLabels
  <2>1. r = Route(own, "none")
    BY <1>1 DEF ResolveApiKeyFrom, r
  <2>2. r.key = own /\ r.from = "none"
    BY <1>0, <2>1
  <2>3. own \in {"none", "flag", "GROQ_API_KEY", "AWS_BEARER_TOKEN_BEDROCK"}
    OBVIOUS
  <2>4. /\ r.key \notin XaiKeys \cup AnthropicKeys \cup {"OPENAI_API_KEY", "OPENROUTER_API_KEY"}
        /\ flag # "none" => r.key = flag
    BY <2>2, <2>3 DEF XaiKeys, AnthropicKeys
  <2> QED
    BY <2>2, <2>4 DEF KeyFits
<1>2. CASE p \in CodexLabels
  <2>1. r = Route(IF own # "none" THEN own ELSE openai, "none")
    BY <1>2, LabelsApart, FirstOfTwo DEF ResolveApiKeyFrom, r
  <2>2. own \in {"none", "flag"} /\ p # "" /\ p \notin VendorLabels
    BY <1>2, LabelsApart
  <2>3. r.key = (IF own # "none" THEN own ELSE openai) /\ r.from = "none"
    BY <1>0, <2>1
  <2>4. /\ r.key \notin XaiKeys \cup AnthropicKeys \cup {"GROQ_API_KEY", "AWS_BEARER_TOKEN_BEDROCK"}
        /\ flag # "none" => r.key = flag
    BY <2>2, <2>3 DEF XaiKeys, AnthropicKeys
  <2> QED
    BY <2>2, <2>3, <2>4 DEF KeyFits
<1>3. CASE p \notin GroqLabels \cup BedrockLabels \cup CodexLabels /\ own # "none"
  <2>1. r = Route(own, DefaultVendor(openai, openrouter, xai, anthropic, p))
    BY <1>3 DEF ResolveApiKeyFrom, r
  <2>2. own = "flag"
    BY <1>3
  <2>3. /\ DefaultVendor(openai, openrouter, xai, anthropic, p) \in {"none", "openrouter", "xai", "anthropic"}
        /\ DefaultVendor(openai, openrouter, xai, anthropic, p) = "openrouter" => OpenrouterDefaultOk(p)
    BY DEF DefaultVendor
  <2>4. r.key = "flag" /\ r.from \in {"none", "openrouter", "xai", "anthropic"}
        /\ (r.from = "openrouter" => OpenrouterDefaultOk(p))
    BY <1>0, <2>1, <2>2, <2>3
  <2> QED
    BY <2>2, <2>4 DEF KeyFits, XaiKeys, AnthropicKeys
<1>4. CASE p \notin GroqLabels \cup BedrockLabels \cup CodexLabels /\ own = "none"
  <2>1. CASE UsesXaiCredentials(p)
    <3>1. r = Route(xai, IF xai = "none" THEN "none" ELSE "xai")
      BY <1>4, <2>1 DEF ResolveApiKeyFrom, r
    <3>2. r.key = xai /\ r.from \in {"none", "xai"}
      BY <1>0, <3>1
    <3>3. xai \notin AnthropicKeys
              \cup {"OPENAI_API_KEY", "OPENROUTER_API_KEY", "GROQ_API_KEY", "AWS_BEARER_TOKEN_BEDROCK"}
      BY DEF XaiKeys, AnthropicKeys
    <3> QED
      BY <1>4, <2>1, <3>2, <3>3 DEF KeyFits
  <2>2. CASE ~UsesXaiCredentials(p) /\ p \in AnthropicLabels
    <3>1. r = Route(anthropic, IF anthropic = "none" THEN "none" ELSE "anthropic")
      BY <1>4, <2>2 DEF ResolveApiKeyFrom, r
    <3>2. r.key = anthropic /\ r.from \in {"none", "anthropic"}
      BY <1>0, <3>1
    <3>3. anthropic \notin XaiKeys
              \cup {"OPENAI_API_KEY", "OPENROUTER_API_KEY", "GROQ_API_KEY", "AWS_BEARER_TOKEN_BEDROCK"}
      BY DEF XaiKeys, AnthropicKeys
    <3> QED
      BY <1>4, <2>2, <3>2, <3>3 DEF KeyFits
  <2>3. CASE ~UsesXaiCredentials(p) /\ p \notin AnthropicLabels
    <3>1. p \notin VendorLabels
      BY <1>4, <2>3, LabelsApart
    <3>2. r = IF openai # "none" THEN Route(openai, "none")
              ELSE IF xai # "none" /\ p = "" THEN Route(xai, "xai")
              ELSE IF anthropic # "none" /\ p = "" THEN Route(anthropic, "anthropic")
              ELSE IF openrouter # "none"
              THEN Route(openrouter, IF OpenrouterDefaultOk(p) THEN "openrouter" ELSE "none")
              ELSE Route("none", "none")
      BY <1>4, <2>3 DEF ResolveApiKeyFrom, r
    <3>3. \/ r = Route("OPENAI_API_KEY", "none") \/ r = Route("none", "none")
          \/ r = Route("OPENROUTER_API_KEY", "none")
          \/ r = Route("OPENROUTER_API_KEY", "openrouter") /\ OpenrouterDefaultOk(p)
          \/ r = Route(xai, "xai") /\ p = ""
          \/ r = Route(anthropic, "anthropic") /\ p = ""
      BY <3>2
    <3>4. \/ r.key \in {"OPENAI_API_KEY", "none", "OPENROUTER_API_KEY"} /\ r.from = "none"
          \/ r.key = "OPENROUTER_API_KEY" /\ r.from = "openrouter" /\ OpenrouterDefaultOk(p)
          \/ r.key = xai /\ r.from = "xai" /\ p = ""
          \/ r.key = anthropic /\ r.from = "anthropic" /\ p = ""
      <4>1. ASSUME NEW k, NEW f, r = Route(k, f) PROVE r.key = k /\ r.from = f
        BY <1>0, <4>1
      <4>2. CASE r = Route("OPENAI_API_KEY", "none") \/ r = Route("none", "none")
                   \/ r = Route("OPENROUTER_API_KEY", "none")
        BY <4>1, <4>2
      <4>3. CASE r = Route("OPENROUTER_API_KEY", "openrouter") /\ OpenrouterDefaultOk(p)
        BY <4>1, <4>3
      <4>4. CASE r = Route(xai, "xai") /\ p = ""
        BY <4>1, <4>4
      <4>5. CASE r = Route(anthropic, "anthropic") /\ p = ""
        BY <4>1, <4>5
      <4> QED
        BY <3>3, <4>2, <4>3, <4>4, <4>5
    <3>5. /\ xai \notin AnthropicKeys
                \cup {"OPENAI_API_KEY", "OPENROUTER_API_KEY", "GROQ_API_KEY", "AWS_BEARER_TOKEN_BEDROCK"}
          /\ anthropic \notin XaiKeys
                \cup {"OPENAI_API_KEY", "OPENROUTER_API_KEY", "GROQ_API_KEY", "AWS_BEARER_TOKEN_BEDROCK"}
          /\ {"OPENAI_API_KEY", "none", "OPENROUTER_API_KEY"} \cap (XaiKeys \cup AnthropicKeys) = {}
      BY DEF XaiKeys, AnthropicKeys
    <3>6. flag = "none"
      BY <1>4
    <3> HIDE DEF flag
    <3> QED
      BY <3>1, <3>4, <3>5, <3>6 DEF KeyFits
  <2> QED
    BY <2>1, <2>2, <2>3
<1> QED
  BY <1>1, <1>2, <1>3, <1>4

\* The key that the server loads for a label, when no variable is named.
LEMMA McpRouteFits ==
    ASSUME NEW e, NEW logins, NEW p, NEW toolUrl, NEW humanUrl, NEW pol
    PROVE  KeyFits(LoadMcpRoute(e, logins, "none", p, toolUrl, humanUrl, pol).route, "none", p)
<1> DEFINE keys == VendorKeys(e, logins, LabelKey(e, p), p, humanUrl, toolUrl)
<1>1. LoadMcpRoute(e, logins, "none", p, toolUrl, humanUrl, pol).route =
        ResolveApiKeyFrom(LabelKey(e, p), Read(e, "OPENAI_API_KEY"), Read(e, "OPENROUTER_API_KEY"),
                          keys.xai, keys.anthropic, p)
  BY DEF LoadMcpRoute, Loaded
<1>2. keys.xai \in XaiKeys \cup {"none"} /\ keys.anthropic \in AnthropicKeys \cup {"none"}
  BY VendorKeysAreTheirs
<1>3. \/ LabelKey(e, p) = "none"
      \/ LabelKey(e, p) = "GROQ_API_KEY" /\ p \in GroqLabels
      \/ LabelKey(e, p) = "AWS_BEARER_TOKEN_BEDROCK" /\ p \in BedrockLabels
  BY EnvKeys
<1>4. Read(e, "OPENAI_API_KEY") \in {"OPENAI_API_KEY", "none"}
      /\ Read(e, "OPENROUTER_API_KEY") \in {"OPENROUTER_API_KEY", "none"}
  BY EnvKeys
<1> HIDE DEF keys
<1>5. LabelKey(e, p) # "flag"
  BY <1>3
<1> QED
  BY <1>1, <1>2, <1>3, <1>4, <1>5, ResolvedFits

\* The key that the command line loads for a label.
LEMMA CliRouteFits ==
    ASSUME NEW e, NEW logins, NEW flag \in {"none", "flag"}, NEW p, NEW explicit, NEW noLogin
    PROVE  KeyFits(LoadCliRoute(e, logins, flag, p, explicit, noLogin).route, flag, p)
<1> DEFINE keys == VendorKeys(e, logins, flag, p, explicit, noLogin)
           own == IF flag # "none" THEN flag ELSE LabelKey(e, p)
<1>1. CASE p \in GroqLabels \cup BedrockLabels
  <2>1. LoadCliRoute(e, logins, flag, p, explicit, noLogin).route =
          ResolveApiKeyFrom(own, "none", "none", "none", "none", p)
    BY <1>1, FirstOfTwo DEF LoadCliRoute, Loaded
  <2>2. \/ own \in {"none", "flag"}
        \/ own = "GROQ_API_KEY" /\ p \in GroqLabels
        \/ own = "AWS_BEARER_TOKEN_BEDROCK" /\ p \in BedrockLabels
    BY EnvKeys
  <2>3. (IF own = "flag" THEN own ELSE "none") = flag
    BY EnvKeys
  <2> HIDE DEF own
  <2> QED
    BY <2>1, <2>2, <2>3, ResolvedFits
<1>2. CASE p \notin GroqLabels \cup BedrockLabels
  <2>1. LoadCliRoute(e, logins, flag, p, explicit, noLogin).route =
          ResolveApiKeyFrom(flag, Read(e, "OPENAI_API_KEY"), Read(e, "OPENROUTER_API_KEY"),
                            keys.xai, keys.anthropic, p)
    BY <1>2 DEF LoadCliRoute, Loaded
  <2>2. keys.xai \in XaiKeys \cup {"none"} /\ keys.anthropic \in AnthropicKeys \cup {"none"}
    BY VendorKeysAreTheirs
  <2>3. Read(e, "OPENAI_API_KEY") \in {"OPENAI_API_KEY", "none"}
        /\ Read(e, "OPENROUTER_API_KEY") \in {"OPENROUTER_API_KEY", "none"}
    BY EnvKeys
  <2>4. (IF flag = "flag" THEN flag ELSE "none") = flag
    OBVIOUS
  <2> HIDE DEF keys
  <2> QED
    BY <2>1, <2>2, <2>3, <2>4, ResolvedFits
<1> QED
  BY <1>1, <1>2

----------------------------------------------------------------------------
(* Base URLs.                                                              *)

LEMMA UrlIsUrl ==
    ASSUME NEW scheme, NEW host, NEW port, NEW path
    PROVE  /\ IsUrl(Url(scheme, host, port, path))
           /\ Url(scheme, host, port, path).host = host
           /\ Url(scheme, host, port, path).port = port
BY DEF Url, IsUrl

\* An Ollama base gets a path, and nothing else changes.
LEMMA NormalIsSameHost ==
    ASSUME NEW u, IsUrl(u)
    PROVE  LET n == NormalizeOllama(u) IN
           /\ IsUrl(n)
           /\ n.scheme = u.scheme /\ n.host = u.host /\ n.port = u.port
           /\ UrlHost(n) = UrlHost(u)
           /\ ProviderFromBaseUrl(n) = ProviderFromBaseUrl(u)
           /\ ValidUrl(n) <=> ValidUrl(u)
<1> DEFINE n == NormalizeOllama(u)
<1>0. n = u \/ n = [u EXCEPT !.path = "/v1"]
  BY DEF NormalizeOllama
<1> HIDE DEF n
<1>1. IsUrl(n) /\ n.scheme = u.scheme /\ n.host = u.host /\ n.port = u.port
  <2>1. CASE n = u
    BY <2>1
  <2>2. CASE n = [u EXCEPT !.path = "/v1"]
    BY <2>2 DEF IsUrl
  <2> QED
    BY <1>0, <2>1, <2>2
<1>2. UrlHost(n) = UrlHost(u)
  BY <1>1 DEF UrlHost
<1>3. ProviderFromBaseUrl(n) = ProviderFromBaseUrl(u)
  BY <1>1 DEF ProviderFromBaseUrl
<1>4. ValidUrl(n) <=> ValidUrl(u)
  BY <1>1 DEF ValidUrl
<1> QED
  BY <1>1, <1>2, <1>3, <1>4 DEF n

\* The label of a loopback host and port is dialed on this machine.
LEMMA LoopbackLabelIsLocal ==
    ASSUME NEW p \in LoopbackLabels
    PROVE  /\ IsUrl(LocalProviderUrl(p))
           /\ LET h == LocalProviderUrl(p).host IN {DialedName(h), Bare(h)} \subseteq Loopback
<1> DEFINE parts == CHOOSE q \in LoopbackNames \X PortTexts : p = q[1] \o ":" \o q[2]
           host == IF parts[1] = "::1" THEN "[::1]" ELSE parts[1]
<1>1. \E q \in LoopbackNames \X PortTexts : p = q[1] \o ":" \o q[2]
  <2>1. \E h \in LoopbackNames, t \in PortTexts : p = h \o ":" \o t
    BY DEF LoopbackLabels
  <2>2. PICK h \in LoopbackNames, t \in PortTexts : p = h \o ":" \o t
    BY <2>1
  <2>3. <<h, t>> \in LoopbackNames \X PortTexts /\ <<h, t>>[1] = h /\ <<h, t>>[2] = t
    OBVIOUS
  <2> QED
    BY <2>2, <2>3
<1>2. parts \in LoopbackNames \X PortTexts
  BY <1>1, Zenon
<1>3. LoopbackUrl(p) = Authority(host, Escaped(parts[2]))
  BY DEF LoopbackUrl
<1> HIDE DEF parts
<1>4. parts[1] \in LoopbackNames /\ parts[2] \in PortTexts
  BY <1>2
<1>5. Escaped(parts[2]) # "9@api.x.ai"
  BY <1>4 DEF Escaped
<1>6. host \in {"[::1]", "localhost", "127.0.0.1", "0.0.0.0"}
  BY <1>4 DEF LoopbackNames, Loopback
<1> HIDE DEF host
<1>7. LoopbackUrl(p) = Url("http", host, Escaped(parts[2]), "/v1")
  BY <1>3, <1>5 DEF Authority
<1>8. IsUrl(LoopbackUrl(p)) /\ LoopbackUrl(p).host = host
  BY <1>5, <1>6, <1>7, UrlIsUrl
<1>9. \/ LocalProviderUrl(p) = LoopbackUrl(p)
      \/ LocalProviderUrl(p) \in {Url("http", "127.0.0.1", "1234", "/v1"), Url("http", "127.0.0.1", "8000", "/v1")}
  BY DEF LocalProviderUrl
<1>10. /\ IsUrl(LocalProviderUrl(p))
       /\ LocalProviderUrl(p).host \in {"[::1]", "localhost", "127.0.0.1", "0.0.0.0"}
  BY <1>6, <1>8, <1>9, UrlIsUrl
<1> QED
  BY <1>10 DEF Loopback, DialedName, Bare

\* Every default is a URL.
LEMMA DefaultIsUrl ==
    ASSUME NEW p, NEW b \in BOOLEAN
    PROVE  IsUrl(DefaultCompatUrl(p, b))
<1>1. /\ IsUrl(OllamaUrl) /\ IsUrl(OpenaiUrl) /\ IsUrl(OpenrouterUrl)
      /\ IsUrl(XaiUrl) /\ IsUrl(GrokBuildUrl) /\ IsUrl(AnthropicUrl)
      /\ IsUrl(GroqUrl) /\ IsUrl(BedrockUrl)
      /\ IsUrl(Url("http", "127.0.0.1", "1234", "/v1"))
      /\ IsUrl(Url("http", "127.0.0.1", "8000", "/v1"))
  BY UrlIsUrl DEF OllamaUrl, OpenaiUrl, OpenrouterUrl, XaiUrl, GrokBuildUrl, AnthropicUrl, GroqUrl, BedrockUrl
<1>2. IsUrl(LocalProviderUrl(p))
  <2>1. CASE p \in LoopbackLabels
    BY <2>1, LoopbackLabelIsLocal
  <2>2. CASE p \notin LoopbackLabels
    BY <1>1, <2>2 DEF LocalProviderUrl
  <2> QED
    BY <2>1, <2>2
<1> QED
  BY <1>1, <1>2 DEF DefaultCompatUrl

\* The default of no label is a vendor's main host, which the key decides.
LEMMA DefaultOfNone ==
    ASSUME NEW r
    PROVE  DefaultBaseUrl(r, "") =
             IF r.from = "xai" THEN XaiUrl ELSE IF r.from = "anthropic" THEN AnthropicUrl
             ELSE IF r.from = "openrouter" THEN OpenrouterUrl ELSE OpenaiUrl
<1>1. "" \notin LoopbackLabels
  BY LabelAssumption DEF NamedLabels
<1>2. ~IsLocalLabel("")
  BY <1>1 DEF IsLocalLabel, Loopback
<1>3. "" \notin VendorLabels \cup CodexLabels /\ OpenrouterDefaultOk("")
  BY LabelsApart DEF OpenrouterDefaultOk
<1>4. \A b : DefaultCompatUrl("", b) = IF b THEN OpenrouterUrl ELSE OpenaiUrl
  BY <1>2, <1>3 DEF DefaultCompatUrl, VendorLabels
<1> QED
  BY <1>3, <1>4 DEF DefaultBaseUrl

LEMMA DefaultBaseIsUrl ==
    ASSUME NEW r, NEW p
    PROVE  IsUrl(DefaultBaseUrl(r, p))
<1>1. IsUrl(XaiUrl) /\ IsUrl(AnthropicUrl)
  BY UrlIsUrl DEF XaiUrl, AnthropicUrl
<1>2. IsUrl(DefaultCompatUrl(p, r.from = "openrouter" /\ OpenrouterDefaultOk(p)))
  BY DefaultIsUrl
<1> QED
  BY <1>1, <1>2 DEF DefaultBaseUrl

\* The label that a URL gives is not the empty one, and is a vendor's only by
\* the host.
LEMMA UrlIsNamed ==
    ASSUME NEW u, Labelled(u), ValidUrl(u)
    PROVE  ProviderFromBaseUrl(u) # ""
BY DEF Labelled, ValidUrl, ProviderFromBaseUrl, Bare, NamedLabels

----------------------------------------------------------------------------
(* What is where: the types.                                               *)

\* The key that is loaded for the label p, when the login stores answer so; the
\* command line says whether the URL is explicit, the server knows.
Load(logins, p, explicit) ==
    IF session.host = "mcp"
    THEN LoadMcpRoute(env, logins, UsedVar, p, FromTool, FromHuman, policy)
    ELSE LoadCliRoute(env, logins, session.flag, p, explicit, session.noLogin)

\* The base of FinalizeRoute and its label.
FinalBase == Finalized(Given, UsedUrl, route).base
FinalLabel == Finalized(Given, UsedUrl, route).provider

\* The types, and what the answers to messages need: a message is being answered,
\* and there is an answer to write.
Typed ==
    /\ TypeOK
    /\ pc \notin {"reading", "exited"} => message \in AnyMessage
    /\ pc = "writing" => reply.kind \in {"result", "error", "isError"}

\* No action changes the session, and only ReadRequest the message.
LEMMA SameArguments ==
    ASSUME session' = session, message' = message
    PROVE  /\ args' = args /\ policy' = policy /\ env' = env
           /\ Given' = Given /\ GivenUrl' = GivenUrl
           /\ UsedVar' = UsedVar /\ UsedUrl' = UsedUrl
           /\ FromTool' = FromTool /\ FromHuman' = FromHuman
           /\ NamedLabel' = NamedLabel
<1>1. args' = args /\ policy' = policy /\ env' = env
  BY DEF args, policy, env
<1>2. Given' = Given /\ GivenUrl' = GivenUrl
  BY <1>1 DEF Given, GivenUrl
<1>3. UsedVar' = UsedVar /\ UsedUrl' = UsedUrl /\ FromTool' = FromTool
  BY <1>1, <1>2 DEF UsedVar, UsedUrl, FromTool
<1> QED
  BY <1>1, <1>2, <1>3 DEF FromHuman, NamedLabel

LEMMA SameRoutes ==
    ASSUME session' = session, message' = message
    PROVE  \A logins, p, explicit : Load(logins, p, explicit)' = Load(logins, p, explicit)
BY SameArguments DEF Load

LEMMA ReadsTwoStores ==
    ASSUME NEW e, NEW logins, NEW own, NEW p, NEW explicit, NEW skip
    PROVE  VendorKeys(e, logins, own, p, explicit, skip).read \in SUBSET {"xai", "anthropic"}
BY DEF VendorKeys

\* A route makes one vendor the default or none, and asks two stores at most.
LEMMA LoadTyped ==
    ASSUME NEW logins, NEW p, NEW explicit, IsSession(session)
    PROVE  /\ Load(logins, p, explicit).route.from \in {"none", "openrouter", "xai", "anthropic"}
           /\ Load(logins, p, explicit).read \in SUBSET {"xai", "anthropic"}
<1>1. CASE session.host = "mcp" /\ UsedVar # "none"
  <2>1. Load(logins, p, explicit) = Loaded(NoKeys, Route(NamedKey(env, UsedVar, policy), FamilyOf(UsedVar)))
    BY <1>1 DEF Load, LoadMcpRoute
  <2>2. /\ Load(logins, p, explicit).route.from = FamilyOf(UsedVar)
        /\ Load(logins, p, explicit).read = {}
    BY <2>1 DEF Loaded, NoKeys, Route
  <2>3. FamilyOf(UsedVar) \in {"none", "openrouter", "xai", "anthropic"}
    BY DEF FamilyOf, XaiKeys, AnthropicKeys
  <2> QED
    BY <2>2, <2>3
<1>2. CASE session.host = "mcp" /\ UsedVar = "none"
  <2>1. Load(logins, p, explicit) = LoadMcpRoute(env, logins, "none", p, FromTool, FromHuman, policy)
    BY <1>2 DEF Load
  <2>2. KeyFits(Load(logins, p, explicit).route, "none", p)
    BY <2>1, McpRouteFits
  <2>3. Load(logins, p, explicit).read =
          VendorKeys(env, logins, LabelKey(env, p), p, FromHuman, FromTool).read
    BY <2>1 DEF LoadMcpRoute, Loaded
  <2> QED
    BY <2>2, <2>3, ReadsTwoStores DEF KeyFits
<1>3. CASE session.host # "mcp"
  <2>1. Load(logins, p, explicit) = LoadCliRoute(env, logins, session.flag, p, explicit, session.noLogin)
    BY <1>3 DEF Load
  <2>2. KeyFits(Load(logins, p, explicit).route, session.flag, p)
    BY <2>1, CliRouteFits DEF IsSession
  <2>3. \/ Load(logins, p, explicit).read = {}
        \/ Load(logins, p, explicit).read =
             VendorKeys(env, logins, session.flag, p, explicit, session.noLogin).read
    BY <2>1 DEF LoadCliRoute, Loaded, NoKeys
  <2> QED
    BY <2>2, <2>3, ReadsTwoStores DEF KeyFits
<1> QED
  BY <1>1, <1>2, <1>3

LEMMA PartsAreUrl ==
    ASSUME NEW u \in UrlParts
    PROVE  IsUrl(u)
BY DEF UrlParts, IsUrl

\* The URLs of a call are URLs.
LEMMA UrlsAreUrls ==
    ASSUME Typed
    PROVE  IsUrl(GivenUrl) /\ IsUrl(UsedUrl)
<1>1. IsUrl(NoUrl) /\ NoMessage.args.url = NoUrl
  BY UrlIsUrl DEF NoUrl, NoMessage, NoArguments
<1>2. IsUrl(args.url)
  <2>1. CASE message \in AnyMessage
    BY <2>1, PartsAreUrl DEF AnyMessage, args, Labelled
  <2>2. CASE message = NoMessage
    BY <1>1, <2>2 DEF args
  <2> QED
    BY <2>1, <2>2 DEF Typed, TypeOK
<1>3. IsUrl(GivenUrl)
  BY <1>1, <1>2 DEF GivenUrl
<1>4. IsUrl(policy.url)
  BY PartsAreUrl DEF Typed, TypeOK, IsSession, policy, Labelled
<1> QED
  BY <1>3, <1>4 DEF UsedUrl, EffectiveUrl

LEMMA FinalBaseIsUrl ==
    ASSUME Typed
    PROVE  IsUrl(FinalBase)
<1> DEFINE u == IF UsedUrl = NoUrl THEN DefaultBaseUrl(route, Given) ELSE UsedUrl
<1>1. IsUrl(u)
  BY UrlsAreUrls, DefaultBaseIsUrl
<1>2. FinalBase = NormalizeOllama(u)
  BY DEF FinalBase, Finalized
<1> HIDE DEF u
<1> QED
  BY <1>1, <1>2, NormalIsSameHost

LEMMA DryRunIsUrl ==
    ASSUME Typed
    PROVE  IsUrl(DryRun(args, Given, GivenUrl).base)
<1> DEFINE u == IF GivenUrl = NoUrl THEN DefaultCompatUrl(Given, FALSE) ELSE GivenUrl
           b == ProbeEndpointWithoutKey(Given, GivenUrl).base
           d == DryRun(args, Given, GivenUrl)
<1>1. IsUrl(u)
  BY UrlsAreUrls, DefaultIsUrl
<1>2. b = NormalizeOllama(u)
  BY DEF ProbeEndpointWithoutKey
<1>3. IsUrl(b)
  <2> HIDE DEF u, b
  <2> QED
    BY <1>1, <1>2, NormalIsSameHost
<1>4. d.base = NoUrl \/ d.base = RedactBaseUrl(b)
  BY DEF DryRun
<1> HIDE DEF u, b, d
<1>5. IsUrl(NoUrl)
  BY UrlIsUrl DEF NoUrl
<1>6. IsUrl(RedactBaseUrl(b))
  <2> DEFINE c == RedactBaseUrl(b)
  <2>1. c = [b EXCEPT !.user = ""]
    BY DEF RedactBaseUrl
  <2> HIDE DEF c
  <2>2. IsUrl(c)
    BY <1>3, <2>1 DEF IsUrl
  <2> QED
    BY <2>2 DEF c
<1> QED
  BY <1>4, <1>5, <1>6 DEF d

LEMMA TypedInit == Init => Typed
<1> SUFFICES ASSUME Init PROVE Typed
  OBVIOUS
<1>1. PICK kind \in Kinds : session \in SessionsOf(kind)
  BY DEF Init
<1>2. IsSession(session)
  BY <1>1, SessionAssumption
<1>3. rest \in Seq(Pieces(AnyMessage)) /\ session.command \in AnyMessage
  BY <1>2 DEF Init, IsSession
<1>4. IsUrl(base)
  BY UrlIsUrl DEF Init, NoUrl
<1>5. session.host \in {"mcp", "cli"}
  BY <1>2 DEF IsSession
<1>6. route.from = "none" /\ reply.kind = "nothing"
  BY DEF Init, NoRoute, Route, Nothing
<1>7. /\ pc \in {"reading", "command"}
      /\ message \in AnyMessage \cup {NoMessage}
      /\ pc \notin {"reading", "exited"} => message \in AnyMessage
  BY <1>3 DEF Init
<1>8. read = {} /\ handled = <<>> /\ replies = <<>> /\ stdout = TRUE /\ exit = "running"
  BY DEF Init
<1>9. handled \in Seq(AnyMessage) /\ replies \in Seq([id : Nat, kind : {"result", "error", "isError"}])
  BY <1>8
<1>10. TypeOK
  BY <1>2, <1>3, <1>4, <1>6, <1>7, <1>8, <1>9 DEF TypeOK
<1> QED
  BY <1>7, <1>10 DEF Typed

----------------------------------------------------------------------------
(* What the steps do, taken apart.                                         *)

\* All that the answer to one message leaves alone.
SameCall == UNCHANGED <<session, rest, message, handled, replies, stdout, exit>>

\* The caller is told something of a kind, and why; most reasons are neither a
\* missing key nor a base that will not do.
Told(kinds) == pc' = "writing" /\ reply'.kind \in kinds
Otherwise == reply'.why \notin {"key", "base"}

LEMMA SaidIsTold ==
    ASSUME NEW kind, NEW why, Say(kind, why)
    PROVE  Told({kind}) /\ reply'.why = why
BY DEF Say, Told

LEMMA RefusedIsTold ==
    ASSUME NEW why, Refuse(why)
    PROVE  /\ SameCall /\ UNCHANGED <<routing, asking>>
           /\ Told({"isError"}) /\ reply'.why = why
BY SaidIsTold DEF Refuse, SameCall

LEMMA DispatchDoes ==
    ASSUME Dispatch
    PROVE  /\ pc = "dispatch" /\ SameCall /\ UNCHANGED <<routing, asking>>
           /\ \/ pc' = "reading" /\ Silent(message) /\ reply' = reply
              \/ /\ pc' = "call" /\ reply' = reply /\ ~Silent(message)
                 /\ message.method = "tools/call" /\ args.tool = "probe_model"
              \/ /\ Told({"result", "error", "isError"}) /\ Otherwise /\ ~Silent(message)
                 /\ ~(message.method = "tools/call" /\ args.tool = "probe_model")
<1>1. pc = "dispatch" /\ SameCall /\ UNCHANGED <<routing, asking>>
  BY DEF Dispatch, SameCall
<1>2. CASE Silent(message)
  BY <1>1, <1>2 DEF Dispatch, Silent, Notifications
<1>3. CASE message.method \in {"initialize", "ping", "tools/list"}
  <2>1. Say("result", message.method) /\ ~Silent(message)
    BY <1>3 DEF Dispatch, Silent, Notifications
  <2>2. Told({"result"}) /\ reply'.why = message.method
    BY <2>1, SaidIsTold
  <2> QED
    BY <1>1, <1>3, <2>1, <2>2 DEF Told, Otherwise
<1>4. CASE message.method = "tools/call"
  <2>1. ~Silent(message)
    BY <1>4 DEF Silent, Notifications
  <2>2. CASE args.tool = "probe_model"
    BY <1>1, <1>4, <2>1, <2>2 DEF Dispatch, args
  <2>3. CASE args.tool # "probe_model"
    <3>1. Say("isError", "tool")
      BY <1>4, <2>1, <2>3 DEF Dispatch, args
    <3> QED
      BY <1>1, <2>1, <2>3, <3>1, SaidIsTold DEF Told, Otherwise
  <2> QED
    BY <2>2, <2>3
<1>5. CASE ~Silent(message) /\ message.method \notin {"initialize", "ping", "tools/list", "tools/call"}
  <2>1. Say("error", "method not found")
    BY <1>5 DEF Dispatch
  <2>2. Told({"error"}) /\ reply'.why = "method not found"
    BY <2>1, SaidIsTold
  <2> QED
    BY <1>1, <1>5, <2>2 DEF Told, Otherwise
<1> QED
  BY <1>2, <1>3, <1>4, <1>5

\* The key is loaded: the next stage, or the login that failed.
LoadsNext(p, explicit, stage) ==
    \E logins \in session.logins :
        /\ route' = Load(logins, p, explicit).route
        /\ read' = Load(logins, p, explicit).read
        /\ (pc' = stage /\ reply' = reply) \/ (Told({"isError"}) /\ Otherwise)

LEMMA CallArgsDoes ==
    ASSUME CallArgs, session.host = "mcp"
    PROVE  /\ pc = "call" /\ SameCall /\ UNCHANGED <<base, label, opened, dialed>>
           /\ \/ UNCHANGED <<route, read>> /\ Told({"isError"}) /\ Otherwise
              \/ /\ args.tools # "bad" /\ args.provider \notin {"blank", "number"}
                 /\ UsedUrl # NoUrl => ValidUrl(UsedUrl)
                 /\ EnvPermitted(args.var, policy) /\ UrlPermitted(GivenUrl, policy)
                 /\ LoadsNext(Given, FALSE, "checks")
<1>1. CASE \E why \in {"arguments", "policy"} : Refuse(why)
  BY <1>1, RefusedIsTold DEF CallArgs, routing, asking, Otherwise
<1>2. CASE ~ \E why \in {"arguments", "policy"} : Refuse(why)
  <2>1. ~ \/ args.tools = "bad"
          \/ args.provider \in {"blank", "number"}
          \/ GivenUrl # NoUrl /\ ~ValidUrl(GivenUrl)
          \/ GivenUrl = NoUrl /\ policy.url # NoUrl /\ ~ValidUrl(policy.url)
    BY <1>2 DEF CallArgs
  <2>2. EnvPermitted(args.var, policy) /\ UrlPermitted(GivenUrl, policy)
    BY <1>2, <2>1 DEF CallArgs
  <2>3. UsedUrl # NoUrl => ValidUrl(UsedUrl)
    BY <2>1 DEF UsedUrl, EffectiveUrl
  <2>4. PICK logins \in session.logins :
          LET first == LoadMcpRoute(env, logins, UsedVar, Given, FromTool, FromHuman, policy) IN
          /\ read' = first.read
          /\ IF first.ok THEN pc' = "checks" /\ UNCHANGED reply ELSE Say("isError", "login")
          /\ route' = first.route
          /\ UNCHANGED <<session, rest, message, base, label, opened, dialed, handled, replies,
                         stdout, exit>>
    BY <2>1, <2>2 DEF CallArgs
  <2>5. Load(logins, Given, FALSE) = LoadMcpRoute(env, logins, UsedVar, Given, FromTool, FromHuman, policy)
    BY DEF Load
  <2>6. (pc' = "checks" /\ reply' = reply) \/ (Told({"isError"}) /\ Otherwise)
    BY <2>4, SaidIsTold DEF Otherwise
  <2>7. LoadsNext(Given, FALSE, "checks")
    BY <2>4, <2>5, <2>6 DEF LoadsNext
  <2>8. pc = "call"
    BY DEF CallArgs
  <2> QED
    BY <2>1, <2>2, <2>3, <2>4, <2>7, <2>8 DEF SameCall
<1> QED
  BY <1>1, <1>2

\* What the checks of a tool's call let pass.
Checked ==
    /\ args.model = "m" /\ args.adv # "bad" /\ Suite(args) # "refused"
    /\ "bad" \notin {args.cheap, args.full, args.vision, args.force}

LEMMA CallChecksDoes ==
    ASSUME CallChecks
    PROVE  /\ pc = "checks" /\ session.host = "mcp" /\ SameCall
           /\ UNCHANGED <<route, base, label, read, dialed>>
           /\ \/ pc' = "route" /\ reply' = reply /\ Checked
              \/ Told({"isError"}) /\ Otherwise
<1> DEFINE wrong == \/ args.model # "m"
                    \/ args.adv = "bad"
                    \/ \E name \in {"cheap", "full", "vision", "force"} : args[name] = "bad"
                    \/ Suite(args) = "refused"
<1>1. ~wrong => Checked
  <2>1. (\A name \in {"cheap", "full", "vision", "force"} : args[name] # "bad") =>
           "bad" \notin {args.cheap, args.full, args.vision, args.force}
    OBVIOUS
  <2> QED
    BY <2>1 DEF Checked
<1>2. pc = "checks" /\ session.host = "mcp"
  BY DEF CallChecks
<1>3. CASE Refuse("arguments") \/ Refuse("cache")
  BY <1>2, <1>3, RefusedIsTold DEF routing, asking, Otherwise
<1>4. CASE ~(Refuse("arguments") \/ Refuse("cache"))
  <2>1. ~wrong
    BY <1>4 DEF CallChecks
  <2>2. /\ (pc' = "route" /\ UNCHANGED reply) \/ Say("isError", "cache")
        /\ UNCHANGED <<session, rest, message, route, base, label, asking, handled, replies, stdout, exit>>
    BY <1>4, <2>1 DEF CallChecks
  <2>3. (pc' = "route" /\ UNCHANGED reply) \/ (Told({"isError"}) /\ Otherwise)
    BY <2>2, SaidIsTold DEF Otherwise
  <2> HIDE DEF wrong
  <2> QED
    BY <1>1, <1>2, <2>1, <2>2, <2>3 DEF SameCall, asking
<1> QED
  BY <1>3, <1>4

\* What the command line lets pass.
CommandPasses ==
    /\ args.model \notin {"blank", "control"} /\ args.tools # "bad"
    /\ args.provider \notin {"blank", "control"} /\ args.url # BlankUrl
    /\ GivenUrl # NoUrl => ValidUrl(GivenUrl)
    /\ session.dry => Suite(args) # "refused"

LEMMA CommandDoes ==
    ASSUME Command, session.host = "cli"
    PROVE  /\ pc = "command" /\ SameCall /\ UNCHANGED <<opened, dialed>>
           /\ \/ UNCHANGED <<route, base, label, read>> /\ Told({"isError"}) /\ Otherwise
              \/ /\ CommandPasses /\ session.dry /\ UNCHANGED <<route, read>>
                 /\ base' = DryRun(args, Given, GivenUrl).base
                 /\ Told({"result", "isError"}) /\ Otherwise
              \/ /\ CommandPasses /\ UNCHANGED <<base, label>>
                 /\ LoadsNext(Given, UsedUrl # NoUrl, "route")
<1>1. pc = "command"
  BY DEF Command
<1>2. CASE Refuse("arguments")
  BY <1>1, <1>2, RefusedIsTold DEF routing, asking, Otherwise
<1>3. CASE ~Refuse("arguments")
  <2>1. CommandPasses
    BY <1>3 DEF Command, CommandPasses
  <2>2. ~ \/ args.url = BlankUrl
          \/ args.model \in {"blank", "control"}
          \/ args.tools = "bad"
          \/ GivenUrl # NoUrl /\ ~ValidUrl(GivenUrl)
          \/ args.provider \in {"blank", "control"}
          \/ session.dry /\ Suite(args) = "refused"
    BY <1>3 DEF Command
  <2>3. CASE session.dry
    <3> DEFINE plan == DryRun(args, Given, GivenUrl)
    <3>1. /\ Say(IF plan.ok THEN "result" ELSE "isError", "plan")
          /\ base' = plan.base
          /\ UNCHANGED <<session, rest, message, route, opened, asking, handled, replies, stdout, exit>>
      BY <2>2, <2>3 DEF Command
    <3>2. Told({"result", "isError"}) /\ reply'.why = "plan"
      BY <3>1, SaidIsTold DEF Told
    <3> QED
      BY <1>1, <2>1, <2>3, <3>1, <3>2 DEF SameCall, asking, Otherwise
  <2>4. CASE ~session.dry
    <3>1. PICK logins \in session.logins :
            LET first == LoadCliRoute(env, logins, session.flag, Given, UsedUrl # NoUrl, session.noLogin) IN
            /\ read' = first.read
            /\ IF first.ok THEN pc' = "route" /\ UNCHANGED reply ELSE Say("isError", "login")
            /\ route' = first.route
            /\ UNCHANGED <<session, rest, message, base, label, opened, dialed, handled, replies,
                           stdout, exit>>
      BY <2>2, <2>4 DEF Command
    <3>2. Load(logins, Given, UsedUrl # NoUrl) =
            LoadCliRoute(env, logins, session.flag, Given, UsedUrl # NoUrl, session.noLogin)
      BY DEF Load
    <3>3. (pc' = "route" /\ reply' = reply) \/ (Told({"isError"}) /\ Otherwise)
      BY <3>1, SaidIsTold DEF Otherwise
    <3>4. LoadsNext(Given, UsedUrl # NoUrl, "route")
      BY <3>1, <3>2, <3>3 DEF LoadsNext
    <3> QED
      BY <1>1, <2>1, <3>1, <3>4 DEF SameCall
  <2> QED
    BY <2>3, <2>4
<1> QED
  BY <1>2, <1>3

\* The key as it stands after a base URL of the caller's own has named the label.
ReloadsNext ==
    IF Reloads(Given, UsedUrl)
    THEN \E logins \in session.logins :
            /\ route' = Load(logins, FinalLabel, FALSE).route
            /\ read' = read \cup Load(logins, FinalLabel, FALSE).read
    ELSE UNCHANGED <<route, read>>

LEMMA FinalizeDoes ==
    ASSUME FinalizeRoute
    PROVE  /\ pc = "route" /\ SameCall /\ UNCHANGED <<opened, dialed>>
           /\ \/ /\ ~ValidUrl(FinalBase) /\ UNCHANGED <<route, base, label, read>>
                 /\ Told({"isError"}) /\ reply'.why = "base"
              \/ /\ ValidUrl(FinalBase) /\ base' = FinalBase /\ label' = FinalLabel /\ ReloadsNext
                 /\ \/ Told({"isError"}) /\ Otherwise
                    \/ /\ BaseConflict(FinalLabel, FinalBase)
                       /\ Told({"isError"}) /\ reply'.why = "base"
                    \/ /\ ~BaseConflict(FinalLabel, FinalBase)
                       /\ Suite(args) # "refused" /\ Given # "control"
                       /\ pc' = "lookup" /\ reply' = reply
<1> DEFINE final == Finalized(Given, UsedUrl, route)
<1>1. pc = "route" /\ (final.ok <=> ValidUrl(FinalBase))
  BY DEF FinalizeRoute, Finalized, FinalBase
<1>2. CASE ~final.ok
  <2>1. Refuse("base")
    BY <1>2 DEF FinalizeRoute
  <2> QED
    BY <1>1, <1>2, <2>1, RefusedIsTold DEF routing, asking
<1>3. CASE final.ok
  <2> DEFINE last(logins) == IF Reloads(Given, UsedUrl) THEN Reload(logins, final.provider)
                             ELSE [ok |-> TRUE, route |-> route, read |-> {}]
  <2>1. PICK logins \in session.logins :
          /\ read' = read \cup last(logins).read
          /\ route' = last(logins).route
          /\ base' = final.base
          /\ label' = final.provider
          /\ CASE ~last(logins).ok -> Say("isError", "login")
               [] last(logins).ok /\ BaseConflict(final.provider, final.base) -> Say("isError", "base")
               [] last(logins).ok /\ ~BaseConflict(final.provider, final.base)
                    /\ (Suite(args) = "refused" \/ Given = "control") -> Say("isError", "arguments")
               [] OTHER -> \/ pc' = "lookup" /\ UNCHANGED reply
                           \/ session.host = "cli" /\ Say("isError", "cache")
          /\ UNCHANGED <<session, rest, message, opened, dialed, handled, replies, stdout, exit>>
    BY <1>3 DEF FinalizeRoute
  <2>2. Reload(logins, FinalLabel) = Load(logins, FinalLabel, FALSE)
    BY DEF Reload, Load
  <2>3. ReloadsNext
    BY <2>1, <2>2 DEF ReloadsNext, FinalLabel
  <2>4. \/ Told({"isError"}) /\ Otherwise
        \/ BaseConflict(FinalLabel, FinalBase) /\ Told({"isError"}) /\ reply'.why = "base"
        \/ /\ ~BaseConflict(FinalLabel, FinalBase)
           /\ Suite(args) # "refused" /\ Given # "control"
           /\ pc' = "lookup" /\ reply' = reply
    <3> DEFINE failed == ~last(logins).ok
               conflict == BaseConflict(final.provider, final.base)
               refused == Suite(args) = "refused" \/ Given = "control"
    <3>1. CASE failed \/ (~failed /\ ~conflict /\ refused)
      <4>1. Say("isError", "login") \/ Say("isError", "arguments")
        BY <2>1, <3>1
      <4> QED
        BY <4>1, SaidIsTold DEF Otherwise
    <3>2. CASE ~failed /\ conflict
      <4>1. Say("isError", "base")
        BY <2>1, <3>2
      <4> QED
        BY <3>2, <4>1, SaidIsTold DEF FinalLabel, FinalBase
    <3>3. CASE ~failed /\ ~conflict /\ ~refused
      <4>1. (pc' = "lookup" /\ reply' = reply) \/ Say("isError", "cache")
        BY <2>1, <3>3
      <4> QED
        BY <3>3, <4>1, SaidIsTold DEF Otherwise, FinalLabel, FinalBase
    <3> QED
      BY <3>1, <3>2, <3>3
  <2> QED
    BY <1>1, <1>3, <2>1, <2>3, <2>4 DEF SameCall, FinalLabel, FinalBase
<1> QED
  BY <1>2, <1>3

LEMMA HitDoes ==
    ASSUME Hit
    PROVE  /\ pc \in {"lookup", "hinted"} /\ SameCall /\ UNCHANGED <<routing, asking>>
           /\ Told({"result"}) /\ Otherwise
BY SaidIsTold DEF Hit, SameCall, Otherwise

LEMMA NoKeyDoes ==
    ASSUME NoKey
    PROVE  /\ pc = "lookup" /\ SameCall /\ UNCHANGED <<routing, asking>>
           /\ RefuseCloudWithoutKey(route.key, base)
           /\ Told({"isError"}) /\ reply'.why = "key"
BY RefusedIsTold DEF NoKey

\* A request by the client for p.
DialsNext(p) ==
    /\ dialed' = dialed \cup {Request(p)}
    /\ FindsOwnLogin(route.key, p, base) => read' = read \cup {"own"}
    /\ ~FindsOwnLogin(route.key, p, base) => read' = read

LEMMA CatalogDoes ==
    ASSUME Catalog
    PROVE  /\ pc = "lookup" /\ SameCall /\ UNCHANGED routing
           /\ ~RefuseCloudWithoutKey(route.key, base)
           /\ UNCHANGED asking \/ DialsNext("openai-compat")
           /\ \/ pc' = "hinted" /\ reply' = reply
              \/ Told({"isError"}) /\ Otherwise
<1>1. UNCHANGED asking \/ DialsNext("openai-compat")
  BY DEF Catalog, DialsNext, Dial
<1>2. (pc' = "hinted" /\ reply' = reply) \/ (Told({"isError"}) /\ Otherwise)
  BY SaidIsTold DEF Catalog, Otherwise
<1> QED
  BY <1>1, <1>2 DEF Catalog, SameCall

LEMMA RunDoes ==
    ASSUME Run
    PROVE  /\ pc = "hinted" /\ SameCall /\ UNCHANGED routing
           /\ DialsNext(label)
           /\ Told({"result", "isError"}) /\ Otherwise
<1>1. DialsNext(label)
  BY DEF Run, DialsNext, Dial
<1>2. Told({"result", "isError"}) /\ Otherwise
  BY SaidIsTold DEF Run, Otherwise, Told
<1> QED
  BY <1>1, <1>2 DEF Run, SameCall

LEMMA WriteDoes ==
    ASSUME Write
    PROVE  /\ pc = "writing" /\ UNCHANGED <<session, rest, message, routing, handled, stdout>>
           /\ reply' = Nothing /\ read' = {} /\ dialed' = {}
           /\ \/ /\ pc' = "exited" /\ exit' \in {"0", "1"} /\ replies' = replies
                 /\ session.host = "cli" \/ ~stdout
              \/ /\ pc' = "reading" /\ exit' = exit /\ session.host # "cli" /\ stdout
                 /\ replies' = Append(replies, [id |-> message.id, kind |-> reply.kind])
<1>1. CASE ~stdout
  BY <1>1 DEF Write, Leave
<1>2. CASE stdout /\ session.host = "cli"
  BY <1>2 DEF Write, Leave
<1>3. CASE stdout /\ session.host # "cli"
  BY <1>3 DEF Write
<1> QED
  BY <1>1, <1>2, <1>3

LEMMA ReadRequestDoes ==
    ASSUME ReadRequest, rest \in Seq(Pieces(AnyMessage))
    PROVE  /\ pc = "reading" /\ UNCHANGED <<session, routing, asking, reply, replies, stdout>>
           /\ \/ /\ message' \in AnyMessage /\ rest' \in Seq(Pieces(AnyMessage))
                 /\ handled' = Append(handled, message')
                 /\ pc' = "dispatch" /\ exit' = exit
              \/ pc' = "exited" /\ exit' \in {"0", "1"} /\ UNCHANGED <<message, rest, handled>>
<1>1. ReadMessage(rest) \in Heard(AnyMessage)
  BY ReadHears
<1>2. CASE ReadMessage(rest).is = "message"
  <2>1. ReadMessage(rest).message \in AnyMessage /\ ReadMessage(rest).rest \in Seq(Pieces(AnyMessage))
    BY <1>1, <1>2 DEF Heard
  <2> QED
    BY <1>2, <2>1 DEF ReadRequest
<1>3. CASE ReadMessage(rest).is # "message"
  BY <1>3 DEF ReadRequest, Leave
<1> QED
  BY <1>2, <1>3

----------------------------------------------------------------------------
(* Where a call stands.                                                    *)

\* A probe is asked for.
Probing == session.host = "cli" \/ (message.method = "tools/call" /\ args.tool = "probe_model")

\* Which host is at which step, and what nobody has done yet.
Stages ==
    /\ session.host = "mcp" => pc # "command"
    /\ session.host = "cli" => pc \notin {"reading", "dispatch", "call", "checks"} /\ message = session.command
    /\ pc \in {"call", "checks", "route", "lookup", "hinted"} => Probing
    /\ pc \notin {"checks", "route", "lookup", "hinted", "writing"} => read = {}
    /\ pc \notin {"hinted", "writing"} => dialed = {}
    /\ pc # "writing" => reply = Nothing

\* The types and the stages.
Standing == IsSession(session) /\ Typed /\ Stages

LEMMA StagesInit == Init => Standing
<1> SUFFICES ASSUME Init PROVE Standing
  OBVIOUS
<1>1. Typed /\ IsSession(session)
  BY TypedInit DEF Typed, TypeOK
<1>2. Stages
  BY <1>1 DEF Init, Stages, IsSession
<1> QED
  BY <1>1, <1>2 DEF Standing

\* A step within a call, told by where it goes.
LEMMA StandingStays ==
    ASSUME Standing, SameCall, pc \notin {"reading", "exited"},
           pc' \in {"reading", "call", "checks", "route", "lookup", "hinted", "writing"},
           session.host = "mcp" \/ pc' \in {"route", "lookup", "hinted", "writing"},
           pc' \in {"call", "checks", "route", "lookup", "hinted"} => Probing,
           pc' # "writing" => reply' = reply /\ pc # "writing",
           pc' = "writing" => reply'.kind \in {"result", "error", "isError"},
           pc' \in {"reading", "call"} => read' = read /\ pc = "dispatch",
           pc' \notin {"hinted", "writing"} => dialed' = dialed /\ pc # "hinted",
           route'.from \in {"none", "openrouter", "xai", "anthropic"},
           IsUrl(base'),
           read' \in SUBSET {"xai", "anthropic", "own"}
    PROVE  Standing'
<1>1. Typed'
  BY DEF Standing, Typed, TypeOK, SameCall
<1>2. Probing' = Probing
  BY SameArguments DEF Probing, SameCall
<1>3. Stages'
  BY <1>2 DEF Standing, Stages, SameCall
<1> QED
  BY <1>1, <1>3 DEF Standing, SameCall

LEMMA LoadsTyped ==
    ASSUME Standing, NEW p, NEW explicit, NEW stage, LoadsNext(p, explicit, stage)
    PROVE  /\ route'.from \in {"none", "openrouter", "xai", "anthropic"}
           /\ read' \in SUBSET {"xai", "anthropic", "own"}
           /\ (pc' = stage /\ reply' = reply) \/ (Told({"isError"}) /\ Otherwise)
<1>1. PICK logins \in session.logins :
        /\ route' = Load(logins, p, explicit).route
        /\ read' = Load(logins, p, explicit).read
        /\ (pc' = stage /\ reply' = reply) \/ (Told({"isError"}) /\ Otherwise)
  BY DEF LoadsNext
<1> QED
  BY <1>1, LoadTyped DEF Standing

LEMMA ReloadsTyped ==
    ASSUME Standing, ReloadsNext
    PROVE  /\ route'.from \in {"none", "openrouter", "xai", "anthropic"}
           /\ read' \in SUBSET {"xai", "anthropic", "own"}
<1>1. route.from \in {"none", "openrouter", "xai", "anthropic"}
      /\ read \in SUBSET {"xai", "anthropic", "own"}
  BY DEF Standing, Typed, TypeOK
<1>2. CASE Reloads(Given, UsedUrl)
  <2>1. PICK logins \in session.logins :
          /\ route' = Load(logins, FinalLabel, FALSE).route
          /\ read' = read \cup Load(logins, FinalLabel, FALSE).read
    BY <1>2 DEF ReloadsNext
  <2>2. Load(logins, FinalLabel, FALSE).read \in SUBSET {"xai", "anthropic"}
    BY LoadTyped DEF Standing
  <2>3. route'.from \in {"none", "openrouter", "xai", "anthropic"}
    BY <2>1, LoadTyped DEF Standing
  <2> QED
    BY <1>1, <2>1, <2>2, <2>3
<1>3. CASE ~Reloads(Given, UsedUrl)
  BY <1>1, <1>3 DEF ReloadsNext
<1> QED
  BY <1>2, <1>3

LEMMA StandingNext == Standing /\ [Next]_vars => Standing'
<1> SUFFICES ASSUME Standing, [Next]_vars PROVE Standing'
  OBVIOUS
<1> USE DEF asking, routing
<1>0. /\ session.host \in {"mcp", "cli"}
      /\ route.from \in {"none", "openrouter", "xai", "anthropic"} /\ IsUrl(base)
      /\ read \in SUBSET {"xai", "anthropic", "own"}
      /\ pc = "writing" => reply.kind \in {"result", "error", "isError"}
      /\ session.host = "mcp" => pc # "command"
      /\ session.host = "cli" => pc \notin {"reading", "dispatch", "call", "checks"}
      /\ pc \in {"call", "checks", "route", "lookup", "hinted"} => Probing
  BY DEF Standing, IsSession, Typed, TypeOK, Stages
<1>1. CASE ReadRequest
  <2>1. rest \in Seq(Pieces(AnyMessage))
    BY DEF Standing, Typed, TypeOK
  <2>2. CASE /\ message' \in AnyMessage /\ rest' \in Seq(Pieces(AnyMessage))
             /\ handled' = Append(handled, message')
             /\ pc' = "dispatch" /\ exit' = exit
    <3>1. handled' \in Seq(AnyMessage)
      BY <2>2 DEF Standing, Typed, TypeOK
    <3>2. Typed'
      BY <1>1, <2>1, <2>2, <3>1, ReadRequestDoes DEF Standing, Typed, TypeOK
    <3>3. Stages'
      BY <1>0, <1>1, <2>1, <2>2, ReadRequestDoes DEF Standing, Stages
    <3> QED
      BY <1>1, <2>1, <3>2, <3>3, ReadRequestDoes DEF Standing
  <2>3. CASE pc' = "exited" /\ exit' \in {"0", "1"} /\ UNCHANGED <<message, rest, handled>>
    <3>1. Typed'
      BY <1>1, <2>1, <2>3, ReadRequestDoes DEF Standing, Typed, TypeOK
    <3>2. Stages'
      BY <1>0, <1>1, <2>1, <2>3, ReadRequestDoes DEF Standing, Stages
    <3> QED
      BY <1>1, <2>1, <3>1, <3>2, ReadRequestDoes DEF Standing
  <2> QED
    BY <1>1, <2>1, <2>2, <2>3, ReadRequestDoes
<1>2. CASE Dispatch
  <2>1. pc = "dispatch" /\ SameCall /\ UNCHANGED <<route, base, read, dialed>>
    BY <1>2, DispatchDoes
  <2>2. \/ pc' = "reading" /\ reply' = reply
        \/ pc' = "call" /\ reply' = reply /\ Probing
        \/ Told({"result", "error", "isError"})
    BY <1>2, DispatchDoes DEF Probing
  <2> QED
    BY <1>0, <2>1, <2>2, StandingStays DEF Told
<1>3. CASE CallArgs
  <2>1. pc = "call" /\ SameCall /\ UNCHANGED <<base, dialed>> /\ session.host = "mcp"
    BY <1>0, <1>3, CallArgsDoes DEF CallArgs
  <2>2. /\ (pc' = "checks" /\ reply' = reply) \/ Told({"isError"})
        /\ route'.from \in {"none", "openrouter", "xai", "anthropic"}
        /\ read' \in SUBSET {"xai", "anthropic", "own"}
    <3>1. CASE LoadsNext(Given, FALSE, "checks")
      BY <3>1, LoadsTyped
    <3>2. CASE UNCHANGED <<route, read>> /\ Told({"isError"})
      BY <1>0, <3>2
    <3> QED
      BY <1>3, <2>1, <3>1, <3>2, CallArgsDoes
  <2> QED
    BY <1>0, <2>1, <2>2, StandingStays DEF Told
<1>4. CASE CallChecks
  BY <1>0, <1>4, CallChecksDoes, StandingStays DEF Told
<1>5. CASE Command
  <2>1. pc = "command" /\ SameCall /\ UNCHANGED dialed /\ session.host = "cli"
    BY <1>0, <1>5, CommandDoes DEF Command
  <2>2. /\ (pc' = "route" /\ reply' = reply) \/ Told({"result", "isError"})
        /\ route'.from \in {"none", "openrouter", "xai", "anthropic"}
        /\ read' \in SUBSET {"xai", "anthropic", "own"}
        /\ IsUrl(base')
    <3>1. CASE LoadsNext(Given, UsedUrl # NoUrl, "route") /\ UNCHANGED base
      BY <1>0, <3>1, LoadsTyped DEF Told
    <3>2. CASE UNCHANGED <<route, base, read>> /\ Told({"isError"})
      BY <1>0, <3>2 DEF Told
    <3>3. CASE UNCHANGED <<route, read>> /\ Told({"result", "isError"})
                 /\ base' = DryRun(args, Given, GivenUrl).base
      BY <1>0, <3>3, DryRunIsUrl DEF Standing
    <3> QED
      BY <1>5, <2>1, <3>1, <3>2, <3>3, CommandDoes
  <2>3. Probing
    BY <2>1 DEF Probing
  <2> QED
    BY <1>0, <2>1, <2>2, <2>3, StandingStays DEF Told
<1>6. CASE FinalizeRoute
  <2>1. pc = "route" /\ SameCall /\ UNCHANGED dialed /\ Probing
    BY <1>0, <1>6, FinalizeDoes
  <2>2. /\ (pc' = "lookup" /\ reply' = reply) \/ Told({"isError"})
        /\ route'.from \in {"none", "openrouter", "xai", "anthropic"}
        /\ read' \in SUBSET {"xai", "anthropic", "own"}
        /\ IsUrl(base')
    <3>1. CASE ReloadsNext /\ base' = FinalBase
      BY <1>6, <3>1, FinalizeDoes, ReloadsTyped, FinalBaseIsUrl DEF Standing
    <3>2. CASE UNCHANGED <<route, base, read>>
      BY <1>0, <1>6, <3>2, FinalizeDoes
    <3> QED
      BY <1>6, <3>1, <3>2, FinalizeDoes
  <2> QED
    BY <1>0, <2>1, <2>2, StandingStays DEF Told
<1>7. CASE Hit
  BY <1>0, <1>7, HitDoes, StandingStays DEF Told
<1>8. CASE NoKey
  BY <1>0, <1>8, NoKeyDoes, StandingStays DEF Told
<1>9. CASE Catalog
  BY <1>0, <1>9, CatalogDoes, StandingStays DEF Told, DialsNext
<1>10. CASE Run
  BY <1>0, <1>10, RunDoes, StandingStays DEF Told, DialsNext
<1>11. CASE Write
  <2>1. UNCHANGED <<session, rest, message, routing, handled, stdout>>
        /\ pc = "writing" /\ reply' = Nothing /\ read' = {} /\ dialed' = {}
    BY <1>11, WriteDoes
  <2>2. /\ pc' \in {"reading", "exited"} /\ exit' \in {"running", "0", "1"}
        /\ session.host = "cli" => pc' = "exited"
        /\ replies' \in Seq([id : Nat, kind : {"result", "error", "isError"}])
    <3>1. message.id \in Nat
      <4>1. NoMessage.id = 0
        BY DEF NoMessage
      <4> QED
        BY <4>1 DEF Standing, Typed, TypeOK, AnyMessage
    <3> DEFINE answers == [id : Nat, kind : {"result", "error", "isError"}]
               answer == [id |-> message.id, kind |-> reply.kind]
    <3>2. answer \in answers
      BY <1>0, <2>1, <3>1
    <3>3. replies \in Seq(answers) /\ exit \in {"running", "0", "1"}
      BY DEF Standing, Typed, TypeOK
    <3> HIDE DEF answers, answer
    <3>4. replies' \in {replies, Append(replies, answer)}
      BY <1>11, WriteDoes DEF answer
    <3>5. replies' \in Seq(answers)
      BY <3>2, <3>3, <3>4
    <3> QED
      BY <1>11, <3>3, <3>5, WriteDoes DEF answers
  <2>3. Nothing.kind = "nothing"
    BY DEF Nothing
  <2>4. Typed'
    BY <2>1, <2>2, <2>3 DEF Standing, Typed, TypeOK
  <2>5. Stages'
    BY <1>0, <2>1, <2>2 DEF Standing, Stages
  <2> QED
    BY <2>1, <2>4, <2>5 DEF Standing
<1>12. CASE Hangup
  <2>1. /\ UNCHANGED <<session, rest, pc, message, routing, asking, reply, handled, replies, exit>>
        /\ stdout' = FALSE
    BY <1>12 DEF Hangup
  <2>2. Typed'
    BY <2>1 DEF Standing, Typed, TypeOK
  <2>3. Stages'
    BY <2>1, SameArguments DEF Standing, Stages, Probing
  <2> QED
    BY <2>1, <2>2, <2>3 DEF Standing
<1>13. CASE UNCHANGED vars
  <2>1. Typed'
    BY <1>13 DEF Standing, Typed, TypeOK, vars
  <2>2. Stages'
    BY <1>13, SameArguments DEF Standing, Stages, Probing, vars
  <2> QED
    BY <1>13, <2>1, <2>2 DEF Standing, vars
<1> QED
  BY <1>1, <1>2, <1>3, <1>4, <1>5, <1>6, <1>7, <1>8, <1>9, <1>10, <1>11, <1>12, <1>13 DEF Next

\* Every call of the process and everything in it is of its type.
THEOREM TypeCorrect == Spec => []TypeOK
<1>1. Standing => TypeOK
  BY DEF Standing, Typed
<1> QED
  BY <1>1, StagesInit, StandingNext, PTL DEF Spec

----------------------------------------------------------------------------
(* What has been let pass.                                                 *)

\* What a call that has a key was checked for before it was given one.
Admitted ==
    /\ session.host = "mcp" => EnvPermitted(args.var, policy) /\ UrlPermitted(GivenUrl, policy)
    /\ UsedUrl # NoUrl => ValidUrl(UsedUrl)
    /\ args.tools # "bad" /\ args.provider \notin {"blank", "number"}
    /\ session.host = "cli" =>
          /\ args.model \notin {"blank", "control"} /\ args.provider # "control" /\ args.url # BlankUrl
          /\ "bad" \notin {args.cheap, args.full, args.vision, args.force, args.adv}

Admission ==
    /\ pc \in {"checks", "route", "lookup", "hinted"} => Admitted
    /\ (pc \in {"route", "lookup", "hinted"} /\ session.host = "mcp") => Checked
    /\ pc \in {"lookup", "hinted"} => Suite(args) # "refused" /\ Given # "control"

\* What stands in the arguments stays true of them.
LEMMA SameAdmission ==
    ASSUME session' = session, message' = message
    PROVE  Admitted' = Admitted /\ Checked' = Checked /\ Suite(args)' = Suite(args)
BY SameArguments DEF Admitted, Checked, Suite

\* A step within a call, told by where it goes.
LEMMA AdmissionStays ==
    ASSUME Admission, SameCall,
           pc' \in {"checks", "route", "lookup", "hinted"} =>
              Admitted \/ pc \in {"checks", "route", "lookup", "hinted"},
           pc' \in {"route", "lookup", "hinted"} /\ session.host = "mcp" =>
              Checked \/ pc \in {"route", "lookup", "hinted"},
           pc' \in {"lookup", "hinted"} =>
              (Suite(args) # "refused" /\ Given # "control") \/ pc \in {"lookup", "hinted"}
    PROVE  Admission'
BY SameAdmission, SameArguments DEF Admission, SameCall

\* What the command line lets pass is admitted.
LEMMA PassesIsAdmitted ==
    ASSUME Standing, session.host = "cli", CommandPasses
    PROVE  Admitted
<1>1. /\ args = session.command.args
      /\ session.command.args.provider # "number"
      /\ "bad" \notin {session.command.args[name] : name \in {"cheap", "full", "vision", "force", "adv"}}
  BY DEF Standing, Stages, IsSession, args
<1>2. "bad" \notin {args.cheap, args.full, args.vision, args.force, args.adv}
  <2>1. \A name \in {"cheap", "full", "vision", "force", "adv"} : args[name] # "bad"
    BY <1>1
  <2> QED
    BY <2>1
<1>3. UsedUrl = GivenUrl
  BY DEF UsedUrl
<1> QED
  BY <1>1, <1>2, <1>3 DEF CommandPasses, Admitted

LEMMA AdmissionNext == Standing /\ Admission /\ [Next]_vars => Admission'
<1> SUFFICES ASSUME Standing, Admission, [Next]_vars PROVE Admission'
  OBVIOUS
<1>0. /\ session.host \in {"mcp", "cli"}
      /\ session.host = "mcp" => pc # "command"
      /\ session.host = "cli" => pc \notin {"reading", "dispatch", "call", "checks"}
      /\ rest \in Seq(Pieces(AnyMessage))
  BY DEF Standing, IsSession, Stages, Typed, TypeOK
<1>1. CASE ReadRequest \/ Write
  <2>1. pc' \in {"dispatch", "reading", "exited"}
    BY <1>0, <1>1, ReadRequestDoes, WriteDoes
  <2> QED
    BY <2>1 DEF Admission
<1>2. CASE Dispatch
  BY <1>2, DispatchDoes, AdmissionStays DEF Told
<1>3. CASE CallArgs
  <2>1. session.host = "mcp" /\ pc = "call" /\ SameCall
    BY <1>0, <1>3, CallArgsDoes DEF CallArgs
  <2>2. \/ Told({"isError"})
        \/ /\ args.tools # "bad" /\ args.provider \notin {"blank", "number"}
           /\ UsedUrl # NoUrl => ValidUrl(UsedUrl)
           /\ EnvPermitted(args.var, policy) /\ UrlPermitted(GivenUrl, policy)
           /\ pc' = "checks"
    BY <1>3, <2>1, CallArgsDoes, LoadsTyped
  <2> QED
    BY <2>1, <2>2, AdmissionStays DEF Told, Admitted
<1>4. CASE CallChecks
  BY <1>4, CallChecksDoes, AdmissionStays DEF Told
<1>5. CASE Command
  <2>1. session.host = "cli" /\ pc = "command" /\ SameCall
    BY <1>0, <1>5, CommandDoes DEF Command
  <2>2. Told({"result", "isError"}) \/ (CommandPasses /\ pc' = "route")
    BY <1>5, <2>1, CommandDoes, LoadsTyped DEF Told
  <2> QED
    BY <2>1, <2>2, AdmissionStays, PassesIsAdmitted DEF Told
<1>6. CASE FinalizeRoute
  BY <1>6, FinalizeDoes, AdmissionStays DEF Told
<1>7. CASE Hit
  BY <1>7, HitDoes, AdmissionStays DEF Told
<1>8. CASE NoKey
  BY <1>8, NoKeyDoes, AdmissionStays DEF Told
<1>9. CASE Catalog
  BY <1>9, CatalogDoes, AdmissionStays DEF Told
<1>10. CASE Run
  BY <1>10, RunDoes, AdmissionStays DEF Told
<1>11. CASE UNCHANGED <<session, pc, message>>
  BY <1>11, SameAdmission, SameArguments DEF Admission
<1> QED
  BY <1>1, <1>2, <1>3, <1>4, <1>5, <1>6, <1>7, <1>8, <1>9, <1>10, <1>11 DEF Next, Hangup, vars

----------------------------------------------------------------------------
(* Where a call is to go, and with which key.                              *)

\* The key is the one that is loaded for the label p.
LoadedFor(p) ==
    \E logins \in LoginStates, explicit \in BOOLEAN : route = Load(logins, p, explicit).route

\* The base and the label are settled, and the key is the label's.
Routed ==
    /\ Admitted
    /\ LoadedFor(NamedLabel)
    /\ base = FinalBase /\ label = FinalLabel
    /\ ValidUrl(base) /\ ~BaseConflict(label, base)

Refused == RefuseCloudWithoutKey(route.key, base)

Routing ==
    /\ pc \in {"checks", "route"} => LoadedFor(Given)
    /\ pc \in {"lookup", "hinted"} => Routed
    /\ (pc = "hinted" \/ dialed # {}) => Routed /\ ~Refused
    /\ dialed \subseteq {Request("openai-compat"), Request(label)}
    /\ reply.why = "key" => Routed /\ Refused
    /\ "own" \notin read

LEMMA SameRouting ==
    ASSUME UNCHANGED <<session, message, route, base, label>>
    PROVE  /\ \A p : LoadedFor(p)' = LoadedFor(p)
           /\ LoadedFor(Given)' = LoadedFor(Given) /\ LoadedFor(NamedLabel)' = LoadedFor(NamedLabel)
           /\ FinalBase' = FinalBase /\ FinalLabel' = FinalLabel
           /\ Routed' = Routed /\ Refused' = Refused
           /\ \A p : Request(p)' = Request(p)
           /\ Request(label)' = Request(label)
<1>1. /\ \A p : LoadedFor(p)' = LoadedFor(p)
      /\ LoadedFor(Given)' = LoadedFor(Given) /\ LoadedFor(NamedLabel)' = LoadedFor(NamedLabel)
  BY SameRoutes, SameArguments DEF LoadedFor
<1>2. FinalBase' = FinalBase /\ FinalLabel' = FinalLabel
  BY SameArguments DEF FinalBase, FinalLabel
<1>3. Routed' = Routed /\ Refused' = Refused
  BY <1>1, <1>2, SameAdmission DEF Routed, Refused
<1>4. (\A p : Request(p)' = Request(p)) /\ Request(label)' = Request(label)
  BY DEF Request
<1> QED
  BY <1>1, <1>2, <1>3, <1>4

\* A client that may be built has a key, or asks this machine or a host that is
\* no cloud's, and needs no token of its own.
LEMMA NoOwnLogin ==
    ASSUME Routed, ~Refused, NEW p \in {"openai-compat", label}
    PROVE  /\ ~BaseConflict(p, base)
           /\ ~FindsOwnLogin(route.key, p, base)
<1>1. ~BaseConflict(p, base)
  <2>1. "openai-compat" \notin CodexLabels \cup GrokMessagesLabels \cup BedrockLabels
    BY DEF CodexLabels, GrokMessagesLabels, BedrockLabels, BedrockHosts
  <2> QED
    BY <2>1 DEF Routed, BaseConflict
<1>2. CASE route.key = "none"
  <2>1. UrlHost(base) \notin CloudHosts
    BY <1>2 DEF Refused, RefuseCloudWithoutKey
  <2> QED
    BY <1>1, <2>1, DialsWhere DEF FindsOwnLogin
<1>3. CASE route.key # "none"
  BY <1>1, <1>3 DEF FindsOwnLogin
<1> QED
  BY <1>2, <1>3

LEMMA LoadsGiven ==
    ASSUME Standing, UNCHANGED <<session, message>>,
           NEW explicit \in BOOLEAN, NEW stage, LoadsNext(Given, explicit, stage)
    PROVE  LoadedFor(Given)' /\ "own" \notin read'
<1>1. PICK logins \in session.logins :
        /\ route' = Load(logins, Given, explicit).route
        /\ read' = Load(logins, Given, explicit).read
  BY DEF LoadsNext
<1>2. logins \in LoginStates
  BY DEF Standing, IsSession
<1>3. Load(logins, Given, explicit)' = Load(logins, Given, explicit)
  BY SameArguments DEF Load
<1>4. Load(logins, Given, explicit).read \in SUBSET {"xai", "anthropic"}
  BY LoadTyped DEF Standing
<1>5. "own" \notin read'
  BY <1>1, <1>4
<1>6. \E l \in LoginStates, x \in BOOLEAN : route' = Load(l, Given, x)'.route
  BY <1>1, <1>2, <1>3
<1> QED
  BY <1>5, <1>6 DEF LoadedFor

\* A URL without a label names one.
LEMMA UrlNames ==
    ASSUME Standing, Given = "", UsedUrl # NoUrl
    PROVE  /\ FinalLabel = NamedLabel
           /\ message \in AnyMessage /\ ValidUrl(UsedUrl) => NamedLabel # ""
<1>1. FinalLabel = ProviderFromBaseUrl(NormalizeOllama(UsedUrl))
  BY DEF FinalLabel, Finalized
<1>2. NamedLabel = ProviderFromBaseUrl(UsedUrl)
  BY DEF NamedLabel
<1>3. FinalLabel = NamedLabel
  BY <1>1, <1>2, UrlsAreUrls, NormalIsSameHost DEF Standing
<1>4. ASSUME message \in AnyMessage, ValidUrl(UsedUrl) PROVE NamedLabel # ""
  <2>1. Labelled(args.url) /\ Labelled(policy.url)
    BY <1>4 DEF AnyMessage, args, policy, Standing, IsSession
  <2>2. UsedUrl \in {args.url, policy.url}
    BY DEF UsedUrl, EffectiveUrl, GivenUrl
  <2>3. Labelled(UsedUrl)
    BY <2>1, <2>2
  <2> QED
    BY <1>2, <1>4, <2>3, UrlIsNamed
<1> QED
  BY <1>3, <1>4

\* The label that stands after the base is settled is the one the key was last
\* loaded for.
LEMMA ReloadsNextFor ==
    ASSUME Standing, UNCHANGED <<session, message>>, LoadedFor(Given), "own" \notin read,
           ReloadsNext
    PROVE  /\ LoadedFor(NamedLabel)' /\ "own" \notin read'
           /\ FinalBase' = FinalBase /\ FinalLabel' = FinalLabel
<1>0. NamedLabel' = NamedLabel /\ Given' = Given /\ UsedUrl' = UsedUrl
  BY SameArguments
<1>1. CASE Given = "" /\ UsedUrl # NoUrl
  <2>1. Reloads(Given, UsedUrl)
    BY <1>1 DEF Reloads
  <2>2. PICK logins \in session.logins :
          /\ route' = Load(logins, FinalLabel, FALSE).route
          /\ read' = read \cup Load(logins, FinalLabel, FALSE).read
    BY <2>1 DEF ReloadsNext
  <2>3. FinalLabel = NamedLabel
    BY <1>1, UrlNames
  <2>4. logins \in LoginStates
    BY DEF Standing, IsSession
  <2>5. route' = Load(logins, NamedLabel, FALSE)'.route
    <3>1. Load(logins, NamedLabel, FALSE)' = Load(logins, NamedLabel, FALSE)
      BY SameArguments DEF Load
    <3> QED
      BY <2>2, <2>3, <3>1
  <2>6. "own" \notin read'
    <3>1. Load(logins, FinalLabel, FALSE).read \in SUBSET {"xai", "anthropic"}
      BY LoadTyped DEF Standing
    <3> QED
      BY <2>2, <3>1
  <2>7. FinalBase' = FinalBase /\ FinalLabel' = FinalLabel
    BY <1>0, <1>1 DEF FinalBase, FinalLabel, Finalized
  <2> QED
    BY <2>4, <2>5, <2>6, <2>7 DEF LoadedFor
<1>2. CASE ~(Given = "" /\ UsedUrl # NoUrl)
  <2>1. UNCHANGED <<route, read>>
    BY <1>2 DEF ReloadsNext, Reloads
  <2>2. NamedLabel = Given
    BY <1>2 DEF NamedLabel
  <2>3. LoadedFor(Given)' = LoadedFor(Given)
    BY <2>1, SameRoutes, SameArguments DEF LoadedFor
  <2>4. LoadedFor(NamedLabel)' = LoadedFor(Given)'
    BY <1>0, <2>2 DEF LoadedFor
  <2>5. FinalBase' = FinalBase /\ FinalLabel' = FinalLabel
    BY <1>0, <2>1 DEF FinalBase, FinalLabel
  <2> QED
    BY <2>1, <2>3, <2>4, <2>5
<1> QED
  BY <1>1, <1>2

\* A step within a call that settles nothing new about the route.
LEMMA RoutingStays ==
    ASSUME Routing, UNCHANGED <<session, message, route, base, label, read>>,
           pc' \in {"checks", "route"} => pc \in {"checks", "route"},
           pc' \in {"lookup", "hinted"} => pc \in {"lookup", "hinted"},
           pc' # "hinted" \/ pc = "hinted",
           dialed' \in {dialed, {}},
           reply'.why # "key" \/ (Routed /\ Refused)
    PROVE  Routing'
BY SameRouting DEF Routing

LEMMA RoutingInit == Init => Routing
<1> SUFFICES ASSUME Init PROVE Routing
  OBVIOUS
<1>1. pc \in {"reading", "command"} /\ dialed = {} /\ reply.why = "none" /\ read = {}
  BY DEF Init, Nothing
<1> QED
  BY <1>1 DEF Routing

LEMMA RoutingNext == Standing /\ Admission /\ Admission' /\ Routing /\ [Next]_vars => Routing'
<1> SUFFICES ASSUME Standing, Admission, Admission', Routing, [Next]_vars PROVE Routing'
  OBVIOUS
<1> USE DEF asking, routing
<1>0. /\ session.host \in {"mcp", "cli"}
      /\ session.host = "mcp" => pc # "command"
      /\ session.host = "cli" => pc \notin {"reading", "dispatch", "call", "checks"}
      /\ rest \in Seq(Pieces(AnyMessage))
      /\ pc \notin {"hinted", "writing"} => dialed = {}
      /\ pc # "writing" => reply = Nothing
      /\ Nothing.why = "none"
      /\ pc \notin {"checks", "route", "lookup", "hinted", "writing"} => read = {}
  BY DEF Standing, IsSession, Stages, Typed, TypeOK, Nothing
<1>1. CASE ReadRequest
  <2>1. pc = "reading" /\ pc' \in {"dispatch", "exited"} /\ UNCHANGED <<asking, reply>>
    BY <1>0, <1>1, ReadRequestDoes
  <2> QED
    BY <1>0, <2>1 DEF Routing
<1>2. CASE Dispatch
  BY <1>0, <1>2, DispatchDoes, RoutingStays DEF Told, Otherwise, SameCall
<1>3. CASE CallArgs
  <2>1. session.host = "mcp" /\ pc = "call" /\ SameCall /\ UNCHANGED <<base, label, opened, dialed>>
    BY <1>0, <1>3, CallArgsDoes DEF CallArgs
  <2>2. CASE UNCHANGED <<route, read>> /\ Told({"isError"}) /\ Otherwise
    BY <2>1, <2>2, RoutingStays DEF Told, Otherwise, SameCall
  <2>3. CASE LoadsNext(Given, FALSE, "checks")
    <3>1. LoadedFor(Given)' /\ "own" \notin read'
      BY <2>1, <2>3, LoadsGiven DEF SameCall
    <3>2. (pc' = "checks" /\ reply' = reply) \/ (Told({"isError"}) /\ Otherwise)
      BY <2>3, LoadsTyped
    <3> QED
      BY <1>0, <2>1, <3>1, <3>2 DEF Routing, Told, Otherwise
  <2> QED
    BY <1>3, <2>1, <2>2, <2>3, CallArgsDoes
<1>4. CASE CallChecks
  BY <1>0, <1>4, CallChecksDoes, RoutingStays DEF Told, Otherwise, SameCall
<1>5. CASE Command
  <2>1. session.host = "cli" /\ pc = "command" /\ SameCall /\ UNCHANGED dialed
    BY <1>0, <1>5, CommandDoes DEF Command
  <2>2. CASE UNCHANGED read /\ Told({"result", "isError"}) /\ Otherwise
    BY <1>0, <2>1, <2>2 DEF Routing, Told, Otherwise
  <2>3. CASE LoadsNext(Given, UsedUrl # NoUrl, "route")
    <3>1. LoadedFor(Given)' /\ "own" \notin read'
      BY <2>1, <2>3, LoadsGiven DEF SameCall
    <3>2. (pc' = "route" /\ reply' = reply) \/ (Told({"isError"}) /\ Otherwise)
      BY <2>3, LoadsTyped
    <3> QED
      BY <1>0, <2>1, <3>1, <3>2 DEF Routing, Told, Otherwise
  <2> QED
    BY <1>5, <2>1, <2>2, <2>3, CommandDoes DEF Told
<1>6. CASE FinalizeRoute
  <2>1. pc = "route" /\ SameCall /\ UNCHANGED dialed /\ dialed = {}
    BY <1>0, <1>6, FinalizeDoes
  <2>2. CASE UNCHANGED read /\ Told({"isError"}) /\ reply'.why # "key"
    BY <2>1, <2>2 DEF Routing, Told
  <2>3. CASE /\ ValidUrl(FinalBase) /\ base' = FinalBase /\ label' = FinalLabel /\ ReloadsNext
             /\ ~BaseConflict(FinalLabel, FinalBase)
             /\ pc' = "lookup" /\ reply' = reply
    <3>1. /\ LoadedFor(NamedLabel)' /\ "own" \notin read'
          /\ FinalBase' = FinalBase /\ FinalLabel' = FinalLabel
      BY <2>1, <2>3, ReloadsNextFor DEF Routing, SameCall
    <3>2. Admitted'
      BY <2>3 DEF Admission
    <3>3. Routed'
      BY <2>3, <3>1, <3>2 DEF Routed
    <3> QED
      BY <1>0, <2>1, <2>3, <3>1, <3>3 DEF Routing
  <2>4. CASE ReloadsNext /\ Told({"isError"}) /\ reply'.why # "key"
    <3>1. "own" \notin read'
      BY <2>1, <2>4, ReloadsNextFor DEF Routing, SameCall
    <3> QED
      BY <2>1, <2>4, <3>1 DEF Routing, Told
  <2> QED
    BY <1>6, <2>1, <2>2, <2>3, <2>4, FinalizeDoes DEF Otherwise
<1>7. CASE Hit
  BY <1>0, <1>7, HitDoes, RoutingStays DEF Told, Otherwise, SameCall
<1>8. CASE NoKey
  <2>1. Routed /\ Refused
    BY <1>8, NoKeyDoes DEF Routing, Refused
  <2> QED
    BY <1>0, <1>8, <2>1, NoKeyDoes, RoutingStays DEF Told, SameCall
<1>9. CASE Catalog
  <2>1. pc = "lookup" /\ SameCall /\ UNCHANGED <<session, message, route, base, label>>
        /\ Routed /\ ~Refused
    BY <1>9, CatalogDoes DEF Routing, SameCall, Refused
  <2>2. dialed' \in {dialed, dialed \cup {Request("openai-compat")}} /\ read' = read
    BY <1>9, <2>1, CatalogDoes, NoOwnLogin DEF DialsNext
  <2>3. pc' \in {"hinted", "writing"} /\ reply'.why # "key"
    BY <1>0, <1>9, CatalogDoes DEF Told, Otherwise
  <2>4. Routed' /\ ~Refused'
    BY <2>1, SameRouting
  <2>5. dialed' \subseteq {Request("openai-compat"), Request(label)}'
    BY <2>1, <2>2, SameRouting DEF Routing
  <2> QED
    BY <2>2, <2>3, <2>4, <2>5 DEF Routing
<1>10. CASE Run
  <2>1. pc = "hinted" /\ SameCall /\ UNCHANGED <<session, message, route, base, label>>
        /\ Routed /\ ~Refused
    BY <1>10, RunDoes DEF Routing, SameCall
  <2>2. dialed' = dialed \cup {Request(label)} /\ read' = read
    BY <1>10, <2>1, RunDoes, NoOwnLogin DEF DialsNext
  <2>3. pc' = "writing" /\ reply'.why # "key"
    BY <1>10, RunDoes DEF Told, Otherwise
  <2>4. Routed' /\ ~Refused'
    BY <2>1, SameRouting
  <2>5. dialed' \subseteq {Request("openai-compat"), Request(label)}'
    BY <2>1, <2>2, SameRouting DEF Routing
  <2> QED
    BY <2>2, <2>3, <2>4, <2>5 DEF Routing
<1>11. CASE Write
  <2>1. pc' \in {"reading", "exited"} /\ dialed' = {} /\ read' = {} /\ reply' = Nothing
    BY <1>11, WriteDoes
  <2> QED
    BY <1>0, <2>1 DEF Routing
<1>12. CASE Hangup \/ UNCHANGED vars
  <2>1. UNCHANGED <<session, pc, message, route, base, label, read, dialed, reply>>
    BY <1>12 DEF Hangup, vars
  <2> QED
    BY <2>1, SameRouting DEF Routing
<1> QED
  BY <1>1, <1>2, <1>3, <1>4, <1>5, <1>6, <1>7, <1>8, <1>9, <1>10, <1>11, <1>12 DEF Next

\* What holds of every state of every call.
HostInv == Standing /\ Admission /\ Routing

LEMMA HostCorrect == Spec => []HostInv
<1>1. Init => HostInv
  <2>1. Init => Admission
    BY DEF Init, Admission
  <2> QED
    BY <2>1, StagesInit, RoutingInit DEF HostInv
<1>2. HostInv /\ [Next]_vars => HostInv'
  BY StandingNext, AdmissionNext, RoutingNext DEF HostInv
<1> QED
  BY <1>1, <1>2, PTL DEF Spec

----------------------------------------------------------------------------
(* Keys go to their vendor.                                                *)

\* The key that stands for a label, when no variable is named.
LEMMA LoadedFits ==
    ASSUME Standing, NEW p, LoadedFor(p), UsedVar = "none"
    PROVE  KeyFits(route, session.flag, p)
<1>1. PICK logins \in LoginStates, explicit \in BOOLEAN : route = Load(logins, p, explicit).route
  BY DEF LoadedFor
<1>2. CASE session.host = "mcp"
  <2>1. session.flag = "none"
    BY <1>2 DEF Standing, IsSession
  <2> QED
    BY <1>1, <1>2, <2>1, McpRouteFits DEF Load
<1>3. CASE session.host # "mcp"
  <2>1. session.flag \in {"none", "flag"}
    BY DEF Standing, IsSession
  <2> QED
    BY <1>1, <1>3, <2>1, CliRouteFits DEF Load
<1> QED
  BY <1>2, <1>3

\* The key that stands when a variable is named is the variable's or none.
LEMMA LoadedNamed ==
    ASSUME NEW p, LoadedFor(p), UsedVar # "none"
    PROVE  session.host = "mcp" /\ route.key = NamedKey(env, UsedVar, policy)
<1>1. PICK logins \in LoginStates, explicit \in BOOLEAN : route = Load(logins, p, explicit).route
  BY DEF LoadedFor
<1>2. session.host = "mcp"
  BY DEF UsedVar
<1>3. Load(logins, p, explicit) = Loaded(NoKeys, Route(NamedKey(env, UsedVar, policy), FamilyOf(UsedVar)))
  BY <1>2 DEF Load, LoadMcpRoute
<1> QED
  BY <1>1, <1>2, <1>3 DEF Loaded, Route

\* Whoever gives a label or a URL has named the label that the call goes by.
LEMMA NamedIsLabel ==
    ASSUME Standing, Routed, message \in AnyMessage, Given # "" \/ UsedUrl # NoUrl
    PROVE  label = NamedLabel /\ NamedLabel # ""
<1>1. CASE Given # ""
  BY <1>1 DEF Routed, FinalLabel, Finalized, NamedLabel
<1>2. CASE Given = "" /\ UsedUrl # NoUrl
  BY <1>2, UrlNames DEF Routed, Admitted
<1> QED
  BY <1>1, <1>2

\* Without a label and a URL, the call goes to a vendor's main host, under its name.
LEMMA BaseOfNone ==
    ASSUME Standing, Routed, Given = "", UsedUrl = NoUrl
    PROVE  /\ NamedLabel = ""
           /\ UrlHost(base) = base.host /\ DialedName(base.host) = base.host
           /\ label = base.host
           /\ base.host = IF route.from = "xai" THEN "api.x.ai"
                          ELSE IF route.from = "anthropic" THEN "api.anthropic.com"
                          ELSE IF route.from = "openrouter" THEN "openrouter.ai" ELSE "api.openai.com"
<1> DEFINE u == DefaultBaseUrl(route, "")
<1>1. NamedLabel = ""
  BY DEF NamedLabel
<1>2. base = NormalizeOllama(u)
  BY DEF Routed, FinalBase, Finalized
<1>3. u \in {XaiUrl, AnthropicUrl, OpenrouterUrl, OpenaiUrl}
      /\ u = IF route.from = "xai" THEN XaiUrl ELSE IF route.from = "anthropic" THEN AnthropicUrl
             ELSE IF route.from = "openrouter" THEN OpenrouterUrl ELSE OpenaiUrl
  BY DefaultOfNone
<1>4. IsUrl(u)
  BY DefaultBaseIsUrl
<1>5. /\ XaiUrl.host = "api.x.ai" /\ AnthropicUrl.host = "api.anthropic.com"
      /\ OpenrouterUrl.host = "openrouter.ai" /\ OpenaiUrl.host = "api.openai.com"
      /\ XaiUrl.port = "none" /\ AnthropicUrl.port = "none"
      /\ OpenrouterUrl.port = "none" /\ OpenaiUrl.port = "none"
  BY DEF XaiUrl, AnthropicUrl, OpenrouterUrl, OpenaiUrl, Url
<1>6. /\ u.port = "none"
      /\ u.host = IF route.from = "xai" THEN "api.x.ai"
                  ELSE IF route.from = "anthropic" THEN "api.anthropic.com"
                  ELSE IF route.from = "openrouter" THEN "openrouter.ai" ELSE "api.openai.com"
  BY <1>3, <1>5
<1> HIDE DEF u
<1>7. base.host = u.host /\ base.port = "none"
  BY <1>2, <1>4, <1>6, NormalIsSameHost
<1>8. UrlHost(base) = base.host /\ DialedName(base.host) = base.host
  BY <1>6, <1>7 DEF UrlHost, DialedName, Bare
<1>9. label = base.host
  <2>1. label = ProviderFromBaseUrl(base)
    BY DEF Routed, FinalLabel, FinalBase, Finalized
  <2> QED
    BY <1>6, <1>7, <2>1 DEF ProviderFromBaseUrl, Bare
<1> QED
  BY <1>1, <1>6, <1>7, <1>8, <1>9

\* A request that is made, and the state it is made in.
LEMMA Dialed ==
    ASSUME HostInv, NEW d \in dialed
    PROVE  /\ Routed /\ ~Refused /\ message \in AnyMessage
           /\ d.key = route.key /\ d.label = label
           /\ SameVendor(d.host, DialedName(base.host))
           /\ UrlHost(base) \notin CloudHosts => d.host \notin CloudHosts
           /\ {DialedName(base.host), Bare(base.host)} \subseteq Loopback => d.host \in Loopback
<1>1. Routed /\ ~Refused /\ d \in {Request("openai-compat"), Request(label)}
  BY DEF HostInv, Routing
<1>2. PICK p \in {"openai-compat", label} : d = Request(p)
  BY <1>1
<1>3. d.key = route.key /\ d.label = label /\ d.host = DialedHost(p, base)
  BY <1>2 DEF Request
<1>4. ~BaseConflict(p, base)
  BY <1>1, NoOwnLogin
<1>5. message \in AnyMessage
  BY DEF HostInv, Standing, Typed, Stages
<1> QED
  BY <1>1, <1>3, <1>4, <1>5, DialsWhere

LEMMA KeyAlone == HostInv => NamedKeyAlone
<1> SUFFICES ASSUME HostInv, session.host = "mcp", NEW d \in dialed
             PROVE  /\ policy.env # "none" => d.key \in {policy.env, "none"}
                    /\ (policy.env = "none" /\ args.var # "none") =>
                          args.var \in Allowlist /\ d.key \in {args.var, "none"}
  BY DEF NamedKeyAlone
<1>1. Routed /\ d.key = route.key
  BY Dialed
<1>2. EnvPermitted(args.var, policy) /\ LoadedFor(NamedLabel)
  BY <1>1 DEF Routed, Admitted
<1>3. UsedVar # "none" => d.key \in {UsedVar, "none"}
  BY <1>1, <1>2, LoadedNamed DEF NamedKey, Read
<1>4. CASE policy.env # "none"
  BY <1>3, <1>4 DEF UsedVar, EffectiveEnv
<1>5. CASE policy.env = "none"
  BY <1>2, <1>3, <1>5 DEF UsedVar, EffectiveEnv, EnvPermitted
<1> QED
  BY <1>4, <1>5

LEMMA SameVendorAs ==
    ASSUME NEW h
    PROVE  /\ SameVendor(h, "api.x.ai") => h \in XaiHosts
           /\ SameVendor(h, "api.anthropic.com") => h \in AnthropicHosts
BY DEF SameVendor, XaiHosts, GrokHosts, AnthropicHosts, GroqHosts, OpenaiHosts, BedrockHosts

LEMMA KeysFollow == HostInv => KeysFollowTheVendor
<1> SUFFICES ASSUME HostInv, UsedVar = "none", NEW d \in dialed
             PROVE  /\ d.key \in XaiKeys => d.host \in XaiHosts \cup GrokHosts \/ UsesXaiCredentials(NamedLabel)
                    /\ d.key \in AnthropicKeys => d.host \in AnthropicHosts \/ NamedLabel \in AnthropicLabels
                    /\ d.key = "GROQ_API_KEY" => d.host \in GroqHosts \/ NamedLabel \in GroqLabels
                    /\ d.key = "AWS_BEARER_TOKEN_BEDROCK" => d.host \in BedrockHosts \/ NamedLabel \in BedrockLabels
                    /\ d.label \in VendorLabels => d.key \notin {"OPENAI_API_KEY", "OPENROUTER_API_KEY"}
                    /\ (session.host = "cli" /\ session.flag # "none") => d.key = "flag"
  BY DEF KeysFollowTheVendor
<1>1. /\ Routed /\ message \in AnyMessage /\ d.key = route.key /\ d.label = label
      /\ SameVendor(d.host, DialedName(base.host))
  BY Dialed
<1>2. Standing /\ LoadedFor(NamedLabel)
  BY <1>1 DEF HostInv, Routed
<1>3. KeyFits(route, session.flag, NamedLabel)
  BY <1>2, LoadedFits
<1>4. session.flag \in {"none", "flag"}
  BY <1>2 DEF Standing, IsSession
<1>5. CASE Given # "" \/ UsedUrl # NoUrl
  <2>1. label = NamedLabel /\ NamedLabel # ""
    BY <1>1, <1>2, <1>5, NamedIsLabel
  <2> QED
    BY <1>1, <1>3, <1>4, <2>1 DEF KeyFits
<1>6. CASE Given = "" /\ UsedUrl = NoUrl
  <2>1. /\ NamedLabel = "" /\ DialedName(base.host) = base.host /\ label = base.host
        /\ base.host = IF route.from = "xai" THEN "api.x.ai"
                       ELSE IF route.from = "anthropic" THEN "api.anthropic.com"
                       ELSE IF route.from = "openrouter" THEN "openrouter.ai" ELSE "api.openai.com"
    BY <1>1, <1>2, <1>6, BaseOfNone
  <2>2. /\ route.from = "xai" => d.host \in XaiHosts
        /\ route.from = "anthropic" => d.host \in AnthropicHosts
    BY <1>1, <2>1, SameVendorAs
  <2>3. label \in VendorLabels => route.from \in {"xai", "anthropic"}
    BY <2>1 DEF VendorLabels, XaiLabels, GrokBuildLabels, GrokMessagesLabels, AnthropicLabels,
                GroqLabels, BedrockLabels, BedrockHosts
  <2>4. "" \notin VendorLabels /\ ~UsesXaiCredentials("")
    BY LabelsApart
  <2>5. /\ route.key \in XaiKeys => route.from = "xai"
        /\ route.key \in AnthropicKeys => route.from = "anthropic"
        /\ route.key \notin {"GROQ_API_KEY", "AWS_BEARER_TOKEN_BEDROCK"}
        /\ route.from \in {"xai", "anthropic"} => route.key \notin {"OPENAI_API_KEY", "OPENROUTER_API_KEY"}
        /\ session.flag # "none" => route.key = session.flag
    BY <1>3, <2>1, <2>4 DEF KeyFits, VendorLabels
  <2> QED
    BY <1>1, <1>4, <2>2, <2>3, <2>5
<1> QED
  BY <1>5, <1>6

LEMMA CloudsKeyed == HostInv => CloudsNeedAKey
<1> SUFFICES ASSUME HostInv PROVE CloudsNeedAKey
  OBVIOUS
<1>1. "own" \notin read
  BY DEF HostInv, Routing
<1>2. ASSUME NEW d \in dialed, d.key = "none" PROVE d.host \notin CloudHosts
  BY <1>2, Dialed DEF Refused, RefuseCloudWithoutKey
<1> QED
  BY <1>1, <1>2 DEF CloudsNeedAKey

LEMMA DialsTold == HostInv => DialsWhereItWasTold
<1> SUFFICES ASSUME HostInv, NEW d \in dialed
             PROVE  /\ UsedUrl # NoUrl => SameVendor(d.host, DialedName(UsedUrl.host))
                    /\ (session.host = "mcp" /\ policy.url # NoUrl) => GivenUrl \in {NoUrl, policy.url}
                    /\ (FromTool /\ ~policy.allow_base_url) => d.host \in Loopback
                    /\ (args.provider \in LoopbackLabels /\ UsedUrl = NoUrl) => d.host \in Loopback
  BY DEF DialsWhereItWasTold
<1>1. /\ Routed /\ Standing
      /\ SameVendor(d.host, DialedName(base.host))
      /\ {DialedName(base.host), Bare(base.host)} \subseteq Loopback => d.host \in Loopback
  BY Dialed DEF HostInv
<1>2. UsedUrl # NoUrl => base.host = UsedUrl.host
  <2>1. UsedUrl # NoUrl => base = NormalizeOllama(UsedUrl)
    BY <1>1 DEF Routed, FinalBase, Finalized
  <2> QED
    BY <1>1, <2>1, UrlsAreUrls, NormalIsSameHost DEF Standing
<1>3. session.host = "mcp" => UrlPermitted(GivenUrl, policy)
  BY <1>1 DEF Routed, Admitted
<1>4. (session.host = "mcp" /\ policy.url # NoUrl) => GivenUrl \in {NoUrl, policy.url}
  BY <1>3 DEF UrlPermitted
<1>5. (FromTool /\ ~policy.allow_base_url) => d.host \in Loopback
  <2>1. FromTool => UsedUrl = GivenUrl /\ GivenUrl # NoUrl /\ policy.url = NoUrl /\ session.host = "mcp"
    BY DEF FromTool, ToolSupplied, UsedUrl, EffectiveUrl
  <2>2. (FromTool /\ ~policy.allow_base_url) => ToolUrlIsLoopback(UsedUrl)
    BY <1>3, <2>1 DEF UrlPermitted
  <2> QED
    BY <1>1, <1>2, <2>1, <2>2 DEF ToolUrlIsLoopback
<1>6. ASSUME args.provider \in LoopbackLabels, UsedUrl = NoUrl PROVE d.host \in Loopback
  <2> DEFINE p == args.provider
  <2>1. p \notin NamedLabels \cup {"absent"}
    BY <1>6, LabelAssumption
  <2>2. Given = p /\ p # ""
    BY <2>1 DEF Given, NamedLabels
  <2>3. DefaultBaseUrl(route, Given) = LocalProviderUrl(p)
    BY <1>6, <2>2 DEF DefaultBaseUrl, DefaultCompatUrl, IsLocalLabel
  <2>4. base = NormalizeOllama(LocalProviderUrl(p))
    BY <1>1, <1>6, <2>3 DEF Routed, FinalBase, Finalized
  <2>5. /\ IsUrl(LocalProviderUrl(p))
        /\ {DialedName(LocalProviderUrl(p).host), Bare(LocalProviderUrl(p).host)} \subseteq Loopback
    BY <1>6, LoopbackLabelIsLocal
  <2>6. base.host = LocalProviderUrl(p).host
    BY <2>4, <2>5, NormalIsSameHost
  <2> QED
    BY <1>1, <2>5, <2>6
<1> QED
  BY <1>1, <1>2, <1>4, <1>5, <1>6

\* Whoever names the host, the key or the label, a key goes to its vendor or
\* where its caller says, a cloud is never asked without one, and a tool reaches
\* what the server's policy lets it reach.
THEOREM KeysGoHome == Spec => []KeysGoToTheirVendor
<1>1. HostInv => KeysGoToTheirVendor
  BY KeyAlone, KeysFollow, CloudsKeyed, DialsTold DEF KeysGoToTheirVendor
<1> QED
  BY <1>1, HostCorrect, PTL

----------------------------------------------------------------------------
(* Nobody is asked in vain.                                                *)

\* What the set r of logins asked for says of a load of keys.
Asks(r, e, own, p, explicit, skip) ==
    LET keyless == /\ p = "" /\ ~explicit /\ own = "none"
                   /\ e \cap {"OPENAI_API_KEY", "OPENROUTER_API_KEY"} = {}
    IN  /\ r # {} => ~skip
        /\ "xai" \in r => XaiEnvKey(e) = "none" /\ (UsesXaiCredentials(p) \/ keyless)
        /\ "anthropic" \in r =>
              /\ AnthropicEnvKey(e) = "none"
              /\ p \in AnthropicLabels \/ (keyless /\ XaiEnvKey(e) = "none")

LEMMA VendorAsks ==
    ASSUME NEW e, NEW logins, NEW own, NEW p, NEW explicit, NEW skip
    PROVE  Asks(VendorKeys(e, logins, own, p, explicit, skip).read, e, own, p, explicit, skip)
<1> DEFINE r == VendorKeys(e, logins, own, p, explicit, skip).read
           keyless == /\ p = "" /\ ~explicit /\ own = "none"
                      /\ e \cap {"OPENAI_API_KEY", "OPENROUTER_API_KEY"} = {}
           xaiEnv == XaiEnvKey(e)
           others == {Read(e, "OPENAI_API_KEY"), Read(e, "OPENROUTER_API_KEY"), own} \ {"none"}
           asksXai == xaiEnv = "none" /\ ~skip /\ ShouldLoadXaiOauth(p, others # {}, explicit)
           xai == IF asksXai /\ logins.xai = "token" THEN "xai-oauth" ELSE xaiEnv
           failed == asksXai /\ logins.xai = "failed"
           asksClaude ==
               /\ ~failed /\ AnthropicEnvKey(e) = "none" /\ ~skip
               /\ ShouldLoadClaudeLogin(p, others # {} \/ xai # "none", explicit)
<1>1. r = (IF asksXai THEN {"xai"} ELSE {}) \cup (IF asksClaude THEN {"anthropic"} ELSE {})
  BY Zenon DEF VendorKeys
<1>2. others = {} => own = "none" /\ e \cap {"OPENAI_API_KEY", "OPENROUTER_API_KEY"} = {}
  BY DEF Read
<1>3. asksXai => xaiEnv = "none" /\ ~skip /\ (UsesXaiCredentials(p) \/ keyless)
  BY <1>2 DEF ShouldLoadXaiOauth
<1>4. xai = "none" => xaiEnv = "none"
  OBVIOUS
<1>5. asksClaude => /\ AnthropicEnvKey(e) = "none" /\ ~skip
                    /\ p \in AnthropicLabels \/ (keyless /\ xaiEnv = "none")
  BY <1>2, <1>4 DEF ShouldLoadClaudeLogin
<1> HIDE DEF asksXai, asksClaude, r
<1>6. /\ "xai" \in r => asksXai
      /\ "anthropic" \in r => asksClaude
      /\ r # {} => asksXai \/ asksClaude
  BY <1>1
<1> QED
  BY <1>3, <1>5, <1>6 DEF r, Asks

\* The logins in r may be asked for, for the sake of the label p.
Sought(r, p) ==
    /\ r # {} => UsedVar = "none" /\ ~FromTool /\ (session.host = "cli" => ~session.noLogin)
    /\ "xai" \in r =>
          XaiEnvKey(env) = "none" /\ (UsesXaiCredentials(p) \/ (p = "" /\ KeylessDefault))
    /\ "anthropic" \in r =>
          /\ AnthropicEnvKey(env) = "none"
          /\ p \in AnthropicLabels \/ (p = "" /\ KeylessDefault /\ XaiEnvKey(env) = "none")

\* A load asks only for logins that it may, if a URL of the caller's own is known to it.
LEMMA LoadSeeks ==
    ASSUME Standing, NEW logins, NEW p, NEW explicit,
           p = "" => Given = "" /\ (explicit <=> UsedUrl # NoUrl)
    PROVE  Sought(Load(logins, p, explicit).read, p)
<1>1. CASE session.host = "mcp" /\ UsedVar # "none"
  <2>1. Load(logins, p, explicit).read = {}
    BY <1>1 DEF Load, LoadMcpRoute, Loaded, NoKeys
  <2> QED
    BY <2>1 DEF Sought
<1>2. CASE session.host = "mcp" /\ UsedVar = "none"
  <2>1. Load(logins, p, explicit).read = VendorKeys(env, logins, LabelKey(env, p), p, FromHuman, FromTool).read
    BY <1>2 DEF Load, LoadMcpRoute, Loaded
  <2>2. session.flag = "none"
    BY <1>2 DEF Standing, IsSession
  <2>3. ~FromTool /\ ~FromHuman => UsedUrl = NoUrl
    BY DEF FromHuman
  <2> DEFINE r == VendorKeys(env, logins, LabelKey(env, p), p, FromHuman, FromTool).read
  <2>4. Asks(r, env, LabelKey(env, p), p, FromHuman, FromTool)
    BY VendorAsks
  <2> HIDE DEF r
  <2>5. Sought(r, p)
    BY <1>2, <2>2, <2>3, <2>4 DEF Asks, KeylessDefault, Sought
  <2> QED
    BY <2>1, <2>5 DEF r
<1>3. CASE session.host # "mcp"
  <2> DEFINE r == VendorKeys(env, logins, session.flag, p, explicit, session.noLogin).read
  <2>1. Load(logins, p, explicit).read \in {{}, r}
    BY <1>3 DEF Load, LoadCliRoute, Loaded, NoKeys
  <2>2. UsedVar = "none" /\ ~FromTool
    BY <1>3 DEF UsedVar, FromTool
  <2>3. Asks(r, env, session.flag, p, explicit, session.noLogin)
    BY VendorAsks
  <2> HIDE DEF r
  <2>5. Sought(r, p)
    BY <2>2, <2>3 DEF Asks, KeylessDefault, Sought
  <2>6. Sought({}, p)
    BY DEF Sought
  <2> QED
    BY <2>1, <2>5, <2>6
<1> QED
  BY <1>1, <1>2, <1>3

\* What may be asked for the label given, or for the label named, is a last resort.
LEMMA SoughtNamed ==
    ASSUME NEW r, Sought(r, Given) \/ Sought(r, NamedLabel)
    PROVE  /\ r # {} => UsedVar = "none" /\ ~FromTool /\ (session.host = "cli" => ~session.noLogin)
           /\ "xai" \in r =>
                 XaiEnvKey(env) = "none" /\ (KeylessDefault \/ UsesXaiCredentials(NamedLabel))
           /\ "anthropic" \in r =>
                 /\ AnthropicEnvKey(env) = "none"
                 /\ (KeylessDefault /\ XaiEnvKey(env) = "none") \/ NamedLabel \in AnthropicLabels
<1>1. UsesXaiCredentials(Given) \/ Given \in AnthropicLabels => NamedLabel = Given
  <2>1. ~UsesXaiCredentials("") /\ "" \notin AnthropicLabels
    BY LabelsApart DEF VendorLabels
  <2> QED
    BY <2>1 DEF NamedLabel
<1> QED
  BY <1>1 DEF Sought

\* A tool's variable and URL that its server permits.
LEMMA PermittedSays ==
    ASSUME Admitted, session.host = "mcp", UsedVar = "none"
    PROVE  args.var \in Allowlist \cup {"none"} /\ (policy.url # NoUrl => GivenUrl \in {NoUrl, policy.url})
BY DEF Admitted, EnvPermitted, UrlPermitted, UsedVar, EffectiveEnv

\* What a step asks for, of a call that is admitted, is a last resort again.
LEMMA LastResortNext ==
    ASSUME LoginsAreALastResort, UNCHANGED <<session, message>>, Admitted,
           NEW r, Sought(r, Given) \/ Sought(r, NamedLabel), read' \subseteq read \cup r
    PROVE  LoginsAreALastResort'
<1>1. KeylessDefault' = KeylessDefault
  BY SameArguments DEF KeylessDefault
<1>2. /\ r # {} => UsedVar = "none" /\ ~FromTool /\ (session.host = "cli" => ~session.noLogin)
      /\ "xai" \in r =>
            XaiEnvKey(env) = "none" /\ (KeylessDefault \/ UsesXaiCredentials(NamedLabel))
      /\ "anthropic" \in r =>
            /\ AnthropicEnvKey(env) = "none"
            /\ (KeylessDefault /\ XaiEnvKey(env) = "none") \/ NamedLabel \in AnthropicLabels
  BY SoughtNamed
<1>3. /\ read' # {} => read # {} \/ r # {}
      /\ "xai" \in read' => "xai" \in read \/ "xai" \in r
      /\ "anthropic" \in read' => "anthropic" \in read \/ "anthropic" \in r
  OBVIOUS
<1>4. /\ read' # {} => UsedVar = "none" /\ ~FromTool /\ (session.host = "cli" => ~session.noLogin)
      /\ "xai" \in read' =>
            XaiEnvKey(env) = "none" /\ (KeylessDefault \/ UsesXaiCredentials(NamedLabel))
      /\ "anthropic" \in read' =>
            /\ AnthropicEnvKey(env) = "none"
            /\ (KeylessDefault /\ XaiEnvKey(env) = "none") \/ NamedLabel \in AnthropicLabels
  BY <1>2, <1>3 DEF LoginsAreALastResort
<1>5. read' # {} /\ session.host = "mcp" =>
        args.var \in Allowlist \cup {"none"} /\ (policy.url # NoUrl => GivenUrl \in {NoUrl, policy.url})
  BY <1>4, PermittedSays
<1> QED
  BY <1>1, <1>4, <1>5, SameArguments DEF LoginsAreALastResort

LEMMA LastResortStays ==
    ASSUME LoginsAreALastResort, UNCHANGED <<session, message>>, read' \in {read, {}}
    PROVE  LoginsAreALastResort'
<1>1. KeylessDefault' = KeylessDefault
  BY SameArguments DEF KeylessDefault
<1> QED
  BY <1>1, SameArguments DEF LoginsAreALastResort

LEMMA LastResort == HostInv /\ LoginsAreALastResort /\ [Next]_vars => LoginsAreALastResort'
<1> SUFFICES ASSUME HostInv, LoginsAreALastResort, [Next]_vars PROVE LoginsAreALastResort'
  OBVIOUS
<1> USE DEF asking, routing
<1>0. /\ Standing /\ Admission /\ Routing
      /\ session.host \in {"mcp", "cli"}
      /\ session.host = "mcp" => pc # "command"
      /\ session.host = "cli" => pc \notin {"reading", "dispatch", "call", "checks"}
      /\ rest \in Seq(Pieces(AnyMessage))
      /\ pc \notin {"reading", "exited"} => message \in AnyMessage
      /\ pc = "reading" => read = {}
  BY DEF HostInv, Standing, IsSession, Stages, Typed, TypeOK
<1>1. CASE ReadRequest
  <2>1. read' = {}
    BY <1>0, <1>1, ReadRequestDoes
  <2> QED
    BY <2>1 DEF LoginsAreALastResort
<1>2. CASE CallArgs
  <2>1. session.host = "mcp" /\ SameCall
    BY <1>0, <1>2, CallArgsDoes DEF CallArgs
  <2>2. CASE Admitted /\ LoadsNext(Given, FALSE, "checks")
    <3>1. PICK logins \in session.logins : read' = Load(logins, Given, FALSE).read
      BY <2>2 DEF LoadsNext
    <3>2. Load(logins, Given, FALSE) = Load(logins, Given, UsedUrl # NoUrl)
      BY <2>1 DEF Load
    <3>3. Sought(Load(logins, Given, UsedUrl # NoUrl).read, Given)
      BY <1>0, LoadSeeks
    <3> QED
      BY <2>1, <2>2, <3>1, <3>2, <3>3, LastResortNext DEF SameCall
  <2>3. CASE UNCHANGED read
    BY <2>1, <2>3, LastResortStays DEF SameCall
  <2> QED
    BY <1>2, <2>1, <2>2, <2>3, CallArgsDoes DEF Admitted
<1>3. CASE Command
  <2>1. session.host = "cli" /\ SameCall
    BY <1>0, <1>3, CommandDoes DEF Command
  <2>2. CASE CommandPasses /\ LoadsNext(Given, UsedUrl # NoUrl, "route")
    <3>1. PICK logins \in session.logins : read' = Load(logins, Given, UsedUrl # NoUrl).read
      BY <2>2 DEF LoadsNext
    <3>2. Sought(Load(logins, Given, UsedUrl # NoUrl).read, Given)
      BY <1>0, LoadSeeks
    <3>3. Admitted
      BY <1>0, <2>1, <2>2, PassesIsAdmitted
    <3> QED
      BY <2>1, <3>1, <3>2, <3>3, LastResortNext DEF SameCall
  <2>3. CASE UNCHANGED read
    BY <2>1, <2>3, LastResortStays DEF SameCall
  <2> QED
    BY <1>3, <2>1, <2>2, <2>3, CommandDoes
<1>4. CASE FinalizeRoute
  <2>1. SameCall /\ Admitted /\ message \in AnyMessage
    BY <1>0, <1>4, FinalizeDoes DEF Admission
  <2>2. CASE UNCHANGED read
    BY <2>1, <2>2, LastResortStays DEF SameCall
  <2>3. CASE Reloads(Given, UsedUrl) /\ ReloadsNext
    <3>1. Given = "" /\ UsedUrl # NoUrl
      BY <2>3 DEF Reloads
    <3>2. FinalLabel = NamedLabel /\ NamedLabel # ""
      BY <1>0, <2>1, <3>1, UrlNames DEF Admitted
    <3>3. PICK logins \in session.logins : read' = read \cup Load(logins, FinalLabel, FALSE).read
      BY <2>3 DEF ReloadsNext
    <3>4. Sought(Load(logins, FinalLabel, FALSE).read, FinalLabel)
      BY <1>0, <3>2, LoadSeeks
    <3>5. Sought(Load(logins, FinalLabel, FALSE).read, NamedLabel)
      BY <3>2, <3>4
    <3> QED
      BY <2>1, <3>3, <3>5, LastResortNext DEF SameCall
  <2> QED
    BY <1>4, <2>2, <2>3, FinalizeDoes DEF ReloadsNext
<1>5. CASE Catalog
  <2>1. SameCall /\ read' = read
    BY <1>0, <1>5, CatalogDoes, NoOwnLogin DEF DialsNext, Routing, Refused
  <2> QED
    BY <2>1, LastResortStays DEF SameCall
<1>6. CASE Run
  <2>1. SameCall /\ read' = read
    BY <1>0, <1>6, RunDoes, NoOwnLogin DEF DialsNext, Routing
  <2> QED
    BY <2>1, LastResortStays DEF SameCall
<1>7. CASE Dispatch \/ CallChecks \/ Hit \/ NoKey
  <2>1. SameCall /\ read' = read
    BY <1>7, DispatchDoes, CallChecksDoes, HitDoes, NoKeyDoes
  <2> QED
    BY <2>1, LastResortStays DEF SameCall
<1>8. CASE Write \/ Hangup \/ UNCHANGED vars
  <2>1. UNCHANGED <<session, message>> /\ read' \in {read, {}}
    BY <1>8, WriteDoes DEF Hangup, vars
  <2> QED
    BY <2>1, LastResortStays
<1> QED
  BY <1>1, <1>2, <1>3, <1>4, <1>5, <1>6, <1>7, <1>8 DEF Next

\* Arguments that contradict each other, are of the wrong type or name nothing.
Wrong ==
    \/ Cardinality(TiersNamed) > 1
    \/ "bad" \in {args.suite, args.cheap, args.full, args.vision, args.force, args.adv, args.tools}
    \/ args.provider \in {"blank", "number", "control"}
    \/ args.model \in {"blank", "control"}
    \/ session.host = "mcp" /\ args.model = "absent"
    \/ WrongAtSight

\* A suite that is not refused is one tier.
LEMMA OneTier ==
    ASSUME Suite(args) # "refused"
    PROVE  ~(Cardinality(TiersNamed) > 1) /\ args.suite # "bad"
<1> DEFINE named == IF args.suite = "cheap" THEN "policy" ELSE args.suite
<1>1. /\ named # "bad"
      /\ ~(named = "absent" /\ args.cheap = "true" /\ args.full = "true")
      /\ named # "absent" => /\ args.cheap = "true" => named = "policy"
                             /\ args.full = "true" => named = "full"
  BY DEF Suite
<1>2. \E t : TiersNamed \in {{}, {t}}
  <2>1. CASE args.suite # "absent"
    <3>1. TiersNamed = {named}
      BY <1>1, <2>1 DEF TiersNamed
    <3> QED
      BY <3>1
  <2>2. CASE args.suite = "absent"
    <3>1. TiersNamed \in {{}, {"policy"}, {"full"}}
      BY <1>1, <2>2 DEF TiersNamed
    <3> QED
      BY <3>1
  <2> QED
    BY <2>1, <2>2
<1>3. PICK t : TiersNamed \in {{}, {t}}
  BY <1>2
<1>4. Cardinality({}) = 0 /\ Cardinality({t}) = 1
  BY FS_EmptySet, FS_Singleton
<1>5. Cardinality(TiersNamed) \in {0, 1}
  BY <1>3, <1>4
<1> QED
  BY <1>1, <1>5

LEMMA AdmittedLooksRight ==
    ASSUME Admitted
    PROVE  ~WrongAtSight
BY DEF Admitted, WrongAtSight

LEMMA RightArguments ==
    ASSUME Standing, Admitted, session.host = "mcp" => Checked, Suite(args) # "refused", Given # "control"
    PROVE  ~Wrong
<1>1. session.host \in {"mcp", "cli"}
  BY DEF Standing, IsSession
<1>2. args.provider # "control"
  BY DEF Given
<1> QED
  BY <1>1, <1>2, AdmittedLooksRight, OneTier DEF Wrong, Admitted, Checked

\* Whoever is told something else than an error had nothing wrong.
WrongIsToldSo ==
    (pc = "writing" /\ Probing /\ Wrong) =>
        dialed = {} /\ reply.kind = "isError" /\ (WrongAtSight => read = {})

LEMMA WrongNext == HostInv /\ WrongIsToldSo /\ [Next]_vars => WrongIsToldSo'
<1> SUFFICES ASSUME HostInv, WrongIsToldSo, [Next]_vars PROVE WrongIsToldSo'
  OBVIOUS
<1> USE DEF asking, routing
<1>0. /\ Standing /\ Admission
      /\ session.host \in {"mcp", "cli"}
      /\ session.host = "mcp" => pc # "command"
      /\ session.host = "cli" => pc \notin {"reading", "dispatch", "call", "checks"}
      /\ rest \in Seq(Pieces(AnyMessage))
      /\ pc \notin {"hinted", "writing"} => dialed = {}
      /\ pc \in {"call", "command"} => read = {}
  BY DEF HostInv, Standing, IsSession, Stages, Typed, TypeOK
<1>1. UNCHANGED <<session, message>> =>
        Wrong' = Wrong /\ WrongAtSight' = WrongAtSight /\ Probing' = Probing
  <2>1. UNCHANGED <<session, message>> => WrongAtSight' = WrongAtSight
    BY SameArguments DEF WrongAtSight
  <2> QED
    BY <2>1, SameArguments DEF Wrong, TiersNamed, Probing
<1>2. pc \in {"lookup", "hinted"} => ~Wrong
  BY <1>0, RightArguments DEF Admission
<1>s. pc \in {"checks", "route"} => ~WrongAtSight
  BY <1>0, AdmittedLooksRight DEF Admission
<1>3. CASE ReadRequest \/ Write
  <2>1. pc' # "writing"
    BY <1>0, <1>3, ReadRequestDoes, WriteDoes
  <2> QED
    BY <2>1 DEF WrongIsToldSo
<1>4. CASE Dispatch
  <2>1. SameCall /\ (pc' # "writing" \/ ~Probing)
    BY <1>0, <1>4, DispatchDoes DEF Probing
  <2> QED
    BY <1>1, <2>1 DEF WrongIsToldSo, SameCall
<1>5. CASE CallArgs
  <2>1. session.host = "mcp" /\ SameCall /\ dialed' = dialed /\ dialed = {}
    BY <1>0, <1>5, CallArgsDoes DEF CallArgs
  <2>2. pc' = "checks" \/ Told({"isError"})
    BY <1>0, <1>5, <2>1, CallArgsDoes, LoadsTyped
  <2>3. WrongAtSight => read' = {}
    <3>1. pc = "call" /\ read = {}
      BY <1>0, <1>5 DEF CallArgs
    <3>2. read' = read \/ ~WrongAtSight
      BY <1>5, <2>1, CallArgsDoes DEF WrongAtSight
    <3> QED
      BY <3>1, <3>2
  <2> QED
    BY <1>1, <2>1, <2>2, <2>3 DEF WrongIsToldSo, Told, SameCall
<1>6. CASE CallChecks
  <2>1. SameCall /\ dialed' = {} /\ ~WrongAtSight /\ (pc' = "route" \/ Told({"isError"}))
    BY <1>0, <1>s, <1>6, CallChecksDoes
  <2> QED
    BY <1>1, <2>1 DEF WrongIsToldSo, Told, SameCall
<1>7. CASE Command
  <2>1. session.host = "cli" /\ SameCall /\ dialed' = dialed /\ dialed = {}
    BY <1>0, <1>7, CommandDoes DEF Command
  <2>2. CASE (WrongAtSight => read' = {}) /\ (pc' = "route" \/ Told({"isError"}))
    BY <1>1, <2>1, <2>2 DEF WrongIsToldSo, Told, SameCall
  <2>3. CASE CommandPasses /\ session.dry
    <3>1. Suite(args) # "refused" /\ Given # "control"
      BY <2>3 DEF CommandPasses, Given
    <3>2. Admitted
      BY <1>0, <2>1, <2>3, PassesIsAdmitted
    <3>3. ~Wrong
      BY <1>0, <2>1, <3>1, <3>2, RightArguments
    <3> QED
      BY <1>1, <2>1, <3>3 DEF WrongIsToldSo, SameCall
  <2>4. CASE CommandPasses /\ LoadsNext(Given, UsedUrl # NoUrl, "route")
    <3>1. ~WrongAtSight
      BY <1>0, <2>1, <2>4, PassesIsAdmitted, AdmittedLooksRight
    <3> QED
      BY <1>0, <2>2, <2>4, <3>1, LoadsTyped
  <2>5. CASE UNCHANGED read /\ Told({"isError"})
    BY <1>0, <1>7, <2>2, <2>5 DEF Command
  <2> QED
    BY <1>7, <2>1, <2>3, <2>4, <2>5, CommandDoes
<1>8. CASE FinalizeRoute
  <2>1. SameCall /\ dialed' = {} /\ ~WrongAtSight /\ (pc' = "lookup" \/ Told({"isError"}))
    BY <1>0, <1>s, <1>8, FinalizeDoes
  <2> QED
    BY <1>1, <2>1 DEF WrongIsToldSo, Told, SameCall
<1>9. CASE Hit \/ NoKey \/ Catalog \/ Run
  <2>1. SameCall /\ ~Wrong
    BY <1>2, <1>9, HitDoes, NoKeyDoes, CatalogDoes, RunDoes
  <2> QED
    BY <1>1, <2>1 DEF WrongIsToldSo, SameCall
<1>10. CASE Hangup \/ UNCHANGED vars
  <2>1. UNCHANGED <<session, message, pc, read, dialed, reply>>
    BY <1>10 DEF Hangup, vars
  <2> QED
    BY <1>1, <2>1 DEF WrongIsToldSo
<1> QED
  BY <1>3, <1>4, <1>5, <1>6, <1>7, <1>8, <1>9, <1>10 DEF Next

\* A stored login is asked for where no key of its vendor is in the environment,
\* and wrong arguments are told so before a request is made, and before a login
\* is read where they are wrong at first sight.
THEOREM NobodyAskedInVain == Spec => []NothingInVain
<1>1. Init => LoginsAreALastResort /\ WrongIsToldSo
  <2>1. Init => read = {} /\ pc # "writing"
    BY DEF Init
  <2> QED
    BY <2>1 DEF LoginsAreALastResort, WrongIsToldSo
<1>2. HostInv /\ WrongIsToldSo => WrongArgumentsAskNobody
  <2> SUFFICES ASSUME HostInv, WrongIsToldSo, Probing, pc \in {"lookup", "hinted", "writing"}, Wrong
               PROVE  /\ pc = "writing" /\ dialed = {} /\ reply.kind = "isError"
                      /\ WrongAtSight => read = {}
    BY DEF WrongArgumentsAskNobody, Probing, Wrong
  <2>1. pc \in {"lookup", "hinted"} => ~Wrong
    BY RightArguments DEF HostInv, Admission
  <2> QED
    BY <2>1 DEF WrongIsToldSo
<1>3. HostInv /\ LoginsAreALastResort /\ WrongIsToldSo => NothingInVain
  BY <1>2 DEF NothingInVain
<1> QED
  BY <1>1, <1>3, HostCorrect, LastResort, WrongNext, PTL DEF Spec

----------------------------------------------------------------------------
(* What is foretold.                                                       *)

\* The default base of a label does not depend on the key.
LEMMA DefaultOfNamed ==
    ASSUME NEW r, NEW p, p # ""
    PROVE  DefaultBaseUrl(r, p) = DefaultCompatUrl(p, FALSE)
<1>1. DefaultBaseUrl(r, p) = DefaultCompatUrl(p, r.from = "openrouter" /\ OpenrouterDefaultOk(p))
  BY DEF DefaultBaseUrl
<1>2. OpenrouterDefaultOk(p) => p \in {"openrouter", "openrouter.ai"}
  BY DEF OpenrouterDefaultOk
<1>3. CASE r.from = "openrouter" /\ OpenrouterDefaultOk(p)
  <2>1. DefaultCompatUrl(p, TRUE) = DefaultCompatUrl(p, FALSE)
    BY <1>2, <1>3 DEF DefaultCompatUrl
  <2> QED
    BY <1>1, <1>3, <2>1
<1>4. CASE ~(r.from = "openrouter" /\ OpenrouterDefaultOk(p))
  BY <1>1, <1>4
<1> QED
  BY <1>3, <1>4

\* The plan of a dry run is the base and the label that the command settles on.
LEMMA PlanIsFinal ==
    ASSUME session.host = "cli", Given # "" \/ GivenUrl # NoUrl
    PROVE  /\ UsedUrl = GivenUrl
           /\ ProbeEndpointWithoutKey(Given, GivenUrl).base = FinalBase
           /\ ProbeEndpointWithoutKey(Given, GivenUrl).provider = FinalLabel
<1>1. UsedUrl = GivenUrl
  BY DEF UsedUrl
<1>2. UsedUrl = NoUrl => DefaultBaseUrl(route, Given) = DefaultCompatUrl(Given, FALSE)
  BY <1>1, DefaultOfNamed
<1>3. FinalBase = NormalizeOllama(IF GivenUrl = NoUrl THEN DefaultCompatUrl(Given, FALSE) ELSE GivenUrl)
  BY <1>1, <1>2 DEF FinalBase, Finalized
<1>4. FinalLabel = IF Given = "" THEN ProviderFromBaseUrl(FinalBase) ELSE Given
  BY DEF FinalLabel, FinalBase, Finalized
<1> QED
  BY <1>1, <1>3, <1>4 DEF ProbeEndpointWithoutKey

\* A command that is refused for its base has no plan.
NoBaseNoPlan ==
    (session.host = "cli" /\ (Given # "" \/ GivenUrl # NoUrl) /\ reply.why = "base") =>
        ~DryRun(args, Given, GivenUrl).ok

LEMMA PlanFails ==
    ASSUME session.host = "cli", Given # "" \/ GivenUrl # NoUrl,
           ~ValidUrl(FinalBase) \/ BaseConflict(FinalLabel, FinalBase)
    PROVE  ~DryRun(args, Given, GivenUrl).ok
<1> DEFINE plan == ProbeEndpointWithoutKey(Given, GivenUrl)
<1>1. plan.base = FinalBase /\ plan.provider = FinalLabel
  BY PlanIsFinal
<1>2. ~ValidUrl(plan.base) \/ BaseConflict(plan.provider, plan.base)
  BY <1>1
<1>3. DryRun(args, Given, GivenUrl) = [ok |-> FALSE, provider |-> "", base |-> NoUrl]
  BY <1>2 DEF DryRun
<1>4. ~[ok |-> FALSE, provider |-> "", base |-> NoUrl].ok
  OBVIOUS
<1> QED
  BY <1>3, <1>4, Zenon

LEMMA NoPlanNext == HostInv /\ NoBaseNoPlan /\ [Next]_vars => NoBaseNoPlan'
<1> SUFFICES ASSUME HostInv, NoBaseNoPlan, [Next]_vars PROVE NoBaseNoPlan'
  OBVIOUS
<1>0. /\ session.host \in {"mcp", "cli"}
      /\ session.host = "mcp" => pc # "command"
      /\ session.host = "cli" => pc \notin {"reading", "dispatch", "call", "checks"}
      /\ rest \in Seq(Pieces(AnyMessage))
      /\ pc # "writing" => reply.why = "none"
      /\ Nothing.why = "none"
  BY DEF HostInv, Standing, IsSession, Stages, Typed, TypeOK, Nothing
<1>1. UNCHANGED <<session, message>> =>
        /\ Given' = Given /\ GivenUrl' = GivenUrl
        /\ DryRun(args, Given, GivenUrl)' = DryRun(args, Given, GivenUrl)
  BY SameArguments
<1>2. CASE FinalizeRoute
  <2>1. SameCall /\ reply'.why = "base" => ~ValidUrl(FinalBase) \/ BaseConflict(FinalLabel, FinalBase)
    BY <1>0, <1>2, FinalizeDoes DEF Otherwise
  <2>2. SameCall
    BY <1>2, FinalizeDoes
  <2> QED
    BY <1>1, <2>1, <2>2, PlanFails DEF NoBaseNoPlan, SameCall
<1>3. CASE ReadRequest \/ Write \/ Dispatch \/ CallArgs \/ CallChecks \/ Command
             \/ Hit \/ NoKey \/ Catalog \/ Run
  <2>1. CASE session.host = "cli"
    <3>1. reply'.why # "base"
      <4>1. CASE Command
        BY <1>0, <2>1, <4>1, CommandDoes, LoadsTyped DEF Otherwise, HostInv
      <4>2. CASE Write \/ Hit \/ NoKey \/ Catalog \/ Run
        BY <1>0, <4>2, WriteDoes, HitDoes, NoKeyDoes, CatalogDoes, RunDoes DEF Otherwise
      <4>3. CASE ReadRequest \/ Dispatch \/ CallArgs \/ CallChecks
        BY <1>0, <2>1, <4>3 DEF ReadRequest, Dispatch, CallArgs, CallChecks
      <4> QED
        BY <1>3, <4>1, <4>2, <4>3
    <3> QED
      BY <3>1 DEF NoBaseNoPlan
  <2>2. CASE session.host = "mcp"
    <3>1. session' = session
      BY <1>3 DEF ReadRequest, Write, Dispatch, CallArgs, CallChecks, Command, Hit, NoKey, Catalog,
                  Run, Refuse
    <3> QED
      BY <2>2, <3>1 DEF NoBaseNoPlan
  <2> QED
    BY <1>0, <2>1, <2>2
<1>4. CASE Hangup \/ UNCHANGED vars
  <2>1. UNCHANGED <<session, message, reply>>
    BY <1>4 DEF Hangup, vars
  <2> QED
    BY <1>1, <2>1 DEF NoBaseNoPlan
<1> QED
  BY <1>2, <1>3, <1>4 DEF Next

LEMMA PlansTrue == HostInv /\ NoBaseNoPlan => DryRunIsThePlan
<1> SUFFICES ASSUME HostInv, NoBaseNoPlan, session.host = "cli", Given # "" \/ GivenUrl # NoUrl
             PROVE  LET plan == DryRun(args, Given, GivenUrl) IN
                    /\ pc \in {"lookup", "hinted"} =>
                          plan = [ok |-> TRUE, provider |-> label, base |-> RedactBaseUrl(base)]
                    /\ reply.why = "base" => ~plan.ok
  BY DEF DryRunIsThePlan
<1>1. reply.why = "base" => ~DryRun(args, Given, GivenUrl).ok
  BY DEF NoBaseNoPlan
<1>2. ASSUME pc \in {"lookup", "hinted"}
      PROVE  DryRun(args, Given, GivenUrl) = [ok |-> TRUE, provider |-> label, base |-> RedactBaseUrl(base)]
  <2> DEFINE plan == ProbeEndpointWithoutKey(Given, GivenUrl)
  <2>1. Routed /\ Suite(args) # "refused"
    BY <1>2 DEF HostInv, Routing, Admission
  <2>2. plan.base = base /\ plan.provider = label /\ UsedUrl = GivenUrl
    BY <2>1, PlanIsFinal DEF Routed
  <2>3. ~ \/ Suite(args) = "refused"
          \/ GivenUrl # NoUrl /\ ~ValidUrl(GivenUrl)
          \/ ~ValidUrl(plan.base)
          \/ BaseConflict(plan.provider, plan.base)
    BY <2>1, <2>2 DEF Routed, Admitted
  <2>4. DryRun(args, Given, GivenUrl) =
          [ok |-> TRUE, provider |-> plan.provider, base |-> RedactBaseUrl(plan.base)]
    BY <2>3 DEF DryRun
  <2> QED
    BY <2>2, <2>4
<1> QED
  BY <1>1, <1>2

\* With no login to be had, the keys are the environment's.
NoLogins == [xai |-> "none", anthropic |-> "none"]

LEMMA KeysWithoutLogins ==
    ASSUME NEW e, NEW own, NEW p, NEW explicit, NEW skip
    PROVE  /\ VendorKeys(e, NoLogins, own, p, explicit, skip).xai = XaiEnvKey(e)
           /\ VendorKeys(e, NoLogins, own, p, explicit, skip).anthropic = AnthropicEnvKey(e)
BY DEF VendorKeys, NoLogins

\* The key that the environment e has for the label p.
KeyOf(e, p) ==
    IF UsesXaiCredentials(p) THEN XaiEnvKey(e)
    ELSE IF p \in AnthropicLabels THEN AnthropicEnvKey(e)
    ELSE IF p \in CodexLabels THEN Read(e, "OPENAI_API_KEY")
    ELSE LabelKey(e, p)

LEMMA KeyOfLabel ==
    ASSUME NEW e, NEW p \in VendorLabels \cup CodexLabels, NEW openai, NEW openrouter, NEW xai, NEW anthropic
    PROVE  ResolveApiKeyFrom(LabelKey(e, p), openai, openrouter, xai, anthropic, p).key =
             IF UsesXaiCredentials(p) THEN xai
             ELSE IF p \in AnthropicLabels THEN anthropic
             ELSE IF p \in CodexLabels THEN openai
             ELSE LabelKey(e, p)
<1>0. \A k, f : Route(k, f).key = k
  BY DEF Route
<1>1. p \notin GroqLabels \cup BedrockLabels => LabelKey(e, p) = "none"
  BY DEF LabelKey
<1>2. CASE p \in GroqLabels \cup BedrockLabels
  BY <1>0, <1>2, LabelsApart DEF ResolveApiKeyFrom
<1>3. CASE p \in CodexLabels
  <2>1. FirstPresent(<<"none", openai>>) = openai
    BY FirstOfTwo
  <2> QED
    BY <1>0, <1>1, <1>3, <2>1, LabelsApart DEF ResolveApiKeyFrom
<1>4. CASE UsesXaiCredentials(p)
  BY <1>0, <1>1, <1>4, LabelsApart DEF ResolveApiKeyFrom
<1>5. CASE p \in AnthropicLabels
  BY <1>0, <1>1, <1>5, LabelsApart DEF ResolveApiKeyFrom
<1> QED
  BY <1>2, <1>3, <1>4, <1>5, LabelsApart

\* What either host loads for a vendor's label from the environment alone.
LEMMA LoadsKeyOf ==
    ASSUME NEW e, NEW p \in VendorLabels \cup CodexLabels, NEW explicit, NEW skip, NEW pol
    PROVE  /\ LoadMcpRoute(e, NoLogins, "none", p, skip, explicit, pol).route.key = KeyOf(e, p)
           /\ LoadCliRoute(e, NoLogins, "none", p, explicit, skip).route.key = KeyOf(e, p)
<1>1. LoadMcpRoute(e, NoLogins, "none", p, skip, explicit, pol).route =
        ResolveApiKeyFrom(LabelKey(e, p), Read(e, "OPENAI_API_KEY"), Read(e, "OPENROUTER_API_KEY"),
                          XaiEnvKey(e), AnthropicEnvKey(e), p)
  BY KeysWithoutLogins DEF LoadMcpRoute, Loaded
<1>2. LoadMcpRoute(e, NoLogins, "none", p, skip, explicit, pol).route.key = KeyOf(e, p)
  BY <1>1, KeyOfLabel DEF KeyOf
<1>3. CASE p \in GroqLabels \cup BedrockLabels
  <2>1. FirstPresent(<<"none", LabelKey(e, p)>>) = LabelKey(e, p)
    BY FirstOfTwo
  <2>2. LoadCliRoute(e, NoLogins, "none", p, explicit, skip).route =
          ResolveApiKeyFrom(LabelKey(e, p), "none", "none", "none", "none", p)
    BY <1>3, <2>1 DEF LoadCliRoute, Loaded
  <2> QED
    BY <1>2, <1>3, <2>2, KeyOfLabel, LabelsApart DEF KeyOf
<1>4. CASE p \notin GroqLabels \cup BedrockLabels
  <2>1. LabelKey(e, p) = "none"
    BY <1>4 DEF LabelKey
  <2>2. LoadCliRoute(e, NoLogins, "none", p, explicit, skip).route =
          ResolveApiKeyFrom("none", Read(e, "OPENAI_API_KEY"), Read(e, "OPENROUTER_API_KEY"),
                            XaiEnvKey(e), AnthropicEnvKey(e), p)
    BY <1>4, KeysWithoutLogins DEF LoadCliRoute, Loaded
  <2> QED
    BY <1>2, <2>1, <2>2, KeyOfLabel DEF KeyOf
<1> QED
  BY <1>2, <1>3, <1>4

\* A call for Anthropic's label has no key only if the environment has none.
LEMMA NoTokenNoKey ==
    ASSUME NEW logins, NEW p \in AnthropicLabels, NEW explicit, UsedVar = "none",
           session.host # "mcp" => session.flag = "none",
           Load(logins, p, explicit).route.key = "none"
    PROVE  AnthropicEnvKey(env) = "none"
<1> DEFINE keys(own, x, skip) == VendorKeys(env, logins, own, p, x, skip)
<1>1. ASSUME NEW own, NEW x, NEW skip, keys(own, x, skip).anthropic = "none"
      PROVE  AnthropicEnvKey(env) = "none"
  BY <1>1 DEF VendorKeys
<1>2. p \in VendorLabels \cup CodexLabels /\ p \notin GroqLabels \cup BedrockLabels
      /\ ~UsesXaiCredentials(p) /\ LabelKey(env, p) = "none"
  BY LabelsApart DEF LabelKey
<1>3. \A o, r, x, a : ResolveApiKeyFrom("none", o, r, x, a, p).key = a
  BY <1>2, KeyOfLabel
<1>4. CASE session.host = "mcp"
  <2>1. Load(logins, p, explicit).route =
          ResolveApiKeyFrom("none", Read(env, "OPENAI_API_KEY"), Read(env, "OPENROUTER_API_KEY"),
            keys("none", FromHuman, FromTool).xai, keys("none", FromHuman, FromTool).anthropic, p)
    BY <1>2, <1>4 DEF Load, LoadMcpRoute, Loaded
  <2> HIDE DEF keys
  <2> QED
    BY <1>1, <1>3, <2>1
<1>5. CASE session.host # "mcp"
  <2>1. Load(logins, p, explicit).route =
          ResolveApiKeyFrom("none", Read(env, "OPENAI_API_KEY"), Read(env, "OPENROUTER_API_KEY"),
            keys("none", explicit, session.noLogin).xai, keys("none", explicit, session.noLogin).anthropic, p)
    BY <1>2, <1>5 DEF Load, LoadCliRoute, Loaded
  <2> HIDE DEF keys
  <2> QED
    BY <1>1, <1>3, <2>1
<1> QED
  BY <1>4, <1>5

\* The variables that are named for a vendor's label are ones that give it a key.
LEMMA AdviceIsOfLabel ==
    ASSUME NEW p \in VendorLabels \cup CodexLabels, NEW u, UrlHost(u) \in CloudHosts,
           SameVendor(u.host, DefaultCompatUrl(p, FALSE).host)
    PROVE  LET right == IF UsesXaiCredentials(p) THEN {"XAI_API_KEY"}
                        ELSE IF p \in AnthropicLabels THEN {"ANTHROPIC_AUTH_TOKEN", "ANTHROPIC_API_KEY"}
                        ELSE IF p \in GroqLabels THEN {"GROQ_API_KEY"}
                        ELSE IF p \in BedrockLabels THEN {"AWS_BEARER_TOKEN_BEDROCK"}
                        ELSE {"OPENAI_API_KEY"}
           IN  CliAdvice(p, u) = right
<1>1. u.host = UrlHost(u)
  BY CloudIsItself
<1>2. CASE UsesXaiCredentials(p)
  BY <1>2 DEF CliAdvice
<1>3. ~IsLocalLabel(p)
  <2>1. p \in NamedLabels
    BY LabelsApart
  <2>2. p \notin LoopbackLabels
    BY <2>1, LabelAssumption
  <2>3. p \notin {"ollama", "lmstudio", "vllm", "[::1]"} \cup Loopback
    BY DEF VendorLabels, XaiLabels, GrokBuildLabels, GrokMessagesLabels, AnthropicLabels, GroqLabels,
           BedrockLabels, BedrockHosts, CodexLabels, Loopback
  <2> QED
    BY <2>2, <2>3 DEF IsLocalLabel
<1>4. \A h : /\ SameVendor(h, "api.anthropic.com") => h \in AnthropicHosts
             /\ SameVendor(h, "api.groq.com") => h \in GroqHosts
             /\ SameVendor(h, "bedrock-runtime.us-east-1.amazonaws.com") => h \in BedrockHosts
             /\ SameVendor(h, "api.openai.com") => h \in OpenaiHosts
  BY DEF SameVendor, XaiHosts, GrokHosts, AnthropicHosts, GroqHosts, OpenaiHosts, BedrockHosts
<1>5. /\ AnthropicHosts \cap (XaiHosts \cup GrokHosts) = {}
      /\ GroqHosts \cap (XaiHosts \cup GrokHosts \cup AnthropicHosts) = {}
      /\ BedrockHosts \cap (XaiHosts \cup GrokHosts \cup AnthropicHosts \cup GroqHosts) = {}
      /\ OpenaiHosts \cap (XaiHosts \cup GrokHosts \cup AnthropicHosts \cup GroqHosts \cup BedrockHosts) = {}
  BY DEF XaiHosts, GrokHosts, AnthropicHosts, GroqHosts, OpenaiHosts, BedrockHosts
<1>6. CASE ~UsesXaiCredentials(p) /\ p \in AnthropicLabels
  <2>1. DefaultCompatUrl(p, FALSE).host = "api.anthropic.com"
    BY <1>3, <1>6, LabelsApart DEF DefaultCompatUrl, UsesXaiCredentials, AnthropicUrl, Url
  <2>2. u.host \in AnthropicHosts
    BY <1>4, <2>1
  <2> QED
    BY <1>1, <1>5, <1>6, <2>2 DEF CliAdvice
<1>7. CASE p \in GroqLabels
  <2>1. ~UsesXaiCredentials(p) /\ p \notin AnthropicLabels \cup CodexLabels \cup BedrockLabels
    BY <1>7, LabelsApart
  <2>2. DefaultCompatUrl(p, FALSE).host = "api.groq.com"
    BY <1>3, <1>7, <2>1 DEF DefaultCompatUrl, UsesXaiCredentials, GroqUrl, Url
  <2>3. u.host \in GroqHosts
    BY <1>4, <2>2
  <2> QED
    BY <1>1, <1>5, <1>7, <2>1, <2>3 DEF CliAdvice
<1>8. CASE p \in BedrockLabels
  <2>1. ~UsesXaiCredentials(p) /\ p \notin AnthropicLabels \cup CodexLabels \cup GroqLabels
    BY <1>8, LabelsApart
  <2>2. DefaultCompatUrl(p, FALSE).host = "bedrock-runtime.us-east-1.amazonaws.com"
    BY <1>3, <1>8, <2>1 DEF DefaultCompatUrl, UsesXaiCredentials, BedrockUrl, Url
  <2>3. u.host \in BedrockHosts
    BY <1>4, <2>2
  <2> QED
    BY <1>1, <1>5, <1>8, <2>1, <2>3 DEF CliAdvice
<1>9. CASE p \in CodexLabels
  <2>1. /\ ~UsesXaiCredentials(p) /\ ~OpenrouterDefaultOk(p)
        /\ p \notin AnthropicLabels \cup GroqLabels \cup BedrockLabels
    BY <1>9, LabelsApart
  <2>2. DefaultCompatUrl(p, FALSE).host = "api.openai.com"
    BY <1>3, <1>9, <2>1 DEF DefaultCompatUrl, UsesXaiCredentials, OpenaiUrl, Url
  <2>3. u.host \in OpenaiHosts
    BY <1>4, <2>2
  <2> QED
    BY <1>1, <1>5, <1>9, <2>1, <2>3 DEF CliAdvice
<1> QED
  BY <1>2, <1>6, <1>7, <1>8, <1>9, LabelsApart

\* With a variable of those the label has a key, if it had none.
LEMMA RightHelps ==
    ASSUME NEW e, NEW p \in VendorLabels \cup CodexLabels, NEW var,
           p \in AnthropicLabels => AnthropicEnvKey(e) = "none",
           var \in (IF UsesXaiCredentials(p) THEN {"XAI_API_KEY"}
                    ELSE IF p \in AnthropicLabels THEN {"ANTHROPIC_AUTH_TOKEN", "ANTHROPIC_API_KEY"}
                    ELSE IF p \in GroqLabels THEN {"GROQ_API_KEY"}
                    ELSE IF p \in BedrockLabels THEN {"AWS_BEARER_TOKEN_BEDROCK"}
                    ELSE {"OPENAI_API_KEY"})
    PROVE  KeyOf(e \cup {var}, p) = var
<1>1. CASE UsesXaiCredentials(p)
  BY <1>1, FirstOfTwo DEF KeyOf, XaiEnvKey, Read
<1>2. CASE ~UsesXaiCredentials(p) /\ p \in AnthropicLabels
  <2>1. "ANTHROPIC_AUTH_TOKEN" \notin e
    BY <1>2, FirstOfTwo DEF AnthropicEnvKey, Read
  <2> QED
    BY <1>2, <2>1, FirstOfTwo DEF KeyOf, AnthropicEnvKey, Read
<1>3. CASE p \in GroqLabels \cup BedrockLabels
  BY <1>3, LabelsApart DEF KeyOf, LabelKey, Read
<1>4. CASE p \in CodexLabels
  BY <1>4, LabelsApart DEF KeyOf, Read
<1> QED
  BY <1>1, <1>2, <1>3, <1>4, LabelsApart

LEMMA AdviceTrue == HostInv => AdviceHelps
<1> SUFFICES ASSUME HostInv, reply.why = "key", Given # "",
                    \/ UsedVar # "none"
                    \/ /\ label \in VendorLabels \cup CodexLabels
                       /\ SameVendor(base.host, DefaultCompatUrl(label, FALSE).host),
                    NEW var \in (IF session.host = "mcp" THEN McpAdvice(UsedVar, label) ELSE CliAdvice(label, base))
             PROVE  (IF session.host = "mcp"
                     THEN LoadMcpRoute(env \cup {var}, NoLogins, UsedVar, Given, FromTool, FromHuman, policy)
                     ELSE LoadCliRoute(env \cup {var}, NoLogins, session.flag, Given, UsedUrl # NoUrl,
                                       session.noLogin)).route.key = var
  BY DEF AdviceHelps, NoLogins
<1>1. Standing /\ Routed /\ Refused
  BY DEF HostInv, Routing
<1>2. label = Given /\ NamedLabel = Given /\ LoadedFor(Given)
  BY <1>1 DEF Routed, FinalLabel, Finalized, NamedLabel
<1>3. route.key = "none" /\ UrlHost(base) \in CloudHosts
  BY <1>1 DEF Refused, RefuseCloudWithoutKey
<1>4. CASE UsedVar # "none"
  <2>1. session.host = "mcp" /\ var = UsedVar
    BY <1>4 DEF UsedVar, McpAdvice
  <2>2. LoadMcpRoute(env \cup {var}, NoLogins, UsedVar, Given, FromTool, FromHuman, policy).route.key =
          NamedKey(env \cup {var}, var, policy)
    BY <1>4, <2>1 DEF LoadMcpRoute, Loaded, Route
  <2>3. EnvPermitted(args.var, policy)
    BY <1>1, <2>1 DEF Routed, Admitted
  <2>4. var \in Allowlist \/ policy.env = var
    BY <1>4, <2>1, <2>3 DEF UsedVar, EffectiveEnv, EnvPermitted
  <2> QED
    BY <2>1, <2>2, <2>4 DEF NamedKey, Read
<1>5. CASE UsedVar = "none"
  <2> DEFINE right == IF UsesXaiCredentials(label) THEN {"XAI_API_KEY"}
                      ELSE IF label \in AnthropicLabels THEN {"ANTHROPIC_AUTH_TOKEN", "ANTHROPIC_API_KEY"}
                      ELSE IF label \in GroqLabels THEN {"GROQ_API_KEY"}
                      ELSE IF label \in BedrockLabels THEN {"AWS_BEARER_TOKEN_BEDROCK"}
                      ELSE {"OPENAI_API_KEY"}
  <2>1. label \in VendorLabels \cup CodexLabels /\ SameVendor(base.host, DefaultCompatUrl(label, FALSE).host)
    BY <1>5
  <2>2. session.host # "mcp" => session.flag = "none"
    <3>1. KeyFits(route, session.flag, Given)
      BY <1>1, <1>2, <1>5, LoadedFits
    <3> QED
      BY <1>3, <3>1 DEF KeyFits
  <2>3. Given \in AnthropicLabels => AnthropicEnvKey(env) = "none"
    <3>1. PICK logins \in LoginStates, explicit \in BOOLEAN : route = Load(logins, Given, explicit).route
      BY <1>2 DEF LoadedFor
    <3> QED
      BY <1>3, <1>5, <2>2, <3>1, NoTokenNoKey
  <2>4. var \in right
    <3>1. CASE session.host = "mcp"
      BY <1>5, <2>1, <3>1, LabelsApart DEF McpAdvice
    <3>2. CASE session.host # "mcp"
      <4>1. CliAdvice(label, base) = right
        BY <1>3, <2>1, AdviceIsOfLabel
      <4> QED
        BY <3>2, <4>1
    <3> QED
      BY <3>1, <3>2
  <2>5. KeyOf(env \cup {var}, Given) = var
    BY <1>2, <2>1, <2>3, <2>4, RightHelps
  <2>6. Given \in VendorLabels \cup CodexLabels
    BY <1>2, <2>1
  <2> DEFINE e == env \cup {var}
             x == UsedUrl # NoUrl
  <2> HIDE DEF e, x
  <2>7. ASSUME NEW tool, NEW explicit, NEW skip
        PROVE  /\ LoadMcpRoute(e, NoLogins, "none", Given, tool, explicit, policy).route.key = var
               /\ LoadCliRoute(e, NoLogins, "none", Given, explicit, skip).route.key = var
    <3>1. \A pol : LoadMcpRoute(e, NoLogins, "none", Given, tool, explicit, pol).route.key = KeyOf(e, Given)
      BY <2>6, LoadsKeyOf
    <3>2. LoadCliRoute(e, NoLogins, "none", Given, explicit, skip).route.key = KeyOf(e, Given)
      BY <2>6, LoadsKeyOf, Zenon
    <3> QED
      BY <2>5, <3>1, <3>2, Zenon DEF e
  <2>8. CASE session.host = "mcp"
    <3>1. LoadMcpRoute(e, NoLogins, "none", Given, FromTool, FromHuman, policy).route.key = var
      BY <2>7, Zenon
    <3> QED
      BY <1>5, <2>8, <3>1, Zenon DEF e
  <2>9. CASE session.host # "mcp"
    <3>1. LoadCliRoute(e, NoLogins, "none", Given, x, session.noLogin).route.key = var
      BY <2>7, Zenon
    <3>2. session.flag = "none"
      BY <2>2, <2>9
    <3> QED
      BY <2>9, <3>1, <3>2, Zenon DEF e, x
  <2> QED
    BY <2>8, <2>9
<1> QED
  BY <1>4, <1>5

\* What canact says it would do, and what it says would help, is so.
THEOREM WhatIsForetold == Spec => []ForetellsTrue
<1>1. Init => NoBaseNoPlan
  <2> SUFFICES ASSUME Init PROVE NoBaseNoPlan
    OBVIOUS
  <2>1. reply = Nothing
    BY DEF Init
  <2>2. reply.why = "none"
    BY <2>1 DEF Nothing
  <2> QED
    BY <2>2 DEF NoBaseNoPlan
<1>2. HostInv /\ NoBaseNoPlan => ForetellsTrue
  BY AdviceTrue, PlansTrue DEF ForetellsTrue
<1> QED
  BY <1>1, <1>2, HostCorrect, NoPlanNext, PTL DEF Spec

----------------------------------------------------------------------------
(* Every message is answered in its turn.                                  *)

\* The messages among the first i of a sequence that ask for an answer.
AskingOf(h, i) == {j \in 1 .. i : h[j].method \notin Notifications}
TurnOf(h, i) == Cardinality(AskingOf(h, i))

LEMMA TurnsAreCounted ==
    ASSUME NEW h, NEW i \in Nat
    PROVE  IsFiniteSet(AskingOf(h, i)) /\ TurnOf(h, i) \in Nat
<1>1. IsFiniteSet(1 .. i)
  BY FS_Interval
<1>2. AskingOf(h, i) \subseteq 1 .. i
  BY DEF AskingOf
<1>3. IsFiniteSet(AskingOf(h, i))
  BY <1>1, <1>2, FS_Subset
<1> QED
  BY <1>3, FS_CardinalityType DEF TurnOf

\* A message that asks takes the next turn, and one that does not takes none.
LEMMA NextTurn ==
    ASSUME NEW h, NEW i \in Nat, NEW k \in Nat, k = i + 1
    PROVE  TurnOf(h, k) = IF h[k].method \in Notifications
                              THEN TurnOf(h, i) ELSE TurnOf(h, i) + 1
<1>1. CASE h[k].method \in Notifications
  <2>1. AskingOf(h, k) = AskingOf(h, i)
    BY <1>1 DEF AskingOf
  <2> QED
    BY <1>1, <2>1 DEF TurnOf
<1>2. CASE h[k].method \notin Notifications
  <2>1. AskingOf(h, k) = AskingOf(h, i) \cup {k} /\ k \notin AskingOf(h, i)
    BY <1>2 DEF AskingOf
  <2> QED
    BY <1>2, <2>1, TurnsAreCounted, FS_AddElement DEF TurnOf
<1> QED
  BY <1>1, <1>2

\* Turns are taken in the order of the messages.
LEMMA TurnsGrow ==
    ASSUME NEW h, NEW i \in Nat, NEW j \in Nat, i <= j
    PROVE  TurnOf(h, i) <= TurnOf(h, j)
<1>1. 1 .. i \subseteq 1 .. j
  OBVIOUS
<1>2. AskingOf(h, i) \subseteq AskingOf(h, j)
  BY <1>1, Zenon DEF AskingOf
<1>3. IsFiniteSet(AskingOf(h, j))
  BY TurnsAreCounted
<1> QED
  BY <1>2, <1>3, FS_Subset DEF TurnOf

\* What is read later changes no earlier turn.
LEMMA TurnsStay ==
    ASSUME NEW M, NEW h \in Seq(M), NEW m, NEW i \in 0 .. Len(h)
    PROVE  AskingOf(Append(h, m), i) = AskingOf(h, i) /\ TurnOf(Append(h, m), i) = TurnOf(h, i)
<1>1. AskingOf(Append(h, m), i) = AskingOf(h, i)
  BY DEF AskingOf
<1> QED
  BY <1>1 DEF TurnOf

\* The messages of h that have had their turn were answered under their ids by r.
Answered(h, r) ==
    \A i \in AskingOf(h, Len(h)) : TurnOf(h, i) <= Len(r) => r[TurnOf(h, i)].id = h[i].id

Working == {"call", "checks", "route", "lookup", "hinted", "writing"}

\* The message that a call is about.
Latest == Len(handled) > 0 /\ message = handled[Len(handled)]

\* Between two messages nobody waits; between a message that asks for an answer
\* and its reply just that one does.
Answering ==
    session.host = "mcp" =>
        /\ Answered(handled, replies)
        /\ pc = "reading" => Len(replies) = TurnOf(handled, Len(handled))
        /\ pc = "dispatch" => Latest /\ Len(replies) = TurnOf(handled, Len(handled) - 1)
        /\ pc \in Working =>
              Latest /\ ~Silent(message) /\ Len(replies) + 1 = TurnOf(handled, Len(handled))
        /\ pc = "exited" =>
              /\ Len(replies) <= TurnOf(handled, Len(handled))
              /\ TurnOf(handled, Len(handled)) <= Len(replies) + 1
              /\ stdout => Len(replies) = TurnOf(handled, Len(handled))

LEMMA AnsweringInit == Init => Answering
<1> SUFFICES ASSUME Init, session.host = "mcp" PROVE Answering
  BY DEF Answering
<1>1. handled = <<>> /\ replies = <<>> /\ pc = "reading"
  BY DEF Init
<1>2. AskingOf(<<>>, 0) = {}
  BY DEF AskingOf
<1>3. TurnOf(<<>>, 0) = 0
  BY <1>2, FS_EmptySet DEF TurnOf
<1>4. Answered(<<>>, <<>>)
  BY <1>2 DEF Answered
<1> QED
  BY <1>1, <1>3, <1>4 DEF Answering, Working

\* A message that is read waits for its turn.
LEMMA ReadKeepsAnswered ==
    ASSUME NEW M, NEW h \in Seq(M), NEW m, NEW R, NEW r \in Seq(R), Answered(h, r), Len(r) = TurnOf(h, Len(h))
    PROVE  Answered(Append(h, m), r)
<1> DEFINE g == Append(h, m)
           n == Len(h)
<1>1. Len(g) = n + 1 /\ n \in Nat /\ Len(r) \in Nat
  OBVIOUS
<1> SUFFICES ASSUME NEW i \in AskingOf(g, n + 1), TurnOf(g, i) <= Len(r)
             PROVE  r[TurnOf(g, i)].id = g[i].id
  BY <1>1 DEF Answered
<1>2. i \in 1 .. (n + 1) /\ g[i].method \notin Notifications
  BY DEF AskingOf
<1>3. CASE i = n + 1
  <2>1. TurnOf(g, i) = TurnOf(g, n) + 1
    <3>1. \A k \in Nat : k = n + 1 =>
            TurnOf(g, k) = IF g[k].method \in Notifications THEN TurnOf(g, n) ELSE TurnOf(g, n) + 1
      BY <1>1, NextTurn
    <3>2. i \in Nat
      BY <1>2
    <3> QED
      BY <1>2, <1>3, <3>1, <3>2
  <2>2. TurnOf(g, n) = Len(r)
    BY <1>1, TurnsStay
  <2> QED
    BY <1>1, <1>3, <2>1, <2>2
<1>4. CASE i <= n
  <2>1. i \in 0 .. n /\ g[i] = h[i]
    BY <1>1, <1>2, <1>4
  <2>2. TurnOf(g, i) = TurnOf(h, i)
    BY <2>1, TurnsStay
  <2>3. i \in AskingOf(h, n)
    BY <1>2, <1>4, <2>1 DEF AskingOf
  <2> QED
    BY <2>1, <2>2, <2>3 DEF Answered
<1> QED
  BY <1>1, <1>2, <1>3, <1>4

\* A reply under the id of the latest message takes that message's turn.
LEMMA WriteKeepsAnswered ==
    ASSUME NEW M, NEW h \in Seq(M), NEW R, NEW r \in Seq(R), NEW a, Answered(h, r), Len(h) > 0,
           h[Len(h)].method \notin Notifications, a.id = h[Len(h)].id,
           Len(r) + 1 = TurnOf(h, Len(h))
    PROVE  Answered(h, Append(r, a))
<1> DEFINE n == Len(h)
<1>1. n \in Nat /\ n - 1 \in Nat /\ Len(r) \in Nat /\ Len(Append(r, a)) = Len(r) + 1
  OBVIOUS
<1> SUFFICES ASSUME NEW i \in AskingOf(h, n), TurnOf(h, i) <= Len(r) + 1
             PROVE  Append(r, a)[TurnOf(h, i)].id = h[i].id
  BY <1>1 DEF Answered
<1>2. i \in 1 .. n /\ i \in Nat /\ i - 1 \in Nat /\ h[i].method \notin Notifications
  BY DEF AskingOf
<1>3. CASE i = n
  <2>1. Append(r, a)[Len(r) + 1] = a
    BY <1>1
  <2> QED
    BY <1>3, <2>1
<1>4. CASE i <= n - 1
  <2>1. n = (n - 1) + 1 /\ i = (i - 1) + 1
    BY <1>1, <1>2
  <2>6. TurnOf(h, n) = TurnOf(h, n - 1) + 1
    BY <1>1, <2>1, NextTurn
  <2>7. TurnOf(h, i) <= TurnOf(h, n - 1)
    BY <1>1, <1>2, <1>4, TurnsGrow
  <2>2. TurnOf(h, i) = TurnOf(h, i - 1) + 1
    BY <1>2, <2>1, NextTurn
  <2>3. TurnOf(h, i) \in Nat /\ TurnOf(h, n - 1) \in Nat /\ TurnOf(h, i - 1) \in Nat
    BY <1>1, <1>2, TurnsAreCounted
  <2>4. TurnOf(h, i) \in 1 .. Len(r)
    BY <1>1, <2>2, <2>3, <2>6, <2>7
  <2>5. Append(r, a)[TurnOf(h, i)] = r[TurnOf(h, i)]
    BY <2>4
  <2> QED
    BY <2>4, <2>5 DEF Answered
<1>5. i = n \/ i <= n - 1
  BY <1>1, <1>2
<1> QED
  BY <1>3, <1>4, <1>5

\* Within a call only its state moves on.
LEMMA CallsGoOn ==
    ASSUME Standing, session.host = "mcp",
           CallArgs \/ CallChecks \/ Command \/ FinalizeRoute \/ Hit \/ NoKey \/ Catalog \/ Run
    PROVE  pc \in Working /\ pc' \in Working /\ SameCall
<1> USE DEF Working, Told
<1>1. CASE CallArgs
  BY <1>1, CallArgsDoes DEF LoadsNext
<1>2. CASE CallChecks
  BY <1>2, CallChecksDoes
<1>3. CASE Command
  BY <1>3 DEF Standing, Stages, Command
<1>4. CASE FinalizeRoute
  BY <1>4, FinalizeDoes
<1>5. CASE Hit
  BY <1>5, HitDoes
<1>6. CASE NoKey
  BY <1>6, NoKeyDoes
<1>7. CASE Catalog
  BY <1>7, CatalogDoes
<1>8. CASE Run
  BY <1>8, RunDoes
<1> QED
  BY <1>1, <1>2, <1>3, <1>4, <1>5, <1>6, <1>7, <1>8

LEMMA AnsweringNext == Standing /\ Answering /\ [Next]_vars => Answering'
<1> SUFFICES ASSUME Standing, Answering, [Next]_vars, session'.host = "mcp" PROVE Answering'
  BY DEF Answering
<1> DEFINE n == Len(handled)
           R == [id : Nat, kind : {"result", "error", "isError"}]
<1>0. /\ handled \in Seq(AnyMessage) /\ replies \in Seq(R) /\ rest \in Seq(Pieces(AnyMessage))
      /\ n \in Nat /\ Len(replies) \in Nat
  BY DEF Standing, Typed, TypeOK
<1>1. CASE ReadRequest
  <2>0. /\ pc = "reading" /\ UNCHANGED <<session, replies, stdout>>
        /\ \/ handled' = Append(handled, message') /\ pc' = "dispatch"
           \/ pc' = "exited" /\ handled' = handled
    BY <1>0, <1>1, ReadRequestDoes
  <2>1. Answered(handled, replies) /\ Len(replies) = TurnOf(handled, n)
    BY <2>0 DEF Answering
  <2>2. CASE handled' = Append(handled, message') /\ pc' = "dispatch"
    <3>1. Answered(handled, replies)'
      BY <1>0, <2>0, <2>1, <2>2, ReadKeepsAnswered
    <3>2. Len(handled') = n + 1 /\ handled'[n + 1] = message' /\ Len(handled') - 1 = n
      BY <1>0, <2>2
    <3>3. TurnOf(handled', n) = TurnOf(handled, n)
      BY <1>0, <2>2, TurnsStay
    <3> QED
      BY <1>0, <2>0, <2>1, <2>2, <3>1, <3>2, <3>3 DEF Answering, Latest, Working
  <2>3. CASE pc' = "exited" /\ handled' = handled
    BY <1>0, <2>0, <2>1, <2>3 DEF Answering, Working
  <2> QED
    BY <2>0, <2>2, <2>3
<1>2. CASE Dispatch
  <2>0. /\ pc = "dispatch" /\ SameCall
        /\ \/ pc' = "reading" /\ Silent(message)
           \/ pc' \in Working /\ ~Silent(message)
    BY <1>2, DispatchDoes DEF Told, Working
  <2>1. Answered(handled, replies) /\ Latest /\ Len(replies) = TurnOf(handled, n - 1)
    BY <2>0 DEF Answering, SameCall
  <2>2. n - 1 \in Nat /\ n = (n - 1) + 1 /\ message = handled[n]
    BY <1>0, <2>1 DEF Latest
  <2>3. TurnOf(handled, n) = IF Silent(message) THEN Len(replies) ELSE Len(replies) + 1
    BY <1>0, <2>1, <2>2, NextTurn DEF Silent
  <2>4. (Silent(message) <=> Silent(message')) /\ Latest'
    BY <2>0, <2>1 DEF SameCall, Latest
  <2> QED
    BY <2>0, <2>1, <2>3, <2>4 DEF Answering, SameCall, Working
<1>3. CASE CallArgs \/ CallChecks \/ Command \/ FinalizeRoute \/ Hit \/ NoKey \/ Catalog \/ Run
  <2>1. session.host = "mcp"
    BY <1>3 DEF CallArgs, CallChecks, Command, FinalizeRoute, Hit, NoKey, Catalog, Run, Refuse, Answering
  <2>2. pc \in Working /\ pc' \in Working /\ SameCall
    BY <1>3, <2>1, CallsGoOn
  <2>3. Silent(message)' = Silent(message) /\ Latest' = Latest
    BY <2>2 DEF SameCall, Silent, Latest
  <2> QED
    BY <2>1, <2>2, <2>3 DEF Answering, SameCall, Working
<1>4. CASE Write
  <2>0. /\ pc = "writing" /\ UNCHANGED <<session, message, handled, stdout>>
        /\ \/ pc' = "exited" /\ replies' = replies /\ (session.host = "cli" \/ ~stdout)
           \/ pc' = "reading" /\ replies' = Append(replies, [id |-> message.id, kind |-> reply.kind])
    BY <1>4, WriteDoes
  <2>1. /\ Answered(handled, replies) /\ Latest /\ ~Silent(message)
        /\ Len(replies) + 1 = TurnOf(handled, n) /\ session.host = "mcp"
    BY <2>0 DEF Answering, Working
  <2>2. CASE pc' = "exited" /\ replies' = replies /\ (session.host = "cli" \/ ~stdout)
    BY <1>0, <2>0, <2>1, <2>2 DEF Answering, Working
  <2>3. CASE pc' = "reading" /\ replies' = Append(replies, [id |-> message.id, kind |-> reply.kind])
    <3> DEFINE a == [id |-> message.id, kind |-> reply.kind]
    <3>1. a.id = handled[n].id /\ handled[n].method \notin Notifications /\ n > 0
      BY <2>1 DEF Latest, Silent
    <3>2. Answered(handled, Append(replies, a))
      <4> HIDE DEF a
      <4> QED
        BY <1>0, <2>1, <3>1, WriteKeepsAnswered
    <3>3. Answered(handled, replies)' /\ Len(replies') = Len(replies) + 1
      BY <1>0, <2>0, <2>3, <3>2
    <3> QED
      BY <2>0, <2>1, <2>3, <3>3 DEF Answering, Working
  <2> QED
    BY <2>0, <2>2, <2>3
<1>5. CASE Hangup
  <2>1. /\ UNCHANGED <<session, pc, message, handled, replies>>
        /\ exit = "running" /\ stdout' = FALSE
    BY <1>5 DEF Hangup
  <2>2. (Silent(message) <=> Silent(message')) /\ (Latest <=> Latest')
    BY <2>1 DEF Latest
  <2> QED
    BY <2>1, <2>2 DEF Answering, Working
<1>6. CASE UNCHANGED vars
  <2>1. UNCHANGED <<session, pc, message, handled, replies, stdout>>
    BY <1>6 DEF vars
  <2>2. (Silent(message) <=> Silent(message')) /\ (Latest <=> Latest')
    BY <2>1 DEF Latest
  <2> QED
    BY <2>1, <2>2 DEF Answering, Working
<1> QED
  BY <1>1, <1>2, <1>3, <1>4, <1>5, <1>6 DEF Next

LEMMA AnsweringIsInOrder == Standing /\ Answering => AnsweredInOrder
<1> SUFFICES ASSUME Standing, Answering, session.host = "mcp" PROVE AnsweredInOrder
  BY DEF AnsweredInOrder
<1> DEFINE n == Len(handled)
<1>1. \A i : Asking(i) = AskingOf(handled, i) /\ Turn(i) = TurnOf(handled, i)
  BY DEF Asking, Turn, AskingOf, TurnOf
<1>2. n \in Nat /\ Len(replies) \in Nat
  BY DEF Standing, Typed, TypeOK
<1>3. pc \in {"reading", "dispatch", "exited"} \cup Working
  BY DEF Standing, Typed, TypeOK, Stages, Working
<1>4. /\ Len(replies) <= TurnOf(handled, n) /\ TurnOf(handled, n) <= Len(replies) + 1
      /\ (pc = "reading" \/ (pc = "exited" /\ stdout)) => Len(replies) = TurnOf(handled, n)
  <2>1. CASE pc = "dispatch"
    <3>1. n - 1 \in Nat /\ n = (n - 1) + 1 /\ Len(replies) = TurnOf(handled, n - 1)
      BY <1>2, <2>1 DEF Answering, Latest
    <3>2. TurnOf(handled, n) = Len(replies) \/ TurnOf(handled, n) = Len(replies) + 1
      BY <1>2, <3>1, NextTurn
    <3> QED
      BY <1>2, <2>1, <3>2
  <2>2. CASE pc \in Working
    BY <1>2, <2>2 DEF Answering, Working
  <2>3. CASE pc \in {"reading", "exited"}
    BY <1>2, <2>3 DEF Answering
  <2> QED
    BY <1>3, <2>1, <2>2, <2>3
<1>5. \A i \in AskingOf(handled, n) :
        TurnOf(handled, i) <= Len(replies) => replies[TurnOf(handled, i)].id = handled[i].id
  BY DEF Answering, Answered
<1> QED
  BY <1>1, <1>4, <1>5, Zenon DEF AnsweredInOrder

\* The server's replies are to its messages: one to each that is not a
\* notification, in their order and under their ids.
THEOREM RepliesComeInTurn == Spec => []AnsweredInOrder
BY StagesInit, StandingNext, AnsweringInit, AnsweringNext, AnsweringIsInOrder, PTL DEF Spec
=============================================================================
