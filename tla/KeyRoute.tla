------------------------------ MODULE KeyRoute ------------------------------
(***************************************************************************)
(* Which base URL a probe talks to, which provider label it files the      *)
(* answer under, and which key it sends: src/endpoint.rs.                  *)
(*                                                                         *)
(* A URL is its parts, and a key is the name of the place it was read      *)
(* from, "none" when there is none.  Tests on the suffix of a host are     *)
(* written as the sets of the hosts that pass them; labels and hosts are   *)
(* compared in lower case, so they are in lower case here.                 *)
(***************************************************************************)
EXTENDS Naturals, Sequences

----------------------------------------------------------------------------
(* Labels and hosts.                                                       *)

XaiLabels == {"xai", "grok", "api.x.ai", "x.ai"}
GrokBuildLabels == {"grok-build", "xai-grok-build", "cli-chat-proxy.grok.com"}
GrokMessagesLabels == {"grok-build-messages", "xai-grok-build-messages"}
CodexLabels == {"openai-codex", "codex"}
AnthropicLabels == {"claude", "anthropic", "api.anthropic.com"}
GroqLabels == {"groq", "api.groq.com"}

BedrockHosts == {"bedrock-runtime.us-east-1.amazonaws.com", "bedrock-runtime.eu-west-1.amazonaws.com"}
BedrockLabels == {"amazon-bedrock", "bedrock"} \cup BedrockHosts

\* The labels of the vendors whose keys go to them alone, and all that the code looks for.
VendorLabels ==
    XaiLabels \cup GrokBuildLabels \cup GrokMessagesLabels \cup AnthropicLabels \cup GroqLabels
      \cup BedrockLabels
NamedLabels == VendorLabels \cup CodexLabels \cup {"", "openrouter", "openrouter.ai"}

UsesXaiCredentials(p) == p \in XaiLabels \cup GrokBuildLabels \cup GrokMessagesLabels
OpenrouterDefaultOk(p) == p \in {"", "openrouter", "openrouter.ai"}

XaiHosts == {"api.x.ai", "x.ai", "eu.x.ai"}
GrokHosts == {"cli-chat-proxy.grok.com", "eu.cli-chat-proxy.grok.com"}
AnthropicHosts == {"api.anthropic.com", "eu.anthropic.com"}
GroqHosts == {"api.groq.com", "eu.groq.com"}
OpenaiHosts == {"api.openai.com", "eu.api.openai.com"}
CloudHosts ==
    OpenaiHosts \cup {"openrouter.ai", "mine.openai.azure.com"} \cup XaiHosts \cup GrokHosts
      \cup AnthropicHosts \cup GroqHosts \cup BedrockHosts

Loopback == {"localhost", "127.0.0.1", "0.0.0.0", "::1"}

----------------------------------------------------------------------------
(* URLs.                                                                   *)

\* user is the userinfo, "" if there is none; host is the text between it and the
\* port, which is "none" when no colon follows the host.
Url(scheme, host, port, path) ==
    [scheme |-> scheme, user |-> "", host |-> host, port |-> port, path |-> path]

\* A URL that a caller may give, and what every URL is.
UrlParts == [scheme : STRING, user : STRING, host : STRING, port : STRING, path : STRING]
IsUrl(u) == u = [scheme |-> u.scheme, user |-> u.user, host |-> u.host, port |-> u.port, path |-> u.path]

NoUrl == Url("none", "", "none", "")

\* The ports in use that are digits, and their numbers; the other port texts are not digits.
PortNumber ==
    [p \in {"0", "9", "1234", "8000", "11434", "70000"} |->
        CASE p = "0" -> 0 [] p = "9" -> 9 [] p = "1234" -> 1234
          [] p = "8000" -> 8000 [] p = "11434" -> 11434 [] p = "70000" -> 70000]

DecimalTcpPort(port) == port \in DOMAIN PortNumber /\ PortNumber[port] \in 1 .. 65535

\* invalid_explicit_base_url says nothing; an unbracketed ::1 is not a host and a port.
ValidUrl(u) ==
    /\ u.scheme \in {"http", "https"}
    /\ u.host \notin {"", "::1"}
    /\ u.port = "none" \/ DecimalTcpPort(u.port)

Bare(host) == IF host = "[::1]" THEN "::1" ELSE host

\* The last colon of a bracketed address without a port is one of its own.
UrlHost(u) == IF u.host = "[::1]" /\ u.port = "none" THEN ":" ELSE Bare(u.host)

IsOllamaCompat(u) == UrlHost(u) \in Loopback /\ u.port = "11434"
NormalizeOllama(u) == IF IsOllamaCompat(u) /\ u.path = "" THEN [u EXCEPT !.path = "/v1"] ELSE u

RedactBaseUrl(u) == [u EXCEPT !.user = ""]

ProviderFromBaseUrl(u) ==
    IF u.host = "" THEN "openai-compat"
    ELSE IF u.port = "none" THEN Bare(u.host) ELSE Bare(u.host) \o ":" \o u.port

\* What the URL parser of the HTTP client makes of a host.
DialedName(host) == IF host = "127.1" THEN "127.0.0.1" ELSE Bare(host)

ToolUrlIsLoopback(u) ==
    u.scheme \in {"http", "https"} /\ {DialedName(u.host), Bare(u.host)} \subseteq Loopback

----------------------------------------------------------------------------
(* Defaults.                                                               *)

OllamaUrl == Url("http", "127.0.0.1", "11434", "/v1")
OpenaiUrl == Url("https", "api.openai.com", "none", "/v1")
OpenrouterUrl == Url("https", "openrouter.ai", "none", "/api/v1")
XaiUrl == Url("https", "api.x.ai", "none", "/v1")
GrokBuildUrl == Url("https", "cli-chat-proxy.grok.com", "none", "/v1")
AnthropicUrl == Url("https", "api.anthropic.com", "none", "/v1")
GroqUrl == Url("https", "api.groq.com", "none", "/openai/v1")
BedrockUrl == Url("https", "bedrock-runtime.us-east-1.amazonaws.com", "none", "")

\* The texts after the colon of a loopback label.
PortTexts == DOMAIN PortNumber \cup {"x", "9@api.x.ai"}

LoopbackNames == Loopback \cup {"[::1]"}
LoopbackLabels == {h \o ":" \o s : h \in LoopbackNames, s \in PortTexts}

\* A host and a port are nobody's name: said of strings, which no prover takes apart.
ASSUME LabelAssumption == LoopbackLabels \cap (NamedLabels \cup {"absent"}) = {}

\* A URL whose label, if it has a port, is nobody's name.
Labelled(u) ==
    /\ u \in UrlParts
    /\ u.port # "none" => ProviderFromBaseUrl(u) \notin NamedLabels

\* The URL whose authority is host and text with a colon between: what stands
\* before an at sign is userinfo.
Authority(host, text) ==
    IF text = "9@api.x.ai" THEN [XaiUrl EXCEPT !.scheme = "http", !.user = "9"]
    ELSE Url("http", host, text, "/v1")

Escaped(suffix) == IF suffix = "9@api.x.ai" THEN "9%40api.x.ai" ELSE suffix

\* loopback_host_port_base_url of a label in LoopbackLabels.
LoopbackUrl(p) ==
    LET parts == CHOOSE q \in LoopbackNames \X PortTexts : p = q[1] \o ":" \o q[2] IN
    Authority(IF parts[1] = "::1" THEN "[::1]" ELSE parts[1], Escaped(parts[2]))

IsLocalLabel(p) ==
    p \in {"ollama", "lmstudio", "vllm", "[::1]"} \cup Loopback \cup LoopbackLabels

LocalProviderUrl(p) ==
    IF p = "lmstudio" THEN Url("http", "127.0.0.1", "1234", "/v1")
    ELSE IF p = "vllm" THEN Url("http", "127.0.0.1", "8000", "/v1")
    ELSE IF p \in LoopbackLabels THEN LoopbackUrl(p)
    ELSE OllamaUrl

DefaultCompatUrl(p, fromOpenrouter) ==
    IF IsLocalLabel(p) THEN LocalProviderUrl(p)
    ELSE IF p \in GrokBuildLabels \cup GrokMessagesLabels THEN GrokBuildUrl
    ELSE IF p \in XaiLabels THEN XaiUrl
    ELSE IF p \in AnthropicLabels THEN AnthropicUrl
    ELSE IF p \in GroqLabels THEN GroqUrl
    ELSE IF p \in BedrockLabels THEN BedrockUrl
    ELSE IF p \notin CodexLabels /\ (fromOpenrouter \/ p \in {"openrouter", "openrouter.ai"})
    THEN OpenrouterUrl
    ELSE OpenaiUrl

\* A slip: the plan leaves the path of an Ollama base empty.
ProbeEndpointAsTyped(given, url) ==
    LET base == IF url = NoUrl THEN DefaultCompatUrl(given, FALSE) ELSE url
    IN  [provider |-> IF given = "" THEN ProviderFromBaseUrl(base) ELSE given, base |-> base]

ProbeEndpointWithoutKey(given, url) ==
    LET base == NormalizeOllama(IF url = NoUrl THEN DefaultCompatUrl(given, FALSE) ELSE url)
    IN  [provider |-> IF given = "" THEN ProviderFromBaseUrl(base) ELSE given, base |-> base]

----------------------------------------------------------------------------
(* Keys.                                                                   *)

\* from is the one flag of from_openrouter, from_xai and from_anthropic that is
\* set, or "none": resolve_api_key_from never sets two.
Route(key, from) == [key |-> key, from |-> from]

FirstPresent(keys) ==
    IF \E i \in 1 .. Len(keys) : keys[i] # "none"
    THEN keys[CHOOSE i \in 1 .. Len(keys) :
                keys[i] # "none" /\ \A j \in 1 .. (i - 1) : keys[j] = "none"]
    ELSE "none"

\* The vendor whose host a key in the environment makes the default.
DefaultVendor(openai, openrouter, xai, anthropic, p) ==
    IF openai # "none" THEN "none"
    ELSE IF openrouter # "none" /\ OpenrouterDefaultOk(p) THEN "openrouter"
    ELSE IF xai # "none" /\ (p = "" \/ UsesXaiCredentials(p)) THEN "xai"
    ELSE IF anthropic # "none" /\ (p = "" \/ p \in AnthropicLabels) THEN "anthropic"
    ELSE "none"

ResolveApiKeyFrom(cli, openai, openrouter, xai, anthropic, p) ==
    IF p \in GroqLabels \cup BedrockLabels THEN Route(cli, "none")
    ELSE IF p \in CodexLabels THEN Route(FirstPresent(<<cli, openai>>), "none")
    ELSE IF cli # "none" THEN Route(cli, DefaultVendor(openai, openrouter, xai, anthropic, p))
    ELSE IF UsesXaiCredentials(p) THEN Route(xai, IF xai = "none" THEN "none" ELSE "xai")
    ELSE IF p \in AnthropicLabels
    THEN Route(anthropic, IF anthropic = "none" THEN "none" ELSE "anthropic")
    ELSE IF openai # "none" THEN Route(openai, "none")
    ELSE IF xai # "none" /\ p = "" THEN Route(xai, "xai")
    ELSE IF anthropic # "none" /\ p = "" THEN Route(anthropic, "anthropic")
    ELSE IF openrouter # "none"
    THEN Route(openrouter, IF OpenrouterDefaultOk(p) THEN "openrouter" ELSE "none")
    ELSE Route("none", "none")

DefaultBaseUrl(route, p) ==
    IF route.from = "xai" /\ p = "" THEN XaiUrl
    ELSE IF route.from = "anthropic" /\ p = "" THEN AnthropicUrl
    ELSE DefaultCompatUrl(p, route.from = "openrouter" /\ OpenrouterDefaultOk(p))

\* A slip: a URL of the caller's own does not matter.
ShouldLoadXaiAnyway(p, otherKeys, explicit) == UsesXaiCredentials(p) \/ (p = "" /\ ~otherKeys)

ShouldLoadXaiOauth(p, otherKeys, explicit) ==
    ~(p = "" /\ explicit) /\ (UsesXaiCredentials(p) \/ (p = "" /\ ~otherKeys))

ShouldLoadClaudeLogin(p, otherKeys, explicit) ==
    ~(p = "" /\ explicit) /\ (p \in AnthropicLabels \/ (p = "" /\ ~otherKeys))

RefuseCloudWithoutKey(key, u) == key = "none" /\ UrlHost(u) \in CloudHosts

\* shipped_profile_base_conflict has something to say.
BaseConflict(p, u) ==
    \/ p \in CodexLabels /\ UrlHost(u) \notin OpenaiHosts
    \/ p \in GrokMessagesLabels /\ UrlHost(u) \notin GrokHosts
    \/ p \in BedrockLabels /\ UrlHost(u) \in BedrockHosts \ {BedrockUrl.host}

\* finalize_key_route: the base and the label, or an error; Reloads says whether
\* the key is read again for the label.
Finalized(given, url, route) ==
    LET base == NormalizeOllama(IF url = NoUrl THEN DefaultBaseUrl(route, given) ELSE url)
    IN  [ok |-> ValidUrl(base), base |-> base,
         provider |-> IF given = "" THEN ProviderFromBaseUrl(base) ELSE given]

Reloads(given, url) == given = "" /\ url # NoUrl

----------------------------------------------------------------------------
(* The client that is built: wire_client_for of src/adapters/openai.rs.    *)

\* The shipped profile that is dialed whatever the base says, or "compat".
WireProfile(p, u) ==
    IF UrlHost(u) \in AnthropicHosts THEN "anthropic"
    ELSE IF p \in CodexLabels THEN "openai-codex"
    ELSE IF p \in GrokMessagesLabels THEN "xai-grok-build-messages"
    ELSE IF UrlHost(u) \in GrokHosts THEN "xai-grok-build"
    ELSE IF p \in GroqLabels /\ UrlHost(u) \in GroqHosts THEN "groq"
    ELSE IF p \in BedrockLabels /\ UrlHost(u) \in BedrockHosts THEN "amazon-bedrock"
    ELSE "compat"

\* The host that a profile's file names; compat is the base itself.
DialedHost(p, u) ==
    CASE WireProfile(p, u) = "anthropic" -> AnthropicUrl.host
      [] WireProfile(p, u) = "openai-codex" -> OpenaiUrl.host
      [] WireProfile(p, u) \in {"xai-grok-build", "xai-grok-build-messages"} -> GrokBuildUrl.host
      [] WireProfile(p, u) = "groq" -> GroqUrl.host
      [] WireProfile(p, u) = "amazon-bedrock" -> BedrockUrl.host
      [] OTHER -> DialedName(u.host)

\* A shipped profile without a key finds a token of its own.
FindsOwnLogin(key, p, u) == key = "none" /\ WireProfile(p, u) # "compat"
=============================================================================
