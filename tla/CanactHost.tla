----------------------------- MODULE CanactHost -----------------------------
(***************************************************************************)
(* canact as a process that asks for probes: `canact mcp`, which serves    *)
(* the probe_model tool over its standard input and output until the input *)
(* ends (run_mcp_stdio_with of src/mcp.rs), and `canact probe`, which asks *)
(* for one (run_probe of src/bin/canact.rs).                               *)
(*                                                                         *)
(* The two read their arguments differently and then take the same steps:  *)
(* a key, a base URL and a label, the cache, the catalog, the suite.  What *)
(* the cache answers is ProbeCommand's, what the suite does ProbeSuite's;  *)
(* here each is only its outcome, and what matters is who is asked with    *)
(* which key, and what the caller is told.                                 *)
(***************************************************************************)
EXTENDS KeySources, CachePath, McpWire

CONSTANTS
    Kinds,              \* the kinds of session, and the sessions of a kind:
    SessionsOf(_)       \* how the process is started, and all that it will be sent

\* What can be asked for, and a session of either kind.  The parser of the
\* command line takes only what the flags allow, a JSON object takes anything.
Arguments ==
    [tool : STRING, provider : STRING, url : UrlParts, var : STRING, model : STRING, suite : STRING,
     cheap : STRING, full : STRING, vision : STRING, force : STRING, adv : STRING, tools : STRING,
     cache : Seq(STRING)]
AnyMessage == {m \in [id : Nat, method : STRING, args : Arguments] : Labelled(m.args.url)}

IsSession(s) ==
    /\ s.host \in {"mcp", "cli"}
    /\ s.input \in Seq(Pieces(AnyMessage))
    /\ s.command \in AnyMessage
    /\ s.policy.env \in STRING /\ Labelled(s.policy.url)
    /\ s.logins \subseteq LoginStates
    /\ s.flag \in {"none", "flag"}
    /\ s.host = "mcp" => s.flag = "none"
    /\ s.host = "cli" =>
          /\ s.command.args.provider # "number"
          /\ "bad" \notin {s.command.args[name] : name \in {"cheap", "full", "vision", "force", "adv"}}

ASSUME SessionAssumption == \A kind \in Kinds : \A s \in SessionsOf(kind) : IsSession(s)

VARIABLES
    session,    \* the one this process has
    rest,       \* what is left of its standard input
    pc,         \* where it stands
    message,    \* the message, or the command, being answered
    route,      \* the key and the vendor it makes the default
    base,       \* the base URL
    label,      \* the provider label
    opened,     \* the cache file
    read,       \* login stores asked for this message
    dialed,     \* requests made for this message
    reply,      \* what it is about to say
    handled,    \* messages read so far
    replies,    \* replies written so far
    stdout,     \* whether anybody reads its output
    exit        \* "running", or the exit code

vars == <<session, rest, pc, message, route, base, label, opened, read, dialed, reply,
          handled, replies, stdout, exit>>

routing == <<route, base, label, opened>>
asking == <<read, dialed>>

NoRoute == Route("none", "none")
NoArguments ==
    [tool |-> "absent", provider |-> "absent", url |-> NoUrl, var |-> "none", model |-> "m",
     suite |-> "absent", cheap |-> "absent", full |-> "absent", vision |-> "absent",
     force |-> "absent", adv |-> "absent", tools |-> "absent", cache |-> DefaultCacheFile]
NoMessage == [id |-> 0, method |-> "none", args |-> NoArguments]
Nothing == [kind |-> "nothing", why |-> "none"]

Init ==
    /\ \E kind \in Kinds : session \in SessionsOf(kind)
    /\ rest = session.input
    /\ pc = IF session.host = "mcp" THEN "reading" ELSE "command"
    /\ message = IF session.host = "mcp" THEN NoMessage ELSE session.command
    /\ route = NoRoute /\ base = NoUrl /\ label = "" /\ opened = <<>>
    /\ read = {} /\ dialed = {}
    /\ reply = Nothing
    /\ handled = <<>> /\ replies = <<>>
    /\ stdout = TRUE
    /\ exit = "running"

----------------------------------------------------------------------------
(* The arguments of a probe.                                               *)

args == message.args
policy == session.policy
env == session.env

\* A base URL of blanks: no URL for the tool, an error on the command line.
BlankUrl == [NoUrl EXCEPT !.path = "blank"]
Given == IF args.provider = "absent" THEN "" ELSE args.provider
GivenUrl == IF args.url = BlankUrl THEN NoUrl ELSE args.url

UsedVar == IF session.host = "mcp" THEN EffectiveEnv(args.var, policy) ELSE "none"
UsedUrl == IF session.host = "mcp" THEN EffectiveUrl(GivenUrl, policy) ELSE GivenUrl
FromTool == session.host = "mcp" /\ ToolSupplied(GivenUrl, policy)
FromHuman == UsedUrl # NoUrl /\ ~FromTool

Flag(name) == args[name] = "true"

\* The tier that suite and its two aliases ask for together.
Suite(a) ==
    LET named == IF a.suite = "cheap" THEN "policy" ELSE a.suite
        cheap == a.cheap = "true"
        full == a.full = "true"
    IN  IF \/ named = "bad"
           \/ named = "absent" /\ cheap /\ full
           \/ named # "absent" /\ ((cheap /\ named # "policy") \/ (full /\ named # "full"))
        THEN "refused"
        ELSE IF named # "absent" THEN named ELSE IF full THEN "full" ELSE "policy"

----------------------------------------------------------------------------
(* Answers.                                                                *)

Say(kind, why) ==
    /\ pc' = "writing"
    /\ reply' = [kind |-> kind, why |-> why]

Leave(code) == pc' = "exited" /\ exit' = code

\* A slip: a request without an id is taken for a notification.
SilentById(m) == m.id = 0

\* The methods that start with "notifications/".
Notifications == {"notifications/initialized", "notifications/cancelled"}

Silent(m) == m.method \in Notifications

\* The call is refused, and nothing else has changed.
Refuse(why) ==
    /\ Say("isError", why)
    /\ UNCHANGED <<session, rest, message, routing, asking, handled, replies, stdout, exit>>

\* The loop of run_mcp_stdio_with, up to the message's method.
ReadRequest ==
    /\ pc = "reading"
    /\ LET next == ReadMessage(rest) IN
       IF next.is = "message"
       THEN /\ message' = next.message
            /\ rest' = next.rest
            /\ handled' = Append(handled, next.message)
            /\ pc' = "dispatch"
            /\ UNCHANGED exit
       ELSE /\ Leave(IF next.is = "eof" THEN "0" ELSE "1")
            /\ UNCHANGED <<message, rest, handled>>
    /\ UNCHANGED <<session, routing, asking, reply, replies, stdout>>

Dispatch ==
    /\ pc = "dispatch"
    /\ CASE Silent(message) -> pc' = "reading" /\ UNCHANGED reply
         [] message.method \in {"initialize", "ping", "tools/list"} -> Say("result", message.method)
         [] message.method = "tools/call" ->
              IF message.args.tool = "probe_model" THEN pc' = "call" /\ UNCHANGED reply
              ELSE Say("isError", "tool")
         [] OTHER -> Say("error", "method not found")
    /\ UNCHANGED <<session, rest, message, routing, asking, handled, replies, stdout, exit>>

\* probe_model_args: the policy first, and then a key for the provider named.
CallArgs ==
    /\ pc = "call"
    /\ IF \/ args.tools = "bad"
          \/ args.provider \in {"blank", "number"}
          \/ GivenUrl # NoUrl /\ ~ValidUrl(GivenUrl)
          \/ GivenUrl = NoUrl /\ policy.url # NoUrl /\ ~ValidUrl(policy.url)
       THEN Refuse("arguments")
       ELSE IF ~EnvPermitted(args.var, policy) \/ ~UrlPermitted(GivenUrl, policy) THEN Refuse("policy")
       ELSE \E logins \in session.logins :
              LET first == LoadMcpRoute(env, logins, UsedVar, Given, FromTool, FromHuman, policy) IN
              /\ read' = first.read
              /\ IF first.ok THEN pc' = "checks" /\ UNCHANGED reply ELSE Say("isError", "login")
              /\ route' = first.route
              /\ UNCHANGED <<session, rest, message, base, label, opened, dialed, handled, replies,
                             stdout, exit>>

\* probe_model_with_route, up to the cache that it loads.
CallChecks ==
    /\ pc = "checks" /\ session.host = "mcp"
    /\ LET file == OpenedPath(session.fs, args.cache, policy.allow_cache) IN
       IF \/ args.model # "m"
          \/ args.adv = "bad"
          \/ \E name \in {"cheap", "full", "vision", "force"} : args[name] = "bad"
          \/ Suite(args) = "refused"
       THEN Refuse("arguments")
       ELSE IF ~file.ok THEN Refuse("cache")
       ELSE /\ opened' = file.path
            /\ \/ pc' = "route" /\ UNCHANGED reply
               \/ Say("isError", "cache")      \* ProbeCache::load fails
            /\ UNCHANGED <<session, rest, message, route, base, label, asking, handled, replies,
                           stdout, exit>>

----------------------------------------------------------------------------
(* The command line.                                                       *)

\* run_dry_run: the label and the base of the plan, or an error.
DryRun(a, given, url) ==
    LET plan == ProbeEndpointWithoutKey(given, url) IN
    IF \/ Suite(a) = "refused"
       \/ url # NoUrl /\ ~ValidUrl(url)
       \/ ~ValidUrl(plan.base)
       \/ BaseConflict(plan.provider, plan.base)
    THEN [ok |-> FALSE, provider |-> "", base |-> NoUrl]
    ELSE [ok |-> TRUE, provider |-> plan.provider, base |-> RedactBaseUrl(plan.base)]

\* run_probe, up to the key for the provider named.
Command ==
    /\ pc = "command"
    /\ IF \/ args.url = BlankUrl
          \/ args.model \in {"blank", "control"}
          \/ args.tools = "bad"
          \/ GivenUrl # NoUrl /\ ~ValidUrl(GivenUrl)
          \/ args.provider \in {"blank", "control"}
          \/ session.dry /\ Suite(args) = "refused"
       THEN Refuse("arguments")
       ELSE IF session.dry
       THEN LET plan == DryRun(args, Given, GivenUrl) IN
            /\ Say(IF plan.ok THEN "result" ELSE "isError", "plan")
            /\ base' = plan.base /\ label' = plan.provider
            /\ UNCHANGED <<session, rest, message, route, opened, asking, handled, replies, stdout, exit>>
       ELSE \E logins \in session.logins :
              LET first == LoadCliRoute(env, logins, session.flag, Given, UsedUrl # NoUrl, session.noLogin) IN
              /\ read' = first.read
              /\ IF first.ok THEN pc' = "route" /\ UNCHANGED reply ELSE Say("isError", "login")
              /\ route' = first.route
              /\ UNCHANGED <<session, rest, message, base, label, opened, dialed, handled, replies,
                             stdout, exit>>

----------------------------------------------------------------------------
(* Both.                                                                   *)

\* The key is read again for the label that an explicit URL gives.
Reload(logins, p) ==
    IF session.host = "mcp"
    THEN LoadMcpRoute(env, logins, UsedVar, p, FromTool, FromHuman, policy)
    ELSE LoadCliRoute(env, logins, session.flag, p, FALSE, session.noLogin)

\* finalize_key_route and the checks after it; a cache that cannot be loaded
\* and, on the command line, a suite that is refused, end the command too.
FinalizeRoute ==
    /\ pc = "route"
    /\ LET final == Finalized(Given, UsedUrl, route) IN
       IF ~final.ok THEN Refuse("base")
       ELSE \E logins \in session.logins :
              LET last == IF Reloads(Given, UsedUrl) THEN Reload(logins, final.provider)
                          ELSE [ok |-> TRUE, route |-> route, read |-> {}]
              IN  /\ read' = read \cup last.read
                  /\ route' = last.route
                  /\ base' = final.base
                  /\ label' = final.provider
                  /\ CASE ~last.ok -> Say("isError", "login")
                       [] last.ok /\ BaseConflict(final.provider, final.base) -> Say("isError", "base")
                       [] last.ok /\ ~BaseConflict(final.provider, final.base)
                            /\ (Suite(args) = "refused" \/ Given = "control") -> Say("isError", "arguments")
                       [] OTHER -> \/ pc' = "lookup" /\ UNCHANGED reply
                                   \/ session.host = "cli" /\ Say("isError", "cache")
                  /\ UNCHANGED <<session, rest, message, opened, dialed, handled, replies, stdout, exit>>

\* A card for these arguments is in the cache.
Hit ==
    /\ pc \in {"lookup", "hinted"}
    /\ ~Flag("force") /\ (pc = "lookup" => args.model = "m")
    /\ Say("result", "card")
    /\ UNCHANGED <<session, rest, message, routing, asking, handled, replies, stdout, exit>>

NoKey ==
    /\ pc = "lookup"
    /\ RefuseCloudWithoutKey(route.key, base)
    /\ Refuse("key")

\* A request to the base, by the client that the label and the base select.
Request(p) == [host |-> DialedHost(p, base), key |-> route.key, label |-> label]
Dial(p) ==
    /\ dialed' = dialed \cup {Request(p)}
    /\ read' = IF FindsOwnLogin(route.key, p, base) THEN read \cup {"own"} ELSE read

\* resolve_model and resolve_host_catalog: nobody is asked when the caller has
\* said all that a catalog could.
Catalog ==
    /\ pc = "lookup"
    /\ ~RefuseCloudWithoutKey(route.key, base)
    /\ IF args.adv = "ok" /\ args.vision # "absent" /\ args.model = "m"
       THEN UNCHANGED asking
       ELSE Dial("openai-compat")
    /\ \/ pc' = "hinted" /\ UNCHANGED reply
       \/ args.model = "absent" /\ Say("isError", "model")
    /\ UNCHANGED <<session, rest, message, routing, handled, replies, stdout, exit>>

\* The suite runs, and its profile is stored if it may be; a save that fails is a warning.
Run ==
    /\ pc = "hinted"
    /\ Dial(label)
    /\ Say("result", "run") \/ Say("isError", "run")
    /\ UNCHANGED <<session, rest, message, routing, handled, replies, stdout, exit>>

\* One reply to a message, or the end of the command.
Write ==
    /\ pc = "writing"
    /\ IF ~stdout THEN Leave("1") /\ UNCHANGED replies
       ELSE IF session.host = "cli"
       THEN Leave(IF reply.kind = "result" THEN "0" ELSE "1") /\ UNCHANGED replies
       ELSE /\ pc' = "reading" /\ UNCHANGED exit
            /\ replies' = Append(replies, [id |-> message.id, kind |-> reply.kind])
    /\ reply' = Nothing
    /\ read' = {} /\ dialed' = {}
    /\ UNCHANGED <<session, rest, message, routing, handled, stdout>>

\* The client closes the server's output.
Hangup ==
    /\ stdout /\ session.host = "mcp" /\ session.hangs /\ exit = "running"
    /\ stdout' = FALSE
    /\ UNCHANGED <<session, rest, pc, message, routing, asking, reply, handled, replies, exit>>

Next ==
    \/ ReadRequest \/ Dispatch \/ CallArgs \/ CallChecks \/ Command
    \/ FinalizeRoute \/ Hit \/ NoKey \/ Catalog \/ Run \/ Write \/ Hangup

Spec == Init /\ [][Next]_vars

----------------------------------------------------------------------------
\* The type invariant.  The texts of labels, keys and reasons are left open.
TypeOK ==
    /\ IsSession(session)
    /\ rest \in Seq(Pieces(AnyMessage))
    /\ pc \in {"reading", "dispatch", "command", "call", "checks", "route", "lookup", "hinted",
               "writing", "exited"}
    /\ message \in AnyMessage \cup {NoMessage}
    /\ route.from \in {"none", "openrouter", "xai", "anthropic"}
    /\ IsUrl(base)
    /\ read \subseteq {"xai", "anthropic", "own"}
    /\ reply.kind \in {"nothing", "result", "error", "isError"}
    /\ handled \in Seq(AnyMessage)
    /\ replies \in Seq([id : Nat, kind : {"result", "error", "isError"}])
    /\ stdout \in BOOLEAN
    /\ exit \in {"running", "0", "1"}

----------------------------------------------------------------------------
(* What a session must come to.                                            *)

\* The server takes from its input exactly the messages that were put there, in
\* order and each once, whichever way each was framed; it ends with 1 at the
\* first thing that is not a message and with 0 at the end of the input
\* (read_message, read_content_length_body).
DecodedAsSent ==
    session.host = "mcp" =>
        /\ IsPrefix(handled, session.sent)
        /\ (exit # "running" /\ stdout) =>
              handled = session.sent /\ exit = (IF session.broken THEN "1" ELSE "0")

\* The messages up to the i-th that ask for an answer.
Asking(i) == {j \in 1 .. i : handled[j].method \notin Notifications}
Turn(i) == Cardinality(Asking(i))

\* Every message but a notification is answered once, in the order of the
\* messages and under its own id, before the next is read; a reply is lost only
\* when nobody reads the output, and then the server stops (run_mcp_stdio_with).
AnsweredInOrder ==
    session.host = "mcp" =>
        /\ \A i \in Asking(Len(handled)) :
              Turn(i) <= Len(replies) => replies[Turn(i)].id = handled[i].id
        /\ Len(replies) <= Turn(Len(handled)) /\ Turn(Len(handled)) <= Len(replies) + 1
        /\ (pc = "reading" \/ (pc = "exited" /\ stdout)) => Len(replies) = Turn(Len(handled))

SameVendor(h, g) ==
    \/ h = g
    \/ \E hosts \in {XaiHosts, GrokHosts, AnthropicHosts, GroqHosts, OpenaiHosts, BedrockHosts} :
          {h, g} \subseteq hosts

\* A request goes to the host of the base URL that was given, or to the same
\* vendor's main host when a shipped profile speaks for it; a server's base URL
\* is not replaced by a tool's, and without one a tool reaches only this machine
\* (enforce_mcp_tool_policy, shipped_profile_base_conflict, wire_client_for).
DialsWhereItWasTold ==
    \A d \in dialed :
        /\ UsedUrl # NoUrl => SameVendor(d.host, DialedName(UsedUrl.host))
        /\ (session.host = "mcp" /\ policy.url # NoUrl) => GivenUrl \in {NoUrl, policy.url}
        /\ (FromTool /\ ~policy.allow_base_url) => d.host \in Loopback
        /\ (args.provider \in LoopbackLabels /\ UsedUrl = NoUrl) => d.host \in Loopback

\* The variable that a tool or the server names is the only key of the call, and
\* the tool names one of the list or the server's own (permitted_api_key_env,
\* mcp_resolve_key_route).
NamedKeyAlone ==
    session.host = "mcp" =>
        \A d \in dialed :
            /\ policy.env # "none" => d.key \in {policy.env, "none"}
            /\ (policy.env = "none" /\ args.var # "none") =>
                  args.var \in Allowlist /\ d.key \in {args.var, "none"}

\* The label that the caller gives, by name or as the host of the URL.
NamedLabel == IF Given # "" \/ UsedUrl = NoUrl THEN Given ELSE ProviderFromBaseUrl(UsedUrl)

\* A vendor's key is sent to that vendor, or where the caller gave that vendor's
\* label, and a route with the label of a vendor sends no other key than that
\* vendor's (resolve_api_key_from; "OPENAI_API_KEY is not sent").
KeysFollowTheVendor ==
    UsedVar = "none" =>
        \A d \in dialed :
            /\ d.key \in XaiKeys => d.host \in XaiHosts \cup GrokHosts \/ UsesXaiCredentials(NamedLabel)
            /\ d.key \in AnthropicKeys => d.host \in AnthropicHosts \/ NamedLabel \in AnthropicLabels
            /\ d.key = "GROQ_API_KEY" => d.host \in GroqHosts \/ NamedLabel \in GroqLabels
            /\ d.key = "AWS_BEARER_TOKEN_BEDROCK" => d.host \in BedrockHosts \/ NamedLabel \in BedrockLabels
            /\ d.label \in VendorLabels => d.key \notin {"OPENAI_API_KEY", "OPENROUTER_API_KEY"}
            /\ (session.host = "cli" /\ session.flag # "none") => d.key = "flag"

\* No request reaches a cloud host without a key, so a shipped profile never
\* looks for a token of its own (refuse_cloud_without_key, shipped_client).
CloudsNeedAKey ==
    /\ \A d \in dialed : d.key = "none" => d.host \notin CloudHosts
    /\ "own" \notin read

KeylessDefault ==
    /\ Given = "" /\ UsedUrl = NoUrl /\ session.flag = "none"
    /\ env \cap {"OPENAI_API_KEY", "OPENROUTER_API_KEY"} = {}

\* A stored login is asked for only by a caller who did not turn logins off, name
\* a variable or have a tool bring a URL, when the environment has no key of that
\* vendor.  A vendor's label asks for its vendor's login whatever other keys there
\* are, --api-key included; without a label and a URL a login is asked for only
\* when there is no such key and no flag.  A call that breaks the server's policy
\* asks for none (should_load_xai_oauth, load_mcp_route).
LoginsAreALastResort ==
    read # {} =>
        /\ UsedVar = "none" /\ ~FromTool
        /\ session.host = "cli" => ~session.noLogin
        /\ "xai" \in read => XaiEnvKey(env) = "none" /\ (KeylessDefault \/ UsesXaiCredentials(NamedLabel))
        /\ "anthropic" \in read =>
              /\ AnthropicEnvKey(env) = "none"
              /\ (KeylessDefault /\ XaiEnvKey(env) = "none") \/ NamedLabel \in AnthropicLabels
        /\ session.host = "mcp" =>
              args.var \in Allowlist \cup {"none"} /\ (policy.url # NoUrl => GivenUrl \in {NoUrl, policy.url})

\* The tiers that the suite and its aliases name.
TiersNamed ==
    (IF args.suite = "absent" THEN {} ELSE {IF args.suite = "cheap" THEN "policy" ELSE args.suite})
      \cup (IF args.cheap = "true" THEN {"policy"} ELSE {})
      \cup (IF args.full = "true" THEN {"full"} ELSE {})

\* What is wrong at first sight: a name that is none, a list or a URL that cannot
\* be read.
WrongAtSight ==
    \/ args.tools = "bad" \/ args.provider \in {"blank", "number"}
    \/ UsedUrl # NoUrl /\ ~ValidUrl(UsedUrl)
    \/ /\ session.host = "cli"
       /\ args.url = BlankUrl \/ args.model \in {"blank", "control"} \/ args.provider = "control"

\* Arguments that contradict each other, are of the wrong type or name nothing
\* are refused before a request is made or a card is shown; where they are wrong
\* at first sight, before a login is read too.  The model, the suite and the other
\* flags of a tool's call, and the suite of a command, are looked at when a login
\* may have been read (probe_model_args, probe_model_with_route, run_probe).
WrongArgumentsAskNobody ==
    (/\ session.host = "cli" \/ (message.method = "tools/call" /\ args.tool = "probe_model")
     /\ pc \in {"lookup", "hinted", "writing"}
     /\ \/ Cardinality(TiersNamed) > 1
        \/ "bad" \in {args.suite, args.cheap, args.full, args.vision, args.force, args.adv, args.tools}
        \/ args.provider \in {"blank", "number", "control"}
        \/ args.model \in {"blank", "control"}
        \/ session.host = "mcp" /\ args.model = "absent"
        \/ WrongAtSight)
       => pc = "writing" /\ dialed = {} /\ reply.kind = "isError" /\ (WrongAtSight => read = {})

\* The variables named to a caller without a key are ones that would help: with
\* any of them set, the same request has a key ("Do not list env vars the route
\* will ignore").  This is of a variable that was named, and of a vendor's label
\* at that vendor's host: another label is told of every variable, and the
\* command line goes by the host before it goes by the label.
AdviceHelps ==
    (/\ reply.why = "key" /\ Given # ""
     /\ \/ UsedVar # "none"
        \/ label \in VendorLabels \cup CodexLabels /\ SameVendor(base.host, DefaultCompatUrl(label, FALSE).host))
      =>
        LET advice == IF session.host = "mcp" THEN McpAdvice(UsedVar, label) ELSE CliAdvice(label, base)
            none == [xai |-> "none", anthropic |-> "none"]
        IN  \A var \in advice :
                (IF session.host = "mcp"
                 THEN LoadMcpRoute(env \cup {var}, none, UsedVar, Given, FromTool, FromHuman, policy)
                 ELSE LoadCliRoute(env \cup {var}, none, session.flag, Given, UsedUrl # NoUrl,
                                   session.noLogin)).route.key = var

\* The cache that the server opens for a tool lies, links followed, in the
\* default directory, and is the file that the tool's own path leads to when it
\* leads to one (resolve_opened_cache_path).
CacheStaysInside ==
    (session.host = "mcp" /\ pc \in {"route", "lookup", "hinted"}) =>
        LET asked == Reach(session.fs, args.cache)
            file == Reach(session.fs, opened)
        IN  /\ (asked # <<"missing">>) => file = asked
            /\ (~policy.allow_cache /\ file # <<"missing">>) =>
                  IsPrefix(Reach(session.fs, CacheDir), file)

\* What --dry-run prints is where the same command would go, as far as the
\* arguments say it, and it refuses the routes that the command refuses
\* (run_dry_run, finalize_key_route).
DryRunIsThePlan ==
    (session.host = "cli" /\ (Given # "" \/ GivenUrl # NoUrl)) =>
        LET plan == DryRun(args, Given, GivenUrl) IN
        /\ pc \in {"lookup", "hinted"} => plan = [ok |-> TRUE, provider |-> label, base |-> RedactBaseUrl(base)]
        /\ reply.why = "base" => ~plan.ok

\* What the server reads with loops of its own, a stream and a path, it reads right.
ReadsRight == DecodedAsSent /\ CacheStaysInside

\* Which host is asked and which key it is sent, whoever named them.
KeysGoToTheirVendor ==
    NamedKeyAlone /\ KeysFollowTheVendor /\ CloudsNeedAKey /\ DialsWhereItWasTold

\* What is asked for is asked for late: a login where the environment has no key of
\* its vendor, a host when all the arguments have been looked at, and neither for
\* what is wrong at first sight.  Of --api-key before a vendor's login see
\* FlagComesFirst.
NothingInVain == LoginsAreALastResort /\ WrongArgumentsAskNobody

\* "What is tried, first match wins: --api-key, else ... Grok login" (README): a
\* command that is given a key asks for no stored login.  The code asks for a
\* vendor's login whenever the label is the vendor's and the environment has no
\* key, also beside the flag, and a login that fails to refresh ends the command
\* (resolve_api_key).
FlagComesFirst == (session.host = "cli" /\ session.flag # "none") => read = {}

\* What canact says it would do, or what would help, is so.
ForetellsTrue == AdviceHelps /\ DryRunIsThePlan
=============================================================================
