---------------------------- MODULE MCCanactHost ----------------------------
(***************************************************************************)
(* Sessions of CanactHost: streams of up to three messages framed in every *)
(* way there is, and single calls and commands over the labels, URLs,      *)
(* variables, flags, caches and arguments that the code tells apart.       *)
(***************************************************************************)
EXTENDS CanactHost

Strict == [url |-> NoUrl, env |-> "none", allow_base_url |-> FALSE, allow_cache |-> FALSE]
AllLogins == LoginStates
Lucky == {[xai |-> "token", anthropic |-> "token"]}

PlainFiles ==
    [exists |-> {<<"home">>, CacheDir, <<"home", "notes">>, DefaultCacheFile}, target |-> <<>>]

Message1(id, method, a) == [id |-> id, method |-> method, args |-> a]
Call(id, a) == Message1(id, "tools/call", [a EXCEPT !.tool = "probe_model"])

\* One session of the server and one of the command line.
Serve(input, sent, broken, pol, e, logins, fs, hangs) ==
    [host |-> "mcp", input |-> input, sent |-> sent, broken |-> broken, policy |-> pol, env |-> e,
     logins |-> logins, fs |-> fs, hangs |-> hangs, command |-> NoMessage,
     flag |-> "none", noLogin |-> FALSE, dry |-> FALSE]
ServeCall(a, pol, e, logins, fs) ==
    Serve(<<Text(Call(1, a)), Newline>>, <<Call(1, a)>>, FALSE, pol, e, logins, fs, FALSE)
CommandOf(a, e, flag, noLogin, dry) ==
    [host |-> "cli", input |-> <<>>, sent |-> <<>>, broken |-> FALSE, policy |-> Strict, env |-> e,
     logins |-> AllLogins, fs |-> PlainFiles, hangs |-> FALSE, command |-> Message1(0, "probe", a),
     flag |-> flag, noLogin |-> noLogin, dry |-> dry]

----------------------------------------------------------------------------
(* Streams.                                                                *)

\* The ways to write a message, and what is no message.
Styles ==
    {"line", "padded", "last", "framed", "headers", "twice", "split", "full", "long",
     "half", "short", "negative", "cut", "huge", "unclosed"}

Framed(style, m) ==
    CASE style = "line" -> <<Text(m), Newline>>
      [] style = "padded" -> <<Blank, Newline, Newline, Blank, Text(m), Blank, Newline>>
      [] style = "last" -> <<Text(m)>>
      [] style = "framed" -> <<ContentLength(1), Newline, Newline, Text(m)>>
      [] style = "headers" -> <<OtherHeader, Newline, ContentLength(1), Newline, Newline, Text(m), Newline>>
      [] style = "twice" -> <<ContentLength(2), Newline, ContentLength(1), Newline, Newline, Text(m)>>
      [] style = "split" -> <<ContentLength(3), Newline, Newline, Half(1, m), Newline, Half(2, m)>>
      [] style = "full" -> <<ContentLength(4), Newline, Newline, Blank, Newline, Text(m), Newline>>
      [] style = "long" -> <<Blank, Blank, Text(m), Newline>>
      [] style = "half" -> <<Half(1, m), Newline, Half(2, m), Newline>>
      [] style = "short" -> <<ContentLength(0), Newline, Newline, Text(m), Newline>>
      [] style = "negative" -> <<ContentLength(-1), Newline, Newline, Text(m), Newline>>
      [] style = "cut" -> <<OtherHeader, Newline, ContentLength(1), Newline>>
      [] style = "huge" -> <<ContentLength(5), Newline, Newline, Text(m), Blank, Blank, Blank, Blank>>
      [] style = "unclosed" -> <<Blank, Blank, Blank, Text(m), Newline>>

Fine == {"line", "padded", "last", "framed", "headers", "twice", "split", "full", "long"}

Messages(id) ==
    {Message1(id, method, NoArguments) : method \in {"ping", "notifications/initialized", "notifications/cancelled", ""}}
      \cup {Message1(0, "other", NoArguments), Message1(id, "tools/call", NoArguments)}

Frames(id) == {[style |-> style, message |-> m] : style \in Styles, m \in Messages(id)}
\* A last line ends the stream, and nothing that is no message is followed by another.
Followed == Fine \ {"last"}

StreamSession(s) ==
    LET sent == SelectSeq(s, LAMBDA f : f.style \in Fine) IN
    Serve(FlattenSeq([i \in 1 .. Len(s) |-> Framed(s[i].style, s[i].message)]),
          [i \in 1 .. Len(sent) |-> sent[i].message], Len(sent) < Len(s), Strict, {}, Lucky,
          PlainFiles, TRUE)

----------------------------------------------------------------------------
(* Routes.                                                                 *)

Providers ==
    {"absent", "openai", "openrouter", "codex", "grok", "grok-build", "grok-build-messages", "claude",
     "groq", "bedrock", "api.x.ai", "ollama", "vllm", "localhost:9", "::1:0", "127.0.0.1:9@api.x.ai", "mine"}

LocalUrl == Url("http", "127.0.0.1", "9", "/v1")
Urls ==
    {NoUrl, LocalUrl, Url("http", "[::1]", "11434", ""), Url("http", "127.1", "9", "/v1"),
     [XaiUrl EXCEPT !.user = "me"], AnthropicUrl, GroqUrl, OpenaiUrl, GrokBuildUrl,
     Url("https", "eu.anthropic.com", "none", "/v1"), Url("https", "grok", "none", "/v1"),
     Url("https", "bedrock-runtime.eu-west-1.amazonaws.com", "none", ""),
     Url("https", "mine.openai.azure.com", "none", "/v1")}
BadUrls ==
    {BlankUrl, Url("ftp", "127.0.0.1", "9", ""), Url("http", "", "9", ""), Url("http", "::1", "9", ""),
     Url("http", "localhost", "0", ""), Url("http", "localhost", "70000", ""),
     Url("http", "localhost", "x", "")}

Envs ==
    {{}, {"OPENAI_API_KEY"}, {"OPENROUTER_API_KEY", "XAI_API_KEY"}, {"GROK_API_KEY", "ANTHROPIC_API_KEY"},
     {"ANTHROPIC_AUTH_TOKEN", "GROQ_API_KEY"}, Allowlist}

Policies ==
    {Strict, [Strict EXCEPT !.allow_base_url = TRUE], [Strict EXCEPT !.url = LocalUrl],
     [Strict EXCEPT !.url = XaiUrl], [Strict EXCEPT !.env = "SERVER_KEY"],
     [Strict EXCEPT !.env = "XAI_API_KEY", !.url = AnthropicUrl]}

RouteArgs ==
    {[NoArguments EXCEPT !.provider = p, !.url = u] : p \in Providers, u \in Urls}
      \cup {[NoArguments EXCEPT !.provider = p, !.var = v] :
              p \in {"absent", "grok", "ollama"}, v \in {"XAI_API_KEY", "GROQ_API_KEY", "OTHER_VAR", "SERVER_KEY"}}
      \cup {[NoArguments EXCEPT !.url = u] : u \in BadUrls}
      \cup {[NoArguments EXCEPT !.provider = p] : p \in {"blank", "number", "control"}}

----------------------------------------------------------------------------
(* Arguments and caches.                                                   *)

Words == {"absent", "true", "false", "bad"}
OtherArgs ==
    {[NoArguments EXCEPT !.provider = "ollama", !.suite = s, !.cheap = c, !.full = f, !.force = b] :
        s \in {"absent", "policy", "cheap", "full", "all", "bad"}, c \in Words, f \in Words,
        b \in {"absent", "true"}}
      \cup {[NoArguments EXCEPT !.provider = "ollama", !.model = m, !.adv = n, !.vision = v, !.tools = t,
                                !.force = b] :
              m \in {"m", "absent", "blank", "control"}, n \in {"absent", "ok", "bad"}, v \in Words,
              t \in {"absent", "list", "bad"}, b \in {"absent", "bad"}}

Link(names) == [absolute |-> TRUE, names |-> names]
Near(names) == [absolute |-> FALSE, names |-> names]
LinkedFiles ==
    {PlainFiles,
     [exists |-> PlainFiles.exists \cup {<<"data">>, <<"data", "sub">>},
      target |-> (<<"home", "canact", "out">> :> Near(<<"..", "notes">>))
                   @@ (<<"home", "canact", "deep">> :> Link(<<"data", "sub">>))
                   @@ (<<"home", "canact", "loop">> :> Near(<<"loop">>))
                   @@ (<<"home", "canact", "new">> :> Near(<<"fresh", "file">>))
                   @@ (<<"data", "back">> :> Link(CacheDir))],
     [exists |-> {<<"home">>, <<"data">>, <<"data", "sub">>},
      target |-> (CacheDir :> Link(<<"data", "sub">>)) @@ (<<"data", "sub", "up">> :> Near(<<"..">>))]}

CacheArgs ==
    {DefaultCacheFile} \cup {CacheDir \o tail : tail \in
        {<<"out", "f">>, <<"out", "..", "f">>, <<"deep", "..", "back", "f">>, <<"deep", "..", "f">>,
         <<"loop">>, <<"new">>, <<"..", "f">>, <<"..", "..", "..", "home", "canact", "f">>,
         <<".", "gone", "..", "f">>, <<"gone", "..", "..", "f">>, <<"up", "sub", "f">>, <<"up", "f">>,
         <<"deep", "f">>}}
      \cup {<<"data", "back", "f">>, <<"data", "sub", "f">>}

\* The commands alone.
OnlyCommands == {"command"}

MCKinds == {"nothing", "message", "messages", "more messages", "route", "command", "arguments",
            "other command", "cache"}
MCSessionsOf(kind) ==
    CASE kind = "nothing" -> {StreamSession(<<>>)}
      [] kind = "message" -> {StreamSession(<<f>>) : f \in Frames(1)}
      [] kind = "messages" ->
           {StreamSession(<<f, g>>) : f \in {h \in Frames(1) : h.style \in Followed}, g \in Frames(2)}
      [] kind = "more messages" ->
           {StreamSession(<<f, g, [style |-> style, message |-> Message1(3, "initialize", NoArguments)]>>) :
              f \in {h \in Frames(1) : h.style \in Followed},
              g \in {h \in Frames(2) : h.style \in Followed /\ h.message.method = "tools/call"},
              style \in {"line", "split"}}
      [] kind = "route" ->
           {ServeCall(a, pol, e, AllLogins, PlainFiles) : a \in RouteArgs, pol \in Policies, e \in Envs}
      [] kind = "command" ->
           {CommandOf(a, e, flag, noLogin, dry) :
              a \in {b \in RouteArgs : b.var = "none" /\ b.provider # "number"}, e \in Envs,
              flag \in {"none", "flag"}, noLogin \in BOOLEAN, dry \in BOOLEAN}
      [] kind = "arguments" -> {ServeCall(a, Strict, {}, Lucky, PlainFiles) : a \in OtherArgs}
      [] kind = "other command" ->
           {CommandOf(a, {}, "none", TRUE, dry) :
              a \in {b \in OtherArgs : {b.cheap, b.full, b.vision, b.force, b.adv} \cap {"bad", "false"} = {}
                                          /\ {b.cheap, b.full} # {"true"}},
              dry \in BOOLEAN}
      [] kind = "cache" ->
           {ServeCall([NoArguments EXCEPT !.provider = "ollama", !.cache = c],
                      [Strict EXCEPT !.allow_cache = allow], {}, Lucky, fs) :
              c \in CacheArgs, allow \in BOOLEAN, fs \in LinkedFiles}
=============================================================================
