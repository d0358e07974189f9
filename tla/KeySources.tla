----------------------------- MODULE KeySources -----------------------------
(***************************************************************************)
(* Where the two hosts read a key from: resolve_api_key of                 *)
(* src/bin/canact.rs and load_mcp_route of src/mcp.rs, with the trust      *)
(* flags of the MCP server, and what they say when there is no key.        *)
(*                                                                         *)
(* env is the set of the environment variables that are set and not blank, *)
(* and a key is the name of its variable, "flag" for --api-key, or the     *)
(* stored login it comes from.  logins says what each login store answers: *)
(* a token, none, or a refresh that failed.                                *)
(***************************************************************************)
EXTENDS KeyRoute

Allowlist ==    \* MCP_API_KEY_ENV_ALLOWLIST
    {"OPENAI_API_KEY", "OPENROUTER_API_KEY", "XAI_API_KEY", "GROK_API_KEY", "ANTHROPIC_AUTH_TOKEN",
     "ANTHROPIC_API_KEY", "GROQ_API_KEY", "AWS_BEARER_TOKEN_BEDROCK"}

XaiKeys == {"XAI_API_KEY", "GROK_API_KEY", "xai-oauth"}
AnthropicKeys == {"ANTHROPIC_AUTH_TOKEN", "ANTHROPIC_API_KEY", "anthropic-oauth"}

LoginStates == [xai : {"token", "none", "failed"}, anthropic : {"token", "none", "failed"}]

Read(env, var) == IF var \in env THEN var ELSE "none"

XaiEnvKey(env) == FirstPresent(<<Read(env, "XAI_API_KEY"), Read(env, "GROK_API_KEY")>>)
AnthropicEnvKey(env) ==
    FirstPresent(<<Read(env, "ANTHROPIC_AUTH_TOKEN"), Read(env, "ANTHROPIC_API_KEY")>>)

\* The variable that a Groq or Bedrock label reads, and no other label.
LabelKey(env, p) ==
    IF p \in GroqLabels THEN Read(env, "GROQ_API_KEY")
    ELSE IF p \in BedrockLabels THEN Read(env, "AWS_BEARER_TOKEN_BEDROCK")
    ELSE "none"

\* The xAI and Anthropic keys, from the environment or, unless they are to be
\* skipped, from the stored logins; the first store that fails is the answer.
\* own is the caller's own key.
VendorKeys(env, logins, own, p, explicit, skip) ==
    LET xaiEnv == XaiEnvKey(env)
        others == {Read(env, "OPENAI_API_KEY"), Read(env, "OPENROUTER_API_KEY"), own} \ {"none"}
        asksXai == xaiEnv = "none" /\ ~skip /\ ShouldLoadXaiOauth(p, others # {}, explicit)
        xai == IF asksXai /\ logins.xai = "token" THEN "xai-oauth" ELSE xaiEnv
        failed == asksXai /\ logins.xai = "failed"
        anthropicEnv == AnthropicEnvKey(env)
        asksClaude ==
            /\ ~failed /\ anthropicEnv = "none" /\ ~skip
            /\ ShouldLoadClaudeLogin(p, others # {} \/ xai # "none", explicit)
    IN  [ok |-> ~failed /\ ~(asksClaude /\ logins.anthropic = "failed"),
         xai |-> xai,
         anthropic |-> IF asksClaude /\ logins.anthropic = "token" THEN "anthropic-oauth" ELSE anthropicEnv,
         read |-> (IF asksXai THEN {"xai"} ELSE {}) \cup (IF asksClaude THEN {"anthropic"} ELSE {})]

Loaded(keys, route) == [ok |-> keys.ok, route |-> route, read |-> keys.read]
NoKeys == [ok |-> TRUE, xai |-> "none", anthropic |-> "none", read |-> {}]

\* resolve_api_key of the command line; flag is "flag" or "none".
LoadCliRoute(env, logins, flag, p, explicit, noLogin) ==
    IF p \in GroqLabels \cup BedrockLabels
    THEN Loaded(NoKeys, ResolveApiKeyFrom(FirstPresent(<<flag, LabelKey(env, p)>>),
                                          "none", "none", "none", "none", p))
    ELSE LET keys == VendorKeys(env, logins, flag, p, explicit, noLogin) IN
         Loaded(keys, ResolveApiKeyFrom(flag, Read(env, "OPENAI_API_KEY"), Read(env, "OPENROUTER_API_KEY"),
                                        keys.xai, keys.anthropic, p))

----------------------------------------------------------------------------
(* The MCP server's flags.                                                 *)

\* enforce_mcp_tool_policy on the variable: the pinned one, or one of the list.
EnvPermitted(tool, policy) ==
    IF policy.env # "none" THEN tool \in {"none", policy.env} ELSE tool \in Allowlist \cup {"none"}

EffectiveEnv(tool, policy) == IF policy.env # "none" THEN policy.env ELSE tool

\* ... and on the base URL.
UrlPermitted(tool, policy) ==
    \/ tool = NoUrl
    \/ policy.url # NoUrl /\ tool = policy.url
    \/ policy.url = NoUrl /\ (policy.allow_base_url \/ ToolUrlIsLoopback(tool))

EffectiveUrl(tool, policy) == IF tool = NoUrl THEN policy.url ELSE tool
ToolSupplied(tool, policy) == policy.url = NoUrl /\ tool # NoUrl

\* The variable's key, whatever the provider.  A name not on the list is read
\* only when the server pinned it.
NamedKey(env, var, policy) ==
    IF var \in Allowlist \/ policy.env = var THEN Read(env, var) ELSE "none"

FamilyOf(var) ==
    CASE var = "OPENROUTER_API_KEY" -> "openrouter"
      [] var \in XaiKeys -> "xai"
      [] var \in AnthropicKeys -> "anthropic"
      [] OTHER -> "none"

\* A slip: a named variable that is empty falls back on the route's own keys.
LoadMcpRouteFallsBack(env, logins, var, p, toolUrl, humanUrl, policy) ==
    LET keys == VendorKeys(env, logins, LabelKey(env, p), p, humanUrl, toolUrl) IN
    IF var # "none" /\ NamedKey(env, var, policy) # "none"
    THEN Loaded(NoKeys, Route(NamedKey(env, var, policy), FamilyOf(var)))
    ELSE Loaded(keys, ResolveApiKeyFrom(LabelKey(env, p), Read(env, "OPENAI_API_KEY"),
                          Read(env, "OPENROUTER_API_KEY"), keys.xai, keys.anthropic, p))

\* load_mcp_route: a named variable is the only key, and it, like a base the
\* tool brought, leaves the stored logins alone.
LoadMcpRoute(env, logins, var, p, toolUrl, humanUrl, policy) ==
    IF var # "none"
    THEN Loaded(NoKeys, Route(NamedKey(env, var, policy), FamilyOf(var)))
    ELSE LET keys == VendorKeys(env, logins, LabelKey(env, p), p, humanUrl, toolUrl) IN
         Loaded(keys, ResolveApiKeyFrom(LabelKey(env, p), Read(env, "OPENAI_API_KEY"),
                          Read(env, "OPENROUTER_API_KEY"), keys.xai, keys.anthropic, p))

----------------------------------------------------------------------------
(* What is said when there is no key: the variables that the text names.   *)

EveryCloud ==
    {"OPENAI_API_KEY", "OPENROUTER_API_KEY", "XAI_API_KEY", "ANTHROPIC_AUTH_TOKEN", "ANTHROPIC_API_KEY"}

\* missing_cloud_key_message of the command line.
CliAdvice(p, u) ==
    IF UsesXaiCredentials(p) \/ UrlHost(u) \in XaiHosts \cup GrokHosts THEN {"XAI_API_KEY"}
    ELSE IF p \in AnthropicLabels \/ UrlHost(u) \in AnthropicHosts
    THEN {"ANTHROPIC_AUTH_TOKEN", "ANTHROPIC_API_KEY"}
    ELSE IF p \in GroqLabels \/ UrlHost(u) \in GroqHosts THEN {"GROQ_API_KEY"}
    ELSE IF p \in BedrockLabels \/ UrlHost(u) \in BedrockHosts THEN {"AWS_BEARER_TOKEN_BEDROCK"}
    ELSE IF OpenrouterDefaultOk(p) /\ p # "" THEN {"OPENROUTER_API_KEY", "OPENAI_API_KEY"}
    ELSE IF p \in {"openai", "api.openai.com"} \/ UrlHost(u) \in OpenaiHosts
    THEN {"OPENAI_API_KEY"}
    ELSE EveryCloud

\* mcp_refusal_key_error of the server; var is the variable in effect.
McpAdvice(var, p) ==
    IF var # "none" THEN {var}
    ELSE IF UsesXaiCredentials(p) THEN {"XAI_API_KEY"}
    ELSE IF p \in AnthropicLabels THEN {"ANTHROPIC_AUTH_TOKEN", "ANTHROPIC_API_KEY"}
    ELSE IF p \in GroqLabels THEN {"GROQ_API_KEY"}
    ELSE IF p \in BedrockLabels THEN {"AWS_BEARER_TOKEN_BEDROCK"}
    ELSE IF p \in CodexLabels THEN {"OPENAI_API_KEY"}
    ELSE IF OpenrouterDefaultOk(p) /\ p # "" THEN {"OPENROUTER_API_KEY", "OPENAI_API_KEY"}
    ELSE IF p \in {"openai", "api.openai.com", ""} THEN {"OPENAI_API_KEY"}
    ELSE EveryCloud
=============================================================================
