--------------------------- MODULE MCProbeCommand ---------------------------
(* An instance of ProbeCommand for TLC: a family with two labels and one     *)
(* with its own, one model name with and without prefix, two windows.        *)
EXTENDS ProbeCommand, TLC

CONSTANTS p1, p2

TwoProcs == {p1, p2}
MCLabels == {"openai", "api.openai.com", "ollama"}
MCFamily == [label \in MCLabels |-> IF label = "ollama" THEN "ollama" ELSE "openai"]
OneName == {"m"}

Bare == [prefix |-> {}, name |-> "m"]
Prefixed == [prefix |-> {"openai"}, name |-> "m"]

\* canact probe m: a policy card, nothing else said.
Plain == [host |-> "cli", model |-> Bare, label |-> "openai", suite |-> "policy", ctx |-> 0,
          vision |-> "unset", tools |-> "builtin", force |-> FALSE, named |-> TRUE,
          keyed |-> TRUE]

MCRequests ==
    {Plain,
     [Plain EXCEPT !.force = TRUE],
     [Plain EXCEPT !.named = FALSE, !.label = "ollama"],
     [Plain EXCEPT !.host = "mcp", !.model = Prefixed, !.label = "api.openai.com"],
     [Plain EXCEPT !.suite = "full", !.ctx = 1],
     [Plain EXCEPT !.host = "mcp", !.ctx = 1, !.vision = "no"],
     [Plain EXCEPT !.vision = "yes", !.keyed = FALSE],
     [Plain EXCEPT !.tools = "digest", !.ctx = 1, !.keyed = FALSE],
     [Plain EXCEPT !.host = "export", !.ctx = 1],
     [Plain EXCEPT !.host = "export", !.model = Prefixed, !.label = "api.openai.com"]}

MCCatalogs == {[ctx |-> 0, vision |-> "unset"], [ctx |-> 2, vision |-> "yes"]}

Card(suite, ctx, current) ==
    [model |-> Bare, label |-> "openai", suite |-> suite, vision |-> FALSE, ctx |-> ctx,
     tools |-> "builtin", current |-> current]

\* No file; a default policy card a tick old and a full one of the window 2;
\* a card of an older suite version and one with a caller's own tools.
MCOldCaches ==
    {{},
     {[key |-> Card("policy", 0, TRUE), at |-> 1], [key |-> Card("full", 2, TRUE), at |-> 2]},
     {[key |-> Card("full", 1, FALSE), at |-> 2],
      [key |-> [Card("policy", 1, TRUE) EXCEPT !.tools = "digest"], at |-> 2]}}

Symmetry == Permutations(Procs)
=============================================================================
