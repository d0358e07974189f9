--------------------------- MODULE MCMatrixTable ---------------------------
(* An instance of MatrixTable for TLC: every cache of up to three rows of    *)
(* eleven of one name, of two labels of a family and one of another.         *)
EXTENDS MatrixTable, FiniteSetsExt

MCLabels == {"xai", "grok", "ollama"}
MCFamily == [label \in MCLabels |-> IF label = "ollama" THEN "ollama" ELSE "xai"]
OneName == {"m"}

Row(prefix, label, suite, ctx, at) ==
    [key |-> [model |-> [prefix |-> prefix, name |-> "m"], label |-> label, suite |-> suite,
              vision |-> FALSE, ctx |-> ctx, tools |-> "builtin", current |-> TRUE],
     at |-> at]

\* One row for each key, of every tier, some of them about to expire.
MCRows ==
    {Row({}, "xai", "policy", 0, 2), Row({}, "xai", "full", 0, 1),
     Row({}, "xai", "full", 1, 2), Row({"xai"}, "xai", "full", 0, 2),
     Row({"xai"}, "xai", "all", 0, 1), Row({}, "xai", "all", 1, 1),
     Row({}, "grok", "policy", 0, 2), Row({"xai"}, "grok", "full", 0, 1),
     Row({}, "ollama", "full", 0, 2),
     [Row({}, "xai", "all", 2, 2) EXCEPT !.key.current = FALSE],
     [Row({}, "xai", "all", 2, 2) EXCEPT !.key.tools = "digest"]}

MCCaches == UNION {kSubset(k, MCRows) : k \in 0..3}
=============================================================================
