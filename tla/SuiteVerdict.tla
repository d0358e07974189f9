---------------------------- MODULE SuiteVerdict ----------------------------
(***************************************************************************)
(* What a probe run promises its caller, whatever its phases, permits and  *)
(* interleavings: one call of run_detailed turns the model's answers into  *)
(* one verdict.  The verdict is the first answer, in taking order, that    *)
(* aborts; without one it is a profile that covers every call, and the     *)
(* profile may be stored when every answer in it is final.                 *)
(***************************************************************************)
EXTENDS ProbeErrors, Sequences

CONSTANTS
    Calls,      \* everything a run may ask the model
    Order,      \* the calls in the order their results are taken
    MaxRuns     \* bound on the runs

VARIABLES
    busy,       \* a run is on
    answer,     \* the answers the last verdict was made from
    verdict,    \* the error returned, "none" for a profile
    runs,       \* runs begun
    lastRun,    \* the last profile
    stored      \* the profile last written to the cache

vars == <<busy, answer, verdict, runs, lastRun, stored>>

NoAnswer == [kind |-> "None", level |-> "none", says |-> {}]
Unasked == [c \in Calls |-> NoAnswer]
NoRun == [run |-> 0, cacheable |-> FALSE, answer |-> Unasked]

\* Native tool calls measured Strong make the XML probe pointless: its row
\* is inferred and it is the only call a profile may leave unasked.
Inferred(c, a) ==
    /\ c = "xml_tool_calling"
    /\ ResolvedRow("tool_calling", a["tool_calling"]).level = "Strong"

\* An answer that may stand for 30 days.
FinalAnswer(c, a) ==
    CASE c = "ladder" -> LadderCacheable(a)
      [] c = "max_output_tokens" -> MaxOutputCacheable(a)
      [] OTHER -> ResolvesCacheable(c, a)

Aborting(a) == {i \in DOMAIN Order : Aborts(a[Order[i]])}

Init ==
    /\ busy = FALSE /\ answer = Unasked /\ verdict = "none"
    /\ runs = 0 /\ lastRun = NoRun /\ stored = NoRun

BeginRun ==
    /\ ~busy /\ runs < MaxRuns
    /\ busy' = TRUE /\ runs' = runs + 1
    /\ answer' = Unasked /\ verdict' = "none"
    /\ UNCHANGED <<lastRun, stored>>

RefuseIdentity ==
    /\ ~busy /\ runs < MaxRuns
    /\ runs' = runs + 1 /\ verdict' = "Internal"
    /\ UNCHANGED <<busy, answer, lastRun, stored>>

Abort ==
    /\ busy /\ busy' = FALSE
    /\ answer' \in [Calls -> Answers \cup {NoAnswer}]
    /\ \E i \in Aborting(answer') :
        /\ \A j \in Aborting(answer') : i <= j
        /\ verdict' = answer'[Order[i]].kind
    /\ UNCHANGED <<runs, lastRun, stored>>

Profile ==
    /\ busy /\ busy' = FALSE
    /\ answer' \in [Calls -> Answers \cup {NoAnswer}]
    /\ Aborting(answer') = {}
    /\ \A c \in Calls : Inferred(c, answer') <=> answer'[c] = NoAnswer
    /\ lastRun' = [run |-> runs, answer |-> answer',
                   cacheable |-> \A c \in Calls :
                       Inferred(c, answer') \/ FinalAnswer(c, answer'[c])]
    /\ UNCHANGED <<runs, verdict, stored>>

Store ==
    /\ lastRun.run > 0 /\ lastRun.cacheable
    /\ stored' = lastRun
    /\ UNCHANGED <<busy, answer, verdict, runs, lastRun>>

Next == BeginRun \/ RefuseIdentity \/ Abort \/ Profile \/ Store

Spec == Init /\ [][Next]_vars
=============================================================================
