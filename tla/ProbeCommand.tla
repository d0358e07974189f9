---------------------------- MODULE ProbeCommand ----------------------------
(***************************************************************************)
(* One canact command from its arguments to what it prints: run_probe and  *)
(* run_export of src/bin/canact.rs and the probe_model tool of src/mcp.rs. *)
(*                                                                         *)
(* A probe command loads the cache once, looks a card up, asks the         *)
(* provider's catalog, looks again with what the catalog said, and only    *)
(* then asks the model; a run worth storing is merged into the file.       *)
(* Several commands may be under way on one file.  A save is one step here *)
(* (ProbeCache has its parts), and a run is its outcome (ProbeSuite).      *)
(***************************************************************************)
EXTENDS CacheLookup

CONSTANTS
    Procs,          \* processes that run commands
    Requests,       \* the commands they may be given
    Catalogs,       \* what the catalog may say; [ctx |-> 0, vision |-> "unset"] when it fails
    OldCaches,      \* what the file may hold at first
    StartTime,      \* the clock when the first command starts
    MaxTime,        \* bound on the clock
    MaxCommands     \* bound on commands

ASSUME CommandAssumption ==
    /\ Requests # {}
    /\ Requests \subseteq
          [host : {"cli", "mcp", "export"}, model : Models, label : Labels, suite : Tiers,
           ctx : Nat, vision : {"yes", "no", "unset"}, tools : STRING,
           force : BOOLEAN, named : BOOLEAN, keyed : BOOLEAN]
    /\ Catalogs \subseteq [ctx : Nat, vision : {"yes", "no", "unset"}]
    /\ \A rows \in OldCaches :
          /\ rows \subseteq CacheRows /\ IsFiniteSet(rows)
          /\ \A r, s \in rows : r.key = s.key => r = s
    /\ StartTime \in Nat /\ MaxTime \in Nat /\ MaxCommands \in Nat

VARIABLES
    now,        \* unix_now
    disk,       \* the rows of the file
    commands,   \* commands started so far
    pc,         \* where each process's command stands
    req,        \* its arguments
    mem,        \* the rows it has loaded
    hints,      \* what resolve_host_catalog returned
    worth,      \* its run's cacheable flag
    printed,    \* what it prints
    stored,     \* runs that a persist has reported stored, as they were asked
    due         \* those already stored when the process loaded the file

vars == <<now, disk, commands, pc, req, mem, hints, worth, printed, stored, due>>

Unhinted == [ctx |-> 0, vision |-> "unset"]
NoRequest == CHOOSE r \in Requests : TRUE
Silent == [from |-> "nothing", row |-> {}, suite |-> "policy", ctx |-> 0, at |-> 0]

Init ==
    /\ now = StartTime
    /\ disk \in OldCaches
    /\ commands = 0
    /\ pc = [p \in Procs |-> "off"]
    /\ req = [p \in Procs |-> NoRequest]
    /\ mem = [p \in Procs |-> {}]
    /\ hints = [p \in Procs |-> Unhinted]
    /\ worth = [p \in Procs |-> FALSE]
    /\ printed = [p \in Procs |-> Silent]
    /\ stored = {}
    /\ due = [p \in Procs |-> {}]

----------------------------------------------------------------------------
(* What a command looks up.                                                *)

\* The key of the card that request r asks for.
Ask(r, vision, ctx) ==
    [model |-> r.model, label |-> r.label, suite |-> r.suite, vision |-> vision,
     ctx |-> ctx, tools |-> r.tools, current |-> TRUE]

\* A slip: the fallback is open to every tier.
CachedProbeAnyTier(cache, q, t) ==
    LET same == GetWithSuiteTools(cache, q, t) IN
    IF same # {} \/ q.tools # "builtin" \/ q.vision
    THEN {[row |-> r, suite |-> q.suite, ctx |-> q.ctx] : r \in same}
    ELSE {[row |-> a.row, suite |-> a.suite, ctx |-> q.ctx] :
            a \in FindWithCostAndAdvertised(cache, q, t)}

\* cached_probe: the same knobs, or for a policy card without vision any tier
\* that was measured under the same window.
CachedProbe(cache, q, t) ==
    LET same == GetWithSuiteTools(cache, q, t) IN
    IF same # {} \/ q.tools # "builtin" \/ q.suite # "policy" \/ q.vision
    THEN {[row |-> r, suite |-> q.suite, ctx |-> q.ctx] : r \in same}
    ELSE {[row |-> a.row, suite |-> a.suite, ctx |-> q.ctx] :
            a \in FindWithCostAndAdvertised(cache, q, t)}

\* The command left the catalog's knobs open: any of them will do.
Unspecified(cache, r, t) ==
    IF r.tools = "builtin" /\ r.vision = "unset" /\ r.ctx = 0
    THEN {[row |-> row, suite |-> r.suite, ctx |-> row.key.ctx] :
            row \in FindUnspecifiedCatalog(cache, Ask(r, FALSE, 0), t)}
    ELSE {}

\* The first lookup.  The command line tries the open knobs before the asked
\* ones, the tool after them.
FirstAnswers(cache, r, t) ==
    LET q == Ask(r, r.vision = "yes", r.ctx)
        open == Unspecified(cache, r, t)
        same == GetWithSuiteTools(cache, q, t) IN
    IF open # {} /\ (r.host = "cli" \/ same = {}) THEN open ELSE CachedProbe(cache, q, t)

\* resolve_host_catalog's merge: a flag wins over the catalog.
Merged(r, catalog) ==
    [ctx    |-> IF r.ctx # 0 THEN r.ctx ELSE catalog.ctx,
     vision |-> IF r.vision # "unset" THEN r.vision ELSE catalog.vision]

HintedAsk(p) == Ask(req[p], hints[p].vision = "yes", hints[p].ctx)

FromCache(answer) ==
    [from |-> "cache", row |-> {answer.row}, suite |-> answer.suite, ctx |-> answer.ctx,
     at |-> now]

----------------------------------------------------------------------------
(* The steps of a command.                                                 *)

\* A command starts: its arguments are accepted and it loads the cache.
Start(p) ==
    /\ pc[p] = "off" /\ commands < MaxCommands
    /\ commands' = commands + 1
    /\ \E r \in Requests :
        /\ req' = [req EXCEPT ![p] = r]
        /\ pc' = [pc EXCEPT ![p] = IF r.host = "export" THEN "exporting" ELSE "looking"]
    /\ mem' = [mem EXCEPT ![p] = disk]
    /\ due' = [due EXCEPT ![p] = stored]
    /\ UNCHANGED <<now, disk, hints, worth, printed, stored>>

Emit(p, what) ==
    /\ printed' = [printed EXCEPT ![p] = what]
    /\ pc' = [pc EXCEPT ![p] = "done"]

\* The lookup before any network call; without an answer a cloud host needs a
\* key to go on.
FirstLookup(p) ==
    LET answers == IF req[p].force \/ ~req[p].named THEN {}
                   ELSE FirstAnswers(mem[p], req[p], now) IN
    /\ pc[p] = "looking"
    /\ IF answers # {} THEN \E a \in answers : Emit(p, FromCache(a))
       ELSE IF ~req[p].keyed THEN Emit(p, [Silent EXCEPT !.from = "error"])
       ELSE pc' = [pc EXCEPT ![p] = "catalog"] /\ UNCHANGED printed
    /\ UNCHANGED <<now, disk, commands, req, mem, hints, worth, stored, due>>

\* resolve_model, which without --model needs a server that lists one model,
\* and resolve_host_catalog.
AskCatalog(p) ==
    /\ pc[p] = "catalog"
    /\ \/ /\ \E catalog \in Catalogs : hints' = [hints EXCEPT ![p] = Merged(req[p], catalog)]
          /\ pc' = [pc EXCEPT ![p] = "hinted"]
          /\ UNCHANGED printed
       \/ /\ ~req[p].named /\ Emit(p, [Silent EXCEPT !.from = "error"])
          /\ UNCHANGED hints
    /\ UNCHANGED <<now, disk, commands, req, mem, worth, stored, due>>

\* The lookup with the catalog's knobs.
SecondLookup(p) ==
    LET answers == IF req[p].force THEN {} ELSE CachedProbe(mem[p], HintedAsk(p), now) IN
    /\ pc[p] = "hinted"
    /\ IF answers # {} THEN \E a \in answers : Emit(p, FromCache(a))
       ELSE pc' = [pc EXCEPT ![p] = "running"] /\ UNCHANGED printed
    /\ UNCHANGED <<now, disk, commands, req, mem, hints, worth, stored, due>>

\* run_detailed returns: an error ends the command, a profile may be worth
\* storing.
RunSuite(p) ==
    /\ pc[p] = "running"
    /\ \/ /\ Emit(p, [Silent EXCEPT !.from = "error"])
          /\ UNCHANGED worth
       \/ /\ \E w \in BOOLEAN : worth' = [worth EXCEPT ![p] = w]
          /\ pc' = [pc EXCEPT ![p] = "ran"]
          /\ UNCHANGED printed
    /\ UNCHANGED <<now, disk, commands, req, mem, hints, stored, due>>

\* A slip: rows of one key are both kept.
SavedBoth(ours, theirs) == ours \cup theirs

\* put_with_suite_tools: a key has one row.
Put(cache, row) == {r \in cache : r.key # row.key} \cup {row}

\* save: of two rows of a key the later one stays, ours at a tie.
Saved(ours, theirs) ==
    {r \in ours : \A s \in theirs : s.key = r.key => s.at <= r.at}
    \cup {s \in theirs : \A r \in ours : r.key = s.key => s.at > r.at}

RunEnvelope(p) ==
    [from |-> "run", row |-> {}, suite |-> req[p].suite, ctx |-> hints[p].ctx, at |-> now]

\* A slip: the row is keyed by the flags, not by what the run was made with.
PersistUnderFlags(p) ==
    LET row == [key |-> Ask(req[p], req[p].vision = "yes", req[p].ctx), at |-> now] IN
    /\ pc[p] = "ran"
    /\ \/ /\ worth[p]
          /\ mem' = [mem EXCEPT ![p] = Put(@, row)]
          /\ disk' = Saved(mem'[p], disk)
          /\ stored' = stored \cup {[req |-> req[p], hints |-> hints[p], at |-> now]}
       \/ ~worth[p] /\ UNCHANGED <<mem, disk, stored>>
    /\ Emit(p, RunEnvelope(p))
    /\ UNCHANGED <<now, commands, req, hints, worth, due>>

\* ProbeRun::persist and the print.  A save that fails is a warning.
Persist(p) ==
    LET row == [key |-> HintedAsk(p), at |-> now] IN
    /\ pc[p] = "ran"
    /\ \/ /\ worth[p]
          /\ mem' = [mem EXCEPT ![p] = Put(@, row)]
          /\ disk' = Saved(mem'[p], disk)
          /\ stored' = stored \cup {[req |-> req[p], hints |-> hints[p], at |-> now]}
       \/ worth[p] /\ mem' = [mem EXCEPT ![p] = Put(@, row)] /\ UNCHANGED <<disk, stored>>
       \/ ~worth[p] /\ UNCHANGED <<mem, disk, stored>>
    /\ Emit(p, RunEnvelope(p))
    /\ UNCHANGED <<now, commands, req, hints, worth, due>>

\* A slip: the window falls back before the row does.
ExportAnyWindow(p) ==
    LET q == Ask(req[p], FALSE, req[p].ctx)
        rows == FindAndAdvertised(mem[p], q, now) IN
    /\ pc[p] = "exporting"
    /\ IF rows = {}
       THEN Emit(p, [Silent EXCEPT !.from = IF StaleSuite(mem[p], q, now) THEN "stale"
                                             ELSE "error"])
       ELSE \E r \in rows :
              Emit(p, [from |-> "export", row |-> {r}, suite |-> r.key.suite,
                        ctx |-> IF q.ctx # 0 THEN q.ctx ELSE r.key.ctx, at |-> now])
    /\ UNCHANGED <<now, disk, commands, req, mem, hints, worth, stored, due>>

\* run_export: the row measured under the window that was given, or else the
\* newest row of the card; the overlay's window is the given one, or the row's.
Export(p) ==
    LET q == Ask(req[p], FALSE, req[p].ctx)
        given == IF q.ctx = 0 THEN {}
                 ELSE {a.row : a \in FindWithCostAndAdvertised(mem[p], q, now)}
        rows == IF given # {} THEN given ELSE FindAndAdvertised(mem[p], q, now) IN
    /\ pc[p] = "exporting"
    /\ IF rows = {}
       THEN Emit(p, [Silent EXCEPT !.from = IF StaleSuite(mem[p], q, now) THEN "stale"
                                             ELSE "error"])
       ELSE \E r \in rows :
              Emit(p, [from |-> "export", row |-> {r}, suite |-> r.key.suite,
                        ctx |-> IF q.ctx # 0 THEN q.ctx ELSE r.key.ctx, at |-> now])
    /\ UNCHANGED <<now, disk, commands, req, mem, hints, worth, stored, due>>

\* The process is over, or is killed on the way.
Exit(p) ==
    /\ pc[p] # "off"
    /\ pc' = [pc EXCEPT ![p] = "off"]
    /\ req' = [req EXCEPT ![p] = NoRequest]
    /\ mem' = [mem EXCEPT ![p] = {}]
    /\ hints' = [hints EXCEPT ![p] = Unhinted]
    /\ worth' = [worth EXCEPT ![p] = FALSE]
    /\ printed' = [printed EXCEPT ![p] = Silent]
    /\ due' = [due EXCEPT ![p] = {}]
    /\ UNCHANGED <<now, disk, commands, stored>>

Tick ==
    /\ now < StartTime + MaxTime
    /\ now' = now + 1
    /\ UNCHANGED <<disk, commands, pc, req, mem, hints, worth, printed, stored, due>>

Next ==
    \/ \E p \in Procs :
        \/ Start(p) \/ FirstLookup(p) \/ AskCatalog(p) \/ SecondLookup(p)
        \/ RunSuite(p) \/ Persist(p) \/ Export(p) \/ Exit(p)
    \/ Tick

Spec == Init /\ [][Next]_vars

----------------------------------------------------------------------------
(* Properties.                                                             *)

Hints == [ctx : Nat, vision : {"yes", "no", "unset"}]
Runs == [req : Requests, hints : Hints, at : Nat]

\* Every variable keeps to the values a command can give it, and a cache has
\* one row for a key.
TypeOK ==
    /\ now \in StartTime..(StartTime + MaxTime)
    /\ disk \in SUBSET CacheRows
    /\ mem \in [Procs -> SUBSET CacheRows]
    /\ \A cache \in {disk} \cup {mem[p] : p \in Procs} :
          \A r, s \in cache : r.key = s.key => r = s
    /\ commands \in 0..MaxCommands
    /\ pc \in [Procs -> {"off", "looking", "exporting", "catalog", "hinted", "running",
                        "ran", "done"}]
    /\ req \in [Procs -> Requests]
    /\ hints \in [Procs -> Hints]
    /\ worth \in [Procs -> BOOLEAN]
    /\ printed \in [Procs -> [from : {"nothing", "cache", "run", "export", "stale", "error"},
                             row : SUBSET CacheRows, suite : Tiers, ctx : Nat, at : Nat]]
    /\ stored \in SUBSET Runs
    /\ due \in [Procs -> SUBSET stored]

\* The provider labels are of one family and the names are one, whatever
\* prefix of that family they are written with.
OneCard(k, r) ==
    /\ Family[k.label] = Family[r.label]
    /\ k.model.name = r.model.name
    /\ k.model.prefix # r.model.prefix =>
          \A prefix \in k.model.prefix \cup r.model.prefix :
              Family[prefix] = Family[k.label]

\* What a probe prints from the cache is a card it could have been measured
\* as: never with --force, not expired at that moment, of this suite version,
\* of the same model, with the same tools, under the window that the flags or
\* the catalog gave, with vision when it was asked for, and of the tier asked
\* unless that was the smallest.
AnswersFit ==
    \A p \in Procs : printed[p].from = "cache" =>
        LET r == req[p] IN
        /\ ~r.force
        /\ \A row \in printed[p].row :
              /\ Valid(row, printed[p].at) /\ row.key.current /\ OneCard(row.key, r)
              /\ row.key.tools = r.tools
              /\ row.key.suite = r.suite \/ r.suite = "policy"
              /\ \A ctx \in {r.ctx, hints[p].ctx} \ {0} : row.key.ctx = ctx
              /\ "yes" \in {r.vision, hints[p].vision} => row.key.vision

\* The suite and the window that a hit prints are those its row was measured
\* with, whichever of the lookups found it.
EnvelopeTellsTheRow ==
    \A p \in Procs : printed[p].from = "cache" =>
        \A row \in printed[p].row :
            printed[p].suite = row.key.suite /\ printed[p].ctx = row.key.ctx

\* A card from the cache is one the caller may be given, and says what it is.
CardsAreTrue == AnswersFit /\ EnvelopeTellsTheRow

\* The command asks again for the card of a stored run.
Repeats(p, d) ==
    LET r == req[p] IN
    /\ ~r.force /\ r.host # "export"
    /\ r.model = d.req.model /\ r.label = d.req.label
    /\ r.suite = d.req.suite /\ r.tools = d.req.tools

Open(r) == r.named /\ r.tools = "builtin" /\ r.ctx = 0 /\ r.vision = "unset"

\* A run that was stored before the cache was loaded is not paid for twice
\* while it is valid: a command that left the knobs open makes no request at
\* all ("without another catalog round trip", cache.rs), and one whose knobs
\* come out the same asks the catalog and not the model.  On the command line
\* the open answer is that run or a later one, also after --force.
RepeatsReuseTheRun ==
    \A p \in Procs : \A d \in due[p] :
        Repeats(p, d) /\ Valid(d, now) =>
            /\ Open(req[p]) => pc[p] \in {"looking", "done"}
            /\ pc[p] = "running" =>
                  \/ hints[p].ctx # d.hints.ctx
                  \/ (hints[p].vision = "yes") # (d.hints.vision = "yes")
            /\ Open(req[p]) /\ req[p].host = "cli" =>
                  \A row \in printed[p].row : row.at >= d.at

\* README: "Overlay windows are the advertised context stored on the cache
\* row, or the value passed to --advertised-context."  The overlay is of a
\* valid row of the card, measured with the built-in tools; and when a window
\* was passed and a row was measured under it, the overlay is of such a row.
OverlayWindow ==
    \A p \in Procs : printed[p].from = "export" =>
        LET r == req[p]
            Usable(row) == /\ Valid(row, printed[p].at) /\ row.key.current
                           /\ row.key.tools = "builtin" IN
        \A row \in printed[p].row :
            /\ Usable(row) /\ OneCard(row.key, r)
            /\ printed[p].ctx = IF r.ctx # 0 THEN r.ctx ELSE row.key.ctx
            /\ (\E s \in mem[p] : Usable(s) /\ SameCard(s.key, r) /\ s.key.ctx = r.ctx)
                  => r.ctx \in {0, row.key.ctx}
=============================================================================
