# canact, specified in TLA+

canact asks a language model a fixed set of questions, scores the replies and
prints a capability card that a host uses to choose its policy (how many tools,
which edit format, whether to repair JSON). This directory models it from the
wire to the card: how a probe's reply is read, graded and stored, which key is
sent where, what several processes make of one cache file, and what hosts are
told. TLC checks the models on small instances and TLAPS proves the central
facts for every instance.

## The system

| Part | State | Operations | Talks to |
| --- | --- | --- | --- |
| Probe runner (`src/runner.rs`) | the run's semaphore, the results of each phase, `cacheable`, `last_run` | `run_detailed`, `persist`, builders | the client (concurrent calls), the cache |
| Context ladder, output cap (`src/probes/context_ladder.rs`, `max_output_tokens.rs`) | `best`, `recall_hits`, the rung | the climb, `faithfulness_from_ladder` | the client |
| Errors (`src/error.rs`, `src/probes/mod.rs`) | none | variants, phrase tables, `from_http` | everything |
| Cache (`src/cache.rs`) | the rows of `probes.json`, one copy per process | `load`, two migrations, `put_*`, `save`, lookups, list and matrix views | other processes, through the file only |
| Profile and policy (`src/types.rs`, `matrix.rs`, `report.rs`) | the 20 dimensions of a profile | `measured_level`, `overall`, the envelope, the matrix cells | cache, command line |
| Command line (`src/bin/canact.rs`) | one command | load, look up, ask the catalog, look up, run, persist, print | all of the above |
| MCP server (`src/mcp.rs`) | what is left of its input, the request at hand | a sequential loop of requests in two framings; the `probe_model` tool under the server's pins | routes, cache, runner |
| Adapter (`src/adapters/openai.rs`) | the response being folded | conversations to items, stream events to a response or to chunks, client errors to `ProbeError`, the catalog | the HTTP client (a dependency) |
| Endpoint (`src/endpoint.rs`), credentials (`src/claude_code.rs`) | none | which key and base URL a provider gets | the environment |
| Graders (`src/probes/*.rs`) | none (two hold a short conversation) | a reply's text to a score | the client |
| Overlay export (`src/export/`) | a host's configuration file | write, merge, refuse | the file system |

What is hard in it:

- **Concurrency.** Fifteen probes run in one `join!` under a semaphore of 64 or
  3 permits. Results are looked at only when the whole join is over, in source
  order; the error a caller gets and the `cacheable` flag must not depend on
  timing.
- **Failure.** Every call may be refused, rate-limited, cut short or stopped.
  Some errors end the suite, some become a final score, and some are only the
  weather of the session and must not be stored for 30 days. Which is which is
  decided by the kind and by phrases in the vendor's text.
- **Sharing.** Any number of processes use one file with no lock. A save is a
  read, a merge and an atomic rename. Loads migrate rows and save them. A
  process may die anywhere.
- **Time.** Rows are compared by seconds and live for a TTL.
- **Partial replies.** A reply may be cut, refused, malformed or broken at any
  piece, and the parts of several calls arrive mixed. Each of twenty graders
  guards on its own against taking that for a lack of ability.
- **Trust.** A tool call names a URL, a key variable and a cache path; the
  server's pins, the vendors' hosts, stored logins and links decide together
  what is dialed, with which key, and which file is opened.
- **Agreement.** One card is read by a table, a JSON envelope, a matrix, an exit
  code and two overlays, each by its own code.

Every component, modelled or not, is listed in `PROJECT.json`, with the hazards
above at the lines where they bite.

## Modules

| Module | Models | Used by |
| --- | --- | --- |
| `ProbeErrors` | what a call can answer; what the runner makes of it | `ProbeSuite`, `SuiteVerdict`, `ProbeReplies`, `HostErrors` |
| `ProbeSuite` | `run_detailed`, the ladder, `persist` | `MCProbeSuite`, `ProbeSuiteProofs` |
| `SuiteVerdict` | what a run promises its caller, in four steps | `ProbeSuite` (refinement) |
| `ProbeCache` | the cache file and its processes | `MCProbeCache`, `ProbeCacheProofs` |
| `CacheLookup` | the lookups over a loaded cache, as operators | `MatrixTable`, `ProbeCommand` |
| `MatrixTable` | the walk of `matrix_entries` over the rows | `MCMatrixTable`, `ProbeCommandProofs` |
| `ProbeCommand` | whole commands, several on one file: load, look up, catalog, run, persist, export | `MCProbeCommand`, `ProbeCommandProofs` |
| `ProbeReplies`, `ToolGraders`, `TextGraders`, `JsonScan`, `CodeGraders`, `EditGraders` | scores of whole and partial replies, as operators | `GradeProbe` |
| `GradeProbe` | one probe from its request to its outcome, piece by piece | `MCGradeProbe`, `GradeProbeProofs` |
| `HostPolicy` | what a host is told of a card, as its rows change | `MCHostPolicy`, `HostPolicyProofs` |
| `OverlayFiles` | exports into a user's files | `MCOverlayFiles`, `OverlayFilesProofs` |
| `KeyRoute`, `KeySources` | labels, hosts, URLs and keys; where a key is read from | `CanactHost` |
| `CachePath` | which file the server opens for a tool | `CanactHost` |
| `McpWire` | how the server reads its input | `CanactHost` |
| `CanactHost` | a session of the MCP server or one command, from its arguments to the probe | `MCCanactHost` |
| `HostErrors` | what a failure of the HTTP client becomes, redacted | `ChatAdapter` |
| `ChatAdapter` | the adapter: requests, replies as one answer and as a stream, the catalog | `MCChatAdapter`, `ChatAdapterProofs` |
| `MC...` | instances for TLC | the `.cfg` files |
| `ProbeSuiteProofs`, `ProbeCacheProofs`, `ProbeCommandProofs` (with the table's), `HostPolicyProofs`, `CanactHostProofs`, `OverlayFilesProofs`, `GradeProbeProofs`, `ChatAdapterProofs` | theorems | |

The modules meet where the parts of the program do. `GradeProbe`'s outcome is an
answer of `ProbeErrors`, put through the same `ResolvesCacheable` as
`ProbeSuite`'s, so what a grader refuses is judged as the runner judges it.
`ChatAdapter` feeds its chunks to `ToolGraders`' stream grader and ends in a
`ProbeError` of the same kinds. `ProbeSuite` is one run, of which `ProbeCommand`
keeps only whether it is worth storing; `CanactHost` is what comes before a
command's first lookup and keeps of the rest only that it was reached, and who
was asked with which key. `HostPolicy` reads the rows that a run has stored.

### ProbeErrors and ProbeSuite

An answer is a kind (`Ok`, `Skip` or a `ProbeError` variant), a level and the
set of phrases in the error's text that the code searches for. `"Safety"` is the
`Transient` that `safety_stop_error` builds around the model's refusal, a kind
of its own because `resolve_probe` recognises it. `Internal` stands for `Io`,
`Json` and `Internal`, which no code tells apart here.

`ProbeSuite`'s `phase` is where `run_detailed` stands. `waiting`, `running` and
`permits` are the calls queued at the semaphore, the calls that hold a permit
and the free permits (`gated`). The semaphore is fair and a join first polls its
futures in order, so `Acquire` serves the first call still waiting. `answer`
holds the results; the `Take...` actions are the code after each `join!`, from
`take_probe` to the next await, one step each since nothing runs concurrently
there; `AbortRun` is the `?` of the first result that aborts. The ladder's
rungs are separate steps of one call, because the climb's state outlives a
failing rung. `Finish` builds the `ProbeRun` and stores it in `last_run`.
`Persist` is `ProbeRunner::persist`, which a host may call whenever it likes,
also after a later run has aborted. The constants `Wave1` and `Wave2` are the
two joins; `Join1` and `Join2` are their values in the program.

A vendor's text is abstracted to its phrases: the tool, image and malformed-call
phrases are searched for in the text of every kind of error but a safety stop,
as in the code. So a `Transient` whose text says a model does not support tools
is stored, in the code and here; `StoredRunIsMeasured` counts it as a
statement about the model.

`SuiteVerdict` knows no phases, permits or ladder: a run begins, and later a
single step produces its verdict from all the answers. `ImplementsVerdict` says
that every behaviour of `ProbeSuite`, its answers hidden until the run is over,
is one of `SuiteVerdict`.

### ProbeCache

`disk` and `readable` are the file; `mem[p]` is process p's `ProbeCache` value.
A process is `off`, `migrated` (between `load`'s migration and its save),
`ready`, or `merged` (its temporary file is written, the rename is not). `seen`
and `promised` are history: the file as the save read it, and the latest row of
each key that a save has reported stored. A row is its time, the grader epoch
of one dimension, whether that dimension holds a measurement, and the state of
a tool probe. The epoch 0 is the empty version map, which the code treats as
current. Time is counted in ticks and does not go back.

### CacheLookup, MatrixTable and ProbeCommand

A cache key is a record. Its `ctx` is 0 where the code has `None`, its `tools`
is `"builtin"` where the code has `None` and the digest of a caller's own list
otherwise, and `current` says that the row is of this `PROBE_SUITE_VERSION`.
Effort is the default throughout. A model id is a name and an optional provider
prefix, so that `models_equivalent` compares what it compares in the code:
the ids as they are, or with the prefixes of either label and its family taken
off. Labels that stand for one provider have one `Family`. A lookup is the set
of the rows it may return, because it scans a `HashMap` and several rows may
have the newest second.

`MatrixTable` is the loop of `matrix_entries`: `left` are the rows still to
come, in any order; `best` is the table; the clock may move between two rows.
A line of the table is a label and a model without that label's prefix, as in
the code, so two labels of a family have a line each.

`ProbeCommand`'s `pc[p]` is where `run_probe` (or the `probe_model` tool, or
`run_export`) stands. The command line and the tool try the two parts of the
first lookup in opposite orders, and `FirstAnswers` follows both: the tool
prefers a row under exactly the asked knobs to a newer one under the catalog's.
A run is its outcome here, an error or a profile that is `worth` storing or
not (`ProbeSuite` has the run), and a save is one step (`ProbeCache` has its
parts, its migrations and what goes wrong between them). What one command
leaves for another is therefore exact for commands whose saves do not overlap,
and `lost_update` is what happens otherwise. `Exit` ends a process at any step, by
itself or killed. `printed` is the envelope: the row it came from, the suite
and the window it names, and the time. `stored` and `due` are history.

### The graders and GradeProbe

A reply is a sequence of pieces: a tool call with its arguments whole or not, an
event of a stream, a line, a token or a character, whichever a grader tells
apart. The model says one piece after the other (`Say`) and stops anywhere, for
any reason (`EndProbe`); the probes that go on with a conversation ask again
(`NextTurn`), and the call may fail (`Drop`). `Graded` is the grader with its
two refusals, one before the reply is read and one after its score, in the order
of each probe. Scores are counted in sixtieths, so that the program's halves,
fifths and thirds are integers.

Where the code scans text with its own loops, the module has the scanner
(`Walk`, `Scan`, `SpanEnd`) and beside it what the scanner is for, said without
one (`PlainCode`, `Standalone`, `WellSent`), and the run compares the two over
every short text. `code_text`, `edit_text` and `signature` are such readings of
their own.

### HostPolicy

`rows` is a card. It starts as a run that answers every probe alike, and a later
run may answer one otherwise, a load may reset one, a climb may end elsewhere;
`MaxChanges` bounds how far the card gets from the first, and the proofs do
without that bound. The getters, the envelope, the table, the matrix cells, the
overlays' rows and the exit code are operators over the same rows.

### OverlayFiles

An export looks at the files of its overlay for links, then takes them one by
one: look again, read and merge, empty, fill. It may break off between any two
steps, and a write that does leaves the file empty (`torn`). A settings file is
its lines, because the merge works on lines; the fields under a name are one.
`kept` is history: what the last good export of each model wrote. What the user
has in the files before the first export is any well-formed content
(`UserFilesAssumption`): a settings file has a line of fields at least under each
of its names, and an absent file is an empty one. A loopback host may carry a
port, and two ports stand for all.

### KeyRoute, KeySources, CachePath, McpWire and CanactHost

A URL is its parts and a key is the name of the place it was read from, so that
a property can say where a key came from and where it went. Hosts and labels are
one or two of each kind that the code's suffix tests and lists tell apart. A
path is its names, and the file system a set of paths with links. A stream is
pieces of one byte: a text, half of one, a newline, a blank, a header.

`CanactHost` holds one session: either the server with its whole input, its
pins and its environment, or one command line. `pc` runs from the message to
its arguments, the route (with a second pass after a login was read), the cache
path, the two lookups, the catalog and the suite, to the reply; the reader of
its output may go away. `read` and `dialed` are who was asked for a login and
who was called with which key. The lookups, the catalog and the suite only have
outcomes here.

### HostErrors and ChatAdapter

The vendor of `ChatAdapter` decides on a reply beforehand (its text, calls, how
the parts are ordered and ended, its reason, a failure) and sends event after
event, breaking off where it likes. `fold_events` and the streaming grader read
the same events side by side. A text is words and marks, and "KEY" the run of a
secret, so redaction is modelled by what it cuts, and the phrases that
`src/error.rs` looks for are searched in what redaction has left.

## What the runs check

The larger properties are conjunctions of named parts, each with its comment in
the module.

| Run | Shows | Bounds, and why they are enough |
| --- | --- | --- |
| `suite` | no call or permit is lost; the verdict does not depend on timing; nothing session-local is stored; the ladder's window is under the prior and no rung that fits is left out (`WindowFitsPrior`); `SuiteVerdict` is implemented | one run, two permits, four and three probes: enough for a queue behind the semaphore, two aborting answers in one phase, a transient answer in each of the phases, skipped calls first and last; three suites, priors absent, below the first rung and on the second; one call fails with every kind |
| `suite_twice` | the program's own 18 probes: what the joins and the ladder ask is what was announced (the output cap and the XML probe never are); an aborted second run leaves `last_run` alone; every run ends | one permit, two runs: the interplay of runs needs two, and one permit is the hardest case for ending |
| `cache` | migration sticks, fresh measurements survive, an unraced save takes nothing away | two processes, two keys, each with no row, a row of an old epoch, an old refusal or a row without epochs; two ticks |
| `cache_one` | stored rows stay for the TTL; rows only improve | one process that may die and start again, two keys, three ticks with a TTL of two |
| `command` | `CardsAreTrue`: a hit is a card the command could have been given, and its envelope names the row's suite and window; a stored run is not paid for twice; an overlay's window is the passed one or the row's | two processes, three commands out of ten: policy, full, forced, with own tools, with vision, unnamed, from the tool, two exports; a file with no rows, with rows of two tiers one of which expires, with rows of another suite version and own tools; two catalogs; a TTL of two and one tick. Three commands are enough for one to store, a second to overwrite and a third to look |
| `matrix` | whatever the order, the richest and newest valid row of each group is shown | every cache of up to three of eleven rows (every tier, three labels, prefixes, about to expire, not to be counted): two that compete in a group and one that intervenes or belongs elsewhere |
| `graders` | a cut or refused reply is never stored as a poor score; a further call (`FurtherCallsNeverHurt`), or text after full marks (`MoreNeverHurts`), never hurts; the parallel floor told to hosts is the number of distinct usable paths; echoes of the card show nothing, calls of a stream that arrive mixed count as if each came alone, hello objects count where they stand on their own; comments and strings of Python and Rust are told from code | 21 probes and three readings; replies of three to six pieces out of three to nine, long enough for full marks and one piece more; six paths for five parallel calls. Rust texts are of five characters |
| `policy` | a row that stops being a measurement never offers more; a better answer makes nothing worse; exit 2 is earned by finished rows the envelope lists; table, envelope and matrix agree | cards at most two changes away from a uniform run, in three tiers, with and without vision: two rows are what any getter or cell but `overall` reads (it reads three); three rungs, four catalog windows. All four are proved without the bound |
| `overlay` | rows of other models come through, a refused overlay has written nothing; after a good export there is one row for the model in both files, they agree, and exporting again changes nothing | three exports of three models, two of them one model under two labels; five states of the user's files, with strangers, doubled aliases and broken metadata; links on either overlay; a break anywhere |
| `mcp` | each message is answered once and in order (`AnsweredInOrder`); messages are decoded as sent and no file is opened that the policy forbids (`ReadsRight`); nothing is dialed that the policy forbids, a named key is the only one, a vendor's key goes to that vendor, no cloud without a key; no login is read where the environment has a key of its vendor, no host is asked before the arguments are looked at, and neither for what is wrong at first sight (`NothingInVain`); the advice helps and the dry run is followed | streams of up to three messages in fifteen framings, with limits of four bytes; every pair of 17 labels and 13 URLs, seven URLs that are none and three names that are none, under six pins, six environments and nine states of the logins, from the tool and from the command line; every combination of the suite's arguments; sixteen cache paths over three file systems with links, a loop and a detour |
| `adapter` | calls, text and reason are read as sent, on both ways; thinking is never an answer; a broken reply is never scored and only the host ends a suite; a conversation's texts are sent once; the catalog keeps to the flags; errors are told without the keys and with what they say | replies of up to three calls, in sequence or in parallel, with names and arguments in parts, ended each, once or never, indexes used again; tags cut in two; every class of error with ten phrases between seven carriers of a key; lists of up to two rows; the break at every event |
| `lost_update` | the disagreement below | that of `cache` |

`CHECK_DEADLOCK FALSE` is set everywhere but in `policy`: a host may stop using
a runner (the bound `MaxRuns` stands for that), a cache whose file is damaged
refuses every load, a walk of the table is over after the last row,
`MaxCommands` and `MaxExports` end the commands, a probe ends with its outcome,
a server with its input and an adapter's job with its result.

Bounds: `MaxRuns` (runs of one runner), `MaxTime` (ticks), `MaxCommands`
(commands given), `MaxPieces` (length of a reply), `MaxChanges` (rows that
differ from the first run), `MaxExports`; `MaxLinks` and `MaxMcpBytes` are the
program's own limits, scaled down. Symmetry is used for processes and keys in
the cache, for processes in `command` and for four of the paths in `graders`,
where no liveness is checked and every constant is the same for all of them.

Fairness. `FairSpec` assumes weak fairness of the run's own steps: the caller
polls the future, and a call that is out ends, which the HTTP client's timeouts
see to. Nothing is assumed of the host (`StartRun`, `Persist`). The cache has no
liveness property: the code promises none.

Each property has a mutant in its module, an operator marked "a slip", that
breaks it: a leaked permit, `try_join!` for `join!`, `=` for `&=`, a reset whose
epoch stays behind, a save that does not read the file again, a row stored under
the flags instead of the catalog's knobs, a tie of tiers won by the last row, a
cut reply refused only when it is Weak, a default taken for a score, a link
looked for too late, and so on.

### Disagreements met

`lost_update` shows one: `EntriesLast30Days` with two processes. The unlocked
merge loses a row that `persist` reported stored.

Two more have a configuration of their own beside the runs of `PROJECT.json`,
each with one statement of the README that TLC refutes, and its trace.

`tlc -config MCMatrixLabels.cfg MCMatrixTable`, `OneLineACard`. The repository's `README.md:106` (and
`docs/getting-started.md:81`) says that cache list, matrix and export treat the
labels of one row of its table as one card. `matrix_entries` groups by the label
itself (`cache.rs:1000`), so a model measured under `xai` and under `grok` has two
lines, and `list_rows` prints one a row. Export and the lookups do as the README
says. `RichestRowWins` speaks of each label's rows, as the code does.

`tlc -config MCFlagComesFirst.cfg MCCanactHost`, `FlagComesFirst`. The repository's `README.md:95` and `:97` list what is
tried for a vendor's label, "first match wins", with `--api-key` at the head and
the stored login at the end. `resolve_api_key` (`canact.rs:877-898`) reads the
login whenever the label is the vendor's and the environment has no key of it,
beside the flag too, and a failed refresh ends a command that had its key. The key
that is sent is still the flag's (`NamedKeyAlone`), and `LoginsAreALastResort` says
what the code does keep to.

The others were met while translating. The models follow the code.

- Runner. A safety stop on a ladder rung is stored when its refusal quotes a
  window phrase (`runner.rs:568`), and `docs/architecture.md:12` says safety
  stops are not. A later rung whose reply is cut lowers the recall of the rung
  that passed (`context_ladder.rs:110`, against `faithfulness_from_ladder`'s
  doc). `ProbeRunner::run` returns other errors than the doc above it says.
- Cache. A dimension reset by a grader epoch leaves the row a hit
  (`cache.rs:1609`, against `current_grader_version`'s doc).
- Graders. Facts planted for recall are glued across lines: "2.84" at the start
  of a line belongs to the word above it, so three facts, one a line, are not
  all recalled. `has_indented_merge_sorted_body` gives up at the first `def`
  whose body is empty. Removing `/**/` can make a raw string's quote of `r/**/"`;
  `RustCode` is bounded below that. The sequencing probe's doc gives 0.0 to a
  first tool that is none of the three, the code does not look.
- Adapter. `fold_events` closes every open call at one `ToolCallEnd`
  (`openai.rs:592`); `client.rs:173` says a caller keeps other calls' deltas,
  and the streaming grader does. `CallsAsMade` is stated of vendors that end
  calls when they are whole. A chat that finishes "failed" is `Transient` and
  `from_host_text("failed")` is not. Redaction takes "sk-" out of the middle of
  a word and the word after a header's name, whatever it is
  (`WhatItSaysSurvives` says what is left alone).
- Routes. `missing_cloud_key_message` says not to list variables the route will
  ignore, and does when the label and the host are of different vendors.
  Labels are compared whole where hosts are compared by suffix. A single
  malformed line ends the server with exit 1; a request without an id that is
  no notification is answered with a null one. Logins are read before the
  model and the suite of a tool call, and the suite of a command, are looked at;
  `WrongAtSight` names what is refused earlier.

## What is proved

For every value of the constants that satisfies the named assumptions:

- `ProbeSuiteProofs!TypeCorrect`. `TypeInv` adds to `TypeOK` that only calls of
  the phase are out (`PhaseInv`), that permits are free or held (`PermitInv`:
  without it the number of free permits has no bound) and that a climb that is
  on stands at a planned rung (`ClimbInv`).
- `ProbeSuiteProofs!CallsAccountedFor`. `AccountInv` says besides that no call
  of a later phase has an answer yet; that is what makes the next phase's calls
  all queued or skipped when it begins. It needs the two joins to have no probe
  in common (`WavesAssumption`).
- `ProbeSuiteProofs!StoredIsMeasured`. `CacheableIsMeasured` is the fact about
  the resolving functions; `MeasuredInv` carries it: while the flag stands, only
  the calls of the phase under way can have an answer that forbids storing.
- `ProbeSuiteProofs!VerdictOfFirstAbort`. `PastInv` says that no call outside
  the phase under way has an answer that aborts; `PhaseInOrder` (the results of
  a phase are taken in a row, after those of other phases) places the first
  aborting call of the phase in the order of the whole run.
- `ProbeCacheProofs!TypeCorrect` and, through `MergeDominates` (a temporary file
  is at least as late as what was read and held), `SavesAdvance`.
- `ProbeCacheProofs!MigrationSticks` and `MeasurementsKept`, for processes of
  one release. `MigrationInv` is the reason that no interleaving undoes a
  migration: where the file is not up to date, the process's own row is at
  least as late, so the merge, which keeps its own row at a tie, drops the
  file's. It also needs that no row is from the future.
- `ProbeCacheProofs!OneProcessKeepsEntries`: with one process, `EntryInv` (the
  temporary file holds every promised row) is inductive. Its last conjunct is
  what a second process breaks, and the run `lost_update` shows how.
- `ProbeCacheProofs!OneProcessImproves`: with one process, `RowsOnlyImprove`.
  `ImproveInv` says that a row as old as the file's is that row, migrated or
  not. A run of the same second is why it needs `KnownInv`: two measurements
  with one time are the same row, so the tie that the merge decides for its own
  row changes nothing.

- `ProbeCommandProofs!TypeCorrect`, and with it that a cache keeps one row for a
  key through every `Put` and `Saved`.
- `ProbeCommandProofs!HitsAreTrue`: `CardsAreTrue`, that is `AnswersFit` and
  `EnvelopeTellsTheRow`.
  `GetFits`, `CachedProbeFits` and `FirstAnswersFit` say what each lookup
  returns; `SameCardIsOneCard` says that taking prefixes off never makes two
  models one, and needs that a family's own label is of that family
  (`FamilyAssumption`). The invariant is strengthened by `StepsInOrder`: until
  the command prints, nothing is printed and the hints are what the flags and
  the catalog gave.
- `ProbeCommandProofs!RunsAreReused`: `RepeatsReuseTheRun`, of what one command
  leaves for another. `RunsAreKept` says what a stored run can rely on: as long
  as it is valid, the file and every cache loaded since hold a row of its key
  that is not older. `CachesFinite` is what makes "the newest row" be there: the
  caches a command starts from are finite (`CommandAssumption`), every save
  keeps them so, and a finite set of times has a greatest one.
- `ProbeCommandProofs!OverlaysTellTheirWindow`: `OverlayWindow`, from the lookups'
  own ranking and the same existence of a newest row.
- `ProbeCommandProofs!TableTypeCorrect` and `RichestWins`, of `MatrixTable`, by `RicherStaysRich` (the
  comparison is an order, so the row that replaces a line stands for every row
  the line stood for) and `ValidBefore` (a row that counts now counted when the
  loop came to it).

- `ProbeSuiteProofs!LastProfileIsWhole`, by `RunsInv`: profiles are numbered by
  their run, and only an identified runner has a run on.
- `ProbeSuiteProofs!WindowUnderPrior`. `WindowInv` says that a climb's tokens
  are always those of a planned rung, and `PlannedIsUnderPrior` what that means.
  `FullClimbInv` says that a climb which recalled everything stands on the last
  planned rung, and `PlannedIsAllowed` that this is the largest the prior allows.
  A runner's settings do not change between its runs, so an older profile's
  window is under the same prior.
- `ProbeSuiteProofs!AskedWhatWasPlanned`, for joins of exactly the program's own
  probes, and of the ladder with them.
  `OutcomeInv` says that the calls of every earlier phase are answered, that an
  answer is a skip exactly where the suite skips the call, and that the flag is
  the conjunction over the answers taken so far.
- `ProbeSuiteProofs!ImplementsSuiteVerdict`: `ProbeSuite` implements
  `SuiteVerdict`. `StartRun`, `RejectIdentity`, `AbortRun`, `Finish` and
  `Persist` map to the abstract actions, all others to stutters (`VerdictStep`).
  An abort needs the theorem on the first aborting answer, a profile needs
  `OutcomeInv`: only with every answer in can the flag of the phases be the one
  step's (`FinishedFlag`).
- `CanactHostProofs!TypeCorrect`, for any sessions of the stated type
  (`SessionAssumption`). What the server takes out of its stream is a message
  (`ReadHears`), and a URL stays one through defaults, the policy and redaction.
- `CanactHostProofs!RepliesComeInTurn`. `Answering` counts turns: the message at
  hand is the last one read, and between its reading and its reply the replies
  are one short of the messages that ask for one.
- `CanactHostProofs!KeysGoHome`, `NobodyAskedInVain` and `WhatIsForetold`, from
  one inductive invariant, `HostInv`, which says what a call has behind it at
  each stage. `Stages`: nothing has been read or dialed that an earlier stage
  would need. `Admission`: the arguments and the policy have been checked.
  `Routing`: the route is what `Load` gives for the label that the final label
  was made of, the base and label are `Finalized`'s, a request is one of the two
  that base and label allow, and nobody was asked after a refusal. The rest are
  facts about the tables. `LabelsApart` (the label lists have no name in
  common), `FirstOfTwo`, `KeyOfLabel` and `LoadsKeyOf` say which key a label
  gets from which sources; the hosts' lemmas follow a URL from the caller
  through a default to the dialed name. One fact about strings is assumed and
  evaluated by TLC, not proved: `LabelAssumption`, that no host with a port is
  a vendor's name (TLAPS cannot look into a string).
- `HostPolicyProofs!UnfinishedIsNoPromotion`, `BetterAnswersHelp`, `ExitTwoEarned`
  and `ReportsSayTheSame`, for any run of changes and any finite climb.
  `OffersFollowRows`, `RowsRise`, `OverallRises`, `CellsRise`, `NeedsFall` and
  `ExitFalls` carry a change of rows through the getters and cells;
  `MatrixAgrees` and `TableAgrees` compare the views. The invariant is
  `OnlyAskedIsMeasured`: a row the suite does not ask for is never a
  measurement, whatever is run or reset later. Without it the table could name a
  placement that the envelope omits.
- `OverlayFilesProofs!OthersAreLeftAlone` and `WhatIsExportedLands`:
  `NothingElseTouched` and `ExportsLand`, for files of any length, any models
  whose ids have a part (`ModelsAssumption`) and any well-formed user's files.
  `MergedByRun` and `MergeReads` turn the merge loop into a run that is read line
  by line, where appending at the end is reading the row's name there. The lemmas
  about the loop (`MergeLands`, `MergeKeepsForm`, `MergeKeepsOtherRow`,
  `MergeMakesNoRow`, `MergeAgain`, `ObjectMerges` and the others) follow that run
  by bounded induction (`UpTo`). `NameParts`, `SameIsAlias` and `OneName` say
  which names a row of a model can have and that two models share none. The
  invariant, `Stands` (`FilesStandThrough`), speaks of the files and also of what
  is about to be written into them, since between `Empty` and `Fill` the row
  exists only there: each file is well formed or cut, a row that was kept is in it
  or lost to a cut write, and the links of the overlay were looked at before
  anything was emptied.
- `GradeProbeProofs!CutRepliesStayOut`, `FloorsAreCounts`, `CallsNeverHurt` and
  `FullMarksStay`, for replies of any pieces and any length. The pieces of a probe may be anything
  (a grader that asks a piece for what it has not reads an unspecified value);
  `ReadingsAssumption` says only which graders there are. The invariant,
  `Conversation`, says that what was said is made of the probe's pieces and that
  the outcome of a probe that has ended is the grade of what was said.
  - `CutRepliesStayOut` (`CutRepliesAreNotStoredWeak`): `RefusalsAre` says what
    the two checks of each grader can answer, `ScoresAreNumbers` that a score is
    between 0 and 60 whatever a scanner makes of its text. `CutGrades` then has
    two cases for a cut reply: it is refused, and a refusal is not stored, or it
    has full marks.
  - `FloorsAreCounts` (`FloorIsDistinctPaths`): `ParallelScores` says which score
    each number of paths has, the floor undoes that, and the tenth of a point for
    a call without a path comes back as none.
  - `CallsNeverHurt` (`FurtherCallsNeverHurt`): one lemma for each grader of calls
    (`ReadFileGrows`, `TwoToolsGrow`, `NestedGrows`, `SelectionGrows`,
    `ParallelGrows`, `OneShotGrows`, `ChainGrows`). What was named or precise
    stays so. In the two chains the order counts too, and there a further call
    comes behind all the others, so the first precise call of a tool that has one
    stays where it is (`FirstPreciseStays`, `TurnGrows`).
  - `FullMarksStay` (`MoreNeverHurts`): for the graders of calls it follows from
    the lemmas above, since a score that does not fall cannot leave the top
    (`FullStays`). The text graders scan, so there a lemma says how a scan goes
    on. A piece leaves the spans of tags alone or adds one behind them
    (`SpansGrow`, `TagTaken`), and full marks are for some span (`FullIsReal`).
    The search for SEARCH/REPLACE blocks is defined from the end of the text
    backwards; it still loses no block to a further line (`BlocksGrow`), because
    a block is read from its own lines and those above it (`BlockIsLocal`) and
    where one is left open nothing was found behind it (`NothingBehind`): a marker
    that is missing is missing for every later block too.

- `ChatAdapterProofs!TypeCorrect`, `NeitherScoresTheBroken`, `HostsOnlyAdd`,
  `SentAndReadWhole` and `ErrorsToldRight`, of conversations, replies, errors and
  lists of any length, for the jobs that `JobsAssumption` allows: in a
  conversation an assistant's calls come before their results and a content that
  is no list is one text, as canact builds them; in a reply calls that are open together have indexes of their own
  and nothing follows a whole object of arguments (the HTTP client's part); and in
  an error's text a secret stands behind what announces it, a header, "bearer" or
  a prefix, and no piece of it is a word that is looked for (`KeysAreAnnounced`).
  The code has no way to tell other secrets, and takes out whatever stands there.
  - `NeitherScoresTheBroken` (`BrokenIsNeverScored`): `FailFollows` says that
    both readings know of a failed finish as soon as it was sent, and that a
    stream ends in an error just when the answer is none.
  - `HostsOnlyAdd` (`CatalogKeepsToTheFlags`) follows the hints from the row that
    a lookup found.
  - `SentAndReadWhole` (`ReadAsSent`). What was read says nothing of a reply until
    its end, so the invariant says what both readings hold in the middle of it.
    `SentFits`: what was sent is a part of the plan. `ChatFollows`: without a torn
    call there is a number of calls that `fold_events` has closed, its answer has
    those, and its slots hold what was sent of the others, in their order.
    `ChatNeverMixes`: torn or not, what a slot holds was sent under its index since
    the call began, and so is what a closed call was made of. `StreamFollows`: the
    streaming grader judges each call once, or still holds it. `TextFollows`: the
    text is what was said. Each has a lemma for each event (`StartCallFollows`,
    `EndCallMixes`, `SendPartStreams` and so on). At the end of a reply
    `AnswerCalls`, `StreamReads` and `GradesAgree` compare the two readings.
    `ThoughtsGo` takes the scanner of thoughts through a text of any length and
    shows that it keeps what no thought holds. Of a conversation, `MessageCarries`
    says what one message of each role comes to, `FlattenMaps` puts the messages
    together, and `ResultsComeAfter` finds a result's call before it.
  - `ErrorsToldRight` (`ErrorsAreToldRight`). Where a scan over the text stands is
    said by the text alone: `ModesTell` gives its mode after each piece, through
    one lemma for how each mode goes on (`InTokenStep` and the others). So a piece
    of a secret always finds the scan in a token or a key, where the last thing
    told is a redaction (`KeysGo`), and a word that is looked for finds it in plain
    text, where it is told (`NothingIsTakenOut`). For the other direction the
    invariant is `Clean`: back to the last redaction, the end of what is told is the
    end of the text, so a phrase that is told stood in the text as it is
    (`NothingIsPutIn`). Leaving out the prefix of a connection's error takes no
    phrase away (`DroppedSays`), and writing an error's own words before it neither
    (`ConcatHolds`). `Told` carries this over the steps; that a failed finish is not
    taken for a break needs `FailFollows`.

Model-checked only:

- `RunEnds`: liveness is out of the prover's reach, as is `ENABLED`.
- `ReadsRight`: that the server's loops read a stream as it was sent, and a path
  as the system opens it, for streams and paths of any length is an induction
  over data. So is `ScoresTellAbility` of the graders, which says what scanners
  find in a text. The library's induction theorems take an operator as a
  parameter, which the provers cannot instantiate.

An induction over numbers goes another way: a set of naturals that is not empty
has a least element (`LeastNat`, from the library's `WFMin`), so a least
counterexample is refuted. That is how a finite cache gets its newest row, a
stream its next line, and the merge loop of a settings file and the scanner of
thoughts their invariants.

A module without theorems may give a CASE guards that overlap; the first arm
that holds counts, as TLC reads it and as the code's `if` chains do. In modules
with theorems the arms exclude each other.

## What is not modelled, and why

Parts of the modelled components:

- `edit_format.rs` 288-462, which reads signatures and generics of Rust for the
  edit probes: a parser of its own, whose result is an input here.
- The wording of the probes' requests, the image of the vision probe, the
  schema that `tools/list` answers with, and every other text that is printed.
- `ProbeError::from_http`, `not_found_from_body` and `from_host_text`: nothing in
  the crate calls them on the way to a card. `MockLlm` is a test double.
- The output cap's cell in the matrix and the quoting of the overlays' YAML.
- `list_rows`, `find_profile`, `find_profile_with_cost` and `get_entry` (views
  that no decision depends on), `doctor`, `cache list`, and the parser of the
  command line.
- Two `run_detailed` calls at once on one runner, the clock going back, file
  sizes (load's 8 MiB limit) and builds of different releases sharing a file.
  A clock that runs ahead is listed as a hazard without a property.
- The Windows branch of `save`, which moves the old file aside first.

Outside the crate: the HTTP client with its timeouts and headers, and the files
and refreshes of stored logins. They belong to dependencies and are modelled by
what `src/` makes of their results.

## Plan

Every module of the first plan is written. What is left, by weight:

1. `ProbeCommand` over the parts of `ProbeCache`'s save, so that two commands'
   saves may overlap with a lookup.
2. `CacheStaysInside` for trees of links of any depth: `Walk` and `Reach` are
   recursive functions already, and what is missing is that they exist.
