---------------------------- MODULE OverlayFiles ----------------------------
(***************************************************************************)
(* canact export: a card of the cache becomes the files Aider and Cline    *)
(* read (src/export/, run_export and write_one_overlay of the command      *)
(* line).  Aider has two files, which the user edits too and which hold    *)
(* rows of other models: an export reads one, merges its row in and writes *)
(* it back, then does the same with the other.  A write empties the file   *)
(* before it fills it, and an export may break off anywhere.  One command  *)
(* runs at a time: nothing locks the files.                                *)
(*                                                                         *)
(* A settings file is the sequence of its lines; the fields under a name   *)
(* are one line.  A model name is the sequence of its parts between "/".   *)
(***************************************************************************)
EXTENDS Integers, FiniteSets, SequencesExt

CONSTANTS Models,      \* the cards' models: a provider label and an id
          Values,      \* what a card says of a model
          UserFiles,   \* the overlay files before the first export
          Links,       \* the sets of overlay files that are symbolic links
          MaxExports   \* bound on the exports

ASSUME MaxExportsAssumption == MaxExports \in Nat

VARIABLES settings,   \* .aider.model.settings.yml, its lines
          metadata,   \* .aider.model.metadata.json, its object
          cline,      \* cline.modelinfo.json, the card in it
          exists,     \* the files that are there
          links,      \* the files that are symbolic links
          job,        \* the export that is under way, or the last one
          exports,    \* exports begun
          kept,       \* what the last good export of each model wrote
          torn,       \* the files whose write broke off before it was filled
          before      \* the settings of the user

vars == <<settings, metadata, cline, exists, links, job, exports, kept, torn, before>>

Files == {"settings", "metadata", "cline"}

-----------------------------------------------------------------------------
(* Names.                                                                  *)

LoopbackHosts == {"localhost", "127.0.0.1", "::1", "[::1]", "0.0.0.0"}
Loopback == LoopbackHosts \cup {host \o ":" \o port : host \in LoopbackHosts, port \in {"1234", "11434"}}

\* normalize_overlay_provider.
Normalize(label) ==
    IF label \in {"groq", "api.groq.com", "groq.com"} THEN "groq"
    ELSE IF label \in {"bedrock", "amazon-bedrock", "bedrock-runtime.us-east-1.amazonaws.com"} THEN "bedrock"
    ELSE IF label \in {"openai-codex", "codex"} THEN "openai-codex"
    ELSE IF label \in {"openrouter", "openrouter.ai"} THEN "openrouter"
    ELSE IF label \in {"openai", "api.openai.com"} THEN "openai"
    ELSE IF label \in {"xai", "grok", "x.ai", "api.x.ai"} THEN "xai"
    ELSE IF label \in {"anthropic", "claude", "api.anthropic.com"} THEN "anthropic"
    ELSE IF label \in {"lm_studio", "lmstudio"} THEN "lm_studio"
    ELSE IF label \in {"hosted_vllm", "vllm"} THEN "hosted_vllm"
    ELSE IF label \in Loopback THEN "ollama"
    ELSE label

\* overlay_model_name: the family, and the id without the family's prefix.
OverlayName(model) ==
    LET family == Normalize(model.label)
        prefixed == Len(model.id) > 1 /\ model.id[1] \in {family, model.label}
    IN  <<family>> \o (IF prefixed THEN Tail(model.id) ELSE model.id)

\* overlay_ids_same_model: the first part is a label, the rest must be equal.
SameModel(left, right) ==
    IF Len(left) = 1 \/ Len(right) = 1 THEN left = right
    ELSE Tail(left) = Tail(right) /\ Normalize(left[1]) = Normalize(right[1])

-----------------------------------------------------------------------------
(* What there is before the first export.                                  *)

\* The id of a model has a part at least, and so has its name.
Part == STRING
Names == Seq(Part) \ {<<>>}

ASSUME ModelsAssumption == \A model \in Models : Normalize(model.label) \in Part /\ model.id \in Names

\* A settings file: under each name stand its fields, as one line that is no
\* name, and more lines perhaps.
IsSettings(lines) ==
    /\ lines \in Seq(Range(lines))
    /\ \A i \in 1 .. Len(lines) : lines[i].kind = "name" =>
          /\ lines[i].what \in Names
          /\ i < Len(lines) /\ lines[i + 1].kind # "name"

\* An object: a value for each of its keys.
IsObject(object) == DOMAIN object \subseteq Names /\ object = [key \in DOMAIN object |-> object[key]]

\* A file that is not there has nothing in it.
ASSUME UserFilesAssumption ==
    \A user \in UserFiles :
        /\ IsSettings(user.settings)
        /\ IsObject(user.metadata.has)
        /\ user.exists \subseteq Files
        /\ "settings" \notin user.exists => user.settings = <<>>

-----------------------------------------------------------------------------
(* The merges.                                                             *)

NameLine(name) == [kind |-> "name", what |-> name]
FieldsLine(value) == [kind |-> "fields", what |-> <<value>>]

Incoming(name, value) == <<NameLine(name), FieldsLine(value)>>

\* One line of the existing file: the row of the same model is replaced where
\* it first stands, and lines are dropped up to the next name.
\* A slip: a name of another model does not end the dropping.
MergeLineSkipsOn(name, value, acc, line) ==
    IF line.kind = "name" /\ SameModel(line.what, name)
    THEN [out |-> IF "replaced" \in acc.now THEN acc.out ELSE acc.out \o Incoming(name, value),
          now |-> {"skipping", "replaced"}]
    ELSE IF "skipping" \in acc.now THEN acc ELSE [acc EXCEPT !.out = Append(@, line)]
MergeLine(name, value, acc, line) ==
    IF line.kind = "name" /\ SameModel(line.what, name)
    THEN [out |-> IF "replaced" \in acc.now THEN acc.out ELSE acc.out \o Incoming(name, value),
          now |-> {"skipping", "replaced"}]
    ELSE IF "skipping" \in acc.now /\ line.kind # "name" THEN acc
    ELSE [out |-> Append(acc.out, line), now |-> acc.now \ {"skipping"}]

\* The loop over the lines, one after the other.
Merged(lines, name, value) ==
    LET Read[i \in 0 .. Len(lines)] ==
          IF i = 0 THEN [out |-> <<>>, now |-> {}]
          ELSE MergeLine(name, value, Read[i - 1], lines[i])
    IN  Read[Len(lines)]

\* merge_aider_settings_yaml.
MergeSettings(lines, name, value) ==
    LET m == Merged(lines, name, value)
    IN  IF "replaced" \in m.now THEN m.out ELSE m.out \o Incoming(name, value)

\* merge_aider_metadata_json, on a file that is an object.
\* A slip: an entry that is there already is kept.
MergeMetadataKeeps(object, name, value) ==
    LET others == {key \in DOMAIN object : ~SameModel(key, name)}
    IN  [key \in others \cup {name} |-> IF key \in DOMAIN object THEN object[key] ELSE value]
MergeMetadata(object, name, value) ==
    LET others == {key \in DOMAIN object : ~SameModel(key, name)}
    IN  [key \in others \cup {name} |-> IF key = name THEN value ELSE object[key]]

Object(has) == [json |-> TRUE, has |-> has]
NoEntries == [key \in {} |-> 0]
NotJson == [json |-> FALSE, has |-> NoEntries]

-----------------------------------------------------------------------------
(* Exports.                                                                *)

Hosts == {"aider", "cline", "all"}

Todo(host) == CASE host = "aider" -> <<"settings", "metadata">>
                [] host = "cline" -> <<"cline">>
                [] OTHER          -> <<"settings", "metadata", "cline">>

OverlayOf(file) == IF file = "cline" THEN {"cline"} ELSE {"settings", "metadata"}
FirstOfOverlay == {"settings", "cline"}

NoJob == [step |-> "idle", name |-> <<>>, value |-> 0, todo |-> <<>>,
          lines |-> <<>>, object |-> NoEntries, wrote |-> {}]

Active == job.step \notin {"idle", "done", "refused", "failed"}

Init ==
    /\ \E user \in UserFiles :
           /\ settings = user.settings /\ before = user.settings
           /\ metadata = user.metadata
           /\ exists = user.exists
    /\ cline = 0
    /\ links \in Links
    /\ job = NoJob
    /\ exports = 0 /\ kept = NoEntries /\ torn = {}

Start(model, value, host) ==
    LET name == OverlayName(model)
    IN  /\ ~Active /\ exports < MaxExports
        /\ exports' = exports + 1
        /\ job' = [NoJob EXCEPT !.step = "links", !.name = name, !.value = value,
                                !.todo = Todo(host)]
        /\ kept' = IF host = "cline" THEN kept
                   ELSE [n \in DOMAIN kept \ {name} |-> kept[n]]
        /\ UNCHANGED <<settings, metadata, cline, exists, links, torn, before>>

Goes(step) == job' = [job EXCEPT !.step = step]

Untouched == UNCHANGED <<settings, metadata, cline, exists, links, exports, kept,
                         torn, before>>

\* write_to looks at every file of the overlay before it writes one.
Refuses == OverlayOf(Head(job.todo)) \cap links # {}

CheckLinks ==
    /\ job.step = "links"
    /\ Goes(IF Refuses THEN "refused" ELSE "file")
    /\ Untouched

NotAnObject == "metadata" \in exists /\ ~metadata.json

\* The next file is looked at again.  An existing Aider file is read and
\* merged; one that is not JSON stops the export behind the settings it has
\* written.
Prepare ==
    LET file == Head(job.todo)
        j == job
    IN  /\ j.step = "file"
        /\ CASE file \in links -> Goes("refused")
             [] file \notin links /\ file = "settings" ->
                   job' = [job EXCEPT !.step = "empty",
                              !.lines = IF file \in exists
                                           THEN MergeSettings(settings, j.name, j.value)
                                           ELSE Incoming(j.name, j.value)]
             [] file \notin links /\ file = "metadata" /\ NotAnObject -> Goes("failed")
             [] file \notin links /\ file = "metadata" /\ ~NotAnObject ->
                   job' = [job EXCEPT !.step = "empty",
                              !.object = MergeMetadata(
                                  IF file \in exists THEN metadata.has ELSE NoEntries,
                                  j.name, j.value)]
             [] OTHER -> Goes("empty")
        /\ Untouched

Empty ==
    LET file == Head(job.todo)
    IN  /\ job.step = "empty"
        /\ settings' = IF file = "settings" THEN <<>> ELSE settings
        /\ metadata' = IF file = "metadata" THEN NotJson ELSE metadata
        /\ cline' = IF file = "cline" THEN 0 ELSE cline
        /\ exists' = exists \cup {file}
        /\ job' = [job EXCEPT !.step = "fill", !.wrote = @ \cup {file}]
        /\ UNCHANGED <<links, exports, kept, torn, before>>

\* What comes after the head of todo.
After(todo) == CASE Len(todo) = 1                -> "done"
                 [] Len(todo) > 1 /\ todo[2] \in FirstOfOverlay -> "links"
                 [] OTHER                        -> "file"

Fill ==
    LET file == Head(job.todo)
        j == job
    IN  /\ j.step = "fill"
        /\ settings' = IF file = "settings" THEN j.lines ELSE settings
        /\ metadata' = IF file = "metadata" THEN Object(j.object) ELSE metadata
        /\ cline' = IF file = "cline" THEN j.value ELSE cline
        /\ job' = [job EXCEPT !.step = After(j.todo), !.todo = Tail(@)]
        /\ kept' = IF file = "metadata" THEN MergeMetadata(kept, j.name, j.value) ELSE kept
        /\ UNCHANGED <<exists, links, exports, torn, before>>

\* An error of the file system, or the end of the process.
BreakOff ==
    /\ Active
    /\ torn' = IF job.step = "fill" THEN torn \cup {Head(job.todo)} ELSE torn
    /\ job' = [NoJob EXCEPT !.step = "failed"]
    /\ UNCHANGED <<settings, metadata, cline, exists, links, exports, kept, before>>

Next ==
    \/ \E model \in Models, value \in Values, host \in Hosts : Start(model, value, host)
    \/ CheckLinks
    \/ Prepare
    \/ Empty
    \/ Fill
    \/ BreakOff

Spec == Init /\ [][Next]_vars

-----------------------------------------------------------------------------
(* Properties.                                                             *)

Holds(lines, name, fields) ==
    \E i \in 1..(Len(lines) - 1) :
        /\ lines[i].kind = "name" /\ lines[i].what = name
        /\ lines[i + 1].what = fields

Aliases(name, other) ==
    Normalize(name[1]) = Normalize(other[1]) /\ Tail(name) = Tail(other)

\* Whatever is exported, and wherever it breaks off, the rows of the other
\* models stay as the user left them: neither the merge nor a failed export
\* takes one away.  Only a write that was cut can.
OthersKept ==
    ~Active /\ "settings" \notin torn =>
        \A i \in DOMAIN before :
            \/ before[i].kind # "name"
            \/ \E m \in Models : SameModel(before[i].what, OverlayName(m))
            \/ Holds(settings, before[i].what, before[i + 1].what)

\* After a good export the model has one row, in the settings and in the
\* metadata, whatever alias its row had before and however many there were.
OneRowEach ==
    ~Active =>
        \A name \in DOMAIN kept :
            /\ Cardinality({i \in DOMAIN settings :
                               /\ settings[i].kind = "name"
                               /\ Aliases(settings[i].what, name)}) <= 1
            /\ Cardinality({key \in DOMAIN metadata.has : Aliases(key, name)}) <= 1

\* Both files tell of a model what its last good export wrote, and exports of
\* other models, good or broken off, leave it so.
FilesAgree ==
    ~Active /\ torn \cap {"settings", "metadata"} = {} =>
        \A name \in DOMAIN kept :
            /\ Holds(settings, name, <<kept[name]>>)
            /\ metadata.json /\ name \in DOMAIN metadata.has
            /\ metadata.has[name] = kept[name]

\* Exporting the same card again changes nothing.
RepeatChangesNothing ==
    ~Active /\ torn \cap {"settings", "metadata"} = {} =>
        \A name \in DOMAIN kept :
            /\ MergeSettings(settings, name, kept[name]) = settings
            /\ MergeMetadata(metadata.has, name, kept[name]) = metadata.has

\* An overlay that is refused for a link has not written one of its files.
RefusedWritesNothing ==
    job.step = "refused" => job.wrote \cap OverlayOf(Head(job.todo)) = {}

\* A good export lands: one row for the model, the same in both files, and
\* nothing to change when the card is exported again.
ExportsLand == OneRowEach /\ FilesAgree /\ RepeatChangesNothing

\* An export touches the row of its own model and no other, and a refused one
\* touches nothing.
NothingElseTouched == OthersKept /\ RefusedWritesNothing
=============================================================================
