----------------------------- MODULE ChatAdapter -----------------------------
(***************************************************************************)
(* The OpenAI-compatible adapter, src/adapters/openai.rs: what it sends    *)
(* for a probe's conversation, how it reads a reply as one answer          *)
(* (fold_events) and as a stream (stream_chunk), what it makes of a reply  *)
(* that breaks, and the hints it takes from a host's list of models.       *)
(*                                                                         *)
(* The HTTP client hands the adapter events.  The vendor of this model     *)
(* sends a reply of its own choice: pieces of text, calls whose arguments  *)
(* come in parts, in sequence or side by side, each closed by an end, or   *)
(* all by one, or by none, a reason to stop, and perhaps a break.  Both    *)
(* readings of the same events are kept, and what they come to compared.   *)
(***************************************************************************)
EXTENDS HostErrors, ToolGraders

CONSTANTS
    Kinds,       \* names of groups of jobs
    JobsOf(_)    \* the jobs of a group, each an "ask", a "reply" or a "catalog"

\* A conversation that canact sends: an assistant's calls come before their
\* results, and a content that is no list is one text.
MessageContents == [whole : BOOLEAN, parts : Seq([type : {"text", "image"}, body : STRING])]
Messages == [role : {"system", "user", "assistant", "tool"}, content : MessageContents,
             calls : Seq(STRING), id : STRING]
AsksAsCanactDoes(msgs) ==
    /\ msgs \in Seq(Messages)
    /\ \A i \in DOMAIN msgs :
          /\ msgs[i].content.whole =>
                Len(msgs[i].content.parts) = 1 /\ msgs[i].content.parts[1].type = "text"
          /\ msgs[i].role = "tool" =>
                \E j \in 1 .. (i - 1) : msgs[j].role = "assistant" /\ msgs[i].id \in ToSet(msgs[j].calls)

\* The piece at i is of the token that a header or a bearer at j is before, or
\* of the key that a prefix at j begins.
TokenOf(text, j, i) ==
    \/ /\ HeaderAt(text, j)
       /\ \E a \in (j + 1) .. i :
             /\ text[a] \notin Separators /\ ~BearerAt(text, a)
             /\ \A k \in a .. i : text[k] \notin TokenEnds
             /\ \A k \in (j + 1) .. (a - 1) : text[k] \in Separators
    \/ /\ BearerAt(text, j)
       /\ \E a \in (j + 1) .. i :
             /\ \A k \in a .. i : text[k] \notin TokenEnds
             /\ \A k \in (j + 1) .. (a - 1) : text[k] = Space
KeyOf(text, j, i) == text[j] = "sk-" /\ \A k \in (j + 1) .. i : OfKey(text[k])

\* An error's text: a secret stands behind what says that it is one, and is
\* neither another header nor a word that canact looks for.
PhraseWords ==
    {"does", "not", "exist", "unknown", "model", "model_not_found", "found", "try", "pulling", "http",
     "404", "tokens", "per", "min", "rate", "limit", "limited", "maximum", "context", "length",
     "request", "too", "large"}
KeysAreAnnounced(text) ==
    /\ \A i \in DOMAIN text : text[i] = "KEY" =>
          \E j \in 1 .. (i - 1) : TokenOf(text, j, i) \/ KeyOf(text, j, i)
    /\ \A i \in DOMAIN text : \A j \in 1 .. (i - 1) : TokenOf(text, j, i) \/ KeyOf(text, j, i) =>
          ~HeaderAt(text, i) /\ ~BearerAt(text, i) /\ text[i] \notin PhraseWords

\* A reply: calls that are open together have indexes of their own, and the
\* parts of a call do not go on after a whole object.
PathParts == <<"head", "tail">>
Plans == [said : Seq(STRING), ends : {"each", "once", "never"}, parallel : BOOLEAN,
          split : BOOLEAN, reason : STRING, usage : BOOLEAN,
          calls : Seq([index : Nat, id : STRING, tool : STRING, parts : Seq(STRING)]),
          breaks : [class : STRING, connect : BOOLEAN, text : Seq(STRING)]]
OwnIndexes(p) == \A a, b \in DOMAIN p.calls : p.calls[a].index = p.calls[b].index => a = b
RepliesAsVendorsDo(p) ==
    /\ p \in Plans /\ KeysAreAnnounced(p.breaks.text)
    /\ OwnIndexes(p) \/ (p.ends = "each" /\ ~p.parallel)
    /\ \A k \in DOMAIN p.calls : \A m \in 0 .. Len(p.calls[k].parts) :
          SubSeq(p.calls[k].parts, 1, m) = PathParts => m = Len(p.calls[k].parts)

Seen == {"none", "yes", "no"}
ListsAsHostsDo(j) ==
    /\ j.flags \in [window : Nat, vision : Seen] /\ j.host.fails \in BOOLEAN
    /\ j.host.rows \in Seq([id : STRING, window : Nat, vision : Seen])

ASSUME JobsAssumption ==
    \A kind \in Kinds : \A j \in JobsOf(kind) :
        \/ j.kind = "ask" /\ AsksAsCanactDoes(j.messages)
        \/ j.kind = "reply" /\ RepliesAsVendorsDo(j.plan)
        \/ j.kind = "catalog" /\ ListsAsHostsDo(j)

VARIABLES
    job,      \* what the adapter was asked to do
    sent,     \* how much of its reply the vendor has sent
    chat,     \* fold_events on what was sent
    stream,   \* the streaming grader on the chunks of what was sent
    result    \* what the job has come to

vars == <<job, sent, chat, stream, result>>

-----------------------------------------------------------------------------
(* Conversations.  A part is a text or an image; the content of a message  *)
(* is one text, which may be empty, or a list of parts.                    *)

IsText(part) == part.type = "text"
TextOf(part) == IF IsText(part) /\ part.body # "" THEN <<part.body>> ELSE <<>>

\* content_text: the texts put together; an empty one adds nothing.
ContentText(content) == FlattenSeq([i \in 1 .. Len(content.parts) |-> TextOf(content.parts[i])])

ContentParts(content) ==
    IF content.whole /\ ContentText(content) = <<>> THEN <<>> ELSE content.parts

Images(parts) ==
    FlattenSeq([i \in 1 .. Len(parts) |-> IF IsText(parts[i]) THEN <<>> ELSE <<parts[i]>>])

CallItem(id) == [item |-> "call", id |-> id, text |-> <<>>, parts |-> <<>>]

\* A slip: the parts of a tool's result repeat its text.
ToolItemTwice(msg) ==
    [item |-> "output", id |-> msg.id, text |-> ContentText(msg.content),
     parts |-> ContentParts(msg.content)]

\* Text stays on the output, images on the parts.
ToolItem(msg) ==
    [item |-> "output", id |-> msg.id, text |-> ContentText(msg.content),
     parts |-> Images(ContentParts(msg.content))]

AssistantItems(msg) ==
    LET parts == ContentParts(msg.content)
        calls == [i \in 1 .. Len(msg.calls) |-> CallItem(msg.calls[i])]
    IN  IF parts = <<>> THEN calls
        ELSE Append(calls, [item |-> "assistant", id |-> "", text |-> <<>>, parts |-> parts])

\* A system message keeps its text alone.
Items(msg) ==
    CASE msg.role = "system" ->
             <<[item |-> "system", id |-> "", text |-> ContentText(msg.content), parts |-> <<>>]>>
      [] msg.role = "user" ->
             <<[item |-> "user", id |-> "", text |-> <<>>, parts |-> ContentParts(msg.content)]>>
      [] msg.role = "assistant" -> AssistantItems(msg)
      [] msg.role = "tool" -> <<ToolItem(msg)>>

\* ir_request.
IrRequest(messages) == FlattenSeq([i \in 1 .. Len(messages) |-> Items(messages[i])])

-----------------------------------------------------------------------------
(* Catalogs.  "none" and 0 are what a flag or a row leaves out.            *)

NoHints == [window |-> 0, vision |-> "none"]

\* A slip: a host's "no" is kept.
FromWireListedNo(row) == [window |-> row.window, vision |-> row.vision]

\* from_wire_listed: a host can promote vision and never deny it.
FromWireListed(row) ==
    [window |-> row.window, vision |-> IF row.vision = "yes" THEN "yes" ELSE "none"]

\* lookup_host_catalog, and what resolve_host_catalog makes of its error.
LookupHostCatalog(host, id) ==
    LET at == SelectInSeq(host.rows, LAMBDA row : row.id = id) IN
    IF host.fails \/ at = 0 THEN NoHints ELSE FromWireListed(host.rows[at])

MergeAdvertisedContext(flag, listed) == IF flag # 0 THEN flag ELSE listed
MergeVisionCatalog(flag, listed) == IF flag # "none" THEN flag ELSE listed

ResolveHostCatalog(flags, host, id) ==
    LET asked == flags.window = 0 \/ flags.vision = "none"
        listed == IF asked THEN LookupHostCatalog(host, id) ELSE NoHints
    IN  [asked |-> asked,
         window |-> MergeAdvertisedContext(flags.window, listed.window),
         vision |-> MergeVisionCatalog(flags.vision, listed.vision)]

-----------------------------------------------------------------------------
(* Text.  A tag comes in two pieces, for a vendor may cut it anywhere.     *)

Open == <<"<th", "ink>">>
Close == <<"</th", "ink>">>

TagAt(text, i, tag) == i < Len(text) /\ <<text[i], text[i + 1]>> = tag

\* One piece, outside a thought, in its opening tag, inside it, or in its
\* closing tag.
StripStep(text, r, i) ==
    CASE r.at = "open"  -> [r EXCEPT !.at = "in"]
      [] r.at = "close" -> [r EXCEPT !.at = "out"]
      [] r.at = "in"    -> IF TagAt(text, i, Close) THEN [r EXCEPT !.at = "close"] ELSE r
      [] r.at = "out"   -> IF TagAt(text, i, Open) THEN [r EXCEPT !.at = "open"]
                           ELSE [r EXCEPT !.out = Append(@, text[i])]

StripThinkBlocks(text) ==
    LET upTo[i \in 0 .. Len(text)] ==
            IF i = 0 THEN [at |-> "out", out |-> <<>>] ELSE StripStep(text, upTo[i - 1], i)
    IN  upTo[Len(text)].out

-----------------------------------------------------------------------------
(* The reason to stop.                                                     *)

LengthReasons == {"length", "max_tokens", "MAX_TOKENS"}
SafetyReasons == {"content_filter", "refusal", "SAFETY"}
MalformedReasons == {"malformed_function_call", "MALFORMED_FUNCTION_CALL"}

FinishFromReason(reason) ==
    CASE reason \in {"stop", "end_turn", "eos"} -> "Stop"
      [] reason \in {"tool_calls", "tool_use", "function_call"} -> "ToolCalls"
      [] reason \in LengthReasons -> "Length"
      [] reason \in MalformedReasons -> "Malformed"
      [] reason \in SafetyReasons -> "Safety"
      [] OTHER -> "Other"

\* A slip: only the lower-case word is a failure.
FinishIsFailedExact(e) == e.ev = "Finish" /\ e.reason = "failed"

\* finish_is_failed, whatever the case.
FinishIsFailed(e) == e.ev = "Finish" /\ e.reason \in {"failed", "FAILED"}

-----------------------------------------------------------------------------
(* A reply as one answer.                                                  *)

NoText == <<>>
FoldStart == [text |-> NoText, calls |-> <<>>, slots |-> <<>>, order |-> <<>>,
              finish |-> "Stop", usage |-> FALSE, failed |-> FALSE]

\* push_call: arguments that are not an object come to none at all.
PushCall(slot) ==
    LET parsed == Parsed(slot) IN
    IF slot.tool = "none" THEN <<>>
    ELSE <<[id |-> slot.id, tool |-> slot.tool, args |-> IF parsed = "path" THEN "path" ELSE "no_path"]>>

\* flush_tool_slots.
FlushToolSlots(f) ==
    [f EXCEPT !.calls = @ \o FlattenSeq([i \in 1 .. Len(f.order) |-> PushCall(f.slots[f.order[i]])]),
              !.slots = <<>>, !.order = <<>>]

Keep(new, old, nothing) == IF new = nothing THEN old ELSE new

\* A slip: a second start of a slot begins the call again.
FoldStartCallAnew(f, e) ==
    [f EXCEPT !.slots = [i \in DOMAIN @ \cup {e.index} |->
                             IF i = e.index THEN [id |-> e.id, tool |-> e.tool, args |-> <<>>] ELSE @[i]],
              !.order = IF e.index \in DOMAIN f.slots THEN @ ELSE Append(@, e.index)]

FoldStartCall(f, e) ==
    LET open == e.index \in DOMAIN f.slots
        old == IF open THEN f.slots[e.index] ELSE [id |-> "", tool |-> "none", args |-> <<>>]
        new == [id |-> Keep(e.id, old.id, ""), tool |-> Keep(e.tool, old.tool, "none"), args |-> old.args]
    IN  [f EXCEPT !.slots = [i \in DOMAIN @ \cup {e.index} |-> IF i = e.index THEN new ELSE @[i]],
                  !.order = IF open THEN @ ELSE Append(@, e.index)]

FoldEvent(f, e) ==
    CASE e.ev = "Text"   -> [f EXCEPT !.text = Append(@, e.part)]
      [] e.ev = "Start"  -> FoldStartCall(f, e)
      [] e.ev = "Delta"  -> IF e.index \in DOMAIN f.slots
                            THEN [f EXCEPT !.slots[e.index].args = Append(@, e.part)] ELSE f
      [] e.ev = "End"    -> FlushToolSlots(f)
      [] e.ev = "Finish" -> [f EXCEPT !.finish = FinishFromReason(e.reason),
                                      !.failed = @ \/ FinishIsFailed(e)]
      [] e.ev = "Usage"  -> [f EXCEPT !.usage = TRUE]

FoldedText(text) == StripThinkBlocks(text)

\* The end of fold_events.
Folded(f) ==
    LET g == FlushToolSlots(f) IN
    [text |-> FoldedText(g.text), calls |-> g.calls, usage |-> g.usage,
     finish |-> IF g.calls # <<>> /\ g.finish = "Stop" THEN "ToolCalls" ELSE g.finish]

\* scored_completion: one failed finish among the events fails the answer.
ScoredCompletion(f) ==
    IF f.failed THEN [kind |-> "Transient", text |-> Phrase(<<"response", "failed">>)]
    ELSE [kind |-> "Ok", answer |-> Folded(f)]

-----------------------------------------------------------------------------
(* A reply as a stream: map_stream_event hands on the chunks, and the      *)
(* grader of streaming_tool_calls.rs reads them.                           *)

StreamStart == [calls |-> [slots |-> <<>>, best |-> {}, other |-> FALSE],
                text |-> NoText, finish |-> "Stop", error |-> FALSE]

StreamEvent(s, e) ==
    IF s.error \/ e.ev = "Usage" THEN s
    ELSE IF FinishIsFailed(e) THEN [s EXCEPT !.error = TRUE]
    ELSE IF e.ev = "Text" THEN [s EXCEPT !.text = Append(@, e.part)]
    ELSE IF e.ev = "Finish" THEN [s EXCEPT !.finish = FinishFromReason(e.reason)]
    ELSE [s EXCEPT !.calls = StreamStep(@, e)]

-----------------------------------------------------------------------------
(* The vendor.  plan is the reply it has in mind: the pieces it says, the  *)
(* calls it makes with the parts of their arguments, whether calls overlap *)
(* and how they are closed, whether a call's name comes in an event of its *)
(* own, the reason it gives, and the error the reply breaks with, if any.  *)

plan == job.plan
NoBreak == [class |-> "none", connect |-> FALSE, text |-> <<>>]
Pending == [kind |-> "Pending"]
NothingSent == [said |-> 0, calls |-> <<>>, closed |-> FALSE, finish |-> FALSE,
                usage |-> FALSE, torn |-> FALSE]

Event(ev) == [ev |-> ev]
Begin(index, id, tool) == [ev |-> "Start", index |-> index, id |-> id, tool |-> tool]

Hear(e) ==
    /\ chat' = FoldEvent(chat, e)
    /\ stream' = StreamEvent(stream, e)
    /\ UNCHANGED <<job, result>>

Replying == job.kind = "reply" /\ result = Pending

Whole(k) == sent.calls[k].named /\ sent.calls[k].parts = Len(plan.calls[k].parts)
Done(k) == Whole(k) /\ (plan.ends = "each" => sent.calls[k].ended)
AllSent ==
    /\ sent.said = Len(plan.said) /\ Len(sent.calls) = Len(plan.calls)
    /\ \A k \in DOMAIN plan.calls : Done(k)
    /\ plan.ends = "once" => sent.closed

\* An end that comes while another call is still being sent.
Tears(k) == \E j \in DOMAIN sent.calls \ {k} : ~sent.calls[j].ended /\ ~Whole(j)

Say ==
    /\ Replying /\ ~sent.finish /\ sent.said < Len(plan.said)
    /\ sent' = [sent EXCEPT !.said = @ + 1]
    /\ Hear([ev |-> "Text", part |-> plan.said[sent.said + 1]])

StartCall ==
    /\ Replying /\ Len(sent.calls) < Len(plan.calls)
    /\ plan.parallel \/ \A k \in DOMAIN sent.calls : Done(k)
    /\ LET call == plan.calls[Len(sent.calls) + 1] IN
       /\ sent' = [sent EXCEPT !.calls = Append(@, [named |-> ~plan.split, parts |-> 0, ended |-> FALSE])]
       /\ Hear(Begin(call.index, call.id, IF plan.split THEN "none" ELSE call.tool))

NameCall(k) ==
    /\ Replying /\ ~sent.calls[k].named
    /\ sent' = [sent EXCEPT !.calls[k].named = TRUE]
    /\ Hear(Begin(plan.calls[k].index, "", plan.calls[k].tool))

SendPart(k) ==
    /\ Replying /\ sent.calls[k].named /\ ~Whole(k)
    /\ sent' = [sent EXCEPT !.calls[k].parts = @ + 1]
    /\ Hear([ev |-> "Delta", index |-> plan.calls[k].index,
             part |-> plan.calls[k].parts[sent.calls[k].parts + 1]])

EndCall(k) ==
    /\ Replying /\ plan.ends = "each" /\ Whole(k) /\ ~sent.calls[k].ended
    /\ sent' = [sent EXCEPT !.calls[k].ended = TRUE, !.torn = @ \/ Tears(k)]
    /\ Hear(Event("End"))

EndAll ==
    /\ Replying /\ plan.ends = "once" /\ ~sent.closed
    /\ Len(sent.calls) = Len(plan.calls) /\ \A k \in DOMAIN sent.calls : Whole(k)
    /\ sent' = [sent EXCEPT !.closed = TRUE]
    /\ Hear(Event("End"))

GiveReason ==
    /\ Replying /\ AllSent /\ plan.reason # "none" /\ ~sent.finish
    /\ sent' = [sent EXCEPT !.finish = TRUE]
    /\ Hear([ev |-> "Finish", reason |-> plan.reason])

CountUsage ==
    /\ Replying /\ AllSent /\ plan.usage /\ ~sent.usage
    /\ sent' = [sent EXCEPT !.usage = TRUE]
    /\ Hear(Event("Usage"))

\* The reply ends: chat folds it, and a reader of the stream has read it all.
EndReply ==
    /\ Replying /\ AllSent /\ (plan.reason = "none" \/ sent.finish)
    /\ sent.usage = plan.usage
    /\ result' = ScoredCompletion(chat)
    /\ UNCHANGED <<job, sent, chat, stream>>

\* The reply breaks off: both readings end with the same error.
Break ==
    /\ Replying /\ plan.breaks # NoBreak
    /\ result' = MapClientError(plan.breaks)
    /\ stream' = [stream EXCEPT !.error = TRUE]
    /\ UNCHANGED <<job, sent, chat>>

Ask ==
    /\ job.kind = "ask" /\ result = Pending
    /\ result' = [kind |-> "Asked", items |-> IrRequest(job.messages)]
    /\ UNCHANGED <<job, sent, chat, stream>>

LookUp ==
    /\ job.kind = "catalog" /\ result = Pending
    /\ result' = [kind |-> "Hints", hints |-> ResolveHostCatalog(job.flags, job.host, job.model)]
    /\ UNCHANGED <<job, sent, chat, stream>>

Init ==
    /\ \E kind \in Kinds : job \in JobsOf(kind)
    /\ sent = NothingSent /\ chat = FoldStart /\ stream = StreamStart /\ result = Pending

Next ==
    \/ Ask \/ LookUp
    \/ Say \/ StartCall
    \/ \E k \in DOMAIN sent.calls : NameCall(k) \/ SendPart(k) \/ EndCall(k)
    \/ EndAll \/ GiveReason \/ CountUsage
    \/ EndReply \/ Break

Spec == Init /\ [][Next]_vars

-----------------------------------------------------------------------------
(* Properties.                                                             *)

\* "" and "none" are the id and the name that an event leaves out.
Ids == STRING \cup {""}
Tools == STRING \cup {"none"}
Finished == {"Stop", "ToolCalls", "Length", "Malformed", "Safety", "Other"}
ChatCalls == [id : Ids, tool : Tools, args : {"path", "no_path"}]
Slots == [id : Ids, tool : Tools, args : Seq(STRING)]
StreamSlots == [tool : Tools, args : Seq(STRING)]

\* Slots are kept by the index of a call, and their order is theirs.
ChatOK(f) ==
    /\ DOMAIN f = DOMAIN FoldStart
    /\ f.text \in Seq(STRING) /\ f.calls \in Seq(ChatCalls) /\ f.order \in Seq(Nat)
    /\ f.finish \in Finished /\ f.usage \in BOOLEAN /\ f.failed \in BOOLEAN
    /\ \A i \in DOMAIN f.slots : i \in Nat /\ f.slots[i] \in Slots
    /\ \A j \in DOMAIN f.order : f.order[j] \in DOMAIN f.slots

StreamOK(s) ==
    /\ DOMAIN s = DOMAIN StreamStart /\ DOMAIN s.calls = DOMAIN StreamStart.calls
    /\ s.text \in Seq(STRING) /\ s.finish \in Finished /\ s.error \in BOOLEAN
    /\ s.calls.best \subseteq {"path", "no_path", "malformed"} /\ s.calls.other \in BOOLEAN
    /\ IsFiniteSet(DOMAIN s.calls.slots)
    /\ \A i \in DOMAIN s.calls.slots : i \in Nat /\ s.calls.slots[i] \in StreamSlots

TypeOK ==
    /\ \E kind \in Kinds : job \in JobsOf(kind)
    /\ sent \in [said : Nat, calls : Seq([named : BOOLEAN, parts : Nat, ended : BOOLEAN]),
                 closed : BOOLEAN, finish : BOOLEAN, usage : BOOLEAN, torn : BOOLEAN]
    /\ ChatOK(chat) /\ StreamOK(stream)

Scored == result.kind = "Ok"
Made(call) == [id |-> call.id, tool |-> call.tool,
               args |-> IF Parsed([args |-> call.parts]) = "path" THEN "path" ELSE "no_path"]
MadeCalls ==
    FlattenSeq([k \in 1 .. Len(plan.calls) |->
        IF plan.calls[k].tool = "none" THEN <<>> ELSE <<Made(plan.calls[k])>>])

\* The calls of an answer are the calls the vendor made, in the order it
\* began them, with its ids and arguments, however their parts were mixed,
\* unless an end tore one apart; and a call that was torn apart never gets
\* the arguments of another.
CallsAsMade ==
    Scored =>
        /\ ~sent.torn => result.answer.calls = MadeCalls
        /\ \A got \in ToSet(result.answer.calls) : got.args = "path" =>
               \E c \in ToSet(MadeCalls) : c.tool = got.tool /\ c.args = "path"

Grade(paths, called) == IF paths THEN 2 ELSE IF called THEN 1 ELSE 0
ChatGrade(calls) ==
    Grade(\E c \in ToSet(calls) : c.tool = "read_file" /\ c.args = "path", calls # <<>>)
StreamGrade ==
    LET best == stream.calls.best \cup Flush(stream.calls.slots) IN
    Grade("path" \in best, best # {} \/ stream.calls.other)

\* A probe that streams a reply and one that waits for it come to the same
\* score and the same reason to stop, whatever the order of the events; when
\* an end tears a call apart the stream still reads what the vendor made.
ChatAndStreamAgree ==
    Scored =>
        /\ StreamGrade = ChatGrade(MadeCalls)
        /\ ~sent.torn => StreamGrade = ChatGrade(result.answer.calls)
        /\ \/ result.answer.finish = stream.finish
           \/ stream.finish = "Stop" /\ result.answer.finish = "ToolCalls" /\ MadeCalls # <<>>

\* A piece is in a thought when some opening tag, at it or before, has no
\* closing tag that is over before the piece.
InThought(text, i) ==
    \E j \in 1 .. i : TagAt(text, j, Open) /\ \A k \in j .. (i - 2) : ~TagAt(text, k, Close)

\* What a model thinks is no part of its answer, wherever the vendor cut the
\* tags, and nothing else of what it says is lost.
ThoughtsAreNotAnswers ==
    Scored =>
        result.answer.text =
            FlattenSeq([i \in 1 .. Len(plan.said) |->
                IF InThought(plan.said, i) THEN <<>> ELSE <<plan.said[i]>>])

\* A reply that failed or broke is no answer on either path: it must not be
\* scored by chat and end a stream with an error, or the other way round.
BrokenIsNeverScored ==
    /\ job.kind = "reply" /\ result # Pending => (Scored <=> ~stream.error)
    /\ Scored => ~(sent.finish /\ plan.reason \in {"failed", "FAILED"})

Texts(items) ==
    FlattenSeq([i \in 1 .. Len(items) |->
        items[i].text \o ContentText([parts |-> items[i].parts])])

\* Every text of a conversation is sent once, in its order, every image
\* outside the system's prompt once, and a tool's result after its call.
EachTextOnce ==
    result.kind = "Asked" =>
        LET items == result.items  msgs == job.messages IN
        /\ Texts(items) = FlattenSeq([i \in 1 .. Len(msgs) |-> ContentText(msgs[i].content)])
        /\ FlattenSeq([i \in 1 .. Len(items) |-> Images(items[i].parts)]) =
               FlattenSeq([i \in 1 .. Len(msgs) |->
                   IF msgs[i].role = "system" THEN <<>> ELSE Images(msgs[i].content.parts)])
        /\ \A i \in DOMAIN items : items[i].item = "output" =>
               \E j \in 1 .. (i - 1) : items[j].item = "call" /\ items[j].id = items[i].id

\* A host never tells canact that a model cannot see, and never changes what
\* a flag says; a host that fails or does not list the model adds nothing.
CatalogKeepsToTheFlags ==
    result.kind = "Hints" =>
        LET h == result.hints  rows == {r \in ToSet(job.host.rows) : r.id = job.model} IN
        /\ h.vision = "no" => job.flags.vision = "no"
        /\ job.flags.window # 0 => h.window = job.flags.window
        /\ job.flags.vision # "none" => h.vision = job.flags.vision
        /\ (job.host.fails \/ rows = {}) => (h.window = job.flags.window /\ h.vision = job.flags.vision)
        /\ h.window \in {job.flags.window} \cup {r.window : r \in rows}
        /\ h.vision = "yes" => (job.flags.vision = "yes" \/ \E r \in rows : r.vision = "yes")

\* What the runner makes of an error.
Answer(e) == Fail(e.kind, IF SaysWindow(Display(e)) THEN {"window"} ELSE {})
Broke == job.kind = "reply" /\ result.kind \notin {"Pending", "Ok"} /\ plan.breaks # NoBreak
         /\ ~(sent.finish /\ plan.reason \in {"failed", "FAILED"})

\* A reply that breaks ends the whole suite when the host refused the key,
\* could not be reached, or said that the model is missing, in a status or in
\* words, and goes on with the next probe otherwise.
SuiteEndsForTheHostAlone ==
    Broke =>
        (Aborts(Answer(result)) <=>
            \/ plan.breaks.class \in {"Auth", "NotFound"}
            \/ plan.breaks.class = "Transient" /\ plan.breaks.connect
            \/ plan.breaks.class \in {"Vendor", "Map"} /\ SaysNotFound(plan.breaks.text))

\* No error text holds the key that the vendor's text carried.
NoKeyIsTold == Broke => "KEY" \notin ToSet(result.text)

\* Taking the keys out of a text takes out none of the phrases that the
\* suite looks for in it, and puts none in; a limit on tokens per minute is
\* never read as the window of the model.
WhatItSaysSurvives ==
    Broke =>
        /\ SaysWindow(result.text) <=> SaysWindow(plan.breaks.text)
        /\ SaysNotFound(result.text) <=> SaysNotFound(plan.breaks.text)
        /\ SaysWindow(Display(result)) =>
               plan.breaks.class # "RateLimit" /\ ~Holds(result.text, Phrase(<<"tokens", "per", "min">>))

\* A conversation is sent as it was given; and however a reply is cut and
\* whichever way it is read, it is read as the vendor made it.
ReadAsSent == EachTextOnce /\ CallsAsMade /\ ChatAndStreamAgree /\ ThoughtsAreNotAnswers

\* An error is judged by what broke the reply, and told without the keys and
\* with what it says.
ErrorsAreToldRight == SuiteEndsForTheHostAlone /\ NoKeyIsTold /\ WhatItSaysSurvives
=============================================================================
