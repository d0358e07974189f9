---------------------------- MODULE MCChatAdapter ----------------------------
(***************************************************************************)
(* ChatAdapter over conversations of every role, replies of up to three    *)
(* calls side by side or in sequence, texts that carry keys in every way   *)
(* that canact looks for, and lists of models with doubled rows.           *)
(***************************************************************************)
EXTENDS ChatAdapter

Text(body) == [type |-> "text", body |-> body]
Image(body) == [type |-> "image", body |-> body]
OneText(body) == [whole |-> TRUE, parts |-> <<Text(body)>>]
Parts(parts) == [whole |-> FALSE, parts |-> parts]

Contents == {OneText(""), OneText("a"), Parts(<<>>), Parts(<<Text("b"), Image("i"), Text("c")>>),
             Parts(<<Image("i"), Text(""), Image("j")>>)}
Msg(role, content, calls, id) == [role |-> role, content |-> content, calls |-> calls, id |-> id]

Asks == {[kind |-> "ask",
          messages |-> <<Msg("system", s, <<>>, ""), Msg("user", u, <<>>, ""),
                         Msg("assistant", a, calls, "")>>
                       \o [i \in 1 .. Len(calls) |-> Msg("tool", t, <<>>, calls[i])]] :
         s \in Contents, u \in Contents, a \in Contents, t \in Contents,
         calls \in {<<>>, <<"c1">>, <<"c1", "c2">>}}

Rows == [id : {"m", "other"}, window : {0, 8, 9}, vision : {"none", "yes", "no"}]
Lists == {<<>>} \cup {<<r>> : r \in Rows} \cup {<<r, s>> : r \in Rows, s \in {x \in Rows : x.id = "m"}}
Catalogs == {[kind |-> "catalog", model |-> "m", flags |-> f, host |-> [fails |-> b, rows |-> l]] :
             f \in [window : {0, 7}, vision : {"none", "yes", "no"}], b \in BOOLEAN, l \in Lists}

-----------------------------------------------------------------------------

Call(index, id, tool, parts) == [index |-> index, id |-> id, tool |-> tool, parts |-> parts]
Path == <<"head", "tail">>
Calls == {<<>>,
          <<Call(0, "c1", "read_file", Path)>>,
          <<Call(0, "c1", "read_file", Path), Call(1, "c2", "read_file", <<"bare">>)>>,
          <<Call(1, "c1", "read_file", <<"tail">>), Call(0, "c2", "list_dir", Path)>>,
          <<Call(0, "c1", "none", Path), Call(1, "c2", "read_file", Path)>>,
          <<Call(0, "c1", "run_tests", <<>>), Call(1, "c2", "read_file", Path),
            Call(2, "c3", "read_file", <<"head">>)>>}

\* A vendor that ends each call may use its index again.
Reused == <<Call(0, "c1", "read_file", Path), Call(0, "c2", "list_dir", <<"bare">>)>>

Sayings == {<<>>, <<"say">>, <<"<th", "ink>", "think", "</th", "ink>", "say">>,
            <<"say", "<th", "ink>", "think", "<th", "ink>", "</th", "ink>", "say", "<th", "ink>", "think">>,
            <<"</th", "ink>", "<th", "say", "ink>">>}
Reasons == {"none", "stop", "STOP", "tool_use", "MAX_TOKENS", "SAFETY", "MALFORMED_FUNCTION_CALL",
            "failed", "FAILED"}

Failure(class, connect, text) == [class |-> class, connect |-> connect, text |-> text]
Reset == Failure("Transient", FALSE, Phrase(<<"connection", "reset">>))

Plan(said, calls, ends, parallel, split, reason, usage, breaks) ==
    [kind |-> "reply",
     plan |-> [said |-> said, calls |-> calls, ends |-> ends, parallel |-> parallel,
               split |-> split, reason |-> reason, usage |-> usage, breaks |-> breaks]]

\* Replies of any shape, with little text, and replies of text alone.
Shapes == {Plan(<<"say">>, c, e, p, s, r, FALSE, Reset) :
           c \in Calls, e \in {"each", "once", "never"}, p \in BOOLEAN, s \in BOOLEAN,
           r \in {"none", "tool_use", "STOP"}}
Again == {Plan(<<"say">>, Reused, "each", FALSE, s, r, FALSE, NoBreak) :
          s \in BOOLEAN, r \in {"none", "stop"}}
Talks == {Plan(said, c, "never", TRUE, FALSE, r, u, b) :
          said \in Sayings, r \in Reasons, u \in BOOLEAN, b \in {NoBreak, Reset},
          c \in {<<>>, <<Call(0, "c1", "read_file", <<"bare">>)>>}}

-----------------------------------------------------------------------------

Carriers == {<<>>, <<"authorization", ":", Space, "bearer", Space, "KEY">>,
             <<"'", "authorization", "'", ":", "'", "bearer", Space, "sk-", "KEY", "'">>,
             <<"x-api-key", "=", "KEY", "-", "KEY", "&">>, <<"'", "x-api-key", "'", ":", "'", "KEY", "'">>,
             <<"bearer", Space, "KEY", ".", "KEY">>, <<"(", "sk-", "KEY", "_", "KEY", ")">>}
Said == {<<>>, Phrase(<<"does", "not", "exist">>), <<"model_not_found">>,
         Phrase(<<"the", "model", "was", "not", "found">>), Phrase(<<"http", "404">>),
         Phrase(<<"maximum", "context", "length">>), Phrase(<<"request", "too", "large">>),
         Phrase(<<"request", "too", "large", "tokens", "per", "min">>), RateLimited}
Joints == {<<Space>>, <<",">>, <<",", "'">>}
Worded(said, carrier, other, joint) == carrier \o joint \o said \o joint \o other

Texts3 == {Worded(s, c, o, j) : s \in Said, c \in Carriers, o \in Carriers, j \in Joints}
Connecting == {ConnectPrefix \o t : t \in {<<>>, <<Space>>, <<Space, "refused">>}}
Classes == {"Auth", "NotFound", "RateLimit", "Vendor", "Map", "Transport", "Transient"}

Breaks == {Plan(<<>>, <<>>, "never", FALSE, FALSE, "stop", FALSE, Failure(c, FALSE, t)) :
           c \in Classes, t \in Texts3}
Refused == {Plan(<<>>, <<>>, "never", FALSE, FALSE, "stop", FALSE, Failure("Transient", TRUE, t)) :
            t \in Texts3}
Closed == {Plan(<<>>, <<>>, "never", FALSE, FALSE, "stop", FALSE, Failure("Transient", TRUE, t)) :
           t \in Connecting}

MCKinds == {"ask", "catalog", "shape", "again", "talk", "break", "refused", "closed"}
MCJobsOf(kind) ==
    CASE kind = "ask" -> Asks [] kind = "catalog" -> Catalogs
      [] kind = "shape" -> Shapes [] kind = "again" -> Again [] kind = "talk" -> Talks
      [] kind = "break" -> Breaks [] kind = "refused" -> Refused [] kind = "closed" -> Closed
=============================================================================
