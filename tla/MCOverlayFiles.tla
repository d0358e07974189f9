--------------------------- MODULE MCOverlayFiles ---------------------------
(***************************************************************************)
(* OverlayFiles with a model under two labels of one family, one of them   *)
(* with a prefixed id, and another model, over user files with rows of     *)
(* strangers, with doubled rows under aliases, and with broken metadata.   *)
(***************************************************************************)
EXTENDS OverlayFiles

MCModels == {[label |-> "groq", id |-> <<"a">>],
             [label |-> "api.groq.com", id |-> <<"groq", "a">>],
             [label |-> "localhost:1234", id |-> <<"b">>]}

Line(kind, what) == [kind |-> kind, what |-> what]

Stranger == Incoming(<<"openrouter", "groq", "a">>, 8)
Strangers == <<Line("comment", <<>>)>> \o Stranger \o Incoming(<<"m">>, 9)
Doubled == Incoming(<<"groq.com", "a">>, 8) \o Stranger \o Incoming(<<"api.groq.com", "a">>, 9)
               \o <<Line("dash", <<"vllm", "b">>)>>
Fresh == [settings |-> <<>>, metadata |-> NotJson, exists |-> {}]

MCUserFiles ==
    {Fresh,
     [settings |-> Strangers, exists |-> {"settings", "metadata"},
      metadata |-> Object([n \in {<<"m">>, <<"groq.com", "a">>} |-> 9])],
     [settings |-> Doubled, exists |-> {"settings", "metadata"},
      metadata |-> Object([n \in {<<"api.groq.com", "a">>, <<"groq.com", "a">>} |-> 8])],
     [settings |-> Doubled, exists |-> {"settings"}, metadata |-> NotJson],
     [settings |-> Strangers, exists |-> {"settings", "metadata"}, metadata |-> NotJson]}

MCLinks == {{}, {"metadata"}, {"cline"}}
=============================================================================
