---------------------------- MODULE MCGradeProbe ----------------------------
(***************************************************************************)
(* GradeProbe on small replies.  Pieces lists, for each probe, the pieces  *)
(* that reach every case of its grader; MaxPieces is long enough for a     *)
(* reply with full marks and one piece more, except where noted.           *)
(***************************************************************************)
EXTENDS GradeProbe

CONSTANTS p1, p2, p3, p4, p5, p6   \* paths

Calls(tools, args) == [tool : tools, args : args]
Opening(index, tool) == [ev |-> "Start", index |-> index, tool |-> tool]
Delta(index, part) == [ev |-> "Delta", index |-> index, part |-> part]

\* What the model may say to each probe that takes calls.
CallPieces ==
    [tool_calling               |-> Calls({"read_file"}, {"full", "part"}) \cup
                                    Calls({"blank", "other"}, {"full"}),
     complex_tool_calling       |-> Calls({"read_file", "list_dir"}, {"full", "part"}) \cup
                                    Calls({"other"}, {"full"}),
     nested_arguments           |-> Calls({"edit_file"}, {"full", "pathless", "array", "object", "part"}) \cup
                                    Calls({"other"}, {"full"}),
     tool_selection             |-> Calls({"doc_set", "search", "md_replace_section"}, {"full", "part"}) \cup
                                    Calls({"edit_file", "run_command"}, {"full"}),
     parallel_tool_scale        |-> Calls({"read_file"}, {p1, p2, p3, p4, p5, p6, "part"}) \cup
                                    Calls({"other"}, {p1}),
     one_shot_tool_plan         |-> Calls(Chain, {"full", "part"}) \cup
                                    Calls({"other"}, {"full"}),
     multi_turn_task_sequencing |-> Calls({"read_file", "run_command"}, {"full", "part"}) \cup
                                    Calls({"edit_file"}, {"full"}),
     streaming_tool_calls       |-> {Opening(0, "read_file"), Opening(1, "read_file"),
                                     Opening(1, "list_dir"),
                                     Delta(0, "head"), Delta(0, "tail"),
                                     Delta(1, "head"),
                                     [ev |-> "End"]}]

\* And to the probes that read text, and the readings of code.
TextPieces ==
    [xml_tool_calling         |-> {"open", "close", "name_read", "name_card",
                                   "args_path", "args_card", "args_open"},
     json_output              |-> {"{", "}", "[", "]", "key", "right", "string_hello"},
     instruction_following    |-> {"Paris", "word", "fence"},
     multi_turn_memory        |-> {"ZEPHYR", "4829", "refusal", "word"},
     system_message_adherence |-> {"STATUS:ok", "integer", "word"},
     token_efficiency         |-> {1, 39, 160, 400},
     max_tokens_compliance    |-> {1, 400, 401},
     effective_context_tokens |-> {"WH-4481", "proto-9.2.11", "2840", "2.84",
                                   "seconds", "ms", "nl"},
     context_faithfulness     |-> {"9847", "3.7.42", "1750", "1.75", "timeout",
                                   "s", "ms", "minutes"},
     vision                   |-> DOMAIN Text!PhraseTables,
     code_syntax              |-> {"def", "return", "pass", "open", "dots", "col0", "fence"},
     search_replace           |-> {"start", "path", "old", "sep", "new", "end"},
     unified_diff             |-> {"---", "+++", "@@", "-old", "+new",
                                   "-removed line", "+added line"},
     code_text                |-> {"q", "d", "h", "b", "n", "s"},
     edit_text                |-> {"q", "d", "r", "h", "/", "*", "b", "n", "x"},
     signature                |-> {"(", ")", "name", ":", ",", "->"}]

CallLengths ==
    [tool_calling |-> 3, complex_tool_calling |-> 4, nested_arguments |-> 3,
     tool_selection |-> 4, parallel_tool_scale |-> 6, one_shot_tool_plan |-> 4,
     multi_turn_task_sequencing |-> 2, streaming_tool_calls |-> 5]

TextLengths ==
    [xml_tool_calling |-> 5, json_output |-> 5, instruction_following |-> 6,
     multi_turn_memory |-> 3, system_message_adherence |-> 3, token_efficiency |-> 3,
     max_tokens_compliance |-> 3, effective_context_tokens |-> 4,
     context_faithfulness |-> 4, vision |-> 3, code_syntax |-> 5,
     search_replace |-> 6, unified_diff |-> 5, code_text |-> 6, edit_text |-> 5,
     signature |-> 6]

MCPieces == CallPieces @@ TextPieces
MCMaxPieces == CallLengths @@ TextLengths

\* Four of the paths: all six have 720 permutations to try at every state.
Paths == Permutations({p1, p2, p3, p4})

=============================================================================
