---------------------------- MODULE MCProbeSuite ----------------------------
(* Instances of ProbeSuite for TLC: four probes in the first join!, three in *)
(* the second, and for each call the answers that lead to different rows.    *)
EXTENDS ProbeSuite

MCWave1 == <<"tool_calling", "json_output", "code_syntax", "vision">>
MCWave2 == <<"one_shot_tool_plan", "multi_turn_task_sequencing", "multi_turn_memory">>

MCAnswers ==
    [c \in Calls |->
        CASE c = "tool_calling" ->
                {Ok("Strong"), Ok("Weak"), Fail("Auth", {}), Fail("Llm", {"no_tools"}),
                 Fail("Safety", {"no_tools"})}
          [] c = "json_output" -> {Ok("Medium"), Fail("NotFound", {}), Fail("Transient", {}),
                 Fail("Transient", {"no_tools"})}
          [] c = "code_syntax" -> {Ok("Medium"), Fail("Llm", {"no_tools"})}
          [] c = "vision" -> {Ok("Strong"), Fail("Llm", {"image_too_large"})}
          [] c = "multi_turn_task_sequencing" ->
                {Ok("Strong"), Fail("Unreachable", {}), Fail("Llm", {"malformed_call"})}
          [] c = "ladder" ->
                {Fail("Transient", {}), Fail("Safety", {"window"}),
                 Fail("Llm", {"window"}), Fail("RateLimit", {"window"})}
          [] c = "max_output_tokens" -> {Ok("none"), Fail("Llm", {}), Fail("RateLimit", {})}
          [] c = "xml_tool_calling" -> {Ok("Medium"), Fail("Auth", {}), Fail("Internal", {})}
          [] OTHER -> {Ok("Medium")}]

MCMisses == {[hits |-> 2, finish |-> "Stop"], [hits |-> 1, finish |-> "Length"]}

\* A runner used twice, one call at a time, with the program's own lists.
TwiceAnswers ==
    [c \in Calls |->
        CASE c = "tool_calling" -> {Ok("Strong"), Ok("Weak")}
          [] c = "json_output" -> {Ok("Medium"), Fail("Auth", {})}
          [] c = "ladder" -> {Fail("Transient", {})}
          [] c \in {"multi_turn_task_sequencing", "xml_tool_calling"} ->
                {Ok("Medium"), Fail("Unreachable", {})}
          [] c = "max_output_tokens" -> {Ok("none")}
          [] OTHER -> {Ok("Medium")}]
=============================================================================
