---------------------------- MODULE MCHostPolicy ----------------------------
(***************************************************************************)
(* HostPolicy with rows that move one or two at a time away from a run     *)
(* that answers alike: the dimensions the getters and the cells read.      *)
(***************************************************************************)
EXTENDS HostPolicy

MCMoving == Dimensions \ ((Diagnostics \ {"system_message_adherence"})
                   \cup {"one_shot_tool_plan", "context_faithfulness"})
=============================================================================
