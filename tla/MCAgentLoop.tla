---------------------------- MODULE MCAgentLoop ----------------------------
(***************************************************************************)
(* Model checking of AgentLoop: two batches around changes of the weights, *)
(* one permit for all tools, answers that call more tools than are made at *)
(* a time, tool turns that just fit and just do not, prompts that leave    *)
(* room for a whole response, for a part of one, and that cannot be        *)
(* joined.                                                                 *)
(***************************************************************************)
EXTENDS AgentLoop

\* One short prompt, all others of full length or longer than was configured.
MCPrompts ==
  LET first == CHOOSE r \in Row : TRUE
  IN  {[r \in Row |-> IF r = first THEN 1 ELSE n] : n \in {PromptLength, PromptLength + 1}}

=============================================================================
