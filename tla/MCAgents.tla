------------------------------ MODULE MCAgents ------------------------------
(***************************************************************************)
(* Agents for TLC: texts, plan steps and workers are strings, node names   *)
(* are the source's.                                                       *)
(***************************************************************************)
EXTENDS Agents

MCName == {"model", "tools", "plan", "execute", "replan", "supervisor", "trap",
           "w1", "w2", "a", "b"}

(* b has no tools; an agent may not hand off to itself, so it does not     *)
(* declare the handoff to its own name that its model may ask for.         *)
MCAgents ==
  [a |-> [handoffs |-> {"b"}, tools |-> TRUE],
   b |-> [handoffs |-> {"a"}, tools |-> FALSE]]

=============================================================================
