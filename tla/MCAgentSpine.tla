---------------------------- MODULE MCAgentSpine ----------------------------
(***************************************************************************)
(* Two turns of a model that asks for calls the policy trusts, submits to  *)
(* the user or forbids, with budgets that each run out on some path.       *)
(***************************************************************************)
EXTENDS AgentSpine

MCSetups ==
  {[budget |-> [rounds |-> 2, calls |-> 2, tools |-> 4, models |-> 2],
    wrapped |-> FALSE],
   [budget |-> [rounds |-> 2, calls |-> 1, tools |-> 2, models |-> 1],
    wrapped |-> TRUE]}
=============================================================================
