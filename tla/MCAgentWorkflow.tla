-------------------------- MODULE MCAgentWorkflow --------------------------
(* Small instances of AgentWorkflow.                                       *)
EXTENDS AgentWorkflow

CONSTANTS weather, map, budget, hotel, unknown

MCTasks == {weather, map, budget, hotel, unknown}

S(t, d) == [task |-> t, deps |-> d]
L(n, t, d) == [id |-> n, task |-> t, deps |-> d]

\* A chain, parallel first steps, and a step behind one of them, the one whose
\* status the merge keeps or the other.
MCChain == <<S(weather, {}), S(map, {1})>>
MCParallel == <<S(hotel, {}), S(weather, {})>>
MCFork == <<S(hotel, {}), S(weather, {}), S(map, {2})>>
MCLostFork == <<S(hotel, {}), S(weather, {}), S(map, {1})>>
MCPlans == {MCChain, MCParallel, MCFork, MCLostFork}

(***************************************************************************)
(* What the language model may return: nothing, one new step, a dependency *)
(* on a later step, equal ids, an unregistered tool, the completed steps   *)
(* copied in front of a new one as the replan prompt asks.                 *)
(***************************************************************************)
MCCopy == <<L(1, weather, {}), L(2, map, {1}), L(3, budget, {1, 2})>>
MCLists ==
    {<<>>, <<L(1, budget, {})>>, <<L(1, unknown, {})>>,
     <<L(1, budget, {3}), L(3, hotel, {1})>>,
     <<L(2, budget, {}), L(2, hotel, {2})>>,
     MCCopy}

\* The rule-based client asks for one budget step.
MCFallback == {<<L(1, budget, {1})>>}

MCCopyLists == {MCCopy}
MCChainOnly == {MCChain}
MCNoProposals == {}
=============================================================================
