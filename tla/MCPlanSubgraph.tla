--------------------------- MODULE MCPlanSubgraph ---------------------------
(* Small instances of PlanSubgraph.  Proposed steps have tasks of their own, *)
(* so that the history tells a replacement from the step it replaces.       *)
EXTENDS PlanSubgraph

CONSTANTS t1, t2, t3, t4, n1, n2, n3

MCTasks == {t1, t2, t3, t4, n1, n2, n3}

S(t, d) == [task |-> t, deps |-> d]

Plan4(d2, d3, d4) == <<S(t1, {}), S(t2, d2), S(t3, d3), S(t4, d4)>>

\* All dependencies among up to four steps.
MCAllPlans ==
    {<<S(t1, {}), S(t2, d2), S(t3, d3)>> :
        d2 \in SUBSET {1}, d3 \in SUBSET {1, 2}}
    \cup {Plan4(d2, d3, d4) :
        d2 \in SUBSET {1}, d3 \in SUBSET {1, 2}, d4 \in SUBSET {1, 2, 3}}

MCProposals == {<<>>, <<S(n1, {})>>, <<S(n1, {}), S(n2, {1})>>,
                <<S(n1, {}), S(n2, {}), S(n3, {})>>}
=============================================================================
