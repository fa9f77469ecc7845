-------------------------- MODULE MCPlanExecution --------------------------
(* Small instances of PlanExecution.                                        *)
EXTENDS PlanExecution

CONSTANTS r1, r2, weather, map, summary, unknown

MCTasks == {weather, map, summary, unknown}
MCToolTasks == {weather, map, unknown}

S(t, d) == [task |-> t, deps |-> d]

\* One step, a chain, a fork that closes, steps without a tool or dependencies.
MCPlans == { <<S(weather, {})>>,
             <<S(weather, {}), S(map, {1}), S(weather, {1, 2})>>,
             <<S(summary, {}), S(weather, {}), S(map, {})>> }

\* No steps, valid and invalid dependencies, siblings, an unknown tool.
MCProposals == { <<>>,
                 <<S(map, {})>>,
                 <<S(map, {1})>>,
                 <<S(weather, {3})>>,
                 <<S(weather, {}), S(unknown, {1})>> }
=============================================================================
