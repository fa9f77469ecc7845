------------------------ MODULE MCPlanOrchestration ------------------------
(* Small instances of PlanOrchestration.                                   *)
EXTENDS PlanOrchestration, TLC

CONSTANTS r1, r2, weather, map, mcp_map, hotel, summary, unknown

MCTasks == {weather, map, mcp_map, hotel, summary, unknown}
MCToolTasks == {weather, map, mcp_map, hotel, unknown}
MCKindOf == (weather :> "weather") @@ (map :> "route") @@ (mcp_map :> "route")
MCNativeTool == [weather |-> weather, route |-> map]

S(t, d) == [task |-> t, deps |-> d]
L(n, t, d) == [id |-> n, task |-> t, deps |-> d]

\* A step with a tool, one without, and the server's tool before one that has
\* no arguments.
MCPlans == {<<S(weather, {})>>, <<S(mcp_map, {}), S(summary, {1})>>,
            <<S(weather, {}), S(hotel, {})>>}

\* New steps, and a tool that is not registered.
MCLists == {<<L(1, map, {})>>, <<L(1, weather, {}), L(2, unknown, {1})>>}
MCFallback == {<<L(1, map, {1})>>}

MCProposals == {<<S(map, {})>>, <<S(map, {4})>>}
\* A list that repeats what is done, then one out of order.
KeptPlans == {<<S(weather, {})>>}
KeptLists == {<<L(1, weather, {})>>,
              <<L(4, map, {3}), L(1, hotel, {}), L(2, summary, {}), L(3, mcp_map, {})>>}
KeptFallback == {<<L(1, unknown, {})>>}

MCGoals == {{"weather"}, {"weather", "route"}}
=============================================================================
