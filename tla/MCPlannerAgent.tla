--------------------------- MODULE MCPlannerAgent ---------------------------
(* Small instances of PlannerAgent.                                        *)
EXTENDS PlannerAgent

CONSTANTS q1, q2

Cs == {"shanghai", "beijing"}
Hints == {"weather", "map", "budget", "mcp_map", NoTool, "unknown"}

Query1(cities, budget, mcp) ==
    [cities |-> cities, budget |-> budget, trip |-> budget, days |-> FALSE,
     shanghai3 |-> FALSE, mcp |-> mcp]

\* One city, two, none; the whole trip by budget or by days; with and without mcp.
MCQueries ==
    {Query1(<<>>, FALSE, FALSE), Query1(<<"shanghai">>, TRUE, TRUE),
     Query1(<<"shanghai", "beijing">>, TRUE, FALSE),
     Query1(<<"shanghai", "beijing">>, FALSE, TRUE),
     [Query1(<<"shanghai">>, FALSE, TRUE) EXCEPT !.shanghai3 = TRUE],
     [Query1(<<>>, TRUE, FALSE) EXCEPT !.days = TRUE]}

\* All tools, mcp tools only, some of both, one, none that a section uses, none.
MCToolSets ==
    {{"weather", "map", "budget"}, {"mcp_weather", "mcp_map", "mcp_budget"},
     {"weather", "mcp_weather", "mcp_budget"}, {"map"},
     {"echo"}, {}}

T(on, synthesis, size, tool) ==
    [on |-> on, of |-> "trip", synthesis |-> synthesis, size |-> size, tool |-> tool]

\* What a model writes about: the sections, a repeated budget, a synthesis that
\* takes a tool, and one that sounds like a budget.
ModelTasks ==
    {T("weather", FALSE, 1, "weather"), T("map", FALSE, 1, "map"),
     T("budget", FALSE, 1, "budget"), T("budget", FALSE, 2, "budget"),
     T("budget", TRUE, 2, "budget"), T("trip", TRUE, 1, "map")}

RuleTasks ==
    [on : {"weather", "map", "budget"}, of : Cs \cup {"trip"}, synthesis : {FALSE},
     size : {1}, tool : {"weather", "map", "budget", "mcp_weather", "mcp_map",
                         "mcp_budget", NoTool}]

MCTasks == RuleTasks \cup ModelTasks \cup {WithoutTools[1].task}
               \cup {[t EXCEPT !.tool = NoTool] : t \in ModelTasks}

\* Lists of up to three steps; ids repeat or leave a gap, and each step may depend
\* on the step that the list has before it, or on one it has not.
MCModelLists ==
    {[k \in 1..n |-> [id |-> ids[k], task |-> tasks[k],
                      deps |-> IF k = 1 THEN {} ELSE chain[k - 1]]] :
        n \in {3}, ids \in {<<1, 2, 3>>, <<2, 1, 4>>, <<1, 1, 2>>},
        tasks \in [1..3 -> ModelTasks], chain \in {<<{1}, {2}>>, <<{}, {1, 7}>>}}
=============================================================================
