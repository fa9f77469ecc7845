----------------------------- MODULE PlannerRules -----------------------------
(***************************************************************************)
(* The plans that RuleBasedLLMClient (core/llm/rule_based.py) writes, and  *)
(* normalize_plan (plan/repair.py), which every plan goes through.         *)
(*                                                                         *)
(* Texts are abstracted to what the code looks for in them.  A query is    *)
(* the cities it names, and whether it speaks of a budget, a trip, a       *)
(* number of days, three days in Shanghai, and mcp.  A step's task is the  *)
(* section its text is about, the city it names, whether it sounds like a  *)
(* synthesis, how long the text is, and its tool hint.                     *)
(***************************************************************************)
EXTENDS PlanRepair

CONSTANT Cities \* cities a query may name

Sections == <<"weather", "map", "budget">>
McpOf == [weather |-> "mcp_weather", map |-> "mcp_map", budget |-> "mcp_budget"]
NoTool == "none"

ASSUME PlannerTasksAssumption ==
    Tasks \subseteq [on : {"weather", "map", "budget", "trip"}, of : Cities \cup {"trip"},
                     synthesis : BOOLEAN, size : Nat, tool : STRING]

Query == [cities : Seq(Cities), budget : BOOLEAN, trip : BOOLEAN, days : BOOLEAN,
          shanghai3 : BOOLEAN, mcp : BOOLEAN]

\* _extract_available_tools: the planner's prompt names the tools, but none if
\* the registry is empty.
ToolsRead(registered) == IF registered = {} THEN {"weather", "map", "budget"} ELSE registered

\* _pick_tool: of the two tools of a section the one preferred, if it is there.
PickTool(section, available, preferMcp) ==
    LET both == {section, McpOf[section]} \cap available
    IN CASE both = {} -> NoTool
         [] section \in both /\ ~(preferMcp /\ McpOf[section] \in both) -> section
         [] OTHER -> McpOf[section]

TaskOf(section, city, tool) ==
    [on |-> section, of |-> city, synthesis |-> FALSE, size |-> 1, tool |-> tool]

\* _is_trip_with_budget.
TripWithBudget(q) == q.budget /\ q.trip /\ (q.cities # <<>> \/ q.days)

\* The sections that have a tool.
Available(tools) ==
    Picked(Sections, Numbers(Len(Sections),
        LAMBDA k : PickTool(Sections[k], tools, FALSE) # NoTool))

WithoutTools == <<[id |-> 1, task |-> TaskOf("trip", "trip", NoTool), deps |-> {}]>>

\* A step for each section that has a tool, after all the steps before it.
ChainSteps(tools, preferMcp) ==
    LET parts == Available(tools)
    IN [k \in DOMAIN parts |->
           [id |-> k, deps |-> 1..(k - 1),
            task |-> TaskOf(parts[k], "trip", PickTool(parts[k], tools, preferMcp))]]

\* _build_trip_weather_map_budget_plan.
TripPlan(tools, preferMcp) ==
    IF Available(tools) = <<>> THEN WithoutTools ELSE ChainSteps(tools, preferMcp)

\* _build_complex_plan and _build_default_plan differ in their texts.
PlainPlan(tools) == IF Available(tools) = <<>> THEN WithoutTools ELSE ChainSteps(tools, FALSE)

DualCityTask(cities, tools, k) ==
    LET section == Available(tools)[((k - 1) \div Len(cities)) + 1]
        city == cities[((k - 1) % Len(cities)) + 1]
    IN TaskOf(section, city, PickTool(section, tools, FALSE))

\* The earlier steps of the city of step k, of n cities.
SameCity(n, k) == {j \in 1..(k - 1) : j % n = k % n}

\* Seeded fault: step_id is not advanced from one weather step to the next.
DualCitySteps1(cities, tools) ==
    LET n == Len(cities)
    IN [k \in 1..(n * Len(Available(tools))) |->
           [id |-> IF k <= n THEN 1 ELSE k, deps |-> SameCity(n, k),
            task |-> DualCityTask(cities, tools, k)]]

\* Section by section a step for each city, after the steps of the same city.
DualCitySteps(cities, tools) ==
    LET n == Len(cities)
    IN [k \in 1..(n * Len(Available(tools))) |->
           [id |-> k, deps |-> SameCity(n, k), task |-> DualCityTask(cities, tools, k)]]

\* _build_dual_city_plan.
DualCityPlan(cities, tools) ==
    IF Available(tools) = <<>> THEN WithoutTools ELSE DualCitySteps(cities, tools)

\* _build_plan_for_query.
RulePlan(q, tools) ==
    CASE Len(q.cities) >= 2 -> DualCityPlan(q.cities, tools)
      [] Len(q.cities) < 2 /\ (TripWithBudget(q) \/ q.shanghai3) -> TripPlan(tools, q.mcp)
      [] OTHER -> PlainPlan(tools)

\* Seeded fault: the step depends on itself and on all the steps before it.
BudgetStepAfterAll(tools, completed) ==
    [id |-> 1, deps |-> completed \cup {Max(completed \cup {0}) + 1},
     task |-> TaskOf("budget", "trip", PickTool("budget", tools, FALSE))]

BudgetStep(tools, completed) ==
    [id |-> 1, deps |-> completed,
     task |-> TaskOf("budget", "trip", PickTool("budget", tools, FALSE))]

\* _build_replan_steps.  Besides the goal it searches the whole message, with
\* the context and the results in it (elsewhere): the whole trip or the budget.
RuleReplan(q, elsewhere, tools, completed) ==
    IF TripWithBudget(q) \/ elsewhere THEN TripPlan(tools, q.mcp)
    ELSE <<BudgetStep(tools, completed)>>

-----------------------------------------------------------------------------
IsBudgetStep(step) == step.task.tool = "budget" \/ step.task.on = "budget"

\* deduplicate_budget_steps: the one with the longest text stays.
OneBudgetStep(list) ==
    LET all == {k \in DOMAIN list : IsBudgetStep(list[k])}
        Longer(k, j) == \/ list[k].task.size > list[j].task.size
                        \/ list[k].task.size = list[j].task.size /\ k <= j
    IN IF Cardinality(all) <= 1 THEN list
       ELSE Picked(list, Numbers(Len(list),
                LAMBDA k : k \in all => \A j \in all : Longer(k, j)))

\* Seeded fault: the steps that sound like a synthesis are left out.
SynthesisClearedOut(list) ==
    Picked(list, Numbers(Len(list),
        LAMBDA k : list[k].task.tool = NoTool \/ ~list[k].task.synthesis))

\* normalize_synthesis_steps.
SynthesisCleared(list) ==
    [k \in DOMAIN list |->
        IF list[k].task.synthesis THEN [list[k] EXCEPT !.task.tool = NoTool] ELSE list[k]]

ToolRank(step) == CASE step.task.tool = "weather" -> 0
                    [] step.task.tool = "map" -> 1
                    [] step.task.tool = "budget" -> 2
                    [] OTHER -> 99

\* prefer_tool_execution_order.
PreferredOrder(list) ==
    Picked(list, InOrder(DOMAIN list,
        LAMBDA i, j : \/ ToolRank(list[i]) < ToolRank(list[j])
                      \/ ToolRank(list[i]) = ToolRank(list[j]) /\ i < j))

\* normalize_plan.
Normalized(list) ==
    Renumbered(PreferredOrder(SynthesisCleared(OneBudgetStep(RemoveDuplicates(list)))))

\* assert_valid takes the list, with the tools registered.
Accepted(list, registered) ==
    /\ \A k \in DOMAIN list : list[k].id = k
    /\ ValidPlan(ListPlan(list))
    /\ \A k \in DOMAIN list : list[k].task.tool \in registered \cup {NoTool}
=============================================================================
