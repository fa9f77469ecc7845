----------------------------- MODULE PlannerAgent -----------------------------
(***************************************************************************)
(* PlannerAgent (agents/planner.py) from the question to the language      *)
(* model (module ModelCalls) to the plan: what the model or the rules      *)
(* wrote (module PlannerRules) is normalized, by create_plan and again by  *)
(* planner_node, and validated; new steps are put into a plan that was     *)
(* executed in part, by the executor or by the controller.                 *)
(*                                                                         *)
(* All of that runs without an await and does not act on other questions:  *)
(* it is looked at once the questions are settled, for one of them.        *)
(***************************************************************************)
EXTENDS ModelCalls, PlannerRules

CONSTANTS Queries,   \* queries of users
          ToolSets,  \* what the registry may have
          ModelLists \* step lists that a language model may write

ASSUME QueriesAssumption ==
    Queries \subseteq Query /\ \A l \in ModelLists : l \in Seq(ListedStep)

\* Which tools are registered is in ToolSets here, not in the tasks.
ASSUME RegistryAssumption == Unregistered = {}

VARIABLE made \* what became of the answer

agentVars == <<vars, made>>

Nothing == [kind |-> "none"]

AgentInit == Init /\ made = Nothing

\* complete() returned an answer that the planner can use.  From here on nothing
\* of the questions is looked at.
HandOver(q) ==
    /\ \A p \in Questions : question[p].at = "ended"
    /\ made = Nothing
    /\ question[q].caller \in {"planner", "replanner"} /\ question[q].result = "used"
    /\ made' = [kind |-> "answer", to |-> question[q].caller, by |-> question[q].by]
    /\ question' = [p \in Questions |->
          [question[p] EXCEPT !.attempt = 0, !.requests = 0, !.total = 0, !.caller = "critic",
                              !.text = "none", !.by = "none", !.result = "used"]]
    /\ provider' = "rule_based" /\ events' = <<>>

\* What the planner parses.
Answers(by, query, tools) == IF by = "model" THEN ModelLists
                               ELSE {RulePlan(query, ToolsRead(tools))}

\* create_plan, planner_node.
MakePlan ==
    /\ made.kind = "answer" /\ made.to = "planner"
    /\ \E query \in Queries, tools \in ToolSets :
          \E raw \in Answers(made.by, query, tools) :
             made' = [kind |-> "plan", by |-> made.by, tools |-> tools,
                      raw |-> raw, steps |-> Normalized(Normalized(raw))]
    /\ UNCHANGED vars

\* The rules' new steps for the plan they made of the query, its first n steps
\* being completed or skipped.  Astray, they plan for the text of the question.
RulesReplan ==
    /\ made.kind = "answer" /\ made.to = "replanner" /\ made.by # "model"
    /\ \E query \in Queries, tools \in ToolSets :
          LET plan == ListPlan(Normalized(Normalized(RulePlan(query, ToolsRead(tools)))))
          IN \E n \in 0..Cardinality(DOMAIN plan), elsewhere \in BOOLEAN, text \in Queries :
                \E completed \in SUBSET (1..n) :
                   made' = [kind |-> "replan", tools |-> tools, plan |-> plan,
                            status |-> [i \in DOMAIN plan |->
                                           IF i \in completed THEN "completed"
                                           ELSE IF i <= n THEN "skipped" ELSE "pending"],
                            raw |-> IF made.by = "rules"
                                    THEN RuleReplan(query, elsewhere, ToolsRead(tools), completed)
                                    ELSE RulePlan(text, ToolsRead(tools))]
    /\ UNCHANGED vars

AgentNext ==
    \/ Next /\ UNCHANGED made
    \/ \E q \in Questions : HandOver(q)
    \/ MakePlan
    \/ RulesReplan

AgentSpec == AgentInit /\ [][AgentNext]_agentVars

AgentFairSpec ==
    AgentSpec /\ \A q \in Questions : WF_agentVars(QuestionStep(q) /\ UNCHANGED made)

-----------------------------------------------------------------------------
\* The rules are the last resort: the plan they make of any query is accepted by
\* the validator whatever tools are registered, if any are, so that no request
\* fails for want of a plan; and each section that has a tool is in it.
RulePlansAccepted ==
    made.kind = "plan" /\ made.by # "model" /\ made.tools # {} =>
        /\ Accepted(made.steps, made.tools)
        /\ \A j \in DOMAIN Available(made.tools) :
              LET section == Available(made.tools)[j]
              IN \E k \in DOMAIN made.steps :
                    made.steps[k].task.tool \in {section, McpOf[section]}

\* "No tools are registered. Do not set `tool_hint` on any step." (agents/
\* planner_prompt.py:65): the rules, which look for the list of tools in the
\* prompt, do not find it there and take three for granted.
EmptyRegistryRespected ==
    made.kind = "plan" /\ made.by # "model" => Accepted(made.steps, made.tools)

\* The rules' new steps fit the plan at every point of its execution: as the
\* executor puts them in, without a repair, and as the controller does.
RuleReplansFit ==
    made.kind = "replan" /\ made.tools # {} =>
        /\ ValidPlan(ReplannedPlan(made.plan, made.status, ListPlan(made.raw)))
        /\ TryApply(made.plan, made.status, made.raw).ok
        /\ \A k \in DOMAIN made.raw : made.raw[k].task.tool \in made.tools \cup {NoTool}

\* Normalization drops repeated steps and budgets, nothing else, and makes no
\* dependency up: each one is between two steps that the list had in that order.
OnlyRepetitionDropped ==
    made.kind = "plan" =>
        LET Work(step) == [step.task EXCEPT !.tool =
                              IF step.task.synthesis THEN NoTool ELSE @]
        IN /\ \A k \in DOMAIN made.raw : ~IsBudgetStep(made.raw[k]) =>
                 \E j \in DOMAIN made.steps : made.steps[j].task = Work(made.raw[k])
           /\ \A j \in DOMAIN made.steps : \A d \in made.steps[j].deps :
                 \E k, l \in DOMAIN made.raw :
                    /\ made.raw[l].id \in made.raw[k].deps
                    /\ Work(made.raw[k]) = made.steps[j].task
                    /\ \E i \in DOMAIN made.steps :
                          made.steps[i].id = d /\ made.steps[i].task = Work(made.raw[l])

\* "Keep one budget step when multiple tasks are clearly budget calculations"
\* (plan/repair.py).  It does not where the longest text sounds like a synthesis:
\* that step is kept, and then loses its tool.
BudgetStillComputed ==
    made.kind = "plan" =>
        ((\E k \in DOMAIN made.raw : made.raw[k].task.tool = "budget"
                                     /\ ~made.raw[k].task.synthesis)
         => \E k \in DOMAIN made.steps : made.steps[k].task.tool = "budget")

\* "weather -> map -> budget" order of normalize_plan (docs/system_engineering/
\* 09_phase9a_qwen_llm_integration.md:228).  The steps are sorted by their tools,
\* and renumber_steps, which follows, sorts them by the old ids again.
ToolsInOrder ==
    made.kind = "plan" =>
        \A j, k \in DOMAIN made.steps :
            j < k => ToolRank(made.steps[j]) <= ToolRank(made.steps[k])
=============================================================================
