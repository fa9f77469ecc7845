-------------------------- MODULE PlanOrchestration --------------------------
(***************************************************************************)
(* PlanOrchestrator.run (plan/orchestrator.py): planner, executor, critic  *)
(* and replanning controller around one another, the path of a request     *)
(* that does not use the graph runtime, with the parts it calls:           *)
(* execution_critic.py, context_compression.py, final_synthesis.py and the *)
(* resolver.  The executor is module PlanExecution, the controller's work  *)
(* on a plan is PlanRepair.                                                *)
(*                                                                         *)
(* Requests (Runs) share the executor and the controller.  Of the context  *)
(* there are the steps in step_outputs and the tools in tool_outputs.  A   *)
(* task stands for its tool.  The rule-based critic reads the goal and the *)
(* context, the language model may say anything.                           *)
(***************************************************************************)
EXTENDS PlanExecution, PlanRepair

CONSTANTS KindOf,           \* KindOf[t]: the section that tool t contributes to
          NativeTool,       \* NativeTool[k]: the tool the rules look for
          Goals,            \* sections a goal may ask for
          Critics,          \* values of critic
          LLMLists,         \* step lists replan_from_critique may return
          FallbackLists,    \* step lists rulebased_replan_from_critique may
          MaxCriticReplans  \* ReplanningConfig.max_replan_attempts

Kinds == DOMAIN NativeTool

\* The resolver has arguments for the tools of a section and for no other.
ASSUME KindsAssumption ==
    /\ DOMAIN KindOf \subseteq ToolTasks
    /\ \A t \in DOMAIN KindOf : KindOf[t] \in Kinds
    /\ \A k \in Kinds : NativeTool[k] \in DOMAIN KindOf /\ KindOf[NativeTool[k]] = k
    /\ Goals \subseteq SUBSET Kinds
ASSUME CriticsAssumption == Critics \subseteq {"off", "rules", "model"}
ASSUME ControllerAssumption ==
    /\ MaxCriticReplans \in Nat
    /\ \A list \in LLMLists \cup FallbackLists : list \in Seq(ListedStep)

VARIABLES critic,    \* no critic, the rule-based one, or a language model
          phase,     \* phase[r]: where run() is suspended
          goal,      \* goal[r]: the sections the goal of the plan asks for
          context,   \* context[r]: keys of step_outputs and of tool_outputs
          critique,  \* critique[r]: the last critique
          attempts,  \* ReplanningController._attempts
          applied    \* applied[r]: replans of the critic applied (history)

runVars == <<phase, goal, context, critique, attempts, applied>>
allVars == <<vars, critic, runVars>>

ContextKeys == {"step_outputs", "tool_outputs"}

NoCritique == [by |-> "none", need |-> FALSE, missing |-> {}]

OrchestrationInit ==
    /\ Init
    /\ critic \in Critics
    /\ phase = [r \in Runs |-> "new"]
    /\ goal \in [Runs -> Goals]
    /\ context = [r \in Runs |-> [k \in ContextKeys |-> {}]]
    /\ critique = [r \in Runs |-> NoCritique]
    /\ attempts = 0
    /\ applied = [r \in Runs |-> 0]

Go(r, next) == phase' = [phase EXCEPT ![r] = next]

\* create_plan returns a plan that passes assert_valid, or one of them raises.
CreatePlan(r) ==
    /\ phase[r] = "new"
    /\ Go(r, "execute") \/ Go(r, "failed")
    /\ UNCHANGED <<vars, goal, context, critique, attempts, applied>>

-----------------------------------------------------------------------------
\* The step whose observation _merge_observation_into_context was given.
Observed(r) == IF pc'[r] = "compress" THEN {current'[r]} ELSE {}

\* Seeded fault: tool_outputs is not one of PRESERVED_CONTEXT_KEYS.
PreservedKeysButTools == {"step_outputs"}

PreservedKeys == ContextKeys

\* maybe_compress with a context that is too long or not.
CompressedContext(c) == {c, [k \in ContextKeys |-> IF k \in PreservedKeys THEN c[k] ELSE {}]}

MergedContext(r, c) ==
    [step_outputs |-> c["step_outputs"] \cup Observed(r),
     tool_outputs |-> c["tool_outputs"]
                        \cup ({plan'[r][i].task : i \in Observed(r)} \cap ToolTasks)]

\* resolve() has arguments for a tool or not, whatever the context is.
ResolvedByTool(r) ==
    LET i == current'[r]
    IN i # 0 =>
         /\ status'[r][i] = "running" => plan'[r][i].task \in DOMAIN KindOf
         /\ status'[r][i] = "skipped" => plan'[r][i].task \notin DOMAIN KindOf

\* From one await of execute() to the next.
ExecutorStep(r) ==
    /\ phase[r] = "execute"
    /\ CallStep(r) /\ UNCHANGED policy
    /\ ResolvedByTool(r)
    /\ \E c \in IF pc[r] = "compress" THEN CompressedContext(context[r]) ELSE {context[r]} :
          context' = [context EXCEPT ![r] = MergedContext(r, c)]
    /\ UNCHANGED <<phase, goal, critique, attempts, applied>>

\* execute() returned: without a critic the result is final, otherwise it awaits
\* the critique.  Or execute() raised, and run() with it.
ExecutionEnds(r) ==
    /\ phase[r] = "execute" /\ pc[r] = "ended"
    /\ Go(r, IF outcome[r] # "ok" THEN "failed"
             ELSE IF critic = "off" THEN "done" ELSE "critic")
    /\ UNCHANGED <<vars, goal, context, critique, attempts, applied>>

-----------------------------------------------------------------------------
\* The tools whose observations _iter_tool_observations finds: in the results of
\* completed steps, in step_outputs by the step's tool, in tool_outputs.
DeliveredTools(r) ==
    {plan[r][i].task : i \in {j \in DOMAIN plan[r] :
        \/ status[r][j] = "completed"
        \/ j \in context[r]["step_outputs"]}}
    \cup context[r]["tool_outputs"]

\* The sections of synthesize_final_result.
Sections(r) == {KindOf[t] : t \in DeliveredTools(r) \cap DOMAIN KindOf}

\* Seeded fault: "and" for "or" in need_replan.
RulesVerdictBoth(asked, tools, skipped) ==
    LET missing == {k \in asked : NativeTool[k] \notin tools}
    IN [by |-> "rules", need |-> skipped /\ missing # {}, missing |-> missing]

\* _evaluate_payload for the sections a goal asks for, tool_outputs and skipped.
RulesVerdict(asked, tools, skipped) ==
    LET missing == {k \in asked : NativeTool[k] \notin tools}
    IN [by |-> "rules", need |-> skipped \/ missing # {}, missing |-> missing]

Skipped(r) == \E i \in DOMAIN status[r] : status[r][i] = "skipped"

\* After two answers that cannot be parsed the rule-based critic is given the
\* same messages, the last of which is "Return corrected strict JSON only": that
\* is no payload, and it evaluates an empty one.
FallbackVerdict == [RulesVerdict({}, {}, FALSE) EXCEPT !.by = "fallback"]

Verdicts(r) ==
    IF critic = "rules"
    THEN {RulesVerdict(goal[r], context[r]["tool_outputs"], Skipped(r))}
    ELSE {[by |-> "model", need |-> n, missing |-> {}] : n \in BOOLEAN} \cup {FallbackVerdict}

\* Seeded fault: a replan is counted when it has been applied.
MayReplanByApplied == Total(applied) < MaxCriticReplans

MayReplan == attempts < MaxCriticReplans

\* Seeded fault: run() goes round again when the controller refuses.
AfterRefusalAgain == "critic"

AfterRefusal == "done"

\* The critique arrives, and handle() decides up to its await of the planner.
CriticAnswers(r) ==
    /\ phase[r] = "critic"
    /\ \E v \in Verdicts(r) :
         /\ critique' = [critique EXCEPT ![r] = v]
         /\ IF v.need /\ MayReplan
            THEN Go(r, "replanner") /\ attempts' = attempts + 1
            ELSE /\ Go(r, IF v.need THEN AfterRefusal ELSE "done")
                 /\ UNCHANGED attempts
    /\ UNCHANGED <<vars, goal, context, applied>>

\* The rest of handle(): when neither list can be applied, the plan as the two
\* attempts left it is the final one; otherwise execute() is called again.
Replanned(r) ==
    /\ phase[r] = "replanner"
    /\ \E list \in LLMLists, fallback \in FallbackLists :
         LET first == TryApply(plan[r], status[r], list)
             result == IF first.ok THEN first ELSE TryApply(plan[r], status[r], fallback)
         IN /\ plan' = [plan EXCEPT ![r] = result.plan]
            /\ status' = [status EXCEPT ![r] = result.status]
            /\ IF result.ok
               THEN /\ Go(r, "execute")
                    /\ pc' = [pc EXCEPT ![r] = "idle"]
                    /\ outcome' = [outcome EXCEPT ![r] = "none"]
                    /\ applied' = [applied EXCEPT ![r] = @ + 1]
               ELSE Go(r, "done") /\ UNCHANGED <<controlVars, applied>>
    /\ UNCHANGED <<policy, current, attempt, replanVars, graph, goal, context, critique,
                   attempts>>

\* The language model's client raises: neither critic nor controller catches it.
ModelRaises(r) ==
    /\ phase[r] \in {"critic", "replanner"}
    /\ critic = "model"
    /\ Go(r, "failed")
    /\ UNCHANGED <<vars, goal, context, critique, attempts, applied>>

AllEnded ==
    /\ \A r \in Runs : phase[r] \in {"done", "failed"}
    /\ UNCHANGED allVars

RunStep(r) ==
    \/ CreatePlan(r) \/ ExecutorStep(r) \/ ExecutionEnds(r)
    \/ CriticAnswers(r) \/ Replanned(r) \/ ModelRaises(r)

OrchestrationNext ==
    \/ /\ \E r \in Runs : RunStep(r)
       /\ UNCHANGED critic
    \/ AllEnded

OrchestrationSpec == OrchestrationInit /\ [][OrchestrationNext]_allVars

\* handle() is over: its request is executed again, or at its end.
LeavesReplanner(r) ==
    /\ phase[r] = "replanner"
    /\ \E next \in {"execute", "done", "failed"} : Go(r, next)

\* Once begun a request goes on: tools, critic and planner answer or time out.
OrchestrationFairSpec ==
    /\ OrchestrationSpec
    /\ \A r \in Runs :
          /\ WF_allVars(/\ ExecutorStep(r) \/ ExecutionEnds(r) \/ CriticAnswers(r)
                        /\ UNCHANGED critic)
          /\ WF_phase(LeavesReplanner(r))

-----------------------------------------------------------------------------
(***************************************************************************)
(* Properties.                                                             *)
(***************************************************************************)
\* When the rules call the goal completed, every section that the goal asks for
\* is in the final result: what the critic reads and what the answer is made
\* from, two views of three records of the observations, agree.
CompletedGoalIsAnswered ==
    \A r \in Runs :
        phase[r] = "done" /\ critique[r].by = "rules" /\ ~critique[r].need
        => goal[r] \subseteq Sections(r)

\* The rules never ask again for what the request's own tool has delivered,
\* however often the context was compressed and the plan rewritten.
NothingDoneIsMissing ==
    \A r \in Runs : \A k \in critique[r].missing : phase[r] = "replanner" =>
        \A i \in DOMAIN plan[r] :
            status[r][i] = "completed" => plan[r][i].task # NativeTool[k]

\* Concurrent requests together apply no more replans than the controller may.
CriticReplansBounded == Total(applied) <= MaxCriticReplans

\* run() answers or raises, for every sequence of failures and verdicts.
OrchestrationEnds ==
    \A r \in Runs : phase[r] # "new" ~> phase[r] \in {"done", "failed"}

\* "Completed steps are immutable: a replan replaces the unfinished part only":
\* also when the critic asks for replans in a row (FinishedWorkKept of
\* PlanExecution says so of the replans of execute()).
CompletedStepsKept ==
    [][\A r \in Runs : \A i \in DOMAIN plan[r] :
          status[r][i] = "completed" =>
              /\ i \in DOMAIN plan'[r]
              /\ plan'[r][i] = plan[r][i]
              /\ status'[r][i] = "completed"]_allVars

\* "ExecutionCritic.evaluate judges by step results and tool outputs whether the
\* goal is completed": also when the language model's answers were unusable.
FallbackJudgesExecution ==
    \A r \in Runs :
        phase[r] = "done" /\ critique[r].by = "fallback" /\ ~critique[r].need
        => ~Skipped(r)
=============================================================================
