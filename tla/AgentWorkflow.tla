---------------------------- MODULE AgentWorkflow ----------------------------
(***************************************************************************)
(* The macro graph of a request: AgentWorkflowBuilder                      *)
(* (graph/runtime/workflow.py) with the nodes of graph/runtime/nodes.py    *)
(* and memory_nodes.py, and ReplanningController.handle.                   *)
(*                                                                         *)
(*   memory_load - planner - compile_plan - router - execution             *)
(*      - memory_persist - critic - (replanner - router | finalize)        *)
(*                                                                         *)
(* The execution node runs the compiled plan, module PlanSubgraph, on the  *)
(* request's state.  Requests follow one another; the controller's attempt *)
(* counter outlives them.  The tool hints that the router fills in are     *)
(* left out: they change no step's id, status or dependencies.             *)
(***************************************************************************)
EXTENDS PlanSubgraph, PlanRepair

CONSTANTS LLMLists,           \* step lists replan_from_critique may return
          FallbackLists,      \* step lists rulebased_replan_from_critique may
          MaxCriticReplans,   \* ReplanningConfig.max_replan_attempts
          GraphMaxIterations, \* max_iterations of the macro graph
          MaxRequests         \* bound on the requests of one process

ASSUME ListsAssumption ==
    \A list \in LLMLists \cup FallbackLists : list \in Seq(ListedStep)
ASSUME CriticBudgetAssumption == MaxCriticReplans \in Nat
\* Eight nodes of a request without replans and five for each replan.
ASSUME TurnsAssumption ==
    GraphMaxIterations \in Nat /\ GraphMaxIterations >= 8 + 5 * MaxCriticReplans
ASSUME RequestsAssumption == MaxRequests \in Nat \ {0}

VARIABLES at,          \* current: the macro node
          turns,       \* iterations of the macro graph's loop
          shouldStop,  \* AgentState.should_stop
          attempts,    \* ReplanningController._attempts
          seen,        \* AgentState.replan_attempts
          replans,     \* results in AgentState.replan_history
          answer,      \* how the request ended
          requests     \* requests made so far

requestVars == <<at, turns, shouldStop, seen, replans, answer>>
workflowVars == <<requestVars, attempts, requests>>
allVars == <<vars, workflowVars>>

MacroNodes == {"memory_load", "planner", "compile_plan", "router", "execution",
               "memory_persist", "critic", "replanner", "finalize", "END"}

\* The first request: a fresh AgentState, and a controller without attempts.
WorkflowInit ==
    /\ compiled = <<>> /\ plan = <<>> /\ status = <<>>
    /\ node = Entry /\ branch = <<>> /\ iterations = 0 /\ outcome = "idle"
    /\ calls = [t \in Tasks |-> 0] /\ done = {}
    /\ at = "memory_load" /\ turns = 0 /\ shouldStop = FALSE /\ seen = 0
    /\ replans = {}
    /\ answer = "open"
    /\ policy \in Policies
    /\ replanAttempts = 0
    /\ attempts = 0
    /\ requests = 1

\* The loop of astream goes on in the macro graph.
LoopContinues == at # "END" /\ turns < GraphMaxIterations /\ ~shouldStop

\* The visit of node n is complete and the graph goes on to node next.
Visit(n, next) ==
    /\ answer = "open" /\ LoopContinues
    /\ at = n
    /\ at' = next
    /\ turns' = turns + 1
    /\ UNCHANGED <<answer, requests>>

MemoryLoad ==
    /\ Visit("memory_load", "planner")
    /\ UNCHANGED <<vars, attempts, shouldStop, seen, replans>>

Planner ==
    /\ Visit("planner", "compile_plan")
    /\ plan' \in InitialPlans
    /\ status' = AllPending(plan')
    /\ UNCHANGED <<policy, compiled, graphVars, branch, replanAttempts, historyVars,
                   attempts, shouldStop, seen, replans>>

CompilePlan ==
    /\ Visit("compile_plan", "router")
    /\ compiled' = plan
    /\ UNCHANGED <<policy, plan, status, graphVars, branch, replanAttempts, historyVars,
                   attempts, shouldStop, seen, replans>>

Router ==
    /\ Visit("router", "execution")
    /\ UNCHANGED <<vars, attempts, shouldStop, seen, replans>>

-----------------------------------------------------------------------------
(***************************************************************************)
(* The execution node: the compiled plan runs on plan and status and takes *)
(* the macro graph's place until it ends.                                  *)
(***************************************************************************)
StartExecution ==
    /\ answer = "open" /\ LoopContinues
    /\ at = "execution" /\ outcome = "idle"
    /\ node' = Entry /\ iterations' = 0 /\ outcome' = "running"
    /\ UNCHANGED <<policy, compiled, plan, status, branch, replanAttempts, historyVars,
                   workflowVars>>

RunPlanGraph == GraphStep /\ UNCHANGED workflowVars

RunStep(i) == StepEnds(i) /\ UNCHANGED workflowVars

ExecutionReturns ==
    /\ Visit("execution", "memory_persist")
    /\ outcome = "ended"
    /\ outcome' = "idle"
    /\ UNCHANGED <<policy, compiled, plan, status, node, iterations, branch,
                   replanAttempts, historyVars,
                   attempts, shouldStop, seen, replans>>

\* The exception of a step node fails the request; what is left of the other
\* branches has no effect on it.
ExecutionRaises ==
    /\ answer = "open" /\ outcome = "failed"
    /\ answer' = "failed"
    /\ outcome' = "idle"
    /\ branch' = <<>>
    /\ UNCHANGED <<policy, compiled, plan, status, node, iterations, replanAttempts,
                   historyVars, at, turns, shouldStop, attempts, seen, replans, requests>>

MemoryPersist ==
    /\ Visit("memory_persist", IF shouldStop THEN "END" ELSE "critic")
    /\ UNCHANGED <<vars, attempts, shouldStop, seen, replans>>

\* Seeded fault: one replan too many.
ReplanAllowedOnceMore == seen <= MaxCriticReplans

\* The condition of the edge from critic to replanner, besides need_replan.
ReplanAllowed == seen < MaxCriticReplans

\* critic_node evaluates the execution; the critique is the language model's.
Critic ==
    /\ \/ ReplanAllowed /\ Visit("critic", "replanner")
       \/ Visit("critic", "finalize")
    /\ UNCHANGED <<vars, attempts, shouldStop, seen, replans>>

Finalize ==
    /\ Visit("finalize", "memory_persist")
    /\ shouldStop' = TRUE
    /\ UNCHANGED <<vars, attempts, seen, replans>>

-----------------------------------------------------------------------------
(***************************************************************************)
(* ReplanningController.handle and the rest of replanner_node.  The list   *)
(* of the language model is tried first, then that of the rule-based one.  *)
(* The first failure is rolled back.  The rollback restores the snapshot's *)
(* own objects, the fallback then works on them, and the second rollback   *)
(* restores the same objects: what the fallback applied stays.             *)
(***************************************************************************)
ReplanResult(list, fallback) ==
    LET first == TryApply(plan, status, list)
    IN IF first.ok THEN first ELSE TryApply(plan, status, fallback)

\* Seeded fault: a replanned plan is executed with the graph of the old one.
CompiledAfterReplanStale(result) == compiled

\* The graph is compiled again when the plan was replanned.
CompiledAfterReplan(result) == IF result.ok THEN result.plan ELSE compiled

Replanner ==
    /\ Visit("replanner", "router")
    /\ attempts < MaxCriticReplans
    /\ attempts' = attempts + 1
    /\ seen' = attempts'
    /\ \E list \in LLMLists, fallback \in FallbackLists :
         LET result == ReplanResult(list, fallback)
         IN /\ plan' = result.plan
            /\ status' = result.status
            /\ compiled' = CompiledAfterReplan(result)
            /\ replans' = replans \cup {IF result.ok THEN "replanned" ELSE "failed"}
    /\ UNCHANGED <<policy, graphVars, branch, replanAttempts, historyVars, shouldStop>>

\* The attempts of the process are used up: the request goes round once more.
ReplannerExhausted ==
    /\ Visit("replanner", "router")
    /\ attempts >= MaxCriticReplans
    /\ seen' = attempts
    /\ replans' = replans \cup {"skipped"}
    /\ UNCHANGED <<vars, attempts, shouldStop>>

\* The planner, the critic or the replanning planner raises.
NodeRaises ==
    /\ answer = "open" /\ LoopContinues
    /\ \/ at \in {"planner", "critic"} /\ UNCHANGED attempts
       \/ at = "replanner" /\ attempts < MaxCriticReplans /\ attempts' = attempts + 1
    /\ answer' = "failed"
    /\ UNCHANGED <<vars, at, turns, shouldStop, seen, replans, requests>>

\* The loop ends: the state is the answer.
RequestEnds ==
    /\ answer = "open" /\ outcome = "idle"
    /\ ~LoopContinues
    /\ answer' = "completed"
    /\ UNCHANGED <<vars, at, turns, shouldStop, attempts, seen, replans, requests>>

\* The next request starts with an AgentState of its own.
NewRequest ==
    /\ answer # "open"
    /\ requests < MaxRequests
    /\ requests' = requests + 1
    /\ compiled' = <<>> /\ plan' = <<>> /\ status' = <<>>
    /\ node' = Entry /\ branch' = <<>> /\ iterations' = 0 /\ outcome' = "idle"
    /\ calls' = [t \in Tasks |-> 0] /\ done' = {}
    /\ at' = "memory_load" /\ turns' = 0 /\ shouldStop' = FALSE /\ seen' = 0
    /\ replans' = {}
    /\ answer' = "open"
    /\ UNCHANGED <<policy, replanAttempts, attempts>>

AllAnswered ==
    /\ answer # "open"
    /\ requests = MaxRequests
    /\ UNCHANGED allVars

MacroStep ==
    \/ MemoryLoad \/ Planner \/ CompilePlan \/ Router
    \/ StartExecution \/ ExecutionReturns \/ ExecutionRaises
    \/ MemoryPersist \/ Critic \/ Finalize
    \/ NodeRaises \/ RequestEnds

WorkflowNext ==
    \/ MacroStep
    \/ Replanner \/ ReplannerExhausted
    \/ RunPlanGraph
    \/ \E i \in DOMAIN branch : RunStep(i)
    \/ NewRequest
    \/ AllAnswered

WorkflowSpec == WorkflowInit /\ [][WorkflowNext]_allVars

\* Tools and language models answer within their timeouts, so that every node
\* is left: the replanner for the router, unless it raises.
WorkflowFairSpec ==
    /\ WorkflowSpec
    /\ WF_allVars(MacroStep)
    /\ WF_at(at = "replanner" /\ at' = "router")
    /\ WF_allVars(RunPlanGraph)
    /\ WF_allVars(\E i \in DOMAIN branch : RunStep(i))

-----------------------------------------------------------------------------
WorkflowTypeOK ==
    /\ IsPlan(plan) /\ status \in [DOMAIN plan -> Status]
    /\ IsPlan(compiled)
    /\ outcome \in Outcomes \cup {"idle"}
    /\ at \in MacroNodes
    /\ turns \in 0..GraphMaxIterations
    /\ attempts \in 0..MaxCriticReplans /\ seen \in 0..attempts
    /\ replans \subseteq {"replanned", "skipped", "failed"}
    /\ shouldStop \in BOOLEAN
    /\ answer \in {"open", "completed", "failed"}
    /\ requests \in 1..MaxRequests

\* Whatever the language model proposed, the plan that is executed is valid,
\* also when a repair was followed by the restoring of completed steps, which
\* is not validated again.
ExecutedPlanValid ==
    outcome = "running" /\ "failed" \notin replans => ValidPlan(plan)

\* The step nodes that run are those of the plan that they run on.
GraphIsOfPlan ==
    outcome = "running" /\ "failed" \notin replans /\ policy # "replan"
    => compiled = plan

\* max_iterations of the macro graph, 50 by default, is never what ends a
\* request: it would be reported as completed without a final result.
CapNeverEndsRequest == answer = "completed" => shouldStop

\* "Completed step protection": when the finished steps are the first ones of
\* the plan, no replan, repaired or failed, touches them.
FinishedPrefixKept ==
    [][at = "replanner" /\ at' = "router"
       /\ FinishedIds(status) = 1..Cardinality(FinishedIds(status))
       => \A i \in FinishedIds(status) :
             i \in DOMAIN plan' /\ plan'[i] = plan[i] /\ status'[i] = status[i]]_allVars

\* "Completed steps are immutable, replan only replaces the unfinished part, so
\* that tools with side effects are not called again": the work of a step that
\* was done is not done again in the same request.
FinishedTasksNotRepeated ==
    [][\A t \in done : calls'[t] <= calls[t]]_allVars

\* Every request is answered.
RequestsEnd == \A n \in 1..MaxRequests :
    requests = n ~> (requests > n \/ answer # "open")
=============================================================================
