---------------------------- MODULE PlanSubgraph ----------------------------
(***************************************************************************)
(* The execution of a compiled plan: PlanGraphCompiler turns a plan into a *)
(* Graph (graph/runtime/compiler/plan_compiler.py), Graph.astream runs it  *)
(* (graph/runtime/core/graph.py) and merge_states joins parallel branches  *)
(* (graph/runtime/state_merge.py).                                         *)
(*                                                                         *)
(* A step that runs alone works on the graph's state.  The steps of a      *)
(* fan-out are asyncio tasks that each work on a deep copy of it and are   *)
(* gathered.  What _run_step_with_recovery does to one step, which module  *)
(* PlanExecution models action by action, is here one action with its      *)
(* possible results.  Distinct steps have distinct tasks, so the history   *)
(* variables count per task.                                               *)
(***************************************************************************)
EXTENDS PlanSteps

CONSTANTS InitialPlans,      \* validated plans, with one step per task
          Proposals,         \* step lists replan_unfinished_steps may return
          Policies,          \* values of PlanFailureConfig.failure_policy
          MaxReplanAttempts  \* PlanFailureConfig.max_replan_attempts

ASSUME PlansAssumption == \A p \in InitialPlans : IsPlan(p) /\ ValidPlan(p)
ASSUME ProposalsAssumption == \A new \in Proposals : new \in Seq(Step)
ASSUME PolicyAssumption == Policies \subseteq {"retry", "skip", "replan"}
ASSUME BudgetAssumption == MaxReplanAttempts \in Nat
\* The histories are per task: no two steps of a plan share one, and a step that a
\* replan brings has none of theirs.
ASSUME TasksAssumption ==
    \A p \in InitialPlans :
        /\ \A i, j \in DOMAIN p : p[i].task = p[j].task => i = j
        /\ \A new \in Proposals : \A k \in DOMAIN new : \A i \in DOMAIN p :
              new[k].task # p[i].task

VARIABLES policy,      \* PlanFailureConfig.failure_policy of the executor
          compiled,    \* the plan the graph was compiled from
          plan,        \* AgentState.plan_state: the plan,
          status,      \*   and the statuses of its steps
          node,        \* current: the node astream is at
          branch,      \* branch[i]: the running step node of step i
          iterations,  \* turns of astream's loop
          replanAttempts,  \* PlanExecutor._replan_attempts
          outcome,     \* how the graph ended
          calls,       \* calls[t]: executions started of task t (history)
          done         \* tasks completed or skipped (history)

graphVars == <<node, iterations, outcome>>
historyVars == <<calls, done>>
vars == <<policy, compiled, plan, status, graphVars, branch, replanAttempts,
          historyVars>>

-----------------------------------------------------------------------------
(***************************************************************************)
(* PlanGraphCompiler.  Ready(p)[n] is the set of steps in the first n      *)
(* levels; a level holds the steps whose dependencies are in earlier ones. *)
(***************************************************************************)
Ready(p) ==
    LET ready[n \in 0..Cardinality(DOMAIN p)] ==
            IF n = 0 THEN {}
            ELSE {i \in DOMAIN p : p[i].deps \subseteq ready[n - 1]}
    IN ready

Level(p, n) == IF n \in 1..Cardinality(DOMAIN p)
               THEN Ready(p)[n] \ Ready(p)[n - 1] ELSE {}

LevelOf(p, i) == CHOOSE n \in 1..Cardinality(DOMAIN p) : i \in Level(p, n)

Entry == <<"entry", 0>>
StepNode(i) == <<"step", i>>
JoinNode(n) == <<"join", n>>
Sink == <<"sink", 0>>
EndNode == <<"END", 0>>

\* The join of level n; the entry node stands before level 1.
Source(n) == IF n = 0 THEN Entry ELSE JoinNode(n)

\* Seeded fault: the first step of the level after the next.
AfterLevelSkips(p, n) ==
    IF Level(p, n + 2) # {} THEN StepNode(Min(Level(p, n + 2))) ELSE Sink

\* next_after_join of level n: the first step of the next one.
AfterLevel(p, n) ==
    IF Level(p, n + 1) # {} THEN StepNode(Min(Level(p, n + 1))) ELSE Sink

\* The branches of the fan-out whose source is this node.
FanOut(p, nd) ==
    IF nd[1] \in {"entry", "join"} /\ Cardinality(Level(p, nd[2] + 1)) > 1
    THEN Level(p, nd[2] + 1) ELSE {}

\* The steps that the visit of a node starts.
StepsAt(p, nd) == IF nd[1] = "step" THEN {nd[2]} ELSE FanOut(p, nd)

\* _resolve_next of a node without branches.
Successor(p, nd) ==
    CASE nd[1] \in {"entry", "join"} -> AfterLevel(p, nd[2])
      [] nd[1] = "step" -> JoinNode(LevelOf(p, nd[2]))
      [] nd[1] = "sink" -> EndNode

(***************************************************************************)
(* Where astream goes when the steps started at a node are done: a step    *)
(* that ran alone leads to its join, a fan-out past its join to the join's *)
(* next_node.                                                              *)
(***************************************************************************)
AfterSteps(p, nd) ==
    IF nd[1] = "step" THEN Successor(p, nd) ELSE AfterLevel(p, nd[2] + 1)

\* Seeded fault: one turn of the loop per step.
MaxIterationsPerStep(p) == Max({Cardinality(DOMAIN p), 3})

MaxIterations(p) == Max({4 * Cardinality(DOMAIN p), 10})

-----------------------------------------------------------------------------
Phases == {"tool", "done", "raised"}
Outcomes == {"running", "ended", "failed"}

Init ==
    /\ policy \in Policies
    /\ compiled \in InitialPlans
    /\ plan = compiled
    /\ status = AllPending(plan)
    /\ node = Entry
    /\ branch = <<>>
    /\ iterations = 0
    /\ replanAttempts = 0
    /\ outcome = "running"
    /\ calls = [t \in Tasks |-> 0]
    /\ done = {}

Running == outcome = "running" /\ branch = <<>>

\* The loop of astream goes on.
Continues ==
    /\ node # EndNode
    /\ iterations < MaxIterations(compiled)
    /\ ~AllFinished(status)

\* The end of the loop, or its early stop.
EndGraph ==
    /\ Running
    /\ ~Continues
    /\ outcome' = "ended"
    /\ UNCHANGED <<policy, compiled, plan, status, node, iterations, branch,
                   replanAttempts, historyVars>>

\* A node that runs no step: entry, join or sink.
PassNode ==
    /\ Running
    /\ Continues
    /\ StepsAt(compiled, node) = {}
    /\ node' = Successor(compiled, node)
    /\ iterations' = iterations + 1
    /\ UNCHANGED <<policy, compiled, plan, status, outcome, branch,
                   replanAttempts, historyVars>>

\* Seeded fault: a step node runs whatever its dependencies are.
MustRunIgnoringDeps(i) == i \in DOMAIN plan /\ status[i] \notin SettledStatus

\* The guards of a step node: a step that is settled, or whose dependencies
\* are not met, is left alone.
MustRun(i) ==
    i \in DOMAIN plan /\ status[i] \notin SettledStatus /\ DepsMet(plan, status, i)

\* Seeded fault: a step whose dependencies are not met waits for them.
StartedBranchWaits(i) ==
    [plan   |-> plan,
     status |-> IF MustRun(i) THEN [status EXCEPT ![i] = "running"] ELSE status,
     phase  |-> IF MustRun(i) THEN "tool"
                ELSE IF i \notin DOMAIN plan THEN "raised"
                ELSE IF status[i] \in FinishedStatus THEN "done" ELSE "waiting"]

\* Seeded fault: a branch starts from a fresh state of the plan.
StartedBranchFresh(i) ==
    [plan   |-> plan,
     status |-> [AllPending(plan) EXCEPT ![i] = "running"],
     phase  |-> IF i \in DOMAIN plan THEN "tool" ELSE "raised"]

\* A step node that starts; get_step_status raises KeyError for a step that
\* a replan removed.
StartedBranch(i) ==
    [plan   |-> plan,
     status |-> IF MustRun(i) THEN [status EXCEPT ![i] = "running"] ELSE status,
     phase  |-> IF MustRun(i) THEN "tool"
                ELSE IF i \in DOMAIN plan THEN "done" ELSE "raised"]

StartSteps ==
    /\ Running
    /\ Continues
    /\ LET B == StepsAt(compiled, node)
       IN /\ B # {}
          /\ branch' = [i \in B |-> StartedBranch(i)]
          /\ calls' = [t \in Tasks |->
                          IF \E i \in B : MustRun(i) /\ plan[i].task = t
                          THEN calls[t] + 1 ELSE calls[t]]
          /\ outcome' = IF \E i \in B : branch'[i].phase = "raised"
                        THEN "failed" ELSE outcome
    /\ UNCHANGED <<policy, compiled, plan, status, node, iterations,
                   replanAttempts, done>>

(***************************************************************************)
(* The results of _run_step_with_recovery.  A step whose arguments cannot  *)
(* be resolved is skipped under every policy.  A step that raises ends the *)
(* graph: gather passes the exception on, and the other branches run on    *)
(* without anyone to take their results.                                   *)
(***************************************************************************)
FinishStep(i) ==
    /\ i \in DOMAIN branch
    /\ branch[i].phase = "tool"
    /\ \E s \in FinishedStatus :
          branch' = [branch EXCEPT ![i].status[i] = s, ![i].phase = "done"]
    /\ done' = done \cup {branch[i].plan[i].task}
    /\ UNCHANGED <<policy, compiled, plan, status, graphVars, replanAttempts, calls>>

RaiseStep(i) ==
    /\ i \in DOMAIN branch
    /\ branch[i].phase = "tool"
    /\ \/ /\ policy = "retry"
          /\ UNCHANGED replanAttempts
       \/ /\ policy = "replan"
          /\ replanAttempts' = Min({replanAttempts + 1, MaxReplanAttempts})
    /\ branch' = [branch EXCEPT ![i].status[i] = "failed", ![i].phase = "raised"]
    /\ outcome' = "failed"
    /\ UNCHANGED <<policy, compiled, plan, status, node, iterations, historyVars>>

ReplanStep(i) ==
    /\ i \in DOMAIN branch
    /\ branch[i].phase = "tool"
    /\ policy = "replan"
    /\ replanAttempts < MaxReplanAttempts
    /\ replanAttempts' = replanAttempts + 1
    /\ \E new \in Proposals :
         LET b == branch[i]
             p == ReplannedPlan(b.plan, b.status, new)
         IN /\ ValidPlan(p)
            /\ branch' = [branch EXCEPT ![i] =
                            [plan |-> p, status |-> ReplannedStatus(b.status, new),
                             phase |-> "done"]]
    /\ UNCHANGED <<policy, compiled, plan, status, graphVars, historyVars>>

\* Seeded fault: plan_state is merged and plan is not.
MergedKeepsPlan == [branch[Max(DOMAIN branch)] EXCEPT !.plan = plan]

(***************************************************************************)
(* The state after the steps of a node.  _deep_merge takes plan and        *)
(* plan_state from its right argument, and merge_states folds it over the  *)
(* branches in order: the last branch's survive.                           *)
(***************************************************************************)
Merged == branch[Max(DOMAIN branch)]

JoinBranches ==
    /\ outcome = "running"
    /\ branch # <<>>
    /\ \A i \in DOMAIN branch : branch[i].phase = "done"
    /\ plan' = Merged.plan
    /\ status' = Merged.status
    /\ branch' = <<>>
    /\ node' = AfterSteps(compiled, node)
    /\ iterations' = iterations + 1
    /\ UNCHANGED <<policy, compiled, replanAttempts, outcome, historyVars>>

Done == /\ outcome # "running"
        /\ \A i \in DOMAIN branch : branch[i].phase # "tool"
        /\ UNCHANGED vars

StepEnds(i) == FinishStep(i) \/ RaiseStep(i) \/ ReplanStep(i)

GraphStep == EndGraph \/ PassNode \/ StartSteps \/ JoinBranches

Next == GraphStep \/ (\E i \in DOMAIN branch : StepEnds(i)) \/ Done

Spec == Init /\ [][Next]_vars

(***************************************************************************)
(* Tools and the planner answer within their timeouts, and the event loop  *)
(* runs every ready task.                                                  *)
(***************************************************************************)
StepIds == UNION {DOMAIN p : p \in InitialPlans}

Fairness == /\ WF_vars(GraphStep)
            /\ \A i \in StepIds : WF_vars(i \in DOMAIN branch /\ StepEnds(i))

FairSpec == Spec /\ Fairness

-----------------------------------------------------------------------------
TypeOK ==
    /\ policy \in Policies
    /\ compiled \in InitialPlans
    /\ IsPlan(plan) /\ status \in [DOMAIN plan -> Status]
    /\ node[1] \in {"entry", "step", "join", "sink", "END"} /\ node[2] \in Nat
    /\ DOMAIN branch \subseteq DOMAIN compiled
    /\ \A i \in DOMAIN branch :
          /\ IsPlan(branch[i].plan)
          /\ branch[i].status \in [DOMAIN branch[i].plan -> Status]
          /\ branch[i].phase \in Phases
    /\ iterations \in 0..MaxIterations(compiled)
    /\ replanAttempts \in 0..MaxReplanAttempts
    /\ outcome \in Outcomes
    /\ calls \in [Tasks -> Nat]
    /\ done \subseteq Tasks

(***************************************************************************)
(* The calls that the graph makes, as StepOrder sees them: also with       *)
(* parallel levels, lost branch results and replans, no step of the        *)
(* compiled plan is started twice or before its dependencies.              *)
(***************************************************************************)
Order == INSTANCE StepOrder WITH
            Plans <- InitialPlans,
            plan <- compiled,
            started <- {i \in DOMAIN compiled : calls[compiled[i].task] > 0},
            done <- {i \in DOMAIN compiled : compiled[i].task \in done}

\* The step nodes run each step at most once and in dependency order.
StepsRunOnceInOrder == Order!Spec

\* What the graph's state records as finished stays finished and unchanged
\* through fan-outs, merges and replans.
FinishedWorkKept ==
    [][\A i \in FinishedIds(status) :
          i \in DOMAIN plan' /\ plan'[i] = plan[i] /\ status'[i] = status[i]]_vars

\* max_iterations of a compiled plan is never what ends its execution.
CapNeverEndsGraph ==
    outcome = "ended" => node = EndNode \/ AllFinished(status)

\* A plan without parallel levels, run under retry or skip, ends with every
\* step finished.
ChainPlansComplete ==
    /\ outcome = "ended"
    /\ policy # "replan"
    /\ \A n \in DOMAIN compiled : Cardinality(Level(compiled, n)) <= 1
    => FinishedIds(status) = DOMAIN plan

\* "replan only replaces the unfinished part, so that tools with side effects
\* are not called again" needs the state to know what is done: a step that
\* completed is finished in the state of the graph after its level was joined.
CompletedStepsRecorded ==
    branch = <<>> =>
        \A i \in DOMAIN plan : plan[i].task \in done => i \in FinishedIds(status)

\* "Steps of one topological level run in parallel": when the graph ends, no
\* step that could run was left out.
ReadyStepsRun ==
    outcome = "ended" /\ policy # "replan" =>
        \A i \in Executable(plan, status) : calls[plan[i].task] > 0
=============================================================================
