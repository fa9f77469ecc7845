--------------------------- MODULE PlanExecution ---------------------------
(***************************************************************************)
(* PlanExecutor (plan/executor.py): the sequential execution of plans with *)
(* the failure policies retry, skip and replan.                            *)
(*                                                                         *)
(* app/bootstrap.py builds one PlanExecutor for the process and every      *)
(* request calls execute() on it.  The calls (Runs) are asyncio tasks: one *)
(* is suspended only where it awaits a tool, the context compressor or the *)
(* planner, which are the values of pc, and everything from one await to   *)
(* the next is one action.  The calls share two fields of the executor:    *)
(* _replan_attempts and _execution_graph.                                  *)
(*                                                                         *)
(* Abstracted: what the tools return, the execution trace and the context. *)
(* A policy fallback that succeeds also changes the step's tool hint; the  *)
(* step stays one that names a tool, and its task is left as it is here.   *)
(***************************************************************************)
EXTENDS PlanSteps

CONSTANTS Runs,              \* calls of execute()
          NoRun,             \* _session_id of the graph before the first call
          ToolTasks,         \* the tasks that name a tool
          InitialPlans,      \* validated plans a call may be given
          Proposals,         \* step lists replan_unfinished_steps may return
          Policies,          \* values of PlanFailureConfig.failure_policy
          StepMaxRetries,    \* PlanFailureConfig.step_max_retries
          MaxReplanAttempts  \* PlanFailureConfig.max_replan_attempts

ASSUME RunsAssumption == NoRun \notin Runs
ASSUME TasksAssumption == ToolTasks \subseteq Tasks
ASSUME PlansAssumption == \A p \in InitialPlans : IsPlan(p) /\ ValidPlan(p)
ASSUME ProposalsAssumption == \A new \in Proposals : new \in Seq(Step)
ASSUME PolicyAssumption == Policies \subseteq {"retry", "skip", "replan"}
ASSUME BudgetAssumption == StepMaxRetries \in Nat /\ MaxReplanAttempts \in Nat

VARIABLES policy,    \* PlanFailureConfig.failure_policy of the executor
          plan,      \* plan[r]: PlanState.plan of call r
          status,    \* status[r]: PlanState._step_status
          current,   \* current[r]: PlanState.current_step, 0 for None
          attempt,   \* attempt[r]: the attempt at the current step
          pc,        \* pc[r]: where call r is suspended
          outcome,   \* outcome[r]: how call r ended
          replans,   \* replans[r]: replans call r made (history)
          replanAttempts,  \* PlanExecutor._replan_attempts
          graph      \* PlanExecutor._execution_graph

stateVars == <<plan, status, current, attempt>>
controlVars == <<pc, outcome>>
replanVars == <<replans, replanAttempts>>
vars == <<policy, stateVars, controlVars, replanVars, graph>>

PCs == {"idle", "tool", "compress", "planner", "ended"}
Errors == {"step_failed", "replan_budget", "deadlock", "unknown_node",
           "invalid_plan", "planner_failed", "compressor_failed"}
Outcomes == Errors \cup {"none", "ok"}
NodeStatus == {"pending", "running", "success", "failed"}

(***************************************************************************)
(* PlanExecutionGraph: the DAG's nodes with their statuses, and the call   *)
(* (session) it was last synchronised with.                                *)
(***************************************************************************)
\* Seeded fault: the step status is shown as it is.
MapStatusIdentity(s) == s

MapStatus(s) == IF s \in FinishedStatus THEN "success" ELSE s

GraphOf(r, p, st) ==
    [session |-> r, node |-> [i \in DOMAIN p |-> MapStatus(st[i])]]

MaxAttempts == IF policy = "retry" THEN 1 + StepMaxRetries ELSE 1

Init ==
    /\ policy \in Policies
    /\ plan \in [Runs -> InitialPlans]
    /\ status = [r \in Runs |-> AllPending(plan[r])]
    /\ current = [r \in Runs |-> 0]
    /\ attempt = [r \in Runs |-> 0]
    /\ pc = [r \in Runs |-> "idle"]
    /\ outcome = [r \in Runs |-> "none"]
    /\ replans = [r \in Runs |-> 0]
    /\ replanAttempts = 0
    /\ graph = [session |-> NoRun, node |-> <<>>]

-----------------------------------------------------------------------------
End(r, o) == /\ pc' = [pc EXCEPT ![r] = "ended"]
             /\ outcome' = [outcome EXCEPT ![r] = o]

Suspend(r, where) == /\ pc' = [pc EXCEPT ![r] = where]
                     /\ UNCHANGED outcome

SetState(r, p, st, cur, att) ==
    /\ plan' = [plan EXCEPT ![r] = p]
    /\ status' = [status EXCEPT ![r] = st]
    /\ current' = [current EXCEPT ![r] = cur]
    /\ attempt' = [attempt EXCEPT ![r] = att]

(***************************************************************************)
(* The first part of _run_step_with_recovery and _execute_step: the step   *)
(* is marked running; a step without a tool completes, one whose arguments *)
(* cannot be resolved is skipped, and the others await the tool.  A step   *)
(* that has its result goes on to await the compressor.                    *)
(***************************************************************************)
StartStep(r, p, st, i) ==
    /\ graph' = [GraphOf(r, p, st) EXCEPT !.node[i] = "running"]
    /\ \/ /\ p[i].task \in ToolTasks
          /\ SetState(r, p, [st EXCEPT ![i] = "running"], i, 1)
          /\ Suspend(r, "tool")
       \/ /\ p[i].task \in ToolTasks
          /\ SetState(r, p, [st EXCEPT ![i] = "skipped"], i, 1)
          /\ Suspend(r, "compress")
       \/ /\ p[i].task \notin ToolTasks
          /\ SetState(r, p, [st EXCEPT ![i] = "completed"], i, 1)
          /\ Suspend(r, "compress")

(***************************************************************************)
(* _sync_graph and one turn of the loop of execute(), up to its first      *)
(* await, for a call whose plan is p and whose statuses are st.            *)
(***************************************************************************)
LoopHead(r, p, st) ==
    \/ /\ AllFinished(st)
       /\ SetState(r, p, st, 0, 0)
       /\ graph' = GraphOf(r, p, st)
       /\ End(r, "ok")
    \/ /\ ~AllFinished(st)
       /\ Executable(p, st) = {}
       /\ SetState(r, p, st, 0, 0)
       /\ graph' = GraphOf(r, p, st)
       /\ End(r, "deadlock")
    \/ /\ ~AllFinished(st)
       /\ \E i \in DOMAIN p : /\ IsNextExecutable(p, st, i)
                              /\ StartStep(r, p, st, i)

Execute(r) ==
    /\ pc[r] = "idle"
    /\ LoopHead(r, plan[r], status[r])
    /\ UNCHANGED replanVars

\* The step's tool, or one of its policy fallbacks, succeeded.
ToolSucceeds(r) ==
    /\ pc[r] = "tool"
    /\ status' = [status EXCEPT ![r][current[r]] = "completed"]
    /\ Suspend(r, "compress")
    /\ UNCHANGED <<plan, current, attempt, replanVars, graph>>

\* maybe_compress returned; the loop goes on.
Compressed(r) ==
    /\ pc[r] = "compress"
    /\ LoopHead(r, plan[r], status[r])
    /\ UNCHANGED replanVars

\* The summary of the language model is no valid result, or the client raised:
\* nothing on the way out of execute() catches it.
CompressorFails(r) ==
    /\ pc[r] = "compress"
    /\ End(r, "compressor_failed")
    /\ UNCHANGED <<stateVars, replanVars, graph>>

\* Seeded fault: the attempts are not counted.
RetryStepForever(r) ==
    /\ pc[r] = "tool"
    /\ policy = "retry"
    /\ current[r] \in DOMAIN graph.node
    /\ graph' = [graph EXCEPT !.node[current[r]] = "pending"]
    /\ UNCHANGED <<stateVars, controlVars, replanVars>>

\* Seeded fault: a retry goes through the loop, which starts counting anew.
RetryStepFromLoop(r) ==
    /\ pc[r] = "tool"
    /\ policy = "retry"
    /\ attempt[r] < MaxAttempts
    /\ status' = [status EXCEPT ![r][current[r]] = "pending"]
    /\ Suspend(r, "compress")
    /\ UNCHANGED <<plan, current, attempt, replanVars, graph>>

(***************************************************************************)
(* Policy retry: the step is put back to pending and tried again.          *)
(* set_node_status raises KeyError when the shared graph, which another    *)
(* call may have replaced during the await, has no such node.              *)
(***************************************************************************)
RetryStep(r) ==
    /\ pc[r] = "tool"
    /\ policy = "retry"
    /\ attempt[r] < MaxAttempts
    /\ \/ /\ current[r] \in DOMAIN graph.node
          /\ attempt' = [attempt EXCEPT ![r] = @ + 1]
          /\ graph' = [graph EXCEPT !.node[current[r]] = "running"]
          /\ UNCHANGED <<plan, status, current, controlVars>>
       \/ /\ current[r] \notin DOMAIN graph.node
          /\ status' = [status EXCEPT ![r][current[r]] = "pending"]
          /\ End(r, "unknown_node")
          /\ UNCHANGED <<plan, current, attempt, graph>>
    /\ UNCHANGED replanVars

\* Seeded fault: one attempt fewer.
GiveUpStepEarly(r) ==
    /\ pc[r] = "tool"
    /\ policy = "retry"
    /\ attempt[r] >= StepMaxRetries
    /\ status' = [status EXCEPT ![r][current[r]] = "failed"]
    /\ End(r, "step_failed")
    /\ UNCHANGED <<plan, current, attempt, replanVars, graph>>

\* Policy retry with every attempt used: AgentLoopError.
GiveUpStep(r) ==
    /\ pc[r] = "tool"
    /\ policy = "retry"
    /\ attempt[r] >= MaxAttempts
    /\ status' = [status EXCEPT ![r][current[r]] = "failed"]
    /\ End(r, "step_failed")
    /\ UNCHANGED <<plan, current, attempt, replanVars, graph>>

\* Seeded fault: the failed result is left in place of the skipped one.
SkipStepKeepsFailed(r) ==
    /\ pc[r] = "tool"
    /\ policy = "skip"
    /\ LoopHead(r, plan[r], [status[r] EXCEPT ![current[r]] = "failed"])
    /\ UNCHANGED replanVars

SkipStep(r) ==
    /\ pc[r] = "tool"
    /\ policy = "skip"
    /\ LoopHead(r, plan[r], [status[r] EXCEPT ![current[r]] = "skipped"])
    /\ UNCHANGED replanVars

\* Seeded fault: the budget is checked with > instead of >=.
ReplanOffByOne(r) ==
    /\ pc[r] = "tool"
    /\ policy = "replan"
    /\ status' = [status EXCEPT ![r][current[r]] = "failed"]
    /\ \/ /\ replanAttempts > MaxReplanAttempts
          /\ End(r, "replan_budget")
          /\ UNCHANGED replanVars
       \/ /\ replanAttempts <= MaxReplanAttempts
          /\ replanAttempts' = replanAttempts + 1
          /\ replans' = [replans EXCEPT ![r] = @ + 1]
          /\ Suspend(r, "planner")
    /\ UNCHANGED <<plan, current, attempt, graph>>

\* Policy replan: refused when the executor's budget is used, otherwise the
\* planner is asked for new steps.
Replan(r) ==
    /\ pc[r] = "tool"
    /\ policy = "replan"
    /\ status' = [status EXCEPT ![r][current[r]] = "failed"]
    /\ \/ /\ replanAttempts >= MaxReplanAttempts
          /\ End(r, "replan_budget")
          /\ UNCHANGED replanVars
       \/ /\ replanAttempts < MaxReplanAttempts
          /\ replanAttempts' = replanAttempts + 1
          /\ replans' = [replans EXCEPT ![r] = @ + 1]
          /\ Suspend(r, "planner")
    /\ UNCHANGED <<plan, current, attempt, graph>>

(***************************************************************************)
(* The planner answered _handle_replan: the new steps are applied, then    *)
(* validated; an invalid plan raises PlanValidationError with the state    *)
(* already changed and the graph not rebuilt.                              *)
(***************************************************************************)
PlannerAnswers(r) ==
    /\ pc[r] = "planner"
    /\ \E new \in Proposals :
         LET p == ReplannedPlan(plan[r], status[r], new)
             st == ReplannedStatus(status[r], new)
         IN \/ /\ ValidPlan(p)
               /\ LoopHead(r, p, st)
            \/ /\ ~ValidPlan(p)
               /\ SetState(r, p, st, current[r], attempt[r])
               /\ End(r, "invalid_plan")
               /\ UNCHANGED graph
    /\ UNCHANGED replanVars

\* replan_unfinished_steps raised AgentLoopError.
PlannerFails(r) ==
    /\ pc[r] = "planner"
    /\ End(r, "planner_failed")
    /\ UNCHANGED <<stateVars, replanVars, graph>>

\* Every call has ended.
Done == /\ \A r \in Runs : pc[r] = "ended"
        /\ UNCHANGED vars

CallStep(r) ==
    \/ Execute(r) \/ ToolSucceeds(r) \/ Compressed(r) \/ CompressorFails(r)
    \/ RetryStep(r) \/ GiveUpStep(r) \/ SkipStep(r)
    \/ Replan(r) \/ PlannerAnswers(r) \/ PlannerFails(r)

Next == \/ /\ \E r \in Runs : CallStep(r)
           /\ UNCHANGED policy
        \/ Done

Spec == Init /\ [][Next]_vars

(***************************************************************************)
(* A call that is running keeps running: tools answer within their timeout *)
(* (tools/executor.py wraps them in asyncio.wait_for), the LLM clients     *)
(* within their request timeout, and the event loop schedules every ready  *)
(* task.  That a call is made is not assumed.                              *)
(***************************************************************************)
Fairness == \A r \in Runs : WF_vars(pc[r] # "idle" /\ CallStep(r) /\ UNCHANGED policy)

FairSpec == Spec /\ Fairness

-----------------------------------------------------------------------------
\* The things that are counted in f, each as its call and its number.
Counted(f) == UNION {{r} \X (1..f[r]) : r \in DOMAIN f}

Total(f) == Cardinality(Counted(f))

\* Call r is the only one the executor has run so far.
Alone(r) == \A q \in Runs \ {r} : pc[q] = "idle"

TypeOK ==
    /\ policy \in Policies
    /\ DOMAIN plan = Runs
    /\ DOMAIN status = Runs
    /\ \A r \in Runs : /\ IsPlan(plan[r])
                       /\ status[r] \in [DOMAIN plan[r] -> Status]
    /\ current \in [Runs -> Nat]
    /\ attempt \in [Runs -> Nat]
    /\ pc \in [Runs -> PCs]
    /\ outcome \in [Runs -> Outcomes]
    /\ replans \in [Runs -> Nat]
    /\ replanAttempts \in Nat
    /\ graph.session \in Runs \cup {NoRun}
    /\ DOMAIN graph.node \subseteq Nat \ {0}
    /\ \A i \in DOMAIN graph.node : graph.node[i] \in NodeStatus

\* A step that has left PENDING keeps every step it depends on in the plan and
\* finished: also after a replan dropped, kept and renumbered steps around it.
DependenciesRespected ==
    \A r \in Runs : \A i \in DOMAIN plan[r] :
        status[r][i] # "pending" => DepsMet(plan[r], status[r], i)

\* The error "Plan deadlock: steps ... cannot run" of execute() is never
\* raised: a validated plan always has a step to run.
NoPlanDeadlock == \A r \in Runs : outcome[r] # "deadlock"

\* execute() returns only with every step completed or skipped, although
\* all_steps_finished also accepts FAILED.
OkMeansFinished ==
    \A r \in Runs : outcome[r] = "ok" => FinishedIds(status[r]) = DOMAIN plan[r]

\* Under policy skip no failure of a tool ends a call: what can is a summary
\* that the language model spoils.
SkipNeverAborts ==
    policy = "skip" => \A r \in Runs : outcome[r] \in {"none", "ok", "compressor_failed"}

\* Finished work is kept: a completed or skipped step stays in the plan as it
\* is and is never run again, through retries and replans.
FinishedWorkKept ==
    [][\A r \in Runs : \A i \in FinishedIds(status[r]) :
          /\ i \in DOMAIN plan'[r]
          /\ plan'[r][i] = plan[r][i]
          /\ status'[r][i] = status[r][i]]_vars

\* step_max_retries, "Retries per step when policy=retry": a call that ends
\* with an error has used every attempt at the step.
RetryBudgetHonoured ==
    policy = "retry" =>
        \A r \in Runs : outcome[r] \in Errors \ {"compressor_failed"} =>
            attempt[r] = MaxAttempts

\* What of the two budgets is true of the shared executor: a call gives up a
\* step after every attempt, and a replan is refused when the process made as
\* many as one call may make; the first call gets exactly its own budget.
ProcessBudgets ==
    \A r \in Runs :
        /\ outcome[r] = "step_failed" => attempt[r] = MaxAttempts
        /\ outcome[r] = "replan_budget" =>
              Total(replans) = MaxReplanAttempts
        /\ Alone(r) /\ outcome[r] = "replan_budget" =>
              replans[r] = MaxReplanAttempts

\* While one call is the only one so far, the graph agrees with its plan state
\* at every await, but for the current step, which is shown running.
GraphFollowsCall ==
    \A r \in Runs :
        Alone(r) /\ pc[r] \in {"tool", "compress"} =>
            graph = [GraphOf(r, plan[r], status[r])
                        EXCEPT !.node[current[r]] = "running"]

\* Every call that starts ends: retries, replans and steps are all bounded.
CallsEnd == \A r \in Runs : pc[r] # "idle" ~> pc[r] = "ended"
=============================================================================
