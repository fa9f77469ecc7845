# A TLA+ model of the TripGraph agent runtime

TripGraph answers a travel request with a plan: a language model writes a list
of steps, the runtime validates it, compiles it to a graph, calls a tool for
every step, lets a critic look at the result and, if it asks for it, replans
what is not finished.  This directory holds TLA+ modules translated from
`src/`, TLC configurations that check them on small instances, and proofs, for
every value of the constants, of properties of the plan executor and the orchestrator around
it, the compiled plan, the macro graph and the plans it executes, the version history, the
record of executions, the questions to language models, the replay of a run, and the outcomes,
profiles and episodes of requests.

    tlc -config exec.cfg MCPlanExecution       # a model-checking run
    tlapm PlanExecution_proofs.tla             # the proofs

## 1 Inventory

### 1.1 The parts, their state and operations

| Part | State | Operations |
|---|---|---|
| Plan state, `plan/state.py`, `plan/validator.py` | the plan's steps, the status of each step, the current step | `mark_*`, `get_executable_steps`, `apply_replanned_steps`, `capture_snapshot`, `restore_snapshot`, `remap_step_status`, `assert_valid` |
| Plan executor, `plan/executor.py`, `plan/failure_policy.py` | `_replan_attempts`, `_execution_graph`, policy; one object for the process | `execute`, `_run_step_with_recovery`, `_handle_replan`, `run_step_for_graph` |
| Graph view, `plan/graph.py` | nodes with statuses, the session they belong to | `from_plan_state`, `set_node_status` |
| Compiled plan graph, `graph/runtime/compiler`, `graph/runtime/core` | nodes, edges, fan-outs; in a run the current node, the iteration and the branches' states | `compile`, `astream`, `_execute_fanout`, `merge_states` |
| Plan repair, `plan/repair.py` | none | `remove_duplicate_steps`, `renumber_steps`, `repair_plan`, `normalize_plan` |
| Replanning controller, `plan/replanning_controller.py` | `_attempts`, never reset, one object for the process | `handle` with two proposals, repair, restoring of completed steps, rollback |
| Macro graph, `graph/runtime/workflow.py`, `nodes.py`, `memory_nodes.py` | `AgentState` of a request | the nodes from `memory_load` to `finalize` |
| Orchestrator, `plan/orchestrator.py` | none of its own | execute, critic and `handle` in a loop, without the graph runtime |
| State versions, `graph/runtime/state_versioning.py` | versions with parents, the current version and branch, the base of each branch | `commit`, `rollback`, `fork_branch`, `diff` |
| Planner agent, `agents/planner.py`, `core/llm/rule_based.py`, `normalize_plan` | none of its own | `create_plan`, the replans, the plans by rules |
| Replay and debugging, `replay_debug.py`, `execution_policy.py`, `replay_service.py` | node records, replay cursor, breakpoints | `replay_all`, `debug_invoke`, `maybe_pause` |
| Tool execution, `tools/executor.py`, `tools/tracing.py` | trace records | `execute`, `execute_batch`, retries and timeouts |
| Tool policy, `tools/policy` | reliability scores, decision trace | `decide`, `record`, `record_fallback` |
| Persistence, `persistence` | bounded queue and its worker, recorder, sqlite tables | `submit`, `drain`, `stop`, `begin`, `on_graph_event`, `finish` |
| Memory, `memory`, `graph/runtime/memory_nodes.py` | short-term messages, long-term facts and keyed episodes of each session | `memory_load`, `memory_persist`; `save`, `load`, `delete`, `clear` |
| Context compression, `plan/context_compression.py` | none | `maybe_compress` |
| Agent loop, `agents/loop.py` | messages, iteration | `run` |
| Observability, `observability` | a bounded queue with its worker, a profile for each execution | `submit`, `stop`, the observers' metrics, the context variables that attribute them |
| Language models, `core/llm` | the list of fallback events of an execution | `complete` with its retries and its fallback to rules |
| API and streaming, `graph/runtime/runner.py`, `streaming/sse.py`, `api` | open requests and streams | `invoke`, `stream`, `stream_with_heartbeat`, the state API |
| Tools, tool routers, MCP client, evaluation | none that feeds back into the above | answers and errors |

### 1.2 How they interact

`app/bootstrap.py` builds one executor, one controller, one tool executor, one
write queue and one memory store, and every request uses them.  A request is an
asyncio coroutine; it runs alone from one `await` to the next, so the points at
which requests can meet are the awaits of tools, language models and stores,
and what they share is in those objects: the replan counters, the graph view,
the trace of the tools, the queues for records and for metrics, the stores.  Inside one request the fan-out of a
compiled plan starts one task per step.  Each works on a deep copy of the
`AgentState`, and `gather` and `merge_states` bring the copies together.

The request's way through the code is `graph/runtime/runner.py` - macro graph -
`execution` node - compiled plan - `PlanExecutor.run_step_for_graph` - tools,
then `critic` and possibly `replanner`, which changes plan and compiled graph
and leads back to `router`.

### 1.3 What is hard in it, and what makes each part correct

* A plan is changed while it is executed: by policy `replan`, by the critic, by
  repair, with renumbering.  Finished steps must keep their identity, dependencies
  must stay meaningful, and a valid plan must never get stuck.
* State shared by requests although it looks like a call's own: `_replan_attempts`,
  `_execution_graph`, `_attempts`.  Budgets must be those of the documentation,
  and what remains true of them must be stated.
* Parallel branches with copies of the state and a merge that chooses a side.
  What was executed must be recorded, in every order of completion.
* A failure between two changes: the exception of a step, a rejected replan, two
  rejected proposals in a row, a client that leaves a stream, a heartbeat that
  cancels what it waits for.
* Retries inside retries: a tool's tries, fallbacks and attempts; an HTTP request's
  inside those of `complete` and of the planner.  They may multiply and must not feed each other.
* Bounds that end things: retries, replans, two `max_iterations`, the queues' sizes,
  the limit of a memory query.  They must not be what ends a good run.
* Loops that must end: retry, replan, critic - replanner - router, execute - critic - handle.
* Two views of one thing: the context the critic judges by and the results the answer is
  made from; the tools the planner's prompt names and those that the rules read in it.
* Histories that are found again by keys: versions and branches, node records by
  id and sequence, memory entries by generated keys.

`PROJECT.json` lists every hazard with its line and the properties about it.

## 2 Plan

The order is that of the way a request takes, with what it depends on first.

| Step | Modules | Subject | State |
|---|---|---|---|
| 1 | `PlanSteps`, `PlanExecution` and `_proofs` | plans and the executor shared by calls | done |
| 2 | `StepOrder`, `PlanSubgraph` (proofs in `AgentWorkflow_proofs`) | the compiled plan with parallel branches, against an abstract specification of its calls | done |
| 3 | `PlanRepair`, `AgentWorkflow`, `AgentWorkflow_proofs` | repair, the replanning controller and the macro graph around `PlanSubgraph` | done |
| 4 | `StateVersions` and `_proofs` | commit, rollback, fork, replay of a branch and the merge of version stores | done |
| 5 | `ToolPolicy`, `ToolCalls` and `_proofs` | routing of a step, its calls with retries, timeouts and fallbacks, the traces | done |
| 6 | `Persistence` and `_proofs` | the recorder, the write queue, its worker and `stop()`, the tables, restarts and restored sessions | done |
| 7 | `Metrics`, `SessionMemory`, `RequestStream` and `_proofs` | requests as their clients see them, with the metrics and memories they leave | done |
| 8 | `PlanOrchestration` (proofs in `PlanExecution_proofs`) | the orchestrator around `PlanExecution` and the controller, for concurrent requests | done |
| 9 | `ModelCalls`, `PlannerRules`, `PlannerAgent` and `_proofs` | questions to language models, the rules' plans, `normalize_plan` | done |
| 10 | `GraphReplay` and `_proofs` | replay and debugging of a recorded run | done |
| 11 | `AgentLoop` | the tool loop of the first phase, which shares nothing with the above | open |

Composition: `PlanSubgraph` and `PlanExecution` both extend `PlanSteps`;
`AgentWorkflow` extends `PlanSubgraph` and `PlanRepair` and takes the subgraph's
actions as steps of its execution node; `PlanOrchestration` extends `PlanExecution` and
`PlanRepair` in the same way; `PlannerAgent` extends `ModelCalls` and `PlannerRules`, which
extends `PlanRepair`; `RequestStream` extends `Metrics` and `SessionMemory`.  The abstract
specification is `StepOrder`.

## 3 The modules

### PlanSteps - plans and statuses

A plan is a function from step ids to `[task, deps]`; a status function has the
same domain.  A task stands for task text and tool hint.  `ValidPlan` is
`PlanValidator`, `Executable` and `IsNextExecutable` are `get_executable_steps`
and `next_executable_step`, `ReplannedPlan` and `ReplannedStatus` are
`apply_replanned_steps`.  Dependencies of new steps are copied as the planner
numbered them, because the code does so.

### PlanExecution - the executor

One process, several calls `Runs` of `execute()` on one `PlanExecutor`.
`pc[r]` is the await at which call `r` is suspended (tool, compressor, planner),
and each action is the code from that await to the next one, so the
interleavings of TLC are those of asyncio.  `LoopHead` is `_sync_graph` with one turn of
the loop of `execute()`; `StartStep` is the part of `_run_step_with_recovery`
and `_execute_step` before the tool; `RetryStep`, `GiveUpStep`, `SkipStep` and
`Replan` are the three policies; `PlannerAnswers` is `_handle_replan` with
the validation that comes after the state was changed.  `replans[r]` is a
history variable.  `CompressorFails` is the compressor raising, after the step has completed.
Results, traces and the context are abstracted; the policy's fallback
tools are part of whether the tool succeeded.

### PlanSubgraph - the compiled plan

`Level`, `FanOut`, `Successor` and `AfterSteps` are what the compiler writes and what
`astream` makes of it; `node` is astream's current node, `branch` the running
step tasks, each with its copy of plan and statuses.  `StartSteps` starts
the step or steps of a node with the guards of the step node, `FinishStep`,
`RaiseStep` and `ReplanStep` are the outcomes of `_run_step_with_recovery`, and
`JoinBranches` is gather followed by `merge_states`.  `calls` and `done` are
histories per task; distinct steps of the compiled plan have distinct tasks.
`PlanExecution` has the step's recovery action by action; here it is one action
with the same results.

### StepOrder - what a plan's execution promises

Steps are started at most once, after what they depend on, possibly together.
`PlanSubgraph` implements it under the refinement mapping in that module
(`StepsRunOnceInOrder`), which is checked and proved.

### PlanRepair - lists from the language model

Here a step also has an id, since the list may repeat or disorder
them.  `RemoveDuplicates`, `Renumbered` and `Repaired` are the functions of
`plan/repair.py`; `TryApply` is `_try_apply_replan_steps` with
`_validate_or_repair_plan`: application, validation, repair, validation of the
repaired plan, restoring of completed steps by their ids.

### AgentWorkflow - a request

One action per node of the macro graph.  The execution node hands over to
the actions of `PlanSubgraph` (`RunPlanGraph`, `RunStep`) and takes the result back
in `ExecutionReturns` or `ExecutionRaises`.  `ReplanResult` is
`ReplanningController.handle`, including that the second rollback
restores the objects the fallback has already changed.  `attempts` belongs to
the process, everything else to the request.  Requests follow one another:
what concurrent requests do to the executor is the subject of `PlanExecution`,
and the controller's counter is only ever compared and incremented between awaits.

### StateVersions - the version history

`state` is an `AgentState` with its `version_store`, and `issued` counts the
version ids.  While a graph runs, `RunNode` and `RunFinalize` are a node with
its commit (`_execute_node`), and `StartFanOut`, `RunBranch` and `JoinFanOut` are
`_run_parallel_fanout_stream`: each branch commits on a copy of the state at the
fan-out (`source`), and the merges unite the stores.  Any node may have a fan-out,
so the histories are those of any graph.  Between runs the client of the
state API sends its snapshot back: `Rollback`, `Fork` and `ReplayBranch`.  The contents of
a state are its query, its answer and a set of items, as far as rollback, merge
and replay treat them differently.  `parallel` and `reused` are history variables.  The
plan state is left out (a snapshot does not restore it), and so are the versions that a
compiled plan commits of its child state, in which messages and memories are empty.

### Persistence - the record of executions

`queue`, `worker`, `job` and `shutdown` are one process with its
`AsyncWriteQueue`; `db` is the database, which `Restart` keeps.  An execution's actions are
`begin` (`StartRequest`, or `ReadSession` and `RestoreSession` with the read of the session
row between them), the end of a node, `finish`, and a client that leaves `stream()`.  Each
submits its jobs in the order of the recorder.  `TakeJob` and `EndWrite` are one turn of the
worker; the write itself may fail because of the schema's foreign keys or for
any other reason, and when the worker is cancelled or killed meanwhile it was made or not
(`CutOff`).  `Stop`, `StopJoined` and `StopTimesOut` are `stop()`.  `lost` is a history
variable: a job was refused, dropped, failed or cut off.  The properties about what
is stored speak of histories without a loss, since the code logs a lost write and nothing
makes up for it; the losses are in the model for what they do to the worker, to `stop()` and
to sessions that are restored afterwards.  Executions begin in the order of their numbers
(the ids are uuids), and the server takes no request while the application shuts down.

### ToolPolicy and ToolCalls - the tools of a step

`ToolPolicy` is `ToolPolicyEngine.decide` as an operator: a tool is a family with a
provider, a decision the selected tool and at most one fallback, the reliability scores a
ranking of the providers.  `ToolCalls` has the steps of all requests in a process.
`RouteStep` is the router node for a step, `StartCall` and `StepWithoutCall` are
`_execute_step`, and `TrySucceeds`, `TryFails` and `StepFails` are what follows when a
try ends: the next try (`_try_with_retries`), the executor's fallback
(`_execute_with_reliability`), the policy's (`_try_policy_fallback`), or the failure policy.
A timeout is a try that fails.  `CancelCall` is a client that leaves.  The hint and the decision of
a step belong to its request, the trace of decisions (`entries`, `counters`) to the process.
`records` are the tracer's records of the step's current attempt.  A step that is routed again
after the critic's replan counts as another step.  Which step may start when, and how many replans
there may be, is left to `PlanExecution` and `PlanSubgraph`.

### PlanOrchestration - requests without the graph runtime

`phase[r]` is the await at which `PlanOrchestrator.run` is suspended, and `ExecutorStep`
takes a step of `PlanExecution` for it, with what the step leaves in the `context`: the keys
`step_outputs` and `tool_outputs`, which a compression keeps (`PreservedKeys`) or loses.
`RulesVerdict` is the rule-based critic, which reads `tool_outputs`; `Sections` is what
`synthesize_final_result` finds in results and context, by another way.  `MayReplan` and
`Replanned` are the controller, whose counter is shared; `FallbackVerdict` is what it says
when it is the last word after a language model and is handed the wrong message.  A task stands
for its tool, a goal for the sections it asks for.

### ModelCalls - a question to a language model

`question[q]` goes from its caller to the HTTP request and back: `RequestFails` repeats the
request (`_post_completion` of the Qwen client) or gives it up to the rules
(`AdaptiveLLMClient`), `RejectAnswer` asks again with feedback or leaves it to the rules
(`create_plan`, the critic).  `events` is the list of fallback events that the
branches of an execution share.  `by` tells who wrote the answer, and whether the rules found
the question among the messages.

### PlannerRules and PlannerAgent - the plans

`PlannerRules` has the plans of the rule-based client (`RulePlan`, `RuleReplan`) and
`normalize_plan` with its five rewritings.  A query is what the code looks for in it, a task what
the patterns find in its text.  `PlannerAgent` puts them behind `ModelCalls`: `MakePlan` is
`create_plan` with its normalization and the second one of `planner_node`, `RulesReplan` the
rules' new steps for a plan that was executed in part.  `HandOver` forgets the
questions once they are settled, which keeps the instance small and loses nothing: what
follows runs without an await.

### Metrics, SessionMemory and RequestStream - requests

`Metrics` is the collector: `SubmitMetrics`, the worker's `ApplyJobs`, and `stop()` with its
timeout.  `did` is the history of what each execution did, `profiles` what the store says of
it.  `SessionMemory` has the three stores as far as `memory_load` and `memory_persist` use them.
In `RequestStream` a request passes through the memory nodes, the nodes up to `execution`, critic and
finalize; `EndNode` is the end of one with its effects, `RequestFails` an exception,
`HeartbeatTimesOut` the `wait_for` of `stream_with_heartbeat` cancelling the generator, and
`ClientLeaves` a client that disconnects.  `finishes[r]` are the outcomes given to the recorder,
`client[r]` what the client read last.  `Current` is the execution id that the tracer and the model
client find in their context: in a stream up to Python 3.11 there is none.

### GraphReplay - replay and debugging

A state is its contents and its version id, since the hash by which records are found
covers both.  `RunNode` is `_execute_node` executing the node's function, `SkipNode` the same with a record
standing for it, `Usable` the look-up of `resolve_node_output` (`Peek` is `peek_replay_record`).
`BeginReplay` is `replay_all`, `Pause` is `maybe_pause`, and `StoredState` is what
`ExecutionReplayService` makes of stored rows.  The nodes' edges (`Route`) are a parameter;
fan-outs, whose records never reach the response, are left out.

## 4 The runs

| Run | Instance | Shows |
|---|---|---|
| `exec` | two calls, four tasks (one unregistered, one without a tool), plans of one and three steps, five proposals including empty and invalid ones, one retry, two replans, every policy | dependencies, no deadlock error, what is true of the shared budgets and of the shared graph view, finished work is kept, every call ends |
| `subgraph` | all plans of three steps and all of four, four proposals, one replan, every policy | plans without parallel levels complete, calls implement `StepOrder` |
| `subgraph_lost` | the same plans | a violation: a merge forgets completed steps |
| `workflow` | two requests, a chain, two parallel steps and two forks, six lists of the language model, the rule-based fallback, two replans | executed plans are valid, the cap never ends a request, every request is answered |
| `orchestration` | two concurrent requests, plans of one and two steps, a server's tool and a native one of the same section, a tool without arguments, both critics and none, two replans | what the critic calls complete is in the answer, it asks for nothing that was delivered, concurrent requests stay within the controller's attempts, every request ends |
| `orchestration_kept` | one request with a plan of one step, a list that repeats it and one out of order | a violation: a second replan that is repaired reopens a completed step |
| `planning` | two questions of any two callers under three providers; six queries, six registries, 1,296 lists of three steps | an outage or useless answers fail no planner and no critic, fallbacks are told, cost is bounded, the rules' plans and replans are accepted whatever is registered, normalization drops repetition only, questions are settled |
| `requests` | two requests of a session, the first a stream, the second a stream or not; one failing or leaving request, one replan, one loss, a metrics queue of two, stores of two messages | profiles are exact when the queue is drained and nothing was lost, never overstate, the recorder has the outcome the client read, episodes' keys are distinct within the documented limits, requests settle |
| `replay` | a cyclic graph of two nodes, three contents, four iterations; a run replayed, with and without its initial state, or debugged with three sets of break points | nodes are skipped only for a record of theirs, a stored run replays to its end, a pause shows what the node read, replay and debugging end |
| `versions` | fan-outs of two branches, two items, a named branch, a client's name equal to a default one, seven versions | lineages are complete, the state is what its version says, a merge has the work of every branch |
| `tools` | two steps of one request, a family with an MCP tool and one without, custom tools, every strategy, MCP connected, disabled and unreachable: 69 configurations | the tools called fit the step, trace and outcome agree |
| `persistence` | two executions of one session with up to two nodes each, a queue of four, one restart | what is joined is recorded in full, a session lists finished executions, the lineage of a stored version is stored, `stop()` returns |

A run keeps the properties that take several steps, mostly of several actors, to violate.  The
modules define more of them: type invariants, which also hold and some of which are proved
(section 5), and the statements listed under "Disagreements found", which do not hold.  To see one of
these, put it in the configuration named there instead of its properties.

Bounds, and why they suffice.  Two calls are enough for everything one call can do
to another through a counter and a graph.  Plans of one step against plans
of three make the shared graph lack a node.  Three steps are needed for a
renumbered step to have a finished one before and an unfinished one behind it;
four for two parallel levels in a row, the least plan where the graph's
successor goes wrong.  The proposals contain each way a list can be bad:
empty, forward dependency, dependency on a sibling, equal ids, unregistered
tool, copied steps.  Two requests let one find the controller's attempts
used.  `GraphMaxIterations` is the code's default 50, `MaxCriticReplans` its
default 2 in `workflow`; `StepMaxRetries` is 1 where the default is 2: an attempt that may be
repeated and the last one are still different.  `MaxRequests` is the only bound of `workflow` that is
not the code's.  `MaxVersions`, `MaxNames` and `MaxBranches` are bounds too: seven
versions allow a run, a fork, and a fan-out with its merge on the fork; a third
branch would be merged as the second is; a second name suffices to reuse one.
The queue of four, where the code's default is 1024, is what `finish` submits with two versions:
it is neither always nor never full.  Two executions interleave their jobs or follow one another
with a restored session, and one restart lets a request meet the tables of an earlier process.
Of the writes that fail although the schema accepts them there is one, and it is the first loss:
after a loss the invariants say nothing more.
`tools`: two tries and two attempts distinguish first, middle and last; two steps are what it
takes to overwrite another step's entry and to be replaced by another step's replan.
`orchestration`: two replans, the controller's default, for two requests let one pass what the other
has left, and let one have both; the
section with two tools is what lets critic and answer differ.  `planning`: `QwenRetries` 1 and
`PlannerRetries` 2 make the products of the nested retries different from each other; the lists
repeat, reorder and leave out ids, and have two budgets, a synthesis with a tool, and a
dependency on a step that is not there.  `requests`: `MaxReplans`, `MaxBreaks` and
`MaxLosses` are bounds of the instance, one each; a queue of two loses metrics in the middle of a
request; two messages and a load limit of two are reached by two requests with two rounds.
`replay`: four iterations pass through a loop of two nodes twice, so that a record of another turn
exists, and end a run at the cap.  `Pythons` is 3.11, that of the Dockerfile; under 3.12 the same
invariants hold.

Symmetry is used in `versions`, where items and queries are
interchangeable, and in `tools`, where the steps are; neither checks liveness.  Elsewhere tasks and plans are not
interchangeable.

### Fairness

`PlanExecution`: a call that is under way takes its next step; that it is
made is not assumed.  `PlanSubgraph`: the graph and each branch go on.
`AgentWorkflow`: the macro graph, the compiled graph, some branch, and the
replanner go on.  All are weak fairness, and rest on the timeouts of
the tools (`asyncio.wait_for` in `tools/executor.py`), those of the language
model clients, and asyncio running every ready task.  Outcomes are never
assumed: tools may fail always, the planner may raise, the critic may ask for
a replan every time.  The replanner's condition is written on `at` alone: it is
enabled whenever that node is reached, and whichever way it goes it leads to the router.
`Persistence`: the worker's task is scheduled and a write ends, and `stop()` goes on once the
queue is joined.  The timeout of `stop()` is not assumed, and `StopReturns` holds without it.
`PlanOrchestration`: a request that has begun goes on, and leaves the replanner, whatever the planner answers.  `PlannerAgent`: a question takes its next
step, every HTTP request being bounded by `qwen_timeout_sec`; the making of plans is not assumed.
`RequestStream`: the nodes of an open request return or raise, for the same timeouts, and the collector's
worker and the join of its `stop()` go on; heartbeats, clients that leave and the collector's
timeout are not assumed.  `GraphReplay`: the one coroutine goes on.

`CHECK_DEADLOCK FALSE` stands in `persistence` and `requests`, where a stopped process that is not
started again does nothing more, and in `replay`, where a replay that is over stays so.

### Disagreements found

Two are runs of their own.

1. `state_merge.py:146`: the join of a parallel level keeps the `plan_state` of
   its last branch (`subgraph_lost`).  The other steps' statuses are pending again; in
   the same graph their nodes are not visited twice, which is why
   `StepsRunOnceInOrder` still holds.
2. `replanning_controller.py:240`: the critic's second replan may make a plan that has to be repaired.
   `repair_plan` then drops a step that repeats a completed one and renumbers the rest,
   `remap_step_status` leaves a pending number to the completed step, and
   `restore_completed_step_snapshots` writes its task over the new step there: its tool runs
   again, and the new step is lost (`orchestration_kept`).

The others are stated as definitions that TLC refutes in the configuration named.

3. `plan/repair.py:34`: `prefer_tool_execution_order` sorts the steps and leaves their ids, by which
   `renumber_steps` sorts them again
   (`docs/system_engineering/09_phase9a_qwen_llm_integration.md:228`; `ToolsInOrder`, `planning.cfg`).
4. `executor.py:143`: two concurrent calls share the graph view, and a retry may
   raise `KeyError` (`RetryBudgetHonoured`, `exec.cfg` with `Policies = {"retry"}`).
5. `graph.py:244`: after a fan-out the join node is passed over, and a fan-out
   hanging on it is not run (`ReadyStepsRun`, `subgraph_lost.cfg`).
6. `state.py:74`: completed steps that the planner copies, as its prompt asks, are
   appended and executed again (`FinishedTasksNotRepeated`, `workflow.cfg`).
7. `replay_service.py:175`: `restore_session` rebuilds `should_stop` and `final_result` with
   the state and resets neither.  After a completed execution the graph stops
   before its first node, and the old result is recorded for the new query
   (`RestoredSessionContinues`, `persistence.cfg`).  `replay_from_branch` (`runner.py:402`) has the
   same mechanism when it forks from the version that `finalize` committed.
8. `executor.py:296`: decisions are found by step number.  A replan inside the compiled plan
   reuses numbers without routing, and a new step falls back to the tool of the step that had its
   number (`FallbackKeepsFamily`, `tools.cfg`).
9. `streaming/sse.py:48`: a heartbeat that falls due cancels the generator; the client reads
   neither `done` nor `error`, and the execution has no outcome
   (`docs/system_engineering/07_runtime_flow_narrative.md:183`; `StreamSaysHowItEnded`, `requests.cfg`).
10. `core/graph.py:194`: `finalize` sets `should_stop`, and the loop leaves before the
   `memory_persist` that follows it: the answer is not remembered (the same document, lines 170
   to 174; `AnswerRemembered`, `requests.cfg`).
11. `core/graph.py:471`: the state's version id is hashed with it, and a commit makes a new one, so
    that after its first node a replay finds no record and executes every node again
    (`docs/system_engineering/04_phase4_graph_runtime.md:132`; `ReplayFollowsRecords`, `replay.cfg`).
    When the nodes then take another way, a step reports the states of another
    node (`StepsShowTheirNode`).
12. `execution_critic.py:147`: after two unusable answers the rules are given the messages whose last
    one is the request for corrected JSON; they evaluate an empty payload and call every goal
    completed (`docs/system_engineering/09_phase9a_qwen_llm_integration.md:159`;
    `FallbackJudgesExecution`, `orchestration.cfg`).
13. `rule_based.py:49`: the same for the planner's replans: the rules answer the feedback, not the
    question (line 104 of that document; `RulesAnswerTheQuestion`, `planning.cfg`).
14. `rule_based.py:66`: with an empty registry the rules use three tools all the same, although the
    prompt says "Do not set `tool_hint`" (`planner_prompt.py:65`; `EmptyRegistryRespected`,
    `planning.cfg`).
15. `plan/repair.py:136`: of two budget steps the one with the longer text is kept, and when it sounds
    like a synthesis it then loses its tool: nothing computes the budget
    (`BudgetStillComputed`, `planning.cfg`).
16. A response body with `"message": null` raises an `AttributeError` that no caller
    catches (`BodyMisshapen`; line 102 of the same document says that failures no longer crash).
    `OutageNeverFails` leaves it out.

Because of 1 and 5, `ChainPlansComplete` speaks of plans without parallel levels only; because of
8, `CallsFitTheStep` leaves replaced steps out.

Four more shape what the properties say.  The replan budget of
`plan/failure_policy.py:19` ("per execution") is that of the process (`executor.py:162`):
`ProcessBudgets` states what is true instead.  The second rollback of a failed replan restores
objects that were changed in between (`replanning_controller.py:154`): `ExecutedPlanValid` speaks of
requests in which no replan failed.  Under Python 3.11 the tool and model metrics of a
streamed request are recorded under no execution: `DrainedProfileIsExact` compares with what the
collector was told (`Told`).  Episodes are numbered by those that were loaded, so that overlapping
requests, and all of them once the limit is reached, repeat a key: `EpisodeKeysDistinct` excepts these.

## 5 The proofs

Eight modules of proofs.  Liveness and `ENABLED` are out of the prover's reach, and so is what a
fold or a recursive function computes for every input, which needs an induction over data.  Where the code
filters or sorts, the model says what the result is (`InOrder` and `InTurn` enumerate a set of
numbers in increasing order, `Captured` is the set of rows with a snapshot), and where a property
counts, it compares cardinalities (`Total`, the elements of `Counted`), so that the facts follow from
those of `FiniteSetTheorems`.

`PlanExecution_proofs` begins with the facts about plans: a valid plan whose steps are pending or
finished, and not all finished, has an executable step (`ValidPlanProgress`:
the least unfinished step, since dependencies are smaller), and
`apply_replanned_steps` keeps finished steps (`ReplanKeepsFinished`, which `AgentWorkflow_proofs`
has too).  Of `PlanExecution` it proves, for any `Runs`, `Tasks`, `InitialPlans`,
`Proposals`, `Policies` and budgets that satisfy the module's assumptions (plans are
valid, proposals are sequences of steps, budgets are naturals):

    Spec => []TypeOK                 Spec => []NoPlanDeadlock
    Spec => []DependenciesRespected  Spec => []OkMeansFinished
    Spec => FinishedWorkKept         Spec => []GraphFollowsCall

None of these is inductive.  `IInv` adds to the types, for each call `r`, what
its await means (`CallInv`): while it is idle or at the compressor every step is
pending or finished (`Quiet`); at the tool the current step is running and the
others are quiet; until the call has ended, and after it has ended well, its plan is valid; and
always a step that is not pending has its dependencies finished and in the plan.
`NoPlanDeadlock` needs the valid plan and the quiet statuses at the loop head
(`ValidPlanProgress`); `OkMeansFinished` needs that no failed step is left there,
since `all_steps_finished` accepts it; `FinishedWorkKept` needs that the step which
an action changes is not finished.  `LoopHeadKeepsInv`
carries the argument once for the four actions that reach the loop; the others are
`SetCurrentKeepsInv`.  `CallInvOfOthers` says that the calls which do not move keep
their part: they share nothing that `CallInv` speaks of.
`GraphFollowsCall` is inductive given `IInv`.  Its proof says of each action what the graph
shows of the plan afterwards (`Shown`), or shows but for the current step (`ShownButCurrent`), and
how the loop head brings the two together (`LoopHeadShows`).
These theorems are about the `Spec` of `PlanExecution`, in which a call begins with a plan of its own;
what follows says which of them hold of calls that follow one another on one plan.

`ProcessBudgets` needs two facts: the executor's counter is the number of all replans of all calls
(`Counts`), and a call at its tool or behind it has made at most as many attempts as it may
(`CallBudget`).  `Total(f)` is the number of pairs of a call and one of its replans;
`CountOneMore` and `CountsAreMonotone` say what a replan adds to it.

`EveryStepLeavesLess` is what of `CallsEnd` is safety.  `Left(r)` is four numbers: the replans that
the executor may still make, whether the planner is asked, the steps that are not finished, and the
tries left.  Each step of a call makes `Left(r)` smaller in lexicographic order, and a step of another
call leaves it or makes it smaller, since it may use a replan of the common budget.  That order is well
founded (`LexicographicIsWellFounded`), so that there is no endless call; that each of its awaits
returns is the fairness with which TLC checks `CallsEnd`.

The same module proves of `PlanOrchestration`, for any number of concurrent requests, any plans, goals and
lists,

    OrchestrationSpec => []CriticReplansBounded
    OrchestrationSpec => []CompletedGoalIsAnswered

The controller compares its counter before the planner is awaited and raises it before, too; hence
`ReplansInv`: the counter is at least the number of replans applied and of those under way, and never
above its limit.  A comparison after the await would let two requests pass together
(the mutant).  `VerdictInv` says why the rules' verdict and the answer agree: a verdict
"completed" ends the request at once, with the tools it has looked for in the `tool_outputs` of the
context, however often that was compressed before, and `Sections` finds them there.

    OrchestrationSpec => [](TypeOK /\ NoPlanDeadlock /\ DependenciesRespected /\ PlansFit)
    OrchestrationSpec => [][\A r \in Runs : phase[r] # "replanner" => FinishedKept(r)]_allVars

`ExecutionsAreSafe` carries the guarantees of the executor to every execution of a request.
`ExecutionInv` has `CallInv` for each request until it is done.  What makes it inductive is the
controller: its result is a sequence of steps for any list (`StepsToApply`, through the sorting,
removal and renumbering of the repair: `RepairedSteps`, `AppliedSteps`), its statuses are quiet with
dependencies finished whether the repair restored steps or the old plan was put back, and it is executed
only when it was accepted as valid (`TryApplySafe`).  So the next call of `execute()` begins where `Spec`
lets one begin, but for a plan that is in part done.

`FinishedKeptUntilReplan` and `FirstReplanKeepsFinished` say exactly how far "completed steps are
immutable" goes (disagreement 2).  No step but a replan for the critic changes or loses a
finished step; the critic's first replan does not either, repaired or not, if no initial plan
repeats a task and `execute()` does not replan.  The plan is then numbered from 1 with every step
done, so that the repair's sorting finds its steps in their places.  TLC refutes the same of
the second replan, and of the first one where tasks are repeated.  That they are not is what
`normalize_plan` sees to (`remove_duplicate_steps`).

`NothingDoneIsMissing` is proved twice: under the policies retry and replan for any plans and any
`MaxCriticReplans` (`NothingDoneAskedAgainUnlessSkipping`), and under every policy if no initial plan
repeats a task and `MaxCriticReplans` is at most 2, its value in `config/settings.py:117`
(`NothingDoneAskedAgain`).  `RequestInv` says that every tool whose step has one of the statuses `Owed`
is in the `tool_outputs` of the context (`Delivers`), which a compression preserves, and that what a
critique calls missing is not among them while the planner is awaited.  A repair moves statuses with the ids,
and a step's status may come to another step's place only over one that was restored
(`RepairMovesSteps`, `TryApplyDelivers`).  Unless failing tools are skipped, all of them were
delivered and the exchange does not matter; otherwise `Owed` speaks of completed steps and of the first
two replans.  With a third replan, or with repeated tasks, TLC finds a skipped step that takes the
status "completed" of another.

`AgentWorkflow_proofs` proves of `PlanSubgraph` that `Spec => StepsRunOnceInOrder`, the refinement of `StepOrder`, for any
valid plans, lists of new steps, policies and budget, provided that steps have tasks of their
own (`TasksAssumption`), since the histories are per task.  The compiler's loop over the
levels is a recursive function; that it exists is shown by a least counterexample
(`ReadyExists`), and since its ready sets grow, levels are disjoint.  The invariant says
of every state, that of the graph and those of the running branches, that it has the compiled
plan, or one where a replan left finished steps of it among steps with other tasks, and
that what it calls finished was done (`PlanOK`); and that whoever was started is on a level
which the graph has passed or is on (`Progress`).  A step is not started twice because
its level is passed once, and not too early because the step node looks at the statuses
(`dependencies_met`), whose finished steps were done.  Nothing is needed about joins: a branch
whose result is lost was started all the same.

It proves of `PlanSubgraph` also that `Spec => []ChainPlansComplete`.  Where every level has at most one
step and no replan comes between, the graph stands before level n + 1 with the steps of all
levels before it finished, has taken two turns for each of them, and the one branch of a step differs
from the graph in the status of this step only (`ChainInv`).  So the graph passes no level over, a join
loses nothing, and `max_iterations`, which the compiler sets by the number of nodes, is not reached.

Of `AgentWorkflow` it proves `WorkflowSpec => []ExecutedPlanValid`, for any plans and any lists of
the language model and of the fallback.  The plan that `planner_node` makes is valid;
`apply_replanned_steps` is followed by the validator, and by a second validation if there was a repair.
What comes after it, putting completed steps back by their ids, is not validated again:
`ValidInv` has that the steps put back are those of a plan that was valid itself, so that
their dependencies are smaller numbers too, and the ids of a repaired list are `1..m`
(`RepairedDomain`).  It says the same of the plan each branch carries,
and speaks of requests in which no replan failed (`Sound`).

The same module proves `WorkflowSpec => []CapNeverEndsRequest` for any plans,
lists, number of requests and replan budget, from `TurnsAssumption`:
`max_iterations` of the macro graph is at least eight turns and five for each
replan of the configured budget (50 against 2 by default; the settings do not
enforce it).  The inductive invariant `TurnsInv` bounds the turns at each node by
its distance from `memory_load` plus five for each replan the request
has seen; it needs that the replanner raises that number in every case, also when the
process has no attempts left, and that the number never exceeds the budget.

`StateVersions_proofs` proves, for any items, queries, names and bounds,

    Spec => []TypeOK                 Spec => []LineageComplete
    Spec => []StateIsCurrentVersion  Spec => VersionsKept
    Spec => []ParallelWorkMerged

The invariant `IInv` says of `state` and of `source`, the copy at the fan-out, that
the history is sound up to the number of versions issued (`StateOK`): each parent is an
older version of the same store, each version is on the branch of its snapshot, and
state and store are on the same branch.  During a fan-out `source` is on the branch of
the state and no client acts.  Each operation on a history has a lemma of its own
(`CommitKeepsState`, `RollbackKeepsState`, `ForkKeepsState`, `MergeKeepsState`), and
`NextKeepsIInv` combines them.  That the store has all versions issued, and no
others, makes a new id fresh; hence `VersionsKept`.  `ParallelWorkMerged` speaks of a fan-out
that has ended; `WorkMerged`, which is inductive, says the same while branches are still to be merged.

`Persistence_proofs` proves, for any executions, sessions, queue size and bounds,

    Spec => []JoinedIsRecorded    Spec => []HistoryIsFinished    Spec => []StoredLineagesComplete

The invariant `Recorded` relates every execution to the database and to the jobs that are
`Outstanding`, the one with the worker before those in the queue: what is not in a table is there, after
what it refers to.  The row of an execution is inserted first (`InsertedFirst`), so that no foreign key
fails; its outcome comes before its place in the session (`OutcomeKept`, `SessionLast`); nodes written and
outstanding add up (`NodesCounted`); a version is stored, or covered by a job, after the versions
before it (`Lineage`); and the state that a session has, or will have, has its versions stored
(`SessionStates`), which is what a restored session starts from.  The jobs of several executions
interleave in the queue; each fact is about one execution's jobs and their order, and `Push` and `Pop`
say what submitting and taking jobs leave of it.  All this holds until a write is lost,
as the properties do.  `PersistenceAssumption` asks for a session, a queue and a node at least.

`PlannerAgent_proofs` proves of `ModelCalls`, for any number of concurrent questions, any providers and any
numbers of retries,

    Spec => []OutageNeverFails    Spec => []RulesAreExplained    Spec => []CostBounded

The invariant says of each question who may have written what (`AuthorOK`: the rules write
usable answers only, so an unusable one is the model's), what its requests leave to later attempts
(`CostOK`: the total is at most what all earlier attempts were allowed, plus the requests of the
present one), and `Explained` itself.  The questions share the list of events only; since it
grows and is never cut, the other questions keep their part (`Explained` is monotone in it).
`PlannerAgent` takes the actions of `ModelCalls` as steps; `HandOverKeepsInv` extends the invariant,
and with it the three theorems (`AgentKeepsQuestions`), to its behaviours.

Of `PlannerAgent` it proves, for any queries, any sets of tools, any texts and any lists of a model,
however long,

    AgentSpec => []RulePlansAccepted    AgentSpec => []RuleReplansFit
    AgentSpec => []OnlyRepetitionDropped

Two descriptions carry the argument.  `NormalizedOf` says what is left of a list: its tasks are those
of the list with the tools of syntheses cleared, a dependency is one the list had and goes to a
smaller number, no work is lost but a repeated task, one budget step stays of several, and where ids did
not repeat the steps are numbered by their positions.  The five rewritings each have
a lemma that says which part of a list they leave (`RemoveDuplicatesSub`, `OneBudgetStepSub`,
`ClearedIs`, `PreferredOrderReorders`, `RenumberedIs`); `NormalizedTwice` composes the two passes.
They rest on `RanksListOnce`: listing the members of a finite set in a strict order
(`InOrder`, which stands for the sorts and filters) lists each of them once.
`RuleList` says what the rules write: a step's dependencies are earlier steps, its tool is one
of its section's that is registered, each section with a tool has a step.  `DualCityStepsIs` has
the arithmetic of the plan section by section and city by city.  A list of new steps fits a
plan whose first n steps are finished if the dependencies of its k-th step are below n + k
(`Fits`); for the budget step, which depends on completed steps of the plan by their own numbers,
that is so because it is the first new step.  `RegistryAssumption` says that no task has a tool
outside the registry in the sense of `PlanSteps`: in this module the registry is a set of tools
(`ToolSets`), and `Accepted` looks it up there.

`GraphReplay_proofs` proves, for any graph, contents, caps and sets of break points,

    Spec => []SkippedNodeIsRecorded    Spec => []PauseShowsTheRun    Spec => []StoredRunReplays

The records found by `resolve_node_output` may themselves stand for others, and their snapshots may
be absent.  `RecordsOK` says that a snapshot is the output or nothing; a look-up by node, sequence
and hash then leads to the least record with that key (`LeastNat`), which was made before.
`SessionOK` says that before a pause no break point was met and that the record
made last is that of the node where the session paused.  `StoredInv` says that while the recorded
run goes on, what it captures are the outputs, and that the last of them has the contents of its state;
`GraphAssumption` keeps the contents of states apart from the marks for a missing snapshot.

`RequestStream_proofs` proves, for any number of concurrent requests and of sessions, any modes,
limits and bounds,

    Spec => []OutcomeAsRead          Spec => []EpisodeKeysDistinct
    Spec => []ProfilesNeverOverstate    Spec => []DrainedProfileIsExact

`OutcomeOK` relates a request's phase to what its client and the recorder know: nothing
before the end, one of three pairs after it.  What makes it inductive is that an action which tells
them something needs the request to be open and ends it.
The invariant for the keys, `KeysOK`, looks ahead: the next number of an open request is above those
of its own episodes and of all requests which it did not overlap (`NextAbove`).  For `memory_load` to
establish this, below the limits no episode may have been dropped and the numbers must be
below the count of the episodes (`NumbersFit`); for `memory_persist` to keep it for the others,
requests of a session that are open together and have read its memory must overlap
(`OpenOverlap`).  `BoundedAppend` says what the store's bound does to a sequence.
For the profiles, `ProfilesOK` looks at the stores on the way to an empty queue: there is a sequence of
them, one for each job that is still to be applied (`Trace`), in which no profile has more than its
execution did, and whose last one is exact for each execution that lost no metric (`Leads`).  A metric
that is accepted makes the sequence longer, one that is applied takes its first store away, one that
is dropped leaves it and excuses its execution.

`ToolCalls_proofs` proves, for any steps of any number of requests, any registries, strategies,
rankings and texts, any fallbacks of the executor and any numbers of tries and attempts,

    Spec => []CallsFitTheStep           Spec => []OutcomeIsRecorded

What is true of a step depends on the configuration and on what the step has of its own, so `StepOK`
is stated of one step and `OneStepChanges` leaves an action to show it of the step it changes.
`DecideIs` says what a decision is worth, for every strategy: the tool selected and the fallback are
registered, of the family of the hint if it has one, and differ.  `Chosen` carries this from routing to
the calls, until a replan replaces the step.  `Traced` says that the records are a trail in which
each try may follow the one before, and that the try under way may follow the last (`Continues`).  What
makes it inductive is about steps that wait: one with records is retried after its tool's last
try, so the failure policy is not "replan" and no replan gives it another hint.
`ToolCallsAssumption` says that MCP tools are in the registry only where MCP is enabled
(`tools/mcp/bootstrap.py:31`): `decide` falls back to a registered hint without asking that.

Only model-checked: all liveness (`CallsEnd`, `RequestsEnd`, `StopReturns`, `OrchestrationEnds`,
`QuestionsSettle`, `RequestsSettle`, `StreamsEnd`).  Of `CallsEnd` the measure is proved.  Every other
property of a passing run is a theorem, `NothingDoneIsMissing` within the bounds named above.

## 6 Not modelled

The table of components in `PROJECT.json` says for each part whether it is
modelled and why not.  As parts:

* The evaluation (`eval/`), the scripts, the demos and the settings: they read finished runs, or hold
  no state.
* The agent loop of the first phase (`agents/loop.py`): one coroutine over one list of messages,
  which shares nothing with the rest.
* Tools, tool routers and the MCP client: pure functions and I/O.  `ToolCalls` has their answers, errors and
  timeouts as outcomes.

In the parts that are modelled:

* Texts: step results, prompts, summaries, traces, scores, latencies, tokens, the amounts of costs.
* The router's tool hints in the macro graph, which change no id, status or dependency
  (`ToolCalls` has them).
* Node records and versions of a fan-out's branches in a replay, and the versions that a compiled plan
  commits of its child state.
* `replay_node`, `inspect_node`, `compare_executions` and `diff`, which change nothing; the rows of tool
  calls, to which no other row refers; delete, clear and search of the memories, which no request calls.
* Merge strategies other than DEEP_MERGE, which no compiled plan uses.
* The switches that turn the critic or replanning off in the macro graph.
* Concurrent requests in `AgentWorkflow`: what they do to each other is in `PlanExecution`,
  `PlanOrchestration` and `RequestStream`.
