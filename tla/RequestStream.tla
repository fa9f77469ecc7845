---------------------------- MODULE RequestStream ----------------------------
(***************************************************************************)
(* Requests to /graph/execute: GraphRuntimeRunner.invoke and stream with   *)
(* the stream_with_heartbeat that the endpoint wraps around the latter,    *)
(* and what they leave behind: the outcome given to the recorder, the      *)
(* metrics, the session's memory.  An action is the code between two       *)
(* events of the graph, or between two awaits of a node.                   *)
(*                                                                         *)
(* Of the macro graph (module AgentWorkflow) there are the memory nodes,   *)
(* the critic, finalize, and "execution" for the nodes that lead to it.    *)
(***************************************************************************)
EXTENDS Metrics, SessionMemory

CONSTANTS Modes,      \* Modes[r], what request r may be: "invoke", "stream"
          Pythons,    \* interpreters, of "3.11" (the image's) and "3.12"
          MaxReplans, \* bound on the rounds added by replans
          MaxBreaks   \* bound on the requests that do not complete

ASSUME RequestsAssumption ==
    /\ Executions \subseteq Nat \ {0}
    /\ MaxReplans \in Nat /\ MaxBreaks \in Nat

VARIABLES python,  \* the interpreter
          req,     \* req[r], request r, whose execution id is r
          client,  \* what the client last learnt of request r
          finishes \* outcomes given to the recorder for request r

requestVars == <<python, req, client, finishes>>
vars == <<metricsVars, memory, requestVars>>

MacroNodes == {"memory_load", "execution", "memory_persist", "critic", "finalize"}
Awaiting == {"execution", "critic"}
NoId == 0

RequestInit ==
    /\ MetricsInit /\ MemoryInit
    /\ python \in Pythons
    /\ req = [r \in Executions |->
                 [phase |-> "none", mode |-> "invoke", at |-> "memory_load",
                  session |-> CHOOSE s \in Sessions : TRUE, beside |-> {},
                  number |-> 0, answer |-> 0, round |-> 0, answered |-> FALSE]]
    /\ client = [r \in Executions |-> "none"]
    /\ finishes = [r \in Executions |-> <<>>]

Open(r) == req[r].phase = "open"

\* Seeded fault: one variable for the process, set by whoever began last.
CurrentShared(r) ==
    IF \E e \in Executions : Open(e)
    THEN CHOOSE e \in Executions :
            Open(e) /\ \A d \in Executions : Open(d) => d <= e
    ELSE NoId

\* current_execution_id, as the tool tracer and InstrumentedLLMClient read it
\* during r.  begin() sets it in its own task.  Up to Python 3.11 wait_for runs
\* each step of a stream in a task of its own, with a copy of the caller's
\* context, so that later steps do not see it.
Current(r) == IF req[r].mode = "stream" /\ python = "3.11" THEN NoId ELSE r

-----------------------------------------------------------------------------
\* MetricsObserver.begin.
Begin(r) == Record(r, <<[kind |-> "start"]>>, r)

\* _begin_execution; a stream also yields START.
StartRequest(r) ==
    /\ collector = "on"
    /\ req[r].phase = "none"
    /\ \A q \in 1..(r - 1) : req[q].phase # "none"
    /\ \E mode \in Modes[r], s \in Sessions :
          req' = [req EXCEPT ![r].phase = "open", ![r].mode = mode, ![r].session = s]
    /\ client' = [client EXCEPT ![r] = "waiting"]
    /\ Begin(r)
    /\ UNCHANGED <<python, memory, collector, profiles, finishes>>

\* What a node waits for: a tool call of the plan, or the critic's question to the
\* model.
Answered(r) ==
    /\ Open(r) /\ req[r].at \in Awaiting /\ ~req[r].answered
    /\ req' = [req EXCEPT ![r].answered = TRUE]
    /\ Record(r, <<[kind |-> IF req[r].at = "critic" THEN "llm" ELSE "tool"]>>, Current(r))
    /\ UNCHANGED <<python, client, finishes, memory, collector, profiles>>

\* The node waits for nothing any more.
WorkDone(r) == req[r].at \in Awaiting => req[r].answered

\* Nodes of the session's other requests that may still persist an episode.
Beside(r) == {q \in Executions \ {r} : Open(q) /\ req[q].session = req[r].session}

\* Another round is a replan, and those are bounded.
RoundsLeft == FoldFunction(LAMBDA q, n : q.round + n, 0, req) < MaxReplans

\* Seeded fault: the number of a request's first episode is used again.
NextNumberSame(r) == req[r].number

\* state.episodic_memory.append.
NextNumber(r) == req[r].number + 1

\* node_end.  memory_persist numbers its episode by the episodes in the state;
\* the critic synthesizes the answer of the round, and so does finalize, which
\* sets should_stop: the loop leaves before the node that follows it.
EndNode(r) ==
    /\ Open(r) /\ WorkDone(r)
    /\ Record(r, <<[kind |-> "node", node |-> req[r].at]>>, r)
    /\ \/ /\ req[r].at = "memory_load"
          /\ req' = [req EXCEPT ![r].at = "execution",
                                ![r].number = EpisodesLoaded(req[r].session),
                                ![r].beside = Beside(r)]
          /\ UNCHANGED memory
       \/ /\ req[r].at = "execution"
          /\ req' = [req EXCEPT ![r].at = "memory_persist"]
          /\ UNCHANGED memory
       \/ /\ req[r].at = "memory_persist"
          /\ Persist(req[r].session, r, req[r].number, req[r].answer)
          /\ req' = [req EXCEPT ![r].at = "critic", ![r].answered = FALSE,
                                ![r].number = NextNumber(r)]
       \/ /\ req[r].at = "critic"
          /\ \E next \in {"execution", "finalize"} :
                /\ next = "execution" => RoundsLeft
                /\ req' = [req EXCEPT ![r].at = next,
                              ![r].answer = req[r].round + 1, ![r].answered = FALSE,
                              ![r].round = IF next = "execution" THEN @ + 1 ELSE @]
          /\ UNCHANGED memory
       \/ /\ req[r].at = "finalize"
          /\ req' = [req EXCEPT ![r].at = "END",
                                ![r].answer = req[r].round + 1]
          /\ UNCHANGED memory
    /\ UNCHANGED <<python, client, finishes, collector, profiles>>

\* _finish_execution.
Finish(r, status) ==
    /\ finishes' = [finishes EXCEPT ![r] = Append(@, status)]
    /\ Record(r, <<[kind |-> "end", status |-> status]>>, r)

\* The graph has ended: finish, then the response or DONE.
CompleteRequest(r) ==
    /\ Open(r) /\ req[r].at = "END"
    /\ Finish(r, "completed")
    /\ req' = [req EXCEPT ![r].phase = "ended"]
    /\ client' = [client EXCEPT ![r] = "done"]
    /\ UNCHANGED <<python, memory, collector, profiles>>

MayBreak ==
    Cardinality({q \in Executions : client[q] \in {"error", "silence", "left"}}) < MaxBreaks

\* Seeded fault: no return after ERROR, so that the stream goes on to DONE.
RequestFailsOn(r) ==
    /\ Open(r) /\ req[r].at \in Awaiting /\ MayBreak
    /\ finishes' = [finishes EXCEPT ![r] = @ \o <<"failed", "completed">>]
    /\ Record(r, <<[kind |-> "end", status |-> "failed"],
                   [kind |-> "end", status |-> "completed"]>>, r)
    /\ req' = [req EXCEPT ![r].phase = "ended"]
    /\ client' = [client EXCEPT ![r] = "error"]
    /\ UNCHANGED <<python, memory, collector, profiles>>

\* A node raises: finish, then ERROR, or status 500 of the endpoint.
RequestFails(r) ==
    /\ Open(r) /\ req[r].at \in Awaiting /\ MayBreak
    /\ Finish(r, "failed")
    /\ req' = [req EXCEPT ![r].phase = "ended"]
    /\ client' = [client EXCEPT ![r] = "error"]
    /\ UNCHANGED <<python, memory, collector, profiles>>

\* The stream's generator is cancelled while a node awaits: neither handler of
\* stream() sees a CancelledError, but a tool call under way records its try.
Cancelled(r, learnt) ==
    /\ req[r].mode = "stream" /\ MayBreak
    /\ req' = [req EXCEPT ![r].phase = "ended"]
    /\ client' = [client EXCEPT ![r] = learnt]
    /\ \/ UNCHANGED <<did, jobs, losses, dropped>>
       \/ /\ Open(r) /\ req[r].at = "execution" /\ ~WorkDone(r)
          /\ Record(r, <<[kind |-> "tool"]>>, Current(r))
    /\ UNCHANGED <<python, finishes, memory, collector, profiles>>

\* No event for the heartbeat interval: wait_for cancels the generator's step.
\* The comment is sent, and the next step finds the generator exhausted.
HeartbeatTimesOut(r) ==
    /\ Open(r) /\ req[r].at \in Awaiting
    /\ Cancelled(r, "silence")

\* The client of a stream disconnects.
ClientLeaves(r) == Open(r) /\ Cancelled(r, "left")

RequestProceeds(r) ==
    Answered(r) \/ EndNode(r) \/ CompleteRequest(r) \/ RequestFails(r)

\* The server shuts the application down when no request is open.
Collector ==
    /\ MetricsStep
    /\ collector' # collector => ~\E r \in Executions : Open(r)
    /\ UNCHANGED <<memory, requestVars>>

Next ==
    \/ \E r \in Executions :
          \/ StartRequest(r) \/ RequestProceeds(r)
          \/ HeartbeatTimesOut(r) \/ ClientLeaves(r)
    \/ Collector

\* Nodes return or raise, their calls being bounded by timeouts; the collector's
\* worker is scheduled.
Spec ==
    /\ RequestInit /\ [][Next]_vars
    /\ \A r \in Executions : WF_vars(RequestProceeds(r))
    /\ WF_vars(ApplyJobs /\ UNCHANGED <<memory, requestVars>>)
    /\ WF_vars(CollectorJoined /\ UNCHANGED <<memory, requestVars>>)

-----------------------------------------------------------------------------
\* What of r's deeds the collector is told of.
Told(r) ==
    IF Current(r) = r THEN did[r]
    ELSE [did[r] EXCEPT !.calls = 0, !.llm = 0]

\* Whatever requests ran beside it, when the queue is drained the profile of an
\* execution that lost no metric is what it did: its node visits, its tool
\* calls, the model's completions, its outcome.
DrainedProfileIsExact ==
    jobs = <<>> => \A r \in Executions : r \notin dropped => profiles[r] = Told(r)

\* Losses make profiles smaller and nothing else: no profile has more of anything
\* than its execution did, or an outcome it did not have, and one that lost its start has none.
ProfilesNeverOverstate ==
    \A r \in Executions :
        /\ \A n \in NodeIds : profiles[r].nodes[n] <= did[r].nodes[n]
        /\ profiles[r].calls <= did[r].calls /\ profiles[r].llm <= did[r].llm
        /\ profiles[r].status = "absent" => profiles[r] = NoProfile
        /\ profiles[r].status \in {"absent", "running", did[r].status}

\* The recorder is given one outcome, and it is the one that the client reads; a
\* client that reads none has left an execution without any.
OutcomeAsRead ==
    \A r \in Executions :
        finishes[r] = CASE client[r] = "done" -> <<"completed">>
                        [] client[r] = "error" -> <<"failed">>
                        [] OTHER -> <<>>

\* Episodes are told apart by their key, unless their requests overlapped or the
\* session has as many episodes as memory_load reads or as the store keeps.
EpisodeKeysDistinct ==
    \A s \in Sessions :
        LET all == memory[s].episodes
        IN \A i, j \in DOMAIN all :
              i < j /\ all[i].number = all[j].number =>
                  \/ all[i].number >= LoadLimit
                  \/ all[i].number >= MaxMessages
                  \/ all[i].of \in req[all[j].of].beside
                  \/ all[j].of \in req[all[i].of].beside

\* Every request ends, and the profile of one that lost no metric then tells how.
RequestsSettle ==
    \A r \in Executions :
        req[r].phase # "none" ~>
            /\ req[r].phase = "ended"
            /\ profiles[r].status = did[r].status \/ r \in dropped \/ collector = "off"

\* "SSE: start -> graph_node -> ... -> done": a client that stays reads how its
\* request ended.
StreamSaysHowItEnded ==
    \A r \in Executions : req[r].phase = "ended" => client[r] \in {"done", "error", "left"}

\* "After finalize there is another memory_persist": the answer of a completed
\* request is in the long-term memory.
AnswerRemembered ==
    \A r \in Executions :
        client[r] = "done" =>
            LET long == memory[req[r].session].long
            IN \E i \in DOMAIN long : long[i] = <<r, req[r].answer>>
=============================================================================
