----------------------------- MODULE Persistence -----------------------------
(***************************************************************************)
(* The record of executions: ExecutionRecorder, the AsyncWriteQueue that   *)
(* all executions of a process share, its worker, and the database, which  *)
(* outlives the process.  An action of an execution is its code from one   *)
(* await to the next; a write is a thread of its own, and takes effect     *)
(* while the worker waits for it.                                          *)
(*                                                                         *)
(* A version id is <<e, n>>, the n-th version that execution e committed.  *)
(* A state is the versions in its store and should_stop.  Rows hold what   *)
(* tells executions apart; tool call rows, which refer to no other row,    *)
(* are left out.                                                           *)
(***************************************************************************)
EXTENDS Integers, Sequences, FiniteSets

CONSTANTS Sessions,
          QueueSize,     \* maxsize of the queue
          MaxExecutions, \* bound on the executions
          MaxNodes,      \* bound on the nodes that an execution runs
          MaxRestarts    \* bound on the times the process is started again

ASSUME PersistenceAssumption ==
    /\ Sessions # {}
    /\ QueueSize \in Nat \ {0}
    /\ MaxExecutions \in Nat
    /\ MaxNodes \in Nat \ {0}
    /\ MaxRestarts \in Nat

VARIABLES run,      \* run[e], the execution in its process
          queue,    \* jobs accepted and not yet taken
          worker,   \* "absent", "idle", "writing" or "left"
          job,      \* what the worker is writing
          shutdown, \* "no", "waiting" in stop(), "done"
          db,       \* the tables
          restarts, \* times the process was started again
          lost      \* a write was dropped, failed or cut off (history)

process == <<queue, worker, job, shutdown>>
vars == <<run, queue, worker, job, shutdown, db, restarts, lost>>

\* Execution ids are uuids, taken here in their order.  The server takes no
\* request once the application shuts down.
Executions == 1..MaxExecutions
Fresh(e) ==
    /\ shutdown = "no"
    /\ run[e].phase = "none"
    /\ \A d \in 1..(e - 1) : run[d].phase # "none"

Statuses == {"completed", "failed"}
NewState == [versions |-> <<>>, stop |-> FALSE]

Init ==
    /\ run = [e \in Executions |->
                 [phase |-> "none", session |-> CHOOSE s \in Sessions : TRUE,
                  restored |-> FALSE, nodes |-> 0, state |-> NewState]]
    /\ queue = <<>>
    /\ worker = "idle"
    /\ job = <<>>
    /\ shutdown = "no"
    /\ db = [status   |-> [e \in Executions |-> "absent"],
             nodes    |-> [e \in Executions |-> 0],
             versions |-> <<>>,
             session  |-> [s \in Sessions |-> [history |-> <<>>, state |-> NewState]]]
    /\ restarts = 0
    /\ lost = FALSE

-----------------------------------------------------------------------------
\* Seeded fault: the first version is taken for stored.
VersionJobsButFirst(e, state) ==
    [i \in 1..(Len(state.versions) - 1) |-> <<"version", e, state.versions[i + 1]>>]

\* _persist_state_versions: every version of the store, each time.
VersionJobs(e, state) ==
    [i \in DOMAIN state.versions |-> <<"version", e, state.versions[i]>>]

\* _record_node_end.
NodeEndJobs(e, state) == <<<<"node", e>>>> \o VersionJobs(e, state)

\* Seeded fault: the session is told of the execution first.
FinishJobsSwapped(e, state, status) ==
    <<<<"session", e, run[e].session, state>>, <<"complete", e, status>>>>
        \o VersionJobs(e, state)

\* finish.
FinishJobs(e, state, status) ==
    <<<<"complete", e, status>>>> \o VersionJobs(e, state)
        \o <<<<"session", e, run[e].session, state>>>>

\* Seeded fault: put without a limit.
SubmitUnbounded(jobs) ==
    /\ queue' = IF shutdown = "no" THEN queue \o jobs ELSE queue
    /\ lost' = (lost \/ shutdown # "no")

\* submit, once for each job: a closed queue takes none, a full one drops it.
Submit(jobs) ==
    LET room == IF shutdown # "no" THEN 0 ELSE QueueSize - Len(queue)
        taken == IF Len(jobs) <= room THEN Len(jobs) ELSE room
    IN /\ queue' = queue \o SubSeq(jobs, 1, taken)
       /\ lost' = (lost \/ taken < Len(jobs))

\* begin.
Begin(e, session, restored, state) ==
    /\ run' = [run EXCEPT ![e] = [phase |-> "running", session |-> session,
                                  restored |-> restored, nodes |-> 0,
                                  state |-> state]]
    /\ Submit(<<<<"insert", e>>>>)
    /\ UNCHANGED <<worker, job, shutdown, db, restarts>>

\* invoke or stream of a new request.
StartRequest(e) ==
    /\ Fresh(e)
    /\ \E s \in Sessions : Begin(e, s, FALSE, NewState)

\* restore_session reads the session's row, and goes on when the read is back.
ReadSession(e) ==
    /\ Fresh(e)
    /\ \E s \in Sessions :
          /\ db.session[s].history # <<>>
          /\ run' = [run EXCEPT ![e].phase = "restoring", ![e].session = s,
                                ![e].state = db.session[s].state]
    /\ UNCHANGED <<process, db, restarts, lost>>

RestoreSession(e) ==
    /\ run[e].phase = "restoring"
    /\ Begin(e, run[e].session, TRUE, run[e].state)

\* A node ends, with the version it committed; the last one sets should_stop.
EndNode(e) ==
    /\ run[e].phase = "running" /\ ~run[e].state.stop
    /\ run[e].nodes < MaxNodes
    /\ \E stops \in BOOLEAN :
          /\ stops \/ run[e].nodes + 1 < MaxNodes
          /\ LET n == run[e].nodes + 1
                 state == [versions |-> Append(run[e].state.versions, <<e, n>>),
                           stop |-> stops]
             IN /\ run' = [run EXCEPT ![e].nodes = n, ![e].state = state]
                /\ Submit(NodeEndJobs(e, state))
    /\ UNCHANGED <<worker, job, shutdown, db, restarts>>

\* The graph has stopped, or a node raised.
FinishExecution(e) ==
    /\ run[e].phase = "running"
    /\ \E status \in Statuses :
          /\ run[e].state.stop = (status = "completed")
          /\ run' = [run EXCEPT ![e].phase = status]
          /\ Submit(FinishJobs(e, run[e].state, status))
    /\ UNCHANGED <<worker, job, shutdown, db, restarts>>

\* What is left of an execution that never finishes: nobody has its state.
Abandoned(r) == [r EXCEPT !.phase = "abandoned", !.state = NewState, !.nodes = 0]

\* The client of stream() leaves: no handler of stream() catches that.
AbandonExecution(e) ==
    /\ run[e].phase = "running"
    /\ run' = [run EXCEPT ![e] = Abandoned(@)]
    /\ UNCHANGED <<process, db, restarts, lost>>

-----------------------------------------------------------------------------
\* The foreign keys of the schema.
Accepted(j) == j[1] \in {"node", "version"} => db.status[j[2]] # "absent"

\* ExecutionStore: insert; an update finds no row of an execution that has none.
ExecutionWritten(j) ==
    [db EXCEPT !.status[j[2]] =
        IF j[1] = "insert" THEN "running" ELSE IF @ = "absent" THEN @ ELSE j[3]]

\* NodeStore.insert.
NodeWritten(j) == [db EXCEPT !.nodes[j[2]] = @ + 1]

\* StateStore.insert: a version's row is replaced, its execution with it.
VersionWritten(j) ==
    [db EXCEPT !.versions = [v \in DOMAIN @ \cup {j[3]} |-> IF v = j[3] THEN j[2] ELSE @[v]]]

\* SessionStore.append_execution reads the row, if there is one, and upserts it.
SessionWritten(j) ==
    [db EXCEPT !.session[j[3]] = [history |-> Append(@.history, j[2]), state |-> j[4]]]

\* The stores' statements.
Written(j) ==
    CASE j[1] \in {"insert", "complete"} -> ExecutionWritten(j)
      [] j[1] = "node" -> NodeWritten(j)
      [] j[1] = "version" -> VersionWritten(j)
      [] j[1] = "session" -> SessionWritten(j)

\* Seeded fault: the job submitted last is taken.
NextJobLast == Len(queue)

\* get().
NextJob == 1

TakeJob ==
    /\ worker = "idle" /\ queue # <<>>
    /\ worker' = "writing"
    /\ job' = queue[NextJob]
    /\ queue' = [i \in 1..(Len(queue) - 1) |->
                    IF i < NextJob THEN queue[i] ELSE queue[i + 1]]
    /\ UNCHANGED <<run, shutdown, db, restarts, lost>>

\* The write is made, or it raises and is logged; the worker goes on.  A write
\* that the schema accepts may fail too: once, and as the first loss.
EndWrite ==
    /\ worker = "writing"
    /\ \/ Accepted(job) /\ db' = Written(job) /\ UNCHANGED lost
       \/ ~Accepted(job) /\ db' = db /\ lost' = TRUE
       \/ ~lost /\ db' = db /\ lost' = TRUE
    /\ worker' = "idle"
    /\ job' = <<>>
    /\ UNCHANGED <<run, queue, shutdown, restarts>>

\* Seeded fault: while not closed.
WorkerDoneWhenClosed == shutdown # "no"

\* while not closed or not empty.
WorkerDone == shutdown # "no" /\ queue = <<>>

WorkerLeaves ==
    /\ worker = "idle" /\ WorkerDone
    /\ worker' = "left"
    /\ UNCHANGED <<run, queue, job, shutdown, db, restarts, lost>>

-----------------------------------------------------------------------------
\* stop() closes the queue and waits for it.
Stop ==
    /\ shutdown = "no"
    /\ shutdown' = "waiting"
    /\ UNCHANGED <<run, queue, worker, job, db, restarts, lost>>

\* Every job is done: the worker is cancelled.
StopJoined ==
    /\ shutdown = "waiting" /\ queue = <<>> /\ worker # "writing"
    /\ shutdown' = "done"
    /\ worker' = "absent"
    /\ UNCHANGED <<run, queue, job, db, restarts, lost>>

\* The write that a cancelled or killed worker was waiting for was made or not.
CutOff == db' = db \/ (worker = "writing" /\ Accepted(job) /\ db' = Written(job))

\* The timeout of stop(): the worker is cancelled, its jobs stay in the queue.
StopTimesOut ==
    /\ shutdown = "waiting" /\ (queue # <<>> \/ worker = "writing")
    /\ CutOff
    /\ shutdown' = "done"
    /\ worker' = "absent"
    /\ job' = <<>>
    /\ lost' = TRUE
    /\ UNCHANGED <<run, queue, restarts>>

\* The process ends, by a crash or after stop(), and another is started with an
\* empty queue.
Restart ==
    /\ restarts < MaxRestarts
    /\ restarts' = restarts + 1
    /\ CutOff
    /\ lost' = (lost \/ queue # <<>> \/ worker = "writing")
    /\ run' = [e \in Executions |->
                  IF run[e].phase \in {"running", "restoring"}
                  THEN Abandoned(run[e]) ELSE run[e]]
    /\ queue' = <<>> /\ worker' = "idle" /\ job' = <<>> /\ shutdown' = "no"

Work == TakeJob \/ EndWrite \/ WorkerLeaves

Next ==
    \/ \E e \in Executions :
          \/ StartRequest(e) \/ ReadSession(e) \/ RestoreSession(e)
          \/ EndNode(e) \/ FinishExecution(e) \/ AbandonExecution(e)
    \/ Work
    \/ Stop \/ StopJoined \/ StopTimesOut
    \/ Restart

\* The worker's task is scheduled, and a write ends; so does stop() once the
\* queue is joined.  Neither its timeout nor the end of the process is assumed.
Spec == Init /\ [][Next]_vars /\ WF_vars(Work) /\ WF_vars(StopJoined)

-----------------------------------------------------------------------------
VersionIds == Executions \X (1..MaxNodes)

StateOK(state) ==
    /\ \A i \in DOMAIN state.versions : state.versions[i] \in VersionIds
    /\ state.stop \in BOOLEAN

\* Also: the queue keeps its bound, and there is a job exactly while one is written.
TypeOK ==
    /\ \A e \in Executions :
          /\ run[e].phase \in {"none", "restoring", "running", "abandoned"} \cup Statuses
          /\ run[e].session \in Sessions /\ run[e].restored \in BOOLEAN
          /\ run[e].nodes \in 0..MaxNodes /\ StateOK(run[e].state)
          /\ db.status[e] \in {"absent", "running"} \cup Statuses
          /\ db.nodes[e] \in 0..MaxNodes
    /\ Len(queue) <= QueueSize
    /\ worker \in {"absent", "idle", "writing", "left"}
    /\ worker = "writing" <=> job # <<>>
    /\ shutdown \in {"no", "waiting", "done"}
    /\ DOMAIN db.versions \subseteq VersionIds
    /\ \A s \in Sessions : StateOK(db.session[s].state)
    /\ restarts \in 0..MaxRestarts /\ lost \in BOOLEAN

Joined == queue = <<>> /\ worker # "writing"

InHistory(e) ==
    \E s \in Sessions : \E i \in DOMAIN db.session[s].history :
        db.session[s].history[i] = e

\* What the queue promises a caller of drain() or stop(): when all jobs are done
\* and no write was lost, an execution that ended has its outcome, its nodes,
\* every version it had, and its place in the session, whatever executions ran
\* beside it.
JoinedIsRecorded ==
    Joined /\ ~lost =>
        \A e \in Executions : run[e].phase \in Statuses =>
            /\ db.status[e] = run[e].phase
            /\ db.nodes[e] = run[e].nodes
            /\ \A i \in DOMAIN run[e].state.versions :
                  run[e].state.versions[i] \in DOMAIN db.versions
            /\ InHistory(e)

\* A session never lists an execution whose outcome is not stored yet, although
\* both are separate writes: a client that reads the session reads the outcome.
HistoryIsFinished ==
    ~lost => \A e \in Executions : InHistory(e) => db.status[e] \in Statuses

\* The lineage of a stored version is stored: no reader meets an unknown parent.
StoredLineagesComplete ==
    ~lost =>
        \A e \in Executions :
            LET versions == run[e].state.versions
            IN \A i \in DOMAIN versions : versions[i] \in DOMAIN db.versions =>
                  \A j \in 1..i : versions[j] \in DOMAIN db.versions

\* stop() returns, without its timeout too: the worker does what is left.
StopReturns == shutdown = "waiting" ~> shutdown # "waiting"

\* "Restore the session and continue": a restored execution that completes has
\* run a node.
RestoredSessionContinues ==
    \A e \in Executions :
        run[e].restored /\ run[e].phase = "completed" => run[e].nodes > 0
=============================================================================
