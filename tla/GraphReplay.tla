------------------------------ MODULE GraphReplay ------------------------------
(***************************************************************************)
(* Replaying and debugging a run of the macro workflow: ExecutionPolicy    *)
(* (graph/runtime/execution_policy.py), GraphReplayDebugger                *)
(* (graph/runtime/replay_debug.py), the part of Graph.astream and          *)
(* _execute_node (graph/runtime/core/graph.py) they steer, and the stored  *)
(* replay of persistence/replay_service.py.                                *)
(*                                                                         *)
(* A state is the pair of its contents and its state_version_id: the hash  *)
(* of a state tells both apart.  What a node makes of the contents is not  *)
(* determined (it asks a model, calls tools); where an edge leads is.      *)
(***************************************************************************)
EXTENDS Integers, Sequences

CONSTANTS Nodes,         \* nodes of the workflow
          Entry,         \* its entry node
          END,           \* the end of the workflow
          Contents,      \* contents a node may leave behind
          Asked,         \* contents after the user's message is appended
          Blank,         \* of replay_all's own state: no message, no query
          StopContents,  \* contents with should_stop
          Route,         \* Route[n, c]: the node after n, given contents c
          MaxIterations, \* Graph.max_iterations
          PauseSets      \* values of pause_at

ASSUME GraphAssumption ==
    /\ Entry \in Nodes /\ END \notin Nodes
    /\ Asked # Blank /\ {Asked, Blank, "none"} \cap Contents = {}
    /\ StopContents \subseteq Contents
    /\ Route \in [Nodes \X Contents -> Nodes \cup {END}]
    /\ MaxIterations \in Nat \ {0}

VARIABLES phase,    \* "run": the recorded run, "replay" or "debug", "over"
          records,  \* execution_graph.node_records
          recorded, \* how many of them the recorded run left (history)
          state,    \* [contents, version]; version 0: none committed yet
          current,  \* the node to execute
          sequence, \* nodes executed in this astream
          index,    \* policy._replay_index
          versions, \* versions committed so far: the next one is fresh
          capture,  \* policy.capture_state_snapshots of the recorded run
          pause_at, \* policy.pause_at_nodes
          session   \* DebugSession: where it paused, with what, and if it goes on

vars == <<phase, records, recorded, state, current, sequence, index, versions,
          capture, pause_at, session>>

NoSnapshot == [contents |-> "none", version |-> 0]
Fresh == [paused_at |-> "none", snapshot |-> NoSnapshot, continue |-> TRUE]

Start(contents) == [contents |-> contents, version |-> 0]

Init ==
    /\ phase \in {"run", "debug"}
    /\ records = <<>> /\ recorded = 0 /\ versions = 0
    /\ state = Start(Asked) /\ current = Entry /\ sequence = 0 /\ index = 0
    /\ capture \in IF phase = "debug" THEN {TRUE} ELSE BOOLEAN
    /\ pause_at \in IF phase = "debug" THEN PauseSets ELSE {{}}
    /\ session = Fresh

-----------------------------------------------------------------------------
\* peek_replay_record: the next record of node n, 0 if there is none.  The records
\* that the replay itself adds are in the same list.
Peek(n) ==
    LET later == {i \in index + 1 .. Len(records) : records[i].node = n}
    IN  IF later = {} THEN 0 ELSE CHOOSE i \in later : \A j \in later : i <= j

\* Seeded fault: a record of the node is used whatever state it began in.
UsableByNode ==
    LET i == Peek(current)
    IN  IF i # 0 /\ records[i].output_state # NoSnapshot THEN i ELSE 0

\* The record whose snapshot stands for executing the current node, or 0.
Usable ==
    LET i == Peek(current)
    IN  IF i # 0 /\ records[i].input = state /\ records[i].output_state # NoSnapshot
        THEN i ELSE 0

Capturing == capture \/ phase # "run"

\* Graph._execute_node once the node left contents c: the output is hashed and
\* captured, then a version is committed.  Applying a snapshot brings the version
\* of the recorded state back, which the commit replaces at once.
Executed(out, replayed) ==
    /\ records' = Append(records,
         [node |-> current, sequence |-> sequence, input |-> state, output |-> out,
          output_state |-> IF Capturing THEN out ELSE NoSnapshot,
          replayed |-> replayed])
    /\ versions' = versions + 1
    /\ state' = [contents |-> out.contents, version |-> versions + 1]

\* The loop of astream continues along the edge that matches.
Advance(out) ==
    /\ sequence' = sequence + 1
    /\ current' = Route[current, out.contents]

\* Every look-up takes the replay one record further, also when the record was
\* not the next one or did not match.
Consumed == index' = IF phase = "replay" /\ Peek(current) # 0 THEN index + 1 ELSE index

\* Seeded fault: the snapshot of a pause is taken after the node.
PauseSeesOutput(out) ==
    IF phase = "debug" /\ (pause_at = {} \/ current \in pause_at)
    THEN session' = [paused_at |-> current, snapshot |-> out, continue |-> FALSE]
    ELSE UNCHANGED session

\* maybe_pause before the node's function, with the input; it does not wait.
Pause(out) ==
    IF phase = "debug" /\ (pause_at = {} \/ current \in pause_at)
    THEN session' = [paused_at |-> current, snapshot |-> state, continue |-> FALSE]
    ELSE UNCHANGED session

\* astream goes on: neither ended, capped nor stopped, and its consumer still reads.
Loops ==
    /\ phase # "over" /\ session.continue
    /\ current # END /\ sequence < MaxIterations
    /\ state.contents \notin StopContents

\* A node's own function is executed.
RunNode ==
    /\ Loops
    /\ phase = "replay" => Usable = 0
    /\ \E c \in Contents :
          LET out == [contents |-> c, version |-> state.version]
          IN  Executed(out, FALSE) /\ Advance(out) /\ Pause(out)
    /\ Consumed
    /\ UNCHANGED <<phase, recorded, capture, pause_at>>

\* Under REPLAY a record with the same input stands for the node.
SkipNode ==
    /\ Loops /\ phase = "replay" /\ Usable # 0
    /\ LET out == records[Usable].output_state
       IN  Executed(out, TRUE) /\ Advance(out) /\ Pause(out)
    /\ Consumed
    /\ UNCHANGED <<phase, recorded, capture, pause_at>>

\* replay_all: a new policy over the recorded graph.  The caller's state may be the
\* one the recorded run began with; without one, the state is a blank one.  (A seed
\* of the recorded run is hashed too and astream overwrites it: such a replay begins
\* as far from the record as a blank one.)
BeginReplay ==
    /\ phase = "run" /\ ~Loops
    /\ phase' = "replay" /\ recorded' = Len(records)
    /\ \E c \in {Asked, Blank} : state' = Start(c)
    /\ current' = Entry /\ sequence' = 0 /\ index' = 0
    /\ UNCHANGED <<records, versions, capture, pause_at, session>>

\* Seeded fault: graph_end is only sent where an edge leads to END.
EndStreamAtEND ==
    /\ phase \in {"replay", "debug"} /\ ~Loops
    /\ current = END \/ state.contents \in StopContents \/ ~session.continue
    /\ phase' = "over"
    /\ UNCHANGED <<records, recorded, state, current, sequence, index, versions,
                   capture, pause_at, session>>

\* The stream ended, or debug_invoke stopped reading it.
EndStream ==
    /\ phase \in {"replay", "debug"} /\ ~Loops
    /\ phase' = "over"
    /\ UNCHANGED <<records, recorded, state, current, sequence, index, versions,
                   capture, pause_at, session>>

Next == RunNode \/ SkipNode \/ BeginReplay \/ EndStream

Spec == Init /\ [][Next]_vars

\* One coroutine runs the workflow until its consumer stops.
FairSpec == Spec /\ WF_vars(Next)

-----------------------------------------------------------------------------
\* The rows that were captured.
Captured(rows) == {i \in DOMAIN rows : rows[i].output_state # NoSnapshot}

\* Seeded fault: the output of the first captured row is returned.
StoredStateOfFirst(rows) ==
    IF Captured(rows) = {} THEN NoSnapshot
    ELSE rows[CHOOSE i \in Captured(rows) : \A j \in Captured(rows) : i <= j].output_state

\* ExecutionReplayService._apply_snapshots: each row's output over the one before,
\* whose every field it replaces; so the last one remains.
StoredState(rows) ==
    IF Captured(rows) = {} THEN NoSnapshot
    ELSE rows[CHOOSE i \in Captured(rows) : \A j \in Captured(rows) : j <= i].output_state

\* _find_record: the first record with a sequence number, which a replay step
\* reports the states of.
FoundRecord(s) ==
    LET same == {i \in DOMAIN records : records[i].sequence = s}
    IN  records[CHOOSE i \in same : \A j \in same : i <= j]

-----------------------------------------------------------------------------
\* A node is passed over only for a record of that node, made before, from the very
\* state it would have read, and what the graph goes on with is what that record
\* left: never the snapshot of another node or of another turn of the loop.
SkippedNodeIsRecorded ==
    \A i \in DOMAIN records : records[i].replayed =>
       \E j \in 1 .. i - 1 :
          /\ records[j].node = records[i].node
          /\ records[j].input = records[i].input
          /\ records[j].output = records[i].output

\* A run that was stored with its snapshots is reported consistent by a stored
\* replay: going through its rows ends in the state the run ended in (final_result
\* _match of replay_execution), whichever way the graph ended.
StoredRunReplays ==
    phase = "run" /\ ~Loops /\ capture /\ records # <<>> =>
       StoredState(records).contents = state.contents

\* A debug session that paused at a node shows the state that node read, and the
\* workflow executes nothing after that node: whoever inspects the session sees
\* where the run stands.
PauseShowsTheRun ==
    phase \in {"debug", "over"} /\ ~session.continue =>
       LET last == records[Len(records)]
       IN  /\ last.node = session.paused_at
           /\ last.input = session.snapshot
           /\ pause_at # {} => \A i \in 1 .. Len(records) - 1 :
                                   records[i].node \notin pause_at

\* A replay and a debug session come to an end, whatever the nodes do in them and
\* however far they get from the record.
StreamsEnd == <>(phase = "over")

\* "REPLAY" goes through node_records in order and puts back their snapshots
\* (docs/system_engineering/04_phase4_graph_runtime.md:132).  It does not: a commit
\* gives every state a new state_version_id, which is hashed with the state, so
\* after the first node no input matches its record; without the caller's initial
\* state not even the first does.
ReplayFollowsRecords ==
    phase = "replay" /\ capture =>
       \A i \in recorded + 1 .. Len(records) : records[i].replayed

\* A replay step reports the recorded states of its own node.  It does not when the
\* nodes executed again take another way than the recorded run.
StepsShowTheirNode ==
    phase = "replay" =>
       \A i \in recorded + 1 .. Len(records) :
          FoundRecord(records[i].sequence).node = records[i].node
=============================================================================
