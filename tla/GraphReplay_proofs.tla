-------------------------- MODULE GraphReplay_proofs --------------------------
(***************************************************************************)
(* Proofs about GraphReplay: for any workflow, contents, caps and break    *)
(* points, a replay passes a node over only for a record of that node from *)
(* the same state, and a paused debug session shows where the run stands.  *)
(***************************************************************************)
EXTENDS GraphReplay, TLAPS, WellFoundedInduction

\* A record has either its output or nothing as its snapshot, and if it stands
\* for an execution it copies an earlier record of its node.
RecordsOK ==
    \A i \in DOMAIN records :
        /\ records[i].output_state \in {records[i].output, NoSnapshot}
        /\ records[i].replayed =>
              \E j \in 1..(i - 1) :
                 /\ records[j].node = records[i].node
                 /\ records[j].input = records[i].input
                 /\ records[j].output = records[i].output

\* Before a pause no break point was met; afterwards the last record is that of
\* the node where the session paused.
SessionOK ==
    /\ session.continue \in BOOLEAN
    /\ ~session.continue =>
          /\ phase \in {"debug", "over"}
          /\ Len(records) # 0
          /\ records[Len(records)].node = session.paused_at
          /\ records[Len(records)].input = session.snapshot
    /\ pause_at # {} =>
          \A i \in 1..Len(records) :
             \/ records[i].node \notin pause_at
             \/ ~session.continue /\ i = Len(records)
             \/ phase \notin {"debug", "over"}
             \/ phase = "over" /\ session.continue

IInv ==
    /\ records \in Seq({records[i] : i \in DOMAIN records})
    /\ index \in Nat
    /\ RecordsOK
    /\ SessionOK

-----------------------------------------------------------------------------
\* A nonempty set of numbers has a least one.
LEMMA LeastNat ==
    ASSUME NEW S \in SUBSET Nat, S # {}
    PROVE  \E x \in S : \A y \in S : x <= y
  <1>1. PICK x \in S : \A y \in S : ~(<<y, x>> \in OpToRel(<, Nat))
    BY NatLessThanWellFounded, WFMin
  <1>2. ASSUME NEW y \in S
        PROVE  x <= y
    <2>1. <<y, x>> \in Nat \X Nat
      OBVIOUS
    <2>2. ~(y < x)
      BY <1>1, <2>1 DEF OpToRel
    <2> QED
      BY <2>2
  <1> QED
    BY <1>2

\* What _execute_node leaves is appended, and the earlier records stay.
LEMMA ExecutedAppends ==
    ASSUME records \in Seq({records[i] : i \in DOMAIN records}),
           NEW out, NEW replayed, Executed(out, replayed)
    PROVE  /\ records' \in Seq({records'[i] : i \in DOMAIN records'})
           /\ Len(records') = Len(records) + 1
           /\ \A i \in 1..Len(records) : records'[i] = records[i]
           /\ LET new == records'[Len(records) + 1]
              IN /\ new.node = current /\ new.input = state
                 /\ new.output = out /\ new.replayed = replayed
                 /\ new.output_state \in {out, NoSnapshot}
           /\ DOMAIN records = 1..Len(records)
           /\ DOMAIN records' = 1..(Len(records) + 1)
           /\ Len(records) \in Nat
  <1> DEFINE new == [node |-> current, sequence |-> sequence, input |-> state,
                     output |-> out,
                     output_state |-> IF Capturing THEN out ELSE NoSnapshot,
                     replayed |-> replayed]
             S == {records[i] : i \in DOMAIN records}
  <1>1. records' = Append(records, new)
    BY DEF Executed
  <1>2. /\ new.node = current /\ new.input = state /\ new.output = out
        /\ new.replayed = replayed /\ new.output_state \in {out, NoSnapshot}
    OBVIOUS
  <1> HIDE DEF new, S
  <1>3. records \in Seq(S) /\ DOMAIN records = 1..Len(records) /\ Len(records) \in Nat
    BY DEF S
  <1>4. /\ Len(records') = Len(records) + 1
        /\ DOMAIN records' = 1..(Len(records) + 1)
        /\ \A i \in 1..Len(records) : records'[i] = records[i]
        /\ records'[Len(records) + 1] = new
    BY <1>1, <1>3
  <1>5. records' \in Seq({records'[i] : i \in DOMAIN records'})
    <2> DEFINE T == {records'[i] : i \in DOMAIN records'}
    <2>1. records' \in Seq(S \cup {new})
      BY <1>1, <1>3
    <2>2. \A i \in 1..Len(records') : records'[i] \in T
      BY <1>4
    <2> HIDE DEF T
    <2>3. records' \in Seq(T)
      BY <2>1, <2>2
    <2> QED
      BY <2>3 DEF T
  <1> QED
    BY <1>2, <1>3, <1>4, <1>5

\* An appended record leaves the earlier ones what they were.
LEMMA RecordsStayOK ==
    ASSUME IInv, NEW out, NEW replayed, Executed(out, replayed),
           replayed =>
              \E j \in 1..Len(records) :
                 /\ records[j].node = current
                 /\ records[j].input = state
                 /\ records[j].output = out
    PROVE  RecordsOK'
  <1>1. /\ Len(records) \in Nat
        /\ DOMAIN records = 1..Len(records)
        /\ DOMAIN records' = 1..(Len(records) + 1)
        /\ \A i \in 1..Len(records) : records'[i] = records[i]
    BY ExecutedAppends DEF IInv
  <1>2. /\ records'[Len(records) + 1].node = current
        /\ records'[Len(records) + 1].input = state
        /\ records'[Len(records) + 1].output = out
        /\ records'[Len(records) + 1].replayed = replayed
        /\ records'[Len(records) + 1].output_state \in {out, NoSnapshot}
    BY ExecutedAppends DEF IInv
  <1> SUFFICES ASSUME NEW i \in 1..(Len(records) + 1)
               PROVE  /\ records'[i].output_state \in {records'[i].output, NoSnapshot}
                      /\ records'[i].replayed =>
                            \E j \in 1..(i - 1) :
                               /\ records'[j].node = records'[i].node
                               /\ records'[j].input = records'[i].input
                               /\ records'[j].output = records'[i].output
    BY <1>1 DEF RecordsOK
  <1>3. CASE i \in 1..Len(records)
    <2>1. \A j \in 1..(i - 1) : j \in 1..Len(records) /\ records'[j] = records[j]
      BY <1>1, <1>3
    <2>2. records'[i] = records[i] /\ i \in DOMAIN records
      BY <1>1, <1>3
    <2>3. RecordsOK
      BY DEF IInv
    <2>4. records'[i].output_state \in {records'[i].output, NoSnapshot}
      BY <2>2, <2>3 DEF RecordsOK
    <2>5. ASSUME records'[i].replayed
          PROVE  \E j \in 1..(i - 1) :
                    /\ records'[j].node = records'[i].node
                    /\ records'[j].input = records'[i].input
                    /\ records'[j].output = records'[i].output
      <3>1. PICK j \in 1..(i - 1) :
                    /\ records[j].node = records[i].node
                    /\ records[j].input = records[i].input
                    /\ records[j].output = records[i].output
        BY <2>2, <2>3, <2>5 DEF RecordsOK
      <3>2. records'[j] = records[j]
        BY <2>1
      <3> QED
        BY <2>2, <3>1, <3>2
    <2> QED
      BY <2>4, <2>5
  <1>4. CASE i = Len(records) + 1
    <2>1. i - 1 = Len(records)
      BY <1>1, <1>4
    <2> QED
      BY <1>1, <1>2, <1>4, <2>1
  <1> QED
    BY <1>1, <1>3, <1>4

\* A node that is reached while the session goes on keeps its part.
LEMMA SessionStaysOK ==
    ASSUME IInv, Loops, NEW out, NEW replayed, Executed(out, replayed), Pause(out),
           UNCHANGED <<phase, pause_at>>
    PROVE  SessionOK'
  <1>1. /\ Len(records) \in Nat
        /\ Len(records') = Len(records) + 1
        /\ \A i \in 1..Len(records) : records'[i] = records[i]
        /\ records'[Len(records) + 1].node = current
        /\ records'[Len(records) + 1].input = state
    BY ExecutedAppends DEF IInv
  <1>2. phase # "over" /\ session.continue = TRUE
    BY DEF Loops, IInv, SessionOK
  <1>3. CASE phase = "debug" /\ (pause_at = {} \/ current \in pause_at)
    <2>1. session' = [paused_at |-> current, snapshot |-> state, continue |-> FALSE]
      BY <1>3 DEF Pause
    <2>2. /\ ~session'.continue /\ session'.continue \in BOOLEAN
          /\ session'.paused_at = current /\ session'.snapshot = state
      BY <2>1
    <2>3. pause_at # {} => \A i \in 1..Len(records) : records[i].node \notin pause_at
      BY <1>2, <1>3 DEF IInv, SessionOK
    <2>5. /\ phase' = "debug" /\ pause_at' = pause_at
          /\ Len(records') # 0
          /\ records'[Len(records')].node = session'.paused_at
          /\ records'[Len(records')].input = session'.snapshot
      BY <1>1, <1>3, <2>2
    <2>6. pause_at # {} =>
             \A i \in 1..Len(records') :
                i # Len(records') => records'[i].node \notin pause_at
      <3> SUFFICES ASSUME pause_at # {}, NEW i \in 1..Len(records'), i # Len(records')
                   PROVE  records'[i].node \notin pause_at
        OBVIOUS
      <3>1. i \in 1..Len(records) /\ records'[i] = records[i]
        BY <1>1
      <3> QED
        BY <2>3, <3>1
    <2> QED
      BY <2>2, <2>5, <2>6 DEF SessionOK
  <1>4. CASE ~(phase = "debug" /\ (pause_at = {} \/ current \in pause_at))
    <2>1. session' = session
      BY <1>4 DEF Pause
    <2>2. phase = "debug" =>
             /\ current \notin pause_at
             /\ pause_at # {} => \A i \in 1..Len(records) : records[i].node \notin pause_at
      BY <1>2, <1>4 DEF IInv, SessionOK
    <2>3. \A i \in 1..(Len(records) + 1) : i \in 1..Len(records) \/ i = Len(records) + 1
      BY <1>1
    <2> QED
      BY <1>1, <1>2, <2>1, <2>2, <2>3 DEF IInv, SessionOK
  <1> QED
    BY <1>3, <1>4

\* The records are looked up by their numbers.
LEMMA UsableIsRecord ==
    ASSUME IInv, Usable # 0
    PROVE  /\ Usable \in 1..Len(records)
           /\ records[Usable].node = current
           /\ records[Usable].input = state
           /\ records[Usable].output_state # NoSnapshot
  <1> DEFINE i == Peek(current)
             later == {k \in index + 1 .. Len(records) : records[k].node = current}
  <1>1. i # 0 /\ Usable = i /\ records[i].input = state /\ records[i].output_state # NoSnapshot
    BY DEF Usable
  <1>2. index \in Nat /\ Len(records) \in Nat
    BY DEF IInv
  <1>3. later # {} /\ i = CHOOSE k \in later : \A m \in later : k <= m
    BY <1>1 DEF Peek
  <1>4. i \in later
    <2>1. later \in SUBSET Nat
      BY <1>2
    <2>2. \E k \in later : \A m \in later : k <= m
      BY <1>3, <2>1, LeastNat
    <2> HIDE DEF later
    <2> QED
      BY <1>3, <2>2
  <1> QED
    BY <1>1, <1>2, <1>4
-----------------------------------------------------------------------------
LEMMA InitEstablishesInv == Init => IInv
  <1> SUFFICES ASSUME Init
               PROVE  IInv
    OBVIOUS
  <1>1. records = <<>> /\ index = 0 /\ session.continue /\ session.continue \in BOOLEAN
    BY DEF Init, Fresh
  <1>2. RecordsOK /\ SessionOK
    BY <1>1 DEF RecordsOK, SessionOK
  <1>3. records \in Seq({records[i] : i \in DOMAIN records})
    BY <1>1
  <1> QED
    BY <1>1, <1>2, <1>3 DEF IInv

\* RunNode.
LEMMA RunKeepsInv ==
    ASSUME IInv, RunNode
    PROVE  IInv'
  <1>1. PICK c \in Contents :
           LET out == [contents |-> c, version |-> state.version]
           IN  Executed(out, FALSE) /\ Advance(out) /\ Pause(out)
    BY DEF RunNode
  <1> DEFINE out == [contents |-> c, version |-> state.version]
  <1>2. Executed(out, FALSE) /\ Pause(out) /\ Loops /\ UNCHANGED <<phase, pause_at>>
    BY <1>1 DEF RunNode
  <1> HIDE DEF out
  <1>3. RecordsOK' /\ SessionOK'
    BY <1>2, RecordsStayOK, SessionStaysOK
  <1>4. records' \in Seq({records'[i] : i \in DOMAIN records'})
    BY <1>2, ExecutedAppends DEF IInv
  <1>5. index' \in Nat
    BY DEF RunNode, Consumed, IInv
  <1> QED
    BY <1>3, <1>4, <1>5 DEF IInv

\* SkipNode.
LEMMA SkipKeepsInv ==
    ASSUME IInv, SkipNode
    PROVE  IInv'
  <1> DEFINE out == records[Usable].output_state
  <1>1. Executed(out, TRUE) /\ Pause(out) /\ Loops /\ UNCHANGED <<phase, pause_at>>
    BY DEF SkipNode
  <1>2. /\ Usable \in 1..Len(records)
        /\ records[Usable].node = current /\ records[Usable].input = state
        /\ out # NoSnapshot
    BY UsableIsRecord DEF SkipNode
  <1>3. records[Usable].output = out
    <2>1. Usable \in DOMAIN records
      BY <1>2 DEF IInv
    <2> QED
      BY <1>2, <2>1 DEF IInv, RecordsOK
  <1>4. \E j \in 1..Len(records) :
           records[j].node = current /\ records[j].input = state /\ records[j].output = out
    BY <1>2, <1>3
  <1> HIDE DEF out
  <1>5. RecordsOK' /\ SessionOK'
    BY <1>1, <1>4, RecordsStayOK, SessionStaysOK
  <1>6. records' \in Seq({records'[i] : i \in DOMAIN records'})
    BY <1>1, ExecutedAppends DEF IInv
  <1>7. index' \in Nat
    BY DEF SkipNode, Consumed, IInv
  <1> QED
    BY <1>5, <1>6, <1>7 DEF IInv

LEMMA NextKeepsInv == IInv /\ [Next]_vars => IInv'
  <1> SUFFICES ASSUME IInv, [Next]_vars
               PROVE  IInv'
    OBVIOUS
  <1>1. CASE BeginReplay
    <2>1. /\ records' = records /\ index' = 0 /\ phase' = "replay" /\ phase = "run"
          /\ session' = session /\ pause_at' = pause_at
      BY <1>1 DEF BeginReplay
    <2>2. RecordsOK' /\ SessionOK'
      BY <2>1 DEF IInv, RecordsOK, SessionOK
    <2> QED
      BY <2>1, <2>2 DEF IInv
  <1>2. CASE EndStream
    <2>1. /\ records' = records /\ index' = index /\ phase' = "over"
          /\ phase \in {"replay", "debug"}
          /\ session' = session /\ pause_at' = pause_at
      BY <1>2 DEF EndStream
    <2>2. RecordsOK' /\ SessionOK'
      BY <2>1 DEF IInv, RecordsOK, SessionOK
    <2> QED
      BY <2>1, <2>2 DEF IInv
  <1>3. CASE UNCHANGED vars
    BY <1>3 DEF vars, IInv, RecordsOK, SessionOK
  <1> QED
    BY <1>1, <1>2, <1>3, RunKeepsInv, SkipKeepsInv DEF Next

\* The inductive invariant holds in every behaviour.
THEOREM ReplayInvariant == Spec => []IInv
  <1> QED
    BY InitEstablishesInv, NextKeepsInv, PTL DEF Spec

\* resolve_node_output: a node is passed over only for a record that it made itself
\* from the same state, whatever the graph and however often its nodes recur.
THEOREM SkippedNodesAreRecorded == Spec => []SkippedNodeIsRecorded
  <1>1. IInv => SkippedNodeIsRecorded
    BY DEF IInv, RecordsOK, SkippedNodeIsRecorded
  <1> QED
    BY <1>1, ReplayInvariant, PTL

\* maybe_pause: the session shows what the node read, the run stands at that node,
\* and no break point was passed before.
THEOREM PausesShowTheRun == Spec => []PauseShowsTheRun
  <1>1. ASSUME IInv
        PROVE  PauseShowsTheRun
    <2> SUFFICES ASSUME phase \in {"debug", "over"}, ~session.continue
                 PROVE  LET last == records[Len(records)]
                        IN  /\ last.node = session.paused_at
                            /\ last.input = session.snapshot
                            /\ pause_at # {} => \A i \in 1 .. Len(records) - 1 :
                                   records[i].node \notin pause_at
      BY DEF PauseShowsTheRun
    <2>1. Len(records) \in Nat
      BY <1>1 DEF IInv
    <2>2. \A i \in 1..(Len(records) - 1) : i \in 1..Len(records) /\ i # Len(records)
      BY <2>1
    <2> QED
      BY <1>1, <2>2 DEF IInv, SessionOK
  <1> QED
    BY <1>1, ReplayInvariant, PTL

-----------------------------------------------------------------------------
\* While the recorded run goes on, what it captures are the outputs, and the last
\* of them has the contents of its state.
StoredInv ==
    phase = "run" =>
        /\ \A i \in DOMAIN records : records[i].output.contents \in Contents
        /\ capture => \A i \in DOMAIN records : records[i].output_state = records[i].output
        /\ records # <<>> => records[Len(records)].output.contents = state.contents

LEMMA NextKeepsStored == IInv /\ StoredInv /\ [Next]_vars => StoredInv'
  <1> SUFFICES ASSUME IInv, StoredInv, [Next]_vars, phase' = "run"
               PROVE  StoredInv'
    BY DEF StoredInv
  <1>1. CASE UNCHANGED vars
    BY <1>1 DEF StoredInv, vars
  <1>2. CASE RunNode
    <2>1. PICK c \in Contents :
             LET out == [contents |-> c, version |-> state.version]
             IN  Executed(out, FALSE) /\ Advance(out) /\ Pause(out)
      BY <1>2 DEF RunNode
    <2> DEFINE out == [contents |-> c, version |-> state.version]
    <2>2. Executed(out, FALSE) /\ out.contents = c
      BY <2>1
    <2> HIDE DEF out
    <2>3. /\ state'.contents = c
          /\ phase = "run" /\ capture' = capture
      BY <1>2, <2>2 DEF Executed, RunNode
    <2>4. /\ Len(records') = Len(records) + 1
          /\ \A i \in 1..Len(records) : records'[i] = records[i]
          /\ records'[Len(records) + 1].output = out
          /\ DOMAIN records = 1..Len(records)
          /\ DOMAIN records' = 1..(Len(records) + 1)
          /\ Len(records) \in Nat
      BY <2>2, ExecutedAppends DEF IInv
    <2>5. capture => records'[Len(records) + 1].output_state = out
      <3> SUFFICES ASSUME capture
                   PROVE  records'[Len(records) + 1].output_state = out
        OBVIOUS
      <3> DEFINE new == [node |-> current, sequence |-> sequence, input |-> state,
                         output |-> out, output_state |-> out, replayed |-> FALSE]
      <3>1. records' = Append(records, new)
        BY <2>2 DEF Executed, Capturing
      <3>2. new.output_state = out
        OBVIOUS
      <3> HIDE DEF new
      <3>3. records'[Len(records) + 1] = new
        BY <3>1 DEF IInv
      <3> QED
        BY <3>2, <3>3
    <2>6. \A i \in DOMAIN records' : i \in 1..Len(records) \/ i = Len(records) + 1
      BY <2>4
    <2>7. /\ \A i \in DOMAIN records' : records'[i].output.contents \in Contents
          /\ capture => \A i \in DOMAIN records' :
                           records'[i].output_state = records'[i].output
      BY <2>2, <2>3, <2>4, <2>5, <2>6 DEF StoredInv
    <2>8. records'[Len(records')].output.contents = state'.contents
      BY <2>2, <2>3, <2>4
    <2> QED
      BY <2>3, <2>7, <2>8 DEF StoredInv
  <1>3. CASE SkipNode \/ BeginReplay \/ EndStream
    BY <1>3 DEF SkipNode, BeginReplay, EndStream
  <1> QED
    BY <1>1, <1>2, <1>3 DEF Next

\* StoredRunReplays: replay_execution finds the state in which a run that it has
\* the snapshots of has ended, for every graph and however the run ended.
THEOREM StoredRunsReplay == Spec => []StoredRunReplays
  <1>1. Init => StoredInv
    BY DEF Init, StoredInv
  <1>2. ASSUME IInv, StoredInv
        PROVE  StoredRunReplays
    <2> SUFFICES ASSUME phase = "run", capture, records # <<>>
                 PROVE  StoredState(records).contents = state.contents
      BY DEF StoredRunReplays
    <2>1. Len(records) \in DOMAIN records /\ DOMAIN records = 1..Len(records)
          /\ Len(records) \in Nat
      BY <1>2 DEF IInv
    <2>2. /\ records[Len(records)].output_state = records[Len(records)].output
          /\ records[Len(records)].output.contents \in Contents
          /\ records[Len(records)].output.contents = state.contents
      BY <1>2, <2>1 DEF StoredInv
    <2>3. NoSnapshot.contents \notin Contents
      BY GraphAssumption DEF NoSnapshot
    <2>4. Len(records) \in Captured(records)
      BY <2>1, <2>2, <2>3 DEF Captured
    <2>5. \A i \in Captured(records) : i \in 1..Len(records)
      BY <2>1 DEF Captured
    <2>6. (CHOOSE i \in Captured(records) : \A j \in Captured(records) : j <= i)
              = Len(records)
      BY <2>1, <2>4, <2>5
    <2> QED
      BY <2>2, <2>4, <2>6 DEF StoredState
  <1> QED
    BY <1>1, <1>2, ReplayInvariant, NextKeepsStored, PTL DEF Spec
=============================================================================
