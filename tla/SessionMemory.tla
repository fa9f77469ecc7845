---------------------------- MODULE SessionMemory ----------------------------
(***************************************************************************)
(* CompositeMemory and its stores (memory/), and what the memory nodes of  *)
(* the graph make of them (graph/runtime/memory_nodes.py).  The stores do  *)
(* not suspend, so that a node is one step.  An episode is its number,     *)
(* from its key, and the request it is of.                                 *)
(***************************************************************************)
EXTENDS Integers, Sequences

CONSTANTS Sessions,
          MaxMessages, \* short_term_max_messages, for episodes too
          LoadLimit    \* what memory_load reads of each store

ASSUME MemoryAssumption == MaxMessages \in Nat \ {0} /\ LoadLimit \in Nat \ {0}

VARIABLE memory \* memory[s], the three stores' entries of a session

MemoryInit ==
    memory = [s \in Sessions |-> [short |-> <<>>, long |-> <<>>, episodes |-> <<>>]]

\* deque(maxlen) of the stores in the process.
Bounded(entries) ==
    SubSeq(entries, IF Len(entries) > MaxMessages THEN Len(entries) - MaxMessages + 1 ELSE 1,
           Len(entries))

\* Seeded fault: only this request's own episodes count.
EpisodesLoadedNone(s) == 0

\* get() returns the last entries, at most query.limit.
EpisodesLoaded(s) ==
    LET n == Len(memory[s].episodes) IN IF n < LoadLimit THEN n ELSE LoadLimit

\* memory_persist: the episode, the query, and the answer if there is one.  The
\* file of the long-term store has no bound.
Persist(s, r, number, answer) ==
    memory' = [memory EXCEPT
        ![s].episodes = Bounded(Append(@, [number |-> number, of |-> r])),
        ![s].short = Bounded(Append(@, r)),
        ![s].long = IF answer = 0 THEN @ ELSE Append(@, <<r, answer>>)]
=============================================================================
