---------------------------- MODULE StateVersions ----------------------------
(***************************************************************************)
(* The version history of an AgentState: StateVersionManager               *)
(* (graph/runtime/state_versioning.py) as Graph.astream uses it, one       *)
(* commit per node and one per merge, and as the clients of the state API  *)
(* use it between runs: rollback, fork and replay of a branch.             *)
(*                                                                         *)
(* The contents of a state are its query, the answer (final_result, which  *)
(* finalize sets together with should_stop, told apart by the query it     *)
(* answers) and a set of items: what nodes put into dictionaries and       *)
(* lists, of which DEEP_MERGE takes the union.  The plan state is not      *)
(* among them, since a snapshot does not restore it; nor is the graph      *)
(* trace, which is written after a commit too.  Version ids are uuids;     *)
(* here they are numbers in the order of their creation, and 0 is None.    *)
(***************************************************************************)
EXTENDS Integers, FiniteSets

CONSTANTS Items,       \* what a node may add to the state
          Queries,     \* what clients ask
          NoAnswer,    \* final_result before finalize
          Names,       \* branch names that clients choose
          MaxBranches, \* bound on the branches of a fan-out
          MaxVersions, \* bound on the versions of a history
          MaxNames     \* bound on the branch names of a history

ASSUME NoAnswerAssumption == NoAnswer \notin Queries
ASSUME BoundsAssumption ==
    MaxBranches \in Nat /\ MaxVersions \in Nat /\ MaxNames \in Nat

\* A branch is <<"main", 0>>, a name, or <<"branch", n>>, the default.
Main == <<"main", 0>>
DefaultName(n) == <<"branch", n>>
BranchNames == {Main} \cup Names \cup {DefaultName(n) : n \in 1..MaxNames}

VARIABLES state,    \* the AgentState with its version_store
          issued,   \* the number of versions created
          running,  \* a graph runs on the state
          source,   \* the state at the start of a fan-out
          left,     \* merges and the join that the fan-out has left
          parallel, \* versions of the fan-out's branches (history)
          reused    \* branch names that were taken again (history)

vars == <<state, issued, running, source, left, parallel, reused>>

\* StateVersionStore(): the main branch points to no version.
NewStore == [current  |-> 0,
             branch   |-> Main,
             versions |-> <<>>,
             branches |-> [b \in {Main} |-> 0]]

NewState(query) ==
    [query |-> query, answer |-> NoAnswer, data |-> {}, version |-> 0,
     branch |-> Main, store |-> NewStore]

-----------------------------------------------------------------------------
\* state_to_serializable: all but the store, with the version it came from.
Snapshot(s) == [query |-> s.query, answer |-> s.answer, data |-> s.data,
                version |-> s.version, branch |-> s.branch]

\* Seeded fault: the new version is made current before its parent is read.
NewVersionOfItself(s, id) ==
    [parent |-> id, branch |-> s.store.branch, snapshot |-> Snapshot(s)]

NewVersion(s, id) ==
    [parent |-> s.store.current, branch |-> s.store.branch, snapshot |-> Snapshot(s)]

\* commit.
Committed(s, id) ==
    [s EXCEPT !.store.versions =
                  [v \in DOMAIN s.store.versions \cup {id} |->
                      IF v = id THEN NewVersion(s, id) ELSE s.store.versions[v]],
              !.store.current = id,
              !.version = id]

\* Seeded fault: the branch of the store stays the one before the rollback.
StoreAtVersionOnly(store, v) == [store EXCEPT !.current = v]

StoreAt(store, v) ==
    [store EXCEPT !.current = v, !.branch = store.versions[v].branch]

\* rollback: the snapshot is applied, its version and branch become current.
RolledBack(s, v) ==
    LET snapshot == s.store.versions[v].snapshot
    IN [query |-> snapshot.query, answer |-> snapshot.answer,
        data |-> snapshot.data, version |-> v, branch |-> snapshot.branch,
        store |-> StoreAt(s.store, v)]

\* Seeded fault: the branch points to the version before the rollback to its base.
ForkedAtCurrent(s, base, name) ==
    [RolledBack(s, base) EXCEPT
        !.branch = name,
        !.store.branch = name,
        !.store.branches = [b \in DOMAIN s.store.branches \cup {name} |->
                               IF b = name THEN s.store.current
                               ELSE s.store.branches[b]]]

\* fork_branch, once the base and the name are known.
Forked(s, base, name) ==
    [RolledBack(s, base) EXCEPT
        !.branch = name,
        !.store.branch = name,
        !.store.branches = [b \in DOMAIN s.store.branches \cup {name} |->
                               IF b = name THEN base ELSE s.store.branches[b]]]

\* Seeded fault: only the right store survives.
MergedStoresRight(l, r) == r

\* _merge_version_stores.
MergedStores(l, r) ==
    [current  |-> r.current,
     branch   |-> r.branch,
     versions |-> [v \in DOMAIN l.versions \cup DOMAIN r.versions |->
                      IF v \in DOMAIN l.versions THEN l.versions[v]
                      ELSE r.versions[v]],
     branches |-> [b \in DOMAIN l.branches \cup DOMAIN r.branches |->
                      IF b \in DOMAIN r.branches THEN r.branches[b]
                      ELSE l.branches[b]]]

\* Seeded fault: the contents are those of the right state.
MergedRight(l, r) == [r EXCEPT !.store = MergedStores(l.store, r.store)]

\* _deep_merge.
Merged(l, r) ==
    [query   |-> l.query,
     answer  |-> IF r.answer = NoAnswer THEN l.answer ELSE r.answer,
     data    |-> l.data \cup r.data,
     version |-> r.version,
     branch  |-> l.branch,
     store   |-> MergedStores(l.store, r.store)]

-----------------------------------------------------------------------------
\* The first request of a session.
Init ==
    /\ \E query \in Queries : state = NewState(query) /\ source = NewState(query)
    /\ issued = 0
    /\ running = TRUE
    /\ left = 0
    /\ parallel = {}
    /\ reused = {}

\* The loop of astream goes on, outside a fan-out: should_stop is not set.
LoopGoesOn == running /\ left = 0 /\ state.answer = NoAnswer

NodeCommitted(after) ==
    /\ state' = Committed(after, issued + 1)
    /\ issued' = issued + 1
    /\ parallel' = {}
    /\ UNCHANGED <<running, source, left, reused>>

\* A node runs and its result is committed.  Room is left for finalize.
RunNode ==
    /\ LoopGoesOn
    /\ issued + 1 < MaxVersions
    /\ \E x \in Items : NodeCommitted([state EXCEPT !.data = @ \cup {x}])

\* finalize answers and sets should_stop.
RunFinalize ==
    /\ LoopGoesOn
    /\ issued < MaxVersions
    /\ NodeCommitted([state EXCEPT !.answer = state.query])

\* The branches of a fan-out start on copies of the state.
StartFanOut ==
    /\ LoopGoesOn
    /\ \E n \in 2..MaxBranches :
          /\ issued + n + 2 < MaxVersions
          /\ left' = n + 1
    /\ source' = state
    /\ parallel' = {}
    /\ UNCHANGED <<state, issued, running, reused>>

(***************************************************************************)
(* The next branch, and its merge into the state.  gather has waited for   *)
(* all branches before the first merge, and nothing reads a branch's copy  *)
(* before that: the two are one action, in the order of the merges.        *)
(***************************************************************************)
RunBranch ==
    /\ left > 1
    /\ \E x \in Items :
          state' = Merged(state, Committed([source EXCEPT !.data = @ \cup {x}],
                                           issued + 1))
    /\ issued' = issued + 1
    /\ parallel' = parallel \cup {issued + 1}
    /\ left' = left - 1
    /\ UNCHANGED <<running, source, reused>>

\* The merged state is committed, then _join_pass leaves it as it is, and it is
\* committed as the join node's.
JoinFanOut ==
    /\ left = 1
    /\ state' = Committed(Committed(state, issued + 1), issued + 2)
    /\ source' = NewState(state.query)
    /\ issued' = issued + 2
    /\ left' = 0
    /\ UNCHANGED <<running, parallel, reused>>

\* early_stop: the run is over and its state goes to the client.
RunEnds ==
    /\ running /\ left = 0 /\ state.answer # NoAnswer
    /\ running' = FALSE
    /\ UNCHANGED <<state, issued, source, left, parallel, reused>>

-----------------------------------------------------------------------------
(***************************************************************************)
(* The state API.  The client sends the snapshot with the version store    *)
(* that it got last; from_api_snapshot builds an AgentState of it.         *)
(***************************************************************************)
Rollback ==
    /\ ~running
    /\ \E v \in DOMAIN state.store.versions : state' = RolledBack(state, v)
    /\ parallel' = {}
    /\ UNCHANGED <<issued, running, source, left, reused>>

\* The name is the client's or the default one; one that is in use is not refused.
NewBranch(name) ==
    /\ name \in Names \cup {DefaultName(Cardinality(DOMAIN state.store.branches))}
    /\ \/ name \in DOMAIN state.store.branches
       \/ Cardinality(DOMAIN state.store.branches) < MaxNames
    /\ reused' = reused \cup ({name} \cap DOMAIN state.store.branches)

\* The base is the client's or the current version.
Fork ==
    /\ ~running
    /\ \E base \in DOMAIN state.store.versions, name \in BranchNames :
          /\ NewBranch(name)
          /\ state' = Forked(state, base, name)
    /\ parallel' = {}
    /\ UNCHANGED <<issued, running, source, left>>

\* replay_from_branch: a fork, and the graph runs on its state with the query.
ReplayBranch ==
    /\ ~running
    /\ issued < MaxVersions
    /\ \E base \in DOMAIN state.store.versions, name \in BranchNames, query \in Queries :
          /\ NewBranch(name)
          /\ state' = [Forked(state, base, name) EXCEPT !.query = query]
    /\ running' = TRUE
    /\ parallel' = {}
    /\ UNCHANGED <<issued, source, left>>

Next ==
    \/ RunNode \/ RunFinalize
    \/ StartFanOut \/ RunBranch \/ JoinFanOut
    \/ RunEnds
    \/ Rollback \/ Fork \/ ReplayBranch

Spec == Init /\ [][Next]_vars

-----------------------------------------------------------------------------
Versions == 1..issued

SnapshotOK(s) ==
    /\ s.query \in Queries /\ s.answer \in Queries \cup {NoAnswer}
    /\ s.data \subseteq Items
    /\ s.version \in {0} \cup Versions /\ s.branch \in BranchNames

StoreOK(store) ==
    /\ store.current \in {0} \cup DOMAIN store.versions
    /\ store.branch \in BranchNames
    /\ DOMAIN store.versions \subseteq Versions
    /\ \A v \in DOMAIN store.versions :
          /\ store.versions[v].branch \in BranchNames
          /\ SnapshotOK(store.versions[v].snapshot)
    /\ DOMAIN store.branches \subseteq BranchNames
    /\ \A b \in DOMAIN store.branches \ {Main} : store.branches[b] \in DOMAIN store.versions

\* Also: no version is lost, and the branches point to versions.
TypeOK ==
    /\ issued \in Nat
    /\ SnapshotOK(state) /\ StoreOK(state.store)
    /\ SnapshotOK(source) /\ StoreOK(source.store)
    /\ DOMAIN state.store.versions = Versions
    /\ running \in BOOLEAN /\ left \in Nat
    /\ parallel \subseteq Versions
    /\ reused \subseteq BranchNames

\* lineage() ends at a version without a parent: every parent is a version of
\* the store that is older than its child, through merges and rollbacks.
LineageComplete ==
    \A v \in DOMAIN state.store.versions :
        state.store.versions[v].parent \in {0} \cup
            {u \in DOMAIN state.store.versions : u < v}

\* "Restore to the version": outside a fan-out the state is what its current
\* version says, after commits, merges, rollbacks and forks (but for the query,
\* which a replay sets), and state and store agree on version and branch.
StateIsCurrentVersion ==
    /\ left = 0 =>
          /\ state.version = state.store.current
          /\ state.branch = state.store.branch
    /\ left = 0 /\ state.store.current # 0 =>
          LET snapshot == state.store.versions[state.store.current].snapshot
          IN /\ snapshot.data = state.data
             /\ snapshot.answer = state.answer

\* The version and its ancestors: lineage().
Lineage(store, version) ==
    LET lineage[v \in 0..version] ==
            IF v = 0 THEN {} ELSE {v} \cup lineage[store.versions[v].parent]
    IN lineage[version]

\* A fork makes a new branch from a version: the versions of a branch descend
\* from the one it was forked from, unless its name was taken again, which the
\* code does not refuse.
BranchesDescend ==
    \A v \in DOMAIN state.store.versions :
        LET b == state.store.versions[v].branch
        IN b \notin {Main} \cup reused =>
              state.store.branches[b] \in Lineage(state.store, v)

\* A merge has the work of every branch, although the lineage of the merged
\* version goes through one of them only.
ParallelWorkMerged ==
    left = 0 =>
        \A v \in parallel :
            state.store.versions[v].snapshot.data \subseteq state.data

\* No commit, merge, rollback or fork changes or drops a version.
VersionsKept ==
    [][\A v \in DOMAIN state.store.versions :
          /\ v \in DOMAIN state'.store.versions
          /\ state'.store.versions[v] = state.store.versions[v]]_vars
=============================================================================
