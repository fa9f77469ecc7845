------------------------ MODULE StateVersions_proofs ------------------------
(***************************************************************************)
(* Proofs about StateVersions: the history only grows, its lineages are    *)
(* complete, and the state is what its current version says.               *)
(***************************************************************************)
EXTENDS StateVersions, TLAPS

Answers == Queries \cup {NoAnswer}

\* The fields of a version store.
StoreShape(store) ==
    store \in [current : Nat, branch : BranchNames,
               versions : {store.versions}, branches : {store.branches}]

\* The fields of a state and of its store.
StateShape(s) ==
    /\ s \in [query : Queries, answer : Answers, data : SUBSET Items,
              version : Nat, branch : BranchNames, store : {s.store}]
    /\ StoreShape(s.store)

\* A version knows what rollback restores, and its branch is its snapshot's.
VersionShape(version) ==
    /\ version \in [parent : Nat, branch : BranchNames,
                    snapshot : [query : Queries, answer : Answers,
                                data : SUBSET Items, version : Nat,
                                branch : BranchNames]]
    /\ version.branch = version.snapshot.branch

\* A store whose versions are among the first n.
HistoryOK(store, n) ==
    /\ DOMAIN store.versions \subseteq 1..n
    /\ store.current \in {0} \cup DOMAIN store.versions
    /\ \A v \in DOMAIN store.versions :
          /\ VersionShape(store.versions[v])
          /\ store.versions[v].parent \in {0} \cup {u \in DOMAIN store.versions : u < v}
          /\ store.versions[v].snapshot.version \in 0..n
    /\ DOMAIN store.branches \subseteq BranchNames
    /\ \A b \in DOMAIN store.branches \ {Main} : store.branches[b] \in DOMAIN store.versions

StateOK(s, n) ==
    /\ StateShape(s)
    /\ HistoryOK(s.store, n)
    /\ s.version \in 0..n
    /\ s.branch = s.store.branch

(***************************************************************************)
(* The inductive invariant.  A branch of a fan-out starts from source, so  *)
(* the history of source must be sound too, and be on the branch of the    *)
(* state into which it is merged; no client acts during a fan-out.         *)
(***************************************************************************)
IInv ==
    /\ issued \in Nat /\ left \in Nat /\ running \in BOOLEAN
    /\ parallel \subseteq 1..issued
    /\ reused \subseteq BranchNames
    /\ StateOK(state, issued)
    /\ StateOK(source, issued)
    /\ DOMAIN state.store.versions = 1..issued
    /\ left # 0 => running /\ source.branch = state.branch
    /\ StateIsCurrentVersion

-----------------------------------------------------------------------------
(***************************************************************************)
(* commit keeps a state sound when the id is new and larger than the ids   *)
(* of the history, adds its version only, and makes it the current one.    *)
(***************************************************************************)
LEMMA CommitKeepsState ==
    ASSUME NEW s, NEW n \in Nat, NEW id \in Nat, id > n, StateOK(s, n)
    PROVE  LET c == Committed(s, id)
           IN /\ StateOK(c, id)
              /\ DOMAIN c.store.versions = DOMAIN s.store.versions \cup {id}
              /\ \A v \in DOMAIN s.store.versions :
                    c.store.versions[v] = s.store.versions[v]
              /\ c.store.current = id /\ c.version = id
              /\ c.branch = s.branch
              /\ c.data = s.data /\ c.answer = s.answer
              /\ c.store.versions[id].snapshot.data = c.data
              /\ c.store.versions[id].snapshot.answer = c.answer
<1> DEFINE c == Committed(s, id)
<1>0. StateShape(s) /\ HistoryOK(s.store, n) /\ s.version \in 0..n /\ s.branch = s.store.branch
  BY DEF StateOK
<1>1. /\ c.store.versions = [v \in DOMAIN s.store.versions \cup {id} |->
              IF v = id THEN NewVersion(s, id) ELSE s.store.versions[v]]
      /\ c.store.current = id
      /\ c.store.branch = s.store.branch
      /\ c.store.branches = s.store.branches
      /\ c.version = id /\ c.branch = s.branch
      /\ c.data = s.data /\ c.answer = s.answer
      /\ StateShape(c)
  BY <1>0 DEF Committed, StateShape, StoreShape
<1>2. /\ VersionShape(NewVersion(s, id))
      /\ NewVersion(s, id).snapshot.version \in 0..n
      /\ NewVersion(s, id).parent = s.store.current
      /\ NewVersion(s, id).snapshot.data = s.data
      /\ NewVersion(s, id).snapshot.answer = s.answer
  BY <1>0 DEF NewVersion, Snapshot, VersionShape, StateShape, StoreShape
<1>3. HistoryOK(c.store, id)
  <2> HIDE DEF c
  <2>1. DOMAIN c.store.versions \subseteq 1..id
    BY <1>0, <1>1 DEF HistoryOK
  <2>2. ASSUME NEW v \in DOMAIN c.store.versions
        PROVE  /\ VersionShape(c.store.versions[v])
               /\ c.store.versions[v].parent \in {0} \cup {u \in DOMAIN c.store.versions : u < v}
               /\ c.store.versions[v].snapshot.version \in 0..id
    <3>1. CASE v = id
      BY <3>1, <1>0, <1>1, <1>2 DEF HistoryOK
    <3>2. CASE v # id
      BY <3>2, <1>0, <1>1 DEF HistoryOK
    <3> QED BY <3>1, <3>2
  <2>3. /\ DOMAIN c.store.branches \subseteq BranchNames
        /\ \A b \in DOMAIN c.store.branches \ {Main} :
              c.store.branches[b] \in DOMAIN c.store.versions
    BY <1>0, <1>1 DEF HistoryOK
  <2> QED BY <1>1, <2>1, <2>2, <2>3 DEF HistoryOK
<1>4. id \notin DOMAIN s.store.versions
  BY <1>0 DEF HistoryOK
<1> HIDE DEF c
<1>5. StateOK(c, id)
  BY <1>0, <1>1, <1>3 DEF StateOK
<1> QED
  BY <1>0, <1>1, <1>2, <1>4, <1>5 DEF c

\* A sound state is sound for a longer history.
LEMMA LongerHistory ==
    ASSUME NEW s, NEW n \in Nat, NEW m \in Nat, n <= m, StateOK(s, n)
    PROVE  StateOK(s, m)
BY DEF StateOK, HistoryOK

(***************************************************************************)
(* rollback keeps a state sound and its history as it was, and the state   *)
(* is then what the version says.                                          *)
(***************************************************************************)
LEMMA RollbackKeepsState ==
    ASSUME NEW s, NEW n \in Nat, StateOK(s, n), NEW v \in DOMAIN s.store.versions
    PROVE  LET c == RolledBack(s, v)
           IN /\ StateOK(c, n)
              /\ c.store.versions = s.store.versions
              /\ c.store.branches = s.store.branches
              /\ c.store.current = v /\ c.version = v
              /\ c.data = s.store.versions[v].snapshot.data
              /\ c.answer = s.store.versions[v].snapshot.answer
<1> DEFINE c == RolledBack(s, v)
<1>1. StateShape(s) /\ HistoryOK(s.store, n)
  BY DEF StateOK
<1>2. VersionShape(s.store.versions[v]) /\ v \in 1..n
  BY <1>1 DEF HistoryOK
<1>3. /\ c.store.versions = s.store.versions
      /\ c.store.branches = s.store.branches
      /\ c.store.current = v /\ c.version = v
      /\ c.store.branch = s.store.versions[v].branch
      /\ c.branch = s.store.versions[v].snapshot.branch
      /\ c.data = s.store.versions[v].snapshot.data
      /\ c.answer = s.store.versions[v].snapshot.answer
      /\ StateShape(c)
  <2> DEFINE version == s.store.versions[v]
             store == StoreAt(s.store, v)
  <2>1. /\ version.branch \in BranchNames
        /\ version.snapshot.query \in Queries
        /\ version.snapshot.answer \in Answers
        /\ version.snapshot.data \in SUBSET Items
        /\ version.snapshot.branch \in BranchNames
    BY <1>2 DEF VersionShape
  <2>2. /\ store.versions = s.store.versions
        /\ store.branches = s.store.branches
        /\ store.current = v
        /\ store.branch = version.branch
        /\ StoreShape(store)
    <3>1. s.store \in [current : Nat, branch : BranchNames,
                       versions : {s.store.versions}, branches : {s.store.branches}]
      BY <1>1 DEF StateShape, StoreShape
    <3>2. store = [s.store EXCEPT !.current = v, !.branch = version.branch]
      BY DEF StoreAt
    <3> HIDE DEF version, store
    <3>3. v \in Nat
      BY <1>2
    <3>4. /\ store.versions = s.store.versions
          /\ store.branches = s.store.branches
          /\ store.current = v
          /\ store.branch = version.branch
      BY <3>1, <3>2
    <3>5. StoreShape(store)
      BY <2>1, <3>1, <3>2, <3>3, <3>4 DEF StoreShape
    <3> QED BY <3>4, <3>5
  <2>3. c = [query |-> version.snapshot.query, answer |-> version.snapshot.answer,
             data |-> version.snapshot.data, version |-> v,
             branch |-> version.snapshot.branch, store |-> store]
    BY DEF RolledBack
  <2> HIDE DEF version, store, c
  <2>4. StateShape(c)
    BY <1>2, <2>1, <2>2, <2>3 DEF StateShape
  <2> QED BY <2>2, <2>3, <2>4 DEF version
<1> HIDE DEF c
<1>4. HistoryOK(c.store, n)
  BY <1>1, <1>3 DEF HistoryOK
<1>5. StateOK(c, n)
  BY <1>2, <1>3, <1>4 DEF StateOK, VersionShape
<1> QED BY <1>3, <1>5 DEF c

\* fork_branch is a rollback that gives the state and its store a new branch.
LEMMA ForkKeepsState ==
    ASSUME NEW s, NEW n \in Nat, StateOK(s, n), NEW v \in DOMAIN s.store.versions,
           NEW name \in BranchNames
    PROVE  LET c == Forked(s, v, name)
           IN /\ StateOK(c, n)
              /\ c.store.versions = s.store.versions
              /\ c.store.current = v /\ c.version = v
              /\ c.data = s.store.versions[v].snapshot.data
              /\ c.answer = s.store.versions[v].snapshot.answer
<1> DEFINE r == RolledBack(s, v)
           c == Forked(s, v, name)
<1>1. /\ StateOK(r, n)
      /\ r.store.versions = s.store.versions
      /\ r.store.branches = s.store.branches
      /\ r.store.current = v /\ r.version = v
      /\ r.data = s.store.versions[v].snapshot.data
      /\ r.answer = s.store.versions[v].snapshot.answer
  BY RollbackKeepsState
<1>2. StateShape(r) /\ HistoryOK(r.store, n)
  BY <1>1 DEF StateOK
<1>3. c = [r EXCEPT
            !.branch = name,
            !.store.branch = name,
            !.store.branches = [b \in DOMAIN s.store.branches \cup {name} |->
                                   IF b = name THEN v ELSE s.store.branches[b]]]
  BY DEF Forked
<1> HIDE DEF r, c
<1>4. /\ c.store.versions = s.store.versions
      /\ c.store.branches = [b \in DOMAIN s.store.branches \cup {name} |->
                                IF b = name THEN v ELSE s.store.branches[b]]
      /\ c.store.current = v /\ c.version = v
      /\ c.store.branch = name /\ c.branch = name
      /\ c.data = r.data /\ c.answer = r.answer
      /\ StateShape(c)
  BY <1>1, <1>2, <1>3 DEF StateShape, StoreShape
<1>5. HistoryOK(c.store, n)
  BY <1>1, <1>2, <1>4 DEF HistoryOK
<1>6. StateOK(c, n)
  BY <1>1, <1>4, <1>5 DEF StateOK
<1> QED BY <1>1, <1>4, <1>6 DEF c

(***************************************************************************)
(* The merge of a state with the next branch of a fan-out: the history of  *)
(* the state is complete up to n, that of the branch has one version more. *)
(***************************************************************************)
LEMMA MergeKeepsState ==
    ASSUME NEW l, NEW r, NEW n \in Nat,
           StateOK(l, n), StateOK(r, n + 1),
           DOMAIN l.store.versions = 1..n,
           n + 1 \in DOMAIN r.store.versions,
           l.branch = r.branch
    PROVE  LET m == Merged(l, r)
           IN /\ StateOK(m, n + 1)
              /\ DOMAIN m.store.versions = 1..(n + 1)
              /\ \A v \in 1..n : m.store.versions[v] = l.store.versions[v]
              /\ m.branch = l.branch
<1> DEFINE m == Merged(l, r)
<1>1. /\ StateShape(l) /\ HistoryOK(l.store, n) /\ l.branch = l.store.branch
      /\ StateShape(r) /\ HistoryOK(r.store, n + 1) /\ r.branch = r.store.branch
      /\ r.version \in 0..(n + 1)
  BY DEF StateOK
<1>2. DOMAIN r.store.versions \subseteq 1..(n + 1)
  BY <1>1 DEF HistoryOK
<1>3. DOMAIN l.store.versions \cup DOMAIN r.store.versions = 1..(n + 1)
  BY <1>2
<1>4. /\ m.store.current = r.store.current
      /\ m.store.branch = r.store.branch
      /\ m.store.versions = [v \in 1..(n + 1) |->
             IF v \in 1..n THEN l.store.versions[v] ELSE r.store.versions[v]]
      /\ m.store.branches = [b \in DOMAIN l.store.branches \cup DOMAIN r.store.branches |->
             IF b \in DOMAIN r.store.branches THEN r.store.branches[b]
             ELSE l.store.branches[b]]
      /\ m.branch = l.branch /\ m.version = r.version
  BY <1>3 DEF Merged, MergedStores
<1>5. StateShape(m)
  BY <1>1, <1>4 DEF Merged, MergedStores, StateShape, StoreShape, Answers
<1> HIDE DEF m
<1>6. HistoryOK(m.store, n + 1)
  <2>1. ASSUME NEW v \in DOMAIN m.store.versions
        PROVE  /\ VersionShape(m.store.versions[v])
               /\ m.store.versions[v].parent \in {0} \cup {u \in DOMAIN m.store.versions : u < v}
               /\ m.store.versions[v].snapshot.version \in 0..(n + 1)
    <3>1. CASE v \in 1..n
      BY <3>1, <1>1, <1>4 DEF HistoryOK
    <3>2. CASE v \notin 1..n
      BY <3>2, <1>1, <1>2, <1>4 DEF HistoryOK
    <3> QED BY <3>1, <3>2
  <2>2. /\ DOMAIN m.store.branches \subseteq BranchNames
        /\ \A b \in DOMAIN m.store.branches \ {Main} :
              m.store.branches[b] \in DOMAIN m.store.versions
    BY <1>1, <1>2, <1>4 DEF HistoryOK
  <2>3. m.store.current \in {0} \cup DOMAIN m.store.versions
    BY <1>1, <1>2, <1>4 DEF HistoryOK
  <2> QED BY <1>4, <2>1, <2>2, <2>3 DEF HistoryOK
<1>7. StateOK(m, n + 1)
  BY <1>1, <1>4, <1>5, <1>6 DEF StateOK
<1> QED BY <1>4, <1>7 DEF m

-----------------------------------------------------------------------------
\* A state before its first commit.
LEMMA NewStateOK ==
    ASSUME NEW query \in Queries
    PROVE  StateOK(NewState(query), 0) /\ DOMAIN NewState(query).store.versions = {}
<1>1. NewState(query).store = NewStore /\ NewStore.versions = <<>>
  BY DEF NewState, NewStore
<1>2. StateShape(NewState(query))
  BY DEF NewState, NewStore, StateShape, StoreShape, Answers, BranchNames
<1>3. HistoryOK(NewStore, 0)
  BY DEF NewStore, HistoryOK, BranchNames
<1> QED BY <1>1, <1>2, <1>3 DEF StateOK, NewState, NewStore

\* IInv holds in the initial states.
LEMMA InitIInv == Init => IInv
<1> SUFFICES ASSUME Init PROVE IInv
  OBVIOUS
<1>1. PICK query \in Queries : state = NewState(query) /\ source = NewState(query)
  BY DEF Init
<1>2. StateOK(NewState(query), 0) /\ DOMAIN NewState(query).store.versions = {}
  BY NewStateOK
<1>3. issued = 0 /\ left = 0 /\ running = TRUE /\ parallel = {} /\ reused = {}
  BY DEF Init
<1>4. StateIsCurrentVersion
  BY <1>1 DEF StateIsCurrentVersion, NewState, NewStore
<1> QED BY <1>1, <1>2, <1>3, <1>4 DEF IInv

\* A node's commit, of the state with more items or with its answer.
LEMMA NodeKeepsIInv ==
    ASSUME IInv, left = 0,
           NEW after, StateOK(after, issued), after.store = state.store,
           NodeCommitted(after)
    PROVE  /\ IInv'
           /\ \A v \in 1..issued : state'.store.versions[v] = state.store.versions[v]
<1>1. /\ StateOK(Committed(after, issued + 1), issued + 1)
      /\ LET c == Committed(after, issued + 1)
         IN /\ DOMAIN c.store.versions = DOMAIN after.store.versions \cup {issued + 1}
            /\ \A v \in DOMAIN after.store.versions :
                  c.store.versions[v] = after.store.versions[v]
            /\ c.store.current = issued + 1 /\ c.version = issued + 1
            /\ c.store.versions[issued + 1].snapshot.data = c.data
            /\ c.store.versions[issued + 1].snapshot.answer = c.answer
  <2>1. issued \in Nat /\ issued + 1 \in Nat /\ issued + 1 > issued
    BY DEF IInv
  <2> QED BY <2>1, CommitKeepsState
<1>2. /\ state' = Committed(after, issued + 1) /\ issued' = issued + 1
      /\ parallel' = {} /\ left' = 0 /\ source' = source
      /\ running' = running /\ reused' = reused
  BY DEF NodeCommitted
<1>3. DOMAIN state'.store.versions = 1..issued'
  <2>1. DOMAIN after.store.versions = 1..issued /\ issued \in Nat
    BY DEF IInv
  <2>2. DOMAIN state'.store.versions = (1..issued) \cup {issued + 1}
    BY <1>1, <1>2, <2>1
  <2>3. (1..issued) \cup {issued + 1} = 1..(issued + 1)
    BY <2>1
  <2> QED BY <1>2, <2>2, <2>3
<1>4. StateOK(source, issued + 1)
  BY LongerHistory DEF IInv
<1>5. StateIsCurrentVersion'
  BY <1>1, <1>2 DEF StateIsCurrentVersion, StateOK
<1>6. StateOK(state, issued)' /\ StateOK(source, issued)'
  BY <1>1, <1>2, <1>4
<1> QED BY <1>1, <1>2, <1>3, <1>5, <1>6 DEF IInv

\* A fork of the state, with its query or with another one.
LEMMA ForkKeepsIInv ==
    ASSUME IInv, left = 0,
           NEW base \in DOMAIN state.store.versions, NEW name \in BranchNames,
           NEW query \in Queries,
           \/ state' = Forked(state, base, name)
           \/ state' = [Forked(state, base, name) EXCEPT !.query = query],
           NewBranch(name),
           running' \in BOOLEAN, parallel' = {},
           issued' = issued, source' = source, left' = left
    PROVE  IInv' /\ state'.store.versions = state.store.versions
<1> DEFINE c == Forked(state, base, name)
<1>1. /\ StateOK(c, issued)
      /\ c.store.versions = state.store.versions
      /\ c.store.current = base /\ c.version = base
      /\ c.data = state.store.versions[base].snapshot.data
      /\ c.answer = state.store.versions[base].snapshot.answer
  BY ForkKeepsState DEF IInv
<1> HIDE DEF c
<1>2. /\ StateOK(state', issued)
      /\ state'.store = c.store /\ state'.version = c.version
      /\ state'.data = c.data /\ state'.answer = c.answer
  <2>1. CASE state' = c
    BY <2>1, <1>1
  <2>2. CASE state' = [c EXCEPT !.query = query]
    <3>1. /\ state'.store = c.store /\ state'.version = c.version
          /\ state'.data = c.data /\ state'.answer = c.answer
          /\ state'.branch = c.branch
          /\ StateShape(state')
      BY <2>2, <1>1 DEF StateOK, StateShape
    <3> QED BY <1>1, <3>1 DEF StateOK
  <2> QED BY <2>1, <2>2 DEF c
<1>3. StateIsCurrentVersion'
  BY <1>1, <1>2 DEF StateIsCurrentVersion, StateOK
<1>4. reused' \subseteq BranchNames
  BY DEF IInv, NewBranch
<1>5. StateOK(state, issued)' /\ StateOK(source, issued)'
  BY <1>2 DEF IInv
<1> QED BY <1>1, <1>2, <1>3, <1>4, <1>5 DEF IInv

\* The invariant is inductive; the version history, once written, stays.
LEMMA NextKeepsIInv ==
    ASSUME IInv, [Next]_vars
    PROVE  /\ IInv'
           /\ DOMAIN state.store.versions \subseteq DOMAIN state'.store.versions
           /\ \A v \in DOMAIN state.store.versions :
                 state'.store.versions[v] = state.store.versions[v]
<1>0. /\ issued \in Nat /\ left \in Nat
      /\ StateOK(state, issued) /\ StateOK(source, issued)
      /\ DOMAIN state.store.versions = 1..issued
  BY DEF IInv
<1>1. CASE RunNode
  <2>1. PICK x \in Items : NodeCommitted([state EXCEPT !.data = @ \cup {x}])
    BY <1>1 DEF RunNode
  <2> DEFINE after == [state EXCEPT !.data = @ \cup {x}]
  <2>2. /\ after.store = state.store /\ after.version = state.version
        /\ after.branch = state.branch /\ StateShape(after)
    BY <1>0 DEF StateOK, StateShape
  <2>3. StateOK(after, issued)
    BY <1>0, <2>2 DEF StateOK
  <2> HIDE DEF after
  <2>4. IInv' /\ \A v \in 1..issued : state'.store.versions[v] = state.store.versions[v]
    BY <1>1, <2>1, <2>2, <2>3, NodeKeepsIInv DEF RunNode, LoopGoesOn, after
  <2>5. issued' = issued + 1
    BY <2>1 DEF NodeCommitted
  <2> QED BY <1>0, <2>4, <2>5 DEF IInv
<1>2. CASE RunFinalize
  <2> DEFINE after == [state EXCEPT !.answer = state.query]
  <2>2. /\ after.store = state.store /\ after.version = state.version
        /\ after.branch = state.branch /\ StateShape(after)
    BY <1>0 DEF StateOK, StateShape, Answers
  <2>3. StateOK(after, issued)
    BY <1>0, <2>2 DEF StateOK
  <2> HIDE DEF after
  <2>4. IInv' /\ \A v \in 1..issued : state'.store.versions[v] = state.store.versions[v]
    BY <1>2, <2>2, <2>3, NodeKeepsIInv DEF RunFinalize, LoopGoesOn, after
  <2>5. issued' = issued + 1
    BY <1>2 DEF RunFinalize, NodeCommitted
  <2> QED BY <1>0, <2>4, <2>5 DEF IInv
<1>3. CASE StartFanOut
  <2>1. /\ source' = state /\ state' = state /\ issued' = issued
        /\ left' \in Nat /\ left' # 0 /\ parallel' = {}
        /\ running' = running /\ reused' = reused /\ running
    BY <1>3 DEF StartFanOut, LoopGoesOn
  <2> QED BY <1>0, <2>1 DEF IInv, StateIsCurrentVersion
<1>4. CASE RunBranch
  <2>1. PICK x \in Items :
           state' = Merged(state, Committed([source EXCEPT !.data = @ \cup {x}],
                                            issued + 1))
    BY <1>4 DEF RunBranch
  <2>2. /\ issued' = issued + 1 /\ left' = left - 1 /\ left > 1
        /\ parallel' = parallel \cup {issued + 1}
        /\ source' = source /\ running' = running /\ reused' = reused
    BY <1>4 DEF RunBranch
  <2> DEFINE after == [source EXCEPT !.data = @ \cup {x}]
             c == Committed(after, issued + 1)
  <2>3. /\ after.store = source.store /\ after.version = source.version
        /\ after.branch = source.branch /\ StateShape(after)
    BY <1>0 DEF StateOK, StateShape
  <2>4. StateOK(after, issued)
    BY <1>0, <2>3 DEF StateOK
  <2> HIDE DEF after
  <2>5. /\ StateOK(c, issued + 1) /\ issued + 1 \in DOMAIN c.store.versions
        /\ c.branch = after.branch
    <3>1. issued + 1 \in Nat /\ issued + 1 > issued
      BY <1>0
    <3> QED BY <1>0, <2>4, <3>1, CommitKeepsState
  <2>6. state' = Merged(state, c) /\ state.branch = c.branch
    BY <2>1, <2>2, <2>3, <2>5 DEF IInv, after
  <2> HIDE DEF c
  <2>7. /\ StateOK(state', issued + 1)
        /\ DOMAIN state'.store.versions = 1..(issued + 1)
        /\ \A v \in 1..issued : state'.store.versions[v] = state.store.versions[v]
        /\ state'.branch = state.branch
    BY <1>0, <2>5, <2>6, MergeKeepsState
  <2>8. StateOK(source, issued + 1)
    BY <1>0, LongerHistory
  <2>9. left' \in Nat /\ left' # 0 /\ parallel' \subseteq 1..(issued + 1)
    <3>1. left' \in Nat /\ left' # 0
      BY <1>0, <2>2
    <3>2. parallel \subseteq 1..issued /\ issued \in Nat
      BY DEF IInv
    <3>3. parallel' \subseteq 1..(issued + 1)
      BY <2>2, <3>2
    <3> QED BY <3>1, <3>3
  <2>10. IInv'
    BY <1>0, <2>2, <2>7, <2>8, <2>9 DEF IInv, StateIsCurrentVersion
  <2> QED BY <1>0, <2>7, <2>10
<1>5. CASE JoinFanOut
  <2>1. /\ state' = Committed(Committed(state, issued + 1), issued + 2)
        /\ source' = NewState(state.query)
        /\ issued' = issued + 2 /\ left' = 0
        /\ running' = running /\ reused' = reused /\ parallel' = parallel
    BY <1>5 DEF JoinFanOut
  <2> DEFINE c == Committed(state, issued + 1)
             d == Committed(c, issued + 2)
  <2>2. /\ StateOK(c, issued + 1)
        /\ DOMAIN c.store.versions = 1..issued \cup {issued + 1}
        /\ \A v \in 1..issued : c.store.versions[v] = state.store.versions[v]
    <3>1. issued + 1 \in Nat /\ issued + 1 > issued
      BY <1>0
    <3> QED BY <1>0, <3>1, CommitKeepsState
  <2> HIDE DEF c
  <2>3. /\ StateOK(d, issued + 2)
        /\ DOMAIN d.store.versions = DOMAIN c.store.versions \cup {issued + 2}
        /\ \A v \in DOMAIN c.store.versions : d.store.versions[v] = c.store.versions[v]
        /\ d.store.current = issued + 2 /\ d.version = issued + 2
        /\ d.store.versions[issued + 2].snapshot.data = d.data
        /\ d.store.versions[issued + 2].snapshot.answer = d.answer
    <3>1. issued + 1 \in Nat /\ issued + 2 \in Nat /\ issued + 2 > issued + 1
      BY <1>0
    <3> QED BY <2>2, <3>1, CommitKeepsState
  <2>4. state' = d
    BY <2>1 DEF c
  <2> HIDE DEF d
  <2>5. DOMAIN state'.store.versions = 1..issued'
    <3>1. 1..issued \cup {issued + 1} \cup {issued + 2} = 1..(issued + 2)
      BY <1>0
    <3> QED BY <2>1, <2>2, <2>3, <2>4, <3>1
  <2>6. StateOK(source', issued')
    <3>1. state.query \in Queries
      BY <1>0 DEF StateOK, StateShape
    <3>2. StateOK(NewState(state.query), 0)
      BY <3>1, NewStateOK
    <3> QED BY <1>0, <2>1, <3>2, LongerHistory
  <2>7. StateIsCurrentVersion'
    BY <2>3, <2>4 DEF StateIsCurrentVersion, StateOK
  <2>8. parallel' \subseteq 1..issued' /\ issued' \in Nat
    BY <1>0, <2>1 DEF IInv
  <2>9. IInv'
    BY <2>1, <2>3, <2>4, <2>5, <2>6, <2>7, <2>8 DEF IInv
  <2> QED BY <1>0, <2>2, <2>3, <2>4, <2>9
<1>6. CASE RunEnds
  BY <1>0, <1>6 DEF RunEnds, IInv, StateIsCurrentVersion
<1>7. CASE Rollback
  <2>1. PICK v \in DOMAIN state.store.versions : state' = RolledBack(state, v)
    BY <1>7 DEF Rollback
  <2>2. /\ StateOK(state', issued)
        /\ state'.store.versions = state.store.versions
        /\ state'.store.current = v /\ state'.version = v
        /\ state'.data = state.store.versions[v].snapshot.data
        /\ state'.answer = state.store.versions[v].snapshot.answer
    BY <1>0, <2>1, RollbackKeepsState
  <2>3. /\ parallel' = {} /\ issued' = issued /\ running' = running
        /\ source' = source /\ left' = left /\ reused' = reused
    BY <1>7 DEF Rollback
  <2>4. left = 0
    BY <1>7 DEF Rollback, IInv
  <2>5. StateIsCurrentVersion'
    BY <2>2 DEF StateIsCurrentVersion, StateOK
  <2> QED BY <1>0, <2>2, <2>3, <2>4, <2>5 DEF IInv
<1>8. CASE Fork
  <2>1. PICK base \in DOMAIN state.store.versions, name \in BranchNames :
           NewBranch(name) /\ state' = Forked(state, base, name)
    BY <1>8 DEF Fork
  <2>2. /\ parallel' = {} /\ issued' = issued /\ running' = running
        /\ source' = source /\ left' = left
    BY <1>8 DEF Fork
  <2>3. left = 0 /\ running' \in BOOLEAN
    BY <1>8, <2>2 DEF Fork, IInv
  <2>4. state.query \in Queries
    BY <1>0 DEF StateOK, StateShape
  <2>5. IInv' /\ state'.store.versions = state.store.versions
    BY <2>1, <2>2, <2>3, <2>4, ForkKeepsIInv
  <2> QED BY <2>5
<1>9. CASE ReplayBranch
  <2>1. PICK base \in DOMAIN state.store.versions, name \in BranchNames, query \in Queries :
           NewBranch(name) /\ state' = [Forked(state, base, name) EXCEPT !.query = query]
    BY <1>9 DEF ReplayBranch
  <2>2. /\ parallel' = {} /\ issued' = issued /\ running' \in BOOLEAN
        /\ source' = source /\ left' = left
    BY <1>9 DEF ReplayBranch
  <2>3. left = 0
    BY <1>9 DEF ReplayBranch, IInv
  <2>4. IInv' /\ state'.store.versions = state.store.versions
    BY <2>1, <2>2, <2>3, ForkKeepsIInv
  <2> QED BY <2>4
<1>10. CASE UNCHANGED vars
  BY <1>0, <1>10 DEF vars, IInv, StateIsCurrentVersion
<1> QED
  BY <1>1, <1>2, <1>3, <1>4, <1>5, <1>6, <1>7, <1>8, <1>9, <1>10 DEF Next

-----------------------------------------------------------------------------
THEOREM IInvHolds == Spec => []IInv
<1>1. Init => IInv
  BY InitIInv
<1>2. IInv /\ [Next]_vars => IInv'
  BY NextKeepsIInv
<1> QED BY <1>1, <1>2, PTL DEF Spec

(***************************************************************************)
(* Every version has its whole lineage in the store: no commit, merge,     *)
(* rollback or fork leaves a parent that is unknown or not older.          *)
(***************************************************************************)
THEOREM LineagesAreComplete == Spec => []LineageComplete
<1>1. IInv => LineageComplete
  BY DEF IInv, StateOK, HistoryOK, LineageComplete
<1> QED BY <1>1, IInvHolds, PTL

(***************************************************************************)
(* Outside a fan-out the state is what its current version says: commit,   *)
(* join, rollback and fork leave state and store in agreement.             *)
(***************************************************************************)
THEOREM StateIsItsVersion == Spec => []StateIsCurrentVersion
<1>1. IInv => StateIsCurrentVersion
  BY DEF IInv
<1> QED BY <1>1, IInvHolds, PTL

(***************************************************************************)
(* The history only grows: no step changes or drops a version, the merges  *)
(* of parallel branches included.                                          *)
(***************************************************************************)
THEOREM HistoryOnlyGrows == Spec => VersionsKept
<1>1. IInv /\ [Next]_vars =>
         [\A v \in DOMAIN state.store.versions :
             /\ v \in DOMAIN state'.store.versions
             /\ state'.store.versions[v] = state.store.versions[v]]_vars
  BY NextKeepsIInv
<1> QED BY <1>1, IInvHolds, PTL DEF Spec, VersionsKept

(***************************************************************************)
(* The version history is well formed: the versions are those created,     *)
(* branches and the current version point to some of them.                 *)
(***************************************************************************)
THEOREM VersionsTypeOK == Spec => []TypeOK
<1>1. ASSUME NEW s, NEW n \in Nat, StateOK(s, n), n = issued
      PROVE  SnapshotOK(s) /\ StoreOK(s.store)
  <2>1. StateShape(s) /\ HistoryOK(s.store, n) /\ s.version \in 0..n
    BY <1>1 DEF StateOK
  <2>2. SnapshotOK(s)
    BY <1>1, <2>1 DEF StateShape, SnapshotOK, Versions, Answers
  <2>3. ASSUME NEW v \in DOMAIN s.store.versions
        PROVE  /\ s.store.versions[v].branch \in BranchNames
               /\ SnapshotOK(s.store.versions[v].snapshot)
    <3>1. VersionShape(s.store.versions[v]) /\ s.store.versions[v].snapshot.version \in 0..n
      BY <2>1 DEF HistoryOK
    <3> QED BY <1>1, <3>1 DEF VersionShape, SnapshotOK, Versions, Answers
  <2>4. s.store.branch \in BranchNames
    BY <2>1 DEF StateShape, StoreShape
  <2> QED BY <1>1, <2>1, <2>2, <2>3, <2>4 DEF HistoryOK, StoreOK, Versions
<1>2. IInv => TypeOK
  BY <1>1 DEF IInv, TypeOK, Versions
<1> QED BY <1>2, IInvHolds, PTL

-----------------------------------------------------------------------------
(***************************************************************************)
(* What the merged branches committed is in the state from their merge on, *)
(* also while others are still to be merged.                               *)
(***************************************************************************)
WorkMerged ==
    \A v \in parallel : state.store.versions[v].snapshot.data \subseteq state.data

\* A merge brings in the branch's work and keeps that of the branches before.
LEMMA BranchKeepsWork ==
    ASSUME IInv, WorkMerged, RunBranch
    PROVE  WorkMerged'
<1>0. /\ issued \in Nat /\ StateOK(source, issued) /\ StateOK(state, issued)
      /\ DOMAIN state.store.versions = 1..issued /\ parallel \subseteq 1..issued
  BY DEF IInv
<1>1. PICK x \in Items :
         state' = Merged(state, Committed([source EXCEPT !.data = @ \cup {x}], issued + 1))
  BY DEF RunBranch
<1> DEFINE after == [source EXCEPT !.data = @ \cup {x}]
           c == Committed(after, issued + 1)
<1>2. StateOK(after, issued)
  <2>1. /\ after.store = source.store /\ after.version = source.version
        /\ after.branch = source.branch /\ StateShape(after)
    BY <1>0 DEF StateOK, StateShape
  <2> QED BY <1>0, <2>1 DEF StateOK
<1> HIDE DEF after
<1>3. /\ issued + 1 \in DOMAIN c.store.versions
      /\ c.store.versions[issued + 1].snapshot.data = c.data
  <2>1. issued + 1 \in Nat /\ issued + 1 > issued
    BY <1>0
  <2> QED BY <1>0, <1>2, <2>1, CommitKeepsState
<1>4. state' = Merged(state, c)
  BY <1>1 DEF after
<1> HIDE DEF c
<1>5. /\ state'.data = state.data \cup c.data
      /\ state'.store.versions =
            [v \in DOMAIN state.store.versions \cup DOMAIN c.store.versions |->
               IF v \in DOMAIN state.store.versions THEN state.store.versions[v]
               ELSE c.store.versions[v]]
  BY <1>4 DEF Merged, MergedStores
<1>6. state'.store.versions[issued + 1].snapshot.data = c.data
  BY <1>0, <1>3, <1>5
<1>7. \A v \in parallel : state'.store.versions[v] = state.store.versions[v]
  BY <1>0, <1>5
<1>8. parallel' = parallel \cup {issued + 1}
  BY DEF RunBranch
<1> QED BY <1>5, <1>6, <1>7, <1>8 DEF WorkMerged

LEMMA NextKeepsWork ==
    ASSUME IInv, WorkMerged, [Next]_vars
    PROVE  WorkMerged'
<1>1. \A v \in parallel : state'.store.versions[v] = state.store.versions[v]
  BY NextKeepsIInv DEF IInv
<1>2. CASE RunBranch
  BY <1>2, BranchKeepsWork
<1>3. CASE JoinFanOut
  <2>1. state' = Committed(Committed(state, issued + 1), issued + 2) /\ parallel' = parallel
    BY <1>3 DEF JoinFanOut
  <2>2. state'.data = state.data
    BY <2>1 DEF Committed
  <2> QED BY <1>1, <2>1, <2>2 DEF WorkMerged
<1>4. CASE RunEnds \/ UNCHANGED vars
  BY <1>4 DEF RunEnds, vars, WorkMerged
<1>5. CASE RunNode \/ RunFinalize \/ StartFanOut \/ Rollback \/ Fork \/ ReplayBranch
  <2>1. parallel' = {}
    BY <1>5 DEF RunNode, RunFinalize, NodeCommitted, StartFanOut, Rollback, Fork, ReplayBranch
  <2> QED BY <2>1 DEF WorkMerged
<1> QED BY <1>2, <1>3, <1>4, <1>5 DEF Next

(***************************************************************************)
(* A merge has the work of every branch: the fold of merge_states loses    *)
(* none of what the branches of a fan-out committed.                       *)
(***************************************************************************)
THEOREM BranchWorkIsMerged == Spec => []ParallelWorkMerged
<1>1. Init => WorkMerged
  BY DEF Init, WorkMerged
<1>2. IInv /\ WorkMerged /\ [Next]_vars => WorkMerged'
  BY NextKeepsWork
<1>3. WorkMerged => ParallelWorkMerged
  BY DEF WorkMerged, ParallelWorkMerged
<1> QED BY <1>1, <1>2, <1>3, IInvHolds, PTL DEF Spec
=============================================================================
