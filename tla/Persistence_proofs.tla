------------------------- MODULE Persistence_proofs -------------------------
(***************************************************************************)
(* What drain() and stop() promise, for any number of executions and       *)
(* sessions, any queue size and any number of restarts.                    *)
(*                                                                         *)
(* The job that the worker writes is still outstanding: the invariant is   *)
(* about the jobs outstanding, in their order, and TakeJob leaves them     *)
(* alone.  Every clause is a predicate of the jobs q, the executions r and *)
(* the tables d, so that a lemma can speak of the old and the new ones.    *)
(***************************************************************************)
EXTENDS Persistence, FiniteSetTheorems, SequenceTheorems, TLAPS

Outstanding(w, j, q) == IF w = "writing" THEN <<j>> \o q ELSE q

Begun == {"running", "abandoned"} \cup Statuses

IsState(x) == /\ x.versions \in Seq(VersionIds)
              /\ x.stop \in BOOLEAN

IsJob(j) ==
    /\ j[1] \in {"insert", "node", "version", "complete", "session"}
    /\ j[2] \in Executions
    /\ j[1] = "version" => j[3] \in VersionIds
    /\ j[1] = "complete" => j[3] \in Statuses
    /\ j[1] = "session" => j[3] \in Sessions /\ IsState(j[4])

Is(j, kind, e) == j[1] = kind /\ j[2] = e

VersionsOf(r, e) == r[e].state.versions

RunsTyped(r) ==
    \A e \in Executions :
        /\ r[e].phase \in {"none", "restoring"} \cup Begun
        /\ r[e].session \in Sessions
        /\ r[e].nodes \in Nat
        /\ IsState(r[e].state)

TablesTyped(d) ==
    \A e \in Executions :
        /\ d.status[e] \in {"absent", "running"} \cup Statuses
        /\ d.nodes[e] \in Nat

SessionsTyped(d) ==
    \A s \in Sessions : /\ d.session[s].history \in Seq(Executions)
                        /\ IsState(d.session[s].state)

\* An execution that has not begun has left nothing.
NotBegun(q, r, d) ==
    \A e \in Executions : r[e].phase \notin Begun =>
        /\ r[e].nodes = 0
        /\ d.status[e] = "absent"
        /\ \A k \in DOMAIN q : q[k][2] # e

\* The row of an execution is inserted before anything refers to it.
InsertedFirst(q, r, d) ==
    /\ \A e \in Executions : r[e].phase = "running" =>
          d.status[e] # "absent" \/ \E k \in DOMAIN q : Is(q[k], "insert", e)
    /\ \A k \in DOMAIN q :
          /\ q[k][1] \in {"node", "version", "complete"} =>
                \/ d.status[q[k][2]] # "absent"
                \/ \E m \in 1..(k - 1) : Is(q[m], "insert", q[k][2])
          /\ q[k][1] = "insert" =>
                /\ d.status[q[k][2]] = "absent"
                /\ \A m \in DOMAIN q : q[m][2] = q[k][2] => k <= m

\* The outcome of an execution: what its row says or will say.
OutcomeKept(q, r, d) ==
    \A e \in Executions :
        /\ r[e].phase \notin Statuses =>
              /\ d.status[e] \notin Statuses
              /\ \A k \in DOMAIN q : ~Is(q[k], "complete", e) /\ ~Is(q[k], "session", e)
        /\ r[e].phase \in Statuses =>
              /\ d.status[e] \in Statuses => d.status[e] = r[e].phase
              /\ \A k \in DOMAIN q : Is(q[k], "complete", e) => q[k][3] = r[e].phase
              /\ d.status[e] = r[e].phase \/ \E k \in DOMAIN q : Is(q[k], "complete", e)

Listed(d, e) ==
    \E s \in Sessions : \E i \in DOMAIN d.session[s].history :
        d.session[s].history[i] = e

\* The session is told of an execution after its row.
SessionLast(q, r, d) ==
    /\ \A e \in Executions :
          /\ Listed(d, e) => d.status[e] \in Statuses
          /\ r[e].phase \in Statuses =>
                Listed(d, e) \/ \E k \in DOMAIN q : Is(q[k], "session", e)
    /\ \A k \in DOMAIN q : q[k][1] = "session" =>
          \/ d.status[q[k][2]] \in Statuses
          \/ \E m \in 1..(k - 1) : Is(q[m], "complete", q[k][2])

\* Every node of an execution is written or outstanding.
NodeJobs(q, e) == {k \in DOMAIN q : Is(q[k], "node", e)}

NodesCounted(q, r, d) ==
    \A e \in Executions : r[e].phase # "abandoned" =>
        d.nodes[e] + Cardinality(NodeJobs(q, e)) = r[e].nodes

\* Stored, or written by one of the first n jobs.
Covered(q, n, d, v) ==
    \/ v \in DOMAIN d.versions
    \/ \E m \in 1..n : q[m][1] = "version" /\ q[m][3] = v

AllCovered(q, d, vs) == \A i \in DOMAIN vs : Covered(q, Len(q), d, vs[i])

AllStored(d, vs) == \A i \in DOMAIN vs : vs[i] \in DOMAIN d.versions

\* No version of vs is stored before those it was made from.
Ordered(q, d, vs) ==
    \A i \in DOMAIN vs :
        /\ vs[i] \in DOMAIN d.versions => \A j \in 1..(i - 1) : vs[j] \in DOMAIN d.versions
        /\ \A k \in DOMAIN q : q[k][1] = "version" /\ q[k][3] = vs[i] =>
              \A j \in 1..(i - 1) : Covered(q, k - 1, d, vs[j])

Lineage(q, r, d) ==
    \A e \in Executions :
        /\ AllCovered(q, d, VersionsOf(r, e))
        /\ Ordered(q, d, VersionsOf(r, e))
        /\ r[e].phase = "restoring" => AllStored(d, VersionsOf(r, e))

\* A state that a session has, or will have, is one whose versions are stored.
SessionStates(q, d) ==
    /\ \A s \in Sessions : AllStored(d, d.session[s].state.versions)
    /\ \A k \in DOMAIN q : q[k][1] = "session" =>
          \A i \in DOMAIN q[k][4].versions : Covered(q, k - 1, d, q[k][4].versions[i])

\* Nobody knows a version that its execution has not committed yet.
Committed(q, r, d) ==
    \A e \in Executions : r[e].phase # "abandoned" =>
        \A n \in Nat : Covered(q, Len(q), d, <<e, n>>) => n <= r[e].nodes

Recorded(q, r, d) ==
    /\ NotBegun(q, r, d)
    /\ InsertedFirst(q, r, d)
    /\ OutcomeKept(q, r, d)
    /\ SessionLast(q, r, d)
    /\ NodesCounted(q, r, d)
    /\ Lineage(q, r, d)
    /\ SessionStates(q, d)
    /\ Committed(q, r, d)

-----------------------------------------------------------------------------
\* p is q with jobs submitted, all of them.
Push(q, jobs, p) ==
    /\ Len(q) \in Nat /\ DOMAIN q = 1..Len(q)
    /\ Len(jobs) \in Nat /\ DOMAIN jobs = 1..Len(jobs)
    /\ Len(p) = Len(q) + Len(jobs) /\ DOMAIN p = 1..Len(p)
    /\ \A k \in 1..Len(q) : p[k] = q[k]
    /\ \A i \in 1..Len(jobs) : p[Len(q) + i] = jobs[i]

\* p is q without its first job.
Pop(q, p) ==
    /\ Len(q) \in Nat /\ DOMAIN q = 1..Len(q) /\ Len(q) > 0
    /\ Len(p) = Len(q) - 1 /\ DOMAIN p = 1..Len(p)
    /\ \A k \in 1..Len(p) : p[k] = q[k + 1]

\* The tables b are the tables d with the job j written.
Writes(d, b, j) ==
    /\ \A e \in Executions :
          /\ b.status[e] = IF Is(j, "insert", e) THEN "running"
                           ELSE IF Is(j, "complete", e) THEN j[3] ELSE d.status[e]
          /\ b.nodes[e] = IF Is(j, "node", e) THEN d.nodes[e] + 1 ELSE d.nodes[e]
    /\ DOMAIN b.versions = IF j[1] = "version" THEN DOMAIN d.versions \cup {j[3]}
                           ELSE DOMAIN d.versions
    /\ \A s \in Sessions :
          IF j[1] = "session" /\ j[3] = s
          THEN /\ b.session[s].history = Append(d.session[s].history, j[2])
               /\ b.session[s].state = j[4]
          ELSE b.session[s] = d.session[s]

\* The jobs of one execution e; only Begin submits an insert.
JobsOf(jobs, e) == \A i \in 1..Len(jobs) : jobs[i][2] = e

\* The executions g are the executions r, but for e.
OthersKept(r, g, e) == \A f \in Executions \ {e} : g[f] = r[f]

\* A position of p is one of q, or that of a submitted job.
LEMMA PushIndex ==
    ASSUME NEW q, NEW jobs, NEW p, Push(q, jobs, p), NEW k \in DOMAIN p
    PROVE  \/ k \in DOMAIN q /\ p[k] = q[k]
           \/ /\ k > Len(q) /\ k - Len(q) \in 1..Len(jobs)
              /\ p[k] = jobs[k - Len(q)]
  <1>1. CASE k <= Len(q)
    BY <1>1 DEF Push
  <1>2. CASE k > Len(q)
    <2>1. k - Len(q) \in 1..Len(jobs) /\ Len(q) + (k - Len(q)) = k
      BY <1>2 DEF Push
    <2>2. p[Len(q) + (k - Len(q))] = jobs[k - Len(q)]
      BY <2>1 DEF Push
    <2> QED
      BY <1>2, <2>1, <2>2
  <1> QED
    BY <1>1, <1>2 DEF Push

LEMMA PushOld ==
    ASSUME NEW q, NEW jobs, NEW p, Push(q, jobs, p), NEW k \in DOMAIN q
    PROVE  /\ k \in DOMAIN p /\ p[k] = q[k] /\ k \in Nat /\ k <= Len(q) /\ k >= 1
           /\ \A m \in 1..(k - 1) : m \in DOMAIN q /\ p[m] = q[m]
  BY DEF Push

LEMMA PushNew ==
    ASSUME NEW q, NEW jobs, NEW p, Push(q, jobs, p), NEW i \in 1..Len(jobs)
    PROVE  /\ Len(q) + i \in DOMAIN p /\ p[Len(q) + i] = jobs[i]
  BY DEF Push

LEMMA PopIndex ==
    ASSUME NEW q, NEW p, Pop(q, p), NEW k \in DOMAIN p
    PROVE  k + 1 \in DOMAIN q /\ p[k] = q[k + 1] /\ k \in Nat /\ k >= 1
  BY DEF Pop

LEMMA PopOld ==
    ASSUME NEW q, NEW p, Pop(q, p), NEW k \in DOMAIN q, k # 1
    PROVE  k - 1 \in DOMAIN p /\ p[k - 1] = q[k] /\ k \in Nat /\ k > 1
  BY DEF Pop

LEMMA PopHead ==
    ASSUME NEW q, NEW p, Pop(q, p)
    PROVE  1 \in DOMAIN q /\ \A k \in DOMAIN q : k \in Nat /\ k >= 1
  BY DEF Pop

-----------------------------------------------------------------------------
LEMMA NotBegunPush ==
    ASSUME NEW q, NEW jobs, NEW p, Push(q, jobs, p),
           NEW r, NEW g, NEW d, NEW e \in Executions,
           JobsOf(jobs, e), OthersKept(r, g, e), g[e].phase \in Begun,
           NotBegun(q, r, d)
    PROVE  NotBegun(p, g, d)
  <1> SUFFICES ASSUME NEW f \in Executions, g[f].phase \notin Begun
               PROVE  /\ g[f].nodes = 0
                      /\ d.status[f] = "absent"
                      /\ \A k \in DOMAIN p : p[k][2] # f
    BY DEF NotBegun
  <1>1. f # e /\ g[f] = r[f]
    BY DEF OthersKept
  <1>2. ASSUME NEW k \in DOMAIN p
        PROVE  p[k][2] # f
    BY <1>1, PushIndex DEF NotBegun, JobsOf
  <1> QED
    BY <1>1, <1>2 DEF NotBegun

LEMMA NotBegunPop ==
    ASSUME NEW q, NEW p, Pop(q, p), NEW r, NEW d, NEW b, Writes(d, b, q[1]),
           NotBegun(q, r, d)
    PROVE  NotBegun(p, r, b)
  <1> SUFFICES ASSUME NEW f \in Executions, r[f].phase \notin Begun
               PROVE  /\ r[f].nodes = 0
                      /\ b.status[f] = "absent"
                      /\ \A k \in DOMAIN p : p[k][2] # f
    BY DEF NotBegun
  <1>1. q[1][2] # f
    BY PopHead DEF NotBegun
  <1>2. b.status[f] = d.status[f]
    BY <1>1 DEF Writes, Is
  <1> QED
    BY <1>2, PopIndex DEF NotBegun

\* The row is inserted by the first job of an execution.
LEMMA InsertedPushBegin ==
    ASSUME NEW q, NEW jobs, NEW p, Push(q, jobs, p),
           NEW r, NEW g, NEW d, NEW e \in Executions, OthersKept(r, g, e),
           Len(jobs) = 1, Is(jobs[1], "insert", e), r[e].phase \notin Begun,
           NotBegun(q, r, d), InsertedFirst(q, r, d)
    PROVE  InsertedFirst(p, g, d)
  <1>1. Len(q) + 1 \in DOMAIN p /\ Is(p[Len(q) + 1], "insert", e)
    BY PushNew
  <1>2. ASSUME NEW f \in Executions, g[f].phase = "running"
        PROVE  d.status[f] # "absent" \/ \E k \in DOMAIN p : Is(p[k], "insert", f)
    BY <1>1, <1>2, PushOld DEF OthersKept, InsertedFirst
  <1>3. d.status[e] = "absent" /\ \A k \in DOMAIN q : q[k][2] # e
    BY DEF NotBegun
  <1>4. ASSUME NEW k \in DOMAIN q
        PROVE  /\ p[k][1] \in {"node", "version", "complete"} =>
                    \/ d.status[p[k][2]] # "absent"
                    \/ \E m \in 1..(k - 1) : Is(p[m], "insert", p[k][2])
               /\ p[k][1] = "insert" =>
                    /\ d.status[p[k][2]] = "absent"
                    /\ \A m \in DOMAIN p : p[m][2] = p[k][2] => k <= m
    <2>1. p[k] = q[k] /\ k \in Nat /\ k <= Len(q) /\ Len(q) \in Nat
      BY PushOld DEF Push
    <2>2. ASSUME q[k][1] = "insert", NEW m \in DOMAIN p, p[m][2] = q[k][2]
          PROVE  k <= m
      <3>1. CASE m \in DOMAIN q /\ p[m] = q[m]
        BY <2>2, <3>1 DEF InsertedFirst
      <3>2. CASE m > Len(q)
        BY <2>1, <3>2 DEF Push
      <3> QED
        BY <3>1, <3>2, PushIndex
    <2> QED
      BY <2>1, <2>2, PushOld DEF InsertedFirst
  <1>5. ASSUME NEW k \in DOMAIN p, k \notin DOMAIN q
        PROVE  /\ p[k][1] = "insert" /\ p[k][2] = e
               /\ \A m \in DOMAIN p : p[m][2] = e => k <= m
    <2>1. k = Len(q) + 1
      BY <1>5 DEF Push
    <2> QED
      BY <1>1, <1>3, <2>1, PushIndex DEF Is, Push
  <1> QED
    BY <1>2, <1>3, <1>4, <1>5 DEF InsertedFirst

LEMMA InsertedPush ==
    ASSUME NEW q, NEW jobs, NEW p, Push(q, jobs, p),
           NEW r, NEW g, NEW d, NEW e \in Executions, OthersKept(r, g, e),
           JobsOf(jobs, e), r[e].phase = "running",
           \A i \in 1..Len(jobs) : jobs[i][1] # "insert",
           InsertedFirst(q, r, d)
    PROVE  InsertedFirst(p, g, d)
  <1>1. d.status[e] # "absent" \/ \E k \in DOMAIN q : Is(q[k], "insert", e)
    BY DEF InsertedFirst
  <1>2. ASSUME NEW f \in Executions, g[f].phase = "running"
        PROVE  d.status[f] # "absent" \/ \E k \in DOMAIN p : Is(p[k], "insert", f)
    BY <1>1, <1>2, PushOld DEF OthersKept, InsertedFirst
  <1>4. ASSUME NEW k \in DOMAIN q
        PROVE  /\ p[k][1] \in {"node", "version", "complete"} =>
                    \/ d.status[p[k][2]] # "absent"
                    \/ \E m \in 1..(k - 1) : Is(p[m], "insert", p[k][2])
               /\ p[k][1] = "insert" =>
                    /\ d.status[p[k][2]] = "absent"
                    /\ \A m \in DOMAIN p : p[m][2] = p[k][2] => k <= m
    <2>1. p[k] = q[k] /\ k \in Nat /\ k <= Len(q) /\ Len(q) \in Nat
      BY PushOld DEF Push
    <2>2. ASSUME q[k][1] = "insert", NEW m \in DOMAIN p, p[m][2] = q[k][2]
          PROVE  k <= m
      <3>1. CASE m \in DOMAIN q /\ p[m] = q[m]
        BY <2>2, <3>1 DEF InsertedFirst
      <3>2. CASE m > Len(q)
        BY <2>1, <3>2 DEF Push
      <3> QED
        BY <3>1, <3>2, PushIndex
    <2> QED
      BY <2>1, <2>2, PushOld DEF InsertedFirst
  <1>5. ASSUME NEW k \in DOMAIN p, k \notin DOMAIN q
        PROVE  /\ p[k][1] # "insert" /\ p[k][2] = e
               /\ \/ d.status[e] # "absent"
                  \/ \E m \in 1..(k - 1) : Is(p[m], "insert", e)
    <2>1. /\ k > Len(q) /\ k - Len(q) \in 1..Len(jobs)
          /\ p[k] = jobs[k - Len(q)]
      BY <1>5, PushIndex
    <2>2. ASSUME NEW m \in DOMAIN q, Is(q[m], "insert", e)
          PROVE  \E n \in 1..(k - 1) : Is(p[n], "insert", e)
      <3>1. m \in 1..(k - 1) /\ p[m] = q[m]
        BY <2>1 DEF Push
      <3> QED
        BY <2>2, <3>1
    <2> QED
      BY <1>1, <2>1, <2>2 DEF JobsOf
  <1> QED
    BY <1>2, <1>4, <1>5 DEF InsertedFirst

LEMMA InsertedPop ==
    ASSUME NEW q, NEW p, Pop(q, p), NEW r, NEW d, NEW b, Writes(d, b, q[1]),
           \A k \in DOMAIN q : IsJob(q[k]),
           InsertedFirst(q, r, d)
    PROVE  InsertedFirst(p, r, b)
  <1>1. \A e \in Executions :
            \/ Is(q[1], "insert", e) /\ b.status[e] = "running"
            \/ Is(q[1], "complete", e) /\ b.status[e] \in Statuses
            \/ b.status[e] = d.status[e] /\ ~Is(q[1], "insert", e)
                 /\ ~Is(q[1], "complete", e)
    BY PopHead DEF Writes, Is, IsJob
  <1>2. \A e \in Executions : d.status[e] # "absent" => b.status[e] # "absent"
    BY <1>1 DEF Statuses
  <1>3. ASSUME NEW e \in Executions, NEW k \in DOMAIN q, Is(q[k], "insert", e)
        PROVE  b.status[e] # "absent" \/ (k # 1 /\ k - 1 \in DOMAIN p /\ p[k - 1] = q[k])
    <2>1. CASE k = 1
      <3>1. b.status[e] # "absent"
        BY <1>1, <1>3, <2>1 DEF Is, Statuses
      <3> QED
        BY <3>1
    <2>2. CASE k # 1
      BY <2>2, PopOld
    <2> QED
      BY <2>1, <2>2
  <1>4. ASSUME NEW e \in Executions, r[e].phase = "running"
        PROVE  b.status[e] # "absent" \/ \E k \in DOMAIN p : Is(p[k], "insert", e)
    BY <1>2, <1>3, <1>4 DEF InsertedFirst
  <1>5. ASSUME NEW k \in DOMAIN p, p[k][1] \in {"node", "version", "complete"},
               b.status[p[k][2]] = "absent"
        PROVE  \E m \in 1..(k - 1) : Is(p[m], "insert", p[k][2])
    <2>1. k + 1 \in DOMAIN q /\ p[k] = q[k + 1] /\ k \in Nat /\ k >= 1
      BY PopIndex
    <2>2. p[k][2] \in Executions
      BY <2>1 DEF IsJob
    <2>3. PICK m \in 1..((k + 1) - 1) : Is(q[m], "insert", p[k][2])
      BY <1>2, <1>5, <2>1, <2>2 DEF InsertedFirst
    <2>4. m \in DOMAIN q /\ m # 1
      BY <1>1, <1>5, <2>1, <2>2, <2>3 DEF Pop, Statuses
    <2>5. m - 1 \in 1..(k - 1) /\ p[m - 1] = q[m]
      BY <2>1, <2>3, <2>4, PopOld
    <2> QED
      BY <2>3, <2>5
  <1>6. ASSUME NEW k \in DOMAIN p, p[k][1] = "insert"
        PROVE  /\ b.status[p[k][2]] = "absent"
               /\ \A m \in DOMAIN p : p[m][2] = p[k][2] => k <= m
    <2>1. k + 1 \in DOMAIN q /\ p[k] = q[k + 1] /\ k \in Nat /\ k >= 1
      BY PopIndex
    <2>2. p[k][2] \in Executions
      BY <2>1 DEF IsJob
    <2>3. /\ d.status[p[k][2]] = "absent"
          /\ \A m \in DOMAIN q : q[m][2] = p[k][2] => k + 1 <= m
      BY <1>6, <2>1 DEF InsertedFirst
    <2>4. q[1][2] # p[k][2]
      BY <2>1, <2>3, PopHead
    <2>5. ASSUME NEW m \in DOMAIN p, p[m][2] = p[k][2]
          PROVE  k <= m
      <3>1. m + 1 \in DOMAIN q /\ p[m] = q[m + 1] /\ m \in Nat
        BY PopIndex
      <3>2. k + 1 <= m + 1
        BY <2>3, <2>5, <3>1
      <3> QED
        BY <2>1, <3>1, <3>2
    <2> QED
      BY <1>1, <2>2, <2>3, <2>4, <2>5 DEF Is
  <1> QED
    BY <1>4, <1>5, <1>6 DEF InsertedFirst

-----------------------------------------------------------------------------
LEMMA OutcomePush ==
    ASSUME NEW q, NEW jobs, NEW p, Push(q, jobs, p),
           NEW r, NEW g, NEW d, NEW e \in Executions,
           JobsOf(jobs, e), OthersKept(r, g, e),
           r[e].phase \notin Statuses, g[e].phase \notin Statuses,
           \A i \in 1..Len(jobs) : jobs[i][1] \notin {"complete", "session"},
           OutcomeKept(q, r, d)
    PROVE  OutcomeKept(p, g, d)
  <1>1. ASSUME NEW f \in Executions, NEW k \in DOMAIN p,
               Is(p[k], "complete", f) \/ Is(p[k], "session", f)
        PROVE  k \in DOMAIN q /\ p[k] = q[k]
    BY <1>1, PushIndex DEF Is
  <1>2. /\ d.status[e] \notin Statuses
        /\ \A k \in DOMAIN q : ~Is(q[k], "complete", e) /\ ~Is(q[k], "session", e)
    BY DEF OutcomeKept
  <1>3. ASSUME NEW f \in Executions, g[f].phase \notin Statuses
        PROVE  /\ d.status[f] \notin Statuses
               /\ \A k \in DOMAIN p : ~Is(p[k], "complete", f) /\ ~Is(p[k], "session", f)
    <2>1. /\ d.status[f] \notin Statuses
          /\ \A k \in DOMAIN q : ~Is(q[k], "complete", f) /\ ~Is(q[k], "session", f)
      BY <1>2, <1>3 DEF OutcomeKept, OthersKept
    <2> QED
      BY <1>1, <2>1
  <1>4. ASSUME NEW f \in Executions, g[f].phase \in Statuses
        PROVE  /\ d.status[f] \in Statuses => d.status[f] = g[f].phase
               /\ \A k \in DOMAIN p : Is(p[k], "complete", f) => p[k][3] = g[f].phase
               /\ d.status[f] = g[f].phase \/ \E k \in DOMAIN p : Is(p[k], "complete", f)
    <2>1. g[f] = r[f]
      BY <1>4 DEF OthersKept
    <2>2. /\ d.status[f] \in Statuses => d.status[f] = g[f].phase
          /\ \A k \in DOMAIN q : Is(q[k], "complete", f) => q[k][3] = g[f].phase
          /\ d.status[f] = g[f].phase \/ \E k \in DOMAIN q : Is(q[k], "complete", f)
      BY <1>4, <2>1 DEF OutcomeKept
    <2> QED
      BY <1>1, <2>2, PushOld
  <1> QED
    BY <1>3, <1>4 DEF OutcomeKept

LEMMA OutcomePushFinish ==
    ASSUME NEW q, NEW jobs, NEW p, Push(q, jobs, p),
           NEW r, NEW g, NEW d, NEW e \in Executions,
           JobsOf(jobs, e), OthersKept(r, g, e),
           r[e].phase \notin Statuses, g[e].phase \in Statuses,
           \E i \in 1..Len(jobs) : jobs[i][1] = "complete",
           \A i \in 1..Len(jobs) : jobs[i][1] = "complete" => jobs[i][3] = g[e].phase,
           OutcomeKept(q, r, d)
    PROVE  OutcomeKept(p, g, d)
  <1>1. ASSUME NEW f \in Executions, f # e, NEW k \in DOMAIN p, p[k][2] = f
        PROVE  k \in DOMAIN q /\ p[k] = q[k]
    BY <1>1, PushIndex DEF JobsOf
  <1>2. /\ d.status[e] \notin Statuses
        /\ \A k \in DOMAIN q : ~Is(q[k], "complete", e) /\ ~Is(q[k], "session", e)
    BY DEF OutcomeKept
  <1>3. ASSUME NEW f \in Executions, g[f].phase \notin Statuses
        PROVE  /\ d.status[f] \notin Statuses
               /\ \A k \in DOMAIN p : ~Is(p[k], "complete", f) /\ ~Is(p[k], "session", f)
    <2>1. f # e /\ r[f] = g[f]
      BY <1>3 DEF OthersKept
    <2>2. /\ d.status[f] \notin Statuses
          /\ \A k \in DOMAIN q : ~Is(q[k], "complete", f) /\ ~Is(q[k], "session", f)
      BY <1>3, <2>1 DEF OutcomeKept
    <2> QED
      BY <1>1, <2>1, <2>2 DEF Is
  <1>4. ASSUME NEW f \in Executions, g[f].phase \in Statuses, f # e
        PROVE  /\ d.status[f] \in Statuses => d.status[f] = g[f].phase
               /\ \A k \in DOMAIN p : Is(p[k], "complete", f) => p[k][3] = g[f].phase
               /\ d.status[f] = g[f].phase \/ \E k \in DOMAIN p : Is(p[k], "complete", f)
    <2>1. g[f] = r[f]
      BY <1>4 DEF OthersKept
    <2>2. /\ d.status[f] \in Statuses => d.status[f] = g[f].phase
          /\ \A k \in DOMAIN q : Is(q[k], "complete", f) => q[k][3] = g[f].phase
          /\ d.status[f] = g[f].phase \/ \E k \in DOMAIN q : Is(q[k], "complete", f)
      BY <1>4, <2>1 DEF OutcomeKept
    <2> QED
      BY <1>1, <1>4, <2>2, PushOld DEF Is
  <1>5. \A k \in DOMAIN p : Is(p[k], "complete", e) => p[k][3] = g[e].phase
    BY <1>2, PushIndex DEF Is
  <1>6. \E k \in DOMAIN p : Is(p[k], "complete", e)
    <2>1. PICK i \in 1..Len(jobs) : jobs[i][1] = "complete"
      OBVIOUS
    <2>2. Len(q) + i \in DOMAIN p /\ p[Len(q) + i] = jobs[i]
      BY PushNew
    <2> QED
      BY <2>1, <2>2 DEF Is, JobsOf
  <1> QED
    BY <1>2, <1>3, <1>4, <1>5, <1>6 DEF OutcomeKept

LEMMA OutcomePop ==
    ASSUME NEW q, NEW p, Pop(q, p), NEW r, NEW d, NEW b, Writes(d, b, q[1]),
           \A k \in DOMAIN q : IsJob(q[k]),
           InsertedFirst(q, r, d), OutcomeKept(q, r, d)
    PROVE  OutcomeKept(p, r, b)
  <1>0. \A e \in Executions :
            \/ Is(q[1], "insert", e) /\ b.status[e] = "running"
                  /\ d.status[e] = "absent"
            \/ Is(q[1], "complete", e) /\ b.status[e] = q[1][3]
            \/ b.status[e] = d.status[e] /\ ~Is(q[1], "insert", e)
                 /\ ~Is(q[1], "complete", e)
    BY PopHead DEF Writes, Is, InsertedFirst
  <1>1. ASSUME NEW e \in Executions, r[e].phase \notin Statuses
        PROVE  /\ b.status[e] \notin Statuses
               /\ \A k \in DOMAIN p : ~Is(p[k], "complete", e) /\ ~Is(p[k], "session", e)
    <2>1. /\ d.status[e] \notin Statuses
          /\ \A k \in DOMAIN q : ~Is(q[k], "complete", e) /\ ~Is(q[k], "session", e)
      BY <1>1 DEF OutcomeKept
    <2>2. b.status[e] \notin Statuses
      BY <1>0, <2>1, PopHead DEF Statuses
    <2> QED
      BY <2>1, <2>2, PopIndex
  <1>2. ASSUME NEW e \in Executions, r[e].phase \in Statuses
        PROVE  /\ b.status[e] \in Statuses => b.status[e] = r[e].phase
               /\ \A k \in DOMAIN p : Is(p[k], "complete", e) => p[k][3] = r[e].phase
               /\ b.status[e] = r[e].phase \/ \E k \in DOMAIN p : Is(p[k], "complete", e)
    <2>1. /\ d.status[e] \in Statuses => d.status[e] = r[e].phase
          /\ \A k \in DOMAIN q : Is(q[k], "complete", e) => q[k][3] = r[e].phase
          /\ d.status[e] = r[e].phase \/ \E k \in DOMAIN q : Is(q[k], "complete", e)
      BY <1>2 DEF OutcomeKept
    <2>2. b.status[e] \in Statuses => b.status[e] = r[e].phase
      BY <1>0, <2>1, PopHead DEF Statuses
    <2>3. \A k \in DOMAIN p : Is(p[k], "complete", e) => p[k][3] = r[e].phase
      BY <2>1, PopIndex
    <2>4. CASE Is(q[1], "complete", e)
      <3>1. b.status[e] = q[1][3] /\ q[1][3] = r[e].phase
        BY <1>0, <2>1, <2>4, PopHead DEF Is
      <3> QED
        BY <2>2, <2>3, <3>1
    <2>5. CASE ~Is(q[1], "complete", e)
      <3>1. ASSUME NEW k \in DOMAIN q, Is(q[k], "complete", e)
            PROVE  \E m \in DOMAIN p : Is(p[m], "complete", e)
        BY <2>5, <3>1, PopOld
      <3>2. d.status[e] = r[e].phase => b.status[e] = r[e].phase
        BY <1>0, <1>2, <2>5 DEF Statuses
      <3> QED
        BY <2>1, <2>2, <2>3, <3>1, <3>2
    <2> QED
      BY <2>4, <2>5
  <1> QED
    BY <1>1, <1>2 DEF OutcomeKept

-----------------------------------------------------------------------------
LEMMA ListedPop ==
    ASSUME NEW d, NEW b, NEW j, Writes(d, b, j), SessionsTyped(d), IsJob(j),
           NEW e \in Executions
    PROVE  Listed(b, e) <=> Listed(d, e) \/ Is(j, "session", e)
  <1>1. ASSUME NEW s \in Sessions, j[1] = "session", j[3] = s
        PROVE  (\E i \in DOMAIN b.session[s].history : b.session[s].history[i] = e)
               <=> \/ \E i \in DOMAIN d.session[s].history : d.session[s].history[i] = e
                   \/ j[2] = e
    <2> DEFINE h == d.session[s].history
    <2>1. h \in Seq(Executions) /\ j[2] \in Executions
      BY DEF SessionsTyped, IsJob
    <2>2. b.session[s].history = Append(h, j[2])
      BY <1>1 DEF Writes
    <2> HIDE DEF h
    <2>3. /\ DOMAIN Append(h, j[2]) = 1..(Len(h) + 1) /\ DOMAIN h = 1..Len(h)
          /\ \A i \in 1..Len(h) : Append(h, j[2])[i] = h[i]
          /\ Append(h, j[2])[Len(h) + 1] = j[2]
          /\ Len(h) \in Nat
      BY <2>1
    <2>4. (\E i \in DOMAIN Append(h, j[2]) : Append(h, j[2])[i] = e)
          <=> (\E i \in DOMAIN h : h[i] = e) \/ j[2] = e
      BY <2>3
    <2> QED
      BY <2>2, <2>4 DEF h
  <1>2. ASSUME NEW s \in Sessions, ~(j[1] = "session" /\ j[3] = s)
        PROVE  b.session[s] = d.session[s]
    BY <1>2 DEF Writes
  <1>3. j[1] = "session" => j[3] \in Sessions
    BY DEF IsJob
  <1> QED
    BY <1>1, <1>2, <1>3 DEF Listed, Is

LEMMA SessionPush ==
    ASSUME NEW q, NEW jobs, NEW p, Push(q, jobs, p),
           NEW r, NEW g, NEW d, NEW e \in Executions,
           JobsOf(jobs, e), OthersKept(r, g, e), r[e].phase \notin Statuses,
           g[e].phase \in Statuses => \E i \in 1..Len(jobs) : jobs[i][1] = "session",
           \A i \in 1..Len(jobs) : jobs[i][1] = "session" =>
               \E m \in 1..(i - 1) : jobs[m][1] = "complete",
           SessionLast(q, r, d)
    PROVE  SessionLast(p, g, d)
  <1>1. ASSUME NEW f \in Executions, g[f].phase \in Statuses
        PROVE  Listed(d, f) \/ \E k \in DOMAIN p : Is(p[k], "session", f)
    <2>1. CASE f = e
      <3>1. PICK i \in 1..Len(jobs) : jobs[i][1] = "session"
        BY <1>1, <2>1
      <3>2. Len(q) + i \in DOMAIN p /\ p[Len(q) + i] = jobs[i]
        BY PushNew
      <3> QED
        BY <2>1, <3>1, <3>2 DEF Is, JobsOf
    <2>2. CASE f # e
      <3>1. Listed(d, f) \/ \E k \in DOMAIN q : Is(q[k], "session", f)
        BY <1>1, <2>2 DEF SessionLast, OthersKept
      <3> QED
        BY <3>1, PushOld
    <2> QED
      BY <2>1, <2>2
  <1>2. ASSUME NEW k \in DOMAIN p, p[k][1] = "session"
        PROVE  \/ d.status[p[k][2]] \in Statuses
               \/ \E m \in 1..(k - 1) : Is(p[m], "complete", p[k][2])
    <2>1. CASE k \in DOMAIN q /\ p[k] = q[k]
      <3>1. \/ d.status[p[k][2]] \in Statuses
            \/ \E m \in 1..(k - 1) : Is(q[m], "complete", p[k][2])
        BY <1>2, <2>1 DEF SessionLast
      <3> QED
        BY <2>1, <3>1, PushOld
    <2>2. CASE k > Len(q) /\ k - Len(q) \in 1..Len(jobs) /\ p[k] = jobs[k - Len(q)]
      <3>1. PICK m \in 1..(k - Len(q) - 1) : jobs[m][1] = "complete"
        BY <1>2, <2>2
      <3>2. m \in 1..Len(jobs) /\ Len(q) + m \in 1..(k - 1)
        BY <2>2, <3>1 DEF Push
      <3>3. p[Len(q) + m] = jobs[m] /\ jobs[m][2] = e /\ p[k][2] = e
        BY <2>2, <3>2, PushNew DEF JobsOf
      <3> QED
        BY <3>1, <3>2, <3>3 DEF Is
    <2> QED
      BY <2>1, <2>2, PushIndex
  <1>3. \A f \in Executions : Listed(d, f) => d.status[f] \in Statuses
    BY DEF SessionLast
  <1> QED
    BY <1>1, <1>2, <1>3 DEF SessionLast

LEMMA SessionPop ==
    ASSUME NEW q, NEW p, Pop(q, p), NEW r, NEW d, NEW b, Writes(d, b, q[1]),
           \A k \in DOMAIN q : IsJob(q[k]), SessionsTyped(d),
           InsertedFirst(q, r, d), SessionLast(q, r, d)
    PROVE  SessionLast(p, r, b)
  <1>0. 1 \in DOMAIN q /\ IsJob(q[1])
    BY PopHead
  <1>1. \A e \in Executions : Listed(b, e) <=> Listed(d, e) \/ Is(q[1], "session", e)
    BY <1>0, ListedPop
  <1>2. \A e \in Executions : d.status[e] \in Statuses => b.status[e] \in Statuses
    BY <1>0 DEF Writes, Is, InsertedFirst, IsJob, Statuses
  <1>3. \A e \in Executions : Is(q[1], "complete", e) => b.status[e] \in Statuses
    BY <1>0 DEF Writes, Is, IsJob
  <1>4. ASSUME NEW e \in Executions, Listed(b, e)
        PROVE  b.status[e] \in Statuses
    <2>1. CASE Listed(d, e)
      BY <1>2, <2>1 DEF SessionLast
    <2>2. CASE Is(q[1], "session", e)
      <3>1. \/ d.status[e] \in Statuses
            \/ \E m \in 1..(1 - 1) : Is(q[m], "complete", e)
        BY <1>0, <2>2 DEF SessionLast, Is
      <3> QED
        BY <1>2, <3>1
    <2> QED
      BY <1>1, <1>4, <2>1, <2>2
  <1>5. ASSUME NEW e \in Executions, r[e].phase \in Statuses
        PROVE  Listed(b, e) \/ \E k \in DOMAIN p : Is(p[k], "session", e)
    <2>1. Listed(d, e) \/ \E k \in DOMAIN q : Is(q[k], "session", e)
      BY <1>5 DEF SessionLast
    <2>2. ASSUME NEW k \in DOMAIN q, Is(q[k], "session", e)
          PROVE  Listed(b, e) \/ \E m \in DOMAIN p : Is(p[m], "session", e)
      <3>1. CASE k = 1
        BY <1>1, <2>2, <3>1
      <3>2. CASE k # 1
        BY <2>2, <3>2, PopOld
      <3> QED
        BY <3>1, <3>2
    <2> QED
      BY <1>1, <2>1, <2>2
  <1>6. ASSUME NEW k \in DOMAIN p, p[k][1] = "session"
        PROVE  \/ b.status[p[k][2]] \in Statuses
               \/ \E m \in 1..(k - 1) : Is(p[m], "complete", p[k][2])
    <2>1. k + 1 \in DOMAIN q /\ p[k] = q[k + 1] /\ k \in Nat /\ k >= 1
      BY PopIndex
    <2>2. p[k][2] \in Executions
      BY <2>1 DEF IsJob
    <2>3. \/ d.status[p[k][2]] \in Statuses
          \/ \E m \in 1..((k + 1) - 1) : Is(q[m], "complete", p[k][2])
      BY <1>6, <2>1 DEF SessionLast
    <2>4. ASSUME NEW m \in 1..((k + 1) - 1), Is(q[m], "complete", p[k][2])
          PROVE  \/ b.status[p[k][2]] \in Statuses
                 \/ \E n \in 1..(k - 1) : Is(p[n], "complete", p[k][2])
      <3>1. CASE m = 1
        BY <1>3, <2>2, <2>4, <3>1
      <3>2. CASE m # 1
        <4>1. m \in DOMAIN q
          BY <2>1 DEF Pop
        <4>2. m - 1 \in 1..(k - 1) /\ p[m - 1] = q[m]
          BY <2>1, <3>2, <4>1, PopOld
        <4> QED
          BY <2>4, <4>2
      <3> QED
        BY <3>1, <3>2
    <2> QED
      BY <1>2, <2>2, <2>3, <2>4
  <1> QED
    BY <1>4, <1>5, <1>6 DEF SessionLast

-----------------------------------------------------------------------------
LEMMA NodeJobsFinite ==
    ASSUME NEW q, Len(q) \in Nat, DOMAIN q = 1..Len(q), NEW e
    PROVE  /\ IsFiniteSet(NodeJobs(q, e))
           /\ Cardinality(NodeJobs(q, e)) \in Nat
  <1>1. IsFiniteSet(1..Len(q))
    BY FS_Interval
  <1>2. NodeJobs(q, e) \subseteq 1..Len(q)
    BY DEF NodeJobs
  <1> QED
    BY <1>1, <1>2, FS_Subset, FS_CardinalityType

LEMMA NodeJobsPush ==
    ASSUME NEW q, NEW jobs, NEW p, Push(q, jobs, p), NEW e, NEW f,
           JobsOf(jobs, f),
           \A i \in 1..Len(jobs) : jobs[i][1] = "node" => i = 1
    PROVE  Cardinality(NodeJobs(p, e)) =
               IF e = f /\ Len(jobs) > 0 /\ jobs[1][1] = "node"
               THEN Cardinality(NodeJobs(q, e)) + 1 ELSE Cardinality(NodeJobs(q, e))
  <1>1. \A k \in NodeJobs(q, e) : k \in NodeJobs(p, e) /\ k <= Len(q)
    BY PushOld DEF NodeJobs
  <1>2. ASSUME NEW k \in NodeJobs(p, e), k \notin NodeJobs(q, e)
        PROVE  k = Len(q) + 1 /\ jobs[1] = p[k] /\ Len(jobs) > 0
    <2>1. /\ k > Len(q) /\ k - Len(q) \in 1..Len(jobs)
          /\ p[k] = jobs[k - Len(q)]
      BY <1>2, PushIndex DEF NodeJobs
    <2>2. k - Len(q) = 1
      BY <2>1 DEF NodeJobs, Is
    <2> QED
      BY <2>1, <2>2 DEF Push, NodeJobs
  <1>3. CASE e = f /\ Len(jobs) > 0 /\ jobs[1][1] = "node"
    <2>1. 1 \in 1..Len(jobs)
      BY <1>3 DEF Push
    <2>2. Len(q) + 1 \in NodeJobs(p, e)
      BY <1>3, <2>1, PushNew DEF NodeJobs, Is, JobsOf
    <2>3. Len(q) + 1 \notin NodeJobs(q, e)
      BY <1>1 DEF Push
    <2>4. NodeJobs(p, e) = NodeJobs(q, e) \cup {Len(q) + 1}
      BY <1>1, <1>2, <2>2
    <2>5. IsFiniteSet(NodeJobs(q, e))
      BY NodeJobsFinite DEF Push
    <2> QED
      BY <1>3, <2>3, <2>4, <2>5, FS_AddElement
  <1>4. CASE ~(e = f /\ Len(jobs) > 0 /\ jobs[1][1] = "node")
    <2>1. ASSUME NEW k \in NodeJobs(p, e)
          PROVE  k \in NodeJobs(q, e)
      <3> SUFFICES ASSUME k \notin NodeJobs(q, e)
                   PROVE  FALSE
        OBVIOUS
      <3>1. p[k] = jobs[1] /\ Len(jobs) > 0 /\ 1 \in 1..Len(jobs)
        BY <1>2 DEF Push
      <3>2. jobs[1][1] = "node" /\ jobs[1][2] = e /\ jobs[1][2] = f
        BY <3>1 DEF NodeJobs, Is, JobsOf
      <3> QED
        BY <1>4, <3>1, <3>2
    <2>2. NodeJobs(p, e) = NodeJobs(q, e)
      BY <1>1, <2>1
    <2> QED
      BY <1>4, <2>2
  <1> QED
    BY <1>3, <1>4

LEMMA NodeJobsPop ==
    ASSUME NEW q, NEW p, Pop(q, p), NEW e
    PROVE  Cardinality(NodeJobs(q, e)) =
               IF Is(q[1], "node", e)
               THEN Cardinality(NodeJobs(p, e)) + 1 ELSE Cardinality(NodeJobs(p, e))
  <1> DEFINE rest == NodeJobs(q, e) \ {1}
             back == [k \in rest |-> k - 1]
  <1>1. \A k \in rest : k - 1 \in NodeJobs(p, e)
    BY PopOld DEF NodeJobs
  <1>2. \A m \in NodeJobs(p, e) : m + 1 \in rest /\ (m + 1) - 1 = m
    BY PopIndex DEF NodeJobs
  <1>3. \A k \in rest : k \in Nat
    BY PopHead DEF NodeJobs
  <1>4. back \in [rest -> NodeJobs(p, e)]
    BY <1>1
  <1>5. \A k, m \in rest : back[k] = back[m] => k = m
    BY <1>3
  <1>6. \A m \in NodeJobs(p, e) : \E k \in rest : back[k] = m
    BY <1>2
  <1>7. back \in Bijection(rest, NodeJobs(p, e))
    BY <1>4, <1>5, <1>6 DEF Bijection, Injection, Surjection, IsInjective
  <1>8. ExistsBijection(rest, NodeJobs(p, e))
    BY <1>7 DEF ExistsBijection
  <1>9. IsFiniteSet(NodeJobs(q, e)) /\ IsFiniteSet(rest)
        /\ Cardinality(NodeJobs(q, e)) \in Nat
    BY NodeJobsFinite, FS_RemoveElement DEF Pop
  <1>10. Cardinality(NodeJobs(p, e)) = Cardinality(rest)
    BY <1>8, <1>9, FS_Bijection
  <1>11. Cardinality(rest) =
             IF 1 \in NodeJobs(q, e) THEN Cardinality(NodeJobs(q, e)) - 1
             ELSE Cardinality(NodeJobs(q, e))
    BY <1>9, FS_RemoveElement
  <1>12. 1 \in NodeJobs(q, e) <=> Is(q[1], "node", e)
    BY PopHead DEF NodeJobs
  <1> QED
    BY <1>9, <1>10, <1>11, <1>12

LEMMA NodesPush ==
    ASSUME NEW q, NEW jobs, NEW p, Push(q, jobs, p),
           NEW r, NEW g, NEW d, NEW e \in Executions,
           TablesTyped(d), JobsOf(jobs, e), OthersKept(r, g, e),
           \A i \in 1..Len(jobs) : jobs[i][1] = "node" => i = 1,
           r[e].phase # "abandoned", r[e].nodes \in Nat, Len(jobs) > 0,
           g[e].nodes = IF jobs[1][1] = "node" THEN r[e].nodes + 1 ELSE r[e].nodes,
           NodesCounted(q, r, d)
    PROVE  NodesCounted(p, g, d)
  <1> SUFFICES ASSUME NEW f \in Executions, g[f].phase # "abandoned"
               PROVE  d.nodes[f] + Cardinality(NodeJobs(p, f)) = g[f].nodes
    BY DEF NodesCounted
  <1>1. d.nodes[f] \in Nat /\ Cardinality(NodeJobs(q, f)) \in Nat
    BY NodeJobsFinite DEF TablesTyped, Push
  <1>2. CASE f = e
    <2>1. d.nodes[e] + Cardinality(NodeJobs(q, e)) = r[e].nodes
      BY DEF NodesCounted
    <2>2. Cardinality(NodeJobs(p, e)) =
               IF jobs[1][1] = "node"
               THEN Cardinality(NodeJobs(q, e)) + 1 ELSE Cardinality(NodeJobs(q, e))
      BY NodeJobsPush
    <2> QED
      BY <1>1, <1>2, <2>1, <2>2
  <1>3. CASE f # e
    <2>1. d.nodes[f] + Cardinality(NodeJobs(q, f)) = g[f].nodes
      BY <1>3 DEF NodesCounted, OthersKept
    <2>2. Cardinality(NodeJobs(p, f)) = Cardinality(NodeJobs(q, f))
      BY <1>3, NodeJobsPush
    <2> QED
      BY <2>1, <2>2
  <1> QED
    BY <1>2, <1>3

LEMMA NodesPop ==
    ASSUME NEW q, NEW p, Pop(q, p), NEW r, NEW d, NEW b, Writes(d, b, q[1]),
           TablesTyped(d), NodesCounted(q, r, d)
    PROVE  NodesCounted(p, r, b)
  <1> SUFFICES ASSUME NEW f \in Executions, r[f].phase # "abandoned"
               PROVE  b.nodes[f] + Cardinality(NodeJobs(p, f)) = r[f].nodes
    BY DEF NodesCounted
  <1>1. d.nodes[f] \in Nat /\ Cardinality(NodeJobs(p, f)) \in Nat
    BY NodeJobsFinite DEF TablesTyped, Pop
  <1>2. d.nodes[f] + Cardinality(NodeJobs(q, f)) = r[f].nodes
    BY DEF NodesCounted
  <1>3. b.nodes[f] = IF Is(q[1], "node", f) THEN d.nodes[f] + 1 ELSE d.nodes[f]
    BY DEF Writes
  <1> QED
    BY <1>1, <1>2, <1>3, NodeJobsPop

-----------------------------------------------------------------------------
LEMMA CoveredMore ==
    ASSUME NEW q, NEW d, NEW v, NEW n \in Int, NEW m \in Int, n <= m,
           Covered(q, n, d, v)
    PROVE  Covered(q, m, d, v)
  BY DEF Covered

\* What was covered stays covered when jobs are submitted.
LEMMA CoveredPush ==
    ASSUME NEW q, NEW jobs, NEW p, Push(q, jobs, p), NEW d, NEW v,
           NEW n \in 0..Len(q)
    PROVE  Covered(p, n, d, v) <=> Covered(q, n, d, v)
  <1>1. \A m \in 1..n : p[m] = q[m]
    BY DEF Push
  <1> QED
    BY <1>1 DEF Covered

LEMMA CoveredPop ==
    ASSUME NEW q, NEW p, Pop(q, p), NEW d, NEW b, Writes(d, b, q[1]), NEW v,
           NEW n \in 1..Len(q)
    PROVE  Covered(p, n - 1, b, v) <=> Covered(q, n, d, v)
  <1>1. v \in DOMAIN b.versions <=>
            v \in DOMAIN d.versions \/ (q[1][1] = "version" /\ q[1][3] = v)
    BY DEF Writes
  <1>2. ASSUME NEW m \in 1..(n - 1)
        PROVE  m + 1 \in 1..n /\ p[m] = q[m + 1]
    BY DEF Pop
  <1>3. ASSUME NEW m \in 1..n, m # 1
        PROVE  m - 1 \in 1..(n - 1) /\ p[m - 1] = q[m]
    BY <1>3, PopOld DEF Pop
  <1>4. 1 \in 1..n
    BY DEF Pop
  <1>5. ASSUME Covered(p, n - 1, b, v)
        PROVE  Covered(q, n, d, v)
    BY <1>1, <1>2, <1>4, <1>5 DEF Covered
  <1>6. ASSUME Covered(q, n, d, v)
        PROVE  Covered(p, n - 1, b, v)
    BY <1>1, <1>3, <1>6 DEF Covered
  <1> QED
    BY <1>5, <1>6

LEMMA CommittedPush ==
    ASSUME NEW q, NEW jobs, NEW p, Push(q, jobs, p),
           NEW r, NEW g, NEW d, NEW e \in Executions,
           OthersKept(r, g, e), g[e].nodes \in Nat, r[e].nodes \in Nat,
           r[e].phase # "abandoned", r[e].nodes <= g[e].nodes,
           \A i \in 1..Len(jobs) : jobs[i][1] = "version" =>
               \/ Covered(q, Len(q), d, jobs[i][3])
               \/ jobs[i][3] = <<e, g[e].nodes>>,
           \A f \in Executions : r[f].nodes \in Nat,
           Committed(q, r, d)
    PROVE  Committed(p, g, d)
  <1> SUFFICES ASSUME NEW f \in Executions, g[f].phase # "abandoned",
                      NEW n \in Nat, Covered(p, Len(p), d, <<f, n>>)
               PROVE  n <= g[f].nodes
    BY DEF Committed
  <1>1. Covered(q, Len(q), d, <<f, n>>) \/ (f = e /\ n = g[e].nodes)
    <2>1. CASE <<f, n>> \in DOMAIN d.versions
      BY <2>1 DEF Covered
    <2>2. CASE \E m \in 1..Len(p) : p[m][1] = "version" /\ p[m][3] = <<f, n>>
      <3>1. PICK m \in DOMAIN p : p[m][1] = "version" /\ p[m][3] = <<f, n>>
        BY <2>2 DEF Push
      <3>2. CASE m \in DOMAIN q /\ p[m] = q[m]
        BY <3>1, <3>2 DEF Covered, Push
      <3>3. CASE m - Len(q) \in 1..Len(jobs) /\ p[m] = jobs[m - Len(q)]
        BY <3>1, <3>3
      <3> QED
        BY <3>2, <3>3, PushIndex
    <2> QED
      BY <2>1, <2>2 DEF Covered
  <1>2. CASE Covered(q, Len(q), d, <<f, n>>)
    <2>1. n <= r[f].nodes
      <3>1. r[f].phase # "abandoned"
        BY DEF OthersKept
      <3> QED
        BY <1>2, <3>1 DEF Committed
    <2> QED
      BY <2>1 DEF OthersKept
  <1> QED
    BY <1>1, <1>2

LEMMA CommittedPop ==
    ASSUME NEW q, NEW p, Pop(q, p), NEW r, NEW d, NEW b, Writes(d, b, q[1]),
           Committed(q, r, d)
    PROVE  Committed(p, r, b)
  <1>1. Len(q) \in 1..Len(q) /\ Len(q) - 1 = Len(p)
    BY DEF Pop
  <1>2. \A v : Covered(p, Len(p), b, v) <=> Covered(q, Len(q), d, v)
    <2> SUFFICES ASSUME NEW v
                 PROVE  Covered(p, Len(p), b, v) <=> Covered(q, Len(q), d, v)
      OBVIOUS
    <2>1. Covered(p, Len(q) - 1, b, v) <=> Covered(q, Len(q), d, v)
      BY <1>1, CoveredPop
    <2> QED
      BY <1>1, <2>1
  <1> QED
    BY <1>2 DEF Committed

LEMMA SessionStatesPush ==
    ASSUME NEW q, NEW jobs, NEW p, Push(q, jobs, p), NEW d,
           \A i \in 1..Len(jobs) : jobs[i][1] = "session" =>
               \A j \in DOMAIN jobs[i][4].versions :
                   Covered(q, Len(q), d, jobs[i][4].versions[j]),
           SessionStates(q, d)
    PROVE  SessionStates(p, d)
  <1>1. ASSUME NEW k \in DOMAIN p, p[k][1] = "session",
               NEW i \in DOMAIN p[k][4].versions
        PROVE  Covered(p, k - 1, d, p[k][4].versions[i])
    <2>1. CASE k \in DOMAIN q /\ p[k] = q[k]
      <3>1. Covered(q, k - 1, d, p[k][4].versions[i])
        BY <1>1, <2>1 DEF SessionStates
      <3>2. k - 1 \in 0..Len(q)
        BY <2>1 DEF Push
      <3> QED
        BY <3>1, <3>2, CoveredPush
    <2>2. CASE k > Len(q) /\ k - Len(q) \in 1..Len(jobs) /\ p[k] = jobs[k - Len(q)]
      <3>1. Covered(q, Len(q), d, p[k][4].versions[i])
        BY <1>1, <2>2
      <3>2. Len(q) \in 0..Len(q)
        BY DEF Push
      <3>4. Covered(p, Len(q), d, p[k][4].versions[i])
        BY <3>1, <3>2, CoveredPush
      <3>3. Len(q) \in Int /\ k - 1 \in Int /\ Len(q) <= k - 1
        BY <2>2 DEF Push
      <3> QED
        BY <3>3, <3>4, CoveredMore
    <2> QED
      BY <2>1, <2>2, PushIndex
  <1> QED
    BY <1>1 DEF SessionStates

LEMMA SessionStatesPop ==
    ASSUME NEW q, NEW p, Pop(q, p), NEW d, NEW b, Writes(d, b, q[1]),
           SessionStates(q, d)
    PROVE  SessionStates(p, b)
  <1>1. ASSUME NEW k \in DOMAIN p, p[k][1] = "session",
               NEW i \in DOMAIN p[k][4].versions
        PROVE  Covered(p, k - 1, b, p[k][4].versions[i])
    <2>1. k + 1 \in DOMAIN q /\ p[k] = q[k + 1] /\ k \in Nat /\ k >= 1
      BY PopIndex
    <2>2. Covered(q, (k + 1) - 1, d, p[k][4].versions[i])
      BY <1>1, <2>1 DEF SessionStates
    <2>3. k \in 1..Len(q) /\ (k + 1) - 1 = k
      BY <2>1 DEF Pop
    <2> QED
      BY <2>2, <2>3, CoveredPop
  <1>2. ASSUME NEW s \in Sessions, NEW i \in DOMAIN b.session[s].state.versions
        PROVE  b.session[s].state.versions[i] \in DOMAIN b.versions
    <2>1. \A v \in DOMAIN d.versions : v \in DOMAIN b.versions
      BY DEF Writes
    <2>2. CASE q[1][1] = "session" /\ q[1][3] = s
      <3>1. b.session[s].state = q[1][4] /\ DOMAIN b.versions = DOMAIN d.versions
        BY <2>2 DEF Writes
      <3>2. Covered(q, 1 - 1, d, q[1][4].versions[i])
        BY <1>2, <2>2, <3>1, PopHead DEF SessionStates
      <3> QED
        BY <3>1, <3>2 DEF Covered
    <2>3. CASE ~(q[1][1] = "session" /\ q[1][3] = s)
      BY <1>2, <2>1, <2>3 DEF Writes, SessionStates, AllStored
    <2> QED
      BY <2>2, <2>3
  <1> QED
    BY <1>1, <1>2 DEF SessionStates, AllStored

-----------------------------------------------------------------------------
\* Whoever had a version had those before it covered: a job that is submitted
\* now comes after all of them.
LEMMA OrderedPush ==
    ASSUME NEW q, NEW jobs, NEW p, Push(q, jobs, p), NEW d, NEW vs,
           DOMAIN vs \subseteq Nat,
           \A i \in DOMAIN vs : \A j \in 1..(i - 1) : Covered(q, Len(q), d, vs[j]),
           Ordered(q, d, vs)
    PROVE  Ordered(p, d, vs)
  <1>1. ASSUME NEW i \in DOMAIN vs, NEW k \in DOMAIN p, p[k][1] = "version",
               p[k][3] = vs[i], NEW j \in 1..(i - 1)
        PROVE  Covered(p, k - 1, d, vs[j])
    <2>1. CASE k \in DOMAIN q /\ p[k] = q[k]
      <3>1. Covered(q, k - 1, d, vs[j])
        BY <1>1, <2>1 DEF Ordered
      <3>2. k - 1 \in 0..Len(q)
        BY <2>1 DEF Push
      <3> QED
        BY <3>1, <3>2, CoveredPush
    <2>2. CASE k > Len(q)
      <3>1. Len(q) \in 0..Len(q) /\ Len(q) \in Int /\ k - 1 \in Int
            /\ Len(q) <= k - 1
        BY <2>2 DEF Push
      <3>2. Covered(p, Len(q), d, vs[j])
        BY <1>1, <3>1, CoveredPush
      <3> QED
        BY <3>1, <3>2, CoveredMore
    <2> QED
      BY <2>1, <2>2, PushIndex
  <1>2. ASSUME NEW i \in DOMAIN vs, vs[i] \in DOMAIN d.versions, NEW j \in 1..(i - 1)
        PROVE  vs[j] \in DOMAIN d.versions
    BY <1>2 DEF Ordered
  <1> QED
    BY <1>1, <1>2 DEF Ordered

LEMMA AllCoveredPush ==
    ASSUME NEW q, NEW jobs, NEW p, Push(q, jobs, p), NEW d, NEW v,
           Covered(q, Len(q), d, v)
    PROVE  Covered(p, Len(p), d, v)
  <1>1. Len(q) \in 0..Len(q) /\ Len(q) \in Int /\ Len(p) \in Int /\ Len(q) <= Len(p)
    BY DEF Push
  <1>2. Covered(p, Len(q), d, v)
    BY <1>1, CoveredPush
  <1> QED
    BY <1>1, <1>2, CoveredMore

\* A version that nobody knew is ordered after those it was made from.
LEMMA OrderedAppend ==
    ASSUME NEW q, Len(q) \in Nat, DOMAIN q = 1..Len(q), NEW d,
           NEW vs \in Seq(VersionIds), NEW v \in VersionIds,
           ~Covered(q, Len(q), d, v), Ordered(q, d, vs)
    PROVE  Ordered(q, d, Append(vs, v))
  <1> DEFINE ws == Append(vs, v)
  <1>1. /\ DOMAIN vs = 1..Len(vs) /\ DOMAIN ws = 1..(Len(vs) + 1) /\ Len(vs) \in Nat
        /\ \A i \in 1..Len(vs) : ws[i] = vs[i]
        /\ ws[Len(vs) + 1] = v
    OBVIOUS
  <1> HIDE DEF ws
  <1>2. v \notin DOMAIN d.versions
        /\ \A k \in DOMAIN q : ~(q[k][1] = "version" /\ q[k][3] = v)
    BY DEF Covered
  <1>3. ASSUME NEW i \in DOMAIN ws, NEW j \in 1..(i - 1)
        PROVE  j \in 1..Len(vs) /\ ws[j] = vs[j]
    BY <1>1
  <1>4. \A i \in DOMAIN ws : ws[i] = v \/ (i \in DOMAIN vs /\ ws[i] = vs[i])
    BY <1>1
  <1>5. ASSUME NEW i \in DOMAIN ws, ws[i] \in DOMAIN d.versions, NEW j \in 1..(i - 1)
        PROVE  ws[j] \in DOMAIN d.versions
    BY <1>2, <1>3, <1>4, <1>5 DEF Ordered
  <1>6. ASSUME NEW i \in DOMAIN ws, NEW k \in DOMAIN q, q[k][1] = "version",
               q[k][3] = ws[i], NEW j \in 1..(i - 1)
        PROVE  Covered(q, k - 1, d, ws[j])
    BY <1>2, <1>3, <1>4, <1>6 DEF Ordered
  <1>7. Ordered(q, d, ws)
    BY <1>5, <1>6 DEF Ordered
  <1> QED
    BY <1>7 DEF ws

LEMMA OrderedPop ==
    ASSUME NEW q, NEW p, Pop(q, p), NEW d, NEW b, Writes(d, b, q[1]), NEW vs,
           Ordered(q, d, vs)
    PROVE  Ordered(p, b, vs)
  <1>1. ASSUME NEW i \in DOMAIN vs, vs[i] \in DOMAIN b.versions, NEW j \in 1..(i - 1)
        PROVE  vs[j] \in DOMAIN b.versions
    <2>1. CASE vs[i] \in DOMAIN d.versions
      BY <1>1, <2>1 DEF Ordered, Writes
    <2>2. CASE q[1][1] = "version" /\ q[1][3] = vs[i]
      <3>1. Covered(q, 1 - 1, d, vs[j])
        BY <1>1, <2>2, PopHead DEF Ordered
      <3>2. vs[j] \in DOMAIN d.versions
        BY <3>1 DEF Covered
      <3> QED
        BY <3>2 DEF Writes
    <2> QED
      BY <1>1, <2>1, <2>2 DEF Writes
  <1>2. ASSUME NEW i \in DOMAIN vs, NEW k \in DOMAIN p, p[k][1] = "version",
               p[k][3] = vs[i], NEW j \in 1..(i - 1)
        PROVE  Covered(p, k - 1, b, vs[j])
    <2>1. k + 1 \in DOMAIN q /\ p[k] = q[k + 1] /\ k \in Nat /\ k >= 1
      BY PopIndex
    <2>2. Covered(q, (k + 1) - 1, d, vs[j])
      BY <1>2, <2>1 DEF Ordered
    <2>3. k \in 1..Len(q) /\ (k + 1) - 1 = k
      BY <2>1 DEF Pop
    <2> QED
      BY <2>2, <2>3, CoveredPop
  <1> QED
    BY <1>1, <1>2 DEF Ordered

LEMMA LineagePush ==
    ASSUME NEW q, NEW jobs, NEW p, Push(q, jobs, p),
           NEW r, NEW g, NEW d, NEW e \in Executions,
           OthersKept(r, g, e), RunsTyped(r), RunsTyped(g),
           g[e].phase # "restoring",
           \A i \in DOMAIN VersionsOf(g, e) : \A j \in 1..(i - 1) :
               Covered(q, Len(q), d, VersionsOf(g, e)[j]),
           AllCovered(p, d, VersionsOf(g, e)),
           Ordered(q, d, VersionsOf(g, e)),
           Lineage(q, r, d)
    PROVE  Lineage(p, g, d)
  <1> SUFFICES ASSUME NEW f \in Executions
               PROVE  /\ AllCovered(p, d, VersionsOf(g, f))
                      /\ Ordered(p, d, VersionsOf(g, f))
                      /\ g[f].phase = "restoring" => AllStored(d, VersionsOf(g, f))
    BY DEF Lineage
  <1>0. /\ VersionsOf(g, f) \in Seq(VersionIds)
        /\ DOMAIN VersionsOf(g, f) = 1..Len(VersionsOf(g, f))
        /\ Len(VersionsOf(g, f)) \in Nat
        /\ DOMAIN VersionsOf(g, f) \subseteq Nat
    BY DEF RunsTyped, IsState, VersionsOf
  <1>1. CASE f = e
    <2>1. Ordered(p, d, VersionsOf(g, e))
      BY <1>0, <1>1, OrderedPush
    <2> QED
      BY <1>1, <2>1
  <1>2. CASE f # e
    <2>1. g[f] = r[f] /\ VersionsOf(g, f) = VersionsOf(r, f)
      BY <1>2 DEF OthersKept, VersionsOf
    <2>2. /\ AllCovered(q, d, VersionsOf(g, f))
          /\ Ordered(q, d, VersionsOf(g, f))
          /\ g[f].phase = "restoring" => AllStored(d, VersionsOf(g, f))
      BY <2>1 DEF Lineage
    <2>3. ASSUME NEW i \in DOMAIN VersionsOf(g, f), NEW j \in 1..(i - 1)
          PROVE  Covered(q, Len(q), d, VersionsOf(g, f)[j])
      BY <1>0, <2>2 DEF AllCovered
    <2>4. Ordered(p, d, VersionsOf(g, f))
      BY <1>0, <2>2, <2>3, OrderedPush
    <2>5. AllCovered(p, d, VersionsOf(g, f))
      BY <2>2, AllCoveredPush DEF AllCovered
    <2> QED
      BY <2>2, <2>4, <2>5
  <1> QED
    BY <1>1, <1>2

LEMMA LineagePop ==
    ASSUME NEW q, NEW p, Pop(q, p), NEW r, NEW d, NEW b, Writes(d, b, q[1]),
           Lineage(q, r, d)
    PROVE  Lineage(p, r, b)
  <1> SUFFICES ASSUME NEW f \in Executions
               PROVE  /\ AllCovered(p, b, VersionsOf(r, f))
                      /\ Ordered(p, b, VersionsOf(r, f))
                      /\ r[f].phase = "restoring" => AllStored(b, VersionsOf(r, f))
    BY DEF Lineage
  <1>1. /\ AllCovered(q, d, VersionsOf(r, f))
        /\ Ordered(q, d, VersionsOf(r, f))
        /\ r[f].phase = "restoring" => AllStored(d, VersionsOf(r, f))
    BY DEF Lineage
  <1>2. Len(q) \in 1..Len(q) /\ Len(q) - 1 = Len(p)
    BY DEF Pop
  <1>3. ASSUME NEW v, Covered(q, Len(q), d, v)
        PROVE  Covered(p, Len(p), b, v)
    <2>1. Covered(p, Len(q) - 1, b, v)
      BY <1>2, <1>3, CoveredPop
    <2> QED
      BY <1>2, <2>1
  <1>4. AllCovered(p, b, VersionsOf(r, f))
    BY <1>1, <1>3 DEF AllCovered
  <1>5. r[f].phase = "restoring" => AllStored(b, VersionsOf(r, f))
    BY <1>1 DEF AllStored, Writes
  <1> QED
    BY <1>1, <1>4, <1>5, OrderedPop

-----------------------------------------------------------------------------
LEMMA StoredOrdered ==
    ASSUME NEW q, NEW d, NEW vs \in Seq(VersionIds), AllStored(d, vs)
    PROVE  /\ Ordered(q, d, vs)
           /\ \A n, i : i \in DOMAIN vs => Covered(q, n, d, vs[i])
  <1>1. \A i \in DOMAIN vs : \A j \in 1..(i - 1) : j \in DOMAIN vs
    OBVIOUS
  <1>2. \A n, i : i \in DOMAIN vs => Covered(q, n, d, vs[i])
    BY DEF AllStored, Covered
  <1>3. Ordered(q, d, vs)
    BY <1>1, <1>2 DEF Ordered, AllStored
  <1> QED
    BY <1>2, <1>3

\* The jobs of _record_node_end for a state with the versions ws.
NodeEndShape(jobs, e, ws) ==
    /\ Len(jobs) = 1 + Len(ws) /\ Is(jobs[1], "node", e)
    /\ \A i \in 1..Len(ws) : Is(jobs[i + 1], "version", e) /\ jobs[i + 1][3] = ws[i]

\* Those of finish.
FinishShape(jobs, e, ws, status) ==
    /\ Len(jobs) = 2 + Len(ws)
    /\ Is(jobs[1], "complete", e) /\ jobs[1][3] = status
    /\ \A i \in 1..Len(ws) : Is(jobs[i + 1], "version", e) /\ jobs[i + 1][3] = ws[i]
    /\ Is(jobs[2 + Len(ws)], "session", e) /\ jobs[2 + Len(ws)][4].versions = ws

LEMMA RecordedBegin ==
    ASSUME NEW q, NEW jobs, NEW p, Push(q, jobs, p),
           NEW r, NEW g, NEW d, NEW e \in Executions,
           OthersKept(r, g, e), RunsTyped(r), RunsTyped(g), TablesTyped(d),
           r[e].phase \notin Begun, g[e].phase = "running", g[e].nodes = 0,
           Len(jobs) = 1, Is(jobs[1], "insert", e),
           AllStored(d, VersionsOf(g, e)),
           Recorded(q, r, d)
    PROVE  Recorded(p, g, d)
  <1> DEFINE ws == VersionsOf(g, e)
  <1>1. JobsOf(jobs, e) /\ \A i \in 1..Len(jobs) : jobs[i][1] = "insert"
    BY DEF JobsOf, Is
  <1>2. r[e].phase \notin Statuses /\ g[e].phase \notin Statuses /\ g[e].phase \in Begun
        /\ r[e].phase # "abandoned" /\ r[e].nodes = 0
    BY DEF Begun, Statuses, Recorded, NotBegun
  <1>3. ws \in Seq(VersionIds) /\ Len(ws) \in Nat /\ DOMAIN ws = 1..Len(ws)
    BY DEF RunsTyped, IsState, VersionsOf
  <1> HIDE DEF ws
  <1>4. AllStored(d, ws)
    BY DEF ws
  <1>5. Ordered(q, d, ws) /\ \A n, i : i \in DOMAIN ws => Covered(q, n, d, ws[i])
    BY <1>3, <1>4, StoredOrdered
  <1>6. \A i \in DOMAIN ws : \A j \in 1..(i - 1) : Covered(q, Len(q), d, ws[j])
    BY <1>3, <1>5
  <1>7. AllCovered(p, d, ws)
    BY <1>4 DEF AllCovered, AllStored, Covered
  <1>8. Lineage(p, g, d)
    BY <1>5, <1>6, <1>7, LineagePush DEF Recorded, ws
  <1>9. NotBegun(p, g, d)
    BY <1>1, <1>2, NotBegunPush DEF Recorded
  <1>10. InsertedFirst(p, g, d)
    BY InsertedPushBegin DEF Recorded
  <1>11. OutcomeKept(p, g, d)
    BY <1>1, <1>2, OutcomePush DEF Recorded
  <1>12. SessionLast(p, g, d)
    BY <1>1, <1>2, SessionPush DEF Recorded
  <1>13. NodesCounted(p, g, d)
    <2>1. Len(jobs) > 0 /\ jobs[1][1] = "insert" /\ r[e].nodes \in Nat
          /\ g[e].nodes = r[e].nodes
      BY <1>1, <1>2
    <2> QED
      BY <1>1, <1>2, <2>1, NodesPush DEF Recorded
  <1>14. SessionStates(p, d)
    BY <1>1, SessionStatesPush DEF Recorded
  <1>15. Committed(p, g, d)
    BY <1>1, <1>2, CommittedPush DEF Recorded, RunsTyped
  <1> QED
    BY <1>8, <1>9, <1>10, <1>11, <1>12, <1>13, <1>14, <1>15 DEF Recorded

LEMMA RecordedEndNode ==
    ASSUME NEW q, NEW jobs, NEW p, Push(q, jobs, p),
           NEW r, NEW g, NEW d, NEW e \in Executions,
           OthersKept(r, g, e), RunsTyped(r), RunsTyped(g), TablesTyped(d),
           r[e].phase = "running", g[e].phase = "running",
           g[e].nodes = r[e].nodes + 1, <<e, g[e].nodes>> \in VersionIds,
           VersionsOf(g, e) = Append(VersionsOf(r, e), <<e, g[e].nodes>>),
           NodeEndShape(jobs, e, VersionsOf(g, e)),
           Recorded(q, r, d)
    PROVE  Recorded(p, g, d)
  <1> DEFINE vs == VersionsOf(r, e)
             ws == VersionsOf(g, e)
             v == <<e, g[e].nodes>>
  <1>1. /\ vs \in Seq(VersionIds) /\ Len(vs) \in Nat /\ DOMAIN vs = 1..Len(vs)
        /\ ws = Append(vs, v) /\ DOMAIN ws = 1..(Len(vs) + 1) /\ Len(ws) = Len(vs) + 1
        /\ \A i \in 1..Len(vs) : ws[i] = vs[i]
        /\ ws[Len(vs) + 1] = v
    <2>1. vs \in Seq(VersionIds)
      BY DEF RunsTyped, IsState, VersionsOf
    <2>2. ws = Append(vs, v) /\ v \in VersionIds
      OBVIOUS
    <2> HIDE DEF vs, ws, v
    <2>3. Len(vs) \in Nat /\ DOMAIN vs = 1..Len(vs) /\ Len(ws) = Len(vs) + 1
      BY <2>1, <2>2
    <2>4. /\ DOMAIN ws = 1..(Len(vs) + 1) /\ ws[Len(vs) + 1] = v
          /\ \A i \in 1..Len(vs) : ws[i] = vs[i]
      BY <2>1, <2>2, <2>3
    <2> QED
      BY <2>1, <2>2, <2>3, <2>4
  <1>2. NodeEndShape(jobs, e, ws) /\ v \in VersionIds
    OBVIOUS
  <1> HIDE DEF vs, ws, v
  <1>3. \A i \in 1..Len(jobs) :
            \/ i = 1
            \/ /\ i - 1 \in 1..Len(ws) /\ Is(jobs[i], "version", e)
               /\ jobs[i][3] = ws[i - 1]
    <2> SUFFICES ASSUME NEW i \in 1..Len(jobs), i # 1
                 PROVE  /\ i - 1 \in 1..Len(ws) /\ Is(jobs[i], "version", e)
                        /\ jobs[i][3] = ws[i - 1]
      OBVIOUS
    <2>1. i - 1 \in 1..Len(ws) /\ (i - 1) + 1 = i
      BY <1>1, <1>2 DEF NodeEndShape
    <2> QED
      BY <1>2, <2>1 DEF NodeEndShape
  <1>4. Is(jobs[1], "node", e) /\ Len(jobs) > 0 /\ 1 \in 1..Len(jobs)
    BY <1>1, <1>2 DEF NodeEndShape
  <1>5. JobsOf(jobs, e) /\ \A i \in 1..Len(jobs) : jobs[i][1] \in {"node", "version"}
    BY <1>3, <1>4 DEF JobsOf, Is
  <1>6. r[e].phase \notin Statuses /\ g[e].phase \notin Statuses /\ g[e].phase \in Begun
        /\ r[e].phase # "abandoned" /\ r[e].nodes \in Nat /\ g[e].nodes \in Nat
    BY DEF Begun, Statuses, RunsTyped
  <1>7. AllCovered(q, d, vs) /\ Ordered(q, d, vs)
    BY DEF Recorded, Lineage, vs
  <1>8. ~Covered(q, Len(q), d, v)
    <2>1. ~(g[e].nodes <= r[e].nodes)
      BY <1>6
    <2> QED
      BY <1>6, <2>1 DEF Recorded, Committed, v
  <1>9. Ordered(q, d, ws)
    <2>1. Len(q) \in Nat /\ DOMAIN q = 1..Len(q)
      BY DEF Push
    <2>2. vs \in Seq(VersionIds) /\ v \in VersionIds
      BY <1>1, <1>2
    <2>3. Ordered(q, d, Append(vs, v))
      BY <1>7, <1>8, <2>1, <2>2, OrderedAppend
    <2> QED
      BY <1>1, <2>3
  <1>20. /\ Len(vs) \in Nat /\ DOMAIN ws = 1..(Len(vs) + 1) /\ Len(ws) = Len(vs) + 1
         /\ ws[Len(vs) + 1] = v
         /\ \A i \in 1..Len(vs) : Covered(q, Len(q), d, ws[i])
    <2> SUFFICES ASSUME NEW i \in 1..Len(vs)
                 PROVE  Covered(q, Len(q), d, ws[i])
      BY <1>1
    <2>1. i \in DOMAIN vs /\ ws[i] = vs[i]
      BY <1>1
    <2> QED
      BY <1>7, <2>1 DEF AllCovered
  <1>10. \A i \in DOMAIN ws : \A j \in 1..(i - 1) : Covered(q, Len(q), d, ws[j])
    BY <1>20
  <1>11. AllCovered(p, d, ws)
    <2> SUFFICES ASSUME NEW i \in DOMAIN ws
                 PROVE  Covered(p, Len(p), d, ws[i])
      BY DEF AllCovered
    <2>1. i + 1 \in 1..Len(jobs) /\ i \in 1..Len(ws)
      BY <1>1, <1>2 DEF NodeEndShape
    <2>2. jobs[i + 1][1] = "version" /\ jobs[i + 1][3] = ws[i]
      BY <1>2, <2>1 DEF NodeEndShape, Is
    <2>3. Len(q) + (i + 1) \in 1..Len(p) /\ p[Len(q) + (i + 1)] = jobs[i + 1]
      BY <2>1, PushNew DEF Push
    <2> QED
      BY <2>2, <2>3 DEF Covered
  <1>12. Lineage(p, g, d)
    BY <1>9, <1>10, <1>11, LineagePush DEF Recorded, ws
  <1>13. NotBegun(p, g, d)
    BY <1>5, <1>6, NotBegunPush DEF Recorded
  <1>14. InsertedFirst(p, g, d)
    BY <1>5, InsertedPush DEF Recorded
  <1>15. OutcomeKept(p, g, d)
    BY <1>5, <1>6, OutcomePush DEF Recorded
  <1>16. SessionLast(p, g, d)
    BY <1>5, <1>6, SessionPush DEF Recorded
  <1>17. NodesCounted(p, g, d)
    <2>1. \A i \in 1..Len(jobs) : jobs[i][1] = "node" => i = 1
      BY <1>3 DEF Is
    <2>2. g[e].nodes = IF jobs[1][1] = "node" THEN r[e].nodes + 1 ELSE r[e].nodes
      BY <1>4 DEF Is
    <2> QED
      BY <1>4, <1>5, <1>6, <2>1, <2>2, NodesPush DEF Recorded
  <1>18. SessionStates(p, d)
    BY <1>5, SessionStatesPush DEF Recorded
  <1>19. Committed(p, g, d)
    <2>1. ASSUME NEW i \in 1..Len(jobs), jobs[i][1] = "version"
          PROVE  Covered(q, Len(q), d, jobs[i][3]) \/ jobs[i][3] = v
      <3>1. i - 1 \in 1..Len(ws) /\ jobs[i][3] = ws[i - 1]
        BY <1>3, <1>4, <2>1 DEF Is
      <3> QED
        BY <1>20, <3>1
    <2>2. r[e].nodes <= g[e].nodes
      BY <1>6
    <2>3. \A f \in Executions : r[f].nodes \in Nat
      BY DEF RunsTyped
    <2> QED
      BY <1>6, <2>1, <2>2, <2>3, CommittedPush DEF Recorded, v
  <1> QED
    BY <1>12, <1>13, <1>14, <1>15, <1>16, <1>17, <1>18, <1>19 DEF Recorded

LEMMA RecordedFinish ==
    ASSUME NEW q, NEW jobs, NEW p, Push(q, jobs, p),
           NEW r, NEW g, NEW d, NEW e \in Executions,
           OthersKept(r, g, e), RunsTyped(r), RunsTyped(g), TablesTyped(d),
           r[e].phase = "running", g[e].phase \in Statuses,
           g[e].nodes = r[e].nodes,
           VersionsOf(g, e) = VersionsOf(r, e),
           FinishShape(jobs, e, VersionsOf(r, e), g[e].phase),
           Recorded(q, r, d)
    PROVE  Recorded(p, g, d)
  <1> DEFINE ws == VersionsOf(r, e)
             st == g[e].phase
  <1>1. ws \in Seq(VersionIds) /\ Len(ws) \in Nat /\ DOMAIN ws = 1..Len(ws)
    BY DEF RunsTyped, IsState, VersionsOf
  <1>2. FinishShape(jobs, e, ws, st)
    OBVIOUS
  <1> HIDE DEF ws, st
  <1>3. \A i \in 1..Len(jobs) :
            \/ i = 1
            \/ /\ i - 1 \in 1..Len(ws) /\ Is(jobs[i], "version", e)
               /\ jobs[i][3] = ws[i - 1]
            \/ i = 2 + Len(ws)
    <2> SUFFICES ASSUME NEW i \in 1..Len(jobs), i # 1, i # 2 + Len(ws)
                 PROVE  /\ i - 1 \in 1..Len(ws) /\ Is(jobs[i], "version", e)
                        /\ jobs[i][3] = ws[i - 1]
      OBVIOUS
    <2>1. i - 1 \in 1..Len(ws) /\ (i - 1) + 1 = i
      BY <1>1, <1>2 DEF FinishShape
    <2> QED
      BY <1>2, <2>1 DEF FinishShape
  <1>4. /\ Is(jobs[1], "complete", e) /\ jobs[1][3] = st /\ 1 \in 1..Len(jobs)
        /\ Is(jobs[2 + Len(ws)], "session", e) /\ jobs[2 + Len(ws)][4].versions = ws
        /\ 2 + Len(ws) \in 1..Len(jobs) /\ Len(jobs) > 0
        /\ 1 \in 1..((2 + Len(ws)) - 1)
    BY <1>1, <1>2 DEF FinishShape
  <1>5. /\ JobsOf(jobs, e)
        /\ \A i \in 1..Len(jobs) : jobs[i][1] \in {"complete", "version", "session"}
        /\ \A i \in 1..Len(jobs) : jobs[i][1] = "complete" => i = 1
        /\ \A i \in 1..Len(jobs) : jobs[i][1] = "session" => i = 2 + Len(ws)
        /\ \A i \in 1..Len(jobs) : jobs[i][1] = "version" =>
              i - 1 \in 1..Len(ws) /\ jobs[i][3] = ws[i - 1]
    <2> SUFFICES ASSUME NEW i \in 1..Len(jobs)
                 PROVE  /\ jobs[i][2] = e
                        /\ jobs[i][1] \in {"complete", "version", "session"}
                        /\ jobs[i][1] = "complete" => i = 1
                        /\ jobs[i][1] = "session" => i = 2 + Len(ws)
                        /\ jobs[i][1] = "version" =>
                              i - 1 \in 1..Len(ws) /\ jobs[i][3] = ws[i - 1]
      BY DEF JobsOf
    <2>1. CASE i = 1
      BY <1>4, <2>1 DEF Is
    <2>2. CASE /\ i - 1 \in 1..Len(ws) /\ Is(jobs[i], "version", e)
               /\ jobs[i][3] = ws[i - 1]
      BY <2>2 DEF Is
    <2>3. CASE i = 2 + Len(ws)
      BY <1>4, <2>3 DEF Is
    <2> QED
      BY <1>3, <2>1, <2>2, <2>3
  <1>6. r[e].phase \notin Statuses /\ g[e].phase \in Begun /\ g[e].phase # "restoring"
        /\ r[e].phase # "abandoned" /\ r[e].nodes \in Nat /\ g[e].nodes \in Nat
    BY DEF Begun, Statuses, RunsTyped
  <1>7. AllCovered(q, d, ws) /\ Ordered(q, d, ws)
    BY DEF Recorded, Lineage, ws
  <1>8. \A i \in DOMAIN ws : \A j \in 1..(i - 1) : Covered(q, Len(q), d, ws[j])
    BY <1>1, <1>7 DEF AllCovered
  <1>9. AllCovered(p, d, ws)
    BY <1>7, AllCoveredPush DEF AllCovered
  <1>10. Lineage(p, g, d)
    BY <1>6, <1>7, <1>8, <1>9, LineagePush DEF Recorded, ws
  <1>11. NotBegun(p, g, d)
    BY <1>5, <1>6, NotBegunPush DEF Recorded
  <1>12. InsertedFirst(p, g, d)
    BY <1>5, InsertedPush DEF Recorded
  <1>13. OutcomeKept(p, g, d)
    <2>1. \E i \in 1..Len(jobs) : jobs[i][1] = "complete"
      BY <1>4 DEF Is
    <2>2. \A i \in 1..Len(jobs) : jobs[i][1] = "complete" => jobs[i][3] = g[e].phase
      BY <1>4, <1>5 DEF st
    <2> QED
      BY <1>5, <1>6, <2>1, <2>2, OutcomePushFinish DEF Recorded
  <1>14. SessionLast(p, g, d)
    <2>1. \E i \in 1..Len(jobs) : jobs[i][1] = "session"
      BY <1>4 DEF Is
    <2>2. \A i \in 1..Len(jobs) : jobs[i][1] = "session" =>
              \E m \in 1..(i - 1) : jobs[m][1] = "complete"
      BY <1>4, <1>5 DEF Is
    <2> QED
      BY <1>5, <1>6, <2>1, <2>2, SessionPush DEF Recorded
  <1>15. NodesCounted(p, g, d)
    <2>1. \A i \in 1..Len(jobs) : jobs[i][1] = "node" => i = 1
      BY <1>5
    <2>2. g[e].nodes = IF jobs[1][1] = "node" THEN r[e].nodes + 1 ELSE r[e].nodes
      BY <1>4 DEF Is
    <2> QED
      BY <1>4, <1>5, <1>6, <2>1, <2>2, NodesPush DEF Recorded
  <1>16. SessionStates(p, d)
    <2>1. ASSUME NEW i \in 1..Len(jobs), jobs[i][1] = "session",
                 NEW j \in DOMAIN jobs[i][4].versions
          PROVE  Covered(q, Len(q), d, jobs[i][4].versions[j])
      <3>1. jobs[i][4].versions = ws
        BY <1>4, <1>5, <2>1
      <3> QED
        BY <1>7, <2>1, <3>1 DEF AllCovered
    <2> QED
      BY <2>1, SessionStatesPush DEF Recorded
  <1>17. Committed(p, g, d)
    <2>1. ASSUME NEW i \in 1..Len(jobs), jobs[i][1] = "version"
          PROVE  Covered(q, Len(q), d, jobs[i][3])
      BY <1>1, <1>5, <1>7, <2>1 DEF AllCovered
    <2>2. r[e].nodes <= g[e].nodes
      BY <1>6
    <2>3. \A f \in Executions : r[f].nodes \in Nat
      BY DEF RunsTyped
    <2> QED
      BY <1>6, <2>1, <2>2, <2>3, CommittedPush DEF Recorded
  <1> QED
    BY <1>10, <1>11, <1>12, <1>13, <1>14, <1>15, <1>16, <1>17 DEF Recorded

LEMMA RecordedPop ==
    ASSUME NEW q, NEW p, Pop(q, p), NEW r, NEW d, NEW b, Writes(d, b, q[1]),
           \A k \in DOMAIN q : IsJob(q[k]),
           RunsTyped(r), TablesTyped(d), SessionsTyped(d),
           Recorded(q, r, d)
    PROVE  Recorded(p, r, b)
  <1>1. NotBegun(p, r, b)
    BY NotBegunPop DEF Recorded
  <1>2. InsertedFirst(p, r, b)
    BY InsertedPop DEF Recorded
  <1>3. OutcomeKept(p, r, b)
    BY OutcomePop DEF Recorded
  <1>4. SessionLast(p, r, b)
    BY SessionPop DEF Recorded
  <1>5. NodesCounted(p, r, b)
    BY NodesPop DEF Recorded
  <1>6. Lineage(p, r, b)
    BY LineagePop DEF Recorded
  <1>7. SessionStates(p, b)
    BY SessionStatesPop DEF Recorded
  <1>8. Committed(p, r, b)
    BY CommittedPop DEF Recorded
  <1> QED
    BY <1>1, <1>2, <1>3, <1>4, <1>5, <1>6, <1>7, <1>8 DEF Recorded

\* The head of the jobs outstanding refers to a row that is there.
LEMMA HeadAccepted ==
    ASSUME NEW q, NEW r, NEW d, 1 \in DOMAIN q, IsJob(q[1]), InsertedFirst(q, r, d)
    PROVE  q[1][1] \in {"node", "version", "complete"} => d.status[q[1][2]] # "absent"
  BY DEF InsertedFirst

-----------------------------------------------------------------------------
\* An execution that is given up takes nothing back.
LEMMA RecordedAbandon ==
    ASSUME NEW q, NEW r, NEW g, NEW d,
           \A e \in Executions :
               \/ g[e] = r[e]
               \/ /\ r[e].phase \in {"running", "restoring"}
                  /\ g[e].phase = "abandoned" /\ VersionsOf(g, e) = <<>>,
           Recorded(q, r, d)
    PROVE  Recorded(q, g, d)
  <1>1. NotBegun(q, g, d)
    BY DEF Recorded, NotBegun, Begun
  <1>2. InsertedFirst(q, g, d)
    BY DEF Recorded, InsertedFirst
  <1>3. OutcomeKept(q, g, d)
    <2> SUFFICES ASSUME NEW e \in Executions
                 PROVE  /\ g[e].phase \in Statuses <=> r[e].phase \in Statuses
                        /\ g[e].phase \in Statuses => g[e] = r[e]
      BY DEF Recorded, OutcomeKept
    <2> QED
      BY DEF Statuses
  <1>4. SessionLast(q, g, d)
    BY DEF Recorded, SessionLast, Statuses
  <1>5. NodesCounted(q, g, d)
    BY DEF Recorded, NodesCounted
  <1>6. Lineage(q, g, d)
    <2> SUFFICES ASSUME NEW e \in Executions
                 PROVE  /\ AllCovered(q, d, VersionsOf(g, e))
                        /\ Ordered(q, d, VersionsOf(g, e))
                        /\ g[e].phase = "restoring" => AllStored(d, VersionsOf(g, e))
      BY DEF Lineage
    <2>1. CASE g[e] = r[e]
      BY <2>1 DEF Recorded, Lineage, VersionsOf
    <2>2. CASE g[e].phase = "abandoned" /\ VersionsOf(g, e) = <<>>
      BY <2>2 DEF AllCovered, Ordered
    <2> QED
      BY <2>1, <2>2
  <1>7. SessionStates(q, d)
    BY DEF Recorded
  <1>8. Committed(q, g, d)
    BY DEF Recorded, Committed
  <1> QED
    BY <1>1, <1>2, <1>3, <1>4, <1>5, <1>6, <1>7, <1>8 DEF Recorded

\* The state that is restored is one whose versions are stored.
LEMMA RecordedRead ==
    ASSUME NEW q, NEW r, NEW g, NEW d, NEW e \in Executions,
           OthersKept(r, g, e), RunsTyped(g),
           r[e].phase \notin Begun, g[e].phase = "restoring",
           g[e].nodes = r[e].nodes, AllStored(d, VersionsOf(g, e)),
           Recorded(q, r, d)
    PROVE  Recorded(q, g, d)
  <1>0. r[e].phase \notin Statuses /\ r[e].phase # "abandoned"
        /\ g[e].phase \notin Statuses /\ g[e].phase \notin Begun
    BY DEF Begun, Statuses
  <1>1. NotBegun(q, g, d)
    BY <1>0 DEF Recorded, NotBegun, OthersKept
  <1>2. InsertedFirst(q, g, d)
    BY DEF Recorded, InsertedFirst, OthersKept
  <1>3. OutcomeKept(q, g, d)
    <2> SUFFICES ASSUME NEW f \in Executions
                 PROVE  /\ g[f].phase \in Statuses <=> r[f].phase \in Statuses
                        /\ g[f].phase \in Statuses => g[f] = r[f]
      BY DEF Recorded, OutcomeKept
    <2> QED
      BY <1>0 DEF OthersKept
  <1>4. SessionLast(q, g, d)
    BY <1>0 DEF Recorded, SessionLast, OthersKept
  <1>5. NodesCounted(q, g, d)
    BY <1>0 DEF Recorded, NodesCounted, OthersKept
  <1>6. Lineage(q, g, d)
    <2> SUFFICES ASSUME NEW f \in Executions
                 PROVE  /\ AllCovered(q, d, VersionsOf(g, f))
                        /\ Ordered(q, d, VersionsOf(g, f))
                        /\ g[f].phase = "restoring" => AllStored(d, VersionsOf(g, f))
      BY DEF Lineage
    <2>1. CASE f # e
      BY <2>1 DEF Recorded, Lineage, VersionsOf, OthersKept
    <2>2. CASE f = e
      <3>1. VersionsOf(g, e) \in Seq(VersionIds)
        BY DEF RunsTyped, IsState, VersionsOf
      <3> QED
        BY <2>2, <3>1, StoredOrdered DEF AllCovered
    <2> QED
      BY <2>1, <2>2
  <1>7. SessionStates(q, d)
    BY DEF Recorded
  <1>8. Committed(q, g, d)
    BY <1>0 DEF Recorded, Committed, OthersKept
  <1> QED
    BY <1>1, <1>2, <1>3, <1>4, <1>5, <1>6, <1>7, <1>8 DEF Recorded

-----------------------------------------------------------------------------
State == [versions : Seq(VersionIds), stop : BOOLEAN]

Run == [phase : {"none", "restoring"} \cup Begun, session : Sessions,
        restored : BOOLEAN, nodes : Nat, state : State]

Rows == UNION {[D -> Executions] : D \in SUBSET VersionIds}

Tables == [status   : [Executions -> {"absent", "running"} \cup Statuses],
           nodes    : [Executions -> Nat],
           versions : Rows,
           session  : [Sessions -> [history : Seq(Executions), state : State]]]

Job == ({"insert", "node"} \X Executions)
       \cup ({"version"} \X Executions \X VersionIds)
       \cup ({"complete"} \X Executions \X Statuses)
       \cup ({"session"} \X Executions \X Sessions \X State)

Types ==
    /\ run \in [Executions -> Run]
    /\ db \in Tables
    /\ queue \in Seq(Job) /\ Len(queue) <= QueueSize
    /\ worker = "writing" => job \in Job
    /\ lost \in BOOLEAN

IInv == Types /\ (~lost => Recorded(Outstanding(worker, job, queue), run, db))

LEMMA JobIs ==
    ASSUME NEW j \in Job
    PROVE  IsJob(j)
  <1>1. CASE j \in {"insert", "node"} \X Executions
    BY <1>1 DEF IsJob
  <1>2. CASE j \in {"version"} \X Executions \X VersionIds
    BY <1>2 DEF IsJob
  <1>3. CASE j \in {"complete"} \X Executions \X Statuses
    BY <1>3 DEF IsJob
  <1>4. CASE j \in {"session"} \X Executions \X Sessions \X State
    BY <1>4 DEF IsJob, IsState, State
  <1> QED
    BY <1>1, <1>2, <1>3, <1>4 DEF Job

LEMMA RunsAre ==
    ASSUME NEW r \in [Executions -> Run]
    PROVE  RunsTyped(r)
  BY DEF RunsTyped, Run, State, IsState

LEMMA TablesAre ==
    ASSUME NEW d \in Tables
    PROVE  TablesTyped(d) /\ SessionsTyped(d)
  BY DEF TablesTyped, SessionsTyped, Tables, State, IsState

LEMMA ExecutionWrites ==
    ASSUME db \in Tables, NEW j \in Job, j[1] \in {"insert", "complete"},
           j[1] = "complete" => db.status[j[2]] # "absent"
    PROVE  Writes(db, ExecutionWritten(j), j)
  <1> DEFINE b == ExecutionWritten(j)
  <1>1. IsJob(j)
    BY JobIs
  <1>2. /\ b.status = [db.status EXCEPT ![j[2]] =
                          IF j[1] = "insert" THEN "running"
                          ELSE IF @ = "absent" THEN @ ELSE j[3]]
        /\ b.nodes = db.nodes /\ b.versions = db.versions /\ b.session = db.session
    BY DEF ExecutionWritten, Tables
  <1>3. \A e \in Executions :
            b.status[e] = IF e = j[2]
                          THEN IF j[1] = "insert" THEN "running"
                               ELSE IF db.status[e] = "absent" THEN "absent" ELSE j[3]
                          ELSE db.status[e]
    BY <1>1, <1>2 DEF Tables, IsJob
  <1> HIDE DEF b
  <1>4. Writes(db, b, j)
    BY <1>2, <1>3 DEF Writes, Is
  <1> QED
    BY <1>4 DEF b

LEMMA NodeWrites ==
    ASSUME db \in Tables, NEW j \in Job, j[1] = "node"
    PROVE  Writes(db, NodeWritten(j), j)
  <1> DEFINE b == NodeWritten(j)
  <1>1. IsJob(j)
    BY JobIs
  <1>2. /\ b.nodes = [db.nodes EXCEPT ![j[2]] = @ + 1]
        /\ b.status = db.status /\ b.versions = db.versions /\ b.session = db.session
    BY DEF NodeWritten, Tables
  <1>3. \A e \in Executions :
            b.nodes[e] = IF e = j[2] THEN db.nodes[e] + 1 ELSE db.nodes[e]
    BY <1>1, <1>2 DEF Tables, IsJob
  <1> HIDE DEF b
  <1>4. Writes(db, b, j)
    BY <1>2, <1>3 DEF Writes, Is
  <1> QED
    BY <1>4 DEF b

LEMMA VersionWrites ==
    ASSUME db \in Tables, NEW j \in Job, j[1] = "version"
    PROVE  Writes(db, VersionWritten(j), j)
  <1> DEFINE b == VersionWritten(j)
  <1>2. /\ b.versions = [v \in DOMAIN db.versions \cup {j[3]} |->
                            IF v = j[3] THEN j[2] ELSE db.versions[v]]
        /\ b.status = db.status /\ b.nodes = db.nodes /\ b.session = db.session
    BY DEF VersionWritten, Tables
  <1>3. DOMAIN b.versions = DOMAIN db.versions \cup {j[3]}
    BY <1>2
  <1> HIDE DEF b
  <1>4. Writes(db, b, j)
    BY <1>2, <1>3 DEF Writes, Is
  <1> QED
    BY <1>4 DEF b

LEMMA SessionWrites ==
    ASSUME db \in Tables, NEW j \in Job, j[1] = "session"
    PROVE  Writes(db, SessionWritten(j), j)
  <1> DEFINE b == SessionWritten(j)
  <1>1. IsJob(j)
    BY JobIs
  <1>2. /\ b.session = [db.session EXCEPT ![j[3]] =
                           [history |-> Append(@.history, j[2]), state |-> j[4]]]
        /\ b.status = db.status /\ b.nodes = db.nodes /\ b.versions = db.versions
    BY DEF SessionWritten, Tables
  <1>3. b.status = db.status /\ b.nodes = db.nodes /\ b.versions = db.versions
    BY <1>2
  <1>5. \A s \in Sessions :
            b.session[s] = IF s = j[3]
                           THEN [history |-> Append(db.session[s].history, j[2]),
                                 state |-> j[4]]
                           ELSE db.session[s]
    BY <1>1, <1>2 DEF Tables, IsJob
  <1> HIDE DEF b
  <1>6. ASSUME NEW s \in Sessions
        PROVE  /\ j[3] = s => /\ b.session[s].history = Append(db.session[s].history, j[2])
                             /\ b.session[s].state = j[4]
               /\ j[3] # s => b.session[s] = db.session[s]
    <2>1. CASE j[3] = s
      <3>1. b.session[s] = [history |-> Append(db.session[s].history, j[2]),
                            state |-> j[4]]
        BY <1>5, <2>1
      <3> QED
        BY <2>1, <3>1
    <2>2. CASE j[3] # s
      BY <1>5, <2>2
    <2> QED
      BY <2>1, <2>2
  <1>7. \A e \in Executions :
            /\ b.status[e] = IF Is(j, "insert", e) THEN "running"
                             ELSE IF Is(j, "complete", e) THEN j[3] ELSE db.status[e]
            /\ b.nodes[e] = IF Is(j, "node", e) THEN db.nodes[e] + 1 ELSE db.nodes[e]
    BY <1>3 DEF Is
  <1>8. \A s \in Sessions :
            IF j[1] = "session" /\ j[3] = s
            THEN /\ b.session[s].history = Append(db.session[s].history, j[2])
                 /\ b.session[s].state = j[4]
            ELSE b.session[s] = db.session[s]
    BY <1>6, Zenon
  <1>9. DOMAIN b.versions = IF j[1] = "version" THEN DOMAIN db.versions \cup {j[3]}
                            ELSE DOMAIN db.versions
    BY <1>3
  <1>4. Writes(db, b, j)
    BY <1>7, <1>8, <1>9, Zenon DEF Writes
  <1> QED
    BY <1>4 DEF b

LEMMA WrittenWrites ==
    ASSUME db \in Tables, NEW j \in Job,
           j[1] = "complete" => db.status[j[2]] # "absent"
    PROVE  Writes(db, Written(j), j)
  <1>1. j[1] \in {"insert", "node", "version", "complete", "session"}
    BY JobIs DEF IsJob
  <1>2. CASE j[1] \in {"insert", "complete"}
    BY <1>2, ExecutionWrites DEF Written
  <1>3. CASE j[1] = "node"
    BY <1>3, NodeWrites DEF Written
  <1>4. CASE j[1] = "version"
    BY <1>4, VersionWrites DEF Written
  <1>5. CASE j[1] = "session"
    BY <1>5, SessionWrites DEF Written
  <1> QED
    BY <1>1, <1>2, <1>3, <1>4, <1>5

LEMMA WrittenTyped ==
    ASSUME db \in Tables, NEW j \in Job
    PROVE  Written(j) \in Tables
  <1>1. IsJob(j) /\ j[1] \in {"insert", "node", "version", "complete", "session"}
    BY JobIs DEF IsJob
  <1>2. CASE j[1] \in {"insert", "complete"}
    <2>1. ExecutionWritten(j) \in Tables
      BY <1>1, <1>2 DEF ExecutionWritten, Tables, IsJob
    <2> QED
      BY <1>2, <2>1 DEF Written
  <1>3. CASE j[1] = "node"
    <2> DEFINE nodes == [db.nodes EXCEPT ![j[2]] = @ + 1]
    <2>2. db.nodes \in [Executions -> Nat]
      BY DEF Tables
    <2>3. nodes \in [Executions -> Nat]
      BY <1>1, <2>2 DEF IsJob
    <2>4. NodeWritten(j) = [db EXCEPT !.nodes = nodes]
      BY DEF NodeWritten
    <2> HIDE DEF nodes
    <2>1. NodeWritten(j) \in Tables
      BY <2>3, <2>4 DEF Tables
    <2> QED
      BY <1>3, <2>1 DEF Written
  <1>4. CASE j[1] = "version"
    <2>1. DOMAIN db.versions \in SUBSET VersionIds /\ db.versions \in Rows
          /\ \A v \in DOMAIN db.versions : db.versions[v] \in Executions
      BY DEF Tables, Rows
    <2> DEFINE D == DOMAIN db.versions \cup {j[3]}
               rows == [v \in D |-> IF v = j[3] THEN j[2] ELSE db.versions[v]]
    <2>2. D \in SUBSET VersionIds /\ rows \in [D -> Executions]
      BY <1>1, <1>4, <2>1 DEF IsJob
    <2>3. rows \in Rows
      BY <2>2 DEF Rows
    <2>4. VersionWritten(j) = [db EXCEPT !.versions = rows]
      BY DEF VersionWritten
    <2> HIDE DEF rows
    <2>5. VersionWritten(j) \in Tables
      BY <2>3, <2>4 DEF Tables
    <2> QED
      BY <1>4, <2>5 DEF Written
  <1>5. CASE j[1] = "session"
    <2>1. j[3] \in Sessions /\ j[2] \in Executions /\ j[4] \in State
      BY <1>5 DEF Job
    <2>2. Append(db.session[j[3]].history, j[2]) \in Seq(Executions)
      BY <2>1 DEF Tables
    <2>3. SessionWritten(j) \in Tables
      BY <2>1, <2>2 DEF SessionWritten, Tables
    <2> QED
      BY <1>5, <2>3 DEF Written
  <1> QED
    BY <1>1, <1>2, <1>3, <1>4, <1>5

-----------------------------------------------------------------------------
LEMMA VersionJobsAre ==
    ASSUME NEW e \in Executions, NEW state \in State
    PROVE  /\ VersionJobs(e, state) \in Seq(Job)
           /\ Len(VersionJobs(e, state)) = Len(state.versions)
           /\ Len(state.versions) \in Nat
           /\ \A i \in 1..Len(state.versions) :
                 VersionJobs(e, state)[i] = <<"version", e, state.versions[i]>>
  <1> DEFINE vs == state.versions
             jobs == [i \in 1..Len(vs) |-> <<"version", e, vs[i]>>]
  <1>1. vs \in Seq(VersionIds) /\ DOMAIN vs = 1..Len(vs) /\ Len(vs) \in Nat
        /\ \A i \in 1..Len(vs) : vs[i] \in VersionIds
    BY DEF State
  <1>2. VersionJobs(e, state) = jobs
    BY <1>1 DEF VersionJobs
  <1> HIDE DEF vs
  <1>3. \A i \in 1..Len(vs) : jobs[i] = <<"version", e, vs[i]>> /\ jobs[i] \in Job
    BY <1>1 DEF Job
  <1>4. jobs \in [1..Len(vs) -> Job]
    BY <1>3
  <1>5. jobs \in Seq(Job) /\ Len(jobs) = Len(vs)
    BY <1>1, <1>4
  <1> QED
    BY <1>1, <1>2, <1>3, <1>5 DEF vs

LEMMA NodeEndJobsAre ==
    ASSUME NEW e \in Executions, NEW state \in State
    PROVE  /\ NodeEndJobs(e, state) \in Seq(Job)
           /\ NodeEndShape(NodeEndJobs(e, state), e, state.versions)
  <1> DEFINE vj == VersionJobs(e, state)
             jobs == <<<<"node", e>>>> \o vj
             n == Len(state.versions)
  <1>1. /\ vj \in Seq(Job) /\ Len(vj) = n /\ n \in Nat
        /\ \A i \in 1..n : vj[i] = <<"version", e, state.versions[i]>>
    BY VersionJobsAre
  <1>2. <<"node", e>> \in Job
    BY DEF Job
  <1> HIDE DEF vj, n
  <1>3. jobs \in Seq(Job) /\ Len(jobs) = 1 + n /\ jobs[1] = <<"node", e>>
        /\ \A i \in 1..n : jobs[i + 1] = vj[i]
    BY <1>1, <1>2
  <1> HIDE DEF jobs
  <1>4. NodeEndShape(jobs, e, state.versions)
    BY <1>1, <1>3 DEF NodeEndShape, Is, n
  <1> QED
    BY <1>3, <1>4 DEF NodeEndJobs, jobs, vj

LEMMA FinishJobsAre ==
    ASSUME NEW e \in Executions, NEW state \in State, NEW status \in Statuses,
           run[e].session \in Sessions
    PROVE  /\ FinishJobs(e, state, status) \in Seq(Job)
           /\ FinishShape(FinishJobs(e, state, status), e, state.versions, status)
  <1> DEFINE vj == VersionJobs(e, state)
             first == <<"complete", e, status>>
             last == <<"session", e, run[e].session, state>>
             most == <<first>> \o vj
             jobs == most \o <<last>>
             n == Len(state.versions)
  <1>1. /\ vj \in Seq(Job) /\ Len(vj) = n /\ n \in Nat
        /\ \A i \in 1..n : vj[i] = <<"version", e, state.versions[i]>>
    BY VersionJobsAre
  <1>2. first \in Job /\ last \in Job
    BY DEF Job
  <1>3. /\ first[1] = "complete" /\ first[2] = e /\ first[3] = status
        /\ last[1] = "session" /\ last[2] = e /\ last[4].versions = state.versions
    OBVIOUS
  <1> HIDE DEF vj, n, first, last
  <1>4. most \in Seq(Job) /\ Len(most) = 1 + n /\ most[1] = first
        /\ \A i \in 1..n : most[i + 1] = vj[i]
    BY <1>1, <1>2
  <1> HIDE DEF most
  <1>5. jobs \in Seq(Job) /\ Len(jobs) = 2 + n /\ jobs[2 + n] = last
        /\ \A i \in 1..(n + 1) : jobs[i] = most[i]
    BY <1>1, <1>2, <1>4
  <1> HIDE DEF jobs
  <1>6. jobs[1] = first /\ \A i \in 1..n : jobs[i + 1] = vj[i]
    BY <1>1, <1>4, <1>5
  <1>7. FinishShape(jobs, e, state.versions, status)
    BY <1>1, <1>3, <1>5, <1>6 DEF FinishShape, Is, n
  <1> QED
    BY <1>5, <1>7 DEF FinishJobs, jobs, most, vj, first, last

\* What is submitted without a loss is submitted in full.
LEMMA Submitted ==
    ASSUME Types, NEW jobs \in Seq(Job), Submit(jobs)
    PROVE  /\ queue' \in Seq(Job) /\ Len(queue') <= QueueSize
           /\ lost' \in BOOLEAN
           /\ ~lost' => ~lost /\ queue' = queue \o jobs
  <1> DEFINE room == IF shutdown # "no" THEN 0 ELSE QueueSize - Len(queue)
             taken == IF Len(jobs) <= room THEN Len(jobs) ELSE room
             part == SubSeq(jobs, 1, taken)
  <1>1. /\ queue \in Seq(Job) /\ Len(queue) \in Nat /\ Len(queue) <= QueueSize
        /\ QueueSize \in Nat /\ Len(jobs) \in Nat
    BY PersistenceAssumption DEF Types
  <1>2. queue' = queue \o part /\ lost' = (lost \/ taken < Len(jobs))
    BY DEF Submit
  <1>3. room \in Nat /\ Len(queue) + room <= QueueSize
    <2>1. CASE shutdown # "no"
      BY <1>1, <2>1
    <2>2. CASE shutdown = "no"
      BY <1>1, <2>2
    <2> QED
      BY <2>1, <2>2
  <1> HIDE DEF room
  <1>4. taken \in 0..Len(jobs) /\ Len(queue) + taken <= QueueSize
    BY <1>1, <1>3
  <1> HIDE DEF taken
  <1>5. part \in Seq(Job) /\ Len(part) = taken
    BY <1>4, SubSeqProperties
  <1>6. taken = Len(jobs) => part = jobs
    <2> SUFFICES ASSUME taken = Len(jobs)
                 PROVE  SubSeq(jobs, 1, Len(jobs)) = jobs
      OBVIOUS
    <2> QED
      BY SubSeqFull
  <1> HIDE DEF part
  <1>7. queue' \in Seq(Job) /\ Len(queue') = Len(queue) + taken
    <2>1. /\ queue \o part \in Seq(Job)
          /\ Len(queue \o part) = Len(queue) + Len(part)
      BY <1>1, <1>5, ConcatProperties
    <2> QED
      BY <1>2, <1>5, <2>1
  <1>8. ASSUME ~lost'
        PROVE  ~lost /\ queue' = queue \o jobs
    <2>1. ~lost /\ ~(taken < Len(jobs))
      BY <1>2, <1>8
    <2>2. taken = Len(jobs)
      BY <1>1, <1>4, <2>1
    <2> QED
      BY <1>2, <1>6, <2>1, <2>2
  <1>9. lost' \in BOOLEAN
    BY <1>2 DEF Types
  <1> QED
    BY <1>4, <1>7, <1>8, <1>9

LEMMA OutstandingIs ==
    ASSUME NEW q \in Seq(Job), NEW j \in Job
    PROVE  /\ <<j>> \o q \in Seq(Job)
           /\ Len(<<j>> \o q) = 1 + Len(q) /\ Len(q) \in Nat
           /\ (<<j>> \o q)[1] = j
           /\ \A k \in 1..Len(q) : (<<j>> \o q)[k + 1] = q[k]
  OBVIOUS

LEMMA OutstandingPush ==
    ASSUME NEW w, NEW j, w = "writing" => j \in Job,
           NEW q \in Seq(Job), NEW jobs \in Seq(Job)
    PROVE  Push(Outstanding(w, j, q), jobs, Outstanding(w, j, q \o jobs))
  <1>1. CASE w = "writing"
    <2> DEFINE a == <<j>> \o q
               c == <<j>> \o (q \o jobs)
    <2>1. a \in Seq(Job) /\ Len(a) \in Nat /\ DOMAIN a = 1..Len(a)
      BY <1>1
    <2>2. a \o jobs = c
      BY <1>1
    <2> HIDE DEF a, c
    <2>3. Push(a, jobs, a \o jobs)
      BY <2>1 DEF Push
    <2> QED
      BY <1>1, <2>2, <2>3 DEF Outstanding, a, c
  <1>2. CASE w # "writing"
    BY <1>2 DEF Outstanding, Push
  <1> QED
    BY <1>1, <1>2

LEMMA OutstandingPop ==
    ASSUME NEW j \in Job, NEW q \in Seq(Job), NEW i
    PROVE  /\ Pop(Outstanding("writing", j, q), Outstanding("idle", i, q))
           /\ Outstanding("writing", j, q)[1] = j
           /\ \A k \in DOMAIN Outstanding("writing", j, q) :
                 IsJob(Outstanding("writing", j, q)[k])
  <1> DEFINE a == <<j>> \o q
  <1>1. /\ a \in Seq(Job) /\ DOMAIN a = 1..Len(a) /\ Len(a) = 1 + Len(q)
        /\ Len(q) \in Nat /\ DOMAIN q = 1..Len(q)
        /\ a[1] = j /\ \A k \in 1..Len(q) : a[k + 1] = q[k]
    BY OutstandingIs
  <1>2. Outstanding("writing", j, q) = a /\ Outstanding("idle", i, q) = q
    BY DEF Outstanding
  <1> HIDE DEF a
  <1>3. Pop(a, q)
    BY <1>1 DEF Pop
  <1>4. \A k \in DOMAIN a : a[k] \in Job
    BY <1>1
  <1>5. \A k \in DOMAIN a : IsJob(a[k])
    BY <1>4, JobIs
  <1> QED
    BY <1>1, <1>2, <1>3, <1>5

-----------------------------------------------------------------------------
\* begin, from a state whose versions are stored.
LEMMA BeginKeepsInv ==
    ASSUME IInv, NEW e \in Executions, NEW s \in Sessions, NEW restored \in BOOLEAN,
           NEW state \in State, Begin(e, s, restored, state),
           run[e].phase \notin Begun,
           ~lost => AllStored(db, state.versions)
    PROVE  IInv'
  <1> DEFINE jobs == <<<<"insert", e>>>>
             new == [phase |-> "running", session |-> s, restored |-> restored,
                     nodes |-> 0, state |-> state]
  <1>0. Types /\ (~lost => Recorded(Outstanding(worker, job, queue), run, db))
    BY DEF IInv
  <1>1. /\ run' = [run EXCEPT ![e] = new] /\ Submit(jobs)
        /\ worker' = worker /\ job' = job /\ db' = db
    BY DEF Begin
  <1>2. new \in Run /\ run \in [Executions -> Run]
    BY <1>0 DEF Run, Begun, Types
  <1>3. jobs \in Seq(Job) /\ Len(jobs) = 1 /\ Is(jobs[1], "insert", e)
    BY DEF Job, Is
  <1>4. run' \in [Executions -> Run] /\ run'[e] = new /\ OthersKept(run, run', e)
    BY <1>1, <1>2 DEF OthersKept
  <1>5. run'[e].phase = "running" /\ run'[e].nodes = 0 /\ VersionsOf(run', e) = state.versions
    BY <1>4 DEF VersionsOf
  <1> HIDE DEF jobs, new
  <1>6. /\ queue' \in Seq(Job) /\ Len(queue') <= QueueSize /\ lost' \in BOOLEAN
        /\ ~lost' => ~lost /\ queue' = queue \o jobs
    BY <1>0, <1>1, <1>3, Submitted
  <1>7. Types'
    BY <1>0, <1>1, <1>4, <1>6 DEF Types
  <1>8. ASSUME ~lost'
        PROVE  Recorded(Outstanding(worker', job', queue'), run', db')
    <2> DEFINE q == Outstanding(worker, job, queue)
               p == Outstanding(worker', job', queue')
    <2>1. Push(q, jobs, p)
      BY <1>0, <1>1, <1>3, <1>6, <1>8, OutstandingPush DEF Types
    <2>2. Recorded(q, run, db) /\ AllStored(db, VersionsOf(run', e))
      BY <1>0, <1>5, <1>6, <1>8
    <2>3. RunsTyped(run) /\ RunsTyped(run') /\ TablesTyped(db)
      BY <1>0, <1>4, RunsAre, TablesAre DEF Types
    <2> HIDE DEF q, p
    <2>4. Recorded(p, run', db)
      BY <1>3, <1>4, <1>5, <2>1, <2>2, <2>3, RecordedBegin
    <2> QED
      BY <1>1, <2>4 DEF p
  <1> QED
    BY <1>7, <1>8 DEF IInv

LEMMA StartRequestKeepsInv ==
    ASSUME IInv, NEW e \in Executions, StartRequest(e)
    PROVE  IInv'
  <1>1. PICK s \in Sessions : Begin(e, s, FALSE, NewState)
    BY DEF StartRequest
  <1>2. NewState \in State /\ AllStored(db, NewState.versions)
    BY DEF NewState, State, AllStored
  <1>3. run[e].phase \notin Begun
    BY DEF StartRequest, Fresh, Begun, Statuses
  <1> QED
    BY <1>1, <1>2, <1>3, BeginKeepsInv

LEMMA RestoreSessionKeepsInv ==
    ASSUME IInv, NEW e \in Executions, RestoreSession(e)
    PROVE  IInv'
  <1>1. Begin(e, run[e].session, TRUE, run[e].state) /\ run[e].phase = "restoring"
    BY DEF RestoreSession
  <1>2. run[e].session \in Sessions /\ run[e].state \in State
    BY DEF IInv, Types, Run
  <1>3. ~lost => AllStored(db, run[e].state.versions)
    BY <1>1 DEF IInv, Recorded, Lineage, VersionsOf
  <1>4. run[e].phase \notin Begun
    BY <1>1 DEF Begun, Statuses
  <1> QED
    BY <1>1, <1>2, <1>3, <1>4, BeginKeepsInv

LEMMA ReadSessionKeepsInv ==
    ASSUME IInv, NEW e \in Executions, ReadSession(e)
    PROVE  IInv'
  <1>1. PICK s \in Sessions :
            run' = [run EXCEPT ![e].phase = "restoring", ![e].session = s,
                               ![e].state = db.session[s].state]
    BY DEF ReadSession
  <1>2. /\ queue' = queue /\ worker' = worker /\ job' = job
        /\ db' = db /\ lost' = lost
    BY DEF ReadSession, process
  <1>3. run \in [Executions -> Run] /\ db \in Tables /\ Types
    BY DEF IInv, Types
  <1>4. db.session[s].state \in State
    BY <1>3 DEF Tables
  <1>5. /\ run'[e] = [run[e] EXCEPT !.phase = "restoring", !.session = s,
                                    !.state = db.session[s].state]
        /\ OthersKept(run, run', e) /\ run' \in [Executions -> Run]
    BY <1>1, <1>3, <1>4 DEF OthersKept, Run
  <1>6. /\ run'[e].phase = "restoring" /\ run'[e].nodes = run[e].nodes
        /\ VersionsOf(run', e) = db.session[s].state.versions
    BY <1>3, <1>5 DEF VersionsOf, Run
  <1>7. run[e].phase \notin Begun
    BY DEF ReadSession, Fresh, Begun, Statuses
  <1>8. Types'
    BY <1>2, <1>3, <1>5 DEF Types
  <1>9. ASSUME ~lost
        PROVE  Recorded(Outstanding(worker, job, queue), run', db)
    <2>1. Recorded(Outstanding(worker, job, queue), run, db)
      BY <1>9 DEF IInv
    <2>2. AllStored(db, VersionsOf(run', e))
      BY <1>6, <2>1 DEF Recorded, SessionStates
    <2>3. OthersKept(run, run', e) /\ RunsTyped(run')
      BY <1>5, RunsAre
    <2> QED
      BY <1>6, <1>7, <2>1, <2>2, <2>3, RecordedRead
  <1> QED
    BY <1>2, <1>8, <1>9 DEF IInv

LEMMA EndNodeKeepsInv ==
    ASSUME IInv, NEW e \in Executions, EndNode(e)
    PROVE  IInv'
  <1> DEFINE n == run[e].nodes + 1
  <1>0. /\ Types /\ (~lost => Recorded(Outstanding(worker, job, queue), run, db))
        /\ run \in [Executions -> Run]
    BY DEF IInv, Types
  <1>1. PICK stops \in BOOLEAN :
            LET state == [versions |-> Append(run[e].state.versions, <<e, n>>),
                          stop |-> stops]
            IN /\ run' = [run EXCEPT ![e].nodes = n, ![e].state = state]
               /\ Submit(NodeEndJobs(e, state))
    BY DEF EndNode
  <1> DEFINE state == [versions |-> Append(run[e].state.versions, <<e, n>>),
                       stop |-> stops]
             jobs == NodeEndJobs(e, state)
  <1>2. /\ worker' = worker /\ job' = job /\ db' = db
        /\ run[e].phase = "running" /\ run[e].nodes < MaxNodes
    BY DEF EndNode
  <1>3. run[e].nodes \in Nat /\ run[e].state.versions \in Seq(VersionIds)
    BY <1>0 DEF Run, State
  <1>4. n \in Nat /\ <<e, n>> \in VersionIds
    BY <1>2, <1>3, PersistenceAssumption DEF VersionIds
  <1>5. state \in State
    BY <1>3, <1>4 DEF State
  <1>6. jobs \in Seq(Job) /\ NodeEndShape(jobs, e, state.versions)
    BY <1>5, NodeEndJobsAre
  <1>7. run' = [run EXCEPT ![e].nodes = n, ![e].state = state] /\ Submit(jobs)
    BY <1>1
  <1>8. state.versions = Append(VersionsOf(run, e), <<e, n>>)
    BY DEF VersionsOf
  <1> HIDE DEF state, jobs, n
  <1>9. /\ run'[e] = [run[e] EXCEPT !.nodes = n, !.state = state]
        /\ OthersKept(run, run', e) /\ run' \in [Executions -> Run]
    BY <1>0, <1>4, <1>5, <1>7 DEF OthersKept, Run
  <1>10. /\ run'[e].phase = "running" /\ run'[e].nodes = n
         /\ VersionsOf(run', e) = state.versions
    BY <1>0, <1>2, <1>9 DEF VersionsOf, Run
  <1>11. /\ queue' \in Seq(Job) /\ Len(queue') <= QueueSize /\ lost' \in BOOLEAN
         /\ ~lost' => ~lost /\ queue' = queue \o jobs
    BY <1>0, <1>6, <1>7, Submitted
  <1>12. Types'
    BY <1>0, <1>2, <1>9, <1>11 DEF Types
  <1>13. ASSUME ~lost'
         PROVE  Recorded(Outstanding(worker', job', queue'), run', db')
    <2> DEFINE q == Outstanding(worker, job, queue)
               p == Outstanding(worker', job', queue')
    <2>1. Push(q, jobs, p)
      BY <1>0, <1>2, <1>6, <1>11, <1>13, OutstandingPush DEF Types
    <2>2. Recorded(q, run, db)
      BY <1>0, <1>11, <1>13
    <2>3. RunsTyped(run) /\ RunsTyped(run') /\ TablesTyped(db)
      BY <1>0, <1>9, RunsAre, TablesAre DEF Types
    <2>4. /\ run'[e].nodes = run[e].nodes + 1
          /\ <<e, run'[e].nodes>> \in VersionIds
          /\ VersionsOf(run', e) = Append(VersionsOf(run, e), <<e, run'[e].nodes>>)
          /\ NodeEndShape(jobs, e, VersionsOf(run', e))
      BY <1>4, <1>6, <1>8, <1>10 DEF n
    <2> HIDE DEF q, p
    <2>5. Recorded(p, run', db)
      BY <1>2, <1>9, <1>10, <2>1, <2>2, <2>3, <2>4, RecordedEndNode
    <2> QED
      BY <1>2, <2>5 DEF p
  <1> QED
    BY <1>12, <1>13 DEF IInv

LEMMA FinishExecutionKeepsInv ==
    ASSUME IInv, NEW e \in Executions, FinishExecution(e)
    PROVE  IInv'
  <1>0. /\ Types /\ (~lost => Recorded(Outstanding(worker, job, queue), run, db))
        /\ run \in [Executions -> Run]
    BY DEF IInv, Types
  <1>1. PICK status \in Statuses :
            /\ run' = [run EXCEPT ![e].phase = status]
            /\ Submit(FinishJobs(e, run[e].state, status))
    BY DEF FinishExecution
  <1> DEFINE jobs == FinishJobs(e, run[e].state, status)
  <1>2. /\ worker' = worker /\ job' = job /\ db' = db /\ run[e].phase = "running"
    BY DEF FinishExecution
  <1>3. run[e].state \in State /\ run[e].session \in Sessions
    BY <1>0 DEF Run
  <1>4. jobs \in Seq(Job) /\ FinishShape(jobs, e, VersionsOf(run, e), status)
    BY <1>3, FinishJobsAre DEF VersionsOf
  <1>5. Submit(jobs)
    BY <1>1
  <1> HIDE DEF jobs
  <1>6. /\ run'[e] = [run[e] EXCEPT !.phase = status]
        /\ OthersKept(run, run', e) /\ run' \in [Executions -> Run]
    BY <1>0, <1>1 DEF OthersKept, Run, Begun
  <1>7. /\ run'[e].phase = status /\ run'[e].nodes = run[e].nodes
        /\ VersionsOf(run', e) = VersionsOf(run, e)
    BY <1>0, <1>6 DEF VersionsOf, Run
  <1>8. /\ queue' \in Seq(Job) /\ Len(queue') <= QueueSize /\ lost' \in BOOLEAN
        /\ ~lost' => ~lost /\ queue' = queue \o jobs
    BY <1>0, <1>4, <1>5, Submitted
  <1>9. Types'
    BY <1>0, <1>2, <1>6, <1>8 DEF Types
  <1>10. ASSUME ~lost'
         PROVE  Recorded(Outstanding(worker', job', queue'), run', db')
    <2> DEFINE q == Outstanding(worker, job, queue)
               p == Outstanding(worker', job', queue')
    <2>1. Push(q, jobs, p)
      BY <1>0, <1>2, <1>4, <1>8, <1>10, OutstandingPush DEF Types
    <2>2. Recorded(q, run, db)
      BY <1>0, <1>8, <1>10
    <2>3. RunsTyped(run) /\ RunsTyped(run') /\ TablesTyped(db)
      BY <1>0, <1>6, RunsAre, TablesAre DEF Types
    <2>4. run'[e].phase \in Statuses /\ FinishShape(jobs, e, VersionsOf(run, e), run'[e].phase)
      BY <1>4, <1>7
    <2> HIDE DEF q, p
    <2>5. Recorded(p, run', db)
      BY <1>2, <1>6, <1>7, <2>1, <2>2, <2>3, <2>4, RecordedFinish
    <2> QED
      BY <1>2, <2>5 DEF p
  <1> QED
    BY <1>9, <1>10 DEF IInv

LEMMA AbandonedIs ==
    ASSUME NEW r \in Run
    PROVE  /\ Abandoned(r) \in Run /\ Abandoned(r).phase = "abandoned"
           /\ Abandoned(r).state.versions = <<>>
  <1>1. NewState \in State /\ NewState.versions = <<>>
    BY DEF NewState, State
  <1>2. "abandoned" \in {"none", "restoring"} \cup Begun
    BY DEF Begun
  <1>3. Abandoned(r) \in Run
    BY <1>1, <1>2 DEF Abandoned, Run
  <1>4. Abandoned(r).phase = "abandoned" /\ Abandoned(r).state = NewState
    BY DEF Abandoned, Run
  <1> QED
    BY <1>1, <1>3, <1>4

LEMMA AbandonExecutionKeepsInv ==
    ASSUME IInv, NEW e \in Executions, AbandonExecution(e)
    PROVE  IInv'
  <1>0. /\ Types /\ (~lost => Recorded(Outstanding(worker, job, queue), run, db))
        /\ run \in [Executions -> Run]
    BY DEF IInv, Types
  <1>1. /\ run' = [run EXCEPT ![e] = Abandoned(@)] /\ run[e].phase = "running"
        /\ queue' = queue /\ worker' = worker /\ job' = job
        /\ db' = db /\ lost' = lost
    BY DEF AbandonExecution, process
  <1>2. Abandoned(run[e]) \in Run /\ Abandoned(run[e]).phase = "abandoned"
        /\ Abandoned(run[e]).state.versions = <<>>
    BY <1>0, AbandonedIs
  <1>3. run' \in [Executions -> Run] /\ run'[e] = Abandoned(run[e])
        /\ \A f \in Executions \ {e} : run'[f] = run[f]
    BY <1>0, <1>1, <1>2
  <1>4. Types'
    BY <1>0, <1>1, <1>3 DEF Types
  <1>5. \A f \in Executions :
            \/ run'[f] = run[f]
            \/ /\ run[f].phase \in {"running", "restoring"}
               /\ run'[f].phase = "abandoned" /\ VersionsOf(run', f) = <<>>
    BY <1>1, <1>2, <1>3 DEF VersionsOf
  <1>6. ~lost => Recorded(Outstanding(worker, job, queue), run', db)
    BY <1>0, <1>5, RecordedAbandon
  <1> QED
    BY <1>1, <1>4, <1>6 DEF IInv

\* A job that is taken is still outstanding.
LEMMA TakeJobKeepsInv ==
    ASSUME IInv, TakeJob
    PROVE  IInv'
  <1>0. /\ Types /\ (~lost => Recorded(Outstanding(worker, job, queue), run, db))
        /\ queue \in Seq(Job)
    BY DEF IInv, Types
  <1> DEFINE n == Len(queue)
             rest == [i \in 1..(n - 1) |-> queue[i + 1]]
  <1>1. /\ worker = "idle" /\ worker' = "writing" /\ job' = queue[1]
        /\ run' = run /\ db' = db /\ lost' = lost /\ queue # <<>>
    BY DEF TakeJob, NextJob
  <1>2. queue' = rest
    <2>1. queue' = [i \in 1..(n - 1) |-> IF i < 1 THEN queue[i] ELSE queue[i + 1]]
      BY DEF TakeJob, NextJob
    <2>2. \A i \in 1..(n - 1) : ~(i < 1)
      OBVIOUS
    <2> QED
      BY <2>1, <2>2
  <1>3. n \in Nat /\ n > 0 /\ DOMAIN queue = 1..n /\ \A i \in 1..n : queue[i] \in Job
    BY <1>0, <1>1
  <1>4. rest \in Seq(Job) /\ Len(rest) = n - 1 /\ \A i \in 1..(n - 1) : rest[i] = queue[i + 1]
    <2>1. rest \in [1..(n - 1) -> Job] /\ n - 1 \in Nat
      BY <1>3
    <2>2. \A i \in 1..(n - 1) : rest[i] = queue[i + 1]
      OBVIOUS
    <2> HIDE DEF rest, n
    <2>3. rest \in Seq(Job) /\ Len(rest) = n - 1
      BY <2>1
    <2> QED
      BY <2>2, <2>3
  <1> HIDE DEF rest
  <1>5. <<queue[1]>> \o rest = queue
    <2> DEFINE a == <<queue[1]>> \o rest
    <2>0. queue[1] \in Job /\ rest \in Seq(Job)
      BY <1>3, <1>4
    <2>1. a \in Seq(Job) /\ Len(a) = 1 + Len(rest) /\ a[1] = queue[1]
          /\ \A k \in 1..Len(rest) : a[k + 1] = rest[k]
      BY <2>0, OutstandingIs
    <2> HIDE DEF a, n
    <2>2. Len(a) = n /\ \A k \in 1..(n - 1) : a[k + 1] = queue[k + 1]
      <3>1. Len(rest) = n - 1 /\ n \in Nat /\ \A k \in 1..(n - 1) : rest[k] = queue[k + 1]
        BY <1>3, <1>4
      <3>2. Len(a) = 1 + Len(rest) /\ \A k \in 1..(n - 1) : a[k + 1] = rest[k]
        BY <2>1, <3>1
      <3>3. ASSUME NEW k \in 1..(n - 1)
            PROVE  a[k + 1] = queue[k + 1]
        BY <3>1, <3>2
      <3>4. Len(a) = n
        BY <3>1, <3>2
      <3> QED
        BY <3>3, <3>4
    <2>3. \A i \in 1..n : a[i] = queue[i]
      <3> SUFFICES ASSUME NEW i \in 1..n
                   PROVE  a[i] = queue[i]
        OBVIOUS
      <3>1. CASE i = 1
        BY <2>1, <3>1
      <3>2. CASE i # 1
        <4>1. i - 1 \in 1..(n - 1) /\ (i - 1) + 1 = i
          BY <1>3, <3>2
        <4> QED
          BY <2>2, <4>1
      <3> QED
        BY <3>1, <3>2
    <2>4. a = queue
      <3>1. a \in Seq(Job) /\ queue \in Seq(Job) /\ Len(a) = Len(queue)
        BY <1>0, <2>1, <2>2 DEF n
      <3>2. \A i \in 1..Len(a) : a[i] = queue[i]
        BY <2>2, <2>3
      <3> QED
        BY <3>1, <3>2, SeqEqual
    <2> QED
      BY <2>4 DEF a
  <1>6. Outstanding(worker', job', queue') = Outstanding(worker, job, queue)
    BY <1>1, <1>2, <1>5 DEF Outstanding
  <1>7. job' \in Job /\ queue' \in Seq(Job) /\ Len(queue') <= QueueSize
    BY <1>0, <1>1, <1>2, <1>3, <1>4, PersistenceAssumption DEF Types
  <1>8. Types'
    BY <1>0, <1>1, <1>7 DEF Types
  <1> QED
    BY <1>0, <1>1, <1>6, <1>8 DEF IInv

LEMMA EndWriteKeepsInv ==
    ASSUME IInv, EndWrite
    PROVE  IInv'
  <1> DEFINE q == Outstanding(worker, job, queue)
             p == Outstanding(worker', job', queue')
  <1>0. /\ Types /\ (~lost => Recorded(q, run, db))
        /\ queue \in Seq(Job) /\ db \in Tables
    BY DEF IInv, Types
  <1>1. /\ worker = "writing" /\ worker' = "idle" /\ job' = <<>> /\ job \in Job
        /\ run' = run /\ queue' = queue
    BY <1>0 DEF EndWrite, Types
  <1>2. \/ Accepted(job) /\ db' = Written(job) /\ lost' = lost
        \/ ~Accepted(job) /\ db' = db /\ lost' = TRUE
        \/ ~lost /\ db' = db /\ lost' = TRUE
    BY DEF EndWrite
  <1>3. db' \in Tables /\ lost' \in BOOLEAN
    BY <1>0, <1>1, <1>2, WrittenTyped DEF Types
  <1>4. Types'
    BY <1>0, <1>1, <1>3 DEF Types
  <1>5. ASSUME ~lost'
        PROVE  Recorded(p, run', db')
    <2>1. ~lost /\ db' = Written(job)
      BY <1>2, <1>5
    <2>2. Recorded(q, run, db)
      BY <1>0, <2>1
    <2>3. Pop(q, p) /\ q[1] = job /\ \A k \in DOMAIN q : IsJob(q[k])
      BY <1>0, <1>1, OutstandingPop
    <2>4. RunsTyped(run) /\ TablesTyped(db) /\ SessionsTyped(db)
      BY <1>0, RunsAre, TablesAre DEF Types
    <2> HIDE DEF q, p
    <2>5. job[1] = "complete" => db.status[job[2]] # "absent"
      BY <2>2, <2>3, PopHead, HeadAccepted DEF Recorded
    <2>6. Writes(db, db', q[1])
      BY <1>0, <1>1, <2>1, <2>3, <2>5, WrittenWrites
    <2>7. Recorded(p, run, db')
      BY <2>2, <2>3, <2>4, <2>6, RecordedPop
    <2> QED
      BY <1>1, <2>7
  <1> QED
    BY <1>4, <1>5 DEF IInv

LEMMA ShutdownKeepsInv ==
    ASSUME IInv, WorkerLeaves \/ Stop \/ StopJoined \/ StopTimesOut \/ Restart
    PROVE  IInv'
  <1>0. /\ Types /\ (~lost => Recorded(Outstanding(worker, job, queue), run, db))
        /\ run \in [Executions -> Run] /\ db \in Tables /\ queue \in Seq(Job)
    BY DEF IInv, Types
  <1>1. CutOff => db' \in Tables
    BY <1>0, WrittenTyped DEF CutOff, Types
  <1>2. CASE WorkerLeaves \/ Stop \/ StopJoined
    <2>1. /\ run' = run /\ db' = db /\ queue' = queue /\ job' = job /\ lost' = lost
          /\ worker' = worker \/ (worker # "writing" /\ worker' # "writing")
      BY <1>2 DEF WorkerLeaves, Stop, StopJoined
    <2>2. Outstanding(worker', job', queue') = Outstanding(worker, job, queue)
      BY <2>1 DEF Outstanding
    <2>3. Types'
      BY <1>0, <2>1 DEF Types
    <2> QED
      BY <1>0, <2>1, <2>2, <2>3 DEF IInv
  <1>3. CASE StopTimesOut
    <2>1. /\ run' = run /\ queue' = queue /\ lost' = TRUE /\ worker' = "absent" /\ CutOff
      BY <1>3 DEF StopTimesOut
    <2>2. Types'
      BY <1>0, <1>1, <2>1 DEF Types
    <2> QED
      BY <2>1, <2>2 DEF IInv
  <1>4. CASE Restart
    <2>1. /\ CutOff /\ lost' = (lost \/ queue # <<>> \/ worker = "writing")
          /\ run' = [e \in Executions |->
                        IF run[e].phase \in {"running", "restoring"}
                        THEN Abandoned(run[e]) ELSE run[e]]
          /\ queue' = <<>> /\ worker' = "idle"
      BY <1>4 DEF Restart
    <2>2. \A e \in Executions :
              /\ Abandoned(run[e]) \in Run /\ Abandoned(run[e]).phase = "abandoned"
              /\ Abandoned(run[e]).state.versions = <<>>
      BY <1>0, AbandonedIs
    <2>3. run' \in [Executions -> Run]
      BY <1>0, <2>1, <2>2
    <2>4. \A e \in Executions :
              \/ run'[e] = run[e]
              \/ /\ run[e].phase \in {"running", "restoring"}
                 /\ run'[e].phase = "abandoned" /\ VersionsOf(run', e) = <<>>
      BY <2>1, <2>2 DEF VersionsOf
    <2>5. queue' \in Seq(Job) /\ Len(queue') <= QueueSize
      BY <2>1, PersistenceAssumption
    <2>6. lost' \in BOOLEAN
      BY <1>0, <2>1 DEF Types
    <2>7. Types'
      BY <1>1, <2>1, <2>3, <2>5, <2>6 DEF Types
    <2>8. ASSUME ~lost'
          PROVE  Recorded(Outstanding(worker', job', queue'), run', db')
      <3>1. ~lost /\ queue = <<>> /\ worker # "writing" /\ db' = db
        BY <2>1, <2>8 DEF CutOff
      <3>2. Outstanding(worker', job', queue') = Outstanding(worker, job, queue)
        BY <2>1, <3>1 DEF Outstanding
      <3>3. Recorded(Outstanding(worker, job, queue), run, db)
        BY <1>0, <3>1
      <3> QED
        BY <2>4, <3>1, <3>2, <3>3, RecordedAbandon
    <2> QED
      BY <2>7, <2>8 DEF IInv
  <1> QED
    BY <1>2, <1>3, <1>4

-----------------------------------------------------------------------------
LEMMA InitEstablishesInv == Init => IInv
  <1> SUFFICES ASSUME Init
               PROVE  IInv
    OBVIOUS
  <1>1. (CHOOSE s \in Sessions : TRUE) \in Sessions
    BY PersistenceAssumption
  <1>2. NewState \in State /\ NewState.versions = <<>>
    BY DEF NewState, State
  <1>3. run \in [Executions -> Run]
    BY <1>1, <1>2 DEF Init, Run
  <1>4. \A e \in Executions :
            /\ run[e].phase = "none" /\ run[e].nodes = 0 /\ VersionsOf(run, e) = <<>>
            /\ db.status[e] = "absent" /\ db.nodes[e] = 0
    BY <1>2 DEF Init, VersionsOf
  <1>5. DOMAIN db.versions = {} /\ \A s \in Sessions : db.session[s].history = <<>>
                                         /\ db.session[s].state.versions = <<>>
    BY <1>2 DEF Init
  <1>6. db \in Tables
    <2>1. <<>> \in Rows
      <3>1. <<>> \in [{} -> Executions] /\ {} \in SUBSET VersionIds
        OBVIOUS
      <3> QED
        BY <3>1 DEF Rows
    <2>2. <<>> \in Seq(Executions)
      OBVIOUS
    <2> QED
      BY <1>2, <2>1, <2>2 DEF Init, Tables
  <1>7. queue = <<>> /\ worker = "idle" /\ lost = FALSE
        /\ Outstanding(worker, job, queue) = <<>>
    BY DEF Init, Outstanding
  <1>8. Types
    <2>1. queue \in Seq(Job) /\ Len(queue) <= QueueSize
      BY <1>7, PersistenceAssumption
    <2> QED
      BY <1>3, <1>6, <1>7, <2>1 DEF Types
  <1>9. Recorded(<<>>, run, db)
    <2>1. NotBegun(<<>>, run, db)
      BY <1>4 DEF NotBegun
    <2>2. InsertedFirst(<<>>, run, db)
      BY <1>4 DEF InsertedFirst
    <2>3. OutcomeKept(<<>>, run, db)
      BY <1>4 DEF OutcomeKept, Statuses
    <2>4. SessionLast(<<>>, run, db)
      BY <1>4, <1>5 DEF SessionLast, Listed, Statuses
    <2>5. NodesCounted(<<>>, run, db)
      <3>1. \A e : NodeJobs(<<>>, e) = {}
        BY DEF NodeJobs
      <3>2. Cardinality({}) = 0
        BY FS_EmptySet
      <3> SUFFICES ASSUME NEW e \in Executions
                   PROVE  db.nodes[e] + Cardinality(NodeJobs(<<>>, e)) = run[e].nodes
        BY DEF NodesCounted
      <3>3. Cardinality(NodeJobs(<<>>, e)) = 0
        BY <3>1, <3>2
      <3> QED
        BY <1>4, <3>3
    <2>6. Lineage(<<>>, run, db)
      BY <1>4 DEF Lineage, AllCovered, AllStored, Ordered
    <2>7. SessionStates(<<>>, db)
      BY <1>5 DEF SessionStates, AllStored
    <2>8. Committed(<<>>, run, db)
      BY <1>5 DEF Committed, Covered
    <2> QED
      BY <2>1, <2>2, <2>3, <2>4, <2>5, <2>6, <2>7, <2>8 DEF Recorded
  <1> QED
    BY <1>7, <1>8, <1>9 DEF IInv

LEMMA NextKeepsInv == IInv /\ [Next]_vars => IInv'
  <1> SUFFICES ASSUME IInv, [Next]_vars
               PROVE  IInv'
    OBVIOUS
  <1>1. ASSUME NEW e \in Executions,
               \/ StartRequest(e) \/ ReadSession(e) \/ RestoreSession(e)
               \/ EndNode(e) \/ FinishExecution(e) \/ AbandonExecution(e)
        PROVE  IInv'
    BY <1>1, StartRequestKeepsInv, ReadSessionKeepsInv, RestoreSessionKeepsInv,
       EndNodeKeepsInv, FinishExecutionKeepsInv, AbandonExecutionKeepsInv
  <1>2. CASE Work
    BY <1>2, TakeJobKeepsInv, EndWriteKeepsInv, ShutdownKeepsInv DEF Work
  <1>3. CASE Stop \/ StopJoined \/ StopTimesOut \/ Restart
    BY <1>3, ShutdownKeepsInv
  <1>4. CASE UNCHANGED vars
    BY <1>4 DEF vars, IInv, Types
  <1> QED
    BY <1>1, <1>2, <1>3, <1>4 DEF Next

\* What the jobs outstanding, the executions and the tables know of each other,
\* in every reachable state.
THEOREM RecordInvariant == Spec => []IInv
  BY InitEstablishesInv, NextKeepsInv, PTL DEF Spec

LEMMA ListedIs ==
    ASSUME NEW e
    PROVE  InHistory(e) <=> Listed(db, e)
  BY DEF InHistory, Listed

\* drain() and stop(): when every job is done and no write was lost, an execution
\* that ended has its outcome, its nodes, its versions and its place in the
\* session, whatever executions ran beside it.
THEOREM JoinedExecutionsRecorded == Spec => []JoinedIsRecorded
  <1>1. IInv => JoinedIsRecorded
    <2> SUFFICES ASSUME IInv, Joined, ~lost, NEW e \in Executions,
                        run[e].phase \in Statuses
                 PROVE  /\ db.status[e] = run[e].phase
                        /\ db.nodes[e] = run[e].nodes
                        /\ \A i \in DOMAIN run[e].state.versions :
                              run[e].state.versions[i] \in DOMAIN db.versions
                        /\ InHistory(e)
      BY DEF JoinedIsRecorded
    <2>1. Recorded(<<>>, run, db)
      BY DEF IInv, Joined, Outstanding
    <2>2. db.status[e] = run[e].phase
      BY <2>1 DEF Recorded, OutcomeKept
    <2>3. InHistory(e)
      BY <2>1, ListedIs DEF Recorded, SessionLast
    <2>4. db.nodes[e] = run[e].nodes
      <3>1. Cardinality(NodeJobs(<<>>, e)) = 0
        <4>1. NodeJobs(<<>>, e) = {}
          BY DEF NodeJobs
        <4> QED
          BY <4>1, FS_EmptySet
      <3>2. db.nodes[e] \in Nat
        BY DEF IInv, Types, Tables
      <3>3. run[e].phase # "abandoned"
        BY DEF Statuses
      <3> QED
        BY <2>1, <3>1, <3>2, <3>3 DEF Recorded, NodesCounted
    <2>5. \A i \in DOMAIN run[e].state.versions :
              run[e].state.versions[i] \in DOMAIN db.versions
      BY <2>1 DEF Recorded, Lineage, AllCovered, Covered, VersionsOf
    <2> QED
      BY <2>2, <2>3, <2>4, <2>5
  <1> QED
    BY <1>1, RecordInvariant, PTL

\* A session never lists an execution whose outcome is not stored.
THEOREM ListedExecutionsFinished == Spec => []HistoryIsFinished
  <1>1. IInv => HistoryIsFinished
    BY ListedIs DEF IInv, HistoryIsFinished, Recorded, SessionLast
  <1> QED
    BY <1>1, RecordInvariant, PTL

\* No reader of the tables meets a version whose parents are not stored.
THEOREM LineagesStoredInOrder == Spec => []StoredLineagesComplete
  <1>1. IInv => StoredLineagesComplete
    <2> SUFFICES ASSUME IInv, ~lost, NEW e \in Executions,
                        NEW i \in DOMAIN VersionsOf(run, e),
                        VersionsOf(run, e)[i] \in DOMAIN db.versions,
                        NEW j \in 1..i
                 PROVE  VersionsOf(run, e)[j] \in DOMAIN db.versions
      BY DEF StoredLineagesComplete, VersionsOf
    <2>1. Ordered(Outstanding(worker, job, queue), db, VersionsOf(run, e))
      BY DEF IInv, Recorded, Lineage
    <2>2. i \in Nat
      BY DEF IInv, Types, Run, State, VersionsOf
    <2>3. j = i \/ j \in 1..(i - 1)
      BY <2>2
    <2> QED
      BY <2>1, <2>3 DEF Ordered
  <1> QED
    BY <1>1, RecordInvariant, PTL
=============================================================================
