------------------------ MODULE AgentWorkflow_proofs ------------------------
(***************************************************************************)
(* The compiled plan implements StepOrder, for any valid plans and any     *)
(* steps that replans bring: with parallel levels, lost branch results and *)
(* replans no step is started twice or before what it depends on.  The     *)
(* plan that a request executes is valid, and the request stays below the  *)
(* cap of the macro graph, for any lists the language model may return and *)
(* any number of replans.                                                  *)
(***************************************************************************)
EXTENDS AgentWorkflow, FiniteSetTheorems, WellFoundedInduction, TLAPS

(***************************************************************************)
(* A nonempty set of naturals has a least element, and if it is finite a   *)
(* greatest one: next_executable_step and max(completed_ids) are defined.  *)
(***************************************************************************)
LEMMA LeastNat ==
    ASSUME NEW S \in SUBSET Nat, S # {}
    PROVE  \E x \in S : \A y \in S : x <= y
  <1>1. PICK x \in S : \A y \in S : ~(<<y, x>> \in OpToRel(<, Nat))
    BY NatLessThanWellFounded, WFMin
  <1>2. ASSUME NEW y \in S
        PROVE  x <= y
    <2>1. <<y, x>> \in Nat \X Nat
      OBVIOUS
    <2>2. ~(y < x)
      BY <1>1, <2>1 DEF OpToRel
    <2> QED
      BY <2>2
  <1> QED
    BY <1>2

LEMMA GreatestOfFinite ==
    ASSUME NEW S \in SUBSET Nat, S # {}, IsFiniteSet(S)
    PROVE  /\ Max(S) \in S
           /\ \A y \in S : y <= Max(S)
  <1> DEFINE Above(x) == {y \in S : y > x}
             Sizes == {Cardinality(Above(x)) : x \in S}
  <1>1. \A x \in S : IsFiniteSet(Above(x)) /\ Cardinality(Above(x)) \in Nat
    <2> TAKE x \in S
    <2>1. Above(x) \in SUBSET S
      OBVIOUS
    <2> QED
      BY <2>1, FS_Subset, FS_CardinalityType
  <1>2. Sizes \in SUBSET Nat /\ Sizes # {}
    BY <1>1
  <1>3. PICK n \in Sizes : \A m \in Sizes : n <= m
    BY <1>2, LeastNat
  <1>4. PICK x \in S : n = Cardinality(Above(x))
    BY <1>3
  <1>5. ASSUME NEW y \in S, y > x
        PROVE  FALSE
    <2>1. Above(y) \in SUBSET Above(x)
      <3> SUFFICES ASSUME NEW z \in S, z > y
                   PROVE  z > x
        OBVIOUS
      <3>1. x \in Nat /\ y \in Nat /\ z \in Nat
        OBVIOUS
      <3> QED
        BY <1>5, <3>1
    <2>2. y \in Above(x) /\ y \notin Above(y)
      BY <1>5
    <2>3. Cardinality(Above(y)) <= Cardinality(Above(x))
      BY <1>1, <2>1, FS_Subset
    <2>4. Cardinality(Above(x)) # Cardinality(Above(y))
      BY <1>1, <2>1, <2>2, FS_Subset
    <2>5. Cardinality(Above(x)) <= Cardinality(Above(y))
      BY <1>3, <1>4
    <2> HIDE DEF Above
    <2> QED
      BY <1>1, <1>4, <1>5, <2>3, <2>4, <2>5
  <1>6. \A y \in S : y <= x
    BY <1>5
  <1>7. \E z \in S : \A y \in S : z >= y
    BY <1>6
  <1>8. Max(S) \in S /\ \A y \in S : Max(S) >= y
    BY <1>7 DEF Max
  <1> QED
    BY <1>8

-----------------------------------------------------------------------------
\* Steps waiting to run or done: what execute() sees at the head of its loop.
Quiet(st) == \A i \in DOMAIN st : st[i] \in {"pending", "completed", "skipped"}

\* The finished steps of a plan stay in its plan, as they are and finished.
KeepsFinished(p, st, q, sq) ==
    \A i \in FinishedIds(st) : i \in DOMAIN q /\ q[i] = p[i] /\ sq[i] = st[i]

(***************************************************************************)
(* apply_replanned_steps: the state it builds is a plan whose steps are    *)
(* all waiting or done, with exactly the finished steps it had, unchanged. *)
(***************************************************************************)
LEMMA ReplanKeepsFinished ==
    ASSUME NEW p, NEW st, NEW new \in Seq(Step),
           IsPlan(p), st \in [DOMAIN p -> Status]
    PROVE  LET q == ReplannedPlan(p, st, new)
               sq == ReplannedStatus(st, new)
           IN /\ IsPlan(q)
              /\ sq \in [DOMAIN q -> Status]
              /\ Quiet(sq)
              /\ FinishedIds(sq) = FinishedIds(st)
              /\ KeepsFinished(p, st, q, sq)
  <1> DEFINE q == ReplannedPlan(p, st, new)
             sq == ReplannedStatus(st, new)
             fin == FinishedIds(st)
             last == LastFinished(st)
             fresh == {last + k : k \in DOMAIN new}
  <1>1. fin \in SUBSET DOMAIN p /\ DOMAIN p \in SUBSET Nat
    BY DEF FinishedIds, IsPlan
  <1>2. IsFiniteSet(fin)
    BY <1>1, FS_Subset DEF IsPlan
  <1>3. last \in Nat
    <2>1. fin \cup {0} \in SUBSET Nat
      BY <1>1
    <2>2. IsFiniteSet(fin \cup {0})
      BY <1>2, FS_AddElement
    <2>3. Max(fin \cup {0}) \in fin \cup {0}
      BY <2>1, <2>2, GreatestOfFinite
    <2> QED
      BY <2>1, <2>3 DEF LastFinished
  <1>4. Len(new) \in Nat /\ DOMAIN new = 1..Len(new)
    OBVIOUS
  <1> HIDE DEF last
  <1>5. fresh \in SUBSET (Nat \ {0}) /\ \A i \in fresh : i <= last + Len(new)
    BY <1>3, <1>4
  <1>6. IsFiniteSet(fresh)
    <2>1. last + Len(new) \in Nat /\ fresh \in SUBSET Nat
      BY <1>3, <1>4, <1>5
    <2> QED
      BY <1>5, <2>1, FS_BoundedSetOfNaturals
  <1>7. ReplannedIds(st, new) = fin \cup fresh
    BY DEF ReplannedIds, last
  <1>8. DOMAIN q = fin \cup fresh /\ DOMAIN sq = fin \cup fresh
    BY <1>7 DEF ReplannedPlan, ReplannedStatus
  <1>9. IsFiniteSet(DOMAIN q) /\ DOMAIN q \subseteq Nat \ {0}
    BY <1>1, <1>2, <1>5, <1>6, <1>8, FS_Union DEF IsPlan
  <1>10. ASSUME NEW i \in DOMAIN q
         PROVE  /\ i \in fin => q[i] = p[i] /\ sq[i] = st[i]
                /\ i \notin fin => q[i] \in Step /\ sq[i] = "pending"
    <2>1. CASE i \in fin
      BY <1>7, <1>8, <2>1 DEF ReplannedPlan, ReplannedStatus
    <2>2. CASE i \notin fin
      <3>1. PICK k \in DOMAIN new : i = last + k
        BY <1>8, <2>2
      <3>2. i - last = k
        BY <1>3, <1>4, <3>1
      <3>3. q[i] = new[k]
        BY <1>7, <1>8, <2>2, <3>2 DEF ReplannedPlan, last
      <3>4. sq[i] = "pending"
        BY <1>7, <1>8, <2>2 DEF ReplannedStatus
      <3> QED
        BY <1>4, <2>2, <3>3, <3>4
    <2> QED
      BY <2>1, <2>2
  <1>11. \A i \in fin : p[i] \in Step /\ st[i] \in FinishedStatus
    BY <1>1 DEF IsPlan, FinishedIds
  <1>12. q = [i \in DOMAIN q |-> q[i]] /\ sq = [i \in DOMAIN q |-> sq[i]]
    BY <1>8 DEF ReplannedPlan, ReplannedStatus
  <1>13. q \in [DOMAIN q -> Step]
    BY <1>10, <1>11, <1>12
  <1>14. \A i \in DOMAIN q : sq[i] \in {"pending", "completed", "skipped"}
    BY <1>10, <1>11 DEF FinishedStatus
  <1>15. sq \in [DOMAIN q -> Status]
    BY <1>12, <1>14 DEF Status
  <1>16. FinishedIds(sq) = fin
    BY <1>8, <1>10, <1>11 DEF FinishedIds, FinishedStatus
  <1> QED
    BY <1>8, <1>9, <1>10, <1>13, <1>14, <1>15, <1>16
       DEF IsPlan, Quiet, KeepsFinished

-----------------------------------------------------------------------------
\* One turn of the compiler's loop over the levels.
NextReady(p, S) == {i \in DOMAIN p : p[i].deps \subseteq S}

\* A list of ready sets up to level m.
ReadyUpTo(p, f, m) ==
    f = [n \in 0..m |-> IF n = 0 THEN {} ELSE NextReady(p, f[n - 1])]

\* The compiler's loop can be run for any number of turns.
LEMMA ReadyExists ==
    ASSUME NEW p, NEW m \in Nat
    PROVE  \E f : ReadyUpTo(p, f, m)
  <1> DEFINE Bad == {k \in Nat : ~\E f : ReadyUpTo(p, f, k)}
  <1>1. ASSUME Bad # {}
        PROVE  FALSE
    <2>1. PICK k \in Bad : \A l \in Bad : k <= l
      BY <1>1, LeastNat
    <2>2. CASE k = 0
      <3> DEFINE f == [n \in 0..0 |-> {}]
      <3>1. f = [n \in 0..0 |-> IF n = 0 THEN {} ELSE NextReady(p, f[n - 1])]
        OBVIOUS
      <3> QED
        BY <2>2, <3>1 DEF ReadyUpTo
    <2>3. CASE k # 0
      <3>1. k - 1 \in Nat /\ k - 1 \notin Bad
        BY <2>1, <2>3
      <3>2. PICK f : ReadyUpTo(p, f, k - 1)
        BY <3>1
      <3> DEFINE g == [n \in 0..k |-> IF n = k THEN NextReady(p, f[k - 1]) ELSE f[n]]
      <3>3. \A n \in 0..(k - 1) : g[n] = f[n]
        BY <3>1
      <3>4. \A n \in 0..k : g[n] = IF n = 0 THEN {} ELSE NextReady(p, g[n - 1])
        <4> TAKE n \in 0..k
        <4>1. CASE n = k
          <5>1. g[n] = NextReady(p, f[k - 1]) /\ k - 1 \in 0..(k - 1)
            BY <3>1, <4>1
          <5> QED
            BY <2>3, <3>3, <4>1, <5>1
        <4>2. CASE n # k
          <5>1. n \in 0..(k - 1) /\ (n # 0 => n - 1 \in 0..(k - 1))
            BY <3>1, <4>2
          <5>2. f[n] = IF n = 0 THEN {} ELSE NextReady(p, f[n - 1])
            BY <3>2, <5>1 DEF ReadyUpTo
          <5> QED
            BY <3>3, <5>1, <5>2
        <4> QED
          BY <4>1, <4>2
      <3>5. ReadyUpTo(p, g, k)
        <4>1. g = [n \in 0..k |-> g[n]]
          OBVIOUS
        <4> HIDE DEF g
        <4> QED
          BY <3>4, <4>1 DEF ReadyUpTo
      <3> QED
        BY <2>1, <3>5
    <2> QED
      BY <2>2, <2>3
  <1> QED
    BY <1>1

LEMMA ReadyIs ==
    ASSUME NEW p, Cardinality(DOMAIN p) \in Nat
    PROVE  ReadyUpTo(p, Ready(p), Cardinality(DOMAIN p))
  <1>1. \E f : ReadyUpTo(p, f, Cardinality(DOMAIN p))
    BY ReadyExists
  <1> QED
    BY <1>1 DEF Ready, ReadyUpTo, NextReady

\* Ready sets grow.
LEMMA ReadyGrows ==
    ASSUME NEW p, NEW N \in Nat, NEW f, ReadyUpTo(p, f, N),
           NEW m \in 0..N, NEW n \in 0..N, n <= m
    PROVE  f[n] \subseteq f[m]
  <1>1. \A k \in 0..N : f[k] = IF k = 0 THEN {} ELSE NextReady(p, f[k - 1])
    BY DEF ReadyUpTo
  <1> DEFINE Bad == {k \in Nat : k < N /\ ~(f[k] \subseteq f[k + 1])}
  <1>2. ASSUME Bad # {}
        PROVE  FALSE
    <2>1. PICK k \in Bad : \A l \in Bad : k <= l
      BY <1>2, LeastNat
    <2>2. k \in 0..N /\ k + 1 \in 0..N /\ k + 1 # 0 /\ k + 1 - 1 = k
      BY <2>1
    <2>3. f[k + 1] = NextReady(p, f[k])
      BY <1>1, <2>2
    <2>4. k # 0
      BY <1>1, <2>1, <2>2
    <2>5. k - 1 \in Nat /\ k - 1 < N /\ k - 1 + 1 = k
      BY <2>1, <2>4
    <2>6. f[k - 1] \subseteq f[k]
      BY <2>1, <2>5
    <2>7. f[k] = NextReady(p, f[k - 1])
      BY <1>1, <2>2, <2>4
    <2>8. f[k] \subseteq f[k + 1]
      BY <2>3, <2>6, <2>7 DEF NextReady
    <2> QED
      BY <2>1, <2>8
  <1> DEFINE Missing == {k \in Nat : k <= N /\ n <= k /\ ~(f[n] \subseteq f[k])}
  <1>3. ASSUME Missing # {}
        PROVE  FALSE
    <2>1. PICK k \in Missing : \A l \in Missing : k <= l
      BY <1>3, LeastNat
    <2>2. k # n /\ k \in Nat /\ n \in Nat /\ n <= k
      BY <2>1
    <2>3. k - 1 \in Nat /\ k - 1 < N /\ n <= k - 1 /\ k - 1 + 1 = k
      BY <2>1, <2>2
    <2>4. f[n] \subseteq f[k - 1]
      BY <2>1, <2>3
    <2>5. f[k - 1] \subseteq f[k]
      BY <1>2, <2>3
    <2> QED
      BY <2>1, <2>4, <2>5
  <1>4. m \in Nat /\ m <= N
    OBVIOUS
  <1> QED
    BY <1>3, <1>4

\* A step is on one level only, and LevelOf finds it.
LEMMA LevelsDisjoint ==
    ASSUME NEW p, IsPlan(p),
           NEW n \in Nat, NEW m \in Nat, NEW i \in Level(p, n), i \in Level(p, m)
    PROVE  n = m
  <1> DEFINE N == Cardinality(DOMAIN p)
  <1>1. N \in Nat
    BY FS_CardinalityType DEF IsPlan
  <1>2. ReadyUpTo(p, Ready(p), N)
    BY <1>1, ReadyIs
  <1>3. \A k \in Nat : i \in Level(p, k) =>
            k \in 1..N /\ i \in Ready(p)[k] /\ i \notin Ready(p)[k - 1]
    BY DEF Level
  <1> HIDE DEF N
  <1>4. ASSUME NEW a \in Nat, NEW b \in Nat, i \in Level(p, a), i \in Level(p, b), a < b
        PROVE  FALSE
    <2>1. a \in 0..N /\ b - 1 \in 0..N /\ a <= b - 1
      BY <1>1, <1>3, <1>4
    <2>2. Ready(p)[a] \subseteq Ready(p)[b - 1]
      BY <1>1, <1>2, <2>1, ReadyGrows
    <2> QED
      BY <1>3, <1>4, <2>2
  <1> QED
    BY <1>4

LEMMA LevelOfFinds ==
    ASSUME NEW p, IsPlan(p), NEW n \in Nat, NEW i \in Level(p, n)
    PROVE  /\ LevelOf(p, i) = n
           /\ n \in 1..Cardinality(DOMAIN p)
           /\ i \in DOMAIN p
  <1>1. n \in 1..Cardinality(DOMAIN p)
    BY DEF Level
  <1>2. \A m \in 1..Cardinality(DOMAIN p) : i \in Level(p, m) => m = n
    BY LevelsDisjoint, FS_CardinalityType DEF IsPlan
  <1>3. LevelOf(p, i) = n
    BY <1>1, <1>2 DEF LevelOf
  <1>4. i \in DOMAIN p
    <2>1. Cardinality(DOMAIN p) \in Nat /\ n \in 0..Cardinality(DOMAIN p) /\ n # 0
      BY <1>1, FS_CardinalityType DEF IsPlan
    <2>2. Ready(p)[n] = NextReady(p, Ready(p)[n - 1])
      BY <2>1, ReadyIs DEF ReadyUpTo
    <2>3. i \in Ready(p)[n]
      BY <1>1 DEF Level
    <2> QED
      BY <2>2, <2>3 DEF NextReady
  <1> QED
    BY <1>1, <1>3, <1>4

-----------------------------------------------------------------------------
(***************************************************************************)
(* The nodes of the compiled graph.  A node stands before level n + 1 if   *)
(* it is the join of level n, or the entry, or a step of level n + 1.      *)
(***************************************************************************)
Before(p, nd, n) ==
    \/ nd = Source(n)
    \/ \E i \in Level(p, n + 1) : nd = StepNode(i)

LEMMA AfterLevelBefore ==
    ASSUME NEW p, IsPlan(p), NEW n \in Nat
    PROVE  AfterLevel(p, n) = Sink \/ Before(p, AfterLevel(p, n), n)
  <1>1. CASE Level(p, n + 1) = {}
    BY <1>1 DEF AfterLevel
  <1>2. CASE Level(p, n + 1) # {}
    <2>1. Level(p, n + 1) \in SUBSET Nat
      BY LevelOfFinds DEF IsPlan
    <2>2. Min(Level(p, n + 1)) \in Level(p, n + 1)
      <3>1. PICK x \in Level(p, n + 1) : \A y \in Level(p, n + 1) : x <= y
        BY <1>2, <2>1, LeastNat
      <3> QED
        BY <3>1 DEF Min
    <2> QED
      BY <1>2, <2>2 DEF AfterLevel, Before
  <1> QED
    BY <1>1, <1>2

\* What a node before level n + 1 starts is of that level.
LEMMA StepsAtLevel ==
    ASSUME NEW p, NEW nd, NEW n \in Nat, Before(p, nd, n)
    PROVE  /\ StepsAt(p, nd) \subseteq Level(p, n + 1)
           /\ StepsAt(p, nd) = {} => nd = Source(n)
  <1>1. CASE nd = Source(n)
    <2>1. nd[1] \in {"entry", "join"} /\ nd[2] = n /\ nd[1] # "step"
      BY <1>1 DEF Source, Entry, JoinNode
    <2> QED
      BY <1>1, <2>1 DEF StepsAt, FanOut
  <1>2. ASSUME NEW i \in Level(p, n + 1), nd = StepNode(i)
        PROVE  StepsAt(p, nd) = {i}
    BY <1>2 DEF StepsAt, StepNode
  <1> QED
    BY <1>1, <1>2 DEF Before

\* A node without steps leads no further than the first step of the next level,
\* a node with steps before the level after theirs.
LEMMA WayOn ==
    ASSUME NEW p, IsPlan(p), NEW nd, NEW n \in Nat, Before(p, nd, n)
    PROVE  /\ StepsAt(p, nd) = {} =>
                 Successor(p, nd) = Sink \/ Before(p, Successor(p, nd), n)
           /\ StepsAt(p, nd) # {} =>
                 AfterSteps(p, nd) = Sink \/ Before(p, AfterSteps(p, nd), n + 1)
  <1>1. CASE nd = Source(n)
    <2>1. nd[1] \in {"entry", "join"} /\ nd[2] = n /\ nd[1] # "step"
      BY <1>1 DEF Source, Entry, JoinNode
    <2>2. Successor(p, nd) = AfterLevel(p, n)
      BY <2>1 DEF Successor
    <2>3. AfterSteps(p, nd) = AfterLevel(p, n + 1)
      BY <2>1 DEF AfterSteps
    <2> QED
      BY <2>2, <2>3, AfterLevelBefore
  <1>2. ASSUME NEW i \in Level(p, n + 1), nd = StepNode(i)
        PROVE  /\ StepsAt(p, nd) # {}
               /\ AfterSteps(p, nd) = Source(n + 1)
    <2>1. LevelOf(p, i) = n + 1
      BY LevelOfFinds
    <2>2. nd[1] = "step" /\ nd[2] = i
      BY <1>2 DEF StepNode
    <2>3. AfterSteps(p, nd) = JoinNode(n + 1)
      BY <2>1, <2>2 DEF AfterSteps, Successor
    <2>4. JoinNode(n + 1) = Source(n + 1)
      BY DEF Source
    <2> QED
      BY <2>2, <2>3, <2>4 DEF StepsAt
  <1> QED
    BY <1>1, <1>2 DEF Before

-----------------------------------------------------------------------------
(***************************************************************************)
(* The invariant.  A state has the compiled plan, or one in which a replan *)
(* has left finished steps of it among new ones, and what it says is       *)
(* finished was done.                                                      *)
(***************************************************************************)
New(c, t) == \A j \in DOMAIN c : c[j].task # t

PlanOK(c, d, p, st) ==
    /\ IsPlan(p)
    /\ st \in [DOMAIN p -> Status]
    /\ \A i \in FinishedIds(st) : p[i].task \in d
    /\ \/ p = c
       \/ \A i \in DOMAIN p :
             \/ i \in FinishedIds(st) /\ i \in DOMAIN c /\ p[i] = c[i]
             \/ New(c, p[i].task)

\* A branch has such a state, and runs a step that was started.
BranchOK(i) ==
    LET b == branch[i]
    IN /\ b \in [plan : {b.plan}, status : {b.status}, phase : {b.phase}]
       /\ PlanOK(compiled, done, b.plan, b.status)
       /\ b.phase = "tool" => /\ i \in DOMAIN b.plan
                              /\ b.status[i] = "running"
                              /\ calls[b.plan[i].task] > 0

\* Whoever was started is on a level that the graph has passed, or is now on.
Passed(n) ==
    \A j \in DOMAIN compiled : calls[compiled[j].task] > 0 =>
        \E k \in 1..n : j \in Level(compiled, k)

Progress ==
    \/ node \in {Sink, EndNode}
    \/ \E n \in Nat : /\ Before(compiled, node, n)
                      /\ Passed(IF branch = <<>> THEN n ELSE n + 1)

IInv ==
    /\ compiled \in InitialPlans
    /\ calls \in [Tasks -> Nat]
    /\ PlanOK(compiled, done, plan, status)
    /\ \A i \in DOMAIN branch : BranchOK(i)
    /\ branch # <<>> => DOMAIN branch = StepsAt(compiled, node) /\ DOMAIN branch # {}
    /\ Progress

-----------------------------------------------------------------------------
LEMMA InitEstablishesInv == Init => IInv
  <1> SUFFICES ASSUME Init
               PROVE  IInv
    OBVIOUS
  <1>1. compiled \in InitialPlans /\ plan = compiled /\ IsPlan(compiled)
    BY PlansAssumption DEF Init
  <1>2. PlanOK(compiled, done, plan, status)
    BY <1>1 DEF Init, PlanOK, AllPending, FinishedIds, FinishedStatus, Status
  <1>3. \A j \in DOMAIN compiled : compiled[j].task \in Tasks
    BY <1>1 DEF IsPlan, Step
  <1>4. Passed(0)
    BY <1>3 DEF Passed, Init
  <1>5. Before(compiled, node, 0)
    BY DEF Before, Init, Source
  <1>6. branch = <<>> /\ DOMAIN branch = {}
    BY DEF Init
  <1>7. Progress
    BY <1>4, <1>5, <1>6 DEF Progress
  <1> QED
    BY <1>1, <1>2, <1>6, <1>7 DEF IInv, Init

\* The sink and the end start nothing.
LEMMA NothingAtTheEnd ==
    ASSUME NEW p, NEW nd \in {Sink, EndNode}
    PROVE  StepsAt(p, nd) = {}
  BY DEF StepsAt, FanOut, Sink, EndNode

\* A step that is run was not started before, and what it depends on is done.
LEMMA StartsInOrder ==
    ASSUME IInv, branch = <<>>,
           NEW i \in StepsAt(compiled, node), MustRun(i),
           NEW j \in DOMAIN compiled, compiled[j].task = plan[i].task
    PROVE  /\ i = j
           /\ calls[compiled[j].task] = 0
           /\ \A d \in compiled[j].deps : d \in DOMAIN compiled /\ compiled[d].task \in done
  <1>1. /\ compiled \in InitialPlans /\ IsPlan(compiled) /\ ValidPlan(compiled)
        /\ calls[compiled[j].task] \in Nat
    BY PlansAssumption DEF IInv, IsPlan, Step
  <1>2. i \in DOMAIN plan /\ i \notin FinishedIds(status)
    BY DEF MustRun, FinishedIds, SettledStatus
  <1>3. plan = compiled
    BY <1>2 DEF IInv, PlanOK, New
  <1>4. i = j
    BY <1>1, <1>2, <1>3, TasksAssumption
  <1>5. PICK n \in Nat : Before(compiled, node, n) /\ Passed(n)
    BY NothingAtTheEnd DEF IInv, Progress
  <1>6. i \in Level(compiled, n + 1)
    BY <1>5, StepsAtLevel
  <1>7. calls[compiled[j].task] = 0
    <2>1. ASSUME calls[compiled[j].task] > 0
          PROVE  FALSE
      <3>1. PICK k \in 1..n : j \in Level(compiled, k)
        BY <1>5, <2>1 DEF Passed
      <3> QED
        BY <1>1, <1>4, <1>6, <3>1, LevelsDisjoint
    <2> QED
      BY <1>1, <2>1
  <1>8. \A d \in compiled[j].deps : d \in DOMAIN compiled /\ compiled[d].task \in done
    <2>1. compiled[j].deps \subseteq FinishedIds(status)
      BY <1>3, <1>4 DEF MustRun, DepsMet
    <2> QED
      BY <1>1, <1>3, <2>1 DEF IInv, PlanOK, FinishedIds
  <1> QED
    BY <1>4, <1>7, <1>8

-----------------------------------------------------------------------------
\* A state stays what it is when more is done.
LEMMA PlanStaysOK ==
    ASSUME NEW c, NEW d, NEW p, NEW st, PlanOK(c, d, p, st), NEW e, d \subseteq e
    PROVE  PlanOK(c, e, p, st)
  BY DEF PlanOK

\* A step of the plan becomes running or failed, and was not finished.
LEMMA MarkKeepsPlan ==
    ASSUME NEW c, NEW d, NEW p, NEW st, PlanOK(c, d, p, st),
           NEW i \in DOMAIN p, i \notin FinishedIds(st),
           NEW s \in {"running", "failed"}
    PROVE  PlanOK(c, d, p, [st EXCEPT ![i] = s])
  <1> DEFINE u == [st EXCEPT ![i] = s]
  <1>1. u \in [DOMAIN p -> Status]
    BY DEF PlanOK, Status
  <1>2. FinishedIds(u) = FinishedIds(st)
    BY DEF PlanOK, FinishedIds, FinishedStatus
  <1>3. PlanOK(c, d, p, u)
    <2> HIDE DEF u
    <2> QED
      BY <1>1, <1>2 DEF PlanOK
  <1> QED
    BY <1>3

\* A branch that stays what it is.
LEMMA BranchStaysOK ==
    ASSUME NEW i, BranchOK(i), branch'[i] = branch[i],
           compiled' = compiled, done \subseteq done', calls' = calls
    PROVE  BranchOK(i)'
  BY PlanStaysOK DEF BranchOK

\* Progress of a graph in which nothing is started and nobody moves.
LEMMA ProgressStays ==
    ASSUME Progress, UNCHANGED <<node, compiled, calls>>, branch' = <<>> <=> branch = <<>>
    PROVE  Progress'
  BY DEF Progress, Passed

\* A step node's task ends: its branch changes, and no other.
LEMMA BranchKeepsInv ==
    ASSUME IInv, NEW i \in DOMAIN branch, NEW b,
           branch' = [branch EXCEPT ![i] = b],
           UNCHANGED <<compiled, plan, status, node, calls>>, done \subseteq done',
           b \in [plan : {b.plan}, status : {b.status}, phase : {b.phase}],
           PlanOK(compiled', done', b.plan, b.status), b.phase # "tool"
    PROVE  IInv'
  <1>1. DOMAIN branch' = DOMAIN branch /\ branch'[i] = b
    OBVIOUS
  <1>2. ASSUME NEW j \in DOMAIN branch'
        PROVE  BranchOK(j)'
    <2>1. CASE j = i
      BY <1>1, <2>1 DEF BranchOK
    <2>2. CASE j # i
      <3>1. branch'[j] = branch[j] /\ BranchOK(j)
        BY <1>1, <2>2 DEF IInv
      <3> QED
        BY <3>1, BranchStaysOK
    <2> QED
      BY <2>1, <2>2
  <1>3. branch # <<>> /\ branch' # <<>>
    <2>1. DOMAIN branch # {} /\ DOMAIN branch' # {}
      BY <1>1
    <2>2. DOMAIN <<>> = {}
      OBVIOUS
    <2> QED
      BY <2>1, <2>2
  <1>4. PlanOK(compiled', done', plan', status')
    BY PlanStaysOK DEF IInv
  <1>5. Progress'
    BY <1>3, ProgressStays DEF IInv
  <1> QED
    BY <1>1, <1>2, <1>3, <1>4, <1>5 DEF IInv

LEMMA EndGraphKeepsInv == IInv /\ EndGraph => IInv'
  <1> SUFFICES ASSUME IInv, EndGraph
               PROVE  IInv'
    OBVIOUS
  <1>1. UNCHANGED <<compiled, plan, status, node, branch, calls, done>>
    BY DEF EndGraph, historyVars
  <1>2. PlanOK(compiled', done', plan', status') /\ \A i \in DOMAIN branch : BranchOK(i)'
    BY <1>1, PlanStaysOK, BranchStaysOK DEF IInv
  <1>3. Progress'
    BY <1>1, ProgressStays DEF IInv
  <1> QED
    BY <1>1, <1>2, <1>3 DEF IInv

\* The node that follows one at which nothing was left to do.
LEMMA MoveKeepsProgress ==
    ASSUME NEW n \in Nat, Passed(n), UNCHANGED <<compiled, calls>>, branch' = <<>>,
           node' \in {Sink, EndNode} \/ Before(compiled, node', n)
    PROVE  Progress'
  BY DEF Progress, Passed

LEMMA PassNodeKeepsInv == IInv /\ PassNode => IInv'
  <1> SUFFICES ASSUME IInv, PassNode
               PROVE  IInv'
    OBVIOUS
  <1>1. /\ UNCHANGED <<compiled, plan, status, branch, calls, done>>
        /\ branch = <<>> /\ StepsAt(compiled, node) = {}
        /\ node # EndNode /\ node' = Successor(compiled, node)
    BY DEF PassNode, Running, Continues, historyVars
  <1>2. PlanOK(compiled', done', plan', status') /\ \A i \in DOMAIN branch : BranchOK(i)'
    BY <1>1, PlanStaysOK, BranchStaysOK DEF IInv
  <1>3. Progress'
    <2>1. CASE node = Sink
      <3>1. node' = EndNode
        BY <1>1, <2>1 DEF Successor, Sink
      <3> QED
        BY <3>1 DEF Progress
    <2>2. CASE node # Sink
      <3>1. PICK n \in Nat : Before(compiled, node, n) /\ Passed(n)
        BY <1>1, <2>2 DEF IInv, Progress
      <3>2. IsPlan(compiled)
        BY PlansAssumption DEF IInv
      <3>3. node' = Sink \/ Before(compiled, node', n)
        BY <1>1, <3>1, <3>2, WayOn
      <3> QED
        BY <1>1, <3>1, <3>3, MoveKeepsProgress
    <2> QED
      BY <2>1, <2>2
  <1> QED
    BY <1>1, <1>2, <1>3 DEF IInv

\* The branches of the present level, in a graph that has passed those before it.
LEMMA LevelUnderWay ==
    ASSUME IInv, NEW B, B = StepsAt(compiled, node), B # {}
    PROVE  /\ \E n \in Nat : /\ Before(compiled, node, n)
                             /\ Passed(IF branch = <<>> THEN n ELSE n + 1)
                             /\ B \subseteq Level(compiled, n + 1)
           /\ B \in SUBSET Nat /\ IsFiniteSet(B) /\ B \subseteq DOMAIN compiled
  <1>1. IsPlan(compiled)
    BY PlansAssumption DEF IInv
  <1>2. PICK n \in Nat : /\ Before(compiled, node, n)
                         /\ Passed(IF branch = <<>> THEN n ELSE n + 1)
    BY NothingAtTheEnd DEF IInv, Progress
  <1>3. B \subseteq Level(compiled, n + 1)
    BY <1>2, StepsAtLevel
  <1>4. B \subseteq DOMAIN compiled
    BY <1>1, <1>3, LevelOfFinds
  <1>5. B \in SUBSET Nat /\ IsFiniteSet(B)
    BY <1>1, <1>4, FS_Subset DEF IsPlan
  <1> QED
    BY <1>2, <1>3, <1>4, <1>5

\* merge_states: the state of one of the branches goes on, and whatever it has
\* lost, the graph has passed the level.
LEMMA JoinKeepsInv == IInv /\ JoinBranches => IInv'
  <1> SUFFICES ASSUME IInv, JoinBranches
               PROVE  IInv'
    OBVIOUS
  <1>1. /\ branch # <<>> /\ branch' = <<>> /\ DOMAIN branch' = {}
        /\ plan' = Merged.plan /\ status' = Merged.status
        /\ node' = AfterSteps(compiled, node)
        /\ UNCHANGED <<compiled, calls, done>>
    BY DEF JoinBranches, historyVars
  <1>2. DOMAIN branch = StepsAt(compiled, node) /\ DOMAIN branch # {}
    BY <1>1 DEF IInv
  <1>3. PICK n \in Nat : Before(compiled, node, n) /\ Passed(n + 1)
    BY <1>1, <1>2, LevelUnderWay
  <1>4. Progress'
    <2>1. IsPlan(compiled)
      BY PlansAssumption DEF IInv
    <2>2. node' = Sink \/ Before(compiled, node', n + 1)
      BY <1>1, <1>2, <1>3, <2>1, WayOn
    <2>3. n + 1 \in Nat
      OBVIOUS
    <2> QED
      BY <1>1, <1>3, <2>2, <2>3, MoveKeepsProgress
  <1>5. PlanOK(compiled', done', plan', status')
    <2>1. Max(DOMAIN branch) \in DOMAIN branch
      BY <1>2, LevelUnderWay, GreatestOfFinite
    <2>2. PlanOK(compiled, done, Merged.plan, Merged.status)
      BY <2>1 DEF IInv, BranchOK, Merged
    <2>3. PlanOK(compiled, done, plan', status')
      BY <1>1, <2>2
    <2> QED
      BY <1>1, <2>3 DEF PlanOK, New
  <1> QED
    BY <1>1, <1>4, <1>5 DEF IInv

\* _run_step_with_recovery brings the step to its end.
LEMMA FinishKeepsInv == IInv /\ (\E i \in DOMAIN branch : FinishStep(i)) => IInv'
  <1> SUFFICES ASSUME IInv, NEW i \in DOMAIN branch, FinishStep(i)
               PROVE  IInv'
    OBVIOUS
  <1>1. PICK s \in FinishedStatus :
            branch' = [branch EXCEPT ![i].status[i] = s, ![i].phase = "done"]
    BY DEF FinishStep
  <1>2. /\ UNCHANGED <<compiled, plan, status, node, calls>>
        /\ done' = done \cup {branch[i].plan[i].task}
        /\ branch[i].phase = "tool"
    BY DEF FinishStep, graphVars
  <1> DEFINE p == branch[i].plan
             u == [branch[i].status EXCEPT ![i] = s]
             b == [branch[i] EXCEPT !.status = u, !.phase = "done"]
  <1>3. branch' = [branch EXCEPT ![i] = b]
    BY <1>1
  <1>4. /\ branch[i] \in [plan : {p}, status : {branch[i].status}, phase : {"tool"}]
        /\ PlanOK(compiled, done, p, branch[i].status)
        /\ i \in DOMAIN p /\ branch[i].status[i] = "running"
    BY <1>2 DEF IInv, BranchOK
  <1>5. b.plan = p /\ b.status = u /\ b.phase = "done"
        /\ b \in [plan : {b.plan}, status : {b.status}, phase : {b.phase}]
    BY <1>4
  <1>6. /\ u \in [DOMAIN p -> Status]
        /\ FinishedIds(u) = FinishedIds(branch[i].status) \cup {i}
    BY <1>4 DEF PlanOK, FinishedIds, FinishedStatus, Status
  <1>7. PlanOK(compiled', done', p, u)
    <2> HIDE DEF u
    <2>1. IsPlan(p) /\ \A k \in FinishedIds(u) : p[k].task \in done'
      BY <1>2, <1>4, <1>6 DEF PlanOK
    <2>2. \/ p = compiled
          \/ \A k \in DOMAIN p :
                \/ k \in FinishedIds(u) /\ k \in DOMAIN compiled /\ p[k] = compiled[k]
                \/ New(compiled, p[k].task)
      BY <1>4, <1>6 DEF PlanOK
    <2> QED
      BY <1>2, <1>6, <2>1, <2>2 DEF PlanOK
  <1> QED
    BY <1>2, <1>3, <1>5, <1>7, BranchKeepsInv

\* An exception of the step.
LEMMA RaiseKeepsInv == IInv /\ (\E i \in DOMAIN branch : RaiseStep(i)) => IInv'
  <1> SUFFICES ASSUME IInv, NEW i \in DOMAIN branch, RaiseStep(i)
               PROVE  IInv'
    OBVIOUS
  <1> DEFINE p == branch[i].plan
             u == [branch[i].status EXCEPT ![i] = "failed"]
             b == [branch[i] EXCEPT !.status = u, !.phase = "raised"]
  <1>1. /\ branch' = [branch EXCEPT ![i] = b]
        /\ UNCHANGED <<compiled, plan, status, node, calls, done>>
        /\ branch[i].phase = "tool"
    BY DEF RaiseStep, historyVars
  <1>2. /\ branch[i] \in [plan : {p}, status : {branch[i].status}, phase : {"tool"}]
        /\ PlanOK(compiled, done, p, branch[i].status)
        /\ i \in DOMAIN p /\ branch[i].status[i] = "running"
    BY <1>1 DEF IInv, BranchOK
  <1>3. b.plan = p /\ b.status = u /\ b.phase = "raised"
        /\ b \in [plan : {b.plan}, status : {b.status}, phase : {b.phase}]
    BY <1>2
  <1>4. i \notin FinishedIds(branch[i].status)
    BY <1>2 DEF FinishedIds, FinishedStatus
  <1>5. PlanOK(compiled, done, p, u)
    BY <1>2, <1>4, MarkKeepsPlan
  <1> QED
    BY <1>1, <1>3, <1>5, BranchKeepsInv

\* _handle_replan inside a branch: what is left of the compiled plan is finished,
\* and whatever else there is, is new.
LEMMA ReplanKeepsPlan ==
    ASSUME NEW c \in InitialPlans, NEW d, NEW p, NEW st, PlanOK(c, d, p, st),
           NEW new \in Proposals
    PROVE  PlanOK(c, d, ReplannedPlan(p, st, new), ReplannedStatus(st, new))
  <1> DEFINE q == ReplannedPlan(p, st, new)
             u == ReplannedStatus(st, new)
  <1>1. new \in Seq(Step)
    BY ProposalsAssumption
  <1>2. IsPlan(p) /\ st \in [DOMAIN p -> Status]
    BY DEF PlanOK
  <1>3. /\ IsPlan(q) /\ u \in [DOMAIN q -> Status]
        /\ FinishedIds(u) = FinishedIds(st)
        /\ KeepsFinished(p, st, q, u)
    BY <1>1, <1>2, ReplanKeepsFinished
  <1>4. \A i \in FinishedIds(st) : i \in DOMAIN q /\ q[i] = p[i]
    BY <1>3 DEF KeepsFinished
  <1>5. ASSUME NEW i \in DOMAIN q, i \notin FinishedIds(st)
        PROVE  New(c, q[i].task)
    <2>1. DOMAIN q = ReplannedIds(st, new)
      BY DEF ReplannedPlan
    <2>2. PICK k \in DOMAIN new : i = LastFinished(st) + k
      BY <1>5, <2>1 DEF ReplannedIds
    <2>3. q[i] = new[i - LastFinished(st)]
      BY <1>5, <2>1 DEF ReplannedPlan
    <2>4. LastFinished(st) \in Nat /\ k \in Nat
      <3>1. FinishedIds(st) \in SUBSET Nat /\ IsFiniteSet(FinishedIds(st))
        BY <1>2, FS_Subset DEF FinishedIds, IsPlan
      <3>2. IsFiniteSet(FinishedIds(st) \cup {0})
        BY <3>1, FS_AddElement
      <3>3. FinishedIds(st) \cup {0} \in SUBSET Nat /\ FinishedIds(st) \cup {0} # {}
        BY <3>1
      <3>4. Max(FinishedIds(st) \cup {0}) \in FinishedIds(st) \cup {0}
        BY <3>2, <3>3, GreatestOfFinite
      <3> QED
        BY <1>1, <3>3, <3>4 DEF LastFinished
    <2>5. q[i] = new[k]
      BY <2>2, <2>3, <2>4
    <2> QED
      BY <2>5, TasksAssumption DEF New
  <1>6. \A i \in FinishedIds(st) : p[i] = q[i] /\ i \in DOMAIN p
    BY <1>2, <1>4 DEF FinishedIds
  <1> HIDE DEF q, u
  <1>7. \A i \in FinishedIds(u) : q[i].task \in d
    BY <1>3, <1>6 DEF PlanOK
  <1>8. \A i \in DOMAIN q :
             \/ i \in FinishedIds(u) /\ i \in DOMAIN c /\ q[i] = c[i]
             \/ New(c, q[i].task)
    <2> SUFFICES ASSUME NEW i \in DOMAIN q, i \in FinishedIds(u)
                 PROVE  (i \in DOMAIN c /\ q[i] = c[i]) \/ New(c, q[i].task)
      BY <1>3, <1>5
    <2>1. q[i] = p[i] /\ i \in DOMAIN p
      BY <1>3, <1>6
    <2> QED
      BY <2>1 DEF PlanOK
  <1>9. PlanOK(c, d, q, u)
    BY <1>3, <1>7, <1>8 DEF PlanOK
  <1> QED
    BY <1>9 DEF q, u

LEMMA ReplanKeepsInv == IInv /\ (\E i \in DOMAIN branch : ReplanStep(i)) => IInv'
  <1> SUFFICES ASSUME IInv, NEW i \in DOMAIN branch, ReplanStep(i)
               PROVE  IInv'
    OBVIOUS
  <1>1. PICK new \in Proposals :
          branch' = [branch EXCEPT ![i] =
                       [plan |-> ReplannedPlan(branch[i].plan, branch[i].status, new),
                        status |-> ReplannedStatus(branch[i].status, new),
                        phase |-> "done"]]
    BY DEF ReplanStep
  <1>2. UNCHANGED <<compiled, plan, status, node, calls, done>>
    BY DEF ReplanStep, graphVars, historyVars
  <1> DEFINE b == [plan |-> ReplannedPlan(branch[i].plan, branch[i].status, new),
                   status |-> ReplannedStatus(branch[i].status, new),
                   phase |-> "done"]
  <1>3. PlanOK(compiled, done, branch[i].plan, branch[i].status)
        /\ compiled \in InitialPlans
    BY DEF IInv, BranchOK
  <1>4. PlanOK(compiled, done, b.plan, b.status)
    BY <1>3, ReplanKeepsPlan
  <1>5. branch' = [branch EXCEPT ![i] = b]
    BY <1>1
  <1>6. b \in [plan : {b.plan}, status : {b.status}, phase : {b.phase}] /\ b.phase # "tool"
    OBVIOUS
  <1> HIDE DEF b
  <1> QED
    BY <1>2, <1>4, <1>5, <1>6, BranchKeepsInv

\* The steps that a node starts are of its level and count their calls.
LEMMA StartKeepsInv == IInv /\ StartSteps => IInv'
  <1> SUFFICES ASSUME IInv, StartSteps
               PROVE  IInv'
    OBVIOUS
  <1> DEFINE B == StepsAt(compiled, node)
             Called(t) == \E i \in B : MustRun(i) /\ plan[i].task = t
  <1>1. /\ branch = <<>> /\ B # {}
        /\ branch' = [i \in B |-> StartedBranch(i)]
        /\ calls' = [t \in Tasks |-> IF Called(t) THEN calls[t] + 1 ELSE calls[t]]
        /\ UNCHANGED <<compiled, plan, status, node, done>>
    BY DEF StartSteps, Running
  <1>2. /\ compiled \in InitialPlans /\ IsPlan(compiled) /\ calls \in [Tasks -> Nat]
        /\ PlanOK(compiled, done, plan, status)
    BY PlansAssumption DEF IInv
  <1> HIDE DEF B, Called
  <1>3. PICK n \in Nat : /\ Before(compiled, node, n) /\ Passed(n)
                         /\ B \subseteq Level(compiled, n + 1)
    BY <1>1, LevelUnderWay DEF B
  <1>4. /\ calls' \in [Tasks -> Nat]
        /\ \A t \in Tasks : calls'[t] > 0 <=> Called(t) \/ calls[t] > 0
    <2>1. calls' \in [Tasks -> Nat]
      BY <1>1, <1>2
    <2>2. ASSUME NEW t \in Tasks
          PROVE  calls'[t] > 0 <=> Called(t) \/ calls[t] > 0
      <3>1. calls[t] \in Nat /\ calls'[t] = IF Called(t) THEN calls[t] + 1 ELSE calls[t]
        BY <1>1, <1>2
      <3> QED
        BY <3>1
    <2> QED
      BY <2>1, <2>2
  <1>5. DOMAIN branch' = B /\ branch' # <<>>
    <2>1. DOMAIN branch' = B
      BY <1>1
    <2>2. DOMAIN <<>> = {}
      OBVIOUS
    <2> QED
      BY <1>1, <2>1, <2>2
  <1>6. ASSUME NEW i \in B
        PROVE  BranchOK(i)'
    <2>1. branch'[i] = StartedBranch(i)
      BY <1>1
    <2>2. CASE MustRun(i)
      <3> DEFINE u == [status EXCEPT ![i] = "running"]
      <3>1. branch'[i] = [plan |-> plan, status |-> u, phase |-> "tool"]
        BY <2>1, <2>2 DEF StartedBranch
      <3>2. i \in DOMAIN plan /\ i \notin FinishedIds(status)
        BY <2>2 DEF MustRun, FinishedIds, SettledStatus
      <3>3. PlanOK(compiled, done, plan, u)
        BY <1>2, <3>2, MarkKeepsPlan
      <3>4. u[i] = "running"
        BY <1>2, <3>2 DEF PlanOK
      <3>5. plan[i].task \in Tasks
        BY <1>2, <3>2 DEF PlanOK, IsPlan, Step
      <3>6. calls'[plan[i].task] > 0
        BY <1>4, <2>2, <3>5 DEF Called
      <3> HIDE DEF u
      <3> QED
        BY <1>1, <3>1, <3>2, <3>3, <3>4, <3>6 DEF BranchOK
    <2>3. CASE ~MustRun(i)
      <3>1. /\ branch'[i].plan = plan /\ branch'[i].status = status
            /\ branch'[i].phase # "tool"
            /\ branch'[i] \in [plan : {branch'[i].plan}, status : {branch'[i].status},
                               phase : {branch'[i].phase}]
        BY <2>1, <2>3 DEF StartedBranch
      <3> QED
        BY <1>1, <1>2, <3>1 DEF BranchOK
    <2> QED
      BY <2>2, <2>3
  <1>7. Passed(n + 1)'
    <2> SUFFICES ASSUME NEW j \in DOMAIN compiled, calls'[compiled[j].task] > 0
                 PROVE  \E k \in 1..(n + 1) : j \in Level(compiled, k)
      BY <1>1 DEF Passed
    <2>1. compiled[j].task \in Tasks
      BY <1>2 DEF IsPlan, Step
    <2>2. CASE calls[compiled[j].task] > 0
      <3>1. PICK k \in 1..n : j \in Level(compiled, k)
        BY <1>3, <2>2 DEF Passed
      <3> QED
        BY <3>1
    <2>3. CASE Called(compiled[j].task)
      <3>1. PICK i \in B : MustRun(i) /\ plan[i].task = compiled[j].task
        BY <2>3 DEF Called
      <3>2. i = j
        BY <1>1, <3>1, StartsInOrder DEF B
      <3>3. n + 1 \in 1..(n + 1) /\ j \in Level(compiled, n + 1)
        BY <1>3, <3>2
      <3> QED
        BY <3>3
    <2> QED
      BY <1>4, <2>1, <2>2, <2>3
  <1>8. Progress'
    BY <1>1, <1>3, <1>5, <1>7 DEF Progress
  <1> QED
    BY <1>1, <1>2, <1>4, <1>5, <1>6, <1>8 DEF IInv, B

LEMMA NextKeepsInv == IInv /\ [Next]_vars => IInv'
  <1>1. IInv /\ UNCHANGED vars => IInv'
    <2> SUFFICES ASSUME IInv, UNCHANGED vars
                 PROVE  IInv'
      OBVIOUS
    <2>1. UNCHANGED <<compiled, plan, status, node, branch, calls, done>>
      BY DEF vars, graphVars, historyVars
    <2>2. \A i \in DOMAIN branch : BranchOK(i)'
      BY <2>1, BranchStaysOK DEF IInv
    <2>3. Progress'
      BY <2>1, ProgressStays DEF IInv
    <2> QED
      BY <2>1, <2>2, <2>3 DEF IInv
  <1>2. Next => \/ GraphStep \/ UNCHANGED vars
                \/ \E i \in DOMAIN branch : FinishStep(i)
                \/ \E i \in DOMAIN branch : RaiseStep(i)
                \/ \E i \in DOMAIN branch : ReplanStep(i)
    BY DEF Next, StepEnds, Done
  <1> QED
    BY <1>1, <1>2, EndGraphKeepsInv, PassNodeKeepsInv, StartKeepsInv, JoinKeepsInv,
       FinishKeepsInv, RaiseKeepsInv, ReplanKeepsInv DEF GraphStep

-----------------------------------------------------------------------------
(***************************************************************************)
(* The refinement.  Started is what the mapping of PlanSubgraph makes of   *)
(* calls, and Finished what it makes of done.                              *)
(***************************************************************************)
Started == {i \in DOMAIN compiled : calls[compiled[i].task] > 0}
Finished == {i \in DOMAIN compiled : compiled[i].task \in done}

\* Actions that neither start nor finish a step change nothing that StepOrder sees.
LEMMA QuietStep ==
    ASSUME UNCHANGED <<compiled, calls, done>>
    PROVE  UNCHANGED Order!vars
  BY DEF Order!vars

LEMMA StartIsStart ==
    ASSUME IInv, StartSteps
    PROVE  Order!Next
  <1> DEFINE B == StepsAt(compiled, node)
             Called(t) == \E i \in B : MustRun(i) /\ plan[i].task = t
             S == {j \in DOMAIN compiled : Called(compiled[j].task)}
  <1>1. /\ branch = <<>>
        /\ calls' = [t \in Tasks |-> IF Called(t) THEN calls[t] + 1 ELSE calls[t]]
        /\ UNCHANGED <<compiled, done>>
    BY DEF StartSteps, Running
  <1>2. IsPlan(compiled) /\ calls \in [Tasks -> Nat]
    BY PlansAssumption DEF IInv
  <1>3. ASSUME NEW j \in S
        PROVE  j \notin Started /\ compiled[j].deps \subseteq Finished
    <2>1. PICK i \in B : MustRun(i) /\ plan[i].task = compiled[j].task
      OBVIOUS
    <2>2. /\ calls[compiled[j].task] = 0
          /\ \A d \in compiled[j].deps : d \in DOMAIN compiled /\ compiled[d].task \in done
      BY <1>1, <2>1, StartsInOrder
    <2> QED
      BY <2>2 DEF Started, Finished
  <1>4. Started' = Started \cup S
    <2>1. ASSUME NEW j \in DOMAIN compiled
          PROVE  calls'[compiled[j].task] > 0 <=> j \in Started \/ j \in S
      <3>1. compiled[j].task \in Tasks
        BY <1>2 DEF IsPlan, Step
      <3>2. /\ calls[compiled[j].task] \in Nat
            /\ calls'[compiled[j].task] = IF Called(compiled[j].task)
                                          THEN calls[compiled[j].task] + 1
                                          ELSE calls[compiled[j].task]
        BY <1>1, <1>2, <3>1
      <3>3. j \in S <=> Called(compiled[j].task)
        OBVIOUS
      <3> HIDE DEF S, Called
      <3> QED
        BY <3>2, <3>3 DEF Started
    <2>2. S \subseteq DOMAIN compiled
      OBVIOUS
    <2> HIDE DEF S, Called
    <2> QED
      BY <1>1, <2>1, <2>2 DEF Started
  <1>5. S \in SUBSET DOMAIN compiled
    OBVIOUS
  <1> HIDE DEF S
  <1> QED
    BY <1>1, <1>3, <1>4, <1>5 DEF Order!Next, Order!Start, Started, Finished

LEMMA FinishIsFinish ==
    ASSUME IInv, NEW i \in DOMAIN branch, FinishStep(i)
    PROVE  Order!Next \/ UNCHANGED Order!vars
  <1> DEFINE t == branch[i].plan[i].task
  <1>1. UNCHANGED <<compiled, calls>> /\ done' = done \cup {t} /\ calls[t] > 0
    BY DEF FinishStep, IInv, BranchOK
  <1> HIDE DEF t
  <1>2. CASE \E j \in DOMAIN compiled : compiled[j].task = t /\ j \notin Finished
    <2>1. PICK j \in DOMAIN compiled : compiled[j].task = t /\ j \notin Finished
      BY <1>2
    <2>2. \A k \in DOMAIN compiled : compiled[k].task = t <=> k = j
      BY <2>1, TasksAssumption DEF IInv
    <2>3. j \in Started
      BY <1>1, <2>1 DEF Started
    <2>4. Finished' = Finished \cup {j}
      BY <1>1, <2>1, <2>2 DEF Finished
    <2>5. Order!Finish(j)
      BY <1>1, <2>1, <2>3, <2>4 DEF Order!Finish, Started, Finished
    <2> QED
      BY <2>1, <2>5 DEF Order!Next
  <1>3. CASE \A j \in DOMAIN compiled : compiled[j].task = t => j \in Finished
    <2>1. Finished' = Finished /\ Started' = Started
      BY <1>1, <1>3 DEF Finished, Started
    <2> QED
      BY <1>1, <2>1 DEF Order!vars, Finished, Started
  <1> QED
    BY <1>2, <1>3

LEMMA StepsAreSteps == IInv /\ [Next]_vars => [Order!Next]_(Order!vars)
  <1> SUFFICES ASSUME IInv, [Next]_vars
               PROVE  Order!Next \/ UNCHANGED Order!vars
    OBVIOUS
  <1>1. CASE StartSteps
    BY <1>1, StartIsStart
  <1>2. CASE \E i \in DOMAIN branch : FinishStep(i)
    BY <1>2, FinishIsFinish
  <1>3. CASE \/ EndGraph \/ PassNode \/ JoinBranches \/ UNCHANGED vars
             \/ \E i \in DOMAIN branch : RaiseStep(i) \/ ReplanStep(i)
    <2>1. UNCHANGED <<compiled, calls, done>>
      BY <1>3 DEF EndGraph, PassNode, JoinBranches, RaiseStep, ReplanStep, vars, historyVars
    <2> QED
      BY <2>1, QuietStep
  <1> QED
    BY <1>1, <1>2, <1>3 DEF Next, GraphStep, StepEnds, Done

\* At first no step is started.
LEMMA InitIsInit == Init => Order!Init
  <1> SUFFICES ASSUME Init
               PROVE  Order!Init
    OBVIOUS
  <1>1. compiled \in InitialPlans /\ IsPlan(compiled)
    BY PlansAssumption DEF Init
  <1>2. \A j \in DOMAIN compiled : calls[compiled[j].task] = 0
    BY <1>1 DEF Init, IsPlan, Step
  <1> QED
    BY <1>1, <1>2 DEF Init, Order!Init

\* The inductive invariant of the compiled graph.
THEOREM SubgraphInvariant == Spec => []IInv
  BY InitEstablishesInv, NextKeepsInv, PTL DEF Spec

\* StepsRunOnceInOrder: what _execute_fanout, merge_states and the replans do to the
\* plan state, no step of the compiled plan is started twice, or before a step
\* that it depends on is done.
THEOREM StepOrderImplemented == Spec => StepsRunOnceInOrder
  <1>1. Spec => Order!Spec
    BY SubgraphInvariant, InitIsInit, StepsAreSteps, PTL DEF Spec, Order!Spec
  <1> QED
    BY <1>1 DEF StepsRunOnceInOrder

-----------------------------------------------------------------------------
(***************************************************************************)
(* Plans without parallel levels.  The levels of a valid plan take in all  *)
(* its steps, so that a graph that goes on to the sink leaves none out.    *)
(***************************************************************************)
LEMMA IdsOfValidPlan ==
    ASSUME NEW p, IsPlan(p), ValidPlan(p)
    PROVE  /\ Cardinality(DOMAIN p) \in Nat \ {0}
           /\ DOMAIN p = 1..Cardinality(DOMAIN p)
  <1> DEFINE m == Max(DOMAIN p)
  <1>1. /\ DOMAIN p \in SUBSET (Nat \ {0}) /\ IsFiniteSet(DOMAIN p) /\ DOMAIN p # {}
        /\ \A i \in DOMAIN p : 1..i \subseteq DOMAIN p
    BY DEF IsPlan, ValidPlan
  <1>2. m \in DOMAIN p /\ \A y \in DOMAIN p : y <= m
    BY <1>1, GreatestOfFinite
  <1> HIDE DEF m
  <1>3. m \in Nat \ {0}
    BY <1>1, <1>2
  <1>4. DOMAIN p = 1..m
    <2>1. \A y \in DOMAIN p : y \in 1..m
      BY <1>1, <1>2, <1>3
    <2> QED
      BY <1>1, <1>2, <2>1
  <1>5. Cardinality(1..m) = m
    BY <1>3, FS_Interval
  <1> QED
    BY <1>3, <1>4, <1>5

\* Step i is in one of the first i levels.
LEMMA ReadyByNumber ==
    ASSUME NEW p, IsPlan(p), ValidPlan(p), NEW i \in DOMAIN p
    PROVE  i \in Ready(p)[i]
  <1> DEFINE N == Cardinality(DOMAIN p)
             Bad == {k \in Nat : k \in DOMAIN p /\ k \notin Ready(p)[k]}
  <1>1. N \in Nat /\ DOMAIN p = 1..N
    BY IdsOfValidPlan
  <1>2. ReadyUpTo(p, Ready(p), N)
    BY <1>1, ReadyIs
  <1> HIDE DEF N
  <1>3. ASSUME Bad # {}
        PROVE  FALSE
    <2>1. PICK k \in Bad : \A l \in Bad : k <= l
      BY <1>3, LeastNat
    <2>2. k \in 0..N /\ k # 0 /\ k - 1 \in 0..N
      BY <1>1, <2>1
    <2>3. Ready(p)[k] = NextReady(p, Ready(p)[k - 1])
      BY <1>2, <2>2 DEF ReadyUpTo
    <2>4. ASSUME NEW d \in p[k].deps
          PROVE  d \in Ready(p)[k - 1]
      <3>1. d \in DOMAIN p /\ d < k /\ d \in Nat
        BY <1>1, <2>1 DEF ValidPlan
      <3>2. d \notin Bad
        BY <2>1, <2>2, <3>1
      <3>3. d \in Ready(p)[d]
        BY <3>1, <3>2
      <3>4. d \in 0..N /\ d <= k - 1
        BY <1>1, <2>2, <3>1
      <3>5. Ready(p)[d] \subseteq Ready(p)[k - 1]
        BY <1>1, <1>2, <2>2, <3>4, ReadyGrows
      <3> QED
        BY <3>3, <3>5
    <2>5. k \in Ready(p)[k]
      BY <2>1, <2>3, <2>4 DEF NextReady
    <2> QED
      BY <2>1, <2>5
  <1>4. i \in Nat
    BY DEF IsPlan
  <1> QED
    BY <1>3, <1>4

\* A step of the first n levels is on one of them.
LEMMA ReadyOnLevel ==
    ASSUME NEW p, IsPlan(p), NEW n \in 0..Cardinality(DOMAIN p), NEW i \in Ready(p)[n]
    PROVE  \E k \in 1..n : i \in Level(p, k)
  <1> DEFINE N == Cardinality(DOMAIN p)
             In == {k \in Nat : k <= n /\ i \in Ready(p)[k]}
  <1>1. N \in Nat
    BY FS_CardinalityType DEF IsPlan
  <1>2. ReadyUpTo(p, Ready(p), N)
    BY <1>1, ReadyIs
  <1> HIDE DEF N
  <1>3. n \in 0..N
    BY DEF N
  <1>4. PICK k \in In : \A l \in In : k <= l
    <2>1. n \in In /\ In \in SUBSET Nat
      BY <1>1, <1>3
    <2> QED
      BY <2>1, LeastNat
  <1>5. k # 0
    <2>1. Ready(p)[0] = {}
      BY <1>1, <1>2 DEF ReadyUpTo
    <2> QED
      BY <1>4, <2>1
  <1>6. k \in 1..n /\ k \in 1..N /\ k - 1 \in Nat /\ k - 1 <= n
    BY <1>1, <1>3, <1>4, <1>5
  <1>7. i \notin Ready(p)[k - 1]
    <2>1. k - 1 \notin In
      BY <1>4, <1>6
    <2> QED
      BY <1>6, <2>1
  <1>8. i \in Level(p, k)
    BY <1>4, <1>6, <1>7 DEF Level, N
  <1> QED
    BY <1>6, <1>8

(***************************************************************************)
(* When no step is on the next level, all of them are on one before: the   *)
(* first step that is not has its dependencies there.                      *)
(***************************************************************************)
LEMMA LevelsTakeInAll ==
    ASSUME NEW p, IsPlan(p), ValidPlan(p), NEW n \in 0..Cardinality(DOMAIN p),
           Level(p, n + 1) = {}, NEW i \in DOMAIN p
    PROVE  \E k \in 1..n : i \in Level(p, k)
  <1> DEFINE N == Cardinality(DOMAIN p)
             Left == {k \in Nat : k \in DOMAIN p /\ k \notin Ready(p)[n]}
  <1>1. N \in Nat /\ DOMAIN p = 1..N
    BY IdsOfValidPlan
  <1>2. ReadyUpTo(p, Ready(p), N)
    BY <1>1, ReadyIs
  <1> HIDE DEF N
  <1>3. n \in 0..N
    BY DEF N
  <1>4. ASSUME Left # {}
        PROVE  FALSE
    <2>1. PICK k \in Left : \A l \in Left : k <= l
      BY <1>4, LeastNat
    <2>2. \A d \in p[k].deps : d \in Ready(p)[n]
      <3> TAKE d \in p[k].deps
      <3>1. d \in DOMAIN p /\ d < k /\ d \in Nat
        BY <1>1, <2>1 DEF ValidPlan
      <3>2. d \notin Left
        BY <2>1, <3>1
      <3> QED
        BY <3>1, <3>2
    <2>3. CASE n = N
      <3>1. k \in 0..N /\ k <= n
        BY <1>1, <1>3, <2>1, <2>3
      <3>2. Ready(p)[k] \subseteq Ready(p)[n]
        BY <1>1, <1>2, <1>3, <3>1, ReadyGrows
      <3> QED
        BY <2>1, <3>2, ReadyByNumber
    <2>4. CASE n # N
      <3>1. n + 1 \in 1..N /\ n + 1 \in 0..N /\ n + 1 - 1 = n /\ n + 1 # 0
        BY <1>1, <1>3, <2>4
      <3>2. Ready(p)[n + 1] = NextReady(p, Ready(p)[n])
        <4>1. PICK m \in 0..N : m = n + 1 /\ m # 0 /\ m - 1 = n
          BY <3>1
        <4>2. Ready(p)[m] = NextReady(p, Ready(p)[m - 1])
          BY <1>2, <4>1 DEF ReadyUpTo
        <4> QED
          BY <4>1, <4>2
      <3>3. k \in Ready(p)[n + 1]
        BY <2>1, <2>2, <3>2 DEF NextReady
      <3>4. k \in Level(p, n + 1)
        BY <2>1, <3>1, <3>3 DEF Level, N
      <3> QED
        BY <3>4
    <2> QED
      BY <2>3, <2>4
  <1>5. i \in Ready(p)[n]
    BY <1>1, <1>4
  <1> QED
    BY <1>5, ReadyOnLevel

-----------------------------------------------------------------------------
(***************************************************************************)
(* The run of such a plan, under a policy that does not replan.  The graph *)
(* stands before level n + 1 with the steps before it finished, and has    *)
(* taken two turns for each of them.                                       *)
(***************************************************************************)
Chain == /\ policy # "replan"
         /\ \A n \in DOMAIN compiled : Cardinality(Level(compiled, n)) <= 1

FinishedUpTo(n) == \A k \in 1..n : Level(compiled, k) \subseteq FinishedIds(status)

\* The branch of step i has its own record of i, and otherwise the graph's.
OwnBranch(i) ==
    LET b == branch[i]
    IN /\ DOMAIN branch = {i}
       /\ b \in [plan : {compiled}, status : {b.status}, phase : Phases]
       /\ b.status \in [DOMAIN compiled -> Status]
       /\ \A j \in DOMAIN compiled : j # i => b.status[j] = status[j]
       /\ b.phase = "done" => b.status[i] \in FinishedStatus

StandsAt(n) ==
    \/ /\ node = Source(n) /\ iterations = 2 * n /\ branch = <<>>
    \/ \E i \in Level(compiled, n + 1) :
          /\ node = StepNode(i) /\ iterations = 2 * n + 1
          /\ branch = <<>> \/ OwnBranch(i)
    \/ /\ Level(compiled, n + 1) = {} /\ branch = <<>>
       /\ \/ node = Sink /\ iterations = 2 * n + 1
          \/ node = EndNode

ChainState ==
    /\ plan = compiled
    /\ status \in [DOMAIN compiled -> FinishedStatus \cup {"pending"}]
    /\ \E n \in 0..Cardinality(DOMAIN compiled) : FinishedUpTo(n) /\ StandsAt(n)
    /\ outcome = "ended" => branch = <<>> /\ FinishedIds(status) = DOMAIN plan

ChainInv == compiled \in InitialPlans /\ (Chain => ChainState)

\* A level of at most one step.
LEMMA OnlyStep ==
    ASSUME NEW S, IsFiniteSet(S), Cardinality(S) <= 1, NEW x \in S
    PROVE  S = {x}
  <1> SUFFICES ASSUME NEW y \in S, y # x
               PROVE  FALSE
    OBVIOUS
  <1>1. {x, y} \subseteq S
    OBVIOUS
  <1>2. IsFiniteSet({x}) /\ Cardinality({x}) = 1
    BY FS_Singleton
  <1>3. {x} \cup {y} = {x, y} /\ y \notin {x}
    OBVIOUS
  <1>4. Cardinality({x, y}) = 2
    BY <1>2, <1>3, FS_AddElement
  <1>5. Cardinality({x, y}) <= Cardinality(S)
    BY <1>1, FS_Subset
  <1>6. Cardinality(S) \in Nat
    BY FS_CardinalityType
  <1> QED
    BY <1>4, <1>5, <1>6

\* Chains have no fan-outs.
LEMMA ChainLevel ==
    ASSUME ChainInv, Chain, NEW n \in Nat
    PROVE  /\ IsPlan(compiled) /\ ValidPlan(compiled)
           /\ Level(compiled, n) \subseteq DOMAIN compiled
           /\ Cardinality(Level(compiled, n)) <= 1
           /\ \A i \in Level(compiled, n) : Level(compiled, n) = {i}
  <1>1. IsPlan(compiled) /\ ValidPlan(compiled)
    BY PlansAssumption DEF ChainInv
  <1>2. Level(compiled, n) \subseteq DOMAIN compiled
    BY <1>1, LevelOfFinds
  <1>3. IsFiniteSet(Level(compiled, n))
    BY <1>1, <1>2, FS_Subset DEF IsPlan
  <1>4. Cardinality(Level(compiled, n)) <= 1
    <2>1. CASE n \in 1..Cardinality(DOMAIN compiled)
      BY <1>1, <2>1, IdsOfValidPlan DEF Chain
    <2>2. CASE n \notin 1..Cardinality(DOMAIN compiled)
      <3>1. Level(compiled, n) = {}
        BY <2>2 DEF Level
      <3> QED
        BY <3>1, FS_EmptySet
    <2> QED
      BY <2>1, <2>2
  <1> QED
    BY <1>1, <1>2, <1>3, <1>4, OnlyStep

LEMMA NoFanOut ==
    ASSUME ChainInv, Chain, NEW n \in Nat, NEW nd, nd = Source(n)
    PROVE  StepsAt(compiled, nd) = {} /\ Successor(compiled, nd) = AfterLevel(compiled, n)
  <1>1. nd[1] \in {"entry", "join"} /\ nd[2] = n /\ nd[1] # "step"
    BY DEF Source, Entry, JoinNode
  <1>2. Cardinality(Level(compiled, n + 1)) <= 1 /\ Cardinality(Level(compiled, n + 1)) \in Nat
    <2>1. Level(compiled, n + 1) \subseteq DOMAIN compiled /\ IsPlan(compiled)
          /\ Cardinality(Level(compiled, n + 1)) <= 1
      BY ChainLevel
    <2> QED
      BY <2>1, FS_Subset, FS_CardinalityType DEF IsPlan
  <1>3. FanOut(compiled, nd) = {}
    BY <1>1, <1>2 DEF FanOut
  <1> QED
    BY <1>1, <1>3 DEF StepsAt, Successor

LEMMA InitChainInv == Init => ChainInv
  <1> SUFFICES ASSUME Init
               PROVE  ChainInv
    OBVIOUS
  <1>1. compiled \in InitialPlans /\ IsPlan(compiled) /\ plan = compiled
    BY PlansAssumption DEF Init
  <1>2. status \in [DOMAIN compiled -> FinishedStatus \cup {"pending"}]
    BY <1>1 DEF Init, AllPending
  <1>3. 0 \in 0..Cardinality(DOMAIN compiled)
    BY <1>1, FS_CardinalityType DEF IsPlan
  <1>4. FinishedUpTo(0) /\ StandsAt(0)
    BY DEF FinishedUpTo, StandsAt, Init, Source
  <1>5. outcome # "ended"
    BY DEF Init
  <1> QED
    BY <1>1, <1>2, <1>3, <1>4, <1>5 DEF ChainInv, ChainState

\* What a step on the next level depends on is finished.
LEMMA ChainDepsMet ==
    ASSUME ChainInv, Chain, ChainState, NEW n \in 0..Cardinality(DOMAIN compiled),
           FinishedUpTo(n), NEW i \in Level(compiled, n + 1)
    PROVE  /\ i \in DOMAIN plan /\ DepsMet(plan, status, i)
           /\ MustRun(i) <=> status[i] = "pending"
  <1> DEFINE N == Cardinality(DOMAIN compiled)
  <1>1. IsPlan(compiled) /\ ValidPlan(compiled) /\ plan = compiled /\ n + 1 \in Nat
    BY PlansAssumption DEF ChainInv, ChainState
  <1>2. n + 1 \in 1..N /\ i \in DOMAIN compiled
    BY <1>1, LevelOfFinds
  <1>3. N \in Nat /\ ReadyUpTo(compiled, Ready(compiled), N)
    BY <1>1, ReadyIs, FS_CardinalityType DEF IsPlan
  <1>4. i \in Ready(compiled)[n + 1]
    BY <1>2 DEF Level
  <1> HIDE DEF N
  <1>5. Ready(compiled)[n + 1] = NextReady(compiled, Ready(compiled)[n])
    <2>1. PICK m \in 0..N : m = n + 1 /\ m # 0 /\ m - 1 = n
      BY <1>2, <1>3
    <2>2. Ready(compiled)[m] = NextReady(compiled, Ready(compiled)[m - 1])
      BY <1>3, <2>1 DEF ReadyUpTo
    <2> QED
      BY <2>1, <2>2
  <1>6. ASSUME NEW d \in compiled[i].deps
        PROVE  d \in FinishedIds(status)
    <2>1. d \in Ready(compiled)[n]
      BY <1>4, <1>5 DEF NextReady
    <2>2. \E k \in 1..n : d \in Level(compiled, k)
      BY <1>1, <2>1, ReadyOnLevel
    <2> QED
      BY <2>2 DEF FinishedUpTo
  <1>7. DepsMet(plan, status, i)
    BY <1>1, <1>6 DEF DepsMet
  <1>8. status[i] \in FinishedStatus \cup {"pending"}
    BY <1>2 DEF ChainState
  <1> QED
    BY <1>1, <1>2, <1>7, <1>8 DEF MustRun, SettledStatus, FinishedStatus

LEMMA ChainStays ==
    ASSUME UNCHANGED <<policy, compiled>>
    PROVE  Chain' = Chain
  BY DEF Chain

\* A step that changes neither the statuses nor the compiled plan.
LEMMA ChainMoves ==
    ASSUME ChainInv, Chain, ChainState, UNCHANGED <<compiled, plan, status>>,
           NEW n \in 0..Cardinality(DOMAIN compiled), FinishedUpTo(n), StandsAt(n)',
           outcome' # "ended"
    PROVE  ChainInv'
  <1>1. FinishedUpTo(n)'
    BY DEF FinishedUpTo
  <1> QED
    BY <1>1 DEF ChainInv, ChainState

LEMMA StartKeepsChain == ChainInv /\ StartSteps => ChainInv'
  <1> SUFFICES ASSUME ChainInv, StartSteps, Chain'
               PROVE  ChainInv'
    BY DEF ChainInv, StartSteps
  <1>1. /\ UNCHANGED <<policy, compiled, plan, status, node, iterations>>
        /\ branch = <<>> /\ StepsAt(compiled, node) # {} /\ node # EndNode
        /\ branch' = [i \in StepsAt(compiled, node) |-> StartedBranch(i)]
        /\ outcome' # "ended"
    BY DEF StartSteps, Running, Continues
  <1>2. Chain /\ ChainState
    BY <1>1, ChainStays DEF ChainInv
  <1>3. PICK n \in 0..Cardinality(DOMAIN compiled) : FinishedUpTo(n) /\ StandsAt(n)
    BY <1>2 DEF ChainState
  <1>4. IsPlan(compiled) /\ n \in Nat
    BY <1>3, PlansAssumption DEF ChainInv
  <1>5. node # Source(n)
    BY <1>1, <1>2, <1>4, NoFanOut
  <1>6. node # Sink
    BY <1>1, NothingAtTheEnd
  <1>7. PICK i \in Level(compiled, n + 1) : node = StepNode(i) /\ iterations = 2 * n + 1
    BY <1>1, <1>3, <1>5, <1>6 DEF StandsAt
  <1>8. StepsAt(compiled, node) = {i}
    BY <1>7 DEF StepsAt, StepNode
  <1>9. /\ i \in DOMAIN plan /\ DepsMet(plan, status, i)
        /\ MustRun(i) <=> status[i] = "pending"
    BY <1>2, <1>3, ChainDepsMet
  <1>10. plan = compiled /\ status \in [DOMAIN compiled -> FinishedStatus \cup {"pending"}]
    BY <1>2 DEF ChainState
  <1>11. OwnBranch(i)'
    <2> DEFINE b == StartedBranch(i)
    <2>1. DOMAIN branch' = {i} /\ branch'[i] = b
      BY <1>1, <1>8
    <2>2. CASE MustRun(i)
      <3> DEFINE u == [status EXCEPT ![i] = "running"]
      <3>1. b.plan = compiled /\ b.status = u /\ b.phase = "tool"
            /\ b \in [plan : {compiled}, status : {b.status}, phase : Phases]
        BY <1>10, <2>2 DEF StartedBranch, Phases
      <3>2. u \in [DOMAIN compiled -> Status] /\ \A j \in DOMAIN compiled : j # i => u[j] = status[j]
        BY <1>10 DEF Status, FinishedStatus
      <3> HIDE DEF b, u
      <3> QED
        BY <1>1, <2>1, <3>1, <3>2 DEF OwnBranch
    <2>3. CASE ~MustRun(i)
      <3>1. b.plan = compiled /\ b.status = status /\ b.phase = "done"
            /\ b \in [plan : {compiled}, status : {b.status}, phase : Phases]
        BY <1>9, <1>10, <2>3 DEF StartedBranch, Phases
      <3>2. status[i] \in FinishedStatus
        BY <1>9, <1>10, <2>3
      <3>3. status \in [DOMAIN compiled -> Status]
        BY <1>10 DEF Status, FinishedStatus
      <3> HIDE DEF b
      <3> QED
        BY <1>1, <2>1, <3>1, <3>2, <3>3 DEF OwnBranch
    <2> QED
      BY <2>2, <2>3
  <1>12. StandsAt(n)'
    <2>1. i \in Level(compiled', n + 1) /\ node' = StepNode(i) /\ iterations' = 2 * n + 1
      BY <1>1, <1>7
    <2> QED
      BY <1>11, <2>1 DEF StandsAt
  <1> QED
    BY <1>1, <1>2, <1>3, <1>12, ChainMoves

LEMMA PassKeepsChain == ChainInv /\ PassNode => ChainInv'
  <1> SUFFICES ASSUME ChainInv, PassNode, Chain'
               PROVE  ChainInv'
    BY DEF ChainInv, PassNode
  <1>1. /\ UNCHANGED <<policy, compiled, plan, status, outcome>>
        /\ branch = <<>> /\ branch' = <<>> /\ StepsAt(compiled, node) = {}
        /\ node # EndNode /\ outcome = "running"
        /\ node' = Successor(compiled, node) /\ iterations' = iterations + 1
    BY DEF PassNode, Running, Continues
  <1>2. Chain /\ ChainState
    BY <1>1, ChainStays DEF ChainInv
  <1>3. PICK n \in 0..Cardinality(DOMAIN compiled) : FinishedUpTo(n) /\ StandsAt(n)
    BY <1>2 DEF ChainState
  <1>4. IsPlan(compiled) /\ n \in Nat
    BY <1>3, PlansAssumption DEF ChainInv
  <1>5. StandsAt(n)'
    <2>1. CASE node = Source(n) /\ iterations = 2 * n
      <3>1. node' = AfterLevel(compiled, n) /\ iterations' = 2 * n + 1
        BY <1>1, <1>2, <1>4, <2>1, NoFanOut
      <3>2. CASE Level(compiled, n + 1) = {}
        <4>1. node' = Sink /\ Level(compiled', n + 1) = {}
          BY <1>1, <3>1, <3>2 DEF AfterLevel
        <4> QED
          BY <1>1, <3>1, <4>1 DEF StandsAt
      <3>3. CASE Level(compiled, n + 1) # {}
        <4>1. Level(compiled, n + 1) \in SUBSET Nat
          BY <1>4, LevelOfFinds DEF IsPlan
        <4>2. PICK x \in Level(compiled, n + 1) : \A y \in Level(compiled, n + 1) : x <= y
          BY <3>3, <4>1, LeastNat
        <4>3. Min(Level(compiled, n + 1)) \in Level(compiled, n + 1)
          BY <4>2 DEF Min
        <4>4. \E i \in Level(compiled', n + 1) : node' = StepNode(i)
          BY <1>1, <3>1, <3>3, <4>3 DEF AfterLevel
        <4> QED
          BY <1>1, <3>1, <4>4 DEF StandsAt
      <3> QED
        BY <3>2, <3>3
    <2>2. ASSUME NEW i \in Level(compiled, n + 1), node = StepNode(i)
          PROVE  FALSE
      <3>1. StepsAt(compiled, node) = {i}
        BY <2>2 DEF StepsAt, StepNode
      <3> QED
        BY <1>1, <3>1
    <2>3. CASE node = Sink /\ Level(compiled, n + 1) = {}
      <3>1. node' = EndNode /\ Level(compiled', n + 1) = {}
        BY <1>1, <2>3 DEF Successor, Sink
      <3> QED
        BY <1>1, <3>1 DEF StandsAt
    <2> QED
      BY <1>1, <1>3, <2>1, <2>2, <2>3 DEF StandsAt
  <1> QED
    BY <1>1, <1>2, <1>3, <1>5, ChainMoves

\* The join of a step that ran alone takes its record over.
LEMMA JoinKeepsChain == ChainInv /\ JoinBranches => ChainInv'
  <1> SUFFICES ASSUME ChainInv, JoinBranches, Chain'
               PROVE  ChainInv'
    BY DEF ChainInv, JoinBranches
  <1>1. /\ UNCHANGED <<policy, compiled, outcome>>
        /\ branch # <<>> /\ branch' = <<>> /\ outcome = "running"
        /\ \A i \in DOMAIN branch : branch[i].phase = "done"
        /\ plan' = Merged.plan /\ status' = Merged.status
        /\ node' = AfterSteps(compiled, node) /\ iterations' = iterations + 1
    BY DEF JoinBranches
  <1>2. Chain /\ ChainState
    BY <1>1, ChainStays DEF ChainInv
  <1>3. PICK n \in 0..Cardinality(DOMAIN compiled) : FinishedUpTo(n) /\ StandsAt(n)
    BY <1>2 DEF ChainState
  <1>4. IsPlan(compiled) /\ n \in Nat /\ n + 1 \in Nat
    BY <1>3, PlansAssumption DEF ChainInv
  <1>5. PICK i \in Level(compiled, n + 1) :
            node = StepNode(i) /\ iterations = 2 * n + 1 /\ OwnBranch(i)
    BY <1>1, <1>3 DEF StandsAt
  <1>6. /\ LevelOf(compiled, i) = n + 1
        /\ n + 1 \in 0..Cardinality(DOMAIN compiled)
        /\ i \in DOMAIN compiled
    <2>1. n + 1 \in 1..Cardinality(DOMAIN compiled) /\ LevelOf(compiled, i) = n + 1
          /\ i \in DOMAIN compiled
      BY <1>4, LevelOfFinds
    <2> QED
      BY <1>4, <2>1
  <1>7. Max(DOMAIN branch) = i
    <2>1. DOMAIN branch = {i} /\ i \in Nat
      BY <1>4, <1>5, <1>6 DEF OwnBranch, IsPlan
    <2>2. Max({i}) \in {i}
      BY <2>1, GreatestOfFinite, FS_Singleton
    <2> QED
      BY <2>1, <2>2
  <1>8. /\ plan' = compiled /\ status' \in [DOMAIN compiled -> Status]
        /\ \A j \in DOMAIN compiled : j # i => status'[j] = status[j]
        /\ status'[i] \in FinishedStatus
    <2>1. Merged = branch[i] /\ DOMAIN branch = {i}
      BY <1>5, <1>7 DEF Merged, OwnBranch
    <2> QED
      BY <1>1, <1>5, <2>1 DEF OwnBranch
  <1>9. status' \in [DOMAIN compiled -> FinishedStatus \cup {"pending"}]
    <2>1. status \in [DOMAIN compiled -> FinishedStatus \cup {"pending"}]
      BY <1>2 DEF ChainState
    <2> QED
      BY <1>8, <2>1
  <1>10. FinishedUpTo(n + 1)'
    <2> SUFFICES ASSUME NEW k \in 1..(n + 1), NEW j \in Level(compiled, k)
                 PROVE  j \in FinishedIds(status')
      BY <1>1 DEF FinishedUpTo
    <2>1. j \in DOMAIN compiled
      BY <1>4, LevelOfFinds
    <2>2. CASE j = i
      BY <1>8, <2>1, <2>2 DEF FinishedIds
    <2>3. CASE j # i
      <3>1. k # n + 1
        BY <1>2, <1>4, <1>5, <2>3, ChainLevel
      <3>2. k \in 1..n
        BY <1>4, <3>1
      <3>3. j \in FinishedIds(status)
        BY <1>3, <3>2 DEF FinishedUpTo
      <3> QED
        BY <1>8, <2>1, <2>3, <3>3 DEF FinishedIds
    <2> QED
      BY <2>2, <2>3
  <1>11. StandsAt(n + 1)'
    <2>1. node[1] = "step" /\ node[2] = i
      BY <1>5 DEF StepNode
    <2>2. node' = JoinNode(n + 1)
      BY <1>1, <1>6, <2>1 DEF AfterSteps, Successor
    <2>3. node' = Source(n + 1)
      BY <1>4, <2>2 DEF Source
    <2>4. iterations' = 2 * (n + 1)
      BY <1>1, <1>4, <1>5
    <2> QED
      BY <1>1, <2>3, <2>4 DEF StandsAt
  <1>12. compiled' \in InitialPlans /\ plan' = compiled' /\ outcome' # "ended"
    BY <1>1, <1>8 DEF ChainInv
  <1>13. n + 1 \in 0..Cardinality(DOMAIN compiled')
    BY <1>1, <1>6
  <1>14. status' \in [DOMAIN compiled' -> FinishedStatus \cup {"pending"}]
    BY <1>1, <1>9
  <1> QED
    BY <1>10, <1>11, <1>12, <1>13, <1>14 DEF ChainInv, ChainState

\* The end of a step changes its own record in its branch.
LEMMA EndKeepsChain == ChainInv /\ (\E i \in DOMAIN branch : StepEnds(i)) => ChainInv'
  <1> SUFFICES ASSUME ChainInv, NEW i \in DOMAIN branch, StepEnds(i), Chain'
               PROVE  ChainInv'
    BY DEF ChainInv, StepEnds, FinishStep, RaiseStep, ReplanStep
  <1>1. UNCHANGED <<policy, compiled, plan, status, node, iterations>>
    BY DEF StepEnds, FinishStep, RaiseStep, ReplanStep, graphVars
  <1>2. Chain /\ ChainState
    BY <1>1, ChainStays DEF ChainInv
  <1>3. PICK n \in 0..Cardinality(DOMAIN compiled) : FinishedUpTo(n) /\ StandsAt(n)
    BY <1>2 DEF ChainState
  <1>4. branch # <<>>
    <2>1. DOMAIN branch # {} /\ DOMAIN <<>> = {}
      OBVIOUS
    <2> QED
      BY <2>1
  <1>5. PICK j \in Level(compiled, n + 1) :
            node = StepNode(j) /\ iterations = 2 * n + 1 /\ OwnBranch(j)
    BY <1>3, <1>4 DEF StandsAt
  <1>6. j = i
    BY <1>5 DEF OwnBranch
  <1>7. outcome' # "ended"
    <2>1. outcome # "ended"
      BY <1>2, <1>4 DEF ChainState
    <2> QED
      BY <2>1 DEF StepEnds, FinishStep, RaiseStep, ReplanStep, graphVars
  <1>8. \E s \in FinishedStatus \cup {"failed"}, ph \in {"done", "raised"} :
            /\ branch' = [branch EXCEPT ![i].status[i] = s, ![i].phase = ph]
            /\ ph = "done" => s \in FinishedStatus
    <2>1. CASE FinishStep(i)
      BY <2>1 DEF FinishStep
    <2>2. CASE RaiseStep(i)
      BY <2>2 DEF RaiseStep
    <2>3. ~ReplanStep(i)
      BY <1>2 DEF ReplanStep, Chain
    <2> QED
      BY <2>1, <2>2, <2>3 DEF StepEnds
  <1>9. PICK s \in FinishedStatus \cup {"failed"}, ph \in {"done", "raised"} :
            /\ branch' = [branch EXCEPT ![i].status[i] = s, ![i].phase = ph]
            /\ ph = "done" => s \in FinishedStatus
    BY <1>8
  <1>10. i \in DOMAIN compiled
    BY <1>3, <1>5, <1>6, LevelOfFinds, PlansAssumption DEF ChainInv
  <1>11. OwnBranch(i)'
    <2> DEFINE u == [branch[i].status EXCEPT ![i] = s]
               b == [branch[i] EXCEPT !.status = u, !.phase = ph]
    <2>1. branch' = [branch EXCEPT ![i] = b]
      BY <1>9
    <2>2. branch[i] \in [plan : {compiled}, status : {branch[i].status}, phase : Phases]
          /\ branch[i].status \in [DOMAIN compiled -> Status]
          /\ DOMAIN branch = {i}
          /\ \A k \in DOMAIN compiled : k # i => branch[i].status[k] = status[k]
      BY <1>5, <1>6 DEF OwnBranch
    <2>3. b.status = u /\ b.phase = ph
          /\ b \in [plan : {compiled}, status : {b.status}, phase : Phases]
      BY <2>2 DEF Phases
    <2>4. u \in [DOMAIN compiled -> Status] /\ u[i] = s
          /\ \A k \in DOMAIN compiled : k # i => u[k] = status[k]
      BY <1>10, <2>2 DEF Status, FinishedStatus
    <2> HIDE DEF u, b
    <2>5. DOMAIN branch' = {i} /\ branch'[i] = b
      BY <2>1, <2>2
    <2> QED
      BY <1>1, <1>9, <2>3, <2>4, <2>5 DEF OwnBranch
  <1>12. StandsAt(n)'
    <2>1. i \in Level(compiled', n + 1) /\ node' = StepNode(i) /\ iterations' = 2 * n + 1
      BY <1>1, <1>5, <1>6
    <2> QED
      BY <1>11, <2>1 DEF StandsAt
  <1> QED
    BY <1>1, <1>2, <1>3, <1>7, <1>12, ChainMoves

\* max_iterations leaves room for every level.
LEMMA RoomForChain ==
    ASSUME NEW c, NEW N \in Nat \ {0}, Cardinality(DOMAIN c) = N, NEW n \in 0..N
    PROVE  MaxIterations(c) \in Nat /\ 2 * n + 1 < MaxIterations(c)
  <1>1. {4 * N, 10} \in SUBSET Nat /\ IsFiniteSet({4 * N, 10})
    <2>1. IsFiniteSet({4 * N}) /\ {4 * N} \cup {10} = {4 * N, 10}
      BY FS_Singleton
    <2> QED
      BY <2>1, FS_AddElement
  <1>2. MaxIterations(c) = Max({4 * N, 10})
    BY DEF MaxIterations
  <1>3. 4 * N <= MaxIterations(c) /\ MaxIterations(c) \in Nat
    BY <1>1, <1>2, GreatestOfFinite
  <1> QED
    BY <1>3

\* The graph ends at its end, or because everything is finished.
LEMMA EndGraphKeepsChain == ChainInv /\ EndGraph => ChainInv'
  <1> SUFFICES ASSUME ChainInv, EndGraph, Chain'
               PROVE  ChainInv'
    BY DEF ChainInv, EndGraph
  <1>1. /\ UNCHANGED <<policy, compiled, plan, status, node, iterations, branch>>
        /\ branch = <<>> /\ ~Continues
    BY DEF EndGraph, Running
  <1>2. Chain /\ ChainState
    BY <1>1, ChainStays DEF ChainInv
  <1>3. PICK n \in 0..Cardinality(DOMAIN compiled) : FinishedUpTo(n) /\ StandsAt(n)
    BY <1>2 DEF ChainState
  <1>4. /\ IsPlan(compiled) /\ ValidPlan(compiled)
        /\ Cardinality(DOMAIN compiled) \in Nat \ {0}
    BY PlansAssumption, IdsOfValidPlan DEF ChainInv
  <1>5. plan = compiled /\ status \in [DOMAIN compiled -> FinishedStatus \cup {"pending"}]
    BY <1>2 DEF ChainState
  <1>6. FinishedIds(status) = DOMAIN plan
    <2>1. CASE node = EndNode
      <3>1. Level(compiled, n + 1) = {}
        BY <1>3, <2>1 DEF StandsAt, EndNode, StepNode, Source, Entry, JoinNode
      <3>2. \A i \in DOMAIN compiled : \E k \in 1..n : i \in Level(compiled, k)
        BY <1>4, <3>1, LevelsTakeInAll
      <3>3. \A i \in DOMAIN compiled : i \in FinishedIds(status)
        BY <1>3, <3>2 DEF FinishedUpTo
      <3> QED
        BY <1>5, <3>3 DEF FinishedIds
    <2>2. CASE AllFinished(status)
      BY <1>5, <2>2 DEF AllFinished, SettledStatus, FinishedStatus, FinishedIds
    <2>3. CASE node # EndNode /\ ~AllFinished(status)
      <3>1. ~(iterations < MaxIterations(compiled))
        BY <1>1, <2>3 DEF Continues
      <3>2. iterations \in {2 * n, 2 * n + 1} /\ n \in Nat
        BY <1>3, <2>3 DEF StandsAt
      <3>3. MaxIterations(compiled) \in Nat /\ 2 * n + 1 < MaxIterations(compiled)
        BY <1>4, RoomForChain
      <3> QED
        BY <3>1, <3>2, <3>3
    <2> QED
      BY <2>1, <2>2, <2>3
  <1>7. FinishedUpTo(n)' /\ StandsAt(n)'
    BY <1>1, <1>3 DEF FinishedUpTo, StandsAt, OwnBranch
  <1> QED
    BY <1>1, <1>2, <1>3, <1>6, <1>7 DEF ChainInv, ChainState

LEMMA NextKeepsChain == ChainInv /\ [Next]_vars => ChainInv'
  <1>1. ChainInv /\ UNCHANGED vars => ChainInv'
    <2> SUFFICES ASSUME ChainInv, UNCHANGED vars
                 PROVE  ChainInv'
      OBVIOUS
    <2>1. UNCHANGED <<policy, compiled, plan, status, node, iterations, branch, outcome>>
      BY DEF vars, graphVars
    <2> QED
      BY <2>1 DEF ChainInv, Chain, ChainState, FinishedUpTo, StandsAt, OwnBranch
  <1> QED
    BY <1>1, StartKeepsChain, PassKeepsChain, JoinKeepsChain, EndKeepsChain,
       EndGraphKeepsChain DEF Next, GraphStep, Done

\* ChainPlansComplete: a plan without parallel levels, run under retry or skip, ends
\* with every step finished, for any number of steps: no level is passed over,
\* no step finds a dependency unmet and max_iterations leaves room.
THEOREM ChainsComplete == Spec => []ChainPlansComplete
  <1>1. ChainInv => ChainPlansComplete
    BY DEF ChainInv, Chain, ChainState, ChainPlansComplete
  <1> QED
    BY <1>1, InitChainInv, NextKeepsChain, PTL DEF Spec

-----------------------------------------------------------------------------
(***************************************************************************)
(* The plan that is executed.  What the replanner leaves is shaped like a  *)
(* plan, and valid unless it reports a failure: apply_replanned_steps is   *)
(* validated or repaired, and the completed steps that are put back into a *)
(* repaired plan are those of a plan that was valid before.                *)
(***************************************************************************)
Shaped(p) == DOMAIN p \subseteq Nat \ {0} /\ IsFiniteSet(DOMAIN p)

StateOK(p, st, valid) ==
    /\ Shaped(p)
    /\ DOMAIN st = DOMAIN p
    /\ valid => ValidPlan(p)

\* No replan of this request has failed.
Sound == "failed" \notin replans

\* Step nodes are those of numbered steps.
NodeOK(nd) ==
    \/ nd = EndNode
    \/ nd[1] \in {"entry", "join", "sink"}
    \/ nd[1] = "step" /\ nd[2] \in Nat

SoundBranch(b, sound) ==
    /\ b \in [plan : {b.plan}, status : {b.status}, phase : {b.phase}]
    /\ StateOK(b.plan, b.status, sound)

ValidInv ==
    /\ Shaped(compiled)
    /\ StateOK(plan, status, Sound /\ at \notin {"memory_load", "planner"})
    /\ \A i \in DOMAIN branch : SoundBranch(branch[i], Sound)
    /\ DOMAIN branch \in SUBSET Nat /\ IsFiniteSet(DOMAIN branch)
    /\ NodeOK(node)
    /\ outcome # "idle" => at = "execution"
    /\ branch # <<>> => DOMAIN branch # {} /\ outcome \in {"running", "failed"}

\* The ids of a repaired list are its positions.
LEMMA RepairedDomain ==
    ASSUME NEW list, IsFiniteSet(1..Len(list))
    PROVE  \E m \in Nat : DOMAIN Repaired(list) = 1..m
  <1> DEFINE kept == {k \in 1..Len(list) :
                         \A j \in 1..(k - 1) : list[j].task # list[k].task}
             once == RemoveDuplicates(list)
  <1>1. DOMAIN once = 1..Cardinality(kept)
    BY DEF RemoveDuplicates, Picked, Numbers, InOrder
  <1>2. IsFiniteSet(kept)
    BY FS_Subset
  <1>3. IsFiniteSet(DOMAIN once)
    BY <1>1, <1>2, FS_CardinalityType, FS_Interval
  <1> HIDE DEF once
  <1>4. DOMAIN SortedById(once) = 1..Cardinality(DOMAIN once)
    BY DEF SortedById, Picked, InOrder
  <1>5. DOMAIN Repaired(list) = DOMAIN SortedById(once)
    BY DEF Repaired, Renumbered, once
  <1> QED
    BY <1>3, <1>4, <1>5, FS_CardinalityType

\* A list that the planner may return is applied as a sequence of steps.
LEMMA AppliedDomain ==
    ASSUME NEW list \in Seq(ListedStep)
    PROVE  \E m \in Nat : DOMAIN StepsToApply(list) = 1..m
  <1>1. Len(list) \in Nat /\ DOMAIN list = 1..Len(list)
    OBVIOUS
  <1>2. IsFiniteSet(1..Len(list))
    BY <1>1, FS_Interval
  <1>3. PICK m \in Nat : DOMAIN Repaired(list) = 1..m
    BY <1>2, RepairedDomain
  <1>4. CASE RepairNoted(list)
    <2>1. DOMAIN StepsToApply(list) = 1..m
      BY <1>3, <1>4 DEF StepsToApply, ListPlan
    <2> QED
      BY <2>1
  <1>5. CASE ~RepairNoted(list)
    <2>1. DOMAIN StepsToApply(list) = 1..Len(list)
      BY <1>1, <1>5 DEF StepsToApply, ListPlan
    <2> QED
      BY <1>1, <2>1
  <1> QED
    BY <1>4, <1>5

\* The list of a plan's steps is as long as some set of its ids.
LEMMA StepListLength ==
    ASSUME NEW p, Shaped(p)
    PROVE  IsFiniteSet(1..Len(StepList(p)))
  <1> DEFINE M == Max(DOMAIN p \cup {0})
             ids == {k \in 1..M : k \in DOMAIN p}
             c == Cardinality(ids)
  <1>1. ids \subseteq DOMAIN p
    OBVIOUS
  <1>2. IsFiniteSet(ids)
    BY <1>1, FS_Subset DEF Shaped
  <1>3. c \in Nat
    BY <1>2, FS_CardinalityType
  <1>4. DOMAIN StepList(p) = 1..c /\ StepList(p) = [k \in 1..c |-> StepList(p)[k]]
    BY DEF StepList, Numbers, InOrder
  <1> HIDE DEF c
  <1>5. Len(StepList(p)) = c
    BY <1>3, <1>4
  <1> QED
    BY <1>3, <1>5, FS_Interval

\* apply_replanned_steps numbers the new steps after the finished ones.
LEMMA ReplannedShape ==
    ASSUME NEW p, NEW st, StateOK(p, st, FALSE),
           NEW new, NEW m \in Nat, DOMAIN new = 1..m
    PROVE  StateOK(ReplannedPlan(p, st, new), ReplannedStatus(st, new), FALSE)
  <1> DEFINE fin == FinishedIds(st)
             last == LastFinished(st)
             fresh == {last + k : k \in 1..m}
  <1>1. fin \in SUBSET (Nat \ {0}) /\ IsFiniteSet(fin)
    <2>1. fin \in SUBSET DOMAIN p
      BY DEF FinishedIds, StateOK
    <2> QED
      BY <2>1, FS_Subset DEF StateOK, Shaped
  <1>2. last \in Nat
    <2>1. fin \cup {0} \in SUBSET Nat /\ fin \cup {0} # {}
      BY <1>1
    <2>2. IsFiniteSet(fin \cup {0})
      BY <1>1, FS_AddElement
    <2>3. Max(fin \cup {0}) \in fin \cup {0}
      BY <2>1, <2>2, GreatestOfFinite
    <2> QED
      BY <2>1, <2>3 DEF LastFinished
  <1> HIDE DEF last
  <1>3. fresh \in SUBSET (Nat \ {0}) /\ \A i \in fresh : i <= last + m
    BY <1>2
  <1>4. IsFiniteSet(fresh)
    <2>1. last + m \in Nat /\ fresh \in SUBSET Nat
      BY <1>2, <1>3
    <2> QED
      BY <1>3, <2>1, FS_BoundedSetOfNaturals
  <1>5. ReplannedIds(st, new) = fin \cup fresh
    BY DEF ReplannedIds, last
  <1>6. IsFiniteSet(fin \cup fresh) /\ fin \cup fresh \in SUBSET (Nat \ {0})
    BY <1>1, <1>3, <1>4, FS_Union
  <1> QED
    BY <1>5, <1>6 DEF StateOK, Shaped, ReplannedPlan, ReplannedStatus

(***************************************************************************)
(* Putting the completed steps of a valid plan back into a valid one: ids  *)
(* stay continuous, and what a completed step depends on comes before it.  *)
(***************************************************************************)
LEMMA RestoringKeepsValid ==
    ASSUME NEW p, Shaped(p), ValidPlan(p), NEW fin, fin \subseteq DOMAIN p,
           NEW r, Shaped(r), ValidPlan(r)
    PROVE  ValidPlan(WithCompletedRestored(r, p, fin))
  <1> DEFINE rr == WithCompletedRestored(r, p, fin)
  <1>1. /\ DOMAIN rr = DOMAIN r
        /\ \A i \in DOMAIN r : rr[i] = IF i \in fin THEN p[i] ELSE r[i]
    BY DEF WithCompletedRestored
  <1> HIDE DEF rr
  <1>2. DOMAIN rr # {} /\ \A i \in DOMAIN rr : 1..i \subseteq DOMAIN rr
    BY <1>1 DEF ValidPlan
  <1>3. ASSUME NEW i \in DOMAIN rr, NEW d \in rr[i].deps
        PROVE  d \in DOMAIN rr /\ d < i
    <2>1. CASE i \in fin
      <3>1. d \in DOMAIN p /\ d < i
        BY <1>1, <1>3, <2>1 DEF ValidPlan
      <3>2. d \in 1..i
        BY <1>1, <1>3, <3>1 DEF Shaped
      <3> QED
        BY <1>2, <3>1, <3>2
    <2>2. CASE i \notin fin
      BY <1>1, <1>3, <2>2 DEF ValidPlan
    <2> QED
      BY <2>1, <2>2
  <1>4. \A i \in DOMAIN rr : rr[i].task \notin Unregistered
    BY <1>1 DEF ValidPlan
  <1>5. ValidPlan(rr)
    BY <1>2, <1>3, <1>4 DEF ValidPlan
  <1> QED
    BY <1>5 DEF rr

\* _try_apply_replan_steps.
LEMMA TryApplySound ==
    ASSUME NEW p, NEW st, NEW valid \in BOOLEAN, StateOK(p, st, valid),
           NEW list \in Seq(ListedStep)
    PROVE  LET result == TryApply(p, st, list)
           IN StateOK(result.plan, result.status, valid /\ result.ok)
  <1> DEFINE new == StepsToApply(list)
             q == ReplannedPlan(p, st, new)
             sq == ReplannedStatus(st, new)
             r == ListPlan(Repaired(StepList(q)))
             rr == WithCompletedRestored(r, p, FinishedIds(st))
             result == TryApply(p, st, list)
             Repairs == /\ RepairNoted(StepList(q)) /\ ValidPlan(r)
                        /\ CompletedPreserved(rr, p, FinishedIds(st))
  <1>1. StateOK(q, sq, FALSE)
    <2>1. PICK m \in Nat : DOMAIN new = 1..m
      BY AppliedDomain
    <2>2. StateOK(p, st, FALSE)
      BY DEF StateOK
    <2> HIDE DEF new
    <2> QED
      BY <2>1, <2>2, ReplannedShape
  <1>2. Shaped(r) /\ DOMAIN RemappedStatus(q, sq) = DOMAIN r
    <2>1. IsFiniteSet(1..Len(StepList(q)))
      BY <1>1, StepListLength DEF StateOK
    <2>2. PICK m \in Nat : DOMAIN Repaired(StepList(q)) = 1..m
      BY <2>1, RepairedDomain
    <2>3. DOMAIN r = 1..m
      BY <2>2 DEF ListPlan
    <2>4. IsFiniteSet(DOMAIN r) /\ DOMAIN r \subseteq Nat \ {0}
      BY <2>3, FS_Interval
    <2> QED
      BY <2>4 DEF Shaped, RemappedStatus
  <1>3. FinishedIds(st) \subseteq DOMAIN p
    BY DEF StateOK, FinishedIds
  <1>4. /\ DOMAIN rr = DOMAIN r
        /\ valid /\ ValidPlan(r) => ValidPlan(rr)
    <2>1. DOMAIN rr = DOMAIN r
      BY DEF WithCompletedRestored
    <2>2. valid /\ ValidPlan(r) => ValidPlan(rr)
      <3> HIDE DEF r
      <3> QED
        BY <1>2, <1>3, RestoringKeepsValid DEF StateOK
    <2> QED
      BY <2>1, <2>2
  <1>5. CASE ValidPlan(q)
    <2>1. result = [ok |-> TRUE, plan |-> q, status |-> sq]
      BY <1>5 DEF TryApply
    <2> HIDE DEF q, sq, result
    <2>2. result.plan = q /\ result.status = sq
      BY <2>1
    <2> QED
      BY <1>1, <1>5, <2>2 DEF StateOK, result
  <1>6. CASE ~ValidPlan(q) /\ Repairs
    <2>1. result = [ok |-> TRUE, plan |-> rr, status |-> RemappedStatus(q, sq)]
      BY <1>6 DEF TryApply
    <2> HIDE DEF q, sq, r, rr, result
    <2>2. result.plan = rr /\ result.status = RemappedStatus(q, sq)
      BY <2>1
    <2>3. ValidPlan(r)
      BY <1>6
    <2> QED
      BY <1>2, <1>4, <2>2, <2>3 DEF StateOK, Shaped, result
  <1>7. CASE ~ValidPlan(q) /\ ~Repairs
    <2>1. result = [ok |-> FALSE, plan |-> q, status |-> sq]
      BY <1>7 DEF TryApply
    <2> HIDE DEF q, sq, result
    <2>2. result.plan = q /\ result.status = sq /\ ~result.ok
      BY <2>1
    <2> QED
      BY <1>1, <2>2 DEF StateOK, result
  <1> QED
    BY <1>5, <1>6, <1>7

-----------------------------------------------------------------------------
LEMMA InitValidInv == WorkflowInit => ValidInv
  <1> SUFFICES ASSUME WorkflowInit
               PROVE  ValidInv
    OBVIOUS
  <1>1. /\ compiled = <<>> /\ plan = <<>> /\ status = <<>> /\ branch = <<>>
        /\ node = Entry /\ outcome = "idle" /\ at = "memory_load"
    BY DEF WorkflowInit
  <1>2. DOMAIN <<>> = {} /\ IsFiniteSet({})
    BY FS_EmptySet
  <1>3. NodeOK(node)
    BY <1>1 DEF Entry, NodeOK
  <1> QED
    BY <1>1, <1>2, <1>3 DEF ValidInv, StateOK, Shaped

\* Levels hold steps of the plan.
LEMMA LevelOfPlan ==
    ASSUME NEW p, Shaped(p), NEW n
    PROVE  Level(p, n) \subseteq DOMAIN p
  <1>1. CASE n \in 1..Cardinality(DOMAIN p)
    <2>1. Cardinality(DOMAIN p) \in Nat
      BY FS_CardinalityType DEF Shaped
    <2>2. n \in 0..Cardinality(DOMAIN p) /\ n # 0
      BY <1>1, <2>1
    <2>3. Ready(p)[n] = NextReady(p, Ready(p)[n - 1])
      BY <2>1, <2>2, ReadyIs DEF ReadyUpTo
    <2> QED
      BY <1>1, <2>3 DEF Level, NextReady
  <1>2. CASE n \notin 1..Cardinality(DOMAIN p)
    BY <1>2 DEF Level
  <1> QED
    BY <1>1, <1>2

\* The compiled graph stays on such nodes.
LEMMA AfterLevelNode ==
    ASSUME NEW p, Shaped(p), NEW n
    PROVE  NodeOK(AfterLevel(p, n))
  <1>1. CASE Level(p, n + 1) = {}
    BY <1>1 DEF AfterLevel, Sink, NodeOK
  <1>2. CASE Level(p, n + 1) # {}
    <2>1. Level(p, n + 1) \in SUBSET Nat
      BY LevelOfPlan DEF Shaped
    <2>2. PICK x \in Level(p, n + 1) : \A y \in Level(p, n + 1) : x <= y
      BY <1>2, <2>1, LeastNat
    <2>3. Min(Level(p, n + 1)) \in Level(p, n + 1)
      BY <2>2 DEF Min
    <2> QED
      BY <1>2, <2>1, <2>3 DEF AfterLevel, StepNode, NodeOK
  <1> QED
    BY <1>1, <1>2

LEMMA MovesToNode ==
    ASSUME NEW p, Shaped(p), NEW nd, NodeOK(nd)
    PROVE  /\ nd # EndNode => NodeOK(Successor(p, nd))
           /\ NodeOK(AfterSteps(p, nd))
  <1>1. nd[1] = "step" => Successor(p, nd) = JoinNode(LevelOf(p, nd[2]))
    BY DEF Successor
  <1>2. nd[1] \in {"entry", "join"} => Successor(p, nd) = AfterLevel(p, nd[2])
    BY DEF Successor
  <1>3. nd[1] = "sink" => Successor(p, nd) = EndNode
    BY DEF Successor
  <1>4. NodeOK(EndNode) /\ \A n : NodeOK(JoinNode(n))
    BY DEF NodeOK, JoinNode
  <1>5. nd # EndNode => NodeOK(Successor(p, nd))
    BY <1>1, <1>2, <1>3, <1>4, AfterLevelNode DEF NodeOK
  <1>6. nd[1] # "step" => AfterSteps(p, nd) = AfterLevel(p, nd[2] + 1)
    BY DEF AfterSteps
  <1>7. nd[1] = "step" => AfterSteps(p, nd) = Successor(p, nd) /\ nd # EndNode
    BY DEF AfterSteps, EndNode
  <1> QED
    BY <1>5, <1>6, <1>7, AfterLevelNode

\* A node starts finitely many numbered steps.
LEMMA StartedNumbers ==
    ASSUME NEW p, Shaped(p), NEW nd, NodeOK(nd)
    PROVE  StepsAt(p, nd) \in SUBSET Nat /\ IsFiniteSet(StepsAt(p, nd))
  <1>1. CASE nd[1] = "step"
    <2>1. nd[2] \in Nat
      BY <1>1 DEF NodeOK, EndNode
    <2> QED
      BY <1>1, <2>1, FS_Singleton DEF StepsAt
  <1>2. CASE nd[1] # "step"
    <2>1. StepsAt(p, nd) = FanOut(p, nd)
      BY <1>2 DEF StepsAt
    <2>2. FanOut(p, nd) \subseteq DOMAIN p
      BY LevelOfPlan DEF FanOut
    <2> QED
      BY <2>1, <2>2, FS_Subset DEF Shaped
  <1> QED
    BY <1>1, <1>2

-----------------------------------------------------------------------------
\* One branch's state changes.
LEMMA BranchKeepsValid ==
    ASSUME ValidInv, NEW i \in DOMAIN branch, NEW b,
           branch' = [branch EXCEPT ![i] = b], SoundBranch(b, Sound),
           UNCHANGED <<compiled, plan, status, node, at, replans>>,
           outcome' \in {outcome, "failed"}
    PROVE  ValidInv'
  <1>1. DOMAIN branch' = DOMAIN branch /\ branch'[i] = b
    OBVIOUS
  <1>2. \A j \in DOMAIN branch' : j # i => branch'[j] = branch[j]
    OBVIOUS
  <1>3. \A j \in DOMAIN branch' : SoundBranch(branch'[j], Sound)
    BY <1>1, <1>2 DEF ValidInv
  <1>4. Sound' = Sound
    BY DEF Sound
  <1>5. branch # <<>> /\ DOMAIN branch # {}
    <2>1. DOMAIN branch # {} /\ DOMAIN <<>> = {}
      OBVIOUS
    <2> QED
      BY <2>1
  <1>6. outcome' \in {"running", "failed"} /\ at = "execution"
    BY <1>5 DEF ValidInv
  <1> QED
    BY <1>1, <1>3, <1>4, <1>5, <1>6 DEF ValidInv

\* A step changes its status in its branch.
LEMMA MarkKeepsSound ==
    ASSUME NEW b, NEW sound, SoundBranch(b, sound), NEW i, NEW s, NEW ph
    PROVE  SoundBranch([b EXCEPT !.status = [b.status EXCEPT ![i] = s], !.phase = ph],
                       sound)
  <1> DEFINE u == [b.status EXCEPT ![i] = s]
             c == [b EXCEPT !.status = u, !.phase = ph]
  <1>1. DOMAIN u = DOMAIN b.status
    OBVIOUS
  <1>2. c.plan = b.plan /\ c.status = u /\ c.phase = ph
    BY DEF SoundBranch
  <1>3. c \in [plan : {c.plan}, status : {c.status}, phase : {c.phase}]
    BY <1>2 DEF SoundBranch
  <1> HIDE DEF u, c
  <1>4. SoundBranch(c, sound)
    BY <1>1, <1>2, <1>3 DEF SoundBranch, StateOK
  <1> QED
    BY <1>4 DEF u, c

LEMMA StepKeepsValid ==
    ASSUME ValidInv, NEW i \in DOMAIN branch, StepEnds(i), UNCHANGED workflowVars
    PROVE  ValidInv'
  <1> DEFINE Mark(s, ph) == [branch[i] EXCEPT !.status = [branch[i].status EXCEPT ![i] = s],
                                              !.phase = ph]
  <1>1. SoundBranch(branch[i], Sound)
    BY DEF ValidInv
  <1>2. UNCHANGED <<at, replans>>
    BY DEF workflowVars, requestVars
  <1>3. CASE FinishStep(i)
    <2>1. PICK s \in FinishedStatus :
              branch' = [branch EXCEPT ![i].status[i] = s, ![i].phase = "done"]
      BY <1>3 DEF FinishStep
    <2>2. branch' = [branch EXCEPT ![i] = Mark(s, "done")]
      BY <2>1
    <2>3. UNCHANGED <<compiled, plan, status, node, outcome>>
      BY <1>3 DEF FinishStep, graphVars
    <2>4. SoundBranch(Mark(s, "done"), Sound)
      BY <1>1, MarkKeepsSound
    <2>5. outcome' = outcome
      BY <2>3
    <2> HIDE DEF Mark
    <2> QED
      BY <1>2, <2>2, <2>3, <2>4, <2>5, BranchKeepsValid
  <1>4. CASE RaiseStep(i)
    <2>2. branch' = [branch EXCEPT ![i] = Mark("failed", "raised")]
      BY <1>4 DEF RaiseStep
    <2>3. UNCHANGED <<compiled, plan, status, node>>
      BY <1>4 DEF RaiseStep
    <2>4. SoundBranch(Mark("failed", "raised"), Sound)
      BY <1>1, MarkKeepsSound
    <2>5. outcome' = "failed"
      BY <1>4 DEF RaiseStep
    <2> HIDE DEF Mark
    <2> QED
      BY <1>2, <2>2, <2>3, <2>4, <2>5, BranchKeepsValid
  <1>5. CASE ReplanStep(i)
    <2> DEFINE q(new) == ReplannedPlan(branch[i].plan, branch[i].status, new)
               u(new) == ReplannedStatus(branch[i].status, new)
    <2>1. PICK new \in Proposals :
              /\ ValidPlan(q(new))
              /\ branch' = [branch EXCEPT ![i] =
                      [plan |-> q(new), status |-> u(new), phase |-> "done"]]
      BY <1>5 DEF ReplanStep
    <2> DEFINE b == [plan |-> q(new), status |-> u(new), phase |-> "done"]
    <2>2. StateOK(q(new), u(new), FALSE)
      <3>1. Len(new) \in Nat /\ DOMAIN new = 1..Len(new)
        BY ProposalsAssumption
      <3>2. StateOK(branch[i].plan, branch[i].status, FALSE)
        BY <1>1 DEF SoundBranch, StateOK
      <3> QED
        BY <3>1, <3>2, ReplannedShape
    <2>3. UNCHANGED <<compiled, plan, status, node, outcome>>
      BY <1>5 DEF ReplanStep, graphVars
    <2> HIDE DEF q, u
    <2>4. b.plan = q(new) /\ b.status = u(new) /\ branch' = [branch EXCEPT ![i] = b]
          /\ b \in [plan : {b.plan}, status : {b.status}, phase : {b.phase}]
      BY <2>1
    <2> HIDE DEF b
    <2>5. SoundBranch(b, Sound)
      BY <2>1, <2>2, <2>4 DEF SoundBranch, StateOK
    <2>6. outcome' = outcome
      BY <2>3
    <2> QED
      BY <1>2, <2>3, <2>4, <2>5, <2>6, BranchKeepsValid
  <1> QED
    BY <1>3, <1>4, <1>5 DEF StepEnds

\* The nodes of the compiled graph, in the macro graph's execution node.
LEMMA GraphKeepsValid ==
    ASSUME ValidInv, GraphStep, UNCHANGED workflowVars
    PROVE  ValidInv'
  <1>1. UNCHANGED <<at, replans, compiled>> /\ Sound' = Sound
    BY DEF workflowVars, requestVars, Sound, GraphStep, EndGraph, PassNode, StartSteps,
           JoinBranches
  <1>2. outcome = "running" /\ at = "execution"
    BY DEF GraphStep, EndGraph, PassNode, StartSteps, JoinBranches, Running, ValidInv
  <1>3. CASE EndGraph
    BY <1>1, <1>2, <1>3 DEF EndGraph, Running, ValidInv
  <1>4. CASE PassNode
    <2>1. NodeOK(node')
      BY <1>4, MovesToNode DEF PassNode, Continues, ValidInv
    <2> QED
      BY <1>1, <1>2, <1>4, <2>1 DEF PassNode, ValidInv
  <1>5. CASE StartSteps
    <2> DEFINE B == StepsAt(compiled, node)
    <2>1. /\ UNCHANGED <<plan, status, node>>
          /\ branch' = [i \in B |-> StartedBranch(i)]
      BY <1>5 DEF StartSteps
    <2>2. B \in SUBSET Nat /\ IsFiniteSet(B)
      BY StartedNumbers DEF ValidInv
    <2>3. StateOK(plan, status, Sound)
      BY <1>2 DEF ValidInv, StateOK
    <2>4. ASSUME NEW i \in B
          PROVE  SoundBranch(StartedBranch(i), Sound)
      <3> DEFINE b == StartedBranch(i)
      <3>1. /\ b.plan = plan /\ DOMAIN b.status = DOMAIN status
            /\ b \in [plan : {b.plan}, status : {b.status}, phase : {b.phase}]
        BY DEF StartedBranch
      <3> HIDE DEF b
      <3>2. SoundBranch(b, Sound)
        BY <2>3, <3>1 DEF SoundBranch, StateOK
      <3> QED
        BY <3>2 DEF b
    <2> HIDE DEF B
    <2>5. DOMAIN branch' = B /\ \A i \in B : SoundBranch(branch'[i], Sound)
      BY <2>1, <2>4
    <2>6. B # {} /\ outcome' \in {"running", "failed"}
      BY <1>2, <1>5 DEF StartSteps, B
    <2> QED
      BY <1>1, <1>2, <2>1, <2>2, <2>5, <2>6 DEF ValidInv
  <1>6. CASE JoinBranches
    <2>1. /\ branch # <<>> /\ branch' = <<>>
          /\ plan' = Merged.plan /\ status' = Merged.status
          /\ node' = AfterSteps(compiled, node)
      BY <1>6 DEF JoinBranches
    <2>2. DOMAIN branch # {}
      BY <2>1 DEF ValidInv
    <2>3. Max(DOMAIN branch) \in DOMAIN branch
      BY <2>2, GreatestOfFinite DEF ValidInv
    <2>4. StateOK(plan', status', Sound)
      BY <2>1, <2>3 DEF ValidInv, SoundBranch, Merged
    <2>5. NodeOK(node')
      BY <2>1, MovesToNode DEF ValidInv
    <2>6. DOMAIN branch' = {} /\ IsFiniteSet({})
      BY <2>1, FS_EmptySet
    <2>7. StateOK(plan', status', Sound' /\ at' \notin {"memory_load", "planner"})
      BY <1>1, <2>4 DEF StateOK
    <2> QED
      BY <1>1, <1>2, <2>5, <2>6, <2>7 DEF ValidInv
  <1> QED
    BY <1>3, <1>4, <1>5, <1>6 DEF GraphStep

LEMMA MacroKeepsValid == ValidInv /\ MacroStep => ValidInv'
  <1> SUFFICES ASSUME ValidInv, MacroStep
               PROVE  ValidInv'
    OBVIOUS
  <1>1. CASE Planner
    <2>1. /\ at = "planner" /\ at' = "compile_plan" /\ outcome' = outcome
          /\ plan' \in InitialPlans /\ status' = AllPending(plan')
          /\ UNCHANGED <<compiled, node, branch, replans>>
      BY <1>1 DEF Planner, Visit, graphVars
    <2>2. StateOK(plan', status', TRUE)
      BY <2>1, PlansAssumption DEF StateOK, Shaped, IsPlan, AllPending
    <2> QED
      BY <2>1, <2>2 DEF ValidInv, StateOK, Sound
  <1>2. CASE CompilePlan
    BY <1>2 DEF CompilePlan, Visit, graphVars, ValidInv, StateOK, Sound
  <1>3. CASE MemoryLoad \/ Router \/ MemoryPersist \/ Critic \/ Finalize
    <2>1. UNCHANGED <<vars, replans>> /\ at # "execution" /\ at' # "memory_load"
          /\ (at' \notin {"memory_load", "planner"} => at \notin {"memory_load", "planner"})
      BY <1>3 DEF MemoryLoad, Router, MemoryPersist, Critic, Finalize, Visit
    <2> QED
      BY <2>1 DEF ValidInv, StateOK, Sound, vars, graphVars
  <1>4. CASE StartExecution
    <2>1. /\ UNCHANGED <<compiled, plan, status, branch, at, replans>>
          /\ node' = Entry /\ at = "execution" /\ outcome = "idle"
      BY <1>4 DEF StartExecution, workflowVars, requestVars
    <2>3. branch = <<>>
      BY <2>1 DEF ValidInv
    <2>2. NodeOK(node')
      BY <2>1 DEF NodeOK, Entry
    <2> QED
      BY <2>1, <2>2, <2>3 DEF ValidInv, Sound
  <1>5. CASE ExecutionReturns
    BY <1>5 DEF ExecutionReturns, Visit, ValidInv, StateOK, Sound
  <1>6. CASE ExecutionRaises
    <2>1. DOMAIN branch' = {} /\ IsFiniteSet({})
      BY <1>6, FS_EmptySet DEF ExecutionRaises
    <2> QED
      BY <1>6, <2>1 DEF ExecutionRaises, ValidInv, Sound
  <1>7. CASE NodeRaises \/ RequestEnds
    BY <1>7 DEF NodeRaises, RequestEnds, vars, graphVars, ValidInv, Sound
  <1> QED
    BY <1>1, <1>2, <1>3, <1>4, <1>5, <1>6, <1>7 DEF MacroStep

\* replanner_node: without a failure the replanned plan is as valid as the old one.
LEMMA ReplannerKeepsValid == ValidInv /\ (Replanner \/ ReplannerExhausted) => ValidInv'
  <1> SUFFICES ASSUME ValidInv, Replanner \/ ReplannerExhausted
               PROVE  ValidInv'
    OBVIOUS
  <1>1. CASE Replanner
    <2>1. PICK list \in LLMLists, fallback \in FallbackLists :
            LET result == ReplanResult(list, fallback)
            IN /\ plan' = result.plan
               /\ status' = result.status
               /\ compiled' = CompiledAfterReplan(result)
               /\ replans' = replans \cup {IF result.ok THEN "replanned" ELSE "failed"}
      BY <1>1 DEF Replanner
    <2> DEFINE result == ReplanResult(list, fallback)
    <2>2. /\ at = "replanner" /\ at' = "router"
          /\ UNCHANGED <<node, branch, outcome>>
      BY <1>1 DEF Replanner, Visit, graphVars
    <2>3. outcome' = "idle"
      BY <2>2 DEF ValidInv
    <2>4. StateOK(plan, status, Sound)
      BY <2>2 DEF ValidInv, StateOK
    <2>5. StateOK(result.plan, result.status, Sound /\ result.ok)
      <3>1. list \in Seq(ListedStep) /\ fallback \in Seq(ListedStep)
        BY ListsAssumption
      <3>2. Sound \in BOOLEAN
        BY DEF Sound
      <3>3. LET first == TryApply(plan, status, list)
            IN StateOK(first.plan, first.status, Sound /\ first.ok)
        BY <2>4, <3>1, <3>2, TryApplySound
      <3>4. LET second == TryApply(plan, status, fallback)
            IN StateOK(second.plan, second.status, Sound /\ second.ok)
        BY <2>4, <3>1, <3>2, TryApplySound
      <3> QED
        BY <3>3, <3>4 DEF ReplanResult
    <2> HIDE DEF result
    <2>6. /\ plan' = result.plan /\ status' = result.status
          /\ compiled' = CompiledAfterReplan(result)
          /\ replans' = replans \cup {IF result.ok THEN "replanned" ELSE "failed"}
      BY <2>1 DEF result
    <2>7. Sound' => Sound /\ result.ok
      BY <2>6 DEF Sound
    <2>8. StateOK(plan', status', Sound' /\ at' \notin {"memory_load", "planner"})
      BY <2>5, <2>6, <2>7 DEF StateOK
    <2>9. Shaped(compiled')
      BY <2>5, <2>6 DEF CompiledAfterReplan, StateOK, ValidInv
    <2>10. \A i \in DOMAIN branch' : SoundBranch(branch'[i], Sound')
      BY <2>2, <2>7 DEF ValidInv, SoundBranch, StateOK
    <2> QED
      BY <2>2, <2>3, <2>8, <2>9, <2>10 DEF ValidInv
  <1>2. CASE ReplannerExhausted
    <2>1. /\ at = "replanner" /\ at' = "router" /\ UNCHANGED vars
          /\ replans' = replans \cup {"skipped"}
      BY <1>2 DEF ReplannerExhausted, Visit
    <2>2. Sound' = Sound
      BY <2>1 DEF Sound
    <2> QED
      BY <2>1, <2>2 DEF ValidInv, StateOK, vars, graphVars
  <1> QED
    BY <1>1, <1>2

LEMMA NextKeepsValid == ValidInv /\ [WorkflowNext]_allVars => ValidInv'
  <1> SUFFICES ASSUME ValidInv, [WorkflowNext]_allVars
               PROVE  ValidInv'
    OBVIOUS
  <1>1. CASE NewRequest
    <2>1. /\ compiled' = <<>> /\ plan' = <<>> /\ status' = <<>> /\ branch' = <<>>
          /\ node' = Entry /\ outcome' = "idle" /\ at' = "memory_load"
      BY <1>1 DEF NewRequest
    <2>2. DOMAIN <<>> = {} /\ IsFiniteSet({})
      BY FS_EmptySet
    <2>3. NodeOK(node')
      BY <2>1 DEF Entry, NodeOK
    <2> QED
      BY <2>1, <2>2, <2>3 DEF ValidInv, StateOK, Shaped
  <1>2. CASE RunPlanGraph
    BY <1>2, GraphKeepsValid DEF RunPlanGraph
  <1>3. CASE \E i \in DOMAIN branch : RunStep(i)
    BY <1>3, StepKeepsValid DEF RunStep
  <1>4. CASE UNCHANGED allVars
    <2>1. UNCHANGED <<compiled, plan, status, branch, node, outcome, at, replans>>
      BY <1>4 DEF allVars, vars, graphVars, workflowVars, requestVars
    <2> QED
      BY <2>1 DEF ValidInv, Sound
  <1> QED
    BY <1>1, <1>2, <1>3, <1>4, MacroKeepsValid, ReplannerKeepsValid
       DEF WorkflowNext, AllAnswered

\* ExecutedPlanValid: whatever the language model proposes and whatever is
\* repaired and restored, the plan that the step nodes run on is valid, unless a
\* replan of the request has reported a failure.
THEOREM ExecutedPlansValid == WorkflowSpec => []ExecutedPlanValid
  <1>1. ValidInv => ExecutedPlanValid
    BY DEF ValidInv, StateOK, Sound, ExecutedPlanValid
  <1> QED
    BY <1>1, InitValidInv, NextKeepsValid, PTL DEF WorkflowSpec
(***************************************************************************)
(* The turns in which a request without replans reaches a node.  A replan  *)
(* leads from the replanner, turn 7, back to the router, turn 3, and so    *)
(* costs five turns.                                                       *)
(***************************************************************************)
TurnOf == [n \in MacroNodes \ {"END"} |->
             CASE n = "memory_load"    -> 0
               [] n = "planner"        -> 1
               [] n = "compile_plan"   -> 2
               [] n = "router"         -> 3
               [] n = "execution"      -> 4
               [] n = "memory_persist" -> 5
               [] n = "critic"         -> 6
               [] n = "replanner"      -> 7
               [] n = "finalize"       -> 7]

(***************************************************************************)
(* Each replan of a request raises the number it has seen of the process's *)
(* attempts, also when the attempts of the process are used up; until it   *)
(* stops, a request has no turns but those of its nodes and replans.       *)
(***************************************************************************)
TurnsInv ==
    /\ turns \in Nat
    /\ attempts \in Nat /\ attempts <= MaxCriticReplans
    /\ seen \in Nat /\ seen <= attempts
    /\ ~shouldStop => /\ at \in MacroNodes \ {"END"}
                      /\ turns <= TurnOf[at] + 5 * seen
    /\ at = "replanner" => seen < MaxCriticReplans
    /\ answer = "completed" => shouldStop

LEMMA TurnValues ==
    /\ TurnOf["memory_load"] = 0 /\ TurnOf["planner"] = 1
    /\ TurnOf["compile_plan"] = 2 /\ TurnOf["router"] = 3
    /\ TurnOf["execution"] = 4 /\ TurnOf["memory_persist"] = 5
    /\ TurnOf["critic"] = 6 /\ TurnOf["replanner"] = 7
    /\ TurnOf["finalize"] = 7
  BY DEF TurnOf, MacroNodes

LEMMA InitTurnsInv == WorkflowInit => TurnsInv
  <1> SUFFICES ASSUME WorkflowInit
               PROVE  TurnsInv
    OBVIOUS
  <1>1. /\ at = "memory_load" /\ at \in MacroNodes \ {"END"}
        /\ turns = 0 /\ seen = 0 /\ attempts = 0
        /\ shouldStop = FALSE /\ answer = "open"
    BY DEF WorkflowInit, MacroNodes
  <1>2. TurnOf[at] + 5 * seen = 0
    BY <1>1, TurnValues
  <1> QED
    BY <1>1, <1>2, CriticBudgetAssumption DEF TurnsInv

\* A request that has not stopped is short of the cap.
LEMMA ShortOfCap ==
    ASSUME TurnsInv, ~shouldStop
    PROVE  /\ at # "END"
           /\ turns < GraphMaxIterations
  <1>1. TurnOf[at] \in 0..7
    BY DEF TurnsInv, TurnOf, MacroNodes
  <1>2. seen <= MaxCriticReplans
    BY CriticBudgetAssumption DEF TurnsInv
  <1>3. turns <= 7 + 5 * MaxCriticReplans
    BY <1>1, <1>2, CriticBudgetAssumption DEF TurnsInv
  <1> QED
    BY <1>3, TurnsAssumption, CriticBudgetAssumption DEF TurnsInv, MacroNodes

LEMMA MacroStepKeepsTurns == TurnsInv /\ MacroStep => TurnsInv'
  <1> SUFFICES ASSUME TurnsInv, MacroStep
               PROVE  TurnsInv'
    OBVIOUS
  <1> USE CriticBudgetAssumption DEF TurnsInv, Visit, LoopContinues
  <1>1. CASE MemoryLoad
    BY <1>1, TurnValues DEF MemoryLoad, MacroNodes
  <1>2. CASE Planner
    BY <1>2, TurnValues DEF Planner, MacroNodes
  <1>3. CASE CompilePlan
    BY <1>3, TurnValues DEF CompilePlan, MacroNodes
  <1>4. CASE Router
    BY <1>4, TurnValues DEF Router, MacroNodes
  <1>5. CASE StartExecution
    BY <1>5 DEF StartExecution, workflowVars, requestVars
  <1>6. CASE ExecutionReturns
    BY <1>6, TurnValues DEF ExecutionReturns, MacroNodes
  <1>7. CASE ExecutionRaises
    BY <1>7 DEF ExecutionRaises
  <1>8. CASE MemoryPersist
    BY <1>8, TurnValues DEF MemoryPersist, MacroNodes
  <1>9. CASE Critic
    BY <1>9, TurnValues DEF Critic, ReplanAllowed, MacroNodes
  <1>10. CASE Finalize
    BY <1>10 DEF Finalize
  <1>11. CASE NodeRaises
    BY <1>11 DEF NodeRaises
  <1>12. CASE RequestEnds
    <2>1. shouldStop
      BY <1>12, ShortOfCap DEF RequestEnds
    <2> QED
      BY <1>12, <2>1 DEF RequestEnds
  <1> QED
    BY <1>1, <1>2, <1>3, <1>4, <1>5, <1>6, <1>7, <1>8, <1>9, <1>10, <1>11, <1>12
    DEF MacroStep

LEMMA FiveTurnsMore ==
    ASSUME NEW a \in Nat, NEW b \in Nat, NEW t \in Nat, t <= 7 + 5 * a, b > a
    PROVE  t + 1 <= 3 + 5 * b
  OBVIOUS

\* The replanner's turn is paid for by the attempt that the request sees.
LEMMA ReplannerKeepsTurns ==
    TurnsInv /\ (Replanner \/ ReplannerExhausted) => TurnsInv'
  <1> SUFFICES ASSUME TurnsInv, Replanner \/ ReplannerExhausted
               PROVE  TurnsInv'
    OBVIOUS
  <1>1. Visit("replanner", "router") /\ UNCHANGED shouldStop
    BY DEF Replanner, ReplannerExhausted
  <1>2. /\ attempts' \in Nat /\ attempts' <= MaxCriticReplans
        /\ seen' = attempts' /\ seen' > seen
    BY <1>1, CriticBudgetAssumption
    DEF Replanner, ReplannerExhausted, TurnsInv, Visit, workflowVars
  <1>3. /\ turns <= 7 + 5 * seen
        /\ turns' = turns + 1
    BY <1>1, TurnValues DEF TurnsInv, Visit, LoopContinues
  <1>4. turns \in Nat /\ seen \in Nat /\ seen' \in Nat
    BY <1>2 DEF TurnsInv
  <1>5. turns' <= 3 + 5 * seen'
    BY <1>2, <1>3, <1>4, FiveTurnsMore
  <1>6. TurnOf[at'] = 3 /\ at' \in MacroNodes \ {"END"} /\ at' # "replanner"
    BY <1>1, TurnValues DEF Visit, MacroNodes
  <1>7. turns' <= TurnOf[at'] + 5 * seen'
    BY <1>5, <1>6
  <1>8. turns' \in Nat /\ answer' = "open"
    BY <1>1, <1>3, <1>4 DEF Visit
  <1>9. seen' <= attempts'
    BY <1>2
  <1> QED
    BY <1>2, <1>4, <1>6, <1>7, <1>8, <1>9, Zenon DEF TurnsInv

LEMMA NextKeepsTurns == TurnsInv /\ [WorkflowNext]_allVars => TurnsInv'
  <1> SUFFICES ASSUME TurnsInv, [WorkflowNext]_allVars
               PROVE  TurnsInv'
    OBVIOUS
  <1>1. CASE UNCHANGED workflowVars
    BY <1>1 DEF TurnsInv, workflowVars, requestVars
  <1>2. CASE NewRequest
    <2>1. /\ at' = "memory_load" /\ at' \in MacroNodes \ {"END"}
          /\ turns' = 0 /\ seen' = 0 /\ attempts' = attempts
          /\ shouldStop' = FALSE /\ answer' = "open"
      BY <1>2 DEF NewRequest, MacroNodes
    <2>2. TurnOf[at'] + 5 * seen' = 0
      BY <2>1, TurnValues
    <2> QED
      BY <2>1, <2>2 DEF TurnsInv
  <1>3. CASE RunPlanGraph \/ (\E i \in DOMAIN branch : RunStep(i)) \/ AllAnswered
    BY <1>1, <1>3 DEF RunPlanGraph, RunStep, AllAnswered, allVars
  <1>4. CASE UNCHANGED allVars
    BY <1>1, <1>4 DEF allVars
  <1> QED
    BY <1>2, <1>3, <1>4, MacroStepKeepsTurns, ReplannerKeepsTurns DEF WorkflowNext

\* No request is ended by max_iterations of the macro graph, whatever the
\* critic asks for, and also when earlier requests used up the attempts of the
\* shared ReplanningController.
THEOREM RequestsStayBelowCap == WorkflowSpec => []CapNeverEndsRequest
  <1>1. TurnsInv => CapNeverEndsRequest
    BY DEF TurnsInv, CapNeverEndsRequest
  <1> QED
    BY <1>1, InitTurnsInv, NextKeepsTurns, PTL DEF WorkflowSpec
=============================================================================
