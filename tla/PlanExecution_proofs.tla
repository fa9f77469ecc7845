------------------------ MODULE PlanExecution_proofs ------------------------
(***************************************************************************)
(* Safety of PlanExecution for any number of calls, any plans, any steps   *)
(* the planner may answer and any budgets; then of PlanOrchestration, the  *)
(* module that extends it, for any critics, lists and goals, with the      *)
(* facts about lists and their repair (PlanRepair) that it rests on.       *)
(***************************************************************************)
EXTENDS PlanOrchestration, FiniteSetTheorems, WellFoundedInduction, TLAPS

(***************************************************************************)
(* A nonempty set of naturals has a least element, and if it is finite a   *)
(* greatest one: next_executable_step and max(completed_ids) are defined.  *)
(***************************************************************************)
LEMMA LeastNat ==
    ASSUME NEW S \in SUBSET Nat, S # {}
    PROVE  \E x \in S : \A y \in S : x <= y
  <1>1. PICK x \in S : \A y \in S : ~(<<y, x>> \in OpToRel(<, Nat))
    BY NatLessThanWellFounded, WFMin
  <1>2. ASSUME NEW y \in S
        PROVE  x <= y
    <2>1. <<y, x>> \in Nat \X Nat
      OBVIOUS
    <2>2. ~(y < x)
      BY <1>1, <2>1 DEF OpToRel
    <2> QED
      BY <2>2
  <1> QED
    BY <1>2

LEMMA GreatestOfFinite ==
    ASSUME NEW S \in SUBSET Nat, S # {}, IsFiniteSet(S)
    PROVE  /\ Max(S) \in S
           /\ \A y \in S : y <= Max(S)
  <1> DEFINE Above(x) == {y \in S : y > x}
             Sizes == {Cardinality(Above(x)) : x \in S}
  <1>1. \A x \in S : IsFiniteSet(Above(x)) /\ Cardinality(Above(x)) \in Nat
    <2> TAKE x \in S
    <2>1. Above(x) \in SUBSET S
      OBVIOUS
    <2> QED
      BY <2>1, FS_Subset, FS_CardinalityType
  <1>2. Sizes \in SUBSET Nat /\ Sizes # {}
    BY <1>1
  <1>3. PICK n \in Sizes : \A m \in Sizes : n <= m
    BY <1>2, LeastNat
  <1>4. PICK x \in S : n = Cardinality(Above(x))
    BY <1>3
  <1>5. ASSUME NEW y \in S, y > x
        PROVE  FALSE
    <2>1. Above(y) \in SUBSET Above(x)
      <3> SUFFICES ASSUME NEW z \in S, z > y
                   PROVE  z > x
        OBVIOUS
      <3>1. x \in Nat /\ y \in Nat /\ z \in Nat
        OBVIOUS
      <3> QED
        BY <1>5, <3>1
    <2>2. y \in Above(x) /\ y \notin Above(y)
      BY <1>5
    <2>3. Cardinality(Above(y)) <= Cardinality(Above(x))
      BY <1>1, <2>1, FS_Subset
    <2>4. Cardinality(Above(x)) # Cardinality(Above(y))
      BY <1>1, <2>1, <2>2, FS_Subset
    <2>5. Cardinality(Above(x)) <= Cardinality(Above(y))
      BY <1>3, <1>4
    <2> HIDE DEF Above
    <2> QED
      BY <1>1, <1>4, <1>5, <2>3, <2>4, <2>5
  <1>6. \A y \in S : y <= x
    BY <1>5
  <1>7. \E z \in S : \A y \in S : z >= y
    BY <1>6
  <1>8. Max(S) \in S /\ \A y \in S : Max(S) >= y
    BY <1>7 DEF Max
  <1> QED
    BY <1>8

-----------------------------------------------------------------------------
\* Steps waiting to run or done: what execute() sees at the head of its loop.
Quiet(st) == \A i \in DOMAIN st : st[i] \in {"pending", "completed", "skipped"}

\* Every step that has left PENDING has its dependencies finished.
DepsKept(p, st) == \A i \in DOMAIN p : st[i] # "pending" => DepsMet(p, st, i)

\* The finished steps of a plan stay in its plan, as they are and finished.
KeepsFinished(p, st, q, sq) ==
    \A i \in FinishedIds(st) : i \in DOMAIN q /\ q[i] = p[i] /\ sq[i] = st[i]

(***************************************************************************)
(* A validated plan whose steps are all waiting or done, and not all done, *)
(* has an executable step: "Plan deadlock" cannot be raised.               *)
(***************************************************************************)
LEMMA ValidPlanProgress ==
    ASSUME NEW p, NEW st, IsPlan(p), st \in [DOMAIN p -> Status],
           ValidPlan(p), Quiet(st), ~AllFinished(st)
    PROVE  Executable(p, st) # {}
  <1> DEFINE Waiting == {i \in DOMAIN p : st[i] = "pending"}
  <1>1. Waiting \in SUBSET Nat
    BY DEF IsPlan
  <1>2. Waiting # {}
    BY DEF AllFinished, Quiet, SettledStatus, FinishedStatus
  <1>3. PICK i \in Waiting : \A j \in Waiting : i <= j
    BY <1>1, <1>2, LeastNat
  <1>4. ASSUME NEW d \in p[i].deps
        PROVE  d \in FinishedIds(st)
    <2>1. d \in DOMAIN p /\ d < i
      BY <1>3 DEF ValidPlan
    <2>2. d \notin Waiting
      BY <1>1, <1>3, <2>1 DEF IsPlan
    <2> QED
      BY <2>1, <2>2 DEF Quiet, FinishedIds, FinishedStatus
  <1>5. i \in Executable(p, st)
    BY <1>3, <1>4 DEF Executable, DepsMet
  <1> QED
    BY <1>5

(***************************************************************************)
(* apply_replanned_steps: the state it builds is a plan whose steps are    *)
(* all waiting or done, with exactly the finished steps it had, unchanged. *)
(***************************************************************************)
LEMMA ReplanKeepsFinished ==
    ASSUME NEW p, NEW st, NEW new \in Seq(Step),
           IsPlan(p), st \in [DOMAIN p -> Status]
    PROVE  LET q == ReplannedPlan(p, st, new)
               sq == ReplannedStatus(st, new)
           IN /\ IsPlan(q)
              /\ sq \in [DOMAIN q -> Status]
              /\ Quiet(sq)
              /\ FinishedIds(sq) = FinishedIds(st)
              /\ KeepsFinished(p, st, q, sq)
  <1> DEFINE q == ReplannedPlan(p, st, new)
             sq == ReplannedStatus(st, new)
             fin == FinishedIds(st)
             last == LastFinished(st)
             fresh == {last + k : k \in DOMAIN new}
  <1>1. fin \in SUBSET DOMAIN p /\ DOMAIN p \in SUBSET Nat
    BY DEF FinishedIds, IsPlan
  <1>2. IsFiniteSet(fin)
    BY <1>1, FS_Subset DEF IsPlan
  <1>3. last \in Nat
    <2>1. fin \cup {0} \in SUBSET Nat
      BY <1>1
    <2>2. IsFiniteSet(fin \cup {0})
      BY <1>2, FS_AddElement
    <2>3. Max(fin \cup {0}) \in fin \cup {0}
      BY <2>1, <2>2, GreatestOfFinite
    <2> QED
      BY <2>1, <2>3 DEF LastFinished
  <1>4. Len(new) \in Nat /\ DOMAIN new = 1..Len(new)
    OBVIOUS
  <1> HIDE DEF last
  <1>5. fresh \in SUBSET (Nat \ {0}) /\ \A i \in fresh : i <= last + Len(new)
    BY <1>3, <1>4
  <1>6. IsFiniteSet(fresh)
    <2>1. last + Len(new) \in Nat /\ fresh \in SUBSET Nat
      BY <1>3, <1>4, <1>5
    <2> QED
      BY <1>5, <2>1, FS_BoundedSetOfNaturals
  <1>7. ReplannedIds(st, new) = fin \cup fresh
    BY DEF ReplannedIds, last
  <1>8. DOMAIN q = fin \cup fresh /\ DOMAIN sq = fin \cup fresh
    BY <1>7 DEF ReplannedPlan, ReplannedStatus
  <1>9. IsFiniteSet(DOMAIN q) /\ DOMAIN q \subseteq Nat \ {0}
    BY <1>1, <1>2, <1>5, <1>6, <1>8, FS_Union DEF IsPlan
  <1>10. ASSUME NEW i \in DOMAIN q
         PROVE  /\ i \in fin => q[i] = p[i] /\ sq[i] = st[i]
                /\ i \notin fin => q[i] \in Step /\ sq[i] = "pending"
    <2>1. CASE i \in fin
      BY <1>7, <1>8, <2>1 DEF ReplannedPlan, ReplannedStatus
    <2>2. CASE i \notin fin
      <3>1. PICK k \in DOMAIN new : i = last + k
        BY <1>8, <2>2
      <3>2. i - last = k
        BY <1>3, <1>4, <3>1
      <3>3. q[i] = new[k]
        BY <1>7, <1>8, <2>2, <3>2 DEF ReplannedPlan, last
      <3>4. sq[i] = "pending"
        BY <1>7, <1>8, <2>2 DEF ReplannedStatus
      <3> QED
        BY <1>4, <2>2, <3>3, <3>4
    <2> QED
      BY <2>1, <2>2
  <1>11. \A i \in fin : p[i] \in Step /\ st[i] \in FinishedStatus
    BY <1>1 DEF IsPlan, FinishedIds
  <1>12. q = [i \in DOMAIN q |-> q[i]] /\ sq = [i \in DOMAIN q |-> sq[i]]
    BY <1>8 DEF ReplannedPlan, ReplannedStatus
  <1>13. q \in [DOMAIN q -> Step]
    BY <1>10, <1>11, <1>12
  <1>14. \A i \in DOMAIN q : sq[i] \in {"pending", "completed", "skipped"}
    BY <1>10, <1>11 DEF FinishedStatus
  <1>15. sq \in [DOMAIN q -> Status]
    BY <1>12, <1>14 DEF Status
  <1>16. FinishedIds(sq) = fin
    BY <1>8, <1>10, <1>11 DEF FinishedIds, FinishedStatus
  <1> QED
    BY <1>8, <1>9, <1>10, <1>13, <1>14, <1>15, <1>16
       DEF IsPlan, Quiet, KeepsFinished

\* The dependencies of the steps that are kept are kept.
LEMMA FinishedKeepDeps ==
    ASSUME NEW p, NEW st, DOMAIN st = DOMAIN p, DepsKept(p, st),
           NEW q, NEW sq, sq \in [DOMAIN q -> Status], Quiet(sq),
           FinishedIds(sq) = FinishedIds(st), KeepsFinished(p, st, q, sq)
    PROVE  DepsKept(q, sq)
  <1> SUFFICES ASSUME NEW i \in DOMAIN q, sq[i] # "pending"
               PROVE  DepsMet(q, sq, i)
    BY DEF DepsKept
  <1>1. i \in FinishedIds(st)
    BY DEF Quiet, FinishedIds, FinishedStatus
  <1>2. DepsMet(p, st, i) /\ q[i] = p[i]
    BY <1>1 DEF DepsKept, KeepsFinished, FinishedIds, FinishedStatus
  <1> QED
    BY <1>2 DEF DepsMet

-----------------------------------------------------------------------------
(***************************************************************************)
(* What one call keeps invariant: a call that runs has a validated plan    *)
(* whose steps wait or are done, but for the one it is working on; a call  *)
(* that ended without error has finished every step.                       *)
(***************************************************************************)
CallInv(r) ==
    /\ pc[r] # "ended" => outcome[r] = "none"
    /\ pc[r] # "ended" \/ outcome[r] = "ok" => ValidPlan(plan[r])
    /\ pc[r] \in {"idle", "compress"} => Quiet(status[r])
    /\ pc[r] = "tool" => /\ current[r] \in DOMAIN plan[r]
                         /\ status[r][current[r]] = "running"
                         /\ Quiet([status[r] EXCEPT ![current[r]] = "skipped"])
    /\ outcome[r] # "deadlock"
    /\ outcome[r] = "ok" => FinishedIds(status[r]) = DOMAIN plan[r]
    /\ DepsKept(plan[r], status[r])

IInv == TypeOK /\ \A r \in Runs : CallInv(r)

-----------------------------------------------------------------------------
\* Setting a step that is not finished leaves the others' dependencies met.
LEMMA SettingKeepsDeps ==
    ASSUME NEW p, NEW st, NEW i \in DOMAIN p, NEW s \in Status,
           IsPlan(p), st \in [DOMAIN p -> Status], DepsKept(p, st),
           st[i] \notin FinishedStatus, DepsMet(p, st, i)
    PROVE  LET sq == [st EXCEPT ![i] = s]
           IN /\ sq \in [DOMAIN p -> Status]
              /\ DepsKept(p, sq)
              /\ KeepsFinished(p, st, p, sq)
  <1> DEFINE sq == [st EXCEPT ![i] = s]
  <1>1. sq \in [DOMAIN p -> Status]
    OBVIOUS
  <1>2. \A j \in DOMAIN p : j # i => sq[j] = st[j]
    OBVIOUS
  <1>3. i \notin FinishedIds(st) /\ FinishedIds(st) \subseteq FinishedIds(sq)
    BY <1>1, <1>2 DEF FinishedIds
  <1>4. \A j \in DOMAIN p : DepsMet(p, st, j) => DepsMet(p, sq, j)
    BY <1>3 DEF DepsMet
  <1>5. \A j \in DOMAIN p : sq[j] # "pending" => DepsMet(p, sq, j)
    BY <1>2, <1>4 DEF DepsKept
  <1> QED
    BY <1>1, <1>2, <1>3, <1>5 DEF DepsKept, KeepsFinished, FinishedIds

\* The calls other than r are as they were.
OthersAsBefore(r) ==
    \A q \in Runs \ {r} :
        /\ plan'[q] = plan[q] /\ status'[q] = status[q]
        /\ current'[q] = current[q] /\ attempt'[q] = attempt[q]
        /\ pc'[q] = pc[q] /\ outcome'[q] = outcome[q]

LEMMA CallInvOfOthers ==
    ASSUME NEW r \in Runs, \A q \in Runs : CallInv(q), OthersAsBefore(r)
    PROVE  \A q \in Runs \ {r} : CallInv(q)'
  BY DEF OthersAsBefore, CallInv

\* The types of the variables a step writes for call r.
LEMMA TypesOfCall ==
    ASSUME TypeOK, NEW r \in Runs, NEW p, NEW st, NEW cur \in Nat, NEW att \in Nat,
           IsPlan(p), st \in [DOMAIN p -> Status],
           SetState(r, p, st, cur, att)
    PROVE  /\ DOMAIN plan' = Runs /\ DOMAIN status' = Runs
           /\ plan'[r] = p /\ status'[r] = st /\ current'[r] = cur
           /\ \A q \in Runs \ {r} : /\ plan'[q] = plan[q]
                                    /\ status'[q] = status[q]
                                    /\ current'[q] = current[q]
                                    /\ attempt'[q] = attempt[q]
           /\ \A q \in Runs : /\ IsPlan(plan'[q])
                              /\ status'[q] \in [DOMAIN plan'[q] -> Status]
           /\ current' \in [Runs -> Nat]
           /\ attempt' \in [Runs -> Nat]
  <1>1. /\ plan' = [plan EXCEPT ![r] = p]
        /\ status' = [status EXCEPT ![r] = st]
        /\ current' = [current EXCEPT ![r] = cur]
        /\ attempt' = [attempt EXCEPT ![r] = att]
    BY DEF SetState
  <1>2. /\ DOMAIN plan = Runs /\ DOMAIN status = Runs
        /\ current \in [Runs -> Nat] /\ attempt \in [Runs -> Nat]
        /\ \A q \in Runs : /\ IsPlan(plan[q])
                           /\ status[q] \in [DOMAIN plan[q] -> Status]
    BY DEF TypeOK
  <1>3. /\ plan'[r] = p /\ status'[r] = st
        /\ \A q \in Runs \ {r} : plan'[q] = plan[q] /\ status'[q] = status[q]
    BY <1>1, <1>2
  <1>4. \A q \in Runs : /\ IsPlan(plan'[q])
                        /\ status'[q] \in [DOMAIN plan'[q] -> Status]
    <2> TAKE q \in Runs
    <2>1. CASE q = r
      BY <1>3, <2>1
    <2>2. CASE q # r
      BY <1>2, <1>3, <2>2
    <2> QED
      BY <2>1, <2>2
  <1> QED
    BY <1>1, <1>2, <1>3, <1>4

\* The same for pc and outcome.
LEMMA TypesOfControl ==
    ASSUME TypeOK, NEW r \in Runs, NEW w \in PCs, NEW o \in Outcomes,
           \/ End(r, o) /\ w = "ended"
           \/ Suspend(r, w) /\ o = outcome[r]
    PROVE  /\ pc' \in [Runs -> PCs] /\ outcome' \in [Runs -> Outcomes]
           /\ pc'[r] = w /\ outcome'[r] = o
           /\ \A q \in Runs \ {r} : pc'[q] = pc[q] /\ outcome'[q] = outcome[q]
  BY DEF TypeOK, End, Suspend, PCs

LEMMA GraphTypes ==
    ASSUME NEW r \in Runs, NEW p, NEW st, IsPlan(p), st \in [DOMAIN p -> Status]
    PROVE  LET g == GraphOf(r, p, st)
           IN /\ g.session \in Runs
              /\ DOMAIN g.node \subseteq Nat \ {0}
              /\ \A i \in DOMAIN g.node : g.node[i] \in NodeStatus
              /\ \A i \in DOMAIN p :
                    LET h == [g EXCEPT !.node[i] = "running"]
                    IN /\ h.session \in Runs
                       /\ DOMAIN h.node \subseteq Nat \ {0}
                       /\ \A j \in DOMAIN h.node : h.node[j] \in NodeStatus
  BY DEF GraphOf, MapStatus, NodeStatus, Status, FinishedStatus, IsPlan

-----------------------------------------------------------------------------
(***************************************************************************)
(* A turn of the loop on a validated plan whose steps wait or are done     *)
(* re-establishes the invariant and undoes nothing that was finished.      *)
(***************************************************************************)
LEMMA LoopHeadKeepsInv ==
    ASSUME TypeOK, NEW r \in Runs, NEW p, NEW st,
           IsPlan(p), st \in [DOMAIN p -> Status],
           ValidPlan(p), Quiet(st), DepsKept(p, st), outcome[r] = "none",
           LoopHead(r, p, st), UNCHANGED <<policy, replanVars>>
    PROVE  /\ TypeOK'
           /\ CallInv(r)'
           /\ OthersAsBefore(r)
           /\ KeepsFinished(p, st, plan'[r], status'[r])
  <1>1. CASE /\ AllFinished(st)
             /\ SetState(r, p, st, 0, 0)
             /\ graph' = GraphOf(r, p, st)
             /\ End(r, "ok")
    <2>1. FinishedIds(st) = DOMAIN p
      BY <1>1 DEF AllFinished, Quiet, SettledStatus, FinishedStatus, FinishedIds
    <2>2. /\ plan'[r] = p /\ status'[r] = st
          /\ pc'[r] = "ended" /\ outcome'[r] = "ok"
          /\ OthersAsBefore(r)
      <3>1. /\ plan'[r] = p /\ status'[r] = st
            /\ \A q \in Runs \ {r} : /\ plan'[q] = plan[q]
                                     /\ status'[q] = status[q]
                                     /\ current'[q] = current[q]
                                     /\ attempt'[q] = attempt[q]
        BY <1>1, TypesOfCall
      <3>2. "ended" \in PCs /\ "ok" \in Outcomes
        BY DEF PCs, Outcomes
      <3>3. /\ pc'[r] = "ended" /\ outcome'[r] = "ok"
            /\ \A q \in Runs \ {r} : pc'[q] = pc[q] /\ outcome'[q] = outcome[q]
        BY <1>1, <3>2, TypesOfControl
      <3> QED
        BY <3>1, <3>3 DEF OthersAsBefore
    <2>3. TypeOK'
      BY <1>1, TypesOfCall, TypesOfControl, GraphTypes
         DEF TypeOK, PCs, Outcomes, replanVars
    <2> QED
      BY <2>1, <2>2, <2>3 DEF CallInv, KeepsFinished
  <1>2. CASE ~AllFinished(st) /\ Executable(p, st) = {}
    BY <1>2, ValidPlanProgress
  <1>3. ASSUME NEW i \in DOMAIN p, IsNextExecutable(p, st, i), StartStep(r, p, st, i)
        PROVE  /\ TypeOK'
               /\ CallInv(r)'
               /\ OthersAsBefore(r)
               /\ KeepsFinished(p, st, plan'[r], status'[r])
    <2>1. st[i] = "pending" /\ DepsMet(p, st, i) /\ i \in Nat
      BY <1>3 DEF IsNextExecutable, Executable, IsPlan
    <2>2. PICK s \in Status, w \in PCs :
             /\ SetState(r, p, [st EXCEPT ![i] = s], i, 1)
             /\ Suspend(r, w)
             /\ \/ s = "running" /\ w = "tool"
                \/ s \in FinishedStatus /\ w = "compress"
      BY <1>3 DEF StartStep, Status, PCs, FinishedStatus
    <2> DEFINE sq == [st EXCEPT ![i] = s]
    <2>3. /\ sq \in [DOMAIN p -> Status] /\ DepsKept(p, sq)
          /\ KeepsFinished(p, st, p, sq)
      BY <2>1, SettingKeepsDeps DEF FinishedStatus
    <2>4. /\ plan'[r] = p /\ status'[r] = sq /\ current'[r] = i
          /\ pc'[r] = w /\ outcome'[r] = "none"
          /\ OthersAsBefore(r)
      <3>1. /\ plan'[r] = p /\ status'[r] = sq /\ current'[r] = i
            /\ \A q \in Runs \ {r} : /\ plan'[q] = plan[q]
                                     /\ status'[q] = status[q]
                                     /\ current'[q] = current[q]
                                     /\ attempt'[q] = attempt[q]
        <4>1. SetState(r, p, sq, i, 1)
          BY <2>2
        <4> HIDE DEF sq
        <4> QED
          BY <2>1, <2>3, <4>1, TypesOfCall
      <3>2. "none" \in Outcomes
        BY DEF Outcomes
      <3>3. /\ pc'[r] = w /\ outcome'[r] = "none"
            /\ \A q \in Runs \ {r} : pc'[q] = pc[q] /\ outcome'[q] = outcome[q]
        BY <2>2, <3>2, TypesOfControl
      <3> QED
        BY <3>1, <3>3 DEF OthersAsBefore
    <2>5. TypeOK'
      <3>1. graph' = [GraphOf(r, p, st) EXCEPT !.node[i] = "running"]
        BY <1>3 DEF StartStep
      <3>2. /\ graph'.session \in Runs \cup {NoRun}
            /\ DOMAIN graph'.node \subseteq Nat \ {0}
            /\ \A j \in DOMAIN graph'.node : graph'.node[j] \in NodeStatus
        BY <3>1, GraphTypes
      <3>3. /\ DOMAIN plan' = Runs /\ DOMAIN status' = Runs
            /\ \A q \in Runs : /\ IsPlan(plan'[q])
                               /\ status'[q] \in [DOMAIN plan'[q] -> Status]
            /\ current' \in [Runs -> Nat] /\ attempt' \in [Runs -> Nat]
        BY <2>1, <2>2, <2>3, TypesOfCall
      <3>4. pc' \in [Runs -> PCs] /\ outcome' \in [Runs -> Outcomes]
        BY <2>2, TypesOfControl DEF TypeOK
      <3> QED
        BY <3>2, <3>3, <3>4 DEF TypeOK, replanVars
    <2>6. CASE s = "running" /\ w = "tool"
      <3>1. Quiet([sq EXCEPT ![i] = "skipped"])
        BY DEF Quiet
      <3> QED
        BY <1>3, <2>3, <2>4, <2>5, <2>6, <3>1 DEF CallInv
    <2>7. CASE s \in FinishedStatus /\ w = "compress"
      <3>1. Quiet(sq)
        BY <2>7 DEF Quiet, FinishedStatus
      <3> QED
        BY <2>3, <2>4, <2>5, <2>7, <3>1 DEF CallInv
    <2> QED
      BY <2>2, <2>6, <2>7
  <1> QED
    BY <1>1, <1>2, <1>3 DEF LoopHead

\* The steps of call r that leave its plan and the statuses of its steps but
\* the current one alone.
LEMMA SettleCurrent ==
    ASSUME TypeOK, NEW r \in Runs, CallInv(r), pc[r] = "tool", NEW s \in Status
    PROVE  LET st == [status[r] EXCEPT ![current[r]] = s]
           IN /\ st \in [DOMAIN plan[r] -> Status]
              /\ DepsKept(plan[r], st)
              /\ KeepsFinished(plan[r], status[r], plan[r], st)
              /\ s \in FinishedStatus => Quiet(st)
  <1>1. /\ IsPlan(plan[r]) /\ status[r] \in [DOMAIN plan[r] -> Status]
        /\ current[r] \in DOMAIN plan[r]
        /\ status[r][current[r]] = "running"
        /\ DepsKept(plan[r], status[r])
        /\ Quiet([status[r] EXCEPT ![current[r]] = "skipped"])
    BY DEF TypeOK, CallInv
  <1>2. DepsMet(plan[r], status[r], current[r])
    BY <1>1 DEF DepsKept
  <1>3. s \in FinishedStatus => Quiet([status[r] EXCEPT ![current[r]] = s])
    BY <1>1 DEF Quiet, FinishedStatus
  <1> QED
    BY <1>1, <1>2, <1>3, SettingKeepsDeps DEF FinishedStatus

\* What the step of a call establishes.
StepKeepsInv(r) ==
    /\ TypeOK'
    /\ CallInv(r)'
    /\ OthersAsBefore(r)
    /\ KeepsFinished(plan[r], status[r], plan'[r], status'[r])

\* A step that sets the current step's status and suspends or ends the call.
LEMMA SetCurrentKeepsInv ==
    ASSUME TypeOK, NEW r \in Runs, CallInv(r), pc[r] = "tool", NEW s \in Status,
           NEW w \in PCs \ {"idle", "tool"}, NEW o \in Outcomes \ {"ok", "deadlock"},
           status' = [status EXCEPT ![r][current[r]] = s],
           \/ End(r, o) /\ w = "ended"
           \/ Suspend(r, w) /\ o = "none",
           w = "compress" => s \in FinishedStatus,
           UNCHANGED <<policy, plan, current>>,
           attempt' \in [Runs -> Nat],
           \A q \in Runs \ {r} : attempt'[q] = attempt[q],
           replans' \in [Runs -> Nat], replanAttempts' \in Nat,
           graph' = graph
    PROVE  StepKeepsInv(r)
  <1> DEFINE st == [status[r] EXCEPT ![current[r]] = s]
  <1>1. /\ TypeOK /\ CallInv(r) /\ outcome[r] = "none"
        /\ pc[r] # "ended" /\ ValidPlan(plan[r])
    BY DEF CallInv
  <1>2. /\ st \in [DOMAIN plan[r] -> Status] /\ DepsKept(plan[r], st)
        /\ KeepsFinished(plan[r], status[r], plan[r], st)
        /\ s \in FinishedStatus => Quiet(st)
    BY SettleCurrent
  <1>3. /\ status'[r] = st /\ DOMAIN status' = Runs
        /\ \A q \in Runs \ {r} : status'[q] = status[q]
    BY <1>1 DEF TypeOK
  <1>4. /\ pc' \in [Runs -> PCs] /\ outcome' \in [Runs -> Outcomes]
        /\ pc'[r] = w /\ outcome'[r] = o
        /\ \A q \in Runs \ {r} : pc'[q] = pc[q] /\ outcome'[q] = outcome[q]
    BY <1>1, TypesOfControl
  <1>5. w # "ended" => o = "none"
    BY DEF End, Suspend
  <1> HIDE DEF st
  <1>6. TypeOK'
    <2>1. \A q \in Runs : status'[q] \in [DOMAIN plan'[q] -> Status]
      <3> TAKE q \in Runs
      <3>1. CASE q = r
        BY <1>2, <1>3, <3>1
      <3>2. CASE q # r
        BY <1>1, <1>3, <3>2 DEF TypeOK
      <3> QED
        BY <3>1, <3>2
    <2> QED
      BY <1>1, <1>3, <1>4, <2>1 DEF TypeOK
  <1>7. CallInv(r)'
    BY <1>1, <1>2, <1>3, <1>4, <1>5 DEF CallInv, PCs
  <1>8. OthersAsBefore(r)
    BY <1>3, <1>4 DEF OthersAsBefore
  <1> QED
    BY <1>2, <1>3, <1>6, <1>7, <1>8 DEF StepKeepsInv

\* The call ends with an error at its tool.
LEMMA EndingKeepsInv ==
    ASSUME TypeOK, NEW r \in Runs, CallInv(r), pc[r] = "tool", NEW s \in Status,
           NEW o \in Outcomes \ {"ok", "deadlock"},
           status' = [status EXCEPT ![r][current[r]] = s], End(r, o),
           UNCHANGED <<policy, plan, current, attempt, replanVars, graph>>
    PROVE  StepKeepsInv(r)
  <1>1. "ended" \in PCs \ {"idle", "tool"} /\ ("ended" = "compress" => s \in FinishedStatus)
    BY DEF PCs
  <1>2. /\ attempt' \in [Runs -> Nat] /\ \A q \in Runs \ {r} : attempt'[q] = attempt[q]
        /\ replans' \in [Runs -> Nat] /\ replanAttempts' \in Nat
        /\ UNCHANGED <<policy, plan, current>> /\ graph' = graph
    BY DEF TypeOK, replanVars
  <1> QED
    BY <1>1, <1>2, SetCurrentKeepsInv

LEMMA CallStepKeepsInv ==
    ASSUME TypeOK, NEW r \in Runs, CallInv(r), CallStep(r), UNCHANGED policy
    PROVE  StepKeepsInv(r)
  <1>1. /\ TypeOK /\ CallInv(r)
        /\ IsPlan(plan[r]) /\ status[r] \in [DOMAIN plan[r] -> Status]
    BY DEF TypeOK
  <1>2. /\ {"completed", "failed", "pending", "skipped"} \subseteq Status
        /\ {"ended", "compress", "planner"} \subseteq PCs \ {"idle", "tool"}
        /\ {"none", "unknown_node", "step_failed", "replan_budget"}
              \subseteq Outcomes \ {"ok", "deadlock"}
        /\ attempt \in [Runs -> Nat] /\ replans \in [Runs -> Nat]
        /\ replanAttempts \in Nat
    BY <1>1 DEF Status, PCs, Outcomes, Errors, TypeOK
  <1>3. KeepsFinished(plan[r], status[r], plan[r], status[r])
    BY <1>1 DEF KeepsFinished, FinishedIds
  <1>4. CASE Execute(r) \/ Compressed(r)
    <2>1. /\ pc[r] \in {"idle", "compress"}
          /\ LoopHead(r, plan[r], status[r])
          /\ UNCHANGED replanVars
      BY <1>4 DEF Execute, Compressed
    <2>2. /\ ValidPlan(plan[r]) /\ Quiet(status[r]) /\ outcome[r] = "none"
          /\ DepsKept(plan[r], status[r])
      BY <1>1, <2>1 DEF CallInv
    <2> QED
      BY <1>1, <2>1, <2>2, LoopHeadKeepsInv DEF StepKeepsInv
  <1>5. CASE ToolSucceeds(r)
    BY <1>1, <1>2, <1>5, SetCurrentKeepsInv
       DEF ToolSucceeds, TypeOK, PCs, Outcomes, FinishedStatus, replanVars, CallInv
  <1>6. CASE RetryStep(r)
    <2>1. CASE /\ current[r] \in DOMAIN graph.node
               /\ attempt' = [attempt EXCEPT ![r] = @ + 1]
               /\ graph' = [graph EXCEPT !.node[current[r]] = "running"]
               /\ UNCHANGED <<plan, status, current, controlVars>>
      <3>1. TypeOK'
        BY <1>1, <1>6, <2>1 DEF TypeOK, RetryStep, replanVars, controlVars, NodeStatus
      <3>2. CallInv(r)' /\ OthersAsBefore(r)
        BY <1>1, <2>1 DEF CallInv, OthersAsBefore, controlVars, TypeOK
      <3> QED
        BY <1>3, <2>1, <3>1, <3>2 DEF StepKeepsInv
    <2>2. CASE /\ status' = [status EXCEPT ![r][current[r]] = "pending"]
               /\ End(r, "unknown_node")
               /\ UNCHANGED <<plan, current, attempt, graph>>
      <3>1. pc[r] = "tool" /\ UNCHANGED replanVars
        BY <1>6 DEF RetryStep
      <3> QED
        BY <1>1, <1>2, <2>2, <3>1, EndingKeepsInv
    <2> QED
      BY <1>6, <2>1, <2>2 DEF RetryStep
  <1>7. CASE GiveUpStep(r)
    <2>1. /\ pc[r] = "tool" /\ End(r, "step_failed")
          /\ status' = [status EXCEPT ![r][current[r]] = "failed"]
          /\ UNCHANGED <<plan, current, attempt, replanVars, graph>>
      BY <1>7 DEF GiveUpStep
    <2> QED
      BY <1>1, <1>2, <2>1, EndingKeepsInv
  <1>8. CASE SkipStep(r)
    <2> DEFINE st == [status[r] EXCEPT ![current[r]] = "skipped"]
    <2>1. /\ st \in [DOMAIN plan[r] -> Status] /\ DepsKept(plan[r], st)
          /\ KeepsFinished(plan[r], status[r], plan[r], st) /\ Quiet(st)
      BY <1>2, <1>8, SettleCurrent DEF SkipStep, FinishedStatus
    <2>2. ValidPlan(plan[r]) /\ outcome[r] = "none"
      BY <1>1, <1>8 DEF CallInv, SkipStep
    <2>3. LoopHead(r, plan[r], st) /\ UNCHANGED replanVars
      BY <1>8 DEF SkipStep
    <2> HIDE DEF st
    <2>4. /\ TypeOK' /\ CallInv(r)' /\ OthersAsBefore(r)
          /\ KeepsFinished(plan[r], st, plan'[r], status'[r])
      BY <1>1, <2>1, <2>2, <2>3, LoopHeadKeepsInv
    <2>5. KeepsFinished(plan[r], status[r], plan'[r], status'[r])
      BY <1>1, <2>1, <2>4 DEF KeepsFinished, FinishedIds
    <2> QED
      BY <2>4, <2>5 DEF StepKeepsInv
  <1>9. CASE Replan(r)
    <2>1. /\ pc[r] = "tool" /\ UNCHANGED <<plan, current, attempt, graph>>
          /\ status' = [status EXCEPT ![r][current[r]] = "failed"]
      BY <1>9 DEF Replan
    <2>2. CASE End(r, "replan_budget") /\ UNCHANGED replanVars
      BY <1>1, <1>2, <2>2, <2>1, EndingKeepsInv
    <2>3. CASE /\ replanAttempts' = replanAttempts + 1
               /\ replans' = [replans EXCEPT ![r] = @ + 1]
               /\ Suspend(r, "planner")
      <3>1. outcome[r] = "none"
        BY <1>1, <2>1 DEF CallInv
      <3>2. replans' \in [Runs -> Nat] /\ replanAttempts' \in Nat
        BY <1>2, <2>3
      <3>3. /\ "planner" \in PCs \ {"idle", "tool"} /\ "planner" # "compress"
            /\ attempt' \in [Runs -> Nat] /\ \A q \in Runs \ {r} : attempt'[q] = attempt[q]
            /\ UNCHANGED <<policy, plan, current>> /\ graph' = graph
        BY <1>2, <2>1
      <3>4. "failed" \in Status /\ "none" \in Outcomes \ {"ok", "deadlock"}
        BY <1>2
      <3> QED
        BY <1>1, <2>3, <2>1, <3>1, <3>2, <3>3, <3>4, SetCurrentKeepsInv
    <2> QED
      BY <1>9, <2>2, <2>3 DEF Replan
  <1>10. CASE PlannerAnswers(r)
    <2>1. PICK new \in Proposals :
            LET p == ReplannedPlan(plan[r], status[r], new)
                st == ReplannedStatus(status[r], new)
            IN \/ /\ ValidPlan(p)
                  /\ LoopHead(r, p, st)
               \/ /\ ~ValidPlan(p)
                  /\ SetState(r, p, st, current[r], attempt[r])
                  /\ End(r, "invalid_plan")
                  /\ UNCHANGED graph
      BY <1>10 DEF PlannerAnswers
    <2> DEFINE p == ReplannedPlan(plan[r], status[r], new)
               st == ReplannedStatus(status[r], new)
    <2>2. new \in Seq(Step)
      BY ProposalsAssumption
    <2>3. /\ IsPlan(p) /\ st \in [DOMAIN p -> Status] /\ Quiet(st)
          /\ FinishedIds(st) = FinishedIds(status[r])
          /\ KeepsFinished(plan[r], status[r], p, st)
      BY <1>1, <2>2, ReplanKeepsFinished
    <2> HIDE DEF p, st
    <2>4. DepsKept(p, st)
      BY <1>1, <2>3, FinishedKeepDeps DEF CallInv
    <2>5. pc[r] = "planner" /\ outcome[r] = "none" /\ UNCHANGED replanVars
      BY <1>1, <1>10 DEF PlannerAnswers, CallInv
    <2>6. CASE ValidPlan(p) /\ LoopHead(r, p, st)
      <3>1. /\ TypeOK' /\ CallInv(r)' /\ OthersAsBefore(r)
            /\ KeepsFinished(p, st, plan'[r], status'[r])
        BY <1>1, <2>3, <2>4, <2>5, <2>6, LoopHeadKeepsInv
      <3>2. KeepsFinished(plan[r], status[r], plan'[r], status'[r])
        BY <2>3, <3>1 DEF KeepsFinished
      <3> QED
        BY <3>1, <3>2 DEF StepKeepsInv
    <2>7. CASE /\ ~ValidPlan(p)
               /\ SetState(r, p, st, current[r], attempt[r])
               /\ End(r, "invalid_plan")
               /\ UNCHANGED graph
      <3>1. current[r] \in Nat /\ attempt[r] \in Nat
        BY <1>1 DEF TypeOK
      <3>2. /\ DOMAIN plan' = Runs /\ DOMAIN status' = Runs
            /\ plan'[r] = p /\ status'[r] = st
            /\ \A q \in Runs \ {r} : /\ plan'[q] = plan[q]
                                     /\ status'[q] = status[q]
                                     /\ current'[q] = current[q]
                                     /\ attempt'[q] = attempt[q]
            /\ \A q \in Runs : /\ IsPlan(plan'[q])
                               /\ status'[q] \in [DOMAIN plan'[q] -> Status]
            /\ current' \in [Runs -> Nat] /\ attempt' \in [Runs -> Nat]
        BY <1>1, <2>3, <2>7, <3>1, TypesOfCall
      <3>3. /\ pc' \in [Runs -> PCs] /\ outcome' \in [Runs -> Outcomes]
            /\ pc'[r] = "ended" /\ outcome'[r] = "invalid_plan"
            /\ \A q \in Runs \ {r} : pc'[q] = pc[q] /\ outcome'[q] = outcome[q]
        BY <1>1, <2>7, TypesOfControl DEF PCs, Outcomes, Errors
      <3>4. TypeOK' /\ OthersAsBefore(r)
        BY <1>1, <2>5, <2>7, <3>2, <3>3 DEF TypeOK, OthersAsBefore, replanVars
      <3>5. CallInv(r)'
        BY <2>4, <3>2, <3>3 DEF CallInv
      <3> QED
        BY <2>3, <3>2, <3>4, <3>5 DEF StepKeepsInv
    <2> QED
      BY <2>1, <2>6, <2>7 DEF p, st
  <1>11. CASE PlannerFails(r)
    <2>1. /\ pc' \in [Runs -> PCs] /\ outcome' \in [Runs -> Outcomes]
          /\ pc'[r] = "ended" /\ outcome'[r] = "planner_failed"
          /\ \A q \in Runs \ {r} : pc'[q] = pc[q] /\ outcome'[q] = outcome[q]
      BY <1>1, <1>11, TypesOfControl DEF PlannerFails, PCs, Outcomes, Errors
    <2>2. UNCHANGED <<policy, plan, status, current, attempt, replanVars, graph>>
      BY <1>11 DEF PlannerFails, stateVars
    <2> QED
      BY <1>1, <1>3, <2>1, <2>2
         DEF StepKeepsInv, TypeOK, CallInv, OthersAsBefore, replanVars
  <1>12. CASE CompressorFails(r)
    <2>1. /\ pc' \in [Runs -> PCs] /\ outcome' \in [Runs -> Outcomes]
          /\ pc'[r] = "ended" /\ outcome'[r] = "compressor_failed"
          /\ \A q \in Runs \ {r} : pc'[q] = pc[q] /\ outcome'[q] = outcome[q]
      BY <1>1, <1>12, TypesOfControl DEF CompressorFails, PCs, Outcomes, Errors
    <2>2. UNCHANGED <<policy, plan, status, current, attempt, replanVars, graph>>
      BY <1>12 DEF CompressorFails, stateVars
    <2> QED
      BY <1>1, <1>3, <2>1, <2>2
         DEF StepKeepsInv, TypeOK, CallInv, OthersAsBefore, replanVars
  <1> QED
    BY <1>4, <1>5, <1>6, <1>7, <1>8, <1>9, <1>10, <1>11, <1>12 DEF CallStep

-----------------------------------------------------------------------------
LEMMA InitIInv == Init => IInv
  <1> SUFFICES ASSUME Init
               PROVE  IInv
    OBVIOUS
  <1>1. /\ DOMAIN plan = Runs /\ DOMAIN status = Runs
        /\ \A r \in Runs : /\ IsPlan(plan[r]) /\ ValidPlan(plan[r])
                           /\ status[r] = AllPending(plan[r])
    BY PlansAssumption DEF Init
  <1>2. \A r \in Runs : status[r] \in [DOMAIN plan[r] -> Status]
    BY <1>1 DEF AllPending, Status
  <1>3. TypeOK
    BY <1>1, <1>2 DEF Init, TypeOK, PCs, Outcomes
  <1>4. ASSUME NEW r \in Runs
        PROVE  CallInv(r)
    <2>1. \A i \in DOMAIN plan[r] : status[r][i] = "pending"
      BY <1>1 DEF AllPending
    <2>2. Quiet(status[r]) /\ DepsKept(plan[r], status[r])
      BY <1>2, <2>1 DEF Quiet, DepsKept
    <2> QED
      BY <1>1, <2>2 DEF Init, CallInv
  <1> QED
    BY <1>3, <1>4 DEF IInv

\* The finished work of every call survives a step.
WorkKept ==
    \A r \in Runs : KeepsFinished(plan[r], status[r], plan'[r], status'[r])

LEMMA NextKeepsInv == IInv /\ [Next]_vars => IInv' /\ WorkKept
  <1> SUFFICES ASSUME IInv, [Next]_vars
               PROVE  IInv' /\ WorkKept
    OBVIOUS
  <1>1. \A q \in Runs : KeepsFinished(plan[q], status[q], plan[q], status[q])
    BY DEF IInv, TypeOK, KeepsFinished, FinishedIds
  <1>2. ASSUME NEW r \in Runs, CallStep(r), UNCHANGED policy
        PROVE  IInv' /\ WorkKept
    <2>1. /\ TypeOK' /\ CallInv(r)' /\ OthersAsBefore(r)
          /\ KeepsFinished(plan[r], status[r], plan'[r], status'[r])
      BY <1>2, CallStepKeepsInv DEF IInv, StepKeepsInv
    <2>2. \A q \in Runs \ {r} : CallInv(q)'
      BY <2>1, CallInvOfOthers DEF IInv
    <2>3. \A q \in Runs : CallInv(q)'
      BY <2>1, <2>2
    <2>4. \A q \in Runs \ {r} :
             KeepsFinished(plan[q], status[q], plan'[q], status'[q])
      BY <1>1, <2>1 DEF OthersAsBefore
    <2> QED
      BY <2>1, <2>3, <2>4 DEF IInv, WorkKept
  <1>3. CASE UNCHANGED vars
    <2>1. IInv'
      BY <1>3 DEF IInv, TypeOK, CallInv, vars, stateVars, controlVars, replanVars
    <2>2. WorkKept
      BY <1>1, <1>3 DEF WorkKept, vars, stateVars
    <2> QED
      BY <2>1, <2>2
  <1> QED
    BY <1>2, <1>3 DEF Next, Done

THEOREM Invariance == Spec => []IInv
  BY InitIInv, NextKeepsInv, PTL DEF Spec

\* TypeOK holds for every number of calls, every plan and every proposal.
THEOREM TypeCorrect == Spec => []TypeOK
  BY Invariance, PTL DEF IInv

\* execute() never raises "Plan deadlock": NoPlanDeadlock for all plans that
\* pass the validator, under every policy and interleaving.
THEOREM NoDeadlock == Spec => []NoPlanDeadlock
  <1>1. IInv => NoPlanDeadlock
    BY DEF IInv, CallInv, NoPlanDeadlock
  <1> QED
    BY <1>1, Invariance, PTL

\* DependenciesRespected: what has run had, and keeps, its dependencies done.
THEOREM DependenciesAlwaysRespected == Spec => []DependenciesRespected
  <1>1. IInv => DependenciesRespected
    BY DEF IInv, CallInv, DepsKept, DependenciesRespected
  <1> QED
    BY <1>1, Invariance, PTL

\* execute() that returns has finished every step (OkMeansFinished).
THEOREM ReturnMeansFinished == Spec => []OkMeansFinished
  <1>1. IInv => OkMeansFinished
    BY DEF IInv, CallInv, OkMeansFinished
  <1> QED
    BY <1>1, Invariance, PTL

\* FinishedWorkKept: no step of any call undoes or repeats finished work.
THEOREM FinishedWorkAlwaysKept == Spec => FinishedWorkKept
  <1>1. IInv /\ [Next]_vars =>
           [\A r \in Runs : \A i \in FinishedIds(status[r]) :
              /\ i \in DOMAIN plan'[r]
              /\ plan'[r][i] = plan[r][i]
              /\ status'[r][i] = status[r][i]]_vars
    BY NextKeepsInv DEF WorkKept, KeepsFinished
  <1> QED
    BY <1>1, Invariance, PTL DEF Spec, FinishedWorkKept
-----------------------------------------------------------------------------
\* What the graph shows of plan p with statuses st while step i is worked on.
Shown(r, p, st, i) == [GraphOf(r, p, st) EXCEPT !.node[i] = "running"]

\* It does not depend on the status of that step.
LEMMA ShownButCurrent ==
    ASSUME NEW r, NEW p, NEW st, NEW i \in DOMAIN p, NEW s,
           st \in [DOMAIN p -> Status]
    PROVE  Shown(r, p, [st EXCEPT ![i] = s], i) = Shown(r, p, st, i)
  <1> DEFINE f == [j \in DOMAIN p |-> MapStatus(st[j])]
             g == [j \in DOMAIN p |-> MapStatus([st EXCEPT ![i] = s][j])]
  <1>1. \A j \in DOMAIN p : j # i => g[j] = f[j]
    OBVIOUS
  <1> HIDE DEF f, g
  <1>2. DOMAIN f = DOMAIN p /\ DOMAIN g = DOMAIN p
    BY DEF f, g
  <1>3. [g EXCEPT ![i] = "running"] = [f EXCEPT ![i] = "running"]
    <2>1. \A j \in DOMAIN p : [g EXCEPT ![i] = "running"][j] = [f EXCEPT ![i] = "running"][j]
      BY <1>1, <1>2
    <2> QED
      BY <1>2, <2>1 DEF f, g
  <1>4. /\ GraphOf(r, p, st) = [session |-> r, node |-> f]
        /\ GraphOf(r, p, [st EXCEPT ![i] = s]) = [session |-> r, node |-> g]
    BY DEF GraphOf, f, g
  <1>5. /\ Shown(r, p, st, i) = [session |-> r, node |-> [f EXCEPT ![i] = "running"]]
        /\ Shown(r, p, [st EXCEPT ![i] = s], i)
              = [session |-> r, node |-> [g EXCEPT ![i] = "running"]]
    <2>1. ASSUME NEW n
          PROVE  [[session |-> r, node |-> n] EXCEPT !.node[i] = "running"]
                    = [session |-> r, node |-> [n EXCEPT ![i] = "running"]]
      OBVIOUS
    <2>2. Shown(r, p, st, i) = [[session |-> r, node |-> f] EXCEPT !.node[i] = "running"]
      BY <1>4 DEF Shown
    <2>3. Shown(r, p, [st EXCEPT ![i] = s], i)
             = [[session |-> r, node |-> g] EXCEPT !.node[i] = "running"]
      BY <1>4 DEF Shown
    <2> QED
      BY <2>1, <2>2, <2>3
  <1> QED
    BY <1>3, <1>5

\* A turn of the loop leaves the graph of the call whose turn it is.
LEMMA LoopHeadShows ==
    ASSUME TypeOK, NEW r \in Runs, NEW p, NEW st,
           IsPlan(p), st \in [DOMAIN p -> Status], LoopHead(r, p, st)
    PROVE  /\ pc'[r] # "idle"
           /\ pc'[r] \in {"tool", "compress"} =>
                 graph' = Shown(r, plan'[r], status'[r], current'[r])
  <1>0. /\ DOMAIN plan = Runs /\ DOMAIN status = Runs /\ DOMAIN current = Runs
        /\ DOMAIN pc = Runs
    BY DEF TypeOK
  <1>1. CASE End(r, "ok") \/ End(r, "deadlock")
    <2>1. pc'[r] = "ended"
      BY <1>0, <1>1 DEF End
    <2> QED
      BY <2>1
  <1>2. ASSUME NEW i \in DOMAIN p, StartStep(r, p, st, i)
        PROVE  /\ pc'[r] # "idle"
               /\ graph' = Shown(r, plan'[r], status'[r], current'[r])
    <2>1. PICK s \in Status, w \in {"tool", "compress"} :
             SetState(r, p, [st EXCEPT ![i] = s], i, 1) /\ Suspend(r, w)
      BY <1>2 DEF StartStep, Status
    <2>2. pc'[r] = w
      BY <1>0, <2>1 DEF Suspend
    <2>3. plan'[r] = p /\ status'[r] = [st EXCEPT ![i] = s] /\ current'[r] = i
      BY <1>0, <2>1 DEF SetState
    <2>4. graph' = Shown(r, p, st, i)
      BY <1>2 DEF StartStep, Shown
    <2>5. Shown(r, p, [st EXCEPT ![i] = s], i) = Shown(r, p, st, i)
      BY ShownButCurrent
    <2> QED
      BY <2>2, <2>3, <2>4, <2>5
  <1> QED
    BY <1>1, <1>2 DEF LoopHead

\* A step of a call leaves the graph behind that shows it.
LEMMA CallStepShows ==
    ASSUME IInv, NEW r \in Runs, CallStep(r),
           pc[r] = "tool" => graph = Shown(r, plan[r], status[r], current[r])
    PROVE  pc'[r] \in {"tool", "compress"} =>
              graph' = Shown(r, plan'[r], status'[r], current'[r])
  <1>1. /\ TypeOK /\ IsPlan(plan[r]) /\ status[r] \in [DOMAIN plan[r] -> Status]
        /\ DOMAIN status = Runs /\ DOMAIN pc = Runs
    BY DEF IInv, TypeOK
  <1>2. pc[r] = "tool" => current[r] \in DOMAIN plan[r]
    BY DEF IInv, CallInv
  <1>3. CASE Execute(r) \/ Compressed(r)
    BY <1>1, <1>3, LoopHeadShows DEF Execute, Compressed
  <1>4. CASE ToolSucceeds(r)
    <2>1. /\ status'[r] = [status[r] EXCEPT ![current[r]] = "completed"]
          /\ plan'[r] = plan[r] /\ current'[r] = current[r] /\ graph' = graph
          /\ pc[r] = "tool"
      BY <1>1, <1>4 DEF ToolSucceeds
    <2>2. Shown(r, plan[r], [status[r] EXCEPT ![current[r]] = "completed"], current[r])
             = Shown(r, plan[r], status[r], current[r])
      <3> DEFINE p == plan[r]
                 st == status[r]
                 i == current[r]
      <3>1. i \in DOMAIN p /\ st \in [DOMAIN p -> Status]
        BY <1>1, <1>2, <2>1
      <3> HIDE DEF p, st, i
      <3>2. Shown(r, p, [st EXCEPT ![i] = "completed"], i) = Shown(r, p, st, i)
        BY <3>1, ShownButCurrent
      <3> QED
        BY <3>2 DEF p, st, i
    <2>3. graph = Shown(r, plan[r], status[r], current[r])
      BY <2>1
    <2> QED
      BY <2>1, <2>2, <2>3, Zenon
  <1>5. CASE RetryStep(r)
    <2>1. CASE /\ graph' = [graph EXCEPT !.node[current[r]] = "running"]
               /\ UNCHANGED <<plan, status, current, controlVars>>
      <3> DEFINE f == [j \in DOMAIN plan[r] |-> MapStatus(status[r][j])]
                 h == [f EXCEPT ![current[r]] = "running"]
      <3>1. graph = [session |-> r, node |-> h]
        BY <1>5 DEF RetryStep, Shown, GraphOf
      <3>2. [h EXCEPT ![current[r]] = "running"] = h
        BY <1>2, <1>5 DEF RetryStep
      <3>3. graph' = graph
        <4> HIDE DEF h
        <4> QED
          BY <2>1, <3>1, <3>2
      <3> QED
        BY <1>5, <2>1, <3>3 DEF RetryStep
    <2>2. CASE End(r, "unknown_node")
      BY <1>1, <2>2 DEF End
    <2> QED
      BY <1>5, <2>1, <2>2 DEF RetryStep
  <1>6. CASE SkipStep(r)
    <2>1. [status[r] EXCEPT ![current[r]] = "skipped"] \in [DOMAIN plan[r] -> Status]
      BY <1>1, <1>2, <1>6 DEF SkipStep, Status
    <2> QED
      BY <1>1, <1>6, <2>1, LoopHeadShows DEF SkipStep
  <1>7. CASE PlannerAnswers(r)
    <2>1. PICK new \in Proposals :
            LET p == ReplannedPlan(plan[r], status[r], new)
                st == ReplannedStatus(status[r], new)
            IN LoopHead(r, p, st) \/ End(r, "invalid_plan")
      BY <1>7 DEF PlannerAnswers
    <2> DEFINE p == ReplannedPlan(plan[r], status[r], new)
               st == ReplannedStatus(status[r], new)
    <2>2. IsPlan(p) /\ st \in [DOMAIN p -> Status]
      BY <1>1, ProposalsAssumption, ReplanKeepsFinished
    <2>3. CASE LoopHead(r, p, st)
      <3> HIDE DEF p, st
      <3> QED
        BY <1>1, <2>2, <2>3, LoopHeadShows
    <2>4. CASE End(r, "invalid_plan")
      BY <1>1, <2>4 DEF End
    <2> QED
      BY <2>1, <2>3, <2>4
  <1>8. CASE CompressorFails(r) \/ GiveUpStep(r) \/ Replan(r) \/ PlannerFails(r)
    BY <1>1, <1>8 DEF CompressorFails, GiveUpStep, Replan, PlannerFails, End, Suspend
  <1> QED
    BY <1>3, <1>4, <1>5, <1>6, <1>7, <1>8 DEF CallStep

\* A call that has taken a step has begun.
LEMMA CallStepBegins ==
    ASSUME IInv, NEW r \in Runs, CallStep(r)
    PROVE  pc'[r] # "idle"
  <1>1. /\ TypeOK /\ IsPlan(plan[r]) /\ status[r] \in [DOMAIN plan[r] -> Status]
        /\ DOMAIN pc = Runs
    BY DEF IInv, TypeOK
  <1>2. pc[r] = "tool" => current[r] \in DOMAIN plan[r]
    BY DEF IInv, CallInv
  <1>3. CASE Execute(r) \/ Compressed(r)
    BY <1>1, <1>3, LoopHeadShows DEF Execute, Compressed
  <1>4. CASE SkipStep(r)
    <2>1. [status[r] EXCEPT ![current[r]] = "skipped"] \in [DOMAIN plan[r] -> Status]
      BY <1>1, <1>2, <1>4 DEF SkipStep, Status
    <2> QED
      BY <1>1, <1>4, <2>1, LoopHeadShows DEF SkipStep
  <1>5. CASE PlannerAnswers(r)
    <2>1. PICK new \in Proposals :
            LET p == ReplannedPlan(plan[r], status[r], new)
                st == ReplannedStatus(status[r], new)
            IN LoopHead(r, p, st) \/ End(r, "invalid_plan")
      BY <1>5 DEF PlannerAnswers
    <2> DEFINE p == ReplannedPlan(plan[r], status[r], new)
               st == ReplannedStatus(status[r], new)
    <2>2. IsPlan(p) /\ st \in [DOMAIN p -> Status]
      BY <1>1, ProposalsAssumption, ReplanKeepsFinished
    <2>3. CASE LoopHead(r, p, st)
      <3> HIDE DEF p, st
      <3> QED
        BY <1>1, <2>2, <2>3, LoopHeadShows
    <2>4. CASE End(r, "invalid_plan")
      BY <1>1, <2>4 DEF End
    <2> QED
      BY <2>1, <2>3, <2>4
  <1>6. CASE RetryStep(r)
    BY <1>1, <1>6 DEF RetryStep, End, controlVars
  <1>7. CASE \/ ToolSucceeds(r) \/ CompressorFails(r) \/ GiveUpStep(r) \/ Replan(r)
             \/ PlannerFails(r)
    BY <1>1, <1>7 DEF ToolSucceeds, CompressorFails, GiveUpStep, Replan, PlannerFails,
                      End, Suspend
  <1> QED
    BY <1>3, <1>4, <1>5, <1>6, <1>7 DEF CallStep

\* GraphFollowsCall is inductive relative to IInv.
LEMMA NextKeepsGraph == IInv /\ GraphFollowsCall /\ [Next]_vars => GraphFollowsCall'
  <1> SUFFICES ASSUME IInv, GraphFollowsCall, [Next]_vars
               PROVE  GraphFollowsCall'
    OBVIOUS
  <1>1. CASE UNCHANGED vars
    BY <1>1 DEF GraphFollowsCall, Alone, GraphOf, vars, stateVars, controlVars
  <1>2. ASSUME NEW r \in Runs, CallStep(r), UNCHANGED policy
        PROVE  GraphFollowsCall'
    <2>1. OthersAsBefore(r) /\ pc'[r] # "idle"
      BY <1>2, CallStepKeepsInv, CallStepBegins DEF IInv, StepKeepsInv
    <2> SUFFICES ASSUME NEW q \in Runs, Alone(q)', pc'[q] \in {"tool", "compress"}
                 PROVE  graph' = Shown(q, plan'[q], status'[q], current'[q])
      BY DEF GraphFollowsCall, Shown, GraphOf
    <2>2. q = r
      BY <2>1 DEF Alone
    <2>3. Alone(r)
      BY <2>1, <2>2 DEF Alone, OthersAsBefore
    <2>4. pc[r] = "tool" => graph = Shown(r, plan[r], status[r], current[r])
      BY <2>3 DEF GraphFollowsCall, Shown
    <2> QED
      BY <1>2, <2>2, <2>4, CallStepShows
  <1> QED
    BY <1>1, <1>2 DEF Next, Done

\* GraphFollowsCall: as long as one call is the only one so far, the executor's
\* graph is that call's at each of its awaits, for every plan and policy.
THEOREM GraphAlwaysFollowsCall == Spec => []GraphFollowsCall
  <1>1. Init => GraphFollowsCall
    BY DEF Init, GraphFollowsCall
  <1> QED
    BY <1>1, Invariance, NextKeepsGraph, PTL DEF Spec

-----------------------------------------------------------------------------
(***************************************************************************)
(* Counts.                                                                 *)
(***************************************************************************)
LEMMA CountedElements ==
    ASSUME NEW S, NEW f \in [S -> Nat]
    PROVE  \A e : e \in Counted(f)
                    <=> \E r \in S, n \in Nat : e = <<r, n>> /\ 1 <= n /\ n <= f[r]
  <1> TAKE e
  <1>1. ASSUME NEW r \in S
        PROVE  e \in {r} \X (1..f[r])
                 <=> \E n \in Nat : e = <<r, n>> /\ 1 <= n /\ n <= f[r]
    <2>1. f[r] \in Nat
      OBVIOUS
    <2> QED
      BY <2>1
  <1>2. e \in Counted(f) <=> \E r \in S : e \in {r} \X (1..f[r])
    BY DEF Counted
  <1> QED
    BY <1>1, <1>2

LEMMA CountOneMore ==
    ASSUME NEW S, NEW f \in [S -> Nat], NEW r \in S, IsFiniteSet(Counted(f))
    PROVE  LET g == [f EXCEPT ![r] = @ + 1]
           IN /\ g \in [S -> Nat] /\ IsFiniteSet(Counted(g))
              /\ Total(g) = Total(f) + 1
  <1> DEFINE g == [f EXCEPT ![r] = @ + 1]
             e == <<r, f[r] + 1>>
  <1>1. /\ g \in [S -> Nat] /\ g[r] = f[r] + 1 /\ f[r] \in Nat
        /\ \A q \in S \ {r} : g[q] = f[q]
    OBVIOUS
  <1> HIDE DEF g
  <1>2. e \notin Counted(f)
    BY <1>1, CountedElements
  <1>3. ASSUME NEW q \in S, NEW n \in Nat
        PROVE  1 <= n /\ n <= g[q] <=> (1 <= n /\ n <= f[q]) \/ (q = r /\ n = f[r] + 1)
    <2>1. f[q] \in Nat
      OBVIOUS
    <2> QED
      BY <1>1, <2>1
  <1>4. Counted(g) = Counted(f) \cup {e}
    <2>1. ASSUME NEW x \in Counted(g)
          PROVE  x \in Counted(f) \cup {e}
      BY <1>1, <1>3, CountedElements
    <2>2. ASSUME NEW x \in Counted(f)
          PROVE  x \in Counted(g)
      BY <1>1, <1>3, CountedElements
    <2>3. e \in Counted(g)
      BY <1>1, CountedElements
    <2> QED
      BY <2>1, <2>2, <2>3
  <1>5. IsFiniteSet(Counted(g)) /\ Total(g) = Total(f) + 1
    BY <1>2, <1>4, FS_AddElement DEF Total
  <1> QED
    BY <1>1, <1>5 DEF g

LEMMA CountsAreMonotone ==
    ASSUME NEW S, NEW f \in [S -> Nat], NEW g \in [S -> Nat],
           IsFiniteSet(Counted(g)), \A r \in S : f[r] <= g[r]
    PROVE  IsFiniteSet(Counted(f)) /\ Total(f) \in Nat /\ Total(f) <= Total(g)
                                   /\ Total(g) \in Nat
  <1>1. ASSUME NEW x \in Counted(f)
        PROVE  x \in Counted(g)
    <2>1. PICK r \in S, n \in Nat : x = <<r, n>> /\ 1 <= n /\ n <= f[r]
      BY CountedElements
    <2>2. n <= g[r]
      <3>1. f[r] \in Nat /\ g[r] \in Nat /\ f[r] <= g[r]
        OBVIOUS
      <3> QED
        BY <2>1, <3>1
    <2> QED
      BY <2>1, <2>2, CountedElements
  <1> QED
    BY <1>1, FS_Subset, FS_CardinalityType DEF Total

LEMMA NothingCounted ==
    ASSUME NEW S
    PROVE  LET f == [r \in S |-> 0] IN IsFiniteSet(Counted(f)) /\ Total(f) = 0
  <1> DEFINE f == [r \in S |-> 0]
  <1>1. f \in [S -> Nat] /\ \A r \in S : f[r] = 0
    OBVIOUS
  <1> HIDE DEF f
  <1>2. Counted(f) = {}
    BY <1>1, CountedElements
  <1>3. IsFiniteSet(Counted(f)) /\ Total(f) = 0
    BY <1>2, FS_EmptySet DEF Total
  <1> QED
    BY <1>3 DEF f

\* When only r counts, the total is its count.
LEMMA CountOfOne ==
    ASSUME NEW S, NEW f \in [S -> Nat], NEW r \in S, \A q \in S \ {r} : f[q] = 0
    PROVE  Total(f) = f[r]
  <1> DEFINE nums == 1..f[r]
             b == [n \in nums |-> <<r, n>>]
  <1>1. f[r] \in Nat
    OBVIOUS
  <1>2. IsFiniteSet(nums) /\ Cardinality(nums) = f[r]
    BY <1>1, FS_Interval
  <1>3. \A x : x \in Counted(f) <=> \E n \in nums : x = <<r, n>>
    <2> TAKE x
    <2>1. ASSUME x \in Counted(f)
          PROVE  \E n \in nums : x = <<r, n>>
      <3>1. PICK q \in S, n \in Nat : x = <<q, n>> /\ 1 <= n /\ n <= f[q]
        BY <2>1, CountedElements
      <3>2. q = r
        BY <3>1
      <3> QED
        BY <1>1, <3>1, <3>2
    <2>2. ASSUME NEW n \in nums, x = <<r, n>>
          PROVE  x \in Counted(f)
      <3>1. n \in Nat /\ 1 <= n /\ n <= f[r]
        BY <1>1
      <3> QED
        BY <2>2, <3>1, CountedElements
    <2> QED
      BY <2>1, <2>2
  <1>4. b \in Bijection(nums, Counted(f))
    <2> HIDE DEF nums
    <2>1. b \in [nums -> Counted(f)]
      BY <1>3
    <2>2. \A m, n \in nums : b[m] = b[n] => m = n
      OBVIOUS
    <2>3. \A x \in Counted(f) : \E n \in nums : b[n] = x
      BY <1>3
    <2> QED
      BY <2>1, <2>2, <2>3 DEF Bijection, Injection, Surjection, IsInjective
  <1>5. Cardinality(Counted(f)) = Cardinality(nums)
    BY <1>2, <1>4, FS_Bijection DEF ExistsBijection
  <1> QED
    BY <1>2, <1>5 DEF Total
-----------------------------------------------------------------------------
(***************************************************************************)
(* The budgets.  An attempt at a tool is one of those allowed; the         *)
(* executor has counted the replans of all calls, and refuses one only     *)
(* when it has counted as many as it may.                                  *)
(***************************************************************************)
CallBudget(r) ==
    /\ pc[r] = "tool" => attempt[r] \in 1..MaxAttempts
    /\ pc[r] = "idle" => replans[r] = 0
    /\ outcome[r] = "step_failed" => attempt[r] = MaxAttempts
    /\ outcome[r] = "replan_budget" => replanAttempts = MaxReplanAttempts

Counts ==
    /\ IsFiniteSet(Counted(replans))
    /\ Total(replans) = replanAttempts
    /\ replanAttempts <= MaxReplanAttempts

BudgetInv == Counts /\ \A r \in Runs : CallBudget(r)

LEMMA MaxAttemptsType == MaxAttempts \in Nat \ {0}
  BY BudgetAssumption DEF MaxAttempts

\* The loop starts a step with its first attempt, and ends no call for a budget.
LEMMA LoopHeadBudget ==
    ASSUME TypeOK, NEW r \in Runs, NEW p, NEW st, LoopHead(r, p, st), outcome[r] = "none"
    PROVE  /\ pc'[r] = "tool" => attempt'[r] = 1
           /\ pc'[r] # "idle"
           /\ outcome'[r] \notin {"step_failed", "replan_budget"}
  BY DEF TypeOK, LoopHead, StartStep, SetState, End, Suspend

LEMMA CallStepBudget ==
    ASSUME IInv, BudgetInv, NEW r \in Runs, CallStep(r), UNCHANGED policy
    PROVE  /\ Counts'
           /\ CallBudget(r)'
           /\ \A q \in Runs \ {r} : replans'[q] = replans[q]
           /\ replanAttempts # MaxReplanAttempts \/ replanAttempts' = replanAttempts
  <1>1. /\ TypeOK /\ Counts /\ CallBudget(r)
        /\ replans \in [Runs -> Nat] /\ replanAttempts \in Nat
        /\ attempt \in [Runs -> Nat] /\ DOMAIN pc = Runs /\ DOMAIN outcome = Runs
    BY DEF IInv, BudgetInv, TypeOK
  <1>2. pc[r] # "ended" => outcome[r] = "none"
    BY DEF IInv, CallInv
  <1>3. MaxAttempts \in Nat \ {0} /\ MaxAttempts' = MaxAttempts
    BY MaxAttemptsType DEF MaxAttempts
  <1>4. pc'[r] # "idle"
    BY CallStepBegins
  <1>5. CASE UNCHANGED replanVars
    <2>1. Counts' /\ UNCHANGED <<replans, replanAttempts>>
      BY <1>1, <1>5 DEF Counts, Counted, Total, replanVars
    <2>2. CASE \/ Execute(r) \/ Compressed(r) \/ SkipStep(r)
               \/ PlannerAnswers(r) /\ ~End(r, "invalid_plan")
      <3>1. outcome[r] = "none" /\ \E p, st : LoopHead(r, p, st)
        BY <1>2, <2>2 DEF Execute, Compressed, SkipStep, PlannerAnswers
      <3>2. /\ pc'[r] = "tool" => attempt'[r] = 1
            /\ outcome'[r] \notin {"step_failed", "replan_budget"}
        BY <1>1, <3>1, LoopHeadBudget
      <3> QED
        BY <1>3, <1>4, <2>1, <3>2 DEF CallBudget
    <2>3. CASE \/ ToolSucceeds(r) \/ CompressorFails(r) \/ PlannerFails(r)
               \/ End(r, "invalid_plan")
      <3>1. /\ pc'[r] # "tool"
            /\ outcome'[r] \notin {"step_failed", "replan_budget"}
        BY <1>1, <1>2, <2>3 DEF ToolSucceeds, CompressorFails, PlannerFails, End, Suspend
      <3> QED
        BY <1>4, <2>1, <3>1 DEF CallBudget
    <2>4. CASE RetryStep(r)
      <3>1. CASE attempt' = [attempt EXCEPT ![r] = @ + 1] /\ UNCHANGED controlVars
        <4>1. attempt'[r] = attempt[r] + 1 /\ attempt[r] < MaxAttempts /\ attempt[r] \in Nat
          BY <1>1, <2>4, <3>1 DEF RetryStep
        <4>2. pc'[r] = "tool" /\ outcome'[r] = "none"
          BY <1>2, <2>4, <3>1 DEF RetryStep, controlVars
        <4> QED
          BY <1>3, <2>1, <4>1, <4>2 DEF CallBudget
      <3>2. CASE End(r, "unknown_node")
        BY <1>1, <2>1, <3>2 DEF End, CallBudget
      <3> QED
        BY <2>4, <3>1, <3>2 DEF RetryStep
    <2>5. CASE GiveUpStep(r)
      <3>1. /\ attempt'[r] = attempt[r] /\ attempt[r] >= MaxAttempts
            /\ attempt[r] \in 1..MaxAttempts
            /\ pc'[r] = "ended" /\ outcome'[r] = "step_failed"
        BY <1>1, <2>5 DEF GiveUpStep, End, CallBudget
      <3> QED
        BY <1>3, <2>1, <3>1 DEF CallBudget
    <2>6. CASE Replan(r)
      <3>1. replanAttempts >= MaxReplanAttempts /\ End(r, "replan_budget")
        <4>1. replanAttempts + 1 # replanAttempts
          BY <1>1
        <4> QED
          BY <1>5, <2>6, <4>1 DEF Replan, replanVars
      <3>2. replanAttempts = MaxReplanAttempts
        BY <1>1, <3>1, BudgetAssumption DEF Counts
      <3> QED
        BY <1>1, <2>1, <3>1, <3>2 DEF CallBudget, End
    <2> QED
      BY <2>1, <2>2, <2>3, <2>4, <2>5, <2>6 DEF CallStep
  <1>6. CASE ~UNCHANGED replanVars
    <2>1. /\ pc[r] = "tool" /\ replanAttempts < MaxReplanAttempts
          /\ replanAttempts' = replanAttempts + 1
          /\ replans' = [replans EXCEPT ![r] = @ + 1]
          /\ Suspend(r, "planner")
      BY <1>6 DEF CallStep, Execute, ToolSucceeds, Compressed, CompressorFails, RetryStep,
                  GiveUpStep, SkipStep, Replan, PlannerAnswers, PlannerFails
    <2>2. IsFiniteSet(Counted(replans)) /\ Total(replans) = replanAttempts
      BY <1>1 DEF Counts
    <2>3. IsFiniteSet(Counted(replans')) /\ Total(replans') = replanAttempts'
      BY <1>1, <2>1, <2>2, CountOneMore
    <2>4. replanAttempts' <= MaxReplanAttempts /\ replanAttempts # MaxReplanAttempts
      BY <1>1, <2>1, BudgetAssumption
    <2>5. Counts'
      BY <2>3, <2>4 DEF Counts, Counted, Total
    <2>6. pc'[r] = "planner" /\ outcome'[r] = "none"
      BY <1>1, <1>2, <2>1 DEF Suspend
    <2> QED
      BY <1>1, <2>1, <2>4, <2>5, <2>6 DEF CallBudget
  <1> QED
    BY <1>5, <1>6

LEMMA NextKeepsBudget == IInv /\ BudgetInv /\ [Next]_vars => BudgetInv'
  <1> SUFFICES ASSUME IInv, BudgetInv, [Next]_vars
               PROVE  BudgetInv'
    OBVIOUS
  <1>1. CASE UNCHANGED vars
    BY <1>1 DEF BudgetInv, Counts, Counted, Total, CallBudget, MaxAttempts, vars, stateVars,
                controlVars, replanVars
  <1>2. ASSUME NEW r \in Runs, CallStep(r), UNCHANGED policy
        PROVE  BudgetInv'
    <2>1. /\ Counts' /\ CallBudget(r)'
          /\ \A q \in Runs \ {r} : replans'[q] = replans[q]
          /\ replanAttempts # MaxReplanAttempts \/ replanAttempts' = replanAttempts
      BY <1>2, CallStepBudget
    <2>2. OthersAsBefore(r)
      BY <1>2, CallStepKeepsInv DEF IInv, StepKeepsInv
    <2>3. \A q \in Runs \ {r} : CallBudget(q)'
      BY <1>2, <2>1, <2>2 DEF BudgetInv, CallBudget, OthersAsBefore, MaxAttempts
    <2> QED
      BY <2>1, <2>3 DEF BudgetInv
  <1> QED
    BY <1>1, <1>2 DEF Next, Done

LEMMA BudgetInvImpliesBudgets == IInv /\ BudgetInv => ProcessBudgets
  <1> SUFFICES ASSUME IInv, BudgetInv, NEW r \in Runs
               PROVE  /\ outcome[r] = "step_failed" => attempt[r] = MaxAttempts
                      /\ outcome[r] = "replan_budget" => Total(replans) = MaxReplanAttempts
                      /\ Alone(r) => Total(replans) = replans[r]
    BY DEF ProcessBudgets
  <1>1. CallBudget(r) /\ Counts
    BY DEF BudgetInv
  <1>2. ASSUME Alone(r)
        PROVE  Total(replans) = replans[r]
    <2>1. replans \in [Runs -> Nat]
      BY DEF IInv, TypeOK
    <2>2. \A q \in Runs \ {r} : replans[q] = 0
      BY <1>2 DEF Alone, BudgetInv, CallBudget
    <2> QED
      BY <2>1, <2>2, CountOfOne
  <1> QED
    BY <1>1, <1>2 DEF CallBudget, Counts

LEMMA InitBudgetInv == Init => BudgetInv
  <1> SUFFICES ASSUME Init
               PROVE  BudgetInv
    OBVIOUS
  <1>1. replans = [r \in Runs |-> 0] /\ replanAttempts = 0
    BY DEF Init
  <1>2. Counts
    BY <1>1, NothingCounted, BudgetAssumption DEF Counts
  <1> QED
    BY <1>2 DEF Init, BudgetInv, CallBudget

\* ProcessBudgets: for any number of calls, a step is given up after every attempt
\* that the policy allows, and a replan is refused only when the calls together made
\* as many as the executor may; the first call has the whole budget for itself.
THEOREM BudgetsOfTheProcess == Spec => []ProcessBudgets
  BY Invariance, InitBudgetInv, NextKeepsBudget, BudgetInvImpliesBudgets, PTL DEF Spec

-----------------------------------------------------------------------------
(***************************************************************************)
(* What is left to do for a call, in the order of weight: the replans that *)
(* the executor may still make, an answer of the planner, the steps that   *)
(* are not finished, and the tries at the current one.  Every step of the  *)
(* call leaves less, in an order in which nothing decreases for ever.      *)
(***************************************************************************)
OpenSteps(st) == Cardinality({i \in DOMAIN st : st[i] \notin FinishedStatus})

TriesLeft(r) == CASE pc[r] = "ended" -> 0
                  [] pc[r] = "tool" -> 1 + MaxAttempts - attempt[r]
                  [] OTHER -> 1 + MaxAttempts

Left(r) ==
    [k \in 1..4 |-> CASE k = 1 -> MaxReplanAttempts - replanAttempts
                      [] k = 2 -> IF pc[r] = "planner" THEN 1 ELSE 0
                      [] k = 3 -> OpenSteps(status[r])
                      [] k = 4 -> TriesLeft(r)]

Lexicographic == LexProductOrdering(OpToRel(<, Nat), Nat, 4)

LeavesLess(r) == <<Left(r)', Left(r)>> \in Lexicographic

LEMMA LexicographicIsWellFounded == IsWellFoundedOn(Lexicographic, [1..4 -> Nat])
  BY NatLessThanWellFounded, WFLexProductOrdering DEF Lexicographic

LEMMA LexicographicallyLess ==
    ASSUME NEW a \in [1..4 -> Nat], NEW b \in [1..4 -> Nat], NEW k \in 1..4,
           \A j \in 1..(k - 1) : a[j] = b[j], a[k] < b[k]
    PROVE  <<a, b>> \in Lexicographic
  <1>1. a[k] \in Nat /\ b[k] \in Nat
    OBVIOUS
  <1>2. <<a[k], b[k]>> \in OpToRel(<, Nat)
    BY <1>1 DEF OpToRel
  <1> HIDE DEF OpToRel
  <1> QED
    BY <1>2 DEF Lexicographic, LexProductOrdering

\* Setting a step that is not finished.
LEMMA SettingLeavesSteps ==
    ASSUME NEW st, IsFiniteSet(DOMAIN st), NEW i \in DOMAIN st, st[i] \notin FinishedStatus, NEW s
    PROVE  LET sq == [st EXCEPT ![i] = s]
           IN /\ OpenSteps(st) \in Nat /\ OpenSteps(sq) \in Nat
              /\ s \in FinishedStatus => OpenSteps(sq) < OpenSteps(st)
              /\ s \notin FinishedStatus => OpenSteps(sq) = OpenSteps(st)
  <1> DEFINE sq == [st EXCEPT ![i] = s]
             open == {j \in DOMAIN st : st[j] \notin FinishedStatus}
             openq == {j \in DOMAIN sq : sq[j] \notin FinishedStatus}
  <1>1. DOMAIN sq = DOMAIN st /\ sq[i] = s /\ \A j \in DOMAIN st \ {i} : sq[j] = st[j]
    OBVIOUS
  <1>2. open \in SUBSET DOMAIN st /\ IsFiniteSet(open) /\ Cardinality(open) \in Nat
    BY FS_Subset, FS_CardinalityType
  <1>3. i \in open
    OBVIOUS
  <1> HIDE DEF sq
  <1>4. CASE s \in FinishedStatus
    <2>1. openq = open \ {i}
      BY <1>1, <1>4
    <2>2. IsFiniteSet(openq) /\ Cardinality(openq) = Cardinality(open) - 1
      <3> HIDE DEF open, openq
      <3> QED
        BY <1>2, <1>3, <2>1, FS_RemoveElement
    <2>3. Cardinality(openq) \in Nat /\ Cardinality(openq) < Cardinality(open)
      <3> HIDE DEF open, openq
      <3> QED
        BY <1>2, <2>2, FS_CardinalityType
    <2> QED
      BY <1>2, <1>4, <2>3 DEF OpenSteps, sq
  <1>5. CASE s \notin FinishedStatus
    <2>1. openq = open
      BY <1>1, <1>5
    <2> QED
      BY <1>2, <1>5, <2>1 DEF OpenSteps, sq
  <1> QED
    BY <1>4, <1>5

\* A turn of the loop, on statuses which leave as much or less to do.
LEMMA LoopHeadLeaves ==
    ASSUME TypeOK, NEW r \in Runs, NEW p, NEW st, IsPlan(p), st \in [DOMAIN p -> Status],
           LoopHead(r, p, st)
    PROVE  /\ pc'[r] \in {"tool", "compress", "ended"}
           /\ pc'[r] = "tool" => attempt'[r] = 1 /\ OpenSteps(status'[r]) = OpenSteps(st)
           /\ pc'[r] = "compress" => OpenSteps(status'[r]) < OpenSteps(st)
           /\ pc'[r] = "ended" => OpenSteps(status'[r]) = OpenSteps(st)
           /\ OpenSteps(status'[r]) \in Nat /\ OpenSteps(st) \in Nat
  <1>1. DOMAIN status = Runs /\ DOMAIN pc = Runs /\ DOMAIN attempt = Runs
    BY DEF TypeOK
  <1>2. IsFiniteSet(DOMAIN st) /\ DOMAIN st = DOMAIN p /\ OpenSteps(st) \in Nat
    <2>1. IsFiniteSet(DOMAIN st) /\ DOMAIN st = DOMAIN p
      BY DEF IsPlan
    <2>2. {i \in DOMAIN st : st[i] \notin FinishedStatus} \in SUBSET DOMAIN st
      OBVIOUS
    <2> QED
      BY <2>1, <2>2, FS_Subset, FS_CardinalityType DEF OpenSteps
  <1>3. CASE \E o : SetState(r, p, st, 0, 0) /\ End(r, o)
    <2>1. status'[r] = st /\ pc'[r] = "ended"
      BY <1>1, <1>3 DEF SetState, End
    <2> QED
      BY <1>2, <2>1
  <1>4. ASSUME NEW i \in DOMAIN p, IsNextExecutable(p, st, i), StartStep(r, p, st, i)
        PROVE  \E s : /\ status'[r] = [st EXCEPT ![i] = s] /\ attempt'[r] = 1
                      /\ st[i] \notin FinishedStatus
                      /\ \/ s = "running" /\ pc'[r] = "tool"
                         \/ s \in FinishedStatus /\ pc'[r] = "compress"
    <2>1. st[i] \notin FinishedStatus
      BY <1>4 DEF IsNextExecutable, Executable, FinishedStatus
    <2>2. PICK s, w : /\ SetState(r, p, [st EXCEPT ![i] = s], i, 1) /\ Suspend(r, w)
                      /\ \/ s = "running" /\ w = "tool"
                         \/ s \in FinishedStatus /\ w = "compress"
      BY <1>4 DEF StartStep, FinishedStatus
    <2>3. status'[r] = [st EXCEPT ![i] = s] /\ attempt'[r] = 1 /\ pc'[r] = w
      BY <1>1, <2>2 DEF SetState, Suspend
    <2> QED
      BY <2>1, <2>2, <2>3
  <1>5. CASE \E i \in DOMAIN p : IsNextExecutable(p, st, i) /\ StartStep(r, p, st, i)
    <2> PICK i \in DOMAIN p : IsNextExecutable(p, st, i) /\ StartStep(r, p, st, i)
      BY <1>5
    <2>1. PICK s : /\ status'[r] = [st EXCEPT ![i] = s] /\ attempt'[r] = 1
                   /\ st[i] \notin FinishedStatus
                   /\ \/ s = "running" /\ pc'[r] = "tool"
                      \/ s \in FinishedStatus /\ pc'[r] = "compress"
      BY <1>4
    <2>2. /\ OpenSteps(status'[r]) \in Nat
          /\ s \in FinishedStatus => OpenSteps(status'[r]) < OpenSteps(st)
          /\ s \notin FinishedStatus => OpenSteps(status'[r]) = OpenSteps(st)
      <3> DEFINE sq == [st EXCEPT ![i] = s]
      <3>1. i \in DOMAIN st /\ st[i] \notin FinishedStatus /\ status'[r] = sq
        BY <1>2, <2>1
      <3>2. /\ OpenSteps(sq) \in Nat
            /\ s \in FinishedStatus => OpenSteps(sq) < OpenSteps(st)
            /\ s \notin FinishedStatus => OpenSteps(sq) = OpenSteps(st)
        BY <1>2, <3>1, SettingLeavesSteps
      <3> QED
        BY <3>1, <3>2
    <2>3. "running" \notin FinishedStatus
      BY DEF FinishedStatus
    <2> QED
      BY <1>2, <2>1, <2>2, <2>3
  <1> QED
    BY <1>3, <1>5 DEF LoopHead

\* The four numbers.
LeftFits(r) ==
    /\ Left(r) \in [1..4 -> Nat]
    /\ Left(r)[1] = MaxReplanAttempts - replanAttempts
    /\ Left(r)[2] = (IF pc[r] = "planner" THEN 1 ELSE 0)
    /\ Left(r)[3] = OpenSteps(status[r])
    /\ Left(r)[4] = TriesLeft(r)
    /\ pc[r] = "ended" => TriesLeft(r) = 0
    /\ pc[r] # "ended" => TriesLeft(r) > 0
    /\ pc[r] \in {"idle", "compress"} => TriesLeft(r) = 1 + MaxAttempts
    /\ pc[r] = "tool" => TriesLeft(r) = 1 + MaxAttempts - attempt[r]

AllLeftFit == \A r \in Runs : LeftFits(r)

LEMMA LeftType == IInv /\ BudgetInv => AllLeftFit
  <1> SUFFICES ASSUME IInv, BudgetInv, NEW r \in Runs
               PROVE  LeftFits(r)
    BY DEF AllLeftFit
  <1>1. MaxReplanAttempts - replanAttempts \in Nat
    BY BudgetAssumption DEF IInv, TypeOK, BudgetInv, Counts
  <1>2. OpenSteps(status[r]) \in Nat
    <2>1. IsFiniteSet(DOMAIN status[r])
      BY DEF IInv, TypeOK, IsPlan
    <2>2. {i \in DOMAIN status[r] : status[r][i] \notin FinishedStatus} \in SUBSET DOMAIN status[r]
      OBVIOUS
    <2> QED
      BY <2>1, <2>2, FS_Subset, FS_CardinalityType DEF OpenSteps
  <1>3. MaxAttempts \in Nat \ {0}
    BY MaxAttemptsType
  <1>4. pc[r] = "tool" => attempt[r] \in 1..MaxAttempts
    BY DEF BudgetInv, CallBudget
  <1> HIDE DEF MaxAttempts
  <1>5. /\ TriesLeft(r) \in Nat
        /\ pc[r] = "ended" => TriesLeft(r) = 0
        /\ pc[r] # "ended" => TriesLeft(r) > 0
        /\ pc[r] \in {"idle", "compress"} => TriesLeft(r) = 1 + MaxAttempts
        /\ pc[r] = "tool" => TriesLeft(r) = 1 + MaxAttempts - attempt[r]
    BY <1>3, <1>4 DEF TriesLeft
  <1>6. /\ Left(r)[1] = MaxReplanAttempts - replanAttempts
        /\ Left(r)[2] = (IF pc[r] = "planner" THEN 1 ELSE 0)
        /\ Left(r)[3] = OpenSteps(status[r])
        /\ Left(r)[4] = TriesLeft(r)
    BY DEF Left
  <1>7. \A k \in 1..4 : k = 1 \/ k = 2 \/ k = 3 \/ k = 4
    OBVIOUS
  <1>8. Left(r) = [k \in 1..4 |-> Left(r)[k]]
    BY DEF Left
  <1>9. \A k \in 1..4 : Left(r)[k] \in Nat
    BY <1>1, <1>2, <1>5, <1>6, <1>7
  <1>10. Left(r) \in [1..4 -> Nat]
    BY <1>8, <1>9
  <1> QED
    BY <1>5, <1>6, <1>10 DEF LeftFits

\* Less is left: of one of the four, and the same of those before it.
LEMMA LessIsLeft ==
    ASSUME IInv, BudgetInv, IInv', BudgetInv', UNCHANGED policy, NEW r \in Runs,
           \/ replanAttempts' > replanAttempts
           \/ /\ replanAttempts' = replanAttempts
              /\ \/ pc[r] = "planner" /\ pc'[r] # "planner"
                 \/ /\ pc[r] # "planner" /\ pc'[r] # "planner"
                    /\ \/ OpenSteps(status'[r]) < OpenSteps(status[r])
                       \/ /\ OpenSteps(status'[r]) = OpenSteps(status[r])
                          /\ \/ pc[r] # "ended" /\ pc'[r] = "ended"
                             \/ /\ pc[r] \in {"idle", "compress"}
                                /\ pc'[r] = "tool" /\ attempt'[r] = 1
                             \/ /\ pc[r] = "tool" /\ pc'[r] = "tool"
                                /\ attempt'[r] = attempt[r] + 1
    PROVE  LeavesLess(r)
  <1>1. AllLeftFit /\ AllLeftFit'
    BY LeftType, PTL
  <1>2. LeftFits(r) /\ LeftFits(r)'
    BY <1>1 DEF AllLeftFit
  <1> DEFINE now == Left(r)
             next == Left(r)'
  <1>3. /\ now \in [1..4 -> Nat] /\ next \in [1..4 -> Nat]
        /\ now[1] = MaxReplanAttempts - replanAttempts
        /\ next[1] = MaxReplanAttempts - replanAttempts'
        /\ now[2] = (IF pc[r] = "planner" THEN 1 ELSE 0)
        /\ next[2] = (IF pc'[r] = "planner" THEN 1 ELSE 0)
        /\ now[3] = OpenSteps(status[r]) /\ next[3] = OpenSteps(status'[r])
        /\ now[4] = TriesLeft(r) /\ next[4] = TriesLeft(r)'
    BY <1>2 DEF LeftFits
  <1>4. LeavesLess(r) <=> <<next, now>> \in Lexicographic
    BY DEF LeavesLess
  <1>5. MaxAttempts \in Nat \ {0} /\ MaxAttempts' = MaxAttempts
    BY MaxAttemptsType DEF MaxAttempts
  <1>6. /\ replanAttempts \in Nat /\ replanAttempts' \in Nat /\ MaxReplanAttempts \in Nat
        /\ attempt[r] \in Nat /\ attempt'[r] \in Nat
    BY BudgetAssumption DEF IInv, TypeOK
  <1>7. /\ pc'[r] = "ended" => TriesLeft(r)' = 0
        /\ pc[r] # "ended" => TriesLeft(r) > 0
        /\ pc[r] \in {"idle", "compress"} => TriesLeft(r) = 1 + MaxAttempts
        /\ pc[r] = "tool" => TriesLeft(r) = 1 + MaxAttempts - attempt[r]
        /\ pc'[r] = "tool" => TriesLeft(r)' = 1 + MaxAttempts - attempt'[r]
    BY <1>2, <1>5 DEF LeftFits
  <1> HIDE DEF now, next
  <1>8. CASE replanAttempts' > replanAttempts
    <2>1. next[1] < now[1] /\ \A j \in 1..(1 - 1) : next[j] = now[j]
      BY <1>3, <1>6, <1>8
    <2> QED
      BY <1>3, <1>4, <2>1, LexicographicallyLess
  <1>9. CASE replanAttempts' = replanAttempts /\ pc[r] = "planner" /\ pc'[r] # "planner"
    <2>1. next[2] < now[2] /\ \A j \in 1..(2 - 1) : next[j] = now[j]
      BY <1>3, <1>9
    <2> QED
      BY <1>3, <1>4, <2>1, LexicographicallyLess
  <1>10. CASE /\ replanAttempts' = replanAttempts /\ pc[r] # "planner" /\ pc'[r] # "planner"
              /\ OpenSteps(status'[r]) < OpenSteps(status[r])
    <2>1. next[3] < now[3] /\ \A j \in 1..(3 - 1) : next[j] = now[j]
      BY <1>3, <1>10
    <2> QED
      BY <1>3, <1>4, <2>1, LexicographicallyLess
  <1>11. CASE /\ replanAttempts' = replanAttempts /\ pc[r] # "planner" /\ pc'[r] # "planner"
              /\ OpenSteps(status'[r]) = OpenSteps(status[r])
              /\ TriesLeft(r)' < TriesLeft(r)
    <2>1. next[4] < now[4] /\ \A j \in 1..(4 - 1) : next[j] = now[j]
      BY <1>3, <1>11
    <2> QED
      BY <1>3, <1>4, <2>1, LexicographicallyLess
  <1>12. \/ pc[r] # "ended" /\ pc'[r] = "ended"
         \/ pc[r] \in {"idle", "compress"} /\ pc'[r] = "tool" /\ attempt'[r] = 1
         \/ pc[r] = "tool" /\ pc'[r] = "tool" /\ attempt'[r] = attempt[r] + 1
         => TriesLeft(r)' < TriesLeft(r)
    BY <1>5, <1>6, <1>7
  <1> QED
    BY <1>8, <1>9, <1>10, <1>11, <1>12

LEMMA CallStepLeavesLess ==
    ASSUME IInv, BudgetInv, IInv', BudgetInv', NEW r \in Runs, CallStep(r), UNCHANGED policy
    PROVE  LeavesLess(r)
  <1>1. /\ TypeOK /\ CallInv(r)
        /\ IsPlan(plan[r]) /\ status[r] \in [DOMAIN plan[r] -> Status]
        /\ IsFiniteSet(DOMAIN status[r])
        /\ DOMAIN status = Runs /\ DOMAIN pc = Runs /\ DOMAIN attempt = Runs
        /\ replanAttempts \in Nat
    BY DEF IInv, TypeOK, IsPlan
  <1>2. ASSUME UNCHANGED replanVars, pc[r] # "planner", NEW st, st \in [DOMAIN plan[r] -> Status],
               LoopHead(r, plan[r], st),
               \/ st = status[r] /\ pc[r] \in {"idle", "compress"}
               \/ OpenSteps(st) < OpenSteps(status[r])
        PROVE  LeavesLess(r)
    <2>1. /\ pc'[r] \in {"tool", "compress", "ended"}
          /\ pc'[r] = "tool" => attempt'[r] = 1 /\ OpenSteps(status'[r]) = OpenSteps(st)
          /\ pc'[r] = "compress" => OpenSteps(status'[r]) < OpenSteps(st)
          /\ pc'[r] = "ended" => OpenSteps(status'[r]) = OpenSteps(st)
          /\ OpenSteps(status'[r]) \in Nat /\ OpenSteps(st) \in Nat
      BY <1>1, <1>2, LoopHeadLeaves
    <2>2. replanAttempts' = replanAttempts
      BY <1>2 DEF replanVars
    <2>3. OpenSteps(status[r]) \in Nat
      <3>1. {i \in DOMAIN status[r] : status[r][i] \notin FinishedStatus}
               \in SUBSET DOMAIN status[r]
        OBVIOUS
      <3> QED
        BY <1>1, <3>1, FS_Subset, FS_CardinalityType DEF OpenSteps
    <2>4. CASE st = status[r] /\ pc[r] \in {"idle", "compress"}
      BY <1>2, <2>1, <2>2, <2>4, LessIsLeft
    <2>5. CASE OpenSteps(st) < OpenSteps(status[r])
      <3>1. OpenSteps(status'[r]) < OpenSteps(status[r])
        BY <2>1, <2>3, <2>5
      <3> QED
        BY <1>2, <2>1, <2>2, <3>1, LessIsLeft
    <2> QED
      BY <1>2, <2>4, <2>5
  <1>3. CASE Execute(r) \/ Compressed(r)
    <2>1. /\ pc[r] \in {"idle", "compress"} /\ LoopHead(r, plan[r], status[r])
          /\ UNCHANGED replanVars
      BY <1>3 DEF Execute, Compressed
    <2> QED
      BY <1>1, <1>2, <2>1
  \* The current step is set.
  <1>4. ASSUME pc[r] = "tool", NEW s
        PROVE  LET st == [status[r] EXCEPT ![current[r]] = s]
               IN /\ OpenSteps(status[r]) \in Nat /\ OpenSteps(st) \in Nat
                  /\ s \in FinishedStatus => OpenSteps(st) < OpenSteps(status[r])
                  /\ s \notin FinishedStatus => OpenSteps(st) = OpenSteps(status[r])
    <2>1. current[r] \in DOMAIN status[r] /\ status[r][current[r]] \notin FinishedStatus
      BY <1>1, <1>4 DEF CallInv, FinishedStatus
    <2> QED
      BY <1>1, <2>1, SettingLeavesSteps
  <1>5. ASSUME pc[r] = "tool", NEW s, status' = [status EXCEPT ![r][current[r]] = s]
        PROVE  /\ s \in FinishedStatus => OpenSteps(status'[r]) < OpenSteps(status[r])
               /\ s \notin FinishedStatus => OpenSteps(status'[r]) = OpenSteps(status[r])
    <2>1. status'[r] = [status[r] EXCEPT ![current[r]] = s]
      BY <1>1, <1>5
    <2> QED
      BY <1>4, <1>5, <2>1
  <1>6. "completed" \in FinishedStatus /\ {"pending", "failed"} \cap FinishedStatus = {}
    BY DEF FinishedStatus
  <1>7. CASE ToolSucceeds(r)
    <2>1. /\ pc[r] = "tool" /\ pc'[r] = "compress" /\ replanAttempts' = replanAttempts
          /\ status' = [status EXCEPT ![r][current[r]] = "completed"]
      BY <1>1, <1>7 DEF ToolSucceeds, Suspend, replanVars
    <2>2. OpenSteps(status'[r]) < OpenSteps(status[r])
      BY <1>5, <1>6, <2>1
    <2> QED
      BY <2>1, <2>2, LessIsLeft
  \* The call ends where it is.
  <1>8. ASSUME pc[r] \in {"tool", "compress", "planner"}, pc'[r] = "ended",
               replanAttempts' = replanAttempts,
               OpenSteps(status'[r]) = OpenSteps(status[r]) \/ pc[r] = "planner"
        PROVE  LeavesLess(r)
    BY <1>8, LessIsLeft
  <1>9. CASE CompressorFails(r) \/ PlannerFails(r)
    <2>1. /\ pc[r] \in {"tool", "compress", "planner"} /\ pc'[r] = "ended"
          /\ replanAttempts' = replanAttempts /\ status' = status
      BY <1>1, <1>9 DEF CompressorFails, PlannerFails, End, stateVars, replanVars
    <2> QED
      BY <1>8, <2>1
  <1>10. CASE RetryStep(r)
    <2>1. pc[r] = "tool" /\ replanAttempts' = replanAttempts
      BY <1>10 DEF RetryStep, replanVars
    <2>2. CASE attempt' = [attempt EXCEPT ![r] = @ + 1] /\ UNCHANGED <<status, controlVars>>
      <3>1. /\ pc'[r] = "tool" /\ attempt'[r] = attempt[r] + 1
            /\ OpenSteps(status'[r]) = OpenSteps(status[r])
        BY <1>1, <2>1, <2>2 DEF controlVars
      <3> QED
        BY <2>1, <3>1, LessIsLeft
    <2>3. CASE /\ status' = [status EXCEPT ![r][current[r]] = "pending"]
               /\ End(r, "unknown_node")
      <3>1. pc'[r] = "ended" /\ OpenSteps(status'[r]) = OpenSteps(status[r])
        BY <1>1, <1>5, <1>6, <2>1, <2>3 DEF End
      <3> QED
        BY <1>8, <2>1, <3>1
    <2> QED
      BY <1>10, <2>2, <2>3 DEF RetryStep
  <1>11. CASE GiveUpStep(r)
    <2>1. /\ pc[r] = "tool" /\ pc'[r] = "ended" /\ replanAttempts' = replanAttempts
          /\ status' = [status EXCEPT ![r][current[r]] = "failed"]
      BY <1>1, <1>11 DEF GiveUpStep, End, replanVars
    <2>2. OpenSteps(status'[r]) = OpenSteps(status[r])
      BY <1>5, <1>6, <2>1
    <2> QED
      BY <1>8, <2>1, <2>2
  <1>12. CASE SkipStep(r)
    <2> DEFINE st == [status[r] EXCEPT ![current[r]] = "skipped"]
    <2>1. /\ pc[r] = "tool" /\ LoopHead(r, plan[r], st) /\ UNCHANGED replanVars
      BY <1>12 DEF SkipStep
    <2>2. st \in [DOMAIN plan[r] -> Status]
      BY <1>1 DEF Status
    <2>3. OpenSteps(st) < OpenSteps(status[r])
      BY <1>4, <2>1 DEF FinishedStatus
    <2> HIDE DEF st
    <2> QED
      BY <1>2, <2>1, <2>2, <2>3
  <1>13. CASE Replan(r)
    <2>1. CASE End(r, "replan_budget") /\ UNCHANGED replanVars
      <3>1. /\ pc[r] = "tool" /\ pc'[r] = "ended" /\ replanAttempts' = replanAttempts
            /\ status' = [status EXCEPT ![r][current[r]] = "failed"]
        BY <1>1, <1>13, <2>1 DEF Replan, End, replanVars
      <3>2. OpenSteps(status'[r]) = OpenSteps(status[r])
        BY <1>5, <1>6, <3>1
      <3> QED
        BY <1>8, <3>1, <3>2
    <2>2. CASE replanAttempts' = replanAttempts + 1
      <3>1. replanAttempts' > replanAttempts
        BY <1>1, <2>2
      <3> QED
        BY <3>1, LessIsLeft
    <2> QED
      BY <1>13, <2>1, <2>2 DEF Replan
  <1>14. CASE PlannerAnswers(r)
    <2>1. pc[r] = "planner" /\ replanAttempts' = replanAttempts
      BY <1>14 DEF PlannerAnswers, replanVars
    <2>2. CASE End(r, "invalid_plan")
      BY <1>1, <1>8, <2>1, <2>2 DEF End
    <2>3. CASE \E p, st : LoopHead(r, p, st)
      <3>1. pc'[r] # "planner"
        BY <1>1, <2>3 DEF LoopHead, StartStep, End, Suspend
      <3> QED
        BY <2>1, <3>1, LessIsLeft
    <2> QED
      BY <1>14, <2>2, <2>3 DEF PlannerAnswers
  <1> QED
    BY <1>3, <1>7, <1>9, <1>10, <1>11, <1>12, <1>13, <1>14 DEF CallStep

\* CallsEnd, what of it is safety: whatever the tools, the planner and the compressor
\* answer, each step of a call leaves less to do, and the steps of the other calls do
\* not add to it.  So no call of execute() goes on for ever: nothing decreases for ever
\* in the order Lexicographic (LexicographicIsWellFounded).
THEOREM EveryStepLeavesLess ==
    Spec => [][\A r \in Runs : /\ CallStep(r) => LeavesLess(r)
                               /\ Left(r)' = Left(r) \/ LeavesLess(r)]_vars
  <1> DEFINE Progress == \A r \in Runs : /\ CallStep(r) => LeavesLess(r)
                                         /\ Left(r)' = Left(r) \/ LeavesLess(r)
  <1>1. ASSUME IInv, BudgetInv, IInv', BudgetInv', [Next]_vars
        PROVE  [Progress]_vars
    <2> SUFFICES ASSUME ~UNCHANGED vars
                 PROVE  Progress
      OBVIOUS
    <2>1. PICK q \in Runs : CallStep(q) /\ UNCHANGED policy
      BY <1>1 DEF Next, Done
    <2>2. \A r \in Runs : CallStep(r) => LeavesLess(r)
      BY <1>1, <2>1, CallStepLeavesLess
    <2>3. ASSUME NEW r \in Runs \ {q}
          PROVE  Left(r)' = Left(r) \/ LeavesLess(r)
      <3>1. OthersAsBefore(q)
        BY <1>1, <2>1, CallStepKeepsInv DEF IInv, StepKeepsInv
      <3>2. pc'[r] = pc[r] /\ status'[r] = status[r] /\ attempt'[r] = attempt[r]
        BY <3>1 DEF OthersAsBefore
      <3>3. CASE replanAttempts' = replanAttempts
        BY <2>1, <3>2, <3>3 DEF Left, TriesLeft, MaxAttempts
      <3>4. CASE replanAttempts' > replanAttempts
        BY <1>1, <2>1, <3>4, LessIsLeft
      <3>5. replanAttempts' = replanAttempts \/ replanAttempts' > replanAttempts
        <4>1. UNCHANGED replanVars \/ replanAttempts' = replanAttempts + 1
          BY <2>1 DEF CallStep, Execute, ToolSucceeds, Compressed, CompressorFails, RetryStep,
                      GiveUpStep, SkipStep, Replan, PlannerAnswers, PlannerFails
        <4> QED
          BY <1>1, <4>1 DEF replanVars, IInv, TypeOK
      <3> QED
        BY <3>3, <3>4, <3>5
    <2> QED
      BY <2>1, <2>2, <2>3
  <1>2. Spec => []BudgetInv
    <2>1. Init => BudgetInv
      BY InitBudgetInv
    <2> QED
      BY <2>1, Invariance, NextKeepsBudget, PTL DEF Spec
  <1> QED
    BY <1>1, <1>2, Invariance, PTL DEF Spec

-----------------------------------------------------------------------------
(***************************************************************************)
(* PlanOrchestration.  The replans that a request has used are those which *)
(* were applied and the one that it awaits: together with the other        *)
(* requests' they are at most the attempts of the controller.              *)
(***************************************************************************)
UsedReplans == [r \in Runs |-> applied[r] + (IF phase[r] = "replanner" THEN 1 ELSE 0)]

ReplansInv ==
    /\ DOMAIN phase = Runs
    /\ applied \in [Runs -> Nat]
    /\ IsFiniteSet(Counted(UsedReplans))
    /\ attempts \in Nat
    /\ Total(UsedReplans) <= attempts
    /\ attempts <= MaxCriticReplans

LEMMA UsedReplansType ==
    applied \in [Runs -> Nat]
    => /\ UsedReplans \in [Runs -> Nat]
       /\ \A r \in Runs : UsedReplans[r] = IF phase[r] = "replanner" THEN applied[r] + 1
                                                                     ELSE applied[r]
  BY DEF UsedReplans

\* A step that uses no replan keeps the bound.
LEMMA NoReplanUsed ==
    ASSUME ReplansInv, DOMAIN phase' = Runs, applied' \in [Runs -> Nat],
           attempts' = attempts, \A q \in Runs : UsedReplans'[q] <= UsedReplans[q]
    PROVE  ReplansInv'
  <1>1. UsedReplans \in [Runs -> Nat] /\ UsedReplans' \in [Runs -> Nat]
    BY DEF ReplansInv, UsedReplans
  <1>2. IsFiniteSet(Counted(UsedReplans)) /\ Total(UsedReplans) <= attempts
    BY DEF ReplansInv
  <1>3. /\ IsFiniteSet(Counted(UsedReplans'))
        /\ Total(UsedReplans') \in Nat /\ Total(UsedReplans) \in Nat
        /\ Total(UsedReplans') <= Total(UsedReplans)
    <2> DEFINE f == UsedReplans'
               g == UsedReplans
    <2> HIDE DEF f, g
    <2> SUFFICES /\ IsFiniteSet(Counted(f))
                 /\ Total(f) \in Nat /\ Total(g) \in Nat
                 /\ Total(f) <= Total(g)
      BY DEF f, g
    <2>1. f \in [Runs -> Nat] /\ g \in [Runs -> Nat] /\ IsFiniteSet(Counted(g))
          /\ \A q \in Runs : f[q] <= g[q]
      BY <1>1, <1>2 DEF f, g
    <2> QED
      BY <2>1, CountsAreMonotone
  <1>4. Total(UsedReplans') <= attempts'
    BY <1>2, <1>3 DEF ReplansInv
  <1> QED
    BY <1>3, <1>4 DEF ReplansInv, Counted, Total, UsedReplans

LEMMA NextKeepsReplans == ReplansInv /\ [OrchestrationNext]_allVars => ReplansInv'
  <1> SUFFICES ASSUME ReplansInv, [OrchestrationNext]_allVars
               PROVE  ReplansInv'
    OBVIOUS
  <1>1. DOMAIN phase = Runs /\ applied \in [Runs -> Nat] /\ attempts \in Nat
    BY DEF ReplansInv
  <1>2. CASE UNCHANGED allVars
    BY <1>1, <1>2, NoReplanUsed, UsedReplansType DEF UsedReplans, allVars, runVars
  <1>3. ASSUME NEW r \in Runs, CreatePlan(r) \/ ExecutionEnds(r)
        PROVE  ReplansInv'
    <2>1. /\ UNCHANGED <<attempts, applied>> /\ DOMAIN phase' = Runs
          /\ phase'[r] # "replanner"
          /\ \A q \in Runs \ {r} : phase'[q] = phase[q]
      BY <1>1, <1>3 DEF CreatePlan, ExecutionEnds, Go
    <2> QED
      BY <1>1, <2>1, NoReplanUsed DEF UsedReplans
  <1>4. ASSUME NEW r \in Runs, ExecutorStep(r)
        PROVE  ReplansInv'
    <2>1. UNCHANGED <<attempts, applied, phase>>
      BY <1>4 DEF ExecutorStep
    <2> QED
      BY <1>1, <2>1, NoReplanUsed DEF UsedReplans
  <1>5. ASSUME NEW r \in Runs, CriticAnswers(r)
        PROVE  ReplansInv'
    <2>1. phase[r] = "critic" /\ applied' = applied
      BY <1>5 DEF CriticAnswers
    <2>2. CASE Go(r, "replanner") /\ attempts' = attempts + 1 /\ MayReplan
      <3> DEFINE f == UsedReplans
      <3>1. f \in [Runs -> Nat] /\ f[r] = applied[r]
        BY <1>1, <2>1 DEF UsedReplans
      <3>2. UsedReplans' = [f EXCEPT ![r] = @ + 1]
        <4>1. phase' = [phase EXCEPT ![r] = "replanner"]
          BY <2>2 DEF Go
        <4>2. /\ phase'[r] = "replanner" /\ phase[r] # "replanner"
              /\ \A q \in Runs \ {r} : phase'[q] = phase[q]
          BY <1>1, <2>1, <4>1
        <4> DEFINE g == UsedReplans'
        <4>3. g \in [Runs -> Nat] /\ f \in [Runs -> Nat]
          BY <1>1, <2>1 DEF UsedReplans
        <4>4. g[r] = f[r] + 1 /\ \A q \in Runs \ {r} : g[q] = f[q]
          BY <1>1, <2>1, <4>2 DEF UsedReplans
        <4> HIDE DEF f, g
        <4>5. g = [f EXCEPT ![r] = @ + 1]
          BY <4>3, <4>4
        <4> QED
          BY <4>5 DEF f, g
      <3>3. IsFiniteSet(Counted(f)) /\ Total(f) <= attempts /\ Total(f) \in Nat
        BY FS_CardinalityType DEF ReplansInv, Total
      <3> HIDE DEF f
      <3>4. /\ IsFiniteSet(Counted(UsedReplans')) /\ Total(UsedReplans') = Total(f) + 1
        BY <3>1, <3>2, <3>3, CountOneMore
      <3>5. Total(UsedReplans') <= attempts' /\ attempts' <= MaxCriticReplans
            /\ attempts' \in Nat
        BY <1>1, <2>2, <3>3, <3>4, ControllerAssumption DEF MayReplan
      <3>6. DOMAIN phase' = Runs
        BY <1>1, <2>2 DEF Go
      <3> QED
        BY <1>1, <2>1, <3>4, <3>5, <3>6 DEF ReplansInv, Counted, Total, UsedReplans
    <2>3. CASE UNCHANGED attempts /\ \E next : Go(r, next) /\ next # "replanner"
      <3>1. /\ DOMAIN phase' = Runs /\ phase'[r] # "replanner"
            /\ \A q \in Runs \ {r} : phase'[q] = phase[q]
        BY <1>1, <2>3 DEF Go
      <3> QED
        BY <1>1, <2>1, <2>3, <3>1, NoReplanUsed DEF UsedReplans
    <2> QED
      BY <1>5, <2>2, <2>3 DEF CriticAnswers, AfterRefusal
  <1>6. ASSUME NEW r \in Runs, Replanned(r)
        PROVE  ReplansInv'
    <2>1. /\ phase[r] = "replanner" /\ attempts' = attempts
          /\ \/ Go(r, "execute") /\ applied' = [applied EXCEPT ![r] = @ + 1]
             \/ Go(r, "done") /\ applied' = applied
      BY <1>6 DEF Replanned
    <2>2. /\ DOMAIN phase' = Runs /\ phase'[r] # "replanner"
          /\ \A q \in Runs \ {r} : phase'[q] = phase[q]
      BY <1>1, <2>1 DEF Go
    <2>3. /\ applied' \in [Runs -> Nat] /\ applied[r] \in Nat
          /\ applied'[r] = applied[r] + 1 \/ applied'[r] = applied[r]
          /\ \A q \in Runs \ {r} : applied'[q] = applied[q]
      BY <1>1, <2>1
    <2>4. ASSUME NEW q \in Runs
          PROVE  UsedReplans'[q] <= UsedReplans[q]
      <3>1. CASE q = r
        BY <1>1, <2>1, <2>2, <2>3, <3>1 DEF UsedReplans
      <3>2. CASE q # r
        BY <1>1, <2>2, <2>3, <3>2 DEF UsedReplans
      <3> QED
        BY <3>1, <3>2
    <2> QED
      BY <2>1, <2>2, <2>3, <2>4, NoReplanUsed
  <1>7. ASSUME NEW r \in Runs, ModelRaises(r)
        PROVE  ReplansInv'
    <2>1. /\ UNCHANGED <<attempts, applied>> /\ DOMAIN phase' = Runs
          /\ phase'[r] # "replanner"
          /\ \A q \in Runs \ {r} : phase'[q] = phase[q]
      BY <1>1, <1>7 DEF ModelRaises, Go
    <2> QED
      BY <1>1, <2>1, NoReplanUsed DEF UsedReplans
  <1> QED
    BY <1>2, <1>3, <1>4, <1>5, <1>6, <1>7 DEF OrchestrationNext, RunStep, AllEnded

\* CriticReplansBounded: whatever the critics of how many concurrent requests ask
\* for, the controller applies at most the replans of its configuration.
THEOREM CriticReplansAreBounded == OrchestrationSpec => []CriticReplansBounded
  <1>1. OrchestrationInit => ReplansInv
    <2> SUFFICES ASSUME OrchestrationInit
                 PROVE  ReplansInv
      OBVIOUS
    <2>1. UsedReplans = [r \in Runs |-> 0]
      BY DEF OrchestrationInit, UsedReplans
    <2>2. IsFiniteSet(Counted(UsedReplans)) /\ Total(UsedReplans) = 0
      BY <2>1, NothingCounted
    <2> QED
      BY <2>2, ControllerAssumption DEF OrchestrationInit, ReplansInv
  <1>2. ReplansInv => CriticReplansBounded
    <2> SUFFICES ASSUME ReplansInv
                 PROVE  Total(applied) <= MaxCriticReplans
      BY DEF CriticReplansBounded
    <2>1. /\ applied \in [Runs -> Nat] /\ UsedReplans \in [Runs -> Nat]
          /\ IsFiniteSet(Counted(UsedReplans))
          /\ \A r \in Runs : applied[r] <= UsedReplans[r]
      BY UsedReplansType DEF ReplansInv
    <2>2. /\ Total(applied) \in Nat /\ Total(UsedReplans) \in Nat
          /\ Total(applied) <= Total(UsedReplans)
      BY <2>1, CountsAreMonotone
    <2> QED
      BY <2>2, ControllerAssumption DEF ReplansInv
  <1> QED
    BY <1>1, <1>2, NextKeepsReplans, PTL DEF OrchestrationSpec

-----------------------------------------------------------------------------
(***************************************************************************)
(* A verdict "completed" of the rules ends the request, and the tools that *)
(* it has looked for are in tool_outputs.                                  *)
(***************************************************************************)
VerdictInv ==
    /\ DOMAIN phase = Runs /\ DOMAIN critique = Runs /\ DOMAIN context = Runs
    /\ goal \in [Runs -> Goals]
    /\ \A r \in Runs : critique[r].by = "rules" /\ ~critique[r].need =>
          /\ phase[r] = "done"
          /\ \A k \in goal[r] : NativeTool[k] \in context[r]["tool_outputs"]

\* The request r has not ended, and the others are as they were.
OnlyItsOwn(r) ==
    /\ phase[r] # "done" /\ goal' = goal
    /\ DOMAIN phase' = Runs /\ DOMAIN critique' = Runs /\ DOMAIN context' = Runs
    /\ \A q \in Runs \ {r} : /\ phase'[q] = phase[q] /\ critique'[q] = critique[q]
                             /\ context'[q] = context[q]

LEMMA RunStepIsItsOwn ==
    ASSUME VerdictInv, NEW r \in Runs, RunStep(r)
    PROVE  OnlyItsOwn(r)
  <1>1. CASE CreatePlan(r) \/ ExecutionEnds(r) \/ ModelRaises(r)
    BY <1>1 DEF CreatePlan, ExecutionEnds, ModelRaises, Go, OnlyItsOwn, VerdictInv
  <1>2. CASE ExecutorStep(r)
    BY <1>2 DEF ExecutorStep, OnlyItsOwn, VerdictInv
  <1>3. CASE CriticAnswers(r)
    BY <1>3 DEF CriticAnswers, Go, OnlyItsOwn, VerdictInv
  <1>4. CASE Replanned(r)
    BY <1>4 DEF Replanned, Go, OnlyItsOwn, VerdictInv
  <1> QED
    BY <1>1, <1>2, <1>3, <1>4 DEF RunStep

LEMMA NextKeepsVerdict == VerdictInv /\ [OrchestrationNext]_allVars => VerdictInv'
  <1> SUFFICES ASSUME VerdictInv, [OrchestrationNext]_allVars
               PROVE  VerdictInv'
    OBVIOUS
  <1>1. CASE UNCHANGED allVars
    BY <1>1 DEF VerdictInv, allVars, runVars
  <1>2. ASSUME NEW r \in Runs, RunStep(r)
        PROVE  VerdictInv'
    <2>1. OnlyItsOwn(r)
      BY <1>2, RunStepIsItsOwn
    <2>2. ASSUME critique'[r].by = "rules", ~critique'[r].need
          PROVE  /\ phase'[r] = "done"
                 /\ \A k \in goal'[r] : NativeTool[k] \in context'[r]["tool_outputs"]
      <3>1. ~(critique[r].by = "rules" /\ ~critique[r].need)
        BY <2>1 DEF OnlyItsOwn, VerdictInv
      <3>2. critique' # critique
        BY <2>2, <3>1
      <3>3. CriticAnswers(r)
        BY <1>2, <3>2 DEF RunStep, CreatePlan, ExecutorStep, ExecutionEnds, Replanned,
                          ModelRaises
      <3>4. PICK v \in Verdicts(r) :
               /\ critique' = [critique EXCEPT ![r] = v]
               /\ ~v.need => Go(r, "done")
               /\ context' = context
        BY <3>3 DEF CriticAnswers
      <3>5. critique'[r] = v /\ v.by = "rules" /\ ~v.need
        BY <2>2, <3>4 DEF VerdictInv
      <3>6. v = RulesVerdict(goal[r], context[r]["tool_outputs"], Skipped(r))
        <4>1. FallbackVerdict.by = "fallback"
          BY DEF FallbackVerdict, RulesVerdict
        <4> QED
          BY <3>5, <4>1 DEF Verdicts
      <3>7. {k \in goal[r] : NativeTool[k] \notin context[r]["tool_outputs"]} = {}
        <4> DEFINE missing == {k \in goal[r] : NativeTool[k] \notin context[r]["tool_outputs"]}
        <4>1. v.need = (Skipped(r) \/ missing # {})
          BY <3>6, Zenon DEF RulesVerdict
        <4> QED
          BY <3>5, <4>1
      <3> QED
        BY <2>1, <3>4, <3>5, <3>7 DEF Go, OnlyItsOwn, VerdictInv
    <2> QED
      BY <2>1, <2>2 DEF VerdictInv, OnlyItsOwn
  <1> QED
    BY <1>1, <1>2 DEF OrchestrationNext, AllEnded

\* CompletedGoalIsAnswered: the answer has every section whose tool the rules found,
\* whatever plans, critics and compressions there were before.
THEOREM CompletedGoalsAreAnswered == OrchestrationSpec => []CompletedGoalIsAnswered
  <1>1. OrchestrationInit => VerdictInv
    BY DEF OrchestrationInit, VerdictInv, NoCritique
  <1>2. VerdictInv => CompletedGoalIsAnswered
    <2> SUFFICES ASSUME VerdictInv, NEW r \in Runs,
                        critique[r].by = "rules", ~critique[r].need, NEW k \in goal[r]
                 PROVE  k \in Sections(r)
      BY DEF CompletedGoalIsAnswered
    <2>1. NativeTool[k] \in context[r]["tool_outputs"]
      BY DEF VerdictInv
    <2>2. k \in Kinds
      BY KindsAssumption DEF VerdictInv
    <2>3. NativeTool[k] \in DOMAIN KindOf /\ KindOf[NativeTool[k]] = k
      BY <2>2, KindsAssumption
    <2>4. NativeTool[k] \in DeliveredTools(r)
      BY <2>1 DEF DeliveredTools
    <2> QED
      BY <2>3, <2>4 DEF Sections
  <1> QED
    BY <1>1, <1>2, NextKeepsVerdict, PTL DEF OrchestrationSpec

(***************************************************************************)
(* Lists.  InOrder lists each member of a finite set once: the ranks of    *)
(* the members in a strict total order are 0 to n - 1.                     *)
(***************************************************************************)
ListsOnce(order, S) ==
    /\ Cardinality(S) \in Nat
    /\ order = [k \in 1..Cardinality(S) |-> order[k]]
    /\ \A k \in 1..Cardinality(S) : order[k] \in S
    /\ \A x \in S : \E k \in 1..Cardinality(S) : order[k] = x
    /\ \A j, k \in 1..Cardinality(S) : order[j] = order[k] => j = k

StrictOrder(R, S) ==
    /\ \A x \in S : <<x, x>> \notin R
    /\ \A x, y \in S : x # y => <<x, y>> \in R \/ <<y, x>> \in R
    /\ \A x, y, z \in S : <<x, y>> \in R /\ <<y, z>> \in R => <<x, z>> \in R

\* The members of S by their ranks.
Ranked(S, R) ==
    [k \in 1..Cardinality(S) |->
        CHOOSE x \in S : Cardinality({y \in S : <<y, x>> \in R}) = k - 1]

LEMMA RanksListOnce ==
    ASSUME NEW S, IsFiniteSet(S), NEW R, StrictOrder(R, S)
    PROVE  /\ ListsOnce(Ranked(S, R), S)
           /\ \A k \in 1..Cardinality(S) :
                 Cardinality({y \in S : <<y, Ranked(S, R)[k]>> \in R}) = k - 1
           /\ \A j, k \in 1..Cardinality(S) :
                 j < k => <<Ranked(S, R)[j], Ranked(S, R)[k]>> \in R
  <1> DEFINE Before(x) == {y \in S : <<y, x>> \in R}
             n == Cardinality(S)
             rank == [x \in S |-> Cardinality(Before(x)) + 1]
             order == [k \in 1..n |-> CHOOSE x \in S : Cardinality(Before(x)) = k - 1]
  <1>1. n \in Nat
    BY FS_CardinalityType
  <1>2. ASSUME NEW x \in S
        PROVE  /\ IsFiniteSet(Before(x)) /\ Cardinality(Before(x)) \in Nat
               /\ Cardinality(Before(x)) < n
    <2>1. Before(x) \in SUBSET S /\ x \notin Before(x)
      BY DEF StrictOrder
    <2>2. IsFiniteSet(Before(x)) /\ Cardinality(Before(x)) <= n /\ Cardinality(Before(x)) # n
      BY <2>1, FS_Subset
    <2> QED
      BY <1>1, <2>2, FS_CardinalityType
  <1>3. ASSUME NEW x \in S, NEW y \in S, <<x, y>> \in R
        PROVE  Cardinality(Before(x)) < Cardinality(Before(y))
    <2>1. Before(x) \in SUBSET Before(y)
      BY <1>3 DEF StrictOrder
    <2>2. x \in Before(y) /\ x \notin Before(x)
      BY <1>3 DEF StrictOrder
    <2>3. /\ Cardinality(Before(x)) <= Cardinality(Before(y))
          /\ Cardinality(Before(x)) # Cardinality(Before(y))
      BY <1>2, <2>1, <2>2, FS_Subset
    <2> QED
      BY <1>2, <2>3
  <1> HIDE DEF Before, n
  <1>4. rank \in [S -> 1..n] /\ \A x \in S : rank[x] = Cardinality(Before(x)) + 1
    BY <1>1, <1>2
  <1>5. \A x, y \in S : rank[x] = rank[y] => x = y
    <2> SUFFICES ASSUME NEW x \in S, NEW y \in S, x # y
                 PROVE  rank[x] # rank[y]
      OBVIOUS
    <2>1. <<x, y>> \in R \/ <<y, x>> \in R
      BY DEF StrictOrder
    <2>2. /\ Cardinality(Before(x)) \in Nat /\ Cardinality(Before(y)) \in Nat
          /\ \/ Cardinality(Before(x)) < Cardinality(Before(y))
             \/ Cardinality(Before(y)) < Cardinality(Before(x))
      BY <1>2, <1>3, <2>1
    <2>3. /\ rank[x] = Cardinality(Before(x)) + 1
          /\ rank[y] = Cardinality(Before(y)) + 1
      BY <1>4
    <2> HIDE DEF rank
    <2> QED
      BY <2>2, <2>3
  <1>6. IsFiniteSet(1..n) /\ Cardinality(1..n) = n
    BY <1>1, FS_Interval
  <1>7. rank \in Surjection(S, 1..n)
    <2> HIDE DEF rank
    <2>1. rank \in Injection(S, 1..n)
      BY <1>4, <1>5 DEF Injection, IsInjective
    <2> QED
      BY <1>6, <2>1, FS_Injection DEF n
  <1>8. \A k \in 1..n : \E x \in S : Cardinality(Before(x)) = k - 1
    <2> TAKE k \in 1..n
    <2>1. PICK x \in S : rank[x] = k
      <3> HIDE DEF rank
      <3> QED
        BY <1>7 DEF Surjection
    <2> HIDE DEF rank
    <2> QED
      BY <1>2, <1>4, <2>1
  <1>9. \A k \in 1..n : order[k] \in S /\ Cardinality(Before(order[k])) = k - 1
    BY <1>8
  <1>10. \A j, k \in 1..n : order[j] = order[k] => j = k
    <2> HIDE DEF order
    <2> QED
      BY <1>1, <1>9
  <1>11. ASSUME NEW x \in S
         PROVE  \E k \in 1..n : order[k] = x
    <2> DEFINE k == rank[x]
    <2>1. k \in 1..n /\ Cardinality(Before(x)) = k - 1
      <3> HIDE DEF rank
      <3> QED
        BY <1>2, <1>4
    <2> HIDE DEF k
    <2>2. order[k] \in S /\ Cardinality(Before(order[k])) = k - 1
      BY <1>9, <2>1
    <2>3. rank[order[k]] = rank[x]
      <3> HIDE DEF order, rank
      <3> QED
        BY <1>4, <2>1, <2>2
    <2> QED
      BY <1>5, <2>1, <2>2, <2>3
  <1>12. order = [k \in 1..n |-> order[k]]
    OBVIOUS
  <1> HIDE DEF order
  <1>13. ListsOnce(order, S)
    BY <1>1, <1>9, <1>10, <1>11, <1>12 DEF ListsOnce, n
  <1>14. order = Ranked(S, R) /\ n = Cardinality(S)
    BY DEF order, Before, n, Ranked
  <1>15. \A k \in 1..n : Cardinality(Before(order[k])) = k - 1
    BY <1>9
  <1>16. ASSUME NEW j \in 1..n, NEW k \in 1..n, j < k
         PROVE  <<order[j], order[k]>> \in R
    <2>1. /\ order[j] \in S /\ order[k] \in S
          /\ Cardinality(Before(order[j])) = j - 1 /\ Cardinality(Before(order[k])) = k - 1
      BY <1>9
    <2>2. ~(<<order[k], order[j]>> \in R) /\ order[j] # order[k]
      BY <1>1, <1>3, <1>16, <2>1
    <2> QED
      BY <2>1, <2>2 DEF StrictOrder
  <1> QED
    BY <1>13, <1>14, <1>15, <1>16 DEF Before

(***************************************************************************)
(* When the members before k in the order are 1 to k - 1, for each k up to *)
(* n, the listing begins with 1 to n.                                      *)
(***************************************************************************)
StartsWith(order, n) == 1..n \subseteq DOMAIN order /\ \A k \in 1..n : order[k] = k

LEMMA FirstRanks ==
    ASSUME NEW S, IsFiniteSet(S), NEW R, StrictOrder(R, S), NEW n \in Nat, 1..n \subseteq S,
           \A k \in 1..n : {y \in S : <<y, k>> \in R} = 1..(k - 1)
    PROVE  StartsWith(Ranked(S, R), n)
  <1> DEFINE order == Ranked(S, R)
             c == Cardinality(S)
  <1>1. ListsOnce(order, S)
    BY RanksListOnce
  <1>2. \A k \in 1..c : Cardinality({y \in S : <<y, order[k]>> \in R}) = k - 1
    BY RanksListOnce
  <1> HIDE DEF order, c
  <1>3. /\ DOMAIN order = 1..c /\ c \in Nat
        /\ \A x \in S : \E k \in 1..c : order[k] = x
    BY <1>1 DEF ListsOnce, c
  <1>4. ASSUME NEW k \in 1..n
        PROVE  k \in 1..c /\ order[k] = k
    <2>1. PICK j \in 1..c : order[j] = k
      BY <1>3
    <2>2. Cardinality({y \in S : <<y, k>> \in R}) = j - 1
      BY <1>2, <2>1
    <2>3. {y \in S : <<y, k>> \in R} = 1..(k - 1)
      OBVIOUS
    <2>4. Cardinality(1..(k - 1)) = k - 1
      <3>1. k - 1 \in Nat /\ 1 \in Int
        OBVIOUS
      <3> QED
        BY <3>1, FS_Interval
    <2>5. j - 1 = k - 1
      BY <2>2, <2>3, <2>4
    <2>6. j = k
      BY <1>3, <2>5
    <2> QED
      BY <2>1, <2>6
  <1>5. StartsWith(order, n)
    BY <1>3, <1>4 DEF StartsWith
  <1> QED
    BY <1>5 DEF order

\* The numbers of S in increasing order.
Increasing(S) ==
    [k \in 1..Cardinality(S) |->
        CHOOSE x \in S : Cardinality({y \in S : y < x}) = k - 1]

LEMMA NumbersListOnce ==
    ASSUME NEW S \in SUBSET (Nat \ {0}), IsFiniteSet(S)
    PROVE  /\ ListsOnce(Increasing(S), S)
           /\ \A n \in Nat : 1..n \subseteq S => StartsWith(Increasing(S), n)
  <1> DEFINE R == {e \in S \X S : e[1] < e[2]}
  <1>1. \A x, y \in S : <<x, y>> \in R <=> x < y
    OBVIOUS
  <1>2. \A x, y, z \in S : ~(x < x) /\ (x # y => x < y \/ y < x) /\ (x < y /\ y < z => x < z)
    OBVIOUS
  <1> HIDE DEF R
  <1>3. StrictOrder(R, S)
    BY <1>1, <1>2 DEF StrictOrder
  <1>4. \A x \in S : {y \in S : y < x} = {y \in S : <<y, x>> \in R}
    BY <1>1
  <1>5. Increasing(S) = Ranked(S, R)
    <2> DEFINE a(k) == CHOOSE x \in S : Cardinality({y \in S : y < x}) = k - 1
               b(k) == CHOOSE x \in S : Cardinality({y \in S : <<y, x>> \in R}) = k - 1
    <2>1. \A k : a(k) = b(k)
      BY <1>4
    <2> HIDE DEF a, b
    <2>2. [k \in 1..Cardinality(S) |-> a(k)] = [k \in 1..Cardinality(S) |-> b(k)]
      BY <2>1
    <2> QED
      BY <2>2 DEF a, b, Ranked, Increasing
  <1>6. ListsOnce(Ranked(S, R), S)
    BY <1>3, RanksListOnce
  <1>7. ASSUME NEW n \in Nat, 1..n \subseteq S
        PROVE  StartsWith(Ranked(S, R), n)
    <2>1. ASSUME NEW k \in 1..n
          PROVE  {y \in S : <<y, k>> \in R} = 1..(k - 1)
      <3>1. k \in S /\ k \in Nat
        BY <1>7
      <3>2. {y \in S : <<y, k>> \in R} = {y \in S : y < k}
        BY <1>4, <3>1
      <3>3. \A y : y \in S /\ y < k <=> y \in 1..(k - 1)
        <4>1. \A y \in 1..(k - 1) : y \in 1..n /\ y < k
          BY <3>1
        <4>2. \A y \in S : y \in Nat /\ y # 0
          OBVIOUS
        <4>3. \A y \in S : y < k => y \in 1..(k - 1)
          BY <3>1, <4>2
        <4> QED
          BY <1>7, <4>1, <4>3
      <3> QED
        BY <3>2, <3>3
    <2> QED
      BY <1>3, <1>7, <2>1, FirstRanks
  <1> QED
    BY <1>5, <1>6, <1>7
-----------------------------------------------------------------------------
\* A list, of whatever.
IsList(list) == \E n \in Nat : list = [k \in 1..n |-> list[k]]

LEMMA ListLength ==
    ASSUME NEW list, IsList(list)
    PROVE  /\ Len(list) \in Nat /\ DOMAIN list = 1..Len(list)
           /\ IsFiniteSet(DOMAIN list)
  <1>1. PICK n \in Nat : list = [k \in 1..n |-> list[k]]
    BY DEF IsList
  <1>2. Len(list) = n /\ DOMAIN list = 1..n
    BY <1>1
  <1> QED
    BY <1>2, FS_Interval

\* The list out consists of elements of list, each at most once.
PickedBy(e, out, list) ==
    /\ IsList(out)
    /\ \A k \in DOMAIN out : e[k] \in DOMAIN list /\ out[k] = list[e[k]]
    /\ \A j, k \in DOMAIN out : e[j] = e[k] => j = k

\* Picking the positions in S.
LEMMA PickingOnce ==
    ASSUME NEW list, NEW S \in SUBSET DOMAIN list, NEW order, ListsOnce(order, S)
    PROVE  /\ PickedBy(order, Picked(list, order), list)
           /\ \A i \in S : \E k \in DOMAIN Picked(list, order) :
                 Picked(list, order)[k] = list[i] /\ order[k] = i
  <1> DEFINE n == Cardinality(S)
             out == Picked(list, order)
  <1>1. /\ n \in Nat /\ DOMAIN order = 1..n
        /\ \A k \in 1..n : order[k] \in S
        /\ \A i \in S : \E k \in 1..n : order[k] = i
        /\ \A j, k \in 1..n : order[j] = order[k] => j = k
    BY DEF ListsOnce
  <1>2. out = [k \in 1..n |-> list[order[k]]]
    BY <1>1 DEF Picked
  <1> HIDE DEF n, out
  <1>3. IsList(out) /\ DOMAIN out = 1..n /\ \A k \in 1..n : out[k] = list[order[k]]
    BY <1>1, <1>2 DEF IsList
  <1>4. PickedBy(order, out, list)
    BY <1>1, <1>3 DEF PickedBy
  <1>5. \A i \in S : \E k \in DOMAIN out : out[k] = list[i] /\ order[k] = i
    BY <1>1, <1>3
  <1> QED
    BY <1>4, <1>5 DEF out

(***************************************************************************)
(* A list of some of the steps of the plan q, each with its id, none       *)
(* twice.                                                                  *)
(***************************************************************************)
ListedFrom(list, q) ==
    /\ IsList(list)
    /\ \A k \in DOMAIN list : /\ list[k].id \in DOMAIN q
                              /\ list[k].task = q[list[k].id].task
    /\ \A j, k \in DOMAIN list : list[j].id = list[k].id => j = k

\* The first n steps of the list have their positions for ids.
Numbered(list, n) == 1..n \subseteq DOMAIN list /\ \A k \in 1..n : list[k].id = k

LEMMA PickedListed ==
    ASSUME NEW q, NEW list, ListedFrom(list, q), NEW S \in SUBSET DOMAIN list,
           NEW order, ListsOnce(order, S), NEW n \in Nat,
           Numbered(list, n) => StartsWith(order, n)
    PROVE  /\ ListedFrom(Picked(list, order), q)
           /\ Numbered(list, n) => Numbered(Picked(list, order), n)
  <1> DEFINE out == Picked(list, order)
  <1>1. PickedBy(order, out, list)
    BY PickingOnce
  <1>2. DOMAIN out = DOMAIN order /\ \A k \in DOMAIN order : out[k] = list[order[k]]
    BY DEF Picked
  <1> HIDE DEF out
  <1>3. \A k \in DOMAIN out : order[k] \in DOMAIN list /\ out[k] = list[order[k]]
    BY <1>1 DEF PickedBy
  <1>4. ListedFrom(out, q)
    BY <1>1, <1>3 DEF PickedBy, ListedFrom
  <1>5. ASSUME Numbered(list, n)
        PROVE  Numbered(out, n)
    <2>1. StartsWith(order, n)
      BY <1>5
    <2> QED
      BY <1>2, <1>5, <2>1 DEF StartsWith, Numbered
  <1> QED
    BY <1>4, <1>5 DEF out

\* The steps of a plan in a list.
LEMMA StepListListed ==
    ASSUME NEW q, DOMAIN q \in SUBSET (Nat \ {0}), IsFiniteSet(DOMAIN q), NEW n \in Nat
    PROVE  /\ ListedFrom(StepList(q), q)
           /\ 1..n \subseteq DOMAIN q => Numbered(StepList(q), n)
  <1> DEFINE M == Max(DOMAIN q \cup {0})
             S == {k \in 1..M : k \in DOMAIN q}
             order == Increasing(S)
             list == StepList(q)
  <1>1. S = DOMAIN q
    <2>1. DOMAIN q \cup {0} \in SUBSET Nat /\ DOMAIN q \cup {0} # {}
      OBVIOUS
    <2>2. IsFiniteSet(DOMAIN q \cup {0})
      BY FS_AddElement
    <2>3. M \in Nat /\ \A y \in DOMAIN q \cup {0} : y <= M
      BY <2>1, <2>2, GreatestOfFinite
    <2> HIDE DEF M
    <2> QED
      BY <2>1, <2>3
  <1>2. /\ ListsOnce(order, S)
        /\ 1..n \subseteq S => StartsWith(order, n)
    <2> HIDE DEF S
    <2> QED
      BY <1>1, NumbersListOnce
  <1>3. list = [k \in DOMAIN order |-> [id |-> order[k], task |-> q[order[k]].task,
                                        deps |-> q[order[k]].deps]]
    BY DEF StepList, Numbers, InOrder, Increasing
  <1> HIDE DEF M, S, order, list
  <1>4. /\ Cardinality(S) \in Nat /\ DOMAIN order = 1..Cardinality(S)
        /\ \A k \in DOMAIN order : order[k] \in S
        /\ \A j, k \in DOMAIN order : order[j] = order[k] => j = k
    BY <1>2 DEF ListsOnce
  <1>5. /\ DOMAIN list = DOMAIN order
        /\ \A k \in DOMAIN order : list[k].id = order[k] /\ list[k].task = q[order[k]].task
    BY <1>3
  <1>6. IsList(list)
    BY <1>3, <1>4 DEF IsList
  <1>7. ListedFrom(list, q)
    BY <1>1, <1>4, <1>5, <1>6 DEF ListedFrom
  <1>8. 1..n \subseteq DOMAIN q => Numbered(list, n)
    BY <1>1, <1>2, <1>5 DEF Numbered, StartsWith
  <1> QED
    BY <1>7, <1>8 DEF list

\* Of the steps with one task the first stays: where tasks do not repeat, all do.
LEMMA RemoveDuplicatesListed ==
    ASSUME NEW q, NEW list, ListedFrom(list, q), NEW n \in Nat,
           \A i, j \in 1..n : q[i].task = q[j].task => i = j
    PROVE  /\ ListedFrom(RemoveDuplicates(list), q)
           /\ Numbered(list, n) => Numbered(RemoveDuplicates(list), n)
  <1> DEFINE S == {k \in 1..Len(list) : \A j \in 1..(k - 1) : list[j].task # list[k].task}
             order == Increasing(S)
  <1>1. Len(list) \in Nat /\ DOMAIN list = 1..Len(list) /\ IsFiniteSet(DOMAIN list)
    BY ListLength DEF ListedFrom
  <1>2. S \in SUBSET DOMAIN list /\ S \in SUBSET (Nat \ {0}) /\ IsFiniteSet(S)
    BY <1>1, FS_Subset
  <1>3. RemoveDuplicates(list) = Picked(list, order)
    BY DEF RemoveDuplicates, Numbers, InOrder, Increasing
  <1>4. ASSUME Numbered(list, n)
        PROVE  1..n \subseteq S
    <2> SUFFICES ASSUME NEW k \in 1..n, NEW j \in 1..(k - 1)
                 PROVE  k \in 1..Len(list) /\ list[j].task # list[k].task
      BY <1>1, <1>4 DEF Numbered
    <2>1. j \in 1..n /\ j # k
      OBVIOUS
    <2>2. list[j].task = q[j].task /\ list[k].task = q[k].task
      BY <1>4, <2>1 DEF Numbered, ListedFrom
    <2>3. list[j].task # list[k].task
      BY <2>1, <2>2
    <2> QED
      BY <1>1, <1>4, <2>3 DEF Numbered
  <1> HIDE DEF S
  <1>5. /\ ListsOnce(order, S)
        /\ 1..n \subseteq S => StartsWith(order, n)
    BY <1>2, NumbersListOnce
  <1> HIDE DEF order
  <1>6. /\ ListedFrom(Picked(list, order), q)
        /\ Numbered(list, n) => Numbered(Picked(list, order), n)
    BY <1>2, <1>4, <1>5, PickedListed
  <1> QED
    BY <1>3, <1>6

(***************************************************************************)
(* renumber_steps sorts by id: every step of the list is picked once, in   *)
(* the order of the ids.                                                   *)
(***************************************************************************)
IdOrder(list) ==
    {e \in (DOMAIN list) \X (DOMAIN list) :
        \/ list[e[1]].id < list[e[2]].id
        \/ list[e[1]].id = list[e[2]].id /\ e[1] < e[2]}

LEMMA SortedByIdPicks ==
    ASSUME NEW list, IsList(list), \A k \in DOMAIN list : list[k].id \in Nat
    PROVE  LET order == Ranked(DOMAIN list, IdOrder(list))
           IN /\ StrictOrder(IdOrder(list), DOMAIN list)
              /\ SortedById(list) = Picked(list, order)
              /\ ListsOnce(order, DOMAIN list)
              /\ \A j, k \in 1..Cardinality(DOMAIN list) :
                    j < k => list[order[j]].id <= list[order[k]].id
  <1> DEFINE S == DOMAIN list
             R == IdOrder(list)
             before(x) == {y \in S : \/ list[y].id < list[x].id
                                     \/ list[y].id = list[x].id /\ y < x}
             a(k) == CHOOSE x \in S : Cardinality(before(x)) = k - 1
             b(k) == CHOOSE x \in S : Cardinality({y \in S : <<y, x>> \in R}) = k - 1
             order == Ranked(S, R)
  <1>1. S \in SUBSET Nat /\ IsFiniteSet(S)
    BY ListLength
  <1>2. \A x \in S : x \in Nat /\ list[x].id \in Nat
    BY <1>1
  <1>3. \A x, y \in S : <<x, y>> \in R <=> \/ list[x].id < list[y].id
                                           \/ list[x].id = list[y].id /\ x < y
    BY DEF IdOrder
  <1> HIDE DEF R
  <1>4. StrictOrder(R, S)
    <2>1. \A x \in S : <<x, x>> \notin R
      BY <1>2, <1>3
    <2>2. \A x, y \in S : x # y => <<x, y>> \in R \/ <<y, x>> \in R
      BY <1>2, <1>3
    <2>3. \A x, y, z \in S : <<x, y>> \in R /\ <<y, z>> \in R => <<x, z>> \in R
      BY <1>2, <1>3
    <2> QED
      BY <2>1, <2>2, <2>3 DEF StrictOrder
  <1>5. SortedById(list) = Picked(list, order)
    <2>1. \A x \in S : before(x) = {y \in S : <<y, x>> \in R}
      BY <1>3
    <2> HIDE DEF before
    <2>2. \A k : a(k) = b(k)
      BY <2>1
    <2>3. /\ SortedById(list) = Picked(list, [k \in 1..Cardinality(S) |-> a(k)])
          /\ order = [k \in 1..Cardinality(S) |-> b(k)]
      BY DEF SortedById, InOrder, Ranked, before
    <2> HIDE DEF a, b, order
    <2>4. [k \in 1..Cardinality(S) |-> a(k)] = [k \in 1..Cardinality(S) |-> b(k)]
      BY <2>2
    <2> QED
      BY <2>3, <2>4
  <1>6. /\ ListsOnce(order, S)
        /\ \A j, k \in 1..Cardinality(S) : j < k => <<order[j], order[k]>> \in R
    BY <1>1, <1>4, RanksListOnce
  <1> HIDE DEF order
  <1>7. ASSUME NEW j \in 1..Cardinality(S), NEW k \in 1..Cardinality(S), j < k
        PROVE  list[order[j]].id <= list[order[k]].id
    <2>1. order[j] \in S /\ order[k] \in S /\ <<order[j], order[k]>> \in R
      BY <1>6, <1>7 DEF ListsOnce
    <2> QED
      BY <1>2, <1>3, <2>1
  <1> QED
    BY <1>4, <1>5, <1>6, <1>7 DEF order, R

\* Sorting loses no step and leaves a numbered beginning where it is.
LEMMA SortedByIdListed ==
    ASSUME NEW q, DOMAIN q \in SUBSET (Nat \ {0}), NEW list, ListedFrom(list, q), NEW n \in Nat
    PROVE  /\ ListedFrom(SortedById(list), q)
           /\ Numbered(list, n) => Numbered(SortedById(list), n)
           /\ \A i \in DOMAIN list : \E k \in DOMAIN SortedById(list) :
                 SortedById(list)[k] = list[i]
           /\ \A k \in DOMAIN SortedById(list) : \E i \in DOMAIN list :
                 SortedById(list)[k] = list[i]
           /\ \A j, k \in DOMAIN SortedById(list) :
                 j < k => SortedById(list)[j].id < SortedById(list)[k].id
  <1> DEFINE S == DOMAIN list
             R == IdOrder(list)
             order == Ranked(S, R)
             out == Picked(list, order)
  <1>1. IsList(list) /\ S \in SUBSET (Nat \ {0}) /\ IsFiniteSet(S)
    BY ListLength DEF ListedFrom
  <1>2. \A x \in S : x \in Nat /\ list[x].id \in Nat \ {0}
    BY <1>1 DEF ListedFrom
  <1>3. \A x, y \in S : <<x, y>> \in R <=> \/ list[x].id < list[y].id
                                           \/ list[x].id = list[y].id /\ x < y
    BY DEF IdOrder
  <1> HIDE DEF R
  <1>4. /\ StrictOrder(R, S)
        /\ SortedById(list) = out
        /\ ListsOnce(order, S)
        /\ \A j, k \in 1..Cardinality(S) : j < k => list[order[j]].id <= list[order[k]].id
    BY <1>1, <1>2, SortedByIdPicks DEF R
  <1>7. ASSUME Numbered(list, n)
        PROVE  StartsWith(order, n)
    <2>1. 1..n \subseteq S /\ \A k \in 1..n : list[k].id = k
      BY <1>7 DEF Numbered
    <2>2. ASSUME NEW k \in 1..n
          PROVE  {y \in S : <<y, k>> \in R} = 1..(k - 1)
      <3>1. ASSUME NEW y \in S, <<y, k>> \in R
            PROVE  y \in 1..(k - 1)
        <4>1. k \in S /\ list[k].id = k
          BY <2>1
        <4>2. list[y].id < k \/ (list[y].id = k /\ y < k)
          BY <1>3, <3>1, <4>1
        <4>3. list[y].id \in 1..n
          BY <1>2, <4>2
        <4>4. list[list[y].id].id = list[y].id /\ list[y].id \in S
          BY <2>1, <4>3
        <4>5. list[y].id = y
          BY <4>4 DEF ListedFrom
        <4> QED
          BY <1>2, <4>2, <4>5
      <3>2. ASSUME NEW y \in 1..(k - 1)
            PROVE  y \in S /\ <<y, k>> \in R
        <4>1. y \in 1..n /\ y < k
          OBVIOUS
        <4> QED
          BY <1>3, <2>1, <4>1
      <3> QED
        BY <3>1, <3>2
    <2> QED
      BY <1>1, <1>4, <2>1, <2>2, FirstRanks
  <1>8. S \in SUBSET DOMAIN list
    OBVIOUS
  <1> HIDE DEF order
  <1>9. /\ ListedFrom(out, q)
        /\ Numbered(list, n) => Numbered(out, n)
    BY <1>4, <1>7, <1>8, PickedListed
  <1>10. /\ PickedBy(order, out, list)
         /\ \A i \in S : \E k \in DOMAIN out : out[k] = list[i] /\ order[k] = i
    BY <1>4, <1>8, PickingOnce
  <1>11. \A k \in DOMAIN out : \E i \in DOMAIN list : out[k] = list[i]
    BY <1>10 DEF PickedBy
  <1>12. \A j, k \in DOMAIN out : j < k => out[j].id <= out[k].id
    BY <1>4, <1>10 DEF ListsOnce, Picked
  <1> HIDE DEF out
  <1>13. \A k \in DOMAIN out : out[k].id \in Nat
    BY <1>2, <1>11
  <1>14. \A j, k \in DOMAIN out : out[j].id = out[k].id => j = k
    BY <1>9 DEF ListedFrom
  <1>15. DOMAIN out \in SUBSET Nat
    BY <1>9, ListLength DEF ListedFrom
  <1>16. ASSUME NEW j \in DOMAIN out, NEW k \in DOMAIN out, j < k
         PROVE  out[j].id < out[k].id
    <2>1. out[j].id # out[k].id /\ out[j].id <= out[k].id
      BY <1>12, <1>14, <1>15, <1>16
    <2> QED
      BY <1>13, <2>1
  <1> QED
    BY <1>4, <1>9, <1>10, <1>11, <1>16

(***************************************************************************)
(* repair_plan and remap_step_status: a step of the repaired plan has the  *)
(* task and the status of one step of the plan, and of the same step among *)
(* the first n if these are in place and their tasks do not repeat.  The   *)
(* steps stay in their order.                                              *)
(***************************************************************************)
MovedFrom(q, sq, n, r, rs) ==
    /\ DOMAIN rs = DOMAIN r
    /\ DOMAIN r \in SUBSET (Nat \ {0}) /\ IsFiniteSet(DOMAIN r)
    /\ 1..n \subseteq DOMAIN q => 1..n \subseteq DOMAIN r
    /\ \A k \in DOMAIN r : \E id \in DOMAIN q :
          /\ r[k].task = q[id].task /\ rs[k] = sq[id]
          /\ 1..n \subseteq DOMAIN q /\ k \in 1..n => id = k
    /\ \A j, k \in DOMAIN r : j < k =>
          \E x, y \in DOMAIN q : x < y /\ rs[j] = sq[x] /\ rs[k] = sq[y]

LEMMA RepairMovesSteps ==
    ASSUME NEW q, DOMAIN q \in SUBSET (Nat \ {0}), IsFiniteSet(DOMAIN q), NEW sq,
           NEW n \in Nat, \A i, j \in 1..n : q[i].task = q[j].task => i = j,
           NEW r, r = ListPlan(Repaired(StepList(q))), NEW rs, rs = RemappedStatus(q, sq)
    PROVE  MovedFrom(q, sq, n, r, rs)
  <1> DEFINE once == RemoveDuplicates(StepList(q))
             sorted == SortedById(once)
             idMap == IdMap(once)
             ids == {once[k].id : k \in DOMAIN once}
             At(x) == {k \in DOMAIN sorted : sorted[k].id = x}
             old(k) == CHOOSE id \in DOMAIN idMap : idMap[id] = k
  <1>1. /\ ListedFrom(StepList(q), q)
        /\ 1..n \subseteq DOMAIN q => Numbered(StepList(q), n)
    BY StepListListed
  <1>2. /\ ListedFrom(once, q)
        /\ 1..n \subseteq DOMAIN q => Numbered(once, n)
    <2> DEFINE list == StepList(q)
    <2> HIDE DEF list
    <2>1. /\ ListedFrom(list, q)
          /\ 1..n \subseteq DOMAIN q => Numbered(list, n)
      BY <1>1 DEF list
    <2>2. /\ ListedFrom(RemoveDuplicates(list), q)
          /\ 1..n \subseteq DOMAIN q => Numbered(RemoveDuplicates(list), n)
      BY <2>1, RemoveDuplicatesListed
    <2> QED
      BY <2>2 DEF list
  <1>3. /\ DOMAIN idMap = ids
        /\ \A x \in ids : idMap[x] = Max(At(x))
    BY DEF IdMap
  <1>4. rs = [k \in DOMAIN r |-> sq[old(k)]]
    BY DEF RemappedStatus
  <1>5. /\ DOMAIN r = DOMAIN sorted
        /\ \A k \in DOMAIN sorted : r[k].task = sorted[k].task
    BY DEF ListPlan, Repaired, Renumbered, Unlisted
  <1> HIDE DEF once, idMap
  <1>6. /\ ListedFrom(sorted, q)
        /\ Numbered(once, n) => Numbered(sorted, n)
        /\ \A i \in DOMAIN once : \E k \in DOMAIN sorted : sorted[k] = once[i]
        /\ \A k \in DOMAIN sorted : \E i \in DOMAIN once : sorted[k] = once[i]
        /\ \A j, k \in DOMAIN sorted : j < k => sorted[j].id < sorted[k].id
    BY <1>2, SortedByIdListed
  <1> HIDE DEF sorted
  <1>7. DOMAIN sorted \in SUBSET (Nat \ {0}) /\ IsFiniteSet(DOMAIN sorted)
    BY <1>6, ListLength DEF ListedFrom
  <1>8. ASSUME NEW x \in ids
        PROVE  idMap[x] \in DOMAIN sorted /\ sorted[idMap[x]].id = x
    <2>1. PICK i \in DOMAIN once : once[i].id = x
      OBVIOUS
    <2>2. PICK k \in DOMAIN sorted : sorted[k] = once[i]
      BY <1>6
    <2>3. At(x) \in SUBSET Nat /\ At(x) # {}
      BY <1>7, <2>1, <2>2
    <2>4. IsFiniteSet(At(x))
      BY <1>7, FS_Subset
    <2>5. Max(At(x)) \in At(x)
      BY <2>3, <2>4, GreatestOfFinite
    <2>6. idMap[x] \in At(x)
      BY <1>3, <2>5
    <2> QED
      BY <2>6
  <1>9. \A k \in DOMAIN sorted : sorted[k].id \in ids
    BY <1>6
  <1> HIDE DEF ids, At
  <1>10. ASSUME NEW k \in DOMAIN sorted
         PROVE  old(k) = sorted[k].id
    <2> DEFINE id == sorted[k].id
    <2>1. id \in ids /\ idMap[id] \in DOMAIN sorted /\ sorted[idMap[id]].id = id
      BY <1>8, <1>9
    <2>2. idMap[id] = k
      BY <1>6, <2>1 DEF ListedFrom
    <2>3. \A x \in ids : idMap[x] = k => x = id
      BY <1>8
    <2> HIDE DEF id
    <2>4. old(k) \in ids /\ idMap[old(k)] = k
      BY <1>3, <2>1, <2>2
    <2>5. old(k) = id
      BY <2>3, <2>4
    <2> QED
      BY <2>5 DEF id
  <1> HIDE DEF old
  <1>11. ASSUME NEW k \in DOMAIN r
         PROVE  \E id \in DOMAIN q :
                   /\ r[k].task = q[id].task /\ rs[k] = sq[id]
                   /\ 1..n \subseteq DOMAIN q /\ k \in 1..n => id = k
    <2>1. sorted[k].id \in DOMAIN q /\ sorted[k].task = q[sorted[k].id].task
      BY <1>5, <1>6 DEF ListedFrom
    <2>2. rs[k] = sq[sorted[k].id]
      BY <1>4, <1>5, <1>10
    <2>3. 1..n \subseteq DOMAIN q /\ k \in 1..n => sorted[k].id = k
      BY <1>2, <1>6 DEF Numbered
    <2> QED
      BY <1>5, <2>1, <2>2, <2>3
  <1>12. DOMAIN rs = DOMAIN r
    BY <1>4
  <1>13. ASSUME NEW j \in DOMAIN r, NEW k \in DOMAIN r, j < k
         PROVE  \E x, y \in DOMAIN q : x < y /\ rs[j] = sq[x] /\ rs[k] = sq[y]
    <2>1. /\ sorted[j].id \in DOMAIN q /\ sorted[k].id \in DOMAIN q
          /\ sorted[j].id < sorted[k].id
      BY <1>5, <1>6, <1>13 DEF ListedFrom
    <2>2. rs[j] = sq[sorted[j].id] /\ rs[k] = sq[sorted[k].id]
      BY <1>4, <1>5, <1>10
    <2> QED
      BY <2>1, <2>2
  <1>14. 1..n \subseteq DOMAIN q => 1..n \subseteq DOMAIN r
    BY <1>2, <1>5, <1>6 DEF Numbered
  <1> QED
    BY <1>5, <1>7, <1>11, <1>12, <1>13, <1>14 DEF MovedFrom

-----------------------------------------------------------------------------
(***************************************************************************)
(* What was delivered stays known.  The steps of a plan with one of the    *)
(* statuses owed have their tools in the set out.                          *)
(***************************************************************************)
StepsShape(p, st) ==
    /\ DOMAIN p \in SUBSET (Nat \ {0})
    /\ IsFiniteSet(DOMAIN p)
    /\ DOMAIN st = DOMAIN p

Delivers(p, st, owed, out) ==
    \A i \in DOMAIN p : st[i] \in owed /\ p[i].task \in ToolTasks => p[i].task \in out

TasksOnce(p) == \A i, j \in DOMAIN p : p[i].task = p[j].task => i = j

WaitingOrDone(st) == \A i \in DOMAIN st : st[i] = "pending" \/ st[i] \in FinishedStatus

\* The steps numbered 1 to n, of different tasks, all done.
AllDoneOnce(p, st) ==
    /\ FinishedIds(st) = DOMAIN p /\ TasksOnce(p)
    /\ \E n \in Nat : DOMAIN p = 1..n

LEMMA ReplanKeepsDone ==
    ASSUME NEW p, NEW st, StepsShape(p, st), NEW new, NEW m \in Nat, DOMAIN new = 1..m
    PROVE  LET q == ReplannedPlan(p, st, new)
               sq == ReplannedStatus(st, new)
           IN /\ StepsShape(q, sq)
              /\ FinishedIds(st) \in SUBSET DOMAIN p /\ FinishedIds(st) \in SUBSET DOMAIN q
              /\ \A i \in DOMAIN q : IF i \in FinishedIds(st) THEN q[i] = p[i] /\ sq[i] = st[i]
                                                              ELSE sq[i] = "pending"
  <1> DEFINE q == ReplannedPlan(p, st, new)
             sq == ReplannedStatus(st, new)
             fin == FinishedIds(st)
             last == LastFinished(st)
             fresh == {last + k : k \in 1..m}
  <1>1. fin \in SUBSET DOMAIN p /\ fin \in SUBSET (Nat \ {0}) /\ IsFiniteSet(fin)
    <2>1. fin \in SUBSET DOMAIN p
      BY DEF FinishedIds, StepsShape
    <2> QED
      BY <2>1, FS_Subset DEF StepsShape
  <1>2. last \in Nat
    <2>1. fin \cup {0} \in SUBSET Nat /\ fin \cup {0} # {}
      BY <1>1
    <2>2. IsFiniteSet(fin \cup {0})
      BY <1>1, FS_AddElement
    <2>3. Max(fin \cup {0}) \in fin \cup {0}
      BY <2>1, <2>2, GreatestOfFinite
    <2> QED
      BY <2>1, <2>3 DEF LastFinished
  <1>3. ReplannedIds(st, new) = fin \cup fresh
    BY DEF ReplannedIds
  <1> HIDE DEF last
  <1>4. fresh \in SUBSET (Nat \ {0}) /\ \A i \in fresh : i <= last + m
    BY <1>2
  <1>5. IsFiniteSet(fresh)
    <2>1. last + m \in Nat /\ fresh \in SUBSET Nat
      BY <1>2, <1>4
    <2> QED
      BY <1>4, <2>1, FS_BoundedSetOfNaturals
  <1>6. IsFiniteSet(fin \cup fresh) /\ fin \cup fresh \in SUBSET (Nat \ {0})
    BY <1>1, <1>4, <1>5, FS_Union
  <1> HIDE DEF fresh
  <1>7. DOMAIN q = fin \cup fresh /\ DOMAIN sq = fin \cup fresh
    BY <1>3 DEF ReplannedPlan, ReplannedStatus
  <1>8. \A i \in DOMAIN q : IF i \in fin THEN q[i] = p[i] /\ sq[i] = st[i]
                                         ELSE sq[i] = "pending"
    BY <1>3, <1>7 DEF ReplannedPlan, ReplannedStatus
  <1> HIDE DEF q, sq, fin
  <1>9. StepsShape(q, sq) /\ fin \in SUBSET DOMAIN q
    BY <1>6, <1>7 DEF StepsShape
  <1> QED
    BY <1>1, <1>8, <1>9 DEF q, sq, fin

\* A list that the planner may return is applied as a sequence of steps.
LEMMA AppliedDomain ==
    ASSUME NEW list \in Seq(ListedStep)
    PROVE  \E m \in Nat : DOMAIN StepsToApply(list) = 1..m
  <1>1. Len(list) \in Nat /\ DOMAIN list = 1..Len(list) /\ IsFiniteSet(DOMAIN list)
    BY FS_Interval
  <1>2. \E m \in Nat : DOMAIN Repaired(list) = 1..m
    <2> DEFINE kept == {k \in 1..Len(list) :
                           \A j \in 1..(k - 1) : list[j].task # list[k].task}
               once == RemoveDuplicates(list)
    <2>1. DOMAIN once = 1..Cardinality(kept)
      BY DEF RemoveDuplicates, Picked, Numbers, InOrder
    <2>2. IsFiniteSet(kept)
      BY <1>1, FS_Subset
    <2>3. IsFiniteSet(DOMAIN once)
      BY <2>1, <2>2, FS_CardinalityType, FS_Interval
    <2> HIDE DEF once
    <2>4. DOMAIN SortedById(once) = 1..Cardinality(DOMAIN once)
      BY DEF SortedById, Picked, InOrder
    <2>5. DOMAIN Repaired(list) = DOMAIN SortedById(once)
      BY DEF Repaired, Renumbered, once
    <2> QED
      BY <2>3, <2>4, <2>5, FS_CardinalityType
  <1>3. DOMAIN StepsToApply(list) = IF RepairNoted(list) THEN DOMAIN Repaired(list)
                                                         ELSE DOMAIN list
    BY DEF StepsToApply, ListPlan
  <1> QED
    BY <1>1, <1>2, <1>3

(***************************************************************************)
(* _try_apply_replan_steps.  If every finished step is known to be         *)
(* delivered, it stays so.  If only the completed ones are, a repair may   *)
(* move a completed status to the place of a skipped step that is then     *)
(* restored; not so while all steps are done and their tasks differ.       *)
(***************************************************************************)
LEMMA TryApplyDelivers ==
    ASSUME NEW p, NEW st, StepsShape(p, st), NEW list \in Seq(ListedStep),
           NEW owed \in SUBSET FinishedStatus, NEW out, Delivers(p, st, owed, out)
    PROVE  LET result == TryApply(p, st, list)
           IN /\ StepsShape(result.plan, result.status)
              /\ WaitingOrDone(result.status)
              /\ ~result.ok \/ owed = FinishedStatus \/ AllDoneOnce(p, st)
                 => Delivers(result.plan, result.status, owed, out)
  <1> DEFINE new == StepsToApply(list)
             q == ReplannedPlan(p, st, new)
             sq == ReplannedStatus(st, new)
             fin == FinishedIds(st)
             r == ListPlan(Repaired(StepList(q)))
             rr == WithCompletedRestored(r, p, FinishedIds(st))
             rs == RemappedStatus(q, sq)
             result == TryApply(p, st, list)
             Repairs == /\ RepairNoted(StepList(q)) /\ ValidPlan(r)
                        /\ CompletedPreserved(rr, p, FinishedIds(st))
  <1>1. /\ StepsShape(q, sq) /\ fin \in SUBSET DOMAIN p /\ fin \in SUBSET DOMAIN q
        /\ \A i \in DOMAIN q : IF i \in fin THEN q[i] = p[i] /\ sq[i] = st[i]
                                            ELSE sq[i] = "pending"
    <2>1. PICK m \in Nat : DOMAIN new = 1..m
      BY AppliedDomain
    <2> HIDE DEF new
    <2> QED
      BY <2>1, ReplanKeepsDone
  <1>2. \/ result = [ok |-> TRUE, plan |-> q, status |-> sq]
        \/ result = [ok |-> TRUE, plan |-> rr, status |-> rs]
        \/ result = [ok |-> FALSE, plan |-> q, status |-> sq]
    <2>1. CASE ValidPlan(q)
      BY <2>1 DEF TryApply
    <2>2. CASE ~ValidPlan(q) /\ Repairs
      BY <2>2 DEF TryApply
    <2>3. CASE ~ValidPlan(q) /\ ~Repairs
      BY <2>3 DEF TryApply
    <2> QED
      BY <2>1, <2>2, <2>3
  <1>3. DOMAIN rr = DOMAIN r /\ \A k \in DOMAIN r : rr[k] = IF k \in fin THEN p[k] ELSE r[k]
    BY DEF WithCompletedRestored
  <1>4. ASSUME NEW n \in Nat, \A i, j \in 1..n : q[i].task = q[j].task => i = j
        PROVE  MovedFrom(q, sq, n, r, rs)
    <2>1. DOMAIN q \in SUBSET (Nat \ {0}) /\ IsFiniteSet(DOMAIN q)
      BY <1>1 DEF StepsShape
    <2>2. r = ListPlan(Repaired(StepList(q))) /\ rs = RemappedStatus(q, sq)
      OBVIOUS
    <2> HIDE DEF q, sq, r, rs
    <2> QED
      BY <1>4, <2>1, <2>2, RepairMovesSteps
  <1> HIDE DEF new, q, sq, r, rr, rs, result
  <1>5. /\ DOMAIN rs = DOMAIN r
        /\ DOMAIN r \in SUBSET (Nat \ {0}) /\ IsFiniteSet(DOMAIN r)
        /\ \A k \in DOMAIN r : \E id \in DOMAIN q : r[k].task = q[id].task /\ rs[k] = sq[id]
    <2>1. 0 \in Nat /\ \A i, j \in 1..0 : q[i].task = q[j].task => i = j
      OBVIOUS
    <2>2. MovedFrom(q, sq, 0, r, rs)
      BY <1>4, <2>1
    <2> QED
      BY <2>2 DEF MovedFrom
  <1>6. \A i \in fin : st[i] \in FinishedStatus
    BY DEF FinishedIds
  <1>7. \A i \in DOMAIN q : sq[i] = "pending" \/ sq[i] \in FinishedStatus
    BY <1>1, <1>6
  <1>8. StepsShape(q, sq) /\ WaitingOrDone(sq)
    BY <1>1, <1>7 DEF WaitingOrDone, StepsShape
  <1>9. StepsShape(rr, rs) /\ WaitingOrDone(rs)
    <2>1. \A k \in DOMAIN rs : rs[k] = "pending" \/ rs[k] \in FinishedStatus
      BY <1>5, <1>7
    <2> QED
      BY <1>3, <1>5, <2>1 DEF StepsShape, WaitingOrDone
  <1>10. "pending" \notin owed
    BY DEF FinishedStatus
  <1>11. \A i \in DOMAIN q : sq[i] \in owed /\ q[i].task \in ToolTasks => q[i].task \in out
    BY <1>1, <1>10 DEF Delivers
  <1>12. ASSUME owed = FinishedStatus
         PROVE  Delivers(rr, rs, owed, out)
    <2> SUFFICES ASSUME NEW k \in DOMAIN r, rs[k] \in owed, rr[k].task \in ToolTasks
                 PROVE  rr[k].task \in out
      BY <1>3 DEF Delivers
    <2>1. CASE k \in fin
      <3>1. rr[k] = p[k] /\ st[k] \in owed /\ k \in DOMAIN p
        BY <1>1, <1>3, <1>6, <1>12, <2>1
      <3> QED
        BY <3>1 DEF Delivers
    <2>2. CASE k \notin fin
      <3>1. rr[k] = r[k]
        BY <1>3, <2>2
      <3>2. PICK id \in DOMAIN q : r[k].task = q[id].task /\ rs[k] = sq[id]
        BY <1>5
      <3> QED
        BY <1>11, <3>1, <3>2
    <2> QED
      BY <2>1, <2>2
  <1>13. ASSUME AllDoneOnce(p, st)
         PROVE  Delivers(rr, rs, owed, out)
    <2>1. PICK n \in Nat : DOMAIN p = 1..n
      BY <1>13 DEF AllDoneOnce
    <2>2. fin = 1..n /\ \A i, j \in 1..n : p[i].task = p[j].task => i = j
      BY <1>13, <2>1 DEF AllDoneOnce, TasksOnce
    <2>3. 1..n \subseteq DOMAIN q /\ \A i \in 1..n : q[i] = p[i] /\ sq[i] = st[i]
      BY <1>1, <2>2
    <2>4. \A i, j \in 1..n : q[i].task = q[j].task => i = j
      BY <2>2, <2>3
    <2>5. \A k \in DOMAIN r : \E id \in DOMAIN q :
             r[k].task = q[id].task /\ rs[k] = sq[id] /\ (k \in 1..n => id = k)
    <3>1. MovedFrom(q, sq, n, r, rs)
      BY <1>4, <2>4
    <3> QED
      BY <2>3, <3>1 DEF MovedFrom
    <2> SUFFICES ASSUME NEW k \in DOMAIN r, rs[k] \in owed, rr[k].task \in ToolTasks
                 PROVE  rr[k].task \in out
      BY <1>3 DEF Delivers
    <2>6. PICK id \in DOMAIN q :
             r[k].task = q[id].task /\ rs[k] = sq[id] /\ (k \in 1..n => id = k)
      BY <2>5
    <2>7. CASE k \in 1..n
      <3>1. rr[k] = p[k] /\ st[k] \in owed
        BY <1>3, <2>2, <2>3, <2>6, <2>7
      <3> QED
        BY <2>1, <2>7, <3>1 DEF Delivers
    <2>8. CASE k \notin 1..n
      <3>1. rr[k] = r[k]
        BY <1>3, <2>2, <2>8
      <3> QED
        BY <1>11, <2>6, <3>1
    <2> QED
      BY <2>7, <2>8
  <1>14. Delivers(q, sq, owed, out)
    BY <1>11 DEF Delivers
  <1>15. CASE result.plan = q /\ result.status = sq
    BY <1>8, <1>14, <1>15 DEF result
  <1>16. CASE result.ok /\ result.plan = rr /\ result.status = rs
    BY <1>9, <1>12, <1>13, <1>16 DEF result
  <1> QED
    BY <1>2, <1>15, <1>16

-----------------------------------------------------------------------------
(***************************************************************************)
(* What a step of execute() finishes: the step whose observation goes into *)
(* the context, or under policy skip one whose tool failed.                *)
(***************************************************************************)
RunsDomains ==
    /\ DOMAIN plan = Runs /\ DOMAIN status = Runs /\ DOMAIN current = Runs
    /\ DOMAIN pc = Runs /\ DOMAIN outcome = Runs

NoFailure(st) == \A i \in DOMAIN st : st[i] # "failed"

\* What was finished before, was observed just now or was given up.
FinishesObserved(r) ==
    \A j \in DOMAIN plan'[r] : status'[r][j] \in FinishedStatus =>
        \/ j \in DOMAIN plan[r] /\ plan'[r][j] = plan[r][j] /\ status[r][j] = status'[r][j]
        \/ j \in Observed(r)
        \/ policy = "skip" /\ status'[r][j] = "skipped"

OkWhenDone(r) == outcome[r] = "ok" => pc[r] = "ended" /\ AllFinished(status[r])

\* Under policy skip the plan of the call stays, and no step is failed.
SkipKeepsPlan(r) ==
    policy = "skip" /\ NoFailure(status[r]) /\ pc[r] # "planner"
    => plan'[r] = plan[r] /\ NoFailure(status'[r]) /\ pc'[r] # "planner"

LEMMA CallStepFrame ==
    ASSUME RunsDomains, NEW r \in Runs, CallStep(r)
    PROVE  /\ RunsDomains'
           /\ \A q \in Runs \ {r} : /\ plan'[q] = plan[q] /\ status'[q] = status[q]
                                    /\ pc'[q] = pc[q] /\ outcome'[q] = outcome[q]
  <1>1. ASSUME NEW p, NEW st, NEW cur, NEW att, SetState(r, p, st, cur, att)
        PROVE  /\ DOMAIN plan' = Runs /\ DOMAIN status' = Runs /\ DOMAIN current' = Runs
               /\ \A q \in Runs \ {r} : plan'[q] = plan[q] /\ status'[q] = status[q]
    BY <1>1 DEF SetState, RunsDomains
  <1>2. ASSUME \E w : End(r, w) \/ Suspend(r, w)
        PROVE  /\ DOMAIN pc' = Runs /\ DOMAIN outcome' = Runs
               /\ \A q \in Runs \ {r} : pc'[q] = pc[q] /\ outcome'[q] = outcome[q]
    BY <1>2 DEF End, Suspend, RunsDomains
  <1>3. ASSUME NEW p, NEW st, LoopHead(r, p, st)
        PROVE  /\ RunsDomains'
               /\ \A q \in Runs \ {r} : /\ plan'[q] = plan[q] /\ status'[q] = status[q]
                                        /\ pc'[q] = pc[q] /\ outcome'[q] = outcome[q]
    <2>1. /\ \E s, cur, att : SetState(r, p, s, cur, att)
          /\ \E w : End(r, w) \/ Suspend(r, w)
      BY <1>3 DEF LoopHead, StartStep
    <2> QED
      BY <1>1, <1>2, <2>1 DEF RunsDomains
  <1>4. CASE Execute(r) \/ Compressed(r) \/ SkipStep(r)
    BY <1>3, <1>4 DEF Execute, Compressed, SkipStep
  <1>5. CASE ToolSucceeds(r) \/ GiveUpStep(r) \/ Replan(r)
    <2>1. /\ UNCHANGED <<plan, current>> /\ DOMAIN status' = Runs
          /\ \A q \in Runs \ {r} : status'[q] = status[q]
      BY <1>5 DEF ToolSucceeds, GiveUpStep, Replan, RunsDomains
    <2>2. \E w : End(r, w) \/ Suspend(r, w)
      BY <1>5 DEF ToolSucceeds, GiveUpStep, Replan
    <2> QED
      BY <1>2, <2>1, <2>2 DEF RunsDomains
  <1>6. CASE CompressorFails(r) \/ PlannerFails(r)
    <2>1. UNCHANGED <<plan, status, current>> /\ \E w : End(r, w) \/ Suspend(r, w)
      BY <1>6 DEF CompressorFails, PlannerFails, stateVars
    <2> QED
      BY <1>2, <2>1 DEF RunsDomains
  <1>7. CASE RetryStep(r)
    <2>1. CASE UNCHANGED <<plan, status, current, controlVars>>
      BY <2>1 DEF RunsDomains, controlVars
    <2>2. CASE /\ status' = [status EXCEPT ![r][current[r]] = "pending"]
               /\ End(r, "unknown_node")
               /\ UNCHANGED <<plan, current, attempt, graph>>
      <3>1. DOMAIN status' = Runs /\ \A q \in Runs \ {r} : status'[q] = status[q]
        BY <2>2 DEF RunsDomains
      <3> QED
        BY <1>2, <2>2, <3>1 DEF RunsDomains
    <2> QED
      BY <1>7, <2>1, <2>2 DEF RetryStep
  <1>8. CASE PlannerAnswers(r)
    <2>1. PICK p, st : \/ LoopHead(r, p, st)
                       \/ /\ SetState(r, p, st, current[r], attempt[r])
                          /\ End(r, "invalid_plan")
      BY <1>8 DEF PlannerAnswers
    <2> QED
      BY <1>1, <1>2, <1>3, <2>1 DEF RunsDomains
  <1> QED
    BY <1>4, <1>5, <1>6, <1>7, <1>8 DEF CallStep

\* A turn of the loop: a step without arguments or without a tool is observed.
LEMMA LoopHeadFinishes ==
    ASSUME RunsDomains, NEW r \in Runs, NEW p, NEW st, DOMAIN st = DOMAIN p,
           LoopHead(r, p, st), outcome[r] # "ok"
    PROVE  /\ plan'[r] = p /\ DOMAIN status'[r] = DOMAIN p
           /\ \A j \in DOMAIN p : status'[r][j] \in FinishedStatus =>
                 status'[r][j] = st[j] \/ j \in Observed(r)
           /\ OkWhenDone(r)'
           /\ NoFailure(st) => NoFailure(status'[r])
           /\ pc'[r] # "planner"
  <1>1. CASE SetState(r, p, st, 0, 0) /\ End(r, "deadlock")
    <2>1. plan'[r] = p /\ status'[r] = st /\ pc'[r] = "ended" /\ outcome'[r] = "deadlock"
      BY <1>1 DEF SetState, End, RunsDomains
    <2> QED
      BY <2>1 DEF OkWhenDone
  <1>2. CASE AllFinished(st) /\ SetState(r, p, st, 0, 0) /\ End(r, "ok")
    <2>1. plan'[r] = p /\ status'[r] = st /\ pc'[r] = "ended" /\ outcome'[r] = "ok"
      BY <1>2 DEF SetState, End, RunsDomains
    <2>2. AllFinished(status'[r])
      BY <1>2, <2>1
    <2> QED
      BY <2>1, <2>2 DEF OkWhenDone
  <1>3. ASSUME NEW i \in DOMAIN p, StartStep(r, p, st, i)
        PROVE  /\ plan'[r] = p /\ DOMAIN status'[r] = DOMAIN p
               /\ \A j \in DOMAIN p : status'[r][j] \in FinishedStatus =>
                     status'[r][j] = st[j] \/ j \in Observed(r)
               /\ OkWhenDone(r)'
               /\ NoFailure(st) => NoFailure(status'[r])
               /\ pc'[r] # "planner"
    <2>1. PICK s, w : /\ SetState(r, p, [st EXCEPT ![i] = s], i, 1)
                      /\ Suspend(r, w)
                      /\ \/ s = "running" /\ w = "tool"
                         \/ s \in FinishedStatus /\ w = "compress"
      BY <1>3 DEF StartStep, FinishedStatus
    <2>2. /\ plan'[r] = p /\ status'[r] = [st EXCEPT ![i] = s] /\ current'[r] = i
          /\ pc'[r] = w /\ outcome'[r] # "ok"
      BY <2>1 DEF SetState, Suspend, RunsDomains
    <2>3. DOMAIN status'[r] = DOMAIN p
      BY <2>2
    <2>4. \A j \in DOMAIN p : j # i => status'[r][j] = st[j]
      BY <2>2
    <2>5. status'[r][i] = s
      BY <2>2
    <2>6. w = "compress" => i \in Observed(r)
      BY <2>2 DEF Observed
    <2>7. s # "failed" /\ w # "planner" /\ (s \in FinishedStatus => w = "compress")
      BY <2>1 DEF FinishedStatus
    <2>8. \A j \in DOMAIN p : status'[r][j] \in FinishedStatus =>
             status'[r][j] = st[j] \/ j \in Observed(r)
      BY <2>4, <2>5, <2>6, <2>7
    <2>9. NoFailure(st) => NoFailure(status'[r])
      BY <2>3, <2>4, <2>5, <2>7 DEF NoFailure
    <2> QED
      BY <2>2, <2>3, <2>7, <2>8, <2>9 DEF OkWhenDone
  <1> QED
    BY <1>1, <1>2, <1>3 DEF LoopHead

LEMMA CallStepFinishes ==
    ASSUME RunsDomains, NEW r \in Runs, CallStep(r), UNCHANGED policy,
           StepsShape(plan[r], status[r]), OkWhenDone(r)
    PROVE  /\ StepsShape(plan'[r], status'[r])
           /\ FinishesObserved(r)
           /\ OkWhenDone(r)'
           /\ SkipKeepsPlan(r)
  <1> USE DEF StepsShape
  <1>1. /\ DOMAIN plan[r] \in SUBSET (Nat \ {0}) /\ IsFiniteSet(DOMAIN plan[r])
        /\ DOMAIN status[r] = DOMAIN plan[r]
    OBVIOUS
  <1>2. pc[r] # "ended" /\ outcome[r] # "ok"
    <2>1. pc[r] # "ended"
      BY DEF CallStep, Execute, Compressed, SkipStep, ToolSucceeds, GiveUpStep, Replan,
             CompressorFails, PlannerFails, RetryStep, PlannerAnswers
    <2> QED
      BY <2>1 DEF OkWhenDone
  <1>3. CASE Execute(r) \/ Compressed(r)
    <2>1. LoopHead(r, plan[r], status[r]) /\ pc[r] # "planner"
      BY <1>3 DEF Execute, Compressed
    <2>2. /\ plan'[r] = plan[r] /\ DOMAIN status'[r] = DOMAIN plan[r]
          /\ \A j \in DOMAIN plan[r] : status'[r][j] \in FinishedStatus =>
                status'[r][j] = status[r][j] \/ j \in Observed(r)
          /\ OkWhenDone(r)'
          /\ NoFailure(status[r]) => NoFailure(status'[r])
          /\ pc'[r] # "planner"
      BY <1>1, <1>2, <2>1, LoopHeadFinishes
    <2> QED
      BY <1>1, <2>2 DEF FinishesObserved, SkipKeepsPlan
  <1>4. CASE SkipStep(r)
    <2> DEFINE st == [status[r] EXCEPT ![current[r]] = "skipped"]
    <2>1. LoopHead(r, plan[r], st) /\ policy = "skip"
      BY <1>4 DEF SkipStep
    <2>2. DOMAIN st = DOMAIN plan[r]
      BY <1>1
    <2>3. \A j \in DOMAIN plan[r] : st[j] = status[r][j] \/ st[j] = "skipped"
      BY <1>1
    <2> HIDE DEF st
    <2>4. /\ plan'[r] = plan[r] /\ DOMAIN status'[r] = DOMAIN plan[r]
          /\ \A j \in DOMAIN plan[r] : status'[r][j] \in FinishedStatus =>
                status'[r][j] = st[j] \/ j \in Observed(r)
          /\ OkWhenDone(r)'
          /\ NoFailure(st) => NoFailure(status'[r])
          /\ pc'[r] # "planner"
      BY <1>2, <2>1, <2>2, LoopHeadFinishes
    <2>5. FinishesObserved(r)
      BY <2>1, <2>3, <2>4 DEF FinishesObserved
    <2>6. NoFailure(status[r]) => NoFailure(st)
      BY <1>1, <2>2, <2>3 DEF NoFailure
    <2> QED
      BY <1>1, <2>4, <2>5, <2>6 DEF SkipKeepsPlan
  <1>5. CASE ToolSucceeds(r) \/ GiveUpStep(r) \/ Replan(r)
    <2>1. PICK s : /\ status' = [status EXCEPT ![r][current[r]] = s]
                   /\ \/ s = "completed" /\ Suspend(r, "compress")
                      \/ s = "failed" /\ policy # "skip"
      BY <1>5 DEF ToolSucceeds, GiveUpStep, Replan
    <2>2. plan' = plan /\ current' = current
      BY <1>5 DEF ToolSucceeds, GiveUpStep, Replan
    <2>3. status'[r] = [status[r] EXCEPT ![current[r]] = s]
      BY <2>1 DEF RunsDomains
    <2>4. /\ DOMAIN status'[r] = DOMAIN plan[r]
          /\ \A j \in DOMAIN plan[r] : j # current[r] => status'[r][j] = status[r][j]
          /\ \A j \in DOMAIN plan[r] : j = current[r] => status'[r][j] = s
      BY <1>1, <2>3
    <2>5. s = "completed" => pc'[r] = "compress" /\ current[r] \in Observed(r)
      BY <2>1, <2>2 DEF Suspend, RunsDomains, Observed
    <2>6. FinishesObserved(r)
      BY <1>1, <2>1, <2>2, <2>4, <2>5 DEF FinishesObserved, FinishedStatus
    <2>7. outcome'[r] # "ok"
      BY <1>2, <1>5 DEF ToolSucceeds, GiveUpStep, Replan, End, Suspend, RunsDomains
    <2>8. SkipKeepsPlan(r)
      BY <1>1, <2>1, <2>2, <2>4, <2>5 DEF SkipKeepsPlan, NoFailure
    <2> QED
      BY <1>1, <2>2, <2>4, <2>6, <2>7, <2>8 DEF OkWhenDone
  <1>6. CASE CompressorFails(r) \/ PlannerFails(r)
    <2>1. plan' = plan /\ status' = status
      BY <1>6 DEF CompressorFails, PlannerFails, stateVars
    <2>2. pc'[r] = "ended" /\ outcome'[r] # "ok"
      BY <1>6 DEF CompressorFails, PlannerFails, End, RunsDomains
    <2> QED
      BY <1>1, <2>1, <2>2 DEF FinishesObserved, SkipKeepsPlan, OkWhenDone
  <1>7. CASE RetryStep(r)
    <2>1. policy # "skip" /\ plan' = plan /\ outcome'[r] # "ok"
      BY <1>2, <1>7 DEF RetryStep, End, RunsDomains, controlVars
    <2>2. \/ status' = status
          \/ status' = [status EXCEPT ![r][current[r]] = "pending"]
      BY <1>7 DEF RetryStep
    <2>3. /\ DOMAIN status'[r] = DOMAIN plan[r]
          /\ \A j \in DOMAIN plan[r] : status'[r][j] = status[r][j] \/ status'[r][j] = "pending"
      BY <1>1, <2>2 DEF RunsDomains
    <2>4. FinishesObserved(r)
      BY <1>1, <2>1, <2>3 DEF FinishesObserved, FinishedStatus
    <2> QED
      BY <1>1, <2>1, <2>3, <2>4 DEF SkipKeepsPlan, OkWhenDone
  <1>8. CASE PlannerAnswers(r)
    <2>1. PICK new \in Proposals :
             \/ LoopHead(r, ReplannedPlan(plan[r], status[r], new), ReplannedStatus(status[r], new))
             \/ /\ SetState(r, ReplannedPlan(plan[r], status[r], new),
                            ReplannedStatus(status[r], new), current[r], attempt[r])
                /\ End(r, "invalid_plan")
      BY <1>8 DEF PlannerAnswers
    <2> DEFINE p == ReplannedPlan(plan[r], status[r], new)
               st == ReplannedStatus(status[r], new)
    <2>2. DOMAIN new = 1..Len(new) /\ Len(new) \in Nat
      BY ProposalsAssumption
    <2>3. /\ StepsShape(p, st)
          /\ FinishedIds(status[r]) \in SUBSET DOMAIN plan[r]
          /\ \A i \in DOMAIN p :
                IF i \in FinishedIds(status[r]) THEN p[i] = plan[r][i] /\ st[i] = status[r][i]
                                                ELSE st[i] = "pending"
      <3> HIDE DEF StepsShape
      <3> QED
        BY <2>2, ReplanKeepsDone
    <2> HIDE DEF p, st
    <2>4. \A j \in DOMAIN p : st[j] \in FinishedStatus =>
             j \in DOMAIN plan[r] /\ p[j] = plan[r][j] /\ status[r][j] = st[j]
      BY <2>3 DEF FinishedStatus
    <2>5. pc[r] = "planner"
      BY <1>8 DEF PlannerAnswers
    <2>6. CASE LoopHead(r, p, st)
      <3>1. /\ plan'[r] = p /\ DOMAIN status'[r] = DOMAIN p
            /\ \A j \in DOMAIN p : status'[r][j] \in FinishedStatus =>
                  status'[r][j] = st[j] \/ j \in Observed(r)
            /\ OkWhenDone(r)'
        BY <1>2, <2>3, <2>6, LoopHeadFinishes
      <3> QED
        BY <2>3, <2>4, <2>5, <3>1 DEF FinishesObserved, SkipKeepsPlan
    <2>7. CASE SetState(r, p, st, current[r], attempt[r]) /\ End(r, "invalid_plan")
      <3>1. /\ plan'[r] = p /\ status'[r] = st
            /\ pc'[r] = "ended" /\ outcome'[r] = "invalid_plan"
        BY <2>7 DEF SetState, End, RunsDomains
      <3> QED
        BY <2>3, <2>4, <2>5, <3>1 DEF FinishesObserved, SkipKeepsPlan, OkWhenDone
    <2> QED
      BY <2>1, <2>6, <2>7 DEF p, st
  <1> QED
    BY <1>3, <1>4, <1>5, <1>6, <1>7, <1>8 DEF CallStep

-----------------------------------------------------------------------------
\* normalize_plan leaves no task twice in a plan.
InitialTasksOnce == \A p \in InitialPlans : TasksOnce(p)

\* The statuses whose steps are known to be delivered.  A tool that fails under
\* policy skip was not.
Owed(r) ==
    IF policy # "skip" THEN FinishedStatus
    ELSE IF InitialTasksOnce /\ applied[r] <= 1 THEN {"completed"} ELSE {}

(***************************************************************************)
(* Request r: what its steps delivered is in tool_outputs, and what the    *)
(* critique that it awaits a replan for calls missing is not.  Under       *)
(* policy skip a plan that the critic has not replanned is the first one.  *)
(***************************************************************************)
RequestInv(r) ==
    /\ StepsShape(plan[r], status[r])
    /\ phase[r] # "done" => OkWhenDone(r)
    /\ phase[r] \in {"critic", "replanner"} => outcome[r] = "ok"
    /\ policy = "skip" =>
          /\ NoFailure(status[r]) /\ pc[r] # "planner"
          /\ applied[r] = 0 /\ phase[r] # "done" => plan[r] \in InitialPlans
    /\ phase[r] = "replanner" =>
          \A k \in critique[r].missing :
             NativeTool[k] \in ToolTasks \ context[r]["tool_outputs"]
    /\ Delivers(plan[r], status[r], Owed(r), context[r]["tool_outputs"])

DeliveryInv ==
    /\ RunsDomains /\ VerdictInv /\ ReplansInv
    /\ policy \in Policies
    /\ \A r \in Runs : RequestInv(r)

\* What a step of request r leaves of the others.
OthersKept(r) ==
    /\ policy' = policy
    /\ \A q \in Runs \ {r} :
          /\ plan'[q] = plan[q] /\ status'[q] = status[q]
          /\ pc'[q] = pc[q] /\ outcome'[q] = outcome[q]
          /\ phase'[q] = phase[q] /\ applied'[q] = applied[q]
          /\ critique'[q] = critique[q] /\ context'[q] = context[q]

LEMMA RequestsOfOthers ==
    ASSUME NEW r \in Runs, OthersKept(r), \A q \in Runs : RequestInv(q)
    PROVE  \A q \in Runs \ {r} : RequestInv(q)'
  BY DEF OthersKept, RequestInv, OkWhenDone, Owed

\* The plan that handle() leaves is that of the one list or the other.
LEMMA ReplannedApplies ==
    ASSUME NEW r \in Runs, Replanned(r)
    PROVE  \E l \in LLMLists \cup FallbackLists :
              LET result == TryApply(plan[r], status[r], l)
              IN /\ plan' = [plan EXCEPT ![r] = result.plan]
                 /\ status' = [status EXCEPT ![r] = result.status]
                 /\ IF result.ok
                    THEN /\ Go(r, "execute")
                         /\ pc' = [pc EXCEPT ![r] = "idle"]
                         /\ outcome' = [outcome EXCEPT ![r] = "none"]
                         /\ applied' = [applied EXCEPT ![r] = @ + 1]
                    ELSE Go(r, "done") /\ UNCHANGED <<controlVars, applied>>
  <1>1. PICK list \in LLMLists, fallback \in FallbackLists :
           LET first == TryApply(plan[r], status[r], list)
               result == IF first.ok THEN first ELSE TryApply(plan[r], status[r], fallback)
           IN /\ plan' = [plan EXCEPT ![r] = result.plan]
              /\ status' = [status EXCEPT ![r] = result.status]
              /\ IF result.ok
                 THEN /\ Go(r, "execute")
                      /\ pc' = [pc EXCEPT ![r] = "idle"]
                      /\ outcome' = [outcome EXCEPT ![r] = "none"]
                      /\ applied' = [applied EXCEPT ![r] = @ + 1]
                 ELSE Go(r, "done") /\ UNCHANGED <<controlVars, applied>>
    BY DEF Replanned
  <1>2. CASE TryApply(plan[r], status[r], list).ok
    BY <1>1, <1>2
  <1>3. CASE ~TryApply(plan[r], status[r], list).ok
    BY <1>1, <1>3
  <1> QED
    BY <1>2, <1>3

LEMMA RunStepKeepsOthers ==
    ASSUME DeliveryInv, NEW r \in Runs, RunStep(r)
    PROVE  RunsDomains' /\ OthersKept(r)
  <1>1. RunsDomains /\ applied \in [Runs -> Nat]
    BY DEF DeliveryInv, ReplansInv
  <1>2. \A q \in Runs \ {r} : /\ phase'[q] = phase[q] /\ critique'[q] = critique[q]
                              /\ context'[q] = context[q]
    BY RunStepIsItsOwn DEF DeliveryInv, OnlyItsOwn
  <1>3. \A q \in Runs \ {r} : applied'[q] = applied[q]
    BY <1>1 DEF RunStep, CreatePlan, ExecutorStep, ExecutionEnds, CriticAnswers, Replanned,
                ModelRaises
  <1>4. CASE CreatePlan(r) \/ ExecutionEnds(r) \/ CriticAnswers(r) \/ ModelRaises(r)
    <2>1. UNCHANGED <<policy, plan, status, current, pc, outcome>>
      BY <1>4 DEF CreatePlan, ExecutionEnds, CriticAnswers, ModelRaises, vars, stateVars,
                  controlVars
    <2> QED
      BY <1>1, <1>2, <1>3, <2>1 DEF RunsDomains, OthersKept
  <1>5. CASE ExecutorStep(r)
    <2>1. CallStep(r) /\ policy' = policy
      BY <1>5 DEF ExecutorStep
    <2> QED
      BY <1>1, <1>2, <1>3, <2>1, CallStepFrame DEF OthersKept
  <1>6. CASE Replanned(r)
    <2>1. policy' = policy /\ current' = current
      BY <1>6 DEF Replanned
    <2>2. PICK p, st : plan' = [plan EXCEPT ![r] = p] /\ status' = [status EXCEPT ![r] = st]
      BY <1>6, ReplannedApplies
    <2>3. \/ UNCHANGED controlVars
          \/ /\ pc' = [pc EXCEPT ![r] = "idle"]
             /\ outcome' = [outcome EXCEPT ![r] = "none"]
      BY <1>6, ReplannedApplies
    <2> QED
      BY <1>1, <1>2, <1>3, <2>1, <2>2, <2>3 DEF RunsDomains, OthersKept, controlVars
  <1> QED
    BY <1>4, <1>5, <1>6 DEF RunStep

\* maybe_compress preserves tool_outputs.
LEMMA ObservationsKept ==
    ASSUME VerdictInv, NEW r \in Runs, ExecutorStep(r)
    PROVE  context'[r]["tool_outputs"] =
              context[r]["tool_outputs"]
                 \cup ({plan'[r][i].task : i \in Observed(r)} \cap ToolTasks)
  <1>1. PICK c \in CompressedContext(context[r]) \cup {context[r]} :
           context' = [context EXCEPT ![r] = MergedContext(r, c)]
    BY DEF ExecutorStep
  <1>2. c["tool_outputs"] = context[r]["tool_outputs"]
    BY DEF CompressedContext, ContextKeys, PreservedKeys
  <1>3. context'[r] = MergedContext(r, c)
    BY <1>1 DEF VerdictInv
  <1> QED
    BY <1>2, <1>3 DEF MergedContext

LEMMA ExecutorStepKeepsRequest ==
    ASSUME DeliveryInv, NEW r \in Runs, ExecutorStep(r)
    PROVE  RequestInv(r)'
  <1>1. /\ CallStep(r) /\ policy' = policy /\ phase[r] = "execute"
        /\ UNCHANGED <<phase, critique, applied>>
    BY DEF ExecutorStep
  <1>2. RunsDomains /\ RequestInv(r) /\ VerdictInv
    BY DEF DeliveryInv
  <1>3. /\ StepsShape(plan'[r], status'[r])
        /\ FinishesObserved(r)
        /\ OkWhenDone(r)'
        /\ SkipKeepsPlan(r)
    BY <1>1, <1>2, CallStepFinishes DEF RequestInv
  <1> DEFINE had == context[r]["tool_outputs"]
             has == context'[r]["tool_outputs"]
             owed == Owed(r)
  <1>4. has = had \cup ({plan'[r][i].task : i \in Observed(r)} \cap ToolTasks)
    BY <1>2, ObservationsKept
  <1>5. Owed(r)' = owed
    BY <1>1 DEF Owed
  <1>6. owed \subseteq FinishedStatus /\ (policy = "skip" => "skipped" \notin owed)
    BY DEF Owed, FinishedStatus
  <1>7. Delivers(plan[r], status[r], owed, had)
    BY <1>2 DEF RequestInv
  <1> HIDE DEF had, has, owed
  <1>8. Delivers(plan'[r], status'[r], owed, has)
    <2> SUFFICES ASSUME NEW j \in DOMAIN plan'[r], status'[r][j] \in owed,
                        plan'[r][j].task \in ToolTasks
                 PROVE  plan'[r][j].task \in has
      BY DEF Delivers
    <2>1. CASE j \in DOMAIN plan[r] /\ plan'[r][j] = plan[r][j] /\ status[r][j] = status'[r][j]
      BY <1>4, <1>7, <2>1 DEF Delivers
    <2>2. CASE j \in Observed(r)
      BY <1>4, <2>2
    <2> QED
      BY <1>3, <1>6, <2>1, <2>2 DEF FinishesObserved
  <1>9. policy' = "skip" =>
           /\ NoFailure(status'[r]) /\ pc'[r] # "planner"
           /\ applied'[r] = 0 /\ phase'[r] # "done" => plan'[r] \in InitialPlans
    BY <1>1, <1>2, <1>3 DEF RequestInv, SkipKeepsPlan
  <1>10. phase'[r] = "execute"
    BY <1>1
  <1>11. Delivers(plan'[r], status'[r], Owed(r)', context'[r]["tool_outputs"])
    BY <1>5, <1>8 DEF has
  <1> QED
    BY <1>3, <1>9, <1>10, <1>11 DEF RequestInv

\* The steps that leave the plan and the context of the request.
LEMMA OtherStepsKeepRequest ==
    ASSUME DeliveryInv, NEW r \in Runs,
           CreatePlan(r) \/ ExecutionEnds(r) \/ CriticAnswers(r) \/ ModelRaises(r)
    PROVE  RequestInv(r)'
  <1>1. RequestInv(r) /\ VerdictInv
    BY DEF DeliveryInv
  <1>2. UNCHANGED <<policy, plan, status, pc, outcome, context, applied>>
    BY DEF CreatePlan, ExecutionEnds, CriticAnswers, ModelRaises, vars, stateVars, controlVars
  <1>3. /\ phase[r] # "done"
        /\ phase'[r] \in {"critic", "replanner"} => outcome[r] = "ok"
        /\ phase'[r] = "replanner" =>
              \A k \in critique'[r].missing :
                 NativeTool[k] \in ToolTasks \ context[r]["tool_outputs"]
    <2>1. CASE CreatePlan(r) \/ ExecutionEnds(r) \/ ModelRaises(r)
      BY <1>1, <2>1 DEF CreatePlan, ExecutionEnds, ModelRaises, Go, VerdictInv
    <2>2. CASE CriticAnswers(r)
      <3>1. PICK v \in Verdicts(r) : critique' = [critique EXCEPT ![r] = v]
        BY <2>2 DEF CriticAnswers
      <3>2. phase[r] = "critic" /\ critique'[r] = v /\ outcome[r] = "ok"
        BY <1>1, <2>2, <3>1 DEF CriticAnswers, VerdictInv, RequestInv
      <3>3. \/ v.missing = {}
            \/ v = RulesVerdict(goal[r], context[r]["tool_outputs"], Skipped(r))
        <4>1. FallbackVerdict.missing = {}
          BY DEF FallbackVerdict, RulesVerdict
        <4> QED
          BY <4>1 DEF Verdicts
      <3>4. ASSUME NEW k \in v.missing
            PROVE  NativeTool[k] \in ToolTasks \ context[r]["tool_outputs"]
        <4>1. k \in goal[r] /\ NativeTool[k] \notin context[r]["tool_outputs"]
          BY <3>3, <3>4 DEF RulesVerdict
        <4>2. k \in Kinds
          BY <1>1, <4>1, KindsAssumption DEF VerdictInv
        <4> QED
          BY <4>1, <4>2, KindsAssumption
      <3> QED
        BY <3>2, <3>4
    <2> QED
      BY <2>1, <2>2
  <1>4. Owed(r)' = Owed(r) /\ OkWhenDone(r)'
    BY <1>1, <1>2, <1>3 DEF Owed, OkWhenDone, RequestInv
  <1> QED
    BY <1>1, <1>2, <1>3, <1>4 DEF RequestInv

\* A validated plan numbers its steps from 1.
LEMMA ValidPlanIds ==
    ASSUME NEW p, IsPlan(p), ValidPlan(p)
    PROVE  \E n \in Nat : DOMAIN p = 1..n
  <1>1. /\ DOMAIN p \in SUBSET Nat /\ DOMAIN p # {} /\ IsFiniteSet(DOMAIN p)
        /\ \A i \in DOMAIN p : i # 0 /\ 1..i \subseteq DOMAIN p
    BY DEF IsPlan, ValidPlan
  <1>2. PICK n \in DOMAIN p : \A i \in DOMAIN p : i <= n
    BY <1>1, GreatestOfFinite
  <1>3. n \in Nat /\ 1..n \subseteq DOMAIN p
    BY <1>1
  <1>4. \A i \in DOMAIN p : i \in 1..n
    BY <1>1, <1>2, <1>3
  <1> QED
    BY <1>3, <1>4

LEMMA ReplannedKeepsRequest ==
    ASSUME DeliveryInv, NEW r \in Runs, Replanned(r)
    PROVE  RequestInv(r)'
  <1>1. /\ RunsDomains /\ RequestInv(r) /\ VerdictInv
        /\ applied \in [Runs -> Nat]
    BY DEF DeliveryInv, ReplansInv
  <1>3. PICK l \in LLMLists \cup FallbackLists :
           LET result == TryApply(plan[r], status[r], l)
           IN /\ plan' = [plan EXCEPT ![r] = result.plan]
              /\ status' = [status EXCEPT ![r] = result.status]
              /\ IF result.ok
                 THEN /\ Go(r, "execute")
                      /\ pc' = [pc EXCEPT ![r] = "idle"]
                      /\ outcome' = [outcome EXCEPT ![r] = "none"]
                      /\ applied' = [applied EXCEPT ![r] = @ + 1]
                 ELSE Go(r, "done") /\ UNCHANGED <<controlVars, applied>>
    BY ReplannedApplies
  <1> DEFINE p == plan[r]
             st == status[r]
             out == context[r]["tool_outputs"]
             owed == Owed(r)
             result == TryApply(p, st, l)
  <1>4. /\ phase[r] = "replanner" /\ policy' = policy /\ context' = context
    BY DEF Replanned
  <1>5. /\ plan'[r] = result.plan /\ status'[r] = result.status
        /\ \/ /\ result.ok /\ phase'[r] = "execute" /\ pc'[r] = "idle"
              /\ outcome'[r] = "none" /\ applied'[r] = applied[r] + 1
           \/ /\ ~result.ok /\ phase'[r] = "done" /\ pc'[r] = pc[r]
              /\ outcome'[r] = outcome[r] /\ applied'[r] = applied[r]
    <2> HIDE DEF result
    <2>1. /\ plan' = [plan EXCEPT ![r] = result.plan]
          /\ status' = [status EXCEPT ![r] = result.status]
          /\ IF result.ok
             THEN /\ Go(r, "execute")
                  /\ pc' = [pc EXCEPT ![r] = "idle"]
                  /\ outcome' = [outcome EXCEPT ![r] = "none"]
                  /\ applied' = [applied EXCEPT ![r] = @ + 1]
             ELSE Go(r, "done") /\ UNCHANGED <<controlVars, applied>>
      BY <1>3 DEF result
    <2> QED
      BY <1>1, <2>1 DEF Go, controlVars, RunsDomains, VerdictInv
  <1>6. l \in Seq(ListedStep)
    BY ControllerAssumption
  <1>7. StepsShape(p, st) /\ Delivers(p, st, owed, out)
    BY <1>1 DEF RequestInv
  <1>8. owed \in SUBSET FinishedStatus /\ Owed(r)' \subseteq owed
    BY <1>1, <1>4, <1>5 DEF Owed, FinishedStatus
  <1>9. ASSUME policy = "skip", InitialTasksOnce, applied[r] = 0
        PROVE  AllDoneOnce(p, st)
    <2>1. /\ p \in InitialPlans /\ AllFinished(st) /\ NoFailure(st)
          /\ DOMAIN st = DOMAIN p
      BY <1>1, <1>4, <1>9 DEF RequestInv, OkWhenDone, StepsShape
    <2>2. FinishedIds(st) = DOMAIN p
      BY <2>1 DEF AllFinished, NoFailure, SettledStatus, FinishedIds
    <2>3. TasksOnce(p)
      BY <1>9, <2>1 DEF InitialTasksOnce
    <2>4. \E n \in Nat : DOMAIN p = 1..n
      BY <2>1, PlansAssumption, ValidPlanIds
    <2> QED
      BY <2>2, <2>3, <2>4 DEF AllDoneOnce
  <1> HIDE DEF p, st, out, owed
  <1>10. /\ StepsShape(result.plan, result.status)
         /\ WaitingOrDone(result.status)
         /\ ~result.ok \/ owed = FinishedStatus \/ AllDoneOnce(p, st)
            => Delivers(result.plan, result.status, owed, out)
    BY <1>6, <1>7, <1>8, TryApplyDelivers
  <1> HIDE DEF result
  <1>11. Delivers(result.plan, result.status, Owed(r)', out)
    <2>1. CASE ~result.ok \/ owed = FinishedStatus \/ AllDoneOnce(p, st)
      BY <1>8, <1>10, <2>1 DEF Delivers
    <2>2. CASE /\ result.ok /\ owed # FinishedStatus
               /\ ~AllDoneOnce(p, st)
      <3>1. policy = "skip"
        BY <2>2 DEF Owed, owed
      <3>2. ~InitialTasksOnce \/ applied'[r] > 1
        <4>1. ~InitialTasksOnce \/ applied[r] # 0
          BY <1>9, <2>2, <3>1
        <4>2. applied'[r] = applied[r] + 1 /\ applied[r] \in Nat
          BY <1>1, <1>5, <2>2
        <4> QED
          BY <4>1, <4>2
      <3>3. ~(applied'[r] <= 1) \/ ~InitialTasksOnce
        <4>1. applied'[r] \in Nat
          BY <1>1, <1>5
        <4> QED
          BY <3>2, <4>1
      <3>4. Owed(r)' = {}
        BY <1>4, <3>1, <3>3 DEF Owed
      <3> QED
        BY <3>4 DEF Delivers
    <2> QED
      BY <2>1, <2>2
  <1>12. phase'[r] # "done" => OkWhenDone(r)'
    <2>1. CASE result.ok
      BY <1>5, <2>1 DEF OkWhenDone
    <2>2. CASE ~result.ok
      BY <1>5, <2>2
    <2> QED
      BY <2>1, <2>2
  <1>13. policy' = "skip" =>
            /\ NoFailure(status'[r]) /\ pc'[r] # "planner"
            /\ applied'[r] = 0 /\ phase'[r] # "done" => plan'[r] \in InitialPlans
    <2> SUFFICES ASSUME policy = "skip"
                 PROVE  /\ NoFailure(status'[r]) /\ pc'[r] # "planner"
                        /\ applied'[r] = 0 => phase'[r] = "done"
      BY <1>4
    <2>1. NoFailure(status'[r])
      BY <1>5, <1>10 DEF NoFailure, WaitingOrDone, FinishedStatus
    <2>2. pc'[r] # "planner"
      BY <1>1, <1>5 DEF RequestInv
    <2>3. applied'[r] = 0 => phase'[r] = "done"
      BY <1>1, <1>5
    <2> QED
      BY <2>1, <2>2, <2>3
  <1>14. phase'[r] \notin {"critic", "replanner"}
    BY <1>5
  <1>15. /\ StepsShape(plan'[r], status'[r])
         /\ Delivers(plan'[r], status'[r], Owed(r)', context'[r]["tool_outputs"])
    BY <1>4, <1>5, <1>10, <1>11 DEF out
  <1> QED
    BY <1>12, <1>13, <1>14, <1>15 DEF RequestInv

LEMMA NextKeepsDelivery == DeliveryInv /\ [OrchestrationNext]_allVars => DeliveryInv'
  <1> SUFFICES ASSUME DeliveryInv, [OrchestrationNext]_allVars
               PROVE  DeliveryInv'
    OBVIOUS
  <1>1. VerdictInv' /\ ReplansInv'
    BY NextKeepsVerdict, NextKeepsReplans DEF DeliveryInv
  <1>2. CASE UNCHANGED allVars
    BY <1>1, <1>2 DEF DeliveryInv, RunsDomains, RequestInv, OkWhenDone, Owed, allVars, runVars,
                      vars, stateVars, controlVars
  <1>3. ASSUME NEW r \in Runs, RunStep(r)
        PROVE  DeliveryInv'
    <2>1. RunsDomains' /\ OthersKept(r)
      BY <1>3, RunStepKeepsOthers
    <2>2. \A q \in Runs \ {r} : RequestInv(q)'
      BY <2>1, RequestsOfOthers DEF DeliveryInv
    <2>3. RequestInv(r)'
      BY <1>3, ExecutorStepKeepsRequest, OtherStepsKeepRequest, ReplannedKeepsRequest
         DEF RunStep
    <2>4. policy' \in Policies
      BY <2>1 DEF OthersKept, DeliveryInv
    <2> QED
      BY <1>1, <2>1, <2>2, <2>3, <2>4 DEF DeliveryInv
  <1> QED
    BY <1>2, <1>3 DEF OrchestrationNext, AllEnded

LEMMA InitDeliveryInv == OrchestrationInit => DeliveryInv
  <1> SUFFICES ASSUME OrchestrationInit
               PROVE  DeliveryInv
    OBVIOUS
  <1>1. VerdictInv
    BY DEF OrchestrationInit, VerdictInv, NoCritique
  <1>2. ReplansInv
    <2>1. UsedReplans = [r \in Runs |-> 0]
      BY DEF OrchestrationInit, UsedReplans
    <2>2. IsFiniteSet(Counted(UsedReplans)) /\ Total(UsedReplans) = 0
      BY <2>1, NothingCounted
    <2> QED
      BY <2>2, ControllerAssumption DEF OrchestrationInit, ReplansInv
  <1>3. RunsDomains /\ policy \in Policies
    BY DEF OrchestrationInit, Init, RunsDomains
  <1>4. ASSUME NEW r \in Runs
        PROVE  RequestInv(r)
    <2>1. /\ plan[r] \in InitialPlans /\ status[r] = AllPending(plan[r])
          /\ outcome[r] = "none" /\ pc[r] = "idle" /\ phase[r] = "new"
      BY DEF OrchestrationInit, Init
    <2>2. \A i \in DOMAIN plan[r] : status[r][i] = "pending"
      BY <2>1 DEF AllPending
    <2>3. DOMAIN status[r] = DOMAIN plan[r]
      BY <2>1 DEF AllPending
    <2>4. StepsShape(plan[r], status[r])
      BY <2>1, <2>3, PlansAssumption DEF StepsShape, IsPlan
    <2>5. NoFailure(status[r])
      BY <2>2, <2>3 DEF NoFailure
    <2>6. Delivers(plan[r], status[r], Owed(r), context[r]["tool_outputs"])
      BY <2>2 DEF Delivers, Owed, FinishedStatus
    <2> QED
      BY <2>1, <2>4, <2>5, <2>6 DEF RequestInv, OkWhenDone
  <1> QED
    BY <1>1, <1>2, <1>3, <1>4 DEF DeliveryInv

\* Each request has its share of the replans.
LEMMA ReplansOfOne ==
    ASSUME ReplansInv, NEW r \in Runs, phase[r] = "replanner"
    PROVE  applied[r] + 1 <= MaxCriticReplans
  <1> DEFINE used == UsedReplans
             one == [q \in Runs |-> IF q = r THEN used[r] ELSE 0]
  <1>1. /\ used \in [Runs -> Nat] /\ used[r] = applied[r] + 1
        /\ IsFiniteSet(Counted(used)) /\ Total(used) <= attempts
        /\ attempts \in Nat /\ attempts <= MaxCriticReplans /\ applied[r] \in Nat
    BY UsedReplansType DEF ReplansInv
  <1> HIDE DEF used
  <1>2. one \in [Runs -> Nat] /\ \A q \in Runs : one[q] <= used[q]
    BY <1>1
  <1>3. one[r] = used[r] /\ \A q \in Runs \ {r} : one[q] = 0
    OBVIOUS
  <1> HIDE DEF one
  <1>4. Total(one) <= Total(used) /\ Total(one) \in Nat /\ Total(used) \in Nat
    BY <1>1, <1>2, CountsAreMonotone
  <1>5. Total(one) = used[r]
    BY <1>2, <1>3, CountOfOne
  <1> QED
    BY <1>1, <1>4, <1>5, ControllerAssumption

\* What is owed is not asked for.
LEMMA OwedIsNotMissing ==
    ASSUME DeliveryInv, \A r \in Runs : phase[r] = "replanner" => "completed" \in Owed(r)
    PROVE  NothingDoneIsMissing
  <1> SUFFICES ASSUME NEW r \in Runs, NEW k \in critique[r].missing, phase[r] = "replanner",
                      NEW i \in DOMAIN plan[r], status[r][i] = "completed",
                      plan[r][i].task = NativeTool[k]
               PROVE  FALSE
    BY DEF NothingDoneIsMissing
  <1>1. RequestInv(r) /\ "completed" \in Owed(r)
    BY DEF DeliveryInv
  <1>2. NativeTool[k] \in ToolTasks \ context[r]["tool_outputs"]
    BY <1>1 DEF RequestInv
  <1>3. Delivers(plan[r], status[r], Owed(r), context[r]["tool_outputs"])
    BY <1>1 DEF RequestInv
  <1> QED
    BY <1>1, <1>2, <1>3 DEF Delivers

\* NothingDoneIsMissing under the policies retry and replan: for any plans and
\* lists, any number of replans and of requests, compressed however often, the
\* rules never ask again for what a completed step has delivered.
THEOREM NothingDoneAskedAgainUnlessSkipping ==
    OrchestrationSpec => [](policy # "skip" => NothingDoneIsMissing)
  <1>1. DeliveryInv => (policy # "skip" => NothingDoneIsMissing)
    <2> SUFFICES ASSUME DeliveryInv, policy # "skip"
                 PROVE  NothingDoneIsMissing
      OBVIOUS
    <2>1. \A r \in Runs : "completed" \in Owed(r)
      BY DEF Owed, FinishedStatus
    <2> QED
      BY <2>1, OwedIsNotMissing
  <1> QED
    BY <1>1, InitDeliveryInv, NextKeepsDelivery, PTL DEF OrchestrationSpec

\* NothingDoneIsMissing under every policy: with at most two replans by the critic,
\* which is what settings.py configures, and plans that repeat no task, as
\* normalize_plan leaves them.
THEOREM NothingDoneAskedAgain ==
    ASSUME MaxCriticReplans <= 2, InitialTasksOnce
    PROVE  OrchestrationSpec => []NothingDoneIsMissing
  <1>1. DeliveryInv => NothingDoneIsMissing
    <2> SUFFICES ASSUME DeliveryInv
                 PROVE  NothingDoneIsMissing
      OBVIOUS
    <2>1. ASSUME NEW r \in Runs, phase[r] = "replanner"
          PROVE  "completed" \in Owed(r)
      <3>1. applied[r] + 1 <= MaxCriticReplans /\ applied[r] \in Nat
        BY <2>1, ReplansOfOne DEF DeliveryInv, ReplansInv
      <3>2. applied[r] <= 1
        BY <3>1, ControllerAssumption
      <3> QED
        BY <3>2 DEF Owed, FinishedStatus
    <2> QED
      BY <2>1, OwedIsNotMissing
  <1> QED
    BY <1>1, InitDeliveryInv, NextKeepsDelivery, PTL DEF OrchestrationSpec

-----------------------------------------------------------------------------
(***************************************************************************)
(* What the controller makes of a list is a plan, whatever ids and         *)
(* dependencies the list has.                                              *)
(***************************************************************************)
StepsIn(list) ==
    /\ IsList(list)
    /\ \A k \in DOMAIN list : list[k].task \in Tasks /\ list[k].deps \subseteq Nat

LEMMA ListPlanSteps ==
    ASSUME NEW list, StepsIn(list)
    PROVE  ListPlan(list) \in Seq(Step)
  <1>1. PICK n \in Nat : list = [k \in 1..n |-> list[k]]
    BY DEF StepsIn, IsList
  <1>2. DOMAIN list = 1..n
    BY <1>1
  <1>3. \A k \in 1..n : Unlisted(list[k]) \in Step
    BY <1>2 DEF StepsIn, Unlisted, Step
  <1> QED
    BY <1>2, <1>3 DEF ListPlan

\* Picking some positions.
LEMMA PickedSteps ==
    ASSUME NEW list, StepsIn(list), \A k \in DOMAIN list : list[k].id \in Nat,
           NEW S \in SUBSET DOMAIN list, NEW order, ListsOnce(order, S)
    PROVE  /\ StepsIn(Picked(list, order))
           /\ \A k \in DOMAIN Picked(list, order) : Picked(list, order)[k].id \in Nat
           /\ \A i \in S : \E k \in DOMAIN Picked(list, order) : Picked(list, order)[k] = list[i]
  <1> DEFINE out == Picked(list, order)
  <1>1. PickedBy(order, out, list) /\ \A i \in S : \E k \in DOMAIN out : out[k] = list[i]
    BY PickingOnce
  <1> HIDE DEF out
  <1>2. \A k \in DOMAIN out : \E j \in DOMAIN list : out[k] = list[j]
    BY <1>1 DEF PickedBy
  <1>3. StepsIn(out) /\ \A k \in DOMAIN out : out[k].id \in Nat
    BY <1>1, <1>2 DEF StepsIn, PickedBy
  <1> QED
    BY <1>1, <1>3 DEF out

LEMMA RepairedSteps ==
    ASSUME NEW list, StepsIn(list), \A k \in DOMAIN list : list[k].id \in Nat
    PROVE  StepsIn(Repaired(list))
  <1> DEFINE S == {k \in 1..Len(list) : \A j \in 1..(k - 1) : list[j].task # list[k].task}
             once == RemoveDuplicates(list)
             sorted == SortedById(once)
             idMap == IdMap(once)
             At(x) == {k \in DOMAIN sorted : sorted[k].id = x}
             ids == {once[k].id : k \in DOMAIN once}
             out == Repaired(list)
  <1>1. StepsIn(once) /\ \A k \in DOMAIN once : once[k].id \in Nat
    <2>1. Len(list) \in Nat /\ DOMAIN list = 1..Len(list) /\ IsFiniteSet(DOMAIN list)
      BY ListLength DEF StepsIn
    <2>2. S \in SUBSET DOMAIN list /\ S \in SUBSET (Nat \ {0}) /\ IsFiniteSet(S)
      BY <2>1, FS_Subset
    <2>3. once = Picked(list, Increasing(S))
      BY DEF RemoveDuplicates, Numbers, InOrder, Increasing
    <2> HIDE DEF S, once
    <2>4. ListsOnce(Increasing(S), S)
      BY <2>2, NumbersListOnce
    <2> QED
      BY <2>2, <2>3, <2>4, PickedSteps
  <1>2. /\ DOMAIN idMap = ids
        /\ \A x \in ids : idMap[x] = Max(At(x))
    BY DEF IdMap
  <1>3. out = [k \in DOMAIN sorted |-> [id   |-> idMap[sorted[k].id],
                                        task |-> sorted[k].task,
                                        deps |-> RenumberedDeps(sorted[k], idMap)]]
    BY DEF Repaired, Renumbered
  <1> HIDE DEF S, once, idMap, out
  <1>4. /\ StepsIn(sorted)
        /\ \A i \in DOMAIN once : \E k \in DOMAIN sorted : sorted[k] = once[i]
    <2> DEFINE order == Ranked(DOMAIN once, IdOrder(once))
    <2>1. sorted = Picked(once, order) /\ ListsOnce(order, DOMAIN once)
      BY <1>1, SortedByIdPicks DEF StepsIn
    <2>2. DOMAIN once \in SUBSET DOMAIN once
      OBVIOUS
    <2> HIDE DEF order, sorted
    <2>3. /\ StepsIn(Picked(once, order))
          /\ \A i \in DOMAIN once : \E k \in DOMAIN Picked(once, order) :
                Picked(once, order)[k] = once[i]
      BY <1>1, <2>1, <2>2, PickedSteps
    <2> QED
      BY <2>1, <2>3
  <1> HIDE DEF sorted
  <1>5. ASSUME NEW x \in ids
        PROVE  idMap[x] \in Nat
    <2>1. PICK i \in DOMAIN once : once[i].id = x
      OBVIOUS
    <2>2. PICK k \in DOMAIN sorted : sorted[k] = once[i]
      BY <1>4
    <2>3. DOMAIN sorted \in SUBSET Nat /\ IsFiniteSet(DOMAIN sorted)
      BY <1>4, ListLength DEF StepsIn
    <2>4. At(x) \in SUBSET Nat /\ At(x) # {} /\ IsFiniteSet(At(x))
      BY <2>1, <2>2, <2>3, FS_Subset
    <2>5. Max(At(x)) \in At(x)
      BY <2>4, GreatestOfFinite
    <2> QED
      BY <1>2, <2>4, <2>5
  <1>6. \A k \in DOMAIN sorted : RenumberedDeps(sorted[k], idMap) \subseteq Nat
    BY <1>2, <1>5 DEF RenumberedDeps
  <1>7. PICK n \in Nat : DOMAIN sorted = 1..n
    BY <1>4 DEF StepsIn, IsList
  <1>8. IsList(out)
    BY <1>3, <1>7 DEF IsList
  <1>9. \A k \in DOMAIN out : out[k].task \in Tasks /\ out[k].deps \subseteq Nat
    BY <1>3, <1>4, <1>6 DEF StepsIn
  <1> QED
    BY <1>8, <1>9 DEF StepsIn, out

LEMMA AppliedSteps ==
    ASSUME NEW list \in Seq(ListedStep)
    PROVE  StepsToApply(list) \in Seq(Step)
  <1>1. Len(list) \in Nat /\ list = [k \in 1..Len(list) |-> list[k]]
    OBVIOUS
  <1>2. \A k \in DOMAIN list : list[k] \in ListedStep
    OBVIOUS
  <1>3. StepsIn(list) /\ \A k \in DOMAIN list : list[k].id \in Nat
    BY <1>1, <1>2 DEF StepsIn, IsList, ListedStep
  <1>4. StepsIn(Repaired(list))
    BY <1>3, RepairedSteps
  <1>5. ListPlan(Repaired(list)) \in Seq(Step) /\ ListPlan(list) \in Seq(Step)
    BY <1>3, <1>4, ListPlanSteps
  <1> QED
    BY <1>5 DEF StepsToApply

(***************************************************************************)
(* Putting the finished steps of a valid plan back into a valid one: ids   *)
(* stay continuous, and what a finished step depends on comes before it.   *)
(***************************************************************************)
LEMMA RestoringKeepsValid ==
    ASSUME NEW p, IsPlan(p), ValidPlan(p), NEW fin, fin \subseteq DOMAIN p,
           NEW r, DOMAIN r \subseteq Nat \ {0}, ValidPlan(r)
    PROVE  ValidPlan(WithCompletedRestored(r, p, fin))
  <1> DEFINE rr == WithCompletedRestored(r, p, fin)
  <1>1. /\ DOMAIN rr = DOMAIN r
        /\ \A i \in DOMAIN r : rr[i] = IF i \in fin THEN p[i] ELSE r[i]
    BY DEF WithCompletedRestored
  <1> HIDE DEF rr
  <1>2. DOMAIN rr # {} /\ \A i \in DOMAIN rr : 1..i \subseteq DOMAIN rr
    BY <1>1 DEF ValidPlan
  <1>3. ASSUME NEW i \in DOMAIN rr, NEW d \in rr[i].deps
        PROVE  d \in DOMAIN rr /\ d < i
    <2>1. CASE i \in fin
      <3>1. d \in DOMAIN p /\ d < i
        BY <1>1, <1>3, <2>1 DEF ValidPlan
      <3>2. d \in 1..i
        BY <1>1, <1>3, <3>1 DEF IsPlan
      <3> QED
        BY <1>2, <3>1, <3>2
    <2>2. CASE i \notin fin
      BY <1>1, <1>3, <2>2 DEF ValidPlan
    <2> QED
      BY <2>1, <2>2
  <1>4. \A i \in DOMAIN rr : rr[i].task \notin Unregistered
    BY <1>1 DEF ValidPlan
  <1>5. ValidPlan(rr)
    BY <1>2, <1>3, <1>4 DEF ValidPlan
  <1> QED
    BY <1>5 DEF rr

(***************************************************************************)
(* A valid plan whose finished steps come before the others: what a        *)
(* finished step depends on is finished.                                   *)
(***************************************************************************)
LEMMA PrefixKeepsDeps ==
    ASSUME NEW p, ValidPlan(p), NEW st, DOMAIN st = DOMAIN p,
           \A j, k \in DOMAIN p : j < k /\ st[k] # "pending" => st[j] \in FinishedStatus
    PROVE  DepsKept(p, st)
  BY DEF ValidPlan, DepsKept, DepsMet, FinishedIds

(***************************************************************************)
(* _try_apply_replan_steps on a plan that execute() has finished, whatever *)
(* the list: the steps wait or are finished, none before what it depends   *)
(* on, and a plan that is executed again is valid.  The finished steps     *)
(* stay as they are if no task is in the plan twice.                       *)
(***************************************************************************)
StateSafe(p, st) ==
    /\ IsPlan(p) /\ st \in [DOMAIN p -> Status]
    /\ Quiet(st) /\ DepsKept(p, st)

LEMMA TryApplySafe ==
    ASSUME NEW p, NEW st, IsPlan(p), st \in [DOMAIN p -> Status], ValidPlan(p),
           FinishedIds(st) = DOMAIN p, DepsKept(p, st), NEW list \in Seq(ListedStep)
    PROVE  LET result == TryApply(p, st, list)
           IN /\ StateSafe(result.plan, result.status)
              /\ result.ok => ValidPlan(result.plan)
              /\ TasksOnce(p) => KeepsFinished(p, st, result.plan, result.status)
  <1> DEFINE new == StepsToApply(list)
             q == ReplannedPlan(p, st, new)
             sq == ReplannedStatus(st, new)
             r == ListPlan(Repaired(StepList(q)))
             rr == WithCompletedRestored(r, p, FinishedIds(st))
             rs == RemappedStatus(q, sq)
             result == TryApply(p, st, list)
             Repairs == /\ RepairNoted(StepList(q)) /\ ValidPlan(r)
                        /\ CompletedPreserved(rr, p, FinishedIds(st))
  <1>1. /\ IsPlan(q) /\ sq \in [DOMAIN q -> Status] /\ Quiet(sq)
        /\ FinishedIds(sq) = FinishedIds(st)
        /\ KeepsFinished(p, st, q, sq)
    <2>1. new \in Seq(Step)
      BY AppliedSteps
    <2> HIDE DEF new
    <2> QED
      BY <2>1, ReplanKeepsFinished
  <1>2. \/ result.plan = q /\ result.status = sq /\ (result.ok => ValidPlan(q))
        \/ result = [ok |-> TRUE, plan |-> rr, status |-> rs] /\ ValidPlan(r)
    <2>1. CASE ValidPlan(q)
      BY <2>1 DEF TryApply
    <2>2. CASE ~ValidPlan(q) /\ Repairs
      BY <2>2 DEF TryApply
    <2>3. CASE ~ValidPlan(q) /\ ~Repairs
      BY <2>3 DEF TryApply
    <2> QED
      BY <2>1, <2>2, <2>3
  <1>3. /\ DOMAIN rr = DOMAIN r
        /\ \A k \in DOMAIN r : rr[k] = IF k \in DOMAIN p THEN p[k] ELSE r[k]
    BY DEF WithCompletedRestored
  <1>4. \A k \in DOMAIN r : r[k] = [task |-> r[k].task, deps |-> r[k].deps]
    BY DEF ListPlan, Unlisted
  <1>5. r = ListPlan(Repaired(StepList(q))) /\ rs = RemappedStatus(q, sq)
    OBVIOUS
  <1>6. rr = [k \in DOMAIN r |-> rr[k]] /\ rs = [k \in DOMAIN r |-> rs[k]]
    BY <1>3 DEF WithCompletedRestored, RemappedStatus
  <1>7. DOMAIN r \subseteq Nat \ {0} /\ ValidPlan(r) => ValidPlan(rr)
    <2> HIDE DEF r
    <2> QED
      BY RestoringKeepsValid
  <1>8. DOMAIN q \in SUBSET (Nat \ {0}) /\ IsFiniteSet(DOMAIN q)
    BY <1>1 DEF IsPlan
  <1> HIDE DEF new, q, sq, r, rr, rs, result, Repairs
  <1>9. PICK n \in Nat : DOMAIN p = 1..n
    BY ValidPlanIds
  <1>10. \A i \in DOMAIN p : i \in DOMAIN q /\ q[i] = p[i] /\ sq[i] = st[i]
    BY <1>1 DEF KeepsFinished
  <1>11. \A i \in DOMAIN q : IF i \in 1..n THEN sq[i] \in FinishedStatus ELSE sq[i] = "pending"
    BY <1>1, <1>9 DEF FinishedIds, Quiet, FinishedStatus
  <1>12. StateSafe(q, sq)
    <2>1. DepsKept(q, sq)
      BY <1>1, FinishedKeepDeps
    <2> QED
      BY <1>1, <2>1 DEF StateSafe
  <1>13. MovedFrom(q, sq, 0, r, rs)
    <2>1. 0 \in Nat /\ \A i, j \in 1..0 : q[i].task = q[j].task => i = j
      OBVIOUS
    <2> QED
      BY <1>5, <1>8, <2>1, RepairMovesSteps
  <1>14. ASSUME ValidPlan(r)
         PROVE  StateSafe(rr, rs) /\ ValidPlan(rr)
    <2>1. /\ DOMAIN rs = DOMAIN r
          /\ DOMAIN r \in SUBSET (Nat \ {0}) /\ IsFiniteSet(DOMAIN r)
          /\ \A k \in DOMAIN r : \E id \in DOMAIN q : r[k].task = q[id].task /\ rs[k] = sq[id]
          /\ \A j, k \in DOMAIN r : j < k =>
                \E x, y \in DOMAIN q : x < y /\ rs[j] = sq[x] /\ rs[k] = sq[y]
      BY <1>13 DEF MovedFrom
    <2>2. ValidPlan(rr)
      BY <1>7, <1>14, <2>1
    <2>3. ASSUME NEW k \in DOMAIN r
          PROVE  rr[k] \in Step
      <3>1. CASE k \in DOMAIN p
        BY <1>3, <3>1 DEF IsPlan
      <3>2. CASE k \notin DOMAIN p
        <4>1. r[k].task \in Tasks
          BY <1>1, <2>1 DEF IsPlan, Step
        <4>2. r[k].deps \subseteq Nat
          BY <1>14, <2>1 DEF ValidPlan
        <4> QED
          BY <1>3, <1>4, <3>2, <4>1, <4>2 DEF Step
      <3> QED
        BY <3>1, <3>2
    <2>4. IsPlan(rr)
      BY <1>3, <1>6, <2>1, <2>3 DEF IsPlan
    <2>5. \A k \in DOMAIN r : rs[k] \in Status /\ rs[k] \in {"pending", "completed", "skipped"}
      BY <1>1, <2>1 DEF Quiet
    <2>6. rs \in [DOMAIN rr -> Status] /\ Quiet(rs)
      BY <1>3, <1>6, <2>1, <2>5 DEF Quiet
    <2>7. ASSUME NEW j \in DOMAIN r, NEW k \in DOMAIN r, j < k, rs[k] # "pending"
          PROVE  rs[j] \in FinishedStatus
      <3>1. PICK x \in DOMAIN q, y \in DOMAIN q : x < y /\ rs[j] = sq[x] /\ rs[k] = sq[y]
        BY <2>1, <2>7
      <3>2. y \in 1..n
        BY <1>11, <2>7, <3>1
      <3>3. x \in 1..n
        BY <1>8, <3>1, <3>2
      <3> QED
        BY <1>11, <3>1, <3>3
    <2>8. DepsKept(rr, rs)
      BY <1>3, <2>1, <2>2, <2>7, PrefixKeepsDeps
    <2> QED
      BY <2>2, <2>4, <2>6, <2>8 DEF StateSafe
  <1>15. ASSUME TasksOnce(p)
         PROVE  KeepsFinished(p, st, rr, rs)
    <2>1. \A i, j \in 1..n : q[i].task = q[j].task => i = j
      BY <1>9, <1>10, <1>15 DEF TasksOnce
    <2>2. MovedFrom(q, sq, n, r, rs)
      BY <1>5, <1>8, <2>1, RepairMovesSteps
    <2>3. 1..n \subseteq DOMAIN r /\ \A k \in 1..n : rs[k] = sq[k]
      BY <1>9, <1>10, <2>2 DEF MovedFrom
    <2> QED
      BY <1>3, <1>9, <1>10, <2>3 DEF KeepsFinished
  <1>16. CASE result.plan = q /\ result.status = sq /\ (result.ok => ValidPlan(q))
    BY <1>1, <1>12, <1>16 DEF result
  <1>17. CASE result = [ok |-> TRUE, plan |-> rr, status |-> rs] /\ ValidPlan(r)
    BY <1>14, <1>15, <1>17 DEF result
  <1> QED
    BY <1>2, <1>16, <1>17

-----------------------------------------------------------------------------
(***************************************************************************)
(* The executions of a request one after the other.  CallInv is true of    *)
(* each, as the critic's replans leave finished or waiting steps and a     *)
(* valid plan, and none is begun otherwise.  A request that ends with a    *)
(* refused replan is left with what could not be applied.  Unless          *)
(* execute() replans, the first plan stays until the critic's first replan.*)
(***************************************************************************)
RequestSafe(r) ==
    /\ phase[r] # "done" => CallInv(r)
    /\ phase[r] = "done" => pc[r] = "ended"
    /\ phase[r] \in {"critic", "replanner"} => outcome[r] = "ok"
    /\ outcome[r] # "deadlock" /\ DepsKept(plan[r], status[r])
    /\ policy # "replan" /\ applied[r] = 0 /\ phase[r] # "done" =>
          plan[r] \in InitialPlans /\ pc[r] # "planner"

ExecutionInv == TypeOK /\ DeliveryInv /\ \A r \in Runs : RequestSafe(r)

FinishedKept(r) == KeepsFinished(plan[r], status[r], plan'[r], status'[r])

\* What a step of request r keeps of its own and of the others' state.
RequestStepSafe(r) ==
    /\ TypeOK' /\ RequestSafe(r)'
    /\ \A q \in Runs \ {r} : current'[q] = current[q]
    /\ phase[r] # "replanner" => FinishedKept(r)
    /\ InitialTasksOnce /\ policy # "replan" /\ applied[r] = 0 => FinishedKept(r)

\* Only a replan of execute() changes the plan during a call.
LEMMA CallStepKeepsPlan ==
    ASSUME RunsDomains, NEW r \in Runs, CallStep(r), policy # "replan", pc[r] # "planner"
    PROVE  plan'[r] = plan[r] /\ pc'[r] # "planner"
  <1>1. ASSUME NEW st, LoopHead(r, plan[r], st)
        PROVE  plan'[r] = plan[r] /\ pc'[r] # "planner"
    <2>1. /\ \E s, cur, att : SetState(r, plan[r], s, cur, att)
          /\ \/ \E o : End(r, o)
             \/ \E w \in {"tool", "compress"} : Suspend(r, w)
      BY <1>1 DEF LoopHead, StartStep
    <2> QED
      BY <2>1 DEF SetState, End, Suspend, RunsDomains
  <1>2. CASE Execute(r) \/ Compressed(r) \/ SkipStep(r)
    BY <1>1, <1>2 DEF Execute, Compressed, SkipStep
  <1>3. CASE ToolSucceeds(r) \/ GiveUpStep(r) \/ CompressorFails(r)
    BY <1>3 DEF ToolSucceeds, GiveUpStep, CompressorFails, End, Suspend, RunsDomains, stateVars
  <1>4. CASE RetryStep(r)
    BY <1>4 DEF RetryStep, End, RunsDomains, controlVars
  <1>5. ~Replan(r) /\ ~PlannerAnswers(r) /\ ~PlannerFails(r)
    BY DEF Replan, PlannerAnswers, PlannerFails
  <1> QED
    BY <1>2, <1>3, <1>4, <1>5 DEF CallStep

LEMMA ExecutorStepSafe ==
    ASSUME ExecutionInv, NEW r \in Runs, ExecutorStep(r)
    PROVE  RequestStepSafe(r)
  <1>1. /\ phase[r] = "execute" /\ CallStep(r) /\ UNCHANGED policy
        /\ UNCHANGED <<phase, applied>>
    BY DEF ExecutorStep
  <1>2. TypeOK /\ RequestSafe(r) /\ CallInv(r) /\ RunsDomains
    BY <1>1 DEF ExecutionInv, RequestSafe, DeliveryInv
  <1>3. StepKeepsInv(r)
    BY <1>1, <1>2, CallStepKeepsInv
  <1>4. TypeOK' /\ CallInv(r)' /\ FinishedKept(r)
        /\ \A q \in Runs \ {r} : current'[q] = current[q]
    BY <1>3 DEF StepKeepsInv, FinishedKept, OthersAsBefore
  <1>5. policy' # "replan" /\ applied'[r] = 0 => plan'[r] \in InitialPlans /\ pc'[r] # "planner"
    BY <1>1, <1>2, CallStepKeepsPlan DEF RequestSafe
  <1>6. outcome'[r] # "deadlock" /\ DepsKept(plan'[r], status'[r]) /\ phase'[r] = "execute"
    BY <1>1, <1>4 DEF CallInv
  <1>7. RequestSafe(r)'
    BY <1>4, <1>5, <1>6 DEF RequestSafe
  <1> QED
    BY <1>4, <1>7 DEF RequestStepSafe

LEMMA OtherStepsSafe ==
    ASSUME ExecutionInv, NEW r \in Runs,
           CreatePlan(r) \/ ExecutionEnds(r) \/ CriticAnswers(r) \/ ModelRaises(r)
    PROVE  RequestStepSafe(r)
  <1>1. TypeOK /\ RequestSafe(r) /\ DOMAIN phase = Runs
    BY DEF ExecutionInv, DeliveryInv, VerdictInv
  <1>2. UNCHANGED <<vars, applied>>
    BY DEF CreatePlan, ExecutionEnds, CriticAnswers, ModelRaises
  <1>3. /\ phase[r] # "done"
        /\ phase'[r] = "done" => pc[r] = "ended"
        /\ phase'[r] \in {"critic", "replanner"} => outcome[r] = "ok"
    <2>1. phase[r] = "critic" => pc[r] = "ended" /\ outcome[r] = "ok"
      BY <1>1 DEF RequestSafe, CallInv
    <2> QED
      BY <1>1, <2>1 DEF CreatePlan, ExecutionEnds, CriticAnswers, ModelRaises, Go
  <1>4. CallInv(r)' /\ DepsKept(plan'[r], status'[r])
    BY <1>1, <1>2, <1>3 DEF RequestSafe, CallInv, vars, stateVars, controlVars
  <1>5. RequestSafe(r)'
    BY <1>1, <1>2, <1>3, <1>4 DEF RequestSafe, vars, stateVars, controlVars
  <1>6. TypeOK' /\ FinishedKept(r)
    BY <1>1, <1>2 DEF TypeOK, FinishedKept, KeepsFinished, FinishedIds, vars, stateVars,
                      controlVars, replanVars
  <1> QED
    BY <1>2, <1>5, <1>6 DEF RequestStepSafe, vars, stateVars

LEMMA ReplannedSafe ==
    ASSUME ExecutionInv, NEW r \in Runs, Replanned(r)
    PROVE  RequestStepSafe(r)
  <1>1. /\ TypeOK /\ RequestSafe(r) /\ DOMAIN phase = Runs /\ applied \in [Runs -> Nat]
        /\ phase[r] = "replanner"
    BY DEF ExecutionInv, DeliveryInv, VerdictInv, ReplansInv, Replanned
  <1>2. CallInv(r) /\ outcome[r] = "ok" /\ pc[r] = "ended"
    BY <1>1 DEF RequestSafe, CallInv
  <1>3. /\ IsPlan(plan[r]) /\ status[r] \in [DOMAIN plan[r] -> Status] /\ ValidPlan(plan[r])
        /\ FinishedIds(status[r]) = DOMAIN plan[r] /\ DepsKept(plan[r], status[r])
    BY <1>1, <1>2 DEF CallInv, TypeOK
  <1>4. PICK l \in LLMLists \cup FallbackLists :
           LET result == TryApply(plan[r], status[r], l)
           IN /\ plan' = [plan EXCEPT ![r] = result.plan]
              /\ status' = [status EXCEPT ![r] = result.status]
              /\ IF result.ok
                 THEN /\ Go(r, "execute")
                      /\ pc' = [pc EXCEPT ![r] = "idle"]
                      /\ outcome' = [outcome EXCEPT ![r] = "none"]
                      /\ applied' = [applied EXCEPT ![r] = @ + 1]
                 ELSE Go(r, "done") /\ UNCHANGED <<controlVars, applied>>
    BY ReplannedApplies
  <1> DEFINE result == TryApply(plan[r], status[r], l)
             p == plan[r]
             st == status[r]
  <1>5. /\ StateSafe(result.plan, result.status)
        /\ result.ok => ValidPlan(result.plan)
        /\ TasksOnce(p) => KeepsFinished(p, st, result.plan, result.status)
    <2>1. l \in Seq(ListedStep)
      BY ControllerAssumption
    <2> HIDE DEF p, st
    <2> QED
      BY <1>3, <2>1, TryApplySafe DEF p, st
  <1>6. /\ plan' = [plan EXCEPT ![r] = result.plan]
        /\ status' = [status EXCEPT ![r] = result.status]
        /\ IF result.ok
           THEN /\ Go(r, "execute")
                /\ pc' = [pc EXCEPT ![r] = "idle"]
                /\ outcome' = [outcome EXCEPT ![r] = "none"]
                /\ applied' = [applied EXCEPT ![r] = @ + 1]
           ELSE Go(r, "done") /\ UNCHANGED <<controlVars, applied>>
        /\ UNCHANGED <<policy, current, attempt, replanVars, graph>>
    BY <1>4 DEF Replanned
  <1> HIDE DEF result, p, st
  <1>7. /\ DOMAIN plan = Runs /\ DOMAIN status = Runs
        /\ pc \in [Runs -> PCs] /\ outcome \in [Runs -> Outcomes]
        /\ \A q \in Runs : IsPlan(plan[q]) /\ status[q] \in [DOMAIN plan[q] -> Status]
    BY <1>1 DEF TypeOK
  <1>8. /\ DOMAIN plan' = Runs /\ DOMAIN status' = Runs
        /\ plan'[r] = result.plan /\ status'[r] = result.status
        /\ \A q \in Runs \ {r} : plan'[q] = plan[q] /\ status'[q] = status[q]
    BY <1>6, <1>7
  <1>9. \A q \in Runs : IsPlan(plan'[q]) /\ status'[q] \in [DOMAIN plan'[q] -> Status]
    <2> TAKE q \in Runs
    <2>1. CASE q = r
      BY <1>5, <1>8, <2>1 DEF StateSafe
    <2>2. CASE q # r
      BY <1>7, <1>8, <2>2
    <2> QED
      BY <2>1, <2>2
  <1>10. pc' \in [Runs -> PCs] /\ outcome' \in [Runs -> Outcomes]
    BY <1>6, <1>7 DEF controlVars, PCs, Outcomes
  <1>11. TypeOK'
    BY <1>1, <1>6, <1>8, <1>9, <1>10 DEF TypeOK, replanVars
  <1>12. IF result.ok
         THEN /\ phase'[r] = "execute" /\ pc'[r] = "idle" /\ outcome'[r] = "none"
              /\ applied'[r] = applied[r] + 1
         ELSE phase'[r] = "done" /\ pc'[r] = "ended" /\ outcome'[r] = "ok"
    BY <1>1, <1>2, <1>6, <1>7 DEF Go, controlVars
  <1>13. RequestSafe(r)'
    <2>1. CASE result.ok
      <3>1. CallInv(r)'
        BY <1>5, <1>8, <1>12, <2>1 DEF CallInv, StateSafe
      <3>2. applied'[r] # 0
        BY <1>1, <1>12, <2>1
      <3> QED
        BY <1>12, <2>1, <3>1, <3>2 DEF RequestSafe, CallInv
    <2>2. CASE ~result.ok
      BY <1>5, <1>8, <1>12, <2>2 DEF RequestSafe, StateSafe
    <2> QED
      BY <2>1, <2>2
  <1>14. ASSUME InitialTasksOnce, policy # "replan", applied[r] = 0
         PROVE  FinishedKept(r)
    <2>1. TasksOnce(p)
      BY <1>1, <1>14 DEF RequestSafe, InitialTasksOnce, p
    <2> QED
      BY <1>5, <1>8, <2>1 DEF FinishedKept, p, st
  <1> QED
    BY <1>1, <1>6, <1>11, <1>13, <1>14 DEF RequestStepSafe

\* Requests share nothing that their parts of the invariant speak of.
LEMMA SafetyOfOthers ==
    ASSUME NEW r \in Runs, OthersKept(r), \A q \in Runs : RequestSafe(q),
           \A q \in Runs \ {r} : current'[q] = current[q]
    PROVE  \A q \in Runs \ {r} : RequestSafe(q)'
  BY DEF OthersKept, RequestSafe, CallInv

\* What a step keeps of the work that is finished.
StepKeepsWork ==
    \A r \in Runs :
        /\ phase[r] # "replanner" => FinishedKept(r)
        /\ InitialTasksOnce /\ policy # "replan" /\ applied[r] = 0 => FinishedKept(r)

LEMMA NextKeepsExecution ==
    ExecutionInv /\ [OrchestrationNext]_allVars => ExecutionInv' /\ StepKeepsWork
  <1> SUFFICES ASSUME ExecutionInv, [OrchestrationNext]_allVars
               PROVE  ExecutionInv' /\ StepKeepsWork
    OBVIOUS
  <1>1. DeliveryInv'
    BY NextKeepsDelivery DEF ExecutionInv
  <1>2. \A q \in Runs : KeepsFinished(plan[q], status[q], plan[q], status[q])
    BY DEF ExecutionInv, TypeOK, KeepsFinished, FinishedIds
  <1>3. CASE UNCHANGED allVars
    <2>1. TypeOK' /\ \A r \in Runs : RequestSafe(r)'
      BY <1>3 DEF ExecutionInv, TypeOK, RequestSafe, CallInv, allVars, runVars, vars, stateVars,
                  controlVars, replanVars
    <2>2. \A r \in Runs : FinishedKept(r)
      BY <1>2, <1>3 DEF FinishedKept, allVars, vars, stateVars
    <2> QED
      BY <1>1, <2>1, <2>2 DEF ExecutionInv, StepKeepsWork
  <1>4. ASSUME NEW r \in Runs, RunStep(r)
        PROVE  ExecutionInv' /\ StepKeepsWork
    <2>1. RequestStepSafe(r)
      BY <1>4, ExecutorStepSafe, OtherStepsSafe, ReplannedSafe DEF RunStep
    <2>2. OthersKept(r)
      BY <1>4, RunStepKeepsOthers DEF ExecutionInv
    <2>3. \A q \in Runs \ {r} : RequestSafe(q)'
      BY <2>1, <2>2, SafetyOfOthers DEF ExecutionInv, RequestStepSafe
    <2>4. \A q \in Runs \ {r} : FinishedKept(q)
      BY <1>2, <2>2 DEF OthersKept, FinishedKept
    <2> QED
      BY <1>1, <2>1, <2>3, <2>4 DEF ExecutionInv, RequestStepSafe, StepKeepsWork
  <1> QED
    BY <1>3, <1>4 DEF OrchestrationNext, AllEnded

LEMMA InitExecutionInv == OrchestrationInit => ExecutionInv
  <1> SUFFICES ASSUME OrchestrationInit
               PROVE  ExecutionInv
    OBVIOUS
  <1>1. IInv /\ DeliveryInv
    BY InitIInv, InitDeliveryInv DEF OrchestrationInit
  <1>2. \A r \in Runs : /\ phase[r] = "new" /\ pc[r] = "idle" /\ outcome[r] = "none"
                        /\ plan[r] \in InitialPlans
    BY DEF OrchestrationInit, Init
  <1>3. \A r \in Runs : RequestSafe(r)
    BY <1>1, <1>2 DEF IInv, RequestSafe, CallInv
  <1> QED
    BY <1>1, <1>3 DEF ExecutionInv, IInv

\* A plan that is executed is valid, and one that the critic judges is finished.
PlansFit ==
    \A r \in Runs :
        /\ pc[r] # "ended" => ValidPlan(plan[r])
        /\ phase[r] \in {"critic", "replanner"} => FinishedIds(status[r]) = DOMAIN plan[r]

\* The executor's guarantees hold for every execution of a request, also after the
\* critic's replans: whatever lists the model or the rules propose and however they
\* are repaired, no step is run or finished before what it depends on, "Plan deadlock"
\* is never raised, plans are executed only when valid and judged only when finished.
THEOREM ExecutionsAreSafe ==
    OrchestrationSpec => [](TypeOK /\ NoPlanDeadlock /\ DependenciesRespected /\ PlansFit)
  <1>1. ExecutionInv => TypeOK /\ NoPlanDeadlock /\ DependenciesRespected /\ PlansFit
    <2> SUFFICES ASSUME ExecutionInv
                 PROVE  TypeOK /\ NoPlanDeadlock /\ DependenciesRespected /\ PlansFit
      OBVIOUS
    <2>1. NoPlanDeadlock /\ DependenciesRespected
      BY DEF ExecutionInv, RequestSafe, NoPlanDeadlock, DependenciesRespected, DepsKept
    <2>2. PlansFit
      BY DEF ExecutionInv, RequestSafe, CallInv, PlansFit
    <2> QED
      BY <2>1, <2>2 DEF ExecutionInv
  <1> QED
    BY <1>1, InitExecutionInv, NextKeepsExecution, PTL DEF OrchestrationSpec

\* "Completed steps are immutable": no step of an execution, a critique or a
\* compression changes or loses a finished step of any request.  What can is a replan
\* that the critic asked for.
THEOREM FinishedKeptUntilReplan ==
    OrchestrationSpec => [][\A r \in Runs : phase[r] # "replanner" => FinishedKept(r)]_allVars
  <1>1. StepKeepsWork => \A r \in Runs : phase[r] # "replanner" => FinishedKept(r)
    BY DEF StepKeepsWork
  <1> QED
    BY <1>1, InitExecutionInv, NextKeepsExecution, PTL DEF OrchestrationSpec

\* "Completed steps are immutable": the critic's first replan keeps them as well, also
\* through a repair that renumbers, when the plan repeats no task, as normalize_plan
\* leaves it, and execute() has not replanned.  The second may lose them.
THEOREM FirstReplanKeepsFinished ==
    ASSUME InitialTasksOnce
    PROVE  OrchestrationSpec =>
              [][\A r \in Runs : policy # "replan" /\ applied[r] = 0 => FinishedKept(r)]_allVars
  <1>1. StepKeepsWork =>
           \A r \in Runs : policy # "replan" /\ applied[r] = 0 => FinishedKept(r)
    BY DEF StepKeepsWork
  <1> QED
    BY <1>1, InitExecutionInv, NextKeepsExecution, PTL DEF OrchestrationSpec

=============================================================================
