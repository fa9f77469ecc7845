----------------------------- MODULE PlanRepair -----------------------------
(***************************************************************************)
(* plan/repair.py and the part of plan/replanning_controller.py that puts  *)
(* a list of steps from the planner into a PlanState.  A list is what the  *)
(* language model wrote: ids may repeat, be out of order or missing, and a *)
(* dependency may be any number.                                           *)
(***************************************************************************)
EXTENDS PlanSteps

ListedStep == [id : Nat, task : Tasks, deps : SUBSET Nat]

\* The elements of the list at the positions of order.
Picked(list, order) == [r \in DOMAIN order |-> list[order[r]]]

\* The members of S in the order of Precedes: the k-th has k - 1 before it.
InOrder(S, Precedes(_, _)) ==
    [k \in 1..Cardinality(S) |->
        CHOOSE x \in S : Cardinality({y \in S : Precedes(y, x)}) = k - 1]

\* The numbers of 1..n with the property P, in increasing order.
Numbers(n, P(_)) == InOrder({k \in 1..n : P(k)}, <)

\* remove_duplicate_steps: the first of the steps with the same task stays.
RemoveDuplicates(list) ==
    Picked(list, Numbers(Len(list),
        LAMBDA k : \A j \in 1..(k - 1) : list[j].task # list[k].task))

(***************************************************************************)
(* renumber_steps: the steps are sorted by id and numbered 1..n.  The map  *)
(* of old to new ids is a dictionary, so of equal ids the last one counts. *)
(***************************************************************************)
SortedById(list) ==
    Picked(list, InOrder(DOMAIN list,
        LAMBDA i, j : \/ list[i].id < list[j].id
                      \/ list[i].id = list[j].id /\ i < j))

IdMap(list) ==
    LET sorted == SortedById(list)
    IN [id \in {list[k].id : k \in DOMAIN list} |->
            Max({k \in DOMAIN sorted : sorted[k].id = id})]

RenumberedDeps(step, idMap) ==
    {idMap[d] : d \in {e \in step.deps : e \in DOMAIN idMap /\ idMap[e] < idMap[step.id]}}

Renumbered(list) ==
    LET sorted == SortedById(list)
        idMap == IdMap(list)
    IN [k \in DOMAIN sorted |->
            [id   |-> idMap[sorted[k].id],
             task |-> sorted[k].task,
             deps |-> RenumberedDeps(sorted[k], idMap)]]

\* renumber_steps made a note: ids were not 1..n, or a dependency was dropped.
RenumberNoted(list) ==
    LET idMap == IdMap(list)
    IN \/ DOMAIN idMap # DOMAIN list
       \/ \E k \in DOMAIN list : \E d \in list[k].deps :
             d \in DOMAIN idMap => idMap[d] >= idMap[list[k].id]

\* repair_plan.
Repaired(list) == Renumbered(RemoveDuplicates(list))

RepairNoted(list) ==
    \/ Len(RemoveDuplicates(list)) < Len(list)
    \/ RenumberNoted(RemoveDuplicates(list))

-----------------------------------------------------------------------------
\* The list of a plan's steps, and the plan of a list with ids 1..n.
StepList(p) ==
    LET ids == Numbers(Max(DOMAIN p \cup {0}), LAMBDA i : i \in DOMAIN p)
    IN [k \in DOMAIN ids |->
            [id |-> ids[k], task |-> p[ids[k]].task, deps |-> p[ids[k]].deps]]

Unlisted(step) == [task |-> step.task, deps |-> step.deps]

ListPlan(list) == [k \in DOMAIN list |-> Unlisted(list[k])]

\* The steps of _try_apply_replan_steps that apply_replanned_steps is given.
StepsToApply(list) ==
    ListPlan(IF RepairNoted(list) THEN Repaired(list) ELSE list)

\* Seeded fault: the statuses keep the ids they had before the repair.
RemappedStatusOld(p, st) == st

\* remap_step_status with the id map of repair_plan(plan).
RemappedStatus(p, st) ==
    LET idMap == IdMap(RemoveDuplicates(StepList(p)))
    IN [k \in DOMAIN ListPlan(Repaired(StepList(p))) |->
            st[CHOOSE id \in DOMAIN idMap : idMap[id] = k]]

\* restore_completed_step_snapshots: a step whose id is that of a completed
\* step of the plan before is overwritten by that step.
WithCompletedRestored(p, old, finished) ==
    [i \in DOMAIN p |-> IF i \in finished THEN old[i] ELSE p[i]]

\* _assert_completed_steps_preserved, once the steps above are restored.
CompletedPreserved(p, old, finished) ==
    \A i \in finished \ DOMAIN p : \E j \in DOMAIN p : p[j].task = old[i].task

\* Seeded fault: a repaired plan is taken without another validation.
TryApplyUnchecked(p, st, list) ==
    LET q == ReplannedPlan(p, st, StepsToApply(list))
        sq == ReplannedStatus(st, StepsToApply(list))
    IN IF ValidPlan(q) THEN [ok |-> TRUE, plan |-> q, status |-> sq]
       ELSE [ok     |-> TRUE,
             plan   |-> WithCompletedRestored(ListPlan(Repaired(StepList(q))), p,
                                              FinishedIds(st)),
             status |-> RemappedStatus(q, sq)]

(***************************************************************************)
(* _try_apply_replan_steps and _validate_or_repair_plan on a plan p with   *)
(* statuses st: whether the new steps were applied, and the resulting      *)
(* state.  The applied plan as it is before any repair is kept apart.      *)
(***************************************************************************)
TryApply(p, st, list) ==
    LET new == StepsToApply(list)
        q == ReplannedPlan(p, st, new)
        sq == ReplannedStatus(st, new)
        r == ListPlan(Repaired(StepList(q)))
        rr == WithCompletedRestored(r, p, FinishedIds(st))
    IN CASE ValidPlan(q) ->
              [ok |-> TRUE, plan |-> q, status |-> sq]
         [] ~ValidPlan(q) /\ RepairNoted(StepList(q)) /\ ValidPlan(r)
            /\ CompletedPreserved(rr, p, FinishedIds(st)) ->
              [ok |-> TRUE, plan |-> rr, status |-> RemappedStatus(q, sq)]
         [] OTHER ->
              [ok |-> FALSE, plan |-> q, status |-> sq]
=============================================================================
