----------------------------- MODULE PlanSteps -----------------------------
(***************************************************************************)
(* Plans and step statuses, as PlanState (plan/state.py) and PlanValidator *)
(* (plan/validator.py) handle them.                                        *)
(*                                                                         *)
(* A plan is a function from step ids to steps.  Plan.steps is a list, but *)
(* every list that reaches a PlanState is in increasing id order without   *)
(* repeated ids: renumber_steps sorts it, and apply_replanned_steps keeps  *)
(* the old order and appends greater ids.  A step's task stands for the    *)
(* pair (task text, tool hint).                                            *)
(***************************************************************************)
EXTENDS Integers, FiniteSets, Sequences, FiniteSetsExt

CONSTANTS Tasks,        \* the work a step may stand for: task text and tool hint
          Unregistered  \* the tasks whose tool hint is not in the registry

ASSUME UnregisteredAssumption == Unregistered \subseteq Tasks

Step == [task : Tasks, deps : SUBSET Nat]

Status == {"pending", "running", "completed", "failed", "skipped"}
FinishedStatus == {"completed", "skipped"}
SettledStatus == FinishedStatus \cup {"failed"}

IsPlan(p) == /\ DOMAIN p \subseteq Nat \ {0}
             /\ IsFiniteSet(DOMAIN p)
             /\ p \in [DOMAIN p -> Step]

AllPending(p) == [i \in DOMAIN p |-> "pending"]

FinishedIds(st) == {i \in DOMAIN st : st[i] \in FinishedStatus}

AllFinished(st) == \A i \in DOMAIN st : st[i] \in SettledStatus

DepsMet(p, st, i) == p[i].deps \subseteq FinishedIds(st)

Executable(p, st) == {i \in DOMAIN p : st[i] = "pending" /\ DepsMet(p, st, i)}

\* next_executable_step returns i.
IsNextExecutable(p, st, i) ==
    i \in Executable(p, st) /\ \A j \in Executable(p, st) : i <= j

\* Seeded fault: dependencies are not validated.
ValidIdsOnly(p) ==
    /\ DOMAIN p # {}
    /\ \A i \in DOMAIN p : 1..i \subseteq DOMAIN p

(***************************************************************************)
(* PlanValidator: at least one step, ids continuous from 1, every          *)
(* dependency an existing prior step, every tool hint registered.  The     *)
(* cycle search can only fail when the third test already did.             *)
(***************************************************************************)
ValidPlan(p) ==
    /\ DOMAIN p # {}
    /\ \A i \in DOMAIN p : 1..i \subseteq DOMAIN p
    /\ \A i \in DOMAIN p : \A d \in p[i].deps : d \in DOMAIN p /\ d < i
    /\ \A i \in DOMAIN p : p[i].task \notin Unregistered

(***************************************************************************)
(* PlanState.apply_replanned_steps(new): finished steps are kept, all the  *)
(* others are dropped, and the new ones are numbered after the greatest    *)
(* finished id.  Their dependencies are copied as the planner wrote them.  *)
(***************************************************************************)
LastFinished(st) == Max(FinishedIds(st) \cup {0})

\* Seeded fault: skipped steps are replaced like unfinished ones.
ReplannedIdsCompletedOnly(st, new) ==
    {i \in DOMAIN st : st[i] = "completed"}
        \cup {LastFinished(st) + k : k \in DOMAIN new}

ReplannedIds(st, new) ==
    FinishedIds(st) \cup {LastFinished(st) + k : k \in DOMAIN new}

ReplannedPlan(p, st, new) ==
    [i \in ReplannedIds(st, new) |->
        IF i \in FinishedIds(st) THEN p[i] ELSE new[i - LastFinished(st)]]

\* Seeded fault: a replan starts every step of the plan over.
ReplannedStatusReset(st, new) == [i \in ReplannedIds(st, new) |-> "pending"]

ReplannedStatus(st, new) ==
    [i \in ReplannedIds(st, new) |->
        IF i \in FinishedIds(st) THEN st[i] ELSE "pending"]
=============================================================================
