----------------------------- MODULE StepOrder -----------------------------
(***************************************************************************)
(* What the execution of a plan promises about the calls it makes: a step  *)
(* is started at most once, after every step it depends on is done, and    *)
(* what is done stays done.                                                *)
(***************************************************************************)
EXTENDS FiniteSets

CONSTANT Plans  \* functions from step ids to records with a set of deps

VARIABLES plan, started, done

vars == <<plan, started, done>>

Init == /\ plan \in Plans
        /\ started = {}
        /\ done = {}

\* Some steps, in parallel if there are many, whose dependencies are done.
Start(S) ==
    /\ S \subseteq DOMAIN plan \ started
    /\ \A i \in S : plan[i].deps \subseteq done
    /\ started' = started \cup S
    /\ UNCHANGED <<plan, done>>

Finish(i) ==
    /\ i \in started \ done
    /\ done' = done \cup {i}
    /\ UNCHANGED <<plan, started>>

Next == \/ \E S \in SUBSET DOMAIN plan : Start(S)
        \/ \E i \in DOMAIN plan : Finish(i)

Spec == Init /\ [][Next]_vars
=============================================================================
