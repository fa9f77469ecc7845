------------------------------- MODULE Metrics -------------------------------
(***************************************************************************)
(* MetricsCollector, MetricsStore and MetricsObserver (observability/):    *)
(* callers put jobs into a bounded queue without waiting, one worker turns *)
(* them into a profile per execution.  A profile counts what               *)
(* ExecutionProfileService counts; latencies, tokens and costs are left    *)
(* out, and a tool call is a try of it.                                    *)
(***************************************************************************)
EXTENDS Integers, Sequences, FiniteSets, SequencesExt

CONSTANTS Executions,   \* execution ids
          NodeIds,      \* nodes whose visits are counted
          MetricsQueue, \* maxsize of the queue
          MaxLosses     \* bound on the metrics dropped by a full queue

ASSUME MetricsAssumption == MetricsQueue \in Nat \ {0} /\ MaxLosses \in Nat

VARIABLES jobs,      \* metrics accepted and not yet applied
          collector, \* "on", "stopping" in stop(), "off"
          profiles,  \* MetricsStore: what is known of each execution
          did,       \* what each execution did (history)
          losses,    \* metrics dropped by a full queue (history)
          dropped    \* executions that a metric was dropped of (history)

metricsVars == <<jobs, collector, profiles, did, losses, dropped>>

NoProfile ==
    [status |-> "absent", nodes |-> [n \in NodeIds |-> 0],
     calls |-> 0, llm |-> 0]

MetricsInit ==
    /\ jobs = <<>>
    /\ collector = "on"
    /\ profiles = [e \in Executions |-> NoProfile]
    /\ did = [e \in Executions |-> NoProfile]
    /\ losses = 0
    /\ dropped = {}

-----------------------------------------------------------------------------
\* What a job adds to the profile p of its execution.
Counted(p, job) ==
    CASE job.kind = "start" -> [NoProfile EXCEPT !.status = "running"]
      [] job.kind = "end"   -> [p EXCEPT !.status = job.status]
      [] job.kind = "node"  -> [p EXCEPT !.nodes[job.node] = @ + 1]
      [] job.kind = "tool"  -> [p EXCEPT !.calls = @ + 1]
      [] job.kind = "llm"   -> [p EXCEPT !.llm = @ + 1]

\* Seeded fault: an entry is made for an execution that has none.
AppliedUpserting(store, job) ==
    [store EXCEPT ![job.execution] = Counted(@, job)]

\* _put_execution, _finish_execution, _append_*: all but the first need the entry.
Applied(store, job) ==
    IF job.kind # "start" /\ store[job.execution].status = "absent" THEN store
    ELSE [store EXCEPT ![job.execution] = Counted(@, job)]

\* What becomes of start when the members of list are taken in turn.
InTurn(Take(_, _), start, list) ==
    LET after[k \in 0..Len(list)] ==
            IF k = 0 THEN start ELSE Take(after[k - 1], list[k])
    IN after[Len(list)]

\* Seeded fault: the oldest metric makes room.
SubmitDroppingOldest(list) ==
    LET all == jobs \o list
    IN jobs' = SubSeq(all, IF Len(all) > MetricsQueue THEN Len(all) - MetricsQueue + 1 ELSE 1,
                      Len(all))
       /\ UNCHANGED <<losses, dropped>>

\* submit: a stopped collector takes nothing, a full queue drops the metric.
SubmitMetrics(list) ==
    LET room == IF collector = "off" THEN 0 ELSE MetricsQueue - Len(jobs)
        taken == IF Len(list) <= room THEN Len(list) ELSE room
    IN /\ jobs' = jobs \o SubSeq(list, 1, taken)
       /\ losses' = losses + Len(list) - taken
       /\ losses' <= MaxLosses
       /\ dropped' = dropped \cup {list[i].execution : i \in (taken + 1)..Len(list)}

\* The metric job, put down to an execution.
For(job, execution) ==
    [field \in DOMAIN job \cup {"execution"} |->
        IF field = "execution" THEN execution ELSE job[field]]

\* The metrics in list are what execution e does, and the observer puts them down
\* to execution "to", if it is one.
Record(e, list, to) ==
    /\ did' = [did EXCEPT ![e] = InTurn(Counted, @, list)]
    /\ SubmitMetrics(IF to \in Executions THEN [i \in DOMAIN list |-> For(list[i], to)]
                     ELSE <<>>)

\* Seeded fault: the worker ends when stop() is called.
WorkerAliveUntilStop == collector = "on"

\* The worker's task is there until stop() cancels it.
WorkerAlive == collector # "off"

\* _run: get() returns at once while there are jobs, so all of them are applied.
ApplyJobs ==
    /\ WorkerAlive /\ jobs # <<>>
    /\ profiles' = InTurn(Applied, profiles, jobs)
    /\ jobs' = <<>>
    /\ UNCHANGED <<collector, did, losses, dropped>>

\* stop() waits for the queue, while metrics are still accepted.
StopCollector ==
    /\ collector = "on"
    /\ collector' = "stopping"
    /\ UNCHANGED <<jobs, profiles, did, losses, dropped>>

\* The queue is joined, and the worker cancelled.
CollectorJoined ==
    /\ collector = "stopping" /\ jobs = <<>>
    /\ collector' = "off"
    /\ UNCHANGED <<jobs, profiles, did, losses, dropped>>

\* drain_timeout: the queue goes with the jobs in it.
CollectorDrainTimesOut ==
    /\ collector = "stopping" /\ jobs # <<>>
    /\ collector' = "off"
    /\ dropped' = dropped \cup {jobs[i].execution : i \in DOMAIN jobs}
    /\ jobs' = <<>>
    /\ UNCHANGED <<profiles, did, losses>>

MetricsStep == ApplyJobs \/ StopCollector \/ CollectorJoined \/ CollectorDrainTimesOut
=============================================================================
