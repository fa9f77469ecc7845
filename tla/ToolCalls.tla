------------------------------ MODULE ToolCalls ------------------------------
(***************************************************************************)
(* The tool calls of the steps of all requests in a process: the routing   *)
(* of a step (router_node), its call with retries, timeout and fallback    *)
(* (ToolExecutor), the fallback of the policy and the failure policy       *)
(* around it (PlanExecutor), and the ToolPolicyTracer that all share.      *)
(*                                                                         *)
(* A step is the number of a step in one request.  What a step has of its  *)
(* own, its hint and its decision, is in the state of its request or       *)
(* branch; the trace of decisions belongs to the process.  A call is       *)
(* suspended while its tool runs: an action is the code between two tries. *)
(* Order among steps and the shared replan budget are those of             *)
(* PlanExecution and PlanSubgraph, and are left open here.                 *)
(***************************************************************************)
EXTENDS Integers, FiniteSets, ToolPolicy

CONSTANTS Steps,          \* steps of any requests
          RequestOf,      \* a function: the request of a step
          Configs,        \* registries and settings of the process
          Texts,          \* what routing reads in task and query
          FallbackTools,  \* fallback_tools of the ToolReliabilityPolicy, a function
          MaxAttempts,    \* its max_attempts
          StepAttempts    \* 1 + step_max_retries

\* MCP tools are registered only where MCP is enabled (tools/mcp/bootstrap.py).
ASSUME ToolCallsAssumption ==
    /\ \A c \in Configs :
          /\ c.registry \subseteq Tools
          /\ ~c.mcpEnabled => \A tool \in c.registry : Provider(tool) # "mcp"
          /\ c.strategy \in Strategies
          /\ c.ranking \in [Families -> Seq({"builtin", "mcp"})]
    /\ \A text \in Texts : text.family \in Families \cup {Unknown}
    /\ MaxAttempts \in Nat \ {0}
    /\ StepAttempts \in Nat \ {0}

VARIABLES config,   \* chosen at the start of the process
          at,       \* at[s]: "planned", "ready", "calling" or how it ended
          step,     \* step[s]: hint, the hint it was routed for, attempt, replanned
          decision, \* tool_policy_decisions
          call,     \* call[s]: the try under way
          records,  \* ToolTracer's records of the step's current attempt
          entries,  \* ToolPolicyTracer's entries
          counters  \* and its counters

vars == <<config, at, step, decision, call, records, entries, counters>>

Ended == {"completed", "skipped", "failed", "cancelled"}
NoDecision == [selected |-> NoTool, fallback |-> NoTool, used |-> FALSE]
NoCall == [tool |-> NoTool, attempt |-> 0, isFallback |-> FALSE, policy |-> FALSE]

Hints == config.registry \cup {NoTool}

Init ==
    /\ config \in Configs
    /\ at = [s \in Steps |-> "planned"]
    /\ step = [s \in Steps |-> [hint |-> NoTool, wanted |-> NoTool,
                                attempt |-> 1, replanned |-> FALSE]]
    /\ decision = [s \in Steps |-> NoDecision]
    /\ call = [s \in Steps |-> NoCall]
    /\ records = [s \in Steps |-> <<>>]
    /\ entries = <<>>
    /\ counters = [decisions |-> 0, fallbacks |-> 0]

-----------------------------------------------------------------------------
\* ToolPolicyTracer.record.
RecordDecision(s, d) ==
    /\ entries' = Append(entries, [step |-> s, tool |-> d.selected, used |-> FALSE])
    /\ counters' = [counters EXCEPT !.decisions = @ + 1]

\* router_node for a step: the hint is the planner's, or that of the tool
\* selection, which may find none.  Only the selection awaits; letting other
\* steps in before a step that has a hint adds behaviours.
RouteStep(s) ==
    /\ at[s] = "planned"
    /\ \E hint \in Hints : \E text \in Texts :
          LET d == Decide(config, hint, text)
          IN /\ decision' = [decision EXCEPT ![s] = d]
             /\ step' = [step EXCEPT ![s].wanted = hint,
                            ![s].hint = IF d.selected # NoTool THEN d.selected ELSE hint]
             /\ RecordDecision(s, d)
    /\ at' = [at EXCEPT ![s] = "ready"]
    /\ UNCHANGED <<config, call, records>>

\* _execute_step of a step without a tool, or without arguments for it.
StepWithoutCall(s) ==
    /\ at[s] = "ready"
    /\ at' = [at EXCEPT ![s] = IF step[s].hint = NoTool THEN "completed" ELSE "skipped"]
    /\ UNCHANGED <<config, step, decision, call, records, entries, counters>>

StartCall(s) ==
    /\ at[s] = "ready" /\ step[s].hint # NoTool
    /\ at' = [at EXCEPT ![s] = "calling"]
    /\ call' = [call EXCEPT ![s] = [NoCall EXCEPT !.tool = step[s].hint, !.attempt = 1]]
    /\ records' = [records EXCEPT ![s] = <<>>]
    /\ UNCHANGED <<config, step, decision, entries, counters>>

\* The record that the trace timer writes when a try ends, in whatever way.
Recorded(s, ok) ==
    records' = [records EXCEPT ![s] =
        Append(@, [tool |-> call[s].tool, attempt |-> call[s].attempt, ok |-> ok])]

FallbackEntry(s) == [step |-> s, tool |-> decision[s].fallback, used |-> TRUE]

\* Seeded fault: the fallback is an entry of its own.
EntriesAfterFallbackAppended(s) == Append(entries, FallbackEntry(s))

\* The last entry becomes the one of this step.
EntriesAfterFallback(s) == [entries EXCEPT ![Len(entries)] = FallbackEntry(s)]

\* record_fallback, and the decision in the state of the request.
RecordFallback(s) ==
    /\ entries' = EntriesAfterFallback(s)
    /\ counters' = [counters EXCEPT !.fallbacks = @ + 1]
    /\ decision' = [decision EXCEPT ![s].used = TRUE]

\* What _try_policy_fallback does when its call returns.
PolicyCallEnds(s) ==
    IF call[s].policy THEN RecordFallback(s) ELSE UNCHANGED <<entries, counters, decision>>

\* The try succeeded, and so do the call and the step.
TrySucceeds(s) ==
    /\ at[s] = "calling" /\ call[s].tool \in config.registry
    /\ Recorded(s, TRUE)
    /\ at' = [at EXCEPT ![s] = "completed"]
    /\ step' = IF call[s].policy
               THEN [step EXCEPT ![s].hint = decision[s].fallback] ELSE step
    /\ PolicyCallEnds(s)
    /\ UNCHANGED <<config, call>>

\* Seeded fault: a retry too many.
TriesLeftOneMore(s) == call[s].attempt <= MaxAttempts

TriesLeft(s) == call[s].attempt < MaxAttempts

\* Seeded fault: the fallback does not wait for the last try.
FallbackOfExecutorEarly(s) == ~call[s].isFallback /\ call[s].tool \in DOMAIN FallbackTools

FallbackOfExecutor(s) ==
    ~TriesLeft(s) /\ ~call[s].isFallback /\ call[s].tool \in DOMAIN FallbackTools

\* _try_policy_fallback has a candidate to try.
FallbackOfPolicy(s) ==
    ~call[s].policy /\ decision[s].fallback \in config.registry

\* The try raised or ran into its timeout, and a next one follows: of the same
\* tool, of the executor's fallback, or of the policy's.
TryFails(s) ==
    /\ at[s] = "calling"
    /\ Recorded(s, FALSE)
    /\ \/ /\ TriesLeft(s)
          /\ call' = [call EXCEPT ![s].attempt = @ + 1]
       \/ /\ FallbackOfExecutor(s)
          /\ call' = [call EXCEPT ![s].tool = FallbackTools[@], ![s].attempt = 1,
                                  ![s].isFallback = TRUE]
       \/ /\ ~TriesLeft(s) /\ ~FallbackOfExecutor(s) /\ FallbackOfPolicy(s)
          /\ call' = [call EXCEPT ![s] = [tool |-> decision[s].fallback, attempt |-> 1,
                                          isFallback |-> FALSE, policy |-> TRUE]]
    /\ UNCHANGED <<config, at, step, decision, entries, counters>>

\* _handle_replan puts new steps, with the same numbers, in the place of those
\* of the request that have not started.  They are not routed again.
ReplacedSteps(s) ==
    {t \in Steps : RequestOf[t] = RequestOf[s] /\ at[t] = "ready"}

\* The last try failed, and the step with it; the failure policy decides.
StepFails(s) ==
    /\ at[s] = "calling"
    /\ Recorded(s, FALSE)
    /\ ~TriesLeft(s) /\ ~FallbackOfExecutor(s) /\ ~FallbackOfPolicy(s)
    /\ PolicyCallEnds(s)
    /\ \/ /\ config.failurePolicy = "retry" /\ step[s].attempt < StepAttempts
          /\ at' = [at EXCEPT ![s] = "ready"]
          /\ step' = [step EXCEPT ![s].attempt = @ + 1]
       \/ /\ config.failurePolicy = "retry" => step[s].attempt = StepAttempts
          /\ at' = [at EXCEPT ![s] =
                       IF config.failurePolicy = "skip" THEN "skipped" ELSE "failed"]
          /\ UNCHANGED step
       \/ /\ config.failurePolicy = "replan"
          /\ at' = [at EXCEPT ![s] = "failed"]
          /\ \E hints \in [ReplacedSteps(s) -> Hints] :
                step' = [t \in Steps |->
                            IF t \in DOMAIN hints
                            THEN [step[t] EXCEPT !.hint = hints[t], !.replanned = TRUE]
                            ELSE step[t]]
    /\ UNCHANGED <<config, call>>

\* The client leaves: the try is recorded, and nothing else happens.
CancelCall(s) ==
    /\ at[s] = "calling"
    /\ Recorded(s, FALSE)
    /\ at' = [at EXCEPT ![s] = "cancelled"]
    /\ UNCHANGED <<config, step, decision, call, entries, counters>>

AllEnded ==
    /\ \A s \in Steps : at[s] \in Ended
    /\ UNCHANGED vars

Next ==
    \/ \E s \in Steps :
          \/ RouteStep(s) \/ StepWithoutCall(s) \/ StartCall(s)
          \/ TrySucceeds(s) \/ TryFails(s) \/ StepFails(s) \/ CancelCall(s)
    \/ AllEnded

Spec == Init /\ [][Next]_vars

-----------------------------------------------------------------------------
\* Also: no try after the last one.
TypeOK ==
    /\ config \in Configs
    /\ at \in [Steps -> {"planned", "ready", "calling"} \cup Ended]
    /\ \A s \in Steps :
          /\ {step[s].hint, step[s].wanted} \subseteq Hints
          /\ step[s].attempt \in 1..StepAttempts /\ step[s].replanned \in BOOLEAN
          /\ {decision[s].selected, decision[s].fallback} \subseteq Tools \cup {NoTool}
          /\ decision[s].used \in BOOLEAN
          /\ call[s].attempt \in 0..MaxAttempts
          /\ \A i \in DOMAIN records[s] : records[s][i].attempt \in 1..MaxAttempts
    /\ \A i \in DOMAIN entries : entries[i].step \in Steps
    /\ counters \in [decisions : Nat, fallbacks : Nat]

\* "builtin_first: the builtin tool of the same family first, fallback to mcp_*",
\* for every strategy, registry and ranking: while a routed step was not
\* replaced, the tools called for it are registered and enabled, of the family
\* of its hint, and the policy's fallback is not the tool that failed.
CallsFitTheStep ==
    \A s \in Steps :
        at[s] = "calling" /\ ~call[s].isFallback /\ ~step[s].replanned =>
            /\ Usable(config, call[s].tool)
            /\ Family(step[s].wanted) # Unknown =>
                  Family(call[s].tool) = Family(step[s].wanted)
            /\ call[s].policy => call[s].tool # step[s].hint

\* The trace is the whole truth about a call, however it ended: a tool is given
\* up after its last try only, nothing is tried after a success, and a step that
\* called a tool completed exactly if the last record is a success.
OutcomeIsRecorded ==
    \A s \in Steps :
        LET r == records[s]
            last == r[Len(r)]
        IN /\ \A i \in DOMAIN r : i > 1 =>
                 /\ ~r[i - 1].ok
                 /\ IF r[i].attempt = 1 THEN r[i - 1].attempt = MaxAttempts
                    ELSE /\ r[i].tool = r[i - 1].tool
                         /\ r[i].attempt = r[i - 1].attempt + 1
           /\ r # <<>> /\ at[s] # "calling" => (at[s] = "completed" <=> last.ok)
           /\ r # <<>> /\ at[s] \in {"ready", "failed"} => last.attempt = MaxAttempts

\* A fallback is recorded in the last entry, whose step may be another one: the
\* steps that have lost their entry are never more than the fallbacks counted.
DecisionsAccounted ==
    LET routed == {s \in Steps : at[s] # "planned"}
        missing == {s \in routed : \A i \in DOMAIN entries : entries[i].step # s}
    IN /\ counters.decisions = Cardinality(routed)
       /\ Len(entries) = counters.decisions
       /\ Cardinality(missing) <= counters.fallbacks

\* The same family, for steps that a replan put in place of routed ones too.
FallbackKeepsFamily ==
    \A s \in Steps :
        at[s] = "calling" /\ call[s].policy /\ ~call[s].isFallback
        /\ Family(step[s].hint) # Unknown =>
            Family(call[s].tool) = Family(step[s].hint)
=============================================================================
