-------------------------- MODULE ToolCalls_proofs --------------------------
(***************************************************************************)
(* Proofs about ToolCalls: for any steps of any number of requests, any    *)
(* registries, strategies and rankings and any numbers of attempts, the    *)
(* tools called for a step fit it, and the records of a call agree with    *)
(* its outcome.                                                            *)
(***************************************************************************)
EXTENDS ToolCalls, SequenceTheorems, TLAPS

(***************************************************************************)
(* The policy.                                                             *)
(***************************************************************************)
\* The tools of a family, or none.
OfFamily(f) == {NoTool, BuiltinOf(f), MCPOf(f)}

\* A proposal is two tools of the family, or begins with the hint.
IsProposal(p, hint, f) ==
    /\ p = <<p[1], p[2]>>
    /\ p[1] \in OfFamily(f) \cup {hint} /\ p[2] \in OfFamily(f)

\* _reliability_aware: the best and the second best provider of the family.
LEMMA ReliabilityAwareIs ==
    ASSUME NEW c \in Configs, NEW f \in Families \cup {Unknown}, NEW hint
    PROVE  IsProposal(ReliabilityAware(c, f), hint, f)
  <1> DEFINE ToolOf(provider) == IF provider = "builtin" THEN BuiltinOf(f) ELSE MCPOf(f)
             scored == IF f = Unknown THEN {}
                       ELSE {k \in DOMAIN c.ranking[f] : ToolOf(c.ranking[f][k]) # NoTool}
             Best(S) == ToolOf(c.ranking[f][CHOOSE k \in S : \A j \in S : k <= j])
             others == {k \in scored : \E j \in scored : j < k}
  <1>1. \A S : Best(S) \in OfFamily(f)
    BY DEF OfFamily
  <1>2. CASE scored = {}
    <2>1. ReliabilityAware(c, f) = ProviderFirst(c, BuiltinOf(f), MCPOf(f))
      BY <1>2 DEF ReliabilityAware
    <2> QED
      BY <2>1 DEF ProviderFirst, IsProposal, OfFamily
  <1>3. CASE scored # {}
    <2>1. ReliabilityAware(c, f) =
             <<Best(scored), IF others = {} THEN NoTool ELSE Best(others)>>
      BY <1>3 DEF ReliabilityAware
    <2>2. Best(scored) \in OfFamily(f) /\ Best(others) \in OfFamily(f)
      BY <1>1
    <2>3. NoTool \in OfFamily(f)
      BY DEF OfFamily
    <2> HIDE DEF Best, scored, others
    <2> DEFINE x == Best(scored)
               y == IF others = {} THEN NoTool ELSE Best(others)
    <2>4. ReliabilityAware(c, f) = <<x, y>> /\ x \in OfFamily(f) /\ y \in OfFamily(f)
      BY <2>1, <2>2, <2>3
    <2> HIDE DEF x, y
    <2> QED
      BY <2>4 DEF IsProposal
  <1> QED
    BY <1>2, <1>3

\* _apply_strategy, for every strategy.
LEMMA ProposalIs ==
    ASSUME NEW c \in Configs, NEW f \in Families \cup {Unknown}, NEW hint, NEW mention
    PROVE  IsProposal(Proposal(c, hint, f, mention), hint, f)
  <1>1. c.strategy \in Strategies
    BY ToolCallsAssumption
  <1>2. IsProposal(PlannerHintFirst(c, hint, f, mention), hint, f)
    BY DEF PlannerHintFirst, IsProposal, OfFamily
  <1>3. /\ IsProposal(ProviderFirst(c, BuiltinOf(f), MCPOf(f)), hint, f)
        /\ IsProposal(ProviderFirst(c, MCPOf(f), BuiltinOf(f)), hint, f)
    BY DEF ProviderFirst, IsProposal, OfFamily
  <1> QED
    BY <1>1, <1>2, <1>3, ReliabilityAwareIs DEF Strategies, Proposal

\* What a decision is worth: the tool of the step, and the one that may replace it.
Fits(c, tool, wanted) ==
    /\ Usable(c, tool)
    /\ Family(wanted) # Unknown => Family(tool) = Family(wanted)

DecisionOK(c, d, hint, wanted) ==
    /\ hint # NoTool => Fits(c, hint, wanted)
    /\ d.fallback \in c.registry => Fits(c, d.fallback, wanted) /\ d.fallback # hint

\* decide: the tools of a decision fit the hint it was made for.
LEMMA DecideIs ==
    ASSUME NEW c \in Configs, NEW hint \in c.registry \cup {NoTool}, NEW text \in Texts
    PROVE  LET d == Decide(c, hint, text)
           IN /\ DecisionOK(c, d, IF d.selected # NoTool THEN d.selected ELSE hint, hint)
              /\ d = [selected |-> d.selected, fallback |-> d.fallback, used |-> FALSE]
  <1> DEFINE f == FamilyOf(hint, text)
             p == Proposal(c, hint, f, text.mention)
             d == Decide(c, hint, text)
             selected == CASE Usable(c, p[1]) -> p[1]
                           [] ~Usable(c, p[1]) /\ Usable(c, p[2]) -> p[2]
                           [] OTHER -> IF hint \in c.registry THEN hint ELSE NoTool
             kept == selected = NoTool \/ (p[2] # selected /\ p[2] \in c.registry)
             fallback == IF kept THEN p[2] ELSE NoTool
  <1>1. d = [selected |-> selected, fallback |-> fallback, used |-> FALSE]
    BY DEF Decide
  <1>2. c.registry \subseteq Tools /\ \A tool \in c.registry : Usable(c, tool)
    BY ToolCallsAssumption DEF Usable
  <1>3. NoTool \notin Tools
    BY DEF NoTool, Tools, BuiltinTools, MCPTools, CustomTools
  <1>4. \A tool : Usable(c, tool) <=> tool \in c.registry
    BY <1>2 DEF Usable
  <1>5. f \in Families \cup {Unknown} /\ (Family(hint) # Unknown => f = Family(hint))
    <2>1. Family(hint) \in Families \cup {Unknown}
      BY <1>2, FamiliesAssumption
         DEF Family, Tools, NoTool, BuiltinTools, MCPTools, CustomTools
    <2> QED
      BY <2>1, ToolCallsAssumption DEF FamilyOf
  <1> HIDE DEF f, d
  <1>6. IsProposal(p, hint, f)
    BY <1>5, ProposalIs
  <1> HIDE DEF p
  <1>7. ASSUME NEW tool \in OfFamily(f) \cup {hint}, tool \in c.registry
        PROVE  Fits(c, tool, hint)
    <2>1. tool # NoTool
      BY <1>2, <1>3, <1>7
    <2>2. CASE tool = hint
      BY <1>4, <1>7, <2>2 DEF Fits
    <2>3. CASE tool \in {BuiltinOf(f), MCPOf(f)}
      <3>1. Family(tool) = f
        BY <2>1, <2>3 DEF BuiltinOf, MCPOf, Family
      <3> QED
        BY <1>4, <1>5, <1>7, <3>1 DEF Fits
    <2> QED
      BY <1>7, <2>1, <2>2, <2>3 DEF OfFamily
  <1>8. p[1] \in OfFamily(f) \cup {hint} /\ p[2] \in OfFamily(f) \cup {hint}
    BY <1>6 DEF IsProposal
  <1>9. /\ selected = NoTool \/ (selected \in c.registry /\ selected \in OfFamily(f) \cup {hint})
        /\ selected = NoTool => p[2] \notin c.registry /\ hint \notin c.registry
    <2>1. CASE Usable(c, p[1])
      BY <1>2, <1>3, <1>4, <1>8, <2>1
    <2>2. CASE ~Usable(c, p[1]) /\ Usable(c, p[2])
      BY <1>2, <1>3, <1>4, <1>8, <2>2
    <2>3. CASE ~Usable(c, p[1]) /\ ~Usable(c, p[2])
      BY <1>2, <1>3, <1>4, <1>8, <2>3
    <2> QED
      BY <2>1, <2>2, <2>3
  <1> HIDE DEF selected
  <1> DEFINE h == IF selected # NoTool THEN selected ELSE hint
  <1>10. h # NoTool => h \in c.registry /\ h \in OfFamily(f) \cup {hint}
    BY <1>9
  <1>11. fallback \in c.registry => fallback = p[2] /\ selected # NoTool /\ fallback # selected
    BY <1>2, <1>3, <1>9
  <1> HIDE DEF fallback
  <1>12. h # NoTool => Fits(c, h, hint)
    BY <1>7, <1>10
  <1>13. fallback \in c.registry => Fits(c, fallback, hint) /\ fallback # h
    BY <1>7, <1>8, <1>11
  <1>14. d.selected = selected /\ d.fallback = fallback
    BY <1>1
  <1> QED
    BY <1>1, <1>12, <1>13, <1>14 DEF DecisionOK, d

-----------------------------------------------------------------------------
(***************************************************************************)
(* The records.                                                            *)
(***************************************************************************)
IsList(r) == Len(r) \in Nat /\ r = [i \in 1..Len(r) |-> r[i]]

\* A list with one more record.
LEMMA AppendIs ==
    ASSUME NEW r, IsList(r), NEW x
    PROVE  LET out == Append(r, x)
           IN /\ IsList(out) /\ Len(out) = Len(r) + 1 /\ out[Len(out)] = x
              /\ \A i \in 1..Len(r) : out[i] = r[i]
  <1> DEFINE S == {r[i] : i \in 1..Len(r)} \cup {x}
             n == Len(r)
             out == Append(r, x)
  <1>1. n \in Nat /\ r = [i \in 1..n |-> r[i]]
    BY DEF IsList
  <1>2. \A i \in 1..n : r[i] \in S
    OBVIOUS
  <1>3. x \in S
    OBVIOUS
  <1> HIDE DEF S, n
  <1>4. r \in Seq(S)
    BY <1>1, <1>2
  <1>5. /\ out \in Seq(S) /\ Len(out) = n + 1 /\ out[n + 1] = x
        /\ \A i \in 1..n : out[i] = r[i]
    BY <1>3, <1>4, AppendProperties DEF n
  <1> HIDE DEF out
  <1>6. out = [i \in 1..Len(out) |-> out[i]] /\ Len(out) \in Nat
    BY <1>5
  <1> QED
    BY <1>5, <1>6 DEF IsList, out, n

\* The only list of length zero.
LEMMA EmptyIs ==
    ASSUME NEW r, IsList(r)
    PROVE  Len(r) = 0 => r = <<>>
  <1> SUFFICES ASSUME Len(r) = 0
               PROVE  r = <<>>
    OBVIOUS
  <1>1. 1..Len(r) = {}
    OBVIOUS
  <1>2. r = [i \in {} |-> r[i]]
    BY <1>1 DEF IsList
  <1> QED
    BY <1>2

\* A try of the tool with this number may follow the record.
Follows(record, tool, attempt) ==
    /\ ~record.ok
    /\ IF attempt = 1 THEN record.attempt = MaxAttempts
       ELSE tool = record.tool /\ attempt = record.attempt + 1

Trail(r) == \A i \in 1..Len(r) : i > 1 => Follows(r[i - 1], r[i].tool, r[i].attempt)

\* The try that is under way comes after the records.
Continues(r, c) == IF Len(r) = 0 THEN c.attempt = 1
                   ELSE Follows(r[Len(r)], c.tool, c.attempt)

\* The record of the try that is under way can be added to the trail.
LEMMA TrailGoesOn ==
    ASSUME NEW r, IsList(r), Trail(r), NEW c, Continues(r, c), NEW ok
    PROVE  Trail(Append(r, [tool |-> c.tool, attempt |-> c.attempt, ok |-> ok]))
  <1> DEFINE x == [tool |-> c.tool, attempt |-> c.attempt, ok |-> ok]
             out == Append(r, x)
  <1>1. x.tool = c.tool /\ x.attempt = c.attempt
    OBVIOUS
  <1> HIDE DEF x
  <1>2. /\ Len(r) \in Nat /\ Len(out) = Len(r) + 1 /\ out[Len(out)] = x
        /\ \A i \in 1..Len(r) : out[i] = r[i]
    BY AppendIs DEF IsList
  <1> HIDE DEF out
  <1>3. ASSUME NEW i \in 1..Len(out), i > 1
        PROVE  Follows(out[i - 1], out[i].tool, out[i].attempt)
    <2>1. i - 1 \in 1..Len(r) /\ out[i - 1] = r[i - 1]
      BY <1>2, <1>3
    <2>2. CASE i \in 1..Len(r)
      BY <1>2, <1>3, <2>1, <2>2 DEF Trail
    <2>3. CASE i \notin 1..Len(r)
      <3>1. i = Len(out) /\ i - 1 = Len(r) /\ Len(r) # 0
        BY <1>2, <1>3, <2>3
      <3>2. Follows(r[Len(r)], c.tool, c.attempt)
        BY <3>1 DEF Continues
      <3> QED
        BY <1>1, <1>2, <2>1, <3>1, <3>2
    <2> QED
      BY <2>2, <2>3
  <1> QED
    BY <1>3 DEF Trail, out, x

-----------------------------------------------------------------------------
(***************************************************************************)
(* The invariant.  What is true of a step depends on nothing but the       *)
(* configuration and what the step has of its own.                         *)
(***************************************************************************)
IsStep(st) == st = [hint |-> st.hint, wanted |-> st.wanted,
                    attempt |-> st.attempt, replanned |-> st.replanned]
IsDecision(d) == d = [selected |-> d.selected, fallback |-> d.fallback, used |-> d.used]
IsCall(cl) == cl = [tool |-> cl.tool, attempt |-> cl.attempt,
                    isFallback |-> cl.isFallback, policy |-> cl.policy]

Shapes(st, d, cl, r) ==
    IsStep(st) /\ IsDecision(d) /\ IsCall(cl) /\ IsList(r) /\ st.replanned \in BOOLEAN

\* Until a step was replaced, its decision is about the tool it is called with.
Chosen(c, a, st, d, cl) ==
    /\ a = "planned" => ~st.replanned
    /\ a \in {"ready", "calling"} /\ ~st.replanned => DecisionOK(c, d, st.hint, st.wanted)
    /\ a = "calling" =>
          /\ st.hint # NoTool
          /\ ~cl.isFallback =>
                IF cl.policy THEN cl.tool = d.fallback /\ d.fallback \in c.registry
                ELSE cl.tool = st.hint

\* A step that waits with records is one that is retried: a replan, which needs
\* another failure policy, never replaces it.
Traced(c, a, st, cl, r) ==
    /\ Trail(r)
    /\ a = "planned" => Len(r) = 0
    /\ a = "calling" => cl.attempt \in 1..MaxAttempts /\ Continues(r, cl)
    /\ Len(r) # 0 /\ a # "calling" => (a = "completed" <=> r[Len(r)].ok)
    /\ Len(r) # 0 /\ a \in {"ready", "failed"} => r[Len(r)].attempt = MaxAttempts
    /\ Len(r) # 0 /\ a = "ready" => st.hint # NoTool /\ c.failurePolicy = "retry"

StepOK(c, a, st, d, cl, r) ==
    Shapes(st, d, cl, r) /\ Chosen(c, a, st, d, cl) /\ Traced(c, a, st, cl, r)

OnSteps(f) == f = [s \in Steps |-> f[s]]

IInv ==
    /\ config \in Configs
    /\ OnSteps(at) /\ OnSteps(step) /\ OnSteps(decision) /\ OnSteps(call) /\ OnSteps(records)
    /\ \A s \in Steps : StepOK(config, at[s], step[s], decision[s], call[s], records[s])

\* Nothing was routed or called at the start.
LEMMA InitIInv == Init => IInv
  <1> SUFFICES ASSUME Init
               PROVE  IInv
    OBVIOUS
  <1>1. /\ config \in Configs
        /\ OnSteps(at) /\ OnSteps(step) /\ OnSteps(decision) /\ OnSteps(call)
        /\ OnSteps(records)
    BY DEF Init, OnSteps
  <1>2. ASSUME NEW s \in Steps
        PROVE  StepOK(config, at[s], step[s], decision[s], call[s], records[s])
    <2> DEFINE r == records[s]
    <2>1. /\ at[s] = "planned" /\ decision[s] = NoDecision /\ call[s] = NoCall
          /\ step[s] = [hint |-> NoTool, wanted |-> NoTool, attempt |-> 1,
                        replanned |-> FALSE]
      BY DEF Init
    <2>2. r = <<>> /\ Len(r) = 0
      BY DEF Init
    <2>3. IsList(r) /\ Trail(r)
      BY <2>2 DEF IsList, Trail
    <2>4. Shapes(step[s], decision[s], call[s], r)
      BY <2>1, <2>3 DEF Shapes, IsStep, IsDecision, IsCall, NoDecision, NoCall
    <2>5. Chosen(config, at[s], step[s], decision[s], call[s])
      BY <2>1 DEF Chosen
    <2> HIDE DEF r
    <2>6. Traced(config, at[s], step[s], call[s], r)
      BY <2>1, <2>2, <2>3 DEF Traced
    <2> QED
      BY <2>4, <2>5, <2>6 DEF StepOK, r
  <1> QED
    BY <1>1, <1>2 DEF IInv

\* What a step that changes one step of a request has to show.
LEMMA OneStepChanges ==
    ASSUME IInv, NEW s \in Steps, UNCHANGED config,
           OnSteps(at'), OnSteps(step'), OnSteps(decision'), OnSteps(call'), OnSteps(records'),
           \A t \in Steps : t # s =>
               /\ at'[t] = at[t] /\ step'[t] = step[t] /\ decision'[t] = decision[t]
               /\ call'[t] = call[t] /\ records'[t] = records[t],
           StepOK(config, at'[s], step'[s], decision'[s], call'[s], records'[s])
    PROVE  IInv'
  <1>1. ASSUME NEW t \in Steps
        PROVE  StepOK(config', at'[t], step'[t], decision'[t], call'[t], records'[t])
    <2>1. CASE t = s
      BY <2>1
    <2>2. CASE t # s
      BY <2>2 DEF IInv
    <2> QED
      BY <2>1, <2>2
  <1>2. config' \in Configs
    BY DEF IInv
  <1> QED
    BY <1>1, <1>2 DEF IInv

-----------------------------------------------------------------------------
(***************************************************************************)
(* The steps.                                                              *)
(***************************************************************************)
\* A step with another hint.
LEMMA RoutedStepIs ==
    ASSUME NEW st, IsStep(st), NEW w, NEW h
    PROVE  [[st EXCEPT !.wanted = w] EXCEPT !.hint = h] =
              [hint |-> h, wanted |-> w, attempt |-> st.attempt, replanned |-> st.replanned]
  <1> DEFINE a == st.hint  b == st.wanted  c == st.attempt  d == st.replanned
  <1>1. st = [hint |-> a, wanted |-> b, attempt |-> c, replanned |-> d]
    BY DEF IsStep
  <1> HIDE DEF a, b, c, d
  <1> DEFINE st1 == [st EXCEPT !.wanted = w]
  <1>2. st1 = [hint |-> a, wanted |-> w, attempt |-> c, replanned |-> d]
    BY <1>1
  <1> HIDE DEF st1
  <1>3. [st1 EXCEPT !.hint = h] = [hint |-> h, wanted |-> w, attempt |-> c, replanned |-> d]
    BY <1>2
  <1> QED
    BY <1>3 DEF st1, c, d

\* router_node: the decision is about the hint the step gets.
LEMMA RouteStepKeeps ==
    ASSUME IInv, NEW s \in Steps, RouteStep(s)
    PROVE  IInv'
  <1>1. PICK hint \in Hints, text \in Texts :
            LET d == Decide(config, hint, text)
            IN /\ decision' = [decision EXCEPT ![s] = d]
               /\ step' = [step EXCEPT ![s].wanted = hint,
                              ![s].hint = IF d.selected # NoTool THEN d.selected ELSE hint]
    BY DEF RouteStep
  <1> DEFINE st == step[s]
             d == Decide(config, hint, text)
             h == IF d.selected # NoTool THEN d.selected ELSE hint
             st2 == [hint |-> h, wanted |-> hint, attempt |-> st.attempt,
                     replanned |-> st.replanned]
  <1>2. /\ at[s] = "planned" /\ at' = [at EXCEPT ![s] = "ready"]
        /\ UNCHANGED <<config, call, records>>
    BY DEF RouteStep
  <1>3. /\ config \in Configs /\ OnSteps(at) /\ OnSteps(step) /\ OnSteps(decision)
        /\ OnSteps(call) /\ OnSteps(records)
        /\ StepOK(config, at[s], st, decision[s], call[s], records[s])
    BY DEF IInv
  <1>4. DecisionOK(config, d, h, hint) /\ IsDecision(d)
    BY <1>3, DecideIs DEF Hints, IsDecision
  <1>5. decision' = [decision EXCEPT ![s] = d]
    BY <1>1
  <1>6. step' = [step EXCEPT ![s].wanted = hint, ![s].hint = h]
    BY <1>1
  <1> HIDE DEF d, h
  <1>7. [[st EXCEPT !.wanted = hint] EXCEPT !.hint = h] = st2
    BY <1>3, RoutedStepIs DEF StepOK, Shapes
  <1>8. step' = [step EXCEPT ![s] = st2]
    BY <1>3, <1>6, <1>7 DEF OnSteps
  <1>9. /\ st2.hint = h /\ st2.wanted = hint /\ st2.replanned = st.replanned /\ IsStep(st2)
    BY DEF IsStep
  <1> HIDE DEF st, st2
  <1>10. StepOK(config, "ready", st2, d, call[s], records[s])
    <2>1. Shapes(st2, d, call[s], records[s])
      BY <1>3, <1>4, <1>9 DEF StepOK, Shapes
    <2>2. Chosen(config, "ready", st2, d, call[s])
      BY <1>4, <1>9 DEF Chosen
    <2>3. Traced(config, "ready", st2, call[s], records[s])
      BY <1>2, <1>3 DEF StepOK, Traced
    <2> QED
      BY <2>1, <2>2, <2>3 DEF StepOK
  <1>11. /\ OnSteps(at') /\ at'[s] = "ready" /\ \A t \in Steps : t # s => at'[t] = at[t]
    BY <1>2, <1>3 DEF OnSteps
  <1>12. /\ OnSteps(step') /\ step'[s] = st2 /\ \A t \in Steps : t # s => step'[t] = step[t]
    BY <1>3, <1>8 DEF OnSteps
  <1>13. /\ OnSteps(decision') /\ decision'[s] = d
         /\ \A t \in Steps : t # s => decision'[t] = decision[t]
    BY <1>3, <1>5 DEF OnSteps
  <1>14. OnSteps(call') /\ OnSteps(records') /\ call' = call /\ records' = records
    BY <1>2, <1>3
  <1>15. StepOK(config, at'[s], step'[s], decision'[s], call'[s], records'[s])
    BY <1>10, <1>11, <1>12, <1>13, <1>14
  <1> QED
    BY <1>2, <1>11, <1>12, <1>13, <1>14, <1>15, OneStepChanges

\* _execute_step without a call: only a step without records completes so.
LEMMA StepWithoutCallKeeps ==
    ASSUME IInv, NEW s \in Steps, StepWithoutCall(s)
    PROVE  IInv'
  <1> DEFINE a == IF step[s].hint = NoTool THEN "completed" ELSE "skipped"
  <1>1. /\ at[s] = "ready" /\ at' = [at EXCEPT ![s] = a]
        /\ UNCHANGED <<config, step, decision, call, records>>
    BY DEF StepWithoutCall
  <1>2. /\ config \in Configs /\ OnSteps(at) /\ OnSteps(step) /\ OnSteps(decision)
        /\ OnSteps(call) /\ OnSteps(records)
        /\ StepOK(config, at[s], step[s], decision[s], call[s], records[s])
    BY DEF IInv
  <1>3. StepOK(config, a, step[s], decision[s], call[s], records[s])
    <2>1. Chosen(config, a, step[s], decision[s], call[s])
      BY DEF Chosen
    <2>2. Traced(config, a, step[s], call[s], records[s])
      BY <1>1, <1>2 DEF StepOK, Traced
    <2> QED
      BY <1>2, <2>1, <2>2 DEF StepOK
  <1> HIDE DEF a
  <1>4. /\ OnSteps(at') /\ at'[s] = a /\ \A t \in Steps : t # s => at'[t] = at[t]
    BY <1>1, <1>2 DEF OnSteps
  <1>5. /\ OnSteps(step') /\ OnSteps(decision') /\ OnSteps(call') /\ OnSteps(records')
        /\ step' = step /\ decision' = decision /\ call' = call /\ records' = records
    BY <1>1, <1>2
  <1>6. StepOK(config, at'[s], step'[s], decision'[s], call'[s], records'[s])
    BY <1>3, <1>4, <1>5
  <1> QED
    BY <1>1, <1>4, <1>5, <1>6, OneStepChanges

\* A call that is changed in one field.
LEMMA CallWith ==
    ASSUME NEW cl, NEW tool, NEW attempt, NEW isFallback, NEW policy,
           cl = [tool |-> tool, attempt |-> attempt, isFallback |-> isFallback,
                 policy |-> policy],
           NEW x
    PROVE  /\ [cl EXCEPT !.tool = x] =
                 [tool |-> x, attempt |-> attempt, isFallback |-> isFallback, policy |-> policy]
           /\ [cl EXCEPT !.attempt = x] =
                 [tool |-> tool, attempt |-> x, isFallback |-> isFallback, policy |-> policy]
           /\ [cl EXCEPT !.isFallback = x] =
                 [tool |-> tool, attempt |-> attempt, isFallback |-> x, policy |-> policy]
  OBVIOUS

\* The first try of a call.
LEMMA NewCallIs ==
    ASSUME NEW h
    PROVE  [NoCall EXCEPT !.tool = h, !.attempt = 1] =
              [tool |-> h, attempt |-> 1, isFallback |-> FALSE, policy |-> FALSE]
  <1> DEFINE zero == 0  one == 1  no == FALSE
             c0 == NoCall
             c1 == [c0 EXCEPT !.tool = h]
             c2 == [c1 EXCEPT !.attempt = one]
  <1>1. c0 = [tool |-> NoTool, attempt |-> zero, isFallback |-> no, policy |-> no]
    BY DEF NoCall
  <1> HIDE DEF zero, one, no, c0
  <1>2. c1 = [tool |-> h, attempt |-> zero, isFallback |-> no, policy |-> no]
    BY <1>1, CallWith
  <1> HIDE DEF c1
  <1>3. c2 = [tool |-> h, attempt |-> one, isFallback |-> no, policy |-> no]
    BY <1>2, CallWith
  <1> QED
    BY <1>3 DEF c2, c1, c0, one, no

\* _execute_step calls the tool of the hint, with a new trace.
LEMMA StartCallKeeps ==
    ASSUME IInv, NEW s \in Steps, StartCall(s)
    PROVE  IInv'
  <1> DEFINE cl == [tool |-> step[s].hint, attempt |-> 1, isFallback |-> FALSE,
                    policy |-> FALSE]
             r == <<>>
  <1>0. [NoCall EXCEPT !.tool = step[s].hint, !.attempt = 1] = cl
    BY NewCallIs
  <1>1. /\ at[s] = "ready" /\ step[s].hint # NoTool
        /\ at' = [at EXCEPT ![s] = "calling"]
        /\ call' = [call EXCEPT ![s] = cl]
        /\ records' = [records EXCEPT ![s] = r]
        /\ UNCHANGED <<config, step, decision>>
    BY <1>0 DEF StartCall
  <1>2. /\ config \in Configs /\ OnSteps(at) /\ OnSteps(step) /\ OnSteps(decision)
        /\ OnSteps(call) /\ OnSteps(records)
        /\ StepOK(config, at[s], step[s], decision[s], call[s], records[s])
    BY DEF IInv
  <1>3. /\ cl.tool = step[s].hint /\ cl.attempt = 1 /\ ~cl.isFallback /\ ~cl.policy
        /\ IsCall(cl)
    BY DEF IsCall
  <1>4. Len(r) = 0 /\ IsList(r) /\ Trail(r)
    BY DEF IsList, Trail
  <1> HIDE DEF cl, r
  <1>5. StepOK(config, "calling", step[s], decision[s], cl, r)
    <2>1. Shapes(step[s], decision[s], cl, r)
      BY <1>2, <1>3, <1>4 DEF StepOK, Shapes
    <2>2. Chosen(config, "calling", step[s], decision[s], cl)
      BY <1>1, <1>2, <1>3 DEF StepOK, Chosen
    <2>3. 1 \in 1..MaxAttempts
      BY ToolCallsAssumption
    <2>4. Traced(config, "calling", step[s], cl, r)
      BY <1>3, <1>4, <2>3 DEF Traced, Continues
    <2> QED
      BY <2>1, <2>2, <2>4 DEF StepOK
  <1>6. /\ OnSteps(at') /\ at'[s] = "calling" /\ \A t \in Steps : t # s => at'[t] = at[t]
    BY <1>1, <1>2 DEF OnSteps
  <1>7. /\ OnSteps(call') /\ call'[s] = cl /\ \A t \in Steps : t # s => call'[t] = call[t]
    BY <1>1, <1>2 DEF OnSteps
  <1>8. /\ OnSteps(records') /\ records'[s] = r
        /\ \A t \in Steps : t # s => records'[t] = records[t]
    BY <1>1, <1>2 DEF OnSteps
  <1>9. OnSteps(step') /\ OnSteps(decision') /\ step' = step /\ decision' = decision
    BY <1>1, <1>2
  <1>10. StepOK(config, at'[s], step'[s], decision'[s], call'[s], records'[s])
    BY <1>5, <1>6, <1>7, <1>8, <1>9
  <1> QED
    BY <1>1, <1>6, <1>7, <1>8, <1>9, <1>10, OneStepChanges

\* The record of a try that ends.
TryRecord(cl, ok) == [tool |-> cl.tool, attempt |-> cl.attempt, ok |-> ok]

\* What the trace timer writes.
LEMMA RecordIs ==
    ASSUME NEW cl, NEW ok
    PROVE  /\ TryRecord(cl, ok).tool = cl.tool /\ TryRecord(cl, ok).ok = ok
           /\ TryRecord(cl, ok).attempt = cl.attempt
  BY DEF TryRecord

\* The records after a try that ends: still a trail, with the try as the last one.
LEMMA RecordedIs ==
    ASSUME IInv, NEW s \in Steps, NEW ok, Recorded(s, ok), at[s] = "calling"
    PROVE  LET r == Append(records[s], TryRecord(call[s], ok))
           IN /\ OnSteps(records') /\ records'[s] = r
              /\ \A t \in Steps : t # s => records'[t] = records[t]
              /\ IsList(r) /\ Trail(r) /\ Len(r) \in Nat \ {0}
              /\ r[Len(r)] = TryRecord(call[s], ok)
  <1> DEFINE x == TryRecord(call[s], ok)
             r == Append(records[s], x)
  <1>1. records' = [records EXCEPT ![s] = Append(@, x)]
    BY DEF Recorded, TryRecord
  <1>2. /\ OnSteps(records) /\ IsList(records[s]) /\ Trail(records[s])
        /\ Continues(records[s], call[s])
    BY DEF IInv, StepOK, Shapes, Traced
  <1>3. Trail(r)
    BY <1>2, TrailGoesOn DEF TryRecord
  <1> HIDE DEF x
  <1>4. IsList(r) /\ Len(r) = Len(records[s]) + 1 /\ r[Len(r)] = x
    BY <1>2, AppendIs
  <1>5. records' = [records EXCEPT ![s] = r]
    BY <1>1, <1>2 DEF OnSteps
  <1> HIDE DEF r
  <1>6. /\ OnSteps(records') /\ records'[s] = r
        /\ \A t \in Steps : t # s => records'[t] = records[t]
    BY <1>2, <1>5 DEF OnSteps
  <1>7. Len(r) \in Nat \ {0}
    BY <1>2, <1>4 DEF IsList
  <1> QED
    BY <1>3, <1>4, <1>6, <1>7 DEF r, x

\* A client that leaves: the try under way is recorded as a failure.
LEMMA CancelCallKeeps ==
    ASSUME IInv, NEW s \in Steps, CancelCall(s)
    PROVE  IInv'
  <1> DEFINE x == TryRecord(call[s], FALSE)
             r == Append(records[s], x)
  <1>1. /\ at[s] = "calling" /\ Recorded(s, FALSE) /\ at' = [at EXCEPT ![s] = "cancelled"]
        /\ UNCHANGED <<config, step, decision, call>>
    BY DEF CancelCall
  <1>2. /\ config \in Configs /\ OnSteps(at) /\ OnSteps(step) /\ OnSteps(decision)
        /\ OnSteps(call) /\ OnSteps(records)
        /\ StepOK(config, at[s], step[s], decision[s], call[s], records[s])
    BY DEF IInv
  <1>3. /\ OnSteps(records') /\ records'[s] = r
        /\ \A t \in Steps : t # s => records'[t] = records[t]
        /\ IsList(r) /\ Trail(r) /\ Len(r) \in Nat \ {0} /\ r[Len(r)] = x
    BY <1>1, RecordedIs
  <1>4. ~x.ok
    BY RecordIs
  <1> HIDE DEF x, r
  <1>5. StepOK(config, "cancelled", step[s], decision[s], call[s], r)
    <2>1. Shapes(step[s], decision[s], call[s], r)
      BY <1>2, <1>3 DEF StepOK, Shapes
    <2>2. Chosen(config, "cancelled", step[s], decision[s], call[s])
      BY DEF Chosen
    <2>3. Traced(config, "cancelled", step[s], call[s], r)
      BY <1>3, <1>4 DEF Traced
    <2> QED
      BY <2>1, <2>2, <2>3 DEF StepOK
  <1>6. /\ OnSteps(at') /\ at'[s] = "cancelled" /\ \A t \in Steps : t # s => at'[t] = at[t]
    BY <1>1, <1>2 DEF OnSteps
  <1>7. /\ OnSteps(step') /\ OnSteps(decision') /\ OnSteps(call')
        /\ step' = step /\ decision' = decision /\ call' = call
    BY <1>1, <1>2
  <1>8. StepOK(config, at'[s], step'[s], decision'[s], call'[s], records'[s])
    BY <1>3, <1>5, <1>6, <1>7
  <1> QED
    BY <1>1, <1>3, <1>6, <1>7, <1>8, OneStepChanges

\* A call that goes on with another try.
LEMMA CallGoesOn ==
    ASSUME IInv, NEW s \in Steps, at[s] = "calling", Recorded(s, FALSE),
           UNCHANGED <<config, at, step, decision>>,
           NEW cl, call' = [call EXCEPT ![s] = cl], IsCall(cl),
           cl.attempt \in 1..MaxAttempts,
           Follows(TryRecord(call[s], FALSE), cl.tool, cl.attempt),
           ~cl.isFallback =>
              IF cl.policy
              THEN cl.tool = decision[s].fallback /\ decision[s].fallback \in config.registry
              ELSE cl.tool = step[s].hint
    PROVE  IInv'
  <1> DEFINE x == TryRecord(call[s], FALSE)
             r == Append(records[s], x)
  <1>1. /\ config \in Configs /\ OnSteps(at) /\ OnSteps(step) /\ OnSteps(decision)
        /\ OnSteps(call) /\ OnSteps(records)
        /\ StepOK(config, at[s], step[s], decision[s], call[s], records[s])
    BY DEF IInv
  <1>2. /\ OnSteps(records') /\ records'[s] = r
        /\ \A t \in Steps : t # s => records'[t] = records[t]
        /\ IsList(r) /\ Trail(r) /\ Len(r) \in Nat \ {0} /\ r[Len(r)] = x
    BY RecordedIs
  <1>3. Follows(x, cl.tool, cl.attempt)
    OBVIOUS
  <1> HIDE DEF x, r
  <1>4. StepOK(config, "calling", step[s], decision[s], cl, r)
    <2>1. Shapes(step[s], decision[s], cl, r)
      BY <1>1, <1>2 DEF StepOK, Shapes
    <2>2. Chosen(config, "calling", step[s], decision[s], cl)
      BY <1>1 DEF StepOK, Chosen
    <2>3. Traced(config, "calling", step[s], cl, r)
      BY <1>2, <1>3 DEF Traced, Continues
    <2> QED
      BY <2>1, <2>2, <2>3 DEF StepOK
  <1>5. /\ OnSteps(call') /\ call'[s] = cl /\ \A t \in Steps : t # s => call'[t] = call[t]
    BY <1>1 DEF OnSteps
  <1>6. /\ OnSteps(at') /\ OnSteps(step') /\ OnSteps(decision')
        /\ at' = at /\ step' = step /\ decision' = decision
    BY <1>1
  <1>7. StepOK(config, at'[s], step'[s], decision'[s], call'[s], records'[s])
    BY <1>2, <1>4, <1>5, <1>6
  <1> QED
    BY <1>2, <1>5, <1>6, <1>7, OneStepChanges

\* _try_with_retries and both fallbacks: each next try follows the record of the last.
LEMMA TryFailsKeeps ==
    ASSUME IInv, NEW s \in Steps, TryFails(s)
    PROVE  IInv'
  <1> DEFINE tool == call[s].tool
             n == call[s].attempt
             isFallback == call[s].isFallback
             policy == call[s].policy
             c0 == call[s]
             Next3(cl) ==
                /\ call' = [call EXCEPT ![s] = cl] /\ IsCall(cl)
                /\ cl.attempt \in 1..MaxAttempts
                /\ Follows(TryRecord(call[s], FALSE), cl.tool, cl.attempt)
                /\ ~cl.isFallback =>
                      IF cl.policy
                      THEN /\ cl.tool = decision[s].fallback
                           /\ decision[s].fallback \in config.registry
                      ELSE cl.tool = step[s].hint
  <1>1. at[s] = "calling" /\ Recorded(s, FALSE) /\ UNCHANGED <<config, at, step, decision>>
    BY DEF TryFails
  <1>2. /\ OnSteps(call)
        /\ c0 = [tool |-> tool, attempt |-> n, isFallback |-> isFallback, policy |-> policy]
        /\ n \in 1..MaxAttempts
        /\ ~isFallback =>
              IF policy
              THEN tool = decision[s].fallback /\ decision[s].fallback \in config.registry
              ELSE tool = step[s].hint
    BY <1>1 DEF IInv, StepOK, Shapes, IsCall, Chosen, Traced
  <1>3. /\ TryRecord(call[s], FALSE).tool = tool /\ ~TryRecord(call[s], FALSE).ok
        /\ TryRecord(call[s], FALSE).attempt = n
    BY RecordIs
  <1>4. MaxAttempts \in Nat \ {0}
    BY ToolCallsAssumption
  <1>5. ~TriesLeft(s) => n = MaxAttempts
    BY <1>2, <1>4 DEF TriesLeft
  <1>6. SUFFICES \E cl : Next3(cl)
    BY <1>1, CallGoesOn
  <1>7. CASE TriesLeft(s) /\ call' = [call EXCEPT ![s].attempt = @ + 1]
    <2> DEFINE m == n + 1
               cl == [tool |-> tool, attempt |-> m, isFallback |-> isFallback,
                      policy |-> policy]
    <2>1. n < MaxAttempts
      BY <1>7 DEF TriesLeft
    <2>2. m \in 1..MaxAttempts /\ m # 1
      BY <1>2, <1>4, <2>1
    <2>3. call' = [call EXCEPT ![s] = [c0 EXCEPT !.attempt = m]]
      BY <1>2, <1>7 DEF OnSteps
    <2>4. Follows(TryRecord(call[s], FALSE), tool, m)
      BY <1>3, <2>2 DEF Follows
    <2> HIDE DEF m, tool, n, isFallback, policy, c0
    <2>5. [c0 EXCEPT !.attempt = m] = cl
      BY <1>2, CallWith
    <2>6. /\ cl.tool = tool /\ cl.attempt = m /\ cl.isFallback = isFallback
          /\ cl.policy = policy /\ IsCall(cl)
      BY DEF IsCall
    <2> HIDE DEF cl
    <2>7. Next3(cl)
      BY <1>2, <2>2, <2>3, <2>4, <2>5, <2>6
    <2> QED
      BY <2>7
  <1>8. CASE /\ FallbackOfExecutor(s)
             /\ call' = [call EXCEPT ![s].tool = FallbackTools[@], ![s].attempt = 1,
                                     ![s].isFallback = TRUE]
    <2> DEFINE one == 1
               yes == TRUE
               new == FallbackTools[tool]
               c1 == [c0 EXCEPT !.tool = new]
               c2 == [c1 EXCEPT !.attempt = one]
               c3 == [c2 EXCEPT !.isFallback = yes]
               cl == [tool |-> new, attempt |-> one, isFallback |-> yes, policy |-> policy]
    <2>1. n = MaxAttempts
      BY <1>5, <1>8 DEF FallbackOfExecutor
    <2>2. call' = [call EXCEPT ![s] = c3]
      BY <1>2, <1>8 DEF OnSteps
    <2>3. Follows(TryRecord(call[s], FALSE), new, one) /\ one \in 1..MaxAttempts
      <3>1. one \in 1..MaxAttempts
        BY <1>4
      <3>2. Follows(TryRecord(call[s], FALSE), new, one)
        <4> DEFINE x == TryRecord(call[s], FALSE)
        <4>1. ~x.ok /\ x.attempt = MaxAttempts
          BY <1>3, <2>1
        <4> HIDE DEF x
        <4> QED
          BY <4>1 DEF Follows, x
      <3> QED
        BY <3>1, <3>2
    <2> HIDE DEF one, yes, new, tool, n, isFallback, policy, c0
    <2>4. c1 = [tool |-> new, attempt |-> n, isFallback |-> isFallback, policy |-> policy]
      BY <1>2, CallWith
    <2> HIDE DEF c1
    <2>5. c2 = [tool |-> new, attempt |-> one, isFallback |-> isFallback, policy |-> policy]
      BY <2>4, CallWith
    <2> HIDE DEF c2
    <2>6. c3 = cl
      BY <2>5, CallWith
    <2>7. cl.tool = new /\ cl.attempt = one /\ cl.isFallback = yes /\ IsCall(cl)
      BY DEF IsCall
    <2>8. yes
      BY DEF yes
    <2> HIDE DEF c3, cl
    <2>9. Next3(cl)
      BY <2>2, <2>3, <2>6, <2>7, <2>8
    <2> QED
      BY <2>9
  <1>9. CASE /\ ~TriesLeft(s) /\ ~FallbackOfExecutor(s) /\ FallbackOfPolicy(s)
             /\ call' = [call EXCEPT ![s] = [tool |-> decision[s].fallback, attempt |-> 1,
                                             isFallback |-> FALSE, policy |-> TRUE]]
    <2> DEFINE new == decision[s].fallback
               cl == [tool |-> new, attempt |-> 1, isFallback |-> FALSE, policy |-> TRUE]
    <2>1. call' = [call EXCEPT ![s] = cl] /\ new \in config.registry
      BY <1>9 DEF FallbackOfPolicy
    <2>2. Follows(TryRecord(call[s], FALSE), new, 1) /\ 1 \in 1..MaxAttempts
      <3>1. 1 \in 1..MaxAttempts
        BY <1>4
      <3>2. Follows(TryRecord(call[s], FALSE), new, 1)
        <4> DEFINE x == TryRecord(call[s], FALSE)
        <4>1. ~x.ok /\ x.attempt = MaxAttempts
          BY <1>3, <1>5, <1>9
        <4> HIDE DEF x
        <4> QED
          BY <4>1 DEF Follows, x
      <3> QED
        BY <3>1, <3>2
    <2>3. cl.tool = new /\ cl.attempt = 1 /\ ~cl.isFallback /\ cl.policy /\ IsCall(cl)
      BY DEF IsCall
    <2> HIDE DEF cl
    <2>4. Next3(cl)
      BY <2>1, <2>2, <2>3
    <2> QED
      BY <2>4
  <1> QED
    BY <1>7, <1>8, <1>9 DEF TryFails

\* What the policy's call leaves of the decision.
LEMMA PolicyCallEndsIs ==
    ASSUME IInv, NEW s \in Steps, PolicyCallEnds(s)
    PROVE  /\ OnSteps(decision') /\ \A t \in Steps : t # s => decision'[t] = decision[t]
           /\ IsDecision(decision'[s])
           /\ decision'[s].fallback = decision[s].fallback
  <1>1. OnSteps(decision) /\ IsDecision(decision[s])
    BY DEF IInv, StepOK, Shapes
  <1>2. CASE ~call[s].policy
    BY <1>1, <1>2 DEF PolicyCallEnds
  <1>3. CASE call[s].policy
    <2> DEFINE d == decision[s]
               a == d.selected
               b == d.fallback
               c == d.used
               yes == TRUE
               d2 == [d EXCEPT !.used = yes]
    <2>1. decision' = [decision EXCEPT ![s] = d2]
      BY <1>1, <1>3 DEF PolicyCallEnds, RecordFallback, OnSteps
    <2>2. d = [selected |-> a, fallback |-> b, used |-> c]
      BY <1>1 DEF IsDecision
    <2> HIDE DEF a, b, c, yes, d
    <2>3. d2 = [selected |-> a, fallback |-> b, used |-> yes]
      BY <2>2
    <2> HIDE DEF d2
    <2>4. IsDecision(d2) /\ d2.fallback = b
      BY <2>3 DEF IsDecision
    <2>5. /\ OnSteps(decision') /\ decision'[s] = d2
          /\ \A t \in Steps : t # s => decision'[t] = decision[t]
      BY <1>1, <2>1 DEF OnSteps
    <2> QED
      BY <2>4, <2>5 DEF b, d
  <1> QED
    BY <1>2, <1>3

\* A call that ends the step, or its attempt.
LEMMA CallEnds ==
    ASSUME IInv, NEW s \in Steps, at[s] = "calling", NEW ok \in BOOLEAN, Recorded(s, ok),
           PolicyCallEnds(s), UNCHANGED <<config, call>>,
           NEW a, OnSteps(at'), at'[s] = a, \A t \in Steps : t # s => at'[t] = at[t],
           NEW st, OnSteps(step'), step'[s] = st,
           \A t \in Steps : t # s => step'[t] = step[t],
           IsStep(st), st.replanned = step[s].replanned,
           a \notin {"planned", "calling"}, a = "completed" <=> ok,
           a \in {"ready", "failed"} => call[s].attempt = MaxAttempts,
           a = "ready" =>
              /\ st.hint = step[s].hint /\ st.wanted = step[s].wanted
              /\ config.failurePolicy = "retry"
    PROVE  IInv'
  <1> DEFINE x == TryRecord(call[s], ok)
             r == Append(records[s], x)
  <1>1. /\ config \in Configs /\ OnSteps(call)
        /\ StepOK(config, "calling", step[s], decision[s], call[s], records[s])
    BY DEF IInv
  <1>2. /\ OnSteps(records') /\ records'[s] = r
        /\ \A t \in Steps : t # s => records'[t] = records[t]
        /\ IsList(r) /\ Trail(r) /\ Len(r) \in Nat \ {0} /\ r[Len(r)] = x
    BY RecordedIs
  <1>3. x.ok = ok /\ x.attempt = call[s].attempt
    BY RecordIs
  <1> HIDE DEF x, r
  <1> DEFINE d == decision'[s]
  <1>4. /\ OnSteps(decision') /\ \A t \in Steps : t # s => decision'[t] = decision[t]
        /\ IsDecision(d) /\ d.fallback = decision[s].fallback
    BY PolicyCallEndsIs
  <1> HIDE DEF d
  <1>5. StepOK(config, a, st, d, call[s], r)
    <2>1. Shapes(st, d, call[s], r)
      BY <1>1, <1>2, <1>4 DEF StepOK, Shapes
    <2>2. Chosen(config, a, st, d, call[s])
      BY <1>1, <1>4 DEF StepOK, Chosen, DecisionOK
    <2>3. Traced(config, a, st, call[s], r)
      <3>1. st.hint # NoTool \/ a # "ready"
        BY <1>1 DEF StepOK, Chosen
      <3> QED
        BY <1>2, <1>3, <3>1 DEF Traced
    <2> QED
      BY <2>1, <2>2, <2>3 DEF StepOK
  <1>6. OnSteps(call') /\ call' = call
    BY <1>1
  <1>7. StepOK(config, at'[s], step'[s], decision'[s], call'[s], records'[s])
    BY <1>2, <1>5, <1>6 DEF d
  <1> QED
    BY <1>2, <1>4, <1>6, <1>7, OneStepChanges

\* A try that succeeds ends its step.
LEMMA TrySucceedsKeeps ==
    ASSUME IInv, NEW s \in Steps, TrySucceeds(s)
    PROVE  IInv'
  <1> DEFINE st == step[s]
             a0 == st.hint
             b == st.wanted
             c == st.attempt
             d == st.replanned
             h == IF call[s].policy THEN decision[s].fallback ELSE a0
             st2 == [hint |-> h, wanted |-> b, attempt |-> c, replanned |-> d]
             yes == TRUE
             a == "completed"
  <1>1. /\ at[s] = "calling" /\ Recorded(s, yes) /\ at' = [at EXCEPT ![s] = a]
        /\ step' = IF call[s].policy THEN [step EXCEPT ![s].hint = decision[s].fallback]
                   ELSE step
        /\ PolicyCallEnds(s) /\ UNCHANGED <<config, call>>
    BY DEF TrySucceeds
  <1>2. OnSteps(at) /\ OnSteps(step) /\ IsStep(st)
    BY DEF IInv, StepOK, Shapes
  <1>3. OnSteps(step') /\ step'[s] = st2 /\ \A t \in Steps : t # s => step'[t] = step[t]
    <2>1. st = [hint |-> a0, wanted |-> b, attempt |-> c, replanned |-> d]
      BY <1>2 DEF IsStep
    <2>2. CASE call[s].policy
      <3> DEFINE x == decision[s].fallback
                 st3 == [st EXCEPT !.hint = x]
      <3>1. step' = [step EXCEPT ![s] = st3]
        BY <1>1, <1>2, <2>2 DEF OnSteps
      <3>2. h = x
        BY <2>2
      <3> HIDE DEF st, a0, b, c, d, x, h
      <3>3. st3 = st2
        BY <2>1, <3>2
      <3> HIDE DEF st3, st2
      <3> QED
        BY <1>2, <3>1, <3>3 DEF OnSteps
    <2>3. CASE ~call[s].policy
      <3>1. step' = step /\ h = a0
        BY <1>1, <2>3
      <3> HIDE DEF a0, b, c, d, h
      <3>2. st2 = st
        BY <2>1, <3>1
      <3> HIDE DEF st2
      <3> QED
        BY <1>2, <3>1, <3>2
    <2> QED
      BY <2>2, <2>3
  <1>4. st2.replanned = step[s].replanned /\ IsStep(st2)
    BY DEF IsStep
  <1> HIDE DEF st2
  <1>5. OnSteps(at') /\ at'[s] = a /\ \A t \in Steps : t # s => at'[t] = at[t]
    BY <1>1, <1>2 DEF OnSteps
  <1>6. /\ a \notin {"planned", "calling", "ready", "failed"} /\ (a = "completed" <=> yes)
        /\ yes \in BOOLEAN
    OBVIOUS
  <1> HIDE DEF a, yes
  <1> QED
    BY <1>1, <1>3, <1>4, <1>5, <1>6, CallEnds

\* The failure policies; a replan replaces steps that wait and have no records.
LEMMA StepFailsKeeps ==
    ASSUME IInv, NEW s \in Steps, StepFails(s)
    PROVE  IInv'
  <1> DEFINE st == step[s]
             no == FALSE
  <1>1. /\ at[s] = "calling" /\ Recorded(s, no) /\ PolicyCallEnds(s)
        /\ ~TriesLeft(s) /\ UNCHANGED <<config, call>>
    BY DEF StepFails
  <1>2. /\ OnSteps(at) /\ OnSteps(step) /\ IsStep(st)
        /\ call[s].attempt \in 1..MaxAttempts
    BY <1>1 DEF IInv, StepOK, Shapes, Traced
  <1>3. call[s].attempt = MaxAttempts
    BY <1>1, <1>2, ToolCallsAssumption DEF TriesLeft
  <1>4. ~no /\ no \in BOOLEAN
    OBVIOUS
  <1>5. CASE /\ config.failurePolicy = "retry" /\ at' = [at EXCEPT ![s] = "ready"]
             /\ step' = [step EXCEPT ![s].attempt = @ + 1]
    <2> DEFINE a == "ready"
               a0 == st.hint
               b == st.wanted
               c == st.attempt
               d == st.replanned
               n == c + 1
               st2 == [hint |-> a0, wanted |-> b, attempt |-> n, replanned |-> d]
               st3 == [st EXCEPT !.attempt = n]
    <2>1. st = [hint |-> a0, wanted |-> b, attempt |-> c, replanned |-> d]
      BY <1>2 DEF IsStep
    <2>2. step' = [step EXCEPT ![s] = st3]
      BY <1>2, <1>5 DEF OnSteps
    <2>3. /\ st2.replanned = st.replanned /\ st2.hint = st.hint /\ st2.wanted = st.wanted
          /\ IsStep(st2)
      BY DEF IsStep
    <2> HIDE DEF n
    <2>4. st3 = st2
      <3> HIDE DEF st, a0, b, c, d
      <3> QED
        BY <2>1
    <2> HIDE DEF st2, st3
    <2>5. OnSteps(step') /\ step'[s] = st2 /\ \A t \in Steps : t # s => step'[t] = step[t]
      BY <1>2, <2>2, <2>4 DEF OnSteps
    <2>6. OnSteps(at') /\ at'[s] = a /\ \A t \in Steps : t # s => at'[t] = at[t]
      BY <1>2, <1>5 DEF OnSteps
    <2>7. a \notin {"planned", "calling", "completed"}
      OBVIOUS
    <2>8. config.failurePolicy = "retry"
      BY <1>5
    <2> HIDE DEF a, no
    <2> QED
      BY <1>1, <1>3, <1>4, <2>3, <2>5, <2>6, <2>7, <2>8, CallEnds
  <1>6. CASE /\ at' = [at EXCEPT ![s] =
                         IF config.failurePolicy = "skip" THEN "skipped" ELSE "failed"]
             /\ UNCHANGED step
    <2> DEFINE a == IF config.failurePolicy = "skip" THEN "skipped" ELSE "failed"
    <2>1. OnSteps(at') /\ at'[s] = a /\ \A t \in Steps : t # s => at'[t] = at[t]
      BY <1>2, <1>6 DEF OnSteps
    <2>2. a \notin {"planned", "calling", "completed", "ready"}
      OBVIOUS
    <2>3. OnSteps(step') /\ step'[s] = st /\ \A t \in Steps : t # s => step'[t] = step[t]
      BY <1>2, <1>6
    <2>4. st.replanned = step[s].replanned
      OBVIOUS
    <2> HIDE DEF a, no, st
    <2> QED
      BY <1>1, <1>2, <1>3, <1>4, <2>1, <2>2, <2>3, <2>4, CallEnds
  <1>7. ASSUME config.failurePolicy = "replan", at' = [at EXCEPT ![s] = "failed"],
               NEW hints \in [ReplacedSteps(s) -> Hints],
               step' = [t \in Steps |->
                          IF t \in DOMAIN hints
                          THEN [step[t] EXCEPT !.hint = hints[t], !.replanned = TRUE]
                          ELSE step[t]]
        PROVE  IInv'
    <2> DEFINE x == TryRecord(call[s], no)
               r == Append(records[s], x)
               dec == decision'[s]
    <2>1. DOMAIN hints = ReplacedSteps(s)
      BY <1>7
    <2>2. OnSteps(at') /\ at'[s] = "failed" /\ \A t \in Steps : t # s => at'[t] = at[t]
      BY <1>2, <1>7 DEF OnSteps
    <2>3. /\ OnSteps(records') /\ records'[s] = r
          /\ \A t \in Steps : t # s => records'[t] = records[t]
          /\ IsList(r) /\ Trail(r) /\ Len(r) \in Nat \ {0} /\ r[Len(r)] = x
      BY <1>1, RecordedIs
    <2>4. x.ok = no /\ x.attempt = MaxAttempts
      BY <1>3, RecordIs
    <2> HIDE DEF x, r
    <2>5. /\ OnSteps(decision') /\ \A t \in Steps : t # s => decision'[t] = decision[t]
          /\ IsDecision(dec)
      BY <1>1, PolicyCallEndsIs
    <2> HIDE DEF dec
    <2>6. OnSteps(step') /\ OnSteps(call') /\ call' = call /\ config' \in Configs
      BY <1>1, <1>7 DEF OnSteps, IInv
    <2>7. \A t \in Steps \ ReplacedSteps(s) : step'[t] = step[t]
      BY <1>7, <2>1
    <2>8. s \notin ReplacedSteps(s)
      BY <1>1 DEF ReplacedSteps
    <2>9. StepOK(config', at'[s], step'[s], decision'[s], call'[s], records'[s])
      <3>1. step'[s] = st
        BY <2>7, <2>8
      <3>2. StepOK(config, "calling", st, decision[s], call[s], records[s])
        BY <1>1 DEF IInv
      <3> HIDE DEF st
      <3>3. Shapes(st, dec, call[s], r)
        BY <2>3, <2>5, <3>2 DEF StepOK, Shapes
      <3>4. Chosen(config, "failed", st, dec, call[s])
        BY DEF Chosen
      <3>5. Traced(config, "failed", st, call[s], r)
        BY <1>4, <2>3, <2>4 DEF Traced
      <3>6. StepOK(config, "failed", st, dec, call[s], r)
        BY <3>3, <3>4, <3>5 DEF StepOK
      <3> QED
        BY <1>1, <2>2, <2>3, <2>6, <3>1, <3>6 DEF dec
    <2>10. ASSUME NEW t \in Steps, t # s
           PROVE  StepOK(config', at'[t], step'[t], decision'[t], call'[t], records'[t])
      <3>1. StepOK(config, at[t], step[t], decision[t], call[t], records[t])
        BY DEF IInv
      <3>2. /\ at'[t] = at[t] /\ decision'[t] = decision[t] /\ call'[t] = call[t]
            /\ records'[t] = records[t] /\ config' = config
        BY <1>1, <2>2, <2>3, <2>5, <2>6, <2>10
      <3>3. CASE t \notin ReplacedSteps(s)
        BY <2>7, <3>1, <3>2, <3>3
      <3>4. CASE t \in ReplacedSteps(s)
        <4> DEFINE u == step[t]
                   a0 == u.hint
                   b == u.wanted
                   c == u.attempt
                   d == u.replanned
                   yes == TRUE
                   h == hints[t]
                   u1 == [u EXCEPT !.hint = h]
                   u2 == [u1 EXCEPT !.replanned = yes]
        <4>1. step'[t] = u2
          BY <1>7, <2>1, <3>4
        <4>2. u = [hint |-> a0, wanted |-> b, attempt |-> c, replanned |-> d]
          BY <3>1 DEF StepOK, Shapes, IsStep
        <4>3. yes /\ yes \in BOOLEAN
          OBVIOUS
        <4> HIDE DEF a0, b, c, d, yes, h, u
        <4>4. u1 = [hint |-> h, wanted |-> b, attempt |-> c, replanned |-> d]
          BY <4>2
        <4> HIDE DEF u1
        <4>5. u2 = [hint |-> h, wanted |-> b, attempt |-> c, replanned |-> yes]
          BY <4>4
        <4> HIDE DEF u2
        <4>6. IsStep(u2) /\ u2.replanned /\ u2.replanned \in BOOLEAN
          BY <4>3, <4>5 DEF IsStep
        <4>7. at[t] = "ready" /\ Len(records[t]) = 0 /\ Trail(records[t])
          BY <1>7, <3>1, <3>4 DEF ReplacedSteps, StepOK, Traced
        <4>8. Shapes(u2, decision[t], call[t], records[t])
          BY <3>1, <4>6 DEF StepOK, Shapes
        <4>9. Chosen(config, "ready", u2, decision[t], call[t])
          BY <4>6 DEF Chosen
        <4>10. Traced(config, "ready", u2, call[t], records[t])
          BY <4>7 DEF Traced
        <4>11. StepOK(config, "ready", u2, decision[t], call[t], records[t])
          BY <4>8, <4>9, <4>10 DEF StepOK
        <4> QED
          BY <3>2, <4>1, <4>7, <4>11
      <3> QED
        BY <3>3, <3>4
    <2>11. \A t \in Steps :
              StepOK(config', at'[t], step'[t], decision'[t], call'[t], records'[t])
      BY <2>9, <2>10
    <2> QED
      BY <2>2, <2>3, <2>5, <2>6, <2>11 DEF IInv
  <1> QED
    <2>1. CASE /\ config.failurePolicy = "retry" /\ step[s].attempt < StepAttempts
               /\ at' = [at EXCEPT ![s] = "ready"]
               /\ step' = [step EXCEPT ![s].attempt = @ + 1]
      BY <1>5, <2>1
    <2>2. CASE /\ config.failurePolicy = "retry" => step[s].attempt = StepAttempts
               /\ at' = [at EXCEPT ![s] =
                           IF config.failurePolicy = "skip" THEN "skipped" ELSE "failed"]
               /\ UNCHANGED step
      BY <1>6, <2>2
    <2>3. CASE /\ config.failurePolicy = "replan" /\ at' = [at EXCEPT ![s] = "failed"]
               /\ \E hints \in [ReplacedSteps(s) -> Hints] :
                     step' = [t \in Steps |->
                                 IF t \in DOMAIN hints
                                 THEN [step[t] EXCEPT !.hint = hints[t], !.replanned = TRUE]
                                 ELSE step[t]]
      BY <1>7, <2>3
    <2> QED
      BY <2>1, <2>2, <2>3 DEF StepFails

\* Every step keeps the invariant.
LEMMA NextIInv == IInv /\ [Next]_vars => IInv'
  <1> SUFFICES ASSUME IInv, [Next]_vars
               PROVE  IInv'
    OBVIOUS
  <1>1. CASE UNCHANGED vars
    BY <1>1 DEF vars, IInv, OnSteps
  <1>2. ASSUME NEW s \in Steps,
               \/ RouteStep(s) \/ StepWithoutCall(s) \/ StartCall(s)
               \/ TrySucceeds(s) \/ TryFails(s) \/ StepFails(s) \/ CancelCall(s)
        PROVE  IInv'
    BY <1>2, RouteStepKeeps, StepWithoutCallKeeps, StartCallKeeps, TrySucceedsKeeps,
       TryFailsKeeps, StepFailsKeeps, CancelCallKeeps
  <1>3. CASE AllEnded
    BY <1>1, <1>3 DEF AllEnded
  <1> QED
    BY <1>1, <1>2, <1>3 DEF Next

\* The invariant of the steps: decisions fit hints, records are trails.
THEOREM InvariantHolds == Spec => []IInv
  <1>1. Init => IInv
    BY InitIInv
  <1>2. IInv /\ [Next]_vars => IInv'
    BY NextIInv
  <1> QED
    BY <1>1, <1>2, PTL DEF Spec

-----------------------------------------------------------------------------
(***************************************************************************)
(* The properties.                                                         *)
(***************************************************************************)
\* ToolPolicyEngine.decide and _try_policy_fallback: whatever the strategy, the
\* registry and the scores, a step that no replan replaced is called with
\* registered and enabled tools of the family it was routed for, and the fallback
\* of the policy is never the tool that failed.
THEOREM CallsFit == Spec => []CallsFitTheStep
  <1>1. IInv => CallsFitTheStep
    <2> SUFFICES ASSUME IInv, NEW s \in Steps, at[s] = "calling", ~call[s].isFallback,
                        ~step[s].replanned
                 PROVE  /\ Usable(config, call[s].tool)
                        /\ Family(step[s].wanted) # Unknown =>
                              Family(call[s].tool) = Family(step[s].wanted)
                        /\ call[s].policy => call[s].tool # step[s].hint
      BY DEF CallsFitTheStep
    <2>1. Chosen(config, "calling", step[s], decision[s], call[s])
      BY DEF IInv, StepOK
    <2>2. /\ DecisionOK(config, decision[s], step[s].hint, step[s].wanted)
          /\ step[s].hint # NoTool
          /\ IF call[s].policy
             THEN call[s].tool = decision[s].fallback /\ decision[s].fallback \in config.registry
             ELSE call[s].tool = step[s].hint
      BY <2>1 DEF Chosen
    <2> QED
      BY <2>2 DEF DecisionOK, Fits
  <1> QED
    BY <1>1, InvariantHolds, PTL

\* The trace of a call tells how it ended (tools/executor.py and tools/tracing.py):
\* a tool is given up after its last try only, nothing is tried after a success,
\* and the step completed exactly if the last try did.
THEOREM OutcomeRecorded == Spec => []OutcomeIsRecorded
  <1>1. IInv => OutcomeIsRecorded
    <2> SUFFICES ASSUME IInv, NEW s \in Steps
                 PROVE  LET r == records[s]
                            last == r[Len(r)]
                        IN /\ \A i \in DOMAIN r : i > 1 =>
                                 /\ ~r[i - 1].ok
                                 /\ IF r[i].attempt = 1 THEN r[i - 1].attempt = MaxAttempts
                                    ELSE /\ r[i].tool = r[i - 1].tool
                                         /\ r[i].attempt = r[i - 1].attempt + 1
                           /\ r # <<>> /\ at[s] # "calling" =>
                                 (at[s] = "completed" <=> last.ok)
                           /\ r # <<>> /\ at[s] \in {"ready", "failed"} =>
                                 last.attempt = MaxAttempts
      BY DEF OutcomeIsRecorded
    <2> DEFINE r == records[s]
    <2>1. IsList(r) /\ Traced(config, at[s], step[s], call[s], r)
      BY DEF IInv, StepOK, Shapes
    <2> HIDE DEF r
    <2>2. DOMAIN r = 1..Len(r)
      BY <2>1 DEF IsList
    <2>3. r # <<>> => Len(r) # 0
      BY <2>1, EmptyIs
    <2>4. \A i \in DOMAIN r : i > 1 =>
             /\ ~r[i - 1].ok
             /\ IF r[i].attempt = 1 THEN r[i - 1].attempt = MaxAttempts
                ELSE /\ r[i].tool = r[i - 1].tool
                     /\ r[i].attempt = r[i - 1].attempt + 1
      BY <2>1, <2>2 DEF Traced, Trail, Follows
    <2>5. /\ r # <<>> /\ at[s] # "calling" => (at[s] = "completed" <=> r[Len(r)].ok)
          /\ r # <<>> /\ at[s] \in {"ready", "failed"} => r[Len(r)].attempt = MaxAttempts
      BY <2>1, <2>3 DEF Traced
    <2> QED
      BY <2>4, <2>5 DEF r
  <1> QED
    BY <1>1, InvariantHolds, PTL
=============================================================================
