-------------------------- MODULE PlannerAgent_proofs --------------------------
(***************************************************************************)
(* Proofs about ModelCalls and about PlannerAgent, which takes its actions *)
(* as steps.                                                               *)
(*                                                                         *)
(* For any number of concurrent questions and any numbers of retries, an   *)
(* outage fails neither a planner nor the critic, what rules answered for  *)
(* a provider is on the list of fallback events, and the nested retries    *)
(* multiply and no further.                                                *)
(*                                                                         *)
(* For every query, every set of tools and every list that a model writes, *)
(* however long: normalization drops repetition only, the validator takes  *)
(* the plans of the rules, and their new steps fit.                        *)
(***************************************************************************)
EXTENDS PlannerAgent, FiniteSetTheorems, WellFoundedInduction, TLAPS

(***************************************************************************)
(* A nonempty set of naturals has a least element, and if it is finite a   *)
(* greatest one.                                                           *)
(***************************************************************************)
LEMMA LeastNat ==
    ASSUME NEW S \in SUBSET Nat, S # {}
    PROVE  \E x \in S : \A y \in S : x <= y
  <1>1. PICK x \in S : \A y \in S : ~(<<y, x>> \in OpToRel(<, Nat))
    BY NatLessThanWellFounded, WFMin
  <1>2. ASSUME NEW y \in S
        PROVE  x <= y
    <2>1. <<y, x>> \in Nat \X Nat
      OBVIOUS
    <2>2. ~(y < x)
      BY <1>1, <2>1 DEF OpToRel
    <2> QED
      BY <2>2
  <1> QED
    BY <1>2

LEMMA GreatestOfFinite ==
    ASSUME NEW S \in SUBSET Nat, S # {}, IsFiniteSet(S)
    PROVE  /\ Max(S) \in S
           /\ \A y \in S : y <= Max(S)
  <1> DEFINE Above(x) == {y \in S : y > x}
             Sizes == {Cardinality(Above(x)) : x \in S}
  <1>1. \A x \in S : IsFiniteSet(Above(x)) /\ Cardinality(Above(x)) \in Nat
    <2> TAKE x \in S
    <2>1. Above(x) \in SUBSET S
      OBVIOUS
    <2> QED
      BY <2>1, FS_Subset, FS_CardinalityType
  <1>2. Sizes \in SUBSET Nat /\ Sizes # {}
    BY <1>1
  <1>3. PICK n \in Sizes : \A m \in Sizes : n <= m
    BY <1>2, LeastNat
  <1>4. PICK x \in S : n = Cardinality(Above(x))
    BY <1>3
  <1>5. ASSUME NEW y \in S, y > x
        PROVE  FALSE
    <2>1. Above(y) \in SUBSET Above(x)
      <3> SUFFICES ASSUME NEW z \in S, z > y
                   PROVE  z > x
        OBVIOUS
      <3>1. x \in Nat /\ y \in Nat /\ z \in Nat
        OBVIOUS
      <3> QED
        BY <1>5, <3>1
    <2>2. y \in Above(x) /\ y \notin Above(y)
      BY <1>5
    <2>3. Cardinality(Above(y)) <= Cardinality(Above(x))
      BY <1>1, <2>1, FS_Subset
    <2>4. Cardinality(Above(x)) # Cardinality(Above(y))
      BY <1>1, <2>1, <2>2, FS_Subset
    <2>5. Cardinality(Above(x)) <= Cardinality(Above(y))
      BY <1>3, <1>4
    <2> HIDE DEF Above
    <2> QED
      BY <1>1, <1>4, <1>5, <2>3, <2>4, <2>5
  <1>6. \A y \in S : y <= x
    BY <1>5
  <1>7. \E z \in S : \A y \in S : z >= y
    BY <1>6
  <1>8. Max(S) \in S /\ \A y \in S : Max(S) >= y
    BY <1>7 DEF Max
  <1> QED
    BY <1>8

-----------------------------------------------------------------------------
Backends == {"qwen", "openai", "rule_based"}

RuleWritten == {"rules", "rules_astray"}

Question ==
    [caller : Callers, at : {"idle", "request", "answered", "ended"},
     attempt : Nat, requests : Nat, total : Nat, text : Texts \cup {"none"},
     by : {"none", "model"} \cup RuleWritten,
     result : {"none", "used", "failed", "misshapen"}]

\* What an answer's author says of it: the rules write usable answers only.
AuthorOK(x) ==
    /\ x.by \in RuleWritten => x.at \in {"answered", "ended"} /\ x.text = "usable"
    /\ x.at = "answered" /\ x.text = "unusable" => x.by = "model"
    /\ x.at # "ended" => x.result = "none"
    /\ x.result = "failed" => x.caller \notin LastWordByRules /\ x.by = "model"

\* What the requests made so far leave to the present and to later attempts.
CostOK(x) ==
    /\ x.at = "idle" => x.attempt = 0 /\ x.total = 0
    /\ x.at = "request" =>
          /\ x.attempt \in 1..Attempts(x.caller)
          /\ x.requests < RequestsAllowed
          /\ x.total <= (x.attempt - 1) * RequestsAllowed + x.requests
    /\ x.at = "answered" /\ x.text = "unusable" =>
          /\ x.attempt <= Attempts(x.caller)
          /\ x.total <= x.attempt * RequestsAllowed
    /\ x.total <= Attempts(x.caller) * RequestsAllowed

\* An answer by rules in place of a provider's is on the list.
Explained(x, list) ==
    /\ provider # "rule_based"
    /\ x.by \in RuleWritten
    /\ x.attempt <= Attempts(x.caller)
    => \E k \in DOMAIN list : list[k] = x.caller

QuestionOK(x, list) == x \in Question /\ AuthorOK(x) /\ CostOK(x) /\ Explained(x, list)

IInv ==
    /\ provider \in Backends
    /\ events \in Seq(Callers)
    /\ question \in [Questions -> Question]
    /\ \A q \in Questions : QuestionOK(question[q], events)

-----------------------------------------------------------------------------
\* Every caller asks at least once.
LEMMA AttemptsPositive ==
    ASSUME NEW c \in Callers
    PROVE  Attempts(c) \in Nat \ {0}
  BY RetriesAssumption DEF Attempts, Callers

\* At least one request is allowed.
LEMMA AllowedPositive == RequestsAllowed \in Nat \ {0}
  BY RetriesAssumption DEF RequestsAllowed

\* More attempts allow no fewer requests.
LEMMA MoreAttempts ==
    ASSUME NEW a \in Nat, NEW b \in Nat, NEW r \in Nat, a <= b
    PROVE  a * r <= b * r
  <1> DEFINE d == b - a
  <1>1. d \in Nat /\ b = a + d
    OBVIOUS
  <1>2. b * r = a * r + d * r
    BY <1>1
  <1>3. d * r \in Nat /\ a * r \in Nat
    BY <1>1
  <1> QED
    BY <1>2, <1>3

\* One attempt more allows RequestsAllowed requests more.
LEMMA OneAttempt ==
    ASSUME NEW a \in Nat, NEW r \in Nat
    PROVE  (a + 1 - 1) * r = a * r /\ (a + 1) * r = a * r + r
  OBVIOUS

\* Counters are replaced by counters.
LEMMA RequestCounted ==
    ASSUME NEW x \in Question, NEW a \in Nat, NEW b \in Nat
    PROVE  [x EXCEPT !.requests = a, !.total = b] \in Question
  BY DEF Question

LEMMA AttemptCounted ==
    ASSUME NEW x \in Question, NEW a \in Nat
    PROVE  [x EXCEPT !.at = "request", !.attempt = a, !.requests = 0] \in Question
  BY DEF Question

\* The rules' answer to a question whose cost is within its bounds.
LEMMA ByRulesOK ==
    ASSUME NEW x \in Question, NEW list,
           x.result = "none",
           x.total <= Attempts(x.caller) * RequestsAllowed,
           Explained(ByRules(x), list)
    PROVE  QuestionOK(ByRules(x), list)
  <1>1. ByRules(x) \in Question
    BY DEF ByRules, Question, RuleWritten, Texts
  <1>2. AuthorOK(ByRules(x))
    BY DEF ByRules, Question, RuleWritten, AuthorOK
  <1>3. CostOK(ByRules(x))
    BY DEF ByRules, Question, CostOK
  <1> QED
    BY <1>1, <1>2, <1>3 DEF QuestionOK

\* A caller that has an attempt left asks for the first time or again.
LEMMA AskedOK ==
    ASSUME NEW x \in Question, NEW list,
           provider \in Backends,
           x.result = "none",
           x.by \notin RuleWritten,
           x.attempt < Attempts(x.caller),
           x.total <= x.attempt * RequestsAllowed
    PROVE  QuestionOK(Asked(x), list)
  <1>1. x.attempt \in Nat /\ x.total \in Nat /\ x.caller \in Callers
    BY DEF Question
  <1>2. Attempts(x.caller) \in Nat /\ RequestsAllowed \in Nat \ {0}
    BY <1>1, AttemptsPositive, AllowedPositive
  <1>3. x.total <= Attempts(x.caller) * RequestsAllowed
    <2>1. x.attempt * RequestsAllowed <= Attempts(x.caller) * RequestsAllowed
      BY <1>1, <1>2, MoreAttempts
    <2>2. x.attempt * RequestsAllowed \in Nat /\ Attempts(x.caller) * RequestsAllowed \in Nat
      BY <1>1, <1>2
    <2> QED
      BY <1>1, <2>1, <2>2
  <1>4. CASE provider = "rule_based"
    <2> DEFINE y == [x EXCEPT !.attempt = @ + 1]
    <2>1. y \in Question /\ y.result = "none" /\ y.total = x.total /\ y.caller = x.caller
      BY DEF Question
    <2>2. Explained(ByRules(y), list)
      BY <1>4 DEF Explained
    <2>3. QuestionOK(ByRules(y), list)
      BY <1>3, <2>1, <2>2, ByRulesOK
    <2> QED
      BY <1>4, <2>3 DEF Asked
  <1>5. CASE provider # "rule_based"
    <2> DEFINE y == [x EXCEPT !.at = "request", !.attempt = @ + 1, !.requests = 0]
    <2>1. /\ y \in Question
          /\ y.at = "request" /\ y.attempt = x.attempt + 1 /\ y.requests = 0
          /\ y.total = x.total /\ y.caller = x.caller /\ y.by = x.by
          /\ y.result = x.result
      <3>1. y \in Question
        <4>1. x.attempt + 1 \in Nat
          BY <1>1
        <4> QED
          BY <4>1, AttemptCounted
      <3>2. y.at = "request" /\ y.attempt = x.attempt + 1 /\ y.requests = 0
        BY DEF Question
      <3>3. y.total = x.total /\ y.caller = x.caller /\ y.by = x.by /\ y.result = x.result
        BY DEF Question
      <3> QED
        BY <3>1, <3>2, <3>3
    <2>2. AuthorOK(y)
      BY <2>1 DEF AuthorOK
    <2>3. CostOK(y)
      <3>1. (y.attempt - 1) * RequestsAllowed + y.requests = x.attempt * RequestsAllowed
        <4>1. y.attempt - 1 = x.attempt
          BY <1>1, <2>1
        <4>2. x.attempt * RequestsAllowed \in Nat
          BY <1>1, <1>2
        <4> QED
          BY <2>1, <4>1, <4>2
      <3>2. y.attempt \in 1..Attempts(y.caller) /\ y.requests < RequestsAllowed
        BY <1>1, <1>2, <2>1
      <3> QED
        BY <1>3, <2>1, <3>1, <3>2 DEF CostOK
    <2>4. Explained(y, list)
      BY <2>1 DEF Explained
    <2> QED
      BY <1>5, <2>1, <2>2, <2>3, <2>4 DEF Asked, QuestionOK
  <1> QED
    BY <1>4, <1>5

\* A request that is made stays within the bound of its attempt.
LEMMA RequestedOK ==
    ASSUME NEW x \in Question, x.at = "request", CostOK(x)
    PROVE  /\ Requested(x) \in Question
           /\ Requested(x) = [x EXCEPT !.requests = x.requests + 1, !.total = x.total + 1]
           /\ x.total + 1 <= (x.attempt - 1) * RequestsAllowed + x.requests + 1
           /\ x.total + 1 <= x.attempt * RequestsAllowed
           /\ x.total + 1 <= Attempts(x.caller) * RequestsAllowed
  <1>1. /\ x.attempt \in Nat \ {0} /\ x.total \in Nat /\ x.requests \in Nat
        /\ x.caller \in Callers
    BY DEF Question, CostOK
  <1>2. Attempts(x.caller) \in Nat /\ RequestsAllowed \in Nat \ {0}
    BY <1>1, AttemptsPositive, AllowedPositive
  <1>3. /\ x.attempt <= Attempts(x.caller) /\ x.requests < RequestsAllowed
        /\ x.total <= (x.attempt - 1) * RequestsAllowed + x.requests
    BY <1>1, <1>2 DEF CostOK
  <1>4. /\ (x.attempt - 1) * RequestsAllowed \in Nat
        /\ x.attempt * RequestsAllowed = (x.attempt - 1) * RequestsAllowed + RequestsAllowed
    <2> DEFINE a == x.attempt - 1
    <2>1. a \in Nat /\ x.attempt = a + 1
      BY <1>1
    <2>2. (a + 1) * RequestsAllowed = a * RequestsAllowed + RequestsAllowed
      BY <1>2, <2>1, OneAttempt
    <2>3. a * RequestsAllowed \in Nat
      BY <1>2, <2>1
    <2> QED
      BY <2>1, <2>2, <2>3
  <1>5. /\ x.total + 1 <= (x.attempt - 1) * RequestsAllowed + x.requests + 1
        /\ x.total + 1 <= x.attempt * RequestsAllowed
    BY <1>1, <1>2, <1>3, <1>4
  <1>6. x.attempt * RequestsAllowed <= Attempts(x.caller) * RequestsAllowed
    BY <1>1, <1>2, <1>3, MoreAttempts
  <1>7. x.total + 1 <= Attempts(x.caller) * RequestsAllowed
    <2>1. Attempts(x.caller) * RequestsAllowed \in Nat /\ x.attempt * RequestsAllowed \in Nat
      BY <1>1, <1>2
    <2> QED
      BY <1>1, <1>5, <1>6, <2>1
  <1>8. Requested(x) = [x EXCEPT !.requests = x.requests + 1, !.total = x.total + 1]
    BY DEF Requested
  <1>9. [x EXCEPT !.requests = x.requests + 1, !.total = x.total + 1] \in Question
    <2>1. x.requests + 1 \in Nat /\ x.total + 1 \in Nat
      BY <1>1
    <2> QED
      BY <2>1, RequestCounted
  <1> QED
    BY <1>5, <1>7, <1>8, <1>9

-----------------------------------------------------------------------------
\* Another event on the list takes nothing from what it explains.
LEMMA StillExplained ==
    ASSUME NEW x, NEW list \in Seq(Callers), NEW c \in Callers, Explained(x, list)
    PROVE  Explained(x, Append(list, c))
  <1>1. \A k \in DOMAIN list : k \in DOMAIN Append(list, c) /\ Append(list, c)[k] = list[k]
    OBVIOUS
  <1> QED
    BY <1>1 DEF Explained

\* An event on the list explains its own caller.
LEMMA NowExplained ==
    ASSUME NEW x, NEW list \in Seq(Callers), x.caller \in Callers
    PROVE  Explained(x, Append(list, x.caller))
  <1>1. /\ Len(list) + 1 \in DOMAIN Append(list, x.caller)
        /\ Append(list, x.caller)[Len(list) + 1] = x.caller
    OBVIOUS
  <1> QED
    BY <1>1 DEF Explained

\* A step of one question keeps the invariant if it keeps that question's part and
\* the list only grows.
LEMMA UpdateKeepsInv ==
    ASSUME IInv, NEW q \in Questions, NEW y,
           Update(q, y), provider' = provider,
           \/ events' = events
           \/ \E c \in Callers : events' = Append(events, c),
           QuestionOK(y, events')
    PROVE  IInv'
  <1>1. events' \in Seq(Callers)
    BY DEF IInv
  <1>2. question' \in [Questions -> Question]
    BY DEF IInv, Update, QuestionOK
  <1>3. ASSUME NEW p \in Questions
        PROVE  QuestionOK(question'[p], events')
    <2>1. CASE p = q
      BY <2>1 DEF IInv, Update
    <2>2. CASE p # q
      <3>1. question'[p] = question[p] /\ QuestionOK(question[p], events)
        BY <2>2 DEF IInv, Update
      <3>2. Explained(question[p], events')
        BY <3>1, StillExplained DEF IInv, QuestionOK
      <3> QED
        BY <3>1, <3>2 DEF QuestionOK
    <2> QED
      BY <2>1, <2>2
  <1>4. ASSUME NEW p \in Questions
        PROVE  QuestionOK(question[p], events)'
    BY <1>3 DEF QuestionOK, AuthorOK, CostOK, Explained, RequestsAllowed
  <1>5. provider' \in Backends
    BY DEF IInv
  <1> QED
    BY <1>1, <1>2, <1>4, <1>5 DEF IInv

\* Ask.
LEMMA AskKeepsInv ==
    ASSUME IInv, NEW q \in Questions, Ask(q)
    PROVE  IInv'
  <1> DEFINE x == question[q]
  <1>1. x \in Question /\ AuthorOK(x) /\ CostOK(x) /\ x.at = "idle"
    BY DEF IInv, QuestionOK, Ask
  <1>2. x.attempt = 0 /\ x.total = 0 /\ x.by \notin RuleWritten /\ x.caller \in Callers
    BY <1>1 DEF AuthorOK, CostOK, Question
  <1>3. x.attempt < Attempts(x.caller) /\ x.total <= x.attempt * RequestsAllowed
    BY <1>2, AttemptsPositive, AllowedPositive
  <1>4. x.result = "none"
    BY <1>1 DEF AuthorOK
  <1>5. QuestionOK(Asked(x), events)
    BY <1>1, <1>2, <1>3, <1>4, AskedOK DEF IInv
  <1> QED
    BY <1>5, UpdateKeepsInv DEF Ask

\* ModelAnswers, for either text.
LEMMA AnswerKeepsInv ==
    ASSUME IInv, NEW q \in Questions, ModelAnswers(q)
    PROVE  IInv'
  <1> DEFINE x == question[q]
  <1>1. x \in Question /\ AuthorOK(x) /\ CostOK(x) /\ x.at = "request"
    BY DEF IInv, QuestionOK, ModelAnswers
  <1>2. PICK t \in Texts : Update(q, [Requested(x) EXCEPT !.at = "answered", !.text = t,
                                                          !.by = "model"])
    BY DEF ModelAnswers
  <1> DEFINE y == [Requested(x) EXCEPT !.at = "answered", !.text = t, !.by = "model"]
  <1>3. Requested(x) \in Question
    BY <1>1, RequestedOK
  <1>4. /\ y.at = "answered" /\ y.by = "model"
        /\ y.total = x.total + 1 /\ y.attempt = x.attempt
        /\ y.caller = x.caller /\ y.result = x.result
    BY <1>1 DEF Requested, Question
  <1>5. y \in Question
    BY <1>3 DEF Question
  <1>6. AuthorOK(y)
    BY <1>1, <1>4 DEF AuthorOK, RuleWritten
  <1>7. CostOK(y)
    <2>1. x.attempt <= Attempts(x.caller)
      BY <1>1, AttemptsPositive DEF CostOK, Question
    <2> QED
      BY <1>1, <1>4, <2>1, RequestedOK DEF CostOK
  <1>8. Explained(y, events)
    BY <1>4 DEF Explained, RuleWritten
  <1>9. QuestionOK(y, events)
    BY <1>5, <1>6, <1>7, <1>8 DEF QuestionOK
  <1> QED
    BY <1>2, <1>9, UpdateKeepsInv DEF ModelAnswers

\* A request that is given up is answered by the rules, with an event.
LEMMA GivenUpKeepsInv ==
    ASSUME IInv, NEW q \in Questions,
           question[q].at = "request",
           Update(q, GivenUp(Requested(question[q]))),
           events' = Recorded(Requested(question[q])),
           provider' = provider
    PROVE  IInv'
  <1> DEFINE x == question[q]
             z == Requested(question[q])
  <1>1. x \in Question /\ AuthorOK(x) /\ CostOK(x)
    BY DEF IInv, QuestionOK
  <1>2. z \in Question /\ z.total <= Attempts(x.caller) * RequestsAllowed
    BY <1>1, RequestedOK DEF Question
  <1>3. z.caller = x.caller /\ z.result = x.result /\ x.caller \in Callers
    BY <1>1 DEF Requested, Question
  <1>4. z.result = "none"
    BY <1>1, <1>3 DEF AuthorOK
  <1>5. ByRules(z).caller = x.caller
    BY <1>2, <1>3 DEF ByRules, Question
  <1>6. events' = Append(events, x.caller)
    BY <1>3 DEF Recorded
  <1>7. Explained(ByRules(z), events')
    BY <1>3, <1>5, <1>6, NowExplained DEF IInv
  <1>8. QuestionOK(ByRules(z), events')
    BY <1>2, <1>3, <1>4, <1>7, ByRulesOK
  <1> QED
    BY <1>3, <1>6, <1>8, UpdateKeepsInv DEF GivenUp

\* RequestFails: the client repeats the request or gives it up.
LEMMA FailureKeepsInv ==
    ASSUME IInv, NEW q \in Questions, RequestFails(q)
    PROVE  IInv'
  <1> DEFINE x == question[q]
             z == Requested(question[q])
  <1>1. x \in Question /\ AuthorOK(x) /\ CostOK(x) /\ x.at = "request"
    BY DEF IInv, QuestionOK, RequestFails
  <1>2. CASE z.requests < RequestsAllowed
    <2>1. /\ z.at = "request" /\ z.by = x.by /\ z.text = x.text /\ z.result = x.result
          /\ z.total = x.total + 1 /\ z.requests = x.requests + 1
          /\ z.attempt = x.attempt /\ z.caller = x.caller
      BY <1>1 DEF Requested, Question
    <2>2. z \in Question
      BY <1>1, RequestedOK
    <2>3. AuthorOK(z)
      BY <1>1, <2>1 DEF AuthorOK
    <2>4. CostOK(z)
      <3>1. z.total <= (z.attempt - 1) * RequestsAllowed + x.requests + 1
        BY <1>1, <2>1, RequestedOK
      <3>2. (z.attempt - 1) * RequestsAllowed \in Int
        BY <2>1, <2>2, AllowedPositive DEF Question
      <3>3. z.total <= (z.attempt - 1) * RequestsAllowed + z.requests
        BY <1>1, <2>1, <3>1, <3>2 DEF Question
      <3>4. z.total <= Attempts(z.caller) * RequestsAllowed
        BY <1>1, <2>1, RequestedOK
      <3>5. z.attempt \in 1..Attempts(z.caller)
        BY <1>1, <2>1 DEF CostOK
      <3> QED
        BY <1>2, <2>1, <3>3, <3>4, <3>5 DEF CostOK
    <2>5. Explained(z, events)
      BY <1>1, <2>1 DEF Explained, AuthorOK
    <2>6. QuestionOK(z, events)
      BY <2>2, <2>3, <2>4, <2>5 DEF QuestionOK
    <2> QED
      BY <1>2, <2>6, UpdateKeepsInv DEF RequestFails
  <1>3. CASE ~(z.requests < RequestsAllowed)
    BY <1>1, <1>3, GivenUpKeepsInv DEF RequestFails
  <1> QED
    BY <1>2, <1>3

\* BodyMisshapen: the question ends with neither an answer nor a known error.
LEMMA MisshapenKeepsInv ==
    ASSUME IInv, NEW q \in Questions, BodyMisshapen(q)
    PROVE  IInv'
  <1> DEFINE x == question[q]
             y == [Requested(x) EXCEPT !.at = "ended", !.result = "misshapen"]
  <1>1. x \in Question /\ AuthorOK(x) /\ CostOK(x) /\ x.at = "request"
    BY DEF IInv, QuestionOK, BodyMisshapen
  <1>2. /\ y.at = "ended" /\ y.result = "misshapen" /\ y.by = x.by
        /\ y.total = x.total + 1 /\ y.attempt = x.attempt /\ y.caller = x.caller
    BY <1>1 DEF Requested, Question
  <1>3. y \in Question
    <2>1. Requested(x) \in Question
      BY <1>1, RequestedOK
    <2> QED
      BY <2>1 DEF Question
  <1>4. x.by \notin RuleWritten
    BY <1>1 DEF AuthorOK
  <1>5. AuthorOK(y)
    BY <1>2, <1>4 DEF AuthorOK
  <1>6. CostOK(y)
    BY <1>1, <1>2, RequestedOK DEF CostOK
  <1>7. Explained(y, events)
    BY <1>2, <1>4 DEF Explained
  <1>8. QuestionOK(y, events)
    BY <1>3, <1>5, <1>6, <1>7 DEF QuestionOK
  <1> QED
    BY <1>8, UpdateKeepsInv DEF BodyMisshapen

\* UseAnswer: a usable answer, whoever wrote it.
LEMMA UseKeepsInv ==
    ASSUME IInv, NEW q \in Questions, UseAnswer(q)
    PROVE  IInv'
  <1> DEFINE x == question[q]
             y == [x EXCEPT !.at = "ended", !.result = "used"]
  <1>1. /\ x \in Question /\ AuthorOK(x) /\ CostOK(x) /\ Explained(x, events)
        /\ x.at = "answered" /\ x.text = "usable"
    BY DEF IInv, QuestionOK, UseAnswer
  <1>2. /\ y.at = "ended" /\ y.result = "used" /\ y.by = x.by /\ y.text = x.text
        /\ y.total = x.total /\ y.attempt = x.attempt /\ y.caller = x.caller
    BY <1>1 DEF Question
  <1>3. y \in Question
    BY <1>1 DEF Question
  <1>4. AuthorOK(y)
    BY <1>1, <1>2 DEF AuthorOK
  <1>5. CostOK(y)
    BY <1>1, <1>2 DEF CostOK
  <1>6. Explained(y, events)
    BY <1>1, <1>2 DEF Explained
  <1>7. QuestionOK(y, events)
    BY <1>3, <1>4, <1>5, <1>6 DEF QuestionOK
  <1> QED
    BY <1>7, UpdateKeepsInv DEF UseAnswer

\* RejectAnswer: the caller asks again, leaves it to the rules, or raises.
LEMMA RejectKeepsInv ==
    ASSUME IInv, NEW q \in Questions, RejectAnswer(q)
    PROVE  IInv'
  <1> DEFINE x == question[q]
  <1>1. /\ x \in Question /\ AuthorOK(x) /\ CostOK(x) /\ Explained(x, events)
        /\ x.at = "answered" /\ x.text = "unusable"
        /\ provider \in Backends
    BY DEF IInv, QuestionOK, RejectAnswer
  <1>2. /\ x.by = "model" /\ x.result = "none"
        /\ x.total <= x.attempt * RequestsAllowed
        /\ x.total <= Attempts(x.caller) * RequestsAllowed
        /\ x.attempt <= Attempts(x.caller)
    BY <1>1 DEF AuthorOK, CostOK
  <1>3. CASE AskAgain(x)
    <2>1. QuestionOK(Asked(x), events)
      BY <1>1, <1>2, <1>3, AskedOK DEF AskAgain, RuleWritten
    <2> QED
      BY <1>3, <2>1, UpdateKeepsInv DEF RejectAnswer
  <1>4. CASE ~AskAgain(x) /\ x.caller \in LastWordByRules
    <2> DEFINE z == [x EXCEPT !.attempt = @ + 1]
    <2>1. /\ z.attempt = x.attempt + 1 /\ z.total = x.total /\ z.caller = x.caller
          /\ z.result = x.result
      BY <1>1 DEF Question
    <2>2. z \in Question
      <3>1. x.attempt + 1 \in Nat
        BY <1>1 DEF Question
      <3> QED
        BY <1>1, <3>1 DEF Question
    <2>3. ~(z.attempt <= Attempts(z.caller))
      <3>1. x.attempt \in Nat /\ Attempts(x.caller) \in Nat
        BY <1>1, AttemptsPositive DEF Question
      <3> QED
        BY <1>4, <2>1, <3>1 DEF AskAgain
    <2>4. ByRules(z).attempt = z.attempt /\ ByRules(z).caller = z.caller
      BY <2>2 DEF ByRules, Question
    <2>5. Explained(ByRules(z), events)
      BY <2>3, <2>4 DEF Explained
    <2>6. QuestionOK(ByRules(z), events)
      BY <1>2, <2>1, <2>2, <2>5, ByRulesOK
    <2> QED
      BY <1>4, <2>6, UpdateKeepsInv DEF RejectAnswer
  <1>5. CASE ~AskAgain(x) /\ x.caller \notin LastWordByRules
    <2> DEFINE y == [x EXCEPT !.at = "ended", !.result = "failed"]
    <2>1. /\ y.at = "ended" /\ y.result = "failed" /\ y.by = x.by /\ y.text = x.text
          /\ y.total = x.total /\ y.attempt = x.attempt /\ y.caller = x.caller
      BY <1>1 DEF Question
    <2>2. y \in Question
      BY <1>1 DEF Question
    <2>3. AuthorOK(y)
      BY <1>2, <1>5, <2>1 DEF AuthorOK, RuleWritten
    <2>4. CostOK(y)
      BY <1>2, <2>1 DEF CostOK
    <2>5. Explained(y, events)
      BY <1>2, <2>1 DEF Explained, RuleWritten
    <2>6. QuestionOK(y, events)
      BY <2>2, <2>3, <2>4, <2>5 DEF QuestionOK
    <2> QED
      BY <1>5, <2>6, UpdateKeepsInv DEF RejectAnswer
  <1> QED
    BY <1>3, <1>4, <1>5

-----------------------------------------------------------------------------
\* Nothing has been asked.
LEMMA InitEstablishesInv == Init => IInv
  <1> SUFFICES ASSUME Init
               PROVE  IInv
    OBVIOUS
  <1>1. PICK callers \in [Questions -> Callers] :
           question = [q \in Questions |->
             [caller |-> callers[q], at |-> "idle", attempt |-> 0, requests |-> 0,
              total |-> 0, text |-> "none", by |-> "none", result |-> "none"]]
    BY DEF Init
  <1>2. ASSUME NEW q \in Questions
        PROVE  QuestionOK(question[q], events)
    <2>1. /\ question[q].at = "idle" /\ question[q].attempt = 0 /\ question[q].total = 0
          /\ question[q].by = "none" /\ question[q].result = "none"
          /\ question[q].caller = callers[q]
      BY <1>1
    <2>2. question[q] \in Question
      BY <1>1 DEF Question
    <2>3. Attempts(callers[q]) * RequestsAllowed \in Nat
      BY AttemptsPositive, AllowedPositive
    <2> QED
      BY <2>1, <2>2, <2>3 DEF QuestionOK, AuthorOK, CostOK, Explained, RuleWritten
  <1>3. question \in [Questions -> Question]
    BY <1>1, <1>2 DEF QuestionOK
  <1>4. provider \in Backends /\ events \in Seq(Callers)
    BY ProvidersAssumption DEF Init, Backends
  <1> QED
    BY <1>2, <1>3, <1>4 DEF IInv

LEMMA NextKeepsInv == IInv /\ [Next]_vars => IInv'
  <1> SUFFICES ASSUME IInv, [Next]_vars
               PROVE  IInv'
    OBVIOUS
  <1>1. CASE UNCHANGED vars
    BY <1>1 DEF vars, IInv, QuestionOK, AuthorOK, CostOK, Explained, RequestsAllowed
  <1>2. ASSUME NEW q \in Questions, QuestionStep(q)
        PROVE  IInv'
    <2>1. CASE BodyUnreadable(q)
      BY <2>1, GivenUpKeepsInv DEF BodyUnreadable
    <2> QED
      BY <1>2, <2>1, AskKeepsInv, AnswerKeepsInv, FailureKeepsInv, MisshapenKeepsInv,
         UseKeepsInv, RejectKeepsInv DEF QuestionStep
  <1>3. CASE AllEnded
    BY <1>1, <1>3 DEF AllEnded
  <1> QED
    BY <1>1, <1>2, <1>3 DEF Next

\* The inductive invariant holds in every behaviour.
THEOREM QuestionsInvariant == Spec => []IInv
  <1>1. Init => IInv
    BY InitEstablishesInv
  <1>2. IInv /\ [Next]_vars => IInv'
    BY NextKeepsInv
  <1> QED
    BY <1>1, <1>2, PTL DEF Spec

\* AdaptiveLLMClient and the callers' last word by rules: no outage and no useless
\* answer fails a planner or the critic.
THEOREM OutagesNeverFail == Spec => []OutageNeverFails
  <1>1. IInv => OutageNeverFails
    BY DEF IInv, QuestionOK, AuthorOK, OutageNeverFails
  <1> QED
    BY <1>1, QuestionsInvariant, PTL

\* record_fallback_event: what rules answered in place of a provider is on the list.
THEOREM RulesAlwaysExplained == Spec => []RulesAreExplained
  <1>1. IInv => RulesAreExplained
    BY DEF IInv, QuestionOK, Explained, RuleWritten, RulesAreExplained
  <1> QED
    BY <1>1, QuestionsInvariant, PTL

\* _post_completion inside complete inside the caller's attempts: the requests of a
\* question are at most the product of the two limits.
THEOREM CostAlwaysBounded == Spec => []CostBounded
  <1>1. IInv => CostBounded
    BY DEF IInv, QuestionOK, CostOK, CostBounded
  <1> QED
    BY <1>1, QuestionsInvariant, PTL

-----------------------------------------------------------------------------
\* HandOver lets go of the settled questions: what is said of them stays true.
LEMMA HandOverKeepsInv ==
    ASSUME IInv, NEW q \in Questions, HandOver(q)
    PROVE  IInv'
  <1>1. /\ \A p \in Questions : question[p].at = "ended"
        /\ question' = [p \in Questions |->
              [question[p] EXCEPT !.attempt = 0, !.requests = 0, !.total = 0,
                                  !.caller = "critic", !.text = "none", !.by = "none",
                                  !.result = "used"]]
        /\ provider' = "rule_based" /\ events' = <<>>
    BY DEF HandOver
  <1>2. ASSUME NEW p \in Questions
        PROVE  question'[p] \in Question /\ QuestionOK(question[p], events)'
    <2>1. question[p] \in Question /\ question[p].at = "ended"
      BY <1>1 DEF IInv
    <2>2. question'[p] = [caller |-> "critic", at |-> "ended", attempt |-> 0,
                          requests |-> 0, total |-> 0, text |-> "none", by |-> "none",
                          result |-> "used"]
      BY <1>1, <2>1 DEF Question
    <2> DEFINE x == question[p]
    <2>3. /\ x'.caller = "critic" /\ x'.at = "ended" /\ x'.attempt = 0 /\ x'.requests = 0
          /\ x'.total = 0 /\ x'.text = "none" /\ x'.by = "none" /\ x'.result = "used"
      BY <2>2
    <2>4. x' \in Question
      BY <2>2 DEF Question, Callers
    <2> HIDE DEF x
    <2>5. Attempts("critic") = 2 /\ RequestsAllowed' = 1
      BY <1>1 DEF Attempts, RequestsAllowed
    <2>6. CostOK(x)'
      BY <2>3, <2>5 DEF CostOK
    <2>7. AuthorOK(x)' /\ Explained(x, events)'
      BY <1>1, <2>3 DEF AuthorOK, Explained, RuleWritten
    <2>8. QuestionOK(x, events)'
      BY <2>4, <2>6, <2>7 DEF QuestionOK
    <2> QED
      BY <2>4, <2>8 DEF x
  <1>3. DOMAIN question' = Questions /\ question' = [p \in Questions |-> question'[p]]
    BY <1>1
  <1>4. question' \in [Questions -> Question]
    BY <1>2, <1>3
  <1>5. \A p \in Questions : QuestionOK(question[p], events)'
    BY <1>2
  <1>6. events' \in Seq(Callers)
    <2>1. events' = <<>>
      BY DEF HandOver
    <2>2. <<>> \in Seq(Callers)
      OBVIOUS
    <2> QED
      BY <2>1, <2>2
  <1>7. provider' \in Backends
    BY <1>1 DEF Backends
  <1> QED
    BY <1>4, <1>5, <1>6, <1>7 DEF IInv

-----------------------------------------------------------------------------
(***************************************************************************)
(* Lists.  InOrder lists each member of a finite set once: the ranks of    *)
(* the members in a strict total order are 0 to n - 1.                     *)
(***************************************************************************)
ListsOnce(order, S) ==
    /\ Cardinality(S) \in Nat
    /\ order = [k \in 1..Cardinality(S) |-> order[k]]
    /\ \A k \in 1..Cardinality(S) : order[k] \in S
    /\ \A x \in S : \E k \in 1..Cardinality(S) : order[k] = x
    /\ \A j, k \in 1..Cardinality(S) : order[j] = order[k] => j = k

StrictOrder(R, S) ==
    /\ \A x \in S : <<x, x>> \notin R
    /\ \A x, y \in S : x # y => <<x, y>> \in R \/ <<y, x>> \in R
    /\ \A x, y, z \in S : <<x, y>> \in R /\ <<y, z>> \in R => <<x, z>> \in R

\* The members of S by their ranks.
Ranked(S, R) ==
    [k \in 1..Cardinality(S) |->
        CHOOSE x \in S : Cardinality({y \in S : <<y, x>> \in R}) = k - 1]

LEMMA RanksListOnce ==
    ASSUME NEW S, IsFiniteSet(S), NEW R, StrictOrder(R, S)
    PROVE  ListsOnce(Ranked(S, R), S)
  <1> DEFINE Before(x) == {y \in S : <<y, x>> \in R}
             n == Cardinality(S)
             rank == [x \in S |-> Cardinality(Before(x)) + 1]
             order == [k \in 1..n |-> CHOOSE x \in S : Cardinality(Before(x)) = k - 1]
  <1>1. n \in Nat
    BY FS_CardinalityType
  <1>2. ASSUME NEW x \in S
        PROVE  /\ IsFiniteSet(Before(x)) /\ Cardinality(Before(x)) \in Nat
               /\ Cardinality(Before(x)) < n
    <2>1. Before(x) \in SUBSET S /\ x \notin Before(x)
      BY DEF StrictOrder
    <2>2. IsFiniteSet(Before(x)) /\ Cardinality(Before(x)) <= n /\ Cardinality(Before(x)) # n
      BY <2>1, FS_Subset
    <2> QED
      BY <1>1, <2>2, FS_CardinalityType
  <1>3. ASSUME NEW x \in S, NEW y \in S, <<x, y>> \in R
        PROVE  Cardinality(Before(x)) < Cardinality(Before(y))
    <2>1. Before(x) \in SUBSET Before(y)
      BY <1>3 DEF StrictOrder
    <2>2. x \in Before(y) /\ x \notin Before(x)
      BY <1>3 DEF StrictOrder
    <2>3. /\ Cardinality(Before(x)) <= Cardinality(Before(y))
          /\ Cardinality(Before(x)) # Cardinality(Before(y))
      BY <1>2, <2>1, <2>2, FS_Subset
    <2> QED
      BY <1>2, <2>3
  <1> HIDE DEF Before, n
  <1>4. rank \in [S -> 1..n] /\ \A x \in S : rank[x] = Cardinality(Before(x)) + 1
    BY <1>1, <1>2
  <1>5. \A x, y \in S : rank[x] = rank[y] => x = y
    <2> SUFFICES ASSUME NEW x \in S, NEW y \in S, x # y
                 PROVE  rank[x] # rank[y]
      OBVIOUS
    <2>1. <<x, y>> \in R \/ <<y, x>> \in R
      BY DEF StrictOrder
    <2>2. /\ Cardinality(Before(x)) \in Nat /\ Cardinality(Before(y)) \in Nat
          /\ \/ Cardinality(Before(x)) < Cardinality(Before(y))
             \/ Cardinality(Before(y)) < Cardinality(Before(x))
      BY <1>2, <1>3, <2>1
    <2>3. /\ rank[x] = Cardinality(Before(x)) + 1
          /\ rank[y] = Cardinality(Before(y)) + 1
      BY <1>4
    <2> HIDE DEF rank
    <2> QED
      BY <2>2, <2>3
  <1>6. IsFiniteSet(1..n) /\ Cardinality(1..n) = n
    BY <1>1, FS_Interval
  <1>7. rank \in Surjection(S, 1..n)
    <2> HIDE DEF rank
    <2>1. rank \in Injection(S, 1..n)
      BY <1>4, <1>5 DEF Injection, IsInjective
    <2> QED
      BY <1>6, <2>1, FS_Injection DEF n
  <1>8. \A k \in 1..n : \E x \in S : Cardinality(Before(x)) = k - 1
    <2> TAKE k \in 1..n
    <2>1. PICK x \in S : rank[x] = k
      <3> HIDE DEF rank
      <3> QED
        BY <1>7 DEF Surjection
    <2> HIDE DEF rank
    <2> QED
      BY <1>2, <1>4, <2>1
  <1>9. \A k \in 1..n : order[k] \in S /\ Cardinality(Before(order[k])) = k - 1
    BY <1>8
  <1>10. \A j, k \in 1..n : order[j] = order[k] => j = k
    <2> HIDE DEF order
    <2> QED
      BY <1>1, <1>9
  <1>11. ASSUME NEW x \in S
         PROVE  \E k \in 1..n : order[k] = x
    <2> DEFINE k == rank[x]
    <2>1. k \in 1..n /\ Cardinality(Before(x)) = k - 1
      <3> HIDE DEF rank
      <3> QED
        BY <1>2, <1>4
    <2> HIDE DEF k
    <2>2. order[k] \in S /\ Cardinality(Before(order[k])) = k - 1
      BY <1>9, <2>1
    <2>3. rank[order[k]] = rank[x]
      <3> HIDE DEF order, rank
      <3> QED
        BY <1>4, <2>1, <2>2
    <2> QED
      BY <1>5, <2>1, <2>2, <2>3
  <1>12. order = [k \in 1..n |-> order[k]]
    OBVIOUS
  <1> HIDE DEF order
  <1>13. ListsOnce(order, S)
    BY <1>1, <1>9, <1>10, <1>11, <1>12 DEF ListsOnce, n
  <1> QED
    BY <1>13 DEF order, Before, n, Ranked

LEMMA NumbersListOnce ==
    ASSUME NEW S \in SUBSET Nat, IsFiniteSet(S)
    PROVE  ListsOnce([k \in 1..Cardinality(S) |->
                         CHOOSE x \in S : Cardinality({y \in S : y < x}) = k - 1], S)
  <1> DEFINE R == {e \in S \X S : e[1] < e[2]}
  <1>1. \A x, y \in S : <<x, y>> \in R <=> x < y
    OBVIOUS
  <1>2. \A x, y, z \in S : ~(x < x) /\ (x # y => x < y \/ y < x) /\ (x < y /\ y < z => x < z)
    OBVIOUS
  <1> HIDE DEF R
  <1>3. StrictOrder(R, S)
    BY <1>1, <1>2 DEF StrictOrder
  <1>4. \A x \in S : {y \in S : y < x} = {y \in S : <<y, x>> \in R}
    BY <1>1
  <1>5. [k \in 1..Cardinality(S) |->
            CHOOSE x \in S : Cardinality({y \in S : y < x}) = k - 1]
         = Ranked(S, R)
    <2> DEFINE a(k) == CHOOSE x \in S : Cardinality({y \in S : y < x}) = k - 1
               b(k) == CHOOSE x \in S : Cardinality({y \in S : <<y, x>> \in R}) = k - 1
    <2>1. \A k : a(k) = b(k)
      BY <1>4
    <2> HIDE DEF a, b
    <2>2. [k \in 1..Cardinality(S) |-> a(k)] = [k \in 1..Cardinality(S) |-> b(k)]
      BY <2>1
    <2> QED
      BY <2>2 DEF a, b, Ranked
  <1>6. ListsOnce(Ranked(S, R), S)
    BY <1>3, RanksListOnce
  <1> QED
    BY <1>5, <1>6

-----------------------------------------------------------------------------
\* A list, of whatever.
IsList(list) == \E n \in Nat : list = [k \in 1..n |-> list[k]]

LEMMA ListLength ==
    ASSUME NEW list, IsList(list)
    PROVE  /\ Len(list) \in Nat /\ DOMAIN list = 1..Len(list)
           /\ IsFiniteSet(DOMAIN list)
  <1>1. PICK n \in Nat : list = [k \in 1..n |-> list[k]]
    BY DEF IsList
  <1>2. Len(list) = n /\ DOMAIN list = 1..n
    BY <1>1
  <1> QED
    BY <1>2, FS_Interval

LEMMA EmptyList ==
    ASSUME NEW list, NEW n \in Nat, list = [k \in 1..n |-> list[k]], n = 0
    PROVE  list = <<>>
  <1>1. 1..n = {}
    OBVIOUS
  <1>2. list = [k \in {} |-> list[k]]
    BY <1>1
  <1> QED
    BY <1>2

\* The list out consists of elements of list, each at most once.
PickedBy(e, out, list) ==
    /\ IsList(out)
    /\ \A k \in DOMAIN out : e[k] \in DOMAIN list /\ out[k] = list[e[k]]
    /\ \A j, k \in DOMAIN out : e[j] = e[k] => j = k

\* Picking the positions in S.
LEMMA PickingOnce ==
    ASSUME NEW list, NEW S \in SUBSET DOMAIN list, NEW order, ListsOnce(order, S)
    PROVE  /\ PickedBy(order, Picked(list, order), list)
           /\ \A i \in S : \E k \in DOMAIN Picked(list, order) :
                 Picked(list, order)[k] = list[i] /\ order[k] = i
  <1> DEFINE n == Cardinality(S)
             out == Picked(list, order)
  <1>1. /\ n \in Nat /\ DOMAIN order = 1..n
        /\ \A k \in 1..n : order[k] \in S
        /\ \A i \in S : \E k \in 1..n : order[k] = i
        /\ \A j, k \in 1..n : order[j] = order[k] => j = k
    BY DEF ListsOnce
  <1>2. out = [k \in 1..n |-> list[order[k]]]
    BY <1>1 DEF Picked
  <1> HIDE DEF n, out
  <1>3. IsList(out) /\ DOMAIN out = 1..n /\ \A k \in 1..n : out[k] = list[order[k]]
    BY <1>1, <1>2 DEF IsList
  <1>4. PickedBy(order, out, list)
    BY <1>1, <1>3 DEF PickedBy
  <1>5. \A i \in S : \E k \in DOMAIN out : out[k] = list[i] /\ order[k] = i
    BY <1>1, <1>3
  <1> QED
    BY <1>4, <1>5 DEF out
-----------------------------------------------------------------------------
(***************************************************************************)
(* Normalization.  Each stage is described by what it leaves of a list.    *)
(***************************************************************************)
IsTask(t) ==
    /\ t = [on |-> t.on, of |-> t.of, synthesis |-> t.synthesis, size |-> t.size,
            tool |-> t.tool]
    /\ t.synthesis \in BOOLEAN /\ t.size \in Nat

IsStep(s) ==
    /\ s = [id |-> s.id, task |-> s.task, deps |-> s.deps]
    /\ s.id \in Nat /\ s.deps \in SUBSET Nat /\ IsTask(s.task)

StepsList(list) == IsList(list) /\ \A k \in DOMAIN list : IsStep(list[k])

Budget(task) == task.tool = "budget" \/ task.on = "budget"

Work(task) == [task EXCEPT !.tool = IF task.synthesis THEN NoTool ELSE @]

DistinctIds(list) == \A j, k \in DOMAIN list : list[j].id = list[k].id => j = k

\* Steps of the list, no budget step or at least one among them, and all others
\* in work.
SubOf(out, list) ==
    /\ StepsList(out)
    /\ \A k \in DOMAIN out : \E i \in DOMAIN list : out[k] = list[i]
    /\ DistinctIds(list) => DistinctIds(out)
    /\ \A i \in DOMAIN list : ~Budget(list[i].task) =>
          \E k \in DOMAIN out : out[k].task = list[i].task
    /\ (\E i \in DOMAIN list : Budget(list[i].task)) =>
          \E k \in DOMAIN out : Budget(out[k].task)

\* Every step of the list, in another order.
Reordered(out, list) ==
    /\ StepsList(out)
    /\ \A k \in DOMAIN out : \E i \in DOMAIN list : out[k] = list[i]
    /\ \A i \in DOMAIN list : \E k \in DOMAIN out : out[k] = list[i]
    /\ DistinctIds(list) => DistinctIds(out)

LEMMA PickedSteps ==
    ASSUME NEW list, StepsList(list), NEW out, NEW e, PickedBy(e, out, list)
    PROVE  /\ StepsList(out)
           /\ \A k \in DOMAIN out : \E i \in DOMAIN list : out[k] = list[i]
           /\ DistinctIds(list) => DistinctIds(out)
  <1>1. IsList(out) /\ \A k \in DOMAIN out : e[k] \in DOMAIN list /\ out[k] = list[e[k]]
    BY DEF PickedBy
  <1>2. \A k \in DOMAIN out : IsStep(out[k])
    BY <1>1 DEF StepsList
  <1>3. ASSUME DistinctIds(list), NEW j \in DOMAIN out, NEW k \in DOMAIN out,
               out[j].id = out[k].id
        PROVE  j = k
    <2>1. list[e[j]].id = list[e[k]].id /\ e[j] \in DOMAIN list /\ e[k] \in DOMAIN list
      BY <1>1, <1>3
    <2>2. e[j] = e[k]
      BY <1>3, <2>1 DEF DistinctIds
    <2> QED
      BY <2>2 DEF PickedBy
  <1> QED
    BY <1>1, <1>2, <1>3 DEF StepsList, DistinctIds

LEMMA RemoveDuplicatesSub ==
    ASSUME NEW list, StepsList(list)
    PROVE  /\ SubOf(RemoveDuplicates(list), list)
           /\ DOMAIN list # {} => DOMAIN RemoveDuplicates(list) # {}
  <1> DEFINE S == {k \in 1..Len(list) : \A j \in 1..(k - 1) : list[j].task # list[k].task}
             order == [k \in 1..Cardinality(S) |->
                          CHOOSE x \in S : Cardinality({y \in S : y < x}) = k - 1]
             out == Picked(list, order)
  <1>1. /\ Len(list) \in Nat /\ DOMAIN list = 1..Len(list) /\ IsFiniteSet(DOMAIN list)
    BY ListLength DEF StepsList
  <1>2. S \in SUBSET Nat /\ S \in SUBSET DOMAIN list /\ IsFiniteSet(S)
    BY <1>1, FS_Subset
  <1>3. RemoveDuplicates(list) = out
    BY DEF RemoveDuplicates, Numbers, InOrder
  <1>4. \A i \in DOMAIN list : \E k \in S : list[k].task = list[i].task
    <2> TAKE i \in DOMAIN list
    <2> DEFINE Same == {k \in DOMAIN list : list[k].task = list[i].task}
    <2>1. Same \in SUBSET Nat /\ Same # {}
      BY <1>1
    <2>2. PICK k \in Same : \A j \in Same : k <= j
      BY <2>1, LeastNat
    <2>3. k \in DOMAIN list /\ list[k].task = list[i].task
      BY <2>2
    <2>4. ASSUME NEW j \in 1..(k - 1)
          PROVE  list[j].task # list[k].task
      <3>1. j \in DOMAIN list /\ ~(k <= j)
        BY <1>1, <2>3
      <3>2. j \notin Same
        BY <2>2, <3>1
      <3> QED
        BY <2>3, <3>1, <3>2
    <2>5. k \in S
      BY <1>1, <2>3, <2>4
    <2> QED
      BY <2>3, <2>5
  <1> HIDE DEF S
  <1>5. ListsOnce(order, S)
    BY <1>2, NumbersListOnce
  <1> HIDE DEF order
  <1>20. S \in SUBSET DOMAIN list
    BY <1>2
  <1>50. PickedBy(order, out, list)
    BY <1>20, <1>5, PickingOnce
  <1>51. \A i \in S : \E k \in DOMAIN out : out[k] = list[i] /\ order[k] = i
    BY <1>20, <1>5, PickingOnce
  <1> HIDE DEF out
  <1>6. /\ PickedBy(order, out, list)
        /\ \A i \in S : \E k \in DOMAIN out : out[k] = list[i]
    BY <1>50, <1>51
  <1>7. /\ StepsList(out)
        /\ \A k \in DOMAIN out : \E i \in DOMAIN list : out[k] = list[i]
        /\ DistinctIds(list) => DistinctIds(out)
    BY <1>6, PickedSteps
  <1>8. \A i \in DOMAIN list : \E k \in DOMAIN out : out[k].task = list[i].task
    BY <1>4, <1>6
  <1>9. (\E i \in DOMAIN list : Budget(list[i].task)) =>
           \E k \in DOMAIN out : Budget(out[k].task)
    BY <1>8
  <1> QED
    BY <1>3, <1>7, <1>8, <1>9 DEF SubOf

\* The longest of the budget steps, the first of these.
LEMMA LongestBudget ==
    ASSUME NEW list, StepsList(list), NEW all \in SUBSET DOMAIN list, all # {}
    PROVE  \E k \in all : \A j \in all :
              \/ list[k].task.size > list[j].task.size
              \/ list[k].task.size = list[j].task.size /\ k <= j
  <1> DEFINE size == [k \in DOMAIN list |-> list[k].task.size]
             sizes == {size[k] : k \in all}
             most == Max(sizes)
             top == {k \in all : size[k] = most}
  <1>1. DOMAIN list = 1..Len(list) /\ Len(list) \in Nat /\ IsFiniteSet(DOMAIN list)
    BY ListLength DEF StepsList
  <1>2. \A k \in DOMAIN list : size[k] \in Nat /\ size[k] = list[k].task.size
    BY DEF StepsList, IsStep, IsTask
  <1> HIDE DEF size
  <1>3. sizes \in SUBSET Nat /\ sizes # {}
    BY <1>2
  <1>30. IsFiniteSet(all)
    BY <1>1, FS_Subset
  <1>4. IsFiniteSet(sizes)
    <2> DEFINE f == [k \in all |-> size[k]]
    <2>1. f \in Surjection(all, sizes)
      BY DEF Surjection
    <2> QED
      BY <1>30, <2>1, FS_Surjection
  <1>50. Max(sizes) \in sizes /\ \A y \in sizes : y <= Max(sizes)
    BY <1>3, <1>4, GreatestOfFinite
  <1>5. most \in sizes /\ \A y \in sizes : y <= most
    BY <1>50
  <1> HIDE DEF most
  <1>51. (\E k \in all : size[k] = most) /\ \A j \in all : size[j] <= most
    BY <1>5
  <1> HIDE DEF sizes
  <1>6. top # {} /\ top \in SUBSET Nat /\ top \subseteq all
    BY <1>1, <1>51
  <1>7. PICK k \in top : \A j \in top : k <= j
    BY <1>6, LeastNat
  <1>8. k \in all /\ size[k] = most /\ \A j \in all : size[j] <= size[k]
    BY <1>51, <1>7
  <1>9. ASSUME NEW j \in all
        PROVE  size[k] > size[j] \/ (size[k] = size[j] /\ k <= j)
    <2>1. size[k] \in Nat /\ size[j] \in Nat /\ size[j] <= size[k]
      BY <1>2, <1>8
    <2>2. size[k] = size[j] => k <= j
      <3> SUFFICES ASSUME size[k] = size[j]
                   PROVE  k <= j
        OBVIOUS
      <3>1. j \in top
        BY <1>8
      <3> QED
        BY <1>7, <3>1
    <2> HIDE DEF top
    <2> QED
      BY <2>1, <2>2
  <1> QED
    BY <1>2, <1>8, <1>9

LEMMA OneBudgetStepSub ==
    ASSUME NEW list, StepsList(list)
    PROVE  SubOf(OneBudgetStep(list), list)
  <1> DEFINE all == {k \in DOMAIN list : IsBudgetStep(list[k])}
             Longer(k, j) == \/ list[k].task.size > list[j].task.size
                             \/ list[k].task.size = list[j].task.size /\ k <= j
             S == {k \in 1..Len(list) : k \in all => \A j \in all : Longer(k, j)}
             order == [k \in 1..Cardinality(S) |->
                          CHOOSE x \in S : Cardinality({y \in S : y < x}) = k - 1]
             out == Picked(list, order)
  <1>1. /\ Len(list) \in Nat /\ DOMAIN list = 1..Len(list) /\ IsFiniteSet(DOMAIN list)
    BY ListLength DEF StepsList
  <1>2. CASE Cardinality(all) <= 1
    <2>1. OneBudgetStep(list) = list
      BY <1>2 DEF OneBudgetStep
    <2> QED
      BY <2>1 DEF SubOf
  <1>3. CASE ~(Cardinality(all) <= 1)
    <2>1. OneBudgetStep(list) = out
      BY <1>3 DEF OneBudgetStep, Numbers, InOrder
    <2>2. \A k \in DOMAIN list : k \in all <=> Budget(list[k].task)
      BY DEF IsBudgetStep, Budget
    <2>3. all # {} => \E k \in all : \A j \in all : Longer(k, j)
      BY LongestBudget
    <2>4. S \in SUBSET Nat /\ S \in SUBSET DOMAIN list /\ IsFiniteSet(S)
      BY <1>1, FS_Subset
    <2>5. \A k \in DOMAIN list : k \notin all => k \in S
      BY <1>1
    <2>6. all # {} => \E k \in all : k \in S
      BY <1>1, <2>3
    <2> HIDE DEF S
    <2>7. ListsOnce(order, S)
      BY <2>4, NumbersListOnce
    <2> HIDE DEF order
    <2>40. S \in SUBSET DOMAIN list
      BY <2>4
    <2>70. PickedBy(order, out, list)
      BY <2>40, <2>7, PickingOnce
    <2>71. \A i \in S : \E k \in DOMAIN out : out[k] = list[i] /\ order[k] = i
      BY <2>40, <2>7, PickingOnce
    <2> HIDE DEF out
    <2>8. /\ PickedBy(order, out, list)
          /\ \A i \in S : \E k \in DOMAIN out : out[k] = list[i]
      BY <2>70, <2>71
    <2>9. /\ StepsList(out)
          /\ \A k \in DOMAIN out : \E i \in DOMAIN list : out[k] = list[i]
          /\ DistinctIds(list) => DistinctIds(out)
      BY <2>8, PickedSteps
    <2>10. \A i \in DOMAIN list : ~Budget(list[i].task) =>
              \E k \in DOMAIN out : out[k].task = list[i].task
      BY <2>2, <2>5, <2>8
    <2>11. (\E i \in DOMAIN list : Budget(list[i].task)) =>
              \E k \in DOMAIN out : Budget(out[k].task)
      <3> SUFFICES ASSUME \E i \in DOMAIN list : Budget(list[i].task)
                   PROVE  \E k \in DOMAIN out : Budget(out[k].task)
        OBVIOUS
      <3>1. all # {}
        BY <2>2
      <3>2. PICK i \in all : i \in S
        BY <2>6, <3>1
      <3>3. i \in DOMAIN list /\ Budget(list[i].task)
        BY <2>2, <3>2
      <3>4. PICK k \in DOMAIN out : out[k] = list[i]
        BY <2>8, <3>2
      <3> QED
        BY <3>3, <3>4
    <2> QED
      BY <2>1, <2>9, <2>10, <2>11 DEF SubOf
  <1> QED
    BY <1>2, <1>3
-----------------------------------------------------------------------------
\* Sorted by a key and, for equal keys, by the position.
KeyOrder(S, key) ==
    [k \in 1..Cardinality(S) |->
        CHOOSE x \in S : Cardinality({y \in S : \/ key[y] < key[x]
                                                \/ key[y] = key[x] /\ y < x}) = k - 1]

LEMMA KeysListOnce ==
    ASSUME NEW S \in SUBSET Nat, IsFiniteSet(S), NEW key \in [S -> Nat]
    PROVE  ListsOnce(KeyOrder(S, key), S)
  <1> DEFINE R == {e \in S \X S : \/ key[e[1]] < key[e[2]]
                                  \/ key[e[1]] = key[e[2]] /\ e[1] < e[2]}
  <1>1. \A x, y \in S : <<x, y>> \in R <=> \/ key[x] < key[y]
                                           \/ key[x] = key[y] /\ x < y
    OBVIOUS
  <1>2. \A x \in S : x \in Nat /\ key[x] \in Nat
    OBVIOUS
  <1> HIDE DEF R
  <1>3. StrictOrder(R, S)
    <2>1. \A x \in S : <<x, x>> \notin R
      BY <1>1, <1>2
    <2>2. \A x, y \in S : x # y => <<x, y>> \in R \/ <<y, x>> \in R
      BY <1>1, <1>2
    <2>3. \A x, y, z \in S : <<x, y>> \in R /\ <<y, z>> \in R => <<x, z>> \in R
      BY <1>1, <1>2
    <2> QED
      BY <2>1, <2>2, <2>3 DEF StrictOrder
  <1> DEFINE a(k) == CHOOSE x \in S : Cardinality({y \in S : \/ key[y] < key[x]
                                                             \/ key[y] = key[x] /\ y < x}) = k - 1
             b(k) == CHOOSE x \in S : Cardinality({y \in S : <<y, x>> \in R}) = k - 1
  <1>4. \A x \in S : {y \in S : \/ key[y] < key[x]
                                \/ key[y] = key[x] /\ y < x} = {y \in S : <<y, x>> \in R}
    BY <1>1
  <1>5. \A k : a(k) = b(k)
    BY <1>4
  <1>6. ListsOnce(Ranked(S, R), S)
    BY <1>3, RanksListOnce
  <1>7. /\ KeyOrder(S, key) = [k \in 1..Cardinality(S) |-> a(k)]
        /\ Ranked(S, R) = [k \in 1..Cardinality(S) |-> b(k)]
    BY DEF KeyOrder, Ranked
  <1> HIDE DEF a, b
  <1>8. [k \in 1..Cardinality(S) |-> a(k)] = [k \in 1..Cardinality(S) |-> b(k)]
    BY <1>5
  <1> QED
    BY <1>6, <1>7, <1>8

LEMMA KeyOrderReorders ==
    ASSUME NEW list, StepsList(list), NEW key \in [DOMAIN list -> Nat]
    PROVE  Reordered(Picked(list, KeyOrder(DOMAIN list, key)), list)
  <1> DEFINE S == DOMAIN list
             order == KeyOrder(DOMAIN list, key)
             out == Picked(list, order)
  <1>1. S \in SUBSET Nat /\ IsFiniteSet(S)
    BY ListLength DEF StepsList
  <1>2. ListsOnce(order, S)
    BY <1>1, KeysListOnce
  <1> HIDE DEF order
  <1>3. S \in SUBSET DOMAIN list
    OBVIOUS
  <1>4. PickedBy(order, out, list)
    BY <1>2, <1>3, PickingOnce
  <1>5. \A i \in S : \E k \in DOMAIN out : out[k] = list[i] /\ order[k] = i
    BY <1>2, <1>3, PickingOnce
  <1> HIDE DEF out
  <1>6. /\ StepsList(out)
        /\ \A k \in DOMAIN out : \E i \in DOMAIN list : out[k] = list[i]
        /\ DistinctIds(list) => DistinctIds(out)
    BY <1>4, PickedSteps
  <1>7. Reordered(out, list)
    BY <1>5, <1>6 DEF Reordered
  <1> QED
    BY <1>7 DEF out, order

LEMMA SortedByIdReorders ==
    ASSUME NEW list, StepsList(list)
    PROVE  Reordered(SortedById(list), list)
  <1> DEFINE S == DOMAIN list
             key == [k \in S |-> list[k].id]
             a(k) == CHOOSE x \in S : Cardinality({y \in S : \/ list[y].id < list[x].id
                                                             \/ list[y].id = list[x].id /\ y < x}) = k - 1
             b(k) == CHOOSE x \in S : Cardinality({y \in S : \/ key[y] < key[x]
                                                             \/ key[y] = key[x] /\ y < x}) = k - 1
  <1>1. key \in [S -> Nat]
    BY DEF StepsList, IsStep
  <1>2. \A x, y \in S : key[x] = list[x].id /\ key[y] = list[y].id
    OBVIOUS
  <1>3. SortedById(list) = Picked(list, [k \in 1..Cardinality(S) |-> a(k)])
    BY DEF SortedById, InOrder
  <1>4. KeyOrder(S, key) = [k \in 1..Cardinality(S) |-> b(k)]
    BY DEF KeyOrder
  <1> HIDE DEF key
  <1>5. \A x \in S : {y \in S : \/ list[y].id < list[x].id
                                \/ list[y].id = list[x].id /\ y < x}
                     = {y \in S : \/ key[y] < key[x]
                                  \/ key[y] = key[x] /\ y < x}
    BY <1>2
  <1>6. \A k : a(k) = b(k)
    BY <1>5
  <1> HIDE DEF a, b
  <1>7. [k \in 1..Cardinality(S) |-> a(k)] = [k \in 1..Cardinality(S) |-> b(k)]
    BY <1>6
  <1>8. Reordered(Picked(list, KeyOrder(S, key)), list)
    BY <1>1, KeyOrderReorders
  <1> QED
    BY <1>3, <1>4, <1>7, <1>8

LEMMA PreferredOrderReorders ==
    ASSUME NEW list, StepsList(list)
    PROVE  Reordered(PreferredOrder(list), list)
  <1> DEFINE S == DOMAIN list
             key == [k \in S |-> ToolRank(list[k])]
             a(k) == CHOOSE x \in S :
                        Cardinality({y \in S : \/ ToolRank(list[y]) < ToolRank(list[x])
                                               \/ ToolRank(list[y]) = ToolRank(list[x]) /\ y < x}) = k - 1
             b(k) == CHOOSE x \in S : Cardinality({y \in S : \/ key[y] < key[x]
                                                             \/ key[y] = key[x] /\ y < x}) = k - 1
  <1>1. key \in [S -> Nat]
    BY DEF ToolRank
  <1>2. \A x, y \in S : key[x] = ToolRank(list[x]) /\ key[y] = ToolRank(list[y])
    OBVIOUS
  <1>3. PreferredOrder(list) = Picked(list, [k \in 1..Cardinality(S) |-> a(k)])
    BY DEF PreferredOrder, InOrder
  <1>4. KeyOrder(S, key) = [k \in 1..Cardinality(S) |-> b(k)]
    BY DEF KeyOrder
  <1> HIDE DEF key
  <1>5. \A x \in S : {y \in S : \/ ToolRank(list[y]) < ToolRank(list[x])
                                \/ ToolRank(list[y]) = ToolRank(list[x]) /\ y < x}
                     = {y \in S : \/ key[y] < key[x]
                                  \/ key[y] = key[x] /\ y < x}
    BY <1>2
  <1>6. \A k : a(k) = b(k)
    BY <1>5
  <1> HIDE DEF a, b
  <1>7. [k \in 1..Cardinality(S) |-> a(k)] = [k \in 1..Cardinality(S) |-> b(k)]
    BY <1>6
  <1>8. Reordered(Picked(list, KeyOrder(S, key)), list)
    BY <1>1, KeyOrderReorders
  <1> QED
    BY <1>3, <1>4, <1>7, <1>8

-----------------------------------------------------------------------------
\* What renumber_steps makes of a list: the tasks stay, a dependency is one that the
\* list had, and the number of a step, which is its own position where ids do
\* not repeat.
RenumberedOf(out, list) ==
    /\ StepsList(out)
    /\ \A j, l \in DOMAIN out : \E a, b \in DOMAIN list :
          /\ out[j].task = list[a].task /\ out[l].task = list[b].task
          /\ out[l].id \in out[j].deps => list[b].id \in list[a].deps
    /\ \A j \in DOMAIN out : \A d \in out[j].deps :
          d \in DOMAIN out /\ out[d].id = d /\ d < out[j].id
    /\ \A i \in DOMAIN list : \E k \in DOMAIN out : out[k].task = list[i].task
    /\ DistinctIds(list) => \A k \in DOMAIN out : out[k].id = k

LEMMA RenumberedIs ==
    ASSUME NEW list, StepsList(list)
    PROVE  RenumberedOf(Renumbered(list), list)
  <1> DEFINE sorted == SortedById(list)
             idMap == IdMap(list)
             ids == {list[k].id : k \in DOMAIN list}
             At(x) == {k \in DOMAIN sorted : sorted[k].id = x}
             out == Renumbered(list)
  <1>1. Reordered(sorted, list)
    BY SortedByIdReorders
  <1>2. /\ DOMAIN idMap = ids
        /\ \A x \in ids : idMap[x] = Max(At(x))
    BY DEF IdMap
  <1>3. out = [k \in DOMAIN sorted |->
                  [id   |-> idMap[sorted[k].id],
                   task |-> sorted[k].task,
                   deps |-> RenumberedDeps(sorted[k], idMap)]]
    BY DEF Renumbered
  <1> HIDE DEF sorted, idMap
  <1>4. /\ DOMAIN out = DOMAIN sorted
        /\ \A k \in DOMAIN sorted : /\ out[k].id = idMap[sorted[k].id]
                                    /\ out[k].task = sorted[k].task
                                    /\ out[k].deps = RenumberedDeps(sorted[k], idMap)
    BY <1>3
  <1>5. /\ Len(sorted) \in Nat /\ DOMAIN sorted = 1..Len(sorted) /\ IsFiniteSet(DOMAIN sorted)
        /\ \A k \in DOMAIN sorted : IsStep(sorted[k])
    BY <1>1, ListLength DEF Reordered, StepsList
  <1>6. \A k \in DOMAIN sorted : sorted[k].id \in ids
    BY <1>1 DEF Reordered
  <1>7. ASSUME NEW x \in ids
        PROVE  /\ idMap[x] \in DOMAIN sorted /\ sorted[idMap[x]].id = x
               /\ \A k \in DOMAIN sorted : sorted[k].id = x => k <= idMap[x]
    <2>1. PICK i \in DOMAIN list : list[i].id = x
      OBVIOUS
    <2>2. PICK k \in DOMAIN sorted : sorted[k] = list[i]
      BY <1>1 DEF Reordered
    <2>3. At(x) \in SUBSET Nat /\ At(x) # {}
      BY <1>5, <2>1, <2>2
    <2>4. IsFiniteSet(At(x))
      BY <1>5, FS_Subset
    <2>5. Max(At(x)) \in At(x) /\ \A y \in At(x) : y <= Max(At(x))
      BY <2>3, <2>4, GreatestOfFinite
    <2>6. idMap[x] \in At(x) /\ \A y \in At(x) : y <= idMap[x]
      BY <1>2, <2>5
    <2> QED
      BY <2>6
  <1> HIDE DEF ids, At
  <1>8. \A j \in DOMAIN out : \A d \in out[j].deps :
           \E x \in sorted[j].deps : /\ x \in ids /\ d = idMap[x]
                                     /\ idMap[x] < idMap[sorted[j].id]
    BY <1>2, <1>4 DEF RenumberedDeps
  <1> HIDE DEF out
  <1>9. \A j \in DOMAIN out : \A d \in out[j].deps :
           d \in DOMAIN out /\ out[d].id = d /\ d < out[j].id
    <2> SUFFICES ASSUME NEW j \in DOMAIN out, NEW d \in out[j].deps
                 PROVE  d \in DOMAIN out /\ out[d].id = d /\ d < out[j].id
      OBVIOUS
    <2>1. PICK x \in ids : d = idMap[x] /\ idMap[x] < idMap[sorted[j].id]
      BY <1>8
    <2>2. d \in DOMAIN sorted /\ sorted[d].id = x
      BY <1>7, <2>1
    <2> QED
      BY <1>4, <2>1, <2>2
  <1>10. \A j, l \in DOMAIN out : out[l].id \in out[j].deps => sorted[l].id \in sorted[j].deps
    <2> SUFFICES ASSUME NEW j \in DOMAIN out, NEW l \in DOMAIN out, out[l].id \in out[j].deps
                 PROVE  sorted[l].id \in sorted[j].deps
      OBVIOUS
    <2>1. PICK x \in sorted[j].deps : x \in ids /\ out[l].id = idMap[x]
      BY <1>8
    <2>2. idMap[sorted[l].id] = idMap[x] /\ sorted[l].id \in ids
      BY <1>4, <1>6, <2>1
    <2>3. sorted[l].id = x
      BY <1>7, <2>1, <2>2
    <2> QED
      BY <2>3
  <1>11. \A k \in DOMAIN out : IsStep(out[k])
    <2> TAKE k \in DOMAIN out
    <2>1. k \in DOMAIN sorted
      BY <1>4
    <2>2. out[k] = [id   |-> idMap[sorted[k].id],
                    task |-> sorted[k].task,
                    deps |-> RenumberedDeps(sorted[k], idMap)]
      BY <1>3, <2>1
    <2>3. idMap[sorted[k].id] \in Nat
      BY <1>5, <1>6, <1>7, <2>1
    <2>4. IsTask(sorted[k].task)
      BY <1>5, <2>1 DEF IsStep
    <2>5. out[k].deps \subseteq Nat
      BY <1>4, <1>5, <1>9
    <2>6. RenumberedDeps(sorted[k], idMap) \subseteq Nat
      BY <1>4, <2>1, <2>5
    <2> QED
      BY <2>2, <2>3, <2>4, <2>6 DEF IsStep
  <1>12. StepsList(out)
    <2>1. out = [k \in 1..Len(sorted) |-> out[k]]
      BY <1>3, <1>5
    <2> QED
      BY <1>5, <1>11, <2>1 DEF StepsList, IsList
  <1>13. ASSUME NEW j \in DOMAIN out, NEW l \in DOMAIN out
         PROVE  \E a, b \in DOMAIN list :
                   /\ out[j].task = list[a].task /\ out[l].task = list[b].task
                   /\ out[l].id \in out[j].deps => list[b].id \in list[a].deps
    <2>1. PICK a \in DOMAIN list : sorted[j] = list[a]
      BY <1>1, <1>4 DEF Reordered
    <2>2. PICK b \in DOMAIN list : sorted[l] = list[b]
      BY <1>1, <1>4 DEF Reordered
    <2> QED
      BY <1>4, <1>10, <2>1, <2>2
  <1>14. \A i \in DOMAIN list : \E k \in DOMAIN out : out[k].task = list[i].task
    BY <1>1, <1>4 DEF Reordered
  <1>15. ASSUME DistinctIds(list), NEW k \in DOMAIN out
         PROVE  out[k].id = k
    <2>1. DistinctIds(sorted) /\ k \in DOMAIN sorted
      BY <1>1, <1>4, <1>15 DEF Reordered
    <2>2. sorted[idMap[sorted[k].id]].id = sorted[k].id /\ idMap[sorted[k].id] \in DOMAIN sorted
      BY <1>6, <1>7, <2>1
    <2>3. idMap[sorted[k].id] = k
      BY <2>1, <2>2 DEF DistinctIds
    <2> QED
      BY <1>4, <2>1, <2>3
  <1> QED
    BY <1>9, <1>12, <1>13, <1>14, <1>15 DEF RenumberedOf, out
-----------------------------------------------------------------------------
\* What becomes of a task, and that nothing more becomes of it.
LEMMA WorkIs ==
    ASSUME NEW t, IsTask(t)
    PROVE  /\ IsTask(Work(t))
           /\ Work(Work(t)) = Work(t)
           /\ ~Budget(t) => ~Budget(Work(t))
           /\ ~t.synthesis => Work(t) = t
           /\ Work(t).tool \in {t.tool, NoTool}
  <1>1. t = [on |-> t.on, of |-> t.of, synthesis |-> t.synthesis, size |-> t.size,
             tool |-> t.tool]
    BY DEF IsTask
  <1>2. t.synthesis \in BOOLEAN
    BY DEF IsTask
  <1>3. CASE t.synthesis
    <2>1. Work(t) = [on |-> t.on, of |-> t.of, synthesis |-> t.synthesis, size |-> t.size,
                     tool |-> NoTool]
      <3>1. Work(t) = [t EXCEPT !.tool = NoTool]
        BY <1>3 DEF Work
      <3>2. \A a, b, c, d, e : [[on |-> a, of |-> b, synthesis |-> c, size |-> d, tool |-> e]
                                  EXCEPT !.tool = NoTool]
               = [on |-> a, of |-> b, synthesis |-> c, size |-> d, tool |-> NoTool]
        OBVIOUS
      <3> QED
        BY <1>1, <3>1, <3>2
    <2>2. IsTask(Work(t))
      <3>1. t.synthesis \in BOOLEAN /\ t.size \in Nat
        BY DEF IsTask
      <3> DEFINE w == Work(t)
      <3>2. w = [on |-> t.on, of |-> t.of, synthesis |-> t.synthesis, size |-> t.size,
                 tool |-> NoTool]
        BY <2>1
      <3> HIDE DEF w
      <3>3. IsTask(w)
        BY <3>1, <3>2 DEF IsTask
      <3> QED
        BY <3>3 DEF w
    <2>3. Work(Work(t)) = Work(t)
      <3> DEFINE w == Work(t)
      <3>1. w = [on |-> t.on, of |-> t.of, synthesis |-> t.synthesis, size |-> t.size,
                 tool |-> NoTool]
        BY <2>1
      <3> HIDE DEF w
      <3>2. Work(w) = [w EXCEPT !.tool = NoTool]
        BY <1>3, <3>1 DEF Work
      <3>3. Work(w) = w
        BY <3>1, <3>2
      <3> QED
        BY <3>3 DEF w
    <2>4. ~Budget(t) => ~Budget(Work(t))
      BY <2>1 DEF Budget, NoTool
    <2> QED
      BY <1>3, <2>1, <2>2, <2>3, <2>4
  <1>4. CASE ~t.synthesis
    <2>1. Work(t) = t
      BY <1>1, <1>4 DEF Work
    <2> QED
      BY <2>1
  <1> QED
    BY <1>2, <1>3, <1>4

LEMMA ClearedIs ==
    ASSUME NEW list, StepsList(list)
    PROVE  /\ StepsList(SynthesisCleared(list))
           /\ DOMAIN SynthesisCleared(list) = DOMAIN list
           /\ \A k \in DOMAIN list :
                 /\ SynthesisCleared(list)[k].id = list[k].id
                 /\ SynthesisCleared(list)[k].deps = list[k].deps
                 /\ SynthesisCleared(list)[k].task = Work(list[k].task)
  <1> DEFINE out == SynthesisCleared(list)
  <1>1. out = [k \in DOMAIN list |->
                  IF list[k].task.synthesis THEN [list[k] EXCEPT !.task.tool = NoTool]
                  ELSE list[k]]
    BY DEF SynthesisCleared
  <1>2. /\ Len(list) \in Nat /\ DOMAIN list = 1..Len(list)
        /\ \A k \in DOMAIN list : IsStep(list[k])
    BY ListLength DEF StepsList
  <1> HIDE DEF out
  <1>3. ASSUME NEW k \in DOMAIN list
        PROVE  out[k] = [id |-> list[k].id, task |-> Work(list[k].task), deps |-> list[k].deps]
    <2> DEFINE s == list[k]
               t == list[k].task
    <2>1. /\ s = [id |-> s.id, task |-> t, deps |-> s.deps]
          /\ IsTask(t)
      BY <1>2 DEF IsStep
    <2>2. t.synthesis \in BOOLEAN
      BY <2>1 DEF IsTask
    <2>3. t = [on |-> t.on, of |-> t.of, synthesis |-> t.synthesis, size |-> t.size,
               tool |-> t.tool]
      BY <2>1 DEF IsTask
    <2>4. CASE t.synthesis
      <3>1. out[k] = [s EXCEPT !.task.tool = NoTool]
        BY <1>1, <2>4
      <3>2. Work(t) = [t EXCEPT !.tool = NoTool]
        BY <2>4 DEF Work
      <3> HIDE DEF s, t
      <3>3. [s EXCEPT !.task.tool = NoTool] = [id |-> s.id, task |-> [t EXCEPT !.tool = NoTool],
                                               deps |-> s.deps]
        BY <2>1
      <3>4. out[k] = [id |-> s.id, task |-> Work(t), deps |-> s.deps]
        BY <3>1, <3>2, <3>3
      <3> QED
        BY <3>4 DEF s, t
    <2>5. CASE ~t.synthesis
      <3>1. out[k] = s
        BY <1>1, <2>5
      <3>2. Work(t) = t
        BY <2>1, <2>5, WorkIs
      <3> QED
        BY <2>1, <3>1, <3>2
    <2> QED
      BY <2>2, <2>4, <2>5
  <1>4. DOMAIN out = DOMAIN list
    BY <1>1
  <1>5. \A k \in DOMAIN list : /\ out[k].id = list[k].id /\ out[k].deps = list[k].deps
                               /\ out[k].task = Work(list[k].task)
    <2> TAKE k \in DOMAIN list
    <2>1. out[k] = [id |-> list[k].id, task |-> Work(list[k].task), deps |-> list[k].deps]
      BY <1>3
    <2> QED
      BY <2>1
  <1>6. \A k \in DOMAIN list : IsStep(out[k])
    <2> TAKE k \in DOMAIN list
    <2>1. list[k].id \in Nat /\ list[k].deps \in SUBSET Nat /\ IsTask(list[k].task)
      BY <1>2 DEF IsStep
    <2>2. IsTask(Work(list[k].task))
      BY <2>1, WorkIs
    <2>3. out[k] = [id |-> list[k].id, task |-> Work(list[k].task), deps |-> list[k].deps]
      BY <1>3
    <2> QED
      BY <2>1, <2>2, <2>3 DEF IsStep
  <1>7. StepsList(out)
    <2>1. out = [k \in 1..Len(list) |-> out[k]]
      BY <1>1, <1>2
    <2> QED
      BY <1>2, <1>4, <1>6, <2>1 DEF StepsList, IsList
  <1> QED
    BY <1>4, <1>5, <1>7 DEF out

-----------------------------------------------------------------------------
\* What normalize_plan makes of a list.
NormalizedOf(out, list) ==
    /\ StepsList(out)
    /\ \A j, l \in DOMAIN out : \E a, b \in DOMAIN list :
          /\ out[j].task = Work(list[a].task) /\ out[l].task = Work(list[b].task)
          /\ out[l].id \in out[j].deps => list[b].id \in list[a].deps
    /\ \A j \in DOMAIN out : \A d \in out[j].deps :
          d \in DOMAIN out /\ out[d].id = d /\ d < out[j].id
    /\ \A i \in DOMAIN list : ~Budget(list[i].task) =>
          \E k \in DOMAIN out : out[k].task = Work(list[i].task)
    /\ (\E i \in DOMAIN list : Budget(list[i].task)) =>
          \E i \in DOMAIN list : \E k \in DOMAIN out :
             Budget(list[i].task) /\ out[k].task = Work(list[i].task)
    /\ DistinctIds(list) => \A k \in DOMAIN out : out[k].id = k

\* The list that is renumbered: repetition is gone, tools of syntheses are cleared.
LEMMA BeforeRenumbering ==
    ASSUME NEW list, StepsList(list)
    PROVE  LET out == PreferredOrder(SynthesisCleared(OneBudgetStep(RemoveDuplicates(list))))
           IN /\ StepsList(out)
              /\ \A k \in DOMAIN out : \E i \in DOMAIN list :
                    /\ out[k].task = Work(list[i].task)
                    /\ out[k].id = list[i].id /\ out[k].deps = list[i].deps
              /\ \A i \in DOMAIN list : ~Budget(list[i].task) =>
                    \E k \in DOMAIN out : out[k].task = Work(list[i].task)
              /\ (\E i \in DOMAIN list : Budget(list[i].task)) =>
                    \E i \in DOMAIN list : \E k \in DOMAIN out :
                       Budget(list[i].task) /\ out[k].task = Work(list[i].task)
              /\ DistinctIds(list) => DistinctIds(out)
  <1> DEFINE once == RemoveDuplicates(list)
             one == OneBudgetStep(once)
             cleared == SynthesisCleared(one)
             out == PreferredOrder(cleared)
  <1>1. SubOf(once, list)
    BY RemoveDuplicatesSub
  <1> HIDE DEF once
  <1>2. SubOf(one, once)
    BY <1>1, OneBudgetStepSub DEF SubOf
  <1> HIDE DEF one
  <1>3. StepsList(one)
    BY <1>2 DEF SubOf
  <1>4. /\ StepsList(cleared)
        /\ DOMAIN cleared = DOMAIN one
        /\ \A k \in DOMAIN one : /\ cleared[k].id = one[k].id
                                 /\ cleared[k].deps = one[k].deps
                                 /\ cleared[k].task = Work(one[k].task)
    BY <1>3, ClearedIs
  <1> HIDE DEF cleared
  <1>5. Reordered(out, cleared)
    BY <1>4, PreferredOrderReorders
  <1> HIDE DEF out
  <1>6. \A k \in DOMAIN one : \E i \in DOMAIN list : one[k] = list[i]
    BY <1>1, <1>2 DEF SubOf
  <1>7. \A k \in DOMAIN out : \E i \in DOMAIN list :
           /\ out[k].task = Work(list[i].task)
           /\ out[k].id = list[i].id /\ out[k].deps = list[i].deps
    <2> TAKE k \in DOMAIN out
    <2>1. PICK m \in DOMAIN cleared : out[k] = cleared[m]
      BY <1>5 DEF Reordered
    <2>2. PICK i \in DOMAIN list : one[m] = list[i]
      BY <1>4, <1>6
    <2> QED
      BY <1>4, <2>1, <2>2
  <1>8. \A m \in DOMAIN one : \E k \in DOMAIN out : out[k].task = Work(one[m].task)
    BY <1>4, <1>5 DEF Reordered
  <1>9. \A i \in DOMAIN list : ~Budget(list[i].task) =>
           \E k \in DOMAIN out : out[k].task = Work(list[i].task)
    <2> SUFFICES ASSUME NEW i \in DOMAIN list, ~Budget(list[i].task)
                 PROVE  \E k \in DOMAIN out : out[k].task = Work(list[i].task)
      OBVIOUS
    <2>1. PICK m \in DOMAIN once : once[m].task = list[i].task
      BY <1>1 DEF SubOf
    <2>2. PICK n \in DOMAIN one : one[n].task = list[i].task
      BY <1>2, <2>1 DEF SubOf
    <2> QED
      BY <1>8, <2>2
  <1>10. (\E i \in DOMAIN list : Budget(list[i].task)) =>
            \E i \in DOMAIN list : \E k \in DOMAIN out :
               Budget(list[i].task) /\ out[k].task = Work(list[i].task)
    <2> SUFFICES ASSUME \E i \in DOMAIN list : Budget(list[i].task)
                 PROVE  \E i \in DOMAIN list : \E k \in DOMAIN out :
                           Budget(list[i].task) /\ out[k].task = Work(list[i].task)
      OBVIOUS
    <2>1. PICK m \in DOMAIN once : Budget(once[m].task)
      BY <1>1 DEF SubOf
    <2>2. PICK n \in DOMAIN one : Budget(one[n].task)
      BY <1>2, <2>1 DEF SubOf
    <2>3. PICK i \in DOMAIN list : one[n] = list[i]
      BY <1>6
    <2>4. PICK k \in DOMAIN out : out[k].task = Work(one[n].task)
      BY <1>8
    <2> QED
      BY <2>2, <2>3, <2>4
  <1>11. DistinctIds(list) => DistinctIds(out)
    <2> SUFFICES ASSUME DistinctIds(list)
                 PROVE  DistinctIds(out)
      OBVIOUS
    <2>1. DistinctIds(one)
      BY <1>1, <1>2 DEF SubOf
    <2>2. DistinctIds(cleared)
      BY <1>4, <2>1 DEF DistinctIds
    <2> QED
      BY <1>5, <2>2 DEF Reordered
  <1>12. StepsList(out)
    BY <1>5 DEF Reordered
  <1> QED
    BY <1>7, <1>9, <1>10, <1>11, <1>12 DEF out, cleared, one, once

LEMMA NormalizedIs ==
    ASSUME NEW list, StepsList(list)
    PROVE  NormalizedOf(Normalized(list), list)
  <1> DEFINE m == PreferredOrder(SynthesisCleared(OneBudgetStep(RemoveDuplicates(list))))
             out == Renumbered(m)
  <1>1. Normalized(list) = out
    BY DEF Normalized
  <1>2. StepsList(m)
    BY BeforeRenumbering
  <1>3. \A k \in DOMAIN m : \E i \in DOMAIN list :
           /\ m[k].task = Work(list[i].task)
           /\ m[k].id = list[i].id /\ m[k].deps = list[i].deps
    BY BeforeRenumbering
  <1>4. \A i \in DOMAIN list : ~Budget(list[i].task) =>
           \E k \in DOMAIN m : m[k].task = Work(list[i].task)
    BY BeforeRenumbering
  <1>5. (\E i \in DOMAIN list : Budget(list[i].task)) =>
           \E i \in DOMAIN list : \E k \in DOMAIN m :
              Budget(list[i].task) /\ m[k].task = Work(list[i].task)
    BY BeforeRenumbering
  <1>6. DistinctIds(list) => DistinctIds(m)
    BY BeforeRenumbering
  <1> HIDE DEF m
  <1>7. RenumberedOf(out, m)
    BY <1>2, RenumberedIs
  <1> HIDE DEF out
  <1>8. ASSUME NEW j \in DOMAIN out, NEW l \in DOMAIN out
        PROVE  \E a, b \in DOMAIN list :
                  /\ out[j].task = Work(list[a].task) /\ out[l].task = Work(list[b].task)
                  /\ out[l].id \in out[j].deps => list[b].id \in list[a].deps
    <2>1. PICK x \in DOMAIN m, y \in DOMAIN m :
             /\ out[j].task = m[x].task /\ out[l].task = m[y].task
             /\ out[l].id \in out[j].deps => m[y].id \in m[x].deps
      BY <1>7 DEF RenumberedOf
    <2>2. PICK a \in DOMAIN list : m[x].task = Work(list[a].task) /\ m[x].deps = list[a].deps
      BY <1>3
    <2>3. PICK b \in DOMAIN list : m[y].task = Work(list[b].task) /\ m[y].id = list[b].id
      BY <1>3
    <2> QED
      BY <2>1, <2>2, <2>3
  <1>9. \A i \in DOMAIN list : ~Budget(list[i].task) =>
           \E k \in DOMAIN out : out[k].task = Work(list[i].task)
    <2> SUFFICES ASSUME NEW i \in DOMAIN list, ~Budget(list[i].task)
                 PROVE  \E k \in DOMAIN out : out[k].task = Work(list[i].task)
      OBVIOUS
    <2>1. PICK x \in DOMAIN m : m[x].task = Work(list[i].task)
      BY <1>4
    <2> QED
      BY <1>7, <2>1 DEF RenumberedOf
  <1>10. (\E i \in DOMAIN list : Budget(list[i].task)) =>
           \E i \in DOMAIN list : \E k \in DOMAIN out :
              Budget(list[i].task) /\ out[k].task = Work(list[i].task)
    <2> SUFFICES ASSUME \E i \in DOMAIN list : Budget(list[i].task)
                 PROVE  \E i \in DOMAIN list : \E k \in DOMAIN out :
                           Budget(list[i].task) /\ out[k].task = Work(list[i].task)
      OBVIOUS
    <2>1. PICK i \in DOMAIN list, x \in DOMAIN m :
             Budget(list[i].task) /\ m[x].task = Work(list[i].task)
      BY <1>5
    <2>2. PICK k \in DOMAIN out : out[k].task = m[x].task
      BY <1>7 DEF RenumberedOf
    <2> QED
      BY <2>1, <2>2
  <1>11. DistinctIds(list) => \A k \in DOMAIN out : out[k].id = k
    BY <1>6, <1>7 DEF RenumberedOf
  <1>12. /\ StepsList(out)
         /\ \A j \in DOMAIN out : \A d \in out[j].deps :
               d \in DOMAIN out /\ out[d].id = d /\ d < out[j].id
    BY <1>7 DEF RenumberedOf
  <1>13. NormalizedOf(out, list)
    BY <1>8, <1>9, <1>10, <1>11, <1>12 DEF NormalizedOf
  <1> QED
    BY <1>1, <1>13

\* create_plan and planner_node normalize one after the other.
LEMMA NormalizedTwice ==
    ASSUME NEW list, StepsList(list)
    PROVE  NormalizedOf(Normalized(Normalized(list)), list)
  <1> DEFINE m == Normalized(list)
             out == Normalized(m)
  <1>1. NormalizedOf(m, list)
    BY NormalizedIs
  <1> HIDE DEF m
  <1>2. NormalizedOf(out, m)
    BY <1>1, NormalizedIs DEF NormalizedOf
  <1> HIDE DEF out
  <1>3. \A i \in DOMAIN list : IsTask(list[i].task)
    BY DEF StepsList, IsStep
  <1>4. \A i \in DOMAIN list : /\ Work(Work(list[i].task)) = Work(list[i].task)
                               /\ ~Budget(list[i].task) => ~Budget(Work(list[i].task))
    BY <1>3, WorkIs
  <1>5. ASSUME NEW j \in DOMAIN out, NEW l \in DOMAIN out
        PROVE  \E a, b \in DOMAIN list :
                  /\ out[j].task = Work(list[a].task) /\ out[l].task = Work(list[b].task)
                  /\ out[l].id \in out[j].deps => list[b].id \in list[a].deps
    <2>1. PICK x \in DOMAIN m, y \in DOMAIN m :
             /\ out[j].task = Work(m[x].task) /\ out[l].task = Work(m[y].task)
             /\ out[l].id \in out[j].deps => m[y].id \in m[x].deps
      BY <1>2 DEF NormalizedOf
    <2>2. PICK a \in DOMAIN list, b \in DOMAIN list :
             /\ m[x].task = Work(list[a].task) /\ m[y].task = Work(list[b].task)
             /\ m[y].id \in m[x].deps => list[b].id \in list[a].deps
      BY <1>1 DEF NormalizedOf
    <2>3. out[j].task = Work(list[a].task) /\ out[l].task = Work(list[b].task)
      BY <1>4, <2>1, <2>2
    <2> QED
      BY <2>1, <2>2, <2>3
  <1>6. ASSUME NEW i \in DOMAIN list, ~Budget(list[i].task)
        PROVE  \E k \in DOMAIN out : out[k].task = Work(list[i].task)
    <2>1. PICK x \in DOMAIN m : m[x].task = Work(list[i].task)
      BY <1>1, <1>6 DEF NormalizedOf
    <2>2. ~Budget(m[x].task)
      BY <1>4, <1>6, <2>1
    <2>3. PICK k \in DOMAIN out : out[k].task = Work(m[x].task)
      BY <1>2, <2>2 DEF NormalizedOf
    <2> QED
      BY <1>4, <2>1, <2>3
  <1>7. DistinctIds(list) => \A k \in DOMAIN out : out[k].id = k
    <2> SUFFICES ASSUME DistinctIds(list)
                 PROVE  \A k \in DOMAIN out : out[k].id = k
      OBVIOUS
    <2>1. \A k \in DOMAIN m : m[k].id = k
      BY <1>1 DEF NormalizedOf
    <2>2. DistinctIds(m)
      BY <2>1 DEF DistinctIds
    <2> QED
      BY <1>2, <2>2 DEF NormalizedOf
  <1>8. ASSUME NEW i \in DOMAIN list, Budget(list[i].task)
        PROVE  \E a \in DOMAIN list : \E k \in DOMAIN out :
                  Budget(list[a].task) /\ out[k].task = Work(list[a].task)
    <2>1. PICK b \in DOMAIN list, x \in DOMAIN m :
             Budget(list[b].task) /\ m[x].task = Work(list[b].task)
      BY <1>1, <1>8 DEF NormalizedOf
    <2>2. CASE ~Budget(m[x].task)
      <3>1. PICK k \in DOMAIN out : out[k].task = Work(m[x].task)
        BY <1>2, <2>2 DEF NormalizedOf
      <3> QED
        BY <1>4, <2>1, <3>1
    <2>3. CASE Budget(m[x].task)
      <3>1. PICK y \in DOMAIN m, k \in DOMAIN out :
               Budget(m[y].task) /\ out[k].task = Work(m[y].task)
        BY <1>2, <2>3 DEF NormalizedOf
      <3>2. PICK a \in DOMAIN list : m[y].task = Work(list[a].task)
        BY <1>1 DEF NormalizedOf
      <3>3. Budget(list[a].task)
        BY <1>4, <3>1, <3>2
      <3>4. out[k].task = Work(list[a].task)
        BY <1>4, <3>1, <3>2
      <3> QED
        BY <3>3, <3>4
    <2> QED
      BY <2>2, <2>3
  <1>9. /\ StepsList(out)
        /\ \A j \in DOMAIN out : \A d \in out[j].deps :
              d \in DOMAIN out /\ out[d].id = d /\ d < out[j].id
    BY <1>2 DEF NormalizedOf
  <1>10. NormalizedOf(out, list)
    BY <1>5, <1>6, <1>7, <1>8, <1>9 DEF NormalizedOf
  <1> QED
    BY <1>10 DEF out, m
-----------------------------------------------------------------------------
(***************************************************************************)
(* The plans of the rules.                                                 *)
(***************************************************************************)
Names == {"weather", "map", "budget"}

ToolsOf(s, tools) == {s, McpOf[s]} \cap tools

LEMMA PickToolIs ==
    ASSUME NEW s \in Names, NEW tools, NEW pref \in BOOLEAN
    PROVE  /\ PickTool(s, tools, pref) \in ToolsOf(s, tools) \cup {NoTool}
           /\ PickTool(s, tools, pref) # NoTool <=> ToolsOf(s, tools) # {}
  <1> DEFINE tool == PickTool(s, tools, pref)
             both == ToolsOf(s, tools)
  <1>1. s # NoTool /\ McpOf[s] # NoTool
    BY DEF Names, McpOf, NoTool
  <1>2. NoTool \notin both
    BY <1>1 DEF ToolsOf
  <1>3. CASE both = {}
    <2>1. tool = NoTool
      BY <1>3 DEF PickTool, ToolsOf
    <2> QED
      BY <1>3, <2>1
  <1>4. CASE both # {} /\ s \in both /\ ~(pref /\ McpOf[s] \in both)
    <2>1. tool = s
      BY <1>4 DEF PickTool, ToolsOf
    <2> QED
      BY <1>1, <1>4, <2>1
  <1>5. CASE both # {} /\ ~(s \in both /\ ~(pref /\ McpOf[s] \in both))
    <2>1. tool = McpOf[s]
      BY <1>5 DEF PickTool, ToolsOf
    <2>2. McpOf[s] \in both
      BY <1>5 DEF ToolsOf
    <2> QED
      BY <1>1, <1>5, <2>1, <2>2
  <1> QED
    BY <1>3, <1>4, <1>5

LEMMA AvailableIs ==
    ASSUME NEW tools
    PROVE  /\ IsList(Available(tools))
           /\ \A k \in DOMAIN Available(tools) :
                 Available(tools)[k] \in Names /\ ToolsOf(Available(tools)[k], tools) # {}
  <1> DEFINE S == {k \in 1..Len(Sections) : PickTool(Sections[k], tools, FALSE) # NoTool}
             order == [k \in 1..Cardinality(S) |->
                          CHOOSE x \in S : Cardinality({y \in S : y < x}) = k - 1]
             out == Picked(Sections, order)
  <1>1. Available(tools) = out
    BY DEF Available, Numbers, InOrder
  <1>2. /\ Len(Sections) = 3 /\ DOMAIN Sections = 1..3
        /\ \A k \in 1..3 : Sections[k] \in Names
    BY DEF Sections, Names
  <1>3. \A k \in S : k \in 1..3 /\ ToolsOf(Sections[k], tools) # {}
    BY <1>2, PickToolIs
  <1>4. IsFiniteSet(1..3)
    <2>1. \A n \in Nat : IsFiniteSet(1..n)
      <3> TAKE n \in Nat
      <3>1. n \in Int /\ 1 \in Int
        OBVIOUS
      <3> QED
        BY <3>1, FS_Interval
    <2>2. 3 \in Nat
      OBVIOUS
    <2> QED
      BY <2>1, <2>2
  <1>5. S \in SUBSET DOMAIN Sections /\ S \in SUBSET Nat /\ IsFiniteSet(S)
    <2>1. S \in SUBSET (1..3)
      BY <1>2
    <2>2. 1..3 \subseteq Nat
      OBVIOUS
    <2>3. IsFiniteSet(S)
      <3> HIDE DEF S
      <3> QED
        BY <1>4, <2>1, FS_Subset
    <2> HIDE DEF S
    <2> QED
      BY <1>2, <2>1, <2>2, <2>3
  <1> HIDE DEF S
  <1>6. ListsOnce(order, S)
    BY <1>5, NumbersListOnce
  <1>7. \A k \in DOMAIN order : order[k] \in S
    <2> HIDE DEF order
    <2> QED
      BY <1>6 DEF ListsOnce
  <1> HIDE DEF order
  <1>8. S \in SUBSET DOMAIN Sections
    BY <1>5
  <1>9. PickedBy(order, out, Sections)
    BY <1>6, <1>8, PickingOnce
  <1>10. DOMAIN out = DOMAIN order /\ \A k \in DOMAIN out : out[k] = Sections[order[k]]
    BY DEF Picked
  <1> HIDE DEF out
  <1>11. IsList(out)
    BY <1>9 DEF PickedBy
  <1>12. \A k \in DOMAIN out : out[k] \in Names /\ ToolsOf(out[k], tools) # {}
    BY <1>2, <1>3, <1>7, <1>10
  <1> QED
    BY <1>1, <1>11, <1>12

\* A list of the rules: numbered, each step after earlier ones, tools of its
\* section that are there, and a step for each section that has one.
RuleList(list, tools) ==
    /\ StepsList(list) /\ 1 \in DOMAIN list
    /\ \A k \in DOMAIN list :
          /\ list[k].id = k /\ list[k].deps \subseteq 1..(k - 1)
          /\ ~list[k].task.synthesis
          /\ \/ list[k].task.on \in Names
                /\ list[k].task.tool \in ToolsOf(list[k].task.on, tools)
             \/ list[k].task.on = "trip" /\ list[k].task.tool = NoTool
    /\ \A j \in DOMAIN Available(tools) : \E k \in DOMAIN list :
          list[k].task.on = Available(tools)[j]

\* A step of a section that has a tool.
LEMMA SectionStepIs ==
    ASSUME NEW s \in Names, NEW tools, ToolsOf(s, tools) # {}, NEW pref \in BOOLEAN,
           NEW city, NEW k \in Nat, NEW deps \in SUBSET (1..(k - 1))
    PROVE  LET step == [id |-> k, deps |-> deps,
                        task |-> TaskOf(s, city, PickTool(s, tools, pref))]
           IN /\ IsStep(step) /\ step.id = k /\ step.deps \subseteq 1..(k - 1)
              /\ ~step.task.synthesis /\ step.task.on = s
              /\ step.task.tool \in ToolsOf(s, tools)
  <1> DEFINE tool == PickTool(s, tools, pref)
             task == TaskOf(s, city, tool)
             step == [id |-> k, deps |-> deps, task |-> task]
  <1>1. tool \in ToolsOf(s, tools)
    BY PickToolIs
  <1> HIDE DEF tool
  <1>2. task = [on |-> s, of |-> city, synthesis |-> FALSE, size |-> 1, tool |-> tool]
    BY DEF TaskOf
  <1> HIDE DEF task
  <1>3. IsTask(task) /\ ~task.synthesis /\ task.on = s /\ task.tool = tool
    BY <1>2 DEF IsTask
  <1>4. deps \in SUBSET Nat
    OBVIOUS
  <1>5. IsStep(step)
    BY <1>3, <1>4 DEF IsStep
  <1> QED
    BY <1>1, <1>3, <1>5 DEF task, tool

LEMMA WithoutToolsIs ==
    ASSUME NEW tools, Available(tools) = <<>>
    PROVE  RuleList(WithoutTools, tools)
  <1> DEFINE task == TaskOf("trip", "trip", NoTool)
             step == [id |-> 1, task |-> task, deps |-> {}]
  <1>1. task = [on |-> "trip", of |-> "trip", synthesis |-> FALSE, size |-> 1, tool |-> NoTool]
    BY DEF TaskOf
  <1>2. WithoutTools = <<step>>
    BY DEF WithoutTools
  <1> HIDE DEF task
  <1>3. IsTask(task) /\ ~task.synthesis /\ task.on = "trip" /\ task.tool = NoTool
    BY <1>1 DEF IsTask
  <1>4. IsStep(step) /\ step.id = 1 /\ step.deps = {} /\ step.task = task
    BY <1>3 DEF IsStep
  <1> HIDE DEF step
  <1>5. /\ DOMAIN WithoutTools = 1..1 /\ WithoutTools[1] = step
        /\ WithoutTools = [k \in 1..1 |-> WithoutTools[k]]
    BY <1>2
  <1>6. StepsList(WithoutTools)
    BY <1>4, <1>5 DEF StepsList, IsList
  <1>7. DOMAIN Available(tools) = {}
    OBVIOUS
  <1> QED
    BY <1>3, <1>4, <1>5, <1>6, <1>7 DEF RuleList

\* The sections that have a tool, if there are any.
LEMMA AvailableSome ==
    ASSUME NEW tools, Available(tools) # <<>>
    PROVE  LET parts == Available(tools)
           IN /\ Len(parts) \in Nat \ {0} /\ DOMAIN parts = 1..Len(parts)
              /\ \A k \in DOMAIN parts : parts[k] \in Names /\ ToolsOf(parts[k], tools) # {}
  <1> DEFINE parts == Available(tools)
  <1>1. /\ Len(parts) \in Nat /\ DOMAIN parts = 1..Len(parts)
        /\ \A k \in DOMAIN parts : parts[k] \in Names /\ ToolsOf(parts[k], tools) # {}
        /\ IsList(parts)
    BY AvailableIs, ListLength
  <1>2. parts = [k \in 1..Len(parts) |-> parts[k]]
    <2>1. PICK n \in Nat : parts = [k \in 1..n |-> parts[k]]
      BY <1>1 DEF IsList
    <2> QED
      BY <2>1
  <1>3. Len(parts) # 0
    <2> HIDE DEF parts
    <2>1. Len(parts) = 0 => parts = <<>>
      BY <1>1, <1>2, EmptyList
    <2> QED
      BY <2>1 DEF parts
  <1> QED
    BY <1>1, <1>3

LEMMA ChainStepsIs ==
    ASSUME NEW tools, Available(tools) # <<>>, NEW pref \in BOOLEAN
    PROVE  RuleList(ChainSteps(tools, pref), tools)
  <1> DEFINE parts == Available(tools)
             list == ChainSteps(tools, pref)
             Made(k) == [id |-> k, deps |-> 1..(k - 1),
                         task |-> TaskOf(parts[k], "trip", PickTool(parts[k], tools, pref))]
  <1>1. list = [k \in DOMAIN parts |-> Made(k)]
    BY DEF ChainSteps
  <1>2. /\ Len(parts) \in Nat \ {0} /\ DOMAIN parts = 1..Len(parts)
        /\ \A k \in DOMAIN parts : parts[k] \in Names /\ ToolsOf(parts[k], tools) # {}
    BY AvailableSome
  <1>3. 1 \in DOMAIN parts
    BY <1>2
  <1> HIDE DEF parts, list
  <1>4. ASSUME NEW k \in DOMAIN parts
        PROVE  /\ IsStep(list[k]) /\ list[k].id = k /\ list[k].deps \subseteq 1..(k - 1)
               /\ ~list[k].task.synthesis /\ list[k].task.on = parts[k]
               /\ list[k].task.tool \in ToolsOf(parts[k], tools)
    <2>1. list[k] = Made(k)
      BY <1>1
    <2>2. parts[k] \in Names /\ ToolsOf(parts[k], tools) # {} /\ k \in Nat
      BY <1>2
    <2>3. 1..(k - 1) \in SUBSET (1..(k - 1))
      OBVIOUS
    <2> QED
      BY <2>1, <2>2, <2>3, SectionStepIs
  <1>5. DOMAIN list = DOMAIN parts /\ list = [k \in 1..Len(parts) |-> list[k]]
    BY <1>1, <1>2
  <1>6. StepsList(list)
    BY <1>2, <1>4, <1>5 DEF StepsList, IsList
  <1>7. \A j \in DOMAIN parts : \E k \in DOMAIN list : list[k].task.on = parts[j]
    BY <1>4, <1>5
  <1> QED
    BY <1>2, <1>3, <1>4, <1>5, <1>6, <1>7 DEF RuleList, parts, list

LEMMA DualCityStepsIs ==
    ASSUME NEW tools, Available(tools) # <<>>, NEW cities \in Seq(Cities), Len(cities) >= 2
    PROVE  RuleList(DualCitySteps(cities, tools), tools)
  <1> DEFINE parts == Available(tools)
             n == Len(cities)
             L == Len(parts)
             list == DualCitySteps(cities, tools)
             At(k) == ((k - 1) \div n) + 1
             City(k) == cities[((k - 1) % n) + 1]
             Made(k) == [id |-> k, deps |-> SameCity(n, k),
                         task |-> TaskOf(parts[At(k)], City(k),
                                         PickTool(parts[At(k)], tools, FALSE))]
  <1>1. list = [k \in 1..(n * L) |-> Made(k)]
    BY DEF DualCitySteps, DualCityTask
  <1>2. /\ L \in Nat \ {0} /\ DOMAIN parts = 1..L
        /\ \A k \in DOMAIN parts : parts[k] \in Names /\ ToolsOf(parts[k], tools) # {}
    BY AvailableSome
  <1>3. n \in Nat \ {0}
    OBVIOUS
  <1> HIDE DEF parts, list, n, L, City
  <1>4. ASSUME NEW k \in 1..(n * L)
        PROVE  At(k) \in 1..L
    BY <1>2, <1>3
  <1>5. ASSUME NEW j \in 1..L
        PROVE  \E k \in 1..(n * L) : At(k) = j
    <2> DEFINE i == j - 1
               k == i * n + 1
    <2>1. i \in Nat /\ i < L
      BY <1>2
    <2>2. i * n \in Nat /\ i * n < n * L
      BY <1>2, <1>3, <2>1
    <2>3. n * L \in Nat
      BY <1>2, <1>3
    <2>4. k \in 1..(n * L)
      BY <2>2, <2>3
    <2>5. (i * n) \div n = i
      BY <1>3, <2>1
    <2>6. k - 1 = i * n
      BY <2>2
    <2>7. At(k) = j
      BY <2>5, <2>6
    <2> QED
      BY <2>4, <2>7
  <1> HIDE DEF At
  <1>6. ASSUME NEW k \in 1..(n * L)
        PROVE  /\ IsStep(list[k]) /\ list[k].id = k /\ list[k].deps \subseteq 1..(k - 1)
               /\ ~list[k].task.synthesis /\ list[k].task.on = parts[At(k)]
               /\ list[k].task.tool \in ToolsOf(parts[At(k)], tools)
    <2> DEFINE s == parts[At(k)]
               city == City(k)
               deps == SameCity(n, k)
    <2>1. list[k] = [id |-> k, deps |-> deps,
                     task |-> TaskOf(s, city, PickTool(s, tools, FALSE))]
      BY <1>1
    <2>2. s \in Names /\ ToolsOf(s, tools) # {}
      BY <1>2, <1>4
    <2>3. k \in Nat /\ FALSE \in BOOLEAN
      OBVIOUS
    <2>4. deps \in SUBSET (1..(k - 1))
      BY DEF SameCity
    <2> HIDE DEF s, deps, city
    <2>5. LET step == [id |-> k, deps |-> deps,
                       task |-> TaskOf(s, city, PickTool(s, tools, FALSE))]
          IN /\ IsStep(step) /\ step.id = k /\ step.deps \subseteq 1..(k - 1)
             /\ ~step.task.synthesis /\ step.task.on = s
             /\ step.task.tool \in ToolsOf(s, tools)
      BY <2>2, <2>3, <2>4, SectionStepIs
    <2> QED
      BY <2>1, <2>5 DEF s
  <1>7. DOMAIN list = 1..(n * L) /\ list = [k \in 1..(n * L) |-> list[k]]
    BY <1>1
  <1>8. n * L \in Nat /\ 1 \in 1..(n * L)
    BY <1>2, <1>3
  <1>9. StepsList(list)
    BY <1>6, <1>7, <1>8 DEF StepsList, IsList
  <1>10. \A j \in DOMAIN parts : \E k \in DOMAIN list : list[k].task.on = parts[j]
    BY <1>2, <1>5, <1>6, <1>7
  <1>11. \A k \in 1..(n * L) : parts[At(k)] \in Names
    BY <1>2, <1>4
  <1> QED
    BY <1>6, <1>7, <1>8, <1>9, <1>10, <1>11 DEF RuleList, parts, list

\* _build_plan_for_query, for every query and every set of tools.
LEMMA RulePlanIs ==
    ASSUME NEW q \in Query, NEW tools
    PROVE  RuleList(RulePlan(q, tools), tools)
  <1>1. q.mcp \in BOOLEAN /\ q.cities \in Seq(Cities)
    BY DEF Query
  <1>2. Len(q.cities) \in Nat
    BY <1>1
  <1>3. CASE Len(q.cities) >= 2
    <2>1. RulePlan(q, tools) = DualCityPlan(q.cities, tools)
      BY <1>3 DEF RulePlan
    <2> QED
      BY <1>1, <1>3, <2>1, WithoutToolsIs, DualCityStepsIs DEF DualCityPlan
  <1>4. CASE Len(q.cities) < 2 /\ (TripWithBudget(q) \/ q.shanghai3)
    <2>1. RulePlan(q, tools) = TripPlan(tools, q.mcp)
      BY <1>2, <1>4 DEF RulePlan
    <2> QED
      BY <1>1, <2>1, WithoutToolsIs, ChainStepsIs DEF TripPlan
  <1>5. CASE Len(q.cities) < 2 /\ ~(TripWithBudget(q) \/ q.shanghai3)
    <2>1. RulePlan(q, tools) = PlainPlan(tools)
      BY <1>2, <1>5 DEF RulePlan
    <2> QED
      BY <2>1, WithoutToolsIs, ChainStepsIs DEF PlainPlan
  <1> QED
    BY <1>2, <1>3, <1>4, <1>5
-----------------------------------------------------------------------------
\* The plan that the validator sees of a query that the rules answer.
LEMMA AcceptedPlanIs ==
    ASSUME NEW q \in Query, NEW tools, tools # {}
    PROVE  LET raw == RulePlan(q, ToolsRead(tools))
               steps == Normalized(Normalized(raw))
           IN /\ Accepted(steps, tools)
              /\ StepsList(steps)
              /\ \A j \in DOMAIN Available(tools) : \E k \in DOMAIN steps :
                    steps[k].task.tool \in {Available(tools)[j], McpOf[Available(tools)[j]]}
  <1> DEFINE raw == RulePlan(q, tools)
             steps == Normalized(Normalized(raw))
             parts == Available(tools)
  <1>1. ToolsRead(tools) = tools
    BY DEF ToolsRead
  <1>2. RuleList(raw, tools)
    BY RulePlanIs
  <1> HIDE DEF raw, parts
  <1>3. StepsList(raw) /\ DistinctIds(raw) /\ 1 \in DOMAIN raw
    BY <1>2 DEF RuleList, DistinctIds
  <1>4. NormalizedOf(steps, raw)
    BY <1>3, NormalizedTwice
  <1> HIDE DEF steps
  <1>5. ASSUME NEW a \in DOMAIN raw
        PROVE  /\ Work(raw[a].task) = raw[a].task
               /\ \/ raw[a].task.on \in Names
                     /\ raw[a].task.tool \in ToolsOf(raw[a].task.on, tools)
                  \/ raw[a].task.on = "trip" /\ raw[a].task.tool = NoTool
    <2>1. IsTask(raw[a].task) /\ ~raw[a].task.synthesis
      BY <1>2 DEF RuleList, StepsList, IsStep
    <2> DEFINE t == raw[a].task
    <2>2. Work(t) = t
      <3> HIDE DEF t
      <3> QED
        BY <2>1, WorkIs DEF t
    <2>3. \/ t.on \in Names /\ t.tool \in ToolsOf(t.on, tools)
          \/ t.on = "trip" /\ t.tool = NoTool
      BY <1>2 DEF RuleList
    <2> QED
      BY <2>2, <2>3
  <1>6. PICK m \in Nat : steps = [k \in 1..m |-> steps[k]]
    BY <1>4 DEF NormalizedOf, StepsList, IsList
  <1>7. DOMAIN steps = 1..m
    BY <1>6
  <1>8. \A k \in DOMAIN steps : steps[k].id = k
    BY <1>3, <1>4 DEF NormalizedOf
  <1>9. DOMAIN steps # {}
    <2>1. CASE Budget(raw[1].task)
      BY <1>3, <1>4, <2>1 DEF NormalizedOf
    <2>2. CASE ~Budget(raw[1].task)
      BY <1>3, <1>4, <2>2 DEF NormalizedOf
    <2> QED
      BY <2>1, <2>2
  <1>10. ASSUME NEW k \in DOMAIN steps
         PROVE  steps[k].task.tool \in tools \cup {NoTool}
    <2>1. PICK a \in DOMAIN raw : steps[k].task = Work(raw[a].task)
      BY <1>4 DEF NormalizedOf
    <2> QED
      BY <1>5, <2>1 DEF ToolsOf
  <1>11. ASSUME NEW j \in DOMAIN steps, NEW d \in steps[j].deps
         PROVE  d \in DOMAIN steps /\ d < j
    <2>1. \A i \in DOMAIN steps : \A e \in steps[i].deps :
             e \in DOMAIN steps /\ steps[e].id = e /\ e < steps[i].id
      BY <1>4 DEF NormalizedOf
    <2>2. d \in DOMAIN steps /\ d < steps[j].id
      BY <2>1
    <2> QED
      BY <1>8, <2>2
  <1>12. ValidPlan(ListPlan(steps))
    <2> DEFINE p == ListPlan(steps)
    <2>1. DOMAIN p = 1..m /\ \A k \in 1..m : p[k] = Unlisted(steps[k])
      BY <1>7 DEF ListPlan
    <2>2. \A k \in 1..m : p[k].deps = steps[k].deps
      BY <2>1 DEF Unlisted
    <2> HIDE DEF p
    <2>3. \A k \in 1..m : 1..k \subseteq 1..m
      BY <1>6
    <2>4. \A k \in DOMAIN p : \A d \in p[k].deps : d \in DOMAIN p /\ d < k
      BY <1>7, <1>11, <2>1, <2>2
    <2>5. DOMAIN p # {} /\ \A k \in DOMAIN p : p[k].task \notin Unregistered
      BY <1>7, <1>9, <2>1, RegistryAssumption
    <2> QED
      BY <2>1, <2>3, <2>4, <2>5 DEF ValidPlan, p
  <1>13. Accepted(steps, tools)
    BY <1>8, <1>10, <1>12 DEF Accepted
  <1>14. ASSUME NEW j \in DOMAIN parts
         PROVE  \E k \in DOMAIN steps : steps[k].task.tool \in {parts[j], McpOf[parts[j]]}
    <2>1. PICK i \in DOMAIN raw : raw[i].task.on = parts[j]
      BY <1>2 DEF RuleList, parts
    <2>2. parts[j] \in Names
      BY AvailableIs DEF parts
    <2>3. raw[i].task.tool \in ToolsOf(parts[j], tools)
      BY <1>5, <2>1, <2>2 DEF Names
    <2>4. CASE ~Budget(raw[i].task)
      <3>1. PICK k \in DOMAIN steps : steps[k].task = Work(raw[i].task)
        BY <1>4, <2>4 DEF NormalizedOf
      <3> QED
        BY <1>5, <2>3, <3>1 DEF ToolsOf
    <2>5. CASE Budget(raw[i].task)
      <3>1. PICK a \in DOMAIN raw, k \in DOMAIN steps :
               Budget(raw[a].task) /\ steps[k].task = Work(raw[a].task)
        BY <1>4, <2>5 DEF NormalizedOf
      <3>2. \A x \in DOMAIN raw : Budget(raw[x].task) => raw[x].task.on = "budget"
        BY <1>5 DEF Budget, ToolsOf, Names, McpOf, NoTool
      <3>3. parts[j] = "budget" /\ raw[a].task.on = "budget"
        BY <2>1, <2>5, <3>1, <3>2
      <3>4. raw[a].task.tool \in ToolsOf("budget", tools)
        BY <1>5, <3>3
      <3> QED
        BY <1>5, <3>1, <3>3, <3>4 DEF ToolsOf
    <2> QED
      BY <2>4, <2>5
  <1>15. StepsList(steps)
    BY <1>4 DEF NormalizedOf
  <1> QED
    BY <1>1, <1>13, <1>14, <1>15 DEF steps, raw, parts

-----------------------------------------------------------------------------
\* New steps that fit a plan whose first n steps are finished.
Fits(list, n) ==
    /\ StepsList(list) /\ 1 \in DOMAIN list /\ DistinctIds(list)
    /\ \A k \in DOMAIN list : list[k].deps \subseteq 1..(n + k - 1)

\* What the controller puts in fits too, repaired or not.
LEMMA AppliedStepsFit ==
    ASSUME NEW n \in Nat, NEW list, Fits(list, n)
    PROVE  LET new == StepsToApply(list)
           IN \E l \in Nat \ {0} :
                 /\ DOMAIN new = 1..l
                 /\ \A k \in 1..l : new[k].deps \subseteq 1..(n + k - 1)
  <1> DEFINE once == RemoveDuplicates(list)
             out == Renumbered(once)
  <1>1. StepsList(list) /\ DOMAIN list # {}
    BY DEF Fits
  <1>2. SubOf(once, list) /\ DOMAIN once # {}
    BY <1>1, RemoveDuplicatesSub
  <1>3. StepsList(once) /\ DistinctIds(once)
    BY <1>2 DEF SubOf, Fits
  <1> HIDE DEF once
  <1>4. RenumberedOf(out, once)
    BY <1>3, RenumberedIs
  <1>5. Repaired(list) = out
    BY DEF Repaired, once
  <1> HIDE DEF out
  <1>6. StepsList(out) /\ DOMAIN out # {}
    BY <1>2, <1>4 DEF RenumberedOf
  <1>7. \A k \in DOMAIN out : out[k].deps \subseteq 1..(n + k - 1)
    <2> SUFFICES ASSUME NEW k \in DOMAIN out, NEW d \in out[k].deps
                 PROVE  d \in 1..(n + k - 1)
      OBVIOUS
    <2>1. out[k].id = k
      BY <1>3, <1>4 DEF RenumberedOf
    <2>2. \A j \in DOMAIN out : \A e \in out[j].deps : e \in DOMAIN out /\ e < out[j].id
      BY <1>4 DEF RenumberedOf
    <2>3. d \in DOMAIN out /\ d < k
      BY <2>1, <2>2
    <2>4. \A j \in DOMAIN out : j \in Nat \ {0}
      BY <1>6 DEF StepsList, IsList
    <2>5. d \in Nat \ {0} /\ k \in Nat
      BY <2>3, <2>4
    <2> QED
      BY <2>3, <2>5
  <1>8. ASSUME NEW s, StepsList(s), DOMAIN s # {},
               \A k \in DOMAIN s : s[k].deps \subseteq 1..(n + k - 1)
        PROVE  \E l \in Nat \ {0} :
                  /\ DOMAIN ListPlan(s) = 1..l
                  /\ \A k \in 1..l : ListPlan(s)[k].deps \subseteq 1..(n + k - 1)
    <2>1. PICK l \in Nat : s = [k \in 1..l |-> s[k]]
      BY <1>8 DEF StepsList, IsList
    <2>2. DOMAIN s = 1..l /\ l # 0
      BY <1>8, <2>1
    <2>3. DOMAIN ListPlan(s) = 1..l /\ \A k \in 1..l : ListPlan(s)[k].deps = s[k].deps
      BY <2>2 DEF ListPlan, Unlisted
    <2>4. \A k \in 1..l : ListPlan(s)[k].deps \subseteq 1..(n + k - 1)
      BY <1>8, <2>2, <2>3
    <2> QED
      BY <2>2, <2>3, <2>4
  <1>9. \A k \in DOMAIN list : list[k].deps \subseteq 1..(n + k - 1)
    BY DEF Fits
  <1>10. CASE RepairNoted(list)
    <2>1. StepsToApply(list) = ListPlan(out)
      BY <1>5, <1>10 DEF StepsToApply
    <2> QED
      BY <1>6, <1>7, <1>8, <2>1
  <1>11. CASE ~RepairNoted(list)
    <2>1. StepsToApply(list) = ListPlan(list)
      BY <1>11 DEF StepsToApply
    <2> QED
      BY <1>1, <1>8, <1>9, <2>1
  <1> QED
    BY <1>10, <1>11

\* apply_replanned_steps, where the finished steps are the first n.
LEMMA ReplannedIsValid ==
    ASSUME NEW m \in Nat, NEW p, DOMAIN p = 1..m,
           \A i \in 1..m : p[i].deps \subseteq 1..(i - 1),
           NEW n \in 0..m, NEW st, FinishedIds(st) = 1..n,
           NEW l \in Nat \ {0}, NEW new, DOMAIN new = 1..l,
           \A k \in 1..l : new[k].deps \subseteq 1..(n + k - 1)
    PROVE  ValidPlan(ReplannedPlan(p, st, new))
  <1> DEFINE q == ReplannedPlan(p, st, new)
             all == (1..n) \cup {0}
  <1>1. n \in Nat
    OBVIOUS
  <1>2. LastFinished(st) = n
    <2>1. all \in SUBSET Nat /\ all # {} /\ n \in all
      BY <1>1
    <2>2. IsFiniteSet(all)
      <3>1. \A x \in all : x <= n
        BY <1>1
      <3> HIDE DEF all
      <3> QED
        BY <1>1, <2>1, <3>1, FS_BoundedSetOfNaturals
    <2>3. Max(all) \in all /\ \A y \in all : y <= Max(all)
      <3> HIDE DEF all
      <3> QED
        BY <2>1, <2>2, GreatestOfFinite
    <2>4. \A x \in all : x \in Nat /\ x <= n
      BY <1>1
    <2>5. Max(all) = n
      <3> DEFINE x == Max(all)
      <3>1. x \in Nat /\ x <= n /\ n <= x
        <4> HIDE DEF x, all
        <4> QED
          BY <2>1, <2>3, <2>4 DEF x
      <3> HIDE DEF x
      <3>2. x = n
        BY <1>1, <3>1
      <3> QED
        BY <3>2 DEF x
    <2> QED
      BY <2>5 DEF LastFinished
  <1>3. ReplannedIds(st, new) = 1..(n + l)
    <2>1. ReplannedIds(st, new) = (1..n) \cup {n + k : k \in 1..l}
      BY <1>2 DEF ReplannedIds
    <2>2. ASSUME NEW i \in 1..(n + l), i \notin 1..n
          PROVE  i \in {n + k : k \in 1..l}
      <3>1. i - n \in 1..l /\ i = n + (i - n)
        BY <1>1, <2>2
      <3> QED
        BY <3>1
    <2>3. (1..n) \cup {n + k : k \in 1..l} \subseteq 1..(n + l)
      BY <1>1
    <2> QED
      BY <2>1, <2>2, <2>3
  <1>4. DOMAIN q = 1..(n + l)
    BY <1>3 DEF ReplannedPlan
  <1>5. ASSUME NEW i \in 1..(n + l)
        PROVE  q[i].deps \subseteq 1..(i - 1)
    <2>1. CASE i \in 1..n
      <3>1. q[i] = p[i]
        BY <1>3, <2>1 DEF ReplannedPlan
      <3>2. i \in 1..m
        BY <2>1
      <3> QED
        BY <3>1, <3>2
    <2>2. CASE i \notin 1..n
      <3>1. q[i] = new[i - n]
        BY <1>2, <1>3, <2>2 DEF ReplannedPlan
      <3>2. i - n \in 1..l
        BY <1>1, <2>2
      <3>3. new[i - n].deps \subseteq 1..(n + (i - n) - 1)
        BY <3>2
      <3>4. n + (i - n) - 1 = i - 1
        BY <1>1
      <3> QED
        BY <3>1, <3>3, <3>4
    <2> QED
      BY <2>1, <2>2
  <1> HIDE DEF q
  <1>6. \A i \in DOMAIN q : 1..i \subseteq DOMAIN q
    BY <1>1, <1>4
  <1>7. \A i \in DOMAIN q : \A d \in q[i].deps : d \in DOMAIN q /\ d < i
    <2> SUFFICES ASSUME NEW i \in DOMAIN q, NEW d \in q[i].deps
                 PROVE  d \in DOMAIN q /\ d < i
      OBVIOUS
    <2>1. d \in 1..(i - 1) /\ i \in 1..(n + l)
      BY <1>4, <1>5
    <2> QED
      BY <1>1, <1>4, <2>1
  <1>8. 1 \in DOMAIN q
    BY <1>1, <1>4
  <1> QED
    BY <1>6, <1>7, <1>8, RegistryAssumption DEF ValidPlan, q

LEMMA TryApplyFits ==
    ASSUME NEW m \in Nat, NEW p, DOMAIN p = 1..m,
           \A i \in 1..m : p[i].deps \subseteq 1..(i - 1),
           NEW n \in 0..m, NEW st, FinishedIds(st) = 1..n,
           NEW list, Fits(list, n)
    PROVE  /\ ValidPlan(ReplannedPlan(p, st, ListPlan(list)))
           /\ TryApply(p, st, list).ok
  <1>1. n \in Nat
    OBVIOUS
  <1>2. ValidPlan(ReplannedPlan(p, st, ListPlan(list)))
    <2>1. PICK l \in Nat : list = [k \in 1..l |-> list[k]]
      BY DEF Fits, StepsList, IsList
    <2>2. DOMAIN list = 1..l
      BY <2>1
    <2>3. l \in Nat \ {0}
      BY <2>2 DEF Fits
    <2> DEFINE new == ListPlan(list)
    <2>4. DOMAIN new = 1..l /\ \A k \in 1..l : new[k].deps = list[k].deps
      BY <2>2 DEF ListPlan, Unlisted
    <2> HIDE DEF new
    <2>5. \A k \in 1..l : new[k].deps \subseteq 1..(n + k - 1)
      BY <2>2, <2>4 DEF Fits
    <2>6. ValidPlan(ReplannedPlan(p, st, new))
      BY <2>3, <2>4, <2>5, ReplannedIsValid
    <2> QED
      BY <2>6 DEF new
  <1>3. ValidPlan(ReplannedPlan(p, st, StepsToApply(list)))
    <2> DEFINE new == StepsToApply(list)
    <2>1. PICK l \in Nat \ {0} :
             /\ DOMAIN new = 1..l
             /\ \A k \in 1..l : new[k].deps \subseteq 1..(n + k - 1)
      BY <1>1, AppliedStepsFit
    <2> HIDE DEF new
    <2>2. ValidPlan(ReplannedPlan(p, st, new))
      BY <2>1, ReplannedIsValid
    <2> QED
      BY <2>2 DEF new
  <1> DEFINE q == ReplannedPlan(p, st, StepsToApply(list))
             sq == ReplannedStatus(st, StepsToApply(list))
  <1>4. TryApply(p, st, list) = [ok |-> TRUE, plan |-> q, status |-> sq]
    BY <1>3 DEF TryApply
  <1> QED
    BY <1>2, <1>4

\* A rule list fits behind any number of finished steps.
LEMMA RuleListFits ==
    ASSUME NEW list, NEW tools, RuleList(list, tools), NEW n \in Nat
    PROVE  /\ Fits(list, n)
           /\ \A k \in DOMAIN list : list[k].task.tool \in tools \cup {NoTool}
  <1>1. StepsList(list) /\ 1 \in DOMAIN list
    BY DEF RuleList
  <1>2. DistinctIds(list)
    BY DEF RuleList, DistinctIds
  <1>3. \A k \in DOMAIN list : k \in Nat
    BY <1>1 DEF StepsList, IsList
  <1>4. ASSUME NEW k \in DOMAIN list
        PROVE  list[k].deps \subseteq 1..(n + k - 1)
    <2>1. list[k].deps \subseteq 1..(k - 1) /\ k \in Nat
      BY <1>3 DEF RuleList
    <2>2. 1..(k - 1) \subseteq 1..(n + k - 1)
      BY <2>1
    <2> QED
      BY <2>1, <2>2
  <1>5. \A k \in DOMAIN list : list[k].task.tool \in tools \cup {NoTool}
    BY DEF RuleList, ToolsOf
  <1> QED
    BY <1>1, <1>2, <1>4, <1>5 DEF Fits

\* The new steps of the rules, for any goal and text of the question.
LEMMA RuleReplanFits ==
    ASSUME NEW q \in Query, NEW elsewhere \in BOOLEAN, NEW tools, NEW n \in Nat,
           NEW completed \in SUBSET (1..n)
    PROVE  LET list == RuleReplan(q, elsewhere, tools, completed)
           IN /\ Fits(list, n)
              /\ \A k \in DOMAIN list : list[k].task.tool \in tools \cup {NoTool}
  <1> DEFINE list == RuleReplan(q, elsewhere, tools, completed)
  <1>1. CASE TripWithBudget(q) \/ elsewhere
    <2>1. list = TripPlan(tools, q.mcp)
      BY <1>1 DEF RuleReplan
    <2>2. q.mcp \in BOOLEAN
      BY DEF Query
    <2>3. RuleList(list, tools)
      BY <2>1, <2>2, WithoutToolsIs, ChainStepsIs DEF TripPlan
    <2> HIDE DEF list
    <2> QED
      BY <2>3, RuleListFits DEF list
  <1>2. CASE ~(TripWithBudget(q) \/ elsewhere)
    <2> DEFINE tool == PickTool("budget", tools, FALSE)
               task == TaskOf("budget", "trip", tool)
               step == [id |-> 1, deps |-> completed, task |-> task]
    <2>1. list = <<step>>
      BY <1>2 DEF RuleReplan, BudgetStep
    <2>2. tool \in tools \cup {NoTool}
      <3>1. "budget" \in Names /\ FALSE \in BOOLEAN
        BY DEF Names
      <3> QED
        BY <3>1, PickToolIs DEF ToolsOf
    <2> HIDE DEF tool
    <2>3. task = [on |-> "budget", of |-> "trip", synthesis |-> FALSE, size |-> 1, tool |-> tool]
      BY DEF TaskOf
    <2> HIDE DEF task
    <2>4. IsTask(task) /\ task.tool = tool
      BY <2>3 DEF IsTask
    <2>5. IsStep(step) /\ step.deps = completed /\ step.task = task
      BY <2>4 DEF IsStep
    <2> HIDE DEF step
    <2>6. /\ DOMAIN list = 1..1 /\ list[1] = step
          /\ list = [k \in 1..1 |-> list[k]]
      BY <2>1
    <2> HIDE DEF list
    <2>7. StepsList(list) /\ 1 \in DOMAIN list /\ DistinctIds(list)
      BY <2>5, <2>6 DEF StepsList, IsList, DistinctIds
    <2>8. \A k \in DOMAIN list : list[k].deps \subseteq 1..(n + k - 1)
      <3>1. completed \subseteq 1..(n + 1 - 1)
        OBVIOUS
      <3>2. \A k \in DOMAIN list : k = 1
        BY <2>6
      <3> QED
        BY <2>5, <2>6, <3>1, <3>2
    <2>9. \A k \in DOMAIN list : list[k].task.tool \in tools \cup {NoTool}
      BY <2>2, <2>4, <2>5, <2>6
    <2> QED
      BY <2>7, <2>8, <2>9 DEF Fits, list
  <1> QED
    BY <1>1, <1>2

\* A list that a language model writes.
LEMMA ModelListIs ==
    ASSUME NEW list \in Seq(ListedStep)
    PROVE  StepsList(list)
  <1>1. Len(list) \in Nat /\ list = [k \in 1..Len(list) |-> list[k]]
    OBVIOUS
  <1>2. ASSUME NEW k \in DOMAIN list
        PROVE  IsStep(list[k])
    <2>1. list[k] \in ListedStep
      OBVIOUS
    <2> DEFINE s == list[k]
    <2> HIDE DEF s
    <2>2. /\ s = [id |-> s.id, task |-> s.task, deps |-> s.deps]
          /\ s.id \in Nat /\ s.deps \in SUBSET Nat /\ s.task \in Tasks
      BY <2>1 DEF ListedStep, s
    <2> DEFINE t == s.task
    <2>3. t \in [on : {"weather", "map", "budget", "trip"}, of : Cities \cup {"trip"},
                 synthesis : BOOLEAN, size : Nat, tool : STRING]
      BY <2>2, PlannerTasksAssumption
    <2> HIDE DEF t
    <2>4. IsTask(t)
      BY <2>3 DEF IsTask
    <2> QED
      BY <2>2, <2>4 DEF IsStep, s, t
  <1> QED
    BY <1>1, <1>2 DEF StepsList, IsList

-----------------------------------------------------------------------------
LEMMA MakePlanPlans ==
    ASSUME MakePlan
    PROVE  RulePlansAccepted' /\ OnlyRepetitionDropped'
  <1>1. PICK query \in Queries, tools \in ToolSets :
           \E raw \in Answers(made.by, query, tools) :
              made' = [kind |-> "plan", by |-> made.by, tools |-> tools,
                       raw |-> raw, steps |-> Normalized(Normalized(raw))]
    BY DEF MakePlan
  <1>2. PICK raw \in Answers(made.by, query, tools) :
           made' = [kind |-> "plan", by |-> made.by, tools |-> tools,
                    raw |-> raw, steps |-> Normalized(Normalized(raw))]
    BY <1>1
  <1> DEFINE steps == Normalized(Normalized(raw))
  <1>3. query \in Query
    BY QueriesAssumption
  <1>4. made.by # "model" => raw = RulePlan(query, ToolsRead(tools))
    BY DEF Answers
  <1>5. StepsList(raw)
    <2>1. CASE made.by = "model"
      BY <2>1, ModelListIs, QueriesAssumption DEF Answers
    <2>2. CASE made.by # "model"
      <3>1. RuleList(raw, ToolsRead(tools))
        BY <1>3, <1>4, <2>2, RulePlanIs
      <3> QED
        BY <3>1 DEF RuleList
    <2> QED
      BY <2>1, <2>2
  <1>6. NormalizedOf(steps, raw)
    BY <1>5, NormalizedTwice
  <1> HIDE DEF steps
  <1>7. made' = [kind |-> "plan", by |-> made.by, tools |-> tools, raw |-> raw, steps |-> steps]
    BY <1>2 DEF steps
  <1>8. made'.by = made.by /\ made'.tools = tools /\ made'.raw = raw /\ made'.steps = steps
    BY <1>7
  <1>9. RulePlansAccepted'
    <2> SUFFICES ASSUME made.by # "model", tools # {}
                 PROVE  /\ Accepted(steps, tools)
                        /\ \A j \in DOMAIN Available(tools) : \E k \in DOMAIN steps :
                              steps[k].task.tool \in {Available(tools)[j], McpOf[Available(tools)[j]]}
      BY <1>8 DEF RulePlansAccepted
    <2> QED
      BY <1>3, <1>4, AcceptedPlanIs DEF steps
  <1>10. ASSUME NEW k \in DOMAIN raw, ~Budget(raw[k].task)
         PROVE  \E j \in DOMAIN steps : steps[j].task = Work(raw[k].task)
    BY <1>6, <1>10 DEF NormalizedOf
  <1>11. ASSUME NEW j \in DOMAIN steps, NEW d \in steps[j].deps
         PROVE  \E k, l \in DOMAIN raw :
                   /\ raw[l].id \in raw[k].deps
                   /\ Work(raw[k].task) = steps[j].task
                   /\ \E i \in DOMAIN steps :
                         steps[i].id = d /\ steps[i].task = Work(raw[l].task)
    <2>1. \A i \in DOMAIN steps : \A e \in steps[i].deps :
             e \in DOMAIN steps /\ steps[e].id = e /\ e < steps[i].id
      BY <1>6 DEF NormalizedOf
    <2>2. d \in DOMAIN steps /\ steps[d].id = d
      BY <2>1
    <2>3. PICK k, l \in DOMAIN raw :
             /\ steps[j].task = Work(raw[k].task) /\ steps[d].task = Work(raw[l].task)
             /\ steps[d].id \in steps[j].deps => raw[l].id \in raw[k].deps
      <3>1. \A x, y \in DOMAIN steps : \E a, b \in DOMAIN raw :
               /\ steps[x].task = Work(raw[a].task) /\ steps[y].task = Work(raw[b].task)
               /\ steps[y].id \in steps[x].deps => raw[b].id \in raw[a].deps
        BY <1>6 DEF NormalizedOf
      <3> QED
        BY <2>2, <3>1
    <2>4. steps[d].id \in steps[j].deps
      BY <2>2
    <2> QED
      BY <2>2, <2>3, <2>4
  <1>12. OnlyRepetitionDropped'
    BY <1>8, <1>10, <1>11 DEF OnlyRepetitionDropped, Work, Budget, IsBudgetStep
  <1> QED
    BY <1>9, <1>12

LEMMA RulesReplanFits ==
    ASSUME RulesReplan
    PROVE  RuleReplansFit'
  <1> DEFINE PlanOf(query, tools) ==
                 ListPlan(Normalized(Normalized(RulePlan(query, ToolsRead(tools)))))
             StatusOf(plan, n, completed) ==
                 [i \in DOMAIN plan |-> IF i \in completed THEN "completed"
                                        ELSE IF i <= n THEN "skipped" ELSE "pending"]
             RawOf(query, tools, elsewhere, text, completed) ==
                 IF made.by = "rules"
                 THEN RuleReplan(query, elsewhere, ToolsRead(tools), completed)
                 ELSE RulePlan(text, ToolsRead(tools))
  <1>1. PICK query \in Queries, tools \in ToolSets :
           \E n \in 0..Cardinality(DOMAIN PlanOf(query, tools)), elsewhere \in BOOLEAN,
              text \in Queries :
              \E completed \in SUBSET (1..n) :
                 made' = [kind |-> "replan", tools |-> tools, plan |-> PlanOf(query, tools),
                          status |-> StatusOf(PlanOf(query, tools), n, completed),
                          raw |-> RawOf(query, tools, elsewhere, text, completed)]
    BY DEF RulesReplan
  <1> DEFINE plan == PlanOf(query, tools)
  <1>2. PICK n \in 0..Cardinality(DOMAIN plan), elsewhere \in BOOLEAN, text \in Queries :
           \E completed \in SUBSET (1..n) :
              made' = [kind |-> "replan", tools |-> tools, plan |-> plan,
                       status |-> StatusOf(plan, n, completed),
                       raw |-> RawOf(query, tools, elsewhere, text, completed)]
    BY <1>1
  <1>3. PICK completed \in SUBSET (1..n) :
           made' = [kind |-> "replan", tools |-> tools, plan |-> plan,
                    status |-> StatusOf(plan, n, completed),
                    raw |-> RawOf(query, tools, elsewhere, text, completed)]
    BY <1>2
  <1> DEFINE raw == RawOf(query, tools, elsewhere, text, completed)
             status == StatusOf(plan, n, completed)
  <1>4. query \in Query /\ text \in Query
    BY QueriesAssumption
  <1>5. SUFFICES ASSUME tools # {}
                 PROVE  /\ ValidPlan(ReplannedPlan(plan, status, ListPlan(raw)))
                        /\ TryApply(plan, status, raw).ok
                        /\ \A k \in DOMAIN raw : raw[k].task.tool \in tools \cup {NoTool}
    <2> HIDE DEF plan, status, raw
    <2>1. /\ made'.tools = tools /\ made'.plan = plan /\ made'.status = status
          /\ made'.raw = raw
      BY <1>3 DEF status, raw
    <2> QED
      BY <2>1 DEF RuleReplansFit
  <1>6. ToolsRead(tools) = tools
    BY <1>5 DEF ToolsRead
  <1>7. PICK m \in Nat : /\ DOMAIN plan = 1..m
                         /\ \A i \in 1..m : plan[i].deps \subseteq 1..(i - 1)
    <2> DEFINE steps == Normalized(Normalized(RulePlan(query, ToolsRead(tools))))
    <2>1. StepsList(steps) /\ Accepted(steps, tools)
      BY <1>4, <1>5, AcceptedPlanIs
    <2> HIDE DEF steps
    <2>2. PICK m \in Nat : steps = [k \in 1..m |-> steps[k]]
      BY <2>1 DEF StepsList, IsList
    <2>3. DOMAIN steps = 1..m
      BY <2>2
    <2>4. plan = ListPlan(steps)
      BY DEF steps
    <2> HIDE DEF plan
    <2>5. DOMAIN plan = 1..m
      BY <2>3, <2>4 DEF ListPlan
    <2>6. \A i \in 1..m : \A d \in plan[i].deps : d \in 1..m /\ d < i
      BY <2>1, <2>4, <2>5 DEF Accepted, ValidPlan
    <2>7. \A i \in 1..m : plan[i].deps \subseteq 1..(i - 1)
      BY <2>6
    <2> QED
      BY <2>5, <2>7
  <1> HIDE DEF plan
  <1>8. Cardinality(DOMAIN plan) = m
    <2>1. 1 \in Int /\ m \in Int
      OBVIOUS
    <2>2. Cardinality(1..m) = IF 1 > m THEN 0 ELSE m - 1 + 1
      BY <2>1, FS_Interval
    <2> QED
      BY <1>7, <2>2
  <1>9. n \in 0..m /\ n \in Nat
    BY <1>8
  <1>10. FinishedIds(status) = 1..n
    <2>1. DOMAIN status = 1..m
      BY <1>7
    <2>2. \A i \in 1..m : (i <= n) <=> status[i] \in FinishedStatus
      <3>1. \A i \in 1..m : /\ i \in completed => i <= n
                            /\ status[i] = IF i \in completed THEN "completed"
                                           ELSE IF i <= n THEN "skipped" ELSE "pending"
        BY <1>7, <1>9
      <3> HIDE DEF status
      <3> QED
        BY <3>1 DEF FinishedStatus
    <2> HIDE DEF status
    <2>3. \A i : i \in FinishedIds(status) <=> i \in 1..m /\ i <= n
      BY <2>1, <2>2 DEF FinishedIds
    <2>4. \A i : i \in 1..n <=> i \in 1..m /\ i <= n
      BY <1>9
    <2> QED
      BY <2>3, <2>4
  <1> HIDE DEF status
  <1>11. /\ Fits(raw, n)
         /\ \A k \in DOMAIN raw : raw[k].task.tool \in tools \cup {NoTool}
    <2>1. CASE made.by = "rules"
      <3>1. raw = RuleReplan(query, elsewhere, tools, completed)
        BY <1>6, <2>1
      <3> HIDE DEF raw
      <3> QED
        BY <1>4, <1>9, <3>1, RuleReplanFits
    <2>2. CASE made.by # "rules"
      <3>1. raw = RulePlan(text, tools)
        BY <1>6, <2>2
      <3> HIDE DEF raw
      <3>2. RuleList(raw, tools)
        BY <1>4, <3>1, RulePlanIs
      <3> QED
        BY <1>9, <3>2, RuleListFits
    <2> QED
      BY <2>1, <2>2
  <1> HIDE DEF raw
  <1>12. /\ ValidPlan(ReplannedPlan(plan, status, ListPlan(raw)))
         /\ TryApply(plan, status, raw).ok
    BY <1>7, <1>9, <1>10, <1>11, TryApplyFits
  <1> QED
    BY <1>11, <1>12

-----------------------------------------------------------------------------
\* What holds of the plan or the new steps that were made.
MadeOK == RulePlansAccepted /\ OnlyRepetitionDropped /\ RuleReplansFit

LEMMA AgentInitEstablishesInv == AgentInit => IInv /\ MadeOK
  <1>1. AgentInit => IInv
    BY InitEstablishesInv DEF AgentInit
  <1>2. AgentInit => made.kind = "none"
    BY DEF AgentInit, Nothing
  <1>3. made.kind = "none" => MadeOK
    BY DEF MadeOK, RulePlansAccepted, OnlyRepetitionDropped, RuleReplansFit
  <1> QED
    BY <1>1, <1>2, <1>3

LEMMA AgentNextKeepsInv == IInv /\ MadeOK /\ [AgentNext]_agentVars => IInv' /\ MadeOK'
  <1> SUFFICES ASSUME IInv, MadeOK, [AgentNext]_agentVars
               PROVE  IInv' /\ MadeOK'
    OBVIOUS
  <1>1. UNCHANGED made => MadeOK'
    <2> SUFFICES ASSUME UNCHANGED made
                 PROVE  MadeOK'
      OBVIOUS
    <2>1. RulePlansAccepted'
      BY DEF MadeOK, RulePlansAccepted
    <2>2. OnlyRepetitionDropped'
      <3> DEFINE Dropped(m) ==
                     LET Done(step) == [step.task EXCEPT !.tool =
                                           IF step.task.synthesis THEN NoTool ELSE @]
                     IN /\ \A k \in DOMAIN m.raw : ~IsBudgetStep(m.raw[k]) =>
                             \E j \in DOMAIN m.steps : m.steps[j].task = Done(m.raw[k])
                        /\ \A j \in DOMAIN m.steps : \A d \in m.steps[j].deps :
                             \E k, l \in DOMAIN m.raw :
                                /\ m.raw[l].id \in m.raw[k].deps
                                /\ Done(m.raw[k]) = m.steps[j].task
                                /\ \E i \in DOMAIN m.steps :
                                      m.steps[i].id = d /\ m.steps[i].task = Done(m.raw[l])
      <3>1. OnlyRepetitionDropped <=> (made.kind = "plan" => Dropped(made))
        BY DEF OnlyRepetitionDropped
      <3>2. OnlyRepetitionDropped' <=> (made'.kind = "plan" => Dropped(made'))
        BY DEF OnlyRepetitionDropped
      <3> HIDE DEF Dropped
      <3> QED
        BY <3>1, <3>2 DEF MadeOK
    <2>3. RuleReplansFit'
      BY DEF MadeOK, RuleReplansFit
    <2> QED
      BY <2>1, <2>2, <2>3 DEF MadeOK
  <1>2. UNCHANGED vars => IInv'
    BY NextKeepsInv
  <1>3. CASE UNCHANGED agentVars
    BY <1>1, <1>2, <1>3 DEF agentVars
  <1>4. CASE Next /\ UNCHANGED made
    BY <1>1, <1>4, NextKeepsInv
  <1>5. ASSUME NEW q \in Questions, HandOver(q)
        PROVE  IInv' /\ MadeOK'
    <2>1. made'.kind = "answer"
      BY <1>5 DEF HandOver
    <2>2. made'.kind = "answer" => MadeOK'
      BY DEF MadeOK, RulePlansAccepted, OnlyRepetitionDropped, RuleReplansFit
    <2> QED
      BY <1>5, <2>1, <2>2, HandOverKeepsInv
  <1>6. CASE MakePlan
    <2>1. made'.kind = "plan"
      BY <1>6 DEF MakePlan
    <2>2. made'.kind = "plan" => RuleReplansFit'
      BY DEF RuleReplansFit
    <2> QED
      BY <1>2, <1>6, <2>1, <2>2, MakePlanPlans DEF MakePlan, MadeOK
  <1>7. CASE RulesReplan
    <2>1. made'.kind = "replan"
      BY <1>7 DEF RulesReplan
    <2>2. made'.kind = "replan" => RulePlansAccepted' /\ OnlyRepetitionDropped'
      BY DEF RulePlansAccepted, OnlyRepetitionDropped
    <2>3. UNCHANGED vars
      BY <1>7 DEF RulesReplan
    <2> QED
      BY <1>2, <1>7, <2>1, <2>2, <2>3, RulesReplanFits DEF MadeOK
  <1> QED
    BY <1>3, <1>4, <1>5, <1>6, <1>7 DEF AgentNext

\* PlannerAgent with the questions under it: the invariant holds in every behaviour.
THEOREM AgentInvariant == AgentSpec => [](IInv /\ MadeOK)
  BY AgentInitEstablishesInv, AgentNextKeepsInv, PTL DEF AgentSpec

\* The planner takes nothing from what is said of the questions.
THEOREM AgentKeepsQuestions ==
    AgentSpec => [](OutageNeverFails /\ RulesAreExplained /\ CostBounded)
  <1>1. IInv => OutageNeverFails
    BY DEF IInv, QuestionOK, AuthorOK, OutageNeverFails
  <1>2. IInv => RulesAreExplained
    BY DEF IInv, QuestionOK, Explained, RuleWritten, RulesAreExplained
  <1>3. IInv => CostBounded
    BY DEF IInv, QuestionOK, CostOK, CostBounded
  <1> QED
    BY <1>1, <1>2, <1>3, AgentInvariant, PTL

\* RuleBasedLLMClient, normalize_plan and PlanValidator: the rules' plan of any query
\* is accepted whatever tools are registered, and each section that has a tool is in it.
THEOREM RulePlansAlwaysAccepted == AgentSpec => []RulePlansAccepted
  BY AgentInvariant, PTL DEF MadeOK

\* _build_replan_steps and _try_apply_replan_steps: the rules' new steps fit the plan
\* of any query, whatever part of it is finished.
THEOREM RuleReplansAlwaysFit == AgentSpec => []RuleReplansFit
  BY AgentInvariant, PTL DEF MadeOK

\* normalize_plan, twice: of any list, however long, the work stays but for repetition,
\* and no dependency is made up.
THEOREM OnlyRepetitionIsDropped == AgentSpec => []OnlyRepetitionDropped
  BY AgentInvariant, PTL DEF MadeOK
=============================================================================
