----------------------------- MODULE ModelCalls -----------------------------
(***************************************************************************)
(* A question to the language model, from the component that asks it down  *)
(* to the HTTP request: PlannerAgent (agents/planner.py), ExecutionCritic, *)
(* ContextCompressor and LLMToolSelector over AdaptiveLLMClient            *)
(* (core/llm/factory.py) and QwenLLMClient (core/llm/qwen_client.py).      *)
(*                                                                         *)
(* Four mechanisms are nested: the client repeats a failed request, the    *)
(* adaptive client then answers by rules, the caller asks again when it    *)
(* cannot use an answer, and gives the rules a last word.  Questions of    *)
(* one execution (Questions) are asked by concurrent branches, and share   *)
(* the list of fallback events.  Text is abstracted to whether it can be   *)
(* used and who wrote it.                                                  *)
(***************************************************************************)
EXTENDS Integers, Sequences, FiniteSets

CONSTANTS Questions,     \* questions asked in one execution
          Providers,     \* values of provider
          QwenRetries,   \* Settings.qwen_max_retries
          PlannerRetries \* Settings.planner_max_retries

ASSUME ProvidersAssumption == Providers \subseteq {"qwen", "openai", "rule_based"}
ASSUME RetriesAssumption == QwenRetries \in Nat /\ PlannerRetries \in Nat

Callers == {"planner", "replanner", "critic", "summarizer", "router"}

VARIABLES provider, \* what _resolve_backend chooses
          question, \* question[q]: progress of question q
          events    \* LLMFallbackEvents: the callers, in order

vars == <<provider, question, events>>

Texts == {"usable", "unusable"}

\* complete() calls a caller makes before it stops asking.
Attempts(c) == CASE c \in {"planner", "replanner"} -> PlannerRetries + 1
                 [] c = "critic" -> 2
                 [] OTHER -> 1

\* Callers that let RuleBasedLLMClient answer when no answer could be used.
LastWordByRules == {"planner", "replanner", "critic"}

\* The adaptive client is not a RuleBasedLLMClient, nor unwrapped to one, whatever
\* it resolves to: the last word is left to rules under every provider.
Init ==
    /\ provider \in Providers
    /\ \E callers \in [Questions -> Callers] :
          question = [q \in Questions |->
             [caller |-> callers[q], at |-> "idle", attempt |-> 0, requests |-> 0,
              total |-> 0, text |-> "none", by |-> "none", result |-> "none"]]
    /\ events = <<>>

Update(q, new) == question' = [question EXCEPT ![q] = new]

\* The rule-based client looks for the question in the last user message, a
\* planner's in the first one: feedback on an earlier answer hides it.
RulesUnderstand(x) == x.caller = "planner" \/ x.attempt <= 1

\* Whatever it reads, what it writes can be used.
ByRules(x) == [x EXCEPT !.at = "answered", !.text = "usable",
                        !.by = IF RulesUnderstand(x) THEN "rules" ELSE "rules_astray"]

\* The caller begins, or asks again with feedback: complete() reaches its backend.
Asked(x) == IF provider = "rule_based"
            THEN ByRules([x EXCEPT !.attempt = @ + 1])
            ELSE [x EXCEPT !.at = "request", !.attempt = @ + 1, !.requests = 0]

Ask(q) ==
    /\ question[q].at = "idle"
    /\ Update(q, Asked(question[q]))
    /\ UNCHANGED <<provider, events>>

-----------------------------------------------------------------------------
\* Seeded fault: the count starts anew after every other request.
RequestedReset(x) == [x EXCEPT !.requests = 1 - @]

\* One more request of this complete(), and of the question (history).
Requested(x) == [x EXCEPT !.requests = @ + 1, !.total = @ + 1]

\* _post_completion returns what the model wrote.
ModelAnswers(q) ==
    /\ question[q].at = "request"
    /\ \E t \in Texts :
          Update(q, [Requested(question[q]) EXCEPT !.at = "answered", !.text = t,
                                                   !.by = "model"])
    /\ UNCHANGED <<provider, events>>

\* Only the Qwen client repeats requests.
RequestsAllowed == IF provider = "qwen" THEN QwenRetries + 1 ELSE 1

\* Seeded fault: the adaptive client does not catch LLMClientError.
GivenUpUncaught(x) == [x EXCEPT !.at = "ended", !.result = "failed"]

\* complete_with_usage of the adaptive client catches the error.
GivenUp(x) == ByRules(x)

\* Seeded fault: only the planner's fallbacks are recorded.
RecordedOfPlanner(x) == IF x.caller = "planner" THEN Append(events, x.caller) ELSE events

\* record_fallback_event.
Recorded(x) == Append(events, x.caller)

\* A timeout, a transport error, an error status, no choices or no content.
RequestFails(q) ==
    /\ question[q].at = "request"
    /\ LET x == Requested(question[q])
       IN IF x.requests < RequestsAllowed
          THEN Update(q, x) /\ UNCHANGED events
          ELSE Update(q, GivenUp(x)) /\ events' = Recorded(x)
    /\ UNCHANGED provider

\* The body is not JSON: a ValueError, which only the adaptive client catches.
BodyUnreadable(q) ==
    /\ question[q].at = "request"
    /\ LET x == Requested(question[q])
       IN Update(q, GivenUp(x)) /\ events' = Recorded(x)
    /\ UNCHANGED provider

\* A body of another shape ("message": null): an AttributeError, which nobody on
\* the way catches.
BodyMisshapen(q) ==
    /\ question[q].at = "request"
    /\ Update(q, [Requested(question[q]) EXCEPT !.at = "ended", !.result = "misshapen"])
    /\ UNCHANGED <<provider, events>>

-----------------------------------------------------------------------------
\* Seeded fault: one attempt more.
AskAgainOnceMore(x) == x.attempt <= Attempts(x.caller)

AskAgain(x) == x.attempt < Attempts(x.caller)

\* extract_json_text, json.loads and the schema accept the answer.
UseAnswer(q) ==
    /\ question[q].at = "answered" /\ question[q].text = "usable"
    /\ Update(q, [question[q] EXCEPT !.at = "ended", !.result = "used"])
    /\ UNCHANGED <<provider, events>>

\* They do not: the caller asks again with feedback, leaves it to the rules, which
\* are given all messages (but the planner's question alone), or raises.
RejectAnswer(q) ==
    /\ question[q].at = "answered" /\ question[q].text = "unusable"
    /\ LET x == question[q]
       IN Update(q, IF AskAgain(x) THEN Asked(x)
                    ELSE IF x.caller \in LastWordByRules
                         THEN ByRules([x EXCEPT !.attempt = @ + 1])
                         ELSE [x EXCEPT !.at = "ended", !.result = "failed"])
    /\ UNCHANGED <<provider, events>>

AllEnded == /\ \A q \in Questions : question[q].at = "ended"
            /\ UNCHANGED vars

QuestionStep(q) ==
    \/ Ask(q) \/ ModelAnswers(q) \/ RequestFails(q) \/ BodyUnreadable(q)
    \/ BodyMisshapen(q) \/ UseAnswer(q) \/ RejectAnswer(q)

Next == \/ \E q \in Questions : QuestionStep(q)
        \/ AllEnded

Spec == Init /\ [][Next]_vars

\* A request ends within qwen_timeout_sec, and nothing else is waited for.
FairSpec == Spec /\ \A q \in Questions : WF_vars(QuestionStep(q))

-----------------------------------------------------------------------------
\* "校验失败不再崩溃": neither an outage of the provider nor useless answers fail
\* a planner or the critic.  What remains is a body of an unforeseen shape, and
\* for the two callers without a last word an answer of the model itself.
OutageNeverFails ==
    \A q \in Questions : question[q].result = "failed" =>
        /\ question[q].caller \notin LastWordByRules
        /\ question[q].by = "model"

\* planner_fallback_summary and its like tell the truth, with several questions
\* on one list: what rules answered for a provider is on it, unless the model's
\* own answers were all useless and the caller left it to the rules.
RulesAreExplained ==
    \A q \in Questions :
        /\ provider # "rule_based"
        /\ question[q].by \in {"rules", "rules_astray"}
        /\ question[q].attempt <= Attempts(question[q].caller)
        => \E k \in DOMAIN events : events[k] = question[q].caller

\* The nested repetitions multiply, and no further: a question costs at most so
\* many requests of qwen_timeout_sec.
CostBounded ==
    \A q \in Questions :
        question[q].total <= Attempts(question[q].caller) * RequestsAllowed

\* Every question is settled: the four mechanisms do not feed each other.
QuestionsSettle ==
    \A q \in Questions : question[q].at # "idle" ~> question[q].at = "ended"

\* The rules that stand in for a model answer the question that was asked.
RulesAnswerTheQuestion ==
    \A q \in Questions : question[q].by # "rules_astray"
=============================================================================
