SPECIFICATION AgentFairSpec
CONSTANTS
    q1 = q1
    q2 = q2
    Questions = {q1, q2}
    Providers = {"qwen", "openai", "rule_based"}
    QwenRetries = 1
    PlannerRetries = 2
    Cities <- Cs
    Tasks <- MCTasks
    Unregistered = {}
    Queries <- MCQueries
    ToolSets <- MCToolSets
    ModelLists <- MCModelLists
 
 
INVARIANT CostBounded
INVARIANT RulePlansAccepted
 
INVARIANT OnlyRepetitionDropped
PROPERTY QuestionsSettle
