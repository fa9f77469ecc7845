SPECIFICATION WorkflowFairSpec
CONSTANTS
    weather = weather
    map = map
    budget = budget
    hotel = hotel
    unknown = unknown
    Tasks <- MCTasks
    Unregistered = {unknown}
    InitialPlans <- MCPlans
    Proposals <- MCNoProposals
    Policies = {"retry", "skip"}
    MaxReplanAttempts = 1
    LLMLists <- MCLists
    FallbackLists <- MCFallback
    MaxCriticReplans = 2
    GraphMaxIterations = 50
    MaxRequests = 2
INVARIANT ExecutedPlanValid
 
PROPERTY RequestsEnd
