SPECIFICATION OrchestrationFairSpec
CONSTANTS
    r1 = r1
    r2 = r2
    weather = weather
    map = map
    mcp_map = mcp_map
    hotel = hotel
    summary = summary
    unknown = unknown
    NoRun = NoRun
    Runs = {r1}
    Tasks <- MCTasks
    Unregistered = {unknown}
    ToolTasks <- MCToolTasks
    InitialPlans <- KeptPlans
    Proposals <- MCProposals
    Policies = {"skip"}
    StepMaxRetries = 1
    MaxReplanAttempts = 1
    KindOf <- MCKindOf
    NativeTool <- MCNativeTool
    Goals <- MCGoals
    Critics = {"rules", "model"}
    LLMLists <- KeptLists
    FallbackLists <- KeptFallback
    MaxCriticReplans = 2
PROPERTY CompletedStepsKept
