SPECIFICATION FairSpec
CONSTANTS
    r1 = r1
    r2 = r2
    weather = weather
    map = map
    summary = summary
    unknown = unknown
    NoRun = NoRun
    Runs = {r1, r2}
    Tasks <- MCTasks
    Unregistered = {unknown}
    ToolTasks <- MCToolTasks
    InitialPlans <- MCPlans
    Proposals <- MCProposals
    Policies = {"retry", "skip", "replan"}
    StepMaxRetries = 1
    MaxReplanAttempts = 2
INVARIANT DependenciesRespected
INVARIANT NoPlanDeadlock
INVARIANT ProcessBudgets
INVARIANT GraphFollowsCall
PROPERTY FinishedWorkKept
PROPERTY CallsEnd
