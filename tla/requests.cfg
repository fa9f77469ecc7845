SPECIFICATION Spec
CONSTANTS
    s1 = s1
    Sessions = {s1}
    Executions <- MCExecutions
    Modes <- MCModes
    NodeIds = {"memory_load", "execution", "memory_persist", "critic", "finalize"}
    MetricsQueue = 2
    MaxLosses = 1
    MaxMessages = 2
    LoadLimit = 2
    Pythons = {"3.11"}
    MaxReplans = 1
    MaxBreaks = 1
INVARIANT DrainedProfileIsExact
INVARIANT ProfilesNeverOverstate
INVARIANT OutcomeAsRead
INVARIANT EpisodeKeysDistinct
PROPERTY RequestsSettle
CHECK_DEADLOCK FALSE
