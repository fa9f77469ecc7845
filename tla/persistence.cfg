SPECIFICATION Spec
CONSTANTS
    s1 = s1
    MaxExecutions = 2
    Sessions = {s1}
    QueueSize = 4
    MaxNodes = 2
    MaxRestarts = 1
INVARIANT JoinedIsRecorded
INVARIANT HistoryIsFinished
INVARIANT StoredLineagesComplete
PROPERTY StopReturns
CHECK_DEADLOCK FALSE
