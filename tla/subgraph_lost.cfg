SPECIFICATION Spec
CONSTANTS
    t1 = t1
    t2 = t2
    t3 = t3
    t4 = t4
    n1 = n1
    n2 = n2
    n3 = n3
    Tasks <- MCTasks
    Unregistered = {}
    InitialPlans <- MCAllPlans
    Proposals <- MCProposals
    Policies = {"retry"}
    MaxReplanAttempts = 1
INVARIANT CompletedStepsRecorded
