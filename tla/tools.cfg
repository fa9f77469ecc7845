SPECIFICATION Spec
CONSTANTS
    t1 = t1
    t2 = t2
    weather = "weather"
    echo = "echo"
    Steps = {t1, t2}
    RequestOf <- MCRequestOf
    Families = {"weather", "echo"}
    MCPFamilies = {"weather"}
    Configs <- MCSomeConfigs
    Texts <- MCTexts
    FallbackTools <- MCFallbackTools
    MaxAttempts = 2
    StepAttempts = 2
SYMMETRY MCSymmetry
INVARIANT CallsFitTheStep
INVARIANT OutcomeIsRecorded
