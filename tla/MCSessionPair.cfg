SPECIFICATION Spec
CONSTANTS
    s1 = s1
    s2 = s2
    Sessions = {s1, s2}
    Ops = {"disconnect"}
    MayQuit = FALSE
    MaxQueue = 1
    MaxKeys = 0
    MaxRounds = 2
SYMMETRY Interchangeable
INVARIANTS
    TypeOK
    AnswersMatchPrompt
    PromptsAreAwaited
    EveryPromptHasADialog
    SavedByConsent
    LiveIsReachable
PROPERTIES
    ContractKept
