CONSTANTS
    Patterns = {"*"}
    DefaultPort = 22
    Unset = Unset
    Texts <- AllTexts
    Forms = {f1, f2}
    Targets = {t1, t2, t3}
    Inputs <- SomeInputs
    Configs <- SomeConfigs
    Folded <- FoldedNames
    LocalUser = "me"
    MaxRecents = 2
    MaxMade = 2
    MaxUses = 3
    MaxCalls = 2
SYMMETRY TargetSymmetry
SPECIFICATION Spec
INVARIANTS TypeOK FileFollows RecentsAreLatest FormsShowProfiles ParsesAsWritten
PROPERTY ImportAddsEachOnce
