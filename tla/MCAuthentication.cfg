CONSTANTS
    Sessions = {s1, s2}
    Words = {"ann", "bob", "web", "22", "2222"}
    Targets <- LoginTargets
    KeyFiles = {k}
    Secrets = {a, b}
    NoSecret = NoSecret
    MaxRounds = 2
SYMMETRY Symmetry
CHECK_DEADLOCK FALSE
SPECIFICATION Spec
INVARIANTS SecretsStayHome SavedSecretsWork
