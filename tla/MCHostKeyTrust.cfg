SPECIFICATION Spec
CONSTANTS
    Sessions = {s1, s2}
    Hosts = {h1, h2}
    Keys = {k1, k2, k3}
    NoKey = NoKey
SYMMETRY Interchangeable
INVARIANTS
    OnlyConsented
    AcceptedByConsent
    StoreIsCurrent
