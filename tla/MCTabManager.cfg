CONSTANTS
    MaxTabs = 3
    Sessions = {s1, s2}
    MaxMade = 4
    MaxAsked = 2
    None = None
SYMMETRY SessionSymmetry
SPECIFICATION Spec
INVARIANTS BarShowsTabs RoutesAgree WaitsForSomething ActiveIsOpen
