SPECIFICATION Spec
CONSTANTS
    Sessions = {s1, s2}
    Hosts = {h1}
    Keys = {k1, k2}
    NoKey = NoKey
PROPERTY
    NoSilentChange
