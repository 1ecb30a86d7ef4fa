CONSTANTS
    Sessions = {s1, s2}
    MaxWindow = 2
    MaxZoom = 1
    MaxChunks = 3
    None = None
SYMMETRY SessionSymmetry
SPECIFICATION Spec
INVARIANTS SizesFollow OutputHasNoGap
