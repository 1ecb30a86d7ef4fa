CONSTANTS
    Targets = {a, b}
    Keys = {k}
    Boxes = {"password", "key"}
    Blank = Blank
    MaxCalls = 2
SPECIFICATION Spec
INVARIANTS HintIsTrue RequestIsChecked
