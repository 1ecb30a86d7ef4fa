SPECIFICATION FairSpec
CONSTANTS
    s1 = s1
    Sessions = {s1}
    Ops = {"write", "resize", "disconnect"}
    MayQuit = TRUE
    MaxQueue = 3
    MaxKeys = 3
    MaxRounds = 2
INVARIANTS
    KeysInOrder
PROPERTIES
    HostKeyPromptEnds
    EndIsTold
    DisconnectEnds
