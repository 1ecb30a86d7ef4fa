SPECIFICATION FairSpec
CONSTANTS
    s1 = s1
    Sessions = {s1}
    Ops = {"disconnect"}
    MayQuit = FALSE
    MaxQueue = 1
    MaxKeys = 0
    MaxRounds = 1
PROPERTIES
    KbdPromptEnds
