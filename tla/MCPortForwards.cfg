CONSTANTS
    Sessions = {s1}
    Forwards = {f1, f2}
    Ports = {p1, p2}
    MaxQueue = 2
    MaxTunnels = 1
    None = None
    f1 = f1
    p1 = p1
SPECIFICATION MCSpec
INVARIANTS NoOrphanForward ListFollowsForwards PanelShowsList
PROPERTIES CancelReleases EveryAddHasAnOutcome PromiseKept
