SPECIFICATION FairSpec
CONSTANTS
    m1 = m1
    l1 = l1
    l2 = l2
    r1 = r1
    None = None
    Marines = {m1}
    Loops = {l1, l2}
    Requests = {r1}
    Api = {"create", "delete", "wake", "enable", "disable"}
    Kinds = {"interval", "invalid"}
    ClientStatuses = {"dormant"}
    Scopes <- ImperiumScope
    Persistent = FALSE
PROPERTIES CyclesEnd UnscheduledDrains ImplementsTimers
