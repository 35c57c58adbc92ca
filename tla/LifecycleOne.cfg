SPECIFICATION Spec
CONSTANTS
    m1 = m1
    l1 = l1
    l2 = l2
    r1 = r1
    r2 = r2
    None = None
    Marines = {m1}
    Loops = {l1, l2}
    Requests = {r1, r2}
    Api = {"create", "update", "delete", "wake", "sleep", "enable", "disable", "kill", "register", "beat"}
    Kinds = {"interval"}
    ClientStatuses = {"dormant", "disabled"}
    Scopes <- ImperiumScope
    Persistent = TRUE
VIEW Seen
SYMMETRY Symmetry
INVARIANTS OneTimerPerMarine TypeOK SureHaltHolds BootRespectsHalt
PROPERTY WakingOnlyWhileBusy
