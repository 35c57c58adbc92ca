SPECIFICATION Spec
CONSTANTS
    m1 = m1
    l1 = l1
    r1 = r1
    None = None
    Marines = {m1}
    Loops = {l1}
    Requests = {r1}
    Api = {"kill"}
    Kinds = {"interval"}
    ClientStatuses = {"dormant"}
    Scopes <- ImperiumScope
    Persistent = TRUE
PROPERTIES NoCycleAfterKill
