\* Liveness: one engine, one kill, two overlapping handlers, one crash.
SPECIFICATION FairSpec
CONSTANTS
    m1 = m1
    m2 = m2
    c1 = c1
    c2 = c2
    f1 = f1
    f2 = f2
    e1 = e1
    e2 = e2
    Marines = {m1}
    Companies = {c1}
    Fortresses = {f1}
    Engines = {e1}
    CompanyOf <- OneCompany
    FortressOf <- OneFortress
    EngineOf <- OneEngine
    Commands = {k1}
    Requests = {r1, r2}
    None = None
    Api = {"kill"}
    KillScopes <- Imperium
    MaxCrashes = 1
PROPERTIES CommandsSettle KillConverges
