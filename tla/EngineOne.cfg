\* One engine with one marine, another with none, two kills, two overlapping handlers, one crash.
SPECIFICATION Spec
CONSTANTS
    m1 = m1
    m2 = m2
    c1 = c1
    c2 = c2
    f1 = f1
    f2 = f2
    e1 = e1
    e2 = e2
    Marines = {m1}
    Companies = {c1}
    Fortresses = {f1, f2}
    Engines = {e1, e2}
    CompanyOf <- OneCompany
    FortressOf <- OneFortress
    EngineOf <- TwoEngines
    Commands = {k1, k2}
    Requests = {r1, r2}
    None = None
    Api = {"kill", "enable", "disable", "start"}
    KillScopes = {c1, f2}
    MaxCrashes = 1
SYMMETRY Symmetry
INVARIANTS TypeOK DeliveredIsAcked EnginesHearTheirOwn CleanHaltStaysOff
