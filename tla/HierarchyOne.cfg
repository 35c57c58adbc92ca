\* A handler of several calls among clients that create, move and delete;
\* one id names a fortress, a company and a marine.
SPECIFICATION Spec
CONSTANTS
    shared = shared
    f1 = f1
    c1 = c1
    m1 = m1
    e1 = e1
    x1 = x1
    Imperium = Imperium
    Absent = Absent
    None = None
    Fortresses = {shared, f1}
    Companies = {shared, c1}
    Marines = {shared, m1}
    Engines = {e1}
    Requests = {x1}
INVARIANT HierarchyTypeOK
INVARIANTS KillCoversScope OwnersAreTold RegistrationLands
PROPERTY OnlyUpdatesStrand
