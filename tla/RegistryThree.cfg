\* Three overlapping handlers, a download and crashes.
SPECIFICATION RegistrySpec
CONSTANTS
    s1 = s1
    s2 = s2
    None = None
    Clients = {x1}
    Strategies = {s1, s2}
    Plans = {p1}
    StrategyOf <- FirstStrategy
    Admins = {a1, a2, a3}
    Downloads = {d1}
    Api = {"grant", "revoke", "suspend", "resume", "assign", "stripeCancel"}
    Crashes = TRUE
INVARIANT RegistryTypeOK
INVARIANT PaidForIsDelivered
PROPERTIES SuspendStopsDelivery CancelledUntilAssigned
