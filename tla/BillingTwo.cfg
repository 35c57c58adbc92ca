\* One client with one plan: reports, closings, payments, waivers,
\* cancellations, new assignments and crashes over two periods.
SPECIFICATION Spec
CONSTANTS
    s1 = s1
    None = None
    Clients = {x1}
    Strategies = {s1}
    Plans = {p1}
    StrategyOf <- OneStrategy
    Admins = {a1}
    Downloads = {}
    Api = {"assign", "stripeCancel", "pay", "waive"}
    Crashes = TRUE
    Days = {1, 3}
    Periods = {1, 2}
    PeriodOf <- Calendar
    MaxEquity = 1
    Starts = {0}
    Reporters = {q1}
    Closers = {k1}
INVARIANT GainsChargedOnce
