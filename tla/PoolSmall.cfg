\* Two concurrent requests against pools of one to five connections.
SPECIFICATION FairSpec
CONSTANTS
    r1 = r1
    r2 = r2
    Requests = {r1, r2}
    Handlers = {"status", "fortresses", "fortress", "companies", "company", "goals", "advice", "payout", "tx"}
    MaxRows = 2
    MaxConns = 5
INVARIANT PoolTypeOK
INVARIANT NeverStuckWhenSized
PROPERTY RequestsAnswered
CHECK_DEADLOCK FALSE
