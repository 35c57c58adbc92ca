\* Payouts, goals and plans, each among concurrent clients, in both stores.
SPECIFICATION CouncilSpec
CONSTANTS
    a1 = a1
    p1 = p1
    p2 = p2
    b1 = b1
    b2 = b2
    g1 = g1
    g2 = g2
    c1 = c1
    c2 = c2
    x1 = x1
    x2 = x2
    ph1 = ph1
    ph2 = ph2
    m1 = m1
    w1 = w1
    w2 = w2
    rent = rent
    food = food
    fun = fun
    l1 = l1
    l2 = l2
    l3 = l3
    Apis <- OnePart
    Accounts = {a1}
    PayoutIds = {p1, p2}
    Booking = {b1, b2}
    Totals = {0, 5}
    MaxBooked = 2
    NoAmount = NoAmount
    GoalIds = {g1, g2}
    GiftIds = {c1, c2}
    Editors = {x1}
    Targets = {1, 2}
    Statuses = {"active"}
    MaxGifts = 1
    Phases = {ph1, ph2}
    Milestones = {m1}
    FirstPhase = ph1
    OtherPhase = OtherPhase
    Categories = {rent, food, fun}
    Lists <- SomeLists
    Writers = {w1, w2}
    NoList = NoList
INVARIANTS CouncilTypeOK PayoutsAddUp BookedOnce ContributionsAddUp ContributionOnce
INVARIANTS RoadmapCoherent MilestonesKept AllocationsHold
