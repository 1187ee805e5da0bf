SPECIFICATION SceneFairSpec
CONSTANTS
    Sellers = {alice}
    Plans = {monthly, yearly}
    Subs = {s1, s2}
    Attempts = {a1, a2}
    EventIds = {e1, e2}
    Checkouts = {c1}
    Workers = {w1, w2}
    Sweepers = {p1}
    Owners = {}
    TermDays = 1
    GraceDays = 0
    AttemptTtl = 1
    MaxTime = 2
    MaxEvents = 3
PROPERTIES OverdueIsSwept EventsAreRecorded
