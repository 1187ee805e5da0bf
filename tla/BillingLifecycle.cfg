SPECIFICATION Spec
CONSTANTS
    Sellers = {alice}
    Plans = {monthly}
    Subs = {s1, s2}
    Attempts = {a1, a2}
    EventIds = {e1, e2}
    Checkouts = {c1}
    Workers = {w1}
    Sweepers = {p1}
    Owners = {o1}
    TermDays = 1
    GraceDays = 1
    AttemptTtl = 1
    MaxTime = 3
    MaxEvents = 4
SYMMETRY Symmetry
INVARIANTS HistoryIsAChain
PROPERTIES PaidPeriodIsKept AccessGrowsOnlyByPayment
