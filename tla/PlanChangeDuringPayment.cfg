\* The seller asks for another plan while the first one's payment is applied.
SPECIFICATION Spec
CONSTANTS
    Sellers = {alice}
    Plans = {monthly, yearly}
    Subs = {s1, s2}
    Attempts = {a1}
    EventIds = {e1}
    Checkouts = {c1}
    Workers = {w1}
    Sweepers = {}
    Owners = {}
    TermDays = 1
    GraceDays = 0
    AttemptTtl = 1
    MaxTime = 1
    MaxEvents = 3
PROPERTIES PaidPeriodIsKept
