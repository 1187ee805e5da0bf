\* A success and a failure of the same attempt delivered to two workers at once.
SPECIFICATION Spec
CONSTANTS
    Sellers = {alice}
    Plans = {monthly}
    Subs = {s1}
    Attempts = {a1}
    EventIds = {e1, e2}
    Checkouts = {c1}
    Workers = {w1, w2}
    Sweepers = {}
    Owners = {}
    TermDays = 1
    GraceDays = 0
    AttemptTtl = 1
    MaxTime = 1
    MaxEvents = 3
PROPERTIES SuccessIsFinal
