\* Two sweeps in flight over one subscription, no grace window.
SPECIFICATION Spec
CONSTANTS
    Sellers = {alice}
    Plans = {monthly}
    Subs = {s1}
    Attempts = {a1}
    EventIds = {e1}
    Checkouts = {c1}
    Workers = {w1}
    Sweepers = {p1, p2}
    Owners = {}
    TermDays = 1
    GraceDays = 0
    AttemptTtl = 1
    MaxTime = 2
    MaxEvents = 4
PROPERTIES TerminalIsFinal
