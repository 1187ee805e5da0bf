SPECIFICATION MCSpec
CONSTANTS
    Keys = {p1, p2, p3, h1, h2, h3}
    Nested = {h1, h2, h3}
    Tabs = {t1, t2}
    Editors = {e1, e2}
    MaxImages = 2
    MinAge = 2
    MaxTime = 3
    MaxFaults = 1
SYMMETRY Symmetry
INVARIANTS TypeOK RowsHaveObjects SlotHasObject OvershootIsBounded ShownIsStored
PROPERTY DeleteKeepsOrder
CHECK_DEADLOCK FALSE
