SPECIFICATION DeskSpec
CONSTANTS
    Wordings = {d1, d2}
    MaxQueue = 2
    MaxDeskFaults = 0
INVARIANT SavedMeansStored
CHECK_DEADLOCK FALSE
