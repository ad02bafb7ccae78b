CONSTANTS
    Targets = {t1, t2}
    Names = {r1}
    Charts = {c1}
    MaxChanges = 3
    MaxFaults = 0
    None = None
SPECIFICATION SharedFairSpec
PROPERTY EventuallyBound
PROPERTY EventuallyCollected
CHECK_DEADLOCK FALSE
