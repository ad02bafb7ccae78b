CONSTANTS
    Targets = {t1}
    Names = {r1}
    Charts = {c1, c2}
    MaxChanges = 2
    MaxFaults = 1
    None = None
SPECIFICATION FairSpec
INVARIANT NoDanglingBindings
INVARIANT FreshArtifactsAreKept
PROPERTY EventuallyBound
PROPERTY EventuallyCollected
CHECK_DEADLOCK FALSE
