SPECIFICATION FairSpec
CONSTANTS
    r1 = r1
    v1 = v1
    v2 = v2
    Repos = {r1, r2}
    Versions = {v1, v2}
    ComponentVersionName <- MCName
    Deployable = {2, 3}
    Cap <- MCCap
    Initial <- MCInitial
    Announced <- MCAnnounced
    MaxInFlight = 2
    MaxBacklog = 1
    MaxChanges = 1
    None = None
INVARIANT TypeOK
PROPERTIES DeliversInOrder SpecNeverRegresses QuietAfterStop StopReturns EventuallyDiscovered
