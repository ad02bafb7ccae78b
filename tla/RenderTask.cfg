SPECIFICATION FairSpec
CONSTANTS
    None = None
    Tasks = {n1}
    Configs = {c1}
    Tags = {c1}
    TagOf <- MCTagOf
    BackoffLimit = 1
    MaxUid = 2
    MaxFaults = 1
    MaxOrphans = 1
INVARIANTS
    OwnSuccessIsPushed
    CleanupSparesUnfinished
PROPERTIES
    ConditionsAreKept
    EventuallySucceeds
CHECK_DEADLOCK FALSE
