CONSTANTS
    Inputs = {i1, i2}
    MaxVersion = 1
    MaxChanges = 2
    MaxFaults = 1
    None = None
    Failed = Failed
SPECIFICATION BootstrapFairSpec
PROPERTY VersionNeverDecreases
PROPERTY EventuallyRendersDesired
PROPERTY EventuallyOnlyCurrent
CHECK_DEADLOCK FALSE
