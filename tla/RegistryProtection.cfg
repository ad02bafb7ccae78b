SPECIFICATION FairSpec
CONSTANTS
    Targets = {t1, t2}
    Cross = {t2}
    Bindings = {b1}
    Registry = Registry
    Grant = Grant
    MaxChanges = 3
    None = None
INVARIANTS TypeOK QuietTargetsAreRight
PROPERTIES SparesSettled DeletionCompletes ComesToRest
CHECK_DEADLOCK FALSE
