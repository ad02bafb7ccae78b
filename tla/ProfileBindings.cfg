SPECIFICATION FairSpec
CONSTANTS
    Profiles = {p1}
    Suffixes = {1, 2}
    Targets = {t1, t2}
    Cross = {t2}
    Grant = Grant
    MaxBindings = 2
    MaxChanges = 2
    None = None
INVARIANTS QuietProfilesMatch
PROPERTIES DeletionCompletes ComesToRest
CHECK_DEADLOCK FALSE
