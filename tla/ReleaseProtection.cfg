SPECIFICATION Spec
CONSTANTS
    Profiles = {p1}
    Manual = {m1}
    Release = Release
    MaxChanges = 2
    None = None
INVARIANTS QuietNothingIsStuck
PROPERTIES SparesSettled
CHECK_DEADLOCK FALSE
