SPECIFICATION Spec
CONSTANTS
    Component = Component
    Versions = {v1, v2}
    Releases = {r1, r2}
    Cross = {r2}
    Wanted = v1
    MaxEvents = 1
    MaxChanges = 2
    None = None
PROPERTIES ReferencedVersionStays
CHECK_DEADLOCK FALSE
