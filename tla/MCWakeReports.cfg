SPECIFICATION Spec
CONSTANTS
    Keys = {"feed", "note"}
    Urgent = {"feed"}
    Reports = {"feed"}
    MaxHeld = 1
    MaxEvents = 2
    MaxOwners = 0
    MaxDiskErrors = 0
    MaxCrashes = 1
INVARIANT UrgentIsNeverDropped
CHECK_DEADLOCK FALSE
