SPECIFICATION Spec
CONSTANTS
    a = a
    b = b
    c = c
    Ids = {a, b}
    StartLimit = 1
    MaxStops = 1
    MaxIoErrors = 0
    MaxShortWrites = 1
INVARIANTS AcceptedIsOnDisk
