SPECIFICATION SoundSpec
CONSTANTS
    a = a
    b = b
    c = c
    Ids = {a, b, c}
    StartLimit = 2
    MaxStops = 2
    MaxIoErrors = 0
    MaxShortWrites = 0
SYMMETRY Symmetry
INVARIANTS TypeOK RunsAtMostOnce AcceptedIsOnDisk MemoryIsReplay ThrottleIsExact
PROPERTIES ImplementsOnceQueue StartsInAcceptanceOrder ReceiptsAreStable
