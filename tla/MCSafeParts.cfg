SPECIFICATION PartsSpec
CONSTANTS
    d1 = d1  d2 = d2  d3 = d3  d4 = d4
    Daemons = {d1, d2, d3, d4}
    Ghost = Ghost
    NoLock = NoLock
    Attempts = 3
    s1 = s1  s2 = s2  t1 = t1  t2 = t2
    Sessions = {s1, s2}
    Turns = {t1, t2}
    NoTurn = NoTurn
    Items = {}
    Target <- MCTarget
    BootCrashes = FALSE
    Recreate = FALSE
    Failures = TRUE
    Budgeted = FALSE
    MaxAttempts = 1
    MaxCrashes = 2
    o1 = o1  o2 = o2  chair = chair  h1 = h1  h2 = h2
    NoHolder = NoHolder
    ChairAgent = chair
    Roster <- MCRoster
    ChairSeat = "human"
    ChairMode = "auto"
    Officers = {o1, o2, chair}
    Humans = {h1, h2}
    MaxRounds = 2
    PrepareBudget = 1
    SpeakGrace = 0
    SpeakBudget = 1
    AudioStartGrace = 1
    ReadingTime = 1
    MaxTurnTime = 1
    MaxDuration = 5
    PresenceTimeout = 1
    SynthesisTime = 1
    RaiseQueueMax = 1
    MaxLate = 1
    MaxActs = 2
SYMMETRY Symmetry
INVARIANTS TypeOK OneWriter WriterHasALock SomeoneHasTheQueue
INVARIANTS FloorTypeOK EveryCutWriteIsWarned RunningTurnsAreOnDisk TheFloorIsHeld
PROPERTIES CheckpointsSurvive RoundsAreFair
