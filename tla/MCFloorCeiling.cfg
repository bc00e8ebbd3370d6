SPECIFICATION FloorSpec
CONSTANTS
    o1 = o1  chair = chair  h1 = h1
    Officers = {o1, chair}
    Humans = {h1}
    ChairAgent = chair
    NoHolder = NoHolder
    Roster <- MCRoster
    ChairSeat = "human"
    ChairMode = "auto"
    MaxRounds = 1
    PrepareBudget = 4
    SpeakGrace = 0
    SpeakBudget = 4
    AudioStartGrace = 1
    ReadingTime = 1
    MaxTurnTime = 6
    MaxDuration = 40
    PresenceTimeout = 3
    SynthesisTime = 0
    RaiseQueueMax = 8
    MaxLate = 1
    MaxActs = 0
INVARIANT CeilingSparesTheHealthy
CHECK_DEADLOCK FALSE
