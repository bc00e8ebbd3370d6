SPECIFICATION Spec
CONSTANTS
    s1 = s1  s2 = s2  t1 = t1
    c1 = c1  c2 = c2  c3 = c3  c4 = c4  x = x
    Sessions = {s1, s2, t1}
    Calls = {c1, c2}
    Items = {c1}
    MessageIds = {}
    NoId = NoId
    NoSession = NoSession
    ChannelOf <- MCChannelOf
    CapOf <- MCCapOf
    NeverEvict = {"telegram"}
    MaxSessions = 2
    QueueMax = 1
    SeenMax = 1
    StartLimit = 1
    SlashLines = TRUE
    Unverified = TRUE
    MaxEntries = 3
SYMMETRY RoomSymmetry
PROPERTIES RoomIsMadeOfIdleSessions EveryReleaseDrains
CHECK_DEADLOCK FALSE
