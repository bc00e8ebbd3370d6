SPECIFICATION Spec
CONSTANTS
    s1 = s1  s2 = s2  t1 = t1
    c1 = c1  c2 = c2  c3 = c3  c4 = c4  x = x
    Sessions = {s1}
    Calls = {c1, c2, c3, c4}
    Items = {}
    MessageIds = {x}
    NoId = NoId
    NoSession = NoSession
    ChannelOf <- MCChannelOf
    CapOf <- MCCapOf
    NeverEvict = {"telegram"}
    MaxSessions = 2
    QueueMax = 2
    SeenMax = 3
    StartLimit = 1
    SlashLines = FALSE
    Unverified = FALSE
    MaxEntries = 2
SYMMETRY Symmetry
INVARIANTS TypeOK SessionsAreHandedOver EndedSessionsStop
PROPERTY LongestWaiterFirst
CHECK_DEADLOCK FALSE
