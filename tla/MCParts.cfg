SPECIFICATION PartsFairSpec
CONSTANTS
    s1 = s1  c1 = c1  c2 = c2  x = x  i1 = i1  i2 = i2  u1 = u1  u2 = u2 note = note
    g1 = g1  g2 = g2  v1 = v1  v2 = v2  chat = chat  ls = ls  sh = sh
    Sessions = {s1}
    Calls = {c1, c2}
    Items = {}
    MessageIds = {x}
    NoId = NoId
    NoSession = NoSession
    ChannelOf <- MCChannelOf
    CapOf <- MCCapOf
    NeverEvict = {"telegram"}
    MaxSessions = 2
    QueueMax = 1
    SeenMax = 2
    StartLimit = 1
    SlashLines = TRUE
    Unverified = FALSE
    MaxEntries = 2
    Ids = {i1, i2}
    MaxStops = 1
    MaxIoErrors = 1
    MaxShortWrites = 0
    Keys = {u1, u2, note}
    Urgent = {u1, u2}
    Reports = {note}
    MaxHeld = 1
    MaxEvents = 2
    MaxOwners = 1
    MaxDiskErrors = 1
    MaxCrashes = 1
    Subgoals = {g1, g2}
    NoSubgoal = NoSubgoal
    MaxTurns = 3
    MaxDissent = 2
    MaxDeaths = 1
    Vessels = {v1, v2}
    MaxTasks = 2
    RetryMax = 1
    MaxCopies = 2
    MaxTroubles = 1
    MaxRequests = 2
    Chats = {chat}
    Commands = {ls, sh}
    Allowable = {ls}
    MaxEnds = 1
    MaxPresses = 2
INVARIANTS PartsTypeOK NothingIsDoneTwice NothingIsLost NothingSlipsThrough TrailsAgree
PROPERTIES AbortTakesNoTurn EveryoneSettles
CHECK_DEADLOCK FALSE
