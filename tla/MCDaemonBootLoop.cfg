SPECIFICATION FairSpec
CONSTANTS
    s1 = s1
    s2 = s2
    t1 = t1
    t2 = t2
    t3 = t3
    Sessions = {s1, s2}
    Turns = {t1, t3}
    NoTurn = NoTurn
    Items = {t3}
    Target <- SharedTarget
    MaxAttempts = 1
    MaxCrashes = 2
    BootCrashes = TRUE
    Recreate = TRUE
    Failures = FALSE
    Budgeted = TRUE
INVARIANT JournalIsTheLiveSessions
INVARIANT ContinuationsAreBounded
PROPERTY InterruptedTurnsAreSettled
