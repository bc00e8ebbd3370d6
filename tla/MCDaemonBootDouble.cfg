SPECIFICATION BootSpec
CONSTANTS
    s1 = s1
    s2 = s2
    t1 = t1
    t2 = t2
    t3 = t3
    Sessions = {s1}
    Turns = {t1, t2}
    NoTurn = NoTurn
    Items = {t1}
    Target <- SharedTarget
    MaxAttempts = 1
    MaxCrashes = 1
    BootCrashes = FALSE
    Recreate = FALSE
    Failures = FALSE
    Budgeted = FALSE
INVARIANT OneRunPerTurn
