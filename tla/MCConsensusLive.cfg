SPECIFICATION FairSpec
CONSTANTS
    a = a
    c = c
    d = d
    w = w
    x = x
    y = y
    z = z
    Validators = {a, c, d}
    Faulty = {d}
    Slots <- MCSlots
    Order <- MCOrder
    MaxRound = 2
    Leader <- MCLeaderLive
    Blocks = {w, x, y}
    Origin <- MCOriginLive
    Valid = {x, y}
    NoBlock = NoBlock
    MaxRestarts = 0
PROPERTIES CommitIsApplied RoundEnds
CHECK_DEADLOCK FALSE
