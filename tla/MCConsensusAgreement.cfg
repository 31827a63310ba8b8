SPECIFICATION Spec
CONSTANTS
    a = a
    c = c
    d = d
    w = w
    x = x
    y = y
    z = z
    Validators = {a, c, d}
    Faulty = {d}
    Slots <- MCSlots
    Order <- MCOrder
    MaxRound = 2
    Leader <- MCLeader
    Blocks = {x, y, z}
    Origin <- MCOriginWithY
    Valid = {x, y, z}
    NoBlock = NoBlock
    MaxRestarts = 0
INVARIANT Agreement
CHECK_DEADLOCK FALSE
