SPECIFICATION Spec
CONSTANTS
    a = a
    c = c
    d = d
    w = w
    x = x
    y = y
    z = z
    Validators = {a, c, d}
    Faulty = {d}
    Slots <- MCSlots
    Order <- MCOrder
    MaxRound = 2
    Leader <- MCLeader
    Blocks = {w, x, z}
    Origin <- MCOrigin
    Valid = {x, z}
    NoBlock = NoBlock
    MaxRestarts = 1
INVARIANTS
    TypeOK
    AssertionsHold
    RoundAgreement
    AgreementUnlessForgotten
    SealedIsSound
    VotesOnce
CHECK_DEADLOCK FALSE
