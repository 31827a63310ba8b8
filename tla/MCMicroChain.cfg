SPECIFICATION Spec
CONSTANTS
    a = a
    c = c
    d = d
    Validators = {a, c, d}
    Faulty = {d}
    Slots <- MCSlots
    MicroBlocks = 2
    Winner <- MCFollowed
    MaxView = 1
    MaxVariants = 2
    FaultyVariants = 1
    Accuses <- MCAccuses
    Forgetful = {a}
    MaxForgets = 1
INVARIANTS
    CreatedBlockIsValid
    OnlyCheatersAreSlashed
PROPERTIES
    ForkChoiceGrows
CHECK_DEADLOCK FALSE
