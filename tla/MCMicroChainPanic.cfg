SPECIFICATION Spec
CONSTANTS
    a = a
    c = c
    d = d
    Validators = {a, c, d}
    Faulty = {d}
    Slots <- MCSlots
    MicroBlocks = 2
    Winner <- MCRoundRobin
    MaxView = 1
    MaxVariants = 2
    FaultyVariants = 1
    Accuses <- MCAccusesNobody
    Forgetful = {c}
    MaxForgets = 0
INVARIANTS
    LeaderNeverPanics
CHECK_DEADLOCK FALSE
