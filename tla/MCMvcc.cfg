SPECIFICATION Spec
CONSTANTS
    a = a
    b = b
    x = x
    y = y
    Keys <- MCKeys
    Values <- MCValues
    NoValue = NoValue
    NoLsn = NoLsn
    MaxLsn = 2
    MaxUndo = 4
INVARIANTS TypeOK UndoAsserts DiskIsCheckpoint
PROPERTIES LoopRollsBack KeepsVersions
