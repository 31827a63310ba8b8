SPECIFICATION FairSpec
CONSTANTS
    Nodes = {1, 2}
    Validators = {1}
    Fed = {1}
    micro_blocks_in_epoch = 2
    MAX_BLOCKS_PER_BATCH = 2
    BUFFER_SIZE = 2
    Ids = {1, 2, 3, 4}
    MaxEpoch = 2
    MaxForks = 1
    MaxTroubles = 2
INVARIANTS
    NeverPanics
    StreamHasNoGaps
PROPERTY CatchesUp
CHECK_DEADLOCK FALSE
