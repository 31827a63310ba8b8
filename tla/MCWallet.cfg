SPECIFICATION Spec
CONSTANTS
    Me = me
    Other = other
    Genesis <- MCGenesis
    Incoming <- MCIncoming
    MicroBlocks = 1
    StakeEpochs = 1
    min_payment_fee = 1
    max_inputs_in_tx = 2
    max_inputs_in_mempool = 3
    max_inputs_in_block = 3
    Buffer = 4
    MaxEpoch = 2
    Amounts = {2}
    MAX_UTXOS = 2
    MaxTxs = 2
    MaxTroubles = 1
    MayBeSlashed = TRUE
INVARIANTS
    MempoolFitsChain
    FollowsChain
    HistoryIsTrue
    AccountIsConsistent
CHECK_DEADLOCK FALSE
