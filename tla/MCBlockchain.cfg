SPECIFICATION Spec
CONSTANTS
    s0 = s0
    s1 = s1
    s2 = s2
    t1 = t1
    t2 = t2
    s3 = s3
    p = p
    Utxos = {s0, s1, s2, s3, t1, t2, p}
    GenesisOutputs = {s0, s1, t1}
    Stake <- MCStake
    Account <- MCAccount
    Transactions <- MCTransactions
    generate_u64 <- MCDraw
    Lucky <- MCLucky
    shrink_hash <- MCShrink
    Validators = {1, 2}
    Accounts = {1, 2}
    SlotCount = 2
    ServiceAward = 1
    Active = Active
    Failed = Failed
    NoState = NoState
    NoWinner = NoWinner
    NoValidator = NoValidator
    NoValue = NoValue
    Down = Down
    GenesisRandom = 0
    Randoms = {0, 1}
    MicroBlocksInEpoch = 2
    StakeEpochs = 1
    MinStake = 1
    BlockReward = 1
    MaxEpoch = 3
    MaxViewChange = 1
INVARIANTS TypeOK RecoveryIsExact HistoryIsExact BlocksCanBeRead
    MacroReplacesMicros ViewChangeHasProof ValidatorsAreStaked ActivityOfLeaders
