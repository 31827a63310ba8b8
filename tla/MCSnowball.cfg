SPECIFICATION FairSpec
CONSTANTS
    Q = 7
    Digest <- MCDigest
    MAX_UTXOS = 1
    MaxColumns = 3
    Participants = {1, 2, 3}
    MinParticipants = 2
    MIN_PARTICIPANTS = 3
    MAX_PARTICIPANTS = 4
    MSG_FLOOD_LIMIT = 5
    Txouts <- MCTxouts
    Fee <- MCFee
    Faulty = {3}
    Cheats = {"sig"}
    Collisions = {{}, {1, 2}}
    MaxPools = 1
    MaxFacilitators = 2
    MaxTroubles = 1
INVARIANTS
    NonceIsFresh
    SuccessIsUnanimous
PROPERTY EveryoneFinishes
CHECK_DEADLOCK FALSE
