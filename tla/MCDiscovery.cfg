CONSTANTS
    Bits = 3
    Peers = {4, 5, 6}
    MAX_NODES_PER_BUCKET = 2
    parallelism = 1
    num_results = 2
    MyIds <- MCMyIds
    Messages = {"a", "b"}
    To <- MCTo
    MyMessages = {"a"}
    Knows <- MCKnows
    Hidden = {6}
    Friends = {4}
    DELIVERY_REPLICATION = 2
    MIN_CLOSEST_PEERS = 1
    Targets = {7}
    Heard = {6}
    MaxQueries = 2
    MaxCopies = 2
    MaxTroubles = 1
SPECIFICATION FairSpec
INVARIANTS SearchIsSound UnicastOnce
PROPERTY NothingIsStuck
CHECK_DEADLOCK FALSE
