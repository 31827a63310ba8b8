CONSTANTS
    Nodes = {1, 2, 3}
    Seeds <- MCSeeds
    Friends <- MCFriends
    Relays = {1, 2, 3}
    Publishers = {1}
    Messages = {"x"}
    readiness_threshold = 1
    solver_threads = 1
    Troubled = {1, 2}
    Restarting = {2}
    MaxPublish = 1
    MaxChallenges = 3
    MaxTroubles = 1
    MaxPolls = 10
SPECIFICATION FairSpec
INVARIANTS AtMostOnce NoGhosts
PROPERTIES HandshakeCompletes
CHECK_DEADLOCK FALSE
