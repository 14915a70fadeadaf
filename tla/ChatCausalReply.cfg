SPECIFICATION CausalSpec
CONSTANTS
    NumServers = 3
    NUM_OF_ROOMS = 1
    CausalPosts = 3
    InOrder = TRUE
INVARIANT CausalOrder
CHECK_DEADLOCK FALSE
