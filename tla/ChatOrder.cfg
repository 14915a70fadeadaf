SPECIFICATION ChatSpec
CONSTANTS
    hi = hi
    yo = yo
    NumServers = 3
    NUM_OF_ROOMS = 1
    Texts = {hi, yo}
    MaxPosts = 2
    Repeats = FALSE
    Crashes = TRUE
    CausalPosts = 4
    InOrder = FALSE
SYMMETRY Symmetry
INVARIANTS TypesOK TotalOrder AgreedOrder Settled ConsistentCut
CHECK_DEADLOCK FALSE
