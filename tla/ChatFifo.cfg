SPECIFICATION Spec
CONSTANTS
    c1 = c1
    c2 = c2
    NumServers = 2
    Clients <- MCClients
    ServerOf <- MCServerOf
    NUM_OF_ROOMS = 1
    MaxPosts = 2
    Loses = TRUE
    Duplicates = TRUE
INVARIANTS TypeOK FifoOrder ClientFifo NothingStuck
PROPERTY ImplementsMulticast
