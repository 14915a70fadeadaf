SPECIFICATION PollSpec
CONSTANTS
    NumServers = 2
    Fds = {1, 2}
    NumGroups = 1
    GroupSize = 3
    Suspects = TRUE
INVARIANT BalancerTypeOK
PROPERTIES RoundRobin RedirectedIfKnown OnlyFailedDemoted SeenPrimaryReplaced
