SPECIFICATION Spec
CONSTANTS
    f1 = f1
    f2 = f2
    w1 = w1
    w2 = w2
    w3 = w3
    NumGroups = 1
    GroupSize = 2
    Suspects = FALSE
    Files = {f1}
    Writes = {w1, w2, w3}
    MaxActive = 2
    MaxDeaths = 0
    UserOf <- MCUserOf
    SizeOf <- MCSizeOf
INVARIANT ReplicasAgree
