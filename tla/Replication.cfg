SPECIFICATION Spec
CONSTANTS
    f1 = f1
    f2 = f2
    w1 = w1
    w2 = w2
    w3 = w3
    NumGroups = 2
    GroupSize = 2
    Suspects = FALSE
    Files = {f1, f2}
    Writes = {w1, w2}
    MaxActive = 2
    MaxDeaths = 1
    UserOf <- MCUserOf
    SizeOf <- MCSizeOf
SYMMETRY Symmetry
INVARIANTS TypeOK AckedInLogs LoggedOnce AckedReadable MetadataMatches
