SPECIFICATION Spec
CONSTANTS
    NumGroups = 2
    GroupSize = 2
    Suspects = FALSE
    Files = {f1, f2}
    WriteTypes = {"PUT"}
    NoFile = NoFile
    NotStored = NotStored
    LogsExist = TRUE
    MaxWrites = 2
    MaxDeaths = 1
    MaxOff = 1
INVARIANT AllCaughtUp
