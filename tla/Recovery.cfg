SPECIFICATION FairSpec
CONSTANTS
    NumGroups = 1
    GroupSize = 2
    Suspects = FALSE
    Files = {f1}
    WriteTypes = {"PUT", "DELETE"}
    NoFile = NoFile
    NotStored = NotStored
    LogsExist = TRUE
    MaxWrites = 2
    MaxDeaths = 1
    MaxOff = 1
INVARIANTS CaughtUp RecoveredReadable
PROPERTY NobodyWaits
