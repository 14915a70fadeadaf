SPECIFICATION BothSpec
CONSTANTS
    f1 = f1
    f2 = f2
    f3 = f3
    Absent = Absent
    Files = {f1, f2, f3}
    Sizes = {1, 2, 4}
    MAX_BUFFER_SIZE = 4
    MaxPuts = 5
    Repeated = FALSE
    Values = {1, 2}
    Lengths = {0, 1, 3, 6, 7}
    num_process = 3
    Capacity = 1
    Fresh = TRUE
SYMMETRY Symmetry
INVARIANTS TableTypeOK Readable SortedInput
PROPERTIES ImplementsKeyValue SortTerminates
CHECK_DEADLOCK FALSE
