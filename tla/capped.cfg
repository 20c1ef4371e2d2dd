SPECIFICATION Spec
CONSTANTS
    BlockSize = 2
    BlockNos = {1, 2, 4}
    HashSize = 2
    HashRun = 2
    MaxInMemory = 1
    FlatSize = 2
    Setups <- CappedSetups
    Reads = {2}
    Writes <- CappedWrites
    MaxWrites = 3
    MaxReads = 1
    MaxOpens = 1
    MaxExits = 0
INVARIANT ReadsBack
CHECK_DEADLOCK FALSE
