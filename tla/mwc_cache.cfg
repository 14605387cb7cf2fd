\* Four adapters, a cache of at most two, loads that may fail.
CONSTANTS
    Adapters = {1, 2, 3, 4}
    KHotMax = 2
    MayFail = TRUE
SPECIFICATION FairSpec
INVARIANTS TypeOK WithinCapacity InOnePlace NoneStranded AtMostOneStaleFlag
PROPERTIES MergedOnceQuiet
