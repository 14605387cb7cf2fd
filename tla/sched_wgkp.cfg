\* WGKP mode under preemption and aborts, with requests without end.
CONSTANTS
    a1 = a1
    a2 = a2
    s1 = s1
    s2 = s2
    s3 = s3
    s4 = s4
    Seqs = {s1, s2, s3}
    Adapters = {a1, a2}
    AdapterOf <- PairAdapterOf
    W = 2
    TSLO = 2
    Deadlines = {1}
    NStars = {2}
    Mergeable = {}
    MaxBudget = 0
    Methods = {"form_batch_wgkp"}
    MaxTokens = 2
    MaxPreempts = 1
    MaxDrift = 0
    Aborts = TRUE
    AsyncOutput = FALSE
    CleanupEvery = 1
    Modes = {"wgkp"}
    LogWars = {FALSE}
SPECIFICATION FairSpec
INVARIANTS AlignedNotQueued
PROPERTIES ServedUnlessStranded
