\* A preempted sequence whose held token is dispatched while it is away.
CONSTANTS
    a1 = a1
    a2 = a2
    s1 = s1
    s2 = s2
    s3 = s3
    s4 = s4
    Seqs = {s1, s2, s3}
    Adapters = {a1, a2}
    AdapterOf <- MCAdapterOf
    W = 2
    TSLO = 2
    Deadlines = {1}
    NStars = {2}
    Mergeable = {}
    MaxBudget = 0
    Methods = {"form_batch"}
    MaxTokens = 2
    MaxPreempts = 1
    MaxDrift = 0
    Aborts = FALSE
    AsyncOutput = TRUE
    CleanupEvery = 1
    Modes = {"threshold"}
    LogWars = {FALSE}
SPECIFICATION SchedulerSpec
INVARIANTS NoSequenceLost
