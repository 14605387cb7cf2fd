\* Every mode but wgkp while nothing is preempted or aborted.
CONSTANTS
    a1 = a1
    a2 = a2
    s1 = s1
    s2 = s2
    s3 = s3
    s4 = s4
    Seqs = {s1, s2, s3, s4}
    Adapters = {a1, a2}
    AdapterOf <- SkewAdapterOf
    W = 2
    TSLO = 2
    Deadlines = {1}
    NStars = {2}
    Mergeable = {}
    MaxBudget = 0
    Methods = {"form_batch", "form_batch_cash", "form_batch_erlang"}
    MaxTokens = 2
    MaxPreempts = 0
    MaxDrift = 0
    Aborts = FALSE
    AsyncOutput = TRUE
    CleanupEvery = 2
    Modes = {"threshold", "pi_adaptive", "erlang", "cash"}
    LogWars = {FALSE, TRUE}
SPECIFICATION SchedulerSpec
SYMMETRY Symmetry
INVARIANTS SchedulerTypeOK NoSequenceLost NoTokenOverdue
PROPERTIES OneRunPerPart ImplementsBuffer
