\* Every request is served, while nothing is preempted or aborted.  What threshold
\* and Erlang mode may do is among what CASH mode may.
CONSTANTS
    a1 = a1
    a2 = a2
    s1 = s1
    s2 = s2
    s3 = s3
    s4 = s4
    Seqs = {s1, s2, s3}
    Adapters = {a1, a2}
    AdapterOf <- MCAdapterOf
    W = 2
    TSLO = 2
    Deadlines = {1}
    NStars = {2}
    Mergeable = {}
    MaxBudget = 0
    Methods = {"form_batch", "form_batch_cash", "form_batch_erlang"}
    MaxTokens = 2
    MaxPreempts = 0
    MaxDrift = 0
    Aborts = FALSE
    AsyncOutput = TRUE
    CleanupEvery = 1
    Modes = {"pi_adaptive", "cash"}
    LogWars = {FALSE}
SPECIFICATION FairSpec
PROPERTIES AllServed
