\* The form_batch* methods, called in any order.  The deadlines and orders that
\* form_batch and form_batch_erlang choose are among those of form_batch_cash.
CONSTANTS
    a1 = a1
    a2 = a2
    s1 = s1
    s2 = s2
    s3 = s3
    s4 = s4
    Seqs = {s1, s2, s3, s4}
    Adapters = {a1, a2}
    AdapterOf <- MCAdapterOf
    W = 3
    TSLO = 2
    Deadlines = {1}
    NStars = {2}
    Mergeable = {a1, a2}
    MaxBudget = 1
    Methods = {"form_batch_cash", "form_batch_wgkp"}
SPECIFICATION Spec
SYMMETRY Symmetry
INVARIANTS TypeOK NoDuplicates AgeIsOfAToken NothingDueIsLeft BatchAligned
PROPERTIES NoEarlyFlush StatsBalance
