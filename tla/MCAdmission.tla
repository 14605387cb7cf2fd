------------------------------ MODULE MCAdmission ------------------------------
EXTENDS Admission
CONSTANTS r1, r2, r3, r4

\* Three requests for adapter 1, which keep its slot busy, one for adapter 2.
MCAdapterOf == [r \in Requests |-> IF r = r3 THEN 2 ELSE 1]
MCPrompt == [r \in Requests |-> IF r = r3 THEN 1 ELSE 2]

Policy(g, k) == [grouped |-> g, kvAware |-> k]
ServingPolicies == {Policy(TRUE, FALSE), Policy(FALSE, TRUE), Policy(TRUE, TRUE)}
=============================================================================
