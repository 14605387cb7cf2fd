\* Grouped, KV-aware, or both; one LoRA slot, two adapters.
CONSTANTS
    r1 = r1
    r2 = r2
    r3 = r3
    r4 = r4
    Requests = {r1, r2, r3, r4}
    AdapterOf <- MCAdapterOf
    Prompt <- MCPrompt
    MaxNew = 3
    BlockSize = 2
    Blocks = 5
    MaxLoras = 1
    MaxSeqs = 3
    Policies <- ServingPolicies
SPECIFICATION FairSpec
INVARIANTS NoRequestLost OwnAdapterInOrder KvRoom
PROPERTIES AgedFirst AllServed
