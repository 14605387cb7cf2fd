\* Three adapters, two slots.
CONSTANTS
    OneOverAlpha = 2
    DefaultRate = 2
    PerTick = 6
    Instant = 100
    Adapters = {1, 2, 3}
    KWarm = 2
    Policies = {"lru", "topk", "predictive"}
    Deferrals = {0, 2}
    Saturated = 4
    MaxTicks = 4
SPECIFICATION Spec
CHECK_DEADLOCK FALSE
INVARIANTS WithinSlots LruKeepsLatest 
