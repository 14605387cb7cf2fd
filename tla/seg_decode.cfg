\* Decode batches with two runs per adapter.
CONSTANTS
    LoraSlots = 2
    Modes = {2}
    PrefillGrouped = {TRUE}
    MinTokens = 2
    BM = 2
    TileMapTokens = 4
    CaptureSizes = {2, 4}
    MaxDecode = 4
    MaxPrefill = 0
SPECIFICATION Spec
INVARIANTS DecodeRowsTheirAdapter
