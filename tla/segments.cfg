\* Two LoRA slots, a table of three; graphs for two rows.
CONSTANTS
    LoraSlots = 2
    Modes = {1, 2, 3}
    PrefillGrouped = {TRUE, FALSE}
    MinTokens = 2
    BM = 2
    TileMapTokens = 4
    CaptureSizes = {2}
    MaxDecode = 4
    MaxPrefill = 5
SPECIFICATION Spec
INVARIANTS RowsOnce EachRowItsAdapter TablesMatchRuns MetricsAgree
