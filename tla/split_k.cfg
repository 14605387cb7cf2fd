\* Two calls of three shapes; scratch too small for the second shape.
CONSTANTS
    Shapes <- MCShapes
    Layouts = {"aligned", "other"}
    Configs <- MCConfigs
    SmallBlocks <- MCSmallBlocks
    MinBM = 1
    MinBN = 1
    WsFloor = 2
    CntFloor = 1
    MaxCalls = 2
SPECIFICATION FairSpec
INVARIANTS ScratchClean InBounds
PROPERTIES ImplementsProduct
\* No call is made after MaxCalls.
CHECK_DEADLOCK FALSE
