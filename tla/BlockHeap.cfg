\* Room for five of the smallest blocks.
SPECIFICATION Spec
CONSTANTS
    Lo = 24
    Top = 216
    BlockSizes = {32, 48, 64}
    MinRest = 32
    Deferred = FALSE
INVARIANTS Tiling
PROPERTIES UsedBlocksStay
