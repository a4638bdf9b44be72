SPECIFICATION LayoutSpec
CONSTANTS
    Sizes <- GridSizes
INVARIANTS
    EveryCellIsDrawnOnce
    SavedLayoutIsRestored
    UntouchedItemsStay
PROPERTIES
    EachRestartNarrows
    NormalizeEnds
