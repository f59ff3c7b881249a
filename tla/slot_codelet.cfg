\* Two controllers after each other; any number of loads and slots.
CONSTANTS
    RowBytes <- MCRow
    Grids <- MCGrids
    RingSize = 2
    MaxRegions = 2
SPECIFICATION FairSpec
INVARIANT ReadyMeansPublished
PROPERTY Bootstraps
