\* An 80 MHz cell, configured as such.
CONSTANTS
    RowBytes <- Row80
    Grids <- Grids80
    RingSize = 2
    MaxRegions = 1
SPECIFICATION CodeletSpec
INVARIANT NeverAPrefix
