\* Two buffers of two rows, an output map of two descriptors.
CONSTANTS
    Rows = 4
    Pool = 2
    QUEUE_CAPACITY = 2
    MaxSlots = 6
SPECIFICATION Spec
INVARIANTS LagBounded NamedRowIntact
