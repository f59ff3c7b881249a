\* Two sessions: load, stop, reload; a pool as large as the queue.
CONSTANTS
    Buffers = {b1, b2}
    MaxSlots = 3
    MaxLoads = 2
    QUEUE_CAPACITY = 2
    ShmWriter = "gnb"
    LoadsCodelets = TRUE
    NULL = NULL
SPECIFICATION Spec
SYMMETRY BufferSymmetry
INVARIANTS OneOwner QueuedSlotStable CleanStop CfgSentToThisLoad
PROPERTIES DropOnlyInReleaseWindow ImplementsContract
