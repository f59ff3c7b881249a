\* Fair threads; two sessions.
CONSTANTS
    Buffers = {b1, b2}
    MaxSlots = 2
    MaxLoads = 2
    QUEUE_CAPACITY = 2
    ShmWriter = "gnb"
    LoadsCodelets = TRUE
    NULL = NULL
SPECIFICATION FairSpec
PROPERTIES StopReturns QueuedIsReleased
