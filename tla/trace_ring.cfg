\* Two slots over two sessions, up to two subscribers, slots recorded up to
\* five nanoseconds ago: behind the floor, across it and after it.
CONSTANTS
    MaxSlots = 2
    MaxWorkers = 2
    MaxGap = 1
    MaxAge = 5
    MaxSubs = 2
    MaxTime = 18
SPECIFICATION Spec
CHECK_DEADLOCK FALSE
INVARIANTS RingAscends NeverOverstated UnderstatedIsCounted Attribution
