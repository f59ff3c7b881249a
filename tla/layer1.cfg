\* Rows of either writer, a slot filter; two dApps, two sessions, gNB restarts.
CONSTANTS
    DApps = {d1, d2}
    ShmWriters = {"gnb", "controller"}
    target_slot = 1
    geom <- MCgeom
    RanGeoms <- MCRanGeoms
    SlotIds = {1, 2}
    MaxSlots = 4
    MaxSessions = 2
SPECIFICATION Spec
CHECK_DEADLOCK FALSE
INVARIANTS
    AccountingExact AtMostOneLate MismatchRefused RefusalIsAnnounced
    HandledWithinSession
