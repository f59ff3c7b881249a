\* The process ends, so that a state without a successor is no error.
CONSTANTS
    Garbled = Garbled
    Files <- MCFiles
SPECIFICATION FairSpec
INVARIANTS NothingIgnored UsesLiveObjects TearsDownAlone ExitLeavesNothing
PROPERTY SignalEndsProcess
CHECK_DEADLOCK FALSE
