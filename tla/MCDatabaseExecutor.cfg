SPECIFICATION FairSpec
CONSTANTS
    core1 = core1
    core2 = core2
    statement = statement
    slow = slow
    Work <- MCWork
    Plugin <- MCPlugin
    Slow <- MCSlow
    None = None
INVARIANTS Conserved ClosedAfterAll OneCoreCut
PROPERTIES ShutdownEnds
CHECK_DEADLOCK FALSE
