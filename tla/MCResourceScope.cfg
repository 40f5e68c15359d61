SPECIFICATION FairSpec
CONSTANTS
    open1 = open1
    open2 = open2
    open3 = open3
    read = read
    call = call
    Calls = {call}
    Openers = {open1, open2, open3}
    Readers = {read}
    On <- OnFirst
    Limit = 2
INVARIANTS Counted FailureAnswered
PROPERTIES Implements ClosingEnds
CHECK_DEADLOCK FALSE
