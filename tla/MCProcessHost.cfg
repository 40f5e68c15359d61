SPECIFICATION FairSpec
CONSTANTS
    read1 = read1
    read2 = read2
    tell = tell
    plugin1 = plugin1
    plugin2 = plugin2
    output = output
    error = error
    None = None
    Programs = {read1, tell}
    Pull = {read1}
    Owner <- OwnerOfEach
    Streams = {output, error}
    MaxBytes = 4
    MaxChunks = 3
    MaxPull = 3
    MaxPullChunks = 2
    MaxPiece = 1
    Maxima = {1, 2}
    Writes <- WritesOfEach
    MaxCalls = 2
INVARIANTS Delivered
PROPERTIES ReadsAnswered StopReports CloseEnds
CHECK_DEADLOCK FALSE
