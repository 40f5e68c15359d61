SPECIFICATION Spec
CONSTANTS
    base = base
    mid = mid
    top = top
    click1 = click1
    click2 = click2
    absent = absent
    Unreadable = Unreadable
    Boot = Boot
    Closer = Closer
    Nobody = Nobody
    Plugins <- MCPlugins
    Discovered <- MCDiscovered
    Clicks <- MCClicks
    Installed <- Chain
    Authored <- BrokenMid
    OffAtStart = {}
    Readers = {base}
    Fickle = {mid}
    QuitWhileBooting = FALSE
    MaxEdits = 1
INVARIANTS Exclusive DependenciesHold Settled EveryStopBegins
CHECK_DEADLOCK FALSE
