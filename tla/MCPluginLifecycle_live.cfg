SPECIFICATION FairSpec
CONSTANTS
    base = base
    mid = mid
    top = top
    click1 = click1
    click2 = click2
    absent = absent
    Unreadable = Unreadable
    Boot = Boot
    Closer = Closer
    Nobody = Nobody
    Plugins <- MCPlugins
    Discovered <- MCDiscovered
    Clicks <- MCClicks
    Installed <- Stray
    Authored <- MendedTop
    OffAtStart = {}
    Readers = {base}
    Fickle = {mid}
    QuitWhileBooting = TRUE
    MaxEdits = 1
INVARIANTS CloseInRange
PROPERTIES ClosingEnds PressesEnd
CHECK_DEADLOCK FALSE
