SPECIFICATION GraphSpec
CONSTANTS
    a = a
    b = b
    c = c
    absent = absent
    Unreadable = Unreadable
    Plugins <- MCPlugins
    Discovered <- MCDiscovered
    Lists <- MCLists
INVARIANTS OrdersRight CyclesReal
CHECK_DEADLOCK FALSE
