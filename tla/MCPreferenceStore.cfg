SPECIFICATION SdkSpec
CONSTANTS
    r1 = r1
    r2 = r2
    r3 = r3
    plugin = plugin
    first = first
    further = further
    old = old
    new = new
    None = None
    CoreOwner = CoreOwner
    Empty = Empty
    Work <- MCWork
    Plugin = {}
    Slow = {}
    Owners <- MCOwners
    Plugins <- MCPlugins
    PluginOf <- MCPluginOf
    Documents <- MCDocuments
SYMMETRY Alike
INVARIANTS LatestShown AllSettle RowsExplained
CHECK_DEADLOCK FALSE
