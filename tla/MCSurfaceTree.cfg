SPECIFICATION Spec
CONSTANTS
    strip = strip
    box = box
    path = path
    s1 = s1
    None = None
    Nodes = {strip, box, path}
    Surfaces = {s1}
    Strips = {strip}
    Paths = {path}
    Leaves = {path}
    Offers <- MCOffers
    Gives <- MCGives
    Typed = {2}
    Roots = {strip, box}
    Arranged = {box}
    Commanded <- MCCommanded
    MaxDepth = 2
    MaxNodes = 3
    MaxSelections = 1
    MaxInbox = 2
INVARIANTS Agree CommandsReach ChoicesReal
PROPERTIES KeptInOrder
CHECK_DEADLOCK FALSE
