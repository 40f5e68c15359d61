SPECIFICATION FairSpec
CONSTANTS
    server1 = server1
    server2 = server2
    plugin1 = plugin1
    plugin2 = plugin2
    Servers = {server1, server2}
    OwnerOf <- OwnerOfEach
    Asked <- AskedOfEach
INVARIANTS Held NothingLost
PROPERTIES ServesAnswered WithdrawnEnd
CHECK_DEADLOCK FALSE
