CONSTANTS
    c1 = c1
    c2 = c2
    c3 = c3
    g1 = g1
    g2 = g2
    None = None
    Conns = {c1, c2}
    Rooms = {g1, g2}
    MaxFaults = 1
SPECIFICATION HubFairSpec
INVARIANTS
    HubTypeOK
    ChannelsFollow
PROPERTIES
    ShutdownCloses
