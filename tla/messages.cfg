CONSTANTS
    r1 = r1
    r2 = r2
    r3 = r3
    k1 = k1
    x1 = x1
    x2 = x2
    None = None
    Requests = {r1, r2, r3}
    Keys = {k1}
    Texts = {x1, x2}
    SendLimit = 2
    MaxSwitches = 1
    MaxFaults = 1
SYMMETRY Symmetry
CHECK_DEADLOCK FALSE
SPECIFICATION Spec
INVARIANTS
    TypeOK
    AnnouncedOnce
    AcknowledgedKept
