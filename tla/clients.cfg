SPECIFICATION Spec
CONSTANTS
    a = a
    b = b
    c = c
    ua = ua
    ub = ub
    uc = uc
    Room = Room
    None = None
    Users = {ua, ub, uc}
    Devices = {a, b, c}
    Owner <- OwnerOf
    InitialMembers = {ua, ub}
    MaxChanges = 1
    MaxMade = 5
    MaxTopUps = 1
    Callers = {a, b}
SYMMETRY Swap
INVARIANTS
    TypeOK
    OneGroupPerEpoch
    CanFollow
