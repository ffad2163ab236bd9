SPECIFICATION UploadSpec
CONSTANTS
    u1 = u1
    u2 = u2
    k1 = k1
    m1 = m1
    p1 = p1
    p2 = p2
    c1 = c1
    a1 = a1
    Keys = {k1}
    Users = {u1, u2}
    None = None
    Messages = {m1}
    Clients = {p1, p2}
    Cleaners = {c1}
    Auditors = {a1}
    MaxAttempts = 1
    MaxFaults = 1
SYMMETRY FullSymmetry
CHECK_DEADLOCK FALSE
INVARIANTS UploadTypeOK MessageHasObject CompletedWasStored
PROPERTIES DeleteUnreferenced
