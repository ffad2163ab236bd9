SPECIFICATION FairSpec
CONSTANTS
    A = A
    B = B
    a1 = a1
    a2 = a2
    b1 = b1
    i1 = i1
    i2 = i2
    k1 = k1
    k2 = k2
    Users = {A, B}
    Devices = {a1, a2}
    Owner <- MCOwner
    NoDevice = NoDevice
    Rooms = {r1}
    Ids = {i1, i2}
    Keys = {k1, k2}
    Handles <- OneHandle
    SendKeys = {k1}
    Submitters = {s1}
    Managers = {m1, m2}
    Senders = {t1, t2}
    Listers = {}
    InitialStatus <- SecondAbsent
    InitialMembers <- OnlyB
    MaxRevision = 2
    MaxSeq = 2
    PageLimit = 1
CHECK_DEADLOCK FALSE
PROPERTIES SendAuthority RequestsEnd ApproverTrusted RevokeForcesRekey
