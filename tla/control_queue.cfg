SPECIFICATION Spec
CONSTANTS
    A = A
    B = B
    a1 = a1
    a2 = a2
    b1 = b1
    i1 = i1
    i2 = i2
    k1 = k1
    k2 = k2
    Users = {A, B}
    Devices = {a1, b1}
    Owner <- MCOwner
    NoDevice = NoDevice
    Rooms = {r1}
    Ids = {i1, i2}
    Keys = {k1, k2}
    Handles <- DriftHandles
    SendKeys = {}
    Submitters = {s1, s2}
    Managers = {}
    Senders = {}
    Listers = {l1}
    InitialStatus <- AllTrusted
    InitialMembers <- Everyone
    MaxRevision = 3
    MaxSeq = 3
    PageLimit = 1
SYMMETRY SubmitterSymmetry
CHECK_DEADLOCK FALSE
INVARIANTS TypeOK CommitChain NoSkippedReceipt
PROPERTIES ControlFromMember ImplementsQueue
