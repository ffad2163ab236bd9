SPECIFICATION Spec
CONSTANTS
    a = a
    d1 = d1
    d2 = d2
    Null = Null
    Account <- OneAccount
    Devices = {d1, d2}
    Accounts = {a}
    Refs = {r1, r2, r3}
    Publishers = {p1, p2}
    Claimers = {c1, c2}
    Limit = 1
    MaxOpen = 3
    MaxBatch = 1
SYMMETRY AllSymmetry
INVARIANTS TypeOK ClaimedOnce InventoryBounded
PROPERTIES PublishedByTrusted RefsKeepOwner
