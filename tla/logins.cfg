SPECIFICATION Spec
CONSTANTS
    Procs = {p1, p2}
    Devices = {d1, d2}
    Tokens = {t1, t2}
    Qrs = {q1}
    None = None
    MaxFaults = 1
SYMMETRY Symmetry
CHECK_DEADLOCK FALSE
INVARIANTS TypeOK HeldIsIndexed QrYieldsOne
