SPECIFICATION Spec
CONSTANTS
    Procs = {p1}
    Devices = {d1}
    Tokens = {t1}
    Qrs = {q1}
    None = None
    MaxFaults = 0
CHECK_DEADLOCK FALSE
INVARIANTS RevokedIsOut
