SPECIFICATION Spec
CONSTANTS
    Admins = {a1, a2}
    Devices = {d1, d2}
    Compliant = {d1}
    Required = 60
    MaxRevision = 2
SYMMETRY AdminSymmetry
INVARIANTS TypeOK EncryptedOnlyGated
PROPERTIES SteadyBlockerStops
