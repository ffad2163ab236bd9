SPECIFICATION FairSpec
CONSTANTS
    Jobs = {j1, j2}
    Malformed = {j2}
    Nodes = {n1, n2}
    Devices = {d1}
    MaxAttempts = 1
    BatchSize = 2
    Concurrency = 1
    MaxTokens = 2
    MaxFaults = 1
CHECK_DEADLOCK FALSE
INVARIANTS TypeOK GivenUpExhausted AttemptsBounded
PROPERTIES Settles
