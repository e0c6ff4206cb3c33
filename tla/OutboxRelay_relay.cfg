SPECIFICATION FairSpec
CONSTANTS
    p1 = p1  p2 = p2
    Replicas = {p1, p2}
    N = 3
    Key <- MCKey
    BatchSize = 2
    Faults = {"sendFail", "timeout", "db", "crash"}
    MaxFaults = 2
INVARIANTS NeverLost DuplicatesBounded KeyOrdered
PROPERTY EventuallySent
CHECK_DEADLOCK FALSE
