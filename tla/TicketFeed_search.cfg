SPECIFICATION FairSpec
CONSTANTS
    Titles = {2, 3}
    Plans = {}
    First = 1
    NoPlan = none
    None = nil
    Quota = 1
    MaxVersion = 3
    Relays = {r1, r2}
    BatchSize = 2
    MaxFaults = 1
INVARIANTS RepeatsExplained
PROPERTIES SearchForward SearchCatchesUp
CHECK_DEADLOCK FALSE
