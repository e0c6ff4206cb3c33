SPECIFICATION FairSpec
CONSTANTS
    Titles = {t1}
    Plans = {pl}
    First = first
    NoPlan = none
    None = nil
    Quota = 1
    MaxVersion = 3
    Requests = {q1, q2}
    Pods = {p1, p2}
INVARIANTS CopiesAreTrue
PROPERTIES EditsUnreserved PlanStays CacheCatchesUp
