SPECIFICATION Spec
CONSTANTS
    h1 = h1  h2 = h2  c1 = c1  c2 = c2
    r1 = r1  r2 = r2  ua = ua
    NoRes = NoRes  NoLeader = NoLeader
    Handlers = {h1}
    Reconcilers = {}
    ResIds = {r1, r2}
    Users = {ua}
    UserOf <- OneUser
    MaxQty = 1
    Quota = 1
    MaxPerUser = 2
    Faults = {"lostAck"}
    MaxFaults = 1
INVARIANT NoOversell
