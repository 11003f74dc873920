CONSTANTS
    p1 = p1 p2 = p2 k1 = k1 k2 = k2 k3 = k3 c1 = c1
    Callers = {p1, p2}
    Keys = {k1, k2, k3}
    Requests <- AllRequests
    NoKey = NoKey
    Any = Any
    None = None
    MaxLineages = 2
    MaxVersion = 3
    MaxPurges = 1
    Corridors = {c1}
    OverrideOf <- NoOverride
    Decisions = {"APPROVED", "REJECTED"}
    Asked <- WhoAsks
    MaxDay = 2
SPECIFICATION FairSpec
INVARIANTS TypeOK KeyedOnce RevisionsChain ApprovalsCoherent
PROPERTIES CallsAreAtomic DecisionsStand EveryEventHeard
