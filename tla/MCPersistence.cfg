CONSTANTS
    r1 = r1 r2 = r2 n1 = n1 j1 = j1 j2 = j2 p1 = p1 p2 = p2
    Relational = {r1}
    Normalized = {n1}
    Journal = {j1, j2}
    Ceremonies = {p1}
    MaxContent = 1
    MaxWrites = 3
    MaxFaults = 2
    FinalAttempts = 2
CHECK_DEADLOCK FALSE
SPECIFICATION FairSpec
INVARIANTS IdleMeansStored CleanCloseLosesNothing
PROPERTIES CoreIsACopy JournalIsACopy EventuallyStored
