CONSTANTS
    boss = boss ann = ann ben = ben phoneA = phoneA emailA = emailA phoneB = phoneB
    t1 = t1 t2 = t2 p1 = p1 p2 = p2
    Persons = {boss, ann, ben}
    Founder = boss
    Destinations = {phoneA, emailA, phoneB}
    HolderOf <- Holders
    MaxInvitations = 2
    Drivers = {ann}
    Operations = {"close"}
    Offered = {"driver"}
    MaxPending = 2
    Trips = {t1}
    Calls = {p1}
    Nobody = Nobody
    Free = Free
    MaxClock = 1
    MaxLost = 1
SPECIFICATION GivenSpec
INVARIANT NeverGetsStaleTrips
