------------------------------ MODULE MCRejoin ------------------------------
(***************************************************************************)
(* What the documentation promises a returning driver, for TLC: the        *)
(* business of MCDriverAssignment, and a history variable for the time of  *)
(* an assignment, which the program does not keep apart from updated_at.   *)
(***************************************************************************)
EXTENDS MCDriverAssignment

VARIABLE givenAt   \* history: the time a trip was given to its driver

GivenInit == Init /\ givenAt = [t \in Trips |-> 0]

\* A change of driver is dated with the time of the request that made it.
GivenNext ==
    /\ Next
    /\ givenAt' = [t \in Trips |->
            IF trips'[t].driver # trips[t].driver THEN trips'[t].updatedAt ELSE givenAt[t]]

GivenSpec == GivenInit /\ [][GivenNext]_<<vars, givenAt>>

\* docs/architecture/corridor-fulfillment.md: "accepting releases every trip
\* assigned to them before the moment they joined, [...] so a returning driver
\* never gets stale trips back".  Once every release asked for has run, and the
\* one of the join did not fail, nobody drives a trip they were given in an
\* earlier membership, at an earlier time than they joined.
\* releaseDriverAssignments compares updated_at instead of that time.
NeverGetsStaleTrips ==
    \A t \in Unfinished : \A m \in MembershipsOf(trips[t].driver) :
        m.id # grant[t] /\ givenAt[t] < joinedAt[m.id] =>
            \/ \E r \in releases : r.user = m.user
            \/ <<m.user, TRUE>> \in lost
=============================================================================
