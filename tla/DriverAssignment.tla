-------------------------- MODULE DriverAssignment -------------------------
(***************************************************************************)
(* Who drives a trip: assignManifestDriver and releaseDriverAssignments    *)
(* (services/api/src/cp2/domains/fulfillment/dispatch.ts) against the      *)
(* membership changes that call the release, and against the operations    *)
(* that move a trip on.                                                    *)
(*                                                                         *)
(* A membership lives in the process, a trip in Postgres.  A request takes *)
(* its time and its caller's permissions when it starts, waits for the     *)
(* manifest row, decides under the lock and commits.  The release is       *)
(* fire-and-forget: it decides whether there is anything to do when the    *)
(* membership changes, and clears the trips in a transaction of its own.   *)
(* That transaction is one step: it locks every unfinished trip before it  *)
(* reads one, so nothing it reads can change under it.                     *)
(*                                                                         *)
(* Abstracted: stops and vehicles (FulfillmentDispatch), keys (a replay    *)
(* changes nothing here) and the retry of a transaction that lost a        *)
(* deadlock (FulfillmentLocking).                                          *)
(***************************************************************************)
EXTENDS StaffMembership

CONSTANTS Trips, Calls, Nobody, Free,
          Drivers,    \* who they are given to
          Operations, \* the operations that move them on
          MaxClock,   \* bound: milliseconds the clock may advance
          MaxLost     \* bound: releases that may fail

VARIABLES
    trips,      \* committed manifest rows
    lock,       \* the call that holds a row
    calls,      \* requests in flight
    releases,   \* releaseDriverAssignments calls in flight
    clock,
    grant,      \* history: the membership a trip's driver was given it under
    movedAt,    \* history: the latest time a change is dated with since the driver was set
    joinedAt,   \* history: when each present membership began
    told,       \* history: the driver the last manifest.driver_assigned event named, and
                \* whether each event so far started from the driver of the one before
    lost        \* history: people of whom a release failed

tripVars ==
    <<trips, lock, calls, releases, clock, grant, movedAt, joinedAt, told, lost>>
vars == <<staffVars, tripVars>>

Trip == [status : {"unfinished", "finished"}, driver : Persons \cup {Nobody}, updatedAt : 0..MaxClock]
Unfinished == {t \in Trips : trips[t].status = "unfinished"}

\* The operations of FulfillmentDispatch, by what matters to a driver: close
\* and cancel are the dispatcher's, cancel and complete end the trip.
DriverMoves == {"depart", "complete"}
Moves == DriverMoves \cup {"close", "cancel"}
After(op) == IF op \in {"complete", "cancel"} THEN "finished" ELSE "unfinished"
ASSUME DriverAssumption ==
    /\ Nobody \notin Persons /\ Free \notin Calls
    /\ Drivers \subseteq Persons \cup {Nobody}
    /\ Operations \subseteq Moves
    /\ MaxClock \in Nat /\ MaxLost \in Nat

Idle == [phase |-> "idle"]
Call == {Idle} \cup
        [phase : {"waiting", "locked"}, op : Moves \cup {"assign"},
         worker : Persons \cup {Nobody},   \* a caller who does not dispatch
         trip : Trips, driver : Persons \cup {Nobody}, at : 0..MaxClock,
         previous : Persons \cup {Nobody}, under : Invitations \cup {Founding}]
Release == [user : Persons, joined : BOOLEAN, at : 0..MaxClock]

Init ==
    /\ StaffInit
    /\ trips = [t \in Trips |-> [status |-> "unfinished", driver |-> Nobody, updatedAt |-> 0]]
    /\ lock = [t \in Trips |-> Free]
    /\ calls = [c \in Calls |-> Idle]
    /\ releases = {}
    /\ clock = 0
    /\ grant = [t \in Trips |-> Founding]
    /\ movedAt = [t \in Trips |-> 0]
    /\ joinedAt = [i \in Invitations |-> 0]
    /\ told = [t \in Trips |-> [driver |-> Nobody, chained |-> TRUE]]
    /\ lost = {}

Tick ==
    /\ clock < MaxClock /\ clock' = clock + 1
    /\ UNCHANGED <<staffVars, trips, lock, calls, releases, grant, movedAt, joinedAt, told, lost>>

----------------------------------------------------------------------------
(* Requests on a trip.                                                     *)

\* authorize, the time of the request, and a connection to wait on.
Ask(c, a, op, t, d) ==
    /\ calls[c] = Idle
    /\ IF op \in DriverMoves THEN Delivers(RoleOf(a)) ELSE Dispatches(RoleOf(a))
    /\ calls' = [calls EXCEPT ![c] =
            [phase |-> "waiting", op |-> op,
             worker |-> IF Dispatches(RoleOf(a)) THEN Nobody ELSE a,
             trip |-> t, driver |-> d, at |-> clock, previous |-> Nobody, under |-> Founding]]
    /\ UNCHANGED <<staffVars, trips, lock, releases, clock, grant, movedAt, joinedAt, told, lost>>

\* assignManifestDriver checks the driver under the lock.
MayAssign(k) ==
    /\ k.driver # Nobody => Delivers(RoleOf(k.driver))
    /\ k.trip \in Unfinished
    /\ trips[k.trip].driver # k.driver

\* A driver who does not dispatch works the trip they were given and no other.
MayMove(k) ==
    /\ k.worker \in {Nobody, trips[k.trip].driver}
    /\ k.trip \in Unfinished

Allowed(k) == IF k.op = "assign" THEN MayAssign(k) ELSE MayMove(k)

\* The membership that makes d eligible.
MembershipUnder(d) ==
    IF MembershipsOf(d) = {} THEN Founding ELSE (CHOOSE m \in MembershipsOf(d) : TRUE).id

LockTrip(c) ==
    LET k == calls[c] IN
    /\ k.phase = "waiting" /\ lock[k.trip] = Free
    /\ Allowed(k)
    /\ lock' = [lock EXCEPT ![k.trip] = c]
    /\ calls' = [calls EXCEPT ![c] = IF k.op = "assign"
            THEN [k EXCEPT !.phase = "locked", !.previous = trips[k.trip].driver,
                           !.under = MembershipUnder(k.driver)]
            ELSE [k EXCEPT !.phase = "locked"]]
    /\ UNCHANGED <<staffVars, trips, releases, clock, grant, movedAt, joinedAt, told, lost>>

\* Refused under the lock, or nothing to change: the transaction ends.
Refuse(c) ==
    /\ calls[c].phase = "waiting" /\ lock[calls[c].trip] = Free
    /\ ~Allowed(calls[c])
    /\ calls' = [calls EXCEPT ![c] = Idle]
    /\ UNCHANGED <<staffVars, trips, lock, releases, clock, grant, movedAt, joinedAt, told, lost>>

EndCall(c) ==
    /\ lock' = [lock EXCEPT ![calls[c].trip] = Free]
    /\ calls' = [calls EXCEPT ![c] = Idle]

\* appendOutbox: the event names the new driver and the one before.
Announced(t, from, to) ==
    [driver |-> to, chained |-> told[t].chained /\ told[t].driver = from]

\* The driver and the event commit together.
CommitAssign(c) ==
    LET k == calls[c] IN
    /\ k.phase = "locked" /\ k.op = "assign"
    /\ trips' = [trips EXCEPT ![k.trip].driver = k.driver, ![k.trip].updatedAt = k.at]
    /\ told' = [told EXCEPT ![k.trip] = Announced(k.trip, k.previous, k.driver)]
    /\ grant' = [grant EXCEPT ![k.trip] = k.under]
    /\ movedAt' = [movedAt EXCEPT ![k.trip] = k.at]
    /\ EndCall(c)
    /\ UNCHANGED <<staffVars, releases, clock, joinedAt, lost>>

CommitMove(c) ==
    LET k == calls[c] IN
    /\ k.phase = "locked" /\ k.op # "assign"
    /\ trips' = [trips EXCEPT ![k.trip].status = After(k.op), ![k.trip].updatedAt = k.at]
    /\ movedAt' = [movedAt EXCEPT ![k.trip] = IF k.at > @ THEN k.at ELSE @]
    /\ EndCall(c)
    /\ UNCHANGED <<staffVars, releases, clock, grant, joinedAt, told, lost>>

\* An error or a lost connection rolls the transaction back.
Rollback(c) ==
    /\ calls[c].phase = "locked"
    /\ EndCall(c)
    /\ UNCHANGED <<staffVars, trips, releases, clock, grant, movedAt, joinedAt, told, lost>>

----------------------------------------------------------------------------
(* Membership changes, and the release each one asks for.                  *)

\* releaseDriverAssignments up to its first await, which onMembershipChanged
\* reaches in the step of the change: a role that never delivered, or one that
\* still does, leaves nothing to do.
StillEligible(S, u) == \E m \in S : m.user = u /\ Delivers(m.role)

\* Mutant: the listener is called before the membership changes.
NeedsReleaseBefore(u, previousRole, joined) ==
    joined \/ (Delivers(previousRole) /\ ~StillEligible(memberships, u))
\* Mutant: nothing is released on joining.
NeedsReleaseOnLeaving(u, previousRole, joined) ==
    Delivers(previousRole) /\ ~StillEligible(memberships', u)

NeedsRelease(u, previousRole, joined) ==
    joined \/ (Delivers(previousRole) /\ ~StillEligible(memberships', u))

\* The time of a join decides which trips are left; that of a leave dates rows
\* nobody drives any more, and is left out.
Notify(u, previousRole, joined) ==
    LET release == [user |-> u, joined |-> joined, at |-> IF joined THEN clock ELSE 0] IN
    /\ releases' = IF NeedsRelease(u, previousRole, joined) THEN releases \cup {release} ELSE releases
    /\ UNCHANGED <<trips, lock, calls, clock, grant, movedAt, told, lost>>

ChangeRole(a, m, r) ==
    ChangeStaffRole(a, m, r) /\ Notify(m.user, m.role, FALSE) /\ UNCHANGED joinedAt
Gone(m) ==
    /\ Notify(m.user, m.role, FALSE)
    /\ joinedAt' = IF m.id = Founding THEN joinedAt ELSE [joinedAt EXCEPT ![m.id] = 0]
Remove(a, m) == RemoveStaffMember(a, m) /\ Gone(m)
Leave(m) == LeaveBusiness(m) /\ Gone(m)
Accept(u, i) ==
    /\ AcceptStaffInvitation(u, i) /\ Notify(u, NoRole, TRUE)
    /\ joinedAt' = [joinedAt EXCEPT ![i] = clock]

Invite(a, i, r, d) == InviteStaff(a, i, r, d) /\ UNCHANGED tripVars
CloseInvite(p, i) ==
    /\ RevokeStaffInvitation(p, i) \/ DeclineStaffInvitation(p, i)
    /\ UNCHANGED tripVars
Expire(i) == Lapse(i) /\ UNCHANGED tripVars

----------------------------------------------------------------------------
(* The release.                                                            *)

\* The update's where clause.
Stale(r, t) ==
    /\ trips[t].driver = r.user
    /\ r.joined => trips[t].updatedAt < r.at

ClearTrips(r) ==
    LET cleared == {t \in Unfinished : Stale(r, t)} IN
    /\ r \in releases
    /\ trips' = [t \in Trips |-> IF t \in cleared
                    THEN [trips[t] EXCEPT !.driver = Nobody, !.updatedAt = r.at] ELSE trips[t]]
    /\ told' = [t \in Trips |-> IF t \in cleared THEN Announced(t, r.user, Nobody) ELSE told[t]]
    /\ grant' = [t \in Trips |-> IF t \in cleared THEN Founding ELSE grant[t]]
    /\ releases' = releases \ {r}
    /\ UNCHANGED <<staffVars, lock, calls, clock, movedAt, joinedAt, lost>>

\* Mutant: the trips are not locked first.
ReleaseTripsUnlocked(r) == ClearTrips(r)

\* Every unfinished trip is locked before one is read.
ReleaseTrips(r) == (\A t \in Unfinished : lock[t] = Free) /\ ClearTrips(r)

\* It is logged (fulfillment.driver_release_failed) and never tried again; a
\* restart of the process ends it the same way.
LoseRelease(r) ==
    /\ r \in releases /\ Cardinality(lost) < MaxLost
    /\ releases' = releases \ {r}
    /\ lost' = lost \cup {<<r.user, r.joined>>}
    /\ UNCHANGED <<staffVars, trips, lock, calls, clock, grant, movedAt, joinedAt, told>>

----------------------------------------------------------------------------
Asking == \E c \in Calls, a \in Persons, t \in Trips :
    \/ \E d \in Drivers : Ask(c, a, "assign", t, d)
    \/ \E op \in Operations : Ask(c, a, op, t, Nobody)

Working(c) == LockTrip(c) \/ Refuse(c) \/ CommitAssign(c) \/ CommitMove(c) \/ Rollback(c)

Staffing ==
    \/ \E a \in Persons, i \in Invitations, r \in Invitable, d \in Destinations : Invite(a, i, r, d)
    \/ \E p \in Persons, i \in Invitations : CloseInvite(p, i) \/ Accept(p, i)
    \/ \E i \in Invitations : Expire(i)
    \/ \E a \in Persons, m \in memberships : \E r \in Invitable : ChangeRole(a, m, r)
    \/ \E a \in Persons, m \in memberships : Remove(a, m)
    \/ \E m \in memberships : Leave(m)

Releasing(r) == ReleaseTrips(r) \/ LoseRelease(r)

Next ==
    \/ Tick \/ Asking \/ Staffing
    \/ \E r \in releases : Releasing(r)
    \/ \E c \in Calls : Working(c)

Spec == Init /\ [][Next]_vars

----------------------------------------------------------------------------
(* Properties.                                                             *)

TypeOK ==
    /\ StaffTypeOK
    /\ trips \in [Trips -> Trip]
    /\ lock \in [Trips -> Calls \cup {Free}]
    /\ calls \in [Calls -> Call]
    /\ releases \subseteq Release
    /\ clock \in 0..MaxClock
    /\ grant \in [Trips -> Invitations \cup {Founding}]
    /\ movedAt \in [Trips -> 0..MaxClock]
    /\ joinedAt \in [Invitations -> 0..MaxClock]
    /\ told \in [Trips -> [driver : Persons \cup {Nobody}, chained : BOOLEAN]]
    /\ lost \subseteq Persons \X BOOLEAN

\* docs/architecture/corridor-fulfillment.md: an assignment in flight when the
\* person is removed "is either refused or committed and then released".  An
\* unfinished trip is with somebody who may deliver, under the membership they
\* were given it in, unless their release is still to run or failed.
DriverIsMember ==
    \A t \in Unfinished :
        LET u == trips[t].driver IN
        u # Nobody =>
            \/ \E m \in memberships : m.user = u /\ m.id = grant[t] /\ Delivers(m.role)
            \/ \E r \in releases : r.user = u /\ ~r.joined
            \/ <<u, FALSE>> \in lost

\* What a returning driver is spared.  Once the release of the join ran, a trip
\* of an earlier membership is left only if a change dated at or after the join
\* touched it, even if a request that began before the join has set updatedAt
\* back since.  docs/architecture/corridor-fulfillment.md promises it without
\* the exception, which is false (NeverGetsStaleTrips in MCRejoin): this says
\* that the exception is the only one.
RejoinedClean ==
    \A t \in Unfinished : \A m \in MembershipsOf(trips[t].driver) :
        m.id # grant[t] =>
            \/ movedAt[t] >= joinedAt[m.id]
            \/ \E r \in releases : r.user = m.user /\ r.joined
            \/ <<m.user, TRUE>> \in lost

\* A consumer of the outbox that knows only the events knows every driver: each
\* change of driver has its event, and the event starts where the last ended.
DriverEventsChain ==
    \A t \in Trips : told[t] = [driver |-> trips[t].driver, chained |-> TRUE]

\* A driver departs and finishes the trip that is theirs at the commit, though
\* it was theirs when the row was locked and may have been anybody's before.
DriversWorkTheirOwn ==
    [][\A c \in Calls : CommitMove(c) => calls[c].worker \in {Nobody, trips[calls[c].trip].driver}]_vars
=============================================================================
