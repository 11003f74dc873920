------------------------ MODULE DriverAssignmentProofs ----------------------
(***************************************************************************)
(* Memberships and drivers, proved for any number of people, trips,        *)
(* requests, invitations and lost releases: one membership each and no     *)
(* invitation its sender could not send today; under the row lock a driver *)
(* works their own trip and events name drivers in order; and whatever     *)
(* happens between a membership change and its release, the release makes  *)
(* up for it.                                                              *)
(***************************************************************************)
EXTENDS DriverAssignment, FiniteSetTheorems, TLAPS

----------------------------------------------------------------------------
(* Memberships and invitations, for any number of people and destinations. *)

\* What a call may do to memberships and invitations.
StaffStep ==
    \/ \E a \in Persons, i \in Invitations, r \in Invitable, d \in Destinations :
          InviteStaff(a, i, r, d)
    \/ \E u \in Persons, i \in Invitations :
          \/ RevokeStaffInvitation(u, i)
          \/ DeclineStaffInvitation(u, i)
          \/ AcceptStaffInvitation(u, i)
    \/ \E i \in Invitations : Lapse(i)
    \/ \E a \in Persons, m \in memberships, r \in Invitable : ChangeStaffRole(a, m, r)
    \/ \E a \in Persons, m \in memberships : RemoveStaffMember(a, m)
    \/ \E m \in memberships : LeaveBusiness(m)

----------------------------------------------------------------------------
(* The invariant.                                                          *)

FoundersMembership == [id |-> Founding, user |-> Founder, role |-> "owner"]

NoneTwice == \A x, y \in memberships : x.user = y.user => x = y

FounderStays ==
    /\ FoundersMembership \in memberships
    /\ \A m \in memberships : m.id = Founding => m.user = Founder

\* Whoever joined by an invitation has used it up.
AcceptedAreClosed ==
    \A m \in memberships : m.id # Founding => invitations[m.id].status = "closed"

Backed == \A i \in Invitations : Pending(i) => Grants(invitations[i].inviter, i)

OnePerDestination ==
    \A i, j \in Invitations :
        Pending(i) /\ Pending(j) /\ i # j => invitations[i].destination # invitations[j].destination

Waiting == {i \in Invitations : Pending(i)}

StaffInv ==
    /\ StaffTypeOK
    /\ NoneTwice
    /\ FounderStays
    /\ AcceptedAreClosed
    /\ Backed
    /\ OnePerDestination
    /\ Cardinality(Waiting) <= MaxPending

----------------------------------------------------------------------------
(* Roles.                                                                  *)

\* RoleOf as a function of the memberships.
Among(S, u) == {m \in S : m.user = u}
RoleIn(S, u) == IF Among(S, u) = {} THEN NoRole ELSE (CHOOSE m \in Among(S, u) : TRUE).role

LEMMA RoleOfMember ==
    ASSUME NEW S, NEW m \in S, \A x, y \in S : x.user = y.user => x = y
    PROVE  RoleIn(S, m.user) = m.role /\ Among(S, m.user) = {m}
<1>1. Among(S, m.user) = {m} BY DEF Among
<1>2. (CHOOSE x \in {m} : TRUE) = m OBVIOUS
<1>3. QED BY <1>1, <1>2 DEF RoleIn

LEMMA NothingToGrant == RolesGrantableBy(NoRole) = {}
BY DEF RolesGrantableBy, MayInvite, NoRole

LEMMA Ranks ==
    StaffRank["owner"] = 3 /\ \A r \in Roles : StaffRank[r] \in 1..3
BY DEF StaffRank, Roles

LEMMA RoleNow ==
    ASSUME NEW u
    PROVE  /\ RoleOf(u) = RoleIn(memberships, u) /\ RoleOf(u)' = RoleIn(memberships', u)
           /\ MembershipsOf(u) = Among(memberships, u)
BY DEF RoleOf, MembershipsOf, RoleIn, Among

\* Whoever's memberships stay keeps their role.
LEMMA SameRole ==
    ASSUME NEW u, Among(memberships', u) = Among(memberships, u)
    PROVE  RoleOf(u)' = RoleOf(u)
BY RoleNow DEF RoleIn

\* Invitations that wait no longer than before.
LEMMA FewerWaiting ==
    ASSUME StaffInv,
           \A i \in Invitations : Pending(i)' => Pending(i) /\ invitations'[i] = invitations[i]
    PROVE  OnePerDestination' /\ (Cardinality(Waiting) <= MaxPending)'
<1>1. OnePerDestination' BY DEF StaffInv, OnePerDestination
<1>2. Waiting' \subseteq Waiting BY DEF Waiting
<1>3. IsFiniteSet(Invitations) BY FS_Interval, StaffAssumption DEF Invitations
<1>4. Waiting \subseteq Invitations BY DEF Waiting
<1>5. IsFiniteSet(Waiting) BY <1>3, <1>4, FS_Subset
<1>6. Cardinality(Waiting') <= Cardinality(Waiting) BY <1>2, <1>5, FS_Subset
<1>7. Cardinality(Waiting) \in Nat /\ Cardinality(Waiting') \in Nat
  BY <1>2, <1>5, FS_Subset, FS_CardinalityType
<1>8. (Cardinality(Waiting))' <= MaxPending
  BY <1>6, <1>7, StaffAssumption DEF StaffInv
<1>9. QED BY <1>1, <1>8

\* Once what waits and the roles of its senders stay, it stays backed.
LEMMA StaysBacked ==
    ASSUME StaffInv,
           \A i \in Invitations : Pending(i)' => Pending(i) /\ invitations'[i] = invitations[i],
           \A i \in Invitations : \A w :
              Pending(i)' /\ w = invitations[i].inviter => RoleOf(w)' = RoleOf(w)
    PROVE  Backed'
<1>1. ASSUME NEW i \in Invitations, NEW w, Pending(i)', w = invitations[i].inviter
      PROVE  invitations'[i].inviter = w /\ invitations'[i].role \in RolesGrantableBy(RoleOf(w)')
  BY <1>1 DEF StaffInv, Backed, Grants
<1>2. QED BY <1>1 DEF Backed, Grants

----------------------------------------------------------------------------
(* Steps.                                                                  *)

\* A step that closes an invitation and changes no membership.
LEMMA CloseKeeps ==
    ASSUME StaffInv, NEW i \in Invitations, NEW c, c \in Invitation, c.status # "pending",
           invitations[i].status = "closed" => c.status = "closed",
           invitations' = [invitations EXCEPT ![i] = c], UNCHANGED memberships
    PROVE  StaffInv'
<1>1. invitations \in [Invitations -> Invitation] BY DEF StaffInv, StaffTypeOK
<1>2. \A j \in Invitations : Pending(j)' => Pending(j) /\ invitations'[j] = invitations[j]
  BY <1>1 DEF Pending
<1>3. StaffTypeOK' BY <1>1 DEF StaffInv, StaffTypeOK
<1>4. \A u : Among(memberships', u) = Among(memberships, u) OBVIOUS
<1>5. \A u : RoleOf(u)' = RoleOf(u) BY <1>4, SameRole
<1>6. Backed' BY <1>2, <1>5, StaysBacked
<1>7. NoneTwice' /\ FounderStays' BY DEF StaffInv, NoneTwice, FounderStays
<1>8. AcceptedAreClosed'
  <2>1. ASSUME NEW m \in memberships, m.id # Founding PROVE invitations'[m.id].status = "closed"
    <3>1. m.id \in Invitations /\ invitations[m.id].status = "closed"
      BY <2>1 DEF StaffInv, StaffTypeOK, Membership, AcceptedAreClosed
    <3>2. QED BY <1>1, <3>1
  <2>2. QED BY <2>1 DEF AcceptedAreClosed
<1>9. QED BY <1>2, <1>3, <1>6, <1>7, <1>8, FewerWaiting DEF StaffInv

LEMMA InviteKeeps ==
    ASSUME StaffInv, NEW a \in Persons, NEW i \in Invitations, NEW r \in Invitable,
           NEW d \in Destinations, InviteStaff(a, i, r, d)
    PROVE  StaffInv'
<1> DEFINE new == [status |-> "pending", role |-> r, destination |-> d, inviter |-> a]
<1>1. /\ invitations[i] = NotSent /\ r \in RolesGrantableBy(RoleOf(a))
      /\ ~\E j \in Invitations : IsOpen(j) /\ invitations[j].destination = d
      /\ Cardinality({j \in Invitations : IsOpen(j)}) < MaxPending
      /\ invitations' = [invitations EXCEPT ![i] = new] /\ UNCHANGED memberships
  BY DEF InviteStaff
<1>2. invitations \in [Invitations -> Invitation] BY DEF StaffInv, StaffTypeOK
<1>3. new \in Invitation BY DEF Invitation
<1>4. StaffTypeOK' BY <1>1, <1>2, <1>3 DEF StaffInv, StaffTypeOK
<1>5. \A u : RoleOf(u)' = RoleOf(u)
  <2>1. \A u : Among(memberships', u) = Among(memberships, u) BY <1>1
  <2>2. QED BY <2>1, SameRole
<1>6. \A j \in Invitations : Pending(j) => IsOpen(j) BY DEF StaffInv, Backed, IsOpen
<1>7. ~Pending(i) BY <1>1 DEF Pending, NotSent
<1>8. /\ \A j \in Invitations : j # i => invitations'[j] = invitations[j]
      /\ invitations'[i] = new
  BY <1>1, <1>2
<1>9. Backed' BY <1>1, <1>5, <1>8 DEF StaffInv, Backed, Grants, Pending
<1>10. OnePerDestination'
  <2>1. \A j \in Invitations : Pending(j) => invitations[j].destination # d BY <1>1, <1>6
  <2>2. QED BY <1>8, <2>1 DEF StaffInv, OnePerDestination, Pending
<1>11. (Cardinality(Waiting) <= MaxPending)'
  <2>1. Waiting' = Waiting \cup {i} BY <1>8 DEF Waiting, Pending
  <2>2. i \notin Waiting /\ Waiting = {j \in Invitations : IsOpen(j)}
    BY <1>6, <1>7 DEF Waiting, IsOpen
  <2>3. Cardinality(Waiting) < MaxPending BY <1>1, <2>2
  <2>4. IsFiniteSet(Waiting)
    <3>1. IsFiniteSet(Invitations) BY FS_Interval, StaffAssumption DEF Invitations
    <3>2. Waiting \subseteq Invitations BY DEF Waiting
    <3>3. QED BY <3>1, <3>2, FS_Subset
  <2>5. Cardinality(Waiting') = Cardinality(Waiting) + 1 BY <2>1, <2>2, <2>4, FS_AddElement
  <2>6. Cardinality(Waiting) \in Nat BY <2>4, FS_CardinalityType
  <2>7. QED BY <2>3, <2>5, <2>6, StaffAssumption
<1>12. NoneTwice' /\ FounderStays' BY <1>1 DEF StaffInv, NoneTwice, FounderStays
<1>13. AcceptedAreClosed'
  <2>1. ASSUME NEW m \in memberships, m.id # Founding PROVE invitations'[m.id].status = "closed"
    <3>1. m.id \in Invitations /\ invitations[m.id].status = "closed"
      BY <2>1 DEF StaffInv, StaffTypeOK, Membership, AcceptedAreClosed
    <3>2. m.id # i BY <1>1, <3>1 DEF NotSent
    <3>3. QED BY <1>8, <3>1, <3>2
  <2>2. QED BY <1>1, <2>1 DEF AcceptedAreClosed
<1>14. QED BY <1>4, <1>9, <1>10, <1>11, <1>12, <1>13 DEF StaffInv

LEMMA AcceptKeeps ==
    ASSUME StaffInv, NEW u \in Persons, NEW i \in Invitations, AcceptStaffInvitation(u, i)
    PROVE  StaffInv'
<1> DEFINE new == [id |-> i, user |-> u, role |-> invitations[i].role]
<1>1. /\ Pending(i) /\ MembershipsOf(u) = {}
      /\ memberships' = memberships \cup {new}
      /\ invitations' = [invitations EXCEPT ![i] = Closed]
  BY DEF AcceptStaffInvitation, Mine
<1>2. invitations \in [Invitations -> Invitation] BY DEF StaffInv, StaffTypeOK
<1>3. invitations[i].role \in Invitable
  BY <1>1, <1>2 DEF Pending, Invitation, NotSent, Closed
<1>4. new \in Membership BY <1>3 DEF Membership, Invitable
<1>5. StaffTypeOK'
  <2>1. Closed \in Invitation BY DEF Invitation
  <2>2. QED BY <1>1, <1>2, <1>4, <2>1 DEF StaffInv, StaffTypeOK
<1>6. NoneTwice' BY <1>1 DEF StaffInv, NoneTwice, MembershipsOf
<1>7. FounderStays'
  <2>1. i # Founding BY StaffAssumption DEF Invitations, Founding
  <2>2. QED BY <1>1, <2>1 DEF StaffInv, FounderStays
<1>8. \A j \in Invitations : Pending(j)' => Pending(j) /\ invitations'[j] = invitations[j]
  BY <1>1, <1>2 DEF Pending, Closed
<1>9. RoleOf(u) = NoRole BY <1>1 DEF RoleOf
<1>10. ASSUME NEW j \in Invitations, NEW w, Pending(j)', w = invitations[j].inviter
       PROVE  RoleOf(w)' = RoleOf(w)
  <2>1. w # u BY <1>8, <1>9, <1>10, NothingToGrant DEF StaffInv, Backed, Grants
  <2>2. Among(memberships', w) = Among(memberships, w) BY <1>1, <2>1 DEF Among
  <2>3. QED BY <2>2, SameRole
<1>11. Backed' BY <1>8, <1>10, StaysBacked
<1>12. AcceptedAreClosed'
  <2>1. ASSUME NEW m \in memberships', m.id # Founding PROVE invitations'[m.id].status = "closed"
    <3>1. CASE m = new BY <1>1, <1>2, <3>1 DEF Closed
    <3>2. CASE m \in memberships
      <4>1. m.id \in Invitations /\ invitations[m.id].status = "closed"
        BY <2>1, <3>2 DEF StaffInv, StaffTypeOK, Membership, AcceptedAreClosed
      <4>2. QED BY <1>1, <1>2, <4>1 DEF Closed
    <3>3. QED BY <1>1, <3>1, <3>2
  <2>2. QED BY <2>1 DEF AcceptedAreClosed
<1>13. QED BY <1>5, <1>6, <1>7, <1>8, <1>11, <1>12, FewerWaiting DEF StaffInv

\* A member who changes, or loses, their role takes back what they may no longer offer.
LEMMA RevokeKeeps ==
    ASSUME StaffInv, NEW m \in memberships, m.role # "owner", NEW S,
           RevokeBeyond(m.user, S), NEW left \in SUBSET Membership,
           \A x \in left : x.user = m.user /\ x.id = m.id /\ S = RolesGrantableBy(x.role),
           \A x, y \in left : x = y,
           memberships' = (memberships \ {m}) \cup left,
           left = {} => S = {}
    PROVE  StaffInv'
<1>1. invitations \in [Invitations -> Invitation] /\ memberships \subseteq Membership
  BY DEF StaffInv, StaffTypeOK
<1>2. /\ \A j \in Invitations : Pending(j)' => Pending(j) /\ invitations'[j] = invitations[j]
      /\ \A j \in Invitations :
            Pending(j)' /\ invitations[j].inviter = m.user => invitations[j].role \in S
  BY DEF RevokeBeyond, Pending, Closed
<1>3. StaffTypeOK'
  <2>1. Closed \in Invitation BY DEF Invitation
  <2>2. invitations' \in [Invitations -> Invitation] BY <1>1, <2>1 DEF RevokeBeyond
  <2>3. QED BY <1>1, <2>2 DEF StaffTypeOK
<1>4. NoneTwice' BY DEF StaffInv, NoneTwice
<1>5. m # FoundersMembership BY DEF FoundersMembership
<1>6. FounderStays' BY <1>5 DEF StaffInv, FounderStays
<1>7. Backed'
  <2>1. ASSUME NEW j \in Invitations, NEW w, Pending(j)', w = invitations'[j].inviter
        PROVE  invitations'[j].role \in RolesGrantableBy(RoleOf(w)')
    <3>1. Pending(j) /\ invitations'[j] = invitations[j] BY <1>2, <2>1
    <3>2. invitations[j].role \in RolesGrantableBy(RoleOf(w))
      BY <2>1, <3>1 DEF StaffInv, Backed, Grants
    <3>3. CASE w # m.user
      <4>1. Among(memberships', w) = Among(memberships, w) BY <3>3 DEF Among
      <4>2. RoleOf(w)' = RoleOf(w) BY <4>1, SameRole
      <4>3. QED BY <3>1, <3>2, <4>2
    <3>4. CASE w = m.user
      <4>1. invitations[j].role \in S BY <1>2, <2>1, <3>1, <3>4
      <4>2. PICK x \in left : TRUE BY <4>1
      <4>3. x \in memberships' /\ x.user = w BY <3>4, <4>2
      <4>4. \A y, z \in memberships' : y.user = z.user => y = z BY <1>4 DEF NoneTwice
      <4>5. RoleIn(memberships', x.user) = x.role BY <4>3, <4>4, RoleOfMember
      <4>6. RoleOf(w)' = x.role BY <4>3, <4>5, RoleNow
      <4>7. S = RolesGrantableBy(x.role) BY <4>2
      <4>8. QED BY <3>1, <4>1, <4>6, <4>7
    <3>5. QED BY <3>3, <3>4
  <2>2. QED BY <2>1 DEF Backed, Grants
<1>8. AcceptedAreClosed'
  <2>1. ASSUME NEW x \in memberships', x.id # Founding PROVE invitations'[x.id].status = "closed"
    <3>1. PICK y \in memberships : y.id = x.id BY <2>1
    <3>2. x.id \in Invitations /\ invitations[x.id].status = "closed"
      BY <2>1, <3>1 DEF StaffInv, StaffTypeOK, Membership, AcceptedAreClosed
    <3>3. QED BY <3>2 DEF RevokeBeyond, Closed
  <2>2. QED BY <2>1 DEF AcceptedAreClosed
<1>9. QED BY <1>2, <1>3, <1>4, <1>6, <1>7, <1>8, FewerWaiting DEF StaffInv

LEMMA OwnersAreNotManaged ==
    ASSUME StaffInv, NEW a, NEW m \in memberships, Manageable(a, m)
    PROVE  m.role # "owner"
<1>1. RoleOf(a) \in Roles
  <2>1. RoleOf(a) # NoRole BY DEF Manageable
  <2>2. PICK x \in memberships : x.user = a BY <2>1 DEF RoleOf, MembershipsOf
  <2>3. RoleOf(a) = x.role BY <2>2, RoleOfMember, RoleNow DEF StaffInv, NoneTwice
  <2>4. QED BY <2>3 DEF StaffInv, StaffTypeOK, Membership
<1>2. StaffRank[m.role] < StaffRank[RoleOf(a)] BY DEF Manageable, CanManageMemberRole
<1>3. QED BY <1>1, <1>2, Ranks

LEMMA StaffKeeps ==
    ASSUME StaffInv, StaffStep
    PROVE  StaffInv'
<1>1. ASSUME NEW a \in Persons, NEW i \in Invitations, NEW r \in Invitable,
             NEW d \in Destinations, InviteStaff(a, i, r, d)
      PROVE  StaffInv'
  BY <1>1, InviteKeeps
<1>2. ASSUME NEW u \in Persons, NEW i \in Invitations,
             RevokeStaffInvitation(u, i) \/ Lapse(i)
      PROVE  StaffInv'
  <2>1. Closed \in Invitation /\ Closed.status = "closed" BY DEF Invitation, Closed
  <2>2. QED BY <1>2, <2>1, CloseKeeps DEF RevokeStaffInvitation, Lapse
<1>3. ASSUME NEW u \in Persons, NEW i \in Invitations, DeclineStaffInvitation(u, i)
      PROVE  StaffInv'
  <2> DEFINE c == [status |-> "declined", destination |-> invitations[i].destination]
  <2>1. Pending(i) BY <1>3 DEF DeclineStaffInvitation, Mine
  <2>2. invitations[i].destination \in Destinations
    BY <2>1 DEF StaffInv, StaffTypeOK, Pending, Invitation, NotSent, Closed
  <2>3. /\ c \in Invitation /\ c.status # "pending"
        /\ invitations[i].status # "closed"
    BY <2>1, <2>2 DEF Invitation, Pending
  <2>4. QED BY <1>3, <2>3, CloseKeeps DEF DeclineStaffInvitation
<1>4. ASSUME NEW u \in Persons, NEW i \in Invitations, AcceptStaffInvitation(u, i)
      PROVE  StaffInv'
  BY <1>4, AcceptKeeps
<1>5. ASSUME NEW a \in Persons, NEW m \in memberships, NEW r \in Invitable,
             ChangeStaffRole(a, m, r)
      PROVE  StaffInv'
  <2> DEFINE left == {[m EXCEPT !.role = r]}
  <2>1. m \in Membership BY DEF StaffInv, StaffTypeOK
  <2>2. /\ left \in SUBSET Membership /\ left # {}
        /\ \A x \in left : x.user = m.user /\ x.id = m.id /\ x.role = r
    BY <2>1 DEF Membership, Invitable
  <2>3. m.role # "owner" BY <1>5, OwnersAreNotManaged DEF ChangeStaffRole
  <2>4. /\ memberships' = (memberships \ {m}) \cup left
        /\ RevokeBeyond(m.user, RolesGrantableBy(r))
    BY <1>5 DEF ChangeStaffRole
  <2>5. \A x, y \in left : x = y OBVIOUS
  <2> HIDE DEF left
  <2>6. QED BY <2>2, <2>3, <2>4, <2>5, RevokeKeeps
<1>6. ASSUME NEW m \in memberships,
             (\E a \in Persons : RemoveStaffMember(a, m)) \/ LeaveBusiness(m)
      PROVE  StaffInv'
  <2>1. m.role # "owner" BY <1>6, OwnersAreNotManaged DEF RemoveStaffMember, LeaveBusiness
  <2>2. memberships' = (memberships \ {m}) \cup {} /\ RevokeBeyond(m.user, {})
    BY <1>6 DEF RemoveStaffMember, LeaveBusiness
  <2>3. {} \in SUBSET Membership OBVIOUS
  <2>4. QED BY <2>1, <2>2, <2>3, RevokeKeeps
<1>7. QED BY <1>1, <1>2, <1>3, <1>4, <1>5, <1>6, StaffAssumption DEF StaffStep

LEMMA StaffStarts ==
    ASSUME StaffInit
    PROVE  StaffInv
<1>1. memberships = {FoundersMembership} /\ \A i \in Invitations : invitations[i] = NotSent
  BY DEF StaffInit, FoundersMembership
<1>2. \A i \in Invitations : ~Pending(i) BY <1>1 DEF Pending, NotSent
<1>3. StaffTypeOK
  <2>1. FoundersMembership \in Membership
    BY StaffAssumption DEF FoundersMembership, Membership, Roles
  <2>2. invitations \in [Invitations -> Invitation] BY DEF StaffInit, Invitation
  <2>3. QED BY <1>1, <2>1, <2>2 DEF StaffTypeOK
<1>4. /\ NoneTwice /\ FounderStays /\ AcceptedAreClosed
  BY <1>1 DEF NoneTwice, FounderStays, AcceptedAreClosed, FoundersMembership
<1>5. Backed /\ OnePerDestination BY <1>2 DEF Backed, OnePerDestination
<1>6. Cardinality(Waiting) <= MaxPending
  <2>1. Waiting = {} BY <1>2 DEF Waiting
  <2>2. QED BY <2>1, FS_EmptySet, StaffAssumption
<1>7. QED BY <1>3, <1>4, <1>5, <1>6 DEF StaffInv

\* The invariant gives the properties of StaffMembership.
LEMMA StaffHolds ==
    ASSUME StaffInv
    PROVE  OneMembership /\ InvitationsBacked
<1>1. ASSUME NEW u \in Persons PROVE Cardinality(MembershipsOf(u)) <= 1
  <2>1. CASE MembershipsOf(u) = {}
    <3>1. Cardinality({}) = 0 BY FS_EmptySet
    <3>2. QED BY <2>1, <3>1
  <2>2. ASSUME NEW m \in MembershipsOf(u) PROVE Cardinality(MembershipsOf(u)) <= 1
    <3>1. MembershipsOf(u) = {m} BY <2>2 DEF StaffInv, NoneTwice, MembershipsOf
    <3>2. Cardinality({m}) = 1 BY FS_Singleton
    <3>3. QED BY <3>1, <3>2
  <2>3. QED BY <2>1, <2>2
<1>2. OneMembership BY <1>1 DEF OneMembership
<1>3. InvitationsBacked
  BY DEF StaffInv, Backed, OnePerDestination, Waiting, InvitationsBacked
<1>4. QED BY <1>2, <1>3

----------------------------------------------------------------------------
(* The invariant.                                                          *)

Locked(c) == calls[c].phase = "locked"
Assigns(c) == Locked(c) /\ calls[c].op = "assign"

\* The holder of a row is the call that is at work on it, and the trip is not finished.
LocksMatch ==
    /\ \A t \in Trips, c \in Calls : lock[t] = c => Locked(c) /\ calls[c].trip = t
    /\ \A c \in Calls : Locked(c) => lock[calls[c].trip] = c /\ calls[c].trip \in Unfinished

\* What a call read under the lock is still there.
LockedReads ==
    \A c \in Calls : Locked(c) =>
        IF calls[c].op = "assign" THEN calls[c].previous = trips[calls[c].trip].driver
        ELSE calls[c].worker \in {Nobody, trips[calls[c].trip].driver}

\* u delivers under membership i, or the release of their leaving is to come or failed.
Covered(u, i) ==
    \/ \E m \in memberships : m.user = u /\ m.id = i /\ Delivers(m.role)
    \/ \E r \in releases : r.user = u /\ ~r.joined
    \/ <<u, FALSE>> \in lost

\* A change dated at came after membership i of u began, or the release of
\* that join is to come or failed.
Settled(u, i, at) ==
    \/ at >= joinedAt[i]
    \/ \E r \in releases : r.user = u /\ r.joined /\ r.at >= joinedAt[i]
    \/ <<u, TRUE>> \in lost

\* A trip given to u under membership i, last changed at.
GivenWell(u, i, at) ==
    u # Nobody =>
        /\ Covered(u, i)
        /\ u = Founder => i = Founding
        /\ \A m \in memberships : m.user = u /\ m.id # i /\ m.id # Founding => Settled(u, m.id, at)

TripsGivenWell ==
    \A t \in Unfinished :
        /\ GivenWell(trips[t].driver, grant[t], movedAt[t])
        /\ trips[t].driver # Nobody => movedAt[t] >= trips[t].updatedAt

\* What is about to be committed is as good.
AssignsWell ==
    \A c \in Calls : Assigns(c) => GivenWell(calls[c].driver, calls[c].under, calls[c].at)

DriverInv ==
    /\ TypeOK
    /\ StaffInv
    /\ LocksMatch
    /\ LockedReads
    /\ DriverEventsChain
    /\ TripsGivenWell
    /\ AssignsWell

----------------------------------------------------------------------------
(* Types.                                                                  *)

LEMMA InCall ==
    ASSUME TypeOK, NEW c \in Calls, calls[c] # Idle
    PROVE  calls[c] \in [phase : {"waiting", "locked"}, op : Moves \cup {"assign"},
                         worker : Persons \cup {Nobody}, trip : Trips,
                         driver : Persons \cup {Nobody}, at : 0..MaxClock,
                         previous : Persons \cup {Nobody}, under : Invitations \cup {Founding}]
BY DEF TypeOK, Call

LEMMA Busy ==
    ASSUME NEW c, calls[c].phase \in {"waiting", "locked"}
    PROVE  calls[c] # Idle
BY DEF Idle

----------------------------------------------------------------------------
(* Steps that leave trips and calls alone.                                 *)

LEMMA FrameKeeps ==
    ASSUME DriverInv, TypeOK', StaffInv', UNCHANGED <<trips, lock, calls, grant, movedAt, told>>,
           \A u, i : Covered(u, i) => Covered(u, i)',
           \A u, i, at : \A m \in memberships' :
              m.user = u /\ m.id = i /\ i # Founding /\ at \in 0..MaxClock =>
                 \/ Settled(u, i, at)'
                 \/ (\E x \in memberships : x.user = u /\ x.id = i) /\ (Settled(u, i, at) => Settled(u, i, at)')
    PROVE  DriverInv'
<1>1. LocksMatch' BY DEF DriverInv, LocksMatch, Locked, Unfinished
<1>2. LockedReads' BY DEF DriverInv, LockedReads, Locked
<1>3. DriverEventsChain' BY DEF DriverInv, DriverEventsChain
<1>4. ASSUME NEW u, NEW i, NEW at \in 0..MaxClock, GivenWell(u, i, at)
      PROVE  GivenWell(u, i, at)'
  <2>1. ASSUME u # Nobody, NEW m \in memberships', m.user = u, m.id # i, m.id # Founding
        PROVE  Settled(u, m.id, at)'
    BY <1>4, <2>1 DEF GivenWell
  <2>2. QED BY <1>4, <2>1 DEF GivenWell
<1>5. TripsGivenWell'
  <2>1. ASSUME NEW t \in Unfinished
        PROVE  /\ GivenWell(trips[t].driver, grant[t], movedAt[t])'
               /\ trips[t].driver # Nobody => movedAt[t] >= trips[t].updatedAt
    <3>1. PICK u, i, at : u = trips[t].driver /\ i = grant[t] /\ at = movedAt[t] OBVIOUS
    <3>2. at \in 0..MaxClock BY <3>1 DEF DriverInv, TypeOK, Unfinished
    <3>3. GivenWell(u, i, at)' BY <1>4, <2>1, <3>1, <3>2 DEF DriverInv, TripsGivenWell
    <3>4. u = trips'[t].driver /\ i = grant'[t] /\ at = movedAt'[t] BY <3>1
    <3>5. QED BY <3>3, <3>4, <2>1 DEF DriverInv, TripsGivenWell, GivenWell
  <2>2. QED BY <2>1 DEF TripsGivenWell, Unfinished
<1>6. AssignsWell'
  <2>1. ASSUME NEW c \in Calls, Assigns(c)
        PROVE  GivenWell(calls[c].driver, calls[c].under, calls[c].at)'
    <3>1. PICK u, i, at : u = calls[c].driver /\ i = calls[c].under /\ at = calls[c].at OBVIOUS
    <3>2. at \in 0..MaxClock BY <2>1, <3>1, InCall, Busy DEF DriverInv, Assigns, Locked
    <3>3. GivenWell(u, i, at)' BY <1>4, <2>1, <3>1, <3>2 DEF DriverInv, AssignsWell
    <3>4. u = calls'[c].driver /\ i = calls'[c].under /\ at = calls'[c].at BY <3>1
    <3>5. QED BY <3>3, <3>4 DEF GivenWell
  <2>2. QED BY <2>1 DEF AssignsWell, Assigns, Locked
<1>7. QED BY <1>1, <1>2, <1>3, <1>5, <1>6 DEF DriverInv

\* A member who leaves or changes role: whoever delivered is still covered.
LEMMA MemberMoves ==
    ASSUME DriverInv, StaffInv', NEW m \in memberships, NEW left,
           memberships' = (memberships \ {m}) \cup left,
           \A x \in left : x.user = m.user /\ x.id = m.id,
           Notify(m.user, m.role, FALSE),
           joinedAt' \in [Invitations -> 0..MaxClock],
           \A i \in Invitations : joinedAt'[i] <= joinedAt[i],
           UNCHANGED movedAt
    PROVE  DriverInv'
<1> DEFINE release == [user |-> m.user, joined |-> FALSE, at |-> 0]
<1>1. /\ UNCHANGED <<trips, lock, calls, clock, grant, told, lost>>
      /\ releases' = IF NeedsRelease(m.user, m.role, FALSE) THEN releases \cup {release} ELSE releases
  BY DEF Notify
<1>2. m \in Membership BY DEF DriverInv, TypeOK, StaffTypeOK
<1>3. TypeOK'
  <2>1. release \in Release BY <1>2, DriverAssumption DEF Release, Membership
  <2>2. releases' \subseteq Release BY <1>1, <2>1 DEF DriverInv, TypeOK
  <2>3. StaffTypeOK' BY DEF StaffInv
  <2>4. QED BY <1>1, <2>2, <2>3 DEF DriverInv, TypeOK
<1>4. releases \subseteq releases' BY <1>1
<1>5. ASSUME NEW u, NEW i, Covered(u, i) PROVE Covered(u, i)'
  <2>1. CASE (\E r \in releases : r.user = u /\ ~r.joined) \/ <<u, FALSE>> \in lost
    BY <1>1, <1>4, <2>1 DEF Covered
  <2>2. ASSUME NEW x \in memberships, x.user = u, x.id = i, Delivers(x.role)
        PROVE  Covered(u, i)'
    <3>1. CASE x # m BY <2>2, <3>1 DEF Covered
    <3>2. CASE x = m
      <4>1. CASE StillEligible(memberships', m.user)
        <5>1. PICK y \in memberships' : y.user = m.user /\ Delivers(y.role)
          BY <4>1 DEF StillEligible
        <5>2. y \in left BY <5>1 DEF DriverInv, StaffInv, NoneTwice
        <5>3. y.user = u /\ y.id = i BY <2>2, <3>2, <5>2
        <5>4. QED BY <5>1, <5>3 DEF Covered
      <4>2. CASE ~StillEligible(memberships', m.user)
        <5>1. NeedsRelease(m.user, m.role, FALSE) BY <2>2, <3>2, <4>2 DEF NeedsRelease
        <5>2. release \in releases' BY <1>1, <5>1
        <5>3. QED BY <2>2, <3>2, <5>2 DEF Covered
      <4>3. QED BY <4>1, <4>2
    <3>3. QED BY <3>1, <3>2
  <2>3. QED BY <1>5, <2>1, <2>2 DEF Covered
<1>6. ASSUME NEW u, NEW i, NEW at \in 0..MaxClock, NEW y \in memberships',
             y.user = u, y.id = i, i # Founding
      PROVE  (\E x \in memberships : x.user = u /\ x.id = i) /\ (Settled(u, i, at) => Settled(u, i, at)')
  <2>1. \E x \in memberships : x.user = u /\ x.id = i BY <1>6
  <2>2. i \in Invitations BY <1>6, <2>1 DEF DriverInv, TypeOK, StaffTypeOK, Membership
  <2>3. joinedAt'[i] <= joinedAt[i] /\ joinedAt[i] \in 0..MaxClock /\ joinedAt'[i] \in 0..MaxClock
    BY <2>2 DEF DriverInv, TypeOK
  <2>4. \A r \in releases : r.at \in 0..MaxClock BY DEF DriverInv, TypeOK, Release
  <2>5. Settled(u, i, at) => Settled(u, i, at)'
    <3>1. at >= joinedAt[i] => at >= joinedAt'[i] BY <2>3, DriverAssumption
    <3>2. \A r \in releases : r.at >= joinedAt[i] => r.at >= joinedAt'[i]
      BY <2>3, <2>4, DriverAssumption
    <3>3. QED BY <1>1, <1>4, <3>1, <3>2 DEF Settled
  <2>6. QED BY <2>1, <2>5
<1>7. QED BY <1>1, <1>3, <1>5, <1>6, FrameKeeps

LEMMA AcceptKeepsTrips ==
    ASSUME DriverInv, StaffInv', NEW u \in Persons, NEW i \in Invitations, Accept(u, i)
    PROVE  DriverInv'
<1> DEFINE release == [user |-> u, joined |-> TRUE, at |-> clock]
           new == [id |-> i, user |-> u, role |-> invitations[i].role]
<1>1. /\ UNCHANGED <<trips, lock, calls, clock, grant, movedAt, told, lost>>
      /\ releases' = releases \cup {release}
      /\ joinedAt' = [joinedAt EXCEPT ![i] = clock]
      /\ memberships' = memberships \cup {new}
      /\ Pending(i)
  BY DEF Accept, Notify, NeedsRelease, AcceptStaffInvitation, Mine
<1>2. TypeOK'
  <2>1. release \in Release BY DEF DriverInv, TypeOK, Release
  <2>2. releases' \subseteq Release BY <1>1, <2>1 DEF DriverInv, TypeOK
  <2>3. joinedAt' \in [Invitations -> 0..MaxClock] BY <1>1 DEF DriverInv, TypeOK
  <2>4. StaffTypeOK' BY DEF StaffInv
  <2>5. QED BY <1>1, <2>2, <2>3, <2>4 DEF DriverInv, TypeOK
<1>3. ASSUME NEW v, NEW j, Covered(v, j) PROVE Covered(v, j)'
  BY <1>1, <1>3 DEF Covered
<1>4. clock \in 0..MaxClock /\ joinedAt \in [Invitations -> 0..MaxClock] BY DEF DriverInv, TypeOK
<1>5. ASSUME NEW v, NEW j, NEW at \in 0..MaxClock, NEW m \in memberships',
             m.user = v, m.id = j, j # Founding
      PROVE  \/ Settled(v, j, at)'
             \/ (\E x \in memberships : x.user = v /\ x.id = j)
                /\ (Settled(v, j, at) => Settled(v, j, at)')
  <2>1. CASE m = new
    <3>1. v = u /\ j = i BY <1>5, <2>1
    <3>2. joinedAt'[j] = clock BY <1>1, <1>4, <3>1
    <3>3. release \in releases' /\ release.at >= joinedAt'[j] BY <1>1, <1>4, <3>2
    <3>4. QED BY <3>1, <3>3 DEF Settled
  <2>2. CASE m \in memberships
    <3>1. j \in Invitations /\ invitations[j].status = "closed"
      BY <1>5, <2>2 DEF DriverInv, StaffInv, StaffTypeOK, Membership, AcceptedAreClosed
    <3>2. j # i BY <1>1, <3>1 DEF Pending
    <3>3. joinedAt'[j] = joinedAt[j] BY <1>1, <1>4, <3>1, <3>2
    <3>4. Settled(v, j, at) => Settled(v, j, at)' BY <1>1, <3>3 DEF Settled
    <3>5. QED BY <1>5, <2>2, <3>4
  <2>3. QED BY <1>1, <2>1, <2>2
<1>6. QED BY <1>1, <1>2, <1>3, <1>5, FrameKeeps

LEMMA StaffingSteps ==
    ASSUME Staffing
    PROVE  StaffStep
<1>1. ASSUME NEW p \in Persons, NEW i \in Invitations, CloseInvite(p, i) \/ Accept(p, i)
      PROVE  StaffStep
  BY <1>1 DEF CloseInvite, Accept, StaffStep
<1>2. QED BY <1>1 DEF Staffing, Invite, Expire, ChangeRole, Remove, Leave, StaffStep

LEMMA StaffingKeeps ==
    ASSUME DriverInv, Staffing
    PROVE  DriverInv'
<1>1. StaffInv' BY StaffingSteps, StaffKeeps DEF DriverInv
<1>2. ASSUME UNCHANGED <<memberships, tripVars>> PROVE DriverInv'
  <2>1. TypeOK' BY <1>1, <1>2 DEF DriverInv, TypeOK, StaffInv, tripVars
  <2>2. \A u, i : Covered(u, i) => Covered(u, i)' BY <1>2 DEF Covered, tripVars
  <2>3. \A u, i, at : Settled(u, i, at) => Settled(u, i, at)' BY <1>2 DEF Settled, tripVars
  <2>4. QED BY <1>1, <1>2, <2>1, <2>2, <2>3, FrameKeeps DEF tripVars
<1>3. joinedAt \in [Invitations -> 0..MaxClock] BY DEF DriverInv, TypeOK
<1>4. ASSUME NEW a \in Persons, NEW m \in memberships, NEW r \in Invitable, ChangeRole(a, m, r)
      PROVE  DriverInv'
  <2> DEFINE left == {[m EXCEPT !.role = r]}
  <2>1. m \in Membership BY DEF DriverInv, TypeOK, StaffTypeOK
  <2>2. \A x \in left : x.user = m.user /\ x.id = m.id BY <2>1 DEF Membership
  <2>3. memberships' = (memberships \ {m}) \cup left
    BY <1>4 DEF ChangeRole, ChangeStaffRole
  <2>4. Notify(m.user, m.role, FALSE) /\ UNCHANGED <<joinedAt, movedAt>>
    BY <1>4 DEF ChangeRole, Notify
  <2>5. \A i \in Invitations : joinedAt'[i] <= joinedAt[i] BY <1>3, <2>4, DriverAssumption
  <2> HIDE DEF left
  <2>6. QED BY <1>1, <1>3, <2>2, <2>3, <2>4, <2>5, MemberMoves
<1>5. ASSUME NEW m \in memberships, (\E a \in Persons : Remove(a, m)) \/ Leave(m)
      PROVE  DriverInv'
  <2> DEFINE left == {}
  <2>1. memberships' = (memberships \ {m}) \cup left /\ Gone(m)
    BY <1>5 DEF Remove, Leave, RemoveStaffMember, LeaveBusiness
  <2>2. Notify(m.user, m.role, FALSE) /\ UNCHANGED movedAt BY <2>1 DEF Gone, Notify
  <2>3. joinedAt' \in [Invitations -> 0..MaxClock]
    <3>1. 0 \in 0..MaxClock BY DriverAssumption
    <3>2. QED BY <1>3, <2>1, <3>1 DEF Gone
  <2>4. \A i \in Invitations : joinedAt'[i] <= joinedAt[i] BY <1>3, <2>1, DriverAssumption DEF Gone
  <2>5. \A x \in left : x.user = m.user /\ x.id = m.id OBVIOUS
  <2> HIDE DEF left
  <2>6. QED BY <1>1, <2>1, <2>2, <2>3, <2>4, <2>5, MemberMoves
<1>6. ASSUME NEW p \in Persons, NEW i \in Invitations, Accept(p, i) PROVE DriverInv'
  BY <1>1, <1>6, AcceptKeepsTrips
<1>7. ASSUME NEW p \in Persons, NEW i \in Invitations, CloseInvite(p, i) PROVE DriverInv'
  BY <1>2, <1>7 DEF CloseInvite, RevokeStaffInvitation, DeclineStaffInvitation
<1>8. ASSUME NEW i \in Invitations, Expire(i) PROVE DriverInv'
  BY <1>2, <1>8 DEF Expire, Lapse
<1>9. ASSUME NEW a \in Persons, NEW i \in Invitations, NEW r \in Invitable, NEW d \in Destinations,
             Invite(a, i, r, d)
      PROVE  DriverInv'
  BY <1>2, <1>9 DEF Invite, InviteStaff
<1>10. QED BY <1>4, <1>5, <1>6, <1>7, <1>8, <1>9 DEF Staffing

----------------------------------------------------------------------------
(* Requests.                                                               *)

LEMMA StaffSame ==
    ASSUME StaffInv, UNCHANGED staffVars
    PROVE  StaffInv'
BY DEF StaffInv, staffVars, StaffTypeOK, NoneTwice, FounderStays, AcceptedAreClosed,
       Backed, Grants, RoleOf, MembershipsOf, OnePerDestination, Waiting, Pending

LEMMA GivenSame ==
    ASSUME UNCHANGED <<staffVars, releases, joinedAt, lost>>,
           NEW u, NEW i, NEW at, GivenWell(u, i, at)
    PROVE  GivenWell(u, i, at)'
BY DEF GivenWell, Covered, Settled, staffVars

\* A request that holds nothing leaves everything else as it was.
LEMMA WaitingKeeps ==
    ASSUME DriverInv, NEW c \in Calls, NEW k \in Call, k.phase # "locked", ~Locked(c),
           calls' = [calls EXCEPT ![c] = k],
           UNCHANGED <<staffVars, trips, lock, releases, clock, grant, movedAt, joinedAt, told, lost>>
    PROVE  DriverInv'
<1>1. calls \in [Calls -> Call] BY DEF DriverInv, TypeOK
<1>2. TypeOK' BY <1>1 DEF DriverInv, TypeOK, staffVars, StaffTypeOK
<1>3. calls'[c] = k /\ \A x \in Calls \ {c} : calls'[x] = calls[x] BY <1>1
<1>4. \A x \in Calls : Locked(x)' => x # c /\ Locked(x) /\ calls'[x] = calls[x]
  BY <1>3 DEF Locked
<1>5. \A x \in Calls : Locked(x) => calls'[x] = calls[x] BY <1>3
<1>6. LocksMatch'
  <2>1. ASSUME NEW t \in Trips, NEW x \in Calls, lock'[t] = x
        PROVE  Locked(x)' /\ calls'[x].trip = t
    <3>1. Locked(x) /\ calls[x].trip = t BY <2>1 DEF DriverInv, LocksMatch
    <3>2. QED BY <1>5, <3>1 DEF Locked
  <2>2. ASSUME NEW x \in Calls, Locked(x)'
        PROVE  lock'[calls'[x].trip] = x /\ calls'[x].trip \in Unfinished
    BY <1>4, <2>2 DEF DriverInv, LocksMatch
  <2>3. QED BY <2>1, <2>2 DEF LocksMatch, Unfinished
<1>7. LockedReads' BY <1>4 DEF DriverInv, LockedReads
<1>8. \A u, i, at : GivenWell(u, i, at) => GivenWell(u, i, at)' BY GivenSame
<1>9. TripsGivenWell'
  <2>1. ASSUME NEW t \in Unfinished
        PROVE  GivenWell(trips[t].driver, grant[t], movedAt[t])'
    <3>1. GivenWell(trips[t].driver, grant[t], movedAt[t]) BY DEF DriverInv, TripsGivenWell
    <3>2. QED BY <3>1 DEF GivenWell, Covered, Settled, staffVars
  <2>2. QED BY <2>1 DEF DriverInv, TripsGivenWell, Unfinished
<1>10. AssignsWell'
  <2>1. ASSUME NEW x \in Calls, Assigns(x)'
        PROVE  GivenWell(calls[x].driver, calls[x].under, calls[x].at)'
    <3>1. Assigns(x) /\ calls'[x] = calls[x] BY <1>4, <2>1 DEF Assigns
    <3>2. GivenWell(calls[x].driver, calls[x].under, calls[x].at)
      BY <3>1 DEF DriverInv, AssignsWell
    <3>3. PICK u, i, at : u = calls[x].driver /\ i = calls[x].under /\ at = calls[x].at OBVIOUS
    <3>4. GivenWell(u, i, at)' BY <1>8, <3>2, <3>3
    <3>5. u = calls'[x].driver /\ i = calls'[x].under /\ at = calls'[x].at BY <3>1, <3>3
    <3>6. QED BY <3>4, <3>5 DEF GivenWell
  <2>2. QED BY <2>1 DEF AssignsWell
<1>11. StaffInv' BY StaffSame DEF DriverInv
<1>12. DriverEventsChain' BY DEF DriverInv, DriverEventsChain
<1>13. QED BY <1>2, <1>6, <1>7, <1>9, <1>10, <1>11, <1>12 DEF DriverInv

\* Whoever may be given a trip now is given it under their own membership.
LEMMA EligibleNow ==
    ASSUME StaffInv, NEW d, NEW at, d # Nobody => Delivers(RoleOf(d))
    PROVE  GivenWell(d, MembershipUnder(d), at)
<1> SUFFICES ASSUME d # Nobody PROVE GivenWell(d, MembershipUnder(d), at) BY DEF GivenWell
<1>1. MembershipsOf(d) # {} BY DEF RoleOf, Delivers, NoRole
<1>2. PICK m \in memberships : m.user = d BY <1>1 DEF MembershipsOf
<1>3. MembershipsOf(d) = {m} /\ RoleOf(d) = m.role
  BY <1>2, RoleOfMember, RoleNow DEF StaffInv, NoneTwice
<1>4. (CHOOSE x \in {m} : TRUE) = m OBVIOUS
<1>5. MembershipUnder(d) = m.id BY <1>3, <1>4 DEF MembershipUnder
<1>6. Covered(d, m.id) BY <1>2, <1>3 DEF Covered
<1>7. d = Founder => m.id = Founding
  BY <1>2 DEF StaffInv, NoneTwice, FounderStays, FoundersMembership
<1>8. \A x \in memberships : x.user = d => x.id = m.id BY <1>2 DEF StaffInv, NoneTwice
<1>9. QED BY <1>5, <1>6, <1>7, <1>8 DEF GivenWell

LEMMA LockKeeps ==
    ASSUME DriverInv, NEW c \in Calls, LockTrip(c)
    PROVE  DriverInv'
<1> DEFINE k == calls[c]
           next == IF k.op = "assign"
                   THEN [k EXCEPT !.phase = "locked", !.previous = trips[k.trip].driver,
                                  !.under = MembershipUnder(k.driver)]
                   ELSE [k EXCEPT !.phase = "locked"]
<1>1. /\ k.phase = "waiting" /\ lock[k.trip] = Free /\ Allowed(k)
      /\ lock' = [lock EXCEPT ![k.trip] = c] /\ calls' = [calls EXCEPT ![c] = next]
      /\ UNCHANGED <<staffVars, trips, releases, clock, grant, movedAt, joinedAt, told, lost>>
  BY DEF LockTrip
<1>2. /\ calls \in [Calls -> Call] /\ lock \in [Trips -> Calls \cup {Free}]
      /\ trips \in [Trips -> Trip]
  BY DEF DriverInv, TypeOK
<1>3. /\ k.op \in Moves \cup {"assign"} /\ k.trip \in Trips /\ k.driver \in Persons \cup {Nobody}
      /\ k \in [phase : {"waiting", "locked"}, op : Moves \cup {"assign"},
                worker : Persons \cup {Nobody}, trip : Trips,
                driver : Persons \cup {Nobody}, at : 0..MaxClock,
                previous : Persons \cup {Nobody}, under : Invitations \cup {Founding}]
  BY <1>1, InCall, Busy DEF DriverInv
<1>4. k.trip \in Unfinished BY <1>1 DEF Allowed, MayAssign, MayMove
<1>5. MembershipUnder(k.driver) \in Invitations \cup {Founding}
  <2>1. CASE MembershipsOf(k.driver) = {} BY <2>1 DEF MembershipUnder
  <2>2. ASSUME NEW m \in MembershipsOf(k.driver)
        PROVE  MembershipUnder(k.driver) \in Invitations \cup {Founding}
    <3>1. MembershipsOf(k.driver) = {m} BY DEF DriverInv, StaffInv, NoneTwice, MembershipsOf
    <3>2. (CHOOSE x \in {m} : TRUE) = m OBVIOUS
    <3>3. MembershipUnder(k.driver) = m.id BY <3>1, <3>2 DEF MembershipUnder
    <3>4. QED BY <3>3 DEF DriverInv, StaffInv, StaffTypeOK, Membership, MembershipsOf
  <2>3. QED BY <2>1, <2>2
<1>6. /\ next \in Call /\ next.phase = "locked" /\ next.op = k.op /\ next.trip = k.trip
      /\ next.driver = k.driver /\ next.worker = k.worker /\ next.at = k.at
      /\ k.op = "assign" => next.previous = trips[k.trip].driver
                            /\ next.under = MembershipUnder(k.driver)
  <2>1. trips[k.trip].driver \in Persons \cup {Nobody} BY <1>2, <1>3 DEF Trip
  <2>2. CASE k.op = "assign"
    <3>1. next = [k EXCEPT !.phase = "locked", !.previous = trips[k.trip].driver,
                           !.under = MembershipUnder(k.driver)]
      BY <2>2
    <3>2. QED BY <1>3, <1>5, <2>1, <2>2, <3>1 DEF Call
  <2>3. CASE k.op # "assign"
    <3>1. next = [k EXCEPT !.phase = "locked"] BY <2>3
    <3>2. QED BY <1>3, <2>3, <3>1 DEF Call
  <2>4. QED BY <2>2, <2>3
<1> HIDE DEF next
<1>7. calls'[c] = next /\ \A x \in Calls \ {c} : calls'[x] = calls[x] BY <1>1, <1>2
<1>8. TypeOK'
  <2>1. calls' \in [Calls -> Call] BY <1>1, <1>2, <1>6
  <2>2. lock' \in [Trips -> Calls \cup {Free}] BY <1>1, <1>2
  <2>3. QED BY <1>1, <2>1, <2>2 DEF DriverInv, TypeOK, staffVars, StaffTypeOK
<1>9. ASSUME NEW x \in Calls, Locked(x)'
      PROVE  \/ x = c
             \/ x # c /\ Locked(x) /\ calls'[x] = calls[x] /\ calls[x].trip # k.trip
                /\ lock[calls[x].trip] = x /\ calls[x].trip \in Unfinished
  BY <1>1, <1>7, <1>9, DriverAssumption DEF Locked, DriverInv, LocksMatch
<1>10. LocksMatch'
  <2>1. ASSUME NEW t \in Trips, NEW x \in Calls, lock'[t] = x
        PROVE  calls'[x].phase = "locked" /\ calls'[x].trip = t
    <3>1. CASE t = k.trip BY <1>1, <1>2, <1>6, <1>7, <2>1, <3>1
    <3>2. CASE t # k.trip
      <4>1. Locked(x) /\ calls[x].trip = t
        BY <1>1, <1>2, <2>1, <3>2 DEF DriverInv, LocksMatch
      <4>2. x # c BY <1>1, <4>1 DEF Locked
      <4>3. QED BY <1>7, <4>1, <4>2 DEF Locked
    <3>3. QED BY <3>1, <3>2
  <2>2. ASSUME NEW x \in Calls, Locked(x)'
        PROVE  lock'[calls'[x].trip] = x /\ calls'[x].trip \in Unfinished
    <3>1. CASE x = c BY <1>1, <1>2, <1>3, <1>4, <1>6, <1>7, <3>1
    <3>2. CASE x # c BY <1>1, <1>2, <1>9, <2>2, <3>2
    <3>3. QED BY <3>1, <3>2
  <2>3. Unfinished' = Unfinished BY <1>1 DEF Unfinished
  <2>4. QED BY <2>1, <2>2, <2>3 DEF LocksMatch, Locked
<1>11. LockedReads'
  <2>1. ASSUME NEW x \in Calls, Locked(x)'
        PROVE  IF calls'[x].op = "assign" THEN calls'[x].previous = trips'[calls'[x].trip].driver
               ELSE calls'[x].worker \in {Nobody, trips'[calls'[x].trip].driver}
    <3>1. CASE x = c
      <4>1. k.op # "assign" => k.worker \in {Nobody, trips[k.trip].driver}
        BY <1>1 DEF Allowed, MayMove
      <4>2. QED BY <1>1, <1>6, <1>7, <3>1, <4>1
    <3>2. CASE x # c BY <1>1, <1>9, <2>1, <3>2 DEF DriverInv, LockedReads
    <3>3. QED BY <3>1, <3>2
  <2>2. QED BY <2>1 DEF LockedReads
<1>12. AssignsWell'
  <2>1. ASSUME NEW x \in Calls, Assigns(x)'
        PROVE  GivenWell(calls[x].driver, calls[x].under, calls[x].at)'
    <3>1. PICK u, i, at : u = calls'[x].driver /\ i = calls'[x].under /\ at = calls'[x].at
      OBVIOUS
    <3>2. GivenWell(u, i, at)
      <4>1. CASE x = c
        <5>1. k.op = "assign" BY <1>6, <1>7, <2>1, <4>1 DEF Assigns
        <5>2. u = k.driver /\ i = MembershipUnder(k.driver)
          BY <1>6, <1>7, <3>1, <4>1, <5>1
        <5>3. k.driver # Nobody => Delivers(RoleOf(k.driver))
          BY <1>1, <5>1 DEF Allowed, MayAssign
        <5>4. QED BY <5>2, <5>3, EligibleNow DEF DriverInv
      <4>2. CASE x # c
        <5>1. Assigns(x) /\ calls'[x] = calls[x] BY <1>7, <2>1, <4>2 DEF Assigns, Locked
        <5>2. QED BY <3>1, <5>1 DEF DriverInv, AssignsWell
      <4>3. QED BY <4>1, <4>2
    <3>3. GivenWell(u, i, at)' BY <1>1, <3>2, GivenSame
    <3>4. QED BY <3>1, <3>3 DEF GivenWell
  <2>2. QED BY <2>1 DEF AssignsWell
<1>13. TripsGivenWell'
  <2>1. ASSUME NEW t \in Unfinished
        PROVE  GivenWell(trips[t].driver, grant[t], movedAt[t])'
    <3>1. GivenWell(trips[t].driver, grant[t], movedAt[t]) BY DEF DriverInv, TripsGivenWell
    <3>2. QED BY <1>1, <3>1 DEF GivenWell, Covered, Settled, staffVars
  <2>2. QED BY <1>1, <2>1 DEF DriverInv, TripsGivenWell, Unfinished
<1>14. StaffInv' BY <1>1, StaffSame DEF DriverInv
<1>15. DriverEventsChain' BY <1>1 DEF DriverInv, DriverEventsChain
<1>16. QED BY <1>8, <1>10, <1>11, <1>12, <1>13, <1>14, <1>15 DEF DriverInv

\* A call that ends, whatever it did to its own trip.
LEMMA EndKeeps ==
    ASSUME DriverInv, NEW c \in Calls, Locked(c), EndCall(c),
           UNCHANGED <<staffVars, releases, clock, joinedAt, lost>>,
           trips' \in [Trips -> Trip], grant' \in [Trips -> Invitations \cup {Founding}],
           movedAt' \in [Trips -> 0..MaxClock],
           told' \in [Trips -> [driver : Persons \cup {Nobody}, chained : BOOLEAN]],
           \A t \in Trips \ {calls[c].trip} :
              /\ trips'[t] = trips[t] /\ grant'[t] = grant[t]
              /\ movedAt'[t] = movedAt[t] /\ told'[t] = told[t],
           told'[calls[c].trip] = [driver |-> trips'[calls[c].trip].driver, chained |-> TRUE],
           LET t == calls[c].trip IN
           trips'[t].status = "unfinished" /\ trips'[t].driver # Nobody =>
              /\ GivenWell(trips'[t].driver, grant'[t], movedAt'[t])
              /\ movedAt'[t] >= trips'[t].updatedAt
    PROVE  DriverInv'
<1> DEFINE own == calls[c].trip
<1>1. /\ lock' = [lock EXCEPT ![own] = Free] /\ calls' = [calls EXCEPT ![c] = Idle]
  BY DEF EndCall
<1>2. calls \in [Calls -> Call] /\ lock \in [Trips -> Calls \cup {Free}]
  BY DEF DriverInv, TypeOK
<1>3. own \in Trips /\ lock[own] = c BY InCall, Busy DEF DriverInv, Locked, LocksMatch
<1>4. calls'[c] = Idle /\ \A x \in Calls \ {c} : calls'[x] = calls[x] BY <1>1, <1>2
<1>5. TypeOK'
  <2>1. calls' \in [Calls -> Call] BY <1>1, <1>2 DEF Call
  <2>2. lock' \in [Trips -> Calls \cup {Free}] BY <1>1, <1>2
  <2>3. QED BY <2>1, <2>2 DEF DriverInv, TypeOK, staffVars, StaffTypeOK
<1>6. ASSUME NEW x \in Calls, Locked(x)'
      PROVE  /\ x # c /\ Locked(x) /\ calls'[x] = calls[x] /\ calls[x].trip # own
             /\ calls[x].trip \in Trips /\ lock[calls[x].trip] = x
             /\ calls[x].trip \in Unfinished /\ trips'[calls[x].trip] = trips[calls[x].trip]
  <2>1. x # c BY <1>4, <1>6 DEF Locked, Idle
  <2>2. Locked(x) /\ calls'[x] = calls[x] BY <1>4, <1>6, <2>1 DEF Locked
  <2>3. lock[calls[x].trip] = x /\ calls[x].trip \in Unfinished
    BY <2>2 DEF DriverInv, LocksMatch
  <2>4. calls[x].trip # own BY <1>3, <2>1, <2>3
  <2>5. calls[x].trip \in Trips BY <2>3 DEF Unfinished
  <2>6. QED BY <2>1, <2>2, <2>3, <2>4, <2>5
<1>7. LocksMatch'
  <2>1. ASSUME NEW t \in Trips, NEW x \in Calls, lock'[t] = x
        PROVE  calls'[x].phase = "locked" /\ calls'[x].trip = t
    <3>1. t # own BY <1>1, <1>2, <2>1, DriverAssumption
    <3>2. lock[t] = x BY <1>1, <1>2, <2>1, <3>1
    <3>3. Locked(x) /\ calls[x].trip = t BY <3>2 DEF DriverInv, LocksMatch
    <3>4. x # c BY <3>1, <3>3
    <3>5. QED BY <1>4, <3>3, <3>4 DEF Locked
  <2>2. ASSUME NEW x \in Calls, Locked(x)'
        PROVE  /\ lock'[calls'[x].trip] = x
               /\ calls'[x].trip \in Trips /\ trips'[calls'[x].trip].status = "unfinished"
    BY <1>1, <1>2, <1>6, <2>2 DEF Unfinished
  <2>3. QED BY <2>1, <2>2 DEF LocksMatch, Locked, Unfinished
<1>8. LockedReads'
  <2>1. ASSUME NEW x \in Calls, Locked(x)'
        PROVE  IF calls'[x].op = "assign" THEN calls'[x].previous = trips'[calls'[x].trip].driver
               ELSE calls'[x].worker \in {Nobody, trips'[calls'[x].trip].driver}
    BY <1>6, <2>1 DEF DriverInv, LockedReads
  <2>2. QED BY <2>1 DEF LockedReads
<1>9. DriverEventsChain' BY DEF DriverInv, DriverEventsChain
<1>10. AssignsWell'
  <2>1. ASSUME NEW x \in Calls, Assigns(x)'
        PROVE  GivenWell(calls[x].driver, calls[x].under, calls[x].at)'
    <3>1. Assigns(x) /\ calls'[x] = calls[x] BY <1>6, <2>1 DEF Assigns
    <3>2. PICK u, i, at : u = calls[x].driver /\ i = calls[x].under /\ at = calls[x].at OBVIOUS
    <3>3. GivenWell(u, i, at)' BY <3>1, <3>2, GivenSame DEF DriverInv, AssignsWell
    <3>4. u = calls'[x].driver /\ i = calls'[x].under /\ at = calls'[x].at BY <3>1, <3>2
    <3>5. QED BY <3>3, <3>4 DEF GivenWell
  <2>2. QED BY <2>1 DEF AssignsWell
<1>11. TripsGivenWell'
  <2>1. ASSUME NEW t \in Trips, trips'[t].status = "unfinished"
        PROVE  /\ GivenWell(trips[t].driver, grant[t], movedAt[t])'
               /\ trips'[t].driver # Nobody => movedAt'[t] >= trips'[t].updatedAt
    <3>1. PICK u, i, at : u = trips'[t].driver /\ i = grant'[t] /\ at = movedAt'[t] OBVIOUS
    <3>2. GivenWell(u, i, at) /\ (u # Nobody => at >= trips'[t].updatedAt)
      <4>1. CASE t = own BY <2>1, <3>1, <4>1 DEF GivenWell
      <4>2. CASE t # own
        <5>1. t \in Unfinished BY <2>1, <4>2 DEF Unfinished
        <5>2. QED BY <3>1, <4>2, <5>1 DEF DriverInv, TripsGivenWell
      <4>3. QED BY <4>1, <4>2
    <3>3. GivenWell(u, i, at)' BY <3>2, GivenSame
    <3>4. QED BY <3>1, <3>2, <3>3 DEF GivenWell
  <2>2. QED BY <2>1 DEF TripsGivenWell, Unfinished
<1>12. StaffInv' BY StaffSame DEF DriverInv
<1>13. QED BY <1>5, <1>7, <1>8, <1>9, <1>10, <1>11, <1>12 DEF DriverInv

LEMMA AssignKeeps ==
    ASSUME DriverInv, NEW c \in Calls, CommitAssign(c)
    PROVE  DriverInv'
<1> DEFINE k == calls[c]
           t == k.trip
<1>1. /\ Locked(c) /\ Assigns(c) /\ EndCall(c)
      /\ trips' = [trips EXCEPT ![t].driver = k.driver, ![t].updatedAt = k.at]
      /\ told' = [told EXCEPT ![t] = Announced(t, k.previous, k.driver)]
      /\ grant' = [grant EXCEPT ![t] = k.under]
      /\ movedAt' = [movedAt EXCEPT ![t] = k.at]
      /\ UNCHANGED <<staffVars, releases, clock, joinedAt, lost>>
  BY DEF CommitAssign, Locked, Assigns
<1>2. /\ t \in Trips /\ k.driver \in Persons \cup {Nobody} /\ k.at \in 0..MaxClock
      /\ k.under \in Invitations \cup {Founding} /\ k.previous = trips[t].driver
  BY <1>1, InCall, Busy DEF DriverInv, Locked, Assigns, LockedReads
<1>3. /\ trips \in [Trips -> Trip] /\ grant \in [Trips -> Invitations \cup {Founding}]
      /\ movedAt \in [Trips -> 0..MaxClock]
      /\ told \in [Trips -> [driver : Persons \cup {Nobody}, chained : BOOLEAN]]
      /\ told[t] = [driver |-> trips[t].driver, chained |-> TRUE]
  BY <1>2 DEF DriverInv, TypeOK, DriverEventsChain
<1>4. trips[t] \in Trip BY <1>2, <1>3
<1>5. [trips[t] EXCEPT !.driver = k.driver, !.updatedAt = k.at] \in Trip
  BY <1>2, <1>4 DEF Trip
<1>6. trips' = [trips EXCEPT ![t] = [trips[t] EXCEPT !.driver = k.driver, !.updatedAt = k.at]]
  BY <1>1, <1>2, <1>3
<1>7. Announced(t, k.previous, k.driver) = [driver |-> k.driver, chained |-> TRUE]
  <2>1. told[t].chained = TRUE /\ told[t].driver = k.previous BY <1>2, <1>3
  <2>2. (told[t].chained /\ told[t].driver = k.previous) = TRUE BY <2>1
  <2>3. QED BY <2>2, Zenon DEF Announced
<1>8. /\ trips' \in [Trips -> Trip] /\ grant' \in [Trips -> Invitations \cup {Founding}]
      /\ movedAt' \in [Trips -> 0..MaxClock]
      /\ told' \in [Trips -> [driver : Persons \cup {Nobody}, chained : BOOLEAN]]
  <2>1. trips' \in [Trips -> Trip] BY <1>3, <1>5, <1>6
  <2>2. grant' \in [Trips -> Invitations \cup {Founding}] /\ movedAt' \in [Trips -> 0..MaxClock]
    BY <1>1, <1>2, <1>3
  <2>3. told' \in [Trips -> [driver : Persons \cup {Nobody}, chained : BOOLEAN]]
    BY <1>1, <1>2, <1>3, <1>7
  <2>4. QED BY <2>1, <2>2, <2>3
<1>9. \A x \in Trips \ {t} :
         trips'[x] = trips[x] /\ grant'[x] = grant[x] /\ movedAt'[x] = movedAt[x] /\ told'[x] = told[x]
  BY <1>1, <1>3
<1>10. /\ trips'[t].driver = k.driver /\ trips'[t].updatedAt = k.at
       /\ grant'[t] = k.under /\ movedAt'[t] = k.at
  <2>1. trips'[t] = [trips[t] EXCEPT !.driver = k.driver, !.updatedAt = k.at]
    BY <1>2, <1>3, <1>6
  <2>2. grant'[t] = k.under /\ movedAt'[t] = k.at BY <1>1, <1>2, <1>3
  <2>3. QED BY <1>4, <2>1, <2>2 DEF Trip
<1>11. told'[t] = [driver |-> trips'[t].driver, chained |-> TRUE]
  BY <1>1, <1>2, <1>3, <1>7, <1>10
<1>12. GivenWell(k.driver, k.under, k.at) BY <1>1 DEF DriverInv, AssignsWell
<1>13. k.at >= k.at BY <1>2, DriverAssumption
<1>14. QED BY <1>1, <1>8, <1>9, <1>10, <1>11, <1>12, <1>13, EndKeeps

LEMMA MoveKeeps ==
    ASSUME DriverInv, NEW c \in Calls, CommitMove(c)
    PROVE  DriverInv'
<1> DEFINE k == calls[c]
           t == k.trip
           moved == IF k.at > movedAt[t] THEN k.at ELSE movedAt[t]
<1>1. /\ Locked(c) /\ EndCall(c) /\ k.op # "assign"
      /\ trips' = [trips EXCEPT ![t].status = After(k.op), ![t].updatedAt = k.at]
      /\ movedAt' = [movedAt EXCEPT ![t] = IF k.at > @ THEN k.at ELSE @]
      /\ UNCHANGED <<staffVars, releases, clock, joinedAt, lost, grant, told>>
  BY DEF CommitMove, Locked
<1>2. t \in Unfinished /\ t \in Trips /\ k.at \in 0..MaxClock
  BY <1>1, InCall, Busy DEF DriverInv, Locked, LocksMatch
<1>3. /\ trips \in [Trips -> Trip] /\ grant \in [Trips -> Invitations \cup {Founding}]
      /\ movedAt \in [Trips -> 0..MaxClock]
      /\ told \in [Trips -> [driver : Persons \cup {Nobody}, chained : BOOLEAN]]
      /\ told[t] = [driver |-> trips[t].driver, chained |-> TRUE]
  BY <1>2 DEF DriverInv, TypeOK, DriverEventsChain
<1>4. trips[t] \in Trip BY <1>2, <1>3
<1>5. /\ moved \in 0..MaxClock /\ movedAt[t] \in 0..MaxClock
      /\ moved >= movedAt[t] /\ moved >= k.at
  BY <1>2, <1>3, DriverAssumption
<1>6. movedAt' = [movedAt EXCEPT ![t] = moved] BY <1>1, <1>2, <1>3
<1>7. trips' = [trips EXCEPT ![t] = [trips[t] EXCEPT !.status = After(k.op), !.updatedAt = k.at]]
  BY <1>1, <1>2, <1>3
<1>8. [trips[t] EXCEPT !.status = After(k.op), !.updatedAt = k.at] \in Trip
  BY <1>2, <1>4 DEF Trip, After
<1>9. trips' \in [Trips -> Trip] /\ movedAt' \in [Trips -> 0..MaxClock]
  BY <1>3, <1>5, <1>6, <1>7, <1>8
<1>10. \A x \in Trips \ {t} : trips'[x] = trips[x] /\ movedAt'[x] = movedAt[x]
  BY <1>3, <1>6, <1>7
<1>11. trips'[t].driver = trips[t].driver /\ trips'[t].updatedAt = k.at /\ movedAt'[t] = moved
  <2>1. trips'[t] = [trips[t] EXCEPT !.status = After(k.op), !.updatedAt = k.at]
    BY <1>2, <1>3, <1>7
  <2>2. QED BY <1>2, <1>3, <1>4, <1>6, <2>1 DEF Trip
<1>12. GivenWell(trips[t].driver, grant[t], moved)
  <2> HIDE DEF moved
  <2>1. GivenWell(trips[t].driver, grant[t], movedAt[t]) BY <1>2 DEF DriverInv, TripsGivenWell
  <2>2. ASSUME NEW m \in memberships, m.id # Founding, movedAt[t] >= joinedAt[m.id]
        PROVE  moved >= joinedAt[m.id]
    <3>1. joinedAt[m.id] \in 0..MaxClock
      BY <2>2 DEF DriverInv, TypeOK, StaffTypeOK, Membership
    <3>2. QED BY <1>5, <2>2, <3>1, DriverAssumption
  <2>3. QED BY <2>1, <2>2 DEF GivenWell, Settled
<1>13. told'[t] = [driver |-> trips'[t].driver, chained |-> TRUE] BY <1>1, <1>3, <1>11
<1> HIDE DEF moved
<1>14. QED BY <1>1, <1>3, <1>5, <1>9, <1>10, <1>11, <1>12, <1>13, EndKeeps

LEMMA RollbackKeeps ==
    ASSUME DriverInv, NEW c \in Calls, Rollback(c)
    PROVE  DriverInv'
<1> DEFINE t == calls[c].trip
<1>1. /\ Locked(c) /\ EndCall(c)
      /\ UNCHANGED <<staffVars, trips, releases, clock, grant, movedAt, joinedAt, told, lost>>
  BY DEF Rollback, Locked
<1>2. t \in Unfinished /\ t \in Trips
  BY <1>1, InCall, Busy DEF DriverInv, Locked, LocksMatch
<1>3. /\ GivenWell(trips[t].driver, grant[t], movedAt[t])
      /\ trips[t].driver # Nobody => movedAt[t] >= trips[t].updatedAt
  BY <1>2 DEF DriverInv, TripsGivenWell
<1>4. /\ trips' \in [Trips -> Trip] /\ grant' \in [Trips -> Invitations \cup {Founding}]
      /\ movedAt' \in [Trips -> 0..MaxClock]
      /\ told' \in [Trips -> [driver : Persons \cup {Nobody}, chained : BOOLEAN]]
      /\ told'[t] = [driver |-> trips'[t].driver, chained |-> TRUE]
  BY <1>1, <1>2 DEF DriverInv, TypeOK, DriverEventsChain
<1>5. QED BY <1>1, <1>3, <1>4, EndKeeps

----------------------------------------------------------------------------
(* Releases.                                                               *)

\* No call is at work on any trip while one runs.
LEMMA ReleaseKeeps ==
    ASSUME DriverInv, NEW r \in releases, ReleaseTrips(r)
    PROVE  DriverInv'
<1> DEFINE cleared == {t \in Unfinished : Stale(r, t)}
<1>1. /\ trips' = [t \in Trips |-> IF t \in cleared
                      THEN [trips[t] EXCEPT !.driver = Nobody, !.updatedAt = r.at] ELSE trips[t]]
      /\ told' = [t \in Trips |-> IF t \in cleared THEN Announced(t, r.user, Nobody) ELSE told[t]]
      /\ grant' = [t \in Trips |-> IF t \in cleared THEN Founding ELSE grant[t]]
      /\ releases' = releases \ {r}
      /\ UNCHANGED <<staffVars, lock, calls, clock, movedAt, joinedAt, lost>>
      /\ \A t \in Unfinished : lock[t] = Free
  BY DEF ReleaseTrips, ClearTrips
<1>2. /\ r \in Release /\ trips \in [Trips -> Trip]
      /\ grant \in [Trips -> Invitations \cup {Founding}]
      /\ told \in [Trips -> [driver : Persons \cup {Nobody}, chained : BOOLEAN]]
      /\ \A t \in Trips : told[t] = [driver |-> trips[t].driver, chained |-> TRUE]
  BY DEF DriverInv, TypeOK, DriverEventsChain
<1>3. \A c \in Calls : ~Locked(c)
  BY <1>1, DriverAssumption DEF DriverInv, LocksMatch
<1>4. \A t \in Trips :
         IF t \in cleared
         THEN /\ trips'[t] = [trips[t] EXCEPT !.driver = Nobody, !.updatedAt = r.at]
              /\ told'[t] = Announced(t, r.user, Nobody) /\ trips[t].driver = r.user
         ELSE trips'[t] = trips[t] /\ told'[t] = told[t] /\ grant'[t] = grant[t]
  BY <1>1 DEF Stale
<1>5. \A t \in cleared : Announced(t, r.user, Nobody) = [driver |-> Nobody, chained |-> TRUE]
  <2>1. ASSUME NEW t \in cleared
        PROVE  Announced(t, r.user, Nobody) = [driver |-> Nobody, chained |-> TRUE]
    <3>1. t \in Trips /\ trips[t].driver = r.user BY DEF Unfinished, Stale
    <3>2. told[t].chained = TRUE /\ told[t].driver = r.user BY <1>2, <3>1
    <3>3. (told[t].chained /\ told[t].driver = r.user) = TRUE BY <3>2
    <3>4. QED BY <3>3, Zenon DEF Announced
  <2>2. QED BY <2>1
<1>6. \A t \in Trips :
         /\ trips'[t] \in Trip /\ trips'[t].status = trips[t].status
         /\ told'[t] = [driver |-> trips'[t].driver, chained |-> TRUE]
         /\ t \in cleared => trips'[t].driver = Nobody
  <2>1. ASSUME NEW t \in Trips, t \in cleared
        PROVE  /\ trips'[t] \in Trip /\ trips'[t].status = trips[t].status
               /\ told'[t] = [driver |-> trips'[t].driver, chained |-> TRUE]
               /\ trips'[t].driver = Nobody
    <3>1. trips'[t] = [trips[t] EXCEPT !.driver = Nobody, !.updatedAt = r.at] BY <1>4, <2>1
    <3>2. trips[t] \in Trip /\ r.at \in 0..MaxClock BY <1>2 DEF Release
    <3>3. trips'[t] \in Trip /\ trips'[t].status = trips[t].status /\ trips'[t].driver = Nobody
      BY <3>1, <3>2 DEF Trip
    <3>4. QED BY <1>4, <1>5, <2>1, <3>3
  <2>2. ASSUME NEW t \in Trips, t \notin cleared
        PROVE  trips'[t] = trips[t] /\ told'[t] = told[t] /\ trips[t] \in Trip
    BY <1>2, <1>4, <2>2
  <2> HIDE DEF cleared
  <2>3. QED BY <1>2, <2>1, <2>2
<1>7. TypeOK'
  <2>1. trips' \in [Trips -> Trip] BY <1>1, <1>6
  <2>2. told' \in [Trips -> [driver : Persons \cup {Nobody}, chained : BOOLEAN]]
    <3>1. \A t \in Trips : trips'[t].driver \in Persons \cup {Nobody} BY <1>6 DEF Trip
    <3>2. ASSUME NEW d \in Persons \cup {Nobody}
          PROVE  [driver |-> d, chained |-> TRUE] \in [driver : Persons \cup {Nobody}, chained : BOOLEAN]
      OBVIOUS
    <3>3. \A t \in Trips : told'[t] \in [driver : Persons \cup {Nobody}, chained : BOOLEAN]
      <4>1. ASSUME NEW t \in Trips
            PROVE  told'[t] \in [driver : Persons \cup {Nobody}, chained : BOOLEAN]
        <5>1. told'[t] = [driver |-> trips'[t].driver, chained |-> TRUE] BY <1>6
        <5>2. trips'[t].driver \in Persons \cup {Nobody} BY <3>1
        <5>3. QED BY <3>2, <5>1, <5>2
      <4>2. QED BY <4>1
    <3>4. QED BY <1>1, <3>3
  <2>3. grant' \in [Trips -> Invitations \cup {Founding}] BY <1>1, <1>2
  <2>4. QED BY <1>1, <2>1, <2>2, <2>3 DEF DriverInv, TypeOK, staffVars, StaffTypeOK
<1>8. DriverEventsChain' BY <1>6 DEF DriverEventsChain
<1>9. \A c \in Calls : ~Locked(c)' BY <1>1, <1>3 DEF Locked
<1>10. LocksMatch' /\ LockedReads' /\ AssignsWell'
  <2>1. \A t \in Trips, c \in Calls : lock'[t] # c BY <1>1, <1>3 DEF DriverInv, LocksMatch
  <2>2. QED BY <1>9, <2>1 DEF LocksMatch, LockedReads, AssignsWell, Assigns
<1>11. TripsGivenWell'
  <2>1. ASSUME NEW t \in Trips, trips'[t].status = "unfinished", trips'[t].driver # Nobody
        PROVE  /\ GivenWell(trips[t].driver, grant[t], movedAt[t])'
               /\ movedAt'[t] >= trips'[t].updatedAt
    <3>1. t \notin cleared /\ trips'[t] = trips[t] /\ grant'[t] = grant[t] /\ t \in Unfinished
      BY <1>4, <1>6, <2>1 DEF Unfinished
    <3>2. PICK u, i, at : u = trips[t].driver /\ i = grant[t] /\ at = movedAt[t] OBVIOUS
    <3>3. GivenWell(u, i, at) /\ at >= trips[t].updatedAt /\ u # Nobody
      BY <2>1, <3>1, <3>2 DEF DriverInv, TripsGivenWell
    <3>4. u = r.user => r.joined /\ ~(trips[t].updatedAt < r.at)
      BY <3>1, <3>2 DEF Stale
    <3>5. Covered(u, i)' BY <1>1, <3>3, <3>4 DEF GivenWell, Covered, staffVars
    <3>6. ASSUME NEW m \in memberships, m.user = u, m.id # i, m.id # Founding
          PROVE  Settled(u, m.id, at)'
      <4>1. Settled(u, m.id, at) BY <3>3, <3>6 DEF GivenWell
      <4>2. ASSUME u = r.user, r.at >= joinedAt[m.id] PROVE at >= joinedAt[m.id]
        <5>1. trips[t].updatedAt \in 0..MaxClock /\ r.at \in 0..MaxClock /\ at \in 0..MaxClock
          BY <1>2, <3>2 DEF DriverInv, TypeOK, Trip, Release
        <5>2. joinedAt[m.id] \in 0..MaxClock
          BY <3>6 DEF DriverInv, TypeOK, StaffTypeOK, Membership
        <5>3. QED BY <3>3, <3>4, <4>2, <5>1, <5>2, DriverAssumption
      <4>3. QED BY <1>1, <4>1, <4>2 DEF Settled
    <3>7. GivenWell(u, i, at)' BY <1>1, <3>3, <3>5, <3>6 DEF GivenWell, staffVars
    <3>8. u = trips'[t].driver /\ i = grant'[t] /\ at = movedAt'[t] BY <1>1, <3>1, <3>2
    <3>9. QED BY <3>1, <3>2, <3>3, <3>7, <3>8, <1>1 DEF GivenWell
  <2>2. ASSUME NEW t \in Trips, trips'[t].status = "unfinished", trips'[t].driver = Nobody
        PROVE  GivenWell(trips[t].driver, grant[t], movedAt[t])'
    BY <2>2 DEF GivenWell
  <2>3. QED BY <2>1, <2>2 DEF TripsGivenWell, Unfinished
<1>12. StaffInv' BY <1>1, StaffSame DEF DriverInv
<1>13. QED BY <1>7, <1>8, <1>10, <1>11, <1>12 DEF DriverInv

LEMMA LoseKeeps ==
    ASSUME DriverInv, NEW r \in releases, LoseRelease(r)
    PROVE  DriverInv'
<1>1. /\ releases' = releases \ {r} /\ lost' = lost \cup {<<r.user, r.joined>>}
      /\ UNCHANGED <<staffVars, trips, lock, calls, clock, grant, movedAt, joinedAt, told>>
  BY DEF LoseRelease
<1>2. r \in Release BY DEF DriverInv, TypeOK
<1>3. r.user \in Persons /\ r.joined \in BOOLEAN BY <1>2 DEF Release
<1>4. TypeOK'
  <2>1. releases' \subseteq Release /\ lost' \subseteq Persons \X BOOLEAN
    BY <1>1, <1>3 DEF DriverInv, TypeOK
  <2>2. QED BY <1>1, <2>1 DEF DriverInv, TypeOK, staffVars, StaffTypeOK
<1>5. StaffInv' BY <1>1, StaffSame DEF DriverInv
<1>6. ASSUME NEW u, NEW i, Covered(u, i) PROVE Covered(u, i)'
  <2>1. CASE u = r.user /\ ~r.joined
    <3>1. r.joined = FALSE BY <1>3, <2>1
    <3>2. QED BY <1>1, <2>1, <3>1 DEF Covered
  <2>2. CASE ~(u = r.user /\ ~r.joined) BY <1>1, <1>6, <2>2 DEF Covered, staffVars
  <2>3. QED BY <2>1, <2>2
<1>7. ASSUME NEW u, NEW i, NEW at, Settled(u, i, at) PROVE Settled(u, i, at)'
  <2>1. CASE u = r.user /\ r.joined
    <3>1. r.joined = TRUE BY <1>3, <2>1
    <3>2. QED BY <1>1, <2>1, <3>1 DEF Settled
  <2>2. CASE ~(u = r.user /\ r.joined) BY <1>1, <1>7, <2>2 DEF Settled
  <2>3. QED BY <2>1, <2>2
<1>8. memberships' = memberships BY <1>1 DEF staffVars
<1>9. QED BY <1>1, <1>4, <1>5, <1>6, <1>7, <1>8, FrameKeeps

----------------------------------------------------------------------------
(* The theorems.                                                           *)

LEMMA AskKeeps ==
    ASSUME DriverInv, NEW c \in Calls, NEW a \in Persons, NEW op \in Moves \cup {"assign"},
           NEW t \in Trips, NEW d \in Persons \cup {Nobody}, Ask(c, a, op, t, d)
    PROVE  DriverInv'
<1> DEFINE k == [phase |-> "waiting", op |-> op,
                 worker |-> IF Dispatches(RoleOf(a)) THEN Nobody ELSE a,
                 trip |-> t, driver |-> d, at |-> clock, previous |-> Nobody, under |-> Founding]
<1>1. /\ calls[c] = Idle /\ calls' = [calls EXCEPT ![c] = k]
      /\ UNCHANGED <<staffVars, trips, lock, releases, clock, grant, movedAt, joinedAt, told, lost>>
  BY DEF Ask
<1>2. clock \in 0..MaxClock BY DEF DriverInv, TypeOK
<1>3. k \in Call /\ k.phase # "locked" BY <1>2 DEF Call
<1>4. ~Locked(c) BY <1>1 DEF Locked, Idle
<1> HIDE DEF k
<1>5. QED BY <1>1, <1>3, <1>4, WaitingKeeps

LEMMA DriverStep ==
    ASSUME DriverInv, [Next]_vars
    PROVE  DriverInv'
<1>1. ASSUME UNCHANGED <<staffVars, trips, lock, calls, releases, grant, movedAt, joinedAt, told, lost>>,
             clock' \in 0..MaxClock
      PROVE  DriverInv'
  <2>1. TypeOK' BY <1>1 DEF DriverInv, TypeOK, staffVars, StaffTypeOK
  <2>2. StaffInv' BY <1>1, StaffSame DEF DriverInv
  <2>3. \A u, i : Covered(u, i) => Covered(u, i)' BY <1>1 DEF Covered, staffVars
  <2>4. \A u, i, at : Settled(u, i, at) => Settled(u, i, at)' BY <1>1 DEF Settled
  <2>5. memberships' = memberships BY <1>1 DEF staffVars
  <2>6. QED BY <1>1, <2>1, <2>2, <2>3, <2>4, <2>5, FrameKeeps
<1>2. clock \in 0..MaxClock BY DEF DriverInv, TypeOK
<1>3. CASE UNCHANGED vars BY <1>1, <1>2, <1>3 DEF vars, tripVars
<1>4. CASE Tick
  <2>1. clock' \in 0..MaxClock BY <1>2, <1>4, DriverAssumption DEF Tick
  <2>2. QED BY <1>1, <1>4, <2>1 DEF Tick
<1>5. CASE Asking
  <2>1. Operations \subseteq Moves /\ Drivers \subseteq Persons \cup {Nobody} BY DriverAssumption
  <2>2. PICK c \in Calls, a \in Persons, t \in Trips,
             op \in Moves \cup {"assign"}, d \in Persons \cup {Nobody} : Ask(c, a, op, t, d)
    BY <1>5, <2>1 DEF Asking
  <2>3. QED BY <2>2, AskKeeps
<1>6. CASE Staffing BY <1>6, StaffingKeeps
<1>7. ASSUME NEW r \in releases, Releasing(r) PROVE DriverInv'
  BY <1>7, ReleaseKeeps, LoseKeeps DEF Releasing
<1>8. ASSUME NEW c \in Calls, Working(c) PROVE DriverInv'
  <2>1. CASE Refuse(c)
    <3>1. ~Locked(c) BY <2>1 DEF Refuse, Locked
    <3>2. Idle \in Call /\ Idle.phase # "locked" BY DEF Call, Idle
    <3>3. QED BY <2>1, <3>1, <3>2, WaitingKeeps DEF Refuse
  <2>2. QED BY <1>8, <2>1, LockKeeps, AssignKeeps, MoveKeeps, RollbackKeeps DEF Working
<1>9. QED BY <1>3, <1>4, <1>5, <1>6, <1>7, <1>8 DEF Next

LEMMA DriverStart ==
    ASSUME Init
    PROVE  DriverInv
<1>1. StaffInv BY StaffStarts DEF Init
<1>2. /\ \A t \in Trips : trips[t] = [status |-> "unfinished", driver |-> Nobody, updatedAt |-> 0]
      /\ \A t \in Trips : lock[t] = Free /\ \A t2 \in Trips : told[t2].driver = Nobody
      /\ \A c \in Calls : calls[c] = Idle
      /\ releases = {} /\ lost = {}
  BY DEF Init
<1>3. TypeOK
  <2>1. 0 \in 0..MaxClock BY DriverAssumption
  <2>2. trips \in [Trips -> Trip] BY <2>1 DEF Init, Trip
  <2>3. calls \in [Calls -> Call] /\ lock \in [Trips -> Calls \cup {Free}] BY DEF Init, Call
  <2>4. told \in [Trips -> [driver : Persons \cup {Nobody}, chained : BOOLEAN]]
    <3>1. [driver |-> Nobody, chained |-> TRUE] \in [driver : Persons \cup {Nobody}, chained : BOOLEAN]
      OBVIOUS
    <3>2. QED BY <3>1 DEF Init
  <2>5. /\ grant \in [Trips -> Invitations \cup {Founding}] /\ movedAt \in [Trips -> 0..MaxClock]
        /\ joinedAt \in [Invitations -> 0..MaxClock] /\ clock \in 0..MaxClock
    BY <2>1 DEF Init
  <2>6. QED BY <1>1, <1>2, <2>2, <2>3, <2>4, <2>5 DEF TypeOK, StaffInv
<1>4. \A c \in Calls : ~Locked(c) /\ ~Assigns(c) BY <1>2 DEF Locked, Assigns, Idle
<1>5. LocksMatch /\ LockedReads /\ AssignsWell
  BY <1>2, <1>4, DriverAssumption DEF LocksMatch, LockedReads, AssignsWell
<1>6. DriverEventsChain BY DEF Init, DriverEventsChain
<1>7. TripsGivenWell BY <1>2 DEF TripsGivenWell, GivenWell, Unfinished
<1>8. QED BY <1>1, <1>3, <1>5, <1>6, <1>7 DEF DriverInv

\* In every reachable state memberships, trips, requests and releases fit together.
THEOREM DriverSafety == Spec => []DriverInv
<1>1. Init => DriverInv BY DriverStart
<1>2. DriverInv /\ [Next]_vars => DriverInv' BY DriverStep
<1>3. QED BY <1>1, <1>2, PTL DEF Spec

\* Memberships, invitations, trips, requests and releases keep their types.
THEOREM DriversTypeCorrect == Spec => []TypeOK
<1>1. DriverInv => TypeOK BY DEF DriverInv
<1>2. QED BY <1>1, DriverSafety, PTL

\* However many invitations a person holds, they have one membership.
THEOREM OneMembershipEach == Spec => []OneMembership
<1>1. DriverInv => OneMembership BY StaffHolds DEF DriverInv
<1>2. QED BY <1>1, DriverSafety, PTL

\* An invitation that waits is one its sender may still send, to a destination
\* that has no other, within the limit.
THEOREM InvitationsStayBacked == Spec => []InvitationsBacked
<1>1. DriverInv => InvitationsBacked BY StaffHolds DEF DriverInv
<1>2. QED BY <1>1, DriverSafety, PTL

\* Each change of driver has its event and the events of a trip form a chain.
THEOREM DriverEventsAreChained == Spec => []DriverEventsChain
<1>1. DriverInv => DriverEventsChain BY DEF DriverInv
<1>2. QED BY <1>1, DriverSafety, PTL

\* An unfinished trip is with a member who delivers, under the membership they
\* were given it in, unless the release of their leaving is to come or failed.
THEOREM DriversAreMembers == Spec => []DriverIsMember
<1>1. DriverInv => DriverIsMember
  BY DEF DriverInv, TripsGivenWell, GivenWell, Covered, DriverIsMember
<1>2. QED BY <1>1, DriverSafety, PTL

\* A trip of an earlier membership stays with a returning driver only if it
\* was changed after the join, or the release of the join is to come or failed.
THEOREM ReturnersStartClean == Spec => []RejoinedClean
<1>1. DriverInv => RejoinedClean
  <2> SUFFICES ASSUME DriverInv, NEW t \in Unfinished, NEW m \in MembershipsOf(trips[t].driver),
                      m.id # grant[t]
               PROVE  \/ movedAt[t] >= joinedAt[m.id]
                      \/ \E r \in releases : r.user = m.user /\ r.joined
                      \/ <<m.user, TRUE>> \in lost
    BY DEF RejoinedClean
  <2>1. m \in memberships /\ m.user = trips[t].driver BY DEF MembershipsOf
  <2>2. m.user # Nobody
    BY <2>1, DriverAssumption DEF DriverInv, TypeOK, StaffTypeOK, Membership
  <2>3. GivenWell(trips[t].driver, grant[t], movedAt[t]) BY DEF DriverInv, TripsGivenWell
  <2>4. m.id # Founding BY <2>1, <2>2, <2>3 DEF DriverInv, StaffInv, FounderStays, GivenWell
  <2>5. QED BY <2>1, <2>2, <2>3, <2>4 DEF GivenWell, Settled
<1>2. QED BY <1>1, DriverSafety, PTL

\* A driver who does not dispatch departs and finishes a trip that is theirs
\* when the change commits.
THEOREM DriversWorkOnlyTheirOwn == Spec => DriversWorkTheirOwn
<1>1. ASSUME DriverInv, NEW c \in Calls, CommitMove(c)
      PROVE  calls[c].worker \in {Nobody, trips[calls[c].trip].driver}
  BY <1>1 DEF CommitMove, DriverInv, LockedReads, Locked
<1>2. DriverInv => [\A c \in Calls : CommitMove(c) =>
          calls[c].worker \in {Nobody, trips[calls[c].trip].driver}]_vars
  BY <1>1
<1>3. QED BY <1>2, DriverSafety, PTL DEF DriversWorkTheirOwn

=============================================================================
