-------------------------- MODULE StaffMembership --------------------------
(***************************************************************************)
(* The members of one business and the invitations that bring them in      *)
(* (services/api/src/cp2/domains/staff/store.ts, packages/business-core/   *)
(* src/domains/roles.ts).  Both are maps of the Node process: a call reads *)
(* and writes them in one step.                                            *)
(*                                                                         *)
(* Abstracted: sales_agent, cashier and view_only are one role, "staff":   *)
(* they have one rank and neither invite nor deliver.  A destination is    *)
(* the phone or email of one person throughout (identitiesOf also dates    *)
(* the link).  Names, join links, audit events and the deletion of the     *)
(* business are left out.                                                  *)
(***************************************************************************)
EXTENDS Naturals, FiniteSets

CONSTANTS Persons, Founder,
          Destinations, HolderOf,  \* phones and emails, and whose they are
          Offered,                 \* the roles people are invited into
          MaxInvitations,          \* bound: how many are ever sent
          MaxPending               \* maxPendingStaffInvitations, 50 in the code

VARIABLES
    memberships,   \* the set of memberships, each with its own identifier
    invitations    \* staffInvitations

staffVars == <<memberships, invitations>>

Roles == {"owner", "manager", "driver", "staff"}
Invitable == Roles \ {"owner"}
StaffRank == [r \in Roles |-> CASE r = "owner" -> 3 [] r = "manager" -> 2 [] OTHER -> 1]
MayInvite(r) == r \in {"owner", "manager"}              \* membership:invite
Delivers(r) == r \in {"owner", "manager", "driver"}     \* delivery:record
Dispatches(r) == r \in {"owner", "manager"}             \* fulfillment:dispatch

RolesGrantableBy(r) == {s \in Invitable : MayInvite(r) /\ StaffRank[s] < StaffRank[r]}
CanManageMemberRole(r, target) == MayInvite(r) /\ StaffRank[target] < StaffRank[r]

ASSUME StaffAssumption ==
    /\ Founder \in Persons
    /\ HolderOf \in [Destinations -> Persons]
    /\ MaxPending \in Nat \ {0}
    /\ Offered \subseteq Invitable
    /\ MaxInvitations \in Nat

\* In the order they are sent; the business's first membership has none.
Invitations == 1..MaxInvitations
Founding == 0
Membership == [id : Invitations \cup {Founding}, user : Persons, role : Roles]

\* Once nobody can accept it (accepted, revoked or expired) nothing but the
\* staff list reads an invitation again.  A declined one keeps its destination
\* for a day.
NotSent == [status |-> "none"]
Closed == [status |-> "closed"]
Invitation ==
    {NotSent, Closed} \cup [status : {"declined"}, destination : Destinations]
    \cup [status : {"pending"}, role : Invitable, destination : Destinations, inviter : Persons]

MembershipsOf(u) == {m \in memberships : m.user = u}
\* membershipOf takes the first; NoRole is a person who has none.
NoRole == "none"
RoleOf(u) ==
    IF MembershipsOf(u) = {} THEN NoRole ELSE (CHOOSE m \in MembershipsOf(u) : TRUE).role

StaffInit ==
    /\ memberships = {[id |-> Founding, user |-> Founder, role |-> "owner"]}
    /\ invitations = [i \in Invitations |-> NotSent]

Pending(i) == invitations[i].status = "pending"
Declined(i) == invitations[i].status = "declined"
Grants(a, i) == invitations[i].role \in RolesGrantableBy(RoleOf(a))
IsOpen(i) == Pending(i) /\ Grants(invitations[i].inviter, i)

InviteStaff(a, i, r, d) ==
    /\ invitations[i] = NotSent
    /\ \A j \in 1..(i - 1) : invitations[j] # NotSent
    /\ r \in Offered \cap RolesGrantableBy(RoleOf(a))
    /\ MembershipsOf(HolderOf[d]) = {}
    /\ ~\E j \in Invitations : IsOpen(j) /\ invitations[j].destination = d
    /\ ~\E j \in Invitations : Declined(j) /\ invitations[j].destination = d
    /\ Cardinality({j \in Invitations : IsOpen(j)}) < MaxPending
    /\ invitations' = [invitations EXCEPT ![i] =
            [status |-> "pending", role |-> r, destination |-> d, inviter |-> a]]
    /\ UNCHANGED memberships

RevokeStaffInvitation(a, i) ==
    /\ Pending(i) /\ Grants(a, i)
    /\ invitations' = [invitations EXCEPT ![i] = Closed]
    /\ UNCHANGED memberships

Mine(u, i) == Pending(i) /\ HolderOf[invitations[i].destination] = u

DeclineStaffInvitation(u, i) ==
    /\ Mine(u, i)
    /\ invitations' = [invitations EXCEPT ![i] =
            [status |-> "declined", destination |-> invitations[i].destination]]
    /\ UNCHANGED memberships

\* A week after it was sent an invitation expires; a day after a decline the
\* destination may be invited again.
Lapse(i) ==
    /\ Pending(i) \/ Declined(i)
    /\ invitations' = [invitations EXCEPT ![i] = Closed]
    /\ UNCHANGED memberships

\* Mutant: whoever accepts twice joins twice.
AcceptAgain(u, i) ==
    /\ Mine(u, i)
    /\ IsOpen(i)
    /\ memberships' = memberships \cup {[id |-> i, user |-> u, role |-> invitations[i].role]}
    /\ invitations' = [invitations EXCEPT ![i] = Closed]

AcceptStaffInvitation(u, i) ==
    /\ Mine(u, i)
    /\ IsOpen(i)
    /\ MembershipsOf(u) = {}
    /\ memberships' = memberships \cup {[id |-> i, user |-> u, role |-> invitations[i].role]}
    /\ invitations' = [invitations EXCEPT ![i] = Closed]

\* revokeInvitationsNoLongerGrantable: u keeps nothing beyond the roles in S.
RevokeBeyond(u, S) ==
    invitations' = [i \in Invitations |->
        IF Pending(i) /\ invitations[i].inviter = u /\ invitations[i].role \notin S
        THEN Closed ELSE invitations[i]]

Manageable(a, m) == m.user # a /\ RoleOf(a) # NoRole /\ CanManageMemberRole(RoleOf(a), m.role)

ChangeStaffRole(a, m, r) ==
    /\ m \in memberships /\ Manageable(a, m)
    /\ r \in RolesGrantableBy(RoleOf(a)) \ {m.role}
    /\ memberships' = (memberships \ {m}) \cup {[m EXCEPT !.role = r]}
    /\ RevokeBeyond(m.user, RolesGrantableBy(r))

\* Mutant: a removed member is kept without a role.
KeepWithoutRole(a, m) ==
    /\ m \in memberships /\ Manageable(a, m)
    /\ memberships' = (memberships \ {m}) \cup {[m EXCEPT !.role = NoRole]}
    /\ RevokeBeyond(m.user, {})

RemoveStaffMember(a, m) ==
    /\ m \in memberships /\ Manageable(a, m)
    /\ memberships' = memberships \ {m}
    /\ RevokeBeyond(m.user, {})

\* Mutant: whoever leaves keeps the invitations they sent.
LeaveInvitations(m) ==
    /\ m \in memberships /\ m.role # "owner"
    /\ memberships' = memberships \ {m}
    /\ UNCHANGED invitations

LeaveBusiness(m) ==
    /\ m \in memberships /\ m.role # "owner"
    /\ memberships' = memberships \ {m}
    /\ RevokeBeyond(m.user, {})

----------------------------------------------------------------------------
(* Properties.                                                             *)

StaffTypeOK == memberships \subseteq Membership /\ invitations \in [Invitations -> Invitation]

\* Two invitations to one person, by phone and by email, may wait at once:
\* accepting both must not make two memberships, of which the permission check
\* would find one and a removal delete one.
OneMembership == \A u \in Persons : Cardinality(MembershipsOf(u)) <= 1

\* docs/architecture/staff-invitations.md: "a person who was removed or demoted
\* keeps no power through invitations they sent".  An invitation that waits is
\* backed by an inviter who may still grant its role, so none comes back to
\* life when the inviter does, and one destination never has two.
InvitationsBacked ==
    /\ \A i \in Invitations : Pending(i) => Grants(invitations[i].inviter, i)
    /\ \A i, j \in Invitations :
            Pending(i) /\ Pending(j) /\ i # j
            => invitations[i].destination # invitations[j].destination
    /\ Cardinality({i \in Invitations : Pending(i)}) <= MaxPending
=============================================================================
