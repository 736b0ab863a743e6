--------------------------- MODULE ProfilesProofs ---------------------------
(***************************************************************************)
(* Proofs about Profiles and, after them, about the same use cases as      *)
(* transactions, ProfilesTx: for every set of users and every version      *)
(* bound, for any workers and any commands in flight.                      *)
(*                                                                         *)
(* SingleOwner is not inductive by itself: accepting an invitation could   *)
(* activate a second OWNER row unless OWNER rows are ACTIVE ones, and      *)
(* accepting the ownership could demote the owner it has just made unless  *)
(* an owner never carries a nomination.  IInv adds what is missing.        *)
(*                                                                         *)
(* The races of ProfilesTx break the single owner, but nobody gets the     *)
(* ownership without a nomination.  What has to be seen is that the first  *)
(* transfer of a profile demotes its founder: as long as the pointer names *)
(* a member who was never nominated, that member holds the only OWNER row, *)
(* and so every acceptance in flight has read it as the outgoing owner.    *)
(*                                                                         *)
(* One transaction at a time, they implement Profiles: whatever a          *)
(* transaction has read is still so at its commit, where it takes effect.  *)
(***************************************************************************)
EXTENDS ProfilesTx, TLAPS

\* An OWNER row is an ACTIVE row: nobody is invited as OWNER and no owner leaves.
OwnerRowIsActive ==
  \A u \in Users : members[u].role = "OWNER" => isActive(members[u])

\* Before the profile is created it has no rows and no owner; afterwards its
\* pointer names a membership.
FoundingInv ==
  IF isFounded
  THEN profile.ownerMembershipId \in Users
  ELSE /\ profile.ownerMembershipId = Nobody
       /\ members = [u \in Users |-> NoRow]

IInv == /\ TypeOK
        /\ FoundingInv
        /\ OwnerRowIsActive
        /\ OwnerIsNoNominee
        /\ SingleOwner

-----------------------------------------------------------------------------
(* Lemmas about the rows: what each delta writes. *)

\* A user without a row.
LEMMA NoRowFields ==
  /\ NoRow.status = "NONE" /\ NoRow.role = "NONE"
  /\ NoRow.pendingOwnerNominee = FALSE
  /\ NoRow \notin MembershipRow
BY DEF NoRow, MembershipRow, MembershipStatus

\* A row as it is inserted.
LEMMA NewRowFields ==
  ASSUME NEW status \in MembershipStatus, NEW role \in MemberRole
  PROVE  /\ NewRow(status, role) \in MembershipRow
         /\ NewRow(status, role).status = status
         /\ NewRow(status, role).role = role
         /\ NewRow(status, role).pendingOwnerNominee = FALSE
BY DEF NewRow, MembershipRow

\* A row whose status is written.
LEMMA WithStatusFields ==
  ASSUME NEW m \in MembershipRow, NEW status \in MembershipStatus
  PROVE  /\ withStatus(m, status) \in MembershipRow
         /\ withStatus(m, status).status = status
         /\ withStatus(m, status).role = m.role
         /\ withStatus(m, status).pendingOwnerNominee = m.pendingOwnerNominee
BY DEF withStatus, MembershipRow

\* A row that is flagged as the nominee's.
LEMMA WithNominationFields ==
  ASSUME NEW m \in MembershipRow
  PROVE  /\ withNomination(m) \in MembershipRow
         /\ withNomination(m).status = m.status
         /\ withNomination(m).role = m.role
         /\ withNomination(m).pendingOwnerNominee = TRUE
BY DEF withNomination, MembershipRow

\* A row whose role is written, and whose version is bumped.
LEMMA WithRoleFields ==
  ASSUME NEW m \in MembershipRow, NEW role \in MemberRole
  PROVE  /\ withRole(m, role) \in MembershipRow
         /\ withRole(m, role).status = m.status
         /\ withRole(m, role).role = role
         /\ withRole(m, role).pendingOwnerNominee = m.pendingOwnerNominee
<1>1. m.version + 1 \in Nat
  BY DEF MembershipRow
<1>2. withRole(m, role) = [m EXCEPT !.role = role, !.version = m.version + 1]
  BY DEF withRole
<1>. HIDE DEF withRole
<1>3. QED
  BY <1>1, <1>2 DEF MembershipRow

\* The two rows of a transfer: the incoming owner's and the outgoing one's.
LEMMA OwnerDeltaFields ==
  ASSUME NEW m \in MembershipRow
  PROVE  /\ asNewOwner(m) \in MembershipRow
         /\ asNewOwner(m).status = m.status
         /\ asNewOwner(m).role = "OWNER"
         /\ asNewOwner(m).pendingOwnerNominee = FALSE
         /\ asOutgoingOwner(m) \in MembershipRow
         /\ asOutgoingOwner(m).status = m.status
         /\ asOutgoingOwner(m).role = "ADMIN"
         /\ asOutgoingOwner(m).pendingOwnerNominee = m.pendingOwnerNominee
BY DEF asNewOwner, asOutgoingOwner, MembershipRow, MemberRole

\* A row with a status other than NONE is a stored row.
LEMMA StoredRow ==
  ASSUME TypeOK, NEW u \in Users, members[u].status # "NONE"
  PROVE  members[u] \in MembershipRow
BY NoRowFields DEF TypeOK

\* One row of the table changes: the other users keep theirs, and the table
\* stays a table of rows.
LEMMA OneRowChanges ==
  ASSUME TypeOK, NEW u \in Users, NEW row \in MembershipRow,
         members' = [members EXCEPT ![u] = row]
  PROVE  /\ members' \in [Users -> MembershipRow \cup {NoRow}]
         /\ members'[u] = row
         /\ \A v \in Users \ {u} : members'[v] = members[v]
BY DEF TypeOK

-----------------------------------------------------------------------------
(* Type correctness, one lemma per action that builds rows or events. *)

\* What the use cases announce are outbox rows.
LEMMA EventIsOutboxRow ==
  ASSUME NEW type \in EventType, NEW actor \in Users \cup {Nobody},
         NEW subject \in Users, NEW from \in Users \cup {Nobody}
  PROVE  Event(type, actor, subject, from) \in OutboxRow
BY DEF Event, OutboxRow

\* Accepting, declining and leaving write a row of the right shape.
LEMMA OwnTransitionTypeOK ==
  ASSUME TypeOK, NEW u \in Users, members[u].status # "NONE",
         NEW status \in MembershipStatus, NEW type \in EventType,
         transitionOwnMembership(u, status, type)
  PROVE  TypeOK'
<1>1. members[u] \in MembershipRow
  BY StoredRow
<1>2. withStatus(members[u], status) \in MembershipRow
  BY <1>1, WithStatusFields
<1>3. members' \in [Users -> MembershipRow \cup {NoRow}]
  BY <1>2 DEF TypeOK, transitionOwnMembership
<1>4. announced' \subseteq OutboxRow
  BY EventIsOutboxRow DEF transitionOwnMembership
<1>5. QED
  BY <1>3, <1>4 DEF TypeOK, transitionOwnMembership

\* Every step keeps the shape of the rows, the pointers and the outbox.
LEMMA NextTypeOK == TypeOK /\ [Next]_vars => TypeOK'
<1> SUFFICES ASSUME TypeOK, [Next]_vars PROVE TypeOK'
  OBVIOUS
<1>1. ASSUME NEW u \in Users, CreateSharedProfile(u) PROVE TypeOK'
  <2>1. NewRow("ACTIVE", "OWNER") \in MembershipRow
    BY NewRowFields DEF MembershipStatus, MemberRole
  <2>2. members' \in [Users -> MembershipRow \cup {NoRow}]
    BY <1>1, <2>1 DEF TypeOK, CreateSharedProfile
  <2>3. announced' \subseteq OutboxRow
    BY <1>1, EventIsOutboxRow DEF CreateSharedProfile, EventType
  <2>4. QED
    BY <1>1, <2>2, <2>3 DEF TypeOK, CreateSharedProfile, ProfileStatus
<1>2. ASSUME NEW u \in Users, AcceptInvitation(u) PROVE TypeOK'
  BY <1>2, OwnTransitionTypeOK
  DEF AcceptInvitation, canAccept, MembershipStatus, EventType
<1>3. ASSUME NEW u \in Users, DeclineInvitation(u) PROVE TypeOK'
  BY <1>3, OwnTransitionTypeOK
  DEF DeclineInvitation, canDecline, MembershipStatus, EventType
<1>4. ASSUME NEW u \in Users, LeaveProfile(u) PROVE TypeOK'
  BY <1>4, OwnTransitionTypeOK
  DEF LeaveProfile, canLeave, MembershipStatus, EventType
<1>5. ASSUME NEW u \in Users, ArchiveProfile(u) PROVE TypeOK'
  <2>1. announced' \subseteq OutboxRow
    BY <1>5, EventIsOutboxRow DEF ArchiveProfile, EventType
  <2>2. QED
    BY <1>5, <2>1 DEF TypeOK, ArchiveProfile, ProfileStatus
<1>6. ASSUME NEW u \in Users, InvitationDeadlinePasses(u) PROVE TypeOK'
  BY <1>6 DEF TypeOK, InvitationDeadlinePasses
<1>7. ASSUME NEW actor \in Users, NEW user \in Users, NEW role \in MemberRole,
             InviteMember(actor, user, role)
      PROVE  TypeOK'
  <2>1. NewRow("INVITED", role) \in MembershipRow
    BY NewRowFields DEF MembershipStatus
  <2>2. members' \in [Users -> MembershipRow \cup {NoRow}]
    BY <1>7, <2>1 DEF TypeOK, InviteMember
  <2>3. announced' \subseteq OutboxRow
    BY <1>7, EventIsOutboxRow DEF InviteMember, EventType
  <2>4. QED
    BY <1>7, <2>2, <2>3 DEF TypeOK, InviteMember
<1>8. ASSUME NEW actor \in Users, NEW user \in Users, NEW role \in MemberRole,
             NEW v \in 0..MaxVersion, ChangeMemberRole(actor, user, role, v)
      PROVE  TypeOK'
  <2>1. members[user] \in MembershipRow
    BY <1>8, StoredRow DEF ChangeMemberRole, canChangeRole
  <2>2. withRole(members[user], role) \in MembershipRow
    BY <2>1, WithRoleFields
  <2>3. members' \in [Users -> MembershipRow \cup {NoRow}]
    BY <1>8, <2>2 DEF TypeOK, ChangeMemberRole
  <2>4. announced' \subseteq OutboxRow
    BY <1>8, EventIsOutboxRow DEF ChangeMemberRole, EventType
  <2>5. QED
    BY <1>8, <2>3, <2>4 DEF TypeOK, ChangeMemberRole
<1>9. ASSUME NEW actor \in Users, NEW user \in Users, NominateOwner(actor, user)
      PROVE  TypeOK'
  <2>1. members[user] \in MembershipRow
    BY <1>9, StoredRow DEF NominateOwner, canBeNominated
  <2>2. withNomination(members[user]) \in MembershipRow
    BY <2>1, WithNominationFields
  <2>3. members' \in [Users -> MembershipRow \cup {NoRow}]
    BY <1>9, <2>2 DEF TypeOK, NominateOwner
  <2>4. announced' \subseteq OutboxRow
    BY <1>9, EventIsOutboxRow DEF NominateOwner, EventType
  <2>5. nominations' \subseteq Users \X Users
    BY <1>9 DEF TypeOK, NominateOwner
  <2>6. QED
    BY <1>9, <2>3, <2>4, <2>5 DEF TypeOK, NominateOwner
<1>10. ASSUME NEW actor \in Users, NEW user \in Users, AcceptOwnership(user, actor)
       PROVE  TypeOK'
  <2>1. members[user] \in MembershipRow /\ members[actor] \in MembershipRow
    BY <1>10, StoredRow
    DEF AcceptOwnership, canAcceptOwnership, isActiveOwner
  <2> DEFINE first == [members EXCEPT ![user] = asNewOwner(members[user])]
  <2>2. first \in [Users -> MembershipRow \cup {NoRow}] /\ first[actor] \in MembershipRow
    BY <2>1, OwnerDeltaFields DEF TypeOK
  <2>3. members' = [first EXCEPT ![actor] = asOutgoingOwner(first[actor])]
    BY <1>10 DEF AcceptOwnership
  <2>4. members' \in [Users -> MembershipRow \cup {NoRow}]
    <3> HIDE DEF first
    <3>1. asOutgoingOwner(first[actor]) \in MembershipRow
      BY <2>2, OwnerDeltaFields
    <3>2. QED
      BY <2>2, <2>3, <3>1
  <2>5. announced' \subseteq OutboxRow
    BY <1>10, EventIsOutboxRow DEF AcceptOwnership, EventType
  <2>6. QED
    BY <1>10, <2>4, <2>5 DEF TypeOK, AcceptOwnership
<1>11. ASSUME NEW batch \in SUBSET Users, InvitationExpirySweep(batch) PROVE TypeOK'
  <2>1. ASSUME NEW u \in batch PROVE withStatus(members[u], "EXPIRED") \in MembershipRow
    <3>1. u \in Users /\ members[u].status # "NONE"
      BY <1>11 DEF InvitationExpirySweep, due, canExpire, isInvitationExpired
    <3>2. QED
      BY <3>1, StoredRow, WithStatusFields DEF MembershipStatus
  <2>2. members' \in [Users -> MembershipRow \cup {NoRow}]
    BY <1>11, <2>1 DEF TypeOK, InvitationExpirySweep
  <2>3. announced' \subseteq OutboxRow
    BY <1>11, EventIsOutboxRow DEF InvitationExpirySweep, EventType
  <2>4. QED
    BY <1>11, <2>2, <2>3 DEF TypeOK, InvitationExpirySweep
<1>12. CASE UNCHANGED vars
  BY <1>12 DEF TypeOK, vars
<1>13. QED
  BY <1>1, <1>2, <1>3, <1>4, <1>5, <1>6, <1>7, <1>8, <1>9, <1>10, <1>11, <1>12
  DEF Next

\* Rows, pointers, nominations and outbox rows always have their types.
THEOREM TypeCorrect == Spec => []TypeOK
<1>1. Init => TypeOK
  BY DEF Init, TypeOK, ProfileStatus
<1>2. QED
  BY <1>1, NextTypeOK, PTL DEF Spec

-----------------------------------------------------------------------------
(* The inductive invariant. *)

\* A step that leaves the pointer and every role, flag and status of an ACTIVE
\* OWNER alone, and makes no new OWNER row, keeps the ownership invariants.
LEMMA OwnershipUntouched ==
  ASSUME IInv, TypeOK', isFounded,
         profile'.ownerMembershipId = profile.ownerMembershipId,
         isFounded',
         \A u \in Users :
           \/ members'[u] = members[u]
           \/ /\ members[u].role # "OWNER" /\ members'[u].role # "OWNER"
  PROVE  IInv'
BY DEF IInv, FoundingInv, OwnerRowIsActive, OwnerIsNoNominee, SingleOwner,
       isActive, isActiveOwner

\* A user with an ACTIVE row exists only in a founded profile.
LEMMA RowsNeedFounding ==
  ASSUME IInv, NEW u \in Users, members[u].status # "NONE"
  PROVE  isFounded
BY NoRowFields DEF IInv, FoundingInv

\* Accepting, declining and leaving touch no ownership unless the member is an OWNER.
LEMMA OwnTransitionInductive ==
  ASSUME IInv, NEW u \in Users, members[u].status # "NONE",
         members[u].role # "OWNER",
         NEW status \in MembershipStatus, NEW type \in EventType,
         transitionOwnMembership(u, status, type)
  PROVE  IInv'
<1>1. TypeOK'
  BY OwnTransitionTypeOK DEF IInv
<1>2. isFounded
  BY RowsNeedFounding
<1>3. members[u] \in MembershipRow
  BY StoredRow DEF IInv
<1>4. members'[u].role # "OWNER"
  BY <1>3, WithStatusFields DEF transitionOwnMembership, IInv, TypeOK
<1>5. \A v \in Users \ {u} : members'[v] = members[v]
  BY DEF transitionOwnMembership, IInv, TypeOK
<1>6. QED
  BY <1>1, <1>2, <1>4, <1>5, OwnershipUntouched
  DEF transitionOwnMembership, isFounded

\* One case per use case: only the transfer moves the ownership, and it moves the
\* role and the pointer together.
LEMMA NextInductive == IInv /\ [Next]_vars => IInv'
<1> SUFFICES ASSUME IInv, [Next]_vars PROVE IInv'
  OBVIOUS
<1>0. TypeOK /\ TypeOK'
  BY NextTypeOK DEF IInv
<1>1. ASSUME NEW u \in Users, CreateSharedProfile(u) PROVE IInv'
  <2>1. NewRow("ACTIVE", "OWNER").status = "ACTIVE"
        /\ NewRow("ACTIVE", "OWNER").role = "OWNER"
        /\ NewRow("ACTIVE", "OWNER").pendingOwnerNominee = FALSE
    BY NewRowFields DEF MembershipStatus, MemberRole
  <2>2. members'[u] = NewRow("ACTIVE", "OWNER")
    BY <1>1, <1>0 DEF CreateSharedProfile, TypeOK
  <2>3. \A v \in Users \ {u} : members'[v] = NoRow
    BY <1>1, <1>0 DEF CreateSharedProfile, TypeOK, IInv, FoundingInv, isFounded
  <2>4. isFounded' /\ profile'.ownerMembershipId = u
    BY <1>1 DEF CreateSharedProfile, isFounded
  <2>5. QED
    BY <1>0, <2>1, <2>2, <2>3, <2>4, NoRowFields
    DEF IInv, FoundingInv, OwnerRowIsActive, OwnerIsNoNominee, SingleOwner,
        isActive, isActiveOwner
<1>2. ASSUME NEW u \in Users, AcceptInvitation(u) PROVE IInv'
  <2>1. members[u].status = "INVITED"
    BY <1>2 DEF AcceptInvitation, canAccept
  <2>2. members[u].role # "OWNER"
    BY <2>1 DEF IInv, OwnerRowIsActive, isActive
  <2>3. QED
    BY <1>2, <2>1, <2>2, OwnTransitionInductive
    DEF AcceptInvitation, MembershipStatus, EventType
<1>3. ASSUME NEW u \in Users, DeclineInvitation(u) PROVE IInv'
  <2>1. members[u].status = "INVITED"
    BY <1>3 DEF DeclineInvitation, canDecline
  <2>2. members[u].role # "OWNER"
    BY <2>1 DEF IInv, OwnerRowIsActive, isActive
  <2>3. QED
    BY <1>3, <2>1, <2>2, OwnTransitionInductive
    DEF DeclineInvitation, MembershipStatus, EventType
<1>4. ASSUME NEW u \in Users, LeaveProfile(u) PROVE IInv'
  BY <1>4, OwnTransitionInductive
  DEF LeaveProfile, canLeave, MembershipStatus, EventType
<1>5. ASSUME NEW u \in Users, ArchiveProfile(u) PROVE IInv'
  <2>1. isFounded
    BY <1>5, RowsNeedFounding DEF ArchiveProfile, requireCapability
  <2>2. isFounded' /\ profile'.ownerMembershipId = profile.ownerMembershipId
    BY <1>5, <1>0 DEF ArchiveProfile, isFounded, TypeOK
  <2>3. QED
    BY <1>5, <1>0, <2>1, <2>2, OwnershipUntouched DEF ArchiveProfile
<1>6. ASSUME NEW u \in Users, InvitationDeadlinePasses(u) PROVE IInv'
  <2>1. isFounded
    BY <1>6, RowsNeedFounding DEF InvitationDeadlinePasses
  <2>2. QED
    BY <1>6, <1>0, <2>1, OwnershipUntouched DEF InvitationDeadlinePasses, isFounded
<1>7. ASSUME NEW actor \in Users, NEW user \in Users, NEW role \in MemberRole,
             InviteMember(actor, user, role)
      PROVE  IInv'
  <2>1. members'[user] = NewRow("INVITED", role)
        /\ \A v \in Users \ {user} : members'[v] = members[v]
    BY <1>7, <1>0 DEF InviteMember, TypeOK
  <2>2. members[user].role # "OWNER" /\ members'[user].role # "OWNER"
    <3>1. NewRow("INVITED", role).role = role
      BY NewRowFields DEF MembershipStatus
    <3>2. members[user].role = "NONE" /\ role # "OWNER"
      BY <1>7, NoRowFields DEF InviteMember
    <3>3. QED
      BY <2>1, <3>1, <3>2
  <2>3. isFounded /\ isFounded'
    BY <1>7 DEF InviteMember, isWritable, isFounded
  <2>4. QED
    BY <1>7, <1>0, <2>1, <2>2, <2>3, OwnershipUntouched DEF InviteMember
<1>8. ASSUME NEW actor \in Users, NEW user \in Users, NEW role \in MemberRole,
             NEW v \in 0..MaxVersion, ChangeMemberRole(actor, user, role, v)
      PROVE  IInv'
  <2>1. members[user] \in MembershipRow
    BY <1>8, <1>0, StoredRow DEF ChangeMemberRole, canChangeRole
  <2>2. members'[user] = withRole(members[user], role)
        /\ \A w \in Users \ {user} : members'[w] = members[w]
    BY <1>8, <1>0 DEF ChangeMemberRole, TypeOK
  <2>3. members[user].role # "OWNER" /\ members'[user].role # "OWNER"
    BY <1>8, <2>1, <2>2, WithRoleFields DEF ChangeMemberRole, canChangeRole
  <2>4. isFounded /\ isFounded'
    BY <1>8 DEF ChangeMemberRole, isWritable, isFounded
  <2>5. QED
    BY <1>8, <1>0, <2>2, <2>3, <2>4, OwnershipUntouched DEF ChangeMemberRole
<1>9. ASSUME NEW actor \in Users, NEW user \in Users, NominateOwner(actor, user)
      PROVE  IInv'
  <2>1. members[user] \in MembershipRow
    BY <1>9, <1>0, StoredRow DEF NominateOwner, canBeNominated
  <2>2. members'[user] = withNomination(members[user])
        /\ \A w \in Users \ {user} : members'[w] = members[w]
    BY <1>9, <1>0 DEF NominateOwner, TypeOK
  <2>3. members[user].role # "OWNER" /\ members'[user].role # "OWNER"
    BY <1>9, <2>1, <2>2, WithNominationFields DEF NominateOwner, canBeNominated
  <2>4. isFounded /\ isFounded'
    BY <1>9, RowsNeedFounding DEF NominateOwner, canBeNominated, isFounded
  <2>5. QED
    BY <1>9, <1>0, <2>2, <2>3, <2>4, OwnershipUntouched DEF NominateOwner
<1>10. ASSUME NEW actor \in Users, NEW user \in Users, AcceptOwnership(user, actor)
       PROVE  IInv'
  <2>1. members[user] \in MembershipRow /\ members[actor] \in MembershipRow
    BY <1>10, <1>0, StoredRow
    DEF AcceptOwnership, canAcceptOwnership, isActiveOwner
  <2>2. user # actor
    BY <1>10, <2>1
    DEF AcceptOwnership, canAcceptOwnership, isActiveOwner, IInv, OwnerIsNoNominee
  <2>3. actor = profile.ownerMembershipId /\ isFounded
    BY <1>10, RowsNeedFounding
    DEF AcceptOwnership, isActiveOwner, IInv, SingleOwner
  <2>4. /\ members'[user] = asNewOwner(members[user])
        /\ members'[actor] = asOutgoingOwner(members[actor])
        /\ \A w \in Users \ {user, actor} : members'[w] = members[w]
    BY <1>10, <1>0, <2>2 DEF AcceptOwnership, TypeOK
  <2>5. isFounded' /\ profile'.ownerMembershipId = user
    BY <1>10, <1>0, <2>3 DEF AcceptOwnership, TypeOK, isFounded
  <2>6. members'[user].role = "OWNER" /\ members'[user].status = "ACTIVE"
        /\ members'[user].pendingOwnerNominee = FALSE
        /\ members'[actor].role = "ADMIN"
    <3>1. members[user].status = "ACTIVE"
      BY <1>10 DEF AcceptOwnership, canAcceptOwnership
    <3>2. asNewOwner(members[user]).role = "OWNER"
          /\ asNewOwner(members[user]).status = "ACTIVE"
          /\ asNewOwner(members[user]).pendingOwnerNominee = FALSE
          /\ asOutgoingOwner(members[actor]).role = "ADMIN"
      BY <2>1, <3>1, OwnerDeltaFields
    <3>3. QED
      BY <2>4, <3>2
  <2>7. \A w \in Users \ {user, actor} : members[w].role # "OWNER"
    BY <2>3 DEF IInv, SingleOwner, OwnerRowIsActive, isActive, isActiveOwner
  <2>8. QED
    BY <1>0, <2>2, <2>4, <2>5, <2>6, <2>7
    DEF IInv, FoundingInv, OwnerRowIsActive, OwnerIsNoNominee, SingleOwner,
        isActive, isActiveOwner
<1>11. ASSUME NEW batch \in SUBSET Users, InvitationExpirySweep(batch) PROVE IInv'
  <2>1. \A u \in batch : members[u].status = "INVITED" /\ members[u] \in MembershipRow
    BY <1>0, <1>11, StoredRow DEF InvitationExpirySweep, due, canExpire, isInvitationExpired
  <2>2. \A u \in batch : members[u].role # "OWNER"
    BY <2>1 DEF IInv, OwnerRowIsActive, isActive
  <2>3. \A u \in batch : members'[u].role # "OWNER"
    BY <1>11, <2>1, <2>2, WithStatusFields
    DEF InvitationExpirySweep, MembershipStatus
  <2>4. \A u \in Users \ batch : members'[u] = members[u]
    BY <1>11 DEF InvitationExpirySweep
  <2>5. isFounded /\ isFounded'
    BY <1>11, <2>1, RowsNeedFounding DEF InvitationExpirySweep, isFounded
  <2>6. QED
    BY <1>11, <1>0, <2>2, <2>3, <2>4, <2>5, OwnershipUntouched
    DEF InvitationExpirySweep
<1>12. CASE UNCHANGED vars
  BY <1>12, <1>0
  DEF vars, IInv, FoundingInv, OwnerRowIsActive, OwnerIsNoNominee, SingleOwner,
      isFounded, isActive, isActiveOwner
<1>13. QED
  BY <1>1, <1>2, <1>3, <1>4, <1>5, <1>6, <1>7, <1>8, <1>9, <1>10, <1>11, <1>12
  DEF Next

\* There is no profile at first, and nobody owns it.
LEMMA InitInductive == Init => IInv
<1> SUFFICES ASSUME Init PROVE IInv
  OBVIOUS
<1>1. TypeOK
  BY DEF Init, TypeOK, ProfileStatus
<1>2. \A u \in Users : members[u] = NoRow
  BY DEF Init
<1>3. QED
  BY <1>1, <1>2, NoRowFields
  DEF Init, IInv, FoundingInv, isFounded, OwnerRowIsActive, OwnerIsNoNominee,
      SingleOwner

\* The invariant above holds in every reachable state.
THEOREM Inductive == Spec => []IInv
BY InitInductive, NextInductive, PTL DEF Spec

\* A founded profile has exactly one ACTIVE OWNER row and ownerMembershipId
\* names it, whatever commands were accepted and in whatever order.
THEOREM SingleOwnerHolds == Spec => []SingleOwner
<1>1. IInv => SingleOwner
  BY DEF IInv
<1>2. QED
  BY <1>1, Inductive, PTL

\* An owner never carries a nomination flag, so nobody transfers the ownership
\* to themselves.
THEOREM OwnerIsNoNomineeHolds == Spec => []OwnerIsNoNominee
<1>1. IInv => OwnerIsNoNominee
  BY DEF IInv
<1>2. QED
  BY <1>1, Inductive, PTL

-----------------------------------------------------------------------------
(* What a step may never do.  Before its foundation a profile has no rows;   *)
(* of what happened since, the steps need to know that a flag was put up by  *)
(* a nomination, and that what was announced last is still so.               *)

isNominee(m) == m.pendingOwnerNominee

wasNominated(u) == \E actor \in Users : <<actor, u>> \in nominations

NomineeInv == \A u \in Users : isNominee(members[u]) => wasNominated(u)

Joining == {"SharedProfileCreated", "InvitationAccepted"}

AnnouncedInv ==
  \A e \in announced :
    /\ e.type = "MemberLeft" => members[e.subject].status = "LEFT"
    /\ e.type \in Joining => isActive(members[e.subject])

OverdueInv == \A u \in overdue : members[u].status # "NONE"

PastInv == IInv /\ NomineeInv /\ AnnouncedInv /\ OverdueInv

\* What the four action properties say of a step.
TerminalStep ==
  \A u \in Users : members[u].status \in TERMINAL => members'[u].status = members[u].status

EntryStep == \A u \in overdue : isActive(members'[u]) => isActive(members[u])

ConsentStep ==
  LET old == profile.ownerMembershipId
      new == profile'.ownerMembershipId
  IN  (old # Nobody /\ new # old) =>
         /\ isActive(members[new])
         /\ \E actor \in Users : <<actor, new>> \in nominations
         /\ isActive(members'[old]) /\ members'[old].role = "ADMIN"

AnnouncedStep ==
  \A u \in Users :
    /\ (isActive(members[u]) /\ ~isActive(members'[u])) <=>
         (\E e \in announced' \ announced : e.type = "MemberLeft" /\ e.subject = u)
    /\ (~isActive(members[u]) /\ isActive(members'[u])) <=>
         (\E e \in announced' \ announced : e.type \in Joining /\ e.subject = u)

GoodStep == TerminalStep /\ EntryStep /\ ConsentStep /\ AnnouncedStep

\* Which deltas keep the nomination, and which drop it.
LEMMA NomineeRows ==
  ASSUME NEW m \in MembershipRow, NEW status, NEW role
  PROVE  /\ isNominee(withStatus(m, status)) <=> isNominee(m)
         /\ isNominee(withRole(m, role)) <=> isNominee(m)
         /\ isNominee(asOutgoingOwner(m)) <=> isNominee(m)
         /\ ~isNominee(asNewOwner(m))
         /\ ~isNominee(NoRow) /\ ~isNominee(NewRow(status, role))
BY Zenon DEF isNominee, withStatus, withRole, asOutgoingOwner, asNewOwner, MembershipRow,
             NoRow, NewRow

\* A step after which the last announcement is what happened.
LEMMA TellsTheTruth ==
  ASSUME AnnouncedInv,
         \A e \in announced' :
           /\ e.type = "MemberLeft" =>
                isActive(members[e.subject]) /\ members'[e.subject].status = "LEFT"
           /\ e.type \in Joining =>
                ~isActive(members[e.subject]) /\ isActive(members'[e.subject]),
         \A u \in Users :
           /\ isActive(members[u]) /\ ~isActive(members'[u]) =>
                \E e \in announced' : e.type = "MemberLeft" /\ e.subject = u
           /\ ~isActive(members[u]) /\ isActive(members'[u]) =>
                \E e \in announced' : e.type \in Joining /\ e.subject = u
  PROVE  AnnouncedInv' /\ AnnouncedStep
<1>1. \A e \in announced' : e.type = "MemberLeft" \/ e.type \in Joining => e \notin announced
  BY DEF AnnouncedInv, isActive
<1>2. AnnouncedInv'
  BY DEF AnnouncedInv
<1>3. ASSUME NEW u \in Users
      PROVE  /\ (isActive(members[u]) /\ ~isActive(members'[u])) <=>
                  (\E e \in announced' \ announced : e.type = "MemberLeft" /\ e.subject = u)
             /\ (~isActive(members[u]) /\ isActive(members'[u])) <=>
                  (\E e \in announced' \ announced : e.type \in Joining /\ e.subject = u)
  BY <1>1 DEF isActive
<1>4. QED
  BY <1>2, <1>3 DEF AnnouncedStep

\* A step that writes one row, and announces it when it makes the row ACTIVE or takes
\* that from it.
LEMMA OneMemberStep ==
  ASSUME PastInv, IInv', NEW u \in Users, NEW m \in MembershipRow,
         members' = [members EXCEPT ![u] = m],
         NEW type, NEW actor, announced' = {Event(type, actor, u, Nobody)},
         overdue' = overdue, nominations \subseteq nominations',
         profile'.ownerMembershipId = profile.ownerMembershipId \/
           profile.ownerMembershipId = Nobody,
         members[u].status \in TERMINAL => m.status = members[u].status,
         u \in overdue /\ isActive(m) => isActive(members[u]),
         isNominee(m) => isNominee(members[u]) \/ wasNominated(u)',
         type = "MemberLeft" <=> isActive(members[u]) /\ ~isActive(m),
         type = "MemberLeft" => m.status = "LEFT",
         type \in Joining <=> ~isActive(members[u]) /\ isActive(m)
  PROVE  PastInv' /\ GoodStep
<1>1. /\ members'[u] = m
      /\ \A v \in Users \ {u} : members'[v] = members[v]
      /\ members \in [Users -> MembershipRow \cup {NoRow}] /\ overdue \subseteq Users
  BY DEF PastInv, IInv, TypeOK
<1>2. PICK e : announced' = {e} /\ e.type = type /\ e.subject = u
  <2>1. PICK e : e = Event(type, actor, u, Nobody)
    OBVIOUS
  <2>2. e.type = type /\ e.subject = u
    BY <2>1, Zenon DEF Event
  <2>3. announced' = {e}
    BY <2>1, Zenon
  <2>4. QED
    BY <2>2, <2>3
<1>3. AnnouncedInv' /\ AnnouncedStep
  <2>1. \A f \in announced' :
          /\ f.type = "MemberLeft" =>
               isActive(members[f.subject]) /\ members'[f.subject].status = "LEFT"
          /\ f.type \in Joining =>
               ~isActive(members[f.subject]) /\ isActive(members'[f.subject])
    BY <1>1, <1>2
  <2>2. ASSUME NEW v \in Users
        PROVE  /\ isActive(members[v]) /\ ~isActive(members'[v]) =>
                    \E f \in announced' : f.type = "MemberLeft" /\ f.subject = v
               /\ ~isActive(members[v]) /\ isActive(members'[v]) =>
                    \E f \in announced' : f.type \in Joining /\ f.subject = v
    BY <1>1, <1>2
  <2>3. AnnouncedInv
    BY DEF PastInv
  <2>4. QED
    BY <2>1, <2>2, <2>3, TellsTheTruth
<1>4. NomineeInv'
  <2>1. \A v \in Users : wasNominated(v) => wasNominated(v)'
    BY DEF wasNominated
  <2>2. \A v \in Users : isNominee(members'[v]) => wasNominated(v)'
    BY <1>1, <2>1 DEF PastInv, NomineeInv
  <2>3. QED
    BY <2>2 DEF NomineeInv, isNominee
<1>5. m.status # "NONE"
  BY DEF MembershipRow, MembershipStatus
<1>6. OverdueInv'
  BY <1>1, <1>5 DEF PastInv, OverdueInv
<1>7. TerminalStep /\ EntryStep
  BY <1>1 DEF TerminalStep, EntryStep
<1>8. ConsentStep
  BY DEF ConsentStep
<1>9. QED
  BY <1>3, <1>4, <1>6, <1>7, <1>8 DEF PastInv, GoodStep

\* A step that writes no status, or ends invitations, and announces nobody.
LEMMA NobodyMovesStep ==
  ASSUME PastInv, IInv',
         \A u \in Users : \/ members'[u].status = members[u].status
                          \/ members[u].status = "INVITED" /\ members'[u].status = "EXPIRED",
         \/ announced' = announced
         \/ \A e \in announced' : e.type # "MemberLeft" /\ e.type \notin Joining,
         \A u \in overdue' : u \in overdue \/ members[u].status = "INVITED",
         nominations' = nominations,
         \A u \in Users : isNominee(members'[u]) => isNominee(members[u]),
         ConsentStep
  PROVE  PastInv' /\ GoodStep
<1>1. overdue \subseteq Users /\ overdue' \subseteq Users /\ announced \subseteq OutboxRow
  BY DEF PastInv, IInv, TypeOK
<1>2. \A u \in Users : /\ isActive(members'[u]) <=> isActive(members[u])
                       /\ members'[u].status = "NONE" => members[u].status = "NONE"
                       /\ members[u].status = "LEFT" => members'[u].status = "LEFT"
  BY DEF isActive
<1>3. AnnouncedInv' /\ AnnouncedStep
  <2>1. CASE announced' = announced
    <3>1. \A e \in announced : e.subject \in Users
      BY <1>1 DEF OutboxRow
    <3>2. AnnouncedInv'
      BY <1>2, <2>1, <3>1 DEF PastInv, AnnouncedInv
    <3>3. AnnouncedStep
      BY <1>2, <2>1 DEF AnnouncedStep
    <3>4. QED
      BY <3>2, <3>3
  <2>2. CASE \A e \in announced' : e.type # "MemberLeft" /\ e.type \notin Joining
    <3>1. AnnouncedInv
      BY DEF PastInv
    <3>2. QED
      BY <1>2, <2>2, <3>1, TellsTheTruth
  <2>3. QED
    BY <2>1, <2>2
<1>4. NomineeInv'
  <2>1. \A u \in Users : isNominee(members'[u]) => wasNominated(u)'
    BY DEF PastInv, NomineeInv, wasNominated
  <2>2. QED
    BY <2>1 DEF NomineeInv, isNominee
<1>5. OverdueInv'
  BY <1>1, <1>2 DEF PastInv, OverdueInv
<1>6. TerminalStep /\ EntryStep
  BY <1>1, <1>2 DEF TerminalStep, EntryStep, TERMINAL
<1>7. QED
  BY <1>3, <1>4, <1>5, <1>6 DEF PastInv, GoodStep

\* Of accept, decline and leave.
LEMMA OwnTransitionStep ==
  ASSUME PastInv, IInv', NEW u \in Users,
         NEW status \in {"ACTIVE", "DECLINED", "LEFT"}, NEW type,
         transitionOwnMembership(u, status, type),
         \/ members[u].status = "INVITED" /\ status = "ACTIVE" /\ u \notin overdue
              /\ type = "InvitationAccepted"
         \/ members[u].status = "INVITED" /\ status = "DECLINED" /\ type = "InvitationDeclined"
         \/ members[u].status = "ACTIVE" /\ status = "LEFT" /\ type = "MemberLeft"
  PROVE  PastInv' /\ GoodStep
<1>1. members[u] \in MembershipRow /\ status \in MembershipStatus
  BY StoredRow DEF PastInv, IInv, MembershipStatus
<1>2. PICK m \in MembershipRow : /\ m = withStatus(members[u], status) /\ m.status = status
                                 /\ isNominee(m) => isNominee(members[u])
  BY <1>1, WithStatusFields, NomineeRows
<1>3. /\ members' = [members EXCEPT ![u] = m]
      /\ announced' = {Event(type, u, u, Nobody)}
      /\ UNCHANGED <<profile, overdue, nominations>>
  BY <1>2 DEF transitionOwnMembership
<1>4. /\ members[u].status \in TERMINAL => m.status = members[u].status
      /\ u \in overdue /\ isActive(m) => isActive(members[u])
      /\ type = "MemberLeft" <=> isActive(members[u]) /\ ~isActive(m)
      /\ type = "MemberLeft" => m.status = "LEFT"
      /\ type \in Joining <=> ~isActive(members[u]) /\ isActive(m)
  BY <1>2 DEF TERMINAL, isActive, Joining
<1>5. QED
  BY <1>2, <1>3, <1>4, OneMemberStep

\* Every step is one that the four properties allow, and keeps what they need.
LEMMA NextPast == ASSUME PastInv, [Next]_vars PROVE PastInv' /\ GoodStep
<1>0. IInv /\ IInv' /\ TypeOK
  BY NextInductive DEF PastInv, IInv
<1>1. ASSUME NEW u \in Users, CreateSharedProfile(u) PROVE PastInv' /\ GoodStep
  <2>1. /\ profile.ownerMembershipId = Nobody /\ members[u] = NoRow
    BY <1>0, <1>1 DEF CreateSharedProfile, IInv, FoundingInv, isFounded
  <2>2. "ACTIVE" \in MembershipStatus /\ "OWNER" \in MemberRole
    BY DEF MembershipStatus, MemberRole
  <2>3. PICK m \in MembershipRow : /\ m = NewRow("ACTIVE", "OWNER") /\ m.status = "ACTIVE"
                                   /\ ~isNominee(m)
    BY <2>2, NewRowFields, NomineeRows
  <2>4. u \notin overdue
    BY <2>1, NoRowFields DEF PastInv, OverdueInv
  <2>5. ~isActive(members[u]) /\ isActive(m) /\ members[u].status \notin TERMINAL
    BY <2>1, <2>3, NoRowFields DEF isActive, TERMINAL
  <2>6. QED
    BY <1>0, <1>1, <2>1, <2>3, <2>4, <2>5, OneMemberStep DEF CreateSharedProfile, Joining
<1>2. ASSUME NEW u \in Users, AcceptInvitation(u) PROVE PastInv' /\ GoodStep
  BY <1>0, <1>2, OwnTransitionStep
  DEF AcceptInvitation, canAccept, isInvitationExpired
<1>3. ASSUME NEW u \in Users, DeclineInvitation(u) PROVE PastInv' /\ GoodStep
  BY <1>0, <1>3, OwnTransitionStep DEF DeclineInvitation, canDecline
<1>4. ASSUME NEW u \in Users, LeaveProfile(u) PROVE PastInv' /\ GoodStep
  BY <1>0, <1>4, OwnTransitionStep DEF LeaveProfile, canLeave
<1>5. ASSUME NEW u \in Users, ArchiveProfile(u) PROVE PastInv' /\ GoodStep
  <2>1. /\ announced' = {Event("ProfileArchived", u, u, Nobody)}
        /\ UNCHANGED <<members, overdue, nominations>>
        /\ profile'.ownerMembershipId = profile.ownerMembershipId
    BY <1>0, <1>5 DEF ArchiveProfile, TypeOK
  <2>2. \A e \in announced' : e.type # "MemberLeft" /\ e.type \notin Joining
    BY <2>1 DEF Event, Joining
  <2>3. ConsentStep
    BY <2>1 DEF ConsentStep
  <2>4. QED
    BY <1>0, <2>1, <2>2, <2>3, NobodyMovesStep
<1>6. ASSUME NEW u \in Users, InvitationDeadlinePasses(u) PROVE PastInv' /\ GoodStep
  <2>1. ConsentStep
    BY <1>6 DEF InvitationDeadlinePasses, ConsentStep
  <2>2. QED
    BY <1>0, <1>6, <2>1, NobodyMovesStep DEF InvitationDeadlinePasses
<1>7. ASSUME NEW actor \in Users, NEW user \in Users, NEW role \in MemberRole,
             InviteMember(actor, user, role)
      PROVE  PastInv' /\ GoodStep
  <2>1. "INVITED" \in MembershipStatus
    BY DEF MembershipStatus
  <2>2. PICK m \in MembershipRow : /\ m = NewRow("INVITED", role) /\ m.status = "INVITED"
                                   /\ ~isNominee(m)
    BY <2>1, NewRowFields, NomineeRows
  <2>3. ~isActive(members[user]) /\ ~isActive(m) /\ members[user].status \notin TERMINAL
    BY <1>7, <2>2, NoRowFields DEF isActive, TERMINAL, InviteMember
  <2>4. /\ members' = [members EXCEPT ![user] = m]
        /\ announced' = {Event("MemberInvited", actor, user, Nobody)}
        /\ overdue' = overdue /\ nominations' = nominations /\ profile' = profile
    BY <1>7, <2>2 DEF InviteMember
  <2>5. "MemberInvited" # "MemberLeft" /\ "MemberInvited" \notin Joining
    BY DEF Joining
  <2>6. QED
    BY <1>0, <2>2, <2>3, <2>4, <2>5, OneMemberStep
<1>8. ASSUME NEW actor \in Users, NEW user \in Users, NEW role \in MemberRole,
             NEW v \in 0..MaxVersion, ChangeMemberRole(actor, user, role, v)
      PROVE  PastInv' /\ GoodStep
  <2>1. members[user] \in MembershipRow
    BY <1>8, <1>0, StoredRow DEF ChangeMemberRole, canChangeRole
  <2>2. PICK m \in MembershipRow :
          /\ m = withRole(members[user], role) /\ m.status = members[user].status
          /\ isNominee(m) => isNominee(members[user])
    <3>1. withRole(members[user], role) \in MembershipRow
          /\ withRole(members[user], role).status = members[user].status
      BY <2>1, WithRoleFields
    <3>2. isNominee(withRole(members[user], role)) => isNominee(members[user])
      BY <2>1, NomineeRows
    <3>3. QED
      BY <3>1, <3>2, Zenon
  <2>3. isActive(m) <=> isActive(members[user])
    BY <2>2 DEF isActive
  <2>4. /\ members' = [members EXCEPT ![user] = m]
        /\ announced' = {Event("MemberRoleChanged", actor, user, Nobody)}
        /\ overdue' = overdue /\ nominations' = nominations /\ profile' = profile
    BY <1>8, <2>2 DEF ChangeMemberRole
  <2>5. "MemberRoleChanged" # "MemberLeft" /\ "MemberRoleChanged" \notin Joining
    BY DEF Joining
  <2>6. QED
    BY <1>0, <2>2, <2>3, <2>4, <2>5, OneMemberStep
<1>9. ASSUME NEW actor \in Users, NEW user \in Users, NominateOwner(actor, user)
      PROVE  PastInv' /\ GoodStep
  <2>1. members[user] \in MembershipRow
    BY <1>9, <1>0, StoredRow DEF NominateOwner, canBeNominated
  <2>2. PICK m \in MembershipRow :
          m = withNomination(members[user]) /\ m.status = members[user].status
    BY <2>1, WithNominationFields
  <2>3. isActive(m) <=> isActive(members[user])
    BY <2>2 DEF isActive
  <2>4. wasNominated(user)' /\ nominations \subseteq nominations'
    BY <1>9 DEF NominateOwner, wasNominated
  <2>5. /\ members' = [members EXCEPT ![user] = m]
        /\ announced' = {Event("OwnerNominated", actor, user, Nobody)}
        /\ overdue' = overdue /\ profile' = profile
    BY <1>9, <2>2 DEF NominateOwner
  <2>6. "OwnerNominated" # "MemberLeft" /\ "OwnerNominated" \notin Joining
    BY DEF Joining
  <2>7. QED
    BY <1>0, <2>2, <2>3, <2>4, <2>5, <2>6, OneMemberStep
<1>10. ASSUME NEW actor \in Users, NEW user \in Users, AcceptOwnership(user, actor)
       PROVE  PastInv' /\ GoodStep
  <2>1. /\ members[user] \in MembershipRow /\ members[actor] \in MembershipRow
        /\ members[user].status = "ACTIVE" /\ members[actor].status = "ACTIVE"
        /\ isNominee(members[user])
    <3>1. members[user].status = "ACTIVE" /\ members[actor].status = "ACTIVE"
      BY <1>10 DEF AcceptOwnership, canAcceptOwnership, isActiveOwner
    <3>2. isNominee(members[user])
      BY <1>10, Zenon DEF AcceptOwnership, canAcceptOwnership, isNominee
    <3>3. QED
      BY <1>0, <3>1, <3>2, StoredRow
  <2>2. user # actor
    BY <1>0, <1>10
    DEF AcceptOwnership, canAcceptOwnership, isActiveOwner, IInv, OwnerIsNoNominee
  <2>3. actor = profile.ownerMembershipId /\ profile'.ownerMembershipId = user
    BY <1>0, <1>10, RowsNeedFounding
    DEF AcceptOwnership, isActiveOwner, IInv, SingleOwner, TypeOK
  <2>4. /\ members'[user] = asNewOwner(members[user])
        /\ members'[actor] = asOutgoingOwner(members[actor])
        /\ \A w \in Users \ {user, actor} : members'[w] = members[w]
    BY <1>10, <1>0, <2>2 DEF AcceptOwnership, TypeOK
  <2>5. /\ members'[user].status = "ACTIVE" /\ ~isNominee(members'[user])
        /\ members'[actor].status = "ACTIVE" /\ members'[actor].role = "ADMIN"
        /\ isNominee(members'[actor]) => isNominee(members[actor])
    <3>1. /\ members'[user].status = "ACTIVE"
          /\ members'[actor].status = "ACTIVE" /\ members'[actor].role = "ADMIN"
      <4>1. asNewOwner(members[user]).status = "ACTIVE"
        BY <2>1, OwnerDeltaFields
      <4>2. /\ asOutgoingOwner(members[actor]).status = "ACTIVE"
            /\ asOutgoingOwner(members[actor]).role = "ADMIN"
        BY <2>1, OwnerDeltaFields
      <4>3. QED
        BY <2>4, <4>1, <4>2, Zenon
    <3>2. ~isNominee(asNewOwner(members[user]))
      BY <2>1, NomineeRows
    <3>3. isNominee(asOutgoingOwner(members[actor])) => isNominee(members[actor])
      BY <2>1, NomineeRows
    <3>4. QED
      BY <2>4, <3>1, <3>2, <3>3, Zenon
  <2>6. ConsentStep
    <3>1. wasNominated(user)
      BY <2>1 DEF PastInv, NomineeInv
    <3>2. QED
      BY <2>1, <2>3, <2>5, <3>1 DEF ConsentStep, wasNominated, isActive
  <2>7. \A u \in Users : /\ members'[u].status = members[u].status
                         /\ isNominee(members'[u]) => isNominee(members[u])
    BY <2>1, <2>4, <2>5
  <2>8. \A e \in announced' : e.type # "MemberLeft" /\ e.type \notin Joining
    BY <1>10 DEF AcceptOwnership, Event, Joining
  <2>9. UNCHANGED <<overdue, nominations>>
    BY <1>10 DEF AcceptOwnership
  <2>10. QED
    BY <1>0, <2>6, <2>7, <2>8, <2>9, NobodyMovesStep
<1>11. ASSUME NEW batch \in SUBSET Users, InvitationExpirySweep(batch)
       PROVE  PastInv' /\ GoodStep
  <2>1. \A u \in batch : members[u].status = "INVITED" /\ members[u] \in MembershipRow
    BY <1>0, <1>11, StoredRow DEF InvitationExpirySweep, due, canExpire, isInvitationExpired
  <2>2. \A u \in Users :
          members'[u] = IF u \in batch THEN withStatus(members[u], "EXPIRED") ELSE members[u]
    BY <1>11 DEF InvitationExpirySweep
  <2>3. "EXPIRED" \in MembershipStatus
    BY DEF MembershipStatus
  <2>4. ASSUME NEW u \in Users
        PROVE  /\ \/ members'[u].status = members[u].status
                  \/ members[u].status = "INVITED" /\ members'[u].status = "EXPIRED"
               /\ isNominee(members'[u]) => isNominee(members[u])
    <3>1. CASE u \in batch
      <4>1. withStatus(members[u], "EXPIRED").status = "EXPIRED"
        BY <2>1, <2>3, <3>1, WithStatusFields
      <4>2. isNominee(withStatus(members[u], "EXPIRED")) => isNominee(members[u])
        BY <2>1, <3>1, NomineeRows
      <4>3. members'[u] = withStatus(members[u], "EXPIRED")
        BY <2>2, <3>1
      <4>4. QED
        BY <2>1, <3>1, <4>1, <4>2, <4>3, Zenon
    <3>2. CASE u \notin batch
      <4>1. members'[u] = members[u]
        BY <2>2, <3>2
      <4>2. QED
        BY <4>1, Zenon
    <3>3. QED
      BY <3>1, <3>2
  <2>5. \A e \in announced' : e.type # "MemberLeft" /\ e.type \notin Joining
    BY <1>11 DEF InvitationExpirySweep, Event, Joining
  <2>6. UNCHANGED <<profile, overdue, nominations>>
    BY <1>11 DEF InvitationExpirySweep
  <2>7. ConsentStep
    BY <2>6 DEF ConsentStep
  <2>8. QED
    BY <1>0, <2>4, <2>5, <2>6, <2>7, NobodyMovesStep
<1>12. CASE UNCHANGED vars
  <2>1. UNCHANGED <<profile, members, overdue, nominations, announced>>
    BY <1>12 DEF vars
  <2>2. ConsentStep
    BY <2>1 DEF ConsentStep
  <2>3. QED
    BY <1>0, <2>1, <2>2, NobodyMovesStep
<1>13. QED
  BY <1>1, <1>2, <1>3, <1>4, <1>5, <1>6, <1>7, <1>8, <1>9, <1>10, <1>11, <1>12
  DEF Next

\* Nothing has happened at first.
LEMMA InitPast == Init => PastInv
<1> SUFFICES ASSUME Init PROVE PastInv
  OBVIOUS
<1>1. \A u \in Users : members[u] = NoRow
  BY DEF Init
<1>2. NomineeInv
  <2>1. ~isNominee(NoRow)
    BY Zenon DEF isNominee, NoRow
  <2>2. QED
    BY <1>1, <2>1 DEF NomineeInv
<1>3. AnnouncedInv /\ OverdueInv
  BY DEF Init, AnnouncedInv, OverdueInv
<1>4. QED
  BY <1>2, <1>3, InitInductive DEF PastInv

\* It holds always, and so every step is a good one.
LEMMA GoodSteps == Spec => [][GoodStep]_vars
<1>1. PastInv /\ [Next]_vars => PastInv' /\ [GoodStep]_vars
  BY NextPast
<1>2. QED
  BY <1>1, InitPast, PTL DEF Spec

\* Whichever command or job reaches a membership that was declined, expired or left, its
\* status stays.
THEOREM TerminalIsFinalHolds == Spec => TerminalIsFinal
<1>1. [GoodStep]_vars => [TerminalStep]_vars
  BY DEF GoodStep
<1>2. QED
  BY <1>1, GoodSteps, PTL DEF TerminalIsFinal, TerminalStep

\* Nobody is let in once the deadline of the invitation has passed.
THEOREM NoLateEntryHolds == Spec => NoLateEntry
<1>1. [GoodStep]_vars => [EntryStep]_vars
  BY DEF GoodStep
<1>2. QED
  BY <1>1, GoodSteps, PTL DEF NoLateEntry, EntryStep

\* Ownership moves to ACTIVE members who were nominated only, and the outgoing owner
\* stays as an ADMIN.
THEOREM TransferIsConsentedHolds == Spec => TransferIsConsented
<1>1. [GoodStep]_vars => [ConsentStep]_vars
  BY DEF GoodStep
<1>2. QED
  BY <1>1, GoodSteps, PTL DEF TransferIsConsented, ConsentStep

\* The outbox announces who gains or loses an ACTIVE membership, and nobody else.
THEOREM MembershipIsAnnouncedHolds == Spec => MembershipIsAnnounced
<1>1. [GoodStep]_vars => [AnnouncedStep]_vars
  BY DEF GoodStep
<1>2. QED
  BY <1>1, GoodSteps, PTL DEF MembershipIsAnnounced, AnnouncedStep, Joining

-----------------------------------------------------------------------------
(* Refinement: every step of Profiles is a step of Ownership, or changes     *)
(* nothing Ownership can see.                                                *)

standingBar == [u \in Users |-> standingOf(members[u])]
nominatedBar == {u \in Users : members[u].pendingOwnerNominee}

\* The standing of a member is read off the status.
LEMMA StandingOfRows ==
  ASSUME NEW m
  PROVE  /\ m.status = "NONE" => standingOf(m) = "outside"
         /\ m.status = "INVITED" => standingOf(m) = "invited"
         /\ m.status = "ACTIVE" => standingOf(m) = "member"
         /\ m.status \in TERMINAL => standingOf(m) = "gone"
BY DEF standingOf, TERMINAL

\* One user's standing changes and the flags stay: what accept, decline, leave
\* and invite look like from outside.
LEMMA OneStandingChanges ==
  ASSUME NEW u \in Users, NEW s,
         members' \in [Users -> MembershipRow \cup {NoRow}],
         standingOf(members'[u]) = s,
         members'[u].pendingOwnerNominee = members[u].pendingOwnerNominee,
         \A v \in Users \ {u} : members'[v] = members[v]
  PROVE  /\ standingBar' = [standingBar EXCEPT ![u] = s]
         /\ nominatedBar' = nominatedBar
<1>1. \A v \in Users : standingBar'[v] = IF v = u THEN s ELSE standingBar[v]
  BY DEF standingBar
<1>2. standingBar' = [standingBar EXCEPT ![u] = s]
  BY <1>1 DEF standingBar
<1>3. nominatedBar' = nominatedBar
  BY DEF nominatedBar
<1>4. QED
  BY <1>2, <1>3

\* Accepting, declining and leaving change one standing and no nomination.
LEMMA OwnTransitionStanding ==
  ASSUME IInv, NEW u \in Users, members[u].status # "NONE",
         NEW status \in MembershipStatus, NEW type \in EventType,
         transitionOwnMembership(u, status, type)
  PROVE  /\ members'[u].status = status
         /\ standingBar' = [standingBar EXCEPT ![u] = standingOf(members'[u])]
         /\ nominatedBar' = nominatedBar
<1>1. members[u] \in MembershipRow
  BY StoredRow DEF IInv
<1>2. members'[u] = withStatus(members[u], status)
      /\ \A v \in Users \ {u} : members'[v] = members[v]
  BY DEF transitionOwnMembership, IInv, TypeOK
<1>3. members'[u].status = status
      /\ members'[u].pendingOwnerNominee = members[u].pendingOwnerNominee
  BY <1>1, <1>2, WithStatusFields
<1>4. members' \in [Users -> MembershipRow \cup {NoRow}]
  BY OwnTransitionTypeOK DEF IInv, TypeOK
<1>5. QED
  BY <1>2, <1>3, <1>4, OneStandingChanges

\* An ACTIVE OWNER row and the pointer are the same thing in a reachable state.
LEMMA OwnerByRole ==
  ASSUME IInv, NEW u \in Users
  PROVE  isActiveOwner(members[u]) <=> u = profile.ownerMembershipId
<1>1. ASSUME ~isFounded PROVE ~isActiveOwner(members[u]) /\ u # profile.ownerMembershipId
  BY <1>1, NoRowFields, ProfilesAssumption
  DEF IInv, FoundingInv, isActiveOwner
<1>2. QED
  BY <1>1 DEF IInv, SingleOwner

\* Every use case is a step of the abstract specification, or changes nothing it sees.
LEMMA StepRefines ==
  IInv /\ [Next]_vars => [Gov!OwnershipNext]_(Gov!ownershipVars)
<1> SUFFICES ASSUME IInv, [Next]_vars
             PROVE  [Gov!OwnershipNext]_(Gov!ownershipVars)
  OBVIOUS
<1>0. TypeOK /\ TypeOK' /\ IInv'
  BY NextInductive DEF IInv
<1>1. ASSUME NEW u \in Users, CreateSharedProfile(u) PROVE Gov!Found(u)
  <2>1. NewRow("ACTIVE", "OWNER").status = "ACTIVE"
        /\ NewRow("ACTIVE", "OWNER").pendingOwnerNominee = FALSE
    BY NewRowFields DEF MembershipStatus, MemberRole
  <2>2. members'[u] = NewRow("ACTIVE", "OWNER")
        /\ \A v \in Users \ {u} : members'[v] = members[v]
    BY <1>1, <1>0 DEF CreateSharedProfile, TypeOK
  <2>3. members[u].pendingOwnerNominee = FALSE /\ profile.ownerMembershipId = Nobody
    BY <1>1, NoRowFields DEF CreateSharedProfile, IInv, FoundingInv, isFounded
  <2>4. standingBar' = [standingBar EXCEPT ![u] = "member"] /\ nominatedBar' = nominatedBar
    BY <1>0, <2>1, <2>2, <2>3, StandingOfRows, OneStandingChanges DEF TypeOK
  <2>5. QED
    BY <1>1, <2>3, <2>4 DEF CreateSharedProfile, Gov!Found, standingBar, nominatedBar
<1>2. ASSUME NEW u \in Users, AcceptInvitation(u) PROVE Gov!Join(u)
  <2>1. members[u].status = "INVITED" /\ transitionOwnMembership(u, "ACTIVE", "InvitationAccepted")
    BY <1>2 DEF AcceptInvitation, canAccept
  <2>2. standingBar' = [standingBar EXCEPT ![u] = "member"] /\ nominatedBar' = nominatedBar
    BY <2>1, OwnTransitionStanding, StandingOfRows DEF MembershipStatus, EventType
  <2>3. standingBar[u] = "invited"
    BY <2>1, StandingOfRows DEF standingBar
  <2>4. QED
    BY <2>1, <2>2, <2>3
    DEF transitionOwnMembership, Gov!Join, standingBar, nominatedBar
<1>3. ASSUME NEW u \in Users, DeclineInvitation(u) PROVE Gov!Lapse({u})
  <2>1. members[u].status = "INVITED" /\ transitionOwnMembership(u, "DECLINED", "InvitationDeclined")
    BY <1>3 DEF DeclineInvitation, canDecline
  <2>2. standingBar' = [standingBar EXCEPT ![u] = "gone"] /\ nominatedBar' = nominatedBar
    BY <2>1, OwnTransitionStanding, StandingOfRows DEF MembershipStatus, EventType, TERMINAL
  <2>3. standingBar[u] = "invited"
    BY <2>1, StandingOfRows DEF standingBar
  <2>4. QED
    BY <2>1, <2>2, <2>3
    DEF transitionOwnMembership, Gov!Lapse, standingBar, nominatedBar
<1>4. ASSUME NEW u \in Users, LeaveProfile(u) PROVE Gov!Depart(u)
  <2>1. members[u].status = "ACTIVE" /\ members[u].role # "OWNER"
        /\ transitionOwnMembership(u, "LEFT", "MemberLeft")
    BY <1>4 DEF LeaveProfile, canLeave
  <2>2. standingBar' = [standingBar EXCEPT ![u] = "gone"] /\ nominatedBar' = nominatedBar
    BY <2>1, OwnTransitionStanding, StandingOfRows DEF MembershipStatus, EventType, TERMINAL
  <2>3. standingBar[u] = "member" /\ u # profile.ownerMembershipId
    BY <2>1, StandingOfRows, OwnerByRole DEF standingBar, isActiveOwner
  <2>4. QED
    BY <2>1, <2>2, <2>3
    DEF transitionOwnMembership, Gov!Depart, standingBar, nominatedBar
<1>5. ASSUME NEW u \in Users, ArchiveProfile(u) PROVE Gov!Close(u)
  <2>1. u = profile.ownerMembershipId
    BY <1>5, OwnerByRole
    DEF ArchiveProfile, requireCapability, rolesFor, isActiveOwner
  <2>2. \A v \in Users : standingOf(members[v]) = "member" => v = u
    <3>1. isActive(members[u])
      BY <1>5 DEF ArchiveProfile, requireCapability, isActive
    <3>2. \A v \in Users : standingOf(members[v]) = "member" => isActive(members[v])
      BY DEF standingOf, isActive
    <3>3. QED
      BY <1>5, <3>1, <3>2 DEF ArchiveProfile, atMostOneActiveMember
  <2>3. profile' = [profile EXCEPT !.status = "ARCHIVED"] /\ members' = members
        /\ profile.status # "ARCHIVED"
    BY <1>5 DEF ArchiveProfile
  <2>4. profile'.status = "ARCHIVED" /\ profile'.ownerMembershipId = profile.ownerMembershipId
    BY <2>3, <1>0 DEF TypeOK
  <2>5. QED
    BY <2>1, <2>2, <2>3, <2>4 DEF Gov!Close
<1>6. ASSUME NEW u \in Users, InvitationDeadlinePasses(u) PROVE UNCHANGED Gov!ownershipVars
  BY <1>6 DEF InvitationDeadlinePasses, Gov!ownershipVars
<1>7. ASSUME NEW actor \in Users, NEW user \in Users, NEW role \in MemberRole,
             InviteMember(actor, user, role)
      PROVE  Gov!Invite(user)
  <2>1. members[user] = NoRow /\ members'[user] = NewRow("INVITED", role)
        /\ \A v \in Users \ {user} : members'[v] = members[v]
    BY <1>7, <1>0 DEF InviteMember, TypeOK
  <2>2. NewRow("INVITED", role).status = "INVITED"
        /\ NewRow("INVITED", role).pendingOwnerNominee = FALSE
    BY NewRowFields DEF MembershipStatus
  <2>3. standingBar' = [standingBar EXCEPT ![user] = "invited"] /\ nominatedBar' = nominatedBar
    BY <1>0, <2>1, <2>2, NoRowFields, StandingOfRows, OneStandingChanges DEF TypeOK
  <2>4. standingBar[user] = "outside"
    BY <2>1, NoRowFields, StandingOfRows DEF standingBar
  <2>5. profile.status = "ACTIVE" /\ profile.ownerMembershipId # Nobody /\ profile' = profile
    BY <1>7, ProfilesAssumption DEF InviteMember, isWritable, IInv, FoundingInv, isFounded
  <2>6. QED
    BY <2>3, <2>4, <2>5 DEF Gov!Invite, standingBar, nominatedBar
<1>8. ASSUME NEW actor \in Users, NEW user \in Users, NEW role \in MemberRole,
             NEW v \in 0..MaxVersion, ChangeMemberRole(actor, user, role, v)
      PROVE  UNCHANGED Gov!ownershipVars
  <2>1. members[user] \in MembershipRow
    BY <1>8, <1>0, StoredRow DEF ChangeMemberRole, canChangeRole
  <2>2. members'[user] = withRole(members[user], role)
        /\ \A w \in Users \ {user} : members'[w] = members[w]
    BY <1>8, <1>0 DEF ChangeMemberRole, TypeOK
  <2>3. members'[user].status = members[user].status
        /\ members'[user].pendingOwnerNominee = members[user].pendingOwnerNominee
    BY <2>1, <2>2, WithRoleFields
  <2>4. \A w \in Users : /\ standingOf(members'[w]) = standingOf(members[w])
                         /\ members'[w].pendingOwnerNominee = members[w].pendingOwnerNominee
    BY <2>2, <2>3 DEF standingOf
  <2>5. QED
    BY <1>8, <2>4 DEF ChangeMemberRole, Gov!ownershipVars
<1>9. ASSUME NEW actor \in Users, NEW user \in Users, NominateOwner(actor, user)
      PROVE  Gov!Nominate(actor, user)
  <2>1. members[user] \in MembershipRow
    BY <1>9, <1>0, StoredRow DEF NominateOwner, canBeNominated
  <2>2. members'[user] = withNomination(members[user])
        /\ \A w \in Users \ {user} : members'[w] = members[w]
    BY <1>9, <1>0 DEF NominateOwner, TypeOK
  <2>3. members'[user].status = members[user].status
        /\ members'[user].pendingOwnerNominee = TRUE
    BY <2>1, <2>2, WithNominationFields
  <2>4. actor = profile.ownerMembershipId
    BY <1>9, OwnerByRole
    DEF NominateOwner, requireCapability, rolesFor, isActiveOwner
  <2>5. user # profile.ownerMembershipId /\ standingBar[user] = "member"
    BY <1>9, OwnerByRole, StandingOfRows
    DEF NominateOwner, canBeNominated, isActiveOwner, standingBar
  <2>6. standingBar' = standingBar
    BY <2>2, <2>3 DEF standingBar, standingOf
  <2>7. nominatedBar' = nominatedBar \cup {user}
    BY <2>2, <2>3 DEF nominatedBar
  <2>8. QED
    BY <1>9, <2>4, <2>5, <2>6, <2>7
    DEF NominateOwner, Gov!Nominate, standingBar, nominatedBar
<1>10. ASSUME NEW actor \in Users, NEW user \in Users, AcceptOwnership(user, actor)
       PROVE  Gov!TakeOver(user)
  <2>1. members[user] \in MembershipRow /\ members[actor] \in MembershipRow
    BY <1>10, <1>0, StoredRow
    DEF AcceptOwnership, canAcceptOwnership, isActiveOwner
  <2>2. user # actor /\ actor = profile.ownerMembershipId
    BY <1>10, <2>1, OwnerByRole
    DEF AcceptOwnership, canAcceptOwnership, isActiveOwner, IInv, OwnerIsNoNominee
  <2>3. /\ members'[user] = asNewOwner(members[user])
        /\ members'[actor] = asOutgoingOwner(members[actor])
        /\ \A w \in Users \ {user, actor} : members'[w] = members[w]
    BY <1>10, <1>0, <2>2 DEF AcceptOwnership, TypeOK
  <2>4. members'[user].status = members[user].status
        /\ members'[actor].status = members[actor].status
        /\ members'[user].pendingOwnerNominee = FALSE
        /\ members'[actor].pendingOwnerNominee = members[actor].pendingOwnerNominee
    <3>1. /\ asNewOwner(members[user]).status = members[user].status
          /\ asNewOwner(members[user]).pendingOwnerNominee = FALSE
      BY <2>1, OwnerDeltaFields
    <3>2. /\ asOutgoingOwner(members[actor]).status = members[actor].status
          /\ asOutgoingOwner(members[actor]).pendingOwnerNominee
               = members[actor].pendingOwnerNominee
      BY <2>1, OwnerDeltaFields
    <3>3. members'[user].status = members[user].status
          /\ members'[user].pendingOwnerNominee = FALSE
      BY <2>3, <3>1, Zenon
    <3>4. members'[actor].status = members[actor].status
          /\ members'[actor].pendingOwnerNominee = members[actor].pendingOwnerNominee
      BY <2>3, <3>2, Zenon
    <3>5. QED
      BY <3>3, <3>4
  <2>5. standingBar' = standingBar
    BY <2>3, <2>4 DEF standingBar, standingOf
  <2>6. nominatedBar' = nominatedBar \ {user} /\ user \in nominatedBar
    BY <1>10, <2>3, <2>4 DEF nominatedBar, AcceptOwnership, canAcceptOwnership
  <2>7. standingBar[user] = "member"
    BY <1>10, StandingOfRows DEF AcceptOwnership, canAcceptOwnership, standingBar
  <2>8. profile'.ownerMembershipId = user /\ profile'.status = profile.status
    BY <1>10, <1>0 DEF AcceptOwnership, TypeOK
  <2>9. QED
    BY <2>2, <2>5, <2>6, <2>7, <2>8 DEF Gov!TakeOver, standingBar, nominatedBar
<1>11. ASSUME NEW batch \in SUBSET Users, InvitationExpirySweep(batch) PROVE Gov!Lapse(batch)
  <2>1. \A u \in batch : u \in Users /\ members[u].status = "INVITED" /\ members[u] \in MembershipRow
    BY <1>0, <1>11, StoredRow DEF InvitationExpirySweep, due, canExpire, isInvitationExpired
  <2>2. \A u \in batch : members'[u].status = "EXPIRED"
                       /\ members'[u].pendingOwnerNominee = members[u].pendingOwnerNominee
    BY <1>11, <2>1, WithStatusFields DEF InvitationExpirySweep, MembershipStatus
  <2>3. \A u \in Users \ batch : members'[u] = members[u]
    BY <1>11 DEF InvitationExpirySweep
  <2>4. \A u \in Users : standingOf(members'[u]) =
                           IF u \in batch THEN "gone" ELSE standingOf(members[u])
    BY <2>2, <2>3, StandingOfRows DEF TERMINAL
  <2>5. \A u \in batch : standingOf(members[u]) = "invited"
    BY <2>1, StandingOfRows
  <2>6. nominatedBar' = nominatedBar
    BY <2>2, <2>3 DEF nominatedBar
  <2>7. QED
    BY <1>11, <2>1, <2>4, <2>5, <2>6
    DEF InvitationExpirySweep, Gov!Lapse, nominatedBar
<1>12. CASE UNCHANGED vars
  BY <1>12 DEF vars, Gov!ownershipVars
<1>13. ASSUME NEW u \in Users, DeclineInvitation(u) PROVE Gov!OwnershipNext
  BY <1>3, <1>13 DEF Gov!OwnershipNext
<1>14. ASSUME NEW batch \in SUBSET Users, InvitationExpirySweep(batch)
       PROVE  Gov!OwnershipNext
  BY <1>11, <1>14 DEF Gov!OwnershipNext
<1>15. QED
  BY <1>1, <1>2, <1>4, <1>5, <1>6, <1>7, <1>8, <1>9, <1>10, <1>12, <1>13, <1>14
  DEF Next, Gov!OwnershipNext

\* The governance use cases implement the abstract specification Ownership.
THEOREM Refinement == Spec => ImplementsOwnership
<1>1. Init => Gov!OwnershipInit
  <2> SUFFICES ASSUME Init PROVE Gov!OwnershipInit
    OBVIOUS
  <2>1. \A u \in Users : standingOf(members[u]) = "outside"
                         /\ members[u].pendingOwnerNominee = FALSE
    BY NoRowFields, StandingOfRows DEF Init
  <2>2. QED
    BY <2>1 DEF Init, Gov!OwnershipInit
<1>2. QED
  BY <1>1, StepRefines, Inductive, PTL DEF Spec, ImplementsOwnership, Gov!OwnershipSpec

-----------------------------------------------------------------------------
(* The transactions.  A command in flight relies on what it has read. *)

isStored(u) == members[u].status # "NONE"

\* What the reads that a command has done let it rely on at its commit: that a
\* row is there, since rows are never deleted, and that a nomination was made.
isBased(t) ==
  /\ t.read <= Len(readsOf(t.cmd))
  /\ t.cmd # "expirySweep" => t.target \in Users
  /\ t.cmd \in {"inviteMember", "changeMemberRole"} => t.role # "OWNER"
  /\ t.cmd \in {"inviteMember", "changeMemberRole", "nominateOwner", "archiveProfile"} =>
       t.actor \in Users
  /\ t.cmd \in {"acceptInvitation", "declineInvitation", "leaveProfile",
                "changeMemberRole", "acceptOwnership"} => isStored(t.target)
  /\ t.cmd = "nominateOwner" /\ t.read = 2 => isStored(t.target)
  /\ t.cmd = "acceptOwnership" => wasNominated(t.target)
  /\ t.cmd = "acceptOwnership" /\ t.read = 2 => t.actor \in Users /\ isStored(t.actor)

InFlightInv == \A w \in Workers : tx[w] # Idle => isBased(tx[w])

\* Until the first transfer, the owner is the founder, for every command.
FounderInv ==
  profile.ownerMembershipId \in Users /\ ~wasNominated(profile.ownerMembershipId) =>
    /\ profile.ownerMembershipId = founder
    /\ \A u \in Users : members[u].role = "OWNER" => u = profile.ownerMembershipId
    /\ \A w \in Workers :
         tx[w] # Idle /\ tx[w].cmd = "acceptOwnership" /\ tx[w].read = 2 =>
           tx[w].actor = profile.ownerMembershipId

UnfoundedInv ==
  ~isFounded =>
    /\ profile.ownerMembershipId = Nobody
    /\ members = [u \in Users |-> NoRow]
    /\ tx = [w \in Workers |-> Idle]

TxIInv ==
  /\ TxTypeOK /\ InFlightInv /\ NomineeInv /\ FounderInv /\ UnfoundedInv
  /\ OwnersWereNominated

-----------------------------------------------------------------------------
(* Commands. *)

\* The reads of each use case, one by one.
LEMMA ReadsAre ==
  /\ readsOf("inviteMember") = <<"actor", "profile", "absent">>
  /\ readsOf("changeMemberRole") = <<"target", "actor", "profile">>
  /\ readsOf("nominateOwner") = <<"actor", "target">>
  /\ readsOf("acceptOwnership") = <<"target", "owner">>
  /\ readsOf("archiveProfile") = <<"actor", "profile", "alone">>
  /\ \A cmd \in {"acceptInvitation", "declineInvitation", "leaveProfile", "expirySweep"} :
       readsOf(cmd) = <<"target">>
BY DEF readsOf

\* There are three at most.
LEMMA ReadsAreFew ==
  ASSUME NEW cmd \in CommandName
  PROVE  Len(readsOf(cmd)) \in 1..3
BY ReadsAre DEF CommandName

\* The fields of a command in flight.
LEMMA TxFields ==
  ASSUME NEW t \in Tx
  PROVE  /\ t.cmd \in CommandName /\ t.actor \in Users \cup {Nobody}
         /\ t.target \in Users \cup {Nobody} /\ t.role \in MemberRole
         /\ t.version \in 0..MaxVersion /\ t.rows \in SUBSET Users /\ t.read \in 1..3
BY DEF Tx

\* A worker that is not idle executes a command.
LEMMA InFlight ==
  ASSUME TxIInv, NEW w \in Workers, tx[w] # Idle
  PROVE  tx[w] \in Tx /\ isBased(tx[w])
BY DEF TxIInv, TxTypeOK, InFlightInv

\* Commands are not decided on in a profile that is not there.
LEMMA InFlightIsFounded ==
  ASSUME TxIInv, NEW w \in Workers, tx[w] # Idle
  PROVE  isFounded
BY DEF TxIInv, UnfoundedInv

\* A command stays based on what it read while rows and nominations only grow.
LEMMA StaysBased ==
  ASSUME NEW t \in Tx, isBased(t), \A u \in Users : isStored(u) => isStored(u)',
         nominations \subseteq nominations'
  PROVE  isBased(t)'
BY DEF isBased, wasNominated

-----------------------------------------------------------------------------
(* Steps on the stored rows. *)

\* A write that moves no ownership, and neither deletes a row nor nominates without
\* saying so, keeps the invariant.
LEMMA ModestStep ==
  ASSUME TxIInv, TypeOK', isFounded, isFounded',
         profile'.ownerMembershipId = profile.ownerMembershipId,
         nominations \subseteq nominations',
         \A u \in Users : isStored(u) => isStored(u)',
         \A u \in Users : members'[u].role = "OWNER" => members[u].role = "OWNER",
         \A u \in Users : isNominee(members'[u]) => isNominee(members[u]) \/ wasNominated(u)',
         tx' \in [Workers -> Tx \cup {Idle}], UNCHANGED founder,
         \A w \in Workers : tx'[w] # Idle => tx'[w] = tx[w]
  PROVE  TxIInv'
<1>1. \A u \in Users : wasNominated(u) => wasNominated(u)'
  BY DEF wasNominated
<1>2. InFlightInv'
  BY InFlight, StaysBased DEF InFlightInv
<1>3. NomineeInv'
  BY <1>1 DEF TxIInv, NomineeInv
<1>4. FounderInv'
  BY <1>1 DEF TxIInv, FounderInv
<1>5. UnfoundedInv'
  BY DEF UnfoundedInv
<1>6. OwnersWereNominated'
  BY <1>1 DEF TxIInv, OwnersWereNominated, wasNominated
<1>7. QED
  BY <1>2, <1>3, <1>4, <1>5, <1>6 DEF TxIInv, TxTypeOK

\* One row is written, its status, its flag or a role other than OWNER, with its event.
LEMMA OneRowStep ==
  ASSUME TxIInv, isFounded, NEW u \in Users, NEW m \in MembershipRow,
         members' = [members EXCEPT ![u] = m],
         m.role = "OWNER" => members[u].role = "OWNER",
         isNominee(m) => isNominee(members[u]) \/ wasNominated(u)',
         UNCHANGED <<profile, overdue>>, announced' \subseteq OutboxRow,
         nominations \subseteq nominations', nominations' \subseteq Users \X Users,
         tx' \in [Workers -> Tx \cup {Idle}], UNCHANGED founder,
         \A w \in Workers : tx'[w] # Idle => tx'[w] = tx[w]
  PROVE  TxIInv'
<1>1. TypeOK
  BY DEF TxIInv, TxTypeOK
<1>2. /\ members' \in [Users -> MembershipRow \cup {NoRow}] /\ members'[u] = m
      /\ \A v \in Users \ {u} : members'[v] = members[v]
  BY <1>1, OneRowChanges
<1>3. TypeOK'
  BY <1>1, <1>2 DEF TypeOK
<1>4. m.status # "NONE"
  BY DEF MembershipRow, MembershipStatus
<1>5. \A v \in Users : isStored(v) => isStored(v)'
  BY <1>2, <1>4 DEF isStored
<1>6. /\ \A v \in Users : members'[v].role = "OWNER" => members[v].role = "OWNER"
      /\ \A v \in Users : isNominee(members'[v]) => isNominee(members[v]) \/ wasNominated(v)'
  BY <1>2
<1>7. isFounded' /\ profile'.ownerMembershipId = profile.ownerMembershipId
  BY DEF isFounded
<1>8. QED
  BY <1>3, <1>5, <1>6, <1>7, ModestStep

\* No row is written.
LEMMA NoRowStep ==
  ASSUME TxIInv, isFounded, TypeOK', isFounded', UNCHANGED <<members, nominations>>,
         profile'.ownerMembershipId = profile.ownerMembershipId,
         tx' \in [Workers -> Tx \cup {Idle}], UNCHANGED founder,
         \A w \in Workers : tx'[w] # Idle => tx'[w] = tx[w]
  PROVE  TxIInv'
BY ModestStep DEF isStored, wasNominated

\* accept, decline and leave write the status of a row that was there when it was read.
LEMMA StatusStep ==
  ASSUME TxIInv, isFounded, NEW t, t.target \in Users, isStored(t.target),
         NEW status \in MembershipStatus, NEW type \in EventType,
         applyStatus(t, status, type), tx' \in [Workers -> Tx \cup {Idle}],
         UNCHANGED founder,
         \A w \in Workers : tx'[w] # Idle => tx'[w] = tx[w]
  PROVE  TxIInv'
<1>1. TypeOK
  BY DEF TxIInv, TxTypeOK
<1>2. members[t.target] \in MembershipRow
  BY <1>1, StoredRow DEF isStored
<1>3. PICK m \in MembershipRow : m = withStatus(members[t.target], status)
  BY <1>2, WithStatusFields
<1>4. m.role = members[t.target].role
  BY <1>2, <1>3, WithStatusFields
<1>5. isNominee(m) => isNominee(members[t.target])
  BY <1>2, <1>3, NomineeRows
<1>6. members' = [members EXCEPT ![t.target] = m]
  BY <1>1, <1>3 DEF applyStatus, TypeOK
<1>7. announced' \subseteq OutboxRow
  BY EventIsOutboxRow DEF applyStatus
<1>8. nominations \subseteq nominations' /\ nominations' \subseteq Users \X Users
  BY <1>1 DEF applyStatus, TypeOK
<1>9. QED
  BY <1>4, <1>5, <1>6, <1>7, <1>8, OneRowStep DEF applyStatus

\* A row that was not there is inserted, not as OWNER.
LEMMA InviteStep ==
  ASSUME TxIInv, isFounded, NEW t \in Tx, t.target \in Users, t.actor \in Users,
         t.role # "OWNER", writeInvite(t), tx' \in [Workers -> Tx \cup {Idle}],
         UNCHANGED founder,
         \A w \in Workers : tx'[w] # Idle => tx'[w] = tx[w]
  PROVE  TxIInv'
<1>1. TypeOK
  BY DEF TxIInv, TxTypeOK
<1>2. "INVITED" \in MembershipStatus /\ t.role \in MemberRole
  BY TxFields DEF MembershipStatus
<1>3. PICK m \in MembershipRow : m = NewRow("INVITED", t.role)
  BY <1>2, NewRowFields
<1>4. m.role = t.role
  BY <1>2, <1>3, NewRowFields
<1>5. ~isNominee(m)
  BY <1>2, <1>3, NewRowFields, Zenon DEF isNominee
<1>6. members' = [members EXCEPT ![t.target] = m]
  BY <1>1, <1>3 DEF writeInvite, TypeOK
<1>7. announced' \subseteq OutboxRow
  BY EventIsOutboxRow DEF writeInvite, EventType
<1>8. nominations \subseteq nominations' /\ nominations' \subseteq Users \X Users
  BY <1>1 DEF writeInvite, TypeOK
<1>9. QED
  BY <1>4, <1>5, <1>6, <1>7, <1>8, OneRowStep DEF writeInvite

\* A role change gives no ownership, but may take it away.
LEMMA RoleStep ==
  ASSUME TxIInv, isFounded, NEW t \in Tx, t.target \in Users, t.actor \in Users,
         t.role # "OWNER", isStored(t.target), writeRole(t),
         tx' \in [Workers -> Tx \cup {Idle}], UNCHANGED founder,
         \A w \in Workers : tx'[w] # Idle => tx'[w] = tx[w]
  PROVE  TxIInv'
<1>1. TypeOK
  BY DEF TxIInv, TxTypeOK
<1>2. members[t.target] \in MembershipRow /\ t.role \in MemberRole
  BY <1>1, StoredRow, TxFields DEF isStored
<1>3. PICK m \in MembershipRow : m = withRole(members[t.target], t.role)
  BY <1>2, WithRoleFields
<1>4. m.role = t.role
  BY <1>2, <1>3, WithRoleFields
<1>5. isNominee(m) => isNominee(members[t.target])
  BY <1>2, <1>3, NomineeRows
<1>6. members' = [members EXCEPT ![t.target] = m]
  BY <1>1, <1>3 DEF writeRole, TypeOK
<1>7. announced' \subseteq OutboxRow
  BY EventIsOutboxRow DEF writeRole, EventType
<1>8. nominations \subseteq nominations' /\ nominations' \subseteq Users \X Users
  BY <1>1 DEF writeRole, TypeOK
<1>9. QED
  BY <1>4, <1>5, <1>6, <1>7, <1>8, OneRowStep DEF writeRole

\* A nomination is in the audit trail.
LEMMA NominationStep ==
  ASSUME TxIInv, isFounded, NEW t \in Tx, t.target \in Users, t.actor \in Users,
         isStored(t.target), writeNomination(t), tx' \in [Workers -> Tx \cup {Idle}], UNCHANGED founder,
         \A w \in Workers : tx'[w] # Idle => tx'[w] = tx[w]
  PROVE  TxIInv'
<1>1. TypeOK
  BY DEF TxIInv, TxTypeOK
<1>2. members[t.target] \in MembershipRow
  BY <1>1, StoredRow DEF isStored
<1>3. PICK m \in MembershipRow : m = withNomination(members[t.target])
  BY <1>2, WithNominationFields
<1>4. m.role = members[t.target].role
  BY <1>2, <1>3, WithNominationFields
<1>5. wasNominated(t.target)'
  BY DEF writeNomination, wasNominated
<1>6. members' = [members EXCEPT ![t.target] = m]
  BY <1>1, <1>3 DEF writeNomination, TypeOK
<1>7. announced' \subseteq OutboxRow
  BY EventIsOutboxRow DEF writeNomination, EventType
<1>8. nominations \subseteq nominations' /\ nominations' \subseteq Users \X Users
  BY <1>1 DEF writeNomination, TypeOK
<1>9. QED
  BY <1>4, <1>5, <1>6, <1>7, <1>8, OneRowStep DEF writeNomination

\* The two rows that a transfer writes, also when they are one: the roles change, and
\* no status does.
LEMMA TransferRows ==
  ASSUME TypeOK, NEW t, t.target \in Users, t.actor \in Users,
         isStored(t.target), isStored(t.actor), writeTransfer(t)
  PROVE  /\ members' \in [Users -> MembershipRow \cup {NoRow}]
         /\ members'[t.actor].role # "OWNER"
         /\ \A v \in Users \ {t.actor, t.target} : members'[v] = members[v]
         /\ \A v \in Users : members'[v].status = members[v].status
         /\ \A v \in Users : isNominee(members'[v]) => isNominee(members[v])
<1>1. members[t.target] \in MembershipRow /\ members[t.actor] \in MembershipRow
  BY StoredRow DEF isStored
<1>2. PICK new \in MembershipRow :
        /\ new = asNewOwner(members[t.target]) /\ ~isNominee(new)
        /\ new.status = members[t.target].status
  BY <1>1, OwnerDeltaFields, NomineeRows
<1>3. PICK promoted \in [Users -> MembershipRow \cup {NoRow}] :
        /\ promoted = [members EXCEPT ![t.target] = new]
        /\ \A v \in Users : promoted[v] = IF v = t.target THEN new ELSE members[v]
  <2> DEFINE first == [members EXCEPT ![t.target] = new]
  <2>1. first \in [Users -> MembershipRow \cup {NoRow}]
    BY DEF TypeOK
  <2>2. \A v \in Users : first[v] = IF v = t.target THEN new ELSE members[v]
    BY DEF TypeOK
  <2>3. QED
    BY <2>1, <2>2
<1>4. PICK old \in MembershipRow : old = promoted[t.actor]
  BY <1>1, <1>3
<1>5. PICK out \in MembershipRow :
        /\ out = asOutgoingOwner(promoted[t.actor]) /\ out.role = "ADMIN"
        /\ out.status = promoted[t.actor].status
        /\ isNominee(out) => isNominee(promoted[t.actor])
  <2>1. /\ asOutgoingOwner(old) \in MembershipRow /\ asOutgoingOwner(old).role = "ADMIN"
        /\ asOutgoingOwner(old).status = old.status
        /\ isNominee(asOutgoingOwner(old)) => isNominee(old)
    BY OwnerDeltaFields, NomineeRows
  <2>2. QED
    BY <1>4, <2>1
<1>6. members' = [promoted EXCEPT ![t.actor] = out]
  <2>1. members' = [[members EXCEPT ![t.target] = asNewOwner(members[t.target])]
                      EXCEPT ![t.actor] = asOutgoingOwner(@)]
    BY DEF writeTransfer, TypeOK
  <2>2. QED
    BY <1>2, <1>3, <1>5, <2>1
<1>7. \A v \in Users : members'[v] = IF v = t.actor THEN out
                                     ELSE IF v = t.target THEN new ELSE members[v]
  BY <1>3, <1>6
<1>8. members' \in [Users -> MembershipRow \cup {NoRow}]
  BY <1>6
<1>9. \A v \in Users : /\ members'[v].status = members[v].status
                       /\ isNominee(members'[v]) => isNominee(members[v])
  BY <1>2, <1>3, <1>5, <1>7
<1>10. QED
  BY <1>5, <1>7, <1>8, <1>9

\* The ownership goes to a member who was nominated, and the founder, whom nobody
\* nominated, is the outgoing owner of the first transfer.
LEMMA TransferStep ==
  ASSUME TxIInv, isFounded, NEW t \in Tx, t.target \in Users, t.actor \in Users,
         isStored(t.target), isStored(t.actor), wasNominated(t.target),
         ~wasNominated(profile.ownerMembershipId) /\ profile.ownerMembershipId \in Users =>
           t.actor = profile.ownerMembershipId,
         writeTransfer(t), tx' \in [Workers -> Tx \cup {Idle}], UNCHANGED founder,
         \A w \in Workers : tx'[w] # Idle => tx'[w] = tx[w]
  PROVE  TxIInv'
<1>1. TypeOK
  BY DEF TxIInv, TxTypeOK
<1>2. /\ members' \in [Users -> MembershipRow \cup {NoRow}]
      /\ members'[t.actor].role # "OWNER"
      /\ \A u \in Users \ {t.actor, t.target} : members'[u] = members[u]
      /\ \A u \in Users : members'[u].status = members[u].status
      /\ \A u \in Users : isNominee(members'[u]) => isNominee(members[u])
  BY <1>1, TransferRows
<1>3. /\ profile' \in [status: ProfileStatus, ownerMembershipId: Users \cup {Nobody}]
      /\ profile'.ownerMembershipId = t.target /\ profile'.status = profile.status
  BY <1>1 DEF writeTransfer, TypeOK
<1>4. announced' \subseteq OutboxRow
  BY EventIsOutboxRow DEF writeTransfer, EventType
<1>5. TypeOK' /\ isFounded'
  BY <1>1, <1>2, <1>3, <1>4 DEF TypeOK, writeTransfer, isFounded
<1>6. UNCHANGED nominations /\ \A u \in Users : wasNominated(u) <=> wasNominated(u)'
  BY DEF writeTransfer, wasNominated
<1>7. \A u \in Users : isStored(u) => isStored(u)'
  BY <1>2 DEF isStored
<1>8. InFlightInv'
  BY <1>6, <1>7, InFlight, StaysBased DEF InFlightInv
<1>9. NomineeInv'
  BY <1>2, <1>6 DEF TxIInv, NomineeInv
<1>10. FounderInv'
  BY <1>3, <1>6 DEF FounderInv
<1>11. UnfoundedInv'
  BY <1>5 DEF UnfoundedInv
<1>12. OwnersWereNominated'
  <2>1. ASSUME NEW u \in Users, members'[u].role = "OWNER"
        PROVE  wasNominated(u)
    <3>1. u # t.actor /\ (u = t.target \/ members[u].role = "OWNER")
      BY <1>2, <2>1
    <3>2. profile.ownerMembershipId # u \/ wasNominated(u)
      BY <3>1
    <3>3. QED
      BY <3>1, <3>2 DEF TxIInv, OwnersWereNominated, wasNominated
  <2>2. QED
    BY <1>3, <1>6, <2>1 DEF OwnersWereNominated, wasNominated
<1>13. QED
  BY <1>5, <1>8, <1>9, <1>10, <1>11, <1>12 DEF TxIInv, TxTypeOK

\* The pointer of an archived profile stays.
LEMMA ArchiveStep ==
  ASSUME TxIInv, isFounded, NEW t \in Tx, t.actor \in Users,
         writeArchive(t), tx' \in [Workers -> Tx \cup {Idle}], UNCHANGED founder,
         \A w \in Workers : tx'[w] # Idle => tx'[w] = tx[w]
  PROVE  TxIInv'
<1>1. TypeOK
  BY DEF TxIInv, TxTypeOK
<1>2. /\ profile' \in [status: ProfileStatus, ownerMembershipId: Users \cup {Nobody}]
      /\ profile'.ownerMembershipId = profile.ownerMembershipId
      /\ profile'.status = "ARCHIVED"
  BY <1>1 DEF writeArchive, TypeOK, ProfileStatus
<1>3. announced' \subseteq OutboxRow
  BY EventIsOutboxRow DEF writeArchive, EventType
<1>4. TypeOK' /\ isFounded'
  BY <1>1, <1>2, <1>3 DEF TypeOK, writeArchive, isFounded
<1>5. QED
  BY <1>2, <1>4, NoRowStep DEF writeArchive

\* The job writes the status of pending invitations.
LEMMA ExpiryStep ==
  ASSUME TxIInv, isFounded, NEW t \in Tx,
         writeExpiry(t), tx' \in [Workers -> Tx \cup {Idle}], UNCHANGED founder,
         \A w \in Workers : tx'[w] # Idle => tx'[w] = tx[w]
  PROVE  TxIInv'
<1>1. TypeOK
  BY DEF TxIInv, TxTypeOK
<1>2. stillInvited(t.rows) \subseteq Users
  BY TxFields DEF stillInvited
<1>3. ASSUME NEW u \in stillInvited(t.rows)
      PROVE  /\ u \in Users /\ members[u] \in MembershipRow
             /\ withStatus(members[u], "EXPIRED") \in MembershipRow
             /\ withStatus(members[u], "EXPIRED").role = members[u].role
             /\ withStatus(members[u], "EXPIRED").status = "EXPIRED"
             /\ isNominee(withStatus(members[u], "EXPIRED")) <=> isNominee(members[u])
  <2>1. u \in Users /\ members[u].status # "NONE"
    BY <1>2 DEF stillInvited
  <2>2. members[u] \in MembershipRow /\ "EXPIRED" \in MembershipStatus
    BY <1>1, <2>1, StoredRow DEF MembershipStatus
  <2>3. /\ withStatus(members[u], "EXPIRED") \in MembershipRow
        /\ withStatus(members[u], "EXPIRED").role = members[u].role
        /\ withStatus(members[u], "EXPIRED").status = "EXPIRED"
    BY <2>2, WithStatusFields
  <2>4. isNominee(withStatus(members[u], "EXPIRED")) <=> isNominee(members[u])
    BY <2>2, NomineeRows
  <2>5. QED
    BY <2>1, <2>2, <2>3, <2>4
<1>4. members' = [u \in Users |-> IF u \in stillInvited(t.rows)
                                  THEN withStatus(members[u], "EXPIRED") ELSE members[u]]
  BY DEF writeExpiry
<1>5. members' \in [Users -> MembershipRow \cup {NoRow}]
  BY <1>1, <1>3, <1>4 DEF TypeOK
<1>6. announced' \subseteq OutboxRow
  BY <1>2, EventIsOutboxRow DEF writeExpiry, EventType
<1>7. TypeOK'
  BY <1>1, <1>5, <1>6 DEF TypeOK, writeExpiry
<1>8. ASSUME NEW u \in Users
      PROVE  /\ isStored(u) => isStored(u)'
             /\ members'[u].role = members[u].role
             /\ isNominee(members'[u]) => isNominee(members[u])
  BY <1>3, <1>4 DEF isStored
<1>9. /\ isFounded' /\ profile'.ownerMembershipId = profile.ownerMembershipId
      /\ nominations \subseteq nominations'
  BY DEF writeExpiry, isFounded
<1>10. QED
  BY <1>7, <1>8, <1>9, ModestStep

\* A profile is founded once, before any command, and its founder is its owner.
LEMMA CreateStep ==
  ASSUME TxIInv, NEW u \in Users, CreateSharedProfile(u), UNCHANGED tx, founder' = u
  PROVE  TxIInv'
<1>1. TypeOK /\ ~isFounded
  BY DEF TxIInv, TxTypeOK, CreateSharedProfile, isFounded
<1>2. /\ tx = [w \in Workers |-> Idle] /\ profile.ownerMembershipId = Nobody
      /\ members = [v \in Users |-> NoRow]
  BY <1>1 DEF TxIInv, UnfoundedInv
<1>3. TypeOK'
  BY <1>1, NextTypeOK DEF Next
<1>4. PICK m \in MembershipRow : m = NewRow("ACTIVE", "OWNER") /\ ~isNominee(m)
  <2>1. "ACTIVE" \in MembershipStatus /\ "OWNER" \in MemberRole
    BY DEF MembershipStatus, MemberRole
  <2>2. NewRow("ACTIVE", "OWNER") \in MembershipRow
    BY <2>1, NewRowFields
  <2>3. ~isNominee(NewRow("ACTIVE", "OWNER"))
    BY Zenon DEF isNominee, NewRow
  <2>4. QED
    BY <2>2, <2>3
<1>5. ~isNominee(NoRow) /\ NoRow.role # "OWNER"
  <2>1. ~isNominee(NoRow)
    BY Zenon DEF isNominee, NoRow
  <2>2. QED
    BY <2>1, NoRowFields
<1>6. \A v \in Users : members'[v] = IF v = u THEN m ELSE NoRow
  BY <1>2, <1>4 DEF CreateSharedProfile
<1>7. profile'.ownerMembershipId = u /\ isFounded'
  BY DEF CreateSharedProfile, isFounded
<1>8. TxTypeOK' /\ InFlightInv' /\ UnfoundedInv'
  BY <1>2, <1>3, <1>7 DEF TxIInv, TxTypeOK, InFlightInv, UnfoundedInv
<1>9. NomineeInv' /\ FounderInv' /\ OwnersWereNominated'
  BY <1>2, <1>4, <1>5, <1>6, <1>7 DEF NomineeInv, FounderInv, OwnersWereNominated
<1>10. QED
  BY <1>8, <1>9 DEF TxIInv

\* A deadline passes for a row that is there.
LEMMA DeadlineStep ==
  ASSUME TxIInv, NEW u \in Users, InvitationDeadlinePasses(u), UNCHANGED <<tx, founder>>
  PROVE  TxIInv'
<1>1. TypeOK
  BY DEF TxIInv, TxTypeOK
<1>2. TypeOK'
  BY <1>1, NextTypeOK DEF Next
<1>3. isFounded
  BY NoRowFields DEF TxIInv, UnfoundedInv, InvitationDeadlinePasses
<1>4. tx' \in [Workers -> Tx \cup {Idle}]
  BY DEF TxIInv, TxTypeOK
<1>5. isFounded'
  BY <1>3 DEF isFounded, InvitationDeadlinePasses
<1>6. QED
  BY <1>2, <1>3, <1>4, <1>5, NoRowStep DEF InvitationDeadlinePasses

-----------------------------------------------------------------------------
(* Steps of a worker. *)

\* A row that is there belongs to a profile that was founded.
LEMMA StoredIsFounded ==
  ASSUME TxIInv, NEW u \in Users, isStored(u)
  PROVE  isFounded
BY NoRowFields DEF TxIInv, UnfoundedInv, isStored

\* A worker comes to hold a command that is based on what it read.
LEMMA WorkerStep ==
  ASSUME TxIInv, isFounded, UNCHANGED stored, UNCHANGED founder, NEW w \in Workers, NEW t \in Tx,
         tx' = [tx EXCEPT ![w] = t], isBased(t),
         /\ t.cmd = "acceptOwnership" /\ t.read = 2
         /\ profile.ownerMembershipId \in Users /\ ~wasNominated(profile.ownerMembershipId)
         => t.actor = profile.ownerMembershipId
  PROVE  TxIInv'
<1>1. UNCHANGED <<profile, members, overdue, nominations, announced>>
  BY DEF stored, vars
<1>2. \A v \in Workers : tx'[v] = IF v = w THEN t ELSE tx[v]
  BY DEF TxIInv, TxTypeOK
<1>3. TxTypeOK'
  BY <1>1 DEF TxIInv, TxTypeOK, TypeOK
<1>4. InFlightInv'
  <2>1. \A u \in Users : isStored(u) => isStored(u)'
    BY <1>1 DEF isStored
  <2>2. QED
    BY <1>1, <1>2, <2>1, InFlight, StaysBased DEF InFlightInv
<1>5. NomineeInv' /\ UnfoundedInv' /\ OwnersWereNominated'
  BY <1>1 DEF TxIInv, NomineeInv, UnfoundedInv, OwnersWereNominated, wasNominated, isFounded
<1>6. FounderInv'
  <2>1. \A u \in Users : wasNominated(u)' <=> wasNominated(u)
    BY <1>1 DEF wasNominated
  <2>2. QED
    BY <1>1, <1>2, <2>1 DEF TxIInv, FounderInv
<1>7. QED
  BY <1>3, <1>4, <1>5, <1>6 DEF TxIInv

\* Nothing is written for a command that is given up.
LEMMA RollbackStep ==
  ASSUME TxIInv, NEW w \in Workers, Rollback(w), UNCHANGED founder
  PROVE  TxIInv'
<1>1. isFounded
  BY InFlightIsFounded DEF Rollback
<1>2. TypeOK' /\ isFounded'
  BY <1>1 DEF TxIInv, TxTypeOK, TypeOK, Rollback, stored, vars, isFounded
<1>3. /\ tx' \in [Workers -> Tx \cup {Idle}]
      /\ \A v \in Workers : tx'[v] # Idle => tx'[v] = tx[v]
  BY DEF TxIInv, TxTypeOK, Rollback
<1>4. QED
  BY <1>1, <1>2, <1>3, NoRowStep DEF Rollback, stored, vars

\* The caller of a command with a capability has a row.
LEMMA ActorIsStored ==
  ASSUME NEW t, readSucceeds(t, "actor")
  PROVE  isStored(t.actor)
BY DEF readSucceeds, requireCapability, isStored

\* A target that allows the command has a row, which for an acceptance of the
\* ownership carries a nomination.
LEMMA TargetIsStored ==
  ASSUME NEW t, t.cmd \in CommandName \ {"expirySweep", "inviteMember", "archiveProfile"},
         readSucceeds(t, "target")
  PROVE  /\ isStored(t.target)
         /\ t.cmd = "acceptOwnership" => isNominee(members[t.target])
<1>1. targetAllows(t)
  BY DEF readSucceeds
<1>2. CASE t.cmd = "acceptOwnership"
  <2>1. canAcceptOwnership(members[t.target])
    BY <1>1, <1>2 DEF targetAllows
  <2>2. isNominee(members[t.target]) /\ members[t.target].status = "ACTIVE"
    BY <2>1, Zenon DEF canAcceptOwnership, isNominee
  <2>3. QED
    BY <2>2 DEF isStored
<1>3. CASE t.cmd # "acceptOwnership"
  BY <1>1, <1>3
  DEF targetAllows, CommandName, canAccept, canDecline, canLeave, canChangeRole,
      canBeNominated, isStored
<1>4. QED
  BY <1>2, <1>3

\* What the first read of a command establishes.
LEMMA BeginStep ==
  ASSUME TxIInv, UNCHANGED founder, NEW w \in Workers, NEW cmd, NEW actor \in Users \cup {Nobody},
         NEW target \in Users \cup {Nobody}, NEW role \in MemberRole,
         NEW version \in 0..MaxVersion, NEW rows \in SUBSET Users,
         cmd # "expirySweep" => target \in Users,
         cmd \in {"inviteMember", "changeMemberRole"} => role # "OWNER",
         cmd \in {"inviteMember", "changeMemberRole", "nominateOwner", "archiveProfile"} =>
           actor \in Users,
         cmd = "expirySweep" => rows \subseteq due,
         Begin(w, cmd, actor, target, role, version, rows)
  PROVE  TxIInv'
<1>1. PICK t : t = [cmd |-> cmd, actor |-> actor, target |-> target, role |-> role,
                    version |-> version, rows |-> rows, read |-> 1]
  OBVIOUS
<1>2. cmd \in CommandName
  BY ProfilesTxAssumption DEF Begin
<1>3. /\ t \in Tx /\ t.cmd = cmd /\ t.actor = actor /\ t.target = target
      /\ t.role = role /\ t.rows = rows /\ t.read = 1
  BY <1>1, <1>2 DEF Tx
<1>4. readSucceeds(t, readsOf(cmd)[1]) /\ tx' = [tx EXCEPT ![w] = t] /\ UNCHANGED stored
  BY <1>1 DEF Begin
<1>5. /\ isBased(t) /\ isFounded
  <2>1. t.read <= Len(readsOf(t.cmd))
    <3>1. PICK n \in 1..3 : n = Len(readsOf(cmd))
      BY <1>2, ReadsAreFew
    <3>2. t.read = 1 /\ Len(readsOf(t.cmd)) = n
      BY <1>3, <3>1
    <3>3. QED
      BY <3>2
  <2>2. CASE cmd \in {"inviteMember", "nominateOwner", "archiveProfile"}
    <3>1. readSucceeds(t, "actor")
      BY <1>4, <2>2, ReadsAre
    <3>2. isFounded
      BY <1>3, <2>2, <3>1, ActorIsStored, StoredIsFounded
    <3>3. isBased(t)
      BY <1>3, <2>1, <2>2 DEF isBased
    <3>4. QED
      BY <3>2, <3>3
  <2>3. CASE cmd = "expirySweep"
    <3>1. readSucceeds(t, "target")
      BY <1>4, <2>3, ReadsAre
    <3>2. rows # {}
      BY <1>3, <2>3, <3>1 DEF readSucceeds, targetAllows
    <3>3. PICK u \in due : TRUE
      BY <2>3, <3>2
    <3>4. isStored(u) /\ u \in Users
      BY <3>3 DEF due, canExpire, isInvitationExpired, isStored
    <3>5. isBased(t)
      BY <1>3, <2>1, <2>3 DEF isBased
    <3>6. QED
      BY <3>4, <3>5, StoredIsFounded
  <2>4. CASE cmd \in CommandName
                       \ {"inviteMember", "nominateOwner", "archiveProfile", "expirySweep"}
    <3>1. readSucceeds(t, "target")
      BY <1>4, <2>4, ReadsAre DEF CommandName
    <3>2. /\ isStored(target) /\ target \in Users
          /\ cmd = "acceptOwnership" => isNominee(members[target])
      BY <1>3, <2>4, <3>1, TargetIsStored
    <3>3. cmd = "acceptOwnership" => wasNominated(target)
      BY <3>2 DEF TxIInv, NomineeInv
    <3>4. isBased(t)
      BY <1>3, <2>1, <2>4, <3>2, <3>3 DEF isBased
    <3>5. QED
      BY <3>2, <3>4, StoredIsFounded
  <2>5. QED
    BY <1>2, <2>2, <2>3, <2>4
<1>6. ~(t.cmd = "acceptOwnership" /\ t.read = 2)
  BY <1>3
<1>7. isBased(t) /\ isFounded /\ t \in Tx /\ tx' = [tx EXCEPT ![w] = t] /\ UNCHANGED stored
  BY <1>3, <1>4, <1>5
<1>8. QED
  BY <1>6, <1>7, WorkerStep

\* A later read advances the command by one read, which succeeded; the second read
\* of an acceptance of the ownership also fills in the owner it found.
LEMMA ReadMakes ==
  ASSUME TxIInv, NEW w \in Workers, Read(w)
  PROVE  \E t, more \in Tx :
           /\ t = tx[w] /\ isBased(t)
           /\ tx' = [tx EXCEPT ![w] = more] /\ UNCHANGED stored
           /\ more.cmd = t.cmd /\ more.target = t.target /\ more.role = t.role
           /\ more.rows = t.rows /\ more.version = t.version
           /\ more.read = t.read + 1 /\ more.read <= Len(readsOf(t.cmd))
           /\ readSucceeds(more, readsOf(t.cmd)[more.read])
           /\ IF t.cmd = "acceptOwnership" THEN more.actor \in Users
                                           ELSE more.actor = t.actor
<1>1. PICK t \in Tx : t = tx[w] /\ isBased(t)
  BY InFlight DEF Read
<1>3. PICK n \in 1..2, k \in 1..3 :
        /\ t.cmd \in CommandName /\ n = t.read /\ k = Len(readsOf(t.cmd)) /\ n < k
        /\ k # 1 /\ (n + 1 = 2 \/ n + 1 = 3)
  <2>1. t.read # Len(readsOf(t.cmd)) /\ t.read <= Len(readsOf(t.cmd))
    BY <1>1 DEF Read, isDecided, isBased
  <2>2. t.cmd \in CommandName /\ t.read \in 1..3
    BY TxFields
  <2>3. Len(readsOf(t.cmd)) \in 1..3
    BY <2>2, ReadsAreFew
  <2>4. PICK n \in 1..3, k \in 1..3 : n = t.read /\ k = Len(readsOf(t.cmd))
    BY <2>2, <2>3
  <2>5. n # k /\ n <= k
    BY <2>1, <2>4
  <2>6. n \in 1..2 /\ n < k /\ k # 1 /\ (n + 1 = 2 \/ n + 1 = 3)
    BY <2>5
  <2>7. QED
    BY <2>2, <2>4, <2>6
<1> DEFINE reads(u, found) ==
        /\ found = IF readsOf(t.cmd)[t.read + 1] = "owner" THEN [t EXCEPT !.actor = u] ELSE t
        /\ readSucceeds(found, readsOf(t.cmd)[t.read + 1])
        /\ tx' = [tx EXCEPT ![w] = [found EXCEPT !.read = found.read + 1]]
<1>0. PICK u \in Users : \E found : reads(u, found)
  BY <1>1 DEF Read
<1>4. PICK found : reads(u, found)
  BY <1>0
<1>5. UNCHANGED stored
  BY DEF Read
<1>6. PICK more : more = [found EXCEPT !.read = found.read + 1]
  OBVIOUS
<1>7. tx' = [tx EXCEPT ![w] = more]
  BY <1>4, <1>6
<1>8. CASE t.cmd = "acceptOwnership"
  <2>1. t.read = 1 /\ readsOf(t.cmd)[t.read + 1] = "owner" /\ Len(readsOf(t.cmd)) = 2
    <3>1. readsOf(t.cmd) = <<"target", "owner">>
      BY <1>8, ReadsAre
    <3>2. n = 1
      BY <1>3, <3>1
    <3>3. QED
      BY <1>3, <3>1, <3>2
  <2>2. found = [t EXCEPT !.actor = u]
    BY <1>4, <2>1
  <2>3. /\ found \in Tx /\ found.actor = u /\ found.cmd = t.cmd /\ found.read = t.read
        /\ found.target = t.target /\ found.role = t.role /\ found.rows = t.rows
        /\ found.version = t.version
    BY <2>2 DEF Tx
  <2>4. /\ more \in Tx /\ more.actor = u /\ more.cmd = t.cmd /\ more.read = 2
        /\ more.target = t.target /\ more.role = t.role /\ more.rows = t.rows
        /\ more.version = t.version
    BY <1>6, <2>1, <2>3 DEF Tx
  <2>5. isActiveOwner(members[u])
    BY <1>4, <2>1, <2>3 DEF readSucceeds
  <2>6. readSucceeds(more, "owner")
    BY <2>4, <2>5 DEF readSucceeds
  <2>7. readsOf(t.cmd)[more.read] = "owner"
    BY <2>1, <2>4
  <2>8. more.read = t.read + 1 /\ more.read <= Len(readsOf(t.cmd))
    BY <2>1, <2>4
  <2>9. readSucceeds(more, readsOf(t.cmd)[more.read])
    BY <2>6, <2>7
  <2>10. QED
    BY <1>1, <1>5, <1>7, <1>8, <2>4, <2>8, <2>9
<1>9. CASE t.cmd # "acceptOwnership"
  <2>1. readsOf(t.cmd)[t.read + 1] \in {"actor", "target", "profile", "absent", "alone"}
    <3>1. n + 1 = 2 \/ n + 1 = 3
      BY <1>3, Zenon
    <3>2. k # 1
      BY <1>3, Zenon
    <3>3. t.cmd \in {"acceptInvitation", "declineInvitation", "leaveProfile", "expirySweep"} =>
            readsOf(t.cmd) = <<"target">>
      BY ReadsAre, Zenon
    <3>4. t.cmd \notin {"acceptInvitation", "declineInvitation", "leaveProfile", "expirySweep"}
      BY <1>3, <3>2, <3>3
    <3>5. t.cmd \in {"inviteMember", "changeMemberRole", "nominateOwner", "archiveProfile"}
      BY <1>3, <1>9, <3>4, Zenon DEF CommandName
    <3>6. CASE t.cmd = "inviteMember"
      <4>1. readsOf(t.cmd) = <<"actor", "profile", "absent">>
        BY <3>6, ReadsAre
      <4>2. QED
        BY <1>3, <3>1, <4>1
    <3>7. CASE t.cmd = "changeMemberRole"
      <4>1. readsOf(t.cmd) = <<"target", "actor", "profile">>
        BY <3>7, ReadsAre
      <4>2. QED
        BY <1>3, <3>1, <4>1
    <3>8. CASE t.cmd = "nominateOwner"
      <4>1. readsOf(t.cmd) = <<"actor", "target">>
        BY <3>8, ReadsAre
      <4>2. QED
        BY <1>3, <3>1, <4>1
    <3>9. CASE t.cmd = "archiveProfile"
      <4>1. readsOf(t.cmd) = <<"actor", "profile", "alone">>
        BY <3>9, ReadsAre
      <4>2. QED
        BY <1>3, <3>1, <4>1
    <3>10. QED
      BY <3>5, <3>6, <3>7, <3>8, <3>9, Zenon
  <2>2. found = t
    BY <1>4, <2>1
  <2>3. n + 1 \in 1..3 /\ n + 1 <= k
    BY <1>3
  <2>4. /\ more \in Tx /\ more.actor = t.actor /\ more.cmd = t.cmd
        /\ more.read = n + 1 /\ more.target = t.target /\ more.role = t.role
        /\ more.rows = t.rows /\ more.version = t.version
    <3>1. more = [t EXCEPT !.read = n + 1]
      BY <1>3, <1>6, <2>2
    <3>2. QED
      BY <2>3, <3>1 DEF Tx
  <2>5. more.read = t.read + 1 /\ more.read <= Len(readsOf(t.cmd))
    BY <1>3, <2>3, <2>4
  <2>6. PICK read : read = readsOf(t.cmd)[t.read + 1]
    OBVIOUS
  <2>7. readSucceeds(t, read)
    BY <1>4, <2>2, <2>6
  <2>8. targetAllows(t) => targetAllows(more)
    BY <1>3, <2>4 DEF targetAllows
  <2>9. readSucceeds(more, read)
    BY <2>1, <2>4, <2>6, <2>7, <2>8 DEF readSucceeds
  <2>10. QED
    BY <1>1, <1>5, <1>7, <1>9, <2>4, <2>5, <2>6, <2>9
<1>10. QED
  BY <1>8, <1>9

\* What a later read establishes: the nominee's row, and for an acceptance of the
\* ownership an owner, who is the founder while nobody else was nominated.
LEMMA ReadStep ==
  ASSUME TxIInv, NEW w \in Workers, Read(w), UNCHANGED founder
  PROVE  TxIInv'
<1>1. PICK t, more \in Tx :
        /\ t = tx[w] /\ isBased(t)
        /\ tx' = [tx EXCEPT ![w] = more] /\ UNCHANGED stored
        /\ more.cmd = t.cmd /\ more.target = t.target /\ more.role = t.role
        /\ more.read = t.read + 1 /\ more.read <= Len(readsOf(t.cmd))
        /\ readSucceeds(more, readsOf(t.cmd)[more.read])
        /\ IF t.cmd = "acceptOwnership" THEN more.actor \in Users
                                        ELSE more.actor = t.actor
  BY ReadMakes
<1>2. isFounded
  BY InFlightIsFounded DEF Read
<1>3. t.cmd = "acceptOwnership" /\ more.read = 2 =>
        members[more.actor].status = "ACTIVE" /\ members[more.actor].role = "OWNER"
  <2> SUFFICES ASSUME t.cmd = "acceptOwnership", more.read = 2
               PROVE  isActiveOwner(members[more.actor])
    BY DEF isActiveOwner
  <2>1. readsOf(t.cmd)[more.read] = "owner"
    BY ReadsAre
  <2>2. QED
    BY <1>1, <2>1 DEF readSucceeds
<1>4. t.cmd = "nominateOwner" /\ more.read = 2 => isStored(t.target)
  <2> SUFFICES ASSUME t.cmd = "nominateOwner", more.read = 2
               PROVE  isStored(t.target)
    OBVIOUS
  <2>1. readsOf(t.cmd)[more.read] = "target"
    BY ReadsAre
  <2>2. readSucceeds(more, "target")
    BY <1>1, <2>1
  <2>3. QED
    BY <1>1, <2>2, TargetIsStored DEF CommandName
<1>5. isBased(more)
  BY <1>1, <1>3, <1>4 DEF isBased, isStored
<1>6. more.cmd = "acceptOwnership" /\ more.read = 2
      /\ profile.ownerMembershipId \in Users /\ ~wasNominated(profile.ownerMembershipId) =>
        more.actor = profile.ownerMembershipId
  BY <1>1, <1>3 DEF TxIInv, FounderInv
<1>7. QED
  BY <1>1, <1>2, <1>5, <1>6, WorkerStep

\* What a command writes once its reads are done.
LEMMA CommitStep ==
  ASSUME TxIInv, NEW w \in Workers, Commit(w), UNCHANGED founder
  PROVE  TxIInv'
<1>1. PICK t \in Tx : t = tx[w] /\ isBased(t)
  BY InFlight DEF Commit
<1>2. isFounded
  BY InFlightIsFounded DEF Commit
<1>3. /\ tx' \in [Workers -> Tx \cup {Idle}]
      /\ \A v \in Workers : tx'[v] # Idle => tx'[v] = tx[v]
  BY DEF TxIInv, TxTypeOK, Commit
<1>4. writes(t) /\ t.read = Len(readsOf(t.cmd)) /\ tx[w] # Idle
  BY <1>1 DEF Commit, isDecided
<1>5. t.cmd \in CommandName
  BY TxFields
<1>6. CASE t.cmd = "inviteMember"
  <2>1. writeInvite(t)
    BY <1>4, <1>6 DEF writes
  <2>2. t.target \in Users /\ t.actor \in Users /\ t.role # "OWNER"
    BY <1>1, <1>6 DEF isBased
  <2>3. QED
    BY <1>2, <1>3, <2>1, <2>2, InviteStep
<1>7. CASE t.cmd \in {"acceptInvitation", "declineInvitation", "leaveProfile"}
  <2>1. t.target \in Users /\ isStored(t.target)
    BY <1>1, <1>7 DEF isBased
  <2>2. \/ applyStatus(t, "ACTIVE", "InvitationAccepted")
        \/ applyStatus(t, "DECLINED", "InvitationDeclined")
        \/ applyStatus(t, "LEFT", "MemberLeft")
    BY <1>4, <1>7 DEF writes
  <2>3. /\ {"ACTIVE", "DECLINED", "LEFT"} \subseteq MembershipStatus
        /\ {"InvitationAccepted", "InvitationDeclined", "MemberLeft"} \subseteq EventType
    BY DEF MembershipStatus, EventType
  <2>4. QED
    BY <1>2, <1>3, <2>1, <2>2, <2>3, StatusStep
<1>8. CASE t.cmd = "changeMemberRole"
  <2>1. writeRole(t)
    BY <1>4, <1>8 DEF writes
  <2>2. t.target \in Users /\ t.actor \in Users /\ t.role # "OWNER" /\ isStored(t.target)
    BY <1>1, <1>8 DEF isBased
  <2>3. QED
    BY <1>2, <1>3, <2>1, <2>2, RoleStep
<1>9. CASE t.cmd = "nominateOwner"
  <2>1. writeNomination(t)
    BY <1>4, <1>9 DEF writes
  <2>2. t.read = 2
    <3>1. readsOf(t.cmd) = <<"actor", "target">>
      BY <1>9, ReadsAre
    <3>2. QED
      BY <1>4, <3>1
  <2>3. t.target \in Users /\ t.actor \in Users /\ isStored(t.target)
    BY <1>1, <1>9, <2>2 DEF isBased
  <2>4. QED
    BY <1>2, <1>3, <2>1, <2>3, NominationStep
<1>10. CASE t.cmd = "acceptOwnership"
  <2>1. writeTransfer(t)
    BY <1>4, <1>10 DEF writes
  <2>2. t.read = 2
    <3>1. readsOf(t.cmd) = <<"target", "owner">>
      BY <1>10, ReadsAre
    <3>2. QED
      BY <1>4, <3>1
  <2>3. /\ t.target \in Users /\ t.actor \in Users
        /\ isStored(t.target) /\ isStored(t.actor) /\ wasNominated(t.target)
    BY <1>1, <1>10, <2>2 DEF isBased
  <2>4. profile.ownerMembershipId \in Users /\ ~wasNominated(profile.ownerMembershipId) =>
          t.actor = profile.ownerMembershipId
    BY <1>1, <1>4, <1>10, <2>2 DEF TxIInv, FounderInv
  <2>5. QED
    BY <1>2, <1>3, <2>1, <2>3, <2>4, TransferStep
<1>11. CASE t.cmd = "archiveProfile"
  <2>1. writeArchive(t) /\ t.actor \in Users
    BY <1>1, <1>4, <1>11 DEF writes, isBased
  <2>2. QED
    BY <1>2, <1>3, <2>1, ArchiveStep
<1>12. CASE t.cmd = "expirySweep"
  <2>1. writeExpiry(t)
    BY <1>4, <1>12 DEF writes
  <2>2. QED
    BY <1>2, <1>3, <2>1, ExpiryStep
<1>13. QED
  BY <1>5, <1>6, <1>7, <1>8, <1>9, <1>10, <1>11, <1>12 DEF CommandName

\* The commands that requests issue name a user, and never the role of an owner.
LEMMA BeginSomeStep ==
  ASSUME TxIInv, NEW w \in Workers, BeginSome(w), UNCHANGED founder
  PROVE  TxIInv'
<1>1. PICK u \in Users :
        \/ \E cmd \in {"acceptInvitation", "declineInvitation", "leaveProfile", "archiveProfile"} :
             Begin(w, cmd, u, u, "VIEWER", 0, {})
        \/ Begin(w, "acceptOwnership", Nobody, u, "VIEWER", 0, {})
        \/ \E target \in Users :
             \/ Begin(w, "nominateOwner", u, target, "VIEWER", 0, {})
             \/ \E role \in Grants :
                  \/ Begin(w, "inviteMember", u, target, role, 0, {})
                  \/ \E v \in 0..MaxVersion :
                       Begin(w, "changeMemberRole", u, target, role, v, {})
  BY DEF BeginSome
<1>2. "VIEWER" \in MemberRole /\ 0 \in 0..MaxVersion /\ {} \in SUBSET Users
  BY ProfilesAssumption DEF MemberRole
<1>3. ASSUME NEW cmd \in {"acceptInvitation", "declineInvitation", "leaveProfile", "archiveProfile"},
             Begin(w, cmd, u, u, "VIEWER", 0, {})
      PROVE  TxIInv'
  BY <1>2, <1>3, BeginStep
<1>4. ASSUME Begin(w, "acceptOwnership", Nobody, u, "VIEWER", 0, {})
      PROVE  TxIInv'
  BY <1>2, <1>4, BeginStep
<1>5. ASSUME NEW target \in Users, Begin(w, "nominateOwner", u, target, "VIEWER", 0, {})
      PROVE  TxIInv'
  BY <1>2, <1>5, BeginStep
<1>6. ASSUME NEW target \in Users, NEW role \in Grants,
             Begin(w, "inviteMember", u, target, role, 0, {})
      PROVE  TxIInv'
  <2>1. role \in MemberRole /\ role # "OWNER"
    BY ProfilesTxAssumption
  <2>2. QED
    BY <1>2, <1>6, <2>1, BeginStep
<1>7. ASSUME NEW target \in Users, NEW role \in Grants, NEW v \in 0..MaxVersion,
             Begin(w, "changeMemberRole", u, target, role, v, {})
      PROVE  TxIInv'
  <2>1. role \in MemberRole /\ role # "OWNER"
    BY ProfilesTxAssumption
  <2>2. QED
    BY <1>2, <1>7, <2>1, BeginStep
<1>8. QED
  BY <1>1, <1>3, <1>4, <1>5, <1>6, <1>7

\* The job holds the invitations whose deadline has passed.
LEMMA BeginSweepStep ==
  ASSUME TxIInv, NEW w \in Workers, BeginSweep(w), UNCHANGED founder
  PROVE  TxIInv'
<1>1. "VIEWER" \in MemberRole /\ 0 \in 0..MaxVersion
  BY ProfilesAssumption DEF MemberRole
<1>2. due \in SUBSET Users
  BY DEF due
<1>3. Begin(w, "expirySweep", Nobody, Nobody, "VIEWER", 0, due)
  BY DEF BeginSweep
<1>4. QED
  BY <1>1, <1>2, <1>3, BeginStep

-----------------------------------------------------------------------------
(* The invariant. *)

\* Nothing is stored and nothing runs at first.
LEMMA InitTxIInv == TxInit => TxIInv
<1>1. SUFFICES ASSUME TxInit PROVE TxIInv
  OBVIOUS
<1>2. TypeOK
  BY <1>1 DEF TxInit, Init, TypeOK, ProfileStatus
<1>3. ~isNominee(NoRow) /\ NoRow.role # "OWNER"
  <2>1. ~isNominee(NoRow)
    BY Zenon DEF isNominee, NoRow
  <2>2. QED
    BY <2>1, NoRowFields
<1>4. TxTypeOK /\ InFlightInv /\ UnfoundedInv
  BY <1>1, <1>2 DEF TxInit, Init, TxTypeOK, InFlightInv, UnfoundedInv
<1>5. NomineeInv /\ FounderInv /\ OwnersWereNominated
  BY <1>1, <1>3 DEF TxInit, Init, NomineeInv, FounderInv, OwnersWereNominated
<1>6. QED
  BY <1>4, <1>5 DEF TxIInv

\* One case per action of the transactional specification.
LEMMA NextTxIInv == TxIInv /\ [TxNext]_txVars => TxIInv'
<1>1. SUFFICES ASSUME TxIInv, [TxNext]_txVars PROVE TxIInv'
  OBVIOUS
<1>2. CASE UNCHANGED txVars
  <2>1. UNCHANGED <<profile, members, overdue, nominations, announced, tx, founder>>
    BY <1>2 DEF txVars, stored, vars
  <2>2. QED
    BY <1>1, <2>1
    DEF TxIInv, TxTypeOK, TypeOK, InFlightInv, isBased, isStored, wasNominated, NomineeInv,
        FounderInv, UnfoundedInv, isFounded, OwnersWereNominated
<1>3. ASSUME NEW w \in Workers, BeginSome(w), UNCHANGED founder PROVE TxIInv'
  BY <1>1, <1>3, BeginSomeStep
<1>4. ASSUME NEW w \in Workers, BeginSweep(w), UNCHANGED founder PROVE TxIInv'
  BY <1>1, <1>4, BeginSweepStep
<1>5. ASSUME NEW w \in Workers, Read(w), UNCHANGED founder PROVE TxIInv'
  BY <1>1, <1>5, ReadStep
<1>6. ASSUME NEW w \in Workers, Commit(w), UNCHANGED founder PROVE TxIInv'
  BY <1>1, <1>6, CommitStep
<1>7. ASSUME NEW w \in Workers, Rollback(w), UNCHANGED founder PROVE TxIInv'
  BY <1>1, <1>7, RollbackStep
<1>8. ASSUME NEW u \in Users, CreateSharedProfile(u), UNCHANGED tx, founder' = u PROVE TxIInv'
  BY <1>1, <1>8, CreateStep
<1>9. ASSUME NEW u \in Users, InvitationDeadlinePasses(u), UNCHANGED <<tx, founder>>
      PROVE  TxIInv'
  BY <1>1, <1>9, DeadlineStep
<1>10. QED
  BY <1>1, <1>2, <1>3, <1>4, <1>5, <1>6, <1>7, <1>8, <1>9 DEF TxNext

\* It holds of every behaviour.
LEMMA TxInductive == TxSpec => []TxIInv
BY InitTxIInv, NextTxIInv, PTL DEF TxSpec

-----------------------------------------------------------------------------
(* Theorems. *)

\* The rows keep their shape and every worker holds a command of its shape, at
\* whatever read its transaction is.
THEOREM TxTypeCorrect == TxSpec => []TxTypeOK
<1>1. TxIInv => TxTypeOK
  BY DEF TxIInv
<1>2. QED
  BY <1>1, TxInductive, PTL

\* However the reads and the commits of the use cases interleave, whoever took the
\* profile over is shown nominated by the audit trail: an OWNER row without a
\* nomination is the founder's, who is then the only owner and the one pointed to.
THEOREM OwnersWereNominatedHolds == TxSpec => []OwnersWereNominated
<1>1. TxIInv => OwnersWereNominated
  BY DEF TxIInv
<1>2. QED
  BY <1>1, TxInductive, PTL

\* A row becomes EXPIRED, and its expiry is announced, by the commit of the sweep only,
\* from a row that is INVITED at that moment.
LEMMA SweepStep ==
  ASSUME TxIInv, [TxNext]_txVars, NEW u \in Users
  PROVE  /\ members'[u].status = "EXPIRED" => members[u].status \in {"INVITED", "EXPIRED"}
         /\ Event("InvitationExpired", Nobody, u, Nobody) \in announced' \ announced =>
              members[u].status = "INVITED" /\ members'[u].status = "EXPIRED"
<1> DEFINE Safe ==
             /\ members'[u].status = "EXPIRED" => members[u].status \in {"INVITED", "EXPIRED"}
             /\ Event("InvitationExpired", Nobody, u, Nobody) \in announced' \ announced =>
                  members[u].status = "INVITED" /\ members'[u].status = "EXPIRED"
<1>1. TypeOK
  BY DEF TxIInv, TxTypeOK
<1>2. ASSUME UNCHANGED stored PROVE Safe
  BY <1>2 DEF stored, vars
<1>3. ASSUME NEW type, NEW actor, NEW member, NEW other, type # "InvitationExpired",
             announced' = {Event(type, actor, member, other)},
             \/ members'[u].status \in {members[u].status, "ACTIVE", "INVITED", "DECLINED", "LEFT"}
             \/ members'[u].status = members[u].status
      PROVE  Safe
  BY <1>3 DEF Event
<1>4. ASSUME NEW t, NEW status \in {"ACTIVE", "DECLINED", "LEFT"}, NEW type,
             type # "InvitationExpired", applyStatus(t, status, type)
      PROVE  Safe
  <2>1. members'[u] \in {members[u], withStatus(members[u], status)}
    BY <1>1, <1>4 DEF applyStatus, TypeOK
  <2>2. u # t.target => members'[u] = members[u]
    BY <1>1, <1>4 DEF applyStatus, TypeOK
  <2>3. members[u] \in MembershipRow => withStatus(members[u], status).status = status
    BY WithStatusFields DEF MembershipStatus
  <2>4. withStatus(NoRow, status).status = status
    BY DEF withStatus, NoRow
  <2>5. members'[u].status \in {members[u].status, status}
    BY <1>1, <2>1, <2>3, <2>4 DEF TypeOK
  <2>6. announced' = {Event(type, t.target, t.target, Nobody)}
    BY <1>4 DEF applyStatus
  <2>7. QED
    BY <1>3, <1>4, <2>5, <2>6
<1>5. ASSUME NEW w \in Workers, Commit(w) PROVE Safe
  <2>1. PICK t \in Tx : t = tx[w] /\ isBased(t)
    BY <1>5, InFlight DEF Commit
  <2>2. writes(t) /\ t.read = Len(readsOf(t.cmd)) /\ t.cmd \in CommandName
    BY <1>5, <2>1, TxFields DEF Commit, isDecided
  <2>3. CASE t.cmd = "inviteMember"
    <3>1. writeInvite(t)
      BY <2>2, <2>3 DEF writes
    <3>2. members'[u] \in {members[u], NewRow("INVITED", t.role)}
      BY <1>1, <3>1 DEF writeInvite, TypeOK
    <3>3. NewRow("INVITED", t.role).status = "INVITED"
      BY DEF NewRow
    <3>4. members'[u].status \in {members[u].status, "INVITED"}
      BY <3>2, <3>3
    <3>5. QED
      BY <1>3, <3>1, <3>4 DEF writeInvite
  <2>4. CASE t.cmd \in {"acceptInvitation", "declineInvitation", "leaveProfile"}
    <3>1. \/ applyStatus(t, "ACTIVE", "InvitationAccepted")
          \/ applyStatus(t, "DECLINED", "InvitationDeclined")
          \/ applyStatus(t, "LEFT", "MemberLeft")
      BY <2>2, <2>4 DEF writes
    <3>2. QED
      BY <1>4, <3>1
  <2>5. CASE t.cmd = "changeMemberRole"
    <3>1. writeRole(t) /\ t.target \in Users /\ isStored(t.target) /\ t.role \in MemberRole
      BY <2>1, <2>2, <2>5, TxFields DEF writes, isBased
    <3>2. members[t.target] \in MembershipRow
      BY <1>1, <3>1, StoredRow DEF isStored
    <3>3. withRole(members[t.target], t.role).status = members[t.target].status
      BY <3>1, <3>2, WithRoleFields DEF writeRole
    <3>4. members'[u].status = members[u].status
      BY <1>1, <3>1, <3>3 DEF writeRole, TypeOK
    <3>5. QED
      BY <1>3, <3>1, <3>4 DEF writeRole
  <2>6. CASE t.cmd = "nominateOwner"
    <3>1. writeNomination(t) /\ t.target \in Users
      BY <2>1, <2>2, <2>6 DEF writes, isBased
    <3>2. isStored(t.target)
      <4>1. readsOf(t.cmd) = <<"actor", "target">>
        BY <2>6, ReadsAre
      <4>2. t.read = 2
        BY <2>2, <4>1
      <4>3. QED
        BY <2>1, <2>6, <4>2 DEF isBased
    <3>3. members[t.target] \in MembershipRow
      BY <1>1, <3>1, <3>2, StoredRow DEF isStored
    <3>4. withNomination(members[t.target]).status = members[t.target].status
      BY <3>3, WithNominationFields
    <3>5. members'[u].status = members[u].status
      BY <1>1, <3>1, <3>4 DEF writeNomination, TypeOK
    <3>6. QED
      BY <1>3, <3>1, <3>5 DEF writeNomination
  <2>7. CASE t.cmd = "acceptOwnership"
    <3>1. writeTransfer(t)
      BY <2>2, <2>7 DEF writes
    <3>2. t.target \in Users /\ t.actor \in Users /\ isStored(t.target) /\ isStored(t.actor)
      <4>1. readsOf(t.cmd) = <<"target", "owner">>
        BY <2>7, ReadsAre
      <4>2. t.read = 2
        BY <2>2, <4>1
      <4>3. QED
        BY <2>1, <2>7, <4>2 DEF isBased
    <3>3. members'[u].status = members[u].status
      BY <1>1, <3>1, <3>2, TransferRows
    <3>4. QED
      BY <1>3, <3>1, <3>3 DEF writeTransfer
  <2>8. CASE t.cmd = "archiveProfile"
    <3>1. writeArchive(t)
      BY <2>2, <2>8 DEF writes
    <3>2. QED
      BY <1>3, <3>1 DEF writeArchive
  <2>9. CASE t.cmd = "expirySweep"
    <3>1. writeExpiry(t)
      BY <2>2, <2>9 DEF writes
    <3>2. members[u] \in MembershipRow /\ u \in stillInvited(t.rows) =>
            withStatus(members[u], "EXPIRED").status = "EXPIRED"
      BY WithStatusFields DEF MembershipStatus
    <3>3. u \in stillInvited(t.rows) => members[u].status = "INVITED"
      BY DEF stillInvited
    <3>4. u \in stillInvited(t.rows) => members'[u].status = "EXPIRED"
      <4>1. u \in stillInvited(t.rows) => members[u] \in MembershipRow
        BY <1>1, <3>3, StoredRow
      <4>2. QED
        BY <3>1, <3>2, <4>1 DEF writeExpiry
    <3>5. u \notin stillInvited(t.rows) => members'[u] = members[u]
      BY <3>1 DEF writeExpiry
    <3>6. Event("InvitationExpired", Nobody, u, Nobody) \in announced' => u \in stillInvited(t.rows)
      BY <3>1 DEF writeExpiry, Event
    <3>7. QED
      BY <3>3, <3>4, <3>5, <3>6
  <2>10. QED
    BY <2>2, <2>3, <2>4, <2>5, <2>6, <2>7, <2>8, <2>9 DEF CommandName
<1>6. ASSUME NEW v \in Users, CreateSharedProfile(v) PROVE Safe
  <2>1. members'[u] \in {members[u], NewRow("ACTIVE", "OWNER")}
    BY <1>1, <1>6 DEF CreateSharedProfile, TypeOK
  <2>2. NewRow("ACTIVE", "OWNER").status = "ACTIVE"
    BY DEF NewRow
  <2>3. members'[u].status \in {members[u].status, "ACTIVE"}
    BY <2>1, <2>2
  <2>4. QED
    BY <1>3, <1>6, <2>3 DEF CreateSharedProfile
<1>7. ASSUME NEW v \in Users, InvitationDeadlinePasses(v) PROVE Safe
  BY <1>7 DEF InvitationDeadlinePasses
<1>8. CASE UNCHANGED txVars
  BY <1>2, <1>8 DEF txVars
<1>9. ASSUME NEW w \in Workers, BeginSome(w) \/ BeginSweep(w) \/ Read(w) \/ Rollback(w)
      PROVE  Safe
  BY <1>2, <1>9 DEF BeginSome, BeginSweep, Begin, Read, Rollback
<1>10. QED
  BY <1>5, <1>6, <1>7, <1>8, <1>9 DEF TxNext

\* The sweep throws out no member whose acceptance was committed after its query, and
\* announces exactly the invitations it ends.
THEOREM SweepIsSafeHolds == TxSpec => SweepIsSafe
<1>1. TxIInv /\ [TxNext]_txVars =>
        [\A u \in Users :
           /\ members'[u].status = "EXPIRED" => members[u].status \in {"INVITED", "EXPIRED"}
           /\ Event("InvitationExpired", Nobody, u, Nobody) \in announced' \ announced =>
                members[u].status = "INVITED" /\ members'[u].status = "EXPIRED"]_txVars
  BY SweepStep
<1>2. QED
  BY <1>1, TxInductive, PTL DEF TxSpec, SweepIsSafe

-----------------------------------------------------------------------------
(* One command at a time.  Were a lock on the profile held from the first    *)
(* read of a command to its commit, the transactions would be the atomic use *)
(* cases of Profiles.                                                        *)

OneAtATime == \A v, w \in Workers : tx[v] # Idle /\ tx[w] # Idle => v = w

\* What a read found is still so.  The clock does not wait: the deadline of an
\* acceptance may pass after its read.
stillStands(t, read) ==
  CASE read = "target" /\ t.cmd = "acceptInvitation" -> members[t.target].status = "INVITED"
    [] read = "target" /\ t.cmd = "expirySweep" -> JobBypassesRls /\ t.rows \subseteq due
    [] OTHER -> readSucceeds(t, read)

isCurrent(t) == \A k \in 1..t.read : stillStands(t, readsOf(t.cmd)[k])

\* Commands in flight have not been overtaken, and no deadline passes before there
\* is a profile to be invited to.
CurrentInv ==
  /\ \A w \in Workers : tx[w] # Idle => isCurrent(tx[w])
  /\ ~isFounded => overdue = {}

SerialInv == TxIInv /\ CurrentInv

\* A command is not overtaken while only the clock moves.
LEMMA StaysCurrent ==
  ASSUME NEW t \in Tx, isCurrent(t), isBased(t), UNCHANGED <<profile, members>>,
         overdue \subseteq overdue'
  PROVE  isCurrent(t)'
<1>1. SUFFICES ASSUME NEW k \in 1..t.read PROVE stillStands(t, readsOf(t.cmd)[k])'
  BY DEF isCurrent
<1>2. PICK read : read = readsOf(t.cmd)[k]
  OBVIOUS
<1>3. stillStands(t, read)
  BY <1>2 DEF isCurrent
<1>4. read \in {"actor", "target", "profile", "absent", "alone", "owner"}
      /\ (read = "target" => t.cmd \notin {"inviteMember", "archiveProfile"})
  <2>1. t.cmd \in CommandName /\ t.read \in 1..3
    BY TxFields
  <2>2. PICK n \in 1..3, m \in 1..3 : n = t.read /\ m = Len(readsOf(t.cmd))
    BY <2>1, ReadsAreFew
  <2>3. k \in 1..m
    BY <2>2 DEF isBased
  <2>4. k \in 1..Len(readsOf(t.cmd))
    BY <2>2, <2>3
  <2>5. QED
    BY <1>2, <2>1, <2>4, ReadsAre DEF CommandName
<1>5. CASE read # "target"
  <2>1. readSucceeds(t, read)
    BY <1>3, <1>5 DEF stillStands
  <2>2. readSucceeds(t, read)'
    BY <1>4, <1>5, <2>1 DEF readSucceeds, isWritable, atMostOneActiveMember
  <2>3. QED
    BY <1>2, <1>5, <2>2 DEF stillStands
<1>6. CASE read = "target" /\ t.cmd = "acceptInvitation"
  BY <1>2, <1>3, <1>6 DEF stillStands
<1>7. CASE read = "target" /\ t.cmd = "expirySweep"
  BY <1>2, <1>3, <1>7 DEF stillStands, due, canExpire, isInvitationExpired
<1>8. CASE read = "target" /\ t.cmd \notin {"acceptInvitation", "expirySweep"}
  <2>1. targetAllows(t)
    BY <1>3, <1>8 DEF stillStands, readSucceeds
  <2>2. t.cmd \in {"declineInvitation", "leaveProfile", "changeMemberRole", "nominateOwner",
                   "acceptOwnership"}
    BY <1>4, <1>8, TxFields DEF CommandName
  <2>3. targetAllows(t)'
    BY <2>1, <2>2 DEF targetAllows
  <2>4. QED
    BY <1>2, <1>8, <2>3 DEF stillStands, readSucceeds
<1>9. QED
  BY <1>5, <1>6, <1>7, <1>8

\* A read that succeeds finds what the command goes on with.
LEMMA ReadStands ==
  ASSUME NEW t \in Tx, NEW read, readSucceeds(t, read),
         t.cmd = "expirySweep" => JobBypassesRls /\ t.rows \subseteq due
  PROVE  stillStands(t, read)
BY DEF stillStands, readSucceeds, targetAllows, canAccept

\* The command a worker comes to hold is the only one, and has not been overtaken.
LEMMA HolderStep ==
  ASSUME SerialInv, TxIInv', OneAtATime', NEW w \in Workers, NEW t \in Tx, UNCHANGED stored,
         tx' = [tx EXCEPT ![w] = t], isFounded, isBased(t), isCurrent(t)
  PROVE  SerialInv'
<1>1. UNCHANGED <<profile, members, overdue>>
  BY DEF stored, vars
<1>2. tx'[w] = t
  BY DEF SerialInv, TxIInv, TxTypeOK
<1>3. t # Idle
  BY TxFields DEF Idle, CommandName
<1>4. \A v \in Workers : tx'[v] # Idle => tx'[v] = t
  BY <1>2, <1>3 DEF OneAtATime
<1>5. isCurrent(t)'
  BY <1>1, StaysCurrent
<1>6. \A v \in Workers : tx'[v] # Idle => isCurrent(tx[v])'
  BY <1>4, <1>5
<1>7. isFounded'
  BY <1>1 DEF isFounded
<1>8. QED
  BY <1>6, <1>7 DEF SerialInv, CurrentInv

\* The first read of a command.
LEMMA BeginSerial ==
  ASSUME SerialInv, TxIInv', OneAtATime', NEW w \in Workers,
         BeginSome(w) \/ BeginSweep(w)
  PROVE  SerialInv'
<1>1. PICK cmd, actor, target, role, version, rows :
        /\ Begin(w, cmd, actor, target, role, version, rows)
        /\ cmd = "expirySweep" => JobBypassesRls /\ rows \subseteq due
  BY DEF BeginSome, BeginSweep
<1>2. PICK t : t = [cmd |-> cmd, actor |-> actor, target |-> target, role |-> role,
                    version |-> version, rows |-> rows, read |-> 1]
  OBVIOUS
<1>3. t.cmd = cmd /\ t.rows = rows /\ t.read = 1
  BY <1>2
<1>4. readSucceeds(t, readsOf(cmd)[1]) /\ tx' = [tx EXCEPT ![w] = t] /\ UNCHANGED stored
  BY <1>1, <1>2 DEF Begin
<1>5. tx'[w] = t /\ t # Idle
  <2>1. tx'[w] = t
    BY <1>4 DEF SerialInv, TxIInv, TxTypeOK
  <2>2. cmd # "idle"
    BY <1>1, ProfilesTxAssumption DEF Begin, CommandName
  <2>3. QED
    BY <1>3, <2>1, <2>2 DEF Idle
<1>6. t \in Tx /\ isBased(t)
  <2>1. t \in Tx /\ isBased(t)'
    BY <1>5 DEF TxIInv, TxTypeOK, InFlightInv
  <2>2. QED
    BY <1>4, <2>1 DEF isBased, isStored, wasNominated, stored, vars
<1>7. isCurrent(t)
  <2>1. stillStands(t, readsOf(cmd)[1])
    BY <1>1, <1>3, <1>4, <1>6, ReadStands
  <2>2. QED
    BY <1>3, <2>1 DEF isCurrent
<1>8. isFounded
  <2>1. isFounded'
    BY <1>5 DEF TxIInv, UnfoundedInv
  <2>2. QED
    BY <1>4, <2>1 DEF stored, vars, isFounded
<1>9. QED
  BY <1>4, <1>6, <1>7, <1>8, HolderStep

\* A later read.
LEMMA ReadSerial ==
  ASSUME SerialInv, TxIInv', OneAtATime', NEW w \in Workers, Read(w)
  PROVE  SerialInv'
<1>1. PICK t, more \in Tx :
        /\ t = tx[w] /\ isBased(t)
        /\ tx' = [tx EXCEPT ![w] = more] /\ UNCHANGED stored
        /\ more.cmd = t.cmd /\ more.target = t.target /\ more.role = t.role
        /\ more.rows = t.rows /\ more.version = t.version
        /\ more.read = t.read + 1 /\ more.read <= Len(readsOf(t.cmd))
        /\ readSucceeds(more, readsOf(t.cmd)[more.read])
        /\ IF t.cmd = "acceptOwnership" THEN more.actor \in Users
                                        ELSE more.actor = t.actor
  BY ReadMakes DEF SerialInv
<1>2. isCurrent(t) /\ tx[w] # Idle
  BY <1>1 DEF SerialInv, CurrentInv, Read
<1>3. t.cmd \in CommandName /\ t.read \in 1..3
  BY TxFields
<1>4. t.cmd # "expirySweep"
  BY <1>1, <1>3, ReadsAre
<1>5. stillStands(more, readsOf(t.cmd)[more.read])
  BY <1>1, <1>4, ReadStands
<1>6. ASSUME NEW k \in 1..t.read
      PROVE  stillStands(more, readsOf(t.cmd)[k])
  <2>1. PICK read : read = readsOf(t.cmd)[k]
    OBVIOUS
  <2>2. stillStands(t, read)
    BY <1>2, <2>1 DEF isCurrent
  <2>3. CASE t.cmd = "acceptOwnership"
    <3>1. read = "target"
      BY <1>1, <1>3, <2>1, <2>3, ReadsAre
    <3>2. QED
      BY <1>1, <2>1, <2>2, <2>3, <3>1 DEF stillStands, readSucceeds, targetAllows
  <2>4. CASE t.cmd # "acceptOwnership"
    <3>1. /\ read \in {"actor", "target", "profile", "absent", "alone"}
          /\ t.cmd \in {"inviteMember", "changeMemberRole", "nominateOwner", "archiveProfile"}
          /\ read = "target" => t.cmd \in {"changeMemberRole", "nominateOwner"}
      BY <1>1, <1>3, <2>1, <2>4, ReadsAre DEF CommandName
    <3>2. targetAllows(t) /\ read = "target" => targetAllows(more)
      BY <1>1, <3>1 DEF targetAllows
    <3>3. readSucceeds(t, read)
      BY <2>2, <3>1 DEF stillStands
    <3>4. readSucceeds(more, read)
      BY <1>1, <2>4, <3>1, <3>2, <3>3 DEF readSucceeds
    <3>5. QED
      BY <1>1, <2>1, <3>1, <3>4 DEF stillStands
  <2>5. QED
    BY <2>3, <2>4
<1>7. \A k \in 1..more.read : stillStands(more, readsOf(t.cmd)[k])
  <2> SUFFICES ASSUME NEW k \in 1..more.read PROVE stillStands(more, readsOf(t.cmd)[k])
    OBVIOUS
  <2>1. k \in 1..t.read \/ k = more.read
    BY <1>1, <1>3
  <2>2. QED
    BY <1>5, <1>6, <2>1
<1>8. isCurrent(more)
  BY <1>1, <1>7 DEF isCurrent
<1>9. isBased(more)
  <2>1. tx'[w] = more
    BY <1>1 DEF SerialInv, TxIInv, TxTypeOK
  <2>2. more # Idle
    BY <1>1, <1>3 DEF Idle, CommandName
  <2>3. isBased(more)'
    BY <2>1, <2>2 DEF TxIInv, InFlightInv
  <2>4. QED
    BY <1>1, <2>3 DEF isBased, isStored, wasNominated, stored, vars
<1>10. isFounded
  BY <1>2, InFlightIsFounded DEF SerialInv
<1>11. QED
  BY <1>1, <1>8, <1>9, <1>10, HolderStep

\* Nobody writes the profile row away.
LEMMA StaysFounded ==
  ASSUME TxIInv, NEW w \in Workers, Commit(w)
  PROVE  isFounded /\ isFounded'
<1>1. isFounded
  BY InFlightIsFounded DEF Commit
<1>2. PICK t \in Tx : t = tx[w]
  BY InFlight DEF Commit
<1>3. writes(t) /\ t.cmd \in CommandName
  BY <1>2, TxFields DEF Commit
<1>4. profile \in [status: ProfileStatus, ownerMembershipId: Users \cup {Nobody}]
  BY DEF TxIInv, TxTypeOK, TypeOK
<1>5. \/ profile' = profile
      \/ profile' = [profile EXCEPT !.ownerMembershipId = t.target]
      \/ profile' = [profile EXCEPT !.status = "ARCHIVED"]
  BY <1>3
  DEF CommandName, writes, writeInvite, applyStatus, writeRole, writeNomination,
      writeTransfer, writeArchive, writeExpiry
<1>6. QED
  BY <1>1, <1>4, <1>5 DEF isFounded

\* The end of the only command leaves all workers idle.
LEMMA EndSerial ==
  ASSUME SerialInv, TxIInv', OneAtATime, NEW w \in Workers, Commit(w) \/ Rollback(w)
  PROVE  /\ SerialInv'
         /\ \A v \in Workers : tx'[v] = Idle
<1>1. \A v \in Workers : tx'[v] = Idle
  BY DEF Commit, Rollback, OneAtATime, SerialInv, TxIInv, TxTypeOK
<1>2. isFounded'
  <2>1. CASE Commit(w)
    BY <2>1, StaysFounded DEF SerialInv
  <2>2. CASE Rollback(w)
    BY <2>2, InFlightIsFounded DEF Rollback, SerialInv, isFounded, stored, vars
  <2>3. QED
    BY <2>1, <2>2
<1>3. QED
  BY <1>1, <1>2 DEF SerialInv, CurrentInv

\* SerialInv is inductive as long as commands come one at a time.
LEMMA NextSerial ==
  SerialInv /\ OneAtATime /\ OneAtATime' /\ [TxNext]_txVars => SerialInv'
<1>1. SUFFICES ASSUME SerialInv, OneAtATime, OneAtATime', [TxNext]_txVars
               PROVE  SerialInv'
  OBVIOUS
<1>2. TxIInv /\ TxIInv'
  BY <1>1, NextTxIInv DEF SerialInv
<1>3. ASSUME UNCHANGED <<profile, members, tx>>, overdue \subseteq overdue',
             isFounded \/ overdue' = overdue
      PROVE  SerialInv'
  <2>1. ASSUME NEW w \in Workers, tx'[w] # Idle
        PROVE  isCurrent(tx[w])'
    <3>1. PICK t \in Tx : t = tx[w] /\ isBased(t)
      BY <1>2, <1>3, <2>1, InFlight
    <3>2. isCurrent(t)
      BY <1>1, <1>3, <2>1, <3>1 DEF SerialInv, CurrentInv
    <3>3. isCurrent(t)' /\ tx'[w] = t
      BY <1>3, <3>1, <3>2, StaysCurrent
    <3>4. QED
      BY <3>3
  <2>2. ~isFounded' => overdue' = {}
    BY <1>1, <1>3 DEF SerialInv, CurrentInv, isFounded
  <2>3. QED
    BY <1>2, <2>1, <2>2 DEF SerialInv, CurrentInv
<1>4. CASE UNCHANGED txVars
  BY <1>3, <1>4 DEF txVars, stored, vars
<1>5. ASSUME NEW u \in Users, InvitationDeadlinePasses(u), UNCHANGED tx
      PROVE  SerialInv'
  <2>1. isStored(u)
    BY <1>5 DEF InvitationDeadlinePasses, isStored
  <2>2. isFounded
    BY <1>2, <2>1, StoredIsFounded
  <2>3. QED
    BY <1>3, <1>5, <2>2 DEF InvitationDeadlinePasses
<1>6. ASSUME NEW u \in Users, CreateSharedProfile(u), UNCHANGED tx PROVE SerialInv'
  BY <1>2, <1>6
  DEF CreateSharedProfile, isFounded, SerialInv, CurrentInv, TxIInv, UnfoundedInv
<1>7. ASSUME NEW w \in Workers, BeginSome(w) \/ BeginSweep(w) PROVE SerialInv'
  BY <1>1, <1>2, <1>7, BeginSerial
<1>8. ASSUME NEW w \in Workers, Read(w) PROVE SerialInv'
  BY <1>1, <1>2, <1>8, ReadSerial
<1>9. ASSUME NEW w \in Workers, Commit(w) \/ Rollback(w) PROVE SerialInv'
  BY <1>1, <1>2, <1>9, EndSerial
<1>10. QED
  BY <1>1, <1>4, <1>5, <1>6, <1>7, <1>8, <1>9 DEF TxNext

\* A use case whose decision does not look at the deadline.
TimelessUseCase ==
  \/ \E u \in Users : DeclineInvitation(u) \/ LeaveProfile(u) \/ ArchiveProfile(u)
  \/ \E actor, user \in Users :
       \/ \E role \in MemberRole : InviteMember(actor, user, role)
       \/ \E role \in MemberRole, v \in 0..MaxVersion : ChangeMemberRole(actor, user, role, v)
       \/ NominateOwner(actor, user)
       \/ AcceptOwnership(user, actor)

\* What a command knows when it commits, if it was not overtaken.
LEMMA DecidedOn ==
  ASSUME NEW t \in Tx, isCurrent(t), isDecided(t)
  PROVE  /\ t.cmd = "inviteMember" =>
              requireCapability(members[t.actor], "INVITE_MEMBER") /\ isWritable
         /\ t.cmd = "acceptInvitation" => members[t.target].status = "INVITED"
         /\ t.cmd = "declineInvitation" => canDecline(members[t.target])
         /\ t.cmd = "leaveProfile" => canLeave(members[t.target])
         /\ t.cmd = "changeMemberRole" =>
              /\ canChangeRole(members[t.target], t.role)
              /\ requireCapability(members[t.actor], "CHANGE_MEMBER_ROLE") /\ isWritable
         /\ t.cmd = "nominateOwner" =>
              /\ requireCapability(members[t.actor], "NOMINATE_OWNER")
              /\ canBeNominated(members[t.target])
         /\ t.cmd = "acceptOwnership" =>
              canAcceptOwnership(members[t.target]) /\ isActiveOwner(members[t.actor])
         /\ t.cmd = "archiveProfile" =>
              /\ requireCapability(members[t.actor], "ARCHIVE_PROFILE")
              /\ isWritable /\ atMostOneActiveMember
         /\ t.cmd = "expirySweep" => JobBypassesRls /\ t.rows \subseteq due
<1>1. \A k \in 1..Len(readsOf(t.cmd)) : stillStands(t, readsOf(t.cmd)[k])
  BY DEF isCurrent, isDecided
<1>2. CASE t.cmd = "inviteMember"
  <2>1. /\ {1, 2, 3} \subseteq 1..Len(readsOf(t.cmd))
        /\ readsOf(t.cmd)[1] = "actor" /\ readsOf(t.cmd)[2] = "profile"
        /\ readsOf(t.cmd)[3] = "absent"
    BY <1>2, ReadsAre
  <2>2. stillStands(t, "actor") /\ stillStands(t, "profile")
    BY <1>1, <2>1
  <2>3. QED
    BY <1>2, <2>2 DEF stillStands, readSucceeds, capabilityOf
<1>3. CASE t.cmd \in {"acceptInvitation", "declineInvitation", "leaveProfile", "expirySweep"}
  <2>1. stillStands(t, "target")
    BY <1>1, <1>3, ReadsAre
  <2>2. QED
    BY <1>3, <2>1 DEF stillStands, readSucceeds, targetAllows
<1>4. CASE t.cmd = "changeMemberRole"
  <2>1. /\ {1, 2, 3} \subseteq 1..Len(readsOf(t.cmd))
        /\ readsOf(t.cmd)[1] = "target" /\ readsOf(t.cmd)[2] = "actor"
        /\ readsOf(t.cmd)[3] = "profile"
    BY <1>4, ReadsAre
  <2>2. stillStands(t, "target") /\ stillStands(t, "actor") /\ stillStands(t, "profile")
    BY <1>1, <2>1
  <2>3. QED
    BY <1>4, <2>2 DEF stillStands, readSucceeds, targetAllows, capabilityOf
<1>5. CASE t.cmd = "nominateOwner"
  <2>1. stillStands(t, "actor") /\ stillStands(t, "target")
    BY <1>1, <1>5, ReadsAre
  <2>2. QED
    BY <1>5, <2>1 DEF stillStands, readSucceeds, targetAllows, capabilityOf
<1>6. CASE t.cmd = "acceptOwnership"
  <2>1. stillStands(t, "target") /\ stillStands(t, "owner")
    BY <1>1, <1>6, ReadsAre
  <2>2. QED
    BY <1>6, <2>1 DEF stillStands, readSucceeds, targetAllows
<1>7. CASE t.cmd = "archiveProfile"
  <2>1. /\ {1, 2, 3} \subseteq 1..Len(readsOf(t.cmd))
        /\ readsOf(t.cmd)[1] = "actor" /\ readsOf(t.cmd)[2] = "profile"
        /\ readsOf(t.cmd)[3] = "alone"
    BY <1>7, ReadsAre
  <2>2. stillStands(t, "actor") /\ stillStands(t, "profile") /\ stillStands(t, "alone")
    BY <1>1, <2>1
  <2>3. QED
    BY <1>7, <2>2 DEF stillStands, readSucceeds, capabilityOf
<1>8. QED
  BY <1>2, <1>3, <1>4, <1>5, <1>6, <1>7, TxFields DEF CommandName

\* The commit of a command that was not overtaken is a use case of Profiles, except
\* that an acceptance may come after the deadline, if it was read before.
LEMMA CommitIsUseCase ==
  ASSUME SerialInv, NEW w \in Workers, Commit(w)
  PROVE  \/ TimelessUseCase /\ tx[w].cmd # "acceptInvitation"
         \/ /\ tx[w].cmd = "acceptInvitation" /\ tx[w].target \in Users
            /\ members[tx[w].target].status = "INVITED"
            /\ transitionOwnMembership(tx[w].target, "ACTIVE", "InvitationAccepted")
         \/ /\ tx[w].cmd = "expirySweep"
            /\ \E batch \in SUBSET Users : InvitationExpirySweep(batch)
<1>1. PICK t \in Tx : t = tx[w] /\ isBased(t)
  BY InFlight DEF Commit, SerialInv
<1>2. isCurrent(t) /\ isDecided(t) /\ writes(t)
  BY <1>1 DEF Commit, SerialInv, CurrentInv
<1>3. t.cmd = "inviteMember" => InviteMember(t.actor, t.target, t.role)
  <2>1. t.cmd = "inviteMember" => writeInvite(t) /\ t.role # "OWNER"
    BY <1>1, <1>2 DEF writes, isBased
  <2>2. QED
    BY <1>2, <2>1, DecidedOn DEF InviteMember, writeInvite
<1>4. CASE t.cmd \in {"acceptInvitation", "declineInvitation", "leaveProfile"}
  <2>1. /\ t.cmd = "acceptInvitation" =>
             transitionOwnMembership(t.target, "ACTIVE", "InvitationAccepted")
        /\ t.cmd = "declineInvitation" =>
             transitionOwnMembership(t.target, "DECLINED", "InvitationDeclined")
        /\ t.cmd = "leaveProfile" =>
             transitionOwnMembership(t.target, "LEFT", "MemberLeft")
    BY <1>2, <1>4 DEF writes, applyStatus, transitionOwnMembership
  <2>2. t.target \in Users
    BY <1>1, <1>4 DEF isBased
  <2>3. t.cmd = "declineInvitation" => DeclineInvitation(t.target)
    BY <1>2, <2>1, DecidedOn DEF DeclineInvitation
  <2>4. t.cmd = "leaveProfile" => LeaveProfile(t.target)
    BY <1>2, <2>1, DecidedOn DEF LeaveProfile
  <2>5. t.cmd = "acceptInvitation" => members[t.target].status = "INVITED"
    BY <1>2, DecidedOn
  <2>6. QED
    BY <1>1, <1>4, <2>1, <2>2, <2>3, <2>4, <2>5 DEF TimelessUseCase
<1>5. t.cmd = "changeMemberRole" => ChangeMemberRole(t.actor, t.target, t.role, t.version)
  <2>1. t.cmd = "changeMemberRole" => writeRole(t)
    BY <1>2 DEF writes
  <2>2. QED
    BY <1>2, <2>1, DecidedOn DEF ChangeMemberRole, writeRole
<1>6. t.cmd = "nominateOwner" => NominateOwner(t.actor, t.target)
  <2>1. t.cmd = "nominateOwner" => writeNomination(t)
    BY <1>2 DEF writes
  <2>2. QED
    BY <1>2, <2>1, DecidedOn DEF NominateOwner, writeNomination
<1>7. t.cmd = "acceptOwnership" => AcceptOwnership(t.target, t.actor)
  <2>1. t.cmd = "acceptOwnership" => writeTransfer(t)
    BY <1>2 DEF writes
  <2>2. QED
    BY <1>2, <2>1, DecidedOn DEF AcceptOwnership, writeTransfer
<1>8. t.cmd = "archiveProfile" => ArchiveProfile(t.actor)
  <2>1. t.cmd = "archiveProfile" => writeArchive(t)
    BY <1>2 DEF writes
  <2>2. QED
    BY <1>2, <2>1, DecidedOn DEF ArchiveProfile, writeArchive, isWritable
<1>9. t.cmd = "expirySweep" => InvitationExpirySweep(stillInvited(t.rows))
  <2>1. t.cmd = "expirySweep" => writeExpiry(t)
    BY <1>2 DEF writes
  <2>2. stillInvited(t.rows) \subseteq t.rows
    BY DEF stillInvited
  <2>3. t.cmd = "expirySweep" => JobBypassesRls /\ t.rows \subseteq due
    BY <1>2, DecidedOn
  <2>4. QED
    BY <2>1, <2>2, <2>3 DEF InvitationExpirySweep, writeExpiry
<1>10. stillInvited(t.rows) \in SUBSET Users
  BY TxFields DEF stillInvited
<1>11. t.cmd = "acceptOwnership" => t.actor \in Users
  <2>1. t.cmd = "acceptOwnership" => t.read = 2
    BY <1>2, ReadsAre DEF isDecided
  <2>2. QED
    BY <1>1, <2>1 DEF isBased
<1>12. /\ t.cmd \in {"inviteMember", "changeMemberRole", "nominateOwner", "archiveProfile"} =>
            t.actor \in Users
       /\ t.cmd # "expirySweep" => t.target \in Users
  BY <1>1 DEF isBased
<1>13. t.role \in MemberRole /\ t.version \in 0..MaxVersion /\ t.cmd \in CommandName
  BY TxFields
<1>14. QED
  BY <1>1, <1>3, <1>4, <1>5, <1>6, <1>7, <1>8, <1>9, <1>10, <1>11, <1>12, <1>13
  DEF CommandName, TimelessUseCase

\* The invitations whose deadline counts as passed, as ImplementsProfiles has it.
pastDeadline ==
  {u \in overdue \ acceptsInFlight : members[u].status \notin {"ACTIVE", "LEFT"}}

hasEntered(m) == m.status \in {"ACTIVE", "LEFT"}

\* A use case whose decision does not look at the deadline, seen through the mapping.
LEMMA TimelessRefines ==
  ASSUME TimelessUseCase, pastDeadline' = pastDeadline
  PROVE  Atomic!Next
<1>1. ASSUME NEW u \in Users, DeclineInvitation(u) PROVE Atomic!DeclineInvitation(u)
  BY <1>1
  DEF DeclineInvitation, transitionOwnMembership, canDecline, withStatus, Event, pastDeadline,
      Atomic!DeclineInvitation, Atomic!transitionOwnMembership, Atomic!canDecline,
      Atomic!withStatus, Atomic!Event
<1>2. ASSUME NEW u \in Users, LeaveProfile(u) PROVE Atomic!LeaveProfile(u)
  BY <1>2
  DEF LeaveProfile, transitionOwnMembership, canLeave, withStatus, Event, pastDeadline,
      Atomic!LeaveProfile, Atomic!transitionOwnMembership, Atomic!canLeave,
      Atomic!withStatus, Atomic!Event
<1>3. ASSUME NEW u \in Users, ArchiveProfile(u) PROVE Atomic!ArchiveProfile(u)
  BY <1>3
  DEF ArchiveProfile, requireCapability, rolesFor, atMostOneActiveMember, isActive, Event,
      pastDeadline, Atomic!ArchiveProfile, Atomic!requireCapability, Atomic!rolesFor,
      Atomic!atMostOneActiveMember, Atomic!isActive, Atomic!Event
<1>4. ASSUME NEW actor \in Users, NEW user \in Users, NEW role \in MemberRole,
             InviteMember(actor, user, role)
      PROVE  Atomic!InviteMember(actor, user, role)
  BY <1>4
  DEF InviteMember, requireCapability, rolesFor, isWritable, NewRow, NoRow, Event,
      pastDeadline, Atomic!InviteMember, Atomic!requireCapability, Atomic!rolesFor,
      Atomic!isWritable, Atomic!NewRow, Atomic!NoRow, Atomic!Event
<1>5. ASSUME NEW actor \in Users, NEW user \in Users, NEW role \in MemberRole,
             NEW v \in 0..MaxVersion, ChangeMemberRole(actor, user, role, v)
      PROVE  Atomic!ChangeMemberRole(actor, user, role, v)
  BY <1>5
  DEF ChangeMemberRole, requireCapability, rolesFor, isWritable, canChangeRole, withRole,
      Event, pastDeadline, Atomic!ChangeMemberRole, Atomic!requireCapability,
      Atomic!rolesFor, Atomic!isWritable, Atomic!canChangeRole, Atomic!withRole, Atomic!Event
<1>6. ASSUME NEW actor \in Users, NEW user \in Users, NominateOwner(actor, user)
      PROVE  Atomic!NominateOwner(actor, user)
  BY <1>6
  DEF NominateOwner, requireCapability, rolesFor, canBeNominated, withNomination, Event,
      pastDeadline, Atomic!NominateOwner, Atomic!requireCapability, Atomic!rolesFor,
      Atomic!canBeNominated, Atomic!withNomination, Atomic!Event
<1>7. ASSUME NEW actor \in Users, NEW user \in Users, AcceptOwnership(user, actor)
      PROVE  Atomic!AcceptOwnership(user, actor)
  BY <1>7
  DEF AcceptOwnership, isActiveOwner, canAcceptOwnership, asNewOwner, asOutgoingOwner, Event,
      pastDeadline, Atomic!AcceptOwnership, Atomic!isActiveOwner, Atomic!canAcceptOwnership,
      Atomic!asNewOwner, Atomic!asOutgoingOwner, Atomic!Event
<1>8. Atomic!MemberRole = MemberRole
  BY DEF MemberRole, Atomic!MemberRole
<1>9. QED
  BY <1>1, <1>2, <1>3, <1>4, <1>5, <1>6, <1>7, <1>8 DEF TimelessUseCase, Atomic!Next

\* No use case but an acceptance moves a row into or out of the statuses ACTIVE and LEFT
\* taken together.
LEMMA NobodyEnters ==
  ASSUME TypeOK, TimelessUseCase, NEW u \in Users
  PROVE  hasEntered(members'[u]) <=> hasEntered(members[u])
<1>1. members \in [Users -> MembershipRow \cup {NoRow}]
  BY DEF TypeOK
<1>2. ASSUME NEW v \in Users, DeclineInvitation(v) \/ LeaveProfile(v)
      PROVE  hasEntered(members'[u]) <=> hasEntered(members[u])
  <2>1. members[v].status # "NONE"
    BY <1>2 DEF DeclineInvitation, LeaveProfile, canDecline, canLeave
  <2>2. members[v] \in MembershipRow
    BY <2>1, StoredRow
  <2>3. withStatus(members[v], "DECLINED").status = "DECLINED"
        /\ withStatus(members[v], "LEFT").status = "LEFT"
    BY <2>2, WithStatusFields DEF MembershipStatus
  <2>4. QED
    BY <1>1, <1>2, <2>3
    DEF DeclineInvitation, LeaveProfile, canDecline, canLeave, transitionOwnMembership,
        hasEntered
<1>3. ASSUME NEW v \in Users, ArchiveProfile(v)
      PROVE  hasEntered(members'[u]) <=> hasEntered(members[u])
  BY <1>3 DEF ArchiveProfile
<1>4. ASSUME NEW actor \in Users, NEW user \in Users, NEW role \in MemberRole,
             InviteMember(actor, user, role)
      PROVE  hasEntered(members'[u]) <=> hasEntered(members[u])
  <2>1. NewRow("INVITED", role).status = "INVITED"
    BY NewRowFields DEF MembershipStatus
  <2>2. QED
    BY <1>1, <1>4, <2>1, NoRowFields DEF InviteMember, hasEntered
<1>5. ASSUME NEW actor \in Users, NEW user \in Users, NEW role \in MemberRole,
             NEW v \in 0..MaxVersion, ChangeMemberRole(actor, user, role, v)
      PROVE  hasEntered(members'[u]) <=> hasEntered(members[u])
  <2>1. members[user] \in MembershipRow
    BY <1>5, StoredRow DEF ChangeMemberRole, canChangeRole
  <2>2. withRole(members[user], role).status = members[user].status
    BY <2>1, WithRoleFields
  <2>3. QED
    BY <1>1, <1>5, <2>2 DEF ChangeMemberRole, hasEntered
<1>6. ASSUME NEW actor \in Users, NEW user \in Users, NominateOwner(actor, user)
      PROVE  hasEntered(members'[u]) <=> hasEntered(members[u])
  <2>1. members[user] \in MembershipRow
    BY <1>6, StoredRow DEF NominateOwner, canBeNominated
  <2>2. withNomination(members[user]).status = members[user].status
    BY <2>1, WithNominationFields
  <2>3. QED
    BY <1>1, <1>6, <2>2 DEF NominateOwner, hasEntered
<1>7. ASSUME NEW actor \in Users, NEW user \in Users, AcceptOwnership(user, actor)
      PROVE  hasEntered(members'[u]) <=> hasEntered(members[u])
  <2>1. members[user] \in MembershipRow /\ members[actor] \in MembershipRow
    BY <1>7, StoredRow DEF AcceptOwnership, isActiveOwner, canAcceptOwnership
  <2>2. /\ asNewOwner(members[user]) \in MembershipRow
        /\ asNewOwner(members[user]).status = members[user].status
    BY <2>1, OwnerDeltaFields
  <2>3. PICK row : row = asNewOwner(members[user])
    OBVIOUS
  <2>4. PICK promoted : promoted = [members EXCEPT ![user] = row]
    OBVIOUS
  <2>5. \A v \in Users : promoted[v] = IF v = user THEN row ELSE members[v]
    BY <1>1, <2>4
  <2>6. promoted[actor] \in MembershipRow /\ promoted[actor].status = members[actor].status
    BY <2>1, <2>2, <2>3, <2>5
  <2>7. asOutgoingOwner(promoted[actor]).status = members[actor].status
    BY <2>6, OwnerDeltaFields
  <2>8. members' = [promoted EXCEPT ![actor] = asOutgoingOwner(promoted[actor])]
    BY <1>7, <2>3, <2>4 DEF AcceptOwnership
  <2>9. members'[u].status = members[u].status
    BY <1>1, <2>2, <2>3, <2>4, <2>5, <2>7, <2>8
  <2>10. QED
    BY <2>9 DEF hasEntered
<1>8. QED
  BY <1>2, <1>3, <1>4, <1>5, <1>6, <1>7 DEF TimelessUseCase

OnlyWorker(w) == \A v \in Workers : tx[v] # Idle => v = w

OnlyAccept(w) ==
  \A u \in Users :
    u \in acceptsInFlight <=> tx[w].cmd = "acceptInvitation" /\ u = tx[w].target

OnlyOneAccepts == \A w \in Workers : OnlyWorker(w) => OnlyAccept(w)

\* The acceptance in flight, if there is one, is the command of the only busy worker.
LEMMA AcceptsAre == OnlyOneAccepts
<1>1. Idle.cmd # "acceptInvitation"
  BY DEF Idle
<1>2. QED
  BY <1>1 DEF OnlyOneAccepts, OnlyWorker, OnlyAccept, acceptsInFlight

\* What the deadlines that count as passed are before and after a step.
LEMMA SamePast ==
  ASSUME TypeOK, TypeOK',
         \A u \in Users : (u \in pastDeadline)' <=> u \in pastDeadline
  PROVE  pastDeadline' = pastDeadline
BY DEF TypeOK, pastDeadline

\* A deadline that comes to count as passed.
LEMMA PassingRefines ==
  ASSUME TypeOK, TypeOK', NEW u \in Users, members[u].status = "INVITED", u \notin pastDeadline,
         \A v \in Users : (v \in pastDeadline)' <=> v \in pastDeadline \/ v = u,
         UNCHANGED <<profile, members, nominations, announced>>
  PROVE  Atomic!Next
<1>1. pastDeadline' = pastDeadline \cup {u}
  BY DEF TypeOK, pastDeadline
<1>2. Atomic!InvitationDeadlinePasses(u)
  BY <1>1 DEF Atomic!InvitationDeadlinePasses, pastDeadline
<1>3. QED
  BY <1>2 DEF Atomic!Next

\* A step that changes neither the stored rows nor what counts as passed.
LEMMA QuietRefines ==
  ASSUME UNCHANGED <<profile, members, nominations, announced>>, pastDeadline' = pastDeadline
  PROVE  UNCHANGED Atomic!vars
BY DEF Atomic!vars, pastDeadline

\* The first read: an acceptance is decided on before its deadline.
LEMMA BeginRefines ==
  ASSUME SerialInv, TxIInv', OneAtATime', NEW w \in Workers, BeginSome(w) \/ BeginSweep(w)
  PROVE  UNCHANGED Atomic!vars
<1>1. PICK cmd, actor, target, role, version, rows :
        Begin(w, cmd, actor, target, role, version, rows)
  BY DEF BeginSome, BeginSweep
<1>2. PICK t : t = [cmd |-> cmd, actor |-> actor, target |-> target, role |-> role,
                    version |-> version, rows |-> rows, read |-> 1]
  OBVIOUS
<1>3. t.cmd = cmd /\ t.target = target
  BY <1>2
<1>4. /\ readSucceeds(t, readsOf(cmd)[1]) /\ tx' = [tx EXCEPT ![w] = t] /\ UNCHANGED stored
      /\ tx[w] = Idle
  BY <1>1, <1>2 DEF Begin
<1>5. tx'[w] = t /\ t # Idle
  <2>1. tx'[w] = t
    BY <1>4 DEF SerialInv, TxIInv, TxTypeOK
  <2>2. cmd # "idle"
    BY <1>1, ProfilesTxAssumption DEF Begin, CommandName
  <2>3. QED
    BY <1>3, <2>1, <2>2 DEF Idle
<1>6. OnlyWorker(w)'
  BY <1>5 DEF OnlyWorker, OneAtATime
<1>7. OnlyWorker(w)
  BY <1>4, <1>6 DEF OnlyWorker, SerialInv, TxIInv, TxTypeOK
<1>8. OnlyAccept(w) /\ OnlyAccept(w)'
  <2>1. OnlyOneAccepts'
    BY AcceptsAre, PTL
  <2>2. QED
    BY <1>6, <1>7, <2>1, AcceptsAre DEF OnlyOneAccepts
<1>9. cmd = "acceptInvitation" => target \notin overdue
  <2> SUFFICES ASSUME cmd = "acceptInvitation" PROVE target \notin overdue
    OBVIOUS
  <2>1. readSucceeds(t, "target")
    BY <1>4, ReadsAre
  <2>2. canAccept(members[target], target \in overdue)
    BY <1>3, <2>1 DEF readSucceeds, targetAllows
  <2>3. QED
    BY <2>2 DEF canAccept, isInvitationExpired
<1>10. UNCHANGED <<profile, members, overdue, nominations, announced>>
  BY <1>4 DEF stored, vars
<1>11. \A u \in Users : (u \in pastDeadline)' <=> u \in pastDeadline
  <2>1. \A u \in Users : u \notin acceptsInFlight
    BY <1>4, <1>8 DEF OnlyAccept, Idle
  <2>2. \A u \in Users : u \in acceptsInFlight' => u \notin overdue
    BY <1>3, <1>5, <1>8, <1>9 DEF OnlyAccept
  <2>3. QED
    BY <1>10, <2>1, <2>2 DEF pastDeadline
<1>12. pastDeadline' = pastDeadline
  BY <1>11, SamePast DEF SerialInv, TxIInv, TxTypeOK
<1>13. QED
  BY <1>10, <1>12, QuietRefines

\* A later read belongs to a command that is no acceptance of an invitation.
LEMMA ReadRefines ==
  ASSUME SerialInv, TxIInv', OneAtATime', NEW w \in Workers, Read(w)
  PROVE  UNCHANGED Atomic!vars
<1>1. PICK t, more \in Tx :
        /\ t = tx[w] /\ tx' = [tx EXCEPT ![w] = more] /\ UNCHANGED stored
        /\ more.cmd = t.cmd /\ more.target = t.target
  BY ReadMakes DEF SerialInv
<1>2. tx'[w] = more /\ \A v \in Workers \ {w} : tx'[v] = tx[v]
  BY <1>1 DEF SerialInv, TxIInv, TxTypeOK
<1>3. acceptsInFlight' = acceptsInFlight
  BY <1>1, <1>2 DEF acceptsInFlight
<1>4. UNCHANGED <<profile, members, overdue, nominations, announced>>
  BY <1>1 DEF stored, vars
<1>5. pastDeadline' = pastDeadline
  BY <1>3, <1>4 DEF pastDeadline
<1>6. QED
  BY <1>4, <1>5, QuietRefines

\* A command that is given up leaves everything as it was, unless the deadline of the
\* acceptance has passed meanwhile: it counts as passed now.
LEMMA RollbackRefines ==
  ASSUME SerialInv, SerialInv', OneAtATime, NEW w \in Workers, Rollback(w),
         \A v \in Workers : tx'[v] = Idle
  PROVE  [Atomic!Next]_Atomic!vars
<1>1. PICK t \in Tx : t = tx[w] /\ isBased(t) /\ isCurrent(t)
  BY InFlight DEF Rollback, SerialInv, CurrentInv
<1>2. UNCHANGED <<profile, members, overdue, nominations, announced>>
  BY DEF Rollback, stored, vars
<1>3. OnlyWorker(w)
  BY DEF OnlyWorker, OneAtATime, Rollback
<1>4. OnlyAccept(w)
  BY <1>3, AcceptsAre DEF OnlyOneAccepts
<1>5. acceptsInFlight' = {}
  BY DEF acceptsInFlight, Idle
<1>6. TypeOK /\ TypeOK'
  BY DEF SerialInv, TxIInv, TxTypeOK
<1>7. CASE t.cmd = "acceptInvitation" /\ t.target \in overdue
  <2>1. t.target \in Users
    BY <1>1, <1>7 DEF isBased
  <2>2. stillStands(t, "target")
    <3>1. readsOf(t.cmd)[1] = "target" /\ 1 \in 1..t.read
      BY <1>7, TxFields, ReadsAre
    <3>2. QED
      BY <1>1, <3>1 DEF isCurrent
  <2>3. members[t.target].status = "INVITED"
    BY <1>7, <2>2 DEF stillStands
  <2>4. t.target \notin pastDeadline
    BY <1>1, <1>4, <1>7, <2>1 DEF OnlyAccept, pastDeadline
  <2>5. \A v \in Users : (v \in pastDeadline)' <=> v \in pastDeadline \/ v = t.target
    BY <1>1, <1>2, <1>4, <1>5, <1>7, <2>3 DEF OnlyAccept, pastDeadline
  <2>6. QED
    BY <1>2, <1>6, <2>1, <2>3, <2>4, <2>5, PassingRefines
<1>8. CASE ~(t.cmd = "acceptInvitation" /\ t.target \in overdue)
  <2>1. \A v \in Users : (v \in pastDeadline)' <=> v \in pastDeadline
    BY <1>1, <1>2, <1>4, <1>5, <1>8 DEF OnlyAccept, pastDeadline
  <2>2. QED
    BY <1>2, <1>6, <2>1, SamePast, QuietRefines
<1>9. QED
  BY <1>7, <1>8

\* The commit of the only command is the use case it stands for.
LEMMA CommitRefines ==
  ASSUME SerialInv, SerialInv', OneAtATime, NEW w \in Workers, Commit(w),
         \A v \in Workers : tx'[v] = Idle
  PROVE  Atomic!Next
<1>1. PICK t \in Tx : t = tx[w]
  BY InFlight DEF Commit, SerialInv
<1>2. OnlyAccept(w)
  BY AcceptsAre DEF OnlyOneAccepts, OnlyWorker, OneAtATime, Commit
<1>3. acceptsInFlight' = {}
  BY DEF acceptsInFlight, Idle
<1>4. TypeOK /\ TypeOK'
  BY DEF SerialInv, TxIInv, TxTypeOK
<1>5. CASE TimelessUseCase /\ t.cmd # "acceptInvitation"
  <2>1. overdue' = overdue
    BY <1>5
    DEF TimelessUseCase, DeclineInvitation, LeaveProfile, transitionOwnMembership,
        ArchiveProfile, InviteMember, ChangeMemberRole, NominateOwner, AcceptOwnership
  <2>2. \A u \in Users : hasEntered(members'[u]) <=> hasEntered(members[u])
    BY <1>4, <1>5, NobodyEnters
  <2>3. \A u \in Users : (u \in pastDeadline)' <=> u \in pastDeadline
    BY <1>1, <1>2, <1>3, <1>5, <2>1, <2>2 DEF OnlyAccept, pastDeadline, hasEntered
  <2>4. QED
    BY <1>4, <1>5, <2>3, SamePast, TimelessRefines
<1>6. ASSUME t.cmd = "acceptInvitation", t.target \in Users,
             members[t.target].status = "INVITED",
             transitionOwnMembership(t.target, "ACTIVE", "InvitationAccepted")
      PROVE  Atomic!Next
  <2>1. t.target \notin pastDeadline
    BY <1>1, <1>2, <1>6 DEF OnlyAccept, pastDeadline
  <2>2. members[t.target] \in MembershipRow
    BY <1>4, <1>6, StoredRow
  <2>3. withStatus(members[t.target], "ACTIVE").status = "ACTIVE"
    BY <2>2, WithStatusFields DEF MembershipStatus
  <2>4. /\ members'[t.target].status = "ACTIVE" /\ overdue' = overdue
        /\ \A v \in Users \ {t.target} : members'[v] = members[v]
    BY <1>4, <1>6, <2>3 DEF transitionOwnMembership, TypeOK
  <2>5. \A v \in Users : (v \in pastDeadline)' <=> v \in pastDeadline
    BY <1>1, <1>2, <1>3, <1>6, <2>4 DEF OnlyAccept, pastDeadline
  <2>6. pastDeadline' = pastDeadline
    BY <1>4, <2>5, SamePast
  <2>7. Atomic!AcceptInvitation(t.target)
    BY <1>6, <2>1, <2>6
    DEF transitionOwnMembership, withStatus, Event, pastDeadline, Atomic!AcceptInvitation,
        Atomic!canAccept, Atomic!isInvitationExpired, Atomic!transitionOwnMembership,
        Atomic!withStatus, Atomic!Event
  <2>8. QED
    BY <1>6, <2>7 DEF Atomic!Next
<1>7. ASSUME t.cmd = "expirySweep", NEW batch \in SUBSET Users, InvitationExpirySweep(batch)
      PROVE  Atomic!Next
  <2>1. batch \subseteq Atomic!due
    <3>1. \A u \in batch : members[u].status = "INVITED" /\ u \in overdue
      BY <1>7 DEF InvitationExpirySweep, due, canExpire, isInvitationExpired
    <3>2. \A u \in batch : u \in pastDeadline
      BY <1>1, <1>2, <1>7, <3>1 DEF OnlyAccept, pastDeadline
    <3>3. QED
      BY <3>1, <3>2
      DEF pastDeadline, Atomic!due, Atomic!canExpire, Atomic!isInvitationExpired
  <2>2. \A u \in batch : members[u].status = "INVITED" /\ members'[u].status = "EXPIRED"
    <3>1. \A u \in batch : members[u].status = "INVITED"
      BY <1>7 DEF InvitationExpirySweep, due, canExpire, isInvitationExpired
    <3>2. \A u \in batch : withStatus(members[u], "EXPIRED").status = "EXPIRED"
      BY <1>4, <3>1, StoredRow, WithStatusFields DEF MembershipStatus
    <3>3. QED
      BY <1>7, <3>1, <3>2 DEF InvitationExpirySweep
  <2>3. \A u \in Users \ batch : members'[u] = members[u]
    BY <1>7 DEF InvitationExpirySweep
  <2>4. \A u \in Users : (u \in pastDeadline)' <=> u \in pastDeadline
    BY <1>1, <1>2, <1>3, <1>7, <2>2, <2>3
    DEF OnlyAccept, pastDeadline, InvitationExpirySweep
  <2>5. pastDeadline' = pastDeadline
    BY <1>4, <2>4, SamePast
  <2>6. Atomic!InvitationExpirySweep(batch)
    BY <1>7, <2>1, <2>5
    DEF InvitationExpirySweep, withStatus, Event, pastDeadline,
        Atomic!InvitationExpirySweep, Atomic!withStatus, Atomic!Event
  <2>7. QED
    BY <2>6 DEF Atomic!Next
<1>8. QED
  BY <1>1, <1>5, <1>6, <1>7, CommitIsUseCase

\* Every step of the transactions, taken one command at a time, is a step of Profiles or
\* changes nothing that Profiles knows of.
LEMMA NextRefines ==
  SerialInv /\ OneAtATime /\ OneAtATime' /\ [TxNext]_txVars => [Atomic!Next]_Atomic!vars
<1>1. SUFFICES ASSUME SerialInv, OneAtATime, OneAtATime', [TxNext]_txVars
               PROVE  [Atomic!Next]_Atomic!vars
  OBVIOUS
<1>2. SerialInv' /\ TxIInv /\ TxIInv'
  BY <1>1, NextSerial, NextTxIInv DEF SerialInv
<1>3. TypeOK /\ TypeOK'
  BY <1>2 DEF TxIInv, TxTypeOK
<1>4. CASE UNCHANGED txVars
  <2>1. UNCHANGED <<profile, members, overdue, nominations, announced, tx>>
    BY <1>4 DEF txVars, stored, vars
  <2>2. pastDeadline' = pastDeadline
    BY <2>1 DEF pastDeadline, acceptsInFlight
  <2>3. QED
    BY <2>1, <2>2, QuietRefines
<1>5. ASSUME NEW u \in Users, InvitationDeadlinePasses(u), UNCHANGED tx
      PROVE  [Atomic!Next]_Atomic!vars
  <2>1. /\ overdue' = overdue \cup {u} /\ u \notin overdue /\ members[u].status = "INVITED"
        /\ UNCHANGED <<profile, members, nominations, announced>>
        /\ acceptsInFlight' = acceptsInFlight
    BY <1>5 DEF InvitationDeadlinePasses, acceptsInFlight
  <2>2. u \notin pastDeadline
    BY <2>1 DEF pastDeadline
  <2>3. CASE u \in acceptsInFlight
    <3>1. \A v \in Users : (v \in pastDeadline)' <=> v \in pastDeadline
      BY <2>1, <2>3 DEF pastDeadline
    <3>2. QED
      BY <1>3, <2>1, <3>1, SamePast, QuietRefines
  <2>4. CASE u \notin acceptsInFlight
    <3>1. \A v \in Users : (v \in pastDeadline)' <=> v \in pastDeadline \/ v = u
      BY <2>1, <2>4 DEF pastDeadline
    <3>2. QED
      BY <1>3, <2>1, <2>2, <3>1, PassingRefines
  <2>5. QED
    BY <2>3, <2>4
<1>6. ASSUME NEW u \in Users, CreateSharedProfile(u), UNCHANGED tx
      PROVE  [Atomic!Next]_Atomic!vars
  <2>1. overdue = {} /\ overdue' = {}
    BY <1>1, <1>6 DEF SerialInv, CurrentInv, isFounded, CreateSharedProfile
  <2>2. pastDeadline' = pastDeadline
    BY <2>1 DEF pastDeadline
  <2>3. Atomic!CreateSharedProfile(u)
    BY <1>6, <2>2
    DEF CreateSharedProfile, NewRow, Event, pastDeadline, Atomic!CreateSharedProfile,
        Atomic!NewRow, Atomic!Event
  <2>4. QED
    BY <2>3 DEF Atomic!Next
<1>7. ASSUME NEW w \in Workers, BeginSome(w) \/ BeginSweep(w)
      PROVE  [Atomic!Next]_Atomic!vars
  BY <1>1, <1>2, <1>7, BeginRefines
<1>8. ASSUME NEW w \in Workers, Read(w) PROVE [Atomic!Next]_Atomic!vars
  BY <1>1, <1>2, <1>8, ReadRefines
<1>9. ASSUME NEW w \in Workers, Rollback(w) PROVE [Atomic!Next]_Atomic!vars
  BY <1>1, <1>2, <1>9, EndSerial, RollbackRefines
<1>10. ASSUME NEW w \in Workers, Commit(w) PROVE [Atomic!Next]_Atomic!vars
  BY <1>1, <1>2, <1>10, EndSerial, CommitRefines
<1>11. QED
  BY <1>1, <1>4, <1>5, <1>6, <1>7, <1>8, <1>9, <1>10 DEF TxNext

\* Nothing runs and no deadline has passed at first.
LEMMA InitSerial == TxInit => SerialInv /\ Atomic!Init
<1>1. SUFFICES ASSUME TxInit PROVE SerialInv /\ Atomic!Init
  OBVIOUS
<1>2. SerialInv
  BY <1>1, InitTxIInv DEF TxInit, Init, SerialInv, CurrentInv
<1>3. pastDeadline = {}
  BY <1>1 DEF TxInit, Init, pastDeadline
<1>4. Atomic!Init
  BY <1>1, <1>3 DEF TxInit, Init, NoRow, pastDeadline, Atomic!Init, Atomic!NoRow
<1>5. QED
  BY <1>2, <1>4

\* SerialInv holds of every behaviour in which commands take turns.
LEMMA SerialInductive == TxSpec /\ []OneAtATime => []SerialInv
BY InitSerial, NextSerial, PTL DEF TxSpec

\* The transactions implement the atomic use cases as long as no two commands are in
\* flight on the profile: with a lock on its row, READ COMMITTED would be enough.
THEOREM ImplementsProfilesInTurns == TxSpec /\ []OneAtATime => ImplementsProfiles
<1>1. TxSpec /\ []OneAtATime => Atomic!Init /\ [][Atomic!Next]_Atomic!vars
  BY InitSerial, NextRefines, SerialInductive, PTL DEF TxSpec
<1>2. QED
  BY <1>1 DEF ImplementsProfiles, Atomic!Spec

-----------------------------------------------------------------------------
(* What the races take away, and turns give back. *)

\* Beginning, reading and giving up write nothing.
LEMMA OnlyCommitsWrite ==
  ASSUME [TxNext]_txVars
  PROVE  \/ UNCHANGED stored
         \/ \E w \in Workers : Commit(w)
         \/ \E u \in Users : CreateSharedProfile(u) \/ InvitationDeadlinePasses(u)
<1>1. ASSUME NEW w \in Workers, BeginSome(w) \/ BeginSweep(w) \/ Read(w) \/ Rollback(w)
      PROVE  UNCHANGED stored
  BY <1>1 DEF BeginSome, BeginSweep, Begin, Read, Rollback
<1>2. CASE UNCHANGED txVars
  BY <1>2 DEF txVars
<1>3. QED
  BY <1>1, <1>2 DEF TxNext

\* An acceptance that comes after its deadline brings in no owner.
LEMMA NextOwned ==
  SerialInv /\ OneAtATime /\ OneAtATime' /\ IInv /\ [TxNext]_txVars => IInv'
<1>1. SUFFICES ASSUME SerialInv, OneAtATime, OneAtATime', IInv, [TxNext]_txVars
               PROVE  IInv'
  OBVIOUS
<1>2. [Next]_vars => IInv'
  BY <1>1, NextInductive
<1>3. ASSUME NEW w \in Workers, Commit(w) PROVE IInv'
  <2>1. CASE TimelessUseCase \/ \E batch \in SUBSET Users : InvitationExpirySweep(batch)
    BY <1>2, <2>1 DEF TimelessUseCase, Next
  <2>2. ASSUME NEW u \in Users, members[u].status = "INVITED",
               transitionOwnMembership(u, "ACTIVE", "InvitationAccepted")
        PROVE  IInv'
    <3>1. members[u].role # "OWNER" /\ members[u].status # "NONE"
      BY <1>1, <2>2 DEF IInv, OwnerRowIsActive, isActive
    <3>2. QED
      BY <1>1, <2>2, <3>1, OwnTransitionInductive DEF MembershipStatus, EventType
  <2>3. QED
    BY <1>1, <1>3, <2>1, <2>2, CommitIsUseCase
<1>4. ASSUME UNCHANGED stored PROVE IInv'
  BY <1>2, <1>4 DEF stored
<1>5. ASSUME NEW u \in Users, CreateSharedProfile(u) \/ InvitationDeadlinePasses(u)
      PROVE  IInv'
  BY <1>2, <1>5 DEF Next
<1>6. QED
  BY <1>1, <1>3, <1>4, <1>5, OnlyCommitsWrite

\* Taking turns, the transactions keep the ownership invariants of Profiles.
LEMMA OwnedInductive == TxSpec /\ []OneAtATime => []IInv
<1>1. TxInit => IInv
  BY InitInductive DEF TxInit
<1>2. QED
  BY <1>1, SerialInductive, NextOwned, PTL DEF TxSpec

\* One command at a time, a founded profile has exactly one ACTIVE OWNER row and its
\* pointer names it (FR-005).
THEOREM SingleOwnerInTurns == TxSpec /\ []OneAtATime => []SingleOwner
<1>1. IInv => SingleOwner
  BY DEF IInv
<1>2. QED
  BY <1>1, OwnedInductive, PTL

\* The claims of membership.ts and of FR-005 about the number of owners, which two
\* acceptances or a departure in flight break, hold one command at a time.
THEOREM OwnersInTurns == TxSpec /\ []OneAtATime => [](AtMostOneOwner /\ SomeOwner)
<1>1. IInv => AtMostOneOwner /\ SomeOwner
  BY NoRowFields DEF IInv, SingleOwner, FoundingInv, AtMostOneOwner, SomeOwner, isActiveOwner
<1>2. QED
  BY <1>1, OwnedInductive, PTL

ArchivedAloneStep ==
  profile.status = "ACTIVE" /\ profile'.status = "ARCHIVED" => atMostOneActiveMember

RoleMovesStep ==
  \A u \in Users :
    members[u].role = "OWNER" /\ members'[u].role # "OWNER" =>
      \E e \in announced' : e.type = "OwnershipTransferred"

\* The decisions of the two use cases concerned are made on what they commit on.
LEMMA TimelessClaims ==
  ASSUME TypeOK, TimelessUseCase
  PROVE  ArchivedAloneStep /\ RoleMovesStep
<1>1. /\ members \in [Users -> MembershipRow \cup {NoRow}]
      /\ profile \in [status: ProfileStatus, ownerMembershipId: Users \cup {Nobody}]
  BY DEF TypeOK
<1>2. ArchivedAloneStep
  BY <1>1
  DEF ArchivedAloneStep, TimelessUseCase, DeclineInvitation, LeaveProfile,
      transitionOwnMembership, ArchiveProfile, InviteMember, ChangeMemberRole, NominateOwner,
      AcceptOwnership
<1>3. ASSUME NEW u \in Users, members[u].role = "OWNER", members'[u].role # "OWNER"
      PROVE  \E e \in announced' : e.type = "OwnershipTransferred"
  <2>1. ASSUME NEW v \in Users, DeclineInvitation(v) \/ LeaveProfile(v)
        PROVE  members'[u].role = members[u].role
    <3>1. members[v] \in MembershipRow
      BY <2>1, StoredRow DEF DeclineInvitation, LeaveProfile, canDecline, canLeave
    <3>2. /\ withStatus(members[v], "DECLINED").role = members[v].role
          /\ withStatus(members[v], "LEFT").role = members[v].role
      BY <3>1, WithStatusFields DEF MembershipStatus
    <3>3. QED
      BY <1>1, <2>1, <3>2 DEF DeclineInvitation, LeaveProfile, transitionOwnMembership
  <2>2. ASSUME NEW v \in Users, ArchiveProfile(v) PROVE members'[u] = members[u]
    BY <2>2 DEF ArchiveProfile
  <2>3. ASSUME NEW actor \in Users, NEW user \in Users, NEW role \in MemberRole,
               \/ InviteMember(actor, user, role)
               \/ \E v \in 0..MaxVersion : ChangeMemberRole(actor, user, role, v)
        PROVE  members'[u] = members[u]
    BY <1>1, <1>3, <2>3, NoRowFields DEF InviteMember, ChangeMemberRole, canChangeRole
  <2>4. ASSUME NEW actor \in Users, NEW user \in Users, NominateOwner(actor, user)
        PROVE  members'[u] = members[u]
    BY <1>1, <1>3, <2>4 DEF NominateOwner, canBeNominated
  <2>5. ASSUME NEW actor \in Users, NEW user \in Users, AcceptOwnership(user, actor)
        PROVE  \E e \in announced' : e.type = "OwnershipTransferred"
    BY <2>5 DEF AcceptOwnership, Event
  <2>6. QED
    BY <1>3, <2>1, <2>2, <2>3, <2>4, <2>5 DEF TimelessUseCase
<1>4. QED
  BY <1>2, <1>3 DEF RoleMovesStep

\* So do the steps that decide on nothing of the kind.
LEMMA NextClaims ==
  ASSUME SerialInv, [TxNext]_txVars
  PROVE  ArchivedAloneStep /\ RoleMovesStep
<1>1. TypeOK
  BY DEF SerialInv, TxIInv, TxTypeOK
<1>2. ASSUME UNCHANGED profile, \A u \in Users : members'[u].role = members[u].role
      PROVE  ArchivedAloneStep /\ RoleMovesStep
  BY <1>2 DEF ArchivedAloneStep, RoleMovesStep
<1>3. ASSUME NEW w \in Workers, Commit(w) PROVE ArchivedAloneStep /\ RoleMovesStep
  <2>1. CASE TimelessUseCase
    BY <1>1, <2>1, TimelessClaims
  <2>2. ASSUME NEW u \in Users, members[u].status = "INVITED",
               transitionOwnMembership(u, "ACTIVE", "InvitationAccepted")
        PROVE  ArchivedAloneStep /\ RoleMovesStep
    <3>1. withStatus(members[u], "ACTIVE").role = members[u].role
      BY <1>1, <2>2, StoredRow, WithStatusFields DEF MembershipStatus
    <3>2. QED
      BY <1>1, <1>2, <2>2, <3>1 DEF transitionOwnMembership, TypeOK
  <2>3. ASSUME NEW batch \in SUBSET Users, InvitationExpirySweep(batch)
        PROVE  ArchivedAloneStep /\ RoleMovesStep
    <3>1. \A u \in batch : members[u].status = "INVITED"
      BY <2>3 DEF InvitationExpirySweep, due, canExpire, isInvitationExpired
    <3>2. \A u \in batch : withStatus(members[u], "EXPIRED").role = members[u].role
      BY <1>1, <3>1, StoredRow, WithStatusFields DEF MembershipStatus
    <3>3. QED
      BY <1>1, <1>2, <2>3, <3>2 DEF InvitationExpirySweep, TypeOK
  <2>4. QED
    BY <1>3, <2>1, <2>2, <2>3, CommitIsUseCase
<1>4. CASE UNCHANGED stored
  BY <1>2, <1>4 DEF stored, vars
<1>5. ASSUME NEW u \in Users, InvitationDeadlinePasses(u)
      PROVE  ArchivedAloneStep /\ RoleMovesStep
  BY <1>2, <1>5 DEF InvitationDeadlinePasses
<1>6. ASSUME NEW u \in Users, CreateSharedProfile(u)
      PROVE  ArchivedAloneStep /\ RoleMovesStep
  <2>1. \A v \in Users : members[v] = NoRow
    BY <1>6 DEF CreateSharedProfile, SerialInv, TxIInv, UnfoundedInv, isFounded
  <2>2. QED
    BY <1>6, <2>1, NoRowFields DEF CreateSharedProfile, ArchivedAloneStep, RoleMovesStep
<1>7. QED
  BY <1>3, <1>4, <1>5, <1>6, OnlyCommitsWrite

\* One command at a time, a profile is archived only by its sole ACTIVE member.
THEOREM ArchivedAloneInTurns == TxSpec /\ []OneAtATime => ArchivedAlone
<1>1. SerialInv /\ [TxNext]_txVars =>
        [profile.status = "ACTIVE" /\ profile'.status = "ARCHIVED" =>
           atMostOneActiveMember]_txVars
  BY NextClaims DEF ArchivedAloneStep
<1>2. QED
  BY <1>1, SerialInductive, PTL DEF TxSpec, ArchivedAlone

\* One command at a time, no role change reaches the owner: OWNER is taken from a row by
\* a transfer only.
THEOREM OwnerRoleInTurns == TxSpec /\ []OneAtATime => OwnerRoleMovesByTransfer
<1>1. SerialInv /\ [TxNext]_txVars =>
        [\A u \in Users :
           members[u].role = "OWNER" /\ members'[u].role # "OWNER" =>
             \E e \in announced' : e.type = "OwnershipTransferred"]_txVars
  BY NextClaims DEF RoleMovesStep
<1>2. QED
  BY <1>1, SerialInductive, PTL DEF TxSpec, OwnerRoleMovesByTransfer

=============================================================================
