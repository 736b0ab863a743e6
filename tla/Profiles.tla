------------------------------ MODULE Profiles ------------------------------
(***************************************************************************)
(* The governance use cases of one shared profile, one atomic action per   *)
(* use case of ProfilesService, plus the invitation-expiry job and the     *)
(* clock.  A rejected command changes nothing, so only the accepted        *)
(* commands are actions.  ProfilesTx refines the grain: there a command is *)
(* the sequence of its reads and its commit.                               *)
(*                                                                         *)
(* A profile holds at most one membership row per user (the unique index   *)
(* on sharedProfileId and userId), so a membership is named by its user.   *)
(***************************************************************************)
EXTENDS Membership

CONSTANTS
  Users,           \* the users of the tenant
  Nobody,          \* no membership: a null column
  MaxVersion,      \* bound on the versions reached (model bound)
  JobBypassesRls   \* the expiry job's connection sees the rows of all tenants

ASSUME ProfilesAssumption ==
  /\ Nobody \notin Users
  /\ MaxVersion \in Nat
  /\ JobBypassesRls \in BOOLEAN

VARIABLES
  profile,      \* the SharedProfile row: status and ownerMembershipId
  members,      \* the Membership row of every user, NoRow if there is none
  overdue,      \* users whose invitation is past invitationExpiresAt
  nominations,  \* the OwnerNominated entries of the audit trail: <<actor, nominee>>
  announced     \* the outbox rows the last transaction wrote

vars == <<profile, members, overdue, nominations, announced>>

ProfileStatus == {"NONE", "ACTIVE", "ARCHIVED"}

EventType ==
  {"SharedProfileCreated", "MemberInvited", "InvitationAccepted",
   "InvitationDeclined", "InvitationExpired", "MemberLeft",
   "MemberRoleChanged", "OwnerNominated", "OwnershipTransferred",
   "ProfileArchived"}

\* An outbox row: its actor column, the membership it is about, and for a
\* transfer the membership it moves the ownership from.
OutboxRow ==
  [type: EventType, actor: Users \cup {Nobody},
   subject: Users, from: Users \cup {Nobody}]

Event(type, actor, subject, from) ==
  [type |-> type, actor |-> actor, subject |-> subject, from |-> from]

TypeOK ==
  /\ profile \in [status: ProfileStatus, ownerMembershipId: Users \cup {Nobody}]
  /\ members \in [Users -> MembershipRow \cup {NoRow}]
  /\ overdue \subseteq Users
  /\ nominations \subseteq Users \X Users
  /\ announced \subseteq OutboxRow

-----------------------------------------------------------------------------
Init ==
  /\ profile = [status |-> "NONE", ownerMembershipId |-> Nobody]
  /\ members = [u \in Users |-> NoRow]
  /\ overdue = {}
  /\ nominations = {}
  /\ announced = {}

isWritable == profile.status = "ACTIVE"

CreateSharedProfile(u) ==
  /\ profile.status = "NONE"
  /\ profile' = [status |-> "ACTIVE", ownerMembershipId |-> u]
  /\ members' = [members EXCEPT ![u] = NewRow("ACTIVE", "OWNER")]
  /\ announced' = {Event("SharedProfileCreated", u, u, Nobody)}
  /\ UNCHANGED <<overdue, nominations>>

\* A second row for the same user is refused: by the guard while the first is
\* INVITED or ACTIVE, by the unique index when it is terminal.
InviteMember(actor, user, role) ==
  /\ requireCapability(members[actor], "INVITE_MEMBER")
  /\ isWritable
  /\ role # "OWNER"
  /\ members[user] = NoRow
  /\ members' = [members EXCEPT ![user] = NewRow("INVITED", role)]
  /\ announced' = {Event("MemberInvited", actor, user, Nobody)}
  /\ UNCHANGED <<profile, overdue, nominations>>

\* Faulty: the outbox row is forgotten.
transitionOwnMembershipSilently(u, status, type) ==
  /\ members' = [members EXCEPT ![u] = withStatus(@, status)]
  /\ announced' = {}
  /\ UNCHANGED <<profile, overdue, nominations>>

\* accept, decline and leave: the caller's own row, no capability, no look at
\* the profile row.
transitionOwnMembership(u, status, type) ==
  /\ members' = [members EXCEPT ![u] = withStatus(@, status)]
  /\ announced' = {Event(type, u, u, Nobody)}
  /\ UNCHANGED <<profile, overdue, nominations>>

AcceptInvitation(u) ==
  /\ canAccept(members[u], u \in overdue)
  /\ transitionOwnMembership(u, "ACTIVE", "InvitationAccepted")

DeclineInvitation(u) ==
  /\ canDecline(members[u])
  /\ transitionOwnMembership(u, "DECLINED", "InvitationDeclined")

LeaveProfile(u) ==
  /\ canLeave(members[u])
  /\ transitionOwnMembership(u, "LEFT", "MemberLeft")

ChangeMemberRole(actor, target, role, expectedVersion) ==
  /\ requireCapability(members[actor], "CHANGE_MEMBER_ROLE")
  /\ isWritable
  /\ canChangeRole(members[target], role)
  /\ expectedVersion = members[target].version
  /\ members[target].version < MaxVersion
  /\ members' = [members EXCEPT ![target] = withRole(@, role)]
  /\ announced' = {Event("MemberRoleChanged", actor, target, Nobody)}
  /\ UNCHANGED <<profile, overdue, nominations>>

NominateOwner(actor, nominee) ==
  /\ requireCapability(members[actor], "NOMINATE_OWNER")
  /\ canBeNominated(members[nominee])
  /\ members' = [members EXCEPT ![nominee] = withNomination(@)]
  /\ nominations' = nominations \cup {<<actor, nominee>>}
  /\ announced' = {Event("OwnerNominated", actor, nominee, Nobody)}
  /\ UNCHANGED <<profile, overdue>>

\* The nominee's delta is written first, the outgoing owner's second, then the
\* profile's pointer.
AcceptOwnership(nominee, currentOwner) ==
  /\ isActiveOwner(members[currentOwner])
  /\ canAcceptOwnership(members[nominee])
  /\ LET promoted == [members EXCEPT ![nominee] = asNewOwner(@)]
     IN  members' = [promoted EXCEPT ![currentOwner] = asOutgoingOwner(@)]
  /\ profile' = [profile EXCEPT !.ownerMembershipId = nominee]
  /\ announced' = {Event("OwnershipTransferred", nominee, nominee, currentOwner)}
  /\ UNCHANGED <<overdue, nominations>>

\* activeMemberCount(members) <= 1
atMostOneActiveMember ==
  \A u, v \in Users : isActive(members[u]) /\ isActive(members[v]) => u = v

ArchiveProfile(actor) ==
  /\ requireCapability(members[actor], "ARCHIVE_PROFILE")
  /\ profile.status # "ARCHIVED"
  /\ atMostOneActiveMember
  /\ profile' = [profile EXCEPT !.status = "ARCHIVED"]
  /\ announced' = {Event("ProfileArchived", actor, actor, Nobody)}
  /\ UNCHANGED <<members, overdue, nominations>>

-----------------------------------------------------------------------------
(* Time and the hourly expiry job. *)

\* The clock reaches invitationExpiresAt of u's pending invitation.
InvitationDeadlinePasses(u) ==
  /\ members[u].status = "INVITED" /\ u \notin overdue
  /\ overdue' = overdue \cup {u}
  /\ UNCHANGED <<profile, members, nominations, announced>>

due == {u \in Users : canExpire(members[u], u \in overdue)}

\* One transaction of the job: it finds the tenant by a query that carries no
\* tenant, then expires a batch of due rows ("take: 500" of them, in no given
\* order), one event per row.
InvitationExpirySweep(batch) ==
  /\ JobBypassesRls
  /\ batch # {}
  /\ batch \subseteq due
  /\ members' = [u \in Users |->
                   IF u \in batch THEN withStatus(members[u], "EXPIRED") ELSE members[u]]
  /\ announced' = {Event("InvitationExpired", Nobody, u, Nobody) : u \in batch}
  /\ UNCHANGED <<profile, overdue, nominations>>

-----------------------------------------------------------------------------
Next ==
  \/ \E u \in Users :
       \/ CreateSharedProfile(u)
       \/ AcceptInvitation(u)
       \/ DeclineInvitation(u)
       \/ LeaveProfile(u)
       \/ ArchiveProfile(u)
       \/ InvitationDeadlinePasses(u)
  \/ \E actor, user \in Users :
       \/ \E role \in MemberRole : InviteMember(actor, user, role)
       \/ \E role \in MemberRole, v \in 0..MaxVersion :
            ChangeMemberRole(actor, user, role, v)
       \/ NominateOwner(actor, user)
       \/ AcceptOwnership(user, actor)
  \/ \E batch \in SUBSET Users : InvitationExpirySweep(batch)

Spec == Init /\ [][Next]_vars

\* The job is a repeatable BullMQ job that runs every hour; users owe nothing.
FairSpec == Spec /\ WF_vars(\E batch \in SUBSET Users : InvitationExpirySweep(batch))

-----------------------------------------------------------------------------
(* Properties. *)

isFounded == profile.status # "NONE"

\* The two records of who owns the profile agree at every commit: there is one
\* ACTIVE OWNER row and the profile's ownerMembershipId names it (FR-005).
SingleOwner ==
  isFounded =>
    \A u \in Users : isActiveOwner(members[u]) <=> u = profile.ownerMembershipId

\* An owner never carries a nomination: accepting it would hand the ownership
\* to oneself, and the second of the two writes would leave an ADMIN in charge.
OwnerIsNoNominee ==
  \A u \in Users :
    members[u].role = "OWNER" => ~members[u].pendingOwnerNominee

\* A membership that was declined, expired or left never changes status again,
\* whichever command or job reaches it (FR-002a).
TerminalIsFinal ==
  [][\A u \in Users :
       members[u].status \in TERMINAL => members'[u].status = members[u].status]_vars

\* Once the deadline of an invitation has passed its user is never let in,
\* whether or not the sweep has run, and cannot be invited again (FR-002a).
NoLateEntry ==
  [][\A u \in overdue :
       isActive(members'[u]) => isActive(members[u])]_vars

\* Ownership only moves to an ACTIVE member that the audit trail shows
\* nominated, and the outgoing owner stays an ACTIVE member (FR-007b).
TransferIsConsented ==
  [][LET old == profile.ownerMembershipId
         new == profile'.ownerMembershipId
     IN  (old # Nobody /\ new # old) =>
            /\ isActive(members[new])
            /\ \E actor \in Users : <<actor, new>> \in nominations
            /\ isActive(members'[old]) /\ members'[old].role = "ADMIN"]_vars

\* The outbox tells the truth about who is in: a user gains or loses an ACTIVE
\* membership exactly in a transaction that announces it (consumers reassign
\* debts on MemberLeft and rebuild projections from these rows).
MembershipIsAnnounced ==
  [][\A u \in Users :
       /\ (isActive(members[u]) /\ ~isActive(members'[u])) <=>
            (\E e \in announced' \ announced : e.type = "MemberLeft" /\ e.subject = u)
       /\ (~isActive(members[u]) /\ isActive(members'[u])) <=>
            (\E e \in announced' \ announced :
                e.type \in {"SharedProfileCreated", "InvitationAccepted"} /\ e.subject = u)]_vars

\* An overdue invitation does not stay pending: the job or its user ends it.
OverdueInvitationsEnd ==
  \A u \in Users :
    (members[u].status = "INVITED" /\ u \in overdue) ~> members[u].status \in TERMINAL

\* shared-profile.ts: "Guard used by every mutating use case: reject writes
\* against an archived profile".  Expiry is the clock's doing, not a use case.
ArchivedIsReadOnly ==
  [][profile.status = "ARCHIVED" =>
       /\ profile' = profile
       /\ \A u \in Users :
            members'[u] # members[u] => members'[u].status = "EXPIRED"]_vars

\* FR-007b: "the current owner nominates an existing ACTIVE member, and
\* ownership transfers only when that member explicitly accepts": the owner who
\* loses the profile is the one who nominated the successor.
OwnerChoosesSuccessor ==
  [][LET old == profile.ownerMembershipId
         new == profile'.ownerMembershipId
     IN  (old # Nobody /\ new # old) => <<old, new>> \in nominations]_vars

-----------------------------------------------------------------------------
(* Refinement: what the roles, flags and statuses of the rows amount to. *)

standingOf(m) ==
  CASE m.status = "NONE" -> "outside"
    [] m.status = "INVITED" -> "invited"
    [] m.status = "ACTIVE" -> "member"
    [] OTHER -> "gone"

Gov == INSTANCE Ownership WITH
  User <- Users,
  NoOwner <- Nobody,
  owner <- profile.ownerMembershipId,
  standing <- [u \in Users |-> standingOf(members[u])],
  nominated <- {u \in Users : members[u].pendingOwnerNominee},
  closed <- profile.status = "ARCHIVED"

\* The use cases implement the abstract account of governance in Ownership.tla.
ImplementsOwnership == Gov!OwnershipSpec

=============================================================================
