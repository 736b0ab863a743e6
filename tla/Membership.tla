----------------------------- MODULE Membership -----------------------------
(***************************************************************************)
(* The pure membership rules of the profiles module: the status machine of *)
(* one Membership row, the role rules, the nomination rules, and the       *)
(* capability matrix.  No variables: every operator is a decision about a  *)
(* row (the Result of a domain function) or the row the returned delta     *)
(* produces when it is applied to the stored row.                          *)
(*                                                                         *)
(* A delta of the code names only the fields it writes, so it is given     *)
(* here as a function of the row it is applied to, which need not be the   *)
(* row the decision was taken on.                                          *)
(***************************************************************************)
EXTENDS Naturals

MemberRole == {"OWNER", "ADMIN", "CONTRIBUTOR", "VIEWER"}

MembershipStatus == {"INVITED", "ACTIVE", "DECLINED", "EXPIRED", "LEFT"}

TERMINAL == {"DECLINED", "EXPIRED", "LEFT"}

MembershipRow ==
  [status: MembershipStatus, role: MemberRole,
   pendingOwnerNominee: BOOLEAN, version: Nat]

\* Stands for "no row for this user in this profile".
NoRow ==
  [status |-> "NONE", role |-> "NONE", pendingOwnerNominee |-> FALSE, version |-> 0]

\* The rows membershipRepository.create inserts: the founder's and an invitee's.
NewRow(status, role) ==
  [status |-> status, role |-> role, pendingOwnerNominee |-> FALSE, version |-> 0]

isActive(m) == m.status = "ACTIVE"

isActiveOwner(m) == m.status = "ACTIVE" /\ m.role = "OWNER"

-----------------------------------------------------------------------------
(* Decisions.  "late" says that the clock has reached invitationExpiresAt. *)

isInvitationExpired(m, late) == m.status = "INVITED" /\ late

\* Faulty: the deadline is left to the sweep.
canAcceptIgnoringDeadline(m, late) == m.status = "INVITED"

canAccept(m, late) == m.status = "INVITED" /\ ~isInvitationExpired(m, late)

\* Faulty: any row of the caller will do.
canDeclineAnyRow(m) == m.status # "NONE"

canDecline(m) == m.status = "INVITED"

\* Faulty: the deadline is compared the wrong way round.
canExpireBeforeDeadline(m, late) == m.status = "INVITED" /\ ~late

canExpire(m, late) == isInvitationExpired(m, late)

\* Faulty: the owner is not held back.
canLeaveAsOwner(m) == m.status = "ACTIVE"

canLeave(m) == m.status = "ACTIVE" /\ m.role # "OWNER"

canChangeRole(m, role) ==
  m.status = "ACTIVE" /\ m.role # "OWNER" /\ role # "OWNER"

canBeNominated(m) == m.status = "ACTIVE" /\ m.role # "OWNER"

\* Faulty: the nomination is not asked for.
canAcceptOwnershipUninvited(m) == m.status = "ACTIVE"

canAcceptOwnership(m) == m.pendingOwnerNominee /\ m.status = "ACTIVE"

-----------------------------------------------------------------------------
(* Deltas. *)

withStatus(m, status) == [m EXCEPT !.status = status]

withNomination(m) == [m EXCEPT !.pendingOwnerNominee = TRUE]

\* The versioned role change: the only write that bumps the version.
withRole(m, role) == [m EXCEPT !.role = role, !.version = @ + 1]

\* Faulty: the nomination outlives its acceptance.
asNewOwnerStillNominated(m) == [m EXCEPT !.role = "OWNER"]

asNewOwner(m) == [m EXCEPT !.role = "OWNER", !.pendingOwnerNominee = FALSE]

\* Faulty: the outgoing owner keeps the role, or gets one that does not exist.
asOutgoingOwnerUnchanged(m) == m
asOutgoingOwnerWithoutRole(m) == [m EXCEPT !.role = "MEMBER"]

asOutgoingOwner(m) == [m EXCEPT !.role = "ADMIN"]

-----------------------------------------------------------------------------
(* The capabilities the governance commands ask for. *)

Capability ==
  {"INVITE_MEMBER", "CHANGE_MEMBER_ROLE", "NOMINATE_OWNER", "ARCHIVE_PROFILE"}

rolesFor(capability) ==
  IF capability \in {"INVITE_MEMBER", "CHANGE_MEMBER_ROLE"}
  THEN {"OWNER", "ADMIN"}
  ELSE {"OWNER"}

\* The caller's row is ACTIVE and its role carries the capability.
requireCapability(m, capability) ==
  m.status = "ACTIVE" /\ m.role \in rolesFor(capability)

=============================================================================
