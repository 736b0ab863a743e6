\* The governance use cases and the expiry job (no symmetry: it is unsound for
\* the liveness property).
SPECIFICATION FairSpec
CONSTANTS
  Users = {u1, u2, u3}
  Nobody = Nobody
  MaxVersion = 1
  JobBypassesRls = TRUE
INVARIANTS
  TypeOK
  SingleOwner
  OwnerIsNoNominee
PROPERTIES
  TerminalIsFinal
  NoLateEntry
  TransferIsConsented
  MembershipIsAnnounced
  ImplementsOwnership
  OverdueInvitationsEnd
CHECK_DEADLOCK FALSE
