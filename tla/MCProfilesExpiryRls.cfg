\* The sweep under the role the RLS migration asks for.
CONSTANTS
  u1 = u1
  u2 = u2
  Users = {u1, u2}
  Nobody = Nobody
  MaxVersion = 1
  JobBypassesRls = FALSE
SPECIFICATION FairSpec
PROPERTIES
  OverdueInvitationsEnd
CHECK_DEADLOCK FALSE
