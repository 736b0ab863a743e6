\* What the documents say of archived profiles and of succession, and what the code
\* does not keep: each of these is violated, to be run one at a time.
CONSTANTS
  u1 = u1
  u2 = u2
  u3 = u3
  Users = {u1, u2, u3}
  Nobody = Nobody
  MaxVersion = 1
  JobBypassesRls = TRUE
SPECIFICATION Spec
PROPERTIES
  ArchivedIsReadOnly
  OwnerChoosesSuccessor
CHECK_DEADLOCK FALSE
