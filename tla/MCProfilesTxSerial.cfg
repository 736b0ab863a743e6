\* One command at a time implements Profiles.
CONSTANTS
  u1 = u1
  u2 = u2
  w1 = w1
  Users = {u1, u2}
  Nobody = Nobody
  MaxVersion = 2
  JobBypassesRls = TRUE
  Workers = {w1}
  Commands <- CommandName
  Grants = {"ADMIN", "VIEWER"}
SPECIFICATION TxSpec
SYMMETRY UserSymmetry
INVARIANTS
  TxTypeOK
  SingleOwner
PROPERTIES
  ImplementsProfiles
CHECK_DEADLOCK FALSE
