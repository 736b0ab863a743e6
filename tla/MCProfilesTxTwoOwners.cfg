\* Two nominees accept the ownership at the same time.
CONSTANTS
  u1 = u1
  u2 = u2
  u3 = u3
  w1 = w1
  w2 = w2
  Users = {u1, u2, u3}
  Nobody = Nobody
  MaxVersion = 1
  JobBypassesRls = TRUE
  Workers = {w1, w2}
  Commands <- OwnershipCommands
  Grants = {"ADMIN"}
SPECIFICATION TxSpec
SYMMETRY TxSymmetry
INVARIANT
  AtMostOneOwner
CHECK_DEADLOCK FALSE
