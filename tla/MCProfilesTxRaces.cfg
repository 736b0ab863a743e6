\* Every command, two at a time: what the races cannot break.
CONSTANTS
  u1 = u1
  u2 = u2
  w1 = w1
  w2 = w2
  Users = {u1, u2}
  Nobody = Nobody
  MaxVersion = 1
  JobBypassesRls = TRUE
  Workers = {w1, w2}
  Commands <- CommandName
  Grants = {"VIEWER"}
SPECIFICATION TxSpec
SYMMETRY TxSymmetry
INVARIANTS
    TxTypeOK
  OwnersWereNominated
PROPERTIES
  SweepIsSafe
CHECK_DEADLOCK FALSE
