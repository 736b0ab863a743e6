\* What holds of commands that do not overlap only: each of these is violated,
\* to be run one at a time.
CONSTANTS
  u1 = u1
  u2 = u2
  w1 = w1
  w2 = w2
  Users = {u1, u2}
  Nobody = Nobody
  MaxVersion = 1
  JobBypassesRls = TRUE
  Workers = {w1, w2}
  Commands <- CommandName
  Grants = {"ADMIN", "VIEWER"}
SPECIFICATION TxSpec
SYMMETRY TxSymmetry
INVARIANT
  SomeOwner
PROPERTIES
  TerminalIsFinal
  ArchivedAlone
  OwnerRoleMovesByTransfer
CHECK_DEADLOCK FALSE
