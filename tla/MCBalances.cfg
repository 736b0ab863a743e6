\* Two requests at a time on two rows of any kind.
SPECIFICATION Spec
CONSTANTS
  Rows = {r1, r2}
  Target = 2
  Workers = {w1, w2}
  MaxCents = 3
  MaxVersion = 2
SYMMETRY Symmetry
INVARIANTS TypeOK AmountsAreExact AchievedIsFunded NoMoneyIsLost
CHECK_DEADLOCK FALSE
