\* What overlapping requests break: each of these is violated, to be run one at a time.
SPECIFICATION Spec
CONSTANTS
  Rows = {r1, r2}
  Target = 2
  Workers = {w1, w2}
  MaxCents = 2
  MaxVersion = 2
SYMMETRY Symmetry
INVARIANTS
  DebitsMatchRecords
PROPERTIES
  FrozenOnceArchived
CHECK_DEADLOCK FALSE
