\* Two overlapping handlers over a vault that already has eight proposals.
SPECIFICATION Spec
CONSTANTS
  Signers = {sA, sB}
  Threshold = 2
  Slots = {h1, h2}
  Idle = Idle
  Backlogs = {8}
  MaxRows = 10
  Due = {1, 2}
  MaxCalls = 3
  Watched = {1}
SYMMETRY Symmetry
INVARIANTS TypeOK WordMatchesRows ApprovedWasCounted
PROPERTY RowsOnlyAdvance
CHECK_DEADLOCK FALSE
