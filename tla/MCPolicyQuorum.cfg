\* One handler at a time over a vault whose fourth proposal the signers approve.
SPECIFICATION Spec
CONSTANTS
  Signers = {sA, sB}
  Threshold = 2
  Slots = {h1}
  Idle = Idle
  Backlogs = {3}
  MaxRows = 4
  Due = {0}
  MaxCalls = 3
  Watched = {1, 4}
INVARIANT TwoSignaturesApprove
CHECK_DEADLOCK FALSE
