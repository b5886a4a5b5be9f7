\* A paused stream is cancelled; every transaction carries the time it is mined.
SPECIFICATION Spec
CONSTANTS
  Total = 4
  Duration = 4
  StepInterval = 2
  StepAmount = 2
  UnlockAfter = 2
  Upfront = 1
  Tranches <- TwoTranches
  Start = 2
  Cliff = 3
  Recipients = {rA, rB}
  Reserve = 1
  MaxFee = 1
  LocktimeFloor = 1
  Genesis = 1
  Lag = 0
  MaxTime = 10
  MaxPauses = 2
PROPERTY PausedCancelSplitsAtPauseStart
CHECK_DEADLOCK FALSE
