\* All four schedules, with every combination of flags: four ticks of vesting
\* that begin one tick after the funding, and two pauses.
SPECIFICATION Spec
CONSTANTS
  Total = 4
  Duration = 4
  StepInterval = 2
  StepAmount = 2
  UnlockAfter = 2
  Upfront = 1
  Tranches <- TwoTranches
  Start = 2
  Cliff = 3
  Recipients = {rA, rB}
  Reserve = 1
  MaxFee = 1
  LocktimeFloor = 1
  Genesis = 1
  Lag = 1
  MaxTime = 10
  MaxPauses = 2
INVARIANTS TypeOK PausedTimeDoesNotVest
PROPERTIES ClaimKeepsUp CancelIsFair CompletionIsDue VestingIsEscrow
CHECK_DEADLOCK FALSE
