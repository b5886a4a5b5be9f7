\* Two periods of length 2 fit between Genesis and MaxTime, the cap is smaller
\* than the deposit, and locktimes lie at most one tick behind the chain.
SPECIFICATION VaultSpec
CONSTANTS
  Signers = {sA, sB, sC}
  Recipients = {rA, rB}
  Allowed = {rA}
  AllowlistEnabled = TRUE
  PeriodDuration = 2
  PeriodCap = 2
  RecipientCap = 2
  MaxFee = 1
  Deposit = 5
  Genesis = 1
  LocktimeFloor = 1
  Lag = 1
  MaxLocktime = 6
  MaxPeriodId = 2
  MaxTime = 6
SYMMETRY Symmetry
INVARIANTS VaultTypeOK PeriodCapHolds PeriodsApart LoneSignerPaysNobody
PROPERTY VaultIsEscrow
CHECK_DEADLOCK FALSE
