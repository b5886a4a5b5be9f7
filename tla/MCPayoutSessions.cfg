\* Two proposals, each as large as the period cap, two requests at once.
SPECIFICATION Spec
CONSTANTS
  Signers = {sA, sB, sC}
  Recipients = {rA}
  Allowed = {rA}
  AllowlistEnabled = TRUE
  PeriodDuration = 1
  PeriodCap = 2
  RecipientCap = 2
  MaxFee = 1
  Deposit = 8
  Genesis = 1
  LocktimeFloor = 1
  Lag = 2
  MaxLocktime = 3
  MaxPeriodId = 3
  MaxTime = 2
  Proposals = {p1, p2}
  Payee = rA
  Payout = 2
  FeeReserve = 1
  BuilderLag = 1
  Dust = 1
  Approvers = {sA, sB, sC}
  Slots = {h1, h2}
  Idle = Idle
  Failures = TRUE
  MaxSessions = 2
  MaxUtxo = 2
SYMMETRY Symmetry
INVARIANTS TypeOK PaidAtMostOnce ExecutedIsPaid UnrecordedPayoutIsFound BuilderAgrees
CHECK_DEADLOCK FALSE
