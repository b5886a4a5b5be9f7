\* No failures: two sessions are built from one vault UTXO.
SPECIFICATION FairSpec
CONSTANTS
  Signers = {sA, sB, sC}
  Recipients = {rA}
  Allowed = {rA}
  AllowlistEnabled = TRUE
  PeriodDuration = 2
  PeriodCap = 4
  RecipientCap = 2
  MaxFee = 1
  Deposit = 8
  Genesis = 1
  LocktimeFloor = 1
  Lag = 2
  MaxLocktime = 5
  MaxPeriodId = 3
  MaxTime = 2
  Proposals = {p1, p2}
  Payee = rA
  Payout = 2
  FeeReserve = 1
  BuilderLag = 1
  Dust = 1
  Approvers = {sA, sB}
  Slots = {h1}
  Idle = Idle
  Failures = FALSE
  MaxSessions = 2
  MaxUtxo = 2
PROPERTY SignedSessionExecutes
CHECK_DEADLOCK FALSE
