\* One voter unlocks what he locked.
SPECIFICATION Spec
CONSTANTS
  Clients = {vA}
  NoTx = none
  MaxTries = 2
  Wallets = {w1}
  Coins = {c1}
  VoteChoices = {for}
  NoVote = noVote
  VotingEnds = 1
  Backdate = 1
  MaxTime = 3
  MaxMoves = 3
  MaxLocks = 2
  MaxWeight = 2
  LockSats = 1000
  AmpleSats = 5000
  UnlockFee = 4000
  Dust = 546
SYMMETRY Symmetric
INVARIANT UnlockReturnsStake
CHECK_DEADLOCK FALSE
