\* One token, two addresses whose keys may be one, weights up to two; a voting period
\* that ends in the middle of the clock, confirmations posted at most twice.
SPECIFICATION Spec
CONSTANTS
  Clients = {vA, vB}
  NoTx = none
  MaxTries = 2
  Wallets = {w1, w2}
  Coins = {c1}
  VoteChoices = {for, against}
  NoVote = noVote
  VotingEnds = 1
  Backdate = 1
  MaxTime = 2
  MaxMoves = 3
  MaxLocks = 2
  MaxWeight = 2
  LockSats = 1000
  AmpleSats = 5000
  UnlockFee = 4000
  Dust = 546
SYMMETRY Symmetric
INVARIANTS TypeOK TallyIsVotes TokensVoteOnce
CHECK_DEADLOCK FALSE
