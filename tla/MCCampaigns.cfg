\* Every family with every choice of its creator, two claimants, a pool for three
\* shares, a little more or a little less, a confirmation posted at most twice and one resumption.
SPECIFICATION Spec
CONSTANTS
  Families = {"airdrop", "reward", "bounty", "grant"}
  Claimants = {cA, cB}
  Creator = creator
  Clients <- Users
  Nobody = nobody
  NoTx = none
  MaxTries = 2
  Share = 4
  Rewards = {3, 4}
  Slots = 3
  Pools = {11, 12, 14}
  MaxResumes = 1
  MaxMoves = 3
SYMMETRY Symmetric
INVARIANTS TypeOK BuilderAgrees ReserveIsKept RecordsMatchPayouts RowTrailsChain
PROPERTIES CampaignIsEscrow
CHECK_DEADLOCK FALSE
