---------------------------- MODULE MCVoteLocks -----------------------------
\* Small instances of VoteLocks for TLC.
EXTENDS VoteLocks, TLC

Symmetric == Permutations(Clients) \cup Permutations(Wallets) \cup Permutations(Coins) \cup Permutations(VoteChoices)
=============================================================================
