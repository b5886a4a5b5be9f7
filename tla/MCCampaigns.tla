---------------------------- MODULE MCCampaigns -----------------------------
\* Small instances of Campaigns for TLC.
EXTENDS Campaigns, TLC

Users == Claimants \cup {Creator}
Symmetric == Permutations(Claimants)
=============================================================================
