-------------------------- MODULE MCPayoutSessions --------------------------
\* Small instances of PayoutSessions for TLC.
EXTENDS PayoutSessions, TLC

\* Slots, proposals and, where all of them approved, signers are interchangeable;
\* for the safety run only.
Symmetry ==
  Permutations(Slots) \union Permutations(Proposals) \union Permutations(Signers)
=============================================================================
