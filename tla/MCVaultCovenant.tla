-------------------------- MODULE MCVaultCovenant ---------------------------
\* Small instances of VaultCovenant for TLC.
EXTENDS VaultCovenant, TLC

\* The three signers are interchangeable: only who is willing is compared.
Symmetry == Permutations(Signers)
=============================================================================
