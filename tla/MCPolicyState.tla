--------------------------- MODULE MCPolicyState ----------------------------
\* Small instances of PolicyState for TLC.
EXTENDS PolicyState, TLC

\* Signers and handler slots are interchangeable.
Symmetry == Permutations(Signers) \union Permutations(Slots)
=============================================================================
