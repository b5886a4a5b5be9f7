------------------------- MODULE MCVestingCovenant --------------------------
\* Small instances of VestingCovenant for TLC.
EXTENDS VestingCovenant

\* A quarter after one tick, the rest after three.
TwoTranches == <<[after |-> 1, cumulative |-> 1], [after |-> 3, cumulative |-> 4]>>
=============================================================================
