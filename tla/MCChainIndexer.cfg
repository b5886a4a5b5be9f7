\* Two confirmations and two headers compared, as the code compares six for six: a
\* reorganisation of one block is shallow, one of two is deep.
SPECIFICATION FairSpec
CONSTANTS
  Confirmations = 2
  Window = 2
  Keep = 2
  MaxHeight = 4
  MaxTxs = 2
  MaxReorgs = 1
  MaxDepth = 2
  MaxQueue = 1
  MaxFaults = 1
INVARIANTS TypeOK RowIsOnChain AbandonedSpendIsUndone NeighboursAreLinked
PROPERTIES RowOnlyAdvances SpendsAreSeen CursorFollows
CHECK_DEADLOCK FALSE
