--------------------------- MODULE MCChainIndexer ---------------------------
\* Small instances of ChainIndexer for TLC.
EXTENDS ChainIndexer
=============================================================================
