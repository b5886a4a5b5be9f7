\* Every kind with every choice of its sender, two shares, two pages each, one
\* confirmation posted again and four moves of the UTXO.
SPECIFICATION Spec
CONSTANTS
  s1 = s1
  s2 = s2
  b1 = b1
  b2 = b2
  sender = sender
  bob = bob
  Kinds = {"stream", "recurring", "payment", "budget"}
  Clients <- Pages
  NoTx = none
  MaxTries = 2
  Sender = sender
  Recipient = bob
  Owner <- OwnerOf
  Share = 40
  Total = 80
  MaxMoves = 4
SYMMETRY Symmetric
INVARIANTS TypeOK ClaimsAddUp RowAgrees
PROPERTIES CancelledIsFinal
CHECK_DEADLOCK FALSE
