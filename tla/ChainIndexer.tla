---------------------------- MODULE ChainIndexer -----------------------------
(***************************************************************************)
(* The indexer: one process that follows block headers and one covenant    *)
(* address through an Electrum server and keeps in the database the cursor *)
(* of the chain, its recent blocks and the covenant's row (which UTXO is   *)
(* live, at which height, and whether it was spent).                       *)
(*                                                                         *)
(* A header is handled by a chain of awaits, and nothing keeps the handler *)
(* of the next header from starting meanwhile.  Projections of an address  *)
(* are chained one after the other, but each is several requests and one   *)
(* transaction.  Between any two steps blocks are mined, the chain is      *)
(* reorganised, transactions arrive, requests fail and the process dies;   *)
(* what happens while it is down it does not see.                          *)
(*                                                                         *)
(* The covenant is a line of transactions: transaction k creates UTXO k    *)
(* and spends UTXO k - 1; a transaction that left an abandoned block is in *)
(* the mempool or in another block.  A block is named by its height and by *)
(* the number of reorganisations before it was mined.                      *)
(***************************************************************************)
EXTENDS Integers, Sequences, FiniteSets, FiniteSetsExt

CONSTANTS Confirmations, \* how deep a UTXO must be to be recorded (6)
          Window,        \* how many headers a handler compares (6)
          Keep,          \* how many recent blocks are kept (100)
          MaxHeight, MaxTxs, MaxReorgs, MaxDepth, \* bounds of the chain
          MaxQueue,      \* bound: projections waiting, further ones add nothing
          MaxFaults      \* bound: failed requests, overlapping header handlers and crashes

ASSUME IndexerConstants ==
  /\ {Confirmations, Window, Keep, MaxHeight, MaxTxs, MaxQueue} \subseteq Nat \ {0}
  /\ {MaxReorgs, MaxDepth, MaxFaults} \subseteq Nat
  /\ Window > 1 /\ Keep >= Window

VARIABLES
  chain,       \* the server's blocks by height: the number of reorganisations before each
  sent,        \* the covenant's transactions so far
  mined,       \* the height of each of them, 0 in the mempool
  row,         \* the covenant's row; 0 is NULL
  cursor,      \* sync_state: last_height and last_block_hash
  safe,        \* sync_state: last_safe_height
  recent,      \* recent_blocks: hash and previous hash by height
  up,          \* the process runs
  tip,         \* the process's idea of the height of the chain
  handlers,    \* header handlers under way
  subscribed,  \* the registry has been loaded since the covenant has an address
  queued,      \* projections scheduled behind the one under way
  projections, \* the projection under way
  faults,      \* counter for the bound
  trouble      \* history: what has happened that some properties exclude

network == <<chain, sent, mined>>
db == <<row, cursor, safe, recent>>
process == <<up, tip, subscribed>>
vars == <<network, db, process, handlers, queued, projections, faults, trouble>>

Tip == Len(chain)
None == 0
Least(a, b) == IF a < b THEN a ELSE b
Greatest(a, b) == IF a > b THEN a ELSE b

\* A handler that has just received the header of the tip of chain c: the block and
\* the name of its parent.
Handler(c) == [height |-> Len(c), id |-> c[Len(c)], prev |-> IF Len(c) > 1 THEN c[Len(c) - 1] ELSE 0,
               at |-> "compare", fork |-> None]

NoRow == [utxo |-> None, height |-> None, spent |-> FALSE, spentAt |-> None]

Init ==
  /\ chain = <<0>>
  /\ sent = 0 /\ mined = [k \in 1 .. MaxTxs |-> 0]
  /\ row = NoRow
  /\ cursor = [height |-> 0, id |-> 0] /\ safe = 0 /\ recent = [h \in {} |-> NoRow]
  /\ up = TRUE /\ tip = 0
  /\ handlers = {Handler(chain)}
  /\ subscribed = FALSE /\ queued = 0 /\ projections = {}
  /\ faults = 0 /\ trouble = {}

\* Something goes wrong.
Fault(kinds) == /\ faults < MaxFaults
                /\ faults' = faults + 1
                /\ trouble' = trouble \cup kinds

-----------------------------------------------------------------------------
(* The network *)

\* Mutant: an event during a projection schedules nothing.
scheduleWhenIdle(n) == queued' = IF projections # {} THEN queued ELSE Least(MaxQueue, queued + n)

\* n more projections of the address.
schedule(n) == queued' = Least(MaxQueue, queued + n)

\* The address's history has changed: the subscription calls back.
Notify == IF up /\ subscribed THEN schedule(1) ELSE UNCHANGED queued

\* The covenant's next transaction enters the mempool.
Transact == /\ sent < MaxTxs
            /\ sent' = sent + 1
            /\ Notify
            /\ UNCHANGED <<chain, mined, db, process, handlers, projections, faults, trouble>>

\* The header of a new tip reaches the process, if it runs, and its handler starts,
\* perhaps before the last one is done.
Announce(c, kinds) ==
  /\ chain' = c
  /\ handlers' = IF up THEN handlers \cup {Handler(c)} ELSE handlers
  /\ LET all == kinds \cup (IF up THEN {} ELSE {"missed"})
                       \cup (IF handlers = {} THEN {} ELSE {"overlap"})
     IN  /\ faults' = faults + (IF "overlap" \in all THEN 1 ELSE 0)
         /\ faults' <= MaxFaults
         /\ trouble' = trouble \cup all

\* A block with some of the waiting transactions, in their order.
Mine == /\ Tip < MaxHeight
        /\ Announce(Append(chain, chain[Tip]), {})
        /\ \E upto \in 0 .. sent :
             /\ mined' = [k \in 1 .. MaxTxs |-> IF k <= upto /\ mined[k] = 0 THEN Tip + 1 ELSE mined[k]]
             /\ IF mined' # mined THEN Notify ELSE UNCHANGED queued
        /\ UNCHANGED <<sent, db, process, projections>>

\* The last `depth` blocks are replaced by one more; their transactions come back in
\* the new blocks or in the mempool.  A block that is replaced may never have been
\* stored: of the blocks of a reorganisation only the tip is.
Reorganise ==
  LET branch == chain[Tip] + 1
  IN  \E depth \in 1 .. Least(MaxDepth, Tip - 1), upto \in 0 .. sent :
        /\ Tip < MaxHeight /\ branch <= MaxReorgs
        /\ Announce([h \in 1 .. Tip + 1 |-> IF h <= Tip - depth THEN chain[h] ELSE branch],
                    (IF projections # {} THEN {"straddle"} ELSE {})
                      \cup (IF depth >= Confirmations THEN {"deep"} ELSE {})
                      \cup (IF depth >= Window THEN {"long"} ELSE {})
                      \cup (IF Tip - depth + 1 .. Tip \subseteq DOMAIN recent THEN {} ELSE {"unseen"}))
        /\ \E h \in Tip - depth + 1 .. Tip + 1 :
             mined' = [k \in 1 .. MaxTxs |->
                         IF mined[k] \in 1 .. Tip - depth THEN mined[k]
                         ELSE IF k <= upto THEN h ELSE 0]
        /\ IF mined' # mined THEN Notify ELSE UNCHANGED queued
        /\ UNCHANGED <<sent, db, process, projections>>

-----------------------------------------------------------------------------
(* onHeader, one action per await *)

\* Handler p takes a step and is at `place` with some fields changed.
Advance(p, q) == handlers' = (handlers \ {p}) \cup {q}
Keeping == UNCHANGED <<network, up, subscribed, projections>>

\* The headers a handler compares: the tip and its parent are named by the header
\* itself, what is below by the headers the server has.  A failed request cuts the walk
\* short at `lowest`.
Bottom(p) == Greatest(1, p.height - Window + 1)
collectRecentChain(p, lowest) ==
  [h \in lowest .. p.height |-> IF h = p.height THEN p.id
                             ELSE IF h = p.height - 1 THEN p.prev ELSE chain[h]]

\* The lowest height at which the stored block is another one.
findReorgPoint(window) ==
  LET differ == {h \in DOMAIN window \cap DOMAIN recent : recent[h].id # window[h]}
  IN  IF differ = {} THEN None ELSE Min(differ)

compare(p) ==
  /\ p.at = "compare"
  /\ \E lowest \in Bottom(p) .. p.height :
       /\ IF lowest = Bottom(p) THEN UNCHANGED <<faults, trouble>> ELSE Fault({"cut"})
       /\ LET fork == findReorgPoint(collectRecentChain(p, lowest))
          IN  Advance(p, [p EXCEPT !.at = IF fork = None THEN "push" ELSE "reorg", !.fork = fork])
  /\ UNCHANGED <<db, tip, queued>> /\ Keeping

\* Mutant: spends at the fork itself stay.
UnspendAbove(fork, r) == IF r.spentAt > fork THEN [r EXCEPT !.spent = FALSE, !.spentAt = None] ELSE r
\* Mutant: the stored block at the fork stays.
ForgetAbove(fork) == [h \in {g \in DOMAIN recent : g <= fork} |-> recent[h]]

\* handleReorg, one transaction: spends and UTXOs from the fork on are forgotten (a
\* NULL height compares with nothing), and so are the stored blocks.
Unspend(fork, r) == IF r.spentAt >= fork THEN [r EXCEPT !.spent = FALSE, !.spentAt = None] ELSE r
Unplace(fork, r) == IF r.height >= fork THEN [r EXCEPT !.utxo = None, !.height = None] ELSE r
Forget(fork) == [h \in {g \in DOMAIN recent : g < fork} |-> recent[h]]

handleReorg(p) ==
  /\ p.at = "reorg"
  /\ row' = Unplace(p.fork, Unspend(p.fork, row))
  /\ recent' = Forget(p.fork)
  /\ IF subscribed THEN schedule(1) ELSE UNCHANGED queued
  /\ Advance(p, [p EXCEPT !.at = "push", !.fork = None])
  /\ UNCHANGED <<cursor, safe, tip, faults, trouble>> /\ Keeping

\* Mutant: nothing is trimmed.
trimNothing(stored) == stored

\* Only the last Keep heights stay.
trimRecentBlocks(stored) ==
  [h \in {g \in DOMAIN stored : g > Max(DOMAIN stored) - Keep} |-> stored[h]]

upsertBlock(p) == [h \in DOMAIN recent \cup {p.height} |->
                     IF h = p.height THEN [id |-> p.id, prev |-> p.prev] ELSE recent[h]]

\* Pushing and trimming are two statements: what is trimmed lies so far below what any
\* handler compares that nothing sees the difference.
pushRecentBlock(p) ==
  /\ p.at = "push"
  /\ recent' = trimRecentBlocks(upsertBlock(p))
  /\ Advance(p, [p EXCEPT !.at = "cursor"])
  /\ UNCHANGED <<row, cursor, safe, tip, queued, faults, trouble>> /\ Keeping

updateCursor(p) ==
  /\ p.at = "cursor"
  /\ cursor' = [height |-> p.height, id |-> p.id]
  /\ Advance(p, [p EXCEPT !.at = "safe"])
  /\ UNCHANGED <<row, safe, recent, tip, queued, faults, trouble>> /\ Keeping

SafeAfter(height) == Greatest(safe, Greatest(0, height - Confirmations))

\* The last await, after which the handler also sets the process's tip.
advanceSafe(p) ==
  /\ p.at = "safe"
  /\ safe' = SafeAfter(p.height)
  /\ tip' = p.height
  /\ handlers' = handlers \ {p}
  /\ UNCHANGED <<row, cursor, recent, queued, faults, trouble>> /\ Keeping

onHeader(p) == compare(p) \/ handleReorg(p) \/ pushRecentBlock(p) \/ updateCursor(p) \/ advanceSafe(p)

-----------------------------------------------------------------------------
(* projectAddress *)

\* Mutant: a projection does not wait for the one before it.
MayStartAnytime == Cardinality(projections) < 2

\* Projections of an address are chained.
MayStart == projections = {}

listUnspent ==
  /\ queued > 0 /\ MayStart
  /\ queued' = queued - 1
  /\ projections' = projections \cup
       {[at |-> "listed",
         live |-> sent,
         height |-> IF sent = 0 THEN 0 ELSE mined[sent],
         history |-> <<>>]}
  /\ UNCHANGED <<network, db, process, handlers, faults, trouble>>

getHistory(p) ==
  /\ p.at = "listed"
  /\ projections' = (projections \ {p}) \cup
       {[p EXCEPT !.at = "read", !.history = [k \in 1 .. sent |-> mined[k]]]}
  /\ UNCHANGED <<network, db, process, handlers, queued, faults, trouble>>

\* Mutant: one confirmation less is enough.
DeepEnoughByOne(height) == height > 0 /\ tip - height + 2 >= Confirmations

DeepEnough(height) == height > 0 /\ tip - height + 1 >= Confirmations

\* upsertLiveUtxo and markSpentRows, one transaction.  The search for the spending
\* transaction may find nothing when a request fails.
upsertLiveUtxo(p) ==
  IF p.live # None /\ DeepEnough(p.height)
  THEN [utxo |-> p.live, height |-> p.height, spent |-> FALSE, spentAt |-> None]
  ELSE row

markSpentRows(p, r, found) ==
  IF /\ r.utxo # None /\ ~r.spent /\ r.utxo # p.live
     /\ r.utxo + 1 \in DOMAIN p.history /\ found
  THEN [r EXCEPT !.spent = TRUE, !.spentAt = p.history[r.utxo + 1]]
  ELSE r

project(p) ==
  /\ p.at = "read"
  /\ projections' = projections \ {p}
  /\ \E found \in BOOLEAN :
       /\ row' = markSpentRows(p, upsertLiveUtxo(p), found)
       /\ IF found THEN UNCHANGED <<faults, trouble>>
          ELSE Fault({"drop"})
  /\ UNCHANGED <<network, cursor, safe, recent, process, handlers, queued>>

\* A request fails twice and the projection ends: the reconnection in between has
\* subscribed again and so scheduled another, or it failed as well.
fetchFailed(p) ==
  /\ p.at = "listed"
  /\ projections' = projections \ {p}
  /\ \/ schedule(1) /\ Fault({})
     \/ UNCHANGED queued /\ Fault({"drop"})
  /\ UNCHANGED <<network, db, process, handlers>>

\* The registry has the address: subscribing calls back once and schedules once.
Subscribe == subscribed' = TRUE /\ schedule(2)

refreshRegistry ==
  /\ up /\ ~subscribed
  /\ Subscribe
  /\ UNCHANGED <<network, db, up, tip, handlers, projections, faults, trouble>>

\* The process dies.  The network goes on without it.
Crash ==
  /\ up /\ Fault({})
  /\ up' = FALSE
  /\ handlers' = {} /\ queued' = 0 /\ projections' = {}
  /\ UNCHANGED <<network, db, tip, subscribed>>

\* Mutant: a restarted process waits for the next header.
HeadersOnStartMissing == {}

HeadersOnStart == {Handler(chain)}

\* It is started again: the tip is the stored cursor, the subscriptions answer with the
\* current header and status.
Start ==
  /\ ~up
  /\ up' = TRUE
  /\ tip' = cursor.height
  /\ handlers' = HeadersOnStart
  /\ \/ Subscribe
     \/ ~subscribed /\ UNCHANGED <<subscribed, queued>>
  /\ UNCHANGED <<network, db, projections, faults, trouble>>

-----------------------------------------------------------------------------
projectAddress == \E p \in projections : getHistory(p) \/ project(p) \/ fetchFailed(p)

Next == \/ Transact \/ Mine \/ Reorganise
        \/ \E p \in handlers : onHeader(p)
        \/ listUnspent \/ projectAddress
        \/ refreshRegistry \/ Crash \/ Start

Spec == Init /\ [][Next]_vars

\* The event loop runs every continuation whose request was answered, and a process
\* that failed is started again; nothing makes the network move or fail.
onHeaderOf(height, id) == \E p \in handlers : p.height = height /\ p.id = id /\ onHeader(p)
Fairness == /\ \A height \in 1 .. MaxHeight, id \in 0 .. MaxReorgs : WF_vars(onHeaderOf(height, id))
            /\ WF_vars(listUnspent)
            /\ WF_vars(projectAddress)
            /\ WF_vars(Start)
FairSpec == Spec /\ Fairness

-----------------------------------------------------------------------------
(* Properties *)

\* What the database and the process hold; no more recent blocks are stored
\* than are kept.
TypeOK ==
  /\ chain \in Seq(0 .. MaxReorgs) /\ Tip <= MaxHeight
  /\ sent \in 0 .. MaxTxs /\ mined \in [1 .. MaxTxs -> 0 .. Tip]
  /\ row \in [utxo : 0 .. sent, height : 0 .. Tip, spent : BOOLEAN, spentAt : 0 .. Tip]
  /\ {safe, tip, cursor.height} \subseteq 0 .. Tip
  /\ DOMAIN recent \subseteq 1 .. Tip /\ Cardinality(DOMAIN recent) <= Keep
  /\ \A p \in handlers : p.at \in {"compare", "reorg", "push", "cursor", "safe"} /\ p.height \in 1 .. Tip
  /\ \A p \in projections : p.at \in {"listed", "read"} /\ p.live \in 0 .. sent

\* What a row says of the height of its UTXO stays true, through shallow reorganisations,
\* late or lost headers, failed requests and restarts.  It takes a reorganisation of at
\* least Confirmations blocks, or one between a projection's requests and its writing,
\* to make the row name an abandoned block.
RowIsOnChain ==
  row.height # None => mined[row.utxo] = row.height \/ trouble \cap {"deep", "straddle"} # {}

\* A spend recorded at a height of an abandoned block does not outlive the handling of
\* the reorganisation, crashes included, provided that nothing overlapped it, that no
\* block was missed while the process was down, and that the blocks replaced were among
\* those it had stored and the fork within the headers compared.
Quiet == up /\ handlers = {} /\ projections = {} /\ queued = 0
AbandonedSpendIsUndone ==
  /\ Quiet /\ row.utxo # None /\ row.spent /\ row.spentAt # None
  /\ trouble \cap {"overlap", "straddle", "long", "cut", "unseen", "missed"} = {}
  => mined[row.utxo + 1] = row.spentAt

\* Stored neighbours are parent and child, whatever was reorganised, missed or
\* interrupted, as long as headers are handled one at a time and none could not be fetched.
NeighboursAreLinked ==
  trouble \cap {"overlap", "cut"} = {} =>
    \A h \in DOMAIN recent : h - 1 \in DOMAIN recent => recent[h].prev = recent[h - 1].id

\* Apart from being forgotten in a reorganisation, the row's UTXO never goes back to
\* an earlier one, however slow the requests of a projection are.
RowOnlyAdvances == [][row'.utxo >= row.utxo \/ row'.utxo = None]_vars

\* A spend of the UTXO a row names is recorded, unless a failed request dropped it: no
\* event is missed while a projection is under way, the process is down or the fork is
\* being handled.
SpendsAreSeen ==
  \A u \in 1 .. MaxTxs :
    row.utxo = u /\ ~row.spent /\ sent > u ~> row.spent \/ row.utxo # u \/ "drop" \in trouble

\* The cursor reaches every height the chain reaches, unless handlers overtook one
\* another.
CursorFollows ==
  \A h \in 1 .. MaxHeight : Tip >= h ~> cursor.height >= h \/ "overlap" \in trouble
=============================================================================
