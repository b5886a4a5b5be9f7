------------------------- MODULE ChainIndexerProofs -------------------------
(***************************************************************************)
(* Theorems about ChainIndexer, for any chain, any number of transactions  *)
(* and reorganisations, and any thresholds and windows.  The inductive     *)
(* invariant says how far what the database, the handlers and the          *)
(* projections know can be from the chain; the parts that an overlap, a    *)
(* cut or a missed block would break say so.                               *)
(***************************************************************************)
EXTENDS ChainIndexer, FiniteSetTheorems, SequenceTheorems, WellFoundedInduction, TLAPS

Places == {"compare", "reorg", "push", "cursor", "safe"}
Row == [utxo : Nat, height : Nat, spent : BOOLEAN, spentAt : Nat]
Stored == [id : Nat, prev : Nat]
Handlers == [height : Nat, id : Nat, prev : Nat, at : Places, fork : Nat]
Projections == [at : {"listed", "read"}, live : Nat, height : Nat, history : Seq(Nat)]

\* A later block is not named after an earlier reorganisation.
ChainOk ==
  /\ chain \in Seq(0 .. MaxReorgs) /\ Tip \in 1 .. MaxHeight
  /\ \A g, h \in 1 .. Tip : g <= h => chain[g] <= chain[h]
  /\ sent \in 0 .. MaxTxs /\ mined \in [1 .. MaxTxs -> 0 .. Tip]

RowOk ==
  /\ row \in Row /\ row.utxo <= sent /\ row.height <= Tip /\ row.spentAt <= Tip
  /\ row.height # None => row.utxo # None
  /\ cursor \in [height : 0 .. Tip, id : Nat] /\ safe \in 0 .. Tip

\* The stored blocks lie close together, and no older than the chain's tip.
RecentOk ==
  /\ recent \in [DOMAIN recent -> Stored] /\ DOMAIN recent \subseteq 1 .. Tip
  /\ \A h \in DOMAIN recent : recent[h].id <= chain[Tip]
  /\ \E top \in 0 .. MaxHeight : DOMAIN recent \subseteq top - Keep + 1 .. top

HandlersOk ==
  /\ handlers \subseteq Handlers
  /\ \A p \in handlers : p.height \in 1 .. Tip /\ p.id <= chain[Tip]
  /\ ~up => handlers = {}

\* One projection at a time, of a UTXO no older than the row's.
ProjectionsOk ==
  /\ projections \subseteq Projections
  /\ \A p, q \in projections : p = q
  /\ \A p \in projections :
       /\ row.utxo <= p.live /\ p.live <= sent /\ p.height <= Tip
       /\ p.height # None => p.live # None
       /\ Len(p.history) <= sent /\ \A k \in 1 .. Len(p.history) : p.history[k] <= Tip

ProcessOk ==
  /\ up \in BOOLEAN /\ subscribed \in BOOLEAN /\ tip \in 0 .. Tip
  /\ queued \in Nat /\ faults \in Nat

Typed == ChainOk /\ RowOk /\ RecentOk /\ HandlersOk /\ ProjectionsOk /\ ProcessOk

\* What was read from the server stays true unless the chain is reorganised meanwhile.
ReadsHold ==
  "straddle" \notin trouble =>
    \A p \in projections :
      /\ p.height # None => mined[p.live] = p.height
      /\ \A k \in 1 .. Len(p.history) : p.history[k] # None => mined[k] = p.history[k]

\* The row's UTXO lies so deep that no shallow reorganisation reaches it.
RowIsDeep ==
  row.height # None /\ trouble \cap {"deep", "straddle"} = {} =>
    mined[row.utxo] = row.height /\ row.height <= Tip - Confirmations + 1

\* Without overlap one handler is under way, and it has the header of the tip.
OneHandler ==
  "overlap" \notin trouble =>
    /\ \A p, q \in handlers : p = q
    /\ \A p \in handlers : /\ p.height = Tip /\ p.id = chain[Tip]
                           /\ Tip > 1 => p.prev = chain[Tip - 1]

\* What a handler has compared and found, or forgotten: the stored blocks it has seen
\* and left are blocks of the chain.
Compared ==
  trouble \cap {"overlap", "cut"} = {} =>
    \A p \in handlers, h \in DOMAIN recent :
      h >= Bottom(p) /\ (p.at = "push" \/ (p.at = "reorg" /\ h < p.fork)) => recent[h].id = chain[h]

\* A spend recorded in a block that was abandoned is about to be found: the stored
\* block at its height is another one than the chain's.
Pending ==
  /\ row.spentAt \in DOMAIN recent /\ recent[row.spentAt].id # chain[row.spentAt]
  /\ row.spentAt >= Tip - Window + 1
  /\ up => \E p \in handlers : p.at = "compare" \/ (p.at = "reorg" /\ p.fork <= row.spentAt)

Excused == {"overlap", "straddle", "long", "cut", "unseen", "missed"}
SpendsHold ==
  row.utxo # None /\ row.spent /\ row.spentAt # None /\ trouble \cap Excused = {} =>
    row.utxo < MaxTxs /\ (mined[row.utxo + 1] = row.spentAt \/ Pending)

IInv == /\ Typed /\ ReadsHold /\ RowIsDeep /\ OneHandler /\ Compared
        /\ NeighboursAreLinked /\ SpendsHold

-----------------------------------------------------------------------------
(* Extrema and constants *)

\* What the constants' assumption says, one fact at a time.
LEMMA Constants ==
  /\ Confirmations \in Nat \ {0} /\ Window \in Nat \ {0} /\ Keep \in Nat \ {0}
  /\ MaxHeight \in Nat \ {0} /\ MaxTxs \in Nat \ {0} /\ MaxQueue \in Nat \ {0}
  /\ MaxReorgs \in Nat /\ MaxDepth \in Nat /\ MaxFaults \in Nat
  /\ Window > 1 /\ Keep >= Window
BY IndexerConstants

\* A nonempty set of heights has a lowest one.
LEMMA MinOf ==
  ASSUME NEW S \in SUBSET Nat, S # {}
  PROVE  Min(S) \in S /\ \A x \in S : Min(S) <= x
<1>1. PICK x \in S : \A y \in S : ~(<<y, x>> \in OpToRel(<, Nat))
  BY NatLessThanWellFounded, WFMin
<1>2. \A y \in S : ~(y < x)
  BY <1>1 DEF OpToRel
<1>3. \A y \in S : x <= y
  BY <1>2
<1> QED
  BY <1>3 DEF Min

\* A nonempty set of heights of the chain has a highest one.
LEMMA MaxOf ==
  ASSUME NEW n \in Nat, NEW S \in SUBSET (1 .. n), S # {}
  PROVE  Max(S) \in S /\ \A x \in S : x <= Max(S)
<1> DEFINE T == {n - x : x \in S}
<1>0. \A x \in S : n - x \in Nat
  OBVIOUS
<1>1. T \subseteq Nat /\ T # {}
  BY <1>0
<1>2. Min(T) \in T /\ \A y \in T : Min(T) <= y
  <2> HIDE DEF T
  <2> QED
    BY <1>1, MinOf
<1>3. PICK x \in S : Min(T) = n - x
  BY <1>2
<1>4. ASSUME NEW y \in S PROVE x >= y
  <2>1. n - y \in T
    OBVIOUS
  <2> HIDE DEF T
  <2>2. Min(T) <= n - y
    BY <1>2, <2>1
  <2> QED
    BY <1>3, <2>2
<1> HIDE DEF T
<1> QED
  BY <1>3, <1>4 DEF Max

\* Heights that lie close together are few.
LEMMA FewHeights ==
  ASSUME NEW top \in Nat, NEW S \in SUBSET (top - Keep + 1 .. top)
  PROVE  IsFiniteSet(S) /\ Cardinality(S) <= Keep
<1>1. /\ IsFiniteSet(top - Keep + 1 .. top)
      /\ Cardinality(top - Keep + 1 .. top) = Keep
  BY FS_Interval, Constants
<1> QED
  BY <1>1, FS_Subset

-----------------------------------------------------------------------------
(* The initial state *)

\* With no projection under way there is nothing to say about one.
LEMMA NoProjections ==
  ASSUME projections = {}
  PROVE  ProjectionsOk
BY DEF ProjectionsOk

\* The process starts on the first block with an empty database.
LEMMA InitTyped == Init => Typed
<1> SUFFICES ASSUME Init PROVE Typed
  OBVIOUS
<1> USE Constants DEF Init, None
<1>1. chain \in Seq(0 .. MaxReorgs) /\ Tip = 1 /\ chain[1] = 0
  BY DEF Tip
<1>2. ChainOk
  BY <1>1, SMT DEF ChainOk
<1>3. RowOk
  BY <1>1, SMT DEF RowOk, Row, NoRow
<1>4. RecentOk
  <2>1. DOMAIN recent = {} /\ recent \in [{} -> Stored]
    BY Zenon
  <2> QED
    BY <1>1, <2>1, SMT DEF RecentOk
<1>5. HandlersOk
  <2>1. Handler(chain) = [height |-> 1, id |-> 0, prev |-> 0, at |-> "compare", fork |-> 0]
    BY <1>1, SMT DEF Handler, Tip
  <2>2. Handler(chain) \in Handlers
    BY <2>1, SMT DEF Handlers, Places
  <2> QED
    BY <1>1, <2>1, <2>2, SMT DEF HandlersOk
<1>6. ProjectionsOk
  <2>1. projections = {}
    OBVIOUS
  <2> QED
    BY <2>1, NoProjections, Zenon
<1>7. ProcessOk
  <2>1. up \in BOOLEAN /\ subscribed \in BOOLEAN
    BY Zenon
  <2>2. tip = 0 /\ queued = 0 /\ faults = 0
    BY Zenon
  <2>3. tip \in 0 .. Tip /\ queued \in Nat /\ faults \in Nat
    BY <1>1, <2>2, SMT
  <2> QED
    BY <2>1, <2>3, Zenon DEF ProcessOk
<1> QED
  BY <1>2, <1>3, <1>4, <1>5, <1>6, <1>7 DEF Typed


-----------------------------------------------------------------------------
(* What a step leaves alone stays well formed *)

\* No step shortens the chain or forgets a transaction.
Grows == Tip <= Tip' /\ chain[Tip] <= chain'[Tip'] /\ sent <= sent'

ChainIsSound ==
  /\ Tip \in Nat /\ Tip >= 1 /\ Tip <= MaxHeight /\ sent \in Nat /\ sent <= MaxTxs
  /\ chain \in Seq(0 .. MaxReorgs) /\ Len(chain) = Tip
  /\ \A h \in 1 .. Tip : chain[h] \in Nat /\ chain[h] <= MaxReorgs /\ chain[h] <= chain[Tip]
  /\ chain[Tip] \in Nat
  /\ \A k \in 1 .. MaxTxs : mined[k] \in Nat /\ mined[k] <= Tip

\* Every block of the chain has a name, and so has its tip.
LEMMA ChainFacts == ChainOk => ChainIsSound
<1> SUFFICES ASSUME ChainOk PROVE ChainIsSound
  OBVIOUS
<1> USE Constants
<1>1. /\ Tip \in Nat /\ Tip >= 1 /\ Tip <= MaxHeight /\ sent \in Nat /\ sent <= MaxTxs
      /\ chain \in Seq(0 .. MaxReorgs) /\ Len(chain) = Tip
  BY DEF ChainOk, Tip
<1>2. \A h \in 1 .. Tip : chain[h] \in 0 .. MaxReorgs
  BY <1>1, ElementOfSeq
<1>3. \A h \in 1 .. Tip : chain[h] <= chain[Tip]
  BY <1>1 DEF ChainOk
<1>4. \A k \in 1 .. MaxTxs : mined[k] \in 0 .. Tip
  BY DEF ChainOk
<1> QED
  BY <1>1, <1>2, <1>3, <1>4 DEF ChainIsSound

\* The same of the chain after a step.
LEMMA ChainFactsNext == ChainOk' => ChainIsSound'
BY ChainFacts, PTL

\* A step of the process leaves the chain as it is.
LEMMA Still ==
  ASSUME Typed, UNCHANGED network
  PROVE  ChainOk' /\ Grows
<1>1. ChainOk'
  BY DEF Typed, ChainOk, Tip, network
<1>2. Tip' = Tip /\ chain' = chain /\ sent' = sent
  BY DEF Tip, network
<1> QED
  BY <1>1, <1>2, ChainFacts DEF Grows, Typed, ChainIsSound

\* What is in the row and the cursor stays within a chain that grows.
LEMMA FrameRow ==
  ASSUME Typed, ChainOk', Grows, UNCHANGED <<row, cursor, safe>>
  PROVE  RowOk'
<1>1. RowOk
  BY DEF Typed
<1>2. Tip \in Nat /\ Tip' \in Nat /\ sent \in Nat /\ sent' \in Nat /\ Tip <= Tip' /\ sent <= sent'
  BY ChainFacts, ChainFactsNext, Zenon DEF Typed, Grows, ChainIsSound
<1>3. row \in Row /\ row.utxo \in Nat /\ row.height \in Nat /\ row.spentAt \in Nat
  BY <1>1 DEF RowOk, Row
<1>4. row.utxo <= sent' /\ row.height <= Tip' /\ row.spentAt <= Tip'
  BY <1>1, <1>2, <1>3 DEF RowOk
<1>5. cursor = [height |-> cursor.height, id |-> cursor.id] /\ cursor.height \in 0 .. Tip /\ cursor.id \in Nat
  BY <1>1 DEF RowOk
<1>6. cursor.height \in 0 .. Tip' /\ safe \in 0 .. Tip'
  BY <1>1, <1>2, <1>5 DEF RowOk
<1>7. cursor \in [height : 0 .. Tip', id : Nat]
  BY <1>5, <1>6
<1> QED
  BY <1>1, <1>3, <1>4, <1>6, <1>7 DEF RowOk

\* So do the stored blocks: names of blocks only grow.
LEMMA FrameRecent ==
  ASSUME Typed, ChainOk', Grows, UNCHANGED recent
  PROVE  RecentOk'
<1>1. RecentOk
  BY DEF Typed
<1>2. /\ Tip \in Nat /\ Tip' \in Nat /\ Tip <= Tip'
      /\ chain[Tip] \in Nat /\ chain'[Tip'] \in Nat /\ chain[Tip] <= chain'[Tip']
  BY ChainFacts, ChainFactsNext, Zenon DEF Typed, Grows, ChainIsSound
<1>3. \A h \in DOMAIN recent : recent[h].id \in Nat /\ recent[h].id <= chain[Tip]
  BY <1>1 DEF RecentOk, Stored
<1>4. \A h \in DOMAIN recent : recent[h].id <= chain'[Tip']
  BY <1>2, <1>3
<1>5. DOMAIN recent \subseteq 1 .. Tip'
  BY <1>1, <1>2 DEF RecentOk
<1>6. /\ recent \in [DOMAIN recent -> Stored]
      /\ \E top \in 0 .. MaxHeight : DOMAIN recent \subseteq top - Keep + 1 .. top
  BY <1>1 DEF RecentOk
<1>7. recent' = recent
  OBVIOUS
<1> HIDE <1>1
<1> QED
  BY <1>4, <1>5, <1>6, <1>7, Zenon DEF RecentOk

\* Handlers that go on or end stay well formed while the chain grows.
LEMMA FrameHandlers ==
  ASSUME Typed, ChainOk', Grows, handlers' \subseteq handlers, UNCHANGED up
  PROVE  HandlersOk'
<1>1. HandlersOk
  BY DEF Typed
<1>2. /\ Tip \in Nat /\ Tip' \in Nat /\ Tip <= Tip'
      /\ chain[Tip] \in Nat /\ chain'[Tip'] \in Nat /\ chain[Tip] <= chain'[Tip']
  BY ChainFacts, ChainFactsNext, Zenon DEF Typed, Grows, ChainIsSound
<1>3. ASSUME NEW p \in handlers
      PROVE  p \in Handlers /\ p.height \in 1 .. Tip' /\ p.id <= chain'[Tip']
  <2>1. p \in Handlers /\ p.height \in 1 .. Tip /\ p.id <= chain[Tip]
    BY <1>1 DEF HandlersOk
  <2>2. p.id \in Nat
    BY <2>1 DEF Handlers
  <2> QED
    BY <1>2, <2>1, <2>2
<1>4. ~up => handlers = {}
  BY <1>1 DEF HandlersOk
<1> QED
  BY <1>3, <1>4 DEF HandlersOk

\* So do projections, as long as no later UTXO is written to the row.
LEMMA FrameProjections ==
  ASSUME Typed, ChainOk', Grows, projections' \subseteq projections,
         row'.utxo = row.utxo \/ row'.utxo = None
  PROVE  ProjectionsOk'
<1>1. ProjectionsOk
  BY DEF Typed
<1>2. /\ Tip \in Nat /\ Tip' \in Nat /\ Tip <= Tip'
      /\ sent \in Nat /\ sent' \in Nat /\ sent <= sent'
  BY ChainFacts, ChainFactsNext, Zenon DEF Typed, Grows, ChainIsSound
<1>3. ASSUME NEW p \in projections
      PROVE  /\ row'.utxo <= p.live /\ p.live <= sent' /\ p.height <= Tip'
             /\ p.height # None => p.live # None
             /\ Len(p.history) <= sent' /\ \A k \in 1 .. Len(p.history) : p.history[k] <= Tip'
  <2>1. p \in Projections
    BY <1>1 DEF ProjectionsOk
  <2>2. p.live \in Nat /\ p.height \in Nat /\ p.history \in Seq(Nat) /\ Len(p.history) \in Nat
    BY <2>1 DEF Projections
  <2>3. \A k \in 1 .. Len(p.history) : p.history[k] \in Nat
    BY <2>2, ElementOfSeq
  <2>4. /\ row.utxo <= p.live /\ p.live <= sent /\ p.height <= Tip
        /\ p.height # None => p.live # None
        /\ Len(p.history) <= sent /\ \A k \in 1 .. Len(p.history) : p.history[k] <= Tip
    BY <1>1 DEF ProjectionsOk
  <2>5. row.utxo \in Nat
    BY DEF Typed, RowOk, Row
  <2>6. row'.utxo <= p.live
    BY <2>2, <2>4, <2>5 DEF None
  <2>7. p.live <= sent' /\ p.height <= Tip' /\ Len(p.history) <= sent'
    BY <1>2, <2>2, <2>4
  <2>8. \A k \in 1 .. Len(p.history) : p.history[k] <= Tip'
    BY <1>2, <2>3, <2>4
  <2> QED
    BY <2>4, <2>6, <2>7, <2>8, Zenon
<1>4. projections \subseteq Projections /\ \A p, q \in projections : p = q
  BY <1>1 DEF ProjectionsOk
<1> HIDE <1>1
<1> QED
  BY <1>3, <1>4, Zenon DEF ProjectionsOk

\* The process's tip is never above the chain's.
LEMMA FrameTip ==
  ASSUME Typed, ChainOk', Grows, UNCHANGED tip
  PROVE  tip' \in 0 .. Tip'
<1>1. Tip \in Nat /\ Tip' \in Nat /\ Tip <= Tip' /\ tip \in 0 .. Tip
  BY ChainFacts, ChainFactsNext DEF Typed, Grows, ProcessOk, ChainIsSound
<1> QED
  BY <1>1


-----------------------------------------------------------------------------
(* The network *)

\* Scheduling keeps the number of waiting projections a natural number.
LEMMA Scheduled ==
  ASSUME queued \in Nat, NEW n \in Nat, schedule(n)
  PROVE  queued' \in Nat
BY Constants DEF schedule, Least

\* So does the call-back of a subscription.
LEMMA Notified ==
  ASSUME queued \in Nat, Notify
  PROVE  queued' \in Nat
<1>1. CASE up /\ subscribed
  BY <1>1, Scheduled DEF Notify
<1>2. CASE ~(up /\ subscribed)
  BY <1>2 DEF Notify
<1> QED
  BY <1>1, <1>2

\* The handler of a header that arrives has the block at the tip and its parent.
LEMMA Handled ==
  ASSUME ChainOk
  PROVE  /\ Handler(chain) \in Handlers
         /\ Handler(chain).height = Tip /\ Handler(chain).id = chain[Tip]
         /\ Tip > 1 => Handler(chain).prev = chain[Tip - 1]
         /\ Handler(chain).at = "compare"
<1>1. /\ Tip \in Nat /\ Tip >= 1 /\ Len(chain) = Tip /\ chain[Tip] \in Nat
      /\ \A h \in 1 .. Tip : chain[h] \in Nat
  BY ChainFacts DEF ChainIsSound
<1> DEFINE prev == IF Len(chain) > 1 THEN chain[Len(chain) - 1] ELSE 0
<1>2. prev \in Nat /\ (Tip > 1 => prev = chain[Tip - 1])
  BY <1>1
<1>3. Handler(chain) = [height |-> Tip, id |-> chain[Tip], prev |-> prev, at |-> "compare", fork |-> 0]
  BY <1>1, Zenon DEF Handler, None
<1> HIDE DEF prev
<1>4. [height |-> Tip, id |-> chain[Tip], prev |-> prev, at |-> "compare", fork |-> 0] \in Handlers
  BY <1>1, <1>2, SMT DEF Handlers, Places
<1> QED
  BY <1>2, <1>3, <1>4

\* The same of the chain after a step.
LEMMA HandledNext ==
  ChainOk' => /\ Handler(chain') \in Handlers
              /\ Handler(chain').height = Tip' /\ Handler(chain').id = chain'[Tip']
              /\ Tip' > 1 => Handler(chain').prev = chain'[Tip' - 1]
              /\ Handler(chain').at = "compare"
<1> DEFINE Facts == /\ Handler(chain) \in Handlers
                    /\ Handler(chain).height = Tip /\ Handler(chain).id = chain[Tip]
                    /\ Tip > 1 => Handler(chain).prev = chain[Tip - 1]
                    /\ Handler(chain).at = "compare"
<1>1. ChainOk => Facts
  BY Handled
<1> HIDE DEF Facts
<1>2. ChainOk' => Facts'
  BY <1>1, PTL
<1> QED
  BY <1>2 DEF Facts

\* A new tip that is announced.
Announced == /\ UNCHANGED up
             /\ handlers' = IF up THEN handlers \cup {Handler(chain')} ELSE handlers
             /\ faults' \in Nat
             /\ trouble \subseteq trouble'
             /\ handlers # {} => "overlap" \in trouble'
             /\ ~up => "missed" \in trouble'

\* What announcing a tip does, without its counters.
LEMMA AnnounceIs ==
  ASSUME Typed, NEW c, NEW kinds, Announce(c, kinds), UNCHANGED up
  PROVE  chain' = c /\ Announced /\ kinds \subseteq trouble'
<1>1. chain' = c /\ handlers' = IF up THEN handlers \cup {Handler(c)} ELSE handlers
  BY DEF Announce
<1>2. faults \in Nat
  BY DEF Typed, ProcessOk
<1> DEFINE all == kinds \cup (IF up THEN {} ELSE {"missed"})
                        \cup (IF handlers = {} THEN {} ELSE {"overlap"})
<1>3. faults' = faults + (IF "overlap" \in all THEN 1 ELSE 0) /\ trouble' = trouble \cup all
  BY DEF Announce
<1>4. kinds \subseteq all /\ (handlers # {} => "overlap" \in all) /\ (~up => "missed" \in all)
  OBVIOUS
<1> HIDE DEF all
<1>5. faults' \in Nat
  BY <1>2, <1>3
<1>6. trouble \subseteq trouble' /\ all \subseteq trouble'
  BY <1>3
<1> QED
  BY <1>1, <1>4, <1>5, <1>6 DEF Announced

\* The handler that a new tip starts is well formed.
LEMMA AnnouncedHandlers ==
  ASSUME Typed, ChainOk', Grows, Announced
  PROVE  HandlersOk'
<1>1. HandlersOk
  BY DEF Typed
<1>2. /\ Tip \in Nat /\ Tip' \in Nat /\ Tip <= Tip' /\ Tip' >= 1
      /\ chain[Tip] \in Nat /\ chain'[Tip'] \in Nat /\ chain[Tip] <= chain'[Tip']
  BY ChainFacts, ChainFactsNext, Zenon DEF Typed, Grows, ChainIsSound
<1>3. ASSUME NEW p \in handlers
      PROVE  p \in Handlers /\ p.height \in 1 .. Tip' /\ p.id <= chain'[Tip']
  <2>1. p \in Handlers /\ p.height \in 1 .. Tip /\ p.id <= chain[Tip]
    BY <1>1 DEF HandlersOk
  <2>2. p.id \in Nat
    BY <2>1 DEF Handlers
  <2> QED
    BY <1>2, <2>1, <2>2
<1>4. Handler(chain') \in Handlers /\ Handler(chain').height \in 1 .. Tip' /\ Handler(chain').id <= chain'[Tip']
  BY <1>2, HandledNext
<1>5. \A p \in handlers' : p \in handlers \/ (up /\ p = Handler(chain'))
  BY DEF Announced
<1>6. \A p \in handlers' : p \in Handlers /\ p.height \in 1 .. Tip' /\ p.id <= chain'[Tip']
  BY <1>3, <1>4, <1>5
<1>7. ~up' => handlers' = {}
  BY <1>1 DEF Announced, HandlersOk
<1> QED
  BY <1>6, <1>7 DEF HandlersOk

\* A transaction enters the mempool: nothing stored changes.
LEMMA TransactTyped ==
  ASSUME Typed, Transact
  PROVE  Typed' /\ Grows
<1>1. Tip' = Tip /\ UNCHANGED <<chain, mined>> /\ sent' = sent + 1 /\ sent < MaxTxs
  BY DEF Transact, Tip
<1>2. sent \in Nat /\ sent <= MaxTxs /\ chain[Tip] \in Nat /\ Tip \in Nat
  BY ChainFacts DEF Typed, ChainIsSound
<1>3. ChainOk'
  BY <1>1, <1>2, Constants DEF Typed, ChainOk
<1>4. Grows
  BY <1>1, <1>2 DEF Grows
<1>5. RowOk' /\ RecentOk' /\ HandlersOk' /\ ProjectionsOk'
  BY <1>3, <1>4, FrameRow, FrameRecent, FrameHandlers, FrameProjections DEF Transact, db, process
<1>6. tip' \in 0 .. Tip'
  BY <1>3, <1>4, FrameTip DEF Transact, process
<1>7. queued' \in Nat
  BY Notified DEF Typed, ProcessOk, Transact
<1>8. ProcessOk'
  BY <1>6, <1>7, Zenon DEF Typed, ProcessOk, Transact, process
<1> QED
  BY <1>3, <1>4, <1>5, <1>8 DEF Typed

\* A new block, whichever branch it is on.
LEMMA NewTipTyped ==
  ASSUME Typed, ChainOk', Grows, Announced, UNCHANGED <<sent, db, process, projections>>, queued' \in Nat
  PROVE  Typed'
<1>1. RowOk' /\ RecentOk' /\ HandlersOk' /\ ProjectionsOk'
  BY FrameRow, FrameRecent, AnnouncedHandlers, FrameProjections DEF db, process
<1>2. tip' \in 0 .. Tip'
  BY FrameTip DEF process
<1>3. ProcessOk'
  BY <1>2, Zenon DEF Typed, ProcessOk, process, Announced
<1> QED
  BY <1>1, <1>3 DEF Typed

\* A new block keeps every block and every mined transaction in its place.
LEMMA MineIs ==
  ASSUME Typed, Mine
  PROVE  /\ Tip' = Tip + 1 /\ Tip < MaxHeight
         /\ \A h \in 1 .. Tip : chain'[h] = chain[h]
         /\ chain'[Tip + 1] = chain[Tip]
         /\ \A k \in 1 .. MaxTxs : mined[k] # 0 => mined'[k] = mined[k]
         /\ ChainOk' /\ Grows /\ Announced
         /\ UNCHANGED <<sent, db, process, projections>>
<1>1. chain' = Append(chain, chain[Tip]) /\ Announced
  BY AnnounceIs DEF Mine, process
<1>2. /\ Tip \in Nat /\ Tip >= 1 /\ chain \in Seq(0 .. MaxReorgs) /\ Len(chain) = Tip
      /\ \A h \in 1 .. Tip : chain[h] \in Nat /\ chain[h] <= MaxReorgs /\ chain[h] <= chain[Tip]
  BY ChainFacts DEF Typed, ChainIsSound
<1>3. Tip < MaxHeight /\ UNCHANGED <<sent, db, process, projections>>
  BY DEF Mine
<1>4. chain[Tip] \in 0 .. MaxReorgs
  BY <1>2, Constants
<1>5. /\ chain' \in Seq(0 .. MaxReorgs) /\ Tip' = Tip + 1
      /\ \A h \in 1 .. Tip : chain'[h] = chain[h]
      /\ chain'[Tip + 1] = chain[Tip]
  BY <1>1, <1>2, <1>4, AppendProperties DEF Tip
<1>6. PICK upto \in 0 .. sent :
        mined' = [k \in 1 .. MaxTxs |-> IF k <= upto /\ mined[k] = 0 THEN Tip + 1 ELSE mined[k]]
  BY DEF Mine
<1>7. mined \in [1 .. MaxTxs -> 0 .. Tip]
  BY DEF Typed, ChainOk
<1>8. \A k \in 1 .. MaxTxs : mined[k] # 0 => mined'[k] = mined[k]
  BY <1>6
<1>9. mined' \in [1 .. MaxTxs -> 0 .. Tip']
  BY <1>2, <1>5, <1>6, <1>7
<1>10. \A g, h \in 1 .. Tip' : g <= h => chain'[g] <= chain'[h]
  <2>1. \A g, h \in 1 .. Tip : g <= h => chain[g] <= chain[h]
    BY DEF Typed, ChainOk
  <2> TAKE g, h \in 1 .. Tip'
  <2>2. CASE h = Tip + 1
    <3>1. chain'[h] = chain[Tip] /\ (g = Tip + 1 \/ (g \in 1 .. Tip /\ chain'[g] = chain[g] /\ chain[g] <= chain[Tip]))
      BY <1>2, <1>5, <2>2
    <3> QED
      BY <1>2, <1>5, <2>2, <3>1
  <2>3. CASE h # Tip + 1
    BY <1>2, <1>5, <2>1, <2>3
  <2> QED
    BY <2>2, <2>3
<1>11. ChainOk'
  BY <1>2, <1>3, <1>5, <1>9, <1>10, Constants DEF ChainOk, Typed
<1>12. Grows
  BY <1>2, <1>3, <1>5, ChainFacts DEF Grows, Typed, ChainIsSound
<1> QED
  BY <1>1, <1>3, <1>5, <1>8, <1>11, <1>12


\* A new block keeps what is stored well formed.
LEMMA MineTyped ==
  ASSUME Typed, Mine
  PROVE  Typed'
<1>1. queued \in Nat
  BY DEF Typed, ProcessOk
<1>2. Notify \/ UNCHANGED queued
  BY DEF Mine
<1>3. queued' \in Nat
  BY <1>1, <1>2, Notified
<1> QED
  BY <1>3, MineIs, NewTipTyped

\* A function over 1 .. n is a sequence of length n.
LEMMA FunctionIsSeq ==
  ASSUME NEW n \in Nat, NEW S, NEW f \in [1 .. n -> S]
  PROVE  f \in Seq(S) /\ Len(f) = n
OBVIOUS

\* What a reorganisation of `depth` blocks leaves alone, and what it is called by.
Reorganised(depth) ==
  /\ depth \in 1 .. Tip - 1 /\ Tip' = Tip + 1 /\ Tip < MaxHeight
  /\ \A h \in 1 .. Tip - depth : chain'[h] = chain[h]
  /\ \A h \in Tip - depth + 1 .. Tip + 1 : chain'[h] > chain[Tip]
  /\ \A k \in 1 .. MaxTxs : mined[k] \in 1 .. Tip - depth => mined'[k] = mined[k]
  /\ projections # {} => "straddle" \in trouble'
  /\ depth >= Confirmations => "deep" \in trouble'
  /\ depth >= Window => "long" \in trouble'
  /\ ~(Tip - depth + 1 .. Tip \subseteq DOMAIN recent) => "unseen" \in trouble'

\* A reorganisation replaces the blocks above a common one by a longer branch.
LEMMA ReorganiseIs ==
  ASSUME Typed, Reorganise
  PROVE  /\ \E depth \in 1 .. Tip - 1 : Reorganised(depth)
         /\ ChainOk' /\ Grows /\ Announced
         /\ UNCHANGED <<sent, db, process, projections>>
<1> DEFINE branch == chain[Tip] + 1
<1>1. PICK depth \in 1 .. Least(MaxDepth, Tip - 1), upto \in 0 .. sent :
        /\ Tip < MaxHeight /\ branch <= MaxReorgs
        /\ Announce([h \in 1 .. Tip + 1 |-> IF h <= Tip - depth THEN chain[h] ELSE branch],
                    (IF projections # {} THEN {"straddle"} ELSE {})
                      \cup (IF depth >= Confirmations THEN {"deep"} ELSE {})
                      \cup (IF depth >= Window THEN {"long"} ELSE {})
                      \cup (IF Tip - depth + 1 .. Tip \subseteq DOMAIN recent THEN {} ELSE {"unseen"}))
        /\ \E h \in Tip - depth + 1 .. Tip + 1 :
             mined' = [k \in 1 .. MaxTxs |->
                         IF mined[k] \in 1 .. Tip - depth THEN mined[k]
                         ELSE IF k <= upto THEN h ELSE 0]
        /\ UNCHANGED <<sent, db, process, projections>>
  BY DEF Reorganise
<1>2. /\ Tip \in Nat /\ Tip >= 1
      /\ \A h \in 1 .. Tip : chain[h] \in Nat /\ chain[h] <= MaxReorgs /\ chain[h] <= chain[Tip]
  BY ChainFacts DEF Typed, ChainIsSound
<1>3. depth \in 1 .. Tip - 1
  BY <1>2, Constants DEF Least
<1>4. branch \in Nat /\ branch <= MaxReorgs /\ branch > chain[Tip] /\ chain[Tip] \in Nat
  BY <1>1, <1>2
<1>5. /\ chain' = [h \in 1 .. Tip + 1 |-> IF h <= Tip - depth THEN chain[h] ELSE branch]
      /\ Announced
      /\ projections # {} => "straddle" \in trouble'
      /\ depth >= Confirmations => "deep" \in trouble'
      /\ depth >= Window => "long" \in trouble'
      /\ ~(Tip - depth + 1 .. Tip \subseteq DOMAIN recent) => "unseen" \in trouble'
  <2>1. UNCHANGED up
    BY <1>1 DEF process
  <2>2. Announce([h \in 1 .. Tip + 1 |-> IF h <= Tip - depth THEN chain[h] ELSE branch],
                 (IF projections # {} THEN {"straddle"} ELSE {})
                   \cup (IF depth >= Confirmations THEN {"deep"} ELSE {})
                   \cup (IF depth >= Window THEN {"long"} ELSE {})
                   \cup (IF Tip - depth + 1 .. Tip \subseteq DOMAIN recent THEN {} ELSE {"unseen"}))
    BY <1>1
  <2> HIDE DEF branch
  <2>3. /\ chain' = [h \in 1 .. Tip + 1 |-> IF h <= Tip - depth THEN chain[h] ELSE branch]
        /\ Announced
        /\ ((IF projections # {} THEN {"straddle"} ELSE {})
              \cup (IF depth >= Confirmations THEN {"deep"} ELSE {})
              \cup (IF depth >= Window THEN {"long"} ELSE {})
              \cup (IF Tip - depth + 1 .. Tip \subseteq DOMAIN recent THEN {} ELSE {"unseen"})) \subseteq trouble'
    BY <2>1, <2>2, AnnounceIs
  <2> QED
    BY <2>3
<1> HIDE DEF branch
<1>6. PICK place \in Tip - depth + 1 .. Tip + 1 :
        mined' = [k \in 1 .. MaxTxs |-> IF mined[k] \in 1 .. Tip - depth THEN mined[k]
                                        ELSE IF k <= upto THEN place ELSE 0]
  BY <1>1
<1>7. chain' \in [1 .. Tip + 1 -> 0 .. MaxReorgs]
  <2>1. \A h \in 1 .. Tip + 1 : h <= Tip - depth => chain[h] \in 0 .. MaxReorgs
    BY <1>2, <1>3, Constants
  <2>2. branch \in 0 .. MaxReorgs
    BY <1>4, Constants
  <2> QED
    BY <1>5, <2>1, <2>2
<1>8. chain' \in Seq(0 .. MaxReorgs) /\ Tip' = Tip + 1
  <2>1. Tip + 1 \in Nat
    BY <1>2
  <2> QED
    BY <1>7, <2>1, FunctionIsSeq DEF Tip
<1>9. /\ \A h \in 1 .. Tip - depth : chain'[h] = chain[h]
      /\ \A h \in Tip - depth + 1 .. Tip + 1 : chain'[h] = branch
  BY <1>2, <1>3, <1>5
<1>10. \A g, h \in 1 .. Tip' : g <= h => chain'[g] <= chain'[h]
  <2>1. \A g, h \in 1 .. Tip : g <= h => chain[g] <= chain[h]
    BY DEF Typed, ChainOk
  <2> TAKE g, h \in 1 .. Tip'
  <2>2. CASE g <= Tip - depth /\ h <= Tip - depth
    BY <1>2, <1>3, <1>8, <1>9, <2>1, <2>2
  <2>3. CASE g <= Tip - depth /\ ~(h <= Tip - depth)
    <3>1. chain'[g] = chain[g] /\ chain[g] <= chain[Tip] /\ chain[g] \in Nat /\ chain'[h] = branch
      BY <1>2, <1>3, <1>8, <1>9, <2>3
    <3> QED
      BY <1>4, <3>1
  <2>4. CASE ~(g <= Tip - depth) /\ ~(h <= Tip - depth)
    BY <1>2, <1>3, <1>4, <1>8, <1>9, <2>4
  <2> QED
    BY <1>2, <1>3, <1>8, <2>2, <2>3, <2>4
<1>11. mined' \in [1 .. MaxTxs -> 0 .. Tip']
  <2>1. place \in 0 .. Tip' /\ \A k \in 1 .. MaxTxs : mined[k] \in 1 .. Tip - depth => mined[k] \in 0 .. Tip'
    BY <1>2, <1>3, <1>8
  <2>2. 0 \in 0 .. Tip'
    BY <1>2, <1>8
  <2> QED
    BY <1>6, <2>1, <2>2
<1>12. \A k \in 1 .. MaxTxs : mined[k] \in 1 .. Tip - depth => mined'[k] = mined[k]
  BY <1>6
<1>13. ChainOk'
  <2>1. sent \in 0 .. MaxTxs /\ sent' = sent /\ Tip' \in 1 .. MaxHeight
    BY <1>1, <1>2, <1>8, Constants DEF Typed, ChainOk
  <2> QED
    BY <1>8, <1>10, <1>11, <2>1 DEF ChainOk
<1>14. Grows
  <2>1. chain'[Tip'] = branch /\ sent' = sent /\ sent \in Nat
    BY <1>1, <1>2, <1>3, <1>8, <1>9, ChainFacts DEF Typed, ChainIsSound
  <2> QED
    BY <1>2, <1>4, <1>8, <2>1 DEF Grows
<1>15. \A h \in Tip - depth + 1 .. Tip + 1 : chain'[h] > chain[Tip]
  BY <1>4, <1>9
<1>16. Reorganised(depth)
  BY <1>1, <1>3, <1>5, <1>8, <1>9, <1>12, <1>15, Zenon DEF Reorganised
<1> QED
  BY <1>1, <1>3, <1>5, <1>13, <1>14, <1>16

\* A reorganisation keeps what is stored well formed, if outdated.
LEMMA ReorganiseTyped ==
  ASSUME Typed, Reorganise
  PROVE  Typed'
<1>1. queued \in Nat
  BY DEF Typed, ProcessOk
<1>2. Notify \/ UNCHANGED queued
  BY DEF Reorganise
<1>3. queued' \in Nat
  BY <1>1, <1>2, Notified
<1> QED
  BY <1>3, ReorganiseIs, NewTipTyped


-----------------------------------------------------------------------------
(* The handlers of headers *)

\* Handler p at another await.
At(p, place, f) == [height |-> p.height, id |-> p.id, prev |-> p.prev, at |-> place, fork |-> f]

\* A handler that moves on is a handler.
LEMMA AtIsHandler ==
  ASSUME NEW p \in Handlers, NEW place \in Places, NEW f \in Nat
  PROVE  At(p, place, f) \in Handlers
BY DEF Handlers, At

\* The fields of a handler under way.
LEMMA HandlerFacts ==
  ASSUME Typed, NEW p \in handlers
  PROVE  /\ p \in Handlers /\ up
         /\ p.height \in Nat /\ p.id \in Nat /\ p.prev \in Nat /\ p.fork \in Nat
         /\ p.height >= 1 /\ p.height <= Tip /\ p.id <= chain[Tip]
<1>1. p \in Handlers /\ p.height \in 1 .. Tip /\ p.id <= chain[Tip] /\ up
  BY DEF Typed, HandlersOk, ProcessOk
<1>2. Tip \in Nat
  BY ChainFacts DEF Typed, ChainIsSound
<1> QED
  BY <1>1, <1>2 DEF Handlers

\* A handler that goes on remains one.
LEMMA AdvancedHandlers ==
  ASSUME Typed, UNCHANGED <<network, up>>, NEW p \in handlers, NEW place \in Places, NEW f \in Nat,
         Advance(p, At(p, place, f))
  PROVE  HandlersOk'
<1>1. handlers' = (handlers \ {p}) \cup {At(p, place, f)}
  BY DEF Advance
<1>2. HandlersOk /\ UNCHANGED <<chain, Tip>>
  BY DEF Typed, network, Tip
<1>3. At(p, place, f) \in Handlers
  BY AtIsHandler, HandlerFacts
<1>4. At(p, place, f).height \in 1 .. Tip /\ At(p, place, f).id <= chain[Tip]
  BY <1>2 DEF At, HandlersOk
<1>5. \A q \in handlers' : q \in Handlers /\ q.height \in 1 .. Tip /\ q.id <= chain[Tip]
  BY <1>1, <1>2, <1>3, <1>4 DEF HandlersOk
<1>6. up' /\ handlers' \subseteq Handlers
  BY <1>5, HandlerFacts
<1> QED
  BY <1>2, <1>5, <1>6 DEF HandlersOk

\* What a comparison leaves the handler with: the lowest stored block that differs.
Found(p, f) ==
  /\ f \in Nat /\ (f # None => f \in DOMAIN recent /\ f >= Bottom(p))
  /\ "cut" \notin trouble' =>
       \A h \in DOMAIN recent :
         h >= Bottom(p) /\ h <= p.height /\ (f = None \/ h < f)
           => recent[h].id = collectRecentChain(p, Bottom(p))[h]

\* The lowest height compared is a block, and the tip's parent is among those compared.
LEMMA BottomIs ==
  ASSUME Typed, NEW p \in handlers
  PROVE  /\ Bottom(p) \in Nat /\ Bottom(p) >= 1 /\ Bottom(p) <= p.height
         /\ Bottom(p) >= p.height - Window + 1
         /\ p.height > 1 => Bottom(p) <= p.height - 1
         /\ \A h \in Nat : h >= 1 /\ h >= p.height - Window + 1 => h >= Bottom(p)
BY HandlerFacts, Constants DEF Bottom, Greatest

\* Comparing finds the lowest stored block that differs, or none.
LEMMA CompareIs ==
  ASSUME Typed, NEW p \in handlers, compare(p)
  PROVE  /\ \E f : Found(p, f) /\ Advance(p, At(p, IF f = None THEN "push" ELSE "reorg", f))
         /\ p.at = "compare" /\ trouble \subseteq trouble' /\ faults' \in Nat
         /\ UNCHANGED <<db, process, queued, network, projections>>
<1>1. PICK lowest \in Bottom(p) .. p.height :
        /\ IF lowest = Bottom(p) THEN UNCHANGED <<faults, trouble>> ELSE Fault({"cut"})
        /\ LET f == findReorgPoint(collectRecentChain(p, lowest))
           IN  Advance(p, [p EXCEPT !.at = IF f = None THEN "push" ELSE "reorg", !.fork = f])
  BY DEF compare
<1> DEFINE window == collectRecentChain(p, lowest)
           f == findReorgPoint(window)
           differ == {h \in DOMAIN window \cap DOMAIN recent : recent[h].id # window[h]}
<1>2. Advance(p, At(p, IF f = None THEN "push" ELSE "reorg", f))
  <2>1. PICK place : place = IF f = None THEN "push" ELSE "reorg"
    OBVIOUS
  <2>2. PICK x : x = [p EXCEPT !.at = place]
    OBVIOUS
  <2>3. PICK q : q = [x EXCEPT !.fork = f]
    OBVIOUS
  <2>4. Advance(p, q)
    BY <1>1, <2>1, <2>2, <2>3
  <2> HIDE DEF f
  <2>5. q = At(p, place, f)
    <3>1. p \in Handlers
      BY HandlerFacts
    <3>2. x = [height |-> p.height, id |-> p.id, prev |-> p.prev, at |-> place, fork |-> p.fork]
      BY <2>2, <3>1 DEF Handlers
    <3> QED
      BY <2>3, <3>2 DEF At
  <2> QED
    BY <2>1, <2>4, <2>5
<1>3. DOMAIN window = lowest .. p.height
  BY DEF collectRecentChain
<1>4. /\ lowest \in Nat /\ lowest >= Bottom(p) /\ p.height \in Nat /\ Bottom(p) \in Nat
      /\ Bottom(p) >= 1
  BY BottomIs, HandlerFacts
<1>5. differ \in SUBSET Nat /\ 0 \notin differ
  BY <1>3, <1>4
<1>6. f = IF differ = {} THEN None ELSE Min(differ)
  BY DEF findReorgPoint
<1>7. f # None => f \in differ /\ \A h \in differ : f <= h
  <2> HIDE DEF differ, f
  <2> QED
    BY <1>5, <1>6, MinOf
<1>8. f \in Nat /\ (f # None => f \in DOMAIN recent /\ f >= Bottom(p))
  <2>1. \A h \in differ : h \in Nat /\ h \in DOMAIN recent /\ h >= lowest
    BY <1>3, <1>4
  <2> HIDE DEF differ, f
  <2> QED
    BY <1>4, <1>7, <2>1 DEF None
<1>9. ASSUME "cut" \notin trouble', NEW h \in DOMAIN recent,
             h >= Bottom(p), h <= p.height, f = None \/ h < f
      PROVE  recent[h].id = collectRecentChain(p, Bottom(p))[h]
  <2>1. lowest = Bottom(p)
    BY <1>1, <1>9 DEF Fault
  <2>2. h \in Nat
    BY DEF Typed, RecentOk
  <2>3. h \notin differ
    <3>1. f = None => differ = {}
      <4>1. differ # {} => Min(differ) \in differ
        <5> HIDE DEF differ
        <5> QED
          BY <1>5, MinOf
      <4> HIDE DEF differ, f
      <4> QED
        BY <1>5, <1>6, <4>1 DEF None
    <3>2. f # None /\ h < f => h \notin differ
      <4> HIDE DEF differ, f
      <4> QED
        BY <1>7, <1>8, <2>2
    <3> HIDE DEF differ, f
    <3> QED
      BY <1>9, <3>1, <3>2
  <2>4. h \in DOMAIN window
    BY <1>3, <1>4, <1>9, <2>1, <2>2
  <2>5. recent[h].id = window[h]
    BY <2>3, <2>4
  <2> QED
    BY <2>1, <2>5
<1>10. Found(p, f)
  <2> HIDE DEF f
  <2> QED
    BY <1>8, <1>9 DEF Found
<1>11. trouble \subseteq trouble' /\ faults' \in Nat
  <2>1. faults \in Nat
    BY DEF Typed, ProcessOk
  <2> QED
    BY <1>1, <2>1 DEF Fault
<1>12. p.at = "compare" /\ UNCHANGED <<db, process, queued, network, projections>>
  BY DEF compare, Keeping, process
<1> QED
  BY <1>2, <1>10, <1>11, <1>12

\* Comparing changes the handler only.
LEMMA CompareTyped ==
  ASSUME Typed, NEW p \in handlers, compare(p)
  PROVE  Typed'
<1>1. PICK f : Found(p, f) /\ Advance(p, At(p, IF f = None THEN "push" ELSE "reorg", f))
  BY CompareIs
<1>2. faults' \in Nat /\ UNCHANGED <<db, process, queued, network, projections>>
  BY CompareIs
<1>3. ChainOk' /\ Grows
  BY <1>2, Still
<1>4. HandlersOk'
  <2>1. (IF f = None THEN "push" ELSE "reorg") \in Places /\ f \in Nat
    BY <1>1 DEF Found, Places
  <2> QED
    BY <1>1, <1>2, <2>1, AdvancedHandlers DEF process
<1>5. RowOk' /\ RecentOk' /\ ProjectionsOk'
  BY <1>2, <1>3, FrameRow, FrameRecent, FrameProjections DEF db
<1>6. ProcessOk'
  BY <1>2, <1>3, FrameTip, Zenon DEF process, Typed, ProcessOk
<1> QED
  BY <1>3, <1>4, <1>5, <1>6 DEF Typed


\* What is forgotten of a row at a fork.
Forgets(f) ==
  /\ row' \in Row
  /\ IF row.spentAt >= f THEN ~row'.spent /\ row'.spentAt = None
     ELSE row'.spent = row.spent /\ row'.spentAt = row.spentAt
  /\ IF row.height >= f THEN row'.utxo = None /\ row'.height = None
     ELSE row'.utxo = row.utxo /\ row'.height = row.height

\* handleReorg's two updates of the row, taken together.
LEMMA RowForgets ==
  ASSUME row \in Row, NEW f \in Nat, row' = Unplace(f, Unspend(f, row))
  PROVE  Forgets(f)
<1>1. PICK a : a = Unspend(f, row)
  OBVIOUS
<1>2. row' = Unplace(f, a)
  BY <1>1
<1>3. a \in Row /\ a.utxo = row.utxo /\ a.height = row.height
  <2>1. CASE row.spentAt >= f
    <3>1. PICK x : x = [row EXCEPT !.spent = FALSE]
      OBVIOUS
    <3>2. a = [x EXCEPT !.spentAt = None]
      BY <1>1, <2>1, <3>1 DEF Unspend
    <3>3. x = [utxo |-> row.utxo, height |-> row.height, spent |-> FALSE, spentAt |-> row.spentAt]
      BY <3>1 DEF Row
    <3>4. a = [utxo |-> row.utxo, height |-> row.height, spent |-> FALSE, spentAt |-> 0]
      BY <3>2, <3>3 DEF None
    <3> QED
      BY <3>4 DEF Row
  <2>2. CASE ~(row.spentAt >= f)
    BY <1>1, <2>2 DEF Unspend
  <2> QED
    BY <2>1, <2>2
<1>4. IF row.spentAt >= f THEN ~a.spent /\ a.spentAt = None ELSE a.spent = row.spent /\ a.spentAt = row.spentAt
  <2>1. CASE row.spentAt >= f
    <3>1. PICK x : x = [row EXCEPT !.spent = FALSE]
      OBVIOUS
    <3>2. a = [x EXCEPT !.spentAt = None]
      BY <1>1, <2>1, <3>1 DEF Unspend
    <3>3. x = [utxo |-> row.utxo, height |-> row.height, spent |-> FALSE, spentAt |-> row.spentAt]
      BY <3>1 DEF Row
    <3>4. a = [utxo |-> row.utxo, height |-> row.height, spent |-> FALSE, spentAt |-> 0]
      BY <3>2, <3>3 DEF None
    <3> QED
      BY <2>1, <3>4 DEF None
  <2>2. CASE ~(row.spentAt >= f)
    BY <1>1, <2>2 DEF Unspend
  <2> QED
    BY <2>1, <2>2
<1>5. row' \in Row /\ row'.spent = a.spent /\ row'.spentAt = a.spentAt
      /\ IF a.height >= f THEN row'.utxo = None /\ row'.height = None
         ELSE row'.utxo = a.utxo /\ row'.height = a.height
  <2>1. CASE a.height >= f
    <3>1. PICK x : x = [a EXCEPT !.utxo = None]
      OBVIOUS
    <3>2. row' = [x EXCEPT !.height = None]
      BY <1>2, <2>1, <3>1 DEF Unplace
    <3>3. x = [utxo |-> 0, height |-> a.height, spent |-> a.spent, spentAt |-> a.spentAt]
      BY <1>3, <3>1 DEF Row, None
    <3>4. row' = [utxo |-> 0, height |-> 0, spent |-> a.spent, spentAt |-> a.spentAt]
      BY <3>2, <3>3 DEF None
    <3>5. a.spent \in BOOLEAN /\ a.spentAt \in Nat
      BY <1>3 DEF Row
    <3>6. row' \in Row
      BY <3>4, <3>5 DEF Row
    <3> QED
      BY <2>1, <3>4, <3>6 DEF None
  <2>2. CASE ~(a.height >= f)
    BY <1>2, <1>3, <2>2 DEF Unplace
  <2> QED
    BY <2>1, <2>2
<1> QED
  BY <1>3, <1>4, <1>5 DEF Forgets

\* What handleReorg does to the row, the stored blocks and its handler.
LEMMA ReorgIs ==
  ASSUME Typed, NEW p \in handlers, handleReorg(p)
  PROVE  /\ p.at = "reorg" /\ Forgets(p.fork)
         /\ recent' = Forget(p.fork)
         /\ Advance(p, At(p, "push", None))
         /\ queued' \in Nat
         /\ UNCHANGED <<cursor, safe, process, faults, trouble, network, projections>>
<1>1. p \in Handlers /\ p.fork \in Nat /\ row \in Row /\ queued \in Nat
  BY HandlerFacts DEF Typed, RowOk, ProcessOk
<1>2. Forgets(p.fork)
  BY <1>1, RowForgets DEF handleReorg
<1>3. PICK x : x = [p EXCEPT !.at = "push"]
  OBVIOUS
<1>4. PICK q : q = [x EXCEPT !.fork = None]
  OBVIOUS
<1>5. Advance(p, q)
  BY <1>3, <1>4 DEF handleReorg
<1>6. x = [height |-> p.height, id |-> p.id, prev |-> p.prev, at |-> "push", fork |-> p.fork]
  BY <1>1, <1>3 DEF Handlers
<1>7. q = At(p, "push", None)
  BY <1>4, <1>6 DEF At
<1>8. queued' \in Nat
  BY <1>1, Scheduled DEF handleReorg
<1> QED
  BY <1>2, <1>5, <1>7, <1>8 DEF handleReorg, Keeping, process

\* Forgetting keeps what is stored well formed.
LEMMA ReorgTyped ==
  ASSUME Typed, NEW p \in handlers, handleReorg(p)
  PROVE  Typed'
<1>1. /\ Forgets(p.fork) /\ recent' = Forget(p.fork) /\ Advance(p, At(p, "push", None))
      /\ queued' \in Nat
      /\ UNCHANGED <<cursor, safe, process, faults, trouble, network, projections>>
  BY ReorgIs
<1>2. ChainOk' /\ Grows
  BY <1>1, Still
<1>3. UNCHANGED <<chain, Tip, sent>>
  BY <1>1 DEF network, Tip
<1>4. HandlersOk'
  <2>1. "push" \in Places /\ None \in Nat
    BY DEF Places, None
  <2> QED
    BY <1>1, <2>1, AdvancedHandlers DEF process
<1>5. RowOk'
  <2>1. row.utxo <= sent /\ row.height <= Tip /\ row.spentAt <= Tip /\ (row.height # None => row.utxo # None)
    BY DEF Typed, RowOk
  <2>2. sent \in Nat /\ Tip \in Nat
    BY ChainFacts DEF Typed, ChainIsSound
  <2>3. row' \in Row /\ row'.utxo <= sent /\ row'.height <= Tip /\ row'.spentAt <= Tip
        /\ (row'.height # None => row'.utxo # None)
    BY <1>1, <2>1, <2>2 DEF Forgets, None
  <2>4. cursor \in [height : 0 .. Tip, id : Nat] /\ safe \in 0 .. Tip
    BY DEF Typed, RowOk
  <2>5. cursor' = cursor /\ safe' = safe
    BY <1>1
  <2> HIDE <1>1
  <2> QED
    BY <1>3, <2>3, <2>4, <2>5 DEF RowOk
<1>6. RecentOk'
  <2>1. /\ recent \in [DOMAIN recent -> Stored] /\ DOMAIN recent \subseteq 1 .. Tip
        /\ \A h \in DOMAIN recent : recent[h].id <= chain[Tip]
    BY DEF Typed, RecentOk
  <2>2. PICK top \in 0 .. MaxHeight : DOMAIN recent \subseteq top - Keep + 1 .. top
    BY DEF Typed, RecentOk
  <2>3. recent' = [h \in {g \in DOMAIN recent : g < p.fork} |-> recent[h]]
    BY <1>1 DEF Forget
  <2>4. DOMAIN recent' \subseteq DOMAIN recent /\ \A h \in DOMAIN recent' : recent'[h] = recent[h]
    BY <2>3
  <2>5. recent' \in [DOMAIN recent' -> Stored]
    BY <2>1, <2>3
  <2>6. \A h \in DOMAIN recent' : recent'[h].id <= chain[Tip]
    BY <2>1, <2>4
  <2>7. DOMAIN recent' \subseteq 1 .. Tip /\ DOMAIN recent' \subseteq top - Keep + 1 .. top
    BY <2>1, <2>2, <2>4
  <2> QED
    BY <1>3, <2>5, <2>6, <2>7 DEF RecentOk
<1>7. ProjectionsOk'
  BY <1>1, <1>2, FrameProjections DEF Forgets
<1>8. ProcessOk'
  BY <1>1, <1>2, FrameTip, Zenon DEF process, Typed, ProcessOk
<1> QED
  BY <1>2, <1>4, <1>5, <1>6, <1>7, <1>8 DEF Typed


\* Pushing a block adds or replaces one, and may drop the lowest.
Pushed(p) ==
  /\ DOMAIN recent' \subseteq DOMAIN recent \cup {p.height}
  /\ \A h \in DOMAIN recent' :
       recent'[h] = IF h = p.height THEN [id |-> p.id, prev |-> p.prev] ELSE recent[h]
  /\ recent' \in [DOMAIN recent' -> Stored]
  /\ \E top \in 0 .. MaxHeight : DOMAIN recent' \subseteq top - Keep + 1 .. top

\* Storing a block replaces the one at its height and trims the oldest.
LEMMA PushIs ==
  ASSUME Typed, NEW p \in handlers, pushRecentBlock(p)
  PROVE  /\ p.at = "push" /\ Pushed(p) /\ Advance(p, At(p, "cursor", p.fork))
         /\ UNCHANGED <<row, cursor, safe, process, queued, faults, trouble, network, projections>>
<1>1. PICK stored : stored = upsertBlock(p)
  OBVIOUS
<1>2. recent' = trimRecentBlocks(stored)
  BY <1>1 DEF pushRecentBlock
<1>3. /\ stored = [h \in DOMAIN recent \cup {p.height} |->
                     IF h = p.height THEN [id |-> p.id, prev |-> p.prev] ELSE recent[h]]
      /\ DOMAIN stored = DOMAIN recent \cup {p.height}
  BY <1>1 DEF upsertBlock
<1>4. [id |-> p.id, prev |-> p.prev] \in Stored
  BY HandlerFacts DEF Stored
<1>5. recent \in [DOMAIN recent -> Stored] /\ DOMAIN recent \subseteq 1 .. Tip
  BY DEF Typed, RecentOk
<1>6. Tip \in Nat /\ Tip <= MaxHeight /\ p.height \in 1 .. Tip
  BY ChainFacts DEF Typed, ChainIsSound, HandlersOk
<1>7. DOMAIN stored \subseteq 1 .. Tip /\ DOMAIN stored # {}
  BY <1>3, <1>5, <1>6
<1>8. Max(DOMAIN stored) \in DOMAIN stored /\ \A h \in DOMAIN stored : h <= Max(DOMAIN stored)
  BY <1>6, <1>7, MaxOf
<1>9. PICK top : top = Max(DOMAIN stored)
  OBVIOUS
<1>10. top \in 0 .. MaxHeight
  BY <1>6, <1>7, <1>8, <1>9, Constants
<1>11. recent' = [h \in {g \in DOMAIN stored : g > top - Keep} |-> stored[h]]
  BY <1>2, <1>9 DEF trimRecentBlocks
<1>12. DOMAIN recent' = {g \in DOMAIN stored : g > top - Keep} /\ \A h \in DOMAIN recent' : recent'[h] = stored[h]
  BY <1>11
<1>13. DOMAIN recent' \subseteq top - Keep + 1 .. top
  BY <1>6, <1>7, <1>8, <1>9, <1>10, <1>12, Constants
<1>14. \A h \in DOMAIN recent' :
         recent'[h] = IF h = p.height THEN [id |-> p.id, prev |-> p.prev] ELSE recent[h]
  BY <1>3, <1>12
<1>15. \A h \in DOMAIN recent' : recent'[h] \in Stored
  BY <1>3, <1>4, <1>5, <1>12, <1>14
<1>16. recent' \in [DOMAIN recent' -> Stored]
  BY <1>11, <1>15
<1>17. Pushed(p)
  BY <1>3, <1>10, <1>12, <1>13, <1>14, <1>16, Zenon DEF Pushed
<1>18. PICK x : x = [p EXCEPT !.at = "cursor"]
  OBVIOUS
<1>19. p \in Handlers
  BY HandlerFacts
<1>20. x = At(p, "cursor", p.fork)
  BY <1>18, <1>19 DEF Handlers, At
<1>21. Advance(p, At(p, "cursor", p.fork))
  BY <1>18, <1>20 DEF pushRecentBlock
<1> QED
  BY <1>17, <1>21 DEF pushRecentBlock, Keeping, process

\* Storing a block keeps the stored blocks few.
LEMMA PushTyped ==
  ASSUME Typed, NEW p \in handlers, pushRecentBlock(p)
  PROVE  Typed'
<1>1. /\ Pushed(p) /\ Advance(p, At(p, "cursor", p.fork))
      /\ UNCHANGED <<row, cursor, safe, process, queued, faults, trouble, network, projections>>
  BY PushIs
<1>2. ChainOk' /\ Grows
  BY <1>1, Still
<1>3. UNCHANGED <<chain, Tip>>
  BY <1>1 DEF network, Tip
<1>4. HandlersOk'
  <2>1. "cursor" \in Places /\ p.fork \in Nat
    BY HandlerFacts DEF Places
  <2> QED
    BY <1>1, <2>1, AdvancedHandlers DEF process
<1>5. RecentOk'
  <2>1. DOMAIN recent \subseteq 1 .. Tip /\ \A h \in DOMAIN recent : recent[h].id <= chain[Tip]
    BY DEF Typed, RecentOk
  <2>2. p.height \in 1 .. Tip /\ p.id <= chain[Tip]
    BY DEF Typed, HandlersOk
  <2>3. DOMAIN recent' \subseteq 1 .. Tip
    BY <1>1, <2>1, <2>2 DEF Pushed
  <2>4. ASSUME NEW h \in DOMAIN recent'
        PROVE  recent'[h].id <= chain[Tip]
    <3>1. CASE h = p.height
      BY <1>1, <2>2, <3>1 DEF Pushed
    <3>2. CASE h # p.height
      BY <1>1, <2>1, <3>2 DEF Pushed
    <3> QED
      BY <3>1, <3>2
  <2>5. /\ recent' \in [DOMAIN recent' -> Stored]
        /\ \E top \in 0 .. MaxHeight : DOMAIN recent' \subseteq top - Keep + 1 .. top
    BY <1>1 DEF Pushed
  <2> HIDE <1>1
  <2> QED
    BY <1>3, <2>3, <2>4, <2>5 DEF RecentOk
<1>6. RowOk' /\ ProjectionsOk'
  BY <1>1, <1>2, FrameRow, FrameProjections
<1>7. ProcessOk'
  BY <1>1, <1>2, FrameTip, Zenon DEF process, Typed, ProcessOk
<1> QED
  BY <1>2, <1>4, <1>5, <1>6, <1>7 DEF Typed

\* The cursor is set to a block of the chain's heights.
LEMMA CursorTyped ==
  ASSUME Typed, NEW p \in handlers, updateCursor(p)
  PROVE  Typed' /\ Advance(p, At(p, "safe", p.fork))
<1>1. UNCHANGED <<row, safe, recent, process, queued, faults, trouble, network, projections>>
  BY DEF updateCursor, Keeping, process
<1>2. Advance(p, At(p, "safe", p.fork))
  <2>1. PICK x : x = [p EXCEPT !.at = "safe"]
    OBVIOUS
  <2>2. p \in Handlers
    BY HandlerFacts
  <2>3. x = At(p, "safe", p.fork)
    BY <2>1, <2>2 DEF Handlers, At
  <2> QED
    BY <2>1, <2>3 DEF updateCursor
<1>3. ChainOk' /\ Grows
  BY <1>1, Still
<1>4. HandlersOk'
  <2>1. "safe" \in Places /\ p.fork \in Nat
    BY HandlerFacts DEF Places
  <2> QED
    BY <1>1, <1>2, <2>1, AdvancedHandlers DEF process
<1>5. RowOk'
  <2>1. cursor' = [height |-> p.height, id |-> p.id] /\ p.height \in 0 .. Tip /\ p.id \in Nat
    BY HandlerFacts, ChainFacts DEF updateCursor, Typed, ChainIsSound
  <2>2. cursor' \in [height : 0 .. Tip, id : Nat]
    BY <2>1
  <2>3. UNCHANGED <<row, safe, sent, Tip>>
    BY <1>1 DEF network, Tip
  <2> QED
    BY <2>2, <2>3 DEF Typed, RowOk
<1>6. RecentOk' /\ ProjectionsOk'
  BY <1>1, <1>3, FrameRecent, FrameProjections
<1>7. ProcessOk'
  BY <1>1, <1>3, FrameTip, Zenon DEF process, Typed, ProcessOk
<1> QED
  BY <1>2, <1>3, <1>4, <1>5, <1>6, <1>7 DEF Typed

\* The safe height and the process's tip stay within the chain.
LEMMA SafeTyped ==
  ASSUME Typed, NEW p \in handlers, advanceSafe(p)
  PROVE  Typed'
<1>1. UNCHANGED <<row, cursor, recent, up, subscribed, queued, faults, trouble, network, projections>>
  BY DEF advanceSafe, Keeping
<1>2. ChainOk' /\ Grows
  BY <1>1, Still
<1>3. UNCHANGED <<sent, Tip>>
  BY <1>1 DEF network, Tip
<1>4. HandlersOk'
  BY <1>1, <1>2, FrameHandlers DEF advanceSafe
<1>5. RowOk'
  <2>1. safe \in 0 .. Tip /\ p.height \in Nat /\ p.height <= Tip /\ Tip \in Nat
    BY HandlerFacts, ChainFacts DEF Typed, ChainIsSound, RowOk
  <2>2. safe' \in 0 .. Tip
    BY <2>1, Constants DEF advanceSafe, SafeAfter, Greatest
  <2> QED
    BY <1>1, <1>3, <2>2 DEF Typed, RowOk
<1>6. RecentOk' /\ ProjectionsOk'
  BY <1>1, <1>2, FrameRecent, FrameProjections
<1>7. ProcessOk'
  <2>1. tip' = p.height /\ p.height \in 0 .. Tip
    BY HandlerFacts, ChainFacts DEF advanceSafe, Typed, ChainIsSound
  <2> QED
    BY <1>1, <1>3, <2>1, Zenon DEF Typed, ProcessOk
<1> QED
  BY <1>2, <1>4, <1>5, <1>6, <1>7 DEF Typed


-----------------------------------------------------------------------------
(* Projections *)

\* The fields of a projection under way.
LEMMA ProjectionFacts ==
  ASSUME Typed, NEW p \in projections
  PROVE  /\ p \in Projections /\ p.live \in Nat /\ p.height \in Nat
         /\ p.history \in Seq(Nat) /\ Len(p.history) \in Nat /\ DOMAIN p.history = 1 .. Len(p.history)
         /\ \A k \in 1 .. Len(p.history) : p.history[k] \in Nat /\ p.history[k] <= Tip
         /\ row.utxo <= p.live /\ p.live <= sent /\ p.height <= Tip /\ Len(p.history) <= sent
         /\ p.height # None => p.live # None
<1>1. p \in Projections
  BY DEF Typed, ProjectionsOk
<1>2. /\ p.live \in Nat /\ p.height \in Nat
      /\ p.history \in Seq(Nat) /\ Len(p.history) \in Nat /\ DOMAIN p.history = 1 .. Len(p.history)
  BY <1>1 DEF Projections
<1>3. \A k \in 1 .. Len(p.history) : p.history[k] \in Nat
  BY <1>2, ElementOfSeq
<1>4. /\ row.utxo <= p.live /\ p.live <= sent /\ p.height <= Tip /\ Len(p.history) <= sent
      /\ p.height # None => p.live # None
      /\ \A k \in 1 .. Len(p.history) : p.history[k] <= Tip
  BY DEF Typed, ProjectionsOk
<1> QED
  BY <1>1, <1>2, <1>3, <1>4

\* The transactions' heights, as the server lists them.
LEMMA HistoryIs ==
  ASSUME Typed, NEW f, f = [k \in 1 .. sent |-> mined[k]]
  PROVE  f \in Seq(Nat) /\ Len(f) = sent /\ \A k \in 1 .. sent : f[k] = mined[k] /\ f[k] <= Tip
<1>1. sent \in Nat /\ sent <= MaxTxs /\ \A k \in 1 .. MaxTxs : mined[k] \in Nat /\ mined[k] <= Tip
  BY ChainFacts DEF Typed, ChainIsSound
<1>2. \A k \in 1 .. sent : mined[k] \in Nat /\ mined[k] <= Tip
  BY <1>1, Constants
<1>3. f \in [1 .. sent -> Nat]
  BY <1>2
<1> QED
  BY <1>1, <1>2, <1>3, FunctionIsSeq

\* A projection that has just listed the covenant's UTXO.
Listed == [at |-> "listed", live |-> sent, height |-> IF sent = 0 THEN 0 ELSE mined[sent], history |-> <<>>]

\* The first answer: the live UTXO and its height.
LEMMA ListIs ==
  ASSUME Typed, listUnspent
  PROVE  /\ projections' = {Listed} /\ Listed \in Projections
         /\ Listed.live = sent /\ Listed.history = <<>> /\ Listed.height <= Tip
         /\ Listed.height # None => sent \in 1 .. MaxTxs /\ Listed.height = mined[sent]
         /\ queued' \in Nat
         /\ UNCHANGED <<network, db, process, handlers, faults, trouble>>
<1>1. projections = {} /\ projections' = projections \cup {Listed}
  BY DEF listUnspent, MayStart, Listed
<1>2. sent \in Nat /\ sent <= MaxTxs /\ Tip \in Nat /\ \A k \in 1 .. MaxTxs : mined[k] \in Nat /\ mined[k] <= Tip
  BY ChainFacts DEF Typed, ChainIsSound
<1>3. PICK height : height = IF sent = 0 THEN 0 ELSE mined[sent]
  OBVIOUS
<1>4. height \in Nat /\ height <= Tip /\ (height # 0 => sent \in 1 .. MaxTxs /\ height = mined[sent])
  <2>1. CASE sent = 0
    BY <1>2, <1>3, <2>1
  <2>2. CASE sent # 0
    <3>1. sent \in 1 .. MaxTxs
      BY <1>2, <2>2, Constants
    <3> QED
      BY <1>2, <1>3, <2>2, <3>1
  <2> QED
    BY <2>1, <2>2
<1>5. <<>> \in Seq(Nat)
  BY EmptySeq
<1>6. PICK none : none = <<>> /\ none \in Seq(Nat)
  BY <1>5
<1>7. Listed = [at |-> "listed", live |-> sent, height |-> height, history |-> none]
  BY <1>3, <1>6, Zenon DEF Listed
<1>8. [at |-> "listed", live |-> sent, height |-> height, history |-> none] \in Projections
  BY <1>2, <1>4, <1>6, SMT DEF Projections
<1>9. Listed.live = sent /\ Listed.history = none /\ Listed.height = height
  BY <1>7
<1>10. queued' \in Nat
  BY DEF listUnspent, Typed, ProcessOk
<1> QED
  BY <1>1, <1>4, <1>6, <1>7, <1>8, <1>9, <1>10 DEF listUnspent, None

\* A projection that starts is no older than the row.
LEMMA ListTyped ==
  ASSUME Typed, listUnspent
  PROVE  Typed'
<1>1. /\ projections' = {Listed} /\ Listed \in Projections
      /\ Listed.live = sent /\ Listed.history = <<>> /\ Listed.height <= Tip
      /\ Listed.height # None => sent \in 1 .. MaxTxs
      /\ queued' \in Nat
      /\ UNCHANGED <<network, db, process, handlers, faults, trouble>>
  BY ListIs
<1>2. ChainOk' /\ Grows
  BY <1>1, Still
<1>3. RowOk' /\ RecentOk' /\ HandlersOk'
  BY <1>1, <1>2, FrameRow, FrameRecent, FrameHandlers DEF db, process
<1>4. ProjectionsOk'
  <2>1. UNCHANGED <<row, sent, Tip>>
    BY <1>1 DEF network, Tip, db
  <2>2. row.utxo <= sent /\ sent \in Nat
    BY ChainFacts DEF Typed, RowOk, ChainIsSound
  <2>3. Len(Listed.history) = 0 /\ Len(Listed.history) <= sent
    BY <1>1, <2>2, EmptySeq
  <2>4. \A k \in 1 .. Len(Listed.history) : Listed.history[k] <= Tip
    BY <2>3
  <2>5. Listed.height # None => Listed.live # None
    BY <1>1 DEF None
  <2>6. row.utxo <= Listed.live /\ Listed.live <= sent /\ Listed.height <= Tip
    BY <1>1, <2>2
  <2>7. projections' = {Listed} /\ Listed \in Projections
    BY <1>1
  <2> HIDE <1>1
  <2> QED
    BY <2>1, <2>3, <2>4, <2>5, <2>6, <2>7, Zenon DEF ProjectionsOk
<1>5. ProcessOk'
  BY <1>1, <1>2, FrameTip, Zenon DEF process, Typed, ProcessOk
<1> QED
  BY <1>2, <1>3, <1>4, <1>5 DEF Typed

\* The same projection when it has read the history.
Read(p) == [at |-> "read", live |-> p.live, height |-> p.height, history |-> [k \in 1 .. sent |-> mined[k]]]

\* The second answer: the heights of the transactions so far.
LEMMA HistoryStepIs ==
  ASSUME Typed, NEW p \in projections, getHistory(p)
  PROVE  /\ projections' = {Read(p)} /\ Read(p) \in Projections
         /\ Read(p).live = p.live /\ Read(p).height = p.height /\ Len(Read(p).history) = sent
         /\ \A k \in 1 .. sent : Read(p).history[k] = mined[k] /\ Read(p).history[k] <= Tip
         /\ UNCHANGED <<network, db, process, handlers, queued, faults, trouble>>
<1>1. p \in Projections
  BY ProjectionFacts
<1>2. PICK f : f = [k \in 1 .. sent |-> mined[k]]
  OBVIOUS
<1>3. f \in Seq(Nat) /\ Len(f) = sent /\ \A k \in 1 .. sent : f[k] = mined[k] /\ f[k] <= Tip
  BY <1>2, HistoryIs
<1>4. PICK x : x = [p EXCEPT !.at = "read"]
  OBVIOUS
<1>5. PICK q : q = [x EXCEPT !.history = f]
  OBVIOUS
<1>6. projections' = (projections \ {p}) \cup {q}
  BY <1>2, <1>4, <1>5 DEF getHistory
<1>7. x = [at |-> "read", live |-> p.live, height |-> p.height, history |-> p.history]
  BY <1>1, <1>4 DEF Projections
<1>8. q = [at |-> "read", live |-> p.live, height |-> p.height, history |-> f]
  BY <1>5, <1>7
<1>9. q = Read(p)
  BY <1>2, <1>8 DEF Read
<1>10. projections = {p}
  BY DEF Typed, ProjectionsOk
<1>11. projections' = {q}
  BY <1>6, <1>10
<1>12. q \in Projections
  BY <1>1, <1>3, <1>8 DEF Projections
<1>13. q.live = p.live /\ q.height = p.height /\ q.history = f
  BY <1>8
<1> QED
  BY <1>3, <1>9, <1>11, <1>12, <1>13 DEF getHistory

\* The history a projection has read is within the chain.
LEMMA HistoryTyped ==
  ASSUME Typed, NEW p \in projections, getHistory(p)
  PROVE  Typed'
<1>1. /\ projections' = {Read(p)} /\ Read(p) \in Projections
      /\ Read(p).live = p.live /\ Read(p).height = p.height /\ Len(Read(p).history) = sent
      /\ \A k \in 1 .. sent : Read(p).history[k] = mined[k] /\ Read(p).history[k] <= Tip
      /\ UNCHANGED <<network, db, process, handlers, queued, faults, trouble>>
  BY HistoryStepIs
<1>2. ChainOk' /\ Grows
  BY <1>1, Still
<1>3. RowOk' /\ RecentOk' /\ HandlersOk'
  BY <1>1, <1>2, FrameRow, FrameRecent, FrameHandlers DEF db, process
<1>4. ProjectionsOk'
  <2>1. UNCHANGED <<row, sent, Tip>>
    BY <1>1 DEF network, Tip, db
  <2>2. row.utxo <= p.live /\ p.live <= sent /\ p.height <= Tip /\ (p.height # None => p.live # None)
    BY ProjectionFacts
  <2>3. sent \in Nat
    BY ChainFacts DEF Typed, ChainIsSound
  <2>4. /\ row.utxo <= Read(p).live /\ Read(p).live <= sent /\ Read(p).height <= Tip
        /\ Read(p).height # None => Read(p).live # None
        /\ Len(Read(p).history) <= sent
        /\ \A k \in 1 .. Len(Read(p).history) : Read(p).history[k] <= Tip
    BY <1>1, <2>2, <2>3
  <2>5. projections' = {Read(p)} /\ Read(p) \in Projections
    BY <1>1
  <2> HIDE <1>1
  <2> QED
    BY <2>1, <2>4, <2>5, Zenon DEF ProjectionsOk
<1>5. ProcessOk'
  BY <1>1, <1>2, FrameTip, Zenon DEF process, Typed, ProcessOk
<1> QED
  BY <1>2, <1>3, <1>4, <1>5 DEF Typed

\* What a projection leaves of the row: as it was, with the live UTXO, or spent.
Projected(p) ==
  \/ row' = row
  \/ /\ p.live # None /\ p.height > 0 /\ tip - p.height + 1 >= Confirmations
     /\ row' = [utxo |-> p.live, height |-> p.height, spent |-> FALSE, spentAt |-> None]
  \/ /\ row.utxo # None /\ row.utxo + 1 \in 1 .. Len(p.history)
     /\ row' = [utxo |-> row.utxo, height |-> row.height, spent |-> TRUE, spentAt |-> p.history[row.utxo + 1]]

\* What a projection writes: the row of its UTXO, a spend, both or nothing.
LEMMA ProjectIs ==
  ASSUME Typed, NEW p \in projections, project(p)
  PROVE  /\ p.at = "read" /\ Projected(p) /\ projections' = {}
         /\ trouble \subseteq trouble' /\ faults' \in Nat
         /\ UNCHANGED <<network, cursor, safe, recent, process, handlers, queued>>
<1>1. PICK found \in BOOLEAN : /\ row' = markSpentRows(p, upsertLiveUtxo(p), found)
                               /\ IF found THEN UNCHANGED <<faults, trouble>> ELSE Fault({"drop"})
  BY DEF project
<1>2. PICK r : r = upsertLiveUtxo(p)
  OBVIOUS
<1>3. row' = markSpentRows(p, r, found)
  BY <1>1, <1>2
<1>4. DOMAIN p.history = 1 .. Len(p.history)
  BY ProjectionFacts
<1>5. ASSUME p.live # None, DeepEnough(p.height)
      PROVE  Projected(p)
  <2>1. r = [utxo |-> p.live, height |-> p.height, spent |-> FALSE, spentAt |-> None]
    BY <1>2, <1>5 DEF upsertLiveUtxo
  <2>2. r.utxo = p.live
    BY <2>1
  <2>3. row' = r
    BY <1>3, <2>2 DEF markSpentRows
  <2>4. row' = [utxo |-> p.live, height |-> p.height, spent |-> FALSE, spentAt |-> None]
    BY <2>1, <2>3
  <2>5. p.live # None /\ p.height > 0 /\ tip - p.height + 1 >= Confirmations
    BY <1>5 DEF DeepEnough
  <2> QED
    BY <2>4, <2>5 DEF Projected
<1>6. ASSUME ~(p.live # None /\ DeepEnough(p.height))
      PROVE  Projected(p)
  <2>1. r = row
    BY <1>2, <1>6 DEF upsertLiveUtxo
  <2>2. CASE row.utxo # None /\ row.utxo + 1 \in DOMAIN p.history /\ ~row.spent /\ row.utxo # p.live /\ found
    <3>1. PICK x : x = [row EXCEPT !.spent = TRUE]
      OBVIOUS
    <3>2. row' = [x EXCEPT !.spentAt = p.history[row.utxo + 1]]
      BY <1>3, <2>1, <2>2, <3>1 DEF markSpentRows
    <3>3. row \in Row
      BY DEF Typed, RowOk
    <3>4. x = [utxo |-> row.utxo, height |-> row.height, spent |-> TRUE, spentAt |-> row.spentAt]
      BY <3>1, <3>3 DEF Row
    <3>5. row' = [utxo |-> row.utxo, height |-> row.height, spent |-> TRUE, spentAt |-> p.history[row.utxo + 1]]
      BY <3>2, <3>4
    <3>6. row.utxo # None /\ row.utxo + 1 \in 1 .. Len(p.history)
      BY <1>4, <2>2
    <3> QED
      BY <3>5, <3>6 DEF Projected
  <2>3. CASE ~(row.utxo # None /\ row.utxo + 1 \in DOMAIN p.history /\ ~row.spent /\ row.utxo # p.live /\ found)
    <3>1. row' = row
      BY <1>3, <2>1, <2>3 DEF markSpentRows
    <3> QED
      BY <3>1 DEF Projected
  <2> QED
    BY <2>2, <2>3
<1>7. projections' = {}
  BY DEF project, Typed, ProjectionsOk
<1>8. trouble \subseteq trouble' /\ faults' \in Nat
  <2>1. faults \in Nat
    BY DEF Typed, ProcessOk
  <2> QED
    BY <1>1, <2>1 DEF Fault
<1> QED
  BY <1>5, <1>6, <1>7, <1>8 DEF project

\* A projection's writing keeps the row well formed.
LEMMA ProjectTyped ==
  ASSUME Typed, NEW p \in projections, project(p)
  PROVE  Typed'
<1>1. /\ Projected(p) /\ projections' = {} /\ faults' \in Nat
      /\ UNCHANGED <<network, cursor, safe, recent, process, handlers, queued>>
  BY ProjectIs
<1>2. ChainOk' /\ Grows
  BY <1>1, Still
<1>3. UNCHANGED <<sent, Tip>>
  BY <1>1 DEF network, Tip
<1>4. row' \in Row /\ row'.utxo <= sent /\ row'.height <= Tip /\ row'.spentAt <= Tip
      /\ (row'.height # None => row'.utxo # None)
  <2>1. /\ row \in Row /\ row.utxo <= sent /\ row.height <= Tip /\ row.spentAt <= Tip
        /\ row.height # None => row.utxo # None
    BY DEF Typed, RowOk
  <2>2. /\ p.live \in Nat /\ p.height \in Nat /\ p.live <= sent /\ p.height <= Tip
        /\ \A k \in 1 .. Len(p.history) : p.history[k] \in Nat /\ p.history[k] <= Tip
    BY ProjectionFacts
  <2>3. Tip \in Nat
    BY ChainFacts DEF Typed, ChainIsSound
  <2>4. CASE p.live # None /\ row' = [utxo |-> p.live, height |-> p.height, spent |-> FALSE, spentAt |-> None]
    BY <2>2, <2>3, <2>4 DEF Row, None
  <2>5. CASE /\ row.utxo + 1 \in 1 .. Len(p.history)
             /\ row' = [utxo |-> row.utxo, height |-> row.height, spent |-> TRUE, spentAt |-> p.history[row.utxo + 1]]
    <3>1. PICK s : s = p.history[row.utxo + 1]
      OBVIOUS
    <3>2. s \in Nat /\ s <= Tip
      BY <2>2, <2>5, <3>1
    <3>3. row' = [utxo |-> row.utxo, height |-> row.height, spent |-> TRUE, spentAt |-> s]
      BY <2>5, <3>1
    <3> QED
      BY <2>1, <3>2, <3>3 DEF Row
  <2> QED
    BY <1>1, <2>1, <2>4, <2>5, Zenon DEF Projected
<1>5. RowOk'
  <2>1. cursor \in [height : 0 .. Tip, id : Nat] /\ safe \in 0 .. Tip
    BY DEF Typed, RowOk
  <2>2. cursor' = cursor /\ safe' = safe
    BY <1>1
  <2> HIDE <1>1
  <2> QED
    BY <1>3, <1>4, <2>1, <2>2 DEF RowOk
<1>6. RecentOk' /\ HandlersOk'
  BY <1>1, <1>2, FrameRecent, FrameHandlers DEF process
<1>7. ProjectionsOk'
  BY <1>1 DEF ProjectionsOk
<1>8. ProcessOk'
  BY <1>1, <1>2, FrameTip, Zenon DEF process, Typed, ProcessOk
<1> QED
  BY <1>2, <1>5, <1>6, <1>7, <1>8 DEF Typed

\* A projection whose request failed ends and writes nothing.
LEMMA FetchFailedIs ==
  ASSUME Typed, NEW p \in projections, fetchFailed(p)
  PROVE  /\ projections' \subseteq projections
         /\ queued' \in Nat /\ faults' \in Nat /\ trouble \subseteq trouble'
         /\ UNCHANGED <<network, db, process, handlers>>
<1>1. faults \in Nat /\ queued \in Nat
  BY DEF Typed, ProcessOk
<1>2. \/ schedule(1) /\ Fault({})
      \/ UNCHANGED queued /\ Fault({"drop"})
  BY DEF fetchFailed
<1>3. faults' \in Nat /\ trouble \subseteq trouble'
  BY <1>1, <1>2 DEF Fault
<1>4. queued' \in Nat
  BY <1>1, <1>2, Scheduled
<1> QED
  BY <1>3, <1>4 DEF fetchFailed

\* A step that changes nothing but which projections wait or are under way.
LEMMA QueueTyped ==
  ASSUME Typed, projections' \subseteq projections, queued' \in Nat, faults' \in Nat,
         UNCHANGED <<network, db, up, tip, handlers>>, subscribed' \in BOOLEAN
  PROVE  Typed'
<1>1. ChainOk' /\ Grows
  BY Still
<1>2. RowOk' /\ RecentOk' /\ HandlersOk' /\ ProjectionsOk'
  BY <1>1, FrameRow, FrameRecent, FrameHandlers, FrameProjections DEF db
<1>3. ProcessOk'
  BY <1>1, FrameTip, Zenon DEF Typed, ProcessOk
<1> QED
  BY <1>1, <1>2, <1>3 DEF Typed

\* Its end keeps what is stored well formed.
LEMMA FetchFailedTyped ==
  ASSUME Typed, NEW p \in projections, fetchFailed(p)
  PROVE  Typed'
<1>1. subscribed \in BOOLEAN
  BY DEF Typed, ProcessOk
<1> QED
  BY <1>1, FetchFailedIs, QueueTyped DEF process

\* Subscribing only schedules projections.
LEMMA RefreshTyped ==
  ASSUME Typed, refreshRegistry
  PROVE  Typed'
<1>1. queued' \in Nat /\ subscribed' \in BOOLEAN
  BY Scheduled DEF Typed, ProcessOk, refreshRegistry, Subscribe
<1>2. faults' \in Nat
  BY DEF Typed, ProcessOk, refreshRegistry
<1> QED
  BY <1>1, <1>2, QueueTyped DEF refreshRegistry


-----------------------------------------------------------------------------
(* Crashes, and the invariant of types *)

\* A crash loses the handlers, the queue and the projection.
LEMMA CrashIs ==
  ASSUME Typed, Crash
  PROVE  /\ up /\ ~up' /\ handlers' = {} /\ queued' = 0 /\ projections' = {}
         /\ trouble \subseteq trouble' /\ faults' \in Nat
         /\ UNCHANGED <<network, db, tip, subscribed>>
<1>1. faults \in Nat
  BY DEF Typed, ProcessOk
<1> QED
  BY <1>1 DEF Crash, Fault

\* A crash leaves the database as it was.
LEMMA CrashTyped ==
  ASSUME Typed, Crash
  PROVE  Typed'
<1>1. /\ up' = FALSE /\ handlers' = {} /\ queued' = 0 /\ projections' = {}
      /\ faults' \in Nat /\ UNCHANGED <<network, db, tip, subscribed>>
  BY CrashIs DEF Crash
<1>2. ChainOk' /\ Grows
  BY <1>1, Still
<1>3. RowOk' /\ RecentOk'
  BY <1>1, <1>2, FrameRow, FrameRecent DEF db
<1>4. HandlersOk'
  BY <1>1 DEF HandlersOk
<1>5. ProjectionsOk'
  BY <1>1 DEF ProjectionsOk
<1>6. ProcessOk'
  <2>1. tip' \in 0 .. Tip' /\ subscribed' \in BOOLEAN /\ queued' \in Nat
    BY <1>1, <1>2, FrameTip DEF Typed, ProcessOk
  <2> QED
    BY <1>1, <2>1, Zenon DEF ProcessOk
<1> QED
  BY <1>2, <1>3, <1>4, <1>5, <1>6 DEF Typed

\* A restart reads its tip from the cursor and starts one handler.
LEMMA StartTyped ==
  ASSUME Typed, Start
  PROVE  Typed'
<1>1. /\ up' = TRUE /\ handlers' = {Handler(chain)} /\ tip' = cursor.height
      /\ UNCHANGED <<network, db, projections, faults, trouble>>
  BY DEF Start, HeadersOnStart
<1>2. ChainOk' /\ Grows
  BY <1>1, Still
<1>3. RowOk' /\ RecentOk' /\ ProjectionsOk'
  BY <1>1, <1>2, FrameRow, FrameRecent, FrameProjections DEF db
<1>4. UNCHANGED <<chain, Tip>>
  BY <1>1 DEF network, Tip
<1>5. HandlersOk'
  <2>1. /\ Handler(chain) \in Handlers /\ Handler(chain).height = Tip
        /\ Handler(chain).id = chain[Tip]
    BY Handled DEF Typed
  <2>2. Tip \in 1 .. Tip /\ chain[Tip] <= chain[Tip]
    BY ChainFacts DEF Typed, ChainIsSound
  <2> QED
    BY <1>1, <1>4, <2>1, <2>2 DEF HandlersOk
<1>6. ProcessOk'
  <2>1. cursor.height \in 0 .. Tip
    BY DEF Typed, RowOk
  <2>2. tip' \in 0 .. Tip'
    BY <1>1, <1>4, <2>1
  <2>3. queued' \in Nat /\ subscribed' \in BOOLEAN
    BY Scheduled DEF Start, Subscribe, Typed, ProcessOk
  <2> QED
    BY <1>1, <2>2, <2>3, Zenon DEF Typed, ProcessOk
<1> QED
  BY <1>2, <1>3, <1>5, <1>6 DEF Typed

\* Every step keeps the chain, the database and the process well formed.
LEMMA TypedStep == Typed /\ [Next]_vars => Typed'
<1> SUFFICES ASSUME Typed, [Next]_vars PROVE Typed'
  OBVIOUS
<1>1. CASE Transact
  BY <1>1, TransactTyped
<1>2. CASE Mine
  BY <1>2, MineTyped
<1>3. CASE Reorganise
  BY <1>3, ReorganiseTyped
<1>4. ASSUME NEW p \in handlers, onHeader(p) PROVE Typed'
  BY <1>4, CompareTyped, ReorgTyped, PushTyped, CursorTyped, SafeTyped DEF onHeader
<1>5. CASE listUnspent
  BY <1>5, ListTyped
<1>6. CASE projectAddress
  BY <1>6, HistoryTyped, ProjectTyped, FetchFailedTyped DEF projectAddress
<1>7. CASE refreshRegistry
  BY <1>7, RefreshTyped
<1>8. CASE Crash
  BY <1>8, CrashTyped
<1>9. CASE Start
  BY <1>9, StartTyped
<1>10. CASE UNCHANGED vars
  <2>1. /\ projections' \subseteq projections /\ queued' \in Nat /\ faults' \in Nat
        /\ UNCHANGED <<network, db, up, tip, handlers>> /\ subscribed' \in BOOLEAN
    BY <1>10 DEF vars, process, Typed, ProcessOk
  <2> QED
    BY <2>1, QueueTyped
<1> QED
  BY <1>1, <1>2, <1>3, <1>4, <1>5, <1>6, <1>7, <1>8, <1>9, <1>10 DEF Next

\* The type invariant follows: few stored heights, since they lie close together.
LEMMA TypedIsTypeOK == Typed => TypeOK
<1> SUFFICES ASSUME Typed PROVE TypeOK
  OBVIOUS
<1>1. /\ chain \in Seq(0 .. MaxReorgs) /\ Tip <= MaxHeight
      /\ sent \in 0 .. MaxTxs /\ mined \in [1 .. MaxTxs -> 0 .. Tip]
  BY ChainFacts DEF Typed, ChainOk, ChainIsSound
<1>2. row \in [utxo : 0 .. sent, height : 0 .. Tip, spent : BOOLEAN, spentAt : 0 .. Tip]
  <2>1. row \in Row /\ row.utxo <= sent /\ row.height <= Tip /\ row.spentAt <= Tip
    BY DEF Typed, RowOk
  <2>2. sent \in Nat /\ Tip \in Nat
    BY ChainFacts DEF Typed, ChainIsSound
  <2> QED
    BY <2>1, <2>2 DEF Row
<1>3. {safe, tip, cursor.height} \subseteq 0 .. Tip
  BY DEF Typed, RowOk, ProcessOk
<1>4. DOMAIN recent \subseteq 1 .. Tip /\ Cardinality(DOMAIN recent) <= Keep
  <2>1. PICK top \in 0 .. MaxHeight : DOMAIN recent \subseteq top - Keep + 1 .. top
    BY DEF Typed, RecentOk
  <2>2. top \in Nat
    BY Constants
  <2> QED
    BY <2>1, <2>2, FewHeights DEF Typed, RecentOk
<1>5. \A p \in handlers : p.at \in {"compare", "reorg", "push", "cursor", "safe"} /\ p.height \in 1 .. Tip
  BY DEF Typed, HandlersOk, Handlers, Places
<1>6. \A p \in projections : p.at \in {"listed", "read"} /\ p.live \in 0 .. sent
  <2>1. \A p \in projections : p \in Projections /\ p.live \in Nat /\ p.live <= sent
    BY ProjectionFacts
  <2>2. sent \in Nat
    BY ChainFacts DEF Typed, ChainIsSound
  <2> QED
    BY <2>1, <2>2 DEF Projections
<1> QED
  BY <1>1, <1>2, <1>3, <1>4, <1>5, <1>6 DEF TypeOK


-----------------------------------------------------------------------------
(* The row and the projections against the chain *)

\* Steps that leave the network, the process, the handlers and the stored blocks alone.
Elsewhere == \/ listUnspent \/ projectAddress \/ refreshRegistry \/ UNCHANGED vars

\* The steps outside the network and onHeader change the row in project only.
LEMMA ElsewhereIs ==
  ASSUME Typed, Elsewhere
  PROVE  /\ UNCHANGED <<network, up, tip, handlers, recent>> /\ trouble \subseteq trouble'
         /\ \/ UNCHANGED row
            \/ \E p \in projections : Projected(p) /\ projections' = {}
<1>1. CASE listUnspent
  BY <1>1 DEF listUnspent, process, db
<1>2. CASE projectAddress
  <2>1. PICK p \in projections : getHistory(p) \/ project(p) \/ fetchFailed(p)
    BY <1>2 DEF projectAddress
  <2>2. CASE getHistory(p)
    BY <2>2 DEF getHistory, process, db
  <2>3. CASE project(p)
    <3>1. /\ Projected(p) /\ projections' = {} /\ trouble \subseteq trouble'
          /\ UNCHANGED <<network, cursor, safe, recent, process, handlers, queued>>
      BY <2>3, ProjectIs
    <3> QED
      BY <3>1 DEF process
  <2>4. CASE fetchFailed(p)
    <3>1. trouble \subseteq trouble' /\ UNCHANGED <<network, db, process, handlers>>
      BY <2>4, FetchFailedIs
    <3> QED
      BY <3>1 DEF process, db
  <2> QED
    BY <2>1, <2>2, <2>3, <2>4
<1>3. CASE refreshRegistry
  BY <1>3 DEF refreshRegistry, db
<1>4. CASE UNCHANGED vars
  BY <1>4 DEF vars, process, db
<1> QED
  BY <1>1, <1>2, <1>3, <1>4 DEF Elsewhere

\* Steps of a handler.
LEMMA HandlerIs ==
  ASSUME Typed, NEW p \in handlers, onHeader(p)
  PROVE  /\ UNCHANGED <<network, up, subscribed, projections>> /\ trouble \subseteq trouble'
         /\ handlers' \subseteq handlers \/ \E place, f : Advance(p, At(p, place, f))
         /\ UNCHANGED row \/ (p.at = "reorg" /\ Forgets(p.fork))
<1>1. CASE compare(p)
  BY <1>1, CompareIs DEF process, db
<1>2. CASE handleReorg(p)
  BY <1>2, ReorgIs DEF process
<1>3. CASE pushRecentBlock(p)
  BY <1>3, PushIs DEF process
<1>4. CASE updateCursor(p)
  BY <1>4, CursorTyped DEF updateCursor, Keeping
<1>5. CASE advanceSafe(p)
  BY <1>5 DEF advanceSafe, Keeping
<1> QED
  BY <1>1, <1>2, <1>3, <1>4, <1>5 DEF onHeader

\* The steps, in the classes that the invariants tell apart.
LEMMA NextCases ==
  ASSUME [Next]_vars
  PROVE  \/ Transact \/ Mine \/ Reorganise \/ (\E p \in handlers : onHeader(p))
         \/ Elsewhere \/ Crash \/ Start
BY DEF Next, Elsewhere

\* What has gone wrong is not forgotten.
LEMMA TroubleGrows == Typed /\ [Next]_vars => trouble \subseteq trouble'
<1> SUFFICES ASSUME Typed, [Next]_vars PROVE trouble \subseteq trouble'
  OBVIOUS
<1>1. CASE Transact
  BY <1>1 DEF Transact
<1>2. CASE Mine \/ Reorganise
  BY <1>2, MineIs, ReorganiseIs DEF Announced
<1>3. CASE (\E p \in handlers : onHeader(p)) \/ Elsewhere
  BY <1>3, HandlerIs, ElsewhereIs
<1>4. CASE Crash \/ Start
  BY <1>4, CrashIs DEF Start
<1> QED
  BY <1>1, <1>2, <1>3, <1>4, NextCases

\* Projections of which nothing new is known, and transactions that stay where they are.
LEMMA ReadsStay ==
  ASSUME Typed, ReadsHold, trouble \subseteq trouble', projections' \subseteq projections,
         \A k \in 1 .. MaxTxs : mined[k] # 0 => mined'[k] = mined[k]
  PROVE  ReadsHold'
<1> SUFFICES ASSUME "straddle" \notin trouble', NEW p \in projections
             PROVE  /\ p.height # None => mined'[p.live] = p.height
                    /\ \A k \in 1 .. Len(p.history) : p.history[k] # None => mined'[k] = p.history[k]
  BY DEF ReadsHold
<1>1. /\ p.height # None => mined[p.live] = p.height
      /\ \A k \in 1 .. Len(p.history) : p.history[k] # None => mined[k] = p.history[k]
  BY DEF ReadsHold
<1>2. /\ p.live \in Nat /\ p.live <= sent /\ (p.height # None => p.live # None)
      /\ Len(p.history) \in Nat /\ Len(p.history) <= sent
  BY ProjectionFacts
<1>3. sent \in Nat /\ sent <= MaxTxs
  BY ChainFacts DEF Typed, ChainIsSound
<1>4. p.height # None => p.live \in 1 .. MaxTxs
  BY <1>2, <1>3, Constants DEF None
<1>5. \A k \in 1 .. Len(p.history) : k \in 1 .. MaxTxs
  BY <1>2, <1>3, Constants
<1> QED
  BY <1>1, <1>4, <1>5 DEF None

\* What a projection has read stays true until the chain is reorganised under it.
LEMMA ReadsStep == Typed /\ ReadsHold /\ [Next]_vars => ReadsHold'
<1> SUFFICES ASSUME Typed, ReadsHold, [Next]_vars PROVE ReadsHold'
  OBVIOUS
<1>1. trouble \subseteq trouble'
  BY TroubleGrows
<1>2. ASSUME UNCHANGED mined, projections' \subseteq projections
      PROVE  ReadsHold'
  BY <1>1, <1>2, ReadsStay
<1>3. CASE Transact
  BY <1>2, <1>3 DEF Transact
<1>4. CASE Mine
  BY <1>1, <1>4, MineIs, ReadsStay
<1>5. CASE Reorganise
  <2>1. PICK depth \in 1 .. Tip - 1 : Reorganised(depth)
    BY <1>5, ReorganiseIs
  <2>2. projections' = projections /\ (projections # {} => "straddle" \in trouble')
    BY <1>5, <2>1, ReorganiseIs DEF Reorganised
  <2> QED
    BY <2>2 DEF ReadsHold
<1>6. ASSUME NEW p \in handlers, onHeader(p) PROVE ReadsHold'
  BY <1>2, <1>6, HandlerIs DEF network
<1>7. CASE listUnspent
  <2>1. /\ projections' = {Listed} /\ Listed.live = sent /\ Listed.history = <<>>
        /\ Listed.height # None => Listed.height = mined[sent]
        /\ UNCHANGED network
    BY <1>7, ListIs
  <2>2. Len(Listed.history) = 0
    BY <2>1, EmptySeq
  <2>3. mined' = mined
    BY <2>1 DEF network
  <2> QED
    BY <2>1, <2>2, <2>3 DEF ReadsHold
<1>8. ASSUME NEW p \in projections, getHistory(p) PROVE ReadsHold'
  <2>1. /\ projections' = {Read(p)} /\ Read(p).live = p.live /\ Read(p).height = p.height
        /\ Len(Read(p).history) = sent /\ \A k \in 1 .. sent : Read(p).history[k] = mined[k]
        /\ UNCHANGED network
    BY <1>8, HistoryStepIs
  <2>2. mined' = mined
    BY <2>1 DEF network
  <2> QED
    BY <1>1, <2>1, <2>2 DEF ReadsHold
<1>9. ASSUME NEW p \in projections, project(p) \/ fetchFailed(p) PROVE ReadsHold'
  <2>1. projections' \subseteq projections /\ UNCHANGED network
    BY <1>9, ProjectIs, FetchFailedIs
  <2> QED
    BY <1>2, <2>1 DEF network
<1>10. CASE refreshRegistry
  BY <1>2, <1>10 DEF refreshRegistry, network
<1>11. CASE Crash \/ Start
  <2>1. UNCHANGED network /\ projections' \subseteq projections
    BY <1>11, CrashIs DEF Start
  <2> QED
    BY <1>2, <2>1 DEF network
<1>12. CASE UNCHANGED vars
  BY <1>2, <1>12 DEF vars, network
<1> QED
  BY <1>3, <1>4, <1>5, <1>6, <1>7, <1>8, <1>9, <1>10, <1>11, <1>12 DEF Next, projectAddress

\* A row that stays is as deep as before, or deeper, where its transaction stays.
LEMMA DeepStays ==
  ASSUME Typed, RowIsDeep, trouble \subseteq trouble', row' = row, Tip <= Tip', Tip' \in Nat,
         row.height # None /\ trouble' \cap {"deep", "straddle"} = {} /\ mined[row.utxo] = row.height
           => mined'[row.utxo] = mined[row.utxo]
  PROVE  RowIsDeep'
<1> SUFFICES ASSUME row.height # None, trouble' \cap {"deep", "straddle"} = {}
             PROVE  mined'[row.utxo] = row.height /\ row.height <= Tip' - Confirmations + 1
  BY DEF RowIsDeep
<1>1. mined[row.utxo] = row.height /\ row.height <= Tip - Confirmations + 1
  BY DEF RowIsDeep
<1>2. Tip \in Nat /\ row.height \in Nat
  BY ChainFacts DEF Typed, ChainIsSound, RowOk, Row
<1> QED
  BY <1>1, <1>2, Constants

\* A row is written Confirmations deep, and only a deep reorganisation reaches it there.
LEMMA DeepStep == Typed /\ ReadsHold /\ RowIsDeep /\ [Next]_vars => RowIsDeep'
<1> SUFFICES ASSUME Typed, ReadsHold, RowIsDeep, [Next]_vars PROVE RowIsDeep'
  OBVIOUS
<1>1. trouble \subseteq trouble' /\ Tip \in Nat /\ Tip' \in Nat
  BY TroubleGrows, TypedStep, ChainFacts, ChainFactsNext DEF Typed, ChainIsSound
<1>2. row \in Row /\ row.utxo \in Nat /\ row.utxo <= sent /\ row.height \in Nat
      /\ (row.height # None => row.utxo \in 1 .. MaxTxs)
  <2>1. row \in Row /\ row.utxo <= sent /\ (row.height # None => row.utxo # None)
    BY DEF Typed, RowOk
  <2>2. sent \in Nat /\ sent <= MaxTxs
    BY ChainFacts DEF Typed, ChainIsSound
  <2> QED
    BY <2>1, <2>2, Constants DEF Row, None
<1>3. ASSUME UNCHANGED <<row, network>> PROVE RowIsDeep'
  <2>1. Tip' = Tip /\ mined' = mined
    BY <1>3 DEF network, Tip
  <2> QED
    BY <1>1, <1>3, <2>1, DeepStays
<1>4. CASE Transact
  <2>1. row' = row /\ mined' = mined /\ Tip' = Tip
    BY <1>4 DEF Transact, db, Tip
  <2> QED
    BY <1>1, <2>1, DeepStays
<1>5. CASE Mine
  <2>1. Tip' = Tip + 1 /\ row' = row /\ \A k \in 1 .. MaxTxs : mined[k] # 0 => mined'[k] = mined[k]
    BY <1>5, MineIs DEF db
  <2>2. row.height # None /\ mined[row.utxo] = row.height => mined'[row.utxo] = mined[row.utxo]
    BY <1>2, <2>1 DEF None
  <2> QED
    BY <1>1, <2>1, <2>2, DeepStays
<1>6. CASE Reorganise
  <2>1. row' = row
    BY <1>6, ReorganiseIs DEF db
  <2>2. PICK depth \in 1 .. Tip - 1 : Reorganised(depth)
    BY <1>6, ReorganiseIs
  <2>3. /\ Tip' = Tip + 1 /\ (depth >= Confirmations => "deep" \in trouble')
        /\ \A k \in 1 .. MaxTxs : mined[k] \in 1 .. Tip - depth => mined'[k] = mined[k]
    BY <2>2 DEF Reorganised
  <2>4. ASSUME row.height # None, trouble' \cap {"deep", "straddle"} = {}
        PROVE  mined'[row.utxo] = mined[row.utxo]
    <3>1. mined[row.utxo] = row.height /\ row.height <= Tip - Confirmations + 1
      BY <1>1, <2>4 DEF RowIsDeep
    <3>2. depth < Confirmations
      BY <1>1, <2>3, <2>4, Constants
    <3>3. mined[row.utxo] \in 1 .. Tip - depth
      BY <1>1, <1>2, <2>4, <3>1, <3>2, Constants DEF None
    <3> QED
      BY <1>2, <2>3, <2>4, <3>3
  <2> QED
    BY <1>1, <2>1, <2>3, <2>4, DeepStays
<1>7. ASSUME NEW p \in handlers, onHeader(p) PROVE RowIsDeep'
  <2>1. UNCHANGED network
    BY <1>7, HandlerIs
  <2>2. CASE UNCHANGED row
    BY <1>3, <2>1, <2>2
  <2>3. CASE Forgets(p.fork)
    <3>1. row'.height = None \/ (row'.height = row.height /\ row'.utxo = row.utxo)
      BY <2>3 DEF Forgets
    <3>2. mined' = mined /\ Tip' = Tip
      BY <2>1 DEF network, Tip
    <3> QED
      BY <1>1, <3>1, <3>2 DEF RowIsDeep
  <2> QED
    BY <1>7, <2>2, <2>3, HandlerIs
<1>8. CASE Elsewhere
  <2>1. UNCHANGED <<network, tip>>
    BY <1>8, ElsewhereIs
  <2>2. mined' = mined /\ Tip' = Tip
    BY <2>1 DEF network, Tip
  <2>3. ASSUME NEW p \in projections, Projected(p) PROVE RowIsDeep'
    <3>1. CASE row' = row
      BY <1>3, <2>1, <3>1
    <3>2. CASE /\ p.height > 0 /\ tip - p.height + 1 >= Confirmations
               /\ row' = [utxo |-> p.live, height |-> p.height, spent |-> FALSE, spentAt |-> None]
      <4>1. tip \in Nat /\ tip <= Tip /\ p.height \in Nat
        BY <1>1, ProjectionFacts DEF Typed, ProcessOk
      <4>2. p.height <= Tip - Confirmations + 1
        BY <1>1, <3>2, <4>1, Constants
      <4>3. "straddle" \notin trouble => mined[p.live] = p.height
        BY <3>2, <4>1 DEF ReadsHold, None
      <4>4. row'.utxo = p.live /\ row'.height = p.height
        BY <3>2
      <4> QED
        BY <1>1, <2>2, <4>2, <4>3, <4>4 DEF RowIsDeep
    <3>3. CASE row' = [utxo |-> row.utxo, height |-> row.height, spent |-> TRUE, spentAt |-> p.history[row.utxo + 1]]
      <4>1. row'.utxo = row.utxo /\ row'.height = row.height
        BY <3>3
      <4> QED
        BY <1>1, <2>2, <4>1 DEF RowIsDeep
    <3> QED
      BY <2>3, <3>1, <3>2, <3>3 DEF Projected
  <2> QED
    BY <1>3, <1>8, <2>1, <2>3, ElsewhereIs
<1>9. CASE Crash \/ Start
  <2>1. UNCHANGED <<row, network>>
    BY <1>9, CrashIs DEF Start, db
  <2> QED
    BY <1>3, <2>1
<1> QED
  BY <1>4, <1>5, <1>6, <1>7, <1>8, <1>9, NextCases

\* A row that lies deep lies on the chain.
LEMMA DeepIsOnChain == RowIsDeep => RowIsOnChain
BY DEF RowIsDeep, RowIsOnChain


-----------------------------------------------------------------------------
(* The handler under way *)

\* What OneHandler says of a set of handlers and a chain.
LEMMA OneHandlerIs ==
  ASSUME Typed, OneHandler, "overlap" \notin trouble, NEW p \in handlers
  PROVE  /\ handlers = {p} /\ p.height = Tip /\ p.id = chain[Tip]
         /\ Tip > 1 => p.prev = chain[Tip - 1]
BY DEF OneHandler

\* A handler that ends leaves at most one.
LEMMA HandlersStay ==
  ASSUME OneHandler, trouble \subseteq trouble', handlers' \subseteq handlers, UNCHANGED chain
  PROVE  OneHandler'
<1>1. Tip' = Tip
  BY DEF Tip
<1> QED
  BY <1>1 DEF OneHandler

\* A new tip finds no handler under way, or an overlap is noted.
LEMMA OneHandlerStep == Typed /\ OneHandler /\ [Next]_vars => OneHandler'
<1> SUFFICES ASSUME Typed, OneHandler, [Next]_vars PROVE OneHandler'
  OBVIOUS
<1>1. trouble \subseteq trouble'
  BY TroubleGrows
<1>2. CASE Transact
  BY <1>1, <1>2, HandlersStay DEF Transact
<1>3. CASE Mine \/ Reorganise
  <2>1. Announced /\ ChainOk'
    BY <1>3, MineIs, ReorganiseIs
  <2>2. ASSUME "overlap" \notin trouble'
        PROVE  handlers' \subseteq {Handler(chain')}
    BY <2>1, <2>2 DEF Announced
  <2>3. /\ Handler(chain').height = Tip' /\ Handler(chain').id = chain'[Tip']
        /\ Tip' > 1 => Handler(chain').prev = chain'[Tip' - 1]
    BY <2>1, HandledNext
  <2> QED
    BY <2>2, <2>3 DEF OneHandler
<1>4. ASSUME NEW p \in handlers, onHeader(p) PROVE OneHandler'
  <2>1. UNCHANGED chain /\ (handlers' \subseteq handlers \/ \E place, f : Advance(p, At(p, place, f)))
    BY <1>4, HandlerIs DEF network
  <2>2. ASSUME NEW place, NEW f, Advance(p, At(p, place, f)) PROVE OneHandler'
    <3> SUFFICES ASSUME "overlap" \notin trouble' PROVE
          /\ \A q, r \in handlers' : q = r
          /\ \A q \in handlers' : /\ q.height = Tip' /\ q.id = chain'[Tip']
                                  /\ Tip' > 1 => q.prev = chain'[Tip' - 1]
      BY DEF OneHandler
    <3>1. /\ handlers = {p} /\ p.height = Tip /\ p.id = chain[Tip]
          /\ Tip > 1 => p.prev = chain[Tip - 1]
      BY <1>1, OneHandlerIs
    <3>2. handlers' = {At(p, place, f)}
      BY <2>2, <3>1 DEF Advance
    <3>3. Tip' = Tip /\ chain' = chain
      BY <2>1 DEF Tip
    <3>4. At(p, place, f).height = p.height /\ At(p, place, f).id = p.id /\ At(p, place, f).prev = p.prev
      BY DEF At
    <3> QED
      BY <3>1, <3>2, <3>3, <3>4
  <2> QED
    BY <1>1, <2>1, <2>2, HandlersStay
<1>5. CASE Elsewhere
  BY <1>1, <1>5, ElsewhereIs, HandlersStay DEF network
<1>6. CASE Crash
  BY <1>1, <1>6, CrashIs, HandlersStay DEF network
<1>7. CASE Start
  <2>1. handlers' = {Handler(chain)} /\ chain' = chain /\ Tip' = Tip
    BY <1>7 DEF Start, HeadersOnStart, network, Tip
  <2>2. /\ Handler(chain).height = Tip /\ Handler(chain).id = chain[Tip]
        /\ Tip > 1 => Handler(chain).prev = chain[Tip - 1]
    BY Handled DEF Typed
  <2> QED
    BY <2>1, <2>2 DEF OneHandler
<1> QED
  BY <1>2, <1>3, <1>4, <1>5, <1>6, <1>7, NextCases

\* The headers compared are the chain's.
LEMMA WindowIsChain ==
  ASSUME Typed, OneHandler, "overlap" \notin trouble, NEW p \in handlers,
         NEW h \in Nat, h >= Bottom(p), h <= p.height
  PROVE  collectRecentChain(p, Bottom(p))[h] = chain[h]
<1>1. p.height = Tip /\ p.id = chain[Tip] /\ (Tip > 1 => p.prev = chain[Tip - 1])
  BY OneHandlerIs
<1>2. Bottom(p) \in Nat /\ Bottom(p) >= 1 /\ Tip \in Nat
  BY BottomIs, ChainFacts DEF Typed, ChainIsSound
<1>3. h \in Bottom(p) .. p.height
  BY <1>1, <1>2
<1>4. collectRecentChain(p, Bottom(p))[h] =
        IF h = p.height THEN p.id ELSE IF h = p.height - 1 THEN p.prev ELSE chain[h]
  BY <1>3 DEF collectRecentChain
<1>5. h = Tip - 1 => Tip > 1
  BY <1>2, <1>3
<1> QED
  BY <1>1, <1>4, <1>5

\* Moving on keeps a handler's block.
LEMMA AtFields ==
  ASSUME NEW p, NEW place, NEW f
  PROVE  /\ At(p, place, f).height = p.height /\ At(p, place, f).at = place /\ At(p, place, f).fork = f
         /\ Bottom(At(p, place, f)) = Bottom(p)
<1>1. At(p, place, f).height = p.height /\ At(p, place, f).at = place /\ At(p, place, f).fork = f
  BY DEF At
<1> QED
  BY <1>1 DEF Bottom

\* Handlers that are not between comparing and pushing claim nothing.
LEMMA NothingCompared ==
  ASSUME trouble' \cap {"overlap", "cut"} = {} => \A q \in handlers' : q.at \notin {"push", "reorg"}
  PROVE  Compared'
BY DEF Compared

\* What was compared stays compared while chain and stored blocks are the same.
LEMMA ComparedStays ==
  ASSUME Compared, trouble \subseteq trouble', handlers' \subseteq handlers, UNCHANGED <<chain, recent>>
  PROVE  Compared'
BY DEF Compared, Bottom

\* Comparing establishes Compared, forgetting extends it to the fork, a new tip starts over.
LEMMA ComparedStep == Typed /\ OneHandler /\ Compared /\ [Next]_vars => Compared'
<1> SUFFICES ASSUME Typed, OneHandler, Compared, [Next]_vars PROVE Compared'
  OBVIOUS
<1>1. trouble \subseteq trouble'
  BY TroubleGrows
<1>2. CASE Transact
  BY <1>1, <1>2, ComparedStays DEF Transact, db
<1>3. CASE Mine \/ Reorganise
  <2>1. Announced /\ ChainOk'
    BY <1>3, MineIs, ReorganiseIs
  <2>2. Handler(chain').at = "compare"
    BY <2>1, HandledNext
  <2>3. "overlap" \notin trouble' => handlers' \subseteq {Handler(chain')}
    BY <2>1 DEF Announced
  <2> QED
    BY <2>2, <2>3, NothingCompared
<1>4. ASSUME NEW p \in handlers, compare(p) PROVE Compared'
  <2>1. PICK f : Found(p, f) /\ Advance(p, At(p, IF f = None THEN "push" ELSE "reorg", f))
    BY <1>4, CompareIs
  <2>2. UNCHANGED <<chain, recent>>
    BY <1>4, CompareIs DEF network, db
  <2>3. PICK place : place = IF f = None THEN "push" ELSE "reorg"
    OBVIOUS
  <2> SUFFICES ASSUME trouble' \cap {"overlap", "cut"} = {}, NEW q \in handlers', NEW h \in DOMAIN recent,
                      h >= Bottom(q), q.at = "push" \/ (q.at = "reorg" /\ h < q.fork)
               PROVE  recent[h].id = chain[h]
    BY <2>2 DEF Compared
  <2>4. q = At(p, place, f) /\ p.height = Tip
    BY <1>1, <2>1, <2>3, OneHandlerIs DEF Advance
  <2>5. h >= Bottom(p) /\ (f = None \/ h < f)
    BY <2>3, <2>4, AtFields
  <2>6. h \in Nat /\ h <= p.height
    BY <2>4 DEF Typed, RecentOk
  <2>7. recent[h].id = collectRecentChain(p, Bottom(p))[h]
    BY <2>1, <2>5, <2>6 DEF Found
  <2> QED
    BY <1>1, <2>5, <2>6, <2>7, WindowIsChain
<1>5. ASSUME NEW p \in handlers, handleReorg(p) PROVE Compared'
  <2>1. /\ p.at = "reorg" /\ recent' = Forget(p.fork) /\ Advance(p, At(p, "push", None))
        /\ UNCHANGED chain
    BY <1>5, ReorgIs DEF network
  <2> SUFFICES ASSUME trouble' \cap {"overlap", "cut"} = {}, NEW q \in handlers', NEW h \in DOMAIN recent',
                      h >= Bottom(q)
               PROVE  recent'[h].id = chain[h]
    BY <2>1 DEF Compared, Bottom
  <2>2. q = At(p, "push", None)
    BY <1>1, <2>1, OneHandlerIs DEF Advance
  <2>3. h \in DOMAIN recent /\ h < p.fork /\ recent'[h] = recent[h]
    BY <2>1 DEF Forget
  <2>4. h >= Bottom(p)
    BY <2>2, AtFields
  <2>5. recent[h].id = chain[h]
    BY <1>1, <2>1, <2>3, <2>4 DEF Compared
  <2> QED
    BY <2>3, <2>5
<1>6. ASSUME NEW p \in handlers, pushRecentBlock(p) PROVE Compared'
  <2>1. Advance(p, At(p, "cursor", p.fork))
    BY <1>6, PushIs
  <2>2. trouble' \cap {"overlap", "cut"} = {} => handlers' = {At(p, "cursor", p.fork)}
    BY <1>1, <2>1, OneHandlerIs DEF Advance
  <2> QED
    BY <2>2, AtFields, NothingCompared
<1>7. ASSUME NEW p \in handlers, updateCursor(p) PROVE Compared'
  <2>1. Advance(p, At(p, "safe", p.fork))
    BY <1>7, CursorTyped
  <2>2. trouble' \cap {"overlap", "cut"} = {} => handlers' = {At(p, "safe", p.fork)}
    BY <1>1, <2>1, OneHandlerIs DEF Advance
  <2> QED
    BY <2>2, AtFields, NothingCompared
<1>8. ASSUME NEW p \in handlers, advanceSafe(p) PROVE Compared'
  BY <1>1, <1>8, ComparedStays DEF advanceSafe, Keeping, network
<1>9. CASE Elsewhere
  BY <1>1, <1>9, ElsewhereIs, ComparedStays DEF network
<1>10. CASE Crash
  BY <1>1, <1>10, CrashIs, ComparedStays DEF network, db
<1>11. CASE Start
  <2>1. handlers' = {Handler(chain)} /\ Handler(chain).at = "compare"
    BY <1>11, Handled DEF Start, HeadersOnStart, Typed
  <2> QED
    BY <2>1, NothingCompared
<1> QED
  BY <1>2, <1>3, <1>4, <1>5, <1>6, <1>7, <1>8, <1>9, <1>10, <1>11, NextCases DEF onHeader

-----------------------------------------------------------------------------
(* Stored neighbours *)

\* Links between stored blocks stay while nothing is stored.
LEMMA LinksStay ==
  ASSUME NeighboursAreLinked, trouble \subseteq trouble', UNCHANGED recent
  PROVE  NeighboursAreLinked'
BY DEF NeighboursAreLinked

\* A block is stored only after its parent was compared with the stored one, or is not stored.
LEMMA LinkedStep == Typed /\ OneHandler /\ Compared /\ NeighboursAreLinked /\ [Next]_vars => NeighboursAreLinked'
<1> SUFFICES ASSUME Typed, OneHandler, Compared, NeighboursAreLinked, [Next]_vars
             PROVE  NeighboursAreLinked'
  OBVIOUS
<1>1. trouble \subseteq trouble'
  BY TroubleGrows
<1>2. CASE Transact
  BY <1>1, <1>2, LinksStay DEF Transact, db
<1>3. CASE Mine \/ Reorganise
  BY <1>1, <1>3, MineIs, ReorganiseIs, LinksStay DEF db
<1>4. ASSUME NEW p \in handlers, compare(p) \/ updateCursor(p) \/ advanceSafe(p) PROVE NeighboursAreLinked'
  BY <1>1, <1>4, LinksStay DEF compare, updateCursor, advanceSafe, db
<1>5. ASSUME NEW p \in handlers, handleReorg(p) PROVE NeighboursAreLinked'
  <2>1. recent' = Forget(p.fork)
    BY <1>5, ReorgIs
  <2>2. \A h \in DOMAIN recent' : h \in DOMAIN recent /\ recent'[h] = recent[h]
    BY <2>1 DEF Forget
  <2> QED
    BY <1>1, <2>2 DEF NeighboursAreLinked
<1>6. ASSUME NEW p \in handlers, pushRecentBlock(p) PROVE NeighboursAreLinked'
  <2> SUFFICES ASSUME trouble' \cap {"overlap", "cut"} = {},
                      NEW h \in DOMAIN recent', h - 1 \in DOMAIN recent'
               PROVE  recent'[h].prev = recent'[h - 1].id
    BY DEF NeighboursAreLinked
  <2>1. p.at = "push" /\ Pushed(p)
    BY <1>6, PushIs
  <2>2. p.height = Tip /\ p.id = chain[Tip] /\ (Tip > 1 => p.prev = chain[Tip - 1])
    BY <1>1, OneHandlerIs
  <2>3. /\ DOMAIN recent' \subseteq DOMAIN recent \cup {Tip} /\ DOMAIN recent \subseteq 1 .. Tip
        /\ Tip \in Nat /\ Tip >= 1
    BY <2>1, <2>2, ChainFacts DEF Pushed, Typed, RecentOk, ChainIsSound
  <2>4. h \in 1 .. Tip /\ h - 1 \in 1 .. Tip
    BY <2>3
  <2>5. h - 1 # Tip /\ h - 1 \in DOMAIN recent /\ recent'[h - 1] = recent[h - 1]
    BY <2>1, <2>2, <2>3, <2>4 DEF Pushed
  <2>6. CASE h = Tip
    <3>1. recent'[h] = [id |-> p.id, prev |-> p.prev]
      BY <2>1, <2>2, <2>6 DEF Pushed
    <3>2. recent'[h].prev = p.prev
      BY <3>1
    <3>3. Tip > 1 /\ p.prev = chain[h - 1]
      BY <2>2, <2>3, <2>4, <2>6
    <3>4. h - 1 >= Bottom(p)
      BY <2>2, <2>6, <3>3, BottomIs
    <3>5. recent[h - 1].id = chain[h - 1]
      BY <1>1, <2>1, <2>5, <3>4 DEF Compared
    <3> QED
      BY <2>5, <3>2, <3>3, <3>5
  <2>7. CASE h # Tip
    <3>1. h \in DOMAIN recent /\ recent'[h] = recent[h]
      BY <2>1, <2>2, <2>3, <2>7 DEF Pushed
    <3>2. recent[h].prev = recent[h - 1].id
      BY <1>1, <2>5, <3>1 DEF NeighboursAreLinked
    <3> QED
      BY <2>5, <3>1, <3>2
  <2> QED
    BY <2>6, <2>7
<1>7. CASE Elsewhere
  BY <1>1, <1>7, ElsewhereIs, LinksStay
<1>8. CASE Crash \/ Start
  BY <1>1, <1>8, CrashIs, LinksStay DEF Start, db
<1> QED
  BY <1>2, <1>3, <1>4, <1>5, <1>6, <1>7, <1>8, NextCases DEF onHeader


-----------------------------------------------------------------------------
(* Spends *)

\* The spend a row names, in figures.
LEMMA SpendFacts ==
  ASSUME Typed
  PROVE  row.utxo \in Nat /\ row.spentAt \in Nat /\ row.spentAt <= Tip /\ Tip \in Nat
BY ChainFacts DEF Typed, ChainIsSound, RowOk, Row

\* With one handler that has compared, nothing is pending.
LEMMA NothingPending ==
  ASSUME Typed, OneHandler, "overlap" \notin trouble, NEW p \in handlers,
         p.at \notin {"compare", "reorg"}
  PROVE  ~Pending
BY HandlerFacts, OneHandlerIs DEF Pending

\* A recorded spend stays right, or about to be undone, while row and chain agree as before.
LEMMA SpendsStay ==
  ASSUME SpendsHold, trouble \subseteq trouble', row' = row, mined' = mined,
         trouble' \cap Excused = {} /\ Pending => Pending'
  PROVE  SpendsHold'
BY DEF SpendsHold

\* A reorganisation that abandons a recorded spend leaves the handler of the new tip
\* a stored block that differs, at the spend's height or below; handleReorg then undoes it.
LEMMA SpendsStep ==
  Typed /\ ReadsHold /\ OneHandler /\ SpendsHold /\ [Next]_vars => SpendsHold'
<1> SUFFICES ASSUME Typed, ReadsHold, OneHandler, SpendsHold, [Next]_vars
             PROVE  SpendsHold'
  OBVIOUS
<1>1. trouble \subseteq trouble'
  BY TroubleGrows
<1>2. row.utxo \in Nat /\ row.spentAt \in Nat /\ row.spentAt <= Tip /\ Tip \in Nat
  BY SpendFacts
<1>3. ASSUME UNCHANGED <<chain, mined, row, recent, up, handlers>> PROVE SpendsHold'
  <2>1. Pending => Pending'
    BY <1>3 DEF Pending, Tip
  <2> QED
    BY <1>1, <1>3, <2>1, SpendsStay
<1>4. CASE Transact
  BY <1>3, <1>4 DEF Transact, db, process
\* When a tip is announced without overlap to a process that runs, nothing is pending.
<1>5. ASSUME Announced, trouble' \cap Excused = {} PROVE ~Pending /\ up /\ handlers = {}
  BY <1>5 DEF Announced, Excused, Pending
<1>6. CASE Mine
  <2> SUFFICES ASSUME row'.utxo # None, row'.spent, row'.spentAt # None, trouble' \cap Excused = {}
               PROVE  row'.utxo < MaxTxs /\ mined'[row'.utxo + 1] = row'.spentAt
    BY DEF SpendsHold
  <2>1. row' = row /\ Announced /\ \A k \in 1 .. MaxTxs : mined[k] # 0 => mined'[k] = mined[k]
    BY <1>6, MineIs DEF db
  <2>2. row.utxo < MaxTxs /\ mined[row.utxo + 1] = row.spentAt
    BY <1>1, <1>5, <2>1 DEF SpendsHold
  <2>3. row.utxo + 1 \in 1 .. MaxTxs
    BY <1>2, <2>2, Constants
  <2> QED
    BY <2>1, <2>2, <2>3 DEF None
<1>7. CASE Reorganise
  <2> SUFFICES ASSUME row'.utxo # None, row'.spent, row'.spentAt # None, trouble' \cap Excused = {}
               PROVE  row'.utxo < MaxTxs /\ (mined'[row'.utxo + 1] = row'.spentAt \/ Pending')
    BY DEF SpendsHold
  <2>1. row' = row /\ recent' = recent /\ up' = up /\ Announced
    BY <1>7, ReorganiseIs DEF db, process
  <2>2. PICK depth \in 1 .. Tip - 1 : Reorganised(depth)
    BY <1>7, ReorganiseIs
  <2>3. row.utxo < MaxTxs /\ mined[row.utxo + 1] = row.spentAt
    BY <1>1, <1>5, <2>1 DEF SpendsHold
  <2>4. row.utxo + 1 \in 1 .. MaxTxs
    BY <1>2, <2>3, Constants
  <2>5. CASE row.spentAt <= Tip - depth
    <3>1. mined[row.utxo + 1] \in 1 .. Tip - depth
      BY <1>2, <2>1, <2>3, <2>5 DEF None
    <3>2. mined'[row.utxo + 1] = mined[row.utxo + 1]
      BY <2>2, <2>4, <3>1 DEF Reorganised
    <3> QED
      BY <2>1, <2>3, <3>2
  <2>6. CASE ~(row.spentAt <= Tip - depth)
    <3>1. row.spentAt \in Tip - depth + 1 .. Tip
      BY <1>2, <2>6
    <3>2. row.spentAt \in DOMAIN recent
      BY <2>2, <3>1 DEF Reorganised, Excused
    <3>3. depth < Window
      BY <1>2, <2>2, Constants DEF Reorganised, Excused
    <3>4. Tip' = Tip + 1 /\ row.spentAt >= Tip' - Window + 1
      BY <1>2, <2>2, <3>1, <3>3, Constants DEF Reorganised
    <3>5. recent[row.spentAt].id # chain'[row.spentAt]
      <4>1. recent[row.spentAt].id \in Nat /\ recent[row.spentAt].id <= chain[Tip]
        BY <3>2 DEF Typed, RecentOk, Stored
      <4>2. chain'[row.spentAt] > chain[Tip]
        BY <1>2, <2>2, <3>1 DEF Reorganised
      <4>3. chain[Tip] \in Nat
        BY ChainFacts DEF Typed, ChainIsSound
      <4>4. chain'[row.spentAt] \in Nat
        <5>1. row.spentAt \in 1 .. Tip'
          BY <1>2, <3>1, <3>4, <2>2
        <5>2. ChainOk'
          BY <1>7, ReorganiseIs
        <5> QED
          BY <5>1, <5>2, ChainFactsNext DEF ChainIsSound
      <4> QED
        BY <4>1, <4>2, <4>3, <4>4
    <3>6. handlers' = {Handler(chain')} /\ Handler(chain').at = "compare"
      <4>1. ChainOk'
        BY <1>7, ReorganiseIs
      <4> QED
        BY <1>5, <2>1, <4>1, HandledNext DEF Announced
    <3>7. Pending'
      BY <2>1, <3>2, <3>4, <3>5, <3>6 DEF Pending
    <3> QED
      BY <2>1, <2>3, <3>7
  <2> QED
    BY <2>5, <2>6
<1>8. ASSUME NEW p \in handlers, compare(p) PROVE SpendsHold'
  <2>1. PICK f : Found(p, f) /\ Advance(p, At(p, IF f = None THEN "push" ELSE "reorg", f))
    BY <1>8, CompareIs
  <2>2. UNCHANGED <<chain, mined, row, recent, up>> /\ Tip' = Tip
    BY <1>8, CompareIs DEF network, db, process, Tip
  <2>3. ASSUME trouble' \cap Excused = {}, Pending PROVE Pending'
    <3>1. "overlap" \notin trouble /\ "cut" \notin trouble'
      BY <1>1, <2>3 DEF Excused
    <3>2. handlers = {p} /\ p.height = Tip
      BY <3>1, OneHandlerIs
    <3>3. /\ row.spentAt \in DOMAIN recent /\ recent[row.spentAt].id # chain[row.spentAt]
          /\ row.spentAt >= Tip - Window + 1
      BY <2>3 DEF Pending
    <3>4. row.spentAt >= 1
      BY <3>3 DEF Typed, RecentOk
    <3>5. row.spentAt >= Bottom(p) /\ row.spentAt <= p.height
      BY <1>2, <3>2, <3>3, <3>4, BottomIs
    <3>6. collectRecentChain(p, Bottom(p))[row.spentAt] = chain[row.spentAt]
      BY <1>2, <3>1, <3>5, WindowIsChain
    <3>7. f # None /\ ~(row.spentAt < f)
      BY <2>1, <3>1, <3>3, <3>5, <3>6 DEF Found
    <3>8. f \in Nat
      BY <2>1 DEF Found
    <3>9. At(p, "reorg", f) \in handlers'
      BY <2>1, <3>7 DEF Advance
    <3>10. At(p, "reorg", f).at = "reorg" /\ At(p, "reorg", f).fork <= row.spentAt
      BY <1>2, <3>7, <3>8, AtFields
    <3> QED
      BY <2>2, <3>3, <3>9, <3>10 DEF Pending
  <2> QED
    BY <1>1, <2>2, <2>3, SpendsStay
<1>9. ASSUME NEW p \in handlers, handleReorg(p) PROVE SpendsHold'
  <2> SUFFICES ASSUME row'.utxo # None, row'.spent, row'.spentAt # None, trouble' \cap Excused = {}
               PROVE  row'.utxo < MaxTxs /\ mined'[row'.utxo + 1] = row'.spentAt
    BY DEF SpendsHold
  <2>1. p.at = "reorg" /\ Forgets(p.fork) /\ mined' = mined
    BY <1>9, ReorgIs DEF network
  <2>2. /\ row'.spentAt = row.spentAt /\ ~(row.spentAt >= p.fork) /\ row'.utxo = row.utxo
        /\ row'.spent = row.spent
    BY <2>1 DEF Forgets
  <2>3. ~Pending
    <3>1. handlers = {p}
      BY <1>1, OneHandlerIs DEF Excused
    <3>2. up /\ p.fork \in Nat
      BY HandlerFacts
    <3>3. ~(p.fork <= row.spentAt)
      BY <1>2, <2>2, <3>2
    <3> QED
      BY <2>1, <3>1, <3>2, <3>3 DEF Pending
  <2> QED
    BY <1>1, <2>1, <2>2, <2>3 DEF SpendsHold
<1>10. ASSUME NEW p \in handlers, pushRecentBlock(p) \/ updateCursor(p) \/ advanceSafe(p) PROVE SpendsHold'
  <2>1. p.at \notin {"compare", "reorg"} /\ row' = row /\ mined' = mined
    BY <1>10 DEF pushRecentBlock, updateCursor, advanceSafe, Keeping, network
  <2>2. trouble' \cap Excused = {} => ~Pending
    BY <1>1, <2>1, NothingPending DEF Excused
  <2> QED
    BY <1>1, <2>1, <2>2, SpendsStay
<1>11. CASE Elsewhere
  <2>1. UNCHANGED <<chain, mined, recent, up, handlers>>
    BY <1>11, ElsewhereIs DEF network
  <2>2. ASSUME NEW p \in projections, Projected(p) PROVE SpendsHold'
    <3>1. CASE row' = row
      BY <1>3, <2>1, <3>1
    <3>2. CASE row' = [utxo |-> p.live, height |-> p.height, spent |-> FALSE, spentAt |-> None]
      <4>1. row'.spentAt = None
        BY <3>2
      <4> QED
        BY <4>1 DEF SpendsHold
    <3>3. CASE /\ row.utxo + 1 \in 1 .. Len(p.history)
               /\ row' = [utxo |-> row.utxo, height |-> row.height, spent |-> TRUE, spentAt |-> p.history[row.utxo + 1]]
      <4>1. row'.utxo = row.utxo /\ row'.spentAt = p.history[row.utxo + 1]
        BY <3>3
      <4>2. "straddle" \notin trouble /\ p.history[row.utxo + 1] # None
              => mined[row.utxo + 1] = p.history[row.utxo + 1]
        BY <3>3 DEF ReadsHold
      <4>3. Len(p.history) \in Nat /\ Len(p.history) <= sent /\ sent \in Nat /\ sent <= MaxTxs
        BY ProjectionFacts, ChainFacts DEF Typed, ChainIsSound
      <4>4. row.utxo < MaxTxs
        BY <1>2, <3>3, <4>3, Constants
      <4> QED
        BY <1>1, <2>1, <4>1, <4>2, <4>4 DEF SpendsHold, Excused
    <3> QED
      BY <2>2, <3>1, <3>2, <3>3 DEF Projected
  <2> QED
    BY <1>3, <1>11, <2>1, <2>2, ElsewhereIs
<1>12. CASE Crash
  <2>1. UNCHANGED <<chain, mined, row, recent>> /\ Tip' = Tip /\ ~up'
    BY <1>12, CrashIs DEF network, db, Tip
  <2>2. Pending => Pending'
    BY <2>1 DEF Pending
  <2> QED
    BY <1>1, <2>1, <2>2, SpendsStay
<1>13. CASE Start
  <2>1. UNCHANGED <<chain, mined, row, recent>> /\ Tip' = Tip /\ handlers' = {Handler(chain)}
    BY <1>13 DEF Start, HeadersOnStart, network, db, Tip
  <2>2. Handler(chain).at = "compare"
    BY Handled DEF Typed
  <2>3. Pending => Pending'
    BY <2>1, <2>2 DEF Pending
  <2> QED
    BY <1>1, <2>1, <2>3, SpendsStay
<1> QED
  BY <1>4, <1>6, <1>7, <1>8, <1>9, <1>10, <1>11, <1>12, <1>13, NextCases DEF onHeader

-----------------------------------------------------------------------------
(* Theorems *)

\* The invariant holds at the start.
LEMMA InitIInv == Init => IInv
<1> SUFFICES ASSUME Init PROVE IInv
  OBVIOUS
<1>1. Typed
  BY InitTyped
<1>2. /\ projections = {} /\ row = NoRow /\ handlers = {Handler(chain)}
      /\ recent = [h \in {} |-> NoRow]
  BY DEF Init
<1>3. DOMAIN recent = {}
  BY <1>2
<1>4. row.height = None /\ row.spentAt = None
  BY <1>2 DEF NoRow
<1>5. ReadsHold
  BY <1>2 DEF ReadsHold
<1>6. RowIsDeep /\ SpendsHold
  BY <1>4 DEF RowIsDeep, SpendsHold
<1>7. OneHandler
  BY <1>1, <1>2, Handled DEF OneHandler, Typed
<1>8. Compared /\ NeighboursAreLinked
  BY <1>3 DEF Compared, NeighboursAreLinked
<1> QED
  BY <1>1, <1>5, <1>6, <1>7, <1>8 DEF IInv

\* The invariant is inductive.
LEMMA IInvStep == IInv /\ [Next]_vars => IInv'
BY TypedStep, ReadsStep, DeepStep, OneHandlerStep, ComparedStep, LinkedStep, SpendsStep DEF IInv

\* The invariant: what the database, the handlers and the projections know of the
\* chain, whatever the network, the requests and the process do.
THEOREM IndexerInvariant == Spec => []IInv
<1>1. Init => IInv
  BY InitIInv
<1>2. IInv /\ [Next]_vars => IInv'
  BY IInvStep
<1> QED
  BY <1>1, <1>2, PTL DEF Spec

\* What the database and the process hold stays within the chain, and no more blocks
\* are stored than are kept (sync-state.ts, trimRecentBlocks).
THEOREM IndexerTypeOK == Spec => []TypeOK
<1>1. IInv => TypeOK
  BY TypedIsTypeOK DEF IInv
<1> QED
  BY <1>1, IndexerInvariant, PTL

\* The height of a row's UTXO stays true through shallow reorganisations
\* (projector.ts, upsertLiveUtxo and its threshold).
THEOREM IndexerRowIsOnChain == Spec => []RowIsOnChain
<1>1. IInv => RowIsOnChain
  BY DeepIsOnChain DEF IInv
<1> QED
  BY <1>1, IndexerInvariant, PTL

\* A spend in a block that was abandoned is forgotten once the reorganisation is
\* handled (projector.ts, onHeader and handleReorg).
THEOREM IndexerAbandonedSpend == Spec => []AbandonedSpendIsUndone
<1>1. IInv => AbandonedSpendIsUndone
  BY DEF IInv, SpendsHold, Pending, AbandonedSpendIsUndone, Quiet, Excused
<1> QED
  BY <1>1, IndexerInvariant, PTL

\* Stored neighbours are parent and child (projector.ts, onHeader; sync-state.ts,
\* findReorgPoint and pushRecentBlock).
THEOREM IndexerNeighbours == Spec => []NeighboursAreLinked
<1>1. IInv => NeighboursAreLinked
  BY DEF IInv
<1> QED
  BY <1>1, IndexerInvariant, PTL

\* The row's UTXO is replaced by a projection's, which is no older, or forgotten.
LEMMA AdvancesStep == Typed /\ [Next]_vars => row'.utxo >= row.utxo \/ row'.utxo = None
<1> SUFFICES ASSUME Typed, [Next]_vars PROVE row'.utxo >= row.utxo \/ row'.utxo = None
  OBVIOUS
<1>1. row.utxo \in Nat
  BY SpendFacts
<1>2. ASSUME row' = row PROVE row'.utxo >= row.utxo
  BY <1>1, <1>2
<1>3. CASE Transact \/ Mine \/ Reorganise \/ Crash \/ Start
  <2>1. row' = row
    BY <1>3, MineIs, ReorganiseIs, CrashIs DEF Transact, Start, db
  <2> QED
    BY <1>2, <2>1
<1>4. ASSUME NEW p \in handlers, onHeader(p) PROVE row'.utxo >= row.utxo \/ row'.utxo = None
  <2>1. CASE Forgets(p.fork)
    <3>1. row'.utxo = row.utxo \/ row'.utxo = None
      BY <2>1 DEF Forgets
    <3> QED
      BY <1>1, <3>1
  <2> QED
    BY <1>2, <1>4, <2>1, HandlerIs
<1>5. CASE Elsewhere
  <2>1. ASSUME NEW p \in projections, Projected(p) PROVE row'.utxo >= row.utxo
    <3>1. row.utxo <= p.live /\ p.live \in Nat
      BY ProjectionFacts
    <3>2. row'.utxo = row.utxo \/ row'.utxo = p.live
      BY <2>1 DEF Projected
    <3> QED
      BY <1>1, <3>1, <3>2
  <2> QED
    BY <1>2, <1>5, <2>1, ElsewhereIs
<1> QED
  BY <1>3, <1>4, <1>5, NextCases

\* The row's UTXO never goes back to an earlier one: projections are chained
\* (projector.ts, schedule).
THEOREM IndexerRowOnlyAdvances == Spec => RowOnlyAdvances
<1>1. IInv /\ [Next]_vars => [row'.utxo >= row.utxo \/ row'.utxo = None]_vars
  BY AdvancesStep DEF IInv
<1> QED
  BY <1>1, IndexerInvariant, PTL DEF Spec, RowOnlyAdvances

=============================================================================
