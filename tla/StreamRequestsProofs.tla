------------------------ MODULE StreamRequestsProofs ------------------------
(***************************************************************************)
(* Theorems about StreamRequests, for any number of pages, any total and   *)
(* any share, and any number of posts of a confirmation.  The inductive    *)
(* invariant says what holds of every transaction a route has built, which *)
(* operation the chain took last, what the handlers have still to write,   *)
(* and how far, without a mishap, the row is behind the chain.             *)
(***************************************************************************)
EXTENDS StreamRequests, Sums

UtxoStatuses == {"UNFUNDED", "ACTIVE", "PAUSED", "COMPLETED", "CANCELLED"}
RowStatuses == {"NONE", "PENDING", "ACTIVE", "PAUSED", "CANCELLED"}
Ops == {"fund", "batch", "claim", "pause", "resume", "refill", "cancel"}
Places == {"idle", "signing", "waiting", "running"}
Mishaps == {"unconfirmed", "overlapped", "raced", "retried", "interrupted"}

Created == stream_create \cup payment_create \cup budget_create
Utxo == [status : UtxoStatuses, released : 0 .. Total, vested : 0 .. Total, held : 0 .. Total,
         refund : Int, value : 0 .. Total + Reserve, id : Nat]
Row == [status : RowStatuses, withdrawn : Nat]
Sibling == [funded : BOOLEAN, status : {"NONE", "PENDING", "ACTIVE"}]
Txs == [op : Ops, pay : Nat, back : Int, keep : Int, outs : Nat, first : {Sender, Recipient},
        spends : Nat]

\* What a handler may have to execute.
SetStatus(status) == Set([status |-> status])
SetWithdrawn(n) == Set([withdrawn |-> n])
Recording(n) == [into |-> "records", set |-> [amount |-> n]]
Todos == {<<>>, <<SetSibling>>, <<SetStatus("ACTIVE"), SetSibling>>, <<SetSibling, SetStatus("ACTIVE")>>}
         \cup {<<SetStatus(status)>> : status \in RowStatuses}
         \cup {<<Recording(n)>> : n \in Nat}
         \cup {<<SetWithdrawn(m), Recording(n)>> : m, n \in Nat}
Client == [at : Places, tx : Txs \cup {NoTx}, todo : Todos, tries : Nat]

Typed ==
  /\ terms \in Created
  /\ utxo \in Utxo /\ row \in Row /\ sibling \in Sibling /\ records \in Nat
  /\ client \in [Clients -> Client]
  /\ mishaps \subseteq Mishaps

-----------------------------------------------------------------------------
(* The chain and the pages *)

\* What falls due and what a recurring payment pays come in whole shares.
Whole(x) == \E k \in Nat : x = k * Share
WholeShares == /\ Whole(utxo.vested) /\ Whole(utxo.held)
               /\ ~Vests => Whole(utxo.released)

\* The other streams of a batch are funded with the watched one.
BatchIsFunded == sibling.funded => utxo.status # "UNFUNDED"

\* What a confirmation writes into the status of the row.
Becomes(op) == CASE op = "pause" -> "PAUSED" [] op = "cancel" -> "CANCELLED" [] OTHER -> "ACTIVE"

\* The statements a confirmation may still have to execute.
Remains(tx, todo) ==
  \/ todo = <<>>
  \/ /\ tx.op = "claim"
     /\ todo = <<Recording(tx.pay)>> \/ \E n \in Nat : todo = <<SetWithdrawn(n), Recording(tx.pay)>>
  \/ /\ tx.op = "batch"
     /\ todo \in {<<SetStatus("ACTIVE"), SetSibling>>, <<SetSibling, SetStatus("ACTIVE")>>,
                  <<SetStatus("ACTIVE")>>, <<SetSibling>>}
  \/ tx.op \notin {"claim", "batch"} /\ todo = <<SetStatus(Becomes(tx.op))>>

TxOk(tx) ==
  /\ tx \in Txs
  /\ tx.op # "refill" => tx.keep \in 0 .. Total + Reserve
  /\ tx.op = "batch" => sibling.status # "NONE"
  /\ terms.kind = "budget" => tx.op # "resume"

ClientOk(c) ==
  /\ client[c].at # "idle" => TxOk(client[c].tx)
  /\ client[c].at # "running" => client[c].todo = <<>>
  /\ client[c].at \in {"idle", "signing"} => client[c].tries = 0
  /\ client[c].at = "running" => Remains(client[c].tx, client[c].todo)
  /\ Outstanding(c) => client[c].tx.op # "refill"
  /\ Outstanding(c) /\ client[c].tx.op = "cancel" => utxo.status = "CANCELLED"
ClientsOk == \A c \in Clients : ClientOk(c)

\* Before its batch is created, nothing has happened to a stream.
NoneIsFresh ==
  row.status = "NONE" =>
    /\ terms.kind = "stream" /\ utxo.status = "UNFUNDED"
    /\ row.withdrawn = 0 /\ records = 0 /\ sibling.status = "NONE"
    /\ \A c \in Clients : client[c].at = "idle"

CancelledOnChain == row.status = "CANCELLED" => utxo.status = "CANCELLED"

-----------------------------------------------------------------------------
(* One thing at a time *)

\* What a transaction leaves, as long as it is the last one.
Result(op) == CASE op = "pause" -> {"PAUSED"} [] op = "cancel" -> {"CANCELLED"}
                [] op = "claim" -> {"ACTIVE", "COMPLETED"} [] OTHER -> {"ACTIVE"}

OneOutstanding ==
  "overlapped" \notin mishaps =>
    /\ \A c, d \in Clients : Outstanding(c) /\ Outstanding(d) => c = d
    /\ \A c \in Clients : Outstanding(c) => utxo.status \in Result(client[c].tx.op)

OneWriter ==
  "raced" \notin mishaps => \A c, d \in Clients : Writing(c) /\ Writing(d) => c = d

\* c's handler has still to write the status of the row.
SetsStatus(c) ==
  /\ Writing(c)
  /\ client[c].tx.op # "claim"
  /\ client[c].tx.op = "batch" => client[c].todo # <<SetSibling>>

NotYetCancelled ==
  terms.kind \in Streams /\ "raced" \notin mishaps =>
    \A c \in Clients : SetsStatus(c) => row.status # "CANCELLED"

-----------------------------------------------------------------------------
(* The records *)

\* A claim of c's that was mined and is not recorded yet, in its first confirmation.
Owed(c) == /\ (client[c].at = "waiting" /\ client[c].tries = 0) \/ Writing(c)
           /\ client[c].tx.op = "claim"
Unrecorded == [c \in Clients |-> IF Owed(c) THEN client[c].tx.pay ELSE 0]

RecordsTrail ==
  "retried" \notin mishaps => records + SumFunctionOnSet(Unrecorded, Clients) <= utxo.released

\* How a handler that is writing has left the amounts.
Halfway(c) ==
  IF client[c].tx.op # "claim" THEN row.withdrawn = records
  ELSE IF client[c].todo = <<Recording(client[c].tx.pay)>> THEN row.withdrawn = records + client[c].tx.pay
  ELSE /\ row.withdrawn = records
       /\ client[c].todo = <<SetWithdrawn(records + client[c].tx.pay), Recording(client[c].tx.pay)>>

WithdrawnAddsUp ==
  {"raced", "interrupted"} \cap mishaps = {} =>
    /\ (\A c \in Clients : ~Writing(c)) => row.withdrawn = records
    /\ \A c \in Clients : Writing(c) => Halfway(c)

-----------------------------------------------------------------------------
(* The row *)

SiblingAgrees == sibling.funded <=> sibling.status = "ACTIVE"
StatusAgrees == CASE utxo.status = "UNFUNDED" -> row.status \in {"NONE", "PENDING"}
                  [] utxo.status = "COMPLETED" -> row.status = "ACTIVE"
                  [] OTHER -> row.status = utxo.status
Agreed == StatusAgrees /\ row.withdrawn = utxo.released /\ SiblingAgrees

\* The confirmation of c's transaction has written everything.
Recorded(c) == \/ client[c].at = "waiting" /\ client[c].tries > 0
               \/ client[c].at = "running" /\ ~Writing(c)

\* The status of the row that a confirmation is going to change.
From(op) == CASE op = "fund" -> {"PENDING"} [] op = "pause" -> {"ACTIVE"}
              [] op = "resume" -> {"PAUSED"} [] OTHER -> Live

BehindClaim(tx, todo) ==
  /\ row.status = "ACTIVE" /\ SiblingAgrees
  /\ IF todo = <<Recording(tx.pay)>> THEN row.withdrawn = utxo.released
     ELSE row.withdrawn + tx.pay = utxo.released
  /\ todo \in {<<>>, <<Recording(tx.pay)>>, <<SetWithdrawn(utxo.released), Recording(tx.pay)>>}
BehindBatch(todo) ==
  /\ row.withdrawn = utxo.released /\ sibling.funded
  /\ row.status = IF todo = <<SetSibling>> THEN "ACTIVE" ELSE "PENDING"
  /\ sibling.status = IF todo = <<SetStatus("ACTIVE")>> THEN "ACTIVE" ELSE "PENDING"
BehindStatus(tx) ==
  /\ row.withdrawn = utxo.released /\ SiblingAgrees
  /\ row.status \in From(tx.op)
  /\ terms.kind = "payment" /\ tx.op = "cancel" => tx.back = Total - utxo.released
Behind(tx, todo) == CASE tx.op = "claim" -> BehindClaim(tx, todo)
                      [] tx.op = "batch" -> BehindBatch(todo)
                      [] OTHER -> BehindStatus(tx)

RowFollows ==
  mishaps = {} =>
    /\ (\A c \in Clients : ~Outstanding(c)) => Agreed
    /\ \A c \in Clients : Outstanding(c) =>
         IF Recorded(c) THEN Agreed ELSE Behind(client[c].tx, client[c].todo)

IInv ==
  /\ Typed /\ WholeShares /\ BatchIsFunded /\ ClientsOk /\ NoneIsFresh /\ CancelledOnChain
  /\ OneOutstanding /\ OneWriter /\ NotYetCancelled
  /\ RecordsTrail /\ WithdrawnAddsUp /\ RowFollows

-----------------------------------------------------------------------------
(* Constants, types, and the words of a handler *)

\* The assumption on the constants, fact by fact.
LEMMA CFacts ==
  /\ IsFiniteSet(Clients) /\ Sender # Recipient
  /\ \A c \in Clients : Owner[c] \in {Sender, Recipient}
  /\ Share \in Nat /\ Share >= 1 /\ Total \in Nat /\ Total >= 1 /\ MaxMoves \in Nat
BY StreamConstants

\* What every route that creates leaves in the terms.
LEMMA TermFacts ==
  ASSUME terms \in Created
  PROVE  /\ terms.kind \in {"stream", "recurring", "payment", "budget"}
         /\ terms.cancelable \in BOOLEAN /\ terms.pausable \in BOOLEAN
         /\ terms.total \in {0, Total}
         /\ terms.kind # "recurring" => terms.total = Total
BY DEF Created, stream_create, payment_create, budget_create, Terms

\* The numbers of the UTXO and of the row.
LEMMA Numbers ==
  ASSUME Typed
  PROVE  /\ utxo.status \in UtxoStatuses
         /\ utxo.released \in Nat /\ utxo.released <= Total
         /\ utxo.vested \in Nat /\ utxo.vested <= Total
         /\ utxo.held \in Nat /\ utxo.held <= Total
         /\ utxo.value \in Nat /\ utxo.value <= Total + Reserve
         /\ utxo.refund \in Int /\ utxo.id \in Nat
         /\ row.status \in RowStatuses /\ row.withdrawn \in Nat /\ records \in Nat
         /\ sibling.funded \in BOOLEAN /\ sibling.status \in {"NONE", "PENDING", "ACTIVE"}
         /\ Left \in Nat /\ Left <= Total
         /\ Total - utxo.vested \in Nat
<1>1. utxo \in Utxo /\ row \in Row /\ sibling \in Sibling /\ records \in Nat /\ Total \in Nat
  BY CFacts DEF Typed
<1>2. /\ utxo.status \in UtxoStatuses /\ utxo.released \in 0 .. Total /\ utxo.vested \in 0 .. Total
      /\ utxo.held \in 0 .. Total /\ utxo.value \in 0 .. Total + Reserve
      /\ utxo.refund \in Int /\ utxo.id \in Nat
  BY <1>1 DEF Utxo
<1>3. /\ row.status \in RowStatuses /\ row.withdrawn \in Nat
      /\ sibling.funded \in BOOLEAN /\ sibling.status \in {"NONE", "PENDING", "ACTIVE"}
  BY <1>1 DEF Row, Sibling
<1> QED
  BY <1>1, <1>2, <1>3 DEF Reserve, Left

\* What a page may be at, hold and have left to write.
LEMMA ClientFields ==
  ASSUME Typed, NEW c \in Clients
  PROVE  /\ client[c] \in Client
         /\ client[c].at \in Places /\ client[c].tries \in Nat /\ client[c].todo \in Todos
         /\ client[c].tx \in Txs \cup {NoTx}
<1>1. client[c] \in Client
  BY DEF Typed
<1> QED
  BY <1>1 DEF Client

\* Changing one field of a page's record, when it moves on.
LEMMA ExceptAt ==
  ASSUME NEW p \in Client, NEW a
  PROVE  [p EXCEPT !.at = a] = [at |-> a, tx |-> p.tx, todo |-> p.todo, tries |-> p.tries]
BY DEF Client

\* The same, when a confirmation has one statement less to write.
LEMMA ExceptTodo ==
  ASSUME NEW p \in Client, NEW d
  PROVE  [p EXCEPT !.todo = d] = [at |-> p.at, tx |-> p.tx, todo |-> d, tries |-> p.tries]
BY DEF Client

\* The same, when a transaction is taken up or put down.
LEMMA ExceptAtTx ==
  ASSUME NEW p \in Client, NEW a, NEW t
  PROVE  [p EXCEPT !.at = a, !.tx = t] = [at |-> a, tx |-> t, todo |-> p.todo, tries |-> p.tries]
<1>1. PICK x : x = [p EXCEPT !.at = a]
  OBVIOUS
<1>2. x = [at |-> a, tx |-> p.tx, todo |-> p.todo, tries |-> p.tries]
  BY <1>1, ExceptAt
<1>3. PICK z : z = [x EXCEPT !.tx = t]
  OBVIOUS
<1>4. z = [at |-> a, tx |-> t, todo |-> p.todo, tries |-> p.tries]
  BY <1>2, <1>3
<1> QED
  BY <1>1, <1>3, <1>4

\* The same, when a confirmation starts or fails.
LEMMA ExceptAtTodo ==
  ASSUME NEW p \in Client, NEW a, NEW d
  PROVE  [p EXCEPT !.at = a, !.todo = d] = [at |-> a, tx |-> p.tx, todo |-> d, tries |-> p.tries]
<1>1. PICK x : x = [p EXCEPT !.at = a]
  OBVIOUS
<1>2. x = [at |-> a, tx |-> p.tx, todo |-> p.todo, tries |-> p.tries]
  BY <1>1, ExceptAt
<1>3. PICK z : z = [x EXCEPT !.todo = d]
  OBVIOUS
<1>4. z = [at |-> a, tx |-> p.tx, todo |-> d, tries |-> p.tries]
  BY <1>2, <1>3
<1> QED
  BY <1>1, <1>3, <1>4

\* A page's record from its fields.
LEMMA PageIs ==
  ASSUME NEW a \in Places, NEW t \in Txs \cup {NoTx}, NEW d \in Todos, NEW n \in Nat
  PROVE  [at |-> a, tx |-> t, todo |-> d, tries |-> n] \in Client
BY DEF Client

\* Nothing to do is a list of things to do.
LEMMA NothingToDo == <<>> \in Todos
BY DEF Todos

\* The fields of a transaction.
LEMMA TxTypes ==
  ASSUME NEW tx \in Txs
  PROVE  /\ tx.op \in Ops /\ tx.pay \in Nat /\ tx.back \in Int /\ tx.keep \in Int
         /\ tx.outs \in Nat /\ tx.spends \in Nat
BY DEF Txs

\* No two of the statements are the same.
LEMMA StatementsDiffer ==
  ASSUME NEW s, NEW m, NEW n
  PROVE  /\ SetStatus(s) # SetSibling /\ SetWithdrawn(n) # SetSibling /\ Recording(n) # SetSibling
         /\ SetStatus(s) # SetWithdrawn(n) /\ SetStatus(s) # Recording(n)
         /\ SetWithdrawn(n) # Recording(m)
         /\ SetStatus(s).into = "row" /\ SetWithdrawn(n).into = "row"
         /\ SetSibling.into = "sibling" /\ Recording(n).into = "records"
         /\ SetStatus(s).set = [status |-> s] /\ SetWithdrawn(n).set = [withdrawn |-> n]
         /\ Recording(n).set.amount = n
BY DEF SetStatus, SetWithdrawn, Recording, Set, SetSibling

\* Statements that write different values differ.
LEMMA StatementsCarry ==
  ASSUME NEW m, NEW n
  PROVE  /\ SetStatus(m) = SetStatus(n) => m = n
         /\ SetWithdrawn(m) = SetWithdrawn(n) => m = n
         /\ Recording(m) = Recording(n) => m = n
<1>1. SetStatus(m) = SetStatus(n) => m = n
  BY DEF SetStatus, Set
<1>2. SetWithdrawn(m) = SetWithdrawn(n) => m = n
  BY DEF SetWithdrawn, Set
<1>3. Recording(m) = Recording(n) => m = n
  BY DEF Recording
<1> QED
  BY <1>1, <1>2, <1>3

\* The first statement of a list and the others.
LEMMA Lists ==
  ASSUME NEW a, NEW b
  PROVE  /\ Head(<<a>>) = a /\ Tail(<<a>>) = <<>> /\ <<a>> # <<>>
         /\ Head(<<a, b>>) = a /\ Tail(<<a, b>>) = <<b>> /\ <<a, b>> # <<>>
         /\ \A c : <<a, b>> # <<c>>
         /\ \A c : <<a>> = <<c>> => a = c
         /\ \A c, d : <<a, b>> = <<c, d>> => a = c /\ b = d
OBVIOUS

\* An UPDATE of one column.
LEMMA UpdatedIs ==
  ASSUME row \in Row
  PROVE  /\ \A s : Updated([status |-> s]) = [status |-> s, withdrawn |-> row.withdrawn]
         /\ \A n : Updated([withdrawn |-> n]) = [status |-> row.status, withdrawn |-> n]
BY DEF Updated, Row

-----------------------------------------------------------------------------
(* Whole shares *)

\* Nothing is a whole number of shares; a share more is one too.
LEMMA WholeNext ==
  /\ Whole(0)
  /\ \A x \in Nat : Whole(x) => Whole(x + Share)
<1>1. 0 = 0 * Share
  BY CFacts
<1>2. ASSUME NEW x \in Nat, Whole(x) PROVE Whole(x + Share)
  <2>1. PICK k \in Nat : x = k * Share
    BY <1>2 DEF Whole
  <2>2. x + Share = (k + 1) * Share /\ k + 1 \in Nat
    BY <2>1, CFacts
  <2> QED
    BY <2>2 DEF Whole
<1> QED
  BY <1>1, <1>2 DEF Whole

\* Two whole numbers of shares that differ differ by a share at least.
LEMMA WholeGap ==
  ASSUME NEW x \in Nat, NEW y \in Nat, Whole(x), Whole(y), x < y
  PROVE  x + Share <= y
<1>1. PICK k \in Nat : x = k * Share
  BY DEF Whole
<1>2. PICK m \in Nat : y = m * Share
  BY DEF Whole
<1>3. k < m
  <2>1. SUFFICES ASSUME m <= k PROVE FALSE
    BY <1>1, <1>2
  <2>2. PICK j \in Nat : k = m + j
    BY <2>1
  <2>3. k * Share = m * Share + j * Share /\ j * Share >= 0
    BY <2>2, CFacts
  <2> QED
    BY <1>1, <1>2, <2>3, CFacts
<1>4. PICK j \in Nat : m = k + 1 + j
  <2>1. m - k - 1 \in Nat /\ m = k + 1 + (m - k - 1)
    BY <1>3
  <2> QED
    BY <2>1
<1>5. m * Share = k * Share + Share + j * Share /\ j * Share >= 0
  BY <1>4, CFacts
<1> QED
  BY <1>1, <1>2, <1>5, CFacts

-----------------------------------------------------------------------------
(* What the routes build *)

\* A transaction that a page may be asked to sign now.
Buildable(txs) == \A tx \in txs : TxOk(tx) /\ tx.op # "batch"

\* The fields of what a builder starts from.
LEMMA TxIs ==
  ASSUME Typed, NEW op, NEW keep, NEW outs
  PROVE  Tx(op, keep, outs) = [op |-> op, pay |-> 0, back |-> 0, keep |-> keep, outs |-> outs,
                               first |-> Sender, spends |-> utxo.id]
BY DEF Tx

\* A transaction without a payment.
LEMMA PlainOk ==
  ASSUME Typed, NEW op \in Ops \ {"batch"}, NEW keep \in Int, NEW outs \in Nat,
         op # "refill" => keep \in 0 .. Total + Reserve,
         terms.kind = "budget" => op # "resume"
  PROVE  TxOk(Tx(op, keep, outs)) /\ Tx(op, keep, outs).op = op
<1>1. PICK tx : tx = Tx(op, keep, outs)
  OBVIOUS
<1>2. tx = [op |-> op, pay |-> 0, back |-> 0, keep |-> keep, outs |-> outs,
            first |-> Sender, spends |-> utxo.id]
  BY <1>1, TxIs
<1>3. tx \in Txs
  BY <1>2, Numbers DEF Txs
<1>4. tx.op = op /\ tx.keep = keep
  BY <1>2
<1> QED
  BY <1>1, <1>3, <1>4 DEF TxOk

\* A funding of one stream, payment or plan keeps the total and the reserve.
LEMMA FundOk ==
  ASSUME Typed
  PROVE  Buildable({Tx("fund", Total + Reserve, 2)})
<1>1. Total + Reserve \in 0 .. Total + Reserve /\ Total + Reserve \in Int /\ 2 \in Nat
  BY CFacts DEF Reserve
<1>2. TxOk(Tx("fund", Total + Reserve, 2)) /\ Tx("fund", Total + Reserve, 2).op = "fund"
  BY <1>1, PlainOk DEF Ops
<1> QED
  BY <1>2 DEF Buildable

\* A payout that leaves something leaves no more than there was.
LEMMA PayoutOk ==
  ASSUME Typed, NEW amount \in Nat, NEW fee \in Nat, NEW outs \in Nat,
         utxo.value - amount - fee >= 0
  PROVE  Buildable(Payout(amount, fee, outs))
<1>1. SUFFICES ASSUME NEW tx \in Payout(amount, fee, outs) PROVE TxOk(tx) /\ tx.op # "batch"
  BY DEF Buildable
<1>2. PICK keep : keep = utxo.value - amount - fee
  OBVIOUS
<1>3. keep \in 0 .. Total + Reserve
  BY <1>2, Numbers, CFacts DEF Reserve
<1>4. tx = [Tx("claim", keep, outs) EXCEPT !.pay = amount]
  BY <1>1, <1>2 DEF Payout
<1>5. tx = [op |-> "claim", pay |-> amount, back |-> 0, keep |-> keep, outs |-> outs,
            first |-> Sender, spends |-> utxo.id]
  BY <1>4, TxIs
<1>6. tx \in Txs
  BY <1>3, <1>5, Numbers DEF Txs, Ops
<1>7. tx.op = "claim" /\ tx.keep = keep
  BY <1>5
<1> QED
  BY <1>3, <1>6, <1>7 DEF TxOk

\* The payouts of the builders.
LEMMA ClaimsOk ==
  ASSUME Typed
  PROVE  Buildable(VestingClaimTxs) /\ Buildable(IntervalTxs) /\ Buildable(BudgetReleaseTxs)
<1>1. Claimable > 0 => Claimable \in Nat
  BY Numbers DEF Claimable
<1>2. Buildable(VestingClaimTxs)
  <2>1. CASE Claimable > 0 /\ utxo.value - Claimable - ClaimFee >= Dust
    <3>1. VestingClaimTxs = Payout(Claimable, ClaimFee, 2)
      BY <2>1 DEF VestingClaimTxs, Where
    <3>2. Claimable \in Nat /\ ClaimFee \in Nat /\ 2 \in Nat /\ utxo.value - Claimable - ClaimFee >= 0
      BY <1>1, <2>1, Numbers DEF ClaimFee, Dust
    <3> QED
      BY <3>1, <3>2, PayoutOk
  <2>2. CASE ~(Claimable > 0 /\ utxo.value - Claimable - ClaimFee >= Dust)
    BY <2>2 DEF VestingClaimTxs, Where, Buildable
  <2> QED
    BY <2>1, <2>2
<1>3. Buildable(IntervalTxs)
  <2>1. CASE Claimable > 0 /\ utxo.value - Share - ClaimFee >= Dust
    <3>1. IntervalTxs = Payout(Share, ClaimFee, 2)
      BY <2>1 DEF IntervalTxs, Where
    <3>2. Share \in Nat /\ ClaimFee \in Nat /\ 2 \in Nat /\ utxo.value - Share - ClaimFee >= 0
      BY <2>1, CFacts, Numbers DEF ClaimFee, Dust
    <3> QED
      BY <3>1, <3>2, PayoutOk
  <2>2. CASE ~(Claimable > 0 /\ utxo.value - Share - ClaimFee >= Dust)
    BY <2>2 DEF IntervalTxs, Where, Buildable
  <2> QED
    BY <2>1, <2>2
<1>4. Buildable(BudgetReleaseTxs)
  <2>1. CASE Claimable > 0 /\ utxo.value - Claimable >= Dust
    <3>1. BudgetReleaseTxs = Payout(Claimable, 0, 2) \cup Payout(Claimable, 0, 3)
      BY <2>1 DEF BudgetReleaseTxs, Where
    <3>2. Claimable \in Nat /\ utxo.value - Claimable - 0 >= 0
      BY <1>1, <2>1, Numbers DEF Dust
    <3>3. Buildable(Payout(Claimable, 0, 2)) /\ Buildable(Payout(Claimable, 0, 3))
      BY <3>2, PayoutOk
    <3> QED
      BY <3>1, <3>3 DEF Buildable
  <2>2. CASE ~(Claimable > 0 /\ utxo.value - Claimable >= Dust)
    BY <2>2 DEF BudgetReleaseTxs, Where, Buildable
  <2> QED
    BY <2>1, <2>2
<1> QED
  BY <1>2, <1>3, <1>4

\* A change of state costs a fee.
LEMMA StateOk ==
  ASSUME Typed, NEW op \in {"pause", "resume"}, NEW fee \in Nat, NEW from,
         terms.kind = "budget" => op # "resume"
  PROVE  Buildable(StateTxs(op, fee, from))
<1>1. CASE utxo.status = from /\ utxo.value - fee >= Dust
  <2>1. StateTxs(op, fee, from) = {Tx(op, utxo.value - fee, 1)}
    BY <1>1 DEF StateTxs, Where
  <2>2. PICK keep : keep = utxo.value - fee
    OBVIOUS
  <2>3. keep \in 0 .. Total + Reserve
    BY <1>1, <2>2, Numbers, CFacts DEF Dust, Reserve
  <2>5. op \in Ops \ {"batch"} /\ keep \in Int /\ 1 \in Nat
    BY <2>3, CFacts DEF Ops, Reserve
  <2>4. TxOk(Tx(op, keep, 1)) /\ Tx(op, keep, 1).op = op
    BY <2>3, <2>5, PlainOk
  <2> QED
    BY <2>1, <2>2, <2>4 DEF Buildable
<1>2. CASE ~(utxo.status = from /\ utxo.value - fee >= Dust)
  BY <1>2 DEF StateTxs, Where, Buildable
<1> QED
  BY <1>1, <1>2

\* A refill is built, whatever becomes of it.
LEMMA RefillOk ==
  ASSUME Typed
  PROVE  Buildable(RefillTxs)
<1>1. utxo.value + Share \in Int
  BY Numbers, CFacts
<1>2. TxOk(Tx("refill", utxo.value + Share, 2)) /\ Tx("refill", utxo.value + Share, 2).op = "refill"
  BY <1>1, PlainOk DEF Ops
<1> QED
  BY <1>2 DEF RefillTxs, Where, Buildable

\* The outputs of a cancellation are counted one by one.
LEMMA Counting ==
  \A x \in Int : Positive(x) \in Nat /\ MoreThanDust(x) \in Nat
BY DEF Positive, MoreThanDust

\* A cancellation leaves nothing behind.
LEMMA CancelOk ==
  ASSUME Typed, NEW amount \in Nat, NEW back \in Int, NEW outs \in Nat, NEW first \in {Sender, Recipient},
         NEW tx, tx = [op |-> "cancel", pay |-> amount, back |-> back, keep |-> 0, outs |-> outs,
                       first |-> first, spends |-> utxo.id]
  PROVE  TxOk(tx) /\ tx.op # "batch"
<1>1. tx \in Txs
  BY Numbers DEF Txs, Ops
<1>2. tx.op = "cancel" /\ tx.keep = 0 /\ 0 \in 0 .. Total + Reserve
  BY CFacts DEF Reserve
<1> QED
  BY <1>1, <1>2 DEF TxOk

\* The cancellation of a vesting covenant.
LEMMA VestingCancelOk ==
  ASSUME Typed
  PROVE  Buildable(VestingCancelTxs)
<1> DEFINE unvested == Total - utxo.vested
           payee == IF Claimable > 0 THEN Claimable ELSE IF unvested > 0 THEN Dust ELSE 0
           change == utxo.value - payee - unvested - ClaimFee
           outs == Positive(payee) + Positive(unvested) + MoreThanDust(change)
           first == IF payee > 0 THEN Recipient ELSE Sender
<1>1. unvested \in Int /\ payee \in Nat /\ change \in Int
  BY Numbers DEF Claimable, Dust, ClaimFee
<1>2. outs \in Nat
  <2> HIDE DEF unvested, payee, change
  <2>1. Positive(payee) \in Nat /\ Positive(unvested) \in Nat /\ MoreThanDust(change) \in Nat
    BY <1>1, Counting
  <2> QED
    BY <2>1
<1>3. first \in {Sender, Recipient}
  OBVIOUS
<1>4. SUFFICES ASSUME NEW tx \in VestingCancelTxs PROVE TxOk(tx) /\ tx.op # "batch"
  BY DEF Buildable
<1>5. tx = [Tx("cancel", 0, outs) EXCEPT !.pay = payee, !.back = unvested, !.first = first]
  BY DEF VestingCancelTxs, Where
<1> HIDE DEF unvested, payee, change, outs, first
<1>7. PICK plain : plain = Tx("cancel", 0, outs)
  OBVIOUS
<1>8. plain = [op |-> "cancel", pay |-> 0, back |-> 0, keep |-> 0, outs |-> outs,
               first |-> Sender, spends |-> utxo.id]
  BY <1>7, TxIs
<1>9. tx = [plain EXCEPT !.pay = payee, !.back = unvested, !.first = first]
  BY <1>5, <1>7
<1>6. tx = [op |-> "cancel", pay |-> payee, back |-> unvested, keep |-> 0, outs |-> outs,
            first |-> first, spends |-> utxo.id]
  BY <1>8, <1>9
<1> QED
  BY <1>1, <1>2, <1>3, <1>6, CancelOk

\* The cancellation of a recurring covenant.
LEMMA RefundOk ==
  ASSUME Typed, NEW fee \in Nat
  PROVE  Buildable(RefundTxs(fee))
<1> DEFINE remaining == IF terms.total > 0 THEN Left ELSE 0
           change == utxo.value - remaining - fee
           outs == Positive(remaining) + MoreThanDust(change)
           back == IF remaining > 0 THEN remaining ELSE change
<1>1. remaining \in Int /\ change \in Int /\ back \in Int
  BY Numbers
<1>2. outs \in Nat
  <2> HIDE DEF remaining, change
  <2>1. Positive(remaining) \in Nat /\ MoreThanDust(change) \in Nat
    BY <1>1, Counting
  <2> QED
    BY <2>1
<1>3. SUFFICES ASSUME NEW tx \in RefundTxs(fee) PROVE TxOk(tx) /\ tx.op # "batch"
  BY DEF Buildable
<1>4. tx = [Tx("cancel", 0, outs) EXCEPT !.back = back]
  BY DEF RefundTxs, Where
<1> HIDE DEF remaining, change, outs, back
<1>5. tx = [op |-> "cancel", pay |-> 0, back |-> back, keep |-> 0, outs |-> outs,
            first |-> Sender, spends |-> utxo.id]
  BY <1>4, TxIs
<1> QED
  BY <1>1, <1>2, <1>5, CancelOk

\* A builder with a condition builds no more than without.
LEMMA WhereOk ==
  ASSUME NEW txs, NEW guard, Buildable(txs)
  PROVE  Buildable(Where(txs, guard))
BY DEF Buildable, Where

-----------------------------------------------------------------------------
(* The steps *)

\* A page gets a transaction signed.
SignStep(c) ==
  /\ \E tx : TxOk(tx) /\ tx.op # "batch" /\ Sign(c, tx)
  /\ ~(terms.kind = "stream" /\ row.status = "NONE")
  /\ UNCHANGED <<terms, chain, db, mishaps>>

\* A page ends its operation without leaving a trace.
IdleStep(c) ==
  /\ \/ At(c, "signing")
     \/ At(c, "running") /\ ~Writing(c)
     \/ At(c, "waiting") /\ ~Verified(client[c].tx)
  /\ client' = [client EXCEPT ![c] = Idle]
  /\ UNCHANGED <<terms, chain, db, mishaps>>

\* The network takes a transaction.
Taken(c) ==
  /\ At(c, "signing") /\ Accepts(client[c].tx)
  /\ Broadcast(c)
  /\ utxo' = After(client[c].tx)
  /\ sibling' = [sibling EXCEPT !.funded = @ \/ client[c].tx.op = "batch"]
  /\ mishaps' = mishaps
       \cup Where({"unconfirmed"}, ~Outstanding(c)')
       \cup Where({"overlapped"}, \E other \in Clients \ {c} : Outstanding(other))
  /\ UNCHANGED <<terms, row, records>>

\* A confirmation passes its checks.
Confirmed(c) ==
  /\ At(c, "waiting") /\ Verified(client[c].tx)
  /\ \E statements \in Statements(client[c].tx) : Confirm(c, statements)
  /\ mishaps' = mishaps
       \cup Where({"retried"}, client[c].tries > 0)
       \cup Where({"raced"}, \E other \in Clients \ {c} : Writing(other))
  /\ UNCHANGED <<terms, chain, db>>

\* An offer of transactions that may be signed.
LEMMA OfferOk ==
  ASSUME NEW kinds, NEW c, NEW txs, Offer(kinds, c, txs),
         terms.kind \in kinds => Buildable(txs),
         terms.kind = "stream" /\ row.status = "NONE" => txs = {}
  PROVE  SignStep(c)
BY DEF Offer, Buildable, SignStep

\* The offers of the pages of streams and recurring payments.
LEMMA StreamOffers ==
  ASSUME Typed, NEW c \in Clients, StreamDetailPage(c)
  PROVE  SignStep(c)
<1> USE DEF By, Live
<1>1. CASE fundStream(c)
  <2>1. Buildable(stream_funding_info(c))
    BY FundOk, WhereOk DEF stream_funding_info, StreamFundTxs
  <2>2. row.status = "NONE" => stream_funding_info(c) = {}
    BY DEF stream_funding_info, Where
  <2> QED
    BY <1>1, <2>1, <2>2, OfferOk DEF fundStream
<1>2. CASE claimStreamFunds(c)
  <2>1. Buildable(stream_claim(c))
    BY ClaimsOk, WhereOk DEF stream_claim
  <2>2. row.status = "NONE" => stream_claim(c) = {}
    BY DEF stream_claim, Where
  <2> QED
    BY <1>2, <2>1, <2>2, OfferOk DEF claimStreamFunds
<1>3. CASE pauseStreamOnChain(c)
  <2>1. Buildable(stream_pause(c))
    <3>1. StateFee \in Nat /\ RecurringFee \in Nat
      BY DEF StateFee, RecurringFee
    <3>2. Buildable(StateTxs("pause", StateFee, "ACTIVE")) /\ Buildable(StateTxs("pause", RecurringFee, "ACTIVE"))
      BY <3>1, StateOk
    <3> QED
      BY <3>2, WhereOk DEF stream_pause, VestingPauseTxs, RecurringPauseTxs
  <2>2. row.status = "NONE" => stream_pause(c) = {}
    BY DEF stream_pause, Where
  <2> QED
    BY <1>3, <2>1, <2>2, OfferOk DEF pauseStreamOnChain
<1>4. CASE resumeStreamOnChain(c)
  <2>1. terms.kind \in Streams => Buildable(stream_resume(c))
    <3>1. StateFee \in Nat /\ RecurringFee \in Nat
      BY DEF StateFee, RecurringFee
    <3>2. SUFFICES ASSUME terms.kind \in Streams PROVE Buildable(stream_resume(c))
      OBVIOUS
    <3>3. terms.kind # "budget"
      BY <3>2 DEF Streams
    <3>4. Buildable(StateTxs("resume", StateFee, "PAUSED")) /\ Buildable(StateTxs("resume", RecurringFee, "PAUSED"))
      BY <3>1, <3>3, StateOk
    <3> QED
      BY <3>4, WhereOk DEF stream_resume, VestingResumeTxs, RecurringResumeTxs
  <2>2. row.status = "NONE" => stream_resume(c) = {}
    BY DEF stream_resume, Where
  <2> QED
    BY <1>4, <2>1, <2>2, OfferOk DEF resumeStreamOnChain
<1>5. CASE refillStreamOnChain(c)
  <2>1. Buildable(stream_refill(c))
    BY RefillOk, WhereOk DEF stream_refill
  <2>2. row.status = "NONE" => stream_refill(c) = {}
    BY DEF stream_refill, Where
  <2> QED
    BY <1>5, <2>1, <2>2, OfferOk DEF refillStreamOnChain
<1>6. CASE cancelStreamOnChain(c)
  <2>1. Buildable(stream_cancel(c))
    <3>1. ClaimFee \in Nat
      BY DEF ClaimFee
    <3> QED
      BY <3>1, VestingCancelOk, RefundOk, WhereOk DEF stream_cancel, RecurringCancelTxs
  <2>2. row.status = "NONE" => stream_cancel(c) = {}
    BY DEF stream_cancel, Where
  <2> QED
    BY <1>6, <2>1, <2>2, OfferOk DEF cancelStreamOnChain
<1> QED
  BY <1>1, <1>2, <1>3, <1>4, <1>5, <1>6 DEF StreamDetailPage, StreamControls

\* The offers of the page of a payment.
LEMMA PaymentOffers ==
  ASSUME Typed, NEW c \in Clients, PaymentDetailPage(c)
  PROVE  SignStep(c)
<1>1. ASSUME NEW txs, Offer({"payment"}, c, txs), terms.kind # "budget" => Buildable(txs)
      PROVE  SignStep(c)
  <2>1. terms.kind = "payment"
    BY <1>1 DEF Offer
  <2> QED
    BY <1>1, <2>1, OfferOk
<1>2. Buildable(payment_funding_info(c))
  BY FundOk, WhereOk DEF payment_funding_info, PaymentFundTxs
<1>3. Buildable(payment_claim(c))
  BY ClaimsOk, WhereOk DEF payment_claim
<1>4. RecurringFee \in Nat /\ RefundFee \in Nat
  BY DEF RecurringFee, RefundFee
<1>5. Buildable(payment_pause(c))
  <2>1. Buildable(StateTxs("pause", RecurringFee, "ACTIVE"))
    BY <1>4, StateOk
  <2> QED
    BY <2>1, WhereOk DEF payment_pause, RecurringPauseTxs
<1>6. terms.kind # "budget" => Buildable(payment_resume(c))
  <2>1. terms.kind # "budget" => Buildable(StateTxs("resume", RecurringFee, "PAUSED"))
    BY <1>4, StateOk
  <2> QED
    BY <2>1, WhereOk DEF payment_resume, RecurringResumeTxs
<1>7. Buildable(payment_cancel(c))
  BY <1>4, RefundOk, WhereOk DEF payment_cancel, PaymentCancelTxs
<1> QED
  BY <1>1, <1>2, <1>3, <1>5, <1>6, <1>7 DEF PaymentDetailPage, fundPayment,
     claimPaymentFunds, pausePaymentOnChain, resumePaymentOnChain, cancelPaymentOnChain

\* The offers of the page of the budget plans, and the release that it does not show.
LEMMA BudgetOffers ==
  ASSUME Typed, NEW c \in Clients, BudgetPlansPage(c) \/ releaseMilestone(c)
  PROVE  SignStep(c)
<1>1. ASSUME NEW txs, Offer({"budget"}, c, txs), Buildable(txs)
      PROVE  SignStep(c)
  <2>1. terms.kind = "budget"
    BY <1>1 DEF Offer
  <2> QED
    BY <1>1, <2>1, OfferOk
<1>2. Buildable(budget_funding_info(c))
  BY FundOk, WhereOk DEF budget_funding_info, BudgetFundTxs
<1>3. Buildable(budget_release(c))
  BY ClaimsOk, WhereOk DEF budget_release
<1>4. Buildable(budget_pause(c))
  <2>1. StateFee \in Nat
    BY DEF StateFee
  <2>2. Buildable(StateTxs("pause", StateFee, "ACTIVE"))
    BY <2>1, StateOk
  <2> QED
    BY <2>2, WhereOk DEF budget_pause, BudgetPauseTxs
<1>5. Buildable(budget_cancel(c))
  BY VestingCancelOk, WhereOk DEF budget_cancel
<1> QED
  BY <1>1, <1>2, <1>3, <1>4, <1>5 DEF BudgetPlansPage, fundBudgetPlan, releaseMilestone,
     pauseBudgetPlanOnChain, cancelBudgetPlanOnChain

\* Every step is one of these.
LEMMA NextCases ==
  ASSUME Typed, [Next]_vars
  PROVE  \/ Vest
         \/ UNCHANGED vars
         \/ \E c \in Clients : \/ SignStep(c) \/ fundBatchStreamContracts(c) \/ IdleStep(c)
                               \/ Taken(c) \/ Confirmed(c) \/ statement(c) \/ lose(c)
<1>1. ASSUME NEW c \in Clients, Decline(c) PROVE IdleStep(c)
  BY <1>1 DEF Decline, Refuse, IdleStep
<1>2. ASSUME NEW c \in Clients, broadcast(c) PROVE Taken(c) \/ IdleStep(c)
  BY <1>2 DEF broadcast, Rejected, Taken, IdleStep, chain, db
<1>3. ASSUME NEW c \in Clients, confirm(c) PROVE Confirmed(c) \/ IdleStep(c)
  BY <1>3 DEF confirm, Refused, Confirmed, IdleStep, chain, db
<1>4. ASSUME NEW c \in Clients, answer(c) PROVE IdleStep(c)
  BY <1>4 DEF answer, Answer, IdleStep, Writing
<1> QED
  BY <1>1, <1>2, <1>3, <1>4, StreamOffers, PaymentOffers, BudgetOffers DEF Next

-----------------------------------------------------------------------------
(* What a step does to its page *)

\* One page's record is replaced.
Turns(c, new) == client' = [client EXCEPT ![c] = new]

\* The others' pages stay as they are.
LEMMA TurnsIs ==
  ASSUME Typed, NEW c \in Clients, NEW new \in Client, Turns(c, new)
  PROVE  /\ client' \in [Clients -> Client]
         /\ client'[c] = new
         /\ \A d \in Clients : d # c => client'[d] = client[d]
BY DEF Typed, Turns

\* An idle page is a page.
LEMMA IdleClient == Idle \in Client
BY DEF Idle, Client, Places, Todos

\* What signing does.
LEMMA SignIs ==
  ASSUME Typed, ClientsOk, NEW c \in Clients, NEW tx \in Txs, Sign(c, tx)
  PROVE  /\ client[c].at = "idle"
         /\ client' \in [Clients -> Client]
         /\ client'[c] = [at |-> "signing", tx |-> tx, todo |-> <<>>, tries |-> 0]
         /\ \A d \in Clients : d # c => client'[d] = client[d]
<1>1. client[c].at = "idle" /\ client[c].todo = <<>> /\ client[c].tries = 0
  BY DEF Sign, At, ClientsOk, ClientOk
<1>2. client' = [client EXCEPT ![c] = [client[c] EXCEPT !.at = "signing", !.tx = tx]]
  BY ClientFields DEF Sign, Typed
<1>3. [client[c] EXCEPT !.at = "signing", !.tx = tx]
        = [at |-> "signing", tx |-> tx, todo |-> <<>>, tries |-> 0]
  <2>1. PICK p \in Client : p = client[c]
    BY ClientFields
  <2>2. [p EXCEPT !.at = "signing", !.tx = tx]
          = [at |-> "signing", tx |-> tx, todo |-> p.todo, tries |-> p.tries]
    BY ExceptAtTx
  <2> QED
    BY <1>1, <2>1, <2>2
<1>4. [at |-> "signing", tx |-> tx, todo |-> <<>>, tries |-> 0] \in Client
  BY DEF Client, Places, Todos
<1> QED
  BY <1>1, <1>2, <1>3, <1>4, TurnsIs DEF Turns

\* What going idle does.
LEMMA IdleIs ==
  ASSUME Typed, NEW c \in Clients, client' = [client EXCEPT ![c] = Idle]
  PROVE  /\ client' \in [Clients -> Client]
         /\ client'[c] = Idle
         /\ \A d \in Clients : d # c => client'[d] = client[d]
BY IdleClient, TurnsIs DEF Turns

\* What the network's taking of a transaction does to the page.
LEMMA BroadcastIs ==
  ASSUME Typed, ClientsOk, NEW c \in Clients, Broadcast(c)
  PROVE  /\ client[c].at = "signing"
         /\ client' \in [Clients -> Client]
         /\ \/ client'[c] = Idle
            \/ client'[c] = [at |-> "waiting", tx |-> client[c].tx, todo |-> <<>>, tries |-> 0]
         /\ \A d \in Clients : d # c => client'[d] = client[d]
<1>1. client[c].at = "signing" /\ client[c].todo = <<>> /\ client[c].tries = 0
  BY DEF Broadcast, At, ClientsOk, ClientOk
<1>2. CASE client' = [client EXCEPT ![c] = Idle]
  BY <1>1, <1>2, IdleIs
<1>3. CASE client' = [client EXCEPT ![c].at = "waiting"]
  <2>1. client' = [client EXCEPT ![c] = [client[c] EXCEPT !.at = "waiting"]]
    BY <1>3 DEF Typed
  <2>5. [client[c] EXCEPT !.at = "waiting"]
          = [at |-> "waiting", tx |-> client[c].tx, todo |-> <<>>, tries |-> 0]
    <3>1. PICK p \in Client : p = client[c]
      BY ClientFields
    <3>2. [p EXCEPT !.at = "waiting"]
            = [at |-> "waiting", tx |-> p.tx, todo |-> p.todo, tries |-> p.tries]
      BY ExceptAt
    <3> QED
      BY <1>1, <3>1, <3>2
  <2>6. [at |-> "waiting", tx |-> client[c].tx, todo |-> <<>>, tries |-> 0] \in Client
    BY ClientFields, PageIs, NothingToDo DEF Places
  <2> QED
    BY <1>1, <2>1, <2>5, <2>6, TurnsIs DEF Turns
<1> QED
  BY <1>2, <1>3 DEF Broadcast

\* What the start of a confirmation does to the page.
LEMMA ConfirmIs ==
  ASSUME Typed, NEW c \in Clients, NEW todo \in Todos, Confirm(c, todo)
  PROVE  /\ client[c].at = "waiting"
         /\ client' \in [Clients -> Client]
         /\ client'[c] = [at |-> "running", tx |-> client[c].tx, todo |-> todo, tries |-> client[c].tries]
         /\ \A d \in Clients : d # c => client'[d] = client[d]
<1>1. client' = [client EXCEPT ![c] = [client[c] EXCEPT !.at = "running", !.todo = todo]]
  BY DEF Confirm, Typed
<1>5. [client[c] EXCEPT !.at = "running", !.todo = todo]
        = [at |-> "running", tx |-> client[c].tx, todo |-> todo, tries |-> client[c].tries]
  <2>1. PICK p \in Client : p = client[c]
    BY ClientFields
  <2>2. [p EXCEPT !.at = "running", !.todo = todo]
          = [at |-> "running", tx |-> p.tx, todo |-> todo, tries |-> p.tries]
    BY ExceptAtTodo
  <2> QED
    BY <2>1, <2>2
<1>6. [at |-> "running", tx |-> client[c].tx, todo |-> todo, tries |-> client[c].tries] \in Client
  BY ClientFields DEF Client, Places
<1> QED
  BY <1>1, <1>5, <1>6, TurnsIs DEF Turns, Confirm, At

\* What a statement does to the page.
LEMMA WrittenIs ==
  ASSUME Typed, NEW c \in Clients, Written(c), Tail(client[c].todo) \in Todos
  PROVE  /\ client' \in [Clients -> Client]
         /\ client'[c] = [at |-> client[c].at, tx |-> client[c].tx,
                          todo |-> Tail(client[c].todo), tries |-> client[c].tries]
         /\ \A d \in Clients : d # c => client'[d] = client[d]
<1>1. PICK todo : todo = Tail(client[c].todo)
  OBVIOUS
<1>2. client' = [client EXCEPT ![c] = [client[c] EXCEPT !.todo = todo]]
  BY <1>1 DEF Written, Typed
<1>6. [client[c] EXCEPT !.todo = todo]
        = [at |-> client[c].at, tx |-> client[c].tx, todo |-> todo, tries |-> client[c].tries]
  BY ClientFields, ExceptTodo
<1>7. [at |-> client[c].at, tx |-> client[c].tx, todo |-> todo, tries |-> client[c].tries] \in Client
  BY <1>1, ClientFields DEF Client
<1> QED
  BY <1>1, <1>2, <1>6, <1>7, TurnsIs DEF Turns

\* What a lost answer does to the page.
LEMMA LoseIs ==
  ASSUME Typed, NEW c \in Clients, Lose(c)
  PROVE  /\ client[c].at = "running"
         /\ client' \in [Clients -> Client]
         /\ \/ client'[c] = Idle
            \/ client'[c] = [at |-> "waiting", tx |-> client[c].tx, todo |-> <<>>, tries |-> client[c].tries + 1]
         /\ \A d \in Clients : d # c => client'[d] = client[d]
<1>1. [at |-> "waiting", tx |-> client[c].tx, todo |-> <<>>, tries |-> client[c].tries + 1] \in Client
  <2>1. PICK n \in Nat : n = client[c].tries
    BY ClientFields
  <2>2. n + 1 \in Nat /\ "waiting" \in Places
    BY DEF Places
  <2>3. [at |-> "waiting", tx |-> client[c].tx, todo |-> <<>>, tries |-> n + 1] \in Client
    BY <2>2, ClientFields, PageIs, NothingToDo
  <2> QED
    BY <2>1, <2>3
<1> QED
  BY <1>1, IdleClient, TurnsIs DEF Turns, Lose, At

-----------------------------------------------------------------------------
(* What a transaction does to the UTXO *)

\* The UTXO a transaction leaves when the contract accepts it.
LEMMA AfterIs ==
  ASSUME Typed, WholeShares, NEW tx, TxOk(tx), Accepts(tx), NEW u, u = After(tx)
  PROVE  /\ u \in Utxo /\ tx.op # "refill"
         /\ u.status # "UNFUNDED" /\ u.status \in Result(tx.op)
         /\ Whole(u.vested) /\ Whole(u.held) /\ (~Vests => Whole(u.released))
         /\ u.released = utxo.released + (IF tx.op = "claim" THEN tx.pay ELSE 0)
         /\ tx.op \in Fundings => utxo.status = "UNFUNDED"
         /\ tx.op \in {"claim", "pause"} => utxo.status = "ACTIVE"
         /\ tx.op = "resume" => utxo.status = "PAUSED"
         /\ tx.op = "cancel" => /\ utxo.status \in Live
                                /\ terms.kind = "payment" => tx.back = Total - utxo.released
<1>1. utxo = [status |-> utxo.status, released |-> utxo.released, vested |-> utxo.vested,
              held |-> utxo.held, refund |-> utxo.refund, value |-> utxo.value, id |-> utxo.id]
  BY DEF Typed, Utxo
<1>2. tx.op # "refill"
  BY DEF Accepts, Fundings, claim, pause, resume, cancel, refill
<1>3. /\ tx.keep \in 0 .. Total + Reserve /\ tx.pay \in Nat /\ tx.back \in Int /\ tx.op \in Ops
  BY <1>2, TxTypes DEF TxOk
<1>4. PICK moved : moved = [utxo EXCEPT !.id = @ + 1, !.value = tx.keep]
  OBVIOUS
<1>5. moved = [status |-> utxo.status, released |-> utxo.released, vested |-> utxo.vested,
               held |-> utxo.held, refund |-> utxo.refund, value |-> tx.keep, id |-> utxo.id + 1]
  BY <1>1, <1>4
<1>6. CASE tx.op \in Fundings
  <2>1. u = [moved EXCEPT !.status = "ACTIVE"]
    BY <1>4, <1>6 DEF After, Fundings
  <2>2. u = [status |-> "ACTIVE", released |-> utxo.released, vested |-> utxo.vested,
             held |-> utxo.held, refund |-> utxo.refund, value |-> tx.keep, id |-> utxo.id + 1]
    BY <1>5, <2>1
  <2>3. utxo.status = "UNFUNDED"
    BY <1>6 DEF Accepts, Fundings, claim, pause, resume, cancel, refill
  <2> QED
    BY <1>2, <1>3, <1>6, <2>2, <2>3, Numbers DEF Utxo, UtxoStatuses, Result, WholeShares, Fundings
<1>7. CASE tx.op = "claim"
  <2>1. PICK st : st = IF terms.total > 0 /\ utxo.released + tx.pay >= Total THEN "COMPLETED" ELSE utxo.status
    OBVIOUS
  <2>2. u = [moved EXCEPT !.released = @ + tx.pay, !.status = st]
    BY <1>4, <1>5, <1>7, <2>1 DEF After, Fundings
  <2>3. u = [status |-> st, released |-> utxo.released + tx.pay, vested |-> utxo.vested,
             held |-> utxo.held, refund |-> utxo.refund, value |-> tx.keep, id |-> utxo.id + 1]
    BY <1>5, <2>2
  <2>4. claim(tx)
    BY <1>7 DEF Accepts, Fundings, pause, resume, cancel, refill
  <2>5. utxo.status = "ACTIVE" /\ st \in {"ACTIVE", "COMPLETED"}
    BY <2>1, <2>4 DEF claim
  <2>6. utxo.released + tx.pay \in 0 .. Total /\ (~Vests => Whole(utxo.released + tx.pay))
    <3>1. CASE Vests
      <4>1. tx.pay \in 1 .. utxo.vested - utxo.released
        BY <2>4, <3>1 DEF claim, vesting_claim
      <4> QED
        BY <1>3, <3>1, <4>1, Numbers, CFacts
    <3>2. CASE ~Vests
      <4>1. utxo.released < utxo.vested /\ tx.pay = Share
        BY <2>4, <3>2 DEF claim, pay
      <4>2. utxo.released + Share <= utxo.vested
        BY <3>2, <4>1, Numbers, WholeGap DEF WholeShares
      <4>3. Whole(utxo.released + Share)
        BY <3>2, Numbers, WholeNext DEF WholeShares
      <4> QED
        BY <4>1, <4>2, <4>3, Numbers, CFacts
    <3> QED
      BY <3>1, <3>2
  <2>7. u \in Utxo
    <3>1. st \in UtxoStatuses
      BY <2>5 DEF UtxoStatuses
    <3>2. /\ utxo.vested \in 0 .. Total /\ utxo.held \in 0 .. Total /\ utxo.refund \in Int /\ utxo.id + 1 \in Nat
      BY Numbers, CFacts
    <3> QED
      BY <1>3, <2>3, <2>6, <3>1, <3>2 DEF Utxo
  <2>8. /\ u.status = st /\ u.released = utxo.released + tx.pay /\ u.vested = utxo.vested /\ u.held = utxo.held
    BY <2>3
  <2> QED
    BY <1>2, <1>7, <2>5, <2>6, <2>7, <2>8 DEF Result, WholeShares, Fundings
<1>8. CASE tx.op = "pause"
  <2>1. PICK h : h = IF Vests THEN utxo.vested ELSE utxo.released
    OBVIOUS
  <2>2. u = [moved EXCEPT !.status = "PAUSED", !.held = h]
    BY <1>4, <1>8, <2>1 DEF After, Fundings
  <2>3. u = [status |-> "PAUSED", released |-> utxo.released, vested |-> utxo.vested,
             held |-> h, refund |-> utxo.refund, value |-> tx.keep, id |-> utxo.id + 1]
    BY <1>5, <2>2
  <2>4. utxo.status = "ACTIVE"
    BY <1>8 DEF Accepts, Fundings, claim, pause, resume, cancel, refill
  <2>5. h \in 0 .. Total /\ Whole(h)
    BY <2>1, Numbers, CFacts DEF WholeShares
  <2> QED
    BY <1>2, <1>3, <1>8, <2>3, <2>4, <2>5, Numbers
    DEF Utxo, UtxoStatuses, Result, WholeShares, Fundings
<1>9. CASE tx.op = "resume"
  <2>1. u = [moved EXCEPT !.status = "ACTIVE", !.vested = utxo.held, !.held = 0]
    BY <1>4, <1>9 DEF After, Fundings
  <2>2. u = [status |-> "ACTIVE", released |-> utxo.released, vested |-> utxo.held,
             held |-> 0, refund |-> utxo.refund, value |-> tx.keep, id |-> utxo.id + 1]
    BY <1>5, <2>1
  <2>3. utxo.status = "PAUSED"
    BY <1>9 DEF Accepts, Fundings, claim, pause, resume, cancel, refill
  <2> QED
    BY <1>2, <1>3, <1>9, <2>2, <2>3, Numbers, CFacts, WholeNext
    DEF Utxo, UtxoStatuses, Result, WholeShares, Fundings
<1>10. CASE tx.op = "cancel"
  <2>1. u = [moved EXCEPT !.status = "CANCELLED", !.refund = tx.back]
    BY <1>4, <1>10 DEF After, Fundings
  <2>2. u = [status |-> "CANCELLED", released |-> utxo.released, vested |-> utxo.vested,
             held |-> utxo.held, refund |-> tx.back, value |-> tx.keep, id |-> utxo.id + 1]
    BY <1>5, <2>1
  <2>3. cancel(tx)
    BY <1>10 DEF Accepts, Fundings, claim, pause, resume, refill
  <2>4. utxo.status \in Live
    BY <2>3 DEF cancel, Live
  <2>5. terms.kind = "payment" => tx.back = Total - utxo.released
    <3>1. SUFFICES ASSUME terms.kind = "payment" PROVE tx.back = Total - utxo.released
      OBVIOUS
    <3>2. ~Vests /\ terms.total > 0
      BY <3>1, TermFacts, CFacts DEF Vests, Typed
    <3> QED
      BY <2>3, <3>2 DEF cancel, recurring_cancel, Left
  <2> QED
    BY <1>2, <1>3, <1>10, <2>2, <2>4, <2>5, Numbers
    DEF Utxo, UtxoStatuses, Result, WholeShares, Fundings
<1> QED
  BY <1>2, <1>3, <1>6, <1>7, <1>8, <1>9, <1>10 DEF Ops, Fundings

-----------------------------------------------------------------------------
(* What a statement does *)

\* c's handler has rest left to execute.
HasLeft(c, rest) == client'[c] = [at |-> "running", tx |-> client[c].tx, todo |-> rest, tries |-> client[c].tries]

\* The only statement of a confirmation: the status of the row.
StatusWritten(c) ==
  /\ client[c].tx.op \notin {"claim", "batch"}
  /\ client[c].todo = <<SetStatus(Becomes(client[c].tx.op))>>
  /\ row' = [status |-> Becomes(client[c].tx.op), withdrawn |-> row.withdrawn]
  /\ HasLeft(c, <<>>) /\ UNCHANGED <<sibling, records>>
\* A claim's first: what the row has withdrawn.
AmountWritten(c) ==
  /\ client[c].tx.op = "claim"
  /\ \E n \in Nat :
       /\ client[c].todo = <<SetWithdrawn(n), Recording(client[c].tx.pay)>>
       /\ row' = [status |-> row.status, withdrawn |-> n]
  /\ HasLeft(c, <<Recording(client[c].tx.pay)>>) /\ UNCHANGED <<sibling, records>>
\* And its second: the record.
ClaimRecorded(c) ==
  /\ client[c].tx.op = "claim"
  /\ client[c].todo = <<Recording(client[c].tx.pay)>>
  /\ records' = records + client[c].tx.pay
  /\ HasLeft(c, <<>>) /\ UNCHANGED <<row, sibling>>
\* The watched row of a batch, first or last.
RowOfBatchWritten(c) ==
  /\ client[c].tx.op = "batch"
  /\ row' = [status |-> "ACTIVE", withdrawn |-> row.withdrawn]
  /\ \/ client[c].todo = <<SetStatus("ACTIVE"), SetSibling>> /\ HasLeft(c, <<SetSibling>>)
     \/ client[c].todo = <<SetStatus("ACTIVE")>> /\ HasLeft(c, <<>>)
  /\ UNCHANGED <<sibling, records>>
\* And the others.
SiblingWritten(c) ==
  /\ client[c].tx.op = "batch"
  /\ sibling' = [funded |-> sibling.funded, status |-> "ACTIVE"]
  /\ \/ client[c].todo = <<SetSibling, SetStatus("ACTIVE")>> /\ HasLeft(c, <<SetStatus("ACTIVE")>>)
     \/ client[c].todo = <<SetSibling>> /\ HasLeft(c, <<>>)
  /\ UNCHANGED <<row, records>>

\* The rest of a list of things to do is one.
LEMMA RestsAreTodos ==
  /\ <<>> \in Todos /\ <<SetSibling>> \in Todos
  /\ \A s \in RowStatuses : <<SetStatus(s)>> \in Todos
  /\ \A n \in Nat : <<Recording(n)>> \in Todos
  /\ \A m, n \in Nat : <<SetWithdrawn(m), Recording(n)>> \in Todos
  /\ <<SetStatus("ACTIVE"), SetSibling>> \in Todos /\ <<SetSibling, SetStatus("ACTIVE")>> \in Todos
BY DEF Todos, RowStatuses

\* What a statement is about, and what it leaves to do.
LEMMA StatementIs ==
  ASSUME Typed, ClientsOk, NEW c \in Clients, statement(c)
  PROVE  /\ client[c].at = "running" /\ client[c].tx.op # "refill" /\ client[c].tx \in Txs /\ Writing(c)
         /\ UNCHANGED <<terms, utxo, mishaps>>
         /\ client' \in [Clients -> Client]
         /\ \A d \in Clients : d # c => client'[d] = client[d]
         /\ \/ StatusWritten(c) \/ AmountWritten(c) \/ ClaimRecorded(c)
            \/ RowOfBatchWritten(c) \/ SiblingWritten(c)
<1>1. client[c].at = "running" /\ Writing(c) /\ Written(c) /\ UNCHANGED <<terms, utxo, mishaps>>
  BY DEF statement, At, chain
<1>2. PICK tx : tx = client[c].tx
  OBVIOUS
<1>3. PICK todo : todo = client[c].todo
  OBVIOUS
<1>4. /\ Remains(tx, todo) /\ todo # <<>> /\ tx.op # "refill" /\ tx \in Txs
      /\ tx.op \in Ops /\ tx.pay \in Nat
  BY <1>1, <1>2, <1>3, TxTypes DEF ClientsOk, ClientOk, TxOk, Writing, Outstanding
<1>5. PICK s : s = Head(todo)
  OBVIOUS
<1>6. /\ s.into = "row" => row' = Updated(s.set) /\ UNCHANGED <<sibling, records>>
      /\ s.into = "sibling" => sibling' = [sibling EXCEPT !.status = "ACTIVE"] /\ UNCHANGED <<row, records>>
      /\ s.into = "records" => records' = records + s.set.amount /\ UNCHANGED <<row, sibling>>
  BY <1>3, <1>5 DEF statement
<1>7. row \in Row /\ sibling' = [sibling EXCEPT !.status = "ACTIVE"]
                       => sibling' = [funded |-> sibling.funded, status |-> "ACTIVE"]
  BY DEF Typed, Sibling
<1>8. row \in Row
  BY DEF Typed
<1>9. ASSUME NEW rest \in Todos, Tail(todo) = rest
      PROVE  /\ client' \in [Clients -> Client]
             /\ \A d \in Clients : d # c => client'[d] = client[d]
             /\ HasLeft(c, rest)
  BY <1>1, <1>3, <1>9, WrittenIs DEF HasLeft
<1>10. CASE tx.op \notin {"claim", "batch"}
  <2>1. todo = <<SetStatus(Becomes(tx.op))>>
    BY <1>4, <1>10 DEF Remains
  <2>2. s = SetStatus(Becomes(tx.op)) /\ Tail(todo) = <<>>
    BY <1>5, <2>1, Lists
  <2>3. s.into = "row" /\ s.set = [status |-> Becomes(tx.op)]
    BY <2>2, StatementsDiffer
  <2>4. row' = [status |-> Becomes(tx.op), withdrawn |-> row.withdrawn] /\ UNCHANGED <<sibling, records>>
    BY <1>6, <1>8, <2>3, UpdatedIs
  <2> QED
    BY <1>1, <1>2, <1>3, <1>4, <1>9, <1>10, <2>1, <2>2, <2>4, RestsAreTodos DEF StatusWritten
<1>11. CASE tx.op = "claim" /\ todo = <<Recording(tx.pay)>>
  <2>1. s = Recording(tx.pay) /\ Tail(todo) = <<>>
    BY <1>5, <1>11, Lists
  <2>2. s.into = "records" /\ s.set.amount = tx.pay
    BY <2>1, StatementsDiffer
  <2> QED
    BY <1>1, <1>2, <1>3, <1>4, <1>6, <1>9, <1>11, <2>1, <2>2, RestsAreTodos DEF ClaimRecorded
<1>12. ASSUME tx.op = "claim", NEW n \in Nat, todo = <<SetWithdrawn(n), Recording(tx.pay)>>
       PROVE  AmountWritten(c) /\ HasLeft(c, <<Recording(tx.pay)>>)
  <2>1. s = SetWithdrawn(n) /\ Tail(todo) = <<Recording(tx.pay)>>
    BY <1>5, <1>12, Lists
  <2>2. s.into = "row" /\ s.set = [withdrawn |-> n]
    BY <2>1, StatementsDiffer
  <2>3. row' = [status |-> row.status, withdrawn |-> n] /\ UNCHANGED <<sibling, records>>
    BY <1>6, <1>8, <2>2, UpdatedIs
  <2>4. HasLeft(c, <<Recording(tx.pay)>>)
    BY <1>4, <1>9, <2>1, RestsAreTodos
  <2> QED
    BY <1>2, <1>3, <1>12, <2>3, <2>4 DEF AmountWritten
<1>13. ASSUME tx.op = "batch", NEW rest \in Todos, s = SetStatus("ACTIVE"), Tail(todo) = rest,
              \/ todo = <<SetStatus("ACTIVE"), SetSibling>> /\ rest = <<SetSibling>>
              \/ todo = <<SetStatus("ACTIVE")>> /\ rest = <<>>
       PROVE  RowOfBatchWritten(c) /\ HasLeft(c, rest)
  <2>1. s.into = "row" /\ s.set = [status |-> "ACTIVE"]
    BY <1>13, StatementsDiffer
  <2>2. row' = [status |-> "ACTIVE", withdrawn |-> row.withdrawn] /\ UNCHANGED <<sibling, records>>
    BY <1>6, <1>8, <2>1, UpdatedIs
  <2>3. HasLeft(c, rest)
    BY <1>9, <1>13
  <2> QED
    BY <1>2, <1>3, <1>13, <2>2, <2>3 DEF RowOfBatchWritten
<1>14. ASSUME tx.op = "batch", NEW rest \in Todos, s = SetSibling, Tail(todo) = rest,
              \/ todo = <<SetSibling, SetStatus("ACTIVE")>> /\ rest = <<SetStatus("ACTIVE")>>
              \/ todo = <<SetSibling>> /\ rest = <<>>
       PROVE  SiblingWritten(c) /\ HasLeft(c, rest)
  <2>1. s.into = "sibling"
    BY <1>14, StatementsDiffer
  <2>2. sibling' = [funded |-> sibling.funded, status |-> "ACTIVE"] /\ UNCHANGED <<row, records>>
    BY <1>6, <1>7, <1>8, <2>1
  <2>3. HasLeft(c, rest)
    BY <1>9, <1>14
  <2> QED
    BY <1>2, <1>3, <1>14, <2>2, <2>3 DEF SiblingWritten
<1>15. \/ tx.op \notin {"claim", "batch"}
       \/ tx.op = "claim" /\ todo = <<Recording(tx.pay)>>
       \/ tx.op = "claim" /\ \E n \in Nat : todo = <<SetWithdrawn(n), Recording(tx.pay)>>
       \/ tx.op = "batch" /\ todo \in {<<SetStatus("ACTIVE"), SetSibling>>, <<SetSibling, SetStatus("ACTIVE")>>,
                                       <<SetStatus("ACTIVE")>>, <<SetSibling>>}
  BY <1>4 DEF Remains
<1>16. CASE tx.op = "batch" /\ todo = <<SetStatus("ACTIVE"), SetSibling>>
  <2>1. s = SetStatus("ACTIVE") /\ Tail(todo) = <<SetSibling>>
    BY <1>5, <1>16, Lists
  <2> QED
    BY <1>1, <1>2, <1>4, <1>9, <1>13, <1>16, <2>1, RestsAreTodos
<1>17. CASE tx.op = "batch" /\ todo = <<SetStatus("ACTIVE")>>
  <2>1. s = SetStatus("ACTIVE") /\ Tail(todo) = <<>>
    BY <1>5, <1>17, Lists
  <2> QED
    BY <1>1, <1>2, <1>4, <1>9, <1>13, <1>17, <2>1, RestsAreTodos
<1>20. CASE tx.op = "batch" /\ todo = <<SetSibling, SetStatus("ACTIVE")>>
  <2>1. s = SetSibling /\ Tail(todo) = <<SetStatus("ACTIVE")>> /\ "ACTIVE" \in RowStatuses
    BY <1>5, <1>20, Lists DEF RowStatuses
  <2> QED
    BY <1>1, <1>2, <1>4, <1>9, <1>14, <1>20, <2>1, RestsAreTodos
<1>21. CASE tx.op = "batch" /\ todo = <<SetSibling>>
  <2>1. s = SetSibling /\ Tail(todo) = <<>>
    BY <1>5, <1>21, Lists
  <2> QED
    BY <1>1, <1>2, <1>4, <1>9, <1>14, <1>21, <2>1, RestsAreTodos
<1>18. CASE tx.op = "claim" /\ \E n \in Nat : todo = <<SetWithdrawn(n), Recording(tx.pay)>>
  <2>1. AmountWritten(c)
    BY <1>12, <1>18
  <2>2. Tail(todo) = <<Recording(tx.pay)>> /\ <<Recording(tx.pay)>> \in Todos
    BY <1>4, <1>18, Lists, RestsAreTodos
  <2> QED
    BY <1>1, <1>2, <1>4, <1>9, <2>1, <2>2
<1> QED
  BY <1>10, <1>11, <1>15, <1>16, <1>17, <1>18, <1>20, <1>21

\* What a confirmation that passes its checks begins with.
LEMMA HandlersWrite ==
  ASSUME Typed, NEW tx, TxOk(tx), tx.op # "refill", NEW todo \in Statements(tx)
  PROVE  /\ todo \in Todos /\ todo # <<>>
         /\ tx.op = "claim" => todo = <<SetWithdrawn(row.withdrawn + tx.pay), Recording(tx.pay)>>
         /\ tx.op = "batch" => todo \in {<<SetStatus("ACTIVE"), SetSibling>>, <<SetSibling, SetStatus("ACTIVE")>>}
         /\ tx.op \notin {"claim", "batch"} => todo = <<SetStatus(Becomes(tx.op))>>
<1>1. tx.op \in Ops /\ tx.pay \in Nat /\ (terms.kind = "budget" => tx.op # "resume")
  BY TxTypes DEF TxOk
<1>2. terms.kind \in {"stream", "recurring", "payment", "budget"} /\ row.withdrawn \in Nat
  BY TermFacts, Numbers DEF Typed
<1>3. CASE tx.op = "batch"
  <2>1. todo \in {<<SetStatus("ACTIVE"), SetSibling>>, <<SetSibling, SetStatus("ACTIVE")>>}
    BY <1>3 DEF Statements, batch_confirm, SetStatus
  <2> QED
    BY <1>3, <2>1, RestsAreTodos, Lists
<1>4. CASE tx.op = "claim"
  <2>1. todo = <<SetWithdrawn(row.withdrawn + tx.pay), Recording(tx.pay)>>
    BY <1>2, <1>4
    DEF Statements, StreamHandler, PaymentHandler, BudgetHandler, stream_confirm_claim,
       payment_confirm_claim, budget_confirm_release, SetWithdrawn, Recording, Record, Streams
  <2>2. row.withdrawn + tx.pay \in Nat
    BY <1>1, <1>2
  <2> QED
    BY <1>1, <1>4, <2>1, <2>2, RestsAreTodos, Lists
<1>5. CASE tx.op \in {"fund", "pause", "resume", "cancel"}
  <2>1. todo = <<SetStatus(Becomes(tx.op))>>
    BY <1>1, <1>2, <1>5
    DEF Statements, StreamHandler, PaymentHandler, BudgetHandler, Streams, Becomes, SetStatus,
       stream_confirm_funding, stream_confirm_pause, stream_confirm_resume, stream_confirm_cancel,
       payment_confirm_funding, payment_confirm_pause, payment_confirm_resume, payment_confirm_cancel,
       budget_confirm_funding, budget_confirm_pause, budget_confirm_cancel
  <2>2. Becomes(tx.op) \in RowStatuses
    BY DEF Becomes, RowStatuses
  <2> QED
    BY <1>5, <2>1, <2>2, RestsAreTodos, Lists
<1> QED
  BY <1>1, <1>3, <1>4, <1>5 DEF Ops

-----------------------------------------------------------------------------
(* The steps, with everything they change *)

\* c's page is turned into this one, and no other changes.
Turned(c, place, tx, todo, tries) ==
  /\ client' \in [Clients -> Client]
  /\ client'[c] = [at |-> place, tx |-> tx, todo |-> todo, tries |-> tries]
  /\ \A d \in Clients : d # c => client'[d] = client[d]

\* Time passes.
LEMMA VestIs ==
  ASSUME Typed, WholeShares, Vest
  PROVE  /\ utxo.status \in Live
         /\ utxo' \in Utxo
         /\ utxo'.status = utxo.status /\ utxo'.released = utxo.released /\ utxo'.held = utxo.held
         /\ Whole(utxo'.vested)
         /\ UNCHANGED <<client, terms, row, sibling, records, mishaps>>
<1>1. /\ utxo.status \in Live /\ utxo.vested + Share <= Total
      /\ utxo' = [utxo EXCEPT !.vested = @ + Share]
      /\ UNCHANGED <<client, terms, row, sibling, records, mishaps>>
  BY DEF Vest, db
<1>2. utxo.vested + Share \in 0 .. Total /\ Whole(utxo.vested + Share)
  BY <1>1, CFacts, Numbers, WholeNext DEF WholeShares
<1>3. utxo \in Utxo
  BY DEF Typed
<1> QED
  BY <1>1, <1>2, <1>3 DEF Utxo

\* A page has a transaction signed.
LEMMA SignedIs ==
  ASSUME Typed, ClientsOk, NEW c \in Clients, SignStep(c)
  PROVE  /\ client[c].at = "idle"
         /\ \E tx : TxOk(tx) /\ tx.op # "batch" /\ Turned(c, "signing", tx, <<>>, 0)
         /\ ~(terms.kind = "stream" /\ row.status = "NONE")
         /\ UNCHANGED <<terms, utxo, row, sibling, records, mishaps>>
<1>1. PICK tx : TxOk(tx) /\ tx.op # "batch" /\ Sign(c, tx)
  BY DEF SignStep
<1>2. tx \in Txs
  BY <1>1 DEF TxOk
<1>3. client[c].at = "idle" /\ Turned(c, "signing", tx, <<>>, 0)
  BY <1>1, <1>2, SignIs DEF Turned
<1> QED
  BY <1>1, <1>3 DEF SignStep, chain, db

\* A batch is created, and its funding signed.
LEMMA BatchIs ==
  ASSUME Typed, ClientsOk, NEW c \in Clients, fundBatchStreamContracts(c)
  PROVE  /\ client[c].at = "idle"
         /\ \E tx \in Txs : /\ tx.op = "batch" /\ tx.keep \in 0 .. Total + Reserve
                            /\ Turned(c, "signing", tx, <<>>, 0)
         /\ row.status = "NONE"
         /\ row' = [status |-> "PENDING", withdrawn |-> 0]
         /\ sibling' = [funded |-> sibling.funded, status |-> "PENDING"]
         /\ UNCHANGED <<terms, utxo, records, mishaps>>
<1>1. PICK tx \in batch_create(c) : Sign(c, tx)
  BY DEF fundBatchStreamContracts
<1>2. /\ tx = Tx("batch", Total + Reserve, 3) /\ row.status = "NONE"
  BY <1>1 DEF batch_create, BatchFundTxs, Where, By
<1>3. tx = [op |-> "batch", pay |-> 0, back |-> 0, keep |-> Total + Reserve, outs |-> 3,
            first |-> Sender, spends |-> utxo.id]
  BY <1>2, TxIs
<1>4. Total + Reserve \in Int /\ Total + Reserve \in 0 .. Total + Reserve
  BY CFacts DEF Reserve
<1>5. tx \in Txs /\ tx.op = "batch" /\ tx.keep \in 0 .. Total + Reserve
  BY <1>3, <1>4, Numbers DEF Txs, Ops
<1>6. client[c].at = "idle" /\ Turned(c, "signing", tx, <<>>, 0)
  BY <1>1, <1>5, SignIs DEF Turned
<1>7. /\ row' = created /\ sibling' = [sibling EXCEPT !.status = "PENDING"]
      /\ UNCHANGED <<terms, utxo, records, mishaps>>
  BY DEF fundBatchStreamContracts, chain
<1>8. sibling \in Sibling
  BY DEF Typed
<1>9. sibling' = [funded |-> sibling.funded, status |-> "PENDING"]
  BY <1>7, <1>8 DEF Sibling
<1> QED
  BY <1>2, <1>5, <1>6, <1>7, <1>9 DEF created

\* A page goes idle.
LEMMA IdledIs ==
  ASSUME Typed, NEW c \in Clients, IdleStep(c)
  PROVE  /\ \/ client[c].at = "signing"
            \/ client[c].at = "running" /\ ~Writing(c)
            \/ client[c].at = "waiting" /\ ~Verified(client[c].tx)
         /\ Turned(c, "idle", NoTx, <<>>, 0)
         /\ UNCHANGED <<terms, utxo, row, sibling, records, mishaps>>
BY IdleIs DEF IdleStep, At, Turned, Idle, chain, db

\* The network takes a transaction.
LEMMA TakenIs ==
  ASSUME Typed, ClientsOk, WholeShares, NEW c \in Clients, Taken(c)
  PROVE  /\ client[c].at = "signing"
         /\ \/ Turned(c, "waiting", client[c].tx, <<>>, 0)
            \/ Turned(c, "idle", NoTx, <<>>, 0) /\ "unconfirmed" \in mishaps'
         /\ sibling' = [funded |-> sibling.funded \/ client[c].tx.op = "batch", status |-> sibling.status]
         /\ mishaps \subseteq mishaps' /\ mishaps' \subseteq Mishaps
         /\ (\E d \in Clients : d # c /\ Outstanding(d)) => "overlapped" \in mishaps'
         /\ UNCHANGED <<terms, row, records>>
<1>1. /\ client[c].at = "signing" /\ Broadcast(c)
      /\ sibling' = [sibling EXCEPT !.funded = @ \/ client[c].tx.op = "batch"]
      /\ mishaps' = mishaps
           \cup Where({"unconfirmed"}, ~Outstanding(c)')
           \cup Where({"overlapped"}, \E other \in Clients \ {c} : Outstanding(other))
      /\ UNCHANGED <<terms, row, records>>
  BY DEF Taken, At
<1>2. mishaps \subseteq Mishaps
  BY DEF Typed
<1>3. /\ mishaps \subseteq mishaps' /\ mishaps' \subseteq Mishaps
      /\ (\E d \in Clients : d # c /\ Outstanding(d)) => "overlapped" \in mishaps'
      /\ ~Outstanding(c)' => "unconfirmed" \in mishaps'
  BY <1>1, <1>2 DEF Where, Mishaps
<1>4. sibling' = [funded |-> sibling.funded \/ client[c].tx.op = "batch", status |-> sibling.status]
  BY <1>1 DEF Typed, Sibling
<1>5. \/ Turned(c, "waiting", client[c].tx, <<>>, 0)
      \/ Turned(c, "idle", NoTx, <<>>, 0)
  BY <1>1, BroadcastIs DEF Turned, Idle
<1>6. Turned(c, "idle", NoTx, <<>>, 0) => ~Outstanding(c)'
  BY DEF Turned, Outstanding
<1> QED
  BY <1>1, <1>3, <1>4, <1>5, <1>6

\* And what becomes of the UTXO.
LEMMA MovedIs ==
  ASSUME Typed, ClientsOk, WholeShares, NEW c \in Clients, Taken(c)
  PROVE  /\ TxOk(client[c].tx) /\ client[c].tx \in Txs /\ client[c].tx.op # "refill"
         /\ utxo' \in Utxo
         /\ utxo'.status # "UNFUNDED" /\ utxo'.status \in Result(client[c].tx.op)
         /\ Whole(utxo'.vested) /\ Whole(utxo'.held) /\ (~Vests => Whole(utxo'.released))
         /\ utxo'.released = utxo.released + (IF client[c].tx.op = "claim" THEN client[c].tx.pay ELSE 0)
         /\ client[c].tx.op \in Fundings => utxo.status = "UNFUNDED"
         /\ client[c].tx.op \in {"claim", "pause"} => utxo.status = "ACTIVE"
         /\ client[c].tx.op = "resume" => utxo.status = "PAUSED"
         /\ client[c].tx.op = "cancel" =>
              /\ utxo.status \in Live
              /\ terms.kind = "payment" => client[c].tx.back = Total - utxo.released
<1>1. client[c].at = "signing" /\ Accepts(client[c].tx) /\ utxo' = After(client[c].tx)
  BY DEF Taken, At
<1>2. TxOk(client[c].tx)
  BY <1>1 DEF ClientsOk, ClientOk
<1>3. PICK tx : tx = client[c].tx
  OBVIOUS
<1>4. PICK u : u = utxo'
  OBVIOUS
<1>5. TxOk(tx) /\ Accepts(tx) /\ u = After(tx)
  BY <1>1, <1>2, <1>3, <1>4
<1>6. tx \in Txs
  BY <1>5 DEF TxOk
<1> QED
  BY <1>3, <1>4, <1>5, <1>6, AfterIs

\* A confirmation passes its checks, and its handler has everything to write.
LEMMA ConfirmedIs ==
  ASSUME Typed, ClientsOk, NEW c \in Clients, Confirmed(c)
  PROVE  /\ client[c].at = "waiting" /\ client[c].todo = <<>>
         /\ TxOk(client[c].tx) /\ client[c].tx.op # "refill" /\ Verified(client[c].tx)
         /\ \E todo \in Todos :
              /\ todo # <<>>
              /\ client[c].tx.op = "claim" =>
                   todo = <<SetWithdrawn(row.withdrawn + client[c].tx.pay), Recording(client[c].tx.pay)>>
              /\ client[c].tx.op = "batch" =>
                   todo \in {<<SetStatus("ACTIVE"), SetSibling>>, <<SetSibling, SetStatus("ACTIVE")>>}
              /\ client[c].tx.op \notin {"claim", "batch"} => todo = <<SetStatus(Becomes(client[c].tx.op))>>
              /\ Turned(c, "running", client[c].tx, todo, client[c].tries)
         /\ mishaps \subseteq mishaps' /\ mishaps' \subseteq Mishaps
         /\ client[c].tries > 0 => "retried" \in mishaps'
         /\ (\E d \in Clients : d # c /\ Writing(d)) => "raced" \in mishaps'
         /\ UNCHANGED <<terms, utxo, row, sibling, records>>
<1>1. /\ client[c].at = "waiting" /\ Verified(client[c].tx)
      /\ mishaps' = mishaps
           \cup Where({"retried"}, client[c].tries > 0)
           \cup Where({"raced"}, \E other \in Clients \ {c} : Writing(other))
      /\ UNCHANGED <<terms, utxo, row, sibling, records>>
  BY DEF Confirmed, At, chain, db
<1>2. TxOk(client[c].tx) /\ client[c].tx.op # "refill" /\ client[c].todo = <<>>
  BY <1>1 DEF ClientsOk, ClientOk, Outstanding
<1>3. PICK todo \in Statements(client[c].tx) : Confirm(c, todo)
  BY DEF Confirmed
<1>4. /\ todo \in Todos /\ todo # <<>>
      /\ client[c].tx.op = "claim" =>
           todo = <<SetWithdrawn(row.withdrawn + client[c].tx.pay), Recording(client[c].tx.pay)>>
      /\ client[c].tx.op = "batch" =>
           todo \in {<<SetStatus("ACTIVE"), SetSibling>>, <<SetSibling, SetStatus("ACTIVE")>>}
      /\ client[c].tx.op \notin {"claim", "batch"} => todo = <<SetStatus(Becomes(client[c].tx.op))>>
  BY <1>2, <1>3, HandlersWrite
<1>5. Turned(c, "running", client[c].tx, todo, client[c].tries)
  BY <1>3, <1>4, ConfirmIs DEF Turned
<1>6. mishaps \subseteq Mishaps
  BY DEF Typed
<1>7. /\ mishaps \subseteq mishaps' /\ mishaps' \subseteq Mishaps
      /\ client[c].tries > 0 => "retried" \in mishaps'
      /\ (\E d \in Clients : d # c /\ Writing(d)) => "raced" \in mishaps'
  BY <1>1, <1>6 DEF Where, Mishaps
<1> QED
  BY <1>1, <1>2, <1>4, <1>5, <1>7

\* A confirmation is lost.
LEMMA LostIs ==
  ASSUME Typed, NEW c \in Clients, lose(c)
  PROVE  /\ client[c].at = "running"
         /\ \/ Turned(c, "idle", NoTx, <<>>, 0) /\ "unconfirmed" \in mishaps'
            \/ \E n \in Nat : /\ n = client[c].tries + 1 /\ n > 0
                              /\ Turned(c, "waiting", client[c].tx, <<>>, n)
         /\ mishaps \subseteq mishaps' /\ mishaps' \subseteq Mishaps
         /\ Writing(c) => "interrupted" \in mishaps'
         /\ UNCHANGED <<terms, utxo, row, sibling, records>>
<1>1. /\ Lose(c)
      /\ mishaps' = mishaps \cup Where({"interrupted"}, Writing(c))
                            \cup Where({"unconfirmed"}, ~Outstanding(c)')
      /\ UNCHANGED <<terms, utxo, row, sibling, records>>
  BY DEF lose, chain, db
<1>2. mishaps \subseteq Mishaps
  BY DEF Typed
<1>3. /\ mishaps \subseteq mishaps' /\ mishaps' \subseteq Mishaps
      /\ Writing(c) => "interrupted" \in mishaps'
      /\ ~Outstanding(c)' => "unconfirmed" \in mishaps'
  BY <1>1, <1>2 DEF Where, Mishaps
<1>4. PICK n \in Nat : n = client[c].tries
  BY ClientFields
<1>5. n + 1 \in Nat /\ n + 1 > 0 /\ n + 1 = client[c].tries + 1
  BY <1>4
<1>6. client[c].at = "running" /\
      \/ Turned(c, "idle", NoTx, <<>>, 0)
      \/ Turned(c, "waiting", client[c].tx, <<>>, n + 1)
  BY <1>1, <1>5, LoseIs DEF Turned, Idle
<1>7. Turned(c, "idle", NoTx, <<>>, 0) => ~Outstanding(c)'
  BY DEF Turned, Outstanding
<1> QED
  BY <1>1, <1>3, <1>5, <1>6, <1>7

-----------------------------------------------------------------------------
(* The invariants, one by one *)

\* A page that is the same before and after is in the same place.
LEMMA OthersStay ==
  ASSUME NEW d, client'[d] = client[d]
  PROVE  /\ Outstanding(d)' <=> Outstanding(d)
         /\ Writing(d)' <=> Writing(d)
         /\ SetsStatus(d)' <=> SetsStatus(d)
         /\ Owed(d)' <=> Owed(d)
         /\ Recorded(d)' <=> Recorded(d)
BY DEF Outstanding, Writing, SetsStatus, Owed, Recorded

\* What a page that was turned shows.
LEMMA TurnedShows ==
  ASSUME NEW c, NEW place, NEW tx, NEW todo, NEW tries, Turned(c, place, tx, todo, tries)
  PROVE  /\ client'[c].at = place /\ client'[c].tx = tx /\ client'[c].todo = todo /\ client'[c].tries = tries
         /\ Outstanding(c)' <=> place \in {"waiting", "running"}
         /\ Writing(c)' <=> todo # <<>>
         /\ \A d \in Clients : d # c => client'[d] = client[d]
BY DEF Turned, Outstanding, Writing

\* The chain takes nothing from a covenant that was cancelled.
LEMMA NothingAfterCancel ==
  ASSUME Typed, ClientsOk, WholeShares, NEW c \in Clients, Taken(c)
  PROVE  utxo.status # "CANCELLED" /\ utxo.status # "COMPLETED"
<1>1. client[c].tx.op \in Ops
  BY MovedIs, TxTypes
<1> QED
  BY <1>1, MovedIs DEF Ops, Fundings, Live

\* A statement leaves the other stream's funding, and every status it writes is one.
LEMMA StatementWrites ==
  ASSUME Typed, ClientsOk, NEW c \in Clients, statement(c)
  PROVE  /\ row' \in Row /\ sibling' \in Sibling /\ records' \in Nat
         /\ sibling'.funded = sibling.funded
         /\ sibling.status # "NONE" => sibling'.status # "NONE"
         /\ row'.status = row.status \/ row'.status = Becomes(client[c].tx.op)
         /\ Outstanding(c) /\ client'[c].tx = client[c].tx /\ client'[c].at = "running"
         /\ Remains(client[c].tx, client'[c].todo)
<1>1. /\ row \in Row /\ sibling \in Sibling /\ records \in Nat
      /\ row.status \in RowStatuses /\ row.withdrawn \in Nat /\ sibling.funded \in BOOLEAN
  BY Numbers DEF Typed
<1>2. /\ client[c].at = "running" /\ client[c].tx \in Txs /\ client[c].tx.pay \in Nat /\ Outstanding(c)
  BY StatementIs, TxTypes DEF Outstanding
<1>3. CASE StatusWritten(c)
  <2>1. Becomes(client[c].tx.op) \in RowStatuses
    BY DEF Becomes, RowStatuses
  <2> QED
    BY <1>1, <1>2, <1>3, <2>1 DEF StatusWritten, HasLeft, Row, Remains
<1>4. CASE AmountWritten(c)
  BY <1>1, <1>2, <1>4 DEF AmountWritten, HasLeft, Row, Remains
<1>5. CASE ClaimRecorded(c)
  BY <1>1, <1>2, <1>5 DEF ClaimRecorded, HasLeft, Remains
<1>6. CASE RowOfBatchWritten(c)
  <2>1. "ACTIVE" \in RowStatuses /\ Becomes("batch") = "ACTIVE"
    BY DEF RowStatuses, Becomes
  <2> QED
    BY <1>1, <1>2, <1>6, <2>1 DEF RowOfBatchWritten, HasLeft, Row, Remains
<1>7. CASE SiblingWritten(c)
  BY <1>1, <1>2, <1>7 DEF SiblingWritten, HasLeft, Sibling, Remains
<1> QED
  BY <1>3, <1>4, <1>5, <1>6, <1>7, StatementIs

\* Types are kept.
LEMMA TypedKept ==
  ASSUME Typed, ClientsOk, WholeShares, [Next]_vars
  PROVE  Typed'
<1>1. CASE Vest
  BY <1>1, VestIs DEF Typed
<1>2. CASE UNCHANGED vars
  BY <1>2 DEF vars, Typed
<1>3. ASSUME NEW c \in Clients, SignStep(c) PROVE Typed'
  BY <1>3, SignedIs DEF Typed, Turned
<1>4. ASSUME NEW c \in Clients, fundBatchStreamContracts(c) PROVE Typed'
  <2>1. row' \in Row /\ sibling' \in Sibling
    BY <1>4, BatchIs, Numbers DEF Row, Sibling, RowStatuses
  <2> QED
    BY <1>4, <2>1, BatchIs DEF Typed, Turned
<1>5. ASSUME NEW c \in Clients, IdleStep(c) PROVE Typed'
  BY <1>5, IdledIs DEF Typed, Turned
<1>6. ASSUME NEW c \in Clients, Taken(c) PROVE Typed'
  <2>1. sibling' \in Sibling
    <3>1. PICK b \in BOOLEAN : b = (sibling.funded \/ client[c].tx.op = "batch")
      OBVIOUS
    <3>2. sibling' = [funded |-> b, status |-> sibling.status]
      BY <1>6, <3>1, TakenIs
    <3> QED
      BY <3>2, Numbers DEF Sibling
  <2> QED
    BY <1>6, <2>1, TakenIs, MovedIs DEF Typed, Turned
<1>7. ASSUME NEW c \in Clients, Confirmed(c) PROVE Typed'
  BY <1>7, ConfirmedIs DEF Typed, Turned
<1>8. ASSUME NEW c \in Clients, statement(c) PROVE Typed'
  BY <1>8, StatementIs, StatementWrites DEF Typed
<1>9. ASSUME NEW c \in Clients, lose(c) PROVE Typed'
  BY <1>9, LostIs DEF Typed, Turned
<1> QED
  BY <1>1, <1>2, <1>3, <1>4, <1>5, <1>6, <1>7, <1>8, <1>9, NextCases

\* Shares stay whole.
LEMMA WholeSharesKept ==
  ASSUME Typed, ClientsOk, WholeShares, [Next]_vars
  PROVE  WholeShares'
<1>1. ASSUME UNCHANGED <<terms, utxo>> PROVE WholeShares'
  BY <1>1 DEF WholeShares, Whole, Vests
<1>2. CASE Vest
  BY <1>2, VestIs DEF WholeShares, Whole, Vests
<1>3. CASE UNCHANGED vars
  BY <1>1, <1>3 DEF vars
<1>4. ASSUME NEW c \in Clients, Taken(c) PROVE WholeShares'
  BY <1>4, TakenIs, MovedIs DEF WholeShares, Whole, Vests
<1>5. ASSUME NEW c \in Clients,
             SignStep(c) \/ fundBatchStreamContracts(c) \/ IdleStep(c) \/ Confirmed(c) \/ statement(c) \/ lose(c)
      PROVE  WholeShares'
  BY <1>1, <1>5, SignedIs, BatchIs, IdledIs, ConfirmedIs, StatementIs, LostIs
<1> QED
  BY <1>2, <1>3, <1>4, <1>5, NextCases

\* The others of a batch stay funded with the watched one.
LEMMA BatchIsFundedKept ==
  ASSUME Typed, ClientsOk, WholeShares, BatchIsFunded, [Next]_vars
  PROVE  BatchIsFunded'
<1>1. ASSUME sibling'.funded = sibling.funded, utxo'.status = utxo.status PROVE BatchIsFunded'
  BY <1>1 DEF BatchIsFunded
<1>2. CASE Vest
  BY <1>1, <1>2, VestIs
<1>3. CASE UNCHANGED vars
  BY <1>1, <1>3 DEF vars
<1>4. ASSUME NEW c \in Clients, Taken(c) PROVE BatchIsFunded'
  BY <1>4, MovedIs DEF BatchIsFunded
<1>5. ASSUME NEW c \in Clients,
             SignStep(c) \/ fundBatchStreamContracts(c) \/ IdleStep(c) \/ Confirmed(c) \/ lose(c)
      PROVE  BatchIsFunded'
  BY <1>1, <1>5, SignedIs, BatchIs, IdledIs, ConfirmedIs, LostIs
<1>6. ASSUME NEW c \in Clients, statement(c) PROVE BatchIsFunded'
  BY <1>1, <1>6, StatementIs, StatementWrites
<1> QED
  BY <1>2, <1>3, <1>4, <1>5, <1>6, NextCases

\* What is known of a page stays known when the page is not the one that steps.
LEMMA OtherClientOk ==
  ASSUME NEW d \in Clients, ClientOk(d), client'[d] = client[d], terms' = terms,
         sibling.status # "NONE" => sibling'.status # "NONE",
         utxo.status = "CANCELLED" => utxo'.status = "CANCELLED"
  PROVE  ClientOk(d)'
<1>1. TxOk(client[d].tx) => TxOk(client[d].tx)'
  BY DEF TxOk
<1> QED
  BY <1>1 DEF ClientOk, TxOk, Outstanding, Remains

\* What is known of every page is kept.
LEMMA ClientsOkKept ==
  ASSUME Typed, ClientsOk, WholeShares, [Next]_vars
  PROVE  ClientsOk'
<1>1. ASSUME NEW d \in Clients PROVE ClientOk(d)
  BY DEF ClientsOk
<1>2. CASE Vest
  <2>1. ASSUME NEW d \in Clients PROVE ClientOk(d)'
    BY <1>1, <1>2, VestIs, OtherClientOk
  <2> QED
    BY <2>1 DEF ClientsOk
<1>3. CASE UNCHANGED vars
  <2>1. ASSUME NEW d \in Clients PROVE ClientOk(d)'
    BY <1>1, <1>3, OtherClientOk DEF vars
  <2> QED
    BY <2>1 DEF ClientsOk
<1>4. ASSUME NEW c \in Clients, \A d \in Clients : d # c => client'[d] = client[d], terms' = terms,
             sibling.status # "NONE" => sibling'.status # "NONE",
             utxo.status = "CANCELLED" => utxo'.status = "CANCELLED",
             ClientOk(c)'
      PROVE  ClientsOk'
  <2>1. ASSUME NEW d \in Clients PROVE ClientOk(d)'
    BY <1>1, <1>4, OtherClientOk
  <2> QED
    BY <2>1 DEF ClientsOk
<1>5. ASSUME NEW c \in Clients, SignStep(c) PROVE ClientsOk'
  <2>1. PICK tx : TxOk(tx) /\ tx.op # "batch" /\ Turned(c, "signing", tx, <<>>, 0)
    BY <1>5, SignedIs
  <2>2. TxOk(tx)'
    BY <1>5, <2>1, SignedIs DEF TxOk
  <2>3. ClientOk(c)'
    BY <2>1, <2>2 DEF Turned, ClientOk, Outstanding, TxOk
  <2> QED
    BY <1>4, <1>5, <2>1, <2>3, SignedIs DEF Turned
<1>6. ASSUME NEW c \in Clients, fundBatchStreamContracts(c) PROVE ClientsOk'
  <2>1. PICK tx \in Txs : tx.op = "batch" /\ tx.keep \in 0 .. Total + Reserve /\ Turned(c, "signing", tx, <<>>, 0)
    BY <1>6, BatchIs
  <2>2. TxOk(tx)'
    BY <1>6, <2>1, BatchIs DEF TxOk
  <2>3. ClientOk(c)'
    BY <2>1, <2>2 DEF Turned, ClientOk, Outstanding, TxOk
  <2> QED
    BY <1>4, <1>6, <2>1, <2>3, BatchIs DEF Turned
<1>7. ASSUME NEW c \in Clients, Turned(c, "idle", NoTx, <<>>, 0) PROVE ClientOk(c)'
  BY <1>7 DEF Turned, ClientOk, Outstanding
<1>8. ASSUME NEW c \in Clients, IdleStep(c) PROVE ClientsOk'
  BY <1>4, <1>7, <1>8, IdledIs DEF Turned
<1>9. ASSUME NEW c \in Clients, Taken(c) PROVE ClientsOk'
  <2>1. PICK tx : tx = client[c].tx
    OBVIOUS
  <2>2. /\ TxOk(tx) /\ tx.op # "refill" /\ terms' = terms /\ sibling'.status = sibling.status
        /\ tx.op = "cancel" => utxo'.status = "CANCELLED"
    BY <1>9, <2>1, TakenIs, MovedIs DEF Result
  <2>3. TxOk(tx)'
    BY <2>2 DEF TxOk
  <2>4. ASSUME Turned(c, "waiting", tx, <<>>, 0) PROVE ClientOk(c)'
    BY <2>2, <2>3, <2>4 DEF Turned, ClientOk, Outstanding, TxOk
  <2>5. ClientOk(c)'
    BY <1>7, <1>9, <2>1, <2>4, TakenIs
  <2> QED
    BY <1>4, <1>9, <2>2, <2>5, TakenIs, NothingAfterCancel DEF Turned
<1>10. ASSUME NEW c \in Clients, Confirmed(c) PROVE ClientsOk'
  <2>1. PICK tx : tx = client[c].tx
    OBVIOUS
  <2>2. /\ TxOk(tx) /\ tx.op # "refill" /\ UNCHANGED <<terms, sibling, utxo>>
        /\ tx.op = "cancel" => utxo.status = "CANCELLED"
    BY <1>1, <1>10, <2>1, ConfirmedIs DEF ClientOk, Outstanding
  <2>3. TxOk(tx)'
    BY <2>2 DEF TxOk
  <2>4. row.withdrawn + tx.pay \in Nat
    <3>1. tx.pay \in Nat /\ row.withdrawn \in Nat
      BY <2>2, Numbers, TxTypes DEF TxOk
    <3> QED
      BY <3>1
  <2>5. PICK todo \in Todos : Remains(tx, todo) /\ Turned(c, "running", tx, todo, client[c].tries)
    BY <1>10, <2>1, <2>4, ConfirmedIs DEF Remains
  <2>6. ClientOk(c)'
    BY <2>2, <2>3, <2>5 DEF Turned, ClientOk, Outstanding, TxOk, Remains
  <2> QED
    BY <1>4, <1>10, <2>2, <2>5, <2>6 DEF Turned
<1>11. ASSUME NEW c \in Clients, statement(c) PROVE ClientsOk'
  <2>1. PICK tx : tx = client[c].tx
    OBVIOUS
  <2>2. PICK todo : todo = client'[c].todo
    OBVIOUS
  <2>3. /\ client[c].at = "running" /\ UNCHANGED <<terms, utxo>>
        /\ client'[c].tx = tx /\ client'[c].at = "running" /\ Remains(tx, todo)
        /\ sibling.status # "NONE" => sibling'.status # "NONE"
    BY <1>11, <2>1, <2>2, StatementIs, StatementWrites
  <2>4. /\ TxOk(tx) /\ tx.op # "refill"
        /\ tx.op = "cancel" => utxo.status = "CANCELLED"
    BY <1>1, <2>1, <2>3 DEF ClientOk, Outstanding
  <2>5. TxOk(tx)'
    BY <2>3, <2>4 DEF TxOk
  <2>6. ClientOk(c)'
    BY <2>2, <2>3, <2>4, <2>5 DEF ClientOk, Outstanding, TxOk, Remains
  <2> QED
    BY <1>4, <1>11, <2>3, <2>6, StatementIs
<1>12. ASSUME NEW c \in Clients, lose(c) PROVE ClientsOk'
  <2>1. PICK tx : tx = client[c].tx
    OBVIOUS
  <2>2. /\ TxOk(tx) /\ tx.op # "refill" /\ UNCHANGED <<terms, sibling, utxo>>
        /\ tx.op = "cancel" => utxo.status = "CANCELLED"
    BY <1>1, <1>12, <2>1, LostIs DEF ClientOk, Outstanding
  <2>3. TxOk(tx)'
    BY <2>2 DEF TxOk
  <2>4. ASSUME NEW n \in Nat, Turned(c, "waiting", tx, <<>>, n) PROVE ClientOk(c)'
    BY <2>2, <2>3, <2>4 DEF Turned, ClientOk, Outstanding, TxOk
  <2>5. ClientOk(c)'
    BY <1>7, <1>12, <2>1, <2>4, LostIs
  <2> QED
    BY <1>4, <1>12, <2>2, <2>5, LostIs DEF Turned
<1> QED
  BY <1>2, <1>3, <1>5, <1>6, <1>8, <1>9, <1>10, <1>11, <1>12, NextCases

\* Nothing happens to a stream before its batch is created.
LEMMA NoneIsFreshKept ==
  ASSUME Typed, ClientsOk, WholeShares, NoneIsFresh, [Next]_vars
  PROVE  NoneIsFresh'
<1>1. CASE UNCHANGED vars
  BY <1>1 DEF vars, NoneIsFresh
<1>2. CASE row.status # "NONE"
  <2>1. ASSUME row'.status # "NONE" PROVE NoneIsFresh'
    BY <2>1 DEF NoneIsFresh
  <2>2. CASE Vest
    BY <1>2, <2>1, <2>2, VestIs
  <2>3. ASSUME NEW c \in Clients, statement(c) PROVE NoneIsFresh'
    <3>1. Becomes(client[c].tx.op) # "NONE"
      BY DEF Becomes
    <3> QED
      BY <1>2, <2>1, <2>3, <3>1, StatementWrites
  <2>4. ASSUME NEW c \in Clients,
               SignStep(c) \/ fundBatchStreamContracts(c) \/ IdleStep(c) \/ Taken(c) \/ Confirmed(c) \/ lose(c)
        PROVE  NoneIsFresh'
    BY <1>2, <2>1, <2>4, SignedIs, BatchIs, IdledIs, TakenIs, ConfirmedIs, LostIs
  <2> QED
    BY <1>1, <2>2, <2>3, <2>4, NextCases
<1>3. CASE row.status = "NONE"
  <2>1. terms.kind = "stream" /\ utxo.status = "UNFUNDED" /\ \A c \in Clients : client[c].at = "idle"
    BY <1>3 DEF NoneIsFresh
  <2>2. ~Vest
    BY <2>1, VestIs DEF Live
  <2>3. ASSUME NEW c \in Clients, fundBatchStreamContracts(c) PROVE NoneIsFresh'
    BY <2>3, BatchIs DEF NoneIsFresh
  <2>4. ASSUME NEW c \in Clients,
               SignStep(c) \/ IdleStep(c) \/ Taken(c) \/ Confirmed(c) \/ statement(c) \/ lose(c)
        PROVE  FALSE
    BY <1>3, <2>1, <2>4, SignedIs, IdledIs, TakenIs, ConfirmedIs, StatementIs, LostIs
  <2> QED
    BY <1>1, <2>2, <2>3, <2>4, NextCases
<1> QED
  BY <1>2, <1>3

\* A row says cancelled only when the chain does.
LEMMA CancelledOnChainKept ==
  ASSUME Typed, ClientsOk, WholeShares, CancelledOnChain, [Next]_vars
  PROVE  CancelledOnChain'
<1>1. ASSUME row'.status = row.status, utxo'.status = utxo.status PROVE CancelledOnChain'
  BY <1>1 DEF CancelledOnChain
<1>2. CASE Vest
  BY <1>1, <1>2, VestIs
<1>3. CASE UNCHANGED vars
  BY <1>1, <1>3 DEF vars
<1>4. ASSUME NEW c \in Clients, SignStep(c) \/ IdleStep(c) \/ Confirmed(c) \/ lose(c) PROVE CancelledOnChain'
  BY <1>1, <1>4, SignedIs, IdledIs, ConfirmedIs, LostIs
<1>5. ASSUME NEW c \in Clients, fundBatchStreamContracts(c) PROVE CancelledOnChain'
  BY <1>5, BatchIs DEF CancelledOnChain
<1>6. ASSUME NEW c \in Clients, Taken(c) PROVE CancelledOnChain'
  BY <1>6, TakenIs, NothingAfterCancel DEF CancelledOnChain
<1>7. ASSUME NEW c \in Clients, statement(c) PROVE CancelledOnChain'
  <2>1. client[c].tx.op = "cancel" => utxo.status = "CANCELLED"
    BY <1>7, StatementWrites DEF ClientsOk, ClientOk
  <2>2. Becomes(client[c].tx.op) = "CANCELLED" => client[c].tx.op = "cancel"
    BY DEF Becomes
  <2> QED
    BY <1>7, <2>1, <2>2, StatementIs, StatementWrites DEF CancelledOnChain
<1> QED
  BY <1>2, <1>3, <1>4, <1>5, <1>6, <1>7, NextCases

\* Without overlapping operations, one page at most waits, for the transaction the chain took last.
LEMMA OneOutstandingKept ==
  ASSUME Typed, ClientsOk, WholeShares, OneOutstanding, [Next]_vars
  PROVE  OneOutstanding'
<1>1. ASSUME mishaps \subseteq mishaps', utxo'.status = utxo.status,
             \A d \in Clients : Outstanding(d)' => Outstanding(d) /\ client'[d].tx = client[d].tx
      PROVE  OneOutstanding'
  BY <1>1 DEF OneOutstanding
<1>2. CASE Vest
  BY <1>1, <1>2, VestIs, OthersStay
<1>3. CASE UNCHANGED vars
  BY <1>1, <1>3, OthersStay DEF vars
<1>4. ASSUME NEW c \in Clients, mishaps \subseteq mishaps', utxo'.status = utxo.status,
             \A d \in Clients : d # c => client'[d] = client[d],
             Outstanding(c)' => Outstanding(c) /\ client'[c].tx = client[c].tx
      PROVE  OneOutstanding'
  BY <1>1, <1>4, OthersStay
<1>5. ASSUME NEW c \in Clients, SignStep(c) \/ fundBatchStreamContracts(c) \/ IdleStep(c) PROVE OneOutstanding'
  BY <1>4, <1>5, SignedIs, BatchIs, IdledIs, TurnedShows
<1>6. ASSUME NEW c \in Clients, Confirmed(c) PROVE OneOutstanding'
  BY <1>4, <1>6, ConfirmedIs, TurnedShows DEF Outstanding
<1>7. ASSUME NEW c \in Clients, statement(c) PROVE OneOutstanding'
  BY <1>4, <1>7, StatementIs, StatementWrites
<1>8. ASSUME NEW c \in Clients, lose(c) PROVE OneOutstanding'
  BY <1>4, <1>8, LostIs, TurnedShows DEF Outstanding
<1>9. ASSUME NEW c \in Clients, Taken(c) PROVE OneOutstanding'
  <2>1. SUFFICES ASSUME "overlapped" \notin mishaps'
                 PROVE  /\ \A d, e \in Clients : Outstanding(d)' /\ Outstanding(e)' => d = e
                        /\ \A d \in Clients : Outstanding(d)' => utxo'.status \in Result(client'[d].tx.op)
    BY DEF OneOutstanding
  <2>2. \A d \in Clients : d # c => ~Outstanding(d)'
    BY <1>9, <2>1, TakenIs, OthersStay, TurnedShows
  <2>3. Outstanding(c)' => client'[c].tx = client[c].tx
    BY <1>9, TakenIs, TurnedShows
  <2> QED
    BY <1>9, <2>2, <2>3, MovedIs
<1> QED
  BY <1>2, <1>3, <1>5, <1>6, <1>7, <1>8, <1>9, NextCases

\* Without a race, one handler at most is writing.
LEMMA OneWriterKept ==
  ASSUME Typed, ClientsOk, WholeShares, OneWriter, [Next]_vars
  PROVE  OneWriter'
<1>1. ASSUME mishaps \subseteq mishaps', \A d \in Clients : Writing(d)' => Writing(d)
      PROVE  OneWriter'
  BY <1>1 DEF OneWriter
<1>2. CASE Vest
  BY <1>1, <1>2, VestIs, OthersStay
<1>3. CASE UNCHANGED vars
  BY <1>1, <1>3, OthersStay DEF vars
<1>4. ASSUME NEW c \in Clients, mishaps \subseteq mishaps',
             \A d \in Clients : d # c => client'[d] = client[d], Writing(c)' => Writing(c)
      PROVE  OneWriter'
  BY <1>1, <1>4, OthersStay
<1>5. ASSUME NEW c \in Clients,
             SignStep(c) \/ fundBatchStreamContracts(c) \/ IdleStep(c) \/ Taken(c) \/ lose(c)
      PROVE  OneWriter'
  BY <1>4, <1>5, SignedIs, BatchIs, IdledIs, TakenIs, LostIs, TurnedShows
<1>6. ASSUME NEW c \in Clients, statement(c) PROVE OneWriter'
  BY <1>4, <1>6, StatementIs
<1>7. ASSUME NEW c \in Clients, Confirmed(c) PROVE OneWriter'
  <2>1. SUFFICES ASSUME "raced" \notin mishaps' PROVE \A d \in Clients : Writing(d)' => d = c
    BY DEF OneWriter
  <2> QED
    BY <1>7, <2>1, ConfirmedIs, OthersStay DEF Turned
<1> QED
  BY <1>2, <1>3, <1>5, <1>6, <1>7, NextCases

\* Without a race, no handler writes the status of a stream that was cancelled.
LEMMA NotYetCancelledKept ==
  ASSUME Typed, ClientsOk, WholeShares, OneWriter, NotYetCancelled, [Next]_vars
  PROVE  NotYetCancelled'
<1>1. ASSUME mishaps \subseteq mishaps', terms' = terms, row'.status = row.status,
             \A d \in Clients : SetsStatus(d)' => SetsStatus(d)
      PROVE  NotYetCancelled'
  BY <1>1 DEF NotYetCancelled
<1>2. CASE Vest
  BY <1>1, <1>2, VestIs, OthersStay
<1>3. CASE UNCHANGED vars
  BY <1>1, <1>3, OthersStay DEF vars
<1>4. ASSUME NEW c \in Clients, mishaps \subseteq mishaps', terms' = terms, row'.status = row.status,
             \A d \in Clients : d # c => client'[d] = client[d], SetsStatus(c)' => SetsStatus(c)
      PROVE  NotYetCancelled'
  BY <1>1, <1>4, OthersStay
<1>5. ASSUME NEW c \in Clients, Writing(c)' => SetsStatus(c) PROVE SetsStatus(c)' => SetsStatus(c)
  BY <1>5 DEF SetsStatus
<1>6. ASSUME NEW c \in Clients, SignStep(c) \/ IdleStep(c) \/ Taken(c) \/ lose(c)
      PROVE  NotYetCancelled'
  BY <1>4, <1>5, <1>6, SignedIs, IdledIs, TakenIs, LostIs, TurnedShows
<1>7. ASSUME NEW c \in Clients, fundBatchStreamContracts(c) PROVE NotYetCancelled'
  BY <1>7, BatchIs DEF NotYetCancelled
<1>8. ASSUME NEW c \in Clients, Confirmed(c) PROVE NotYetCancelled'
  <2>1. PICK tx : tx = client[c].tx
    OBVIOUS
  <2>2. SUFFICES ASSUME terms.kind \in Streams, "raced" \notin mishaps,
                        NEW d \in Clients, SetsStatus(d)'
                 PROVE  row.status # "CANCELLED"
    BY <1>8, ConfirmedIs DEF NotYetCancelled
  <2>3. CASE d # c
    BY <1>8, <2>2, <2>3, ConfirmedIs, TurnedShows, OthersStay DEF NotYetCancelled
  <2>4. CASE d = c
    <3>1. tx.op \in Ops \ {"claim", "refill"}
      BY <1>8, <2>1, <2>2, <2>4, ConfirmedIs, TurnedShows, TxTypes DEF SetsStatus, TxOk
    <3>2. StatusAllows(tx) /\ terms.kind # "budget"
      BY <1>8, <2>1, <2>2, ConfirmedIs DEF Verified, Streams
    <3> QED
      BY <2>2, <3>1, <3>2 DEF StatusAllows, Live, Ops
  <2> QED
    BY <2>3, <2>4
<1>9. ASSUME NEW c \in Clients, statement(c) PROVE NotYetCancelled'
  <2>1. SUFFICES ASSUME terms.kind \in Streams, "raced" \notin mishaps,
                        NEW d \in Clients, SetsStatus(d)'
                 PROVE  row'.status # "CANCELLED"
    BY <1>9, StatementIs DEF NotYetCancelled
  <2>2. d = c
    BY <1>9, <2>1, StatementIs, OthersStay DEF OneWriter, SetsStatus
  <2>3. /\ client'[c].tx = client[c].tx /\ client'[c].tx.op # "claim"
        /\ client'[c].todo # <<>>
        /\ client'[c].tx.op = "batch" => client'[c].todo # <<SetSibling>>
    BY <1>9, <2>1, <2>2, StatementWrites DEF SetsStatus, Writing
  <2>4. SiblingWritten(c)
    <3>1. ~StatusWritten(c) /\ ~ClaimRecorded(c)
      BY <2>3 DEF StatusWritten, ClaimRecorded, HasLeft
    <3>2. ~AmountWritten(c)
      BY <2>3 DEF AmountWritten
    <3>3. ~RowOfBatchWritten(c)
      BY <2>3 DEF RowOfBatchWritten, HasLeft
    <3> QED
      BY <1>9, <3>1, <3>2, <3>3, StatementIs
  <2>5. client[c].todo = <<SetSibling, SetStatus("ACTIVE")>> /\ row' = row
    BY <2>3, <2>4 DEF SiblingWritten, HasLeft
  <2>6. SetsStatus(c)
    BY <2>3, <2>5, Lists DEF SetsStatus, Writing
  <2> QED
    BY <2>1, <2>5, <2>6 DEF NotYetCancelled
<1> QED
  BY <1>2, <1>3, <1>6, <1>7, <1>8, <1>9, NextCases

-----------------------------------------------------------------------------
(* The records *)

\* The sum of what is unrecorded changes by what is unrecorded of one page.
LEMMA UnrecordedMoves ==
  ASSUME Typed, ClientsOk, Typed', ClientsOk', NEW c \in Clients,
         \A d \in Clients : d # c => client'[d] = client[d]
  PROVE  /\ SumFunctionOnSet(Unrecorded, Clients) \in Nat
         /\ SumFunctionOnSet(Unrecorded', Clients) \in Nat
         /\ SumFunctionOnSet(Unrecorded', Clients)
              = SumFunctionOnSet(Unrecorded, Clients) - Unrecorded[c] + Unrecorded'[c]
         /\ Unrecorded[c] \in Nat /\ Unrecorded'[c] \in Nat
<1>1. ASSUME NEW d \in Clients PROVE Unrecorded[d] \in Nat
  <2>1. Owed(d) => client[d].tx \in Txs
    BY DEF Owed, ClientsOk, ClientOk, TxOk, Writing
  <2> QED
    BY <2>1, TxTypes DEF Unrecorded
<1>2. ASSUME NEW d \in Clients PROVE Unrecorded'[d] \in Nat
  <2>1. Owed(d)' => client'[d].tx \in Txs
    BY DEF Owed, ClientsOk, ClientOk, TxOk, Writing
  <2> QED
    BY <2>1, TxTypes DEF Unrecorded
<1>3. ASSUME NEW d \in Clients, d # c PROVE Unrecorded[d] = Unrecorded'[d]
  BY <1>3 DEF Unrecorded, Owed, Writing
<1>4. PICK f : f = Unrecorded
  OBVIOUS
<1>5. PICK g : g = Unrecorded'
  OBVIOUS
<1>6. \A d \in Clients : f[d] \in Nat /\ g[d] \in Nat
  BY <1>1, <1>2, <1>4, <1>5
<1>7. \A d \in Clients : d # c => f[d] = g[d]
  BY <1>3, <1>4, <1>5
<1>8. /\ SumFunctionOnSet(f, Clients) \in Nat /\ SumFunctionOnSet(g, Clients) \in Nat
      /\ SumFunctionOnSet(g, Clients) = SumFunctionOnSet(f, Clients) - f[c] + g[c]
  BY <1>6, <1>7, CFacts, SumNat, SumUpdate
<1> QED
  BY <1>4, <1>5, <1>6, <1>8

\* What is unrecorded of a page.
LEMMA UnrecordedIs ==
  ASSUME NEW c \in Clients
  PROVE  /\ Unrecorded[c] = IF Owed(c) THEN client[c].tx.pay ELSE 0
         /\ Unrecorded'[c] = IF Owed(c)' THEN client'[c].tx.pay ELSE 0
BY DEF Unrecorded

\* Unless a confirmation is posted again, the records and what they lack stay within what was released.
LEMMA RecordsTrailKept ==
  ASSUME Typed, ClientsOk, WholeShares, RecordsTrail, Typed', ClientsOk', [Next]_vars
  PROVE  RecordsTrail'
<1> DEFINE Before == SumFunctionOnSet(Unrecorded, Clients)
           Later == SumFunctionOnSet(Unrecorded', Clients)
<1>0. records \in Nat /\ utxo.released \in Nat /\ records' \in Nat /\ utxo'.released \in Nat
  <2>1. records \in Nat /\ utxo.released \in Nat
    BY Numbers
  <2>2. records' \in Nat /\ utxo' \in Utxo
    BY DEF Typed
  <2> QED
    BY <2>1, <2>2, CFacts DEF Utxo
<1>1. RecordsTrail' = ("retried" \notin mishaps' => records' + Later <= utxo'.released)
  BY DEF RecordsTrail
<1>2. "retried" \notin mishaps => records + Before <= utxo.released
  BY DEF RecordsTrail
<1>3. ASSUME NEW c \in Clients, \A d \in Clients : d # c => client'[d] = client[d],
             mishaps \subseteq mishaps',
             "retried" \notin mishaps' =>
               records' + Unrecorded'[c] + utxo.released <= records + Unrecorded[c] + utxo'.released
      PROVE  RecordsTrail'
  <2>1. /\ Before \in Nat /\ Later \in Nat /\ Later = Before - Unrecorded[c] + Unrecorded'[c]
        /\ Unrecorded[c] \in Nat /\ Unrecorded'[c] \in Nat
    BY <1>3, UnrecordedMoves
  <2> HIDE DEF Before, Later
  <2>2. SUFFICES ASSUME "retried" \notin mishaps' PROVE records' + Later <= utxo'.released
    BY <1>1
  <2>3. records + Before <= utxo.released
    BY <1>2, <1>3, <2>2
  <2>4. PICK x \in Nat : x = Unrecorded[c]
    BY <2>1
  <2>5. PICK y \in Nat : y = Unrecorded'[c]
    BY <2>1
  <2>6. records' + y + utxo.released <= records + x + utxo'.released /\ Later = Before - x + y
    BY <1>3, <2>1, <2>2, <2>4, <2>5
  <2> QED
    BY <1>0, <2>1, <2>3, <2>6
<1>4. ASSUME UNCHANGED client, mishaps' = mishaps, records' = records, utxo'.released = utxo.released
      PROVE  RecordsTrail'
  <2>1. Unrecorded' = Unrecorded
    BY <1>4 DEF Unrecorded, Owed, Writing
  <2> QED
    BY <1>1, <1>2, <1>4, <2>1
<1>5. CASE Vest
  BY <1>4, <1>5, VestIs
<1>6. CASE UNCHANGED vars
  BY <1>4, <1>6 DEF vars
<1>7. ASSUME NEW c \in Clients PROVE Unrecorded[c] \in Nat /\ (Owed(c) => client[c].tx.pay \in Nat)
  <2>1. Owed(c) => client[c].tx \in Txs
    BY DEF Owed, ClientsOk, ClientOk, TxOk, Writing
  <2> QED
    BY <2>1, TxTypes, UnrecordedIs
<1>8. ASSUME NEW c \in Clients, \A d \in Clients : d # c => client'[d] = client[d],
             mishaps \subseteq mishaps', ~Owed(c)', records' = records, utxo'.released = utxo.released
      PROVE  RecordsTrail'
  <2>1. Unrecorded'[c] = 0
    BY <1>8, UnrecordedIs
  <2>2. PICK x \in Nat : x = Unrecorded[c]
    BY <1>7
  <2>3. records' + 0 + utxo.released <= records + x + utxo'.released
    BY <1>0, <1>8, <2>2
  <2> QED
    BY <1>3, <1>8, <2>1, <2>2, <2>3
<1>9. ASSUME NEW c \in Clients,
             SignStep(c) \/ fundBatchStreamContracts(c) \/ IdleStep(c) \/ lose(c)
      PROVE  RecordsTrail'
  <2>1. ~Owed(c)'
    <3>1. client'[c].at # "waiting" \/ client'[c].tries # 0
      BY <1>9, SignedIs, BatchIs, IdledIs, LostIs, TurnedShows
    <3>2. ~Writing(c)'
      BY <1>9, SignedIs, BatchIs, IdledIs, LostIs, TurnedShows
    <3> QED
      BY <3>1, <3>2 DEF Owed
  <2> QED
    BY <1>8, <1>9, <2>1, SignedIs, BatchIs, IdledIs, LostIs, TurnedShows
<1>10. ASSUME NEW c \in Clients, Taken(c) PROVE RecordsTrail'
  <2>1. PICK tx : tx = client[c].tx
    OBVIOUS
  <2>2. /\ tx.pay \in Nat /\ records' = records /\ mishaps \subseteq mishaps'
        /\ utxo'.released = utxo.released + (IF tx.op = "claim" THEN tx.pay ELSE 0)
    BY <1>10, <2>1, TakenIs, MovedIs, TxTypes
  <2>3. \/ Turned(c, "waiting", tx, <<>>, 0)
        \/ Turned(c, "idle", NoTx, <<>>, 0)
    BY <1>10, <2>1, TakenIs
  <2>4. Owed(c)' => tx.op = "claim" /\ client'[c].tx = tx
    BY <2>3, TurnedShows DEF Owed
  <2>5. PICK y : y = Unrecorded'[c]
    OBVIOUS
  <2>6. y = 0 \/ (tx.op = "claim" /\ y = tx.pay)
    BY <2>4, <2>5, UnrecordedIs
  <2>7. PICK x \in Nat : x = Unrecorded[c]
    BY <1>7
  <2>8. records' + y + utxo.released <= records + x + utxo'.released
    BY <1>0, <2>2, <2>6, <2>7
  <2> QED
    BY <1>3, <2>2, <2>3, <2>5, <2>7, <2>8, TurnedShows
<1>11. ASSUME NEW c \in Clients, Confirmed(c) PROVE RecordsTrail'
  <2>1. "retried" \notin mishaps' => client[c].tries = 0
    <3>1. PICK n \in Nat : n = client[c].tries
      BY ClientFields
    <3>2. "retried" \notin mishaps' => ~(n > 0)
      BY <1>11, <3>1, ConfirmedIs
    <3> QED
      BY <3>1, <3>2
  <2>2. /\ client[c].at = "waiting" /\ client'[c].tx = client[c].tx
        /\ records' = records /\ utxo' = utxo /\ mishaps \subseteq mishaps'
        /\ \A d \in Clients : d # c => client'[d] = client[d]
    BY <1>11, ConfirmedIs, TurnedShows
  <2>3. "retried" \notin mishaps' => (Owed(c)' => Owed(c))
    BY <2>1, <2>2 DEF Owed
  <2>4. PICK x \in Nat : x = Unrecorded[c]
    BY <1>7
  <2>5. PICK y : y = Unrecorded'[c]
    OBVIOUS
  <2>6. "retried" \notin mishaps' => y = 0 \/ y = x
    BY <2>2, <2>3, <2>4, <2>5, UnrecordedIs
  <2>7. "retried" \notin mishaps' => records' + y + utxo.released <= records + x + utxo'.released
    BY <1>0, <2>2, <2>4, <2>6
  <2> QED
    BY <1>3, <2>2, <2>4, <2>5, <2>7
<1>12. ASSUME NEW c \in Clients, statement(c) PROVE RecordsTrail'
  <2>1. /\ client'[c].tx = client[c].tx /\ client'[c].at = "running" /\ Writing(c)
        /\ utxo' = utxo /\ mishaps' = mishaps
        /\ \A d \in Clients : d # c => client'[d] = client[d]
    BY <1>12, StatementIs, StatementWrites
  <2>2. Owed(c)' => Owed(c)
    BY <2>1 DEF Owed
  <2>3. CASE ClaimRecorded(c)
    <3>1. Owed(c) /\ ~Owed(c)'
      BY <2>1, <2>3 DEF ClaimRecorded, HasLeft, Owed, Writing
    <3>2. Unrecorded[c] = client[c].tx.pay /\ Unrecorded'[c] = 0
      BY <3>1, UnrecordedIs
    <3>3. PICK x \in Nat : x = client[c].tx.pay
      BY <1>7, <3>1
    <3>4. records' + 0 + utxo.released <= records + x + utxo'.released
      BY <1>0, <2>1, <2>3, <3>3 DEF ClaimRecorded
    <3> QED
      BY <1>3, <2>1, <3>2, <3>3, <3>4
  <2>4. CASE ~ClaimRecorded(c)
    <3>1. records' = records
      BY <1>12, <2>4, StatementIs
      DEF StatusWritten, AmountWritten, RowOfBatchWritten, SiblingWritten
    <3>2. PICK x \in Nat : x = Unrecorded[c]
      BY <1>7
    <3>3. PICK y : y = Unrecorded'[c]
      OBVIOUS
    <3>4. y = 0 \/ y = x
      BY <2>1, <2>2, <3>2, <3>3, UnrecordedIs
    <3>5. records' + y + utxo.released <= records + x + utxo'.released
      BY <1>0, <2>1, <3>1, <3>2, <3>4
    <3> QED
      BY <1>3, <2>1, <3>2, <3>3, <3>5
  <2> QED
    BY <2>3, <2>4
<1> QED
  BY <1>5, <1>6, <1>9, <1>10, <1>11, <1>12, NextCases


\* Unless confirmations race or one is interrupted, the row has withdrawn what the records add up to,
\* but for the step between a handler's two statements.
LEMMA WithdrawnAddsUpKept ==
  ASSUME Typed, ClientsOk, WholeShares, NoneIsFresh, OneWriter, WithdrawnAddsUp, OneWriter', [Next]_vars
  PROVE  WithdrawnAddsUp'
<1>1. ASSUME mishaps \subseteq mishaps', UNCHANGED <<row, records>>,
             \A d \in Clients : Writing(d)' <=> Writing(d),
             \A d \in Clients : Writing(d) => client'[d] = client[d]
      PROVE  WithdrawnAddsUp'
  BY <1>1 DEF WithdrawnAddsUp, Halfway
<1>2. CASE Vest
  BY <1>1, <1>2, VestIs, OthersStay
<1>3. CASE UNCHANGED vars
  BY <1>1, <1>3, OthersStay DEF vars
<1>4. ASSUME NEW c \in Clients, client[c].at # "running" PROVE ~Writing(c)
  BY <1>4 DEF Writing, ClientsOk, ClientOk
<1>5. ASSUME NEW c \in Clients, mishaps \subseteq mishaps', UNCHANGED <<row, records>>,
             \A d \in Clients : d # c => client'[d] = client[d], ~Writing(c), ~Writing(c)'
      PROVE  WithdrawnAddsUp'
  BY <1>1, <1>5, OthersStay
<1>6. ASSUME NEW c \in Clients, SignStep(c) \/ IdleStep(c) \/ Taken(c) PROVE WithdrawnAddsUp'
  BY <1>4, <1>5, <1>6, SignedIs, IdledIs, TakenIs, TurnedShows
<1>7. ASSUME NEW c \in Clients, fundBatchStreamContracts(c) PROVE WithdrawnAddsUp'
  <2>1. row'.withdrawn = 0 /\ records' = 0
    BY <1>7, BatchIs DEF NoneIsFresh
  <2>2. \A d \in Clients : client[d].at = "idle"
    BY <1>7, BatchIs DEF NoneIsFresh
  <2>3. ~Writing(c)' /\ \A d \in Clients : d # c => client'[d] = client[d]
    BY <1>7, BatchIs, TurnedShows
  <2>4. \A d \in Clients : ~Writing(d)'
    BY <1>4, <2>2, <2>3, OthersStay
  <2> QED
    BY <2>1, <2>4 DEF WithdrawnAddsUp
<1>8. ASSUME NEW c \in Clients, lose(c) PROVE WithdrawnAddsUp'
  <2>1. CASE Writing(c)
    BY <1>8, <2>1, LostIs DEF WithdrawnAddsUp
  <2>2. CASE ~Writing(c)
    BY <1>5, <1>8, <2>2, LostIs, TurnedShows
  <2> QED
    BY <2>1, <2>2
<1>9. ASSUME NEW c \in Clients, Confirmed(c) PROVE WithdrawnAddsUp'
  <2>1. PICK tx : tx = client[c].tx
    OBVIOUS
  <2>2. SUFFICES ASSUME {"raced", "interrupted"} \cap mishaps' = {}
                 PROVE  (\E d \in Clients : Writing(d)') /\ \A d \in Clients : Writing(d)' => Halfway(d)'
    BY DEF WithdrawnAddsUp
  <2>3. ~Writing(c) /\ \A d \in Clients : d # c => ~Writing(d)
    BY <1>4, <1>9, <2>2, ConfirmedIs
  <2>4. row.withdrawn = records /\ UNCHANGED <<row, records>>
    BY <1>9, <2>2, <2>3, ConfirmedIs DEF WithdrawnAddsUp
  <2>5. PICK todo \in Todos :
          /\ todo # <<>>
          /\ tx.op = "claim" => todo = <<SetWithdrawn(row.withdrawn + tx.pay), Recording(tx.pay)>>
          /\ Turned(c, "running", tx, todo, client[c].tries)
    BY <1>9, <2>1, ConfirmedIs
  <2>6. \A d \in Clients : d # c => ~Writing(d)'
    BY <2>3, <2>5, TurnedShows, OthersStay
  <2>7. Writing(c)' /\ client'[c].tx = tx /\ client'[c].todo = todo
    BY <2>5, TurnedShows
  <2>8. Halfway(c)'
    <3>1. CASE tx.op = "claim"
      <4>1. todo = <<SetWithdrawn(records + tx.pay), Recording(tx.pay)>>
        BY <2>4, <2>5, <3>1
      <4>2. todo # <<Recording(tx.pay)>>
        BY <4>1, Lists
      <4>3. todo = <<SetWithdrawn(records' + tx.pay), Recording(tx.pay)>> /\ row'.withdrawn = records'
        BY <2>4, <4>1
      <4> QED
        BY <2>7, <3>1, <4>2, <4>3 DEF Halfway
    <3>2. CASE tx.op # "claim"
      BY <2>4, <2>7, <3>2 DEF Halfway
    <3> QED
      BY <3>1, <3>2
  <2> QED
    BY <2>6, <2>7, <2>8
<1>10. ASSUME NEW c \in Clients, statement(c) PROVE WithdrawnAddsUp'
  <2>1. SUFFICES ASSUME {"raced", "interrupted"} \cap mishaps = {}
                 PROVE  /\ ~Writing(c)' => row'.withdrawn = records'
                        /\ Writing(c)' => Halfway(c)'
                        /\ \A d \in Clients : d # c => ~Writing(d)'
    BY <1>10, StatementIs DEF WithdrawnAddsUp
  <2>2. Writing(c) /\ \A d \in Clients : d # c => client'[d] = client[d]
    BY <1>10, StatementIs
  <2>3. \A d \in Clients : d # c => ~Writing(d)'
    BY <2>1, <2>2, OthersStay DEF OneWriter
  <2>4. Halfway(c)
    BY <2>1, <2>2 DEF WithdrawnAddsUp
  <2>5. row \in Row
    BY DEF Typed
  <2>6. CASE client[c].tx.op # "claim"
    <3>1. row.withdrawn = records
      BY <2>4, <2>6 DEF Halfway
    <3>2. row'.withdrawn = row.withdrawn /\ records' = records
      <4>1. StatusWritten(c) \/ RowOfBatchWritten(c) \/ SiblingWritten(c)
        BY <1>10, <2>6, StatementIs DEF AmountWritten, ClaimRecorded
      <4>2. CASE SiblingWritten(c)
        BY <4>2 DEF SiblingWritten
      <4>3. CASE StatusWritten(c)
        BY <4>3 DEF StatusWritten
      <4>4. CASE RowOfBatchWritten(c)
        BY <4>4 DEF RowOfBatchWritten
      <4> QED
        BY <4>1, <4>2, <4>3, <4>4
    <3>3. client'[c].tx.op # "claim"
      BY <1>10, <2>6, StatementWrites
    <3> QED
      BY <2>3, <3>1, <3>2, <3>3 DEF Halfway
  <2>7. CASE AmountWritten(c)
    <3>1. PICK tx : tx = client[c].tx
      OBVIOUS
    <3>2. PICK n \in Nat : /\ client[c].todo = <<SetWithdrawn(n), Recording(tx.pay)>>
                           /\ row' = [status |-> row.status, withdrawn |-> n]
      BY <2>7, <3>1 DEF AmountWritten
    <3>3. client[c].todo = <<SetWithdrawn(records + tx.pay), Recording(tx.pay)>>
      BY <2>4, <2>7, <3>1, <3>2, Lists DEF Halfway, AmountWritten
    <3>4. SetWithdrawn(n) = SetWithdrawn(records + tx.pay)
      BY <3>2, <3>3, Lists
    <3>5. n = records + tx.pay
      BY <3>4, StatementsCarry
    <3>6. /\ row'.withdrawn = records + tx.pay /\ records' = records
          /\ client'[c].tx = tx /\ client'[c].todo = <<Recording(tx.pay)>>
      BY <2>7, <3>1, <3>2, <3>5 DEF AmountWritten, HasLeft
    <3>7. Writing(c)' /\ Halfway(c)'
      <4>1. client'[c].tx.op = "claim" /\ client'[c].todo = <<Recording(client'[c].tx.pay)>>
        BY <2>7, <3>1, <3>6 DEF AmountWritten
      <4>2. row'.withdrawn = records' + client'[c].tx.pay
        BY <3>6
      <4>3. client'[c].todo # <<>>
        BY <4>1, Lists
      <4> QED
        BY <4>1, <4>2, <4>3 DEF Writing, Halfway
    <3> QED
      BY <2>3, <3>7
  <2>8. CASE ClaimRecorded(c)
    <3>1. row.withdrawn = records + client[c].tx.pay
      BY <2>4, <2>8 DEF Halfway, ClaimRecorded
    <3>2. row'.withdrawn = records' /\ ~Writing(c)'
      BY <2>8, <3>1 DEF ClaimRecorded, HasLeft, Writing
    <3> QED
      BY <2>3, <3>2
  <2> QED
    BY <1>10, <2>6, <2>7, <2>8, StatementIs DEF StatusWritten, RowOfBatchWritten, SiblingWritten
<1> QED
  BY <1>2, <1>3, <1>6, <1>7, <1>8, <1>9, <1>10, NextCases

-----------------------------------------------------------------------------
(* The row *)

\* An honest transaction's confirmation passes its checks the first time.
LEMMA BehindIsVerified ==
  ASSUME Typed, NEW tx, TxOk(tx), tx.op # "refill", Behind(tx, <<>>)
  PROVE  Verified(tx)
<1>1. tx.op \in Ops
  BY TxTypes DEF TxOk
<1>2. CASE tx.op = "claim"
  BY <1>2 DEF Verified, StatusAllows, RefundIsThere
<1>3. CASE tx.op = "batch"
  <2>1. <<>> # <<SetSibling>> /\ <<>> # <<SetStatus("ACTIVE")>>
    BY Lists
  <2>2. row.status = "PENDING" /\ sibling.status = "PENDING"
    BY <1>3, <2>1 DEF Behind, BehindBatch
  <2> QED
    BY <1>3, <2>2 DEF Verified, StatusAllows, RefundIsThere
<1>4. CASE tx.op \notin {"claim", "batch"}
  <2>1. BehindStatus(tx)
    BY <1>4 DEF Behind
  <2>2. StatusAllows(tx)
    BY <1>1, <1>4, <2>1 DEF BehindStatus, From, StatusAllows, Ops, Live
  <2>3. RefundIsThere(tx)
    BY <2>1, Numbers, CFacts DEF BehindStatus, RefundIsThere
  <2> QED
    BY <2>2, <2>3 DEF Verified
<1> QED
  BY <1>2, <1>3, <1>4

\* A step that touches neither the row nor what it mirrors.
LEMMA SameRow ==
  ASSUME UNCHANGED <<terms, row, sibling>>, utxo'.status = utxo.status, utxo'.released = utxo.released
  PROVE  /\ Agreed' <=> Agreed
         /\ \A c \in Clients : client'[c] = client[c] =>
              (Behind(client[c].tx, client[c].todo)' <=> Behind(client[c].tx, client[c].todo))
<1>1. Agreed' <=> Agreed
  BY DEF Agreed, StatusAgrees, SiblingAgrees
<1>2. ASSUME NEW c \in Clients, client'[c] = client[c]
      PROVE  Behind(client[c].tx, client[c].todo)' <=> Behind(client[c].tx, client[c].todo)
  BY <1>2 DEF Behind, BehindClaim, BehindBatch, BehindStatus, SiblingAgrees, From
<1> QED
  BY <1>1, <1>2

\* How the row follows one page, when no other is outstanding.
Follows(c) == IF Recorded(c) THEN Agreed ELSE Behind(client[c].tx, client[c].todo)

\* What RowFollows says, page by page.
LEMMA FollowsEach ==
  /\ RowFollows <=> (mishaps = {} => /\ (\A c \in Clients : ~Outstanding(c)) => Agreed
                                     /\ \A c \in Clients : Outstanding(c) => Follows(c))
  /\ RowFollows' <=> (mishaps' = {} => /\ (\A c \in Clients : ~Outstanding(c)') => Agreed'
                                       /\ \A c \in Clients : Outstanding(c)' => Follows(c)')
BY DEF RowFollows, Follows

\* A page whose confirmation has not written everything.
LEMMA FollowsBehind ==
  ASSUME NEW c, NEW tx, NEW todo, client'[c].tx = tx, client'[c].todo = todo, ~Recorded(c)', Behind(tx, todo)'
  PROVE  Follows(c)'
BY DEF Follows, Behind, BehindClaim, BehindBatch, BehindStatus, SiblingAgrees, From

\* A transaction is taken: the row is behind by what it did.
LEMMA TakenFollows ==
  ASSUME Typed, ClientsOk, WholeShares, BatchIsFunded, NoneIsFresh, Agreed,
         NEW c \in Clients, Taken(c), NEW tx, tx = client[c].tx
  PROVE  Behind(tx, <<>>)'
<1>1. /\ TxOk(tx) /\ tx.op # "refill" /\ tx \in Txs /\ tx.op \in Ops /\ tx.pay \in Nat
      /\ utxo'.released = utxo.released + (IF tx.op = "claim" THEN tx.pay ELSE 0)
      /\ tx.op \in Fundings => utxo.status = "UNFUNDED"
      /\ tx.op \in {"claim", "pause"} => utxo.status = "ACTIVE"
      /\ tx.op = "resume" => utxo.status = "PAUSED"
      /\ tx.op = "cancel" => /\ utxo.status \in Live
                             /\ terms.kind = "payment" => tx.back = Total - utxo.released
  BY MovedIs, TxTypes
<1>2. /\ client[c].at = "signing" /\ UNCHANGED <<terms, row>>
      /\ sibling' = [funded |-> sibling.funded \/ tx.op = "batch", status |-> sibling.status]
  BY TakenIs
<1>3. /\ sibling'.status = sibling.status
      /\ tx.op = "batch" => sibling'.funded
      /\ sibling'.funded => sibling.funded \/ tx.op = "batch"
      /\ sibling.funded => sibling'.funded
  BY <1>2
<1>4. row.status # "NONE"
  BY <1>2 DEF NoneIsFresh
<1>5. row.withdrawn = utxo.released /\ SiblingAgrees /\ StatusAgrees
  BY DEF Agreed
<1>6. /\ utxo.released \in Nat /\ row.withdrawn \in Nat /\ sibling.status \in {"NONE", "PENDING", "ACTIVE"}
  BY Numbers
<1>7. tx.op # "batch" => SiblingAgrees'
  BY <1>3, <1>5 DEF SiblingAgrees
<1>8. <<>> # <<Recording(tx.pay)>> /\ <<>> # <<SetSibling>> /\ <<>> # <<SetStatus("ACTIVE")>>
  BY Lists
<1>9. CASE tx.op = "claim"
  <2>1. row.status = "ACTIVE"
    BY <1>1, <1>5, <1>9 DEF StatusAgrees
  <2>2. row'.withdrawn + tx.pay = utxo'.released /\ row'.status = "ACTIVE" /\ SiblingAgrees'
    BY <1>1, <1>2, <1>5, <1>6, <1>7, <1>9, <2>1
  <2> QED
    BY <1>8, <1>9, <2>2 DEF Behind, BehindClaim
<1>10. CASE tx.op = "batch"
  <2>1. utxo.status = "UNFUNDED" /\ sibling.status # "NONE"
    BY <1>1, <1>10 DEF Fundings, TxOk
  <2>2. row.status = "PENDING"
    BY <1>4, <1>5, <2>1 DEF StatusAgrees
  <2>3. sibling.status = "PENDING"
    BY <1>5, <1>6, <2>1 DEF SiblingAgrees, BatchIsFunded
  <2>4. utxo'.released = utxo.released
    BY <1>1, <1>6, <1>10
  <2>5. /\ row'.withdrawn = utxo'.released /\ sibling'.funded
        /\ row'.status = "PENDING" /\ sibling'.status = "PENDING"
    BY <1>2, <1>3, <1>5, <1>10, <2>2, <2>3, <2>4
  <2> QED
    BY <1>8, <1>10, <2>5 DEF Behind, BehindBatch
<1>11. CASE tx.op \notin {"claim", "batch"}
  <2>1. utxo'.released = utxo.released
    BY <1>1, <1>6, <1>11
  <2>2. row.status \in From(tx.op)
    <3>1. CASE tx.op = "fund"
      BY <1>1, <1>4, <1>5, <3>1 DEF StatusAgrees, From, Fundings
    <3>2. CASE tx.op = "pause"
      BY <1>1, <1>5, <3>2 DEF StatusAgrees, From
    <3>3. CASE tx.op = "resume"
      BY <1>1, <1>5, <3>3 DEF StatusAgrees, From
    <3>4. CASE tx.op = "cancel"
      BY <1>1, <1>5, <3>4 DEF StatusAgrees, From, Live
    <3> QED
      BY <1>1, <1>11, <3>1, <3>2, <3>3, <3>4 DEF Ops
  <2>3. BehindStatus(tx)'
    BY <1>1, <1>2, <1>5, <1>7, <1>11, <2>1, <2>2 DEF BehindStatus, From
  <2> QED
    BY <1>11, <2>3 DEF Behind
<1> QED
  BY <1>9, <1>10, <1>11

\* A confirmation starts: the row is as far behind as before.
LEMMA ConfirmedFollows ==
  ASSUME Typed, NEW c \in Clients, NEW tx, TxOk(tx), NEW todo, Behind(tx, <<>>),
         UNCHANGED <<terms, utxo, row, sibling>>,
         tx.op = "claim" => todo = <<SetWithdrawn(row.withdrawn + tx.pay), Recording(tx.pay)>>,
         tx.op = "batch" => todo \in {<<SetStatus("ACTIVE"), SetSibling>>, <<SetSibling, SetStatus("ACTIVE")>>}
  PROVE  Behind(tx, todo)'
<1>1. CASE tx.op = "claim"
  <2>1. <<>> # <<Recording(tx.pay)>>
    BY Lists
  <2>2. /\ row.status = "ACTIVE" /\ SiblingAgrees /\ row.withdrawn + tx.pay = utxo.released
    BY <1>1, <2>1 DEF Behind, BehindClaim
  <2>3. todo = <<SetWithdrawn(utxo.released), Recording(tx.pay)>>
    BY <1>1, <2>2
  <2>4. todo # <<Recording(tx.pay)>>
    BY <2>3, Lists
  <2>5. SiblingAgrees'
    BY <2>2 DEF SiblingAgrees
  <2> QED
    BY <1>1, <2>2, <2>3, <2>4, <2>5 DEF Behind, BehindClaim
<1>2. CASE tx.op = "batch"
  <2>1. <<>> # <<SetSibling>> /\ <<>> # <<SetStatus("ACTIVE")>>
    BY Lists
  <2>2. todo # <<SetSibling>> /\ todo # <<SetStatus("ACTIVE")>>
    BY <1>2, Lists
  <2> QED
    BY <1>2, <2>1, <2>2 DEF Behind, BehindBatch
<1>3. CASE tx.op \notin {"claim", "batch"}
  BY <1>3 DEF Behind, BehindStatus, SiblingAgrees, From
<1> QED
  BY <1>1, <1>2, <1>3

\* What was written is what the chain says, or what is left of it is.
LEMMA StatementFollows ==
  ASSUME Typed, ClientsOk, NEW c \in Clients, statement(c),
         utxo.status \in Result(client[c].tx.op), Behind(client[c].tx, client[c].todo)
  PROVE  IF Writing(c)' THEN Follows(c)' ELSE Agreed'
<1>1. PICK tx : tx = client[c].tx
  OBVIOUS
<1>2. /\ UNCHANGED <<terms, utxo>> /\ client'[c].tx = tx /\ client'[c].at = "running"
      /\ utxo.status \in Result(tx.op) /\ Behind(tx, client[c].todo) /\ tx.op \in Ops /\ tx.op # "refill"
  BY <1>1, StatementIs, StatementWrites, TxTypes
<1>3. ASSUME NEW rest, HasLeft(c, rest)
      PROVE  client'[c].todo = rest /\ (Writing(c)' <=> rest # <<>>) /\ (rest # <<>> => ~Recorded(c)')
  BY <1>3 DEF HasLeft, Writing, Recorded
<1>4. CASE StatusWritten(c)
  <2>1. /\ tx.op \notin {"claim", "batch"} /\ ~Writing(c)'
        /\ row' = [status |-> Becomes(tx.op), withdrawn |-> row.withdrawn] /\ sibling' = sibling
    BY <1>1, <1>3, <1>4 DEF StatusWritten
  <2>2. row.withdrawn = utxo.released /\ SiblingAgrees
    BY <1>2, <2>1 DEF Behind, BehindStatus
  <2>3. Becomes(tx.op) = utxo.status /\ utxo.status \in {"ACTIVE", "PAUSED", "CANCELLED"}
    BY <1>2, <2>1 DEF Ops, Becomes, Result
  <2>4. StatusAgrees'
    BY <1>2, <2>1, <2>3 DEF StatusAgrees
  <2>5. row'.withdrawn = utxo'.released /\ SiblingAgrees'
    BY <1>2, <2>1, <2>2 DEF SiblingAgrees
  <2> QED
    BY <2>1, <2>4, <2>5 DEF Agreed
<1>5. CASE AmountWritten(c)
  <2>1. PICK n \in Nat : /\ client[c].todo = <<SetWithdrawn(n), Recording(tx.pay)>>
                         /\ row' = [status |-> row.status, withdrawn |-> n]
    BY <1>1, <1>5 DEF AmountWritten
  <2>2. tx.op = "claim" /\ sibling' = sibling /\ HasLeft(c, <<Recording(tx.pay)>>)
    BY <1>1, <1>5 DEF AmountWritten
  <2>3. BehindClaim(tx, client[c].todo)
    BY <1>2, <2>2 DEF Behind
  <2>4. client[c].todo = <<SetWithdrawn(utxo.released), Recording(tx.pay)>>
    BY <2>1, <2>3, Lists DEF BehindClaim
  <2>5. SetWithdrawn(n) = SetWithdrawn(utxo.released)
    BY <2>1, <2>4, Lists
  <2>6. n = utxo.released
    BY <2>5, StatementsCarry
  <2>7. row'.status = "ACTIVE" /\ row'.withdrawn = utxo'.released /\ SiblingAgrees'
    BY <1>2, <2>1, <2>2, <2>3, <2>6 DEF BehindClaim, SiblingAgrees
  <2>8. BehindClaim(tx, <<Recording(tx.pay)>>)'
    BY <2>7 DEF BehindClaim
  <2>9. Behind(tx, <<Recording(tx.pay)>>)'
    BY <2>2, <2>8 DEF Behind
  <2>10. <<Recording(tx.pay)>> # <<>>
    BY Lists
  <2> QED
    BY <1>2, <1>3, <2>2, <2>9, <2>10, FollowsBehind
<1>6. CASE ClaimRecorded(c)
  <2>1. tx.op = "claim" /\ client[c].todo = <<Recording(tx.pay)>> /\ UNCHANGED <<row, sibling>> /\ ~Writing(c)'
    BY <1>1, <1>3, <1>6 DEF ClaimRecorded
  <2>2. row.status = "ACTIVE" /\ SiblingAgrees /\ row.withdrawn = utxo.released
    BY <1>2, <2>1 DEF Behind, BehindClaim
  <2>3. utxo.status \in {"ACTIVE", "COMPLETED"}
    BY <1>2, <2>1 DEF Result
  <2>4. StatusAgrees'
    BY <1>2, <2>1, <2>2, <2>3 DEF StatusAgrees
  <2>5. row'.withdrawn = utxo'.released /\ SiblingAgrees'
    BY <1>2, <2>1, <2>2 DEF SiblingAgrees
  <2> QED
    BY <2>1, <2>4, <2>5 DEF Agreed
<1>7. CASE RowOfBatchWritten(c) \/ SiblingWritten(c)
  <2>1. tx.op = "batch" /\ row' \in [status : {row.status, "ACTIVE"}, withdrawn : {row.withdrawn}]
        /\ sibling'.funded = sibling.funded
    <3>1. row \in Row /\ (SiblingWritten(c) => row' = row)
      BY DEF Typed, SiblingWritten
    <3>2. RowOfBatchWritten(c) => row' = [status |-> "ACTIVE", withdrawn |-> row.withdrawn]
      BY DEF RowOfBatchWritten
    <3> QED
      BY <1>1, <1>7, <3>1, <3>2, StatementWrites DEF RowOfBatchWritten, SiblingWritten, Row
  <2>2. BehindBatch(client[c].todo) /\ utxo.status = "ACTIVE"
    BY <1>2, <2>1 DEF Behind, Result
  <2>3. row'.withdrawn = utxo'.released /\ sibling'.funded
    BY <1>2, <2>1, <2>2 DEF BehindBatch
  <2>4. <<SetSibling>> # <<SetStatus("ACTIVE")>> /\ <<SetSibling>> # <<>> /\ <<SetStatus("ACTIVE")>> # <<>>
    BY Lists, StatementsDiffer
  <2>5. ASSUME row'.status = "ACTIVE", sibling'.status = "ACTIVE" PROVE Agreed'
    BY <1>2, <2>2, <2>3, <2>5 DEF Agreed, StatusAgrees, SiblingAgrees
  <2>6. CASE RowOfBatchWritten(c) /\ client[c].todo = <<SetStatus("ACTIVE")>> /\ HasLeft(c, <<>>)
    <3>1. sibling.status = "ACTIVE"
      BY <2>2, <2>6 DEF BehindBatch
    <3>2. row'.status = "ACTIVE" /\ sibling'.status = "ACTIVE"
      BY <2>6, <3>1 DEF RowOfBatchWritten
    <3> QED
      BY <1>3, <2>5, <2>6, <3>2
  <2>7. CASE /\ RowOfBatchWritten(c) /\ HasLeft(c, <<SetSibling>>)
             /\ client[c].todo = <<SetStatus("ACTIVE"), SetSibling>>
    <3>1. client[c].todo # <<SetStatus("ACTIVE")>>
      BY <2>7, Lists
    <3>2. row'.status = "ACTIVE" /\ sibling'.status = "PENDING"
      BY <2>2, <2>7, <3>1 DEF RowOfBatchWritten, BehindBatch
    <3>3. BehindBatch(<<SetSibling>>)'
      BY <2>3, <2>4, <3>2 DEF BehindBatch
    <3>4. Behind(tx, <<SetSibling>>)'
      BY <2>1, <3>3 DEF Behind
    <3> QED
      BY <1>2, <1>3, <2>4, <2>7, <3>4, FollowsBehind
  <2>8. CASE SiblingWritten(c) /\ client[c].todo = <<SetSibling>> /\ HasLeft(c, <<>>)
    <3>1. row.status = "ACTIVE"
      BY <2>2, <2>8 DEF BehindBatch
    <3>2. row'.status = "ACTIVE" /\ sibling'.status = "ACTIVE"
      BY <2>8, <3>1 DEF SiblingWritten
    <3> QED
      BY <1>3, <2>5, <2>8, <3>2
  <2>9. CASE /\ SiblingWritten(c) /\ HasLeft(c, <<SetStatus("ACTIVE")>>)
             /\ client[c].todo = <<SetSibling, SetStatus("ACTIVE")>>
    <3>1. client[c].todo # <<SetSibling>>
      BY <2>9, Lists
    <3>2. row'.status = "PENDING" /\ sibling'.status = "ACTIVE"
      BY <2>2, <2>9, <3>1 DEF SiblingWritten, BehindBatch
    <3>3. BehindBatch(<<SetStatus("ACTIVE")>>)'
      BY <2>3, <2>4, <3>2 DEF BehindBatch
    <3>4. Behind(tx, <<SetStatus("ACTIVE")>>)'
      BY <2>1, <3>3 DEF Behind
    <3> QED
      BY <1>2, <1>3, <2>4, <2>9, <3>4, FollowsBehind
  <2> QED
    BY <1>7, <2>6, <2>7, <2>8, <2>9 DEF RowOfBatchWritten, SiblingWritten
<1> QED
  BY <1>4, <1>5, <1>6, <1>7, StatementIs

\* Without a mishap, the row follows the chain.
LEMMA RowFollowsKept ==
  ASSUME Typed, ClientsOk, WholeShares, BatchIsFunded, NoneIsFresh, OneOutstanding, RowFollows,
         Typed', OneOutstanding', [Next]_vars
  PROVE  RowFollows'
<1>1. SUFFICES ASSUME mishaps' = {}
               PROVE  /\ (\A d \in Clients : ~Outstanding(d)') => Agreed'
                      /\ \A d \in Clients : Outstanding(d)' => Follows(d)'
  BY FollowsEach
<1>2. ASSUME mishaps \subseteq mishaps'
      PROVE  /\ mishaps = {}
             /\ (\A d \in Clients : ~Outstanding(d)) => Agreed
             /\ \A d \in Clients : Outstanding(d) => Follows(d)
             /\ \A d, e \in Clients : Outstanding(d) /\ Outstanding(e) => d = e
             /\ \A d \in Clients : Outstanding(d) => utxo.status \in Result(client[d].tx.op)
  <2>1. mishaps = {}
    BY <1>1, <1>2
  <2> QED
    BY <2>1, FollowsEach DEF OneOutstanding
<1>3. ASSUME mishaps \subseteq mishaps', UNCHANGED <<terms, row, sibling>>, utxo'.status = utxo.status,
             utxo'.released = utxo.released,
             \A d \in Clients : Outstanding(d)' <=> Outstanding(d),
             \A d \in Clients : Outstanding(d) => client'[d] = client[d] \/ (Recorded(d) /\ Recorded(d)')
      PROVE  /\ (\A d \in Clients : ~Outstanding(d)') => Agreed'
             /\ \A d \in Clients : Outstanding(d)' => Follows(d)'
  <2>1. (\A d \in Clients : ~Outstanding(d)') => Agreed'
    BY <1>2, <1>3, SameRow
  <2>2. ASSUME NEW d \in Clients, Outstanding(d)' PROVE Follows(d)'
    <3>1. Follows(d)
      BY <1>2, <1>3, <2>2
    <3>2. CASE client'[d] = client[d]
      <4>1. Agreed' <=> Agreed
        BY <1>3, SameRow
      <4>2. Behind(client[d].tx, client[d].todo)' <=> Behind(client[d].tx, client[d].todo)
        BY <1>3, <3>2, SameRow
      <4>3. Recorded(d)' <=> Recorded(d)
        BY <3>2, OthersStay
      <4> QED
        BY <3>1, <4>1, <4>2, <4>3 DEF Follows
    <3>3. CASE Recorded(d) /\ Recorded(d)'
      BY <1>3, <3>1, <3>3, SameRow DEF Follows
    <3> QED
      BY <1>2, <1>3, <2>2, <3>2, <3>3
  <2> QED
    BY <2>1, <2>2
<1> DEFINE Goal == /\ (\A d \in Clients : ~Outstanding(d)') => Agreed'
                   /\ \A d \in Clients : Outstanding(d)' => Follows(d)'
<1>4. CASE Vest
  BY <1>3, <1>4, VestIs, OthersStay
<1>5. CASE UNCHANGED vars
  BY <1>3, <1>5, OthersStay DEF vars
<1>6. ASSUME NEW c \in Clients, SignStep(c) PROVE Goal
  <2>1. \A d \in Clients : Outstanding(d)' <=> Outstanding(d)
    BY <1>6, SignedIs, TurnedShows, OthersStay DEF Outstanding
  <2>2. \A d \in Clients : Outstanding(d) => client'[d] = client[d]
    BY <1>6, SignedIs, TurnedShows DEF Outstanding
  <2> QED
    BY <1>3, <1>6, <2>1, <2>2, SignedIs
<1>7. ASSUME NEW c \in Clients, fundBatchStreamContracts(c) PROVE Goal
  <2>1. /\ terms.kind = "stream" /\ utxo.status = "UNFUNDED" /\ row.withdrawn = 0 /\ sibling.status = "NONE"
        /\ \A d \in Clients : client[d].at = "idle"
    BY <1>7, BatchIs DEF NoneIsFresh
  <2>2. Agreed
    BY <1>2, <1>7, <2>1, BatchIs DEF Outstanding
  <2>3. Agreed'
    <3>1. utxo' = utxo /\ row'.status = "PENDING" /\ row'.withdrawn = 0
          /\ sibling'.funded = sibling.funded /\ sibling'.status = "PENDING"
      BY <1>7, BatchIs
    <3> QED
      BY <2>1, <2>2, <3>1 DEF Agreed, StatusAgrees, SiblingAgrees
  <2>4. \A d \in Clients : ~Outstanding(d)'
    BY <1>7, <2>1, BatchIs, TurnedShows, OthersStay DEF Outstanding
  <2> QED
    BY <2>3, <2>4
<1>8. ASSUME NEW c \in Clients, IdleStep(c) PROVE Goal
  <2>1. UNCHANGED <<terms, utxo, row, sibling, mishaps>> /\ ~Outstanding(c)'
        /\ \A d \in Clients : d # c => client'[d] = client[d]
    BY <1>8, IdledIs, TurnedShows
  <2>2. CASE ~Outstanding(c)
    <3>1. \A d \in Clients : Outstanding(d)' <=> Outstanding(d)
      BY <2>1, <2>2, OthersStay
    <3>2. \A d \in Clients : Outstanding(d) => client'[d] = client[d]
      BY <2>1, <2>2
    <3> QED
      BY <1>3, <2>1, <3>1, <3>2
  <2>3. CASE Outstanding(c)
    <3>1. Follows(c) /\ \A d \in Clients : d # c => ~Outstanding(d)
      BY <1>2, <2>1, <2>3
    <3>2. Recorded(c)
      <4>1. SUFFICES ASSUME ~Recorded(c) PROVE FALSE
        OBVIOUS
      <4>2. client[c].at = "waiting" /\ ~Verified(client[c].tx)
        BY <1>8, <2>3, <4>1, IdledIs DEF Recorded, Outstanding
      <4>3. TxOk(client[c].tx) /\ client[c].tx.op # "refill" /\ client[c].todo = <<>>
        BY <2>3, <4>2 DEF ClientsOk, ClientOk
      <4>4. PICK tx : tx = client[c].tx
        OBVIOUS
      <4>5. Behind(tx, <<>>) /\ TxOk(tx) /\ tx.op # "refill" /\ ~Verified(tx)
        BY <3>1, <4>1, <4>2, <4>3, <4>4 DEF Follows
      <4> QED
        BY <4>5, BehindIsVerified
    <3>3. Agreed'
      BY <2>1, <3>1, <3>2, SameRow DEF Follows
    <3>4. \A d \in Clients : ~Outstanding(d)'
      BY <2>1, <3>1, OthersStay
    <3> QED
      BY <3>3, <3>4
  <2> QED
    BY <2>2, <2>3
<1>9. ASSUME NEW c \in Clients, Taken(c) PROVE Goal
  <2>1. mishaps \subseteq mishaps' /\ Turned(c, "waiting", client[c].tx, <<>>, 0) /\ ~Outstanding(c)
        /\ \A d \in Clients : d # c => ~Outstanding(d)
    BY <1>1, <1>9, TakenIs DEF Outstanding
  <2>2. Agreed
    BY <1>2, <2>1
  <2>3. PICK tx : tx = client[c].tx
    OBVIOUS
  <2>4. Behind(tx, <<>>)'
    BY <1>9, <2>2, <2>3, TakenFollows
  <2>5. client'[c].tx = tx /\ client'[c].todo = <<>> /\ ~Recorded(c)' /\ Outstanding(c)'
    BY <2>1, <2>3, TurnedShows DEF Recorded
  <2>6. \A d \in Clients : d # c => ~Outstanding(d)'
    BY <2>1, TurnedShows, OthersStay
  <2>7. Follows(c)'
    BY <2>4, <2>5, FollowsBehind
  <2> QED
    BY <2>5, <2>6, <2>7
<1>10. ASSUME NEW c \in Clients, Confirmed(c) PROVE Goal
  <2>1. PICK tx : tx = client[c].tx
    OBVIOUS
  <2>2. /\ mishaps \subseteq mishaps' /\ UNCHANGED <<terms, utxo, row, sibling>> /\ TxOk(tx)
        /\ client[c].at = "waiting" /\ client[c].todo = <<>> /\ Outstanding(c)
    BY <1>10, <2>1, ConfirmedIs DEF Outstanding
  <2>3. ~Recorded(c)
    BY <1>1, <1>10, <2>2, ConfirmedIs DEF Recorded
  <2>4. Behind(tx, <<>>) /\ \A d \in Clients : d # c => ~Outstanding(d)
    BY <1>2, <2>1, <2>2, <2>3 DEF Follows
  <2>5. PICK todo \in Todos :
          /\ todo # <<>>
          /\ tx.op = "claim" => todo = <<SetWithdrawn(row.withdrawn + tx.pay), Recording(tx.pay)>>
          /\ tx.op = "batch" => todo \in {<<SetStatus("ACTIVE"), SetSibling>>, <<SetSibling, SetStatus("ACTIVE")>>}
          /\ Turned(c, "running", tx, todo, client[c].tries)
    BY <1>10, <2>1, ConfirmedIs
  <2>6. Behind(tx, todo)'
    BY <2>2, <2>4, <2>5, ConfirmedFollows
  <2>7. client'[c].tx = tx /\ client'[c].todo = todo /\ ~Recorded(c)' /\ Outstanding(c)'
    BY <2>5, TurnedShows DEF Recorded
  <2>8. \A d \in Clients : d # c => ~Outstanding(d)'
    BY <2>4, <2>5, TurnedShows, OthersStay
  <2>9. Follows(c)'
    BY <2>6, <2>7, FollowsBehind
  <2> QED
    BY <2>7, <2>8, <2>9
<1>11. ASSUME NEW c \in Clients, statement(c) PROVE Goal
  <2>1. /\ mishaps \subseteq mishaps' /\ Outstanding(c) /\ ~Recorded(c)
        /\ client'[c].at = "running" /\ Outstanding(c)'
        /\ \A d \in Clients : d # c => client'[d] = client[d]
    BY <1>11, StatementIs, StatementWrites DEF Recorded, Outstanding
  <2>2. /\ Behind(client[c].tx, client[c].todo) /\ utxo.status \in Result(client[c].tx.op)
        /\ \A d \in Clients : d # c => ~Outstanding(d)
    BY <1>2, <2>1 DEF Follows
  <2>3. IF Writing(c)' THEN Follows(c)' ELSE Agreed'
    BY <1>11, <2>2, StatementFollows
  <2>4. ~Writing(c)' => Recorded(c)'
    BY <2>1 DEF Recorded
  <2>5. Follows(c)'
    BY <2>3, <2>4 DEF Follows
  <2>6. \A d \in Clients : d # c => ~Outstanding(d)'
    BY <2>1, <2>2, OthersStay
  <2> QED
    BY <2>1, <2>5, <2>6
<1>12. ASSUME NEW c \in Clients, lose(c) PROVE Goal
  <2>1. PICK n \in Nat : n > 0 /\ Turned(c, "waiting", client[c].tx, <<>>, n)
    BY <1>1, <1>12, LostIs
  <2>2. client[c].at = "running" /\ ~Writing(c) /\ mishaps \subseteq mishaps'
        /\ UNCHANGED <<terms, utxo, row, sibling>>
    BY <1>1, <1>12, LostIs
  <2>3. Outstanding(c) /\ Outstanding(c)' /\ Recorded(c) /\ Recorded(c)'
    BY <2>1, <2>2, TurnedShows DEF Outstanding, Recorded
  <2>4. \A d \in Clients : Outstanding(d)' <=> Outstanding(d)
    BY <2>1, <2>3, TurnedShows, OthersStay
  <2>5. \A d \in Clients : client'[d] = client[d] \/ (Recorded(d) /\ Recorded(d)')
    BY <2>1, <2>3, TurnedShows
  <2> QED
    BY <1>3, <2>2, <2>4, <2>5
<1> QED
  BY <1>4, <1>5, <1>6, <1>7, <1>8, <1>9, <1>10, <1>11, <1>12, NextCases

-----------------------------------------------------------------------------
(* Theorems *)

\* The invariant holds at first.
LEMMA InitIs ==
  ASSUME Init
  PROVE  IInv
<1>1. /\ client = [c \in Clients |-> Idle] /\ utxo = deployed
      /\ sibling = [funded |-> FALSE, status |-> "NONE"] /\ records = 0 /\ mishaps = {}
  BY DEF Init, LifecycleInit
<1>2. \A c \in Clients : client[c] = Idle
  BY <1>1
<1>3. \A c \in Clients : client[c].at = "idle" /\ client[c].todo = <<>> /\ client[c].tries = 0
  <2>1. Idle.at = "idle" /\ Idle.todo = <<>> /\ Idle.tries = 0
    BY DEF Idle
  <2> QED
    BY <1>2, <2>1
<1>4. /\ utxo.status = "UNFUNDED" /\ utxo.released = 0 /\ utxo.vested = 0 /\ utxo.held = 0
  BY <1>1 DEF deployed
<1>5. /\ row \in [status : {"NONE", "PENDING"}, withdrawn : {0}]
      /\ row.status = "NONE" => terms.kind = "stream"
  BY DEF Init, created, notYet, Where
<1>6. row.status \in {"NONE", "PENDING"} /\ row.withdrawn = 0
  BY <1>5
<1>7. \A c \in Clients : ~Outstanding(c) /\ ~Writing(c) /\ ~SetsStatus(c) /\ ~Owed(c)
  BY <1>3 DEF Outstanding, Writing, SetsStatus, Owed
<1>8. Typed
  <2>1. terms \in Created
    BY DEF Init, Created
  <2>2. utxo \in Utxo
    BY <1>1, CFacts DEF deployed, Utxo, UtxoStatuses, Reserve
  <2>3. row \in Row /\ sibling \in Sibling
    BY <1>1, <1>5 DEF Row, RowStatuses, Sibling
  <2>4. client \in [Clients -> Client]
    BY <1>1, IdleClient
  <2> QED
    BY <1>1, <2>1, <2>2, <2>3, <2>4 DEF Typed, Mishaps
<1>9. WholeShares
  BY <1>4, WholeNext DEF WholeShares
<1>10. BatchIsFunded /\ NoneIsFresh /\ CancelledOnChain
  BY <1>1, <1>3, <1>4, <1>5, <1>6 DEF BatchIsFunded, NoneIsFresh, CancelledOnChain
<1>11. ClientsOk
  BY <1>3, <1>7 DEF ClientsOk, ClientOk
<1>12. OneOutstanding /\ OneWriter /\ NotYetCancelled
  BY <1>7 DEF OneOutstanding, OneWriter, NotYetCancelled
<1>13. RecordsTrail
  <2>1. \A c \in Clients : Unrecorded[c] = 0
    BY <1>7, UnrecordedIs
  <2>2. PICK f : f = Unrecorded
    OBVIOUS
  <2>3. SumFunctionOnSet(f, Clients) = 0
    BY <2>1, <2>2, CFacts, SumZero
  <2> QED
    BY <1>1, <1>4, <2>2, <2>3 DEF RecordsTrail
<1>14. WithdrawnAddsUp
  BY <1>1, <1>6, <1>7 DEF WithdrawnAddsUp
<1>15. RowFollows
  BY <1>1, <1>4, <1>6, <1>7 DEF RowFollows, Agreed, StatusAgrees, SiblingAgrees
<1> QED
  BY <1>8, <1>9, <1>10, <1>11, <1>12, <1>13, <1>14, <1>15 DEF IInv

\* Every step keeps it.
LEMMA NextKeeps ==
  ASSUME IInv, [Next]_vars
  PROVE  IInv'
<1> USE DEF IInv
<1>1. Typed' /\ WholeShares' /\ BatchIsFunded' /\ ClientsOk'
  BY TypedKept, WholeSharesKept, BatchIsFundedKept, ClientsOkKept
<1>2. NoneIsFresh' /\ CancelledOnChain'
  BY NoneIsFreshKept, CancelledOnChainKept
<1>3. OneOutstanding' /\ OneWriter' /\ NotYetCancelled'
  BY OneOutstandingKept, OneWriterKept, NotYetCancelledKept
<1>4. RecordsTrail' /\ WithdrawnAddsUp'
  BY <1>1, <1>3, RecordsTrailKept, WithdrawnAddsUpKept
<1>5. RowFollows'
  BY <1>1, <1>3, RowFollowsKept
<1> QED
  BY <1>1, <1>2, <1>3, <1>4, <1>5

\* The invariant of the requests: what every built transaction satisfies, which operation
\* the chain took last, what the handlers have still to write, how far the row and the
\* records are behind, for any number of pages and of posts of a confirmation.
THEOREM StreamsInvariant == Spec => []IInv
<1>1. Init => IInv
  BY InitIs
<1>2. IInv /\ [Next]_vars => IInv'
  BY NextKeeps
<1> QED
  BY <1>1, <1>2, PTL DEF Spec

\* The UTXO holds no less than nothing, and releases no more than the total, whatever the
\* builders compute from it and however the operations of the pages overlap.
THEOREM StreamsTypeOK == Spec => []TypeOK
<1>1. IInv => TypeOK
  <2>1. SUFFICES ASSUME IInv PROVE TypeOK
    OBVIOUS
  <2>2. /\ utxo.status \in UtxoStatuses /\ utxo.released \in 0 .. Total /\ utxo.vested \in 0 .. Total
        /\ utxo.held \in 0 .. Total /\ utxo.value \in 0 .. Total + Reserve
    BY <2>1, Numbers, CFacts DEF IInv, Reserve
  <2>3. row \in Row /\ sibling \in Sibling /\ records \in Nat /\ mishaps \subseteq Mishaps
    BY <2>1 DEF IInv, Typed
  <2>4. DOMAIN row = {"status", "withdrawn"} /\ row.status \in RowStatuses /\ row.withdrawn \in Nat
    BY <2>3 DEF Row
  <2> QED
    BY <2>2, <2>3, <2>4 DEF TypeOK, UtxoStatuses, RowStatuses, Sibling, Mishaps
<1> QED
  BY <1>1, StreamsInvariant, PTL

\* The two sums a confirmation writes, the row's and its records', add up to the same, unless
\* two confirmations raced or one was interrupted, and to no more than the chain released,
\* unless one was posted again.
THEOREM StreamsClaimsAddUp == Spec => []ClaimsAddUp
<1>1. IInv => ClaimsAddUp
  <2>1. SUFFICES ASSUME IInv PROVE ClaimsAddUp
    OBVIOUS
  <2>2. (\A page \in Clients : ~Writing(page)) /\ {"raced", "interrupted"} \cap mishaps = {}
          => row.withdrawn = records
    BY <2>1 DEF IInv, WithdrawnAddsUp
  <2>3. "retried" \notin mishaps => records <= utxo.released
    <3>1. ASSUME NEW c \in Clients PROVE Unrecorded[c] \in Nat
      <4>1. Owed(c) => client[c].tx \in Txs
        BY <2>1 DEF IInv, Owed, ClientsOk, ClientOk, TxOk, Writing
      <4> QED
        BY <4>1, TxTypes, UnrecordedIs
    <3>2. PICK f : f = Unrecorded
      OBVIOUS
    <3>3. SumFunctionOnSet(f, Clients) \in Nat
      BY <3>1, <3>2, CFacts, SumNat
    <3>4. records \in Nat /\ utxo.released \in Nat
      BY <2>1, Numbers DEF IInv
    <3>5. "retried" \notin mishaps => records + SumFunctionOnSet(f, Clients) <= utxo.released
      BY <2>1, <3>2 DEF IInv, RecordsTrail
    <3> QED
      BY <3>3, <3>4, <3>5
  <2> QED
    BY <2>2, <2>3 DEF ClaimsAddUp
<1> QED
  BY <1>1, StreamsInvariant, PTL

\* Used by one page at a time, each of which stays until its answer has come, every operation
\* leaves a row that agrees with the chain, in its status, in what was withdrawn and, for a
\* batch, in the rows of the other streams.
THEOREM StreamsRowAgrees == Spec => []RowAgrees
<1>1. IInv => RowAgrees
  BY DEF IInv, RowFollows, Agreed, StatusAgrees, SiblingAgrees, RowAgrees
<1> QED
  BY <1>1, StreamsInvariant, PTL

\* No confirmation takes a row out of CANCELLED: for streams unless a confirmation had read
\* the row before another wrote it, for the kinds that do not compare the status unless
\* two operations were under way at once.
THEOREM StreamsCancelledIsFinal == Spec => CancelledIsFinal
<1>1. ASSUME IInv, [Next]_vars, row.status = "CANCELLED",
             (IF terms.kind \in Streams THEN "raced" ELSE "overlapped") \notin mishaps
      PROVE  row'.status = "CANCELLED"
  <2>1. CASE Vest
    BY <1>1, <2>1, VestIs DEF IInv
  <2>2. CASE UNCHANGED vars
    BY <1>1, <2>2 DEF vars
  <2>3. ASSUME NEW c \in Clients,
               SignStep(c) \/ IdleStep(c) \/ Taken(c) \/ Confirmed(c) \/ lose(c)
        PROVE  row'.status = "CANCELLED"
    BY <1>1, <2>3, SignedIs, IdledIs, TakenIs, ConfirmedIs, LostIs DEF IInv
  <2>4. ASSUME NEW c \in Clients, fundBatchStreamContracts(c) PROVE FALSE
    BY <1>1, <2>4, BatchIs DEF IInv
  <2>5. ASSUME NEW c \in Clients, statement(c) PROVE row'.status = "CANCELLED"
    <3>1. CASE terms.kind \in Streams
      <4>1. ~SetsStatus(c)
        BY <1>1, <3>1 DEF IInv, NotYetCancelled
      <4>2. /\ Writing(c)
            /\ StatusWritten(c) \/ AmountWritten(c) \/ ClaimRecorded(c) \/ RowOfBatchWritten(c) \/ SiblingWritten(c)
        BY <1>1, <2>5, StatementIs DEF IInv
      <4>3. ~StatusWritten(c)
        BY <4>1, <4>2 DEF StatusWritten, SetsStatus
      <4>4. ~RowOfBatchWritten(c)
        <5>1. SUFFICES ASSUME RowOfBatchWritten(c) PROVE FALSE
          OBVIOUS
        <5>2. client[c].todo = <<SetStatus("ACTIVE"), SetSibling>> \/ client[c].todo = <<SetStatus("ACTIVE")>>
          BY <5>1 DEF RowOfBatchWritten
        <5>3. client[c].todo # <<SetSibling>>
          <6>1. <<SetStatus("ACTIVE"), SetSibling>> # <<SetSibling>>
            BY Lists
          <6>2. SetStatus("ACTIVE") # SetSibling
            BY StatementsDiffer
          <6>3. <<SetStatus("ACTIVE")>> # <<SetSibling>>
            BY <6>2, Lists
          <6> QED
            BY <5>2, <6>1, <6>3
        <5> QED
          BY <4>1, <4>2, <5>1, <5>3 DEF RowOfBatchWritten, SetsStatus
      <4> QED
        BY <1>1, <4>2, <4>3, <4>4 DEF AmountWritten, ClaimRecorded, SiblingWritten
    <3>2. CASE terms.kind \notin Streams
      <4>1. utxo.status = "CANCELLED"
        BY <1>1 DEF IInv, CancelledOnChain
      <4>2. Outstanding(c) /\ (row'.status = row.status \/ row'.status = Becomes(client[c].tx.op))
        BY <1>1, <2>5, StatementWrites DEF IInv
      <4>3. utxo.status \in Result(client[c].tx.op)
        BY <1>1, <3>2, <4>2 DEF IInv, OneOutstanding
      <4>4. Becomes(client[c].tx.op) = "CANCELLED"
        BY <4>1, <4>3 DEF Result, Becomes
      <4> QED
        BY <1>1, <4>2, <4>4
    <3> QED
      BY <3>1, <3>2
  <2> QED
    BY <1>1, <2>1, <2>2, <2>3, <2>4, <2>5, NextCases DEF IInv
<1>2. IInv /\ [Next]_vars =>
        [row.status = "CANCELLED"
         /\ (IF terms.kind \in Streams THEN "raced" ELSE "overlapped") \notin mishaps
         => row'.status = "CANCELLED"]_vars
  BY <1>1
<1> QED
  BY <1>2, StreamsInvariant, PTL DEF Spec, CancelledIsFinal

=============================================================================
