--------------------------- MODULE StreamRequests ---------------------------
(***************************************************************************)
(* Streams, recurring payments and budget plans: a covenant UTXO on the    *)
(* chain, a row that mirrors it, and the pages of a sender and of a        *)
(* recipient, each of which drives one operation at a time through the     *)
(* Lifecycle.  Somebody may have several pages open, so that confirmations *)
(* of two operations overlap.                                              *)
(*                                                                         *)
(* The four kinds differ in what their confirmations look at: those of     *)
(* streams compare the status of the row, those of payments and budget     *)
(* plans do not; all of them write values computed from a row they read    *)
(* before they asked the network about the transaction.                    *)
(*                                                                         *)
(* A stream may be one of a batch, which one transaction funds and one     *)
(* confirmation records, row by row: sibling stands for the others.        *)
(*                                                                         *)
(* Values are BCH in units of 100 satoshis.  The schedule is only how much *)
(* of the total is due (VestingCovenant has the clock).  Token streams,    *)
(* tranches and hybrids are left out; so is transfer, since every stream   *)
(* is created with transferable = 0, and a second funding of a row whose   *)
(* first funding was not confirmed.                                        *)
(***************************************************************************)
EXTENDS Lifecycle, Integers, FiniteSets

CONSTANTS
  Kinds,      \* the kinds a behaviour may be about
  Sender,     \* who funds
  Recipient,  \* who is paid
  Owner,      \* Owner[page] is whose page it is
  Share,      \* what one step or interval makes due
  Total,      \* what the stream pays in all
  MaxMoves    \* bound: a UTXO that was moved so often is not moved by a new operation

ASSUME StreamConstants ==
  /\ Kinds \subseteq {"stream", "recurring", "payment", "budget"}
  /\ IsFiniteSet(Clients) /\ Sender # Recipient /\ Owner \in [Clients -> {Sender, Recipient}]
  /\ Share \in Nat \ {0} /\ Total \in Nat \ {0} /\ Total % Share = 0
  /\ MaxMoves \in Nat

VARIABLES
  terms,   \* what the sender chose
  utxo,    \* the covenant UTXO; utxo.id counts the transactions that moved it
  row,     \* the row of the stream, payment or budget plan
  sibling, \* the other streams of its batch: funded on the chain, and their rows
  records, \* the sum of its rows in stream_claims, payment_executions or budget_releases
  mishaps  \* history: what went wrong so far

chain == <<utxo>>
db == <<row, sibling, records>>
vars == <<client, terms, utxo, row, sibling, records, mishaps>>

-----------------------------------------------------------------------------
(* The contracts *)

Reserve == 50    \* 5000 satoshis above the total
FeeCap == 50     \* 5000 satoshis: what most functions may take for the miner
Dust == 6        \* 546 satoshis, rounded up
ClaimFee == 40   \* what a claim, and a cancellation of a stream, takes from the UTXO
StateFee == 9    \* what a pause or a resumption of a vesting stream takes
RecurringFee == 40 \* and of a recurring one
RefundFee == 20  \* what the cancellation of a payment takes

Vests == terms.kind \in {"stream", "budget"}  \* VestingCovenant; the others are
                                              \* RecurringPaymentCovenant
Left == Total - utxo.released
FeeOf(tx) == utxo.value - tx.pay - tx.keep

\* A transaction is judged at its own locktime, when less may have been due than now.
vesting_claim(tx) == tx.pay \in 1 .. utxo.vested - utxo.released
pay(tx) == utxo.released < utxo.vested /\ tx.pay = Share /\ (terms.total > 0 => tx.pay <= Left)
claim(tx) == /\ tx.op = "claim"
             /\ utxo.status = "ACTIVE" /\ tx.outs <= 2 /\ FeeOf(tx) \in 0 .. FeeCap
             /\ IF Vests THEN vesting_claim(tx) ELSE pay(tx)
pause(tx) == tx.op = "pause" /\ terms.cancelable /\ utxo.status = "ACTIVE" /\ tx.outs <= 1
resume(tx) == tx.op = "resume" /\ utxo.status = "PAUSED" /\ tx.outs <= 1
\* The split of a vesting stream: when nothing is due, the refund has to come first.
vesting_cancel(tx) == tx.outs <= 2 /\ (Total - tx.back = utxo.released /\ tx.back > 0 => tx.first = Sender)
recurring_cancel(tx) == IF terms.total > 0 THEN Left > 0 /\ tx.back = Left
                        ELSE utxo.value - tx.back \in 0 .. FeeCap
cancel(tx) == /\ tx.op = "cancel"
              /\ terms.cancelable
              /\ utxo.status \in {"ACTIVE", "PAUSED"} /\ tx.outs > 0
              /\ IF Vests THEN vesting_cancel(tx) ELSE recurring_cancel(tx)

\* refill() asks for more tokens whenever the UTXO has a token category.  The state
\* NFT always gives it one, so that a refill with BCH is never accepted.
refill(tx) == tx.op = "refill" /\ FALSE

Fundings == {"fund", "batch"}

Accepts(tx) ==
  \/ tx.op \in Fundings /\ utxo.status = "UNFUNDED"
  \/ /\ tx.spends = utxo.id
     /\ claim(tx) \/ pause(tx) \/ resume(tx) \/ cancel(tx) \/ refill(tx)

\* The UTXO that tx leaves.  A pause ends with what was due when it began; a recurring
\* payment forgets the intervals that were missed.
After(tx) ==
  LET moved == [utxo EXCEPT !.id = @ + 1, !.value = tx.keep]
  IN  CASE tx.op \in Fundings -> [moved EXCEPT !.status = "ACTIVE"]
        [] tx.op = "claim" -> [moved EXCEPT
             !.released = @ + tx.pay,
             !.status = IF terms.total > 0 /\ utxo.released + tx.pay >= Total THEN "COMPLETED" ELSE @]
        [] tx.op = "pause" -> [moved EXCEPT
             !.status = "PAUSED", !.held = IF Vests THEN utxo.vested ELSE utxo.released]
        [] tx.op = "resume" -> [moved EXCEPT !.status = "ACTIVE", !.vested = utxo.held, !.held = 0]
        [] tx.op = "cancel" -> [moved EXCEPT !.status = "CANCELLED", !.refund = tx.back]

-----------------------------------------------------------------------------
(* The builders: the transactions a service can return for a page *)

Where(built, guard) == IF guard THEN built ELSE {}
Tx(op, keep, outs) ==
  [op |-> op, pay |-> 0, back |-> 0, keep |-> keep, outs |-> outs, first |-> Sender,
   spends |-> utxo.id]
Payout(amount, fee, outs) ==
  {[Tx("claim", utxo.value - amount - fee, outs) EXCEPT !.pay = amount]}
MoreThanDust(x) == IF x > Dust THEN 1 ELSE 0
Positive(x) == IF x > 0 THEN 1 ELSE 0

StreamFundTxs == {Tx("fund", Total + Reserve, 2)}
BatchFundTxs == {Tx("batch", Total + Reserve, 3)}
PaymentFundTxs == {Tx("fund", Total + Reserve, 2)}
BudgetFundTxs == {Tx("fund", Total + Reserve, 2)}

Claimable == utxo.vested - utxo.released
VestingClaimTxs == Where(Payout(Claimable, ClaimFee, 2),
                         Claimable > 0 /\ utxo.value - Claimable - ClaimFee >= Dust)
\* Mutant: an interval is built without looking at what the UTXO holds.
IntervalTxsUnchecked == Where(Payout(Share, ClaimFee, 2), Claimable > 0)
IntervalTxs == Where(Payout(Share, ClaimFee, 2),
                     Claimable > 0 /\ utxo.value - Share - ClaimFee >= Dust)
\* The miner is paid by the recipient, whose change is one more output.
BudgetReleaseTxs == Where(Payout(Claimable, 0, 2) \cup Payout(Claimable, 0, 3),
                          Claimable > 0 /\ utxo.value - Claimable >= Dust)

StateTxs(op, fee, from) == Where({Tx(op, utxo.value - fee, 1)},
                                 utxo.status = from /\ utxo.value - fee >= Dust)
VestingPauseTxs == Where(StateTxs("pause", StateFee, "ACTIVE"), terms.cancelable)
VestingResumeTxs == StateTxs("resume", StateFee, "PAUSED")
RecurringPauseTxs == Where(StateTxs("pause", RecurringFee, "ACTIVE"), terms.cancelable)
RecurringResumeTxs == StateTxs("resume", RecurringFee, "PAUSED")
BudgetPauseTxs == Where(StateTxs("pause", StateFee, "ACTIVE"), terms.cancelable)
RefillTxs == Where({Tx("refill", utxo.value + Share, 2)},
                   utxo.status \in {"ACTIVE", "PAUSED"} /\ terms.total = 0)

\* Recipient first, with dust when nothing is due; then the refund; then what is left.
VestingCancelTxs ==
  LET unvested == Total - utxo.vested
      payee == IF Claimable > 0 THEN Claimable ELSE IF unvested > 0 THEN Dust ELSE 0
      change == utxo.value - payee - unvested - ClaimFee
  IN  Where({[Tx("cancel", 0, Positive(payee) + Positive(unvested) + MoreThanDust(change)) EXCEPT
               !.pay = payee, !.back = unvested,
               !.first = IF payee > 0 THEN Recipient ELSE Sender]}, change >= 0)
RefundTxs(fee) ==
  LET remaining == IF terms.total > 0 THEN Left ELSE 0
      change == utxo.value - remaining - fee
  IN  Where({[Tx("cancel", 0, Positive(remaining) + MoreThanDust(change)) EXCEPT
               !.back = IF remaining > 0 THEN remaining ELSE change]}, change >= 0)
RecurringCancelTxs == RefundTxs(ClaimFee)
PaymentCancelTxs == Where(RefundTxs(RefundFee),
                          utxo.status \in {"ACTIVE", "PAUSED"} /\ terms.cancelable)

\* These builders date what they build by the server's clock, which the chain's median
\* time trails, and pay the miner less than a spend of their script needs to be relayed:
\* the network may refuse what the contract accepts.
Doubtful(tx) == \/ Vests /\ tx.op \in {"pause", "resume"}
                \/ terms.kind = "budget" /\ tx.op = "claim"
                \/ terms.kind = "payment" /\ tx.op = "cancel"

-----------------------------------------------------------------------------
(* The routes that build: who may ask, and which status of the row they want *)

IsSender(page) == Owner[page] = Sender
Streams == {"stream", "recurring"}
Live == {"ACTIVE", "PAUSED"}
By(page, statuses) == IsSender(page) /\ row.status \in statuses

\* Bound: a UTXO is funded once.
stream_funding_info(page) == Where(StreamFundTxs, By(page, {"PENDING"}) /\ utxo.status = "UNFUNDED")
\* batch-create inserts the rows of its batch and builds their funding.
batch_create(page) == Where(BatchFundTxs, By(page, {"NONE"}))
stream_claim(page) == Where(IF Vests THEN VestingClaimTxs ELSE IntervalTxs,
                            row.status = "ACTIVE" /\ ~IsSender(page) /\ utxo.status = "ACTIVE")
stream_pause(page) == Where(IF Vests THEN VestingPauseTxs ELSE RecurringPauseTxs, By(page, {"ACTIVE"}))
stream_resume(page) == Where(IF Vests THEN VestingResumeTxs ELSE RecurringResumeTxs, By(page, {"PAUSED"}))
stream_refill(page) == Where(RefillTxs, By(page, Live) /\ terms.kind = "recurring")
\* A cancelled covenant has no UTXO to build with.
Cancellable == utxo.status \notin {"UNFUNDED", "CANCELLED"}
stream_cancel(page) == Where(IF Vests THEN VestingCancelTxs ELSE RecurringCancelTxs,
                             By(page, Live) /\ terms.cancelable /\ Cancellable)

payment_funding_info(page) == Where(PaymentFundTxs, IsSender(page) /\ utxo.status = "UNFUNDED")
payment_claim(page) == Where(IntervalTxs,
                             row.status = "ACTIVE" /\ ~IsSender(page) /\ utxo.status = "ACTIVE")
payment_pause(page) == Where(RecurringPauseTxs, By(page, {"ACTIVE"}))
payment_resume(page) == Where(RecurringResumeTxs, By(page, {"PAUSED"}))
payment_cancel(page) == Where(PaymentCancelTxs, IsSender(page) /\ row.status # "CANCELLED" /\ Cancellable)

budget_funding_info(page) == Where(BudgetFundTxs, By(page, {"PENDING"}) /\ utxo.status = "UNFUNDED")
budget_release(page) == Where(BudgetReleaseTxs,
                              row.status = "ACTIVE" /\ ~IsSender(page) /\ utxo.status = "ACTIVE")
budget_pause(page) == Where(BudgetPauseTxs, By(page, {"ACTIVE"}))
budget_cancel(page) == Where(VestingCancelTxs, By(page, Live) /\ Cancellable)

-----------------------------------------------------------------------------
(* The confirmations: what a handler compares with the row it read, and the  *)
(* statements it will execute, with the values it computed from that row.    *)

Set(fields) == [into |-> "row", set |-> fields]
SetSibling == [into |-> "sibling"]
Record(tx) == [into |-> "records", set |-> [amount |-> tx.pay]]

\* Mutant: only the record is written.
stream_confirm_claim_records(tx) == <<Record(tx)>>
stream_confirm_funding(tx) == <<Set([status |-> "ACTIVE"])>>
\* The rows in the order the database returns them: the watched one may be first or last.
batch_confirm(tx) == LET active == Set([status |-> "ACTIVE"])
                     IN  {<<active, SetSibling>>, <<SetSibling, active>>}
stream_confirm_claim(tx) == <<Set([withdrawn |-> row.withdrawn + tx.pay]), Record(tx)>>
stream_confirm_pause(tx) == <<Set([status |-> "PAUSED"])>>
stream_confirm_resume(tx) == <<Set([status |-> "ACTIVE"])>>
stream_confirm_cancel(tx) == <<Set([status |-> "CANCELLED"])>>

payment_confirm_funding(tx) == <<Set([status |-> "ACTIVE"])>>
payment_confirm_claim(tx) == <<Set([withdrawn |-> row.withdrawn + tx.pay]), Record(tx)>>
payment_confirm_pause(tx) == <<Set([status |-> "PAUSED"])>>
payment_confirm_resume(tx) == <<Set([status |-> "ACTIVE"])>>
payment_confirm_cancel(tx) == <<Set([status |-> "CANCELLED"])>>

budget_confirm_funding(tx) == <<Set([status |-> "ACTIVE"])>>
budget_confirm_release(tx) == <<Set([withdrawn |-> row.withdrawn + tx.pay]), Record(tx)>>
budget_confirm_pause(tx) == <<Set([status |-> "PAUSED"])>>
budget_confirm_cancel(tx) == <<Set([status |-> "CANCELLED"])>>

StreamHandler(tx) == CASE tx.op = "fund" -> stream_confirm_funding(tx)
                       [] tx.op = "claim" -> stream_confirm_claim(tx)
                       [] tx.op = "pause" -> stream_confirm_pause(tx)
                       [] tx.op = "resume" -> stream_confirm_resume(tx)
                       [] tx.op = "cancel" -> stream_confirm_cancel(tx)
PaymentHandler(tx) == CASE tx.op = "fund" -> payment_confirm_funding(tx)
                        [] tx.op = "claim" -> payment_confirm_claim(tx)
                        [] tx.op = "pause" -> payment_confirm_pause(tx)
                        [] tx.op = "resume" -> payment_confirm_resume(tx)
                        [] tx.op = "cancel" -> payment_confirm_cancel(tx)
BudgetHandler(tx) == CASE tx.op = "fund" -> budget_confirm_funding(tx)
                       [] tx.op = "claim" -> budget_confirm_release(tx)
                       [] tx.op = "pause" -> budget_confirm_pause(tx)
                       [] tx.op = "cancel" -> budget_confirm_cancel(tx)
Statements(tx) == IF tx.op = "batch" THEN batch_confirm(tx)
                  ELSE {CASE terms.kind \in Streams -> StreamHandler(tx)
                          [] terms.kind = "payment" -> PaymentHandler(tx)
                          [] terms.kind = "budget" -> BudgetHandler(tx)}

\* Mutant: a confirmation of a stream does not compare the status.
AnyStatus(tx) == TRUE
\* The status a confirmation asks of the row.
StatusAllows(tx) ==
  CASE tx.op = "fund" /\ terms.kind # "budget" -> row.status = "PENDING"
    [] tx.op = "batch" -> row.status = "PENDING" /\ sibling.status = "PENDING"
    [] terms.kind \in Streams /\ tx.op = "pause" -> row.status = "ACTIVE"
    [] terms.kind \in Streams /\ tx.op = "resume" -> row.status = "PAUSED"
    [] terms.kind \in Streams /\ tx.op = "cancel" -> row.status \in Live
    [] OTHER -> TRUE

\* Mutant: the refund has to be more than what is left.
RefundExceeds(tx) == terms.kind = "payment" /\ tx.op = "cancel" => tx.back > Total - row.withdrawn
\* A payment's cancellation has to return what the row has not seen paid.
RefundIsThere(tx) == terms.kind = "payment" /\ tx.op = "cancel" => tx.back >= Total - row.withdrawn

Verified(tx) == StatusAllows(tx) /\ RefundIsThere(tx)

-----------------------------------------------------------------------------
(* Actions *)

\* What the routes that create accept: only a recurring stream may be open-ended (a
\* payment without an end is for twelve intervals).
Terms(kind, totals, pausables) ==
  [kind : {kind}, cancelable : BOOLEAN, pausable : pausables, total : totals]
stream_create == Terms("stream", {Total}, {TRUE}) \cup Terms("recurring", {0, Total}, {TRUE})
payment_create == Terms("payment", {Total}, BOOLEAN)
budget_create == Terms("budget", {Total}, {TRUE})

created == [status |-> "PENDING", withdrawn |-> 0]
\* The row of a stream that a batch will create.  Bound: the watched stream of a batch vests.
notYet == [created EXCEPT !.status = "NONE"]
deployed == [status |-> "UNFUNDED", released |-> 0, vested |-> 0, held |-> 0, refund |-> 0,
             value |-> 0, id |-> 0]

Init ==
  /\ LifecycleInit
  /\ terms \in stream_create \cup payment_create \cup budget_create
  /\ terms.kind \in Kinds
  /\ utxo = deployed
  /\ row \in {created} \cup Where({notYet}, terms.kind = "stream")
  /\ sibling = [funded |-> FALSE, status |-> "NONE"]
  /\ records = 0
  /\ mishaps = {}

\* Time passes: one more step of the schedule is due.
Vest == /\ utxo.status \in Live /\ utxo.vested + Share <= Total
        /\ utxo' = [utxo EXCEPT !.vested = @ + Share]
        /\ UNCHANGED <<client, terms, db, mishaps>>

\* A page has a transaction that a route built signed.
Offer(kinds, page, txs) == /\ terms.kind \in kinds
                           /\ utxo.id < MaxMoves
                           /\ \E tx \in txs : Sign(page, tx)
                           /\ UNCHANGED <<terms, chain, db, mishaps>>
fundBatchStreamContracts(page) ==
  /\ utxo.id < MaxMoves
  /\ \E tx \in batch_create(page) : Sign(page, tx)
  /\ row' = created /\ sibling' = [sibling EXCEPT !.status = "PENDING"]
  /\ UNCHANGED <<terms, chain, records, mishaps>>

fundStream(page) == Offer(Streams, page, stream_funding_info(page))
claimStreamFunds(page) == Offer(Streams, page, stream_claim(page))
pauseStreamOnChain(page) == Offer(Streams, page, stream_pause(page))
resumeStreamOnChain(page) == Offer(Streams, page, stream_resume(page))
refillStreamOnChain(page) == Offer(Streams, page, stream_refill(page))
cancelStreamOnChain(page) == Offer(Streams, page, stream_cancel(page))

fundPayment(page) == Offer({"payment"}, page, payment_funding_info(page))
claimPaymentFunds(page) == Offer({"payment"}, page, payment_claim(page))
pausePaymentOnChain(page) == Offer({"payment"}, page, payment_pause(page))
resumePaymentOnChain(page) == Offer({"payment"}, page, payment_resume(page))
cancelPaymentOnChain(page) == Offer({"payment"}, page, payment_cancel(page))

fundBudgetPlan(page) == Offer({"budget"}, page, budget_funding_info(page))
releaseMilestone(page) == Offer({"budget"}, page, budget_release(page))
pauseBudgetPlanOnChain(page) == Offer({"budget"}, page, budget_pause(page))
cancelBudgetPlanOnChain(page) == Offer({"budget"}, page, budget_cancel(page))

\* The pages and the operations each offers.  A page shows the row as it was when it was
\* last fetched, so that its look at status and amounts excludes nothing that a route
\* still admits.  The buttons of StreamControls, and cancellation, are hidden when a stream
\* is not cancelable.  The page of a payment ties its cancellation to pausable, which the
\* routes do not look at.
StreamControls(page) ==
  \/ /\ terms.cancelable
     /\ pauseStreamOnChain(page) \/ resumeStreamOnChain(page) \/ cancelStreamOnChain(page)
  \/ terms.total = 0 /\ refillStreamOnChain(page)
StreamDetailPage(page) ==
  fundStream(page) \/ claimStreamFunds(page) \/ StreamControls(page)
PaymentDetailPage(page) ==
  \/ fundPayment(page) \/ claimPaymentFunds(page)
  \/ /\ terms.pausable
     /\ \/ pausePaymentOnChain(page) \/ resumePaymentOnChain(page)
        \/ cancelPaymentOnChain(page)
\* It shows the release of a milestone only for a plan with a nextUnlock, which no route
\* returns: a recipient has to ask the route otherwise.
BudgetPlansPage(page) ==
  fundBudgetPlan(page) \/ pauseBudgetPlanOnChain(page) \/ cancelBudgetPlanOnChain(page)

Decline(page) == Refuse(page) /\ UNCHANGED <<terms, chain, db, mishaps>>

Outstanding(page) == client[page].at \in {"waiting", "running"}
Writing(page) == client[page].todo # <<>>

\* The backend broadcasts; the network takes it or not, and the page may never learn of it.
broadcast(page) ==
  LET tx == client[page].tx
  IN  /\ At(page, "signing")
      /\ \/ /\ Accepts(tx)
            /\ Broadcast(page)
            /\ utxo' = After(tx)
            /\ sibling' = [sibling EXCEPT !.funded = @ \/ tx.op = "batch"]
            /\ mishaps' = mishaps
                 \cup Where({"unconfirmed"}, ~Outstanding(page)')
                 \cup Where({"overlapped"}, \E other \in Clients \ {page} : Outstanding(other))
         \/ /\ Accepts(tx) => Doubtful(tx)
            /\ Rejected(page)
            /\ UNCHANGED <<chain, sibling, mishaps>>
      /\ UNCHANGED <<terms, row, records>>

confirm(page) ==
  LET tx == client[page].tx
  IN  /\ At(page, "waiting")
      /\ IF Verified(tx)
         THEN /\ \E statements \in Statements(tx) : Confirm(page, statements)
              /\ mishaps' = mishaps
                   \cup Where({"retried"}, client[page].tries > 0)
                   \cup Where({"raced"}, \E other \in Clients \ {page} : Writing(other))
         ELSE Refused(page) /\ UNCHANGED mishaps
      /\ UNCHANGED <<terms, chain, db>>

\* An UPDATE of the row writes the columns it names.
Updated(fields) ==
  [column \in DOMAIN row |-> IF column \in DOMAIN fields THEN fields[column] ELSE row[column]]

\* The next statement of a confirmation.
statement(page) ==
  /\ At(page, "running") /\ Writing(page)
  /\ LET s == Head(client[page].todo)
     IN  CASE s.into = "row" -> row' = Updated(s.set) /\ UNCHANGED <<sibling, records>>
           [] s.into = "sibling" -> /\ sibling' = [sibling EXCEPT !.status = "ACTIVE"]
                                    /\ UNCHANGED <<row, records>>
           [] s.into = "records" -> records' = records + s.set.amount /\ UNCHANGED <<row, sibling>>
  /\ Written(page)
  /\ UNCHANGED <<terms, chain, mishaps>>

answer(page) == Answer(page) /\ UNCHANGED <<terms, chain, db, mishaps>>

\* Bound: the answers of one confirmation are lost in a behaviour.
lose(page) == /\ {"retried", "interrupted"} \cap mishaps = {}
              /\ \A other \in Clients \ {page} : client[other].tries = 0
              /\ Lose(page)
              /\ mishaps' = mishaps \cup Where({"interrupted"}, Writing(page))
                                     \cup Where({"unconfirmed"}, ~Outstanding(page)')
              /\ UNCHANGED <<terms, chain, db>>

Next ==
  \/ Vest
  \/ \E page \in Clients :
       \/ StreamDetailPage(page) \/ PaymentDetailPage(page) \/ BudgetPlansPage(page)
       \/ releaseMilestone(page) \/ fundBatchStreamContracts(page)
       \/ Decline(page) \/ broadcast(page) \/ confirm(page) \/ statement(page)
       \/ answer(page) \/ lose(page)

Spec == Init /\ [][Next]_vars

-----------------------------------------------------------------------------
(* Properties *)

\* What the chain and the row may hold: the UTXO covers no less than nothing, and no
\* more is released than the total.
TypeOK ==
  /\ utxo.status \in {"UNFUNDED", "ACTIVE", "PAUSED", "COMPLETED", "CANCELLED"}
  /\ {utxo.released, utxo.vested, utxo.held} \subseteq 0 .. Total
  /\ utxo.value \in 0 .. Total + Reserve
  /\ DOMAIN row = {"status", "withdrawn"}
  /\ row.status \in {"NONE", "PENDING", "ACTIVE", "PAUSED", "CANCELLED"}
  /\ sibling \in [funded : BOOLEAN, status : {"NONE", "PENDING", "ACTIVE"}]
  /\ row.withdrawn \in Nat /\ records \in Nat
  /\ mishaps \subseteq {"unconfirmed", "overlapped", "raced", "retried", "interrupted"}

\* With nobody writing, the row has withdrawn what its records add up to, unless two
\* confirmations raced or one was interrupted; and no more than the chain released,
\* unless one was posted again.
ClaimsAddUp ==
  /\ (\A page \in Clients : ~Writing(page)) /\ {"raced", "interrupted"} \cap mishaps = {}
     => row.withdrawn = records
  /\ "retried" \notin mishaps => records <= utxo.released

\* Used by one page at a time, each of which stays until its answer has come, every
\* operation ends with a row that agrees with the chain: nothing a confirmation
\* compares refuses an honest transaction, and a batch is recorded as a whole.  (No
\* confirmation records completion.)
RowAgrees ==
  mishaps = {} /\ (\A page \in Clients : ~Outstanding(page)) =>
    /\ CASE utxo.status = "UNFUNDED" -> row.status \in {"NONE", "PENDING"}
         [] utxo.status = "COMPLETED" -> row.status = "ACTIVE"
         [] OTHER -> row.status = utxo.status
    /\ row.withdrawn = utxo.released
    /\ sibling.funded <=> sibling.status = "ACTIVE"

\* A cancelled row stays cancelled: for streams unless a confirmation read the row
\* before another had written it, for the kinds that do not compare the status unless
\* two operations were under way at once.
CancelledIsFinal ==
  [][row.status = "CANCELLED"
     /\ (IF terms.kind \in Streams THEN "raced" ELSE "overlapped") \notin mishaps
     => row'.status = "CANCELLED"]_vars
=============================================================================
