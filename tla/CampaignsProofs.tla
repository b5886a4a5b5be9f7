--------------------------- MODULE CampaignsProofs --------------------------
(***************************************************************************)
(* Theorems about Campaigns, for any number of claimants and any pool,     *)
(* share and number of slots.  The inductive invariant says what holds of  *)
(* the chain alone (the funds), of every transaction a builder has made    *)
(* (it still fits the UTXO it spends), of every transaction that was mined *)
(* and is being confirmed, and of the rows against the chain.              *)
(***************************************************************************)
EXTENDS Campaigns, Sums

Statuses == {"UNFUNDED", "ACTIVE", "PAUSED", "COMPLETED", "CANCELLED"}
RowStatuses == {"PENDING", "ACTIVE", "PAUSED", "COMPLETED", "CANCELLED"}
Places == {"idle", "signing", "waiting", "running"}
Todos == {<<>>, <<"active">>, <<"paused">>, <<"cancelled">>, <<"recipient">>,
          <<"insert", "count">>, <<"count">>,
          <<"insert", "count", "close">>, <<"count", "close">>, <<"close">>,
          <<"count", "insert", "close">>, <<"insert", "close">>}

Utxo == [status : Statuses, released : Nat, count : Nat, value : Nat, id : Nat,
         resumed : Nat, recipient : Claimants \cup {Nobody}]
Row == [status : RowStatuses, count : Nat, total : Nat, recipient : Claimants \cup {Nobody}]
Client == [at : Places, tx : Txs \cup {NoTx}, todo : Todos, tries : Nat]

Typed ==
  /\ terms \in Created
  /\ utxo \in Utxo /\ row \in Row /\ client \in [Clients -> Client]
  /\ claims \in [Claimants -> Nat] /\ milestones \in SUBSET Nat
  /\ paid \in [Claimants -> Nat] /\ payouts \in [Claimants -> Nat]
  /\ refund \in 0 .. Pool
  /\ terms.family = "grant" => row.recipient \in Claimants

-----------------------------------------------------------------------------
(* The chain *)

\* What was paid is what the covenant counts; the value never exceeds what is owed
\* and the reserve; a count of Slots ends a bounty or a grant.
FundsAddUp ==
  /\ utxo.count <= utxo.released /\ utxo.released <= Pool
  /\ PaidOut = utxo.released
  /\ utxo.status # "CANCELLED" => refund = 0
  /\ IF utxo.status = "UNFUNDED" THEN utxo.released = 0 /\ utxo.value = 0
     ELSE utxo.value + utxo.released <= Pool + Reserve
  /\ terms.family = "bounty" => utxo.released = utxo.count * Share
  /\ terms.family \in {"bounty", "grant"} /\ utxo.count >= Slots => utxo.status = "COMPLETED"

\* The value of an airdrop is never exactly what it still owes: all its fees come from
\* the reserve, the builders' in steps of SelfFee and the authority's of FeeCap.
AirdropGap ==
  terms.family = "airdrop" /\ utxo.status \notin {"UNFUNDED", "CANCELLED"} =>
    \/ utxo.value = Remaining + Reserve /\ utxo.status # "PAUSED"
    \/ utxo.value = Remaining + Reserve - SelfFee
    \/ utxo.value < Remaining

Funds == FundsAddUp /\ AirdropGap /\ ReserveIsKept

-----------------------------------------------------------------------------
(* Transactions *)

\* What holds of a transaction of c's whatever the chain has done since it was built.
Shape(c, tx) ==
  /\ tx \in Txs
  /\ tx.op = "fund" => tx.pay = 0 /\ tx.keep = Pool + Reserve
  /\ tx.op = "claim" => tx.who \in Claimants /\ c = IF terms.family = "airdrop" THEN tx.who ELSE Creator
  /\ tx.op = "pause" => tx.pay = 0
  /\ tx.op = "transfer" => tx.pay = 0 /\ terms.family = "grant" /\ tx.who \in Claimants
  /\ tx.op = "cancel" => tx.keep = 0

\* What a builder takes from the UTXO for the miner.
PayoutFee == IF terms.family \in {"airdrop", "grant"} THEN SelfFee ELSE 0
PauseFee == IF terms.family = "reward" THEN 0 ELSE SelfFee
CancelFee == IF terms.family = "reward" THEN SelfFee ELSE 0

FitsClaim(tx) ==
  /\ tx.op = "claim" /\ utxo.status = "ACTIVE"
  /\ tx.keep = utxo.value - tx.pay - PayoutFee
  /\ tx.outs \in IF terms.family \in {"airdrop", "grant"} THEN {2} ELSE {2, 3}
  /\ tx.pay \in IF terms.family = "reward" THEN 1 .. Share ELSE {Share}
  /\ terms.family \in {"bounty", "grant"} => utxo.count < Slots
  /\ terms.family \in {"airdrop", "reward"} => tx.pay <= Remaining
FitsPause(tx) ==
  /\ tx.op = "pause" /\ utxo.status = "ACTIVE" /\ terms.cancelable
  /\ tx.keep = utxo.value - PauseFee
  /\ tx.outs \in IF terms.family = "reward" THEN {1, 2} ELSE {1}
FitsTransfer(tx) ==
  /\ tx.op = "transfer" /\ utxo.status = "ACTIVE" /\ terms.transferable
  /\ tx.keep = utxo.value
FitsCancel(tx) ==
  /\ tx.op = "cancel" /\ utxo.status \in {"ACTIVE", "PAUSED"} /\ terms.cancelable
  /\ tx.pay = Remaining /\ Remaining > 0 /\ Remaining + CancelFee <= utxo.value
  /\ terms.family = "reward" => tx.outs <= 2
  /\ terms.family = "airdrop" => tx.outs > 1 \/ utxo.value = Remaining

\* What the builder saw holds as long as the UTXO is the one it saw.
Fits(tx) ==
  /\ tx.number = utxo.count + 1
  /\ tx.op = "fund" \/ FitsClaim(tx) \/ FitsPause(tx) \/ FitsTransfer(tx) \/ FitsCancel(tx)

\* What the chain shows of a transaction it took.
Happened(tx) ==
  /\ utxo.status # "UNFUNDED"
  /\ tx.op = "cancel" => utxo.status = "CANCELLED"
  /\ tx.op = "pause" /\ utxo.resumed = 0 => utxo.status \in {"PAUSED", "CANCELLED"}
  /\ tx.op = "claim" => payouts[tx.who] >= 1 /\ tx.number <= utxo.count

\* The statements a confirmation may still have to execute.
Remainders(tx) ==
  IF tx.op = "claim"
  THEN CASE terms.family \in {"airdrop", "reward"} -> {<<"insert", "count">>, <<"count">>, <<>>}
         [] terms.family = "bounty" -> {<<"insert", "count", "close">>, <<"count", "close">>, <<"close">>, <<>>}
         [] terms.family = "grant" -> {<<"count", "insert", "close">>, <<"insert", "close">>, <<"close">>, <<>>}
  ELSE {Statements(tx), <<>>}

ClientOk(c) ==
  /\ client[c].at # "idle" => Shape(c, client[c].tx)
  /\ client[c].at = "signing" =>
       /\ client[c].tx.spends <= utxo.id
       /\ client[c].tx.spends = utxo.id => Fits(client[c].tx)
  /\ client[c].at \in {"idle", "signing"} => client[c].tries = 0
  /\ client[c].at # "running" => client[c].todo = <<>>
  /\ client[c].at = "running" => client[c].todo \in Remainders(client[c].tx)
  /\ client[c].at \in {"waiting", "running"} => Happened(client[c].tx)
ClientsOk == \A c \in Clients : ClientOk(c)

-----------------------------------------------------------------------------
(* The rows *)

\* A payout of c's that was mined and whose statement s is still to come, in the first
\* confirmation of it.
Owed(c, s) == /\ client[c].at # "idle"
              /\ client[c].tx.op = "claim"
              /\ (client[c].at = "waiting" /\ client[c].tries = 0) \/ Has(c, s)
One(b) == IF b THEN 1 ELSE 0

RowTrails ==
  terms.family # "airdrop" /\ ~retried => row.count + One(Owed(Creator, "count")) <= utxo.count
AirdropRecords == terms.family = "airdrop" => \A who \in Claimants : claims[who] <= 1 /\ claims[who] <= payouts[who]
OtherRecords ==
  terms.family # "airdrop" /\ ~retried =>
    \A who \in Claimants :
       claims[who] + One(Owed(Creator, "insert") /\ client[Creator].tx.who = who) <= payouts[who]
MilestonesAreFresh ==
  terms.family = "grant" =>
    /\ \A n \in milestones : n <= utxo.count
    /\ ~retried /\ Owed(Creator, "insert") => client[Creator].tx.number \notin milestones
Rows == RowTrails /\ AirdropRecords /\ OtherRecords /\ MilestonesAreFresh

IInv == Typed /\ Funds /\ ClientsOk /\ Rows /\ IsFiniteSet(milestones) /\ CountsMatch /\ RowTrailsChain

-----------------------------------------------------------------------------
(* What the builders make *)

\* A transaction c may be asked to sign now.
Good(c, tx) == Shape(c, tx) /\ Fits(tx) /\ tx.spends = utxo.id

\* A user's page has a transaction signed.
SignStep(c) == \E tx : Good(c, tx) /\ Sign(c, tx) /\ UNCHANGED <<terms, chain, db, history>>

\* The assumption on the constants, fact by fact.
LEMMA CFacts ==
  /\ Share \in Nat /\ Share >= 1 /\ Slots \in Nat /\ Slots >= 1
  /\ \A pool \in Pools : pool \in Nat /\ pool >= 1
  /\ \A r \in Rewards : r \in Nat /\ r >= 1 /\ r <= Share
  /\ IsFiniteSet(Claimants) /\ Creator \notin Claimants /\ Clients = Claimants \cup {Creator}
<1>1. {Share, Slots} \cup Pools \subseteq Nat \ {0} /\ Rewards \subseteq 1 .. Share
  BY CampaignConstants
<1>2. Share \in Nat /\ Share >= 1 /\ Slots \in Nat /\ Slots >= 1
  BY <1>1
<1>3. \A pool \in Pools : pool \in Nat /\ pool >= 1
  BY <1>1
<1>4. \A r \in Rewards : r \in Nat /\ r >= 1 /\ r <= Share
  BY <1>1, <1>2
<1> QED
  BY <1>2, <1>3, <1>4, CampaignConstants

\* What every create route leaves in the terms.
LEMMA TFacts ==
  ASSUME terms \in Created
  PROVE  /\ terms.family \in {"airdrop", "reward", "bounty", "grant"}
         /\ Pool \in Nat /\ Pool >= 1
         /\ terms.cancelable \in BOOLEAN /\ terms.transferable \in BOOLEAN
         /\ terms.family = "bounty" => Pool = Slots * Share
BY CFacts, CampaignConstants DEF Created, airdrop_create, reward_create, bounty_create, grant_create, Terms, Pool

\* The numbers of the UTXO, and how they compare.
LEMMA Numbers ==
  ASSUME Typed, Funds
  PROVE  /\ utxo.value \in Nat /\ utxo.released \in Nat /\ utxo.count \in Nat /\ utxo.id \in Nat
         /\ utxo.count <= utxo.released /\ utxo.released <= Pool /\ utxo.value <= Pool + Reserve
         /\ Remaining \in Nat /\ Remaining <= Pool /\ Pool \in Nat
         /\ utxo.count + 1 \in 1 .. Pool + 1
         /\ utxo.status \in Statuses
<1>1. utxo \in Utxo /\ Pool \in Nat
  BY TFacts DEF Typed
<1>2. utxo.value \in Nat /\ utxo.released \in Nat /\ utxo.count \in Nat /\ utxo.id \in Nat /\ utxo.status \in Statuses
  BY <1>1 DEF Utxo
<1> QED
  BY <1>1, <1>2 DEF Funds, FundsAddUp, Remaining, Reserve

\* What Tx makes.
LEMMA TxFields ==
  ASSUME NEW op, NEW who, NEW pay, NEW keep, NEW outs, NEW tx, tx = Tx(op, who, pay, keep, outs)
  PROVE  /\ tx.op = op /\ tx.who = who /\ tx.pay = pay /\ tx.keep = keep /\ tx.outs = outs
         /\ tx.spends = utxo.id /\ tx.number = utxo.count + 1
BY DEF Tx

\* A transaction of bounded amounts has the type the runs check.
LEMMA TxType ==
  ASSUME Typed, Funds, 
         NEW op \in {"fund", "claim", "pause", "cancel", "transfer"},
         NEW who \in Claimants \cup {Creator, Nobody}, NEW pay \in Nat, NEW keep \in Nat, NEW outs \in 1 .. 3,
         pay <= Pool + Reserve, keep <= Pool + Reserve
  PROVE  Tx(op, who, pay, keep, outs) \in Txs
<1>1. pay \in 0 .. Pool + Reserve /\ keep \in 0 .. Pool + Reserve
  BY Numbers DEF Reserve
<1> QED
  BY <1>1, Numbers DEF Tx, Txs

\* The funding of any family is good.
LEMMA FundGood ==
  ASSUME Typed, Funds, NEW tx \in Funding({Tx("fund", Nobody, 0, Pool + Reserve, 2)})
  PROVE  Good(Creator, tx)
<1>1. tx = Tx("fund", Nobody, 0, Pool + Reserve, 2)
  BY DEF Funding, Where
<1>3. Pool + Reserve \in Nat /\ 0 <= Pool + Reserve /\ Pool + Reserve <= Pool + Reserve
  BY Numbers DEF Reserve
<1>4. Tx("fund", Nobody, 0, Pool + Reserve, 2) \in Txs
  BY <1>3, TxType
<1>2. tx \in Txs
  BY <1>1, <1>4
<1> QED
  BY <1>1, <1>2, TxFields DEF Good, Shape, Fits

\* So is any payout: who pays the miner decides what it keeps.
LEMMA PayGood ==
  ASSUME Typed, Funds, NEW who \in Claimants, NEW amounts, NEW changes \in SUBSET Change,
         amounts \in SUBSET Nat,
         NEW tx \in PayTxs(who, amounts, PayoutFee, changes),
         amounts \subseteq IF terms.family = "reward" THEN 1 .. Share ELSE {Share},
         changes \subseteq IF terms.family \in {"airdrop", "grant"} THEN {0} ELSE {0, 1},
         terms.family \in {"bounty", "grant"} => utxo.count < Slots,
         terms.family \in {"airdrop", "reward"} => tx.pay <= Remaining,
         NEW c, c = IF terms.family = "airdrop" THEN who ELSE Creator
  PROVE  Good(c, tx)
<1>1. PICK pay \in amounts, change \in changes :
        tx = Tx("claim", who, pay, utxo.value - pay - PayoutFee, 2 + change)
  BY DEF PayTxs
<1>2. utxo.status = "ACTIVE" /\ tx.keep > 0
  BY DEF PayTxs
<1>3. /\ tx.op = "claim" /\ tx.who = who /\ tx.pay = pay /\ tx.keep = utxo.value - pay - PayoutFee
      /\ tx.outs = 2 + change /\ tx.spends = utxo.id /\ tx.number = utxo.count + 1
  BY <1>1, TxFields
<1>4. pay \in Nat /\ PayoutFee \in Nat /\ change \in {0, 1}
  BY DEF PayoutFee, SelfFee, Change
<1>5. /\ utxo.value - pay - PayoutFee \in Nat /\ utxo.value - pay - PayoutFee <= Pool + Reserve /\ pay <= Pool + Reserve
  BY <1>2, <1>3, <1>4, Numbers DEF Reserve
<1>6. tx \in Txs
  BY <1>1, <1>4, <1>5, TxType
<1>7. Shape(c, tx)
  BY <1>3, <1>6 DEF Shape
<1>8. tx.outs \in IF terms.family \in {"airdrop", "grant"} THEN {2} ELSE {2, 3}
  BY <1>3, <1>4
<1>9. FitsClaim(tx)
  BY <1>2, <1>3, <1>8 DEF FitsClaim
<1> QED
  BY <1>3, <1>7, <1>9 DEF Good, Fits

\* So is a pause.
LEMMA PauseGood ==
  ASSUME Typed, Funds, NEW changes \in SUBSET Change,
         NEW tx \in StateTxs("pause", Nobody, PauseFee, changes),
         changes \subseteq IF terms.family = "reward" THEN {0, 1} ELSE {0}
  PROVE  Good(Creator, tx)
<1>1. PICK change \in changes : tx = Tx("pause", Nobody, 0, utxo.value - PauseFee, 1 + change)
  BY DEF StateTxs
<1>2. utxo.status = "ACTIVE" /\ terms.cancelable /\ tx.keep > 0
  BY DEF StateTxs
<1>3. /\ tx.op = "pause" /\ tx.who = Nobody /\ tx.pay = 0 /\ tx.keep = utxo.value - PauseFee
      /\ tx.outs = 1 + change /\ tx.spends = utxo.id /\ tx.number = utxo.count + 1
  BY <1>1, TxFields
<1>4. PauseFee \in Nat /\ change \in {0, 1}
  BY DEF PauseFee, SelfFee, Change
<1>5. /\ utxo.value - PauseFee \in Nat /\ utxo.value - PauseFee <= Pool + Reserve /\ 0 <= Pool + Reserve
  BY <1>2, <1>3, <1>4, Numbers DEF Reserve
<1>6. tx \in Txs
  BY <1>1, <1>4, <1>5, TxType
<1>7. Shape(Creator, tx)
  BY <1>3, <1>6 DEF Shape
<1>8. tx.outs \in IF terms.family = "reward" THEN {1, 2} ELSE {1}
  BY <1>3, <1>4
<1>9. FitsPause(tx)
  BY <1>2, <1>3, <1>8 DEF FitsPause
<1> QED
  BY <1>3, <1>7, <1>9 DEF Good, Fits

\* So is the transfer of a grant.
LEMMA TransferGood ==
  ASSUME Typed, Funds, NEW who \in Claimants, NEW c, terms.family = "grant",
         NEW tx \in StateTxs("transfer", who, 0, Change)
  PROVE  Good(c, tx)
<1>1. PICK change \in Change : tx = Tx("transfer", who, 0, utxo.value - 0, 1 + change)
  BY DEF StateTxs
<1>2. utxo.status = "ACTIVE" /\ terms.transferable /\ tx.keep > 0
  BY DEF StateTxs
<1>3. /\ tx.op = "transfer" /\ tx.who = who /\ tx.pay = 0 /\ tx.keep = utxo.value - 0
      /\ tx.outs = 1 + change /\ tx.spends = utxo.id /\ tx.number = utxo.count + 1
  BY <1>1, TxFields
<1>4. change \in {0, 1}
  BY DEF Change
<1>5. /\ utxo.value - 0 \in Nat /\ utxo.value - 0 <= Pool + Reserve /\ 0 <= Pool + Reserve /\ utxo.value - 0 = utxo.value
  BY Numbers DEF Reserve
<1>6. tx \in Txs
  BY <1>1, <1>4, <1>5, TxType
<1>7. Shape(c, tx)
  BY <1>3, <1>6 DEF Shape
<1>9. FitsTransfer(tx)
  BY <1>2, <1>3, <1>5 DEF FitsTransfer
<1> QED
  BY <1>3, <1>7, <1>9 DEF Good, Fits

\* So is a cancellation: what remains and the rest in outputs of their own.
LEMMA CancelGood ==
  ASSUME Typed, Funds, NEW changes \in SUBSET Change,
         NEW tx \in CancelTxs(CancelFee, changes),
         terms.family = "reward" => changes = {0}
  PROVE  Good(Creator, tx)
<1> DEFINE rest == utxo.value - Remaining - CancelFee
           last == IF rest > 0 THEN 1 ELSE 0
<1>1. PICK change \in changes : tx = Tx("cancel", Creator, Remaining, 0, 1 + last + change)
  BY DEF CancelTxs, Where
<1>2. utxo.status \in {"ACTIVE", "PAUSED"} /\ terms.cancelable /\ Remaining > 0 /\ rest >= 0
  BY DEF CancelTxs, Where
<1>3. /\ tx.op = "cancel" /\ tx.who = Creator /\ tx.pay = Remaining /\ tx.keep = 0
      /\ tx.outs = 1 + last + change /\ tx.spends = utxo.id /\ tx.number = utxo.count + 1
  BY <1>1, TxFields
<1>4. CancelFee \in Nat /\ change \in {0, 1} /\ last \in {0, 1}
  BY DEF CancelFee, SelfFee, Change
<1>5. Remaining <= Pool + Reserve /\ 0 <= Pool + Reserve
  BY Numbers DEF Reserve
<1>12. 1 + last + change \in 1 .. 3 /\ Remaining \in Nat
  BY <1>4, Numbers
<1>6. tx \in Txs
  <2> HIDE DEF last
  <2> QED  BY <1>1, <1>5, <1>12, TxType
<1>7. Shape(Creator, tx)
  BY <1>3, <1>6 DEF Shape
<1>8. terms.family = "reward" => tx.outs <= 2
  BY <1>3, <1>4
<1>9. terms.family = "airdrop" => tx.outs > 1 \/ utxo.value = Remaining
  <2>1. SUFFICES ASSUME terms.family = "airdrop", ~ (tx.outs > 1) PROVE utxo.value = Remaining
    OBVIOUS
  <2>2. last = 0
    BY <1>3, <1>4, <2>1
  <2>3. ~ (rest > 0) /\ CancelFee = 0
    BY <2>1, <2>2 DEF CancelFee
  <2> QED
    BY <1>2, <2>3, Numbers
<1>10. Remaining + CancelFee <= utxo.value
  BY <1>2, <1>4, Numbers
<1>11. FitsCancel(tx)
  BY <1>2, <1>3, <1>8, <1>9, <1>10 DEF FitsCancel
<1> QED
  BY <1>3, <1>7, <1>11 DEF Good, Fits
\* A page that offers only good transactions makes a step that signs one.
LEMMA OfferGood ==
  ASSUME NEW family, NEW c, NEW txs, Offer(family, c, txs),
         terms.family = family => \A tx \in txs : Good(c, tx)
  PROVE  SignStep(c)
BY DEF Offer, SignStep

\* The airdrop routes, one by one, build only good transactions.
LEMMA AirdropOffers ==
  ASSUME Typed, Funds, AirdropDetailPage
  PROVE  \E c \in Clients : SignStep(c)
<1>f. Creator \in Clients /\ Claimants \subseteq Clients
  BY CFacts
<1>1. CASE fundAirdropContract
  <2>1. \A tx \in airdrop_funding_info : Good(Creator, tx)
    BY FundGood DEF airdrop_funding_info, AirdropFundTxs
  <2> QED
    BY <1>f, <1>1, <2>1, OfferGood DEF fundAirdropContract
<1>2. CASE pauseAirdropOnChain
  <2>1. ASSUME terms.family = "airdrop", NEW tx \in airdrop_pause PROVE Good(Creator, tx)
    <3>1. tx \in StateTxs("pause", Nobody, PauseFee, {0})
      BY <2>1 DEF airdrop_pause, AirdropPauseTxs, Where, PauseFee
    <3> QED
      BY <3>1, <2>1, PauseGood DEF Change
  <2> QED
    BY <1>f, <1>2, <2>1, OfferGood DEF pauseAirdropOnChain
<1>3. CASE cancelAirdropOnChain
  <2>1. ASSUME terms.family = "airdrop", NEW tx \in airdrop_cancel PROVE Good(Creator, tx)
    <3>1. tx \in CancelTxs(CancelFee, Change)
      BY <2>1 DEF airdrop_cancel, AirdropCancelTxs, Where, CancelFee
    <3> QED
      BY <3>1, <2>1, CancelGood DEF Change
  <2> QED
    BY <1>f, <1>3, <2>1, OfferGood DEF cancelAirdropOnChain
<1>4. ASSUME NEW c \in Claimants, claimAirdropFunds(c) PROVE SignStep(c)
  <2>1. ASSUME terms.family = "airdrop", NEW tx \in airdrop_claim_route(c) PROVE Good(c, tx)
    <3>1. tx \in PayTxs(c, {Share}, PayoutFee, {0}) /\ Share <= Remaining
      BY <2>1 DEF airdrop_claim_route, AirdropClaimTxs, Where, PayoutFee
    <3>2. tx.pay = Share
      BY <3>1 DEF PayTxs, Tx
    <3> QED
      BY <3>1, <3>2, <2>1, PayGood, CFacts DEF Change
  <2> QED
    BY <1>4, <2>1, OfferGood DEF claimAirdropFunds
<1> QED
  BY <1>f, <1>1, <1>2, <1>3, <1>4 DEF AirdropDetailPage

\* So do the reward routes.
LEMMA RewardOffers ==
  ASSUME Typed, Funds, RewardDetailPage
  PROVE  SignStep(Creator)
<1>1. CASE fundRewardContract
  <2>1. \A tx \in reward_funding_info : Good(Creator, tx)
    BY FundGood DEF reward_funding_info, RewardFundTxs
  <2> QED
    BY <1>1, <2>1, OfferGood DEF fundRewardContract
<1>2. CASE pauseRewardOnChain
  <2>1. ASSUME terms.family = "reward", NEW tx \in reward_pause PROVE Good(Creator, tx)
    <3>1. tx \in StateTxs("pause", Nobody, PauseFee, Change)
      BY <2>1 DEF reward_pause, RewardPauseTxs, Where, PauseFee
    <3> QED
      BY <3>1, <2>1, PauseGood DEF Change
  <2> QED
    BY <1>2, <2>1, OfferGood DEF pauseRewardOnChain
<1>3. CASE cancelRewardOnChain
  <2>1. ASSUME terms.family = "reward", NEW tx \in reward_cancel PROVE Good(Creator, tx)
    <3>1. tx \in CancelTxs(CancelFee, {0})
      BY <2>1 DEF reward_cancel, RewardCancelTxs, Where, CancelFee
    <3> QED
      BY <3>1, <2>1, CancelGood DEF Change
  <2> QED
    BY <1>3, <2>1, OfferGood DEF cancelRewardOnChain
<1>4. CASE distributeRewardOnChain
  <2>1. ASSUME terms.family = "reward", NEW tx \in reward_distribute PROVE Good(Creator, tx)
    <3>1. PICK who \in Claimants : tx \in PayTxs(who, Rewards, PayoutFee, Change) /\ tx.pay <= Remaining
      BY <2>1 DEF reward_distribute, RewardTxs, PayoutFee
    <3>2. Rewards \in SUBSET Nat /\ Rewards \subseteq 1 .. Share
      BY CampaignConstants
    <3> QED
      BY <3>1, <3>2, <2>1, PayGood, CFacts DEF Change
  <2> QED
    BY <1>4, <2>1, OfferGood DEF distributeRewardOnChain
<1> QED
  BY <1>1, <1>2, <1>3, <1>4 DEF RewardDetailPage

\* So do the bounty routes.
LEMMA BountyOffers ==
  ASSUME Typed, Funds, BountyDetailPage
  PROVE  SignStep(Creator)
<1>1. CASE bountyActionFund
  <2>1. \A tx \in bounty_funding_info : Good(Creator, tx)
    BY FundGood DEF bounty_funding_info, BountyFundTxs
  <2> QED
    BY <1>1, <2>1, OfferGood DEF bountyActionFund
<1>2. CASE bountyActionPause
  <2>1. ASSUME terms.family = "bounty", NEW tx \in bounty_pause PROVE Good(Creator, tx)
    <3>1. tx \in StateTxs("pause", Nobody, PauseFee, {0})
      BY <2>1 DEF bounty_pause, BountyPauseTxs, Where, PauseFee
    <3> QED
      BY <3>1, <2>1, PauseGood DEF Change
  <2> QED
    BY <1>2, <2>1, OfferGood DEF bountyActionPause
<1>3. CASE bountyActionCancel
  <2>1. ASSUME terms.family = "bounty", NEW tx \in bounty_cancel PROVE Good(Creator, tx)
    <3>1. tx \in CancelTxs(CancelFee, Change)
      BY <2>1 DEF bounty_cancel, BountyCancelTxs, Where, CancelFee
    <3> QED
      BY <3>1, <2>1, CancelGood DEF Change
  <2> QED
    BY <1>3, <2>1, OfferGood DEF bountyActionCancel
<1>4. CASE bountyActionPayWinner
  <2>1. ASSUME terms.family = "bounty", NEW tx \in bounty_claim_route PROVE Good(Creator, tx)
    <3>1. PICK who \in Claimants : tx \in PayTxs(who, {Share}, PayoutFee, Change) /\ utxo.count < Slots
      BY <2>1 DEF bounty_claim_route, BountyClaimTxs, Where, PayoutFee
    <3> QED
      BY <3>1, <2>1, PayGood, CFacts DEF Change
  <2> QED
    BY <1>4, <2>1, OfferGood DEF bountyActionPayWinner
<1> QED
  BY <1>1, <1>2, <1>3, <1>4 DEF BountyDetailPage

\* So do the grant routes.
LEMMA GrantOffers ==
  ASSUME Typed, Funds, GrantDetailPage
  PROVE  \E c \in Clients : SignStep(c)
<1>f. Creator \in Clients /\ Claimants \subseteq Clients
  BY CFacts
<1>1. CASE fundGrantContract
  <2>1. \A tx \in grant_funding_info : Good(Creator, tx)
    BY FundGood DEF grant_funding_info, GrantFundTxs
  <2> QED
    BY <1>f, <1>1, <2>1, OfferGood DEF fundGrantContract
<1>2. CASE pauseGrantOnChain
  <2>1. ASSUME terms.family = "grant", NEW tx \in grant_pause PROVE Good(Creator, tx)
    <3>1. tx \in StateTxs("pause", Nobody, PauseFee, {0})
      BY <2>1 DEF grant_pause, GrantPauseTxs, Where, PauseFee
    <3> QED
      BY <3>1, <2>1, PauseGood DEF Change
  <2> QED
    BY <1>f, <1>2, <2>1, OfferGood DEF pauseGrantOnChain
<1>3. CASE cancelGrantOnChain
  <2>1. ASSUME terms.family = "grant", NEW tx \in grant_cancel PROVE Good(Creator, tx)
    <3>1. tx \in CancelTxs(CancelFee, Change)
      BY <2>1 DEF grant_cancel, GrantCancelTxs, Where, CancelFee
    <3> QED
      BY <3>1, <2>1, CancelGood DEF Change
  <2> QED
    BY <1>f, <1>3, <2>1, OfferGood DEF cancelGrantOnChain
<1>4. CASE releaseGrantMilestone
  <2>1. ASSUME terms.family = "grant", NEW tx \in grant_release PROVE Good(Creator, tx)
    <3>2. row.recipient \in Claimants
      BY <2>1 DEF Typed
    <3>1. tx \in PayTxs(row.recipient, {Share}, PayoutFee, {0}) /\ utxo.count < Slots
      BY <2>1 DEF grant_release, ReleaseTxs, Where, PayoutFee
    <3> QED
      BY <3>1, <3>2, <2>1, PayGood, CFacts DEF Change
  <2> QED
    BY <1>f, <1>4, <2>1, OfferGood DEF releaseGrantMilestone
<1>5. ASSUME NEW c \in Claimants, transferGrantOnChain(c) PROVE SignStep(c)
  <2>1. ASSUME terms.family = "grant", NEW tx \in grant_transfer(c) PROVE Good(c, tx)
    <3>1. PICK who \in Claimants : tx \in StateTxs("transfer", who, 0, Change)
      BY <2>1 DEF grant_transfer, GrantTransferTxs, Where
    <3> QED
      BY <3>1, <2>1, TransferGood
  <2> QED
    BY <1>5, <2>1, OfferGood DEF transferGrantOnChain
<1> QED
  BY <1>f, <1>1, <1>2, <1>3, <1>4, <1>5 DEF GrantDetailPage

-----------------------------------------------------------------------------
(* How a step changes a client *)

Becomes(c, at, tx, todo, tries) ==
  /\ client' \in [Clients -> Client]
  /\ client'[c].at = at /\ client'[c].tx = tx /\ client'[c].todo = todo /\ client'[c].tries = tries
  /\ \A d \in Clients \ {c} : client'[d] = client[d]

\* A client's record is set.
LEMMA SetClient ==
  ASSUME client \in [Clients -> Client], NEW c \in Clients,
         NEW at \in Places, NEW tx \in Txs \cup {NoTx}, NEW todo \in Todos, NEW tries \in Nat,
         NEW y, y = [at |-> at, tx |-> tx, todo |-> todo, tries |-> tries],
         client' = [client EXCEPT ![c] = y]
  PROVE  Becomes(c, at, tx, todo, tries)
<1>1. y \in Client
  BY DEF Client
<1>2. y.at = at /\ y.tx = tx /\ y.todo = todo /\ y.tries = tries
  OBVIOUS
<1>3. client' \in [Clients -> Client] /\ client'[c] = y /\ \A d \in Clients \ {c} : client'[d] = client[d]
  BY <1>1
<1> QED
  BY <1>2, <1>3 DEF Becomes

\* A client is its four fields.
LEMMA ClientFields ==
  ASSUME client \in [Clients -> Client], NEW c \in Clients
  PROVE  /\ client[c].at \in Places /\ client[c].tx \in Txs \cup {NoTx}
         /\ client[c].todo \in Todos /\ client[c].tries \in Nat
<1>1. client[c] \in Client
  OBVIOUS
<1> QED
  BY <1>1 DEF Client

\* What Sign leaves of a client.
LEMMA SignUpdate ==
  ASSUME client \in [Clients -> Client], NEW c \in Clients, NEW tx \in Txs, Sign(c, tx)
  PROVE  Becomes(c, "signing", tx, client[c].todo, client[c].tries)
<1>1. PICK r : r = client[c]
  OBVIOUS
<1>2. r \in Client
  BY <1>1
<1>3. PICK a : a = [client EXCEPT ![c].at = "signing"]
  OBVIOUS
<1>4. PICK x : x = [r EXCEPT !.at = "signing"]
  OBVIOUS
<1>5. x = [at |-> "signing", tx |-> r.tx, todo |-> r.todo, tries |-> r.tries]
  BY <1>2, <1>4 DEF Client
<1>6. PICK y : y = [x EXCEPT !.tx = tx]
  OBVIOUS
<1>7. y = [at |-> "signing", tx |-> tx, todo |-> r.todo, tries |-> r.tries]
  BY <1>5, <1>6
<1>8. client' = [a EXCEPT ![c] = y]
  BY <1>1, <1>3, <1>4, <1>6 DEF Sign
<1>9. client' = [client EXCEPT ![c] = y]
  BY <1>3, <1>8
<1>10. r.tx = client[c].tx /\ r.todo = client[c].todo /\ r.tries = client[c].tries
  BY <1>1
<1> QED
  BY <1>7, <1>9, <1>10, ClientFields, SetClient DEF Places

\* What the end of an operation leaves of a client.
LEMMA IdleUpdate ==
  ASSUME client \in [Clients -> Client], NEW c \in Clients, client' = [client EXCEPT ![c] = Idle]
  PROVE  Becomes(c, "idle", NoTx, <<>>, 0)
<1>1. PICK y : y = Idle
  OBVIOUS
<1>2. y = [at |-> "idle", tx |-> NoTx, todo |-> <<>>, tries |-> 0]
  BY <1>1 DEF Idle
<1>3. client' = [client EXCEPT ![c] = y]
  BY <1>1
<1> QED
  BY <1>2, <1>3, SetClient DEF Places, Todos

\* What a broadcast leaves of a client.
LEMMA WaitUpdate ==
  ASSUME client \in [Clients -> Client], NEW c \in Clients, client' = [client EXCEPT ![c].at = "waiting"]
  PROVE  Becomes(c, "waiting", client[c].tx, client[c].todo, client[c].tries)
<1>1. PICK r : r = client[c]
  OBVIOUS
<1>2. PICK y : y = [r EXCEPT !.at = "waiting"]
  OBVIOUS
<1>3. client' = [client EXCEPT ![c] = y]
  BY <1>1, <1>2
<1>4. r \in Client
  BY <1>1
<1>5. y = [at |-> "waiting", tx |-> r.tx, todo |-> r.todo, tries |-> r.tries]
  BY <1>2, <1>4 DEF Client
<1>6. y = [at |-> "waiting", tx |-> client[c].tx, todo |-> client[c].todo, tries |-> client[c].tries]
  BY <1>1, <1>5
<1> QED
  BY <1>3, <1>6, ClientFields, SetClient DEF Places

\* What the start of a confirmation leaves of a client.
LEMMA RunUpdate ==
  ASSUME client \in [Clients -> Client], NEW c \in Clients, NEW todo \in Todos, Confirm(c, todo)
  PROVE  Becomes(c, "running", client[c].tx, todo, client[c].tries)
<1>1. PICK r : r = client[c]
  OBVIOUS
<1>2. r \in Client
  BY <1>1
<1>3. PICK a : a = [client EXCEPT ![c].at = "running"]
  OBVIOUS
<1>4. PICK x : x = [r EXCEPT !.at = "running"]
  OBVIOUS
<1>5. x = [at |-> "running", tx |-> r.tx, todo |-> r.todo, tries |-> r.tries]
  BY <1>2, <1>4 DEF Client
<1>6. PICK y : y = [x EXCEPT !.todo = todo]
  OBVIOUS
<1>7. y = [at |-> "running", tx |-> r.tx, todo |-> todo, tries |-> r.tries]
  BY <1>5, <1>6
<1>8. client' = [a EXCEPT ![c] = y]
  BY <1>1, <1>3, <1>4, <1>6 DEF Confirm
<1>9. client' = [client EXCEPT ![c] = y]
  BY <1>3, <1>8
<1>10. r.tx = client[c].tx /\ r.tries = client[c].tries
  BY <1>1
<1> QED
  BY <1>7, <1>9, <1>10, ClientFields, SetClient DEF Places

\* What a statement leaves of a client.
LEMMA WrittenUpdate ==
  ASSUME client \in [Clients -> Client], NEW c \in Clients, Written(c), NEW rest \in Todos, rest = Tail(client[c].todo)
  PROVE  Becomes(c, client[c].at, client[c].tx, rest, client[c].tries)
<1>1. PICK r : r = client[c]
  OBVIOUS
<1>2. PICK y : y = [r EXCEPT !.todo = rest]
  OBVIOUS
<1>3. client' = [client EXCEPT ![c] = y]
  BY <1>1, <1>2 DEF Written
<1>4. r \in Client
  BY <1>1
<1>5. y = [at |-> r.at, tx |-> r.tx, todo |-> rest, tries |-> r.tries]
  BY <1>2, <1>4 DEF Client
<1>6. y = [at |-> client[c].at, tx |-> client[c].tx, todo |-> rest, tries |-> client[c].tries]
  BY <1>1, <1>5
<1> QED
  BY <1>3, <1>6, ClientFields, SetClient

\* A confirmation that was lost is posted again or given up.
LEMMA LoseUpdate ==
  ASSUME client \in [Clients -> Client], NEW c \in Clients, Lose(c)
  PROVE  \/ Becomes(c, "waiting", client[c].tx, <<>>, client[c].tries + 1)
         \/ Becomes(c, "idle", NoTx, <<>>, 0)
<1>1. CASE client[c].tries + 1 < MaxTries
  <2>1. PICK y : y = [at |-> "waiting", tx |-> client[c].tx, todo |-> <<>>, tries |-> client[c].tries + 1]
    OBVIOUS
  <2>2. client' = [client EXCEPT ![c] = y]
    BY <1>1, <2>1 DEF Lose
  <2>3. client[c].tries + 1 \in Nat
    BY ClientFields
  <2> QED
    BY <2>1, <2>2, <2>3, ClientFields, SetClient DEF Places, Todos
<1>2. CASE ~ (client[c].tries + 1 < MaxTries)
  BY <1>2, IdleUpdate DEF Lose
<1> QED
  BY <1>1, <1>2

-----------------------------------------------------------------------------
(* Statements of a confirmation *)

\* A confirmation starts with all its statements before it.
LEMMA StatementsFit ==
  ASSUME NEW c, NEW tx, terms \in Created, Shape(c, tx)
  PROVE  /\ Statements(tx) \in Remainders(tx)
         /\ Remainders(tx) \subseteq Todos
<1>0. terms.family \in {"airdrop", "reward", "bounty", "grant"}
  BY TFacts
<1>1. /\ tx.op \in {"fund", "claim", "pause", "cancel", "transfer"}
      /\ tx.op = "transfer" => terms.family = "grant"
  BY DEF Shape, Txs
<1>2. CASE tx.op = "claim"
  <2>1. /\ terms.family = "airdrop" => Statements(tx) = <<"insert", "count">>
        /\ terms.family = "reward" => Statements(tx) = <<"insert", "count">>
        /\ terms.family = "bounty" => Statements(tx) = <<"insert", "count", "close">>
        /\ terms.family = "grant" => Statements(tx) = <<"count", "insert", "close">>
    BY <1>2 DEF Statements, AirdropHandlers, RewardHandlers, BountyHandlers, GrantHandlers,
                airdrop_confirm_claim, reward_confirm_distribute, bounty_confirm_claim, grant_confirm_release
  <2> QED
    BY <1>0, <1>2, <2>1 DEF Remainders, Todos
<1>3. CASE tx.op \in {"fund", "pause", "cancel"}
  <2>1. Statements(tx) \in {<<"active">>, <<"paused">>, <<"cancelled">>}
    BY <1>0, <1>3 DEF Statements, AirdropHandlers, RewardHandlers, BountyHandlers, GrantHandlers,
         airdrop_confirm_funding, reward_confirm_funding, bounty_confirm_funding, grant_confirm_funding,
         airdrop_confirm_pause, reward_confirm_pause, bounty_confirm_pause, grant_confirm_pause,
         airdrop_confirm_cancel, reward_confirm_cancel, bounty_confirm_cancel, grant_confirm_cancel
  <2> QED
    BY <1>3, <2>1 DEF Remainders, Todos
<1>4. CASE tx.op = "transfer"
  <2>1. Statements(tx) = <<"recipient">>
    BY <1>1, <1>4 DEF Statements, GrantHandlers, grant_confirm_transfer
  <2> QED
    BY <1>4, <2>1 DEF Remainders, Todos
<1> QED
  BY <1>1, <1>2, <1>3, <1>4

\* What stands in the lists of statements.
LEMMA RangeOf ==
  /\ Range(<<>>) = {}
  /\ \A a : Range(<<a>>) = {a}
  /\ \A a, b : Range(<<a, b>>) = {a, b}
  /\ \A a, b, d : Range(<<a, b, d>>) = {a, b, d}
<1>1. Range(<<>>) = {}
  BY DEF Range
<1>2. \A a : Range(<<a>>) = {a}
  BY DEF Range
<1>3. \A a, b : Range(<<a, b>>) = {a, b}
  BY DEF Range
<1>4. \A a, b, d : Range(<<a, b, d>>) = {a, b, d}
  BY DEF Range
<1> QED
  BY <1>1, <1>2, <1>3, <1>4

\* What stands in each of the lists a confirmation can have left.
LEMMA RangeFacts ==
  /\ Range(<<>>) = {}
  /\ Range(<<"insert", "count">>) = {"insert", "count"}
  /\ Range(<<"count">>) = {"count"}
  /\ Range(<<"insert", "count", "close">>) = {"insert", "count", "close"}
  /\ Range(<<"count", "close">>) = {"count", "close"}
  /\ Range(<<"close">>) = {"close"}
  /\ Range(<<"count", "insert", "close">>) = {"insert", "count", "close"}
  /\ Range(<<"insert", "close">>) = {"insert", "close"}
  /\ Range(<<"active">>) = {"active"} /\ Range(<<"paused">>) = {"paused"}
  /\ Range(<<"cancelled">>) = {"cancelled"} /\ Range(<<"recipient">>) = {"recipient"}
BY RangeOf

\* The next statement, and what is left then.
LEMMA TodoFacts ==
  ASSUME NEW todo \in Todos, todo # <<>>
  PROVE  /\ Tail(todo) \in Todos
         /\ Head(todo) = "insert" => \/ todo = <<"insert", "count">> /\ Tail(todo) = <<"count">>
                                     \/ todo = <<"insert", "count", "close">> /\ Tail(todo) = <<"count", "close">>
                                     \/ todo = <<"insert", "close">> /\ Tail(todo) = <<"close">>
         /\ Head(todo) = "count" => \/ todo = <<"count">> /\ Tail(todo) = <<>>
                                    \/ todo = <<"count", "close">> /\ Tail(todo) = <<"close">>
                                    \/ todo = <<"count", "insert", "close">> /\ Tail(todo) = <<"insert", "close">>
         /\ Head(todo) = "close" => todo = <<"close">> /\ Tail(todo) = <<>>
         /\ Head(todo) \in {"active", "paused", "cancelled", "recipient"} =>
              todo = <<Head(todo)>> /\ Tail(todo) = <<>>
<1>1. \A a : Head(<<a>>) = a /\ Tail(<<a>>) = <<>>
  OBVIOUS
<1>2. \A a, b : Head(<<a, b>>) = a /\ Tail(<<a, b>>) = <<b>>
  OBVIOUS
<1>3. \A a, b, d : Head(<<a, b, d>>) = a /\ Tail(<<a, b, d>>) = <<b, d>>
  OBVIOUS
<1>4. ASSUME NEW a \in {"active", "paused", "cancelled", "recipient", "count", "close"}, todo = <<a>>
      PROVE  Head(todo) = a /\ Tail(todo) = <<>>
  BY <1>1, <1>4
<1>5. ASSUME NEW a, NEW b, todo = <<a, b>>
      PROVE  Head(todo) = a /\ Tail(todo) = <<b>>
  BY <1>2, <1>5
<1>6. ASSUME NEW a, NEW b, NEW d, todo = <<a, b, d>>
      PROVE  Head(todo) = a /\ Tail(todo) = <<b, d>>
  BY <1>3, <1>6
<1>7. CASE todo \in {<<"active">>, <<"paused">>, <<"cancelled">>, <<"recipient">>, <<"count">>, <<"close">>}
  BY <1>4, <1>7 DEF Todos
<1>8. CASE todo \in {<<"insert", "count">>, <<"count", "close">>, <<"insert", "close">>}
  BY <1>5, <1>8 DEF Todos
<1>9. CASE todo \in {<<"insert", "count", "close">>, <<"count", "insert", "close">>}
  BY <1>6, <1>9 DEF Todos
<1> QED
  BY <1>7, <1>8, <1>9 DEF Todos

-----------------------------------------------------------------------------
(* The chain *)

\* The UTXO a step leaves: `status`, `pay` more released in `n` more payouts, `value`.
Leaves(u, status, pay, n, value, resumed, recipient) ==
  /\ u \in Utxo
  /\ u.status = status /\ u.released = utxo.released + pay /\ u.count = utxo.count + n
  /\ u.value = value /\ u.id = utxo.id + 1
  /\ u.resumed = resumed /\ u.recipient = recipient

\* A UTXO written field by field is the one Leaves describes.
LEMMA LeavesRecord ==
  ASSUME utxo \in Utxo, NEW status \in Statuses, NEW pay \in Nat, NEW n \in Nat, NEW value \in Nat,
         NEW resumed \in Nat, NEW recipient \in Claimants \cup {Nobody},
         NEW u, u = [status |-> status, released |-> utxo.released + pay, count |-> utxo.count + n,
                     value |-> value, id |-> utxo.id + 1, resumed |-> resumed, recipient |-> recipient]
  PROVE  Leaves(u, status, pay, n, value, resumed, recipient)
<1>1. utxo.released + pay \in Nat /\ utxo.count + n \in Nat /\ utxo.id + 1 \in Nat
  BY DEF Utxo
<1>2. u \in Utxo
  BY <1>1 DEF Utxo
<1> QED
  BY <1>2 DEF Leaves

\* The UTXO each kind of transaction leaves.
LEMMA AfterLeaves ==
  ASSUME utxo \in Utxo, NEW tx, tx.keep \in Nat, tx.pay \in Nat
  PROVE  /\ tx.op = "fund" => Leaves(After(tx), "ACTIVE", 0, 0, tx.keep, utxo.resumed, utxo.recipient)
         /\ tx.op = "claim" =>
              Leaves(After(tx), IF Finishes(tx) THEN "COMPLETED" ELSE utxo.status, tx.pay, 1, tx.keep,
                     utxo.resumed, utxo.recipient)
         /\ tx.op = "pause" => Leaves(After(tx), "PAUSED", 0, 0, tx.keep, utxo.resumed, utxo.recipient)
         /\ tx.op = "cancel" => Leaves(After(tx), "CANCELLED", 0, 0, tx.keep, utxo.resumed, utxo.recipient)
         /\ tx.op = "transfer" /\ tx.who \in Claimants =>
              Leaves(After(tx), utxo.status, 0, 0, tx.keep, utxo.resumed, tx.who)
<1> DEFINE moved == [utxo EXCEPT !.id = @ + 1, !.value = tx.keep]
<1>1. PICK m : m = moved
  OBVIOUS
<1>2. m = [status |-> utxo.status, released |-> utxo.released, count |-> utxo.count, value |-> tx.keep,
           id |-> utxo.id + 1, resumed |-> utxo.resumed, recipient |-> utxo.recipient]
  BY <1>1 DEF Utxo
<1>3. /\ utxo.released + 0 = utxo.released /\ utxo.count + 0 = utxo.count
      /\ utxo.status \in Statuses /\ utxo.resumed \in Nat /\ utxo.recipient \in Claimants \cup {Nobody}
  BY DEF Utxo
<1> HIDE DEF moved
<1>4. ASSUME tx.op = "fund"
      PROVE  Leaves(After(tx), "ACTIVE", 0, 0, tx.keep, utxo.resumed, utxo.recipient)
  <2>1. PICK u : u = After(tx)
    OBVIOUS
  <2>2. u = [m EXCEPT !.status = "ACTIVE"]
    BY <1>1, <1>4, <2>1 DEF After, moved
  <2>3. u = [status |-> "ACTIVE", released |-> utxo.released, count |-> utxo.count, value |-> tx.keep,
             id |-> utxo.id + 1, resumed |-> utxo.resumed, recipient |-> utxo.recipient]
    BY <1>2, <2>2
  <2>4. u = [status |-> "ACTIVE", released |-> utxo.released + 0, count |-> utxo.count + 0, value |-> tx.keep,
             id |-> utxo.id + 1, resumed |-> utxo.resumed, recipient |-> utxo.recipient]
    BY <1>3, <2>3
  <2> QED
    BY <1>3, <2>1, <2>4, LeavesRecord DEF Statuses
<1>5. ASSUME tx.op = "claim"
      PROVE  Leaves(After(tx), IF Finishes(tx) THEN "COMPLETED" ELSE utxo.status, tx.pay, 1, tx.keep,
                    utxo.resumed, utxo.recipient)
  <2>1. PICK u : u = After(tx)
    OBVIOUS
  <2>2. PICK s : s = IF Finishes(tx) THEN "COMPLETED" ELSE utxo.status
    OBVIOUS
  <2>3. s \in Statuses /\ m.status = utxo.status
    BY <1>2, <1>3, <2>2 DEF Statuses
  <2>4. u = [m EXCEPT !.released = m.released + tx.pay, !.count = m.count + 1, !.status = s]
    BY <1>1, <1>5, <2>1, <2>2, <2>3 DEF After, moved
  <2>5. u = [status |-> s, released |-> utxo.released + tx.pay, count |-> utxo.count + 1, value |-> tx.keep,
             id |-> utxo.id + 1, resumed |-> utxo.resumed, recipient |-> utxo.recipient]
    BY <1>2, <2>4
  <2>6. Leaves(u, s, tx.pay, 1, tx.keep, utxo.resumed, utxo.recipient)
    BY <1>3, <2>3, <2>5, LeavesRecord
  <2> QED
    BY <2>1, <2>2, <2>6
<1>6. ASSUME tx.op = "pause"
      PROVE  Leaves(After(tx), "PAUSED", 0, 0, tx.keep, utxo.resumed, utxo.recipient)
  <2>1. PICK u : u = After(tx)
    OBVIOUS
  <2>2. u = [m EXCEPT !.status = "PAUSED"]
    BY <1>1, <1>6, <2>1 DEF After, moved
  <2>3. u = [status |-> "PAUSED", released |-> utxo.released, count |-> utxo.count, value |-> tx.keep,
             id |-> utxo.id + 1, resumed |-> utxo.resumed, recipient |-> utxo.recipient]
    BY <1>2, <2>2
  <2>4. u = [status |-> "PAUSED", released |-> utxo.released + 0, count |-> utxo.count + 0, value |-> tx.keep,
             id |-> utxo.id + 1, resumed |-> utxo.resumed, recipient |-> utxo.recipient]
    BY <1>3, <2>3
  <2> QED
    BY <1>3, <2>1, <2>4, LeavesRecord DEF Statuses
<1>7. ASSUME tx.op = "cancel"
      PROVE  Leaves(After(tx), "CANCELLED", 0, 0, tx.keep, utxo.resumed, utxo.recipient)
  <2>1. PICK u : u = After(tx)
    OBVIOUS
  <2>2. u = [m EXCEPT !.status = "CANCELLED"]
    BY <1>1, <1>7, <2>1 DEF After, moved
  <2>3. u = [status |-> "CANCELLED", released |-> utxo.released, count |-> utxo.count, value |-> tx.keep,
             id |-> utxo.id + 1, resumed |-> utxo.resumed, recipient |-> utxo.recipient]
    BY <1>2, <2>2
  <2>4. u = [status |-> "CANCELLED", released |-> utxo.released + 0, count |-> utxo.count + 0, value |-> tx.keep,
             id |-> utxo.id + 1, resumed |-> utxo.resumed, recipient |-> utxo.recipient]
    BY <1>3, <2>3
  <2> QED
    BY <1>3, <2>1, <2>4, LeavesRecord DEF Statuses
<1>8. ASSUME tx.op = "transfer", tx.who \in Claimants
      PROVE  Leaves(After(tx), utxo.status, 0, 0, tx.keep, utxo.resumed, tx.who)
  <2>1. PICK u : u = After(tx)
    OBVIOUS
  <2>2. u = [m EXCEPT !.recipient = tx.who]
    BY <1>1, <1>8, <2>1 DEF After, moved
  <2>3. u = [status |-> utxo.status, released |-> utxo.released, count |-> utxo.count, value |-> tx.keep,
             id |-> utxo.id + 1, resumed |-> utxo.resumed, recipient |-> tx.who]
    BY <1>2, <2>2
  <2>4. u = [status |-> utxo.status, released |-> utxo.released + 0, count |-> utxo.count + 0, value |-> tx.keep,
             id |-> utxo.id + 1, resumed |-> utxo.resumed, recipient |-> tx.who]
    BY <1>3, <2>3
  <2> QED
    BY <1>3, <1>8, <2>1, <2>4, LeavesRecord
<1> QED
  BY <1>4, <1>5, <1>6, <1>7, <1>8

\* The network takes tx.
Mined(tx) ==
  /\ utxo' = After(tx)
  /\ IF tx.op = "claim"
     THEN /\ paid' = [paid EXCEPT ![tx.who] = @ + tx.pay]
          /\ payouts' = [payouts EXCEPT ![tx.who] = @ + 1]
     ELSE UNCHANGED <<paid, payouts>>
  /\ refund' = IF tx.op = "cancel" THEN tx.pay ELSE refund
  /\ UNCHANGED terms

\* A transaction of c's that the network may take.
Minable(c, tx) == Shape(c, tx) /\ Accepts(tx) /\ (tx.spends = utxo.id => Fits(tx))

\* The numbers of a transaction.
LEMMA ShapeNumbers ==
  ASSUME Typed, Funds, NEW c, NEW tx, Shape(c, tx)
  PROVE  /\ tx.pay \in Nat /\ tx.keep \in Nat /\ tx.keep <= Pool + Reserve /\ tx.number \in Nat
         /\ tx.spends \in Nat
         /\ tx.op \in {"fund", "claim", "pause", "cancel", "transfer"}
<1>1. /\ tx.pay \in 0 .. Pool + Reserve /\ tx.keep \in 0 .. Pool + Reserve /\ tx.spends \in Nat
      /\ tx.number \in 1 .. Pool + 1 /\ tx.op \in {"fund", "claim", "pause", "cancel", "transfer"}
  BY DEF Shape, Txs
<1> QED
  BY <1>1, Numbers DEF Reserve

\* Funding puts in the pool and the reserve.
LEMMA FundKeepsFunds ==
  ASSUME Typed, Funds, NEW c, NEW tx, Minable(c, tx), Mined(tx), tx.op = "fund"
  PROVE  Funds'
<1>1. /\ utxo'.status = "ACTIVE" /\ utxo'.released = utxo.released /\ utxo'.count = utxo.count
      /\ utxo'.value = Pool + Reserve
  <2>1. Leaves(utxo', "ACTIVE", 0, 0, tx.keep, utxo.resumed, utxo.recipient)
    BY AfterLeaves, ShapeNumbers DEF Minable, Mined, Typed
  <2>2. tx.keep = Pool + Reserve
    BY DEF Minable, Shape
  <2> QED
    BY <2>1, <2>2, Numbers DEF Leaves
<1>2. utxo.status = "UNFUNDED"
  BY DEF Minable, Accepts, claim, pause, cancel, transfer
<1>3. utxo.released = 0 /\ utxo.count = 0 /\ refund = 0 /\ PaidOut = 0
  BY <1>2, Numbers DEF Funds, FundsAddUp
<1>4. terms' = terms /\ refund' = 0 /\ paid' = paid
  BY <1>3 DEF Mined
<1>5. PaidOut' = 0 /\ Pool' = Pool /\ Remaining' = Pool
  BY <1>1, <1>3, <1>4, Numbers DEF PaidOut, Pool, Remaining
<1>6. FundsAddUp'
  BY <1>1, <1>3, <1>4, <1>5, Numbers, CFacts, TFacts DEF FundsAddUp, Reserve
<1>7. AirdropGap'
  BY <1>1, <1>5 DEF AirdropGap, Reserve
<1>8. ReserveIsKept'
  BY <1>1, <1>3, <1>4, <1>5, Numbers DEF ReserveIsKept, PaidFeesLeaveReserve, OwnFeesErodeReserve, Reserve, SelfFee
<1> QED
  BY <1>6, <1>7, <1>8 DEF Funds

\* A payout takes its amount from what remains and its fee from the reserve.
LEMMA ClaimKeepsFunds ==
  ASSUME Typed, Funds, NEW c, NEW tx, Minable(c, tx), Mined(tx), tx.op = "claim"
  PROVE  Funds'
<1>f. tx.spends = utxo.id /\ claim(tx) /\ FeeOf(tx) \in 0 .. FeeCap /\ FitsClaim(tx)
  BY DEF Minable, Accepts, claim, pause, cancel, transfer, Fits, FitsClaim, FitsPause, FitsTransfer, FitsCancel
<1>t. terms.family \in {"airdrop", "reward", "bounty", "grant"}
  BY TFacts DEF Typed
<1>1. /\ utxo'.status = IF Finishes(tx) THEN "COMPLETED" ELSE "ACTIVE"
      /\ utxo'.released = utxo.released + tx.pay /\ utxo'.count = utxo.count + 1
      /\ utxo'.value = utxo.value - tx.pay - PayoutFee /\ utxo'.resumed = utxo.resumed
      /\ utxo'.value \in Nat
  <2>1. Leaves(utxo', IF Finishes(tx) THEN "COMPLETED" ELSE utxo.status, tx.pay, 1, tx.keep, utxo.resumed, utxo.recipient)
    BY AfterLeaves, ShapeNumbers DEF Minable, Mined, Typed
  <2> QED
    BY <1>f, <2>1, ShapeNumbers DEF Leaves, FitsClaim, Minable
<1>2. /\ tx.pay \in Nat /\ tx.pay >= 1 /\ tx.pay <= Remaining
      /\ terms.family # "reward" => tx.pay = Share
      /\ terms.family \in {"bounty", "grant"} => utxo.count < Slots
  <2>1. tx.pay \in Nat /\ tx.pay <= Remaining
    BY <1>f, ShapeNumbers DEF claim, Minable
  <2>2. tx.pay \in IF terms.family = "reward" THEN 1 .. Share ELSE {Share}
    BY <1>f DEF FitsClaim
  <2>3. tx.pay >= 1 /\ (terms.family # "reward" => tx.pay = Share)
    BY <2>1, <2>2, CFacts
  <2> QED
    BY <1>f, <2>1, <2>3 DEF FitsClaim
<1>3. /\ utxo.status = "ACTIVE" /\ refund = 0 /\ PaidOut = utxo.released
      /\ utxo.value + utxo.released <= Pool + Reserve
      /\ terms.family = "bounty" => utxo.released = utxo.count * Share
  BY <1>f DEF FitsClaim, Funds, FundsAddUp
<1>4. terms' = terms /\ refund' = 0 /\ paid' = [paid EXCEPT ![tx.who] = @ + tx.pay] /\ tx.who \in Claimants
  BY <1>3 DEF Mined, Minable, Shape
<1>5. PaidOut' = PaidOut + tx.pay
  <2>1. /\ paid \in [Claimants -> Nat] /\ paid'[tx.who] = paid[tx.who] + tx.pay
        /\ \A w \in Claimants : w # tx.who => paid[w] = paid'[w]
    BY <1>4 DEF Typed
  <2>2. \A w \in Claimants : paid[w] \in Nat /\ paid'[w] \in Nat
    BY <1>2, <2>1
  <2>3. SumFunctionOnSet(paid', Claimants) = SumFunctionOnSet(paid, Claimants) - paid[tx.who] + paid'[tx.who]
    <3>1. PICK g : g = paid'
      OBVIOUS
    <3>2. /\ \A w \in Claimants : paid[w] \in Nat /\ g[w] \in Nat
          /\ \A w \in Claimants : w # tx.who => paid[w] = g[w]
      BY <2>1, <2>2, <3>1
    <3>3. SumFunctionOnSet(g, Claimants) = SumFunctionOnSet(paid, Claimants) - paid[tx.who] + g[tx.who]
      BY <1>4, <3>2, SumUpdate, CFacts
    <3> QED
      BY <3>1, <3>3
  <2>4. PaidOut \in Nat /\ paid[tx.who] \in Nat
    BY <1>3, <1>4, <2>2, Numbers
  <2> QED
    BY <1>2, <2>1, <2>3, <2>4 DEF PaidOut
<1>6. Pool' = Pool /\ Remaining' = Remaining - tx.pay /\ Remaining = Pool - utxo.released
  BY <1>1, <1>2, <1>4, Numbers DEF Pool, Remaining
<1>7. /\ terms.family \in {"airdrop", "grant"} => PayoutFee = 4
      /\ terms.family \in {"reward", "bounty"} => PayoutFee = 0
      /\ PayoutFee \in 0 .. 4
  BY <1>t DEF PayoutFee, SelfFee
<1>8. terms.family = "bounty" => utxo'.released = utxo'.count * Share
  <2>1. (utxo.count + 1) * Share = utxo.count * Share + Share
    BY Numbers, CFacts
  <2> QED
    BY <1>1, <1>2, <1>3, <2>1
<1>9. terms.family \in {"bounty", "grant"} /\ utxo'.count >= Slots => utxo'.status = "COMPLETED"
  BY <1>1 DEF Finishes
<1>10. /\ utxo'.count <= utxo'.released /\ utxo'.released <= Pool
       /\ utxo'.value + utxo'.released <= Pool + Reserve
  BY <1>1, <1>2, <1>3, <1>6, <1>7, Numbers DEF Reserve
<1>11. FundsAddUp'
  BY <1>1, <1>3, <1>4, <1>5, <1>6, <1>8, <1>9, <1>10 DEF FundsAddUp, Reserve
<1>12. AirdropGap'
  <2>1. SUFFICES ASSUME terms.family = "airdrop" PROVE AirdropGap'
    BY <1>4 DEF AirdropGap
  <2>2. \/ utxo.value = Remaining + 5
        \/ utxo.value = Remaining + 5 - 4
        \/ utxo.value < Remaining
    BY <1>3, <2>1 DEF Funds, AirdropGap, Reserve, SelfFee
  <2>3. \/ utxo'.value = Remaining' + 5 - 4
        \/ utxo'.value < Remaining'
    BY <1>1, <1>2, <1>6, <1>7, <2>1, <2>2, Numbers
  <2> QED
    BY <2>3 DEF AirdropGap, Reserve, SelfFee
<1>13. ReserveIsKept'
  <2>1. PaidFeesLeaveReserve'
    <3>1. SUFFICES ASSUME terms.family \in {"reward", "bounty"}, utxo.resumed = 0
                   PROVE  utxo'.value = Remaining' + Reserve
      BY <1>1, <1>4 DEF PaidFeesLeaveReserve, Reserve
    <3>2. utxo.value = Remaining + 5
      BY <1>3, <3>1 DEF Funds, ReserveIsKept, PaidFeesLeaveReserve, Reserve
    <3> QED
      BY <1>1, <1>2, <1>6, <1>7, <3>1, <3>2, Numbers DEF Reserve
  <2>2. OwnFeesErodeReserve'
    <3>1. SUFFICES ASSUME terms.family \in {"airdrop", "grant"}
                   PROVE  utxo'.value <= Remaining' + 5 - 4 * utxo'.count
      BY <1>4 DEF OwnFeesErodeReserve, Reserve, SelfFee
    <3>2. utxo.value <= Remaining + 5 - 4 * utxo.count
      BY <1>3, <3>1 DEF Funds, ReserveIsKept, OwnFeesErodeReserve, Reserve, SelfFee
    <3> QED
      BY <1>1, <1>2, <1>6, <1>7, <3>1, <3>2, Numbers
  <2> QED
    BY <2>1, <2>2 DEF ReserveIsKept
<1> QED
  BY <1>11, <1>12, <1>13 DEF Funds

\* A cancellation refunds what remains, once.
LEMMA CancelKeepsFunds ==
  ASSUME Typed, Funds, NEW c, NEW tx, Minable(c, tx), Mined(tx), tx.op = "cancel"
  PROVE  Funds'
<1>1. /\ utxo'.status = "CANCELLED" /\ utxo'.released = utxo.released /\ utxo'.count = utxo.count
      /\ utxo'.value = 0
  <2>1. Leaves(utxo', "CANCELLED", 0, 0, tx.keep, utxo.resumed, utxo.recipient)
    BY AfterLeaves, ShapeNumbers DEF Minable, Mined, Typed
  <2>2. tx.keep = 0
    BY DEF Minable, Shape
  <2> QED
    BY <2>1, <2>2, Numbers DEF Leaves
<1>2. utxo.status \in {"ACTIVE", "PAUSED"}
  BY DEF Minable, Accepts, claim, pause, cancel, transfer
<1>4. terms' = terms /\ paid' = paid
  BY DEF Mined
<1>5. PaidOut' = PaidOut /\ Pool' = Pool
  BY <1>4 DEF PaidOut, Pool
<1>6. FundsAddUp'
  <2>1. /\ PaidOut = utxo.released /\ utxo.value + utxo.released <= Pool + Reserve
        /\ terms.family = "bounty" => utxo.released = utxo.count * Share
        /\ ~(terms.family \in {"bounty", "grant"} /\ utxo.count >= Slots)
    BY <1>2 DEF Funds, FundsAddUp
  <2>2. 0 + utxo.released <= Pool + Reserve
    BY <2>1, Numbers DEF Reserve
  <2> QED
    BY <1>1, <1>4, <1>5, <2>1, <2>2, Numbers DEF FundsAddUp, Reserve
<1>7. AirdropGap'
  BY <1>1 DEF AirdropGap
<1>8. ReserveIsKept'
  BY <1>1 DEF ReserveIsKept, PaidFeesLeaveReserve, OwnFeesErodeReserve
<1> QED
  BY <1>6, <1>7, <1>8 DEF Funds

\* A step that pays nobody and leaves the count.
LEMMA FeeKeepsFunds ==
  ASSUME Typed, Funds, terms' = terms, paid' = paid, refund' = refund,
         NEW fee \in Nat, fee <= FeeCap, NEW status \in {"ACTIVE", "PAUSED"},
         NEW resumed \in Nat, NEW recipient,
         Leaves(utxo', status, 0, 0, utxo.value - fee, resumed, recipient),
         fee <= utxo.value,
         utxo.status \in {"ACTIVE", "PAUSED"},
         terms.family = "airdrop" => \/ status = "PAUSED" /\ fee = SelfFee
                                     \/ utxo.status = "PAUSED" /\ fee \in {0, FeeCap},
         terms.family = "reward" /\ resumed = 0 => fee = 0 /\ utxo.resumed = 0,
         terms.family = "bounty" /\ resumed = 0 => status = "PAUSED"
  PROVE  Funds'
<1>1. /\ utxo'.status = status /\ utxo'.released = utxo.released /\ utxo'.count = utxo.count
      /\ utxo'.value = utxo.value - fee /\ utxo'.resumed = resumed
  BY Numbers DEF Leaves
<1>2. PaidOut' = PaidOut /\ Pool' = Pool /\ Remaining' = Remaining
  BY <1>1 DEF PaidOut, Pool, Remaining
<1>3. /\ PaidOut = utxo.released /\ utxo.value + utxo.released <= Pool + Reserve /\ refund = 0
      /\ terms.family = "bounty" => utxo.released = utxo.count * Share
      /\ ~(terms.family \in {"bounty", "grant"} /\ utxo.count >= Slots)
  BY DEF Funds, FundsAddUp
<1>4. utxo'.value + utxo'.released <= Pool + Reserve
  BY <1>1, <1>3, Numbers DEF Reserve
<1>5. FundsAddUp'
  BY <1>1, <1>2, <1>3, <1>4, Numbers DEF FundsAddUp, Reserve
<1>6. AirdropGap'
  <2>1. SUFFICES ASSUME terms.family = "airdrop" PROVE AirdropGap'
    BY DEF AirdropGap
  <2>2. \/ utxo.value = Remaining + 5 /\ utxo.status # "PAUSED"
        \/ utxo.value = Remaining + 5 - 4
        \/ utxo.value < Remaining
    BY <2>1 DEF Funds, AirdropGap, Reserve, SelfFee
  <2>3. \/ utxo'.value = Remaining' + 5 - 4
        \/ utxo'.value < Remaining'
    BY <1>1, <1>2, <2>1, <2>2, Numbers DEF SelfFee, FeeCap
  <2> QED
    BY <2>3 DEF AirdropGap, Reserve, SelfFee
<1>7. PaidFeesLeaveReserve'
  <2>1. CASE terms.family = "reward" /\ resumed = 0
    BY <1>1, <1>2, <2>1, Numbers DEF Funds, ReserveIsKept, PaidFeesLeaveReserve, Reserve
  <2>2. CASE ~(terms.family = "reward" /\ resumed = 0)
    BY <1>1, <2>2 DEF PaidFeesLeaveReserve
  <2> QED
    BY <2>1, <2>2
<1>8. OwnFeesErodeReserve'
  <2>1. SUFFICES ASSUME terms.family \in {"airdrop", "grant"}
                 PROVE  utxo'.value <= Remaining' + 5 - 4 * utxo'.count
    BY DEF OwnFeesErodeReserve, Reserve, SelfFee
  <2>2. utxo.value <= Remaining + 5 - 4 * utxo.count
    BY <2>1 DEF Funds, ReserveIsKept, OwnFeesErodeReserve, Reserve, SelfFee
  <2> QED
    BY <1>1, <1>2, <2>2, Numbers
<1> QED
  BY <1>5, <1>6, <1>7, <1>8 DEF Funds, ReserveIsKept

\* A pause takes a fee at most.
LEMMA PauseKeepsFunds ==
  ASSUME Typed, Funds, NEW c, NEW tx, Minable(c, tx), Mined(tx), tx.op = "pause"
  PROVE  Funds'
<1>1. FitsPause(tx)
  BY DEF Minable, Accepts, claim, pause, cancel, transfer, Fits, FitsClaim, FitsPause, FitsTransfer, FitsCancel
<1>2. tx.keep = utxo.value - PauseFee /\ utxo.status = "ACTIVE" /\ tx.keep \in Nat
  BY <1>1, ShapeNumbers DEF FitsPause, Minable
<1>3. Leaves(utxo', "PAUSED", 0, 0, utxo.value - PauseFee, utxo.resumed, utxo.recipient)
  BY <1>2, AfterLeaves, ShapeNumbers DEF Minable, Mined, Typed
<1>4. terms' = terms /\ paid' = paid /\ refund' = refund
  BY DEF Mined
<1>5. PauseFee \in Nat /\ PauseFee <= FeeCap /\ PauseFee <= utxo.value
  BY <1>2, Numbers DEF PauseFee, SelfFee, FeeCap
<1>6. utxo.resumed \in Nat
  BY DEF Typed, Utxo
<1>7. /\ terms.family = "airdrop" => PauseFee = SelfFee
      /\ terms.family = "reward" => PauseFee = 0
  BY DEF PauseFee
<1> QED
  BY <1>2, <1>3, <1>4, <1>5, <1>6, <1>7, FeeKeepsFunds

\* A transfer takes nothing.
LEMMA TransferKeepsFunds ==
  ASSUME Typed, Funds, NEW c, NEW tx, Minable(c, tx), Mined(tx), tx.op = "transfer"
  PROVE  Funds'
<1>1. FitsTransfer(tx)
  BY DEF Minable, Accepts, claim, pause, cancel, transfer, Fits, FitsClaim, FitsPause, FitsTransfer, FitsCancel
<1>2. tx.keep = utxo.value - 0 /\ utxo.status = "ACTIVE"
  BY <1>1, Numbers DEF FitsTransfer
<1>3. terms.family = "grant" /\ tx.who \in Claimants
  BY DEF Minable, Shape
<1>4. Leaves(utxo', "ACTIVE", 0, 0, utxo.value - 0, utxo.resumed, tx.who)
  BY <1>2, <1>3, AfterLeaves, ShapeNumbers DEF Minable, Mined, Typed
<1>5. terms' = terms /\ paid' = paid /\ refund' = refund
  BY DEF Mined
<1>6. utxo.resumed \in Nat /\ 0 <= FeeCap /\ 0 <= utxo.value
  BY Numbers DEF Typed, Utxo, FeeCap
<1> QED
  BY <1>2, <1>3, <1>4, <1>5, <1>6, FeeKeepsFunds

\* resume, by the authority.
Resumes(fee) ==
  /\ utxo.status = "PAUSED" /\ fee \in {0, FeeCap} /\ fee <= utxo.value
  /\ Leaves(utxo', "ACTIVE", 0, 0, utxo.value - fee, utxo.resumed + 1, utxo.recipient)
  /\ UNCHANGED <<client, terms, paid, payouts, refund, db, history>>

\* The authority's transaction, with the fee it chose.
LEMMA ResumeStep ==
  ASSUME Typed, Funds, resumeOnChain
  PROVE  \E fee : Resumes(fee)
<1>1. PICK fee \in {0, FeeCap} :
        /\ fee <= utxo.value
        /\ utxo' = [utxo EXCEPT !.status = "ACTIVE", !.id = @ + 1, !.value = @ - fee, !.resumed = @ + 1]
  BY DEF resumeOnChain, resume
<1>2. PICK u : u = utxo'
  OBVIOUS
<1>3. u = [utxo EXCEPT !.status = "ACTIVE", !.id = utxo.id + 1, !.value = utxo.value - fee, !.resumed = utxo.resumed + 1]
  BY <1>1, <1>2
<1>4. u = [status |-> "ACTIVE", released |-> utxo.released, count |-> utxo.count, value |-> utxo.value - fee,
           id |-> utxo.id + 1, resumed |-> utxo.resumed + 1, recipient |-> utxo.recipient]
  BY <1>3 DEF Typed, Utxo
<1>5. utxo.released + 0 = utxo.released /\ utxo.count + 0 = utxo.count
  BY Numbers
<1>6. u = [status |-> "ACTIVE", released |-> utxo.released + 0, count |-> utxo.count + 0, value |-> utxo.value - fee,
           id |-> utxo.id + 1, resumed |-> utxo.resumed + 1, recipient |-> utxo.recipient]
  BY <1>4, <1>5
<1>7. utxo.value - fee \in Nat /\ utxo.resumed + 1 \in Nat /\ utxo.recipient \in Claimants \cup {Nobody}
  BY <1>1, Numbers DEF Typed, Utxo, FeeCap
<1>8. Leaves(u, "ACTIVE", 0, 0, utxo.value - fee, utxo.resumed + 1, utxo.recipient)
  BY <1>6, <1>7, LeavesRecord DEF Typed, Statuses
<1> QED
  BY <1>1, <1>2, <1>8 DEF Resumes, resumeOnChain, resume

\* It takes that fee.
LEMMA ResumeKeepsFunds ==
  ASSUME Typed, Funds, NEW fee, Resumes(fee)
  PROVE  Funds'
<1>1. fee \in Nat /\ fee <= FeeCap
  BY DEF Resumes, FeeCap
<1>2. utxo.resumed + 1 \in Nat /\ utxo.resumed + 1 # 0
  BY DEF Typed, Utxo
<1> QED
  BY <1>1, <1>2, FeeKeepsFunds DEF Resumes

\* Every mined transaction keeps the funds.
LEMMA MinedKeepsFunds ==
  ASSUME Typed, Funds, NEW c, NEW tx, Minable(c, tx), Mined(tx)
  PROVE  Funds'
<1>1. tx.op \in {"fund", "claim", "pause", "cancel", "transfer"}
  BY ShapeNumbers DEF Minable
<1> QED
  BY <1>1, FundKeepsFunds, ClaimKeepsFunds, PauseKeepsFunds, CancelKeepsFunds, TransferKeepsFunds

-----------------------------------------------------------------------------
(* The steps of the system, by what they do to one client *)

\* An operation ends, between statements only when a restart interrupted it.
DropStep(c) ==
  /\ Becomes(c, "idle", NoTx, <<>>, 0)
  /\ UNCHANGED <<terms, chain, db>>
  /\ retried => retried'
  /\ interrupted => interrupted'
  /\ interrupted' \/ (Has(c, "count") <=> Has(c, "insert"))

MineStep(c) ==
  /\ client[c].at = "signing"
  /\ Minable(c, client[c].tx) /\ Mined(client[c].tx)
  /\ \/ Becomes(c, "waiting", client[c].tx, client[c].todo, client[c].tries)
     \/ Becomes(c, "idle", NoTx, <<>>, 0)
  /\ UNCHANGED <<terms, db, history>>

ConfirmStep(c) ==
  /\ client[c].at = "waiting"
  /\ Becomes(c, "running", client[c].tx, Statements(client[c].tx), client[c].tries)
  /\ retried' = (retried \/ client[c].tries > 0)
  /\ UNCHANGED <<terms, chain, db, interrupted>>

RetryStep(c) ==
  /\ client[c].at = "running"
  /\ Becomes(c, "waiting", client[c].tx, <<>>, client[c].tries + 1)
  /\ interrupted' = (interrupted \/ client[c].todo # <<>>)
  /\ UNCHANGED <<terms, chain, db, retried>>

RowBecomes(status, n, recipient) ==
  /\ row' \in Row
  /\ row'.status = status /\ row'.count = n /\ row'.recipient = recipient

\* What statement s of c's transaction changes.
Effect(c, s) ==
  LET tx == client[c].tx
  IN  \/ /\ s = "insert" /\ terms.family # "grant" /\ ~Duplicate(tx)
         /\ claims' = [claims EXCEPT ![tx.who] = @ + 1]
         /\ UNCHANGED <<row, milestones>>
      \/ /\ s = "insert" /\ terms.family = "grant"
         /\ milestones' = milestones \cup {tx.number}
         /\ UNCHANGED <<row, claims>>
      \/ /\ s = "count"
         /\ RowBecomes(row.status, row.count + 1, row.recipient)
         /\ UNCHANGED <<claims, milestones>>
      \/ /\ s = "close"
         /\ RowBecomes(IF row.count >= Slots THEN "COMPLETED" ELSE row.status, row.count, row.recipient)
         /\ UNCHANGED <<claims, milestones>>
      \/ /\ \/ s = "active" /\ RowBecomes("ACTIVE", row.count, row.recipient)
            \/ s = "paused" /\ RowBecomes("PAUSED", row.count, row.recipient)
            \/ s = "cancelled" /\ RowBecomes("CANCELLED", row.count, row.recipient)
            \/ s = "recipient" /\ RowBecomes(row.status, row.count, tx.who)
         /\ UNCHANGED <<claims, milestones>>

WriteStep(c, s) ==
  /\ client[c].at = "running" /\ client[c].todo # <<>> /\ Head(client[c].todo) = s
  /\ Becomes(c, "running", client[c].tx, Tail(client[c].todo), client[c].tries)
  /\ Effect(c, s)
  /\ UNCHANGED <<terms, chain, history>>

Step(c) == \/ SignStep(c) \/ DropStep(c) \/ MineStep(c) \/ ConfirmStep(c) \/ RetryStep(c)
           \/ \E s : WriteStep(c, s)

\* An unfinished confirmation has statements of its transaction before it.
LEMMA RunningFacts ==
  ASSUME Typed, Funds, ClientsOk, NEW c \in Clients, client[c].at = "running"
  PROVE  /\ Shape(c, client[c].tx) /\ Happened(client[c].tx)
         /\ client[c].todo \in Remainders(client[c].tx) /\ client[c].todo \in Todos
BY ClientFields DEF ClientsOk, ClientOk, Typed

\* Only a payout has statements on counters and records.
LEMMA PayoutStatements ==
  ASSUME Typed, Funds, ClientsOk, NEW c \in Clients, client[c].at = "running",
         NEW s \in {"insert", "count", "close"}, s \in Range(client[c].todo)
  PROVE  client[c].tx.op = "claim"
<1>1. Shape(c, client[c].tx) /\ client[c].todo \in Remainders(client[c].tx)
  BY RunningFacts
<1>2. SUFFICES ASSUME client[c].tx.op # "claim" PROVE FALSE
  OBVIOUS
<1>3. client[c].todo \in {Statements(client[c].tx), <<>>}
  BY <1>1, <1>2 DEF Remainders
<1>4. Statements(client[c].tx) \in {<<"active">>, <<"paused">>, <<"cancelled">>, <<"recipient">>}
  <2>0. terms.family \in {"airdrop", "reward", "bounty", "grant"}
    BY TFacts DEF Typed
  <2>1. /\ client[c].tx.op \in {"fund", "pause", "cancel", "transfer"}
        /\ client[c].tx.op = "transfer" => terms.family = "grant"
    BY <1>1, <1>2 DEF Shape, Txs
  <2> QED
    BY <2>0, <2>1 DEF Statements, AirdropHandlers, RewardHandlers, BountyHandlers, GrantHandlers,
         airdrop_confirm_funding, reward_confirm_funding, bounty_confirm_funding, grant_confirm_funding,
         airdrop_confirm_pause, reward_confirm_pause, bounty_confirm_pause, grant_confirm_pause,
         airdrop_confirm_cancel, reward_confirm_cancel, bounty_confirm_cancel, grant_confirm_cancel,
         grant_confirm_transfer
<1> QED
  BY <1>3, <1>4, RangeFacts

\* The statements that only set a field of the row.
LEMMA PlainStatements ==
  ASSUME NEW c, NEW tx, terms \in Created, Shape(c, tx), tx.op # "claim"
  PROVE  Statements(tx) \in {<<"active">>, <<"paused">>, <<"cancelled">>, <<"recipient">>}
<1>1. terms.family \in {"airdrop", "reward", "bounty", "grant"}
  BY TFacts
<1>2. /\ tx.op \in {"fund", "pause", "cancel", "transfer"}
      /\ tx.op = "transfer" => terms.family = "grant"
  BY DEF Shape, Txs
<1> QED
  BY <1>1, <1>2 DEF Statements, AirdropHandlers, RewardHandlers, BountyHandlers, GrantHandlers,
       airdrop_confirm_funding, reward_confirm_funding, bounty_confirm_funding, grant_confirm_funding,
       airdrop_confirm_pause, reward_confirm_pause, bounty_confirm_pause, grant_confirm_pause,
       airdrop_confirm_cancel, reward_confirm_cancel, bounty_confirm_cancel, grant_confirm_cancel,
       grant_confirm_transfer

\* <<"insert", "close">> is none of the other lists.
LEMMA OtherLengths ==
  /\ <<"insert", "close">> # <<>>
  /\ \A a : <<"insert", "close">> # <<a>>
  /\ <<"insert", "close">> # <<"insert", "count">> /\ <<"insert", "close">> # <<"count", "close">>
  /\ \A a, b, d : <<"insert", "close">> # <<a, b, d>>
OBVIOUS

\* Only grants count before they record.
LEMMA NoInsertClose ==
  ASSUME NEW c, NEW tx, terms \in Created, Shape(c, tx), terms.family # "grant"
  PROVE  <<"insert", "close">> \notin Remainders(tx)
<1>0. terms.family \in {"airdrop", "reward", "bounty"}
  BY TFacts
<1>1. CASE tx.op = "claim" /\ terms.family \in {"airdrop", "reward"}
  BY <1>1, OtherLengths DEF Remainders
<1>2. CASE tx.op = "claim" /\ terms.family = "bounty"
  BY <1>2, OtherLengths DEF Remainders
<1>3. CASE tx.op # "claim"
  <2>1. Statements(tx) \in {<<"active">>, <<"paused">>, <<"cancelled">>, <<"recipient">>}
    BY <1>3, PlainStatements
  <2> QED
    BY <1>3, <2>1, OtherLengths DEF Remainders
<1> QED
  BY <1>0, <1>1, <1>2, <1>3

\* A statement executed is one less to execute.
LEMMA RangeTail ==
  ASSUME NEW todo \in Todos, todo # <<>>
  PROVE  Range(Tail(todo)) \subseteq Range(todo)
<1>t. /\ \A a : Tail(<<a>>) = <<>>
      /\ \A a, b : Tail(<<a, b>>) = <<b>>
      /\ \A a, b, d : Tail(<<a, b, d>>) = <<b, d>>
  OBVIOUS
<1>1. ASSUME NEW a, todo = <<a>> PROVE Range(Tail(todo)) \subseteq Range(todo)
  <2>1. Tail(todo) = <<>>
    BY <1>t, <1>1
  <2> QED
    BY <1>1, <2>1, RangeOf
<1>2. ASSUME NEW a, NEW b, todo = <<a, b>> PROVE Range(Tail(todo)) \subseteq Range(todo)
  <2>1. Tail(todo) = <<b>>
    BY <1>t, <1>2
  <2>2. Range(Tail(todo)) = {b} /\ Range(todo) = {a, b}
    BY <1>2, <2>1, RangeOf
  <2> QED
    BY <2>2
<1>3. ASSUME NEW a, NEW b, NEW d, todo = <<a, b, d>> PROVE Range(Tail(todo)) \subseteq Range(todo)
  <2>1. Tail(todo) = <<b, d>>
    BY <1>t, <1>3
  <2>2. Range(Tail(todo)) = {b, d} /\ Range(todo) = {a, b, d}
    BY <1>3, <2>1, RangeOf
  <2> QED
    BY <2>2
<1>4. \/ todo \in {<<"active">>, <<"paused">>, <<"cancelled">>, <<"recipient">>, <<"count">>, <<"close">>}
      \/ todo \in {<<"insert", "count">>, <<"count", "close">>, <<"insert", "close">>}
      \/ todo \in {<<"insert", "count", "close">>, <<"count", "insert", "close">>}
  BY DEF Todos
<1> QED
  BY <1>1, <1>2, <1>3, <1>4

\* Outside payouts, a statement tells the operation it confirms.
LEMMA OtherStatements ==
  ASSUME NEW c, NEW tx, terms \in Created, Shape(c, tx)
  PROVE  /\ <<"active">> \in Remainders(tx) => tx.op = "fund"
         /\ <<"paused">> \in Remainders(tx) => tx.op = "pause"
         /\ <<"cancelled">> \in Remainders(tx) => tx.op = "cancel"
         /\ <<"recipient">> \in Remainders(tx) => tx.op = "transfer"
<1>0. terms.family \in {"airdrop", "reward", "bounty", "grant"}
  BY TFacts
<1>1. /\ tx.op \in {"fund", "claim", "pause", "cancel", "transfer"}
      /\ tx.op = "transfer" => terms.family = "grant"
  BY DEF Shape, Txs
<1>2. CASE tx.op = "claim"
  <2>1. Remainders(tx) \subseteq {<<"insert", "count">>, <<"count">>, <<>>,
               <<"insert", "count", "close">>, <<"count", "close">>, <<"close">>,
               <<"count", "insert", "close">>, <<"insert", "close">>}
    BY <1>0, <1>2 DEF Remainders
  <2>2. \A todo \in Remainders(tx) :
           Range(todo) \cap {"active", "paused", "cancelled", "recipient"} = {}
    BY <2>1, RangeFacts
  <2> QED
    BY <2>2, RangeFacts
<1>3. CASE tx.op # "claim"
  <2>1. /\ tx.op = "fund" => Statements(tx) = <<"active">>
        /\ tx.op = "pause" => Statements(tx) = <<"paused">>
        /\ tx.op = "cancel" => Statements(tx) = <<"cancelled">>
        /\ tx.op = "transfer" => Statements(tx) = <<"recipient">>
    BY <1>0, <1>1 DEF Statements, AirdropHandlers, RewardHandlers, BountyHandlers, GrantHandlers,
         airdrop_confirm_funding, reward_confirm_funding, bounty_confirm_funding, grant_confirm_funding,
         airdrop_confirm_pause, reward_confirm_pause, bounty_confirm_pause, grant_confirm_pause,
         airdrop_confirm_cancel, reward_confirm_cancel, bounty_confirm_cancel, grant_confirm_cancel,
         grant_confirm_transfer
  <2>2. Remainders(tx) = {Statements(tx), <<>>}
    BY <1>3 DEF Remainders
  <2> QED
    BY <1>1, <1>3, <2>1, <2>2
<1> QED
  BY <1>2, <1>3

\* A page that offers something has a good transaction signed.
LEMMA SignSteps ==
  ASSUME Typed, Funds, AirdropDetailPage \/ RewardDetailPage \/ BountyDetailPage \/ GrantDetailPage
  PROVE  \E c \in Clients : Step(c)
BY AirdropOffers, RewardOffers, BountyOffers, GrantOffers, CFacts DEF Step

\* Declining drops an operation that wrote nothing.
LEMMA DeclineStep ==
  ASSUME Typed, Funds, ClientsOk, NEW c \in Clients, Decline(c)
  PROVE  Step(c)
<1>1. Becomes(c, "idle", NoTx, <<>>, 0)
  BY IdleUpdate DEF Decline, Refuse, Typed
<1>2. client[c].todo = <<>>
  BY DEF ClientsOk, ClientOk, Decline, Refuse, At
<1>3. ~Has(c, "count") /\ ~Has(c, "insert")
  BY <1>2, RangeFacts DEF Has
<1> QED
  BY <1>1, <1>3 DEF Step, DropStep, Decline, history

\* A broadcast mines a transaction, or drops it when the network rejects it.
LEMMA BroadcastStep ==
  ASSUME Typed, Funds, ClientsOk, NEW c \in Clients, broadcast(c)
  PROVE  Step(c)
<1>1. /\ client[c].at = "signing" /\ Shape(c, client[c].tx) /\ client[c].todo = <<>>
      /\ client[c].tx.spends = utxo.id => Fits(client[c].tx)
  BY DEF ClientsOk, ClientOk, broadcast, At
<1>2. CASE Accepts(client[c].tx)
  <2>1. Minable(c, client[c].tx)
    BY <1>1, <1>2 DEF Minable
  <2>2. Mined(client[c].tx) /\ UNCHANGED <<terms, db, history>>
    BY <1>2 DEF broadcast, Mined
  <2>3. client' = [client EXCEPT ![c].at = "waiting"] \/ client' = [client EXCEPT ![c] = Idle]
    BY <1>2 DEF broadcast, Broadcast
  <2>4. \/ Becomes(c, "waiting", client[c].tx, client[c].todo, client[c].tries)
        \/ Becomes(c, "idle", NoTx, <<>>, 0)
    BY <2>3, WaitUpdate, IdleUpdate DEF Typed
  <2> QED
    BY <1>1, <2>1, <2>2, <2>4 DEF Step, MineStep
<1>3. CASE ~Accepts(client[c].tx)
  <2>1. Becomes(c, "idle", NoTx, <<>>, 0)
    BY <1>3, IdleUpdate DEF broadcast, Rejected, Typed
  <2>2. ~Has(c, "count") /\ ~Has(c, "insert")
    BY <1>1, RangeFacts DEF Has
  <2> QED
    BY <1>3, <2>1, <2>2 DEF Step, DropStep, broadcast, history
<1> QED
  BY <1>2, <1>3

\* A confirmation starts, or is refused before it wrote anything.
LEMMA ConfirmationStep ==
  ASSUME Typed, Funds, ClientsOk, NEW c \in Clients, confirm(c)
  PROVE  Step(c)
<1>1. client[c].at = "waiting" /\ Shape(c, client[c].tx) /\ client[c].todo = <<>>
  BY DEF ClientsOk, ClientOk, confirm, At
<1>2. CASE Verified(c)
  <2>1. Statements(client[c].tx) \in Todos
    BY <1>1, StatementsFit DEF Typed
  <2>2. Becomes(c, "running", client[c].tx, Statements(client[c].tx), client[c].tries)
    BY <1>2, <2>1, RunUpdate DEF confirm, Typed
  <2> QED
    BY <1>1, <2>2 DEF Step, ConfirmStep, confirm
<1>3. CASE ~Verified(c)
  <2>1. Becomes(c, "idle", NoTx, <<>>, 0)
    BY <1>3, IdleUpdate DEF confirm, Refused, Typed
  <2>2. ~Has(c, "count") /\ ~Has(c, "insert")
    BY <1>1, RangeFacts DEF Has
  <2>3. retried => retried'
    BY DEF confirm
  <2> QED
    BY <2>1, <2>2, <2>3 DEF Step, DropStep, confirm
<1> QED
  BY <1>2, <1>3

\* An answered confirmation has written everything.
LEMMA AnswerStep ==
  ASSUME Typed, Funds, ClientsOk, NEW c \in Clients, answer(c)
  PROVE  Step(c)
<1>1. Becomes(c, "idle", NoTx, <<>>, 0) /\ client[c].todo = <<>>
  BY IdleUpdate DEF answer, Answer, Typed
<1>2. ~Has(c, "count") /\ ~Has(c, "insert")
  BY <1>1, RangeFacts DEF Has
<1> QED
  BY <1>1, <1>2 DEF Step, DropStep, answer, history

\* A lost one is posted again or given up, and counts as interrupted when it had more to write.
LEMMA LossStep ==
  ASSUME Typed, Funds, ClientsOk, NEW c \in Clients, lose(c)
  PROVE  Step(c)
<1>1. client[c].at = "running"
  BY DEF lose, Lose, At
<1>2. interrupted' = (interrupted \/ client[c].todo # <<>>) /\ UNCHANGED <<terms, chain, db, retried>>
  BY DEF lose
<1>3. CASE Becomes(c, "waiting", client[c].tx, <<>>, client[c].tries + 1)
  BY <1>1, <1>2, <1>3 DEF Step, RetryStep
<1>4. CASE Becomes(c, "idle", NoTx, <<>>, 0)
  <2>1. interrupted' \/ (Has(c, "count") <=> Has(c, "insert"))
    BY <1>2, RangeFacts DEF Has
  <2> QED
    BY <1>2, <1>4, <2>1 DEF Step, DropStep
<1> QED
  BY <1>3, <1>4, LoseUpdate DEF lose, Typed

\* The row that a statement leaves.
LEMMA RowRecord ==
  ASSUME NEW status \in RowStatuses, NEW n \in Nat, NEW total \in Nat, NEW recipient \in Claimants \cup {Nobody},
         row' = [status |-> status, count |-> n, total |-> total, recipient |-> recipient]
  PROVE  RowBecomes(status, n, recipient)
BY DEF RowBecomes, Row

\* The rows the statements leave.
LEMMA RowUpdates ==
  ASSUME row \in Row
  PROVE  /\ row.status \in RowStatuses /\ row.count \in Nat /\ row.total \in Nat
         /\ row.recipient \in Claimants \cup {Nobody}
         /\ \A s \in RowStatuses : row' = [row EXCEPT !.status = s] => RowBecomes(s, row.count, row.recipient)
         /\ \A w \in Claimants : row' = [row EXCEPT !.recipient = w] => RowBecomes(row.status, row.count, w)
         /\ \A pay \in Nat : row' = [row EXCEPT !.count = @ + 1, !.total = @ + pay] =>
              RowBecomes(row.status, row.count + 1, row.recipient)
<1>1. /\ row.status \in RowStatuses /\ row.count \in Nat /\ row.total \in Nat
      /\ row.recipient \in Claimants \cup {Nobody}
  BY DEF Row
<1>2. ASSUME NEW s \in RowStatuses, row' = [row EXCEPT !.status = s]
      PROVE  RowBecomes(s, row.count, row.recipient)
  <2>1. row' = [status |-> s, count |-> row.count, total |-> row.total, recipient |-> row.recipient]
    BY <1>2 DEF Row
  <2> QED
    BY <1>1, <2>1, RowRecord
<1>3. ASSUME NEW w \in Claimants, row' = [row EXCEPT !.recipient = w]
      PROVE  RowBecomes(row.status, row.count, w)
  <2>1. row' = [status |-> row.status, count |-> row.count, total |-> row.total, recipient |-> w]
    BY <1>3 DEF Row
  <2> QED
    BY <1>1, <2>1, RowRecord
<1>4. ASSUME NEW pay \in Nat, row' = [row EXCEPT !.count = @ + 1, !.total = @ + pay]
      PROVE  RowBecomes(row.status, row.count + 1, row.recipient)
  <2>1. row' = [status |-> row.status, count |-> row.count + 1, total |-> row.total + pay, recipient |-> row.recipient]
    BY <1>4 DEF Row
  <2>2. row.count + 1 \in Nat /\ row.total + pay \in Nat
    BY <1>1
  <2> QED
    BY <1>1, <2>1, <2>2, RowRecord
<1> QED
  BY <1>1, <1>2, <1>3, <1>4

\* Each statement writes what Effect says, except a second claim of an airdrop, which is refused.
LEMMA StatementStep ==
  ASSUME Typed, Funds, ClientsOk, NEW c \in Clients, statement(c)
  PROVE  Step(c)
<1> DEFINE todo == client[c].todo
           tx == client[c].tx
<1>u. UNCHANGED <<terms, chain, history>>
  BY DEF statement
<1>1. PICK s : /\ s \in {"insert", "count", "close", "active", "paused", "cancelled", "recipient"}
               /\ Due(c, s)
               /\ s = "insert" => insert(c)
               /\ s = "count" => count(c)
               /\ s = "close" => close(c)
               /\ s \in {"active", "paused", "cancelled", "recipient"} => write(c)
  BY DEF statement, insert, count, close, write, SetRow
<1>2. client[c].at = "running" /\ todo # <<>> /\ Head(todo) = s
  BY <1>1 DEF Due, At
<1>3. Shape(c, tx) /\ todo \in Remainders(tx) /\ todo \in Todos
  BY <1>2, RunningFacts
<1>4. Tail(todo) \in Todos
  BY <1>2, <1>3, TodoFacts
<1>5. Written(c) => Becomes(c, "running", tx, Tail(todo), client[c].tries)
  BY <1>2, <1>4, WrittenUpdate DEF Typed
<1>6. row \in Row /\ tx.pay \in Nat
  BY <1>3, ShapeNumbers DEF Typed
<1>7. ASSUME s = "insert" PROVE Step(c)
  <2>1. CASE terms.family # "grant" /\ Duplicate(tx)
    <3>1. UNCHANGED <<row, claims, milestones>> /\ Refused(c)
      BY <1>1, <1>7, <2>1 DEF insert
    <3>2. Becomes(c, "idle", NoTx, <<>>, 0)
      BY <3>1, IdleUpdate DEF Refused, Typed
    <3>3. terms.family = "airdrop"
      BY <2>1 DEF Duplicate
    <3>4. s \in Range(todo)
      BY <1>2, <1>3, <1>7, TodoFacts, RangeFacts
    <3>5. tx.op = "claim"
      BY <1>2, <1>7, <3>4, PayoutStatements
    <3>6. todo = <<"insert", "count">>
      BY <1>2, <1>3, <1>7, <3>3, <3>5, TodoFacts DEF Remainders
    <3>7. Has(c, "count") /\ Has(c, "insert")
      BY <3>6, RangeFacts DEF Has
    <3> QED
      BY <1>u, <3>1, <3>2, <3>7 DEF Step, DropStep, db, history
  <2>2. CASE terms.family # "grant" /\ ~Duplicate(tx)
    BY <1>1, <1>2, <1>5, <1>7, <1>u, <2>2 DEF insert, Step, WriteStep, Effect
  <2>3. CASE terms.family = "grant"
    BY <1>1, <1>2, <1>5, <1>7, <1>u, <2>3 DEF insert, Step, WriteStep, Effect
  <2> QED
    BY <2>1, <2>2, <2>3
<1>8. ASSUME s = "count" PROVE Step(c)
  <2>1. RowBecomes(row.status, row.count + 1, row.recipient)
    BY <1>1, <1>6, <1>8, RowUpdates DEF count, SetRow
  <2> QED
    BY <1>1, <1>2, <1>5, <1>8, <1>u, <2>1 DEF count, SetRow, Step, WriteStep, Effect
<1>9. ASSUME s = "close" PROVE Step(c)
  <2>1. PICK t : t = IF row.count >= Slots THEN "COMPLETED" ELSE row.status
    OBVIOUS
  <2>2. t \in RowStatuses
    BY <1>6, <2>1, RowUpdates DEF RowStatuses
  <2>3. row' = [row EXCEPT !.status = t]
    BY <1>1, <1>9, <2>1 DEF close, SetRow
  <2>4. RowBecomes(t, row.count, row.recipient)
    BY <1>6, <2>2, <2>3, RowUpdates
  <2> QED
    BY <1>1, <1>2, <1>5, <1>9, <1>u, <2>1, <2>4 DEF close, SetRow, Step, WriteStep, Effect
<1>10. ASSUME s \in {"active", "paused", "cancelled"} PROVE Step(c)
  <2>1. /\ Written(c) /\ UNCHANGED <<claims, milestones>>
        /\ s = "active" => row' = [row EXCEPT !.status = "ACTIVE"]
        /\ s = "paused" => row' = [row EXCEPT !.status = "PAUSED"]
        /\ s = "cancelled" => row' = [row EXCEPT !.status = "CANCELLED"]
    BY <1>1, <1>2, <1>10 DEF write, SetRow, Due
  <2>2. /\ s = "active" => RowBecomes("ACTIVE", row.count, row.recipient)
        /\ s = "paused" => RowBecomes("PAUSED", row.count, row.recipient)
        /\ s = "cancelled" => RowBecomes("CANCELLED", row.count, row.recipient)
    BY <1>6, <2>1, RowUpdates DEF RowStatuses
  <2> QED
    BY <1>2, <1>5, <1>10, <1>u, <2>1, <2>2 DEF Step, WriteStep, Effect
<1>11. ASSUME s = "recipient" PROVE Step(c)
  <2>1. Written(c) /\ UNCHANGED <<claims, milestones>> /\ row' = [row EXCEPT !.recipient = tx.who]
    BY <1>1, <1>2, <1>11 DEF write, SetRow, Due
  <2>2. tx.who \in Claimants
    <3>1. todo = <<"recipient">>
      BY <1>2, <1>3, <1>11, TodoFacts
    <3>2. tx.op = "transfer"
      BY <1>3, <3>1, OtherStatements DEF Typed
    <3> QED
      BY <1>3, <3>2 DEF Shape
  <2>3. RowBecomes(row.status, row.count, tx.who)
    BY <1>6, <2>1, <2>2, RowUpdates
  <2> QED
    BY <1>2, <1>5, <1>11, <1>u, <2>1, <2>3 DEF Step, WriteStep, Effect
<1> QED
  BY <1>1, <1>7, <1>8, <1>9, <1>10, <1>11

\* Every step of the system is one of these.
LEMMA NextSteps ==
  ASSUME Typed, Funds, ClientsOk, Next
  PROVE  (\E c \in Clients : Step(c)) \/ (\E fee : Resumes(fee))
<1>1. CASE AirdropDetailPage \/ RewardDetailPage \/ BountyDetailPage \/ GrantDetailPage
  BY <1>1, SignSteps
<1>2. CASE \E c \in Clients : Decline(c) \/ broadcast(c) \/ confirm(c) \/ statement(c) \/ answer(c) \/ lose(c)
  BY <1>2, DeclineStep, BroadcastStep, ConfirmationStep, StatementStep, AnswerStep, LossStep
<1>3. CASE resumeOnChain
  BY <1>3, ResumeStep
<1> QED
  BY <1>1, <1>2, <1>3 DEF Next

-----------------------------------------------------------------------------
(* Types *)

\* Types depend on the terms alone.
LEMMA TypedKept ==
  ASSUME Typed, terms' = terms, client' \in [Clients -> Client], utxo' \in Utxo, row' \in Row,
         claims' \in [Claimants -> Nat], milestones' \in SUBSET Nat,
         paid' \in [Claimants -> Nat], payouts' \in [Claimants -> Nat], refund' \in 0 .. Pool,
         terms.family = "grant" => row'.recipient \in Claimants
  PROVE  Typed'
<1>1. Client' = Client
  BY DEF Client, Txs, Pool
<1>2. Pool' = Pool
  BY DEF Pool
<1> QED
  BY <1>1, <1>2 DEF Typed

\* A mined transaction keeps the types, and only adds payouts.
LEMMA MinedTypes ==
  ASSUME Typed, Funds, NEW c, NEW tx, Minable(c, tx), Mined(tx)
  PROVE  /\ utxo' \in Utxo /\ paid' \in [Claimants -> Nat] /\ payouts' \in [Claimants -> Nat]
         /\ refund' \in 0 .. Pool
         /\ \A w \in Claimants : payouts'[w] >= payouts[w]
         /\ tx.op = "claim" => tx.who \in Claimants /\ payouts'[tx.who] = payouts[tx.who] + 1
         /\ tx.op = "claim" => \A w \in Claimants : w # tx.who => payouts'[w] = payouts[w]
<1>1. /\ tx.op \in {"fund", "claim", "pause", "cancel", "transfer"} /\ tx.pay \in Nat /\ tx.keep \in Nat
      /\ tx.op \in {"claim", "transfer"} => tx.who \in Claimants
  BY ShapeNumbers DEF Minable, Shape
<1>2. utxo' \in Utxo
  BY <1>1, AfterLeaves DEF Mined, Leaves, Typed
<1>3. paid' \in [Claimants -> Nat]
  <2>1. CASE tx.op = "claim"
    <3>1. paid' = [paid EXCEPT ![tx.who] = @ + tx.pay] /\ paid \in [Claimants -> Nat]
      BY <2>1 DEF Mined, Typed
    <3>2. paid[tx.who] + tx.pay \in Nat
      BY <1>1, <2>1, <3>1
    <3> QED
      BY <3>1, <3>2
  <2> QED
    BY <2>1 DEF Mined, Typed
<1>4. /\ payouts' \in [Claimants -> Nat]
      /\ \A w \in Claimants : payouts'[w] >= payouts[w]
      /\ tx.op = "claim" => tx.who \in Claimants /\ payouts'[tx.who] = payouts[tx.who] + 1
      /\ tx.op = "claim" => \A w \in Claimants : w # tx.who => payouts'[w] = payouts[w]
  <2>1. CASE tx.op = "claim"
    <3>1. payouts' = [payouts EXCEPT ![tx.who] = @ + 1] /\ payouts \in [Claimants -> Nat]
      BY <2>1 DEF Mined, Typed
    <3> QED
      BY <1>1, <2>1, <3>1
  <2>2. CASE tx.op # "claim"
    BY <2>2 DEF Mined, Typed
  <2> QED
    BY <2>1, <2>2
<1>5. refund' \in 0 .. Pool
  <2>1. CASE tx.op = "cancel"
    <3>1. tx.pay = Remaining
      BY <2>1 DEF Minable, Accepts, claim, pause, cancel, transfer
    <3> QED
      BY <2>1, <3>1, Numbers DEF Mined
  <2> QED
    BY <2>1 DEF Mined, Typed
<1> QED
  BY <1>2, <1>3, <1>4, <1>5

\* The resumption keeps the types.
LEMMA ResumeTypes ==
  ASSUME Typed, Funds, NEW fee, Resumes(fee)
  PROVE  Typed'
BY TypedKept DEF Resumes, Leaves, Typed, db

\* So does each statement.
LEMMA WriteTypes ==
  ASSUME Typed, Funds, ClientsOk, NEW c \in Clients, NEW s, WriteStep(c, s)
  PROVE  Typed'
<1> DEFINE tx == client[c].tx
<1>1. Shape(c, tx) /\ client[c].todo \in Remainders(tx) /\ client[c].todo \in Todos
  BY RunningFacts DEF WriteStep
<1>2. tx.number \in Nat
  BY <1>1, ShapeNumbers
<1>3. UNCHANGED <<terms, utxo, paid, payouts, refund>> /\ client' \in [Clients -> Client] /\ Effect(c, s)
  BY DEF WriteStep, chain, Becomes
<1>4. claims' \in [Claimants -> Nat]
  <2>1. CASE claims' = [claims EXCEPT ![tx.who] = @ + 1]
    <3>1. claims \in [Claimants -> Nat]
      BY DEF Typed
    <3>2. PICK w : w = tx.who
      OBVIOUS
    <3>3. claims' = [claims EXCEPT ![w] = claims[w] + 1]
      BY <2>1, <3>2
    <3>4. CASE w \in Claimants
      BY <3>1, <3>3, <3>4
    <3>5. CASE w \notin Claimants
      BY <3>1, <3>3, <3>5
    <3> QED
      BY <3>4, <3>5
  <2>2. CASE claims' = claims
    BY <2>2 DEF Typed
  <2> QED
    BY <1>3, <2>1, <2>2 DEF Effect
<1>5. milestones' \in SUBSET Nat
  BY <1>2, <1>3 DEF Effect, Typed
<1>6. row' \in Row
  BY <1>3 DEF Effect, RowBecomes, Typed
<1>7. terms.family = "grant" => row'.recipient \in Claimants
  <2>1. CASE row'.recipient = row.recipient
    BY <2>1 DEF Typed
  <2>2. CASE s = "recipient" /\ row'.recipient = tx.who
    <3>1. client[c].todo = <<"recipient">>
      BY <1>1, <2>2, TodoFacts DEF WriteStep
    <3>2. tx.op = "transfer"
      BY <1>1, <3>1, OtherStatements DEF Typed
    <3> QED
      BY <1>1, <2>2, <3>2 DEF Shape
  <2> QED
    BY <1>3, <2>1, <2>2 DEF Effect, RowBecomes
<1> QED
  BY <1>3, <1>4, <1>5, <1>6, <1>7, TypedKept DEF Typed

\* So does every step of a client.
LEMMA StepTypes ==
  ASSUME Typed, Funds, ClientsOk, NEW c \in Clients, Step(c)
  PROVE  Typed'
<1>1. CASE SignStep(c)
  <2>1. PICK tx : Good(c, tx) /\ Sign(c, tx) /\ UNCHANGED <<terms, chain, db, history>>
    BY <1>1 DEF SignStep
  <2>2. client' \in [Clients -> Client]
    BY <2>1, SignUpdate DEF Good, Shape, Becomes, Typed
  <2> QED
    BY <2>1, <2>2, TypedKept DEF Typed, chain, db
<1>2. CASE DropStep(c)
  BY <1>2, TypedKept DEF DropStep, Becomes, Typed, chain, db
<1>3. CASE MineStep(c)
  BY <1>3, MinedTypes, TypedKept DEF MineStep, Becomes, Typed, db
<1>4. CASE ConfirmStep(c)
  BY <1>4, TypedKept DEF ConfirmStep, Becomes, Typed, chain, db
<1>5. CASE RetryStep(c)
  BY <1>5, TypedKept DEF RetryStep, Becomes, Typed, chain, db
<1>6. ASSUME NEW s, WriteStep(c, s) PROVE Typed'
  BY <1>6, WriteTypes
<1> QED
  BY <1>1, <1>2, <1>3, <1>4, <1>5, <1>6 DEF Step

-----------------------------------------------------------------------------
(* Transactions stay what they are *)

\* How the chain moves: what happened stays.
ChainMoves ==
  /\ utxo'.id = utxo.id + 1
  /\ utxo'.status # "UNFUNDED"
  /\ utxo.status = "CANCELLED" => utxo'.status = "CANCELLED"
  /\ utxo'.resumed = 0 => utxo.resumed = 0
  /\ utxo.status = "PAUSED" /\ utxo'.resumed = 0 => utxo'.status \in {"PAUSED", "CANCELLED"}
  /\ utxo'.count >= utxo.count
  /\ \A w \in Claimants : payouts'[w] >= payouts[w]

\* A mined transaction moves the chain, and leaves the status of its operation.
LEMMA MinedMoves ==
  ASSUME Typed, Funds, NEW c, NEW tx, Minable(c, tx), Mined(tx)
  PROVE  /\ ChainMoves
         /\ tx.op = "cancel" => utxo'.status = "CANCELLED"
         /\ tx.op = "pause" => utxo'.status = "PAUSED"
         /\ tx.op = "claim" => utxo'.count = utxo.count + 1 /\ tx.number = utxo'.count
         /\ utxo.status \in {"COMPLETED", "CANCELLED"} => FALSE
         /\ tx.op # "fund" => utxo.status \in {"ACTIVE", "PAUSED"}
         /\ tx.op = "fund" => utxo.status = "UNFUNDED"
<1>1. /\ tx.op \in {"fund", "claim", "pause", "cancel", "transfer"} /\ tx.pay \in Nat /\ tx.keep \in Nat
      /\ tx.op \in {"claim", "transfer"} => tx.who \in Claimants
  BY ShapeNumbers DEF Minable, Shape
<1>2. /\ tx.op = "fund" => utxo.status = "UNFUNDED"
      /\ tx.op \in {"claim", "pause", "transfer"} => utxo.status = "ACTIVE"
      /\ tx.op = "cancel" => utxo.status \in {"ACTIVE", "PAUSED"}
      /\ tx.op # "fund" => tx.spends = utxo.id
  BY <1>1 DEF Minable, Accepts, claim, pause, cancel, transfer
<1>3. \A w \in Claimants : payouts'[w] >= payouts[w]
  BY MinedTypes
<1>4. /\ utxo'.id = utxo.id + 1 /\ utxo'.resumed = utxo.resumed
      /\ utxo'.count = IF tx.op = "claim" THEN utxo.count + 1 ELSE utxo.count
      /\ tx.op = "fund" => utxo'.status = "ACTIVE"
      /\ tx.op = "claim" => utxo'.status \in {"ACTIVE", "COMPLETED"}
      /\ tx.op = "pause" => utxo'.status = "PAUSED"
      /\ tx.op = "cancel" => utxo'.status = "CANCELLED"
      /\ tx.op = "transfer" => utxo'.status = "ACTIVE"
  BY <1>1, <1>2, AfterLeaves, Numbers DEF Mined, Leaves, Typed
<1>5. tx.op = "claim" => tx.number = utxo.count + 1
  BY <1>2 DEF Minable, Fits
<1> QED
  BY <1>1, <1>2, <1>3, <1>4, <1>5, Numbers DEF ChainMoves

\* So does the resumption.
LEMMA ResumeMoves ==
  ASSUME Typed, Funds, NEW fee, Resumes(fee)
  PROVE  ChainMoves /\ utxo'.resumed # 0
<1>1. /\ utxo'.id = utxo.id + 1 /\ utxo'.resumed = utxo.resumed + 1 /\ utxo'.count = utxo.count
      /\ utxo'.status = "ACTIVE" /\ utxo.status = "PAUSED" /\ payouts' = payouts
  BY Numbers DEF Resumes, Leaves
<1>2. utxo.resumed + 1 # 0 /\ \A w \in Claimants : payouts[w] \in Nat
  BY DEF Typed, Utxo
<1> QED
  BY <1>1, <1>2, Numbers DEF ChainMoves

\* What happened stays so when the chain moves.
LEMMA HappenedKept ==
  ASSUME Typed, Funds, NEW tx \in Txs, tx.op = "claim" => tx.who \in Claimants, Happened(tx),
         ChainMoves \/ UNCHANGED <<utxo, payouts>>, Typed'
  PROVE  /\ utxo'.status # "UNFUNDED"
         /\ tx.op = "cancel" => utxo'.status = "CANCELLED"
         /\ tx.op = "pause" /\ utxo'.resumed = 0 => utxo'.status \in {"PAUSED", "CANCELLED"}
         /\ tx.op = "claim" => payouts'[tx.who] >= 1 /\ tx.number <= utxo'.count
<1>1. CASE UNCHANGED <<utxo, payouts>>
  BY <1>1 DEF Happened
<1>2. CASE ChainMoves
  <2>1. tx.number \in 1 .. Pool + 1 /\ utxo'.count \in Nat /\ utxo.count \in Nat
    BY Numbers DEF Txs, Typed, Utxo
  <2>2. tx.op = "claim" => payouts'[tx.who] \in Nat /\ payouts[tx.who] \in Nat
    BY DEF Typed
  <2>3. tx.number \in Int
    BY <2>1, Numbers
  <2> QED
    BY <1>2, <2>1, <2>2, <2>3 DEF Happened, ChainMoves
<1> QED
  BY <1>1, <1>2

\* The same transaction.
LEMMA Frame ==
  ASSUME terms' = terms, NEW c, client'[c].tx = client[c].tx
  PROVE  /\ Shape(c, client[c].tx) => Shape(c, client[c].tx)'
         /\ Remainders(client[c].tx)' = Remainders(client[c].tx)
         /\ Statements(client[c].tx)' = Statements(client[c].tx)
<1>1. Txs' = Txs /\ Pool' = Pool
  BY DEF Txs, Pool
<1>2. Statements(client[c].tx)' = Statements(client[c].tx)
  BY DEF Statements
<1> QED
  BY <1>1, <1>2 DEF Shape, Remainders

\* A transaction keeps fitting a UTXO that did not move.
LEMMA FitsKept ==
  ASSUME UNCHANGED <<terms, utxo>>, NEW c, client'[c].tx = client[c].tx
  PROVE  Fits(client[c].tx) => Fits(client[c].tx)'
BY DEF Fits, FitsClaim, FitsPause, FitsTransfer, FitsCancel, PayoutFee, PauseFee, CancelFee, Remaining, Pool

\* A client that does not step.
LEMMA BystanderOk ==
  ASSUME Typed, Funds, Typed', terms' = terms, NEW c \in Clients, ClientOk(c), client'[c] = client[c],
         ChainMoves \/ UNCHANGED <<utxo, payouts>>
  PROVE  ClientOk(c)'
<1>1. client[c].at # "idle" => Shape(c, client[c].tx)'
  BY Frame DEF ClientOk
<1>2. ASSUME client[c].at = "signing"
      PROVE  client[c].tx.spends <= utxo'.id /\ (client[c].tx.spends = utxo'.id => Fits(client[c].tx)')
  <2>1. Shape(c, client[c].tx) /\ client[c].tx.spends <= utxo.id
    BY <1>2 DEF ClientOk
  <2>2. client[c].tx.spends \in Nat /\ utxo.id \in Nat
    BY <2>1, ShapeNumbers, Numbers
  <2>3. CASE ChainMoves
    BY <2>1, <2>2, <2>3 DEF ChainMoves
  <2>4. CASE UNCHANGED <<utxo, payouts>>
    BY <1>2, <2>1, <2>4, FitsKept DEF ClientOk
  <2> QED
    BY <2>3, <2>4
<1>3. client[c].at = "running" => client[c].todo \in Remainders(client[c].tx)'
  BY Frame DEF ClientOk
<1>4. ASSUME client[c].at \in {"waiting", "running"} PROVE Happened(client[c].tx)'
  <2>1. Shape(c, client[c].tx) /\ Happened(client[c].tx)
    BY <1>4 DEF ClientOk
  <2> QED
    BY <2>1, HappenedKept DEF Shape, Happened
<1>5. /\ client[c].at \in {"idle", "signing"} => client[c].tries = 0
      /\ client[c].at # "running" => client[c].todo = <<>>
  BY DEF ClientOk
<1> QED
  BY <1>1, <1>2, <1>3, <1>4, <1>5 DEF ClientOk

\* What a step must still show of the client that takes it.
LEMMA OthersOk ==
  ASSUME Typed, Funds, ClientsOk, Typed', terms' = terms, NEW c \in Clients,
         \A d \in Clients \ {c} : client'[d] = client[d],
         ChainMoves \/ UNCHANGED <<utxo, payouts>>,
         ClientOk(c)'
  PROVE  ClientsOk'
<1>1. \A d \in Clients \ {c} : ClientOk(d)'
  BY BystanderOk DEF ClientsOk
<1> QED
  BY <1>1 DEF ClientsOk

\* A dropped client holds nothing.
LEMMA DropOk ==
  ASSUME NEW c, Becomes(c, "idle", NoTx, <<>>, 0)
  PROVE  ClientOk(c)'
BY DEF ClientOk, Becomes

\* A signing client holds a transaction that fits.
LEMMA SignOk ==
  ASSUME Typed, Funds, ClientsOk, Typed', NEW c \in Clients, SignStep(c)
  PROVE  ClientsOk'
<1>1. PICK tx : Good(c, tx) /\ Sign(c, tx) /\ UNCHANGED <<terms, chain, db, history>>
  BY DEF SignStep
<1>2. /\ Becomes(c, "signing", tx, client[c].todo, client[c].tries) /\ client[c].at = "idle"
      /\ Shape(c, tx) /\ Fits(tx) /\ tx.spends = utxo.id
  BY <1>1, SignUpdate DEF Good, Shape, Sign, At, Typed
<1>3. client'[c].at = "signing" /\ client'[c].tx = tx /\ client'[c].todo = <<>> /\ client'[c].tries = 0
  BY <1>2 DEF Becomes, ClientsOk, ClientOk
<1>4. UNCHANGED <<terms, utxo, payouts>>
  BY <1>1 DEF chain
<1>5. Txs' = Txs /\ Pool' = Pool
  BY <1>4 DEF Txs, Pool
<1>6. Shape(c, client[c].tx)'
  BY <1>2, <1>3, <1>4, <1>5 DEF Shape
<1>7. Fits(client[c].tx)'
  BY <1>2, <1>3, <1>4, <1>5
  DEF Fits, FitsClaim, FitsPause, FitsTransfer, FitsCancel, PayoutFee, PauseFee, CancelFee, Remaining
<1>8. (client[c].tx.spends <= utxo.id)'
  BY <1>2, <1>3, <1>4, Numbers
<1>9. ClientOk(c)'
  BY <1>3, <1>6, <1>7, <1>8 DEF ClientOk
<1> QED
  BY <1>2, <1>4, <1>9, OthersOk DEF Becomes

\* A waiting client holds a transaction the chain has taken.
LEMMA MineOk ==
  ASSUME Typed, Funds, ClientsOk, Typed', NEW c \in Clients, MineStep(c)
  PROVE  ClientsOk'
<1> DEFINE tx == client[c].tx
<1>1. Minable(c, tx) /\ Mined(tx) /\ terms' = terms
  BY DEF MineStep
<1>2. Shape(c, tx) /\ client[c].todo = <<>>
  BY <1>1 DEF Minable, ClientsOk, ClientOk, MineStep
<1>3. ChainMoves
  BY <1>1, MinedMoves
<1>4. CASE Becomes(c, "waiting", tx, client[c].todo, client[c].tries)
  <2>1. client'[c].at = "waiting" /\ client'[c].tx = tx /\ client'[c].todo = <<>>
    BY <1>2, <1>4 DEF Becomes
  <2>2. Shape(c, client[c].tx)'
    BY <1>1, <1>2, <2>1, Frame
  <2>3. Happened(tx)'
    <3>1. utxo'.status # "UNFUNDED"
      BY <1>3 DEF ChainMoves
    <3>2. /\ tx.op = "cancel" => utxo'.status = "CANCELLED"
          /\ tx.op = "pause" => utxo'.status = "PAUSED"
          /\ tx.op = "claim" => tx.number = utxo'.count
      BY <1>1, MinedMoves
    <3>3. tx.op = "claim" => payouts'[tx.who] >= 1 /\ tx.number <= utxo'.count
      <4>1. SUFFICES ASSUME tx.op = "claim" PROVE payouts'[tx.who] >= 1 /\ tx.number <= utxo'.count
        OBVIOUS
      <4>2. tx.who \in Claimants /\ payouts'[tx.who] = payouts[tx.who] + 1
        BY <1>1, <4>1, MinedTypes
      <4>3. payouts[tx.who] \in Nat /\ utxo'.count \in Nat
        BY <4>2 DEF Typed, Utxo
      <4> QED
        BY <3>2, <4>1, <4>2, <4>3
    <3> QED
      BY <2>1, <3>1, <3>2, <3>3 DEF Happened
  <2>4. ClientOk(c)'
    BY <2>1, <2>2, <2>3 DEF ClientOk
  <2> QED
    BY <1>1, <1>3, <1>4, <2>4, OthersOk DEF Becomes
<1>5. CASE Becomes(c, "idle", NoTx, <<>>, 0)
  BY <1>1, <1>3, <1>5, DropOk, OthersOk DEF Becomes
<1> QED
  BY <1>4, <1>5 DEF MineStep

\* A running client has the statements of its transaction before it.
LEMMA ConfirmOk ==
  ASSUME Typed, Funds, ClientsOk, Typed', NEW c \in Clients, ConfirmStep(c)
  PROVE  ClientsOk'
<1> DEFINE tx == client[c].tx
<1>1. client[c].at = "waiting" /\ UNCHANGED <<terms, utxo, payouts>>
  BY DEF ConfirmStep, chain
<1>2. Shape(c, tx) /\ Happened(tx)
  BY <1>1 DEF ClientsOk, ClientOk
<1>3. client'[c].at = "running" /\ client'[c].tx = tx /\ client'[c].todo = Statements(tx)
  BY DEF ConfirmStep, Becomes
<1>4. Statements(tx) \in Remainders(tx)
  BY <1>2, StatementsFit DEF Typed
<1>5. Shape(c, client[c].tx)' /\ client'[c].todo \in Remainders(client[c].tx)'
  BY <1>1, <1>2, <1>3, <1>4, Frame
<1>6. Happened(client[c].tx)'
  BY <1>1, <1>2, <1>3 DEF Happened
<1>7. ClientOk(c)'
  BY <1>3, <1>5, <1>6 DEF ClientOk
<1> QED
  BY <1>1, <1>7, OthersOk DEF ConfirmStep, Becomes

\* A repeated confirmation still has a transaction the chain has taken.
LEMMA RetryOk ==
  ASSUME Typed, Funds, ClientsOk, Typed', NEW c \in Clients, RetryStep(c)
  PROVE  ClientsOk'
<1> DEFINE tx == client[c].tx
<1>1. client[c].at = "running" /\ UNCHANGED <<terms, utxo, payouts>>
  BY DEF RetryStep, chain
<1>2. Shape(c, tx) /\ Happened(tx)
  BY <1>1 DEF ClientsOk, ClientOk
<1>3. client'[c].at = "waiting" /\ client'[c].tx = tx /\ client'[c].todo = <<>>
  BY DEF RetryStep, Becomes
<1>5. Shape(c, client[c].tx)'
  BY <1>1, <1>2, <1>3, Frame
<1>6. Happened(client[c].tx)'
  BY <1>1, <1>2, <1>3 DEF Happened
<1>7. ClientOk(c)'
  BY <1>3, <1>5, <1>6 DEF ClientOk
<1> QED
  BY <1>1, <1>7, OthersOk DEF RetryStep, Becomes

\* What is left after a statement is again something that may be left.
LEMMA RemaindersShrink ==
  ASSUME NEW c, NEW tx, terms \in Created, Shape(c, tx), NEW todo \in Remainders(tx), todo # <<>>
  PROVE  Tail(todo) \in Remainders(tx)
<1>0. terms.family \in {"airdrop", "reward", "bounty", "grant"} /\ todo \in Todos
  BY TFacts, StatementsFit
<1>t. /\ \A a : Tail(<<a>>) = <<>>
      /\ \A a, b : Tail(<<a, b>>) = <<b>>
      /\ \A a, b, d : Tail(<<a, b, d>>) = <<b, d>>
  OBVIOUS
<1>1. CASE tx.op = "claim"
  <2>1. CASE terms.family \in {"airdrop", "reward"}
    BY <1>1, <1>t, <2>1 DEF Remainders
  <2>2. CASE terms.family = "bounty"
    <3>1. Remainders(tx) = {<<"insert", "count", "close">>, <<"count", "close">>, <<"close">>, <<>>}
      BY <1>1, <2>2 DEF Remainders
    <3>2. CASE todo = <<"insert", "count", "close">>
      <4>1. Tail(todo) = <<"count", "close">>
        BY <1>t, <3>2
      <4> QED
        BY <3>1, <4>1
    <3>3. CASE todo = <<"count", "close">>
      <4>1. Tail(todo) = <<"close">>
        BY <1>t, <3>3
      <4> QED
        BY <3>1, <4>1
    <3>4. CASE todo = <<"close">>
      <4>1. Tail(todo) = <<>>
        BY <1>t, <3>4
      <4> QED
        BY <3>1, <4>1
    <3> QED
      BY <3>1, <3>2, <3>3, <3>4
  <2>3. CASE terms.family = "grant"
    <3>1. Remainders(tx) = {<<"count", "insert", "close">>, <<"insert", "close">>, <<"close">>, <<>>}
      BY <1>1, <2>3 DEF Remainders
    <3>2. CASE todo = <<"count", "insert", "close">>
      <4>1. Tail(todo) = <<"insert", "close">>
        BY <1>t, <3>2
      <4> QED
        BY <3>1, <4>1
    <3>3. CASE todo = <<"insert", "close">>
      <4>1. Tail(todo) = <<"close">>
        BY <1>t, <3>3
      <4> QED
        BY <3>1, <4>1
    <3>4. CASE todo = <<"close">>
      <4>1. Tail(todo) = <<>>
        BY <1>t, <3>4
      <4> QED
        BY <3>1, <4>1
    <3> QED
      BY <3>1, <3>2, <3>3, <3>4
  <2> QED
    BY <1>0, <2>1, <2>2, <2>3
<1>2. CASE tx.op # "claim"
  <2>1. todo = Statements(tx) /\ <<>> \in Remainders(tx)
    BY <1>2 DEF Remainders
  <2>2. /\ tx.op \in {"fund", "pause", "cancel", "transfer"}
        /\ tx.op = "transfer" => terms.family = "grant"
    BY <1>2 DEF Shape, Txs
  <2>3. Statements(tx) \in {<<"active">>, <<"paused">>, <<"cancelled">>, <<"recipient">>}
    BY <1>0, <2>2 DEF Statements, AirdropHandlers, RewardHandlers, BountyHandlers, GrantHandlers,
         airdrop_confirm_funding, reward_confirm_funding, bounty_confirm_funding, grant_confirm_funding,
         airdrop_confirm_pause, reward_confirm_pause, bounty_confirm_pause, grant_confirm_pause,
         airdrop_confirm_cancel, reward_confirm_cancel, bounty_confirm_cancel, grant_confirm_cancel,
         grant_confirm_transfer
  <2> QED
    BY <1>t, <2>1, <2>3
<1> QED
  BY <1>1, <1>2

\* One statement fewer is still a remainder.
LEMMA WriteOk ==
  ASSUME Typed, Funds, ClientsOk, Typed', NEW c \in Clients, NEW s, WriteStep(c, s)
  PROVE  ClientsOk'
<1> DEFINE tx == client[c].tx
<1>1. client[c].at = "running" /\ UNCHANGED <<terms, utxo, payouts>> /\ client[c].todo # <<>>
  BY DEF WriteStep, chain
<1>2. Shape(c, tx) /\ Happened(tx) /\ client[c].todo \in Remainders(tx)
  BY <1>1 DEF ClientsOk, ClientOk
<1>3. client'[c].at = "running" /\ client'[c].tx = tx /\ client'[c].todo = Tail(client[c].todo)
  BY DEF WriteStep, Becomes
<1>4. Tail(client[c].todo) \in Remainders(tx)
  BY <1>1, <1>2, RemaindersShrink DEF Typed
<1>5. Shape(c, client[c].tx)' /\ client'[c].todo \in Remainders(client[c].tx)'
  BY <1>1, <1>2, <1>3, <1>4, Frame
<1>6. Happened(client[c].tx)'
  BY <1>1, <1>2, <1>3 DEF Happened
<1>7. ClientOk(c)'
  BY <1>3, <1>5, <1>6 DEF ClientOk
<1> QED
  BY <1>1, <1>7, OthersOk DEF WriteStep, Becomes

\* Every step of a client keeps all clients.
LEMMA ClientsKept ==
  ASSUME Typed, Funds, ClientsOk, NEW c \in Clients, Step(c)
  PROVE  ClientsOk'
<1>1. Typed'
  BY StepTypes
<1>2. CASE DropStep(c)
  BY <1>1, <1>2, DropOk, OthersOk DEF DropStep, Becomes, chain
<1> QED
  BY <1>1, <1>2, SignOk, MineOk, ConfirmOk, RetryOk, WriteOk DEF Step

\* Only a mined transaction touches the funds.
LEMMA FundsKept ==
  ASSUME Typed, Funds, ClientsOk, NEW c \in Clients, Step(c)
  PROVE  Funds'
<1>1. CASE MineStep(c)
  BY <1>1, MinedKeepsFunds DEF MineStep
<1>2. CASE UNCHANGED <<terms, chain>>
  BY <1>2 DEF Funds, FundsAddUp, AirdropGap, ReserveIsKept, PaidFeesLeaveReserve, OwnFeesErodeReserve, PaidOut,
              Remaining, Pool, chain
<1> QED
  BY <1>1, <1>2 DEF Step, SignStep, DropStep, ConfirmStep, RetryStep, WriteStep

\* The resumption keeps every client, for it moves the UTXO on.
LEMMA ResumeOk ==
  ASSUME Typed, Funds, ClientsOk, NEW fee, Resumes(fee)
  PROVE  ClientsOk'
<1>1. Typed' /\ ChainMoves /\ terms' = terms /\ client' = client
  BY ResumeTypes, ResumeMoves DEF Resumes
<1> QED
  BY <1>1, BystanderOk DEF ClientsOk

-----------------------------------------------------------------------------
(* Rows trail the chain *)

\* A client between statements has a transaction of the family's.
LEMMA HasFacts ==
  ASSUME Typed, Funds, ClientsOk, NEW c \in Clients, NEW s \in {"insert", "count", "close"}, Has(c, s)
  PROVE  /\ client[c].at = "running" /\ client[c].tx.op = "claim"
         /\ Shape(c, client[c].tx) /\ Happened(client[c].tx)
         /\ client[c].todo \in Remainders(client[c].tx) /\ client[c].todo \in Todos
<1>1. s \in Range(client[c].todo)
  BY DEF Has
<1>2. client[c].at = "running"
  BY <1>1, RangeFacts DEF ClientsOk, ClientOk
<1> QED
  BY <1>1, <1>2, RunningFacts, PayoutStatements

\* What a write executes.
LEMMA WriteFacts ==
  ASSUME Typed, Funds, ClientsOk, NEW c \in Clients, NEW s, WriteStep(c, s)
  PROVE  /\ Shape(c, client[c].tx) /\ Happened(client[c].tx)
         /\ client[c].todo \in Remainders(client[c].tx) /\ client[c].todo \in Todos
         /\ s \in {"insert", "count", "close"} => client[c].tx.op = "claim" /\ Has(c, s)
         /\ s = "paused" => client[c].tx.op = "pause"
         /\ s = "cancelled" => client[c].tx.op = "cancel"
         /\ client'[c].at = "running" /\ client'[c].tx = client[c].tx
         /\ client'[c].todo = Tail(client[c].todo) /\ client'[c].tries = client[c].tries
<1>1. /\ client[c].at = "running" /\ client[c].todo # <<>> /\ Head(client[c].todo) = s
      /\ client'[c].at = "running" /\ client'[c].tx = client[c].tx
      /\ client'[c].todo = Tail(client[c].todo) /\ client'[c].tries = client[c].tries
  BY DEF WriteStep, Becomes
<1>2. /\ Shape(c, client[c].tx) /\ Happened(client[c].tx)
      /\ client[c].todo \in Remainders(client[c].tx) /\ client[c].todo \in Todos
  BY <1>1, RunningFacts
<1>3. s \in {"insert", "count", "close"} => s \in Range(client[c].todo)
  BY <1>1, <1>2, TodoFacts, RangeFacts
<1>4. s \in {"insert", "count", "close"} => client[c].tx.op = "claim" /\ Has(c, s)
  BY <1>1, <1>3, PayoutStatements DEF Has
<1>5. s \in {"paused", "cancelled"} => client[c].todo = <<s>>
  BY <1>1, <1>2, TodoFacts
<1>6. /\ s = "paused" => client[c].tx.op = "pause"
      /\ s = "cancelled" => client[c].tx.op = "cancel"
  BY <1>2, <1>5, OtherStatements DEF Typed
<1> QED
  BY <1>1, <1>2, <1>4, <1>6

\* A bounty or a grant closes.
LEMMA CloseFacts ==
  ASSUME Typed, Funds, ClientsOk, NEW c \in Clients, Has(c, "close")
  PROVE  terms.family \in {"bounty", "grant"}
<1>1. client[c].tx.op = "claim" /\ client[c].todo \in Remainders(client[c].tx)
  BY HasFacts
<1>2. "close" \in Range(client[c].todo)
  BY DEF Has
<1>3. terms.family \in {"airdrop", "reward", "bounty", "grant"}
  BY TFacts DEF Typed
<1>4. ASSUME terms.family \in {"airdrop", "reward"} PROVE FALSE
  <2>1. client[c].todo \in {<<"insert", "count">>, <<"count">>, <<>>}
    BY <1>1, <1>4 DEF Remainders
  <2> QED
    BY <1>2, <2>1, RangeFacts
<1> QED
  BY <1>3, <1>4

\* A statement writes only what the chain has shown.
LEMMA WriteTrails ==
  ASSUME Typed, Funds, ClientsOk, Rows, RowTrailsChain, NEW c \in Clients, NEW s, WriteStep(c, s)
  PROVE  RowTrailsChain'
<1> DEFINE tx == client[c].tx
<1>1. UNCHANGED <<terms, utxo, retried>> /\ Effect(c, s)
  BY DEF WriteStep, chain, history
<1>2. /\ Happened(tx)
      /\ s = "close" => Has(c, "close")
      /\ s = "paused" => tx.op = "pause"
      /\ s = "cancelled" => tx.op = "cancel"
  BY WriteFacts
<1>3. CASE row'.status = row.status
  BY <1>1, <1>3 DEF RowTrailsChain
<1>4. CASE s = "close" /\ row'.status = IF row.count >= Slots THEN "COMPLETED" ELSE row.status
  <2>1. SUFFICES ASSUME row.count >= Slots, row'.status = "COMPLETED" PROVE RowTrailsChain'
    BY <1>3, <1>4
  <2>2. terms.family \in {"bounty", "grant"}
    BY <1>2, <1>4, CloseFacts
  <2>3. ~retried => utxo.status = "COMPLETED"
    <3>1. SUFFICES ASSUME ~retried PROVE utxo.count >= Slots
      BY <2>2 DEF Funds, FundsAddUp
    <3>2. row.count + One(Owed(Creator, "count")) <= utxo.count
      BY <2>2, <3>1 DEF Rows, RowTrails
    <3>3. One(Owed(Creator, "count")) \in {0, 1} /\ row.count \in Nat
      BY DEF One, Typed, Row
    <3> QED
      BY <2>1, <3>2, <3>3, Numbers, CFacts
  <2> QED
    BY <1>1, <1>2, <2>1, <2>3 DEF RowTrailsChain, Happened
<1>5. CASE s = "active" /\ row'.status = "ACTIVE"
  BY <1>1, <1>2, <1>5 DEF RowTrailsChain, Happened
<1>6. CASE s = "paused" /\ row'.status = "PAUSED"
  BY <1>1, <1>2, <1>6 DEF RowTrailsChain, Happened
<1>7. CASE s = "cancelled" /\ row'.status = "CANCELLED"
  BY <1>1, <1>2, <1>7 DEF RowTrailsChain, Happened
<1> QED
  BY <1>1, <1>3, <1>4, <1>5, <1>6, <1>7 DEF Effect, RowBecomes

\* The row trails the chain after every step of a client.
LEMMA TrailsKept ==
  ASSUME Typed, Funds, ClientsOk, Rows, RowTrailsChain, NEW c \in Clients, Step(c)
  PROVE  RowTrailsChain'
<1>1. CASE MineStep(c)
  <2>1. ChainMoves /\ utxo.status \notin {"COMPLETED", "CANCELLED"} /\ UNCHANGED <<row, retried>>
    BY <1>1, MinedMoves DEF MineStep, db, history
  <2> QED
    BY <2>1 DEF RowTrailsChain, ChainMoves
<1>2. CASE UNCHANGED <<utxo, row>> /\ (retried => retried')
  BY <1>2 DEF RowTrailsChain
<1>3. ASSUME NEW s, WriteStep(c, s) PROVE RowTrailsChain'
  BY <1>3, WriteTrails
<1>4. SignStep(c) \/ DropStep(c) \/ RetryStep(c) => UNCHANGED <<utxo, row>> /\ (retried => retried')
  BY DEF SignStep, DropStep, RetryStep, chain, db, history
<1>5. ConfirmStep(c) => UNCHANGED <<utxo, row>>
  BY DEF ConfirmStep, chain, db
<1>6. ConfirmStep(c) => (retried => retried')
  BY Zenon DEF ConfirmStep
<1> QED
  BY <1>1, <1>2, <1>3, <1>4, <1>5, <1>6 DEF Step

\* And after a resumption.
LEMMA ResumeTrails ==
  ASSUME Typed, Funds, RowTrailsChain, NEW fee, Resumes(fee)
  PROVE  RowTrailsChain'
<1>1. ChainMoves /\ utxo.status = "PAUSED" /\ utxo'.resumed # 0 /\ UNCHANGED <<row, retried>>
  BY ResumeMoves DEF Resumes, db, history
<1> QED
  BY <1>1 DEF RowTrailsChain, ChainMoves

-----------------------------------------------------------------------------
(* Counters and records trail the chain *)

\* Steps that touch neither the chain nor the rows.
QuietStep(c) == SignStep(c) \/ DropStep(c) \/ ConfirmStep(c) \/ RetryStep(c)

\* They leave the terms, the chain and the rows alone.
LEMMA QuietFacts ==
  ASSUME NEW c, QuietStep(c)
  PROVE  UNCHANGED <<terms, chain, db>> /\ (retried => retried')
<1>1. ConfirmStep(c) => (retried => retried')
  BY Zenon DEF ConfirmStep
<1>2. UNCHANGED <<terms, chain, db>>
  BY DEF QuietStep, SignStep, DropStep, ConfirmStep, RetryStep
<1>3. SignStep(c) \/ DropStep(c) \/ RetryStep(c) => (retried => retried')
  BY DEF SignStep, DropStep, RetryStep, history
<1> QED
  BY <1>1, <1>2, <1>3 DEF QuietStep

\* A client that does not change owes what it did.
LEMMA SameOwed ==
  ASSUME NEW d, NEW s, client'[d] = client[d]
  PROVE  Owed(d, s)' <=> Owed(d, s)
BY DEF Owed, Has

\* The confirmation of a payout both counts and records.
LEMMA BothStatements ==
  ASSUME NEW tx, terms \in Created, tx.op = "claim"
  PROVE  {"insert", "count"} \subseteq Range(Statements(tx))
<1>0. terms.family \in {"airdrop", "reward", "bounty", "grant"}
  BY TFacts
<1>1. Statements(tx) \in {<<"insert", "count">>, <<"insert", "count", "close">>, <<"count", "insert", "close">>}
  BY <1>0 DEF Statements, AirdropHandlers, RewardHandlers, BountyHandlers, GrantHandlers,
              airdrop_confirm_claim, reward_confirm_distribute, bounty_confirm_claim, grant_confirm_release
<1> QED
  BY <1>1, RangeFacts

\* A quiet step makes nobody owe more.
LEMMA QuietOwed ==
  ASSUME Typed, Funds, ClientsOk, NEW c \in Clients, QuietStep(c), NEW s \in {"insert", "count"},
         NEW d \in Clients, ~retried', Owed(d, s)'
  PROVE  Owed(d, s) /\ client'[d].tx = client[d].tx
<1>1. CASE d # c
  <2>1. client'[d] = client[d]
    BY <1>1, SignUpdate DEF QuietStep, SignStep, DropStep, ConfirmStep, RetryStep, Becomes, Good, Shape, Typed
  <2> QED
    BY <2>1, SameOwed
<1>2. CASE d = c
  <2>1. CASE SignStep(c)
    <3>1. client'[c].at = "signing" /\ client'[c].todo = <<>>
      BY <2>1, SignUpdate DEF SignStep, Becomes, Good, Shape, Sign, At, Typed, ClientsOk, ClientOk
    <3> QED
      BY <1>2, <3>1, RangeFacts DEF Owed, Has
  <2>2. CASE DropStep(c)
    BY <1>2, <2>2 DEF Owed, DropStep, Becomes
  <2>3. CASE ConfirmStep(c)
    <3>1. client[c].at = "waiting" /\ client'[c].at = "running" /\ client'[c].tx = client[c].tx
      BY <2>3 DEF ConfirmStep, Becomes
    <3>2. retried' = (retried \/ client[c].tries > 0)
      BY <2>3 DEF ConfirmStep
    <3>3. ~(client[c].tries > 0)
      BY <3>2, Zenon
    <3>4. client[c].tries = 0
      BY <3>3, ClientFields DEF Typed
    <3>5. client[c].tx.op = "claim"
      BY <1>2, <3>1 DEF Owed
    <3> QED
      BY <1>2, <3>1, <3>4, <3>5 DEF Owed
  <2>4. CASE RetryStep(c)
    <3>1. client'[c].at = "waiting" /\ client'[c].todo = <<>> /\ client'[c].tries = client[c].tries + 1
      BY <2>4 DEF RetryStep, Becomes
    <3>2. client[c].tries + 1 # 0
      BY ClientFields DEF Typed
    <3> QED
      BY <1>2, <3>1, <3>2, RangeFacts DEF Owed, Has
  <2> QED
    BY <2>1, <2>2, <2>3, <2>4 DEF QuietStep
<1> QED
  BY <1>1, <1>2

\* A payout owes both statements from the moment it is mined.
LEMMA MineOwed ==
  ASSUME Typed, Funds, ClientsOk, NEW c \in Clients, MineStep(c), NEW s \in {"insert", "count"}
  PROVE  /\ \A d \in Clients \ {c} : client'[d] = client[d] /\ (Owed(d, s)' <=> Owed(d, s))
         /\ ~Owed(c, s)
         /\ Owed(c, s)' => client[c].tx.op = "claim" /\ client'[c].tx = client[c].tx
<1>1. \A d \in Clients \ {c} : client'[d] = client[d]
  BY DEF MineStep, Becomes
<1>2. client[c].at = "signing" /\ client[c].todo = <<>>
  BY DEF MineStep, ClientsOk, ClientOk
<1>3. ~Owed(c, s)
  BY <1>2, RangeFacts DEF Owed, Has
<1>4. Owed(c, s)' => client[c].tx.op = "claim" /\ client'[c].tx = client[c].tx
  BY DEF MineStep, Becomes, Owed
<1> QED
  BY <1>1, <1>3, <1>4, SameOwed

\* A statement pays what its client owed.
LEMMA WriteOwed ==
  ASSUME Typed, Funds, ClientsOk, NEW c \in Clients, NEW t, WriteStep(c, t), NEW s \in {"insert", "count"}
  PROVE  /\ \A d \in Clients \ {c} : client'[d] = client[d] /\ (Owed(d, s)' <=> Owed(d, s))
         /\ client'[c].tx = client[c].tx
         /\ Owed(c, s)' => Owed(c, s)
         /\ t = s => Owed(c, s) /\ ~Owed(c, s)'
<1>1. \A d \in Clients \ {c} : client'[d] = client[d]
  BY DEF WriteStep, Becomes
<1>2. /\ client[c].at = "running" /\ client[c].todo # <<>> /\ Head(client[c].todo) = t
      /\ client'[c].at = "running" /\ client'[c].tx = client[c].tx /\ client'[c].todo = Tail(client[c].todo)
      /\ client[c].todo \in Todos
      /\ t = s => client[c].tx.op = "claim" /\ Has(c, s)
  BY WriteFacts DEF WriteStep
<1>3. Range(Tail(client[c].todo)) \subseteq Range(client[c].todo)
  BY <1>2, RangeTail
<1>4. t = s => s \notin Range(Tail(client[c].todo))
  <2>1. PICK todo : todo = client[c].todo
    OBVIOUS
  <2>2. SUFFICES ASSUME t = s PROVE s \notin Range(Tail(todo))
    BY <2>1
  <2>3. CASE s = "insert"
    <3>1. Tail(todo) \in {<<"count">>, <<"count", "close">>, <<"close">>}
      BY <1>2, <2>1, <2>2, <2>3, TodoFacts
    <3> QED
      BY <2>3, <3>1, RangeFacts
  <2>4. CASE s = "count"
    <3>1. Tail(todo) \in {<<>>, <<"close">>, <<"insert", "close">>}
      BY <1>2, <2>1, <2>2, <2>4, TodoFacts
    <3> QED
      BY <2>4, <3>1, RangeFacts
  <2> QED
    BY <2>3, <2>4
<1> QED
  BY <1>1, <1>2, <1>3, <1>4, SameOwed DEF Owed, Has

\* Quiet steps keep the rows within the payouts.
LEMMA RowsQuiet ==
  ASSUME Typed, Funds, ClientsOk, Rows, NEW c \in Clients, QuietStep(c)
  PROVE  Rows'
<1>1. UNCHANGED <<terms, utxo, payouts, row, claims, milestones>> /\ (retried => retried')
  BY QuietFacts DEF chain, db
<1>2. Creator \in Clients
  BY CFacts
<1>3. ASSUME ~retried', NEW s \in {"insert", "count"}, Owed(Creator, s)'
      PROVE  Owed(Creator, s) /\ client'[Creator].tx = client[Creator].tx
  BY <1>2, <1>3, QuietOwed
<1>4. RowTrails'
  <2>1. SUFFICES ASSUME terms.family # "airdrop", ~retried'
                 PROVE  row.count + One(Owed(Creator, "count"))' <= utxo.count
    BY <1>1 DEF RowTrails
  <2>2. row.count + One(Owed(Creator, "count")) <= utxo.count
    BY <1>1, <2>1 DEF Rows, RowTrails
  <2>3. row.count \in Nat /\ utxo.count \in Nat
    BY Numbers DEF Typed, Row
  <2>4. One(Owed(Creator, "count")') <= One(Owed(Creator, "count"))
    BY <1>3, <2>1 DEF One
  <2>5. One(Owed(Creator, "count")') \in Nat /\ One(Owed(Creator, "count")) \in Nat
    BY DEF One
  <2>6. row.count + One(Owed(Creator, "count")') <= utxo.count
    BY <2>2, <2>3, <2>4, <2>5
  <2> QED
    BY <2>6 DEF One
<1>5. AirdropRecords'
  BY <1>1 DEF Rows, AirdropRecords
<1>6. OtherRecords'
  <2>1. SUFFICES ASSUME terms.family # "airdrop", ~retried', NEW who \in Claimants
                 PROVE  claims[who] + One(Owed(Creator, "insert")' /\ client'[Creator].tx.who = who) <= payouts[who]
    BY <1>1 DEF OtherRecords, One
  <2>2. claims[who] + One(Owed(Creator, "insert") /\ client[Creator].tx.who = who) <= payouts[who]
    BY <1>1, <2>1 DEF Rows, OtherRecords
  <2>3. claims[who] \in Nat /\ payouts[who] \in Nat
    BY DEF Typed
  <2> QED
    BY <1>3, <2>1, <2>2, <2>3 DEF One
<1>7. MilestonesAreFresh'
  BY <1>1, <1>3 DEF Rows, MilestonesAreFresh
<1> QED
  BY <1>4, <1>5, <1>6, <1>7 DEF Rows

\* So does a mined payout, which adds to both sides.
LEMMA RowsMined ==
  ASSUME Typed, Funds, ClientsOk, Rows, NEW c \in Clients, MineStep(c)
  PROVE  Rows'
<1> DEFINE tx == client[c].tx
<1>1. UNCHANGED <<terms, row, claims, milestones, retried>> /\ Minable(c, tx) /\ Mined(tx)
  BY DEF MineStep, db, history
<1>2. Creator \in Clients
  BY CFacts
<1>3. /\ tx.op = "claim" => utxo'.count = utxo.count + 1 /\ tx.number = utxo'.count
      /\ utxo'.count >= utxo.count
      /\ \A w \in Claimants : payouts'[w] >= payouts[w]
  BY <1>1, MinedMoves DEF ChainMoves
<1>4. /\ tx.op = "claim" => tx.who \in Claimants /\ payouts'[tx.who] = payouts[tx.who] + 1
      /\ \A w \in Claimants : payouts[w] \in Nat /\ payouts'[w] \in Nat /\ claims[w] \in Nat
      /\ utxo'.count \in Nat /\ utxo.count \in Nat /\ row.count \in Nat
  <2>1. utxo' \in Utxo /\ payouts' \in [Claimants -> Nat]
    BY <1>1, MinedTypes
  <2> QED
    BY <1>1, <2>1, MinedTypes, Numbers DEF Typed, Utxo, Row
<1>5. ASSUME NEW s \in {"insert", "count"}, Owed(Creator, s)'
      PROVE  \/ Owed(Creator, s) /\ client'[Creator].tx = client[Creator].tx
             \/ c = Creator /\ ~Owed(Creator, s) /\ tx.op = "claim" /\ client'[Creator].tx = tx
  BY <1>2, <1>5, MineOwed
<1>6. RowTrails'
  <2>1. SUFFICES ASSUME terms.family # "airdrop", ~retried
                 PROVE  row.count + One(Owed(Creator, "count")') <= utxo'.count
    BY <1>1 DEF RowTrails, One
  <2>2. row.count + One(Owed(Creator, "count")) <= utxo.count
    BY <1>1, <2>1 DEF Rows, RowTrails
  <2> QED
    BY <1>3, <1>4, <1>5, <2>2 DEF One
<1>7. AirdropRecords'
  <2>1. SUFFICES ASSUME terms.family = "airdrop", NEW w \in Claimants PROVE claims[w] <= 1 /\ claims[w] <= payouts'[w]
    BY <1>1 DEF AirdropRecords
  <2>2. claims[w] <= 1 /\ claims[w] <= payouts[w]
    BY <2>1 DEF Rows, AirdropRecords
  <2> QED
    BY <1>3, <1>4, <2>2
<1>8. OtherRecords'
  <2>1. SUFFICES ASSUME terms.family # "airdrop", ~retried, NEW who \in Claimants
                 PROVE  claims[who] + One(Owed(Creator, "insert")' /\ client'[Creator].tx.who = who) <= payouts'[who]
    BY <1>1 DEF OtherRecords, One
  <2>2. claims[who] + One(Owed(Creator, "insert") /\ client[Creator].tx.who = who) <= payouts[who]
    BY <2>1 DEF Rows, OtherRecords
  <2> QED
    BY <1>3, <1>4, <1>5, <2>2 DEF One
<1>9. MilestonesAreFresh'
  <2>1. SUFFICES ASSUME terms.family = "grant"
                 PROVE  /\ \A n \in milestones : n <= utxo'.count
                        /\ ~retried /\ Owed(Creator, "insert")' => client'[Creator].tx.number \notin milestones
    BY <1>1 DEF MilestonesAreFresh
  <2>2. /\ \A n \in milestones : n \in Nat /\ n <= utxo.count
        /\ ~retried /\ Owed(Creator, "insert") => client[Creator].tx.number \notin milestones
    BY <2>1 DEF Rows, MilestonesAreFresh, Typed
  <2>3. \A n \in milestones : n <= utxo'.count
    BY <1>3, <1>4, <2>2
  <2>4. tx.op = "claim" => tx.number \notin milestones
    BY <1>3, <1>4, <2>2
  <2> QED
    BY <1>5, <2>2, <2>3, <2>4
<1> QED
  BY <1>6, <1>7, <1>8, <1>9 DEF Rows

\* So does a statement, which settles what was owed.
LEMMA RowsWritten ==
  ASSUME Typed, Funds, ClientsOk, Rows, NEW c \in Clients, NEW t, WriteStep(c, t)
  PROVE  Rows'
<1> DEFINE tx == client[c].tx
<1>1. UNCHANGED <<terms, utxo, payouts, retried>> /\ Effect(c, t)
  BY DEF WriteStep, chain, history
<1>2. Creator \in Clients
  BY CFacts
<1>3. /\ Shape(c, tx) /\ Happened(tx)
      /\ t \in {"insert", "count"} => tx.op = "claim"
  BY WriteFacts
<1>4. t \in {"insert", "count"} /\ terms.family # "airdrop" => c = Creator
  BY <1>3 DEF Shape
<1>5. /\ \A w \in Claimants : payouts[w] \in Nat /\ claims[w] \in Nat
      /\ utxo.count \in Nat /\ row.count \in Nat
  BY Numbers DEF Typed, Row
<1>6. \A s \in {"insert", "count"} :
        /\ Owed(Creator, s)' => Owed(Creator, s) /\ client'[Creator].tx = client[Creator].tx
        /\ t = s /\ terms.family # "airdrop" => Owed(Creator, s) /\ ~Owed(Creator, s)'
  BY <1>2, <1>4, WriteOwed
<1>7. t = "insert" => tx.who \in Claimants
  BY <1>3 DEF Shape
<1>8. RowTrails'
  <2>1. SUFFICES ASSUME terms.family # "airdrop", ~retried
                 PROVE  row'.count + One(Owed(Creator, "count")') <= utxo.count
    BY <1>1 DEF RowTrails, One
  <2>2. row.count + One(Owed(Creator, "count")) <= utxo.count
    BY <2>1 DEF Rows, RowTrails
  <2>3. row'.count = IF t = "count" THEN row.count + 1 ELSE row.count
    BY <1>1 DEF Effect, RowBecomes
  <2> QED
    BY <1>5, <1>6, <2>1, <2>2, <2>3 DEF One
<1>9. \/ /\ t = "insert" /\ ~Duplicate(tx)
         /\ \A w \in Claimants : claims'[w] = IF w = tx.who THEN claims[w] + 1 ELSE claims[w]
      \/ claims' = claims
  <2>1. ASSUME t = "insert", claims' = [claims EXCEPT ![tx.who] = @ + 1]
        PROVE  \A w \in Claimants : claims'[w] = IF w = tx.who THEN claims[w] + 1 ELSE claims[w]
    <3>1. claims \in [Claimants -> Nat]
      BY DEF Typed
    <3> QED
      BY <1>7, <2>1, <3>1
  <2> QED
    BY <1>1, <2>1 DEF Effect
<1>10. AirdropRecords'
  <2>1. SUFFICES ASSUME terms.family = "airdrop", NEW w \in Claimants PROVE claims'[w] <= 1 /\ claims'[w] <= payouts[w]
    BY <1>1 DEF AirdropRecords
  <2>2. claims[w] <= 1 /\ claims[w] <= payouts[w]
    BY <2>1 DEF Rows, AirdropRecords
  <2>3. CASE t = "insert" /\ w = tx.who /\ ~Duplicate(tx) /\ claims'[w] = claims[w] + 1
    <3>1. claims[w] = 0
      BY <1>5, <2>1, <2>3 DEF Duplicate
    <3>2. payouts[w] >= 1
      BY <1>3, <2>3 DEF Happened
    <3> QED
      BY <1>5, <2>3, <3>1, <3>2
  <2> QED
    BY <1>9, <2>2, <2>3
<1>11. OtherRecords'
  <2>1. SUFFICES ASSUME terms.family # "airdrop", ~retried, NEW who \in Claimants
                 PROVE  claims'[who] + One(Owed(Creator, "insert")' /\ client'[Creator].tx.who = who) <= payouts[who]
    BY <1>1 DEF OtherRecords, One
  <2>2. claims[who] + One(Owed(Creator, "insert") /\ client[Creator].tx.who = who) <= payouts[who]
    BY <2>1 DEF Rows, OtherRecords
  <2>3. \/ t = "insert" /\ claims'[who] = IF who = tx.who THEN claims[who] + 1 ELSE claims[who]
        \/ claims'[who] = claims[who]
    BY <1>9
  <2>4. t = "insert" => tx = client[Creator].tx
    BY <1>4, <2>1
  <2> QED
    BY <1>5, <1>6, <2>1, <2>2, <2>3, <2>4 DEF One
<1>12. MilestonesAreFresh'
  <2>1. SUFFICES ASSUME terms.family = "grant"
                 PROVE  /\ \A n \in milestones' : n <= utxo.count
                        /\ ~retried /\ Owed(Creator, "insert")' => client'[Creator].tx.number \notin milestones'
    BY <1>1 DEF MilestonesAreFresh
  <2>2. /\ \A n \in milestones : n <= utxo.count
        /\ ~retried /\ Owed(Creator, "insert") => client[Creator].tx.number \notin milestones
    BY <2>1 DEF Rows, MilestonesAreFresh
  <2>3. CASE milestones' = milestones
    BY <1>6, <2>2, <2>3
  <2>4. CASE t = "insert" /\ milestones' = milestones \cup {tx.number}
    <3>1. tx.number <= utxo.count
      BY <1>3, <2>4 DEF Happened
    <3>2. ~Owed(Creator, "insert")'
      BY <1>6, <2>1, <2>4
    <3> QED
      BY <2>2, <2>4, <3>1, <3>2
  <2> QED
    BY <1>1, <2>3, <2>4 DEF Effect
<1> QED
  BY <1>8, <1>10, <1>11, <1>12 DEF Rows

\* So does every step of a client.
LEMMA RowsKept ==
  ASSUME Typed, Funds, ClientsOk, Rows, NEW c \in Clients, Step(c)
  PROVE  Rows'
BY RowsQuiet, RowsMined, RowsWritten DEF Step, QuietStep

\* So does a resumption.
LEMMA RowsResumed ==
  ASSUME Typed, Funds, ClientsOk, Rows, NEW fee, Resumes(fee)
  PROVE  Rows'
<1>1. /\ UNCHANGED <<client, terms, payouts, row, claims, milestones, retried>>
      /\ utxo'.count = utxo.count
  BY Numbers DEF Resumes, Leaves, db, history
<1> QED
  BY <1>1 DEF Rows, RowTrails, AirdropRecords, OtherRecords, MilestonesAreFresh, Owed, Has, One

-----------------------------------------------------------------------------
(* The counter counts the records *)

Only(s, t) == {d \in Clients : Has(d, s) /\ ~Has(d, t)}
Records == IF terms.family = "grant" THEN Cardinality(milestones) ELSE SumFunctionOnSet(claims, Claimants)

\* The steps that leave everything counted as it is.
LEMMA CountsSame ==
  ASSUME CountsMatch, UNCHANGED <<terms, row, claims, milestones>>,
         retried => retried', interrupted => interrupted',
         ~interrupted' => \A d \in Clients : (Has(d, "count") /\ ~Has(d, "insert") <=> (Has(d, "count") /\ ~Has(d, "insert"))')
                                          /\ (Has(d, "insert") /\ ~Has(d, "count") <=> (Has(d, "insert") /\ ~Has(d, "count"))')
  PROVE  CountsMatch'
<1>1. SUFFICES ASSUME ~interrupted', terms.family = "grant" => ~retried' PROVE CountsMatch'
  BY DEF CountsMatch
<1>2. Only("count", "insert")' = Only("count", "insert") /\ Only("insert", "count")' = Only("insert", "count")
  BY <1>1 DEF Only
<1>3. ~interrupted /\ (terms.family = "grant" => ~retried)
  BY <1>1
<1>4. row.count + Cardinality(Only("count", "insert")) = Cardinality(Only("insert", "count")) + Records
  BY <1>3 DEF CountsMatch, Only, Records
<1>5. Records' = Records
  BY DEF Records
<1>6. row'.count + Cardinality(Only("count", "insert")') = Cardinality(Only("insert", "count")') + Records'
  BY <1>2, <1>4, <1>5
<1> QED
  BY <1>6 DEF CountsMatch, Only, Records

\* Who has which statement left depends on the list alone.
LEMMA SameHas ==
  ASSUME NEW d, NEW s, client'[d].todo = client[d].todo
  PROVE  Has(d, s)' <=> Has(d, s)
BY DEF Has

\* Quiet steps and mined transactions change nothing that is counted.
LEMMA CountsQuiet ==
  ASSUME Typed, Funds, ClientsOk, CountsMatch, NEW c \in Clients, QuietStep(c) \/ MineStep(c)
  PROVE  CountsMatch'
<1>1. UNCHANGED <<terms, row, claims, milestones>> /\ (retried => retried') /\ (interrupted => interrupted')
  <2>1. UNCHANGED <<terms, row, claims, milestones>> /\ (retried => retried')
    BY QuietFacts DEF MineStep, db, history
  <2>2. RetryStep(c) => (interrupted => interrupted')
    BY Zenon DEF RetryStep
  <2>3. SignStep(c) \/ DropStep(c) \/ ConfirmStep(c) \/ MineStep(c) => (interrupted => interrupted')
    BY DEF SignStep, DropStep, ConfirmStep, MineStep, history
  <2> QED
    BY <2>1, <2>2, <2>3 DEF QuietStep
<1>2. \A d \in Clients \ {c} : client'[d] = client[d]
  BY SignUpdate DEF QuietStep, SignStep, DropStep, ConfirmStep, RetryStep, MineStep, Becomes, Good, Shape, Typed
<1>3. \A d \in Clients \ {c} : (Has(d, "count")' <=> Has(d, "count")) /\ (Has(d, "insert")' <=> Has(d, "insert"))
  BY <1>2, SameHas
<1>4. ASSUME ~interrupted'
      PROVE  (Has(c, "count") <=> Has(c, "insert")) /\ (Has(c, "count")' <=> Has(c, "insert")')
  <2>1. CASE SignStep(c)
    <3>1. client[c].todo = <<>> /\ client'[c].todo = <<>>
      BY <2>1, SignUpdate DEF SignStep, Becomes, Good, Shape, Sign, At, Typed, ClientsOk, ClientOk
    <3> QED
      BY <3>1, RangeFacts DEF Has
  <2>2. CASE DropStep(c)
    <3>1. client'[c].todo = <<>> /\ (Has(c, "count") <=> Has(c, "insert"))
      BY <1>4, <2>2 DEF DropStep, Becomes
    <3> QED
      BY <3>1, RangeFacts DEF Has
  <2>3. CASE ConfirmStep(c)
    <3>1. client[c].todo = <<>> /\ client'[c].todo = Statements(client[c].tx) /\ Shape(c, client[c].tx)
      BY <2>3 DEF ConfirmStep, Becomes, ClientsOk, ClientOk
    <3>2. CASE client[c].tx.op = "claim"
      BY <3>1, <3>2, BothStatements, RangeFacts DEF Has, Typed
    <3>3. CASE client[c].tx.op # "claim"
      <4>1. Statements(client[c].tx) \in Remainders(client[c].tx) /\ Statements(client[c].tx) \in Todos
        BY <3>1, StatementsFit DEF Typed
      <4>2. Statements(client[c].tx) \in {<<"active">>, <<"paused">>, <<"cancelled">>, <<"recipient">>}
        BY <3>1, <3>3, PlainStatements DEF Typed
      <4> QED
        BY <3>1, <4>2, RangeFacts DEF Has
    <3> QED
      BY <3>2, <3>3
  <2>4. CASE RetryStep(c)
    <3>1. client'[c].todo = <<>> /\ interrupted' = (interrupted \/ client[c].todo # <<>>)
      BY <2>4 DEF RetryStep, Becomes
    <3>2. ~(client[c].todo # <<>>)
      BY <1>4, <3>1, Zenon
    <3> QED
      BY <3>1, <3>2, RangeFacts DEF Has
  <2>5. CASE MineStep(c)
    <3>1. client[c].todo = <<>> /\ client'[c].todo = <<>>
      BY <2>5 DEF MineStep, Becomes, ClientsOk, ClientOk
    <3> QED
      BY <3>1, RangeFacts DEF Has
  <2> QED
    BY <2>1, <2>2, <2>3, <2>4, <2>5 DEF QuietStep
<1> QED
  BY <1>1, <1>3, <1>4, CountsSame

\* One more or one less.
LEMMA OneMore ==
  ASSUME NEW S, IsFiniteSet(S), NEW T, NEW x
  PROVE  /\ x \notin S /\ T = S \cup {x} => Cardinality(T) = Cardinality(S) + 1
         /\ x \in S /\ T = S \ {x} => Cardinality(S) = Cardinality(T) + 1
         /\ Cardinality(S) \in Nat
BY FS_AddElement, FS_RemoveElement, FS_CardinalityType

\* Only finitely many clients are between two statements.
LEMMA OnlyFinite ==
  ASSUME NEW s, NEW t
  PROVE  IsFiniteSet(Only(s, t))
BY CFacts, FS_AddElement, FS_Subset DEF Only

\* Sets that agree about everyone else differ in c alone.
LEMMA OneMoves ==
  ASSUME NEW A \in SUBSET Clients, NEW B \in SUBSET Clients, NEW c \in Clients,
         \A d \in Clients \ {c} : d \in B <=> d \in A
  PROVE  /\ c \in A /\ c \notin B => B = A \ {c}
         /\ c \notin A /\ c \in B => B = A \cup {c}
         /\ (c \in A <=> c \in B) => B = A
OBVIOUS

\* A statement that counts or records moves its client from one side to the other.
LEMMA CountsWritten ==
  ASSUME Typed, Funds, ClientsOk, Rows, CountsMatch, IsFiniteSet(milestones), NEW c \in Clients, NEW t, WriteStep(c, t)
  PROVE  CountsMatch'
<1> DEFINE tx == client[c].tx
           todo == client[c].todo
<1>1. UNCHANGED <<terms, retried, interrupted>> /\ Effect(c, t)
  BY DEF WriteStep, history
<1>2. /\ Shape(c, tx) /\ todo \in Remainders(tx) /\ todo \in Todos /\ todo # <<>> /\ Head(todo) = t
      /\ t \in {"insert", "count"} => tx.op = "claim"
      /\ client'[c].todo = Tail(todo)
  BY WriteFacts DEF WriteStep
<1>3. \A d \in Clients \ {c} : (Has(d, "count")' <=> Has(d, "count")) /\ (Has(d, "insert")' <=> Has(d, "insert"))
  BY SameHas DEF WriteStep, Becomes
<1>4. SUFFICES ASSUME ~interrupted, terms.family = "grant" => ~retried PROVE CountsMatch'
  BY <1>1 DEF CountsMatch
<1> DEFINE CO == Only("count", "insert")
           IO == Only("insert", "count")
<1>5. row.count + Cardinality(CO) = Cardinality(IO) + Records
  BY <1>4 DEF CountsMatch, Only, Records
<1>6. SUFFICES row'.count + Cardinality(CO') = Cardinality(IO') + Records'
  BY DEF CountsMatch, Only, Records
<1>7. /\ \A d \in Clients \ {c} : (d \in CO' <=> d \in CO) /\ (d \in IO' <=> d \in IO)
      /\ CO \subseteq Clients /\ IO \subseteq Clients /\ CO' \subseteq Clients /\ IO' \subseteq Clients
      /\ c \in CO <=> Has(c, "count") /\ ~Has(c, "insert")
      /\ c \in IO <=> Has(c, "insert") /\ ~Has(c, "count")
      /\ c \in CO' <=> (Has(c, "count") /\ ~Has(c, "insert"))'
      /\ c \in IO' <=> (Has(c, "insert") /\ ~Has(c, "count"))'
  BY <1>3 DEF Only
<1>8. IsFiniteSet(CO) /\ IsFiniteSet(IO) /\ row.count \in Nat
  BY OnlyFinite DEF Typed, Row
<1>9. Records \in Nat /\ Cardinality(CO) \in Nat /\ Cardinality(IO) \in Nat
  <2>1. SumFunctionOnSet(claims, Claimants) \in Nat
    BY CFacts, SumNat DEF Typed
  <2> QED
    BY <1>8, <2>1, FS_CardinalityType DEF Records
<1> HIDE DEF CO, IO, tx, todo
<1>h. /\ \A s : Has(c, s) <=> s \in Range(todo)
      /\ \A s : Has(c, s)' <=> s \in Range(Tail(todo))
  BY <1>2 DEF Has, todo
<1>m. /\ c \in CO <=> "count" \in Range(todo) /\ "insert" \notin Range(todo)
      /\ c \in IO <=> "insert" \in Range(todo) /\ "count" \notin Range(todo)
      /\ c \in CO' <=> "count" \in Range(Tail(todo)) /\ "insert" \notin Range(Tail(todo))
      /\ c \in IO' <=> "insert" \in Range(Tail(todo)) /\ "count" \notin Range(Tail(todo))
  BY <1>7, <1>h
<1>n. /\ c \in CO /\ c \notin CO' => CO' = CO \ {c}
      /\ c \notin CO /\ c \in CO' => CO' = CO \cup {c}
      /\ (c \in CO <=> c \in CO') => CO' = CO
      /\ c \in IO /\ c \notin IO' => IO' = IO \ {c}
      /\ c \notin IO /\ c \in IO' => IO' = IO \cup {c}
      /\ (c \in IO <=> c \in IO') => IO' = IO
  <2>1. PICK K, L : K = CO' /\ L = IO'
    OBVIOUS
  <2>2. /\ c \in CO /\ c \notin K => K = CO \ {c}
        /\ c \notin CO /\ c \in K => K = CO \cup {c}
        /\ (c \in CO <=> c \in K) => K = CO
    <3>1. CO \in SUBSET Clients /\ K \in SUBSET Clients
      BY <1>7, <2>1
    <3>2. \A d \in Clients \ {c} : d \in K <=> d \in CO
      BY <1>7, <2>1
    <3> QED
      BY <3>1, <3>2, OneMoves
  <2>3. /\ c \in IO /\ c \notin L => L = IO \ {c}
        /\ c \notin IO /\ c \in L => L = IO \cup {c}
        /\ (c \in IO <=> c \in L) => L = IO
    <3>1. IO \in SUBSET Clients /\ L \in SUBSET Clients
      BY <1>7, <2>1
    <3>2. \A d \in Clients \ {c} : d \in L <=> d \in IO
      BY <1>7, <2>1
    <3> QED
      BY <3>1, <3>2, OneMoves
  <2> QED
    BY <2>1, <2>2, <2>3
<1>10. ASSUME t = "insert", terms.family # "grant"
       PROVE  row'.count + Cardinality(CO') = Cardinality(IO') + Records'
  <2>1. todo \in {<<"insert", "count">>, <<"insert", "count", "close">>} /\ Tail(todo) \in {<<"count">>, <<"count", "close">>}
    <3>1. todo # <<"insert", "close">>
      BY <1>2, <1>10, NoInsertClose DEF Typed
    <3> QED
      BY <1>2, <1>10, <3>1, TodoFacts
  <2>2. CO' = CO \cup {c} /\ c \notin CO /\ IO' = IO
    <3>1. c \notin CO /\ c \in CO' /\ c \notin IO /\ c \notin IO'
      BY <1>m, <2>1, RangeFacts
    <3> QED
      BY <1>n, <3>1
  <2>3. row' = row /\ claims' = [claims EXCEPT ![tx.who] = @ + 1]
    BY <1>1, <1>10 DEF Effect, tx
  <2>4. SumFunctionOnSet(claims', Claimants) = SumFunctionOnSet(claims, Claimants) + 1
    <3>1. claims \in [Claimants -> Nat] /\ tx.who \in Claimants
      BY <1>2, <1>10 DEF Typed, Shape
    <3>2. PICK g : g = claims'
      OBVIOUS
    <3>3. PICK w : w = tx.who
      OBVIOUS
    <3>4. /\ \A x \in Claimants : claims[x] \in Nat /\ g[x] \in Nat
          /\ \A x \in Claimants : x # w => claims[x] = g[x]
          /\ w \in Claimants /\ g[w] = claims[w] + 1
      BY <2>3, <3>1, <3>2, <3>3
    <3>5. SumFunctionOnSet(g, Claimants) = SumFunctionOnSet(claims, Claimants) - claims[w] + g[w]
      BY <3>4, SumUpdate, CFacts
    <3>6. SumFunctionOnSet(claims, Claimants) \in Nat
      BY <3>4, SumNat, CFacts
    <3> QED
      BY <3>2, <3>4, <3>5, <3>6
  <2>5. Records' = Records + 1
    BY <1>1, <1>10, <2>4 DEF Records
  <2>6. Cardinality(CO') = Cardinality(CO) + 1
    BY <1>8, <2>2, OneMore
  <2> QED
    BY <1>5, <1>8, <1>9, <2>2, <2>3, <2>5, <2>6
<1>11. ASSUME t = "insert", terms.family = "grant"
       PROVE  row'.count + Cardinality(CO') = Cardinality(IO') + Records'
  <2>1. todo = <<"insert", "close">> /\ Tail(todo) = <<"close">>
    <3>1. todo \in {<<"count", "insert", "close">>, <<"insert", "close">>, <<"close">>, <<>>}
      BY <1>2, <1>11 DEF Remainders
    <3> QED
      BY <1>2, <1>11, <3>1, TodoFacts
  <2>2. IO' = IO \ {c} /\ c \in IO /\ CO' = CO
    <3>1. c \in IO /\ c \notin IO' /\ c \notin CO /\ c \notin CO'
      BY <1>m, <2>1, RangeFacts
    <3> QED
      BY <1>n, <3>1
  <2>3. row' = row /\ milestones' = milestones \cup {tx.number}
    BY <1>1, <1>11 DEF Effect, tx
  <2>4. tx.number \notin milestones
    <3>1. c = Creator
      BY <1>2, <1>11 DEF Shape
    <3>2. Owed(Creator, "insert")
      BY <1>11, <3>1, WriteOwed
    <3> QED
      BY <1>4, <1>11, <3>1, <3>2 DEF Rows, MilestonesAreFresh, tx
  <2>5. Cardinality(milestones') = Cardinality(milestones) + 1
    BY <2>3, <2>4, OneMore
  <2>6. Records' = Records + 1
    BY <1>1, <1>11, <2>5 DEF Records
  <2>7. Cardinality(IO) = Cardinality(IO') + 1 /\ Cardinality(IO') \in Nat
    <3>1. IsFiniteSet(IO')
      BY <1>8, <2>2, FS_RemoveElement
    <3> QED
      BY <1>8, <2>2, <3>1, OneMore, FS_CardinalityType
  <2> QED
    BY <1>5, <1>8, <1>9, <2>2, <2>3, <2>6, <2>7
<1>12. ASSUME t = "count"
       PROVE  row'.count + Cardinality(CO') = Cardinality(IO') + Records'
  <2>1. row'.count = row.count + 1 /\ UNCHANGED <<claims, milestones>>
    BY <1>1, <1>12 DEF Effect, RowBecomes
  <2>2. Records' = Records
    BY <1>1, <2>1 DEF Records
  <2>3. CASE todo \in {<<"count">>, <<"count", "close">>} /\ Tail(todo) \in {<<>>, <<"close">>}
    <3>1. CO' = CO \ {c} /\ c \in CO /\ IO' = IO
      <4>1. c \in CO /\ c \notin CO' /\ c \notin IO /\ c \notin IO'
        BY <1>m, <2>3, RangeFacts
      <4> QED
        BY <1>n, <4>1
    <3>2. IsFiniteSet(CO')
      BY <1>8, <3>1, FS_RemoveElement
    <3>3. Cardinality(CO) = Cardinality(CO') + 1 /\ Cardinality(CO') \in Nat
      BY <1>8, <3>1, <3>2, OneMore, FS_CardinalityType
    <3> QED
      BY <1>5, <1>8, <1>9, <2>1, <2>2, <3>1, <3>3
  <2>4. CASE todo = <<"count", "insert", "close">> /\ Tail(todo) = <<"insert", "close">>
    <3>1. IO' = IO \cup {c} /\ c \notin IO /\ CO' = CO
      <4>1. c \notin IO /\ c \in IO' /\ c \notin CO /\ c \notin CO'
        BY <1>m, <2>4, RangeFacts
      <4> QED
        BY <1>n, <4>1
    <3>2. Cardinality(IO') = Cardinality(IO) + 1
      BY <1>8, <3>1, OneMore
    <3> QED
      BY <1>5, <1>8, <1>9, <2>1, <2>2, <3>1, <3>2
  <2> QED
    BY <1>2, <1>12, <2>3, <2>4, TodoFacts
<1>13. ASSUME t \in {"close", "active", "paused", "cancelled", "recipient"}
       PROVE  row'.count + Cardinality(CO') = Cardinality(IO') + Records'
  <2>1. row'.count = row.count /\ UNCHANGED <<claims, milestones>>
    BY <1>1, <1>13 DEF Effect, RowBecomes
  <2>2. Records' = Records
    BY <1>1, <2>1 DEF Records
  <2>3. todo \in {<<"close">>, <<"active">>, <<"paused">>, <<"cancelled">>, <<"recipient">>} /\ Tail(todo) = <<>>
    BY <1>2, <1>13, TodoFacts
  <2>4. CO' = CO /\ IO' = IO
    <3>1. c \notin IO /\ c \notin IO' /\ c \notin CO /\ c \notin CO'
      BY <1>m, <2>3, RangeFacts
    <3> QED
      BY <1>n, <3>1
  <2> QED
    BY <1>5, <2>1, <2>2, <2>4
<1>14. t \in {"insert", "count", "close", "active", "paused", "cancelled", "recipient"}
  BY <1>1 DEF Effect
<1> QED
  BY <1>10, <1>11, <1>12, <1>13, <1>14

\* Every step of a client keeps the counter in line.
LEMMA CountsKept ==
  ASSUME Typed, Funds, ClientsOk, Rows, IsFiniteSet(milestones), CountsMatch, NEW c \in Clients, Step(c)
  PROVE  CountsMatch' /\ IsFiniteSet(milestones')
<1>1. CASE QuietStep(c) \/ MineStep(c)
  BY <1>1, CountsQuiet, QuietFacts DEF MineStep, db
<1>2. ASSUME NEW t, WriteStep(c, t) PROVE CountsMatch' /\ IsFiniteSet(milestones')
  <2>1. milestones' = milestones \/ milestones' = milestones \cup {client[c].tx.number}
    BY <1>2 DEF WriteStep, Effect
  <2> QED
    BY <1>2, <2>1, CountsWritten, FS_AddElement
<1> QED
  BY <1>1, <1>2 DEF Step, QuietStep

\* So does a resumption.
LEMMA CountsResumed ==
  ASSUME Typed, Funds, CountsMatch, NEW fee, Resumes(fee)
  PROVE  CountsMatch'
<1>1. UNCHANGED <<client, terms, row, claims, milestones, retried, interrupted>>
  BY DEF Resumes, db, history
<1> QED
  BY <1>1, CountsSame, SameHas

-----------------------------------------------------------------------------
(* The invariant *)

\* A new campaign has paid nothing and owes nothing.
LEMMA InitInv == Init => IInv
<1> SUFFICES ASSUME Init PROVE IInv
  OBVIOUS
<1>1. PICK who \in IF terms.family = "grant" THEN Claimants ELSE {Nobody} :
        utxo = deployed(who) /\ row = create_row(who)
  BY DEF Init
<1>2. /\ terms \in Created /\ client = [c \in Clients |-> Idle]
      /\ claims = [w \in Claimants |-> 0] /\ paid = [w \in Claimants |-> 0]
      /\ payouts = [w \in Claimants |-> 0]
      /\ milestones = {} /\ refund = 0 /\ retried = FALSE /\ interrupted = FALSE
  BY DEF Init, LifecycleInit
<1>3. /\ terms.family \in {"airdrop", "reward", "bounty", "grant"}
      /\ Pool \in Nat /\ Pool >= 1
  BY <1>2, TFacts
<1>4. /\ utxo.status = "UNFUNDED" /\ utxo.released = 0 /\ utxo.count = 0 /\ utxo.value = 0
      /\ utxo.id = 0 /\ utxo.resumed = 0 /\ utxo.recipient = who
      /\ row.status = "PENDING" /\ row.count = 0 /\ row.total = 0 /\ row.recipient = who
  BY <1>1 DEF deployed, create_row
<1>5. \A c \in Clients : /\ client[c].at = "idle" /\ client[c].tx = NoTx /\ client[c].todo = <<>>
                         /\ client[c].tries = 0
  BY <1>2 DEF Idle
<1>6. Typed
  <2>1. utxo \in Utxo /\ row \in Row
    BY <1>1 DEF deployed, create_row, Utxo, Row, Statuses, RowStatuses
  <2>2. Idle \in Client
    BY DEF Idle, Client, Places, Todos
  <2>3. client \in [Clients -> Client]
    BY <1>2, <2>2
  <2> QED
    BY <1>1, <1>2, <1>3, <1>4, <2>1, <2>3 DEF Typed
<1>7. SumFunctionOnSet(claims, Claimants) = 0 /\ PaidOut = 0
  <2>1. \A w \in Claimants : claims[w] = 0 /\ paid[w] = 0
    BY <1>2
  <2> QED
    BY <2>1, SumZero, CFacts DEF PaidOut
<1>8. Funds
  BY <1>2, <1>3, <1>4, <1>7, CFacts DEF Funds, FundsAddUp, AirdropGap, ReserveIsKept, PaidFeesLeaveReserve,
     OwnFeesErodeReserve
<1>9. ClientsOk
  BY <1>5 DEF ClientsOk, ClientOk
<1>10. \A c \in Clients : ~Has(c, "count") /\ ~Has(c, "insert")
  BY <1>5, RangeFacts DEF Has
<1>11. Rows
  <2>1. ~Owed(Creator, "count") /\ ~Owed(Creator, "insert")
    BY <1>5, CFacts DEF Owed
  <2>2. \A w \in Claimants : claims[w] = 0 /\ payouts[w] = 0
    BY <1>2
  <2> QED
    BY <1>2, <1>4, <2>1, <2>2 DEF Rows, RowTrails, AirdropRecords, OtherRecords, MilestonesAreFresh, One
<1>12. CountsMatch
  <2>1. {c \in Clients : Has(c, "count") /\ ~Has(c, "insert")} = {}
    BY <1>10
  <2>2. {c \in Clients : Has(c, "insert") /\ ~Has(c, "count")} = {}
    BY <1>10
  <2>3. Cardinality({}) = 0
    BY FS_EmptySet
  <2>4. row.count + 0 = 0 + 0
    BY <1>4
  <2> QED
    BY <1>2, <1>7, <2>1, <2>2, <2>3, <2>4 DEF CountsMatch
<1>13. RowTrailsChain
  BY <1>4 DEF RowTrailsChain
<1> QED
  BY <1>2, <1>6, <1>8, <1>9, <1>11, <1>12, <1>13, FS_EmptySet DEF IInv

\* Every step keeps the invariant.
LEMMA NextInv == IInv /\ [Next]_vars => IInv'
<1> SUFFICES ASSUME IInv, [Next]_vars PROVE IInv'
  OBVIOUS
<1> USE DEF IInv
<1>1. ASSUME NEW c \in Clients, Step(c) PROVE IInv'
  BY <1>1, StepTypes, FundsKept, ClientsKept, RowsKept, CountsKept, TrailsKept
<1>2. ASSUME NEW fee, Resumes(fee) PROVE IInv'
  <2>1. milestones' = milestones
    BY <1>2 DEF Resumes, db
  <2> QED
    BY <1>2, <2>1, ResumeTypes, ResumeKeepsFunds, ResumeOk, RowsResumed, CountsResumed, ResumeTrails
<1>3. CASE UNCHANGED vars
  <2>1. UNCHANGED <<client, terms, utxo, paid, payouts, refund, row, claims, milestones, retried, interrupted>>
    BY <1>3 DEF vars, chain, db, history
  <2>2. Typed'
    BY <2>1, TypedKept DEF Typed
  <2>3. Funds'
    BY <2>1 DEF Funds, FundsAddUp, AirdropGap, ReserveIsKept, PaidFeesLeaveReserve, OwnFeesErodeReserve,
       PaidOut, Remaining, Pool
  <2>4. ClientsOk'
    BY <2>1, <2>2, BystanderOk DEF ClientsOk
  <2>5. Rows'
    BY <2>1 DEF Rows, RowTrails, AirdropRecords, OtherRecords, MilestonesAreFresh, Owed, Has, One
  <2>6. CountsMatch' /\ RowTrailsChain'
    BY <2>1, CountsSame, SameHas DEF RowTrailsChain
  <2> QED
    BY <2>1, <2>2, <2>3, <2>4, <2>5, <2>6
<1> QED
  BY <1>1, <1>2, <1>3, NextSteps

\* Every reachable state is as the invariant says.
THEOREM CampaignsInvariant == Spec => []IInv
BY InitInv, NextInv, PTL DEF Spec

-----------------------------------------------------------------------------
(* What the runs check *)

\* Nobody was paid more than was released.
LEMMA PaidWithinPool ==
  ASSUME IInv
  PROVE  paid \in [Claimants -> 0 .. Pool]
<1>1. paid \in [Claimants -> Nat] /\ PaidOut = utxo.released /\ utxo.released <= Pool
      /\ utxo.released \in Nat /\ Pool \in Nat
  BY Numbers DEF IInv, Typed, Funds, FundsAddUp
<1>2. ASSUME NEW w \in Claimants PROVE paid[w] <= Pool
  <2>1. SumFunctionOnSet(paid, Claimants) = paid[w] + SumFunctionOnSet(paid, Claimants \ {w})
    BY <1>1, SumRemove, CFacts
  <2>2. SumFunctionOnSet(paid, Claimants \ {w}) \in Nat
    <3>1. IsFiniteSet(Claimants \ {w})
      BY CFacts, FS_Subset
    <3> QED
      BY <1>1, <3>1, SumNat
  <2> QED
    BY <1>1, <2>1, <2>2 DEF PaidOut
<1>3. \A w \in Claimants : paid[w] \in 0 .. Pool
  BY <1>1, <1>2
<1> QED
  BY <1>1, <1>3

\* The invariant bounds what the chain and the rows hold.
LEMMA InvTypes == IInv => TypeOK
<1> SUFFICES ASSUME IInv PROVE TypeOK
  OBVIOUS
<1>1. /\ utxo.released \in 0 .. Pool /\ utxo.value \in 0 .. Pool + Reserve
      /\ utxo.status \in {"UNFUNDED", "ACTIVE", "PAUSED", "COMPLETED", "CANCELLED"}
  BY Numbers DEF IInv, Reserve, Statuses
<1>2. \A c \in Clients : client[c].tx = NoTx \/ client[c].tx \in Txs
  BY DEF IInv, Typed, Client
<1>3. /\ row.status \in {"PENDING", "ACTIVE", "PAUSED", "COMPLETED", "CANCELLED"}
      /\ row.recipient \in Claimants \cup {Nobody} /\ utxo.recipient \in Claimants \cup {Nobody}
  BY DEF IInv, Typed, Row, RowStatuses, Utxo
<1> QED
  BY <1>1, <1>2, <1>3, PaidWithinPool DEF TypeOK, IInv, Typed

\* A bounty that has not paid Slots winners still holds a share for one more.
LEMMA BountyCovers ==
  ASSUME NEW n \in Nat, NEW slots \in Nat, NEW share \in Nat, n < slots
  PROVE  share <= slots * share - n * share
<1>1. PICK k \in Nat : slots = n + 1 + k
  <2>1. slots - n - 1 \in Nat /\ slots = n + 1 + (slots - n - 1)
    OBVIOUS
  <2> QED
    BY <2>1
<1>2. slots * share = n * share + share + k * share
  BY <1>1
<1>3. k * share \in Nat /\ n * share \in Nat
  BY <1>1
<1> QED
  BY <1>2, <1>3

\* A payout the builder fitted to the UTXO is what the contract asks.
LEMMA ClaimAgrees ==
  ASSUME IInv, NEW c \in Clients, NEW tx, Shape(c, tx), FitsClaim(tx), tx.spends = utxo.id
  PROVE  Accepts(tx) <=> ~Misbuilt(tx)
<1>1. /\ tx.op = "claim" /\ utxo.status = "ACTIVE" /\ tx.pay \in Nat /\ tx.keep \in Nat /\ tx.outs \in 1 .. 3
      /\ tx.keep = utxo.value - tx.pay - PayoutFee
  BY ShapeNumbers DEF FitsClaim, Shape, Txs, IInv
<1>2. terms.family \in {"airdrop", "reward", "bounty", "grant"} /\ utxo.value \in Nat /\ Remaining \in Nat
      /\ utxo.count \in Nat /\ Share \in Nat /\ Slots \in Nat
  BY TFacts, Numbers, CFacts DEF IInv, Typed
<1>3. FeeOf(tx) \in 0 .. FeeCap
  BY <1>1, <1>2 DEF FeeOf, FeeCap, PayoutFee, SelfFee
<1>4. tx.outs <= Outputs[terms.family][tx.op]
  <2>1. /\ terms.family = "airdrop" => Outputs[terms.family][tx.op] = 2
        /\ terms.family = "reward" => Outputs[terms.family][tx.op] = 3
        /\ terms.family = "bounty" => Outputs[terms.family][tx.op] = 3
        /\ terms.family = "grant" => Outputs[terms.family][tx.op] = 2
    BY <1>1 DEF Outputs, AirdropCovenant, RewardCovenant, BountyCovenant, GrantCovenant
  <2> QED
    BY <1>1, <1>2, <2>1 DEF FitsClaim
<1>5. Accepts(tx) <=> claim(tx)
  BY <1>1, <1>3, <1>4 DEF Accepts, claim, pause, cancel, transfer
<1>6. Misbuilt(tx) <=> terms.family = "grant" /\ (tx.who # utxo.recipient \/ Share > Remaining)
  BY <1>1 DEF Misbuilt
<1>7. CASE terms.family \in {"airdrop", "reward"}
  BY <1>1, <1>2, <1>5, <1>6, <1>7 DEF FitsClaim, claim, PayoutRule, airdrop_claim, reward
<1>8. CASE terms.family = "bounty"
  <2>1. tx.pay = Share /\ utxo.count < Slots
    BY <1>8 DEF FitsClaim
  <2>2. Remaining = Slots * Share - utxo.count * Share
    BY <1>8, TFacts DEF IInv, Typed, Funds, FundsAddUp, Remaining
  <2>3. Share <= Remaining
    BY <1>2, <2>1, <2>2, BountyCovers
  <2> QED
    BY <1>1, <1>5, <1>6, <1>8, <2>1, <2>3 DEF claim, PayoutRule, bounty_claim
<1>9. CASE terms.family = "grant"
  <2>1. tx.pay = Share /\ utxo.count < Slots
    BY <1>9 DEF FitsClaim
  <2>2. claim(tx) <=> Share <= Remaining /\ tx.who = utxo.recipient
    BY <1>1, <1>9, <2>1 DEF claim, PayoutRule, releaseMilestone
  <2> QED
    BY <1>2, <1>5, <1>6, <1>9, <2>2
<1> QED
  BY <1>2, <1>7, <1>8, <1>9

\* So are a pause and, with one output, a transfer.
LEMMA StateAgrees ==
  ASSUME IInv, NEW c \in Clients, NEW tx, Shape(c, tx), FitsPause(tx) \/ FitsTransfer(tx), tx.spends = utxo.id
  PROVE  Accepts(tx) <=> ~Misbuilt(tx)
<1>1. /\ tx.op \in {"pause", "transfer"} /\ utxo.status = "ACTIVE" /\ tx.pay = 0 /\ tx.keep \in Nat
      /\ tx.outs \in 1 .. 3
      /\ tx.op = "transfer" => terms.family = "grant"
  BY ShapeNumbers DEF FitsPause, FitsTransfer, Shape, Txs, IInv
<1>2. terms.family \in {"airdrop", "reward", "bounty", "grant"} /\ utxo.value \in Nat
  BY TFacts, Numbers DEF IInv, Typed
<1>3. FeeOf(tx) \in 0 .. FeeCap
  <2>1. tx.keep = utxo.value - PauseFee \/ tx.keep = utxo.value
    BY DEF FitsPause, FitsTransfer
  <2> QED
    BY <1>1, <1>2, <2>1 DEF FeeOf, FeeCap, PauseFee, SelfFee
<1>4. CASE tx.op = "pause"
  <2>1. /\ terms.family = "reward" => Outputs[terms.family][tx.op] = 2
        /\ terms.family # "reward" => Outputs[terms.family][tx.op] = 1
    BY <1>2, <1>4 DEF Outputs, AirdropCovenant, RewardCovenant, BountyCovenant, GrantCovenant
  <2>2. /\ terms.cancelable
        /\ tx.outs \in IF terms.family = "reward" THEN {1, 2} ELSE {1}
    BY <1>4 DEF FitsPause, FitsTransfer
  <2>3. tx.outs <= Outputs[terms.family][tx.op]
    BY <2>1, <2>2
  <2>4. Accepts(tx)
    BY <1>1, <1>3, <1>4, <2>2, <2>3 DEF Accepts, pause
  <2>5. ~Misbuilt(tx)
    BY <1>4 DEF Misbuilt
  <2> QED
    BY <2>4, <2>5
<1>5. CASE tx.op = "transfer"
  <2>1. Outputs[terms.family][tx.op] = 1
    BY <1>1, <1>5 DEF Outputs, GrantCovenant
  <2>2. terms.transferable
    BY <1>5 DEF FitsPause, FitsTransfer
  <2>3. Accepts(tx) <=> tx.outs <= 1
    BY <1>1, <1>3, <1>5, <2>1, <2>2 DEF Accepts, transfer, claim, pause, cancel
  <2>4. Misbuilt(tx) <=> tx.outs > 1
    BY <1>5 DEF Misbuilt
  <2> QED
    BY <1>1, <2>3, <2>4
<1> QED
  BY <1>1, <1>4, <1>5

\* A cancellation is, but for its number of outputs.
LEMMA CancelAgrees ==
  ASSUME IInv, NEW c \in Clients, NEW tx, Shape(c, tx), FitsCancel(tx), tx.spends = utxo.id
  PROVE  Accepts(tx) <=> ~Misbuilt(tx)
<1>1. /\ tx.op = "cancel" /\ utxo.status \in {"ACTIVE", "PAUSED"} /\ terms.cancelable
      /\ tx.keep = 0 /\ tx.pay = Remaining /\ Remaining > 0 /\ Remaining + CancelFee <= utxo.value
      /\ tx.outs \in 1 .. 3
  BY DEF FitsCancel, Shape, Txs
<1>2. /\ terms.family \in {"airdrop", "reward", "bounty", "grant"} /\ utxo.value \in Nat /\ Remaining \in Nat
      /\ Pool \in Nat /\ utxo.released \in Nat
  BY TFacts, Numbers DEF IInv, Typed
<1>3. FeeOf(tx) \in 0 .. FeeCap
  <2>1. utxo.value + utxo.released <= Pool + Reserve
    BY <1>1 DEF IInv, Funds, FundsAddUp
  <2>2. utxo.value - Remaining <= 5
    BY <1>2, <2>1 DEF Remaining, Reserve
  <2>3. Remaining <= utxo.value
    BY <1>1, <1>2 DEF CancelFee, SelfFee
  <2> QED
    BY <1>1, <1>2, <2>2, <2>3 DEF FeeOf, FeeCap
<1>4. /\ terms.family = "airdrop" => Outputs[terms.family][tx.op] = 1
      /\ terms.family = "reward" => Outputs[terms.family][tx.op] = 2
      /\ terms.family = "bounty" => Outputs[terms.family][tx.op] = 2
      /\ terms.family = "grant" => Outputs[terms.family][tx.op] = 9
  BY <1>1 DEF Outputs, AirdropCovenant, RewardCovenant, BountyCovenant, GrantCovenant, Many
<1>5. Accepts(tx) <=> tx.outs <= Outputs[terms.family][tx.op]
  BY <1>1, <1>3 DEF Accepts, cancel, claim, pause, transfer
<1>6. Misbuilt(tx) <=> terms.family = "airdrop" \/ (terms.family = "bounty" /\ tx.outs > 2)
  BY <1>1 DEF Misbuilt
<1>7. terms.family = "airdrop" => tx.outs > 1
  <2>1. SUFFICES ASSUME terms.family = "airdrop" PROVE utxo.value # Remaining
    BY DEF FitsCancel
  <2>2. \/ utxo.value = Remaining + Reserve
        \/ utxo.value = Remaining + Reserve - SelfFee
        \/ utxo.value < Remaining
    BY <1>1, <2>1 DEF IInv, Funds, AirdropGap
  <2> QED
    BY <1>2, <2>2 DEF Reserve, SelfFee
<1>8. terms.family = "reward" => tx.outs <= 2
  BY DEF FitsCancel
<1> QED
  BY <1>1, <1>2, <1>4, <1>5, <1>6, <1>7, <1>8

\* A transaction the builder fitted to the UTXO is one the contract accepts, but for those listed.
LEMMA InvAgrees == IInv => BuilderAgrees
<1> SUFFICES ASSUME IInv, NEW c \in Clients,
                    At(c, "signing"), client[c].tx.op # "fund", client[c].tx.spends = utxo.id
             PROVE  Accepts(client[c].tx) <=> ~Misbuilt(client[c].tx)
  BY DEF BuilderAgrees
<1>1. Shape(c, client[c].tx) /\ Fits(client[c].tx)
  BY DEF IInv, ClientsOk, ClientOk, At
<1> QED
  BY <1>1, ClaimAgrees, StateAgrees, CancelAgrees DEF Fits

\* The counter counts the records, and no record is without its payout.
LEMMA InvRecords == IInv => RecordsMatchPayouts
<1> SUFFICES ASSUME IInv PROVE RecordsMatchPayouts
  OBVIOUS
<1>1. ASSUME terms.family = "airdrop" \/ ~retried, NEW w \in Claimants
      PROVE  claims[w] <= payouts[w]
  <2>1. claims[w] \in Nat /\ payouts[w] \in Nat
    BY DEF IInv, Typed
  <2>2. CASE terms.family = "airdrop"
    BY <2>2 DEF IInv, Rows, AirdropRecords
  <2>3. CASE terms.family # "airdrop"
    <3>1. claims[w] + One(Owed(Creator, "insert") /\ client[Creator].tx.who = w) <= payouts[w]
      BY <1>1, <2>3 DEF IInv, Rows, OtherRecords
    <3> QED
      BY <2>1, <3>1 DEF One
  <2> QED
    BY <2>2, <2>3
<1> QED
  BY <1>1 DEF RecordsMatchPayouts, RecordsArePaid, IInv

-----------------------------------------------------------------------------
(* Every campaign is an escrow *)

Funded == utxo.status # "UNFUNDED"

\* A step takes the payout and the miner's fee from the escrow.
LEMMA EscrowMove ==
  ASSUME IInv, IInv', terms' = terms, NEW amount \in Nat, NEW fee \in 0 .. FeeCap, Funded, Funded',
         amount + fee <= utxo.value,
         utxo'.value = utxo.value - amount - fee,
         utxo'.released + refund' = utxo.released + refund + amount
  PROVE  E!Move(amount, fee) /\ amount \in 0 .. utxo.value
<1>1. /\ PaidOut = utxo.released /\ PaidOut' = utxo'.released
      /\ utxo.value \in Nat /\ utxo.released \in Nat /\ refund \in Nat
      /\ Pool \in Nat /\ fee \in Nat
      /\ refund' \in Nat /\ utxo'.released \in Nat /\ utxo'.value \in Nat
  <2>1. utxo \in Utxo /\ refund \in 0 .. Pool /\ Pool \in Nat /\ PaidOut = utxo.released
    BY TFacts DEF IInv, Typed, Funds, FundsAddUp
  <2>2. utxo' \in Utxo /\ refund' \in 0 .. Pool /\ PaidOut' = utxo'.released
    BY <2>1 DEF IInv, Typed, Funds, FundsAddUp, Pool
  <2> QED
    BY <2>1, <2>2 DEF Utxo, FeeCap
<1>2. Pool' = Pool
  BY DEF Pool
<1>3. /\ utxo'.value = utxo.value - amount - fee
      /\ PaidOut' + refund' = PaidOut + refund + amount
      /\ Pool + Reserve - utxo'.value - PaidOut' - refund' = Pool + Reserve - utxo.value - PaidOut - refund + fee
  BY <1>1 DEF Reserve
<1> QED
  BY <1>1, <1>2, <1>3 DEF E!Move, Funded

\* What the escrow sees of a mined transaction.
LEMMA MinedIsEscrow ==
  ASSUME IInv, IInv', NEW c, NEW tx, Minable(c, tx), Mined(tx)
  PROVE  [E!Next]_E!evars
<1>t. Typed /\ Funds /\ Typed' /\ Funds' /\ terms' = terms
  BY DEF IInv, Mined
<1>1. /\ tx.op \in {"fund", "claim", "pause", "cancel", "transfer"} /\ tx.pay \in Nat /\ tx.keep \in Nat
      /\ tx.op \in {"claim", "transfer"} => tx.who \in Claimants
      /\ tx.op \in {"pause", "transfer"} => tx.pay = 0
      /\ tx.op = "fund" => tx.keep = Pool + Reserve
      /\ tx.op = "cancel" => tx.keep = 0
  BY <1>t, ShapeNumbers DEF Minable, Shape
<1>2. CASE tx.op = "fund"
  <2>1. utxo.status = "UNFUNDED" /\ utxo.released = 0 /\ refund = 0 /\ refund' = refund /\ PaidOut = 0
    BY <1>t, <1>2, MinedMoves DEF Funds, FundsAddUp, Mined
  <2>2. utxo'.status = "ACTIVE" /\ utxo'.value = Pool + Reserve /\ utxo'.released = 0
    BY <1>t, <1>1, <1>2, <2>1, AfterLeaves DEF Leaves, Mined, Typed
  <2>3. PaidOut' = 0 /\ Pool' = Pool /\ Pool \in Nat
    BY <1>t, <2>2, TFacts DEF Typed, Funds, FundsAddUp, Pool
  <2> QED
    BY <2>1, <2>2, <2>3 DEF E!evars, Reserve
<1>3. CASE tx.op # "fund"
  <2>1. /\ FeeOf(tx) \in 0 .. FeeCap
        /\ tx.op = "cancel" => tx.pay = Remaining
    BY <1>1, <1>3 DEF Minable, Accepts, claim, pause, cancel, transfer
  <2>2. utxo.status \in {"ACTIVE", "PAUSED"} /\ (tx.op # "cancel" => utxo.status = "ACTIVE")
    BY <1>1, <1>3 DEF Minable, Accepts, claim, pause, cancel, transfer
  <2>3. /\ utxo'.value = tx.keep
        /\ utxo'.released = IF tx.op = "claim" THEN utxo.released + tx.pay ELSE utxo.released
        /\ tx.op = "claim" => utxo'.status \in {"ACTIVE", "COMPLETED"}
        /\ tx.op = "pause" => utxo'.status = "PAUSED"
        /\ tx.op = "cancel" => utxo'.status = "CANCELLED"
        /\ tx.op = "transfer" => utxo'.status = "ACTIVE"
    <3>1. utxo.released \in Nat
      BY <1>t, Numbers
    <3> QED
      BY <1>t, <1>1, <1>3, <2>2, <3>1, AfterLeaves DEF Leaves, Mined, Typed
  <2>4. refund = 0 /\ refund' = IF tx.op = "cancel" THEN tx.pay ELSE 0
    BY <1>t, <2>2 DEF Funds, FundsAddUp, Mined
  <2>5. /\ tx.pay + FeeOf(tx) <= utxo.value
        /\ utxo'.value = utxo.value - tx.pay - FeeOf(tx)
        /\ utxo'.released + refund' = utxo.released + refund + tx.pay
    <3>1. utxo.value \in Nat /\ utxo.released \in Nat
      BY <1>t, Numbers
    <3> QED
      BY <1>1, <1>3, <2>3, <2>4, <3>1 DEF FeeOf
  <2>6. E!Move(tx.pay, FeeOf(tx)) /\ tx.pay \in 0 .. utxo.value
    BY <1>t, <1>1, <1>3, <2>1, <2>2, <2>3, <2>5, EscrowMove DEF Funded
  <2>7. CASE tx.op = "claim" /\ utxo'.status = "ACTIVE"
    BY <2>1, <2>2, <2>6, <2>7 DEF E!Next, E!Release
  <2>8. CASE tx.op = "claim" /\ utxo'.status = "COMPLETED"
    BY <2>1, <2>2, <2>6, <2>8 DEF E!Next, E!Close
  <2>9. CASE tx.op = "cancel"
    BY <2>1, <2>2, <2>3, <2>6, <2>9 DEF E!Next, E!Close
  <2>10. CASE tx.op = "pause"
    BY <1>1, <2>1, <2>2, <2>3, <2>6, <2>10 DEF E!Next, E!Hold
  <2>11. CASE tx.op = "transfer"
    BY <1>1, <2>1, <2>2, <2>3, <2>6, <2>11 DEF E!Next, E!Release
  <2> QED
    BY <1>1, <1>3, <2>3, <2>7, <2>8, <2>9, <2>10, <2>11
<1> QED
  BY <1>2, <1>3

\* The authority's transaction opens it again.
LEMMA ResumeIsEscrow ==
  ASSUME IInv, IInv', NEW fee, Resumes(fee)
  PROVE  E!Next
<1>1. /\ utxo.status = "PAUSED" /\ fee \in {0, FeeCap} /\ fee <= utxo.value /\ terms' = terms /\ refund' = refund
      /\ utxo'.status = "ACTIVE" /\ utxo'.released = utxo.released + 0 /\ utxo'.value = utxo.value - fee
  BY DEF Resumes, Leaves
<1>2. utxo.released \in Nat /\ utxo.value \in Nat /\ refund \in Nat /\ fee \in 0 .. FeeCap
  <2>1. utxo.released \in Nat /\ utxo.value \in Nat /\ Pool \in Nat
    BY Numbers DEF IInv
  <2> QED
    BY <1>1, <2>1 DEF IInv, Typed, FeeCap
<1>3. E!Move(0, fee)
  <2>1. 0 + fee <= utxo.value /\ utxo'.value = utxo.value - 0 - fee /\ utxo'.released + refund' = utxo.released + refund + 0
    BY <1>1, <1>2 DEF FeeCap
  <2> QED
    BY <1>1, <1>2, <2>1, EscrowMove DEF Funded
<1> QED
  BY <1>1, <1>2, <1>3 DEF E!Next, E!Resume

\* A campaign starts as an escrow of its pool and the reserve.
LEMMA InitIsEscrow == Init => E!Init
<1> SUFFICES ASSUME Init PROVE E!Init
  OBVIOUS
<1>1. IInv
  BY InitInv
<1>2. utxo.status = "UNFUNDED" /\ refund = 0
  BY DEF Init, deployed
<1>3. PaidOut = 0
  BY <1>1, <1>2 DEF IInv, Funds, FundsAddUp
<1>4. Pool \in Pools
  BY <1>1, CampaignConstants DEF IInv, Typed, Created, airdrop_create, reward_create, bounty_create, grant_create, Terms, Pool
<1> QED
  BY <1>2, <1>3, <1>4 DEF E!Init

\* Every step of the system is a step of the escrow, or one it does not see.
LEMMA StepIsEscrow == IInv /\ [Next]_vars => [E!Next]_E!evars
<1> SUFFICES ASSUME IInv, [Next]_vars PROVE [E!Next]_E!evars
  OBVIOUS
<1>i. IInv'
  BY NextInv
<1>1. CASE UNCHANGED <<terms, chain>>
  <2>1. UNCHANGED <<terms, utxo, paid, refund>>
    BY <1>1 DEF chain
  <2> QED
    BY <2>1 DEF E!evars, Pool, PaidOut
<1>2. ASSUME NEW c \in Clients, Step(c) PROVE [E!Next]_E!evars
  BY <1>i, <1>1, <1>2, MinedIsEscrow DEF Step, SignStep, DropStep, ConfirmStep, RetryStep, WriteStep, MineStep
<1>3. ASSUME NEW fee, Resumes(fee) PROVE [E!Next]_E!evars
  BY <1>i, <1>3, ResumeIsEscrow
<1>4. CASE UNCHANGED vars
  BY <1>1, <1>4 DEF vars
<1> QED
  BY <1>2, <1>3, <1>4, NextSteps DEF IInv

-----------------------------------------------------------------------------
(* The theorems *)

\* Every campaign keeps to what its state may hold: nobody is paid more than the pool,
\* and what is left is never negative.
THEOREM CampaignsTypeOK == Spec => []TypeOK
BY CampaignsInvariant, InvTypes, PTL

\* A transaction built against the UTXO that is there is accepted, except those listed.
THEOREM CampaignsBuilderAgrees == Spec => []BuilderAgrees
BY CampaignsInvariant, InvAgrees, PTL

\* Payouts whose fee somebody else pays leave the reserve whole, the others erode it.
THEOREM CampaignsReserve == Spec => []ReserveIsKept
<1>1. IInv => ReserveIsKept
  BY DEF IInv, Funds
<1> QED
  BY <1>1, CampaignsInvariant, PTL

\* The counter of the row counts its records, and each record has its payout.
THEOREM CampaignsRecords == Spec => []RecordsMatchPayouts
BY CampaignsInvariant, InvRecords, PTL

\* The row says of the campaign only what the chain has shown.
THEOREM CampaignsRowTrails == Spec => []RowTrailsChain
<1>1. IInv => RowTrailsChain
  BY DEF IInv
<1> QED
  BY <1>1, CampaignsInvariant, PTL

\* Every campaign, with its builders, routes and pages, implements the escrow.
THEOREM CampaignsEscrow == Spec => CampaignIsEscrow
BY InitIsEscrow, StepIsEscrow, CampaignsInvariant, PTL DEF Spec, CampaignIsEscrow, E!Spec

=============================================================================
