------------------------------ MODULE Campaigns ------------------------------
(***************************************************************************)
(* Airdrops, rewards, bounties and grants: a campaign is a covenant UTXO   *)
(* on the chain, a row that mirrors it in the database, and users who move *)
(* both through the Lifecycle.  Each family has its own contract, its own  *)
(* transaction builders and its own routes; they differ in who pays the    *)
(* miner, how many outputs the contract admits, and what a confirmation    *)
(* writes in which order.                                                  *)
(*                                                                         *)
(* Values are BCH in units of 1000 satoshis, so that the least output of   *)
(* 546 is one unit.  Token campaigns, claim windows and a second funding   *)
(* of the same campaign are left out.                                      *)
(***************************************************************************)
EXTENDS Lifecycle, Integers, FiniteSets, Functions

CONSTANTS
  Families,   \* the families a behaviour may be about
  Claimants,  \* the addresses that are paid
  Creator,    \* the campaign's creator
  Nobody,     \* model value: no recipient
  Share,      \* the fixed share, or the largest reward
  Rewards,    \* the amounts the creator of a reward campaign may choose
  Slots,      \* how many winners or milestones there are
  Pools,      \* the amounts a creator may put in
  MaxResumes, \* bound: resumptions by the authority
  MaxMoves    \* bound: a grant that was moved so often is not transferred any more

ASSUME CampaignConstants ==
  /\ Families \subseteq {"airdrop", "reward", "bounty", "grant"}
  /\ IsFiniteSet(Claimants) /\ Creator \notin Claimants /\ Clients = Claimants \cup {Creator}
  /\ {Share, Slots} \cup Pools \subseteq Nat \ {0} /\ Rewards \subseteq 1 .. Share
  /\ Slots * Share \in Pools
  /\ {MaxResumes, MaxMoves} \subseteq Nat

VARIABLES
  terms,      \* what the creator chose
  utxo,       \* the covenant UTXO; utxo.id counts the transactions that moved it
  row,        \* the row of the campaign
  claims,     \* rows of airdrop_claims, reward_distributions or bounty_claims, by payee
  milestones, \* the milestones grant_milestones has as released
  paid,       \* history: what the chain paid to whom
  payouts,    \* history: how many payouts it made to whom
  refund,     \* history: what a cancellation returned
  retried,    \* history: a confirmation was posted again
  interrupted \* history: a server restart interrupted a confirmation

chain == <<utxo, paid, payouts, refund>>
db == <<row, claims, milestones>>
history == <<retried, interrupted>>
vars == <<client, terms, chain, db, history>>

-----------------------------------------------------------------------------
(* The contracts *)

Pool == terms.pool
Reserve == 5   \* 5000 satoshis above the pool
FeeCap == 5    \* 5000 satoshis: what a transaction may take from the UTXO for the miner
SelfFee == 4   \* 4000 satoshis: what a builder takes from it

\* The most outputs each function of a contract admits.
Many == 9
AirdropCovenant == [claim |-> 2, pause |-> 1, resume |-> 1, cancel |-> 1]
RewardCovenant == [claim |-> 3, pause |-> 2, resume |-> 2, cancel |-> 2]
BountyCovenant == [claim |-> 3, pause |-> 1, resume |-> 1, cancel |-> 2]
GrantCovenant == [claim |-> 2, pause |-> 1, resume |-> 1, cancel |-> Many, transfer |-> 1]
Outputs == [airdrop |-> AirdropCovenant, reward |-> RewardCovenant,
            bounty |-> BountyCovenant, grant |-> GrantCovenant]

Remaining == Pool - utxo.released

\* What tx takes from the UTXO beside the payout and the state output: the miner's
\* fee, and when cancelled also the rest that goes back to the creator (the contract
\* bounds their sum).
FeeOf(tx) == utxo.value - tx.pay - tx.keep

\* What the payout function of each contract asks beyond the common rules.
airdrop_claim(tx) == tx.pay = Share
reward(tx) == tx.pay \in 1 .. Share
bounty_claim(tx) == tx.pay = Share /\ utxo.count < Slots
releaseMilestone(tx) == /\ tx.pay = Share
                        /\ utxo.count < Slots
                        /\ tx.who = utxo.recipient
PayoutRule(tx) == CASE terms.family = "airdrop" -> airdrop_claim(tx)
                    [] terms.family = "reward" -> reward(tx)
                    [] terms.family = "bounty" -> bounty_claim(tx)
                    [] terms.family = "grant" -> releaseMilestone(tx)

claim(tx) == /\ tx.op = "claim"
             /\ utxo.status = "ACTIVE"
             /\ tx.pay <= Remaining
             /\ PayoutRule(tx)
pause(tx) == tx.op = "pause" /\ terms.cancelable /\ utxo.status = "ACTIVE"
cancel(tx) == /\ tx.op = "cancel"
              /\ terms.cancelable
              /\ utxo.status \in {"ACTIVE", "PAUSED"}
              /\ Remaining > 0
              /\ tx.pay = Remaining
transfer(tx) == tx.op = "transfer" /\ terms.transferable /\ utxo.status = "ACTIVE"

\* The network takes tx when it spends the UTXO that is there and the contract agrees.
Accepts(tx) ==
  \/ tx.op = "fund" /\ utxo.status = "UNFUNDED"
  \/ /\ tx.spends = utxo.id
     /\ claim(tx) \/ pause(tx) \/ cancel(tx) \/ transfer(tx)
     /\ tx.outs <= Outputs[terms.family][tx.op]
     /\ FeeOf(tx) \in 0 .. FeeCap

\* The status a payout leaves: airdrops and rewards compare amounts, bounties and
\* grants count.
Finishes(tx) == IF terms.family \in {"airdrop", "reward"}
                THEN utxo.released + tx.pay >= Pool
                ELSE utxo.count + 1 >= Slots

\* The UTXO that tx leaves.
After(tx) ==
  LET moved == [utxo EXCEPT !.id = @ + 1, !.value = tx.keep]
  IN  CASE tx.op = "fund" -> [moved EXCEPT !.status = "ACTIVE"]
        [] tx.op = "claim" -> [moved EXCEPT
             !.released = @ + tx.pay, !.count = @ + 1,
             !.status = IF Finishes(tx) THEN "COMPLETED" ELSE @]
        [] tx.op = "pause" -> [moved EXCEPT !.status = "PAUSED"]
        [] tx.op = "cancel" -> [moved EXCEPT !.status = "CANCELLED"]
        [] tx.op = "transfer" -> [moved EXCEPT !.recipient = tx.who]

\* Mutant: a completed campaign can be opened again.
resumeCompleted == /\ utxo.status \in {"PAUSED", "COMPLETED"}
                   /\ utxo' = [utxo EXCEPT !.status = "ACTIVE", !.id = @ + 1, !.resumed = @ + 1]
\* Mutant: the fee of the authority's transaction is added to the value.
resumeCredits == /\ utxo.status = "PAUSED"
                 /\ utxo' = [utxo EXCEPT !.status = "ACTIVE", !.id = @ + 1, !.value = @ + FeeCap,
                                         !.resumed = @ + 1]

\* resume() has no builder: the authority signs a transaction of its own, which
\* leaves some fee up to the cap.
resume == /\ utxo.status = "PAUSED"
          /\ \E fee \in {0, FeeCap} :
               /\ fee <= utxo.value
               /\ utxo' = [utxo EXCEPT !.status = "ACTIVE", !.id = @ + 1, !.value = @ - fee,
                                       !.resumed = @ + 1]

-----------------------------------------------------------------------------
(* The builders: the transactions a service can return, none when it throws. *)
(* `change` says whether the fee payer's change makes one more output.       *)

Tx(op, who, pay, keep, outs) == [op |-> op, who |-> who, pay |-> pay, keep |-> keep,
                                 outs |-> outs, spends |-> utxo.id, number |-> utxo.count + 1]
Where(built, guard) == IF guard THEN built ELSE {}
Change == {0, 1}

AirdropFundTxs == {Tx("fund", Nobody, 0, Pool + Reserve, 2)}
RewardFundTxs == {Tx("fund", Nobody, 0, Pool + Reserve, 2)}
BountyFundTxs == {Tx("fund", Nobody, 0, Pool + Reserve, 2)}
GrantFundTxs == {Tx("fund", Nobody, 0, Pool + Reserve, 2)}

\* A payout: two outputs, and the state output keeps at least dust.
PayTxs(who, amounts, fee, changes) ==
  {tx \in {Tx("claim", who, pay, utxo.value - pay - fee, 2 + change) :
             pay \in amounts, change \in changes} :
     utxo.status = "ACTIVE" /\ tx.keep > 0}

AirdropClaimTxs(who) == Where(PayTxs(who, {Share}, SelfFee, {0}), Share <= Remaining)
RewardTxs(who) == {tx \in PayTxs(who, Rewards, 0, Change) : tx.pay <= Remaining}
\* Mutant: the winner's payout pays the miner from the bounty.
BountyClaimSelfFunded(who) == Where(PayTxs(who, {Share}, SelfFee, {0}), utxo.count < Slots)
BountyClaimTxs(who) == Where(PayTxs(who, {Share}, 0, Change), utxo.count < Slots)
\* Mutant: a milestone's fee payer gets change in an output of its own.
ReleaseWithChange(who) == Where(PayTxs(who, {Share}, 0, {1}), utxo.count < Slots)
ReleaseTxs(who) == Where(PayTxs(who, {Share}, SelfFee, {0}), utxo.count < Slots)

\* A pause or a transfer: the state output alone, and perhaps change.
StateTxs(op, who, fee, changes) ==
  {tx \in {Tx(op, who, 0, utxo.value - fee, 1 + change) : change \in changes} :
     /\ utxo.status = "ACTIVE"
     /\ IF op = "pause" THEN terms.cancelable ELSE terms.transferable
     /\ tx.keep > 0}

AirdropPauseTxs == StateTxs("pause", Nobody, SelfFee, {0})
RewardPauseTxs == StateTxs("pause", Nobody, 0, Change)
BountyPauseTxs == StateTxs("pause", Nobody, SelfFee, {0})
GrantPauseTxs == StateTxs("pause", Nobody, SelfFee, {0})
GrantTransferTxs(who) == StateTxs("transfer", who, 0, Change)

\* A cancellation returns what remains, and the rest of the UTXO in an output of its
\* own when it is more than dust.
CancelTxs(fee, changes) ==
  LET rest == utxo.value - Remaining - fee
  IN  Where({Tx("cancel", Creator, Remaining, 0, 1 + (IF rest > 0 THEN 1 ELSE 0) + change) :
               change \in changes},
            /\ utxo.status \in {"ACTIVE", "PAUSED"} /\ terms.cancelable
            /\ Remaining > 0 /\ rest >= 0)

AirdropCancelTxs == CancelTxs(0, Change)
RewardCancelTxs == CancelTxs(SelfFee, {0})
BountyCancelTxs == CancelTxs(0, Change)
GrantCancelTxs == CancelTxs(0, Change)

-----------------------------------------------------------------------------
(* The routes: what they build from the row and the builders, and the        *)
(* statements their confirmations execute, in order.                         *)

\* Bound: a campaign is funded once (the routes would build another funding).
Funding(built) == Where(built, utxo.status = "UNFUNDED")
airdrop_funding_info == Funding(AirdropFundTxs)
reward_funding_info == Funding(RewardFundTxs)
bounty_funding_info == Funding(BountyFundTxs)
grant_funding_info == Funding(GrantFundTxs)

\* The count of earlier claims is never awaited, so that it limits nothing.
airdrop_claim_route(c) == Where(AirdropClaimTxs(c), row.status = "ACTIVE")
reward_distribute == {tx \in UNION {RewardTxs(who) : who \in Claimants} :
                        row.status = "ACTIVE" /\ row.total + tx.pay <= Pool}
bounty_claim_route == Where(UNION {BountyClaimTxs(who) : who \in Claimants},
                            row.status = "ACTIVE" /\ row.count < Slots)
grant_release == Where(ReleaseTxs(row.recipient), row.status = "ACTIVE" /\ row.count < Slots)

airdrop_pause == Where(AirdropPauseTxs, row.status = "ACTIVE")
reward_pause == Where(RewardPauseTxs, row.status = "ACTIVE")
bounty_pause == Where(BountyPauseTxs, row.status = "ACTIVE")
grant_pause == Where(GrantPauseTxs, row.status = "ACTIVE")

airdrop_cancel == Where(AirdropCancelTxs, row.status \in {"ACTIVE", "PAUSED"})
reward_cancel == Where(RewardCancelTxs, row.status \in {"ACTIVE", "PAUSED"})
bounty_cancel == Where(BountyCancelTxs, row.status \in {"ACTIVE", "PAUSED"})
grant_cancel == Where(GrantCancelTxs, row.status \in {"ACTIVE", "PAUSED"})
grant_transfer(c) == Where(UNION {GrantTransferTxs(who) : who \in Claimants \ {c}},
                           /\ row.status = "ACTIVE" /\ terms.transferable /\ row.recipient = c
                           /\ utxo.id < MaxMoves)

airdrop_confirm_funding == <<"active">>
reward_confirm_funding == <<"active">>
bounty_confirm_funding == <<"active">>
grant_confirm_funding == <<"active">>

airdrop_confirm_claim == <<"insert", "count">>
reward_confirm_distribute == <<"insert", "count">>
bounty_confirm_claim == <<"insert", "count", "close">>
grant_confirm_release == <<"count", "insert", "close">>

\* Mutant: the confirmation of a pause writes the status of a cancellation.
airdrop_confirm_pause_cancels == <<"cancelled">>
airdrop_confirm_pause == <<"paused">>
reward_confirm_pause == <<"paused">>
bounty_confirm_pause == <<"paused">>
grant_confirm_pause == <<"paused">>

airdrop_confirm_cancel == <<"cancelled">>
reward_confirm_cancel == <<"cancelled">>
bounty_confirm_cancel == <<"cancelled">>
grant_confirm_cancel == <<"cancelled">>

grant_confirm_transfer == <<"recipient">>

AirdropHandlers == [fund |-> airdrop_confirm_funding, claim |-> airdrop_confirm_claim,
                    pause |-> airdrop_confirm_pause, cancel |-> airdrop_confirm_cancel]
RewardHandlers == [fund |-> reward_confirm_funding, claim |-> reward_confirm_distribute,
                   pause |-> reward_confirm_pause, cancel |-> reward_confirm_cancel]
BountyHandlers == [fund |-> bounty_confirm_funding, claim |-> bounty_confirm_claim,
                   pause |-> bounty_confirm_pause, cancel |-> bounty_confirm_cancel]
GrantHandlers == [fund |-> grant_confirm_funding, claim |-> grant_confirm_release,
                  pause |-> grant_confirm_pause, cancel |-> grant_confirm_cancel,
                  transfer |-> grant_confirm_transfer]
Statements(tx) == [airdrop |-> AirdropHandlers, reward |-> RewardHandlers,
                   bounty |-> BountyHandlers, grant |-> GrantHandlers][terms.family][tx.op]

\* Grants look for the output of, or the request by, the recipient of the row.
Verified(c) ==
  LET tx == client[c].tx
  IN  /\ tx.op = "claim" /\ terms.family = "grant" => tx.who = row.recipient
      /\ tx.op = "transfer" => c = row.recipient

\* Mutant: the unique index is missing.
NoDuplicate(tx) == FALSE

\* A second row of a claimant violates the unique index of airdrop_claims.
Duplicate(tx) == terms.family = "airdrop" /\ claims[tx.who] > 0

-----------------------------------------------------------------------------
(* Actions *)

\* What each create route accepts.  Only a bounty computes its pool; nobody compares a
\* grant's with its milestones.  Only the creator of a grant may rule out cancellation.
Terms(family, pools, cancelables, transferables) ==
  [family : {family}, pool : pools, cancelable : cancelables, transferable : transferables]
airdrop_create == Terms("airdrop", {pool \in Pools : pool >= Share}, {TRUE}, {FALSE})
reward_create == Terms("reward", {pool \in Pools : pool >= Share}, {TRUE}, {FALSE})
bounty_create == Terms("bounty", {Slots * Share}, {TRUE}, {FALSE})
grant_create == Terms("grant", Pools, BOOLEAN, BOOLEAN)
Created == airdrop_create \cup reward_create \cup bounty_create \cup grant_create

create_row(who) == [status |-> "PENDING", count |-> 0, total |-> 0, recipient |-> who]
deployed(who) == [status |-> "UNFUNDED", released |-> 0, count |-> 0, value |-> 0,
                  id |-> 0, resumed |-> 0, recipient |-> who]

Init ==
  /\ LifecycleInit
  /\ terms \in {t \in Created : t.family \in Families}
  /\ \E who \in IF terms.family = "grant" THEN Claimants ELSE {Nobody} :
        /\ utxo = deployed(who)
        /\ row = create_row(who)
  /\ claims = [who \in Claimants |-> 0]
  /\ paid = [who \in Claimants |-> 0]
  /\ payouts = [who \in Claimants |-> 0]
  /\ milestones = {}
  /\ refund = 0
  /\ retried = FALSE
  /\ interrupted = FALSE

\* A page has one of the transactions a route built signed.
Offer(family, c, txs) == /\ terms.family = family
                         /\ \E tx \in txs : Sign(c, tx)
                         /\ UNCHANGED <<terms, chain, db, history>>

fundAirdropContract == Offer("airdrop", Creator, airdrop_funding_info)
claimAirdropFunds(c) == Offer("airdrop", c, airdrop_claim_route(c))
pauseAirdropOnChain == Offer("airdrop", Creator, airdrop_pause)
cancelAirdropOnChain == Offer("airdrop", Creator, airdrop_cancel)

fundRewardContract == Offer("reward", Creator, reward_funding_info)
distributeRewardOnChain == Offer("reward", Creator, reward_distribute)
pauseRewardOnChain == Offer("reward", Creator, reward_pause)
cancelRewardOnChain == Offer("reward", Creator, reward_cancel)

bountyActionFund == Offer("bounty", Creator, bounty_funding_info)
bountyActionPayWinner == Offer("bounty", Creator, bounty_claim_route)
bountyActionPause == Offer("bounty", Creator, bounty_pause)
bountyActionCancel == Offer("bounty", Creator, bounty_cancel)

fundGrantContract == Offer("grant", Creator, grant_funding_info)
releaseGrantMilestone == Offer("grant", Creator, grant_release)
pauseGrantOnChain == Offer("grant", Creator, grant_pause)
cancelGrantOnChain == Offer("grant", Creator, grant_cancel)
transferGrantOnChain(c) == Offer("grant", c, grant_transfer(c))

\* The pages and the operations each offers.  A page shows the campaign as it was when
\* it was last fetched, and what it compares in it can have been true at some time
\* whenever the route still agrees; so the page adds only who is offered what.
AirdropDetailPage == \/ fundAirdropContract \/ pauseAirdropOnChain \/ cancelAirdropOnChain
                     \/ \E c \in Claimants : claimAirdropFunds(c)
RewardDetailPage == \/ fundRewardContract \/ pauseRewardOnChain \/ cancelRewardOnChain
                    \/ distributeRewardOnChain
BountyDetailPage == \/ bountyActionFund \/ bountyActionPayWinner
                    \/ terms.cancelable /\ (bountyActionPause \/ bountyActionCancel)
GrantDetailPage == \/ fundGrantContract \/ releaseGrantMilestone
                   \/ terms.cancelable /\ (pauseGrantOnChain \/ cancelGrantOnChain)
                   \/ \E c \in Claimants : transferGrantOnChain(c)

Decline(c) == Refuse(c) /\ UNCHANGED <<terms, chain, db, history>>

\* Every product broadcasts through one route of the backend.
broadcast(c) ==
  LET tx == client[c].tx
  IN  /\ At(c, "signing")
      /\ IF Accepts(tx)
         THEN /\ Broadcast(c)
              /\ utxo' = After(tx)
              /\ IF tx.op = "claim"
                 THEN /\ paid' = [paid EXCEPT ![tx.who] = @ + tx.pay]
                      /\ payouts' = [payouts EXCEPT ![tx.who] = @ + 1]
                 ELSE UNCHANGED <<paid, payouts>>
              /\ refund' = IF tx.op = "cancel" THEN tx.pay ELSE refund
         ELSE Rejected(c) /\ UNCHANGED chain
      /\ UNCHANGED <<terms, db, history>>

resumeOnChain == /\ utxo.resumed < MaxResumes
                 /\ resume
                 /\ UNCHANGED <<client, terms, paid, payouts, refund, db, history>>

confirm(c) ==
  /\ At(c, "waiting")
  /\ IF Verified(c) THEN Confirm(c, Statements(client[c].tx)) ELSE Refused(c)
  /\ retried' = (retried \/ client[c].tries > 0)
  /\ UNCHANGED <<terms, chain, db, interrupted>>

\* One statement of a confirmation.
SetRow(c, s, new) == /\ Due(c, s)
                     /\ row' = new
                     /\ Written(c)
                     /\ UNCHANGED <<claims, milestones>>

insert(c) ==
  LET tx == client[c].tx
  IN  /\ Due(c, "insert")
      /\ IF terms.family = "grant"
         THEN Written(c) /\ milestones' = milestones \cup {tx.number} /\ UNCHANGED claims
         ELSE IF Duplicate(tx)
         THEN Refused(c) /\ UNCHANGED <<claims, milestones>>
         ELSE Written(c) /\ claims' = [claims EXCEPT ![tx.who] = @ + 1] /\ UNCHANGED milestones
      /\ UNCHANGED row

count(c) == SetRow(c, "count", [row EXCEPT !.count = @ + 1, !.total = @ + client[c].tx.pay])
close(c) == SetRow(c, "close", [row EXCEPT !.status = IF row.count >= Slots THEN "COMPLETED" ELSE @])
write(c) == \/ SetRow(c, "active", [row EXCEPT !.status = "ACTIVE"])
            \/ SetRow(c, "paused", [row EXCEPT !.status = "PAUSED"])
            \/ SetRow(c, "cancelled", [row EXCEPT !.status = "CANCELLED"])
            \/ SetRow(c, "recipient", [row EXCEPT !.recipient = client[c].tx.who])

statement(c) == /\ insert(c) \/ count(c) \/ close(c) \/ write(c)
                /\ UNCHANGED <<terms, chain, history>>

answer(c) == Answer(c) /\ UNCHANGED <<terms, chain, db, history>>

lose(c) == /\ Lose(c)
           /\ interrupted' = (interrupted \/ client[c].todo # <<>>)
           /\ UNCHANGED <<terms, chain, db, retried>>

Next ==
  \/ AirdropDetailPage \/ RewardDetailPage \/ BountyDetailPage \/ GrantDetailPage
  \/ \E c \in Clients : \/ Decline(c) \/ broadcast(c) \/ confirm(c)
                        \/ statement(c) \/ answer(c) \/ lose(c)
  \/ resumeOnChain

Spec == Init /\ [][Next]_vars

-----------------------------------------------------------------------------
(* Properties *)

Txs == [op : {"fund", "claim", "pause", "cancel", "transfer"}, who : Claimants \cup {Creator, Nobody},
        pay : 0 .. Pool + Reserve, keep : 0 .. Pool + Reserve, outs : 1 .. 3, spends : Nat, number : 1 .. Pool + 1]

\* What the chain and the rows may hold: never more than the pool was released, and
\* never a negative value is left.
TypeOK ==
  /\ terms \in Created
  /\ \A c \in Clients : client[c].tx = NoTx \/ client[c].tx \in Txs
  /\ utxo.status \in {"UNFUNDED", "ACTIVE", "PAUSED", "COMPLETED", "CANCELLED"}
  /\ utxo.released \in 0 .. Pool /\ utxo.value \in 0 .. Pool + Reserve
  /\ row.status \in {"PENDING", "ACTIVE", "PAUSED", "COMPLETED", "CANCELLED"}
  /\ row.recipient \in Claimants \cup {Nobody} /\ utxo.recipient \in Claimants \cup {Nobody}
  /\ claims \in [Claimants -> Nat] /\ milestones \subseteq Nat
  /\ paid \in [Claimants -> 0 .. Pool] /\ refund \in 0 .. Pool

\* Every campaign implements the escrow: what was put in is in the UTXO, was paid
\* out or went to miners in steps of at most FeeCap; a paused campaign pays nobody,
\* a completed or cancelled one never moves.
PaidOut == SumFunctionOnSet(paid, Claimants)
E == INSTANCE Escrow WITH
       Deposits <- {pool + Reserve : pool \in Pools}, MaxFee <- FeeCap,
       reserve <- IF utxo.status = "UNFUNDED" THEN Pool + Reserve ELSE utxo.value,
       released <- PaidOut + refund,
       burned <- IF utxo.status = "UNFUNDED" THEN 0
                 ELSE Pool + Reserve - utxo.value - PaidOut - refund,
       phase <- CASE utxo.status \in {"UNFUNDED", "ACTIVE"} -> "open"
                  [] utxo.status = "PAUSED" -> "held"
                  [] OTHER -> "closed"
CampaignIsEscrow == E!Spec

\* A transaction the backend built against the UTXO that is there is accepted by the
\* contract, except that
\*   - the authority's refund of an airdrop always has one output too many,
\*   - that of a bounty has one too many when the fee payer gets change,
\*   - so has the transfer of a grant,
\*   - a milestone is built for the recipient of the row, who may no longer be the
\*     recipient of the grant, and without a look at what is left of its total.
Misbuilt(tx) ==
  \/ /\ tx.op = "cancel"
     /\ terms.family = "airdrop" \/ (terms.family = "bounty" /\ tx.outs > 2)
  \/ tx.op = "transfer" /\ tx.outs > 1
  \/ tx.op = "claim" /\ terms.family = "grant" /\ (tx.who # utxo.recipient \/ Share > Remaining)
BuilderAgrees ==
  \A c \in Clients :
    LET tx == client[c].tx
    IN  At(c, "signing") /\ tx.op # "fund" /\ tx.spends = utxo.id => (Accepts(tx) <=> ~Misbuilt(tx))

\* Payouts whose miner fee somebody else pays leave the reserve whole: a reward that
\* was never resumed, and a bounty that was never paused, hold the reserve above
\* what they still owe, however many payouts there were.  Payouts that pay the miner
\* themselves do not: each takes its fee from the one reserve of an airdrop or a grant,
\* which from the second on holds less than it owes.
PaidFeesLeaveReserve ==
  /\ terms.family \in {"reward", "bounty"}
  /\ utxo.status \in {"ACTIVE", "COMPLETED"} \cup (IF terms.family = "reward" THEN {"PAUSED"} ELSE {})
  /\ utxo.resumed = 0
  => utxo.value = Remaining + Reserve
OwnFeesErodeReserve ==
  terms.family \in {"airdrop", "grant"} /\ utxo.status \notin {"UNFUNDED", "CANCELLED"}
  => utxo.value <= Remaining + Reserve - SelfFee * utxo.count
ReserveIsKept == PaidFeesLeaveReserve /\ OwnFeesErodeReserve

\* The counter of the row counts the records, except for confirmations that are
\* between the two statements and those a restart interrupted there.  (Milestones
\* are marked, not inserted: a repeated confirmation counts them again.)  And no
\* payout is recorded that the chain did not make: each claimant has at most as many
\* records as payouts, unless a confirmation was repeated; the unique index of
\* airdrops keeps that even then.
Has(c, s) == s \in Range(client[c].todo)
CountsMatch ==
  ~interrupted /\ (terms.family = "grant" => ~retried) =>
    row.count + Cardinality({c \in Clients : Has(c, "count") /\ ~Has(c, "insert")})
    = Cardinality({c \in Clients : Has(c, "insert") /\ ~Has(c, "count")})
      + (IF terms.family = "grant" THEN Cardinality(milestones)
         ELSE SumFunctionOnSet(claims, Claimants))
RecordsArePaid ==
  (terms.family = "airdrop" \/ ~retried) => \A who \in Claimants : claims[who] <= payouts[who]
RecordsMatchPayouts == CountsMatch /\ RecordsArePaid

\* The row trails the chain: it says cancelled or completed only of a campaign that
\* is (but a repeated confirmation may complete a bounty or grant early), and paused
\* only of one that has not paid since.
RowTrailsChain ==
  /\ row.status = "CANCELLED" => utxo.status = "CANCELLED"
  /\ row.status = "COMPLETED" /\ ~retried => utxo.status = "COMPLETED"
  /\ row.status = "PAUSED" /\ utxo.resumed = 0 => utxo.status \in {"PAUSED", "CANCELLED"}
  /\ row.status # "PENDING" => utxo.status # "UNFUNDED"
=============================================================================
