# FlowGuard: TLA+ models and proofs

FlowGuard is a treasury for Bitcoin Cash: money sits in CashScript covenants
(`contracts/core`), a TypeScript backend (`backend/src`) builds the transactions that
move it, collects signatures, broadcasts, and keeps a PostgreSQL mirror of what is on
the chain, and an indexer (`backend/indexer`) follows the chain to keep a second
mirror. This directory models that system in TLA+, checks small instances with TLC
and proves what matters most for every instance with TLAPS.

    tlc -workers 2 -config MCVaultCovenant.cfg MCVaultCovenant
    tlapm VaultProofs.tla

`PROJECT.json` lists the components, the runs, a mutant for each checked property,
the source lines each definition stands for, the findings, the hazards and the
theorems.

## 1. Inventory

| Component | State it keeps | Operations | Interacts with |
|---|---|---|---|
| Vault covenant `contracts/core/treasury/VaultCovenant.cash` | one UTXO; commitment: status, period, spent in period, last update | `unlockPeriod`, `spend`, `pause`, `resume`, `emergencyLock` | the payout builder, the signers |
| Proposal covenant `ProposalCovenant.cash` | commitment: status, approvals | `approve`, `execute`, `cancel`, `expire` | approval rows |
| Streaming covenants `contracts/core/streaming` | status, flags, total released, cursor, pause start, recipient | claim / pay, complete, pause, resume, cancel, transfer, refill | stream backend |
| Distribution covenants (airdrop, reward, bounty, grant) | status, amounts claimed, last claim | claim, pause, resume, cancel | their backends |
| Governance covenants (vote lock, tally) | locked stake, vote, unlock time; counts | lock, reclaim, tally | governance backend |
| Policy word and proposal rows `state-service.ts`, `proposalService.ts`, `cycle-unlock-scheduler.ts` | `vaults.state` (a word of bits), `proposals` | create, approve, mark executed, confirm-create, unlock cycle | each other, through `vaults.state` |
| Payout sessions `api/proposals.ts`, `proposalService.ts` | `proposal_execution_sessions` | execute, execute-signature, broadcast | vault UTXO, proposal rows |
| Stream, payment and budget backends `api/streams.ts`, `payments.ts`, `budgetPlans.ts` and their services | a row mirroring one covenant each, rows of claims | create, batch-create, and a build and a confirm route per operation | covenants, web application |
| Airdrop, reward, bounty and grant backends | the same, with rows per claimant or milestone | create, build, confirm | covenants, web application |
| Governance backend `api/governance.ts` | proposals with a tally, `governance_votes` | create, lock, confirm-lock, unlock, confirm-unlock | vote lock covenant |
| Web application `frontend/src` | one operation at a time per page | build, sign, broadcast, confirm until answered | every backend above |
| Transaction monitor `TransactionMonitor.ts` | `transactions` | poll every 30 s, confirm, fail | (nothing inserts rows it would read) |
| Chain indexer `backend/indexer/src` | cursor, recent blocks, UTXO rows | header, address change, reorganisation, registry refresh | an Electrum server |
| Authentication `middleware/auth.ts` | nonces, sessions | challenge, verify | every route |
| Merkle trees, encodings, explorer, price and status routes | none of their own | | |

What is hard about them:

* **Covenants** are sequential, but nobody controls the order of their calls over
  months, a locktime is the builder's choice, and integer arithmetic decides money.
  Correct means: what leaves the escrow is what the rule released, for every sequence
  of calls.
* **Backend handlers** are read, await, write sequences over rows without transactions.
  Two of them interleave at every await, and a restart falls between any two
  statements. The web application posts a confirmation again when its answer is lost.
  Correct means: rows mirror each other and the chain, and money leaves once.
* **Builders and covenants** are two programs for one transaction: outputs, their
  order, locktime and fee have to be what the covenant compares. Correct means: what a
  wallet is asked to sign is accepted.
* **Chain and database** are two systems: a broadcast may succeed and its answer be
  lost. Correct means: an executed row was paid, and an unrecorded payout is found.
* **The indexer** acts on old answers: a reorganisation, a header, an
  address change and a slow request arrive in any order.

`PROJECT.json` "hazards" names each of these at its line.

## 2. Plan

| # | Modules | State |
|---|---|---|
| 1 | `Escrow` (what a money covenant promises), `VaultCovenant`, `VaultProofs` | done |
| 2 | `StateBits`, `PolicyState` (policy word against rows) | done |
| 3 | `PayoutSessions` (the sessions over the vault of `VaultCovenant`, which it extends) | done |
| 4 | `VestingCovenant` (linear, step, hybrid and tranche schedules over one vesting function), implementing `Escrow`, with proofs | done |
| 5 | `Lifecycle`: one user's way through an operation, used by 6, 7 and 9 | done |
| 6 | `Campaigns`: airdrop, reward, bounty and grant covenants with builders, routes and confirmations, implementing `Escrow` | done |
| 7 | `StreamRequests`: builders, routes and confirmations of streams, recurring streams, payments and budget plans over their covenants, with batches | done |
| 8 | `ChainIndexer`: header handlers, reorganisations and projections against a chain, with crashes, downtime and failed requests | done |
| 9 | `VoteLocks`: vote lock covenant, votes and tally | done |
| 10 | `Sums` (sums over finite sets), and proofs of 2, 3, 6, 7, 8 and 9 for every instance: each invariant and safety action property a run checks is a theorem | done |
| 11 | `ProposalCovenant` composed with the approval rows; the tally commitments; the token mode of the covenants; the clock of recurring payments | open |

## 3. Modules and code

### Escrow

The abstract specification of every covenant that holds money: a reserve, what was
released, what miners took, and a phase that is open, held or closed. Nothing is
created or lost, nothing is released while held except by closing, closed is final.

### VaultCovenant

`VaultCovenant.cash`, one action per contract function. The four commitment fields are
the first four variables; the function's `require`s are the guards, and the output
checks give the primed variables. Signatures are membership in `willing`, the signers
who take part in the behaviour, so that a lone signer can be told from two.

* A *locktime* is the builder's choice. `tx.time` in the contract compiles to
  OP_CHECKLOCKTIMEVERIFY, which makes consensus enforce that the locktime lies in the
  past: `EnforcedLocktimes`. A spend that stays in its period never uses it, so its
  locktime can be anything up to 2^32 - 1, the future included: `Locktimes`.
* `Lag` says how far a locktime may lie behind the chain when its transaction is mined:
  two hours when the backend's transactions are signed at once, anything when they wait
  for signatures. It is an assumption on those who build and sign, not on the contract.
* `paid`, `payouts`, `released`, `burned` are history: properties speak of what
  happened, not of the counter the contract keeps.
* `unlockPeriod`, `pause`, `resume` and `emergencyLock` let the miner take at most
  `MaxFee`; so does `spend`.
* Every function reads commitment, category and value of `tx.inputs[0]` and compares the
  outputs with them; no contract of the repository asks for its own position
  (`this.activeInputIndex`). The functions as actions (`Move`) are therefore the
  transactions whose first input is the vault, and `asLaterInput` is the vault as any other
  input, where those checks bind the first input and not the vault. What is left then are
  the signatures and the number of outputs. `laterInput` records that it happened, once,
  after which the vault is empty. `PeriodCapHolds`, `PeriodsApart` and the fee bound of
  `LoneSignerPaysNobody` hold until then and not after, `VaultIsEscrow` excepts that one step,
  and that one signer alone pays nobody holds in either case. What the backend builds has
  the vault first, so that the sessions never take the step.

### StateBits and PolicyState

`StateBits` is `state-service.ts`: the word is the set of its bits, and a shift by n is
a shift by n modulo 32, as JavaScript does it. `PolicyState` runs the handlers that
read and write the word. A handler is a slot whose record says at which await it
stands and what it has read: `CreateBegin`, `CreateCount`, `CreateInsert` and
`CreateWrite` are the four statements of `createProposal` between awaits, and so on.
`clean` is a history variable: no two handlers overlapped, none was cut off by a
restart, no confirm-create came late. Properties that need this say so; the others hold
for every interleaving.

### PayoutSessions

`POST /:id/execute` (four statements), `/execute-signature` (one locked transaction,
then broadcast, `markProposalExecuted`, session row) and the payout builder, over the
vault itself: the module EXTENDS `VaultCovenant`, and `Broadcast` conjoins its `spend`.
The builder dates a transaction `BuilderLag` (two hours) behind the clock; a session may
then wait for its second signature, so that `Lag` is any time the model has.
`utxo` numbers the vault's UTXO, so that a transaction built against an older one is
refused. `stage` is how far the request that brought the last signature got; a restart
or a lost answer leaves it at "lost". The rest of the world (`VaultMoves`) moves the
vault by every other contract function; spends that bypass the backend's sessions are
not included.

### VestingSchedules and VestingCovenant

`VestingSchedules` computes what has vested after `elapsed` seconds: linear and step
from `VestingCovenant.cash`, hybrid and tranche from the contracts of those names.
Division truncates toward zero, as in CashScript (`Quotient`); before the start of a
stream and after a long pause the elapsed time is negative. `ScheduleConstants` is what
the routes of `api/streams.ts` check when a stream is created.

`VestingCovenant` is the three contracts: they share the commitment, the statuses and
the six functions, and differ in the vesting function, in the end of the schedule
(`Ended`), in the cliff and in a few checks, which the actions name. `held` is the
tokens of a token stream and the satoshis of a BCH stream (`kind` and `flags` are
chosen in `Init`); the satoshis a token stream carries for fees are not modelled.
`Consume` leaves what the outputs do not claim to the builder of the transaction.

* `idle` and `pauses` are history: how long the stream has been paused on the chain's
  clock, and how often. `Running` is the time since the start less `idle`, and `Drift`
  is one `Lag` for every pause, which two dates chosen by builders delimit. The
  properties compare what the contract computes from its cursor with `Running`.
* `transfer` in `VestingCovenant.cash` compares the category of the new UTXO's tokens
  with the old one's, not their amount; hybrid and tranche contracts compare both. The
  model keeps the difference, and what leaves with a transfer counts as released.
* These contracts, too, read `tx.inputs[0]` only: a stream that is spent as a later input is
  `asLaterInput`, the step that `VestingIsEscrow` excepts.
* A claim of everything leaves a UTXO with status COMPLETED that no function accepts;
  `held` keeps what is in it.
* `complete` compares the chain's time with `endTimestamp` (tranches: the shifted time
  with the last unlock point) and accepts a paused stream; `CompletionIsDue` names the
  cases in which everything has vested by then, and those in which it need not have.

### Lifecycle

`runLifecycleAction` in `utils/blockchain.ts`, which every page of the web application
uses: ask for a transaction, have it signed, broadcast it, post the confirmation and post
it again after a 502, 503 or 504. `client[c].todo` is what the confirmation handler has
still to write, one database statement per step; `Lose` is a server restart under the
handler or an answer lost on the way, after which the page posts again although some or
all statements were executed. The products EXTEND the module and say what is built, what
the chain accepts and what is written.

### Campaigns

Four families, chosen in `Init` with what their create routes admit (`airdrop_create`
and its siblings: only a bounty computes its pool, nobody compares the total of a grant
with its milestones). A family is a covenant (a payout rule, and how many outputs each
function admits), builders named after the services, routes named after the handlers
and a list of statements per confirmation. `Offer` is a page having one of the
transactions a route can build signed; `broadcast` spends the UTXO or is refused.
`resumeOnChain` is the one operation without builder. `AirdropDetailPage` and its siblings
say which operations a page offers. What a page shows of a row may be old, so its look at
the status excludes nothing the route admits; only terms that never change restrict it.

* One unit is 1000 satoshis: the reserve is 5, a builder's own fee 4, the cap 5.
* `change` is whether the fee payer's inputs leave change, which is one more output.
* `retried` and `interrupted` are history: a confirmation was posted again, or a restart
  fell between two of its statements. Properties say when they need that neither happened.
* `Misbuilt` lists where builder and contract disagree; `BuilderAgrees` states that they
  agree everywhere else and disagree exactly there.

### StreamRequests

Streams (linear and step), recurring streams, payments and budget plans; two pages of the
sender and two of the recipient, so that operations overlap. A confirmation is a list of
writes computed from the row as it was when it was read, so that overlapping ones lose
updates. `sibling` is the other streams of a batch: one transaction funds them and one
confirmation records them row by row. The schedule is reduced to how much is due
(`vested`); `VestingCovenant` has the clock. `Doubtful` names what the network may refuse
although the contract accepts it: builders that date a transaction by the server's clock,
ahead of the chain's median time, and pay less than it takes to relay a script of that
size. `mishaps` is history, as in `Campaigns`; the operations of two pages overlapping
without reading each other's rows is distinguished from reading a row that another
confirmation is about to write ("raced"). Pages are modelled as in `Campaigns`;
`terms.pausable` matters to the page of a payment only. Releases of milestones and the
funding of batches are started elsewhere.

### ChainIndexer

`projector.ts` and `sync-state.ts` against a chain that mines, reorganises and receives
the transactions of one covenant. A block is its height and the number of
reorganisations before it. Header handlers have one action per await and may overlap;
projections of an address are chained, two requests and one transaction each. A crash
(`Crash`) loses the handlers, the queue and the projection; the chain goes on without the
process until `Start` reads the cursor and subscribes again, and is answered with one
header, that of the tip. `trouble` is history: overlapping handlers, a reorganisation under
a projection, one as deep as the confirmations or as the window, one that replaced blocks
never stored ("unseen": of the blocks of a reorganisation only the tip is announced and
stored), blocks mined while the process was down ("missed"), a failed request. Each
property names the trouble that excuses it, which says what the code depends on.

### VoteLocks

`VoteLockCovenant.cash`, its builders and the governance routes for one proposal. Tokens
are coins that change hands and do not split; a coin's UTXO is named by how often it was
moved, so that a signed lock transaction may arrive after its tokens have gone.
`GovernancePage` offers locking and unlocking. Beside it wallets act without the backend:

* `lockElsewhere` makes a lock at any time, of coins, or of tokens of another category (no
  coins), which `lock` builds too when its request names that category. `late` says that it
  is of coins and was made after the deadline.
* `reclaimElsewhere` spends a lock, with any locktime and either sequence: the contract
  compares the locktime but nothing makes consensus enforce it unless the input is not
  final, and `early` records that this happened.
* `presentLock` confirms any lock that was ever mined (`mined`), spent or not, with any
  weight. It is taken by a voter without a row, since with one the confirmation fails and
  leaves nothing behind.

The confirmation looks at one output of the transaction (`ExpectedOutput`): its address, which
follows from proposal, choice, key and deadline, and the number of tokens. It compares no
category and no time, and does not ask whether the output is spent. `early`, `Backed` and
`SameLock` name these cases, and `TokensVoteOnce` says that without them the rest is
right. A row is unique by the address as it was logged in with, of which one key may have
several spellings: `Voters` are the spellings, and `wallet`, chosen in `Init`, is the key of
each.

### MC modules

`MCVaultCovenant`, `MCPolicyState`, `MCPayoutSessions` and `MCVoteLocks` add the symmetry
sets of their runs, `MCVestingCovenant` the unlock points, `MCStreamRequests` the pages,
`MCCampaigns` the users and their symmetry; `MCChainIndexer` adds nothing.

## 4. Runs

| Run | Result | What it shows |
|---|---|---|
| `vault` | holds | `PeriodCapHolds` (history's sum, not the counter), `PeriodsApart` (payouts of different periods lie a period less the lag apart), `LoneSignerPaysNobody`, `VaultIsEscrow`; each says what of it holds when the vault is a later input than the first |
| `policy` | holds | `WordMatchesRows` for handlers that run alone, `ApprovedWasCounted` for every interleaving, `RowsOnlyAdvance` |
| `policy_quorum` | violated | two approvals of proposal number 4 leave it pending, although no handlers overlapped |
| `payouts` | holds | `PaidAtMostOnce` unless two execute requests raced, `ExecutedIsPaid`, `UnrecordedPayoutIsFound`, `BuilderAgrees` |
| `payouts_stuck` | violated | a session signed by everyone is never executed once another payout took its UTXO |
| `vesting` | holds | `PausedTimeDoesNotVest` and `ClaimKeepsUp` (what claims release follows the time the stream has been running, from both sides), `CancelIsFair`, `CompletionIsDue`, `VestingIsEscrow` (for transactions whose first input is the stream) |
| `vesting_cancel` | violated | the split of a stream cancelled from PAUSED counts the pause as elapsed |
| `campaigns` | holds | `BuilderAgrees` (with the exceptions named), `ReserveIsKept` (which payouts leave the fee reserve whole and which consume it), `RecordsMatchPayouts` and `RowTrailsChain` under restarts and repeated confirmations, `CampaignIsEscrow` |
| `streams` | holds | `ClaimsAddUp` (row, records and chain), `RowAgrees` (no operation ends with a row that disagrees when nothing overlapped or was lost), `CancelledIsFinal` |
| `indexer` | holds | `RowIsOnChain`, `AbandonedSpendIsUndone`, `NeighboursAreLinked`, `RowOnlyAdvances`; with fairness `SpendsAreSeen`, `CursorFollows` |
| `votes` | holds | `TallyIsVotes`; `TokensVoteOnce` (no more weight than tokens, unless a vote is not backed by tokens locked in time, two addresses name one lock, or a lock was spent early) |
| `votes_unlock` | violated | no transaction is built to return a stake: a lock of this backend holds less than the unlock's fee |

Bounds.

* `vault`: clock 1 .. 6, duration 2, three period numbers, deposit 5 against a cap of 2
  and fees of 0 or 1. Two rollovers, a cap that binds before the deposit does, a
  spend in an elapsed period that was not rolled, and every pause/resume/lock order occur.
  The proofs cover the rest.
* `policy`: eight proposals exist, the ninth and tenth are created, the first one is
  watched by two signers; two handlers. Nine is the last number whose status bits
  are free of approval counts, ten the first that shares them. Three counted
  approvals allow for one duplicate above the threshold. Of the two cycles one shares its
  bit with the status of number 1 and one with no number. The proofs cover other numbers of
  handlers and proposals, and cycles that have no bit.
* `policy_quorum`: one handler, so that no interleaving is involved; number 4 is the
  first without an approval count.
* `payouts`: two proposals, each as large as the cap, so that a second payout needs a
  new period; two request slots, so that a race is possible; two sessions and two vault
  moves; failures on. The raced double payout that `PaidAtMostOnce` excludes is reachable.
* `vesting`: a total of 4 over 4 ticks, a step every 2, a cliff and an unlock inside the
  schedule, two tranches, a start after the funding (so that elapsed time is negative),
  two pauses, a lag of one tick and ten ticks of clock: the schedule ends before the
  clock does even after both pauses. `vesting_cancel` has no lag, so that dates are exact.
* `payouts_stuck`: as small as the counterexample allows, without failures, so that
  nothing but the protocol is to blame.
* `campaigns`: two claimants and a creator, three shares of 4 in pools of 11, 12 and 14, so
  that a last share does not fit, fits exactly, or leaves something; rewards of 3 and 4; a
  confirmation is posted at most twice, which is enough to execute every statement twice.
  One resumption, since a second repeats the first with a smaller reserve.
* `streams`: two shares, two pages for each side, at most four moves of the UTXO (fund,
  claim or pause, claim or resume, cancel), one confirmation posted again.
* `indexer`: two confirmations, a window of two headers and two kept blocks stand for six,
  six and a hundred: with four heights there are a shallow reorganisation, one as deep as the
  window, and blocks below it. Two transactions are the least for a spend. One fault of
  any kind, a crash included, each of which each property survives or names. The proofs
  cover longer chains and more faults.
* `votes`: two addresses, of one wallet or of two, one token, two choices, a deadline in the
  middle of the clock. Two locks are made (`MaxLocks`), so that one token can stand behind
  two of them, one after the other, and a token is next to one of another category; weights
  are one or two (`MaxWeight`), so that one is more than the token. A coin moves three times
  (`MaxMoves`): handed on or locked, reclaimed, locked again. The proofs cover any number of
  tokens, voters, locks and weights. `votes_unlock` has one voter and one more tick, so that
  the clock passes the deadline by more than the backdating.

Deadlock checking is off in these runs: a vault that is locked, a clock at its bound
and proposals that are all executed are places where the system may stop; so are
campaigns, streams and votes that are over, and a chain at its last height.

Fairness is used by two runs. In `payouts_stuck`, `FairSpec` asks that the server goes on with a
request it has begun (weak fairness of `Settle` per session): Node runs the
continuation of every promise that settles, and `payouts_stuck` has no restarts. No
fairness is put on signers, requests, the chain or the clock. In `indexer` it asks that each
header handler and each projection goes on (weak fairness of their next step): Node runs
the continuation of every request that was answered, and requests time out. A process
that is down is started again (weak fairness of `Start`): `backend/indexer/railway.toml`
says `restartPolicyType = "ON_FAILURE"`. None is put on blocks, transactions, failures or
crashes.

## 5. Proofs

The first part of `VaultProofs` is about the vault, for every number of periods, cap,
duration, deposit, fee bound and lag (`VaultConstants` is the only assumption it uses):

* `VaultTypeCorrect`, by induction over the actions.
* `VaultInvariant`: `VaultSpec => []VaultIInv`. `PeriodCapHolds` is not inductive: it speaks of
  the history while the contract only sees its counter. `CounterIsHistory` ties the
  two (the counter is what the current period paid; later periods paid nothing).
  `PeriodsApart` needs `UpdatesFollowPayouts`: `last_update_timestamp` is never more
  than the lag behind a payout, so the next period starts late enough.
  `LoneSignerPaysNobody` needs `LoneSignerTrail`: period numbers advance no faster than
  time, and a lone signer burns one fee per period and one for the pause. Where a bound is
  about the vault as first input, the invariant says so with `~laterInput`.
* `VaultPeriodCap`, `VaultPeriodsApart`, `VaultLoneSigner` follow from it.
* `VaultImplementsEscrow`: initial states map to initial states, and each action but
  `asLaterInput` is a step of `Escrow` or leaves it unchanged.

`PolicyStateProofs`, for any number of signers, handlers, proposals and cycles and the two
thresholds `VaultService.createVault` admits (`PolicyConstants`; `IdleConstant` keeps the idle
slot apart from handlers):

* The first part says what each operator of `StateBits` does to the fields of a word: which
  bits it may touch (`SameBut`), what it leaves in its own field, and that fields of other
  numbers and cycles are not among those bits while there are at most nine proposals.
* `PolicyInvariant`. `ApprovedWasCounted` is about the rows and is decided by a word that may
  be stale: `Counted` says that no word, the vault's or one a handler carries, counts
  more approvals than were given (`Real`), and that what a handler is about to write
  is backed. `WordMatchesRows` is about moments when nothing runs: `Following` says for each
  await of a handler that runs alone how far its word, the vault's word and its row have
  come (`Follows`), and `Alone` that what it has read is still true. That a new number's count
  is zero needs `Counted` and `Numbered`: nothing is counted for a number without a row.
* `PolicyTypeOK`, `PolicyApprovedWasCounted`, `PolicyWordMatchesRows` and the action property
  `PolicyRowsOnlyAdvance` follow.

`VestingCovenantProofs` first proves what the schedules promise, for every schedule that
`ScheduleConstants` admits (`VestedSound`): the amount is an integer, at most the total,
and monotone in the time. It rests on lemmas about truncating division, and for the
tranches on the existence of a last passed unlock point (a well-founded minimum). The rest
is for every total, duration, cliff, reserve, fee bound, lag and number of pauses
(`VestingConstants`, `ScheduleConstants`):

* `VestingTypeOK`, by induction over the actions.
* `VestingInvariant`: `Spec => []IInv`. What was claimed is compared with the time the
  stream has been running, of which the contract knows only its cursor;
  `CursorShifted` ties the two, in a pause through `pauseStart`. `OnlyPausesIdle` says
  that a stream that was never paused stood never still, `NothingBeyondReserve` that
  the UTXO holds no more than what is owed and the reserve.
* `VestingPausedTime`, `VestingClaimKeepsUp`, `VestingCancelIsFair` and
  `VestingCompletionIsDue` follow from the invariant and the monotonicity of the schedules.
* `VestingImplementsEscrow`, for every action but `asLaterInput`: hybrid and tranche `complete` bound no fee, so that the
  fee of the closing step is bounded by the invariant (at most `Reserve`, and
  `Reserve <= MaxFee`), not by a guard.

`Sums` proves what the proofs about counts need: the sum of a function over a finite set,
which the community modules define by a recursion that picks the elements in an unknown
order, grows by the difference when one value changes (`SumUpdate` and its
siblings). The induction goes through a smallest counterexample, because a theorem that
takes a predicate cannot be used.

The second part of `VaultProofs` is about the sessions, for every number of proposals,
concurrent requests and sessions (`VaultConstants` and `PayoutConstants`: a builder's fee
within the covenant's; clocks and period numbers within four bytes; a lag no shorter than
the clock's run, so that a signed transaction may wait for ever; no builder dates back so
far that the first new period would begin before the least timestamp):

* `PayoutInvariant`. `BuilderAgrees` is about a transaction built for the UTXO that is
  unspent now, so `TxsAreBuilt` says of every session that what the builder checked still
  holds as long as its UTXO is the vault's. `UnrecordedPayoutIsFound` and `ExecutedIsPaid`
  need `SessionsAreOrdered` and `PayoutsHaveSessions`: a payout left a session that both
  signers signed and that is past its broadcast. `PaidAtMostOnce` needs
  `OneSessionUnlessRaced`: without a race a request that has passed the search for
  pending sessions is alone, so a proposal has one session.
* `PayoutTypeOK`, `PayoutOnce`, `PayoutExecutedIsPaid`, `PayoutIsFound` and
  `PayoutBuilderAgrees` follow.
* `PayoutsKeepVault`: the vault under the sessions behaves as `VaultSpec`, step by step. So
  every theorem of the first part holds of it, and without the exception for a later input,
  which the sessions never are (`IInv` has `~laterInput`): `PayoutPeriodCap` and
  `PayoutsImplementEscrow` state two of them so. `PeriodsApart` says little here: it
  is relative to `Lag`, and a session that waits for a signature dates the vault back by
  the wait.

`VoteLocksProofs`, for every number of wallets, addresses, tokens and choices, any deadline
and any number of locks and retries (`VoteConstants`: finite sets, and a missing vote is no
vote):

* `VotesInvariant`. `TypeOK` says that no coin is in two locks, which needs
  `LocksAreFresh`: a lock transaction is out of date once one of its coins moves; and that
  rows name mined locks, which needs `PostsOK` of the confirmations on their way. For
  `TokensVoteOnce`, `TallyWithinVotes` bounds the tally, and what is on its way to it, by
  the recorded weights; and `LocksApart` says that the locks made in time, spent or not, are
  of different coins as long as none was spent early, because a coin in one of them is
  `Settled`: it stays locked until no more locks are made in time. Recorded votes that name
  different such locks then have different coins behind them.
* `VotesTypeOK`, `VotesTally` and `VotesOnce` follow.

`CampaignsProofs`, for any number of claimants and any pool, share and number of slots, in
all four families (`CampaignConstants`):

* `CampaignsInvariant`, in three layers. Of the chain (`Funds`): what the covenant counts was
  paid, the value never exceeds what is owed and the reserve, and the value of an airdrop
  is never exactly what it still owes (`AirdropGap`), the one value at which its cancellation
  would be accepted. Of the pages: a transaction has the shape its builder gives it for ever
  (`Shape`) and fits the contract as long as its UTXO is unspent (`Fits`); one that was mined
  has left its trace (`Happened`). Of the rows: every statement still to be executed by the
  first confirmation of a payout is `Owed`, and rows and what is owed are at
  most the payouts. Steps are grouped by what they do (a transaction is built, dropped, mined,
  confirmed, posted again; a statement is written; the authority resumes), whatever
  the family.
* `CampaignsTypeOK`, `CampaignsBuilderAgrees` (which says exactly when builder and contract
  disagree), `CampaignsReserve`, `CampaignsRecords`, `CampaignsRowTrails` follow.
* `CampaignsEscrow`: each campaign, with its builders, routes and pages, is an `Escrow`.

`StreamRequestsProofs`, for any number of pages of either side, any share and any number of
moves of the UTXO, in all four kinds (`StreamConstants`: finitely many pages, a positive
share, two different parties):

* `StreamsInvariant`, in four parts.
  * *Types.* `Typed`, `WholeShares` and `ClientsOk`: a page's transaction has the fields its
    builder gives it, never leaves the contract less than nothing or more than it was funded
    with, and a page in the middle of a confirmation has one of the lists of statements
    left that belongs to its operation (`Remains`). An accepted cancellation leaves a
    contract nobody moves, so `CancelledOnChain`: a cancelled row is a cancelled contract.
  * *One at a time.* `OneOutstanding` and `OneWriter` say what "overlapped" and "raced"
    exclude, and that the contract's status is the outcome of the one operation that is
    outstanding. `NotYetCancelled` is what `CancelledIsFinal` needs: no handler that is
    going to write a stream's status has had the row cancelled under it.
  * *Sums.* The records are at most what was released, and that is not inductive:
    `RecordsTrail` adds the claims that were mined and whose first confirmation has still to
    record them, summed over the pages. `WithdrawnAddsUp` says how row and records differ
    between the two statements of a claim (`Halfway`).
  * *Row and chain.* `RowFollows`: without mishaps, row and chain agree, or exactly one
    operation is outstanding and the row is `Behind` by what its statements are still to
    write, statement by statement.
* `StreamsTypeOK`, `StreamsClaimsAddUp`, `StreamsRowAgrees` and the action property
  `StreamsCancelledIsFinal` follow.

`ChainIndexerProofs`, for any chain, any thresholds with at least two headers compared and
as many blocks kept as are compared (`IndexerConstants`; the code has 6, 6 and 100), and any
number of reorganisations, overlaps, failures and crashes:

* `IndexerInvariant`. `Typed` says among others that the names of stored blocks are no
  younger than the tip's and that stored heights lie close together. `RowIsOnChain` needs
  `ReadsHold` (what a projection has read is true until the chain is reorganised
  under it) and `RowIsDeep` (the row's height is Confirmations deep, so
  that a shallow reorganisation passes above it). `NeighboursAreLinked` needs `OneHandler`
  and `Compared`: stored blocks within the window that a handler has compared and left are
  blocks of the chain. `AbandonedSpendIsUndone` needs `SpendsHold`: a recorded
  spend is right, or `Pending`, which means that the stored block at its height differs
  from the chain's, lies within the window, and a handler is still to compare it or has found
  a fork no higher.
* `IndexerTypeOK`, `IndexerRowIsOnChain`, `IndexerAbandonedSpend`, `IndexerNeighbours` and
  the action property `IndexerRowOnlyAdvances` follow.

Each inductive invariant was checked by TLC on small instances before it was proved.

Model-checked only: the liveness properties `SpendsAreSeen` and `CursorFollows`, and the
counterexamples of a document against the code. Liveness under fairness, ENABLED, induction
over data and RECURSIVE operators are out of the prover's reach.

## 6. Findings

Four places where the code does less than the documentation promises, each shown by a
violation run: approval counts exist for proposals 0 to 3 only (`policy_quorum`); a
session whose vault UTXO was consumed can never be executed or replaced
(`payouts_stuck`); cancelling a paused stream is documented to split it at `pause_start`
and splits it at the time of the transaction (`vesting_cancel`); the stake of a vote is not
returned, since the lock holds 1000 satoshis and the builder of the unlock takes its fee of
4000 out of them and throws (`votes_unlock`). With a smaller fee the covenant would refuse
the transaction, whose output 0 lacks the NFT that the category of the input includes; the
e2e test `contracts/tests/e2e/votelock-reclaim.e2e.mjs` locks an immutable NFT and more
satoshis, and so meets neither.

What the passing runs show beside, stated in the exceptions of their properties or in
comments of the modules:

* Airdrop and grant payouts take 4000 satoshis each from a reserve of 5000. From the second
  one on the UTXO holds less than is owed, so that the last share cannot be paid and a
  cancellation, which has to return everything that is owed, cannot be built either
  (`ReserveIsKept`). Recurring payments lose their last interval in the same way; pausing
  and resuming them costs 4000 each.
* The refund of an airdrop always has one output more than the contract admits; that of a
  bounty and the transfer of a grant when the fee payer gets change; a budget release too
  (`BuilderAgrees`, `claim` of `StreamRequests`).
* A milestone is built for the recipient of the row, who after an unconfirmed transfer is
  not the recipient of the grant, and for a grant whose total is too small for it.
* Pauses and resumptions of vesting streams, budget releases and the cancellation of a payment
  are dated by the server's clock and pay less than other comments of the repository give as
  the minimum for relaying, while `utils/wcSerializer.ts` says that builders keep below the
  median time (`Doubtful`).
* `refill()` asks a BCH stream for more tokens, so that no refill is accepted.
* When nothing is claimable, the cancellation of a vesting stream puts the recipient's dust
  first and a third output last, which the contract refuses.
* Confirmations of payments and budget plans compare no status; a late one writes over
  CANCELLED. A payment's cancellation is refused for good when a claim before it was not
  confirmed. No confirmation of a stream, airdrop or reward records completion.
* The page of budget plans shows "Release Milestone" only when a plan has a `nextUnlock`,
  which `mapBudgetPlanRow` (`api/budgetPlans.ts`) never returns. The page of a payment
  hides pause, resume and cancel of a payment that is not pausable, although its routes and
  covenant look at `cancelable` only.
* A batch of which one stream has been confirmed cannot be confirmed any more.
* The number of earlier claims of an airdrop's claimer is read without `await` and limits
  nothing; the unique index refuses the second record after its payout.
* Covenants bind the first input of a transaction. What they promise of cap, fees, pauses and
  conservation they promise for transactions in which they come first, which is all that
  the backend builds; `asLaterInput` is what is left of it elsewhere.
* The vote lock covenant leaves the deadline to the sequence number of the spender's input.
  The confirmation of a lock looks at neither category, time nor whether it is spent, and
  counts one vote per spelling of an address (`TokensVoteOnce`).
  A vote whose confirmation was interrupted between row and tally is never tallied.
  An unlock built within two hours after the deadline carries a locktime before it.
* The indexer drops a projection whose request fails; a UTXO that was too young when it was
  read is not looked at again when it is old enough; a fork deeper than the window leaves
  rows of the abandoned chain, although the FAQ (`FaqPage.tsx`) says that the indexer then
  re-derives its state from the new tip: six headers are compared, the new tip included. Of the blocks of a reorganisation only the new tip is stored,
  so that a second one before it is buried is noticed at that height and no lower: spends
  recorded below it stay (`AbandonedSpendIsUndone` excuses "unseen").
* A proposal covenant is funded with 2000 satoshis, of which the builder of an approval
  takes 4000.

## 7. Abstractions, and what is not modelled

* Signatures, hashes, script sizes and serialisation: an action is taken by somebody
  entitled to it.
* The chain's median time past and the server's clock are one clock, `now`; the two
  hours by which builders date back are `Lag` (`BuilderLag` of the payouts). Integers of the covenants (64 bit) are
  unbounded; bounded fields that the contract pads (`MaxPeriodId`) are kept.
* The database executes one statement at a time; a statement inside a transaction that
  holds a row lock is one action together with the rest of that transaction.
* Signer administration, balances and the rows of `cycles` beside the policy word.
* Wallets: any transaction a route returned may be signed, declined or signed late. Nobody
  signs what no route built, except for resumptions of campaigns and for votes, where locks
  are also made and reclaimed without the backend. `VaultCovenant` and `VestingCovenant`
  admit every transaction their contracts accept. `Campaigns` and `StreamRequests` have the
  route-built ones only, in which the covenant is the first input; their contracts read
  `tx.inputs[0]` like the others, and what their properties say of money is said of those
  transactions.
* Who has the NFT that a lock needs: the administrator hands them out (`VoteLockService.ts`).
* The token mode of campaigns and streams, tranche and hybrid builders, and `transfer` of
  streams, which are all created with `transferable = 0`. (`VestingCovenant` has the
  contracts' side of all of these.)
* A second funding of one contract, which the funding routes of payments and campaigns do
  not exclude.
* The dates of recurring payments; Merkle proofs, hashes and serialisation.
* `TransactionMonitor.ts`: its queries read rows that no code inserts.
* The proposal covenant, the tally commitments, wallet authentication and rate limits: left to a
  later extension.
* Explorer, price, status, list, statistics and export routes only read. Of the pages of the
  web application, which are about half of the repository's lines, the models have which
  operations each starts; the rest renders rows and keeps no state that the models would
  tell apart.
