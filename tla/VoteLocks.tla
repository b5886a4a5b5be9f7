------------------------------ MODULE VoteLocks ------------------------------
(***************************************************************************)
(* Token-weighted votes on one governance proposal.  A voter locks         *)
(* governance tokens in a VoteLockCovenant that is bound to proposal,      *)
(* choice and the voter's key; the confirmation records a vote of that     *)
(* weight and adds it to the tally; after the voting period the tokens are *)
(* reclaimed.  Both go through the Lifecycle.  Locks may also be made and  *)
(* spent by transactions of the wallet's own, and a confirmation may name  *)
(* any lock that was ever mined, for it looks at one output of the         *)
(* transaction only: not at its token category, nor at the time, nor at    *)
(* whether it is spent.                                                    *)
(*                                                                         *)
(* A row belongs to a voter, the address as logged in with; one wallet may *)
(* log in with several spellings of its address.  A token is one coin that *)
(* changes hands and never splits.  Plentiful are the mutable NFTs that a  *)
(* voter needs for a lock, tokens of other categories, and BCH.            *)
(***************************************************************************)
EXTENDS Lifecycle, Integers, FiniteSets, Functions, FiniteSetsExt

CONSTANTS
  Wallets,    \* the keys
  Coins,      \* the governance tokens there are
  VoteChoices,    \* FOR, AGAINST, ABSTAIN
  NoVote,     \* model value: no row for this voter
  LockSats,   \* the 1000 satoshis that the backend puts into a lock
  AmpleSats,  \* what a lock made elsewhere holds
  UnlockFee,  \* the 4000 satoshis that the backend's unlock pays
  Dust,       \* the 546 satoshis that it must leave
  VotingEnds, \* voting_ends_at, the unlockTimestamp of every lock
  Backdate,   \* the 7200 seconds by which an unlock is dated back
  MaxTime,    \* bound of the clock
  MaxMoves,   \* bound: how often one coin changes hands
  MaxLocks,   \* bound: the locks that are made
  MaxWeight   \* bound: the weight that is posted for a lock

\* A lock: whose it is, for which choice, of which coins (by the UTXOs they came from),
\* with how much BCH, and whether it was made after the voting period.
Locks == [wallet : Wallets, choice : VoteChoices, coins : SUBSET Coins,
          spends : UNION {[coins -> 0 .. MaxMoves] : coins \in SUBSET Coins}, sats : Nat, late : BOOLEAN]

ASSUME VoteConstants ==
  /\ IsFiniteSet(Clients) /\ IsFiniteSet(Coins) /\ IsFiniteSet(VoteChoices)
  /\ NoVote \notin [lock : Locks, weight : Nat]
  /\ {VotingEnds, Backdate, MaxTime, MaxMoves, MaxLocks, MaxWeight} \subseteq Nat
  /\ {LockSats, AmpleSats, UnlockFee, Dust} \subseteq Nat

\* The addresses, as they are spelled when their owners log in.
Voters == Clients

VARIABLES
  now,         \* the time, of the chain and of the server
  wallet,      \* the key of each address; never changes
  holder,      \* the wallet that holds a coin, itself or in a lock of its own
  moved,       \* how often a coin was moved: names the UTXO it is in
  locks,       \* the covenant UTXOs
  mined,       \* history: those and the ones spent since
  votes,       \* governance_votes, by voter: the lock it names, and a weight
  tally,       \* votes_for, votes_against, votes_abstain of the proposal
  early,       \* history: a lock was spent before the voting period ended
  interrupted  \* history: a restart interrupted a confirmation

chain == <<wallet, holder, moved, locks, mined, early>>
db == <<votes, tally>>
vars == <<client, now, chain, db, interrupted>>

-----------------------------------------------------------------------------
(* The contract *)

\* The coins inside a lock.
Locked == UNION {l.coins : l \in locks}

\* reclaim() of a lock in transaction tx: the locktime lies after the voting period, and
\* output 0 has the tokens and the category of input 0, whose last byte is the capability
\* of the NFT.  (A lock that is not input 0 is held to the locktime all the same, and its
\* tokens are the voter's to send on in either case.)
reclaim(tx) == /\ tx.locktime >= VotingEnds
               /\ tx.nft = "mutable"

\* Consensus looks at the locktime of a transaction only if an input is not final, and
\* wants it in the past.
Timely(tx) == tx.final \/ tx.locktime \in {0} \cup 1 .. now - 1

\* A lock transaction spends coins that are where they were when it was built; an
\* unlock spends a lock that is there, as its contract admits.
Accepts(tx) ==
  /\ Timely(tx)
  /\ \/ /\ tx.op = "lock"
        /\ \A c \in tx.lock.coins : moved[c] = tx.lock.spends[c]
     \/ /\ tx.op = "unlock"
        /\ tx.lock \in locks
        /\ reclaim(tx)

\* What the chain becomes.  A lock holds a mutable NFT beside the coins; one without
\* coins holds tokens of another category.
Move(coins) == moved' = [c \in Coins |-> IF c \in coins THEN moved[c] + 1 ELSE moved[c]]
Applied(tx) ==
  IF tx.op = "lock"
  THEN /\ locks' = locks \cup {tx.lock}
       /\ mined' = mined \cup {tx.lock}
       /\ Move(tx.lock.coins)
       /\ UNCHANGED <<wallet, holder, early>>
  ELSE /\ locks' = locks \ {tx.lock}
       /\ Move(tx.lock.coins)
       /\ early' = (early \/ (now <= VotingEnds /\ tx.lock.coins # {}))
       /\ UNCHANGED <<wallet, holder, mined>>

-----------------------------------------------------------------------------
(* The builders, and the routes that call them *)

\* What a wallet can lock: its coins.
Stakes(w) == {stake \in SUBSET {c \in Coins : holder[c] = w /\ c \notin Locked /\ moved[c] < MaxMoves} :
               Cardinality(mined) < MaxLocks}

\* buildLockTransaction: coins of the voter's wallet, and a mutable NFT, go to the
\* covenant.  No locktime.
LockTxs(v, choice) ==
  {[op |-> "lock", weight |-> Cardinality(stake), locktime |-> 0, final |-> FALSE,
    lock |-> [wallet |-> wallet[v], choice |-> choice, coins |-> stake,
              spends |-> Restrict(moved, stake), sats |-> LockSats, late |-> FALSE]] :
     stake \in Stakes(wallet[v]) \ {{}}}

\* buildUnlockTransaction: a lock at the address of the vote, all of its tokens back
\* to the voter in an output without NFT, dated back so that it can be mined at once.
\* It throws for a lock that does not hold the fee.
UnlockTxs(v) ==
  {[op |-> "unlock", lock |-> l, nft |-> "none", locktime |-> Max({0, now - Backdate}),
    final |-> FALSE] :
     l \in {k \in locks : /\ k.wallet = wallet[v] /\ k.choice = votes[v].lock.choice
                         /\ k.sats - UnlockFee >= Dust}}

\* Mutant: POST /governance/:proposalId/lock does not look at the deadline.
LockRouteAlwaysOpen(v) == UNION {LockTxs(v, choice) : choice \in VoteChoices}

\* POST /governance/:proposalId/lock, for a proposal that is ACTIVE for good.
LockRoute(v) == IF now > VotingEnds THEN {} ELSE UNION {LockTxs(v, choice) : choice \in VoteChoices}

\* POST /governance/:proposalId/unlock, for a voter with a vote.
UnlockRoute(v) == IF votes[v] = NoVote \/ now < VotingEnds THEN {} ELSE UnlockTxs(v)

-----------------------------------------------------------------------------
\* A proposal is created with its deadline ahead; the coins are in wallets.
Init ==
  /\ LifecycleInit
  /\ now = 0
  /\ wallet \in [Voters -> Wallets]
  /\ holder \in [Coins -> Wallets]
  /\ moved = [c \in Coins |-> 0]
  /\ locks = {} /\ mined = {}
  /\ votes = [v \in Voters |-> NoVote]
  /\ tally = [choice \in VoteChoices |-> 0]
  /\ early = FALSE
  /\ interrupted = FALSE

Offer(v, txs) == /\ \E tx \in txs : Sign(v, tx)
                 /\ UNCHANGED <<now, chain, db, interrupted>>

lockTokensToVote(v) == Offer(v, LockRoute(v))
unlockVotingTokens(v) == Offer(v, UnlockRoute(v))

\* The page offers both; what it shows of a proposal, and its own clock, may be late.
GovernancePage(v) == lockTokensToVote(v) \/ unlockVotingTokens(v)

Decline(v) == Refuse(v) /\ UNCHANGED <<now, chain, db, interrupted>>

broadcast(v) ==
  LET tx == client[v].tx
  IN  /\ At(v, "signing")
      /\ IF Accepts(tx) THEN Broadcast(v) /\ Applied(tx)
                        ELSE Rejected(v) /\ UNCHANGED chain
      /\ UNCHANGED <<now, db, interrupted>>

\* A confirmation is posted for a mined transaction that the page knows nothing of, with
\* any weight.  (With a row there already, it would fail and leave nothing behind.)
presentLock(v) ==
  /\ At(v, "idle") /\ votes[v] = NoVote
  /\ \E l \in mined, weight \in 1 .. MaxWeight :
       client' = [client EXCEPT ![v].at = "waiting", ![v].tx =
                    [op |-> "lock", weight |-> weight, locktime |-> 0, final |-> FALSE, lock |-> l]]
  /\ UNCHANGED <<now, chain, db, interrupted>>

\* A lock of coins has as many tokens; of another category, as many as one likes.
Holds(l, weight) == l.coins = {} \/ weight <= Cardinality(l.coins)

\* Mutant: the weight is not compared with the output.
ExpectedOutputOfAnyWeight(v, tx) == tx.lock.wallet = wallet[v]

\* The output at the address that follows from the voter's key and the choice.
ExpectedOutput(v, tx) == tx.lock.wallet = wallet[v] /\ Holds(tx.lock, tx.weight)

\* POST /governance/:proposalId/confirm-lock: the transaction has the expected output,
\* then two statements.  (Of an unlock, the confirmation writes a date only.)
confirm(v) ==
  LET tx == client[v].tx
  IN  /\ At(v, "waiting")
      /\ \/ tx.op = "lock" /\ ExpectedOutput(v, tx) /\ Confirm(v, <<"vote", "tally">>)
         \/ tx.op = "lock" /\ ~ExpectedOutput(v, tx) /\ Refused(v)
         \/ tx.op = "unlock" /\ Confirm(v, <<>>)
      /\ UNCHANGED <<now, chain, db, interrupted>>

\* The row that a confirmation writes.
Row(v) == [lock |-> client[v].tx.lock, weight |-> client[v].tx.weight]

\* Mutant: the row is written over instead of being unique.
insertVoteReplaces(v) ==
  /\ Due(v, "vote")
  /\ Written(v)
  /\ votes' = [votes EXCEPT ![v] = Row(v)]
  /\ UNCHANGED tally

\* The row is unique for proposal and address: a second one fails the confirmation.
insertVote(v) ==
  /\ Due(v, "vote")
  /\ IF votes[v] = NoVote
     THEN Written(v) /\ votes' = [votes EXCEPT ![v] = Row(v)]
     ELSE Refused(v) /\ UNCHANGED votes
  /\ UNCHANGED tally

addToTally(v) == /\ Due(v, "tally")
                 /\ Written(v)
                 /\ tally' = [tally EXCEPT ![Row(v).lock.choice] = @ + Row(v).weight]
                 /\ UNCHANGED votes

statement(v) == insertVote(v) \/ addToTally(v)

answer(v) == Answer(v) /\ UNCHANGED <<now, chain, db, interrupted>>

lose(v) == /\ Lose(v)
           /\ interrupted' = (interrupted \/ client[v].todo # <<>>)
           /\ UNCHANGED <<now, chain, db>>

\* A wallet makes a lock without the backend: of its coins or of tokens of another
\* category, at any time, with satoshis enough for the fee.
lockElsewhere(w) ==
  \E choice \in VoteChoices, stake \in Stakes(w) :
    /\ Applied([op |-> "lock",
                lock |-> [wallet |-> w, choice |-> choice, coins |-> stake,
                          spends |-> Restrict(moved, stake), sats |-> AmpleSats,
                          late |-> stake # {} /\ now > VotingEnds]])
    /\ UNCHANGED <<client, now, db, interrupted>>

\* It spends a lock with a transaction of its own, which returns the NFT too.
reclaimElsewhere(w) ==
  \E l \in locks, locktime \in 0 .. MaxTime, final \in BOOLEAN :
    LET tx == [op |-> "unlock", lock |-> l, nft |-> "mutable", locktime |-> locktime, final |-> final]
    IN  /\ l.wallet = w /\ l.coins # {}
        /\ Accepts(tx)
        /\ Applied(tx)
        /\ UNCHANGED <<client, now, db, interrupted>>

\* A coin changes hands.
transfer(w) ==
  \E c \in Coins :
    /\ holder[c] # w /\ c \notin Locked /\ moved[c] < MaxMoves
    /\ holder' = [holder EXCEPT ![c] = w]
    /\ Move({c})
    /\ UNCHANGED <<client, now, wallet, locks, mined, early, db, interrupted>>

Tick == /\ now < MaxTime
        /\ now' = now + 1
        /\ UNCHANGED <<client, chain, db, interrupted>>

Next ==
  \/ \E v \in Voters :
       \/ GovernancePage(v) \/ Decline(v) \/ broadcast(v)
       \/ presentLock(v) \/ confirm(v)
       \/ statement(v) /\ UNCHANGED <<now, chain, interrupted>>
       \/ answer(v) \/ lose(v)
  \/ \E w \in Wallets : lockElsewhere(w) \/ reclaimElsewhere(w) \/ transfer(w)
  \/ Tick

Spec == Init /\ [][Next]_vars

-----------------------------------------------------------------------------
(* Properties *)

\* What wallets, locks and rows may hold: no coin is in two locks, or in one of
\* somebody else's; a row names a lock of the voter's key that was mined, and no more
\* weight than it has tokens.
TypeOK ==
  /\ now \in 0 .. MaxTime
  /\ holder \in [Coins -> Wallets]
  /\ locks \subseteq mined
  /\ \A l \in locks : \A c \in l.coins : /\ holder[c] = l.wallet
                                       /\ \A k \in locks \ {l} : c \notin k.coins
  /\ votes \in [Voters -> {NoVote} \cup [lock : Locks, weight : Nat \ {0}]]
  /\ \A v \in Voters : votes[v] # NoVote =>
       /\ votes[v].lock \in mined /\ votes[v].lock.wallet = wallet[v]
       /\ Holds(votes[v].lock, votes[v].weight)
  /\ tally \in [VoteChoices -> Nat]

\* The tally of each choice is the sum of the votes recorded for it, except for the
\* confirmations that stand between the two statements: repeated confirmations, second
\* locks of a voter and declined signatures change nothing, only a restart in between
\* loses a vote.
Recorded(choice) ==
  [v \in Voters |-> IF votes[v] # NoVote /\ votes[v].lock.choice = choice THEN votes[v].weight ELSE 0]
Untallied(choice) ==
  [v \in Voters |-> IF client[v].todo = <<"tally">> /\ Row(v).lock.choice = choice
                    THEN Row(v).weight ELSE 0]
TallyIsVotes ==
  ~interrupted => \A choice \in VoteChoices :
    tally[choice] + SumFunctionOnSet(Untallied(choice), Voters)
      = SumFunctionOnSet(Recorded(choice), Voters)

\* A recorded vote is backed by governance tokens that were locked in time: those of a
\* lock that the route built, or that was made elsewhere before the deadline.  The
\* confirmation asks for neither.
Backed(v) == votes[v].lock.coins # {} /\ ~votes[v].lock.late

\* Two addresses name the same lock, which takes two spellings of one key.
SameLock(v, w) == v # w /\ votes[v] # NoVote /\ votes[w] # NoVote /\ votes[v].lock = votes[w].lock

\* "Prevent double-voting via UTXO consumption": however coins are locked, reclaimed,
\* handed on and locked again, however late a lock is mined and whether or not it is
\* still there when it is confirmed, no more weight is counted than there are tokens.
\* This is what the one UTXO per coin gives, and it takes three things that neither the
\* contract nor the confirmation sees to: every vote is backed by tokens locked in time,
\* no lock counts for two spellings, and no lock was spent before the voting period
\* ended, which the contract leaves to the sequence number of the input.
TokensVoteOnce ==
  /\ ~early
  /\ \A v \in Voters : votes[v] # NoVote => Backed(v)
  /\ ~\E v, w \in Voters : SameLock(v, w)
  => SumFunctionOnSet(tally, VoteChoices) <= Cardinality(Coins)

\* "Sign it, this returns your CashTokens to your address": long enough after the end of
\* the voting period, a voter whose vote names a lock that the backend built, and that
\* is still there, is offered an unlock transaction that the contract accepts.
UnlockReturnsStake ==
  \A v \in Voters :
    /\ votes[v] # NoVote /\ votes[v].lock \in locks /\ votes[v].lock.sats = LockSats
    /\ now > VotingEnds + Backdate
    => \E tx \in UnlockRoute(v) : tx.lock = votes[v].lock /\ Accepts(tx)
=============================================================================
