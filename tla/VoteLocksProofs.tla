-------------------------- MODULE VoteLocksProofs ---------------------------
(***************************************************************************)
(* Theorems about token-weighted votes, for every number of voters, keys,  *)
(* tokens and choices, every deadline and every number of retries.         *)
(***************************************************************************)
EXTENDS VoteLocks, Sums

-----------------------------------------------------------------------------
(* The inductive invariant *)

\* The transactions that the routes build, and that confirmations name.
LockTx == [op : {"lock"}, weight : Nat \ {0}, locktime : {0}, final : {FALSE}, lock : Locks]
UnlockTx == [op : {"unlock"}, lock : Locks, nft : {"none"}, locktime : Int, final : {FALSE}]
Tx == LockTx \cup UnlockTx

\* A voter who is not idle has a transaction; one whose confirmation still has
\* something to write has a lock with the expected output.
ClientState == [at : {"idle", "signing", "waiting", "running"}, tx : Tx \cup {NoTx},
                todo : {<<>>, <<"vote", "tally">>, <<"tally">>}, tries : Nat]
ClientsOK ==
  /\ client \in [Voters -> ClientState]
  /\ \A v \in Voters :
       /\ client[v].at # "idle" => client[v].tx \in Tx
       /\ client[v].todo # <<>> => client[v].at = "running" /\ client[v].tx.op = "lock"

\* A lock that is being confirmed was mined; one that passed the check is as expected.
Confirming(v) == client[v].at \in {"waiting", "running"} /\ client[v].tx.op = "lock"
PostsOK ==
  \A v \in Voters :
    /\ Confirming(v) => client[v].tx.lock \in mined
    /\ client[v].todo # <<>> => ExpectedOutput(v, client[v].tx)

ChainOK == /\ wallet \in [Voters -> Wallets]
           /\ moved \in [Coins -> Nat]
           /\ locks \subseteq mined /\ mined \subseteq Locks
           /\ early \in BOOLEAN

\* Voter v is asked to sign a transaction that locks coin c.
Signing(v, c) == At(v, "signing") /\ client[v].tx.op = "lock" /\ c \in client[v].tx.lock.coins

\* A lock transaction that was built is out of date as soon as one of its coins
\* moves; until then the coin is in the wallet.
LocksAreFresh ==
  \A v \in Voters, c \in Coins : Signing(v, c) =>
    LET l == client[v].tx.lock
    IN  /\ l.spends[c] \in Nat /\ l.spends[c] <= moved[c]
        /\ l.spends[c] = moved[c] => holder[c] = l.wallet /\ c \notin Locked

\* The weight recorded for each voter, and the weight on its way to the tally.
Weight(v) == Row(v).weight
Choice(v) == Row(v).lock.choice
Weights == [v \in Voters |-> IF votes[v] # NoVote THEN votes[v].weight ELSE 0]
OnTheWay == [v \in Voters |-> IF client[v].todo = <<"tally">> THEN Weight(v) ELSE 0]
TallyWithinVotes ==
  SumFunctionOnSet(tally, VoteChoices) + SumFunctionOnSet(OnTheWay, Voters)
    <= SumFunctionOnSet(Weights, Voters)

\* The locks made in time, spent or not, are of different coins, as long as no lock was
\* spent early: such a coin is locked until no more locks are made in time, and the lock
\* transactions that were built for it before are out of date.
InTime == {l \in mined : ~l.late}
Settled(c) ==
  /\ c \in Locked \/ now > VotingEnds
  /\ \A v \in Voters : Signing(v, c) => client[v].tx.lock.spends[c] # moved[c]
LocksApart ==
  ~early => /\ \A l \in InTime : \A c \in l.coins : Settled(c)
            /\ \A k, l \in InTime : k # l => k.coins \cap l.coins = {}

IInv == /\ TypeOK /\ ClientsOK /\ PostsOK /\ ChainOK /\ LocksAreFresh
        /\ TallyIsVotes /\ TallyWithinVotes /\ LocksApart

-----------------------------------------------------------------------------
(* What the voters' side does *)

\* Numbers are numbers, and sets are finite.
LEMMA ConstantTypes ==
  /\ IsFiniteSet(Voters) /\ IsFiniteSet(Coins) /\ IsFiniteSet(VoteChoices)
  /\ VotingEnds \in Nat /\ Backdate \in Nat /\ MaxTime \in Nat
  /\ LockSats \in Nat /\ AmpleSats \in Nat /\ MaxMoves \in Nat
  /\ NoVote \notin [lock : Locks, weight : Nat]
  /\ Cardinality(Coins) \in Nat
BY VoteConstants, FS_CardinalityType DEF Voters

\* The larger of two numbers is a number.
LEMMA LargerOfTwo ==
  ASSUME NEW m \in Int, NEW n \in Int
  PROVE  Max({m, n}) \in Int
<1>1. \E x \in {m, n} : \A y \in {m, n} : x >= y
  <2>1. CASE m >= n
    BY <2>1
  <2>2. CASE n >= m
    BY <2>2
  <2> QED
    BY <2>1, <2>2
<1> QED
  BY <1>1 DEF Max

\* What the members of the sets of transactions are.
LEMMA TxFields ==
  ASSUME NEW tx \in Tx
  PROVE  /\ tx.op = "lock" => tx.weight \in Nat \ {0}
         /\ tx.lock \in Locks
         /\ tx.op \in {"lock", "unlock"}
<1>1. ASSUME tx \in LockTx PROVE tx.op = "lock" /\ tx.weight \in Nat \ {0} /\ tx.lock \in Locks
  BY <1>1 DEF LockTx
<1>2. ASSUME tx \in UnlockTx PROVE tx.op = "unlock" /\ tx.lock \in Locks
  BY <1>2 DEF UnlockTx
<1> QED
  BY <1>1, <1>2 DEF Tx

\* What the members of the set of locks are.
LEMMA LockFields ==
  ASSUME NEW l \in Locks
  PROVE  /\ l.coins \in SUBSET Coins /\ l.choice \in VoteChoices
         /\ l.wallet \in Wallets /\ l.late \in BOOLEAN
BY DEF Locks

\* A lock of coins that a wallet holds is a lock, whatever they were moved.
LEMMA LockTyped ==
  ASSUME ChainOK, NEW w \in Wallets, NEW choice \in VoteChoices, NEW coins \in SUBSET Coins,
         NEW sats \in Nat, NEW late \in BOOLEAN, \A c \in coins : moved[c] < MaxMoves
  PROVE  /\ [wallet |-> w, choice |-> choice, coins |-> coins, spends |-> Restrict(moved, coins),
             sats |-> sats, late |-> late] \in Locks
         /\ \A c \in coins : Restrict(moved, coins)[c] = moved[c] /\ moved[c] \in Nat
<1>a. \A c \in coins : moved[c] \in 0 .. MaxMoves
  BY ConstantTypes DEF ChainOK
<1>1. /\ Restrict(moved, coins) \in [coins -> 0 .. MaxMoves]
      /\ \A c \in coins : Restrict(moved, coins)[c] = moved[c]
  BY <1>a DEF Restrict, ChainOK
<1>2. Restrict(moved, coins) \in UNION {[cs -> 0 .. MaxMoves] : cs \in SUBSET Coins}
  BY <1>1
<1>3. PICK spends : spends = Restrict(moved, coins)
  OBVIOUS
<1>4. [wallet |-> w, choice |-> choice, coins |-> coins, spends |-> spends,
       sats |-> sats, late |-> late] \in Locks
  BY <1>2, <1>3 DEF Locks
<1> QED
  BY <1>1, <1>3, <1>4 DEF ChainOK

\* The routes build such transactions, lock transactions only before the deadline, of
\* coins that are in the voter's wallet.
LEMMA RoutesBuildTx ==
  ASSUME TypeOK, ChainOK, NEW v \in Voters, NEW tx
  PROVE  /\ tx \in LockRoute(v) =>
              /\ tx \in Tx /\ tx.op = "lock" /\ now <= VotingEnds
              /\ \A c \in tx.lock.coins :
                   /\ tx.lock.spends[c] = moved[c] /\ moved[c] \in Nat
                   /\ holder[c] = tx.lock.wallet /\ c \notin Locked
         /\ tx \in UnlockRoute(v) => tx \in Tx /\ tx.op = "unlock"
<1>1. ASSUME tx \in LockRoute(v)
      PROVE  /\ tx \in Tx /\ tx.op = "lock" /\ now <= VotingEnds
             /\ \A c \in tx.lock.coins :
                  /\ tx.lock.spends[c] = moved[c] /\ moved[c] \in Nat
                  /\ holder[c] = tx.lock.wallet /\ c \notin Locked
  <2>1. now <= VotingEnds /\ \E choice \in VoteChoices : tx \in LockTxs(v, choice)
    BY <1>1, ConstantTypes DEF LockRoute, TypeOK
  <2>2. PICK choice \in VoteChoices : tx \in LockTxs(v, choice)
    BY <2>1
  <2>3. PICK coins \in Stakes(wallet[v]) \ {{}} :
          tx = [op |-> "lock", weight |-> Cardinality(coins), locktime |-> 0, final |-> FALSE,
                lock |-> [wallet |-> wallet[v], choice |-> choice, coins |-> coins,
                          spends |-> Restrict(moved, coins), sats |-> LockSats, late |-> FALSE]]
    BY <2>2 DEF LockTxs
  <2>4. /\ coins \in SUBSET Coins /\ coins # {}
        /\ \A c \in coins : holder[c] = wallet[v] /\ c \notin Locked /\ moved[c] < MaxMoves
    BY DEF Stakes
  <2>5. Cardinality(coins) \in Nat \ {0}
    BY <2>4, ConstantTypes, FS_Subset, FS_CardinalityType, FS_EmptySet
  <2>6. wallet[v] \in Wallets
    BY DEF ChainOK
  <2>7. PICK l : l = [wallet |-> wallet[v], choice |-> choice, coins |-> coins,
                      spends |-> Restrict(moved, coins), sats |-> LockSats, late |-> FALSE]
    OBVIOUS
  <2>8. l \in Locks /\ \A c \in coins : Restrict(moved, coins)[c] = moved[c] /\ moved[c] \in Nat
    BY <2>4, <2>6, <2>7, ConstantTypes, LockTyped
  <2>9. l.coins = coins /\ l.wallet = wallet[v] /\ l.spends = Restrict(moved, coins)
    BY <2>7
  <2>10. tx = [op |-> "lock", weight |-> Cardinality(coins), locktime |-> 0, final |-> FALSE, lock |-> l]
    BY <2>3, <2>7, Zenon
  <2>11. tx.lock = l /\ tx.op = "lock" /\ tx \in Tx
    BY <2>5, <2>8, <2>10 DEF LockTx, Tx
  <2> QED
    BY <2>1, <2>4, <2>8, <2>9, <2>11
<1>2. ASSUME tx \in UnlockRoute(v)
      PROVE  tx \in Tx /\ tx.op = "unlock"
  <2>1. tx \in UnlockTxs(v)
    BY <1>2 DEF UnlockRoute
  <2>2. PICK l \in locks : tx = [op |-> "unlock", lock |-> l, nft |-> "none",
                                locktime |-> Max({0, now - Backdate}), final |-> FALSE]
    BY <2>1 DEF UnlockTxs
  <2>3. Max({0, now - Backdate}) \in Int
    BY ConstantTypes, LargerOfTwo DEF TypeOK
  <2>4. l \in Locks
    BY DEF ChainOK
  <2> QED
    BY <2>2, <2>3, <2>4 DEF UnlockTx, Tx
<1> QED
  BY <1>1, <1>2

-----------------------------------------------------------------------------
(* The steps, by what they do *)

\* Voter v's client becomes `new`, the other clients stay.
Turns(v, new) == new \in ClientState /\ client' = [client EXCEPT ![v] = new]

\* The client of a voter with transaction tx at a place, with statements to write.
Busy(v, place, tx, todo) == [at |-> place, tx |-> tx, todo |-> todo, tries |-> client[v].tries]

\* A route's transaction is shown to the wallet.
Offered(v) ==
  /\ At(v, "idle")
  /\ \E tx \in LockRoute(v) \cup UnlockRoute(v) : Turns(v, Busy(v, "signing", tx, <<>>))
  /\ UNCHANGED <<now, chain, db, interrupted>>

\* The operation ends, or its confirmation is posted again.  Only a restart drops a tally.
Retreats(v) ==
  /\ \/ Turns(v, Idle)
     \/ /\ At(v, "running")
        /\ \E n \in Nat : Turns(v, [at |-> "waiting", tx |-> client[v].tx, todo |-> <<>>, tries |-> n])
  /\ ~interrupted' => ~interrupted /\ client[v].todo # <<"tally">>
  /\ UNCHANGED <<now, chain, db>>

\* A transaction is mined; the page may never hear of it.
Mined(v) ==
  /\ At(v, "signing")
  /\ Accepts(client[v].tx) /\ Applied(client[v].tx)
  /\ Turns(v, Idle) \/ Turns(v, Busy(v, "waiting", client[v].tx, <<>>))
  /\ UNCHANGED <<now, db, interrupted>>

\* A mined lock is presented.
Presented(v) ==
  /\ At(v, "idle")
  /\ \E tx \in Tx : /\ tx.op = "lock" /\ tx.lock \in mined
                   /\ Turns(v, Busy(v, "waiting", tx, <<>>))
  /\ UNCHANGED <<now, chain, db, interrupted>>

\* A confirmation begins.
Confirmed(v) ==
  /\ At(v, "waiting")
  /\ \E todo \in {<<>>, <<"vote", "tally">>} :
       /\ todo # <<>> => client[v].tx.op = "lock" /\ ExpectedOutput(v, client[v].tx)
       /\ Turns(v, Busy(v, "running", client[v].tx, todo))
  /\ UNCHANGED <<now, chain, db, interrupted>>

\* Its two statements.
Voted(v) ==
  /\ client[v].todo = <<"vote", "tally">>
  /\ votes[v] = NoVote
  /\ votes' = [votes EXCEPT ![v] = Row(v)]
  /\ Turns(v, Busy(v, "running", client[v].tx, <<"tally">>))
  /\ UNCHANGED <<now, chain, tally, interrupted>>
Tallied(v) ==
  /\ client[v].todo = <<"tally">>
  /\ tally' = [tally EXCEPT ![Choice(v)] = @ + Weight(v)]
  /\ Turns(v, Busy(v, "running", client[v].tx, <<>>))
  /\ UNCHANGED <<now, chain, votes, interrupted>>

\* The initial client is well typed.
LEMMA IdleTyped == Idle \in ClientState /\ Idle.at = "idle" /\ Idle.todo = <<>>
BY DEF Idle, ClientState

\* What is known of a client.
LEMMA ClientFields ==
  ASSUME ClientsOK, NEW v \in Voters
  PROVE  /\ client[v] \in ClientState
         /\ client[v].at \in {"idle", "signing", "waiting", "running"}
         /\ client[v].tx \in Tx \cup {NoTx}
         /\ client[v].at # "idle" => client[v].tx \in Tx
         /\ client[v].todo \in {<<>>, <<"vote", "tally">>, <<"tally">>}
         /\ client[v].todo # <<>> => client[v].at = "running" /\ client[v].tx.op = "lock"
         /\ client[v].tries \in Nat
<1>1. client[v] \in ClientState
  BY DEF ClientsOK
<1> QED
  BY <1>1 DEF ClientsOK, ClientState

\* Changing a place, a transaction or the statements gives a well-typed client.
LEMMA BusyTyped ==
  ASSUME ClientsOK, NEW v \in Voters, NEW place \in {"idle", "signing", "waiting", "running"},
         NEW tx \in Tx, NEW todo \in {<<>>, <<"vote", "tally">>, <<"tally">>}
  PROVE  Busy(v, place, tx, todo) \in ClientState
BY ClientFields DEF Busy, ClientState

\* An update of some fields of v's client is an update of all of them: the place,
LEMMA PlaceUpdate ==
  ASSUME ClientsOK, NEW v \in Voters, NEW x, client' = [client EXCEPT ![v].at = x]
  PROVE  client' = [client EXCEPT ![v] = Busy(v, x, client[v].tx, client[v].todo)]
<1>1. client[v] \in ClientState /\ client \in [Voters -> ClientState]
  BY DEF ClientsOK
<1>2. [client[v] EXCEPT !.at = x] = Busy(v, x, client[v].tx, client[v].todo)
  BY <1>1 DEF ClientState, Busy
<1>3. client' = [client EXCEPT ![v] = [client[v] EXCEPT !.at = x]]
  BY <1>1
<1> QED
  BY <1>2, <1>3, Zenon

\* the place and the transaction,
LEMMA SignUpdate ==
  ASSUME ClientsOK, NEW v \in Voters, NEW x, NEW y, client' = [client EXCEPT ![v].at = x, ![v].tx = y]
  PROVE  client' = [client EXCEPT ![v] = Busy(v, x, y, client[v].todo)]
<1>1. client[v] \in ClientState /\ client \in [Voters -> ClientState]
  BY DEF ClientsOK
<1>2. [client[v] EXCEPT !.at = x] = Busy(v, x, client[v].tx, client[v].todo)
  BY <1>1 DEF ClientState, Busy
<1>3. [Busy(v, x, client[v].tx, client[v].todo) EXCEPT !.tx = y] = Busy(v, x, y, client[v].todo)
  BY DEF Busy
<1>4. [client[v] EXCEPT !.at = x, !.tx = y] = [[client[v] EXCEPT !.at = x] EXCEPT !.tx = y]
  OBVIOUS
<1>5. client' = [client EXCEPT ![v] = [client[v] EXCEPT !.at = x, !.tx = y]]
  BY <1>1
<1> QED
  BY <1>2, <1>3, <1>4, <1>5, Zenon

\* the place and the statements,
LEMMA ConfirmUpdate ==
  ASSUME ClientsOK, NEW v \in Voters, NEW x, NEW y \in {<<>>, <<"vote", "tally">>}, client' = [client EXCEPT ![v].at = x, ![v].todo = y]
  PROVE  client' = [client EXCEPT ![v] = Busy(v, x, client[v].tx, y)]
<1>1. client[v] \in ClientState /\ client \in [Voters -> ClientState]
  BY DEF ClientsOK
<1>2. [client[v] EXCEPT !.at = x] = Busy(v, x, client[v].tx, client[v].todo)
  BY <1>1 DEF ClientState, Busy
<1>3. [Busy(v, x, client[v].tx, client[v].todo) EXCEPT !.todo = y] = Busy(v, x, client[v].tx, y)
  BY DEF Busy
<1>4. [client[v] EXCEPT !.at = x, !.todo = y] = [[client[v] EXCEPT !.at = x] EXCEPT !.todo = y]
  OBVIOUS
<1>5. client' = [client EXCEPT ![v] = [client[v] EXCEPT !.at = x, !.todo = y]]
  BY <1>1
<1> QED
  BY <1>2, <1>3, <1>4, <1>5, Zenon

\* the statements.
LEMMA TodoUpdate ==
  ASSUME ClientsOK, NEW v \in Voters, NEW y, client' = [client EXCEPT ![v].todo = y]
  PROVE  client' = [client EXCEPT ![v] = Busy(v, client[v].at, client[v].tx, y)]
<1>1. client[v] \in ClientState /\ client \in [Voters -> ClientState]
  BY DEF ClientsOK
<1>2. [client[v] EXCEPT !.todo = y] = Busy(v, client[v].at, client[v].tx, y)
  BY <1>1 DEF ClientState, Busy
<1>3. client' = [client EXCEPT ![v] = [client[v] EXCEPT !.todo = y]]
  BY <1>1
<1> QED
  BY <1>2, <1>3, Zenon

\* The order of the statements of a confirmation.
LEMMA Statements ==
  /\ Head(<<"vote", "tally">>) = "vote" /\ Tail(<<"vote", "tally">>) = <<"tally">>
  /\ Head(<<"tally">>) = "tally" /\ Tail(<<"tally">>) = <<>>
  /\ <<"vote", "tally">> # <<>> /\ <<"tally">> # <<>> /\ <<"vote", "tally">> # <<"tally">>
OBVIOUS

\* Every step of Next is one of these.
LEMMA NextCases ==
  ASSUME TypeOK, ClientsOK, ChainOK, [Next]_vars
  PROVE  \/ \E v \in Voters : \/ Offered(v) \/ Retreats(v) \/ Mined(v) \/ Confirmed(v)
                             \/ Voted(v) \/ Tallied(v) \/ Presented(v)
         \/ \E w \in Wallets : lockElsewhere(w) \/ reclaimElsewhere(w) \/ transfer(w)
         \/ Tick
         \/ UNCHANGED vars
<1>1. ASSUME NEW v \in Voters, GovernancePage(v) PROVE Offered(v)
  <2>1. PICK tx \in LockRoute(v) \cup UnlockRoute(v) :
          Sign(v, tx) /\ UNCHANGED <<now, chain, db, interrupted>>
    BY <1>1 DEF GovernancePage, lockTokensToVote, unlockVotingTokens, Offer
  <2>2. tx \in Tx
    BY RoutesBuildTx
  <2>3. At(v, "idle") /\ client[v].todo = <<>> /\ client[v] \in ClientState
    BY <2>1, ClientFields DEF Sign, At
  <2>4. client' = [client EXCEPT ![v] = Busy(v, "signing", tx, <<>>)]
    <3>1. client' = [client EXCEPT ![v].at = "signing", ![v].tx = tx]
      BY <2>1 DEF Sign
    <3>2. client' = [client EXCEPT ![v] = Busy(v, "signing", tx, client[v].todo)]
      BY <3>1, SignUpdate
    <3> QED
      BY <2>3, <3>2
  <2> QED
    BY <2>1, <2>2, <2>3, <2>4, BusyTyped DEF Offered, Turns
<1>2. ASSUME NEW v \in Voters, Decline(v) PROVE Retreats(v)
  <2>1. client[v].todo = <<>>
    BY <1>2, ClientFields DEF Decline, Refuse, At
  <2> QED
    BY <1>2, <2>1, IdleTyped, Statements DEF Decline, Refuse, Retreats, Turns, db
<1>3. ASSUME NEW v \in Voters, broadcast(v) PROVE Mined(v) \/ Retreats(v)
  <2>1. At(v, "signing") /\ client[v].todo = <<>> /\ client[v].tx \in Tx /\ client[v] \in ClientState
    BY <1>3, ClientFields DEF broadcast, At
  <2>2. CASE Accepts(client[v].tx)
    <3>1. /\ Broadcast(v) /\ Applied(client[v].tx)
          /\ UNCHANGED <<now, db, interrupted>>
      BY <1>3, <2>2 DEF broadcast
    <3>2. ASSUME client' = [client EXCEPT ![v].at = "waiting"]
          PROVE  Turns(v, Busy(v, "waiting", client[v].tx, <<>>))
      <4>1. client' = [client EXCEPT ![v] = Busy(v, "waiting", client[v].tx, <<>>)]
        BY <2>1, <3>2, PlaceUpdate, Zenon
      <4>2. Busy(v, "waiting", client[v].tx, <<>>) \in ClientState
        BY <2>1, BusyTyped
      <4> QED
        BY <4>1, <4>2 DEF Turns
    <3>3. Turns(v, Idle) \/ Turns(v, Busy(v, "waiting", client[v].tx, <<>>))
      BY <2>1, <3>1, <3>2, IdleTyped DEF Broadcast, Turns
    <3> QED
      BY <2>1, <2>2, <3>1, <3>3 DEF Mined
  <2>3. CASE ~Accepts(client[v].tx)
    <3>1. Rejected(v) /\ UNCHANGED <<now, chain, db, interrupted>>
      BY <1>3, <2>3 DEF broadcast
    <3> QED
      BY <2>1, <3>1, IdleTyped, Statements DEF Rejected, Retreats, Turns
  <2> QED
    BY <2>2, <2>3
<1>4. ASSUME NEW v \in Voters, confirm(v) PROVE Confirmed(v) \/ Retreats(v)
  <2>1. /\ At(v, "waiting") /\ client[v].tx \in Tx /\ client[v].todo = <<>>
        /\ UNCHANGED <<now, chain, db, interrupted>>
    BY <1>4, ClientFields DEF confirm, At
  <2>2. ASSUME NEW todo \in {<<>>, <<"vote", "tally">>}, Confirm(v, todo),
               todo # <<>> => client[v].tx.op = "lock" /\ ExpectedOutput(v, client[v].tx)
        PROVE  Confirmed(v)
    <3>1. client' = [client EXCEPT ![v].at = "running", ![v].todo = todo]
      BY <2>2 DEF Confirm
    <3>2. client' = [client EXCEPT ![v] = Busy(v, "running", client[v].tx, todo)]
      BY <3>1, ConfirmUpdate
    <3>3. Turns(v, Busy(v, "running", client[v].tx, todo))
      BY <2>1, <3>2, BusyTyped DEF Turns
    <3> QED
      BY <2>1, <2>2, <3>3 DEF Confirmed
  <2>3. CASE Refused(v)
    BY <2>1, <2>3, IdleTyped, Statements DEF Refused, Retreats, Turns
  <2> QED
    BY <1>4, <2>2, <2>3 DEF confirm
<1>5. ASSUME NEW v \in Voters, statement(v), UNCHANGED <<now, chain, interrupted>>
      PROVE  Voted(v) \/ Tallied(v) \/ Retreats(v)
  <2>1. client[v].tx \in Tx /\ client[v] \in ClientState /\ At(v, "running")
    BY <1>5, ClientFields DEF statement, insertVote, addToTally, Due, At
  <2>2. ASSUME NEW todo \in {<<>>, <<"tally">>}, Tail(client[v].todo) = todo, Written(v)
        PROVE  Turns(v, Busy(v, "running", client[v].tx, todo))
    <3>1. client' = [client EXCEPT ![v].todo = Tail(client[v].todo)]
      BY <2>2 DEF Written
    <3>2. client' = [client EXCEPT ![v] = Busy(v, "running", client[v].tx, todo)]
      BY <2>1, <2>2, <3>1, TodoUpdate, Zenon DEF At
    <3> QED
      BY <2>1, <3>2, BusyTyped DEF Turns
  <2>3. CASE insertVote(v)
    <3>1. client[v].todo = <<"vote", "tally">>
      BY <2>3, ClientFields, Statements DEF insertVote, Due
    <3>2. CASE votes[v] = NoVote
      BY <1>5, <2>2, <2>3, <3>1, <3>2, Statements DEF insertVote, Voted
    <3>3. CASE votes[v] # NoVote
      <4>1. Refused(v) /\ UNCHANGED <<now, chain, db, interrupted>>
        BY <1>5, <2>3, <3>3 DEF insertVote, db
      <4> QED
        BY <3>1, <4>1, IdleTyped, Statements DEF Refused, Retreats, Turns
    <3> QED
      BY <3>2, <3>3
  <2>4. CASE addToTally(v)
    <3>1. client[v].todo = <<"tally">>
      BY <2>4, ClientFields, Statements DEF addToTally, Due
    <3> QED
      BY <1>5, <2>2, <2>4, <3>1, Statements DEF addToTally, Tallied, Weight, Choice
  <2> QED
    BY <1>5, <2>3, <2>4 DEF statement
<1>6. ASSUME NEW v \in Voters, answer(v) PROVE Retreats(v)
  BY <1>6, IdleTyped, Statements DEF answer, Answer, Retreats, Turns
<1>7. ASSUME NEW v \in Voters, lose(v) PROVE Retreats(v)
  <2>1. /\ At(v, "running") /\ client[v].tx \in Tx /\ client[v] \in ClientState
        /\ client[v].tries \in Nat
    BY <1>7, ClientFields DEF lose, Lose, At
  <2>2. ~interrupted' => ~interrupted /\ client[v].todo # <<"tally">>
    BY <1>7, Statements DEF lose
  <2>3. CASE client[v].tries + 1 < MaxTries
    <3> DEFINE new == [at |-> "waiting", tx |-> client[v].tx, todo |-> <<>>,
                       tries |-> client[v].tries + 1]
    <3>1. client \in [Voters -> ClientState]
      BY DEF ClientsOK
    <3>2. client' = [client EXCEPT ![v] = new]
      BY <1>7, <2>3 DEF lose, Lose
    <3>3. new \in ClientState
      BY <2>1 DEF ClientState
    <3>4. Turns(v, new)
      BY <3>2, <3>3 DEF Turns
    <3> QED
      BY <1>7, <2>1, <2>2, <3>4 DEF lose, Retreats, db
  <2>4. CASE ~(client[v].tries + 1 < MaxTries)
    BY <1>7, <2>2, <2>4, IdleTyped DEF lose, Lose, Retreats, Turns, db
  <2> QED
    BY <2>3, <2>4
<1>8. ASSUME NEW v \in Voters, presentLock(v) PROVE Presented(v)
  <2>1. /\ At(v, "idle") /\ UNCHANGED <<now, chain, db, interrupted>>
        /\ client[v].todo = <<>>
    BY <1>8, ClientFields DEF presentLock, At
  <2>2. PICK l \in mined, weight \in 1 .. MaxWeight :
          client' = [client EXCEPT ![v].at = "waiting", ![v].tx =
            [op |-> "lock", weight |-> weight, locktime |-> 0, final |-> FALSE, lock |-> l]]
    BY <1>8 DEF presentLock
  <2>3. PICK tx : tx = [op |-> "lock", weight |-> weight, locktime |-> 0, final |-> FALSE, lock |-> l]
    OBVIOUS
  <2>4. l \in Locks /\ weight \in Nat \ {0}
    BY ConstantTypes DEF ChainOK
  <2>5. tx \in Tx /\ tx.op = "lock" /\ tx.lock = l
    BY <2>3, <2>4 DEF LockTx, Tx
  <2>6. client' = [client EXCEPT ![v].at = "waiting", ![v].tx = tx]
    BY <2>2, <2>3, Zenon
  <2>7. client' = [client EXCEPT ![v] = Busy(v, "waiting", tx, <<>>)]
    <3>1. client' = [client EXCEPT ![v] = Busy(v, "waiting", tx, client[v].todo)]
      BY <2>6, SignUpdate
    <3> QED
      BY <2>1, <3>1
  <2>8. Turns(v, Busy(v, "waiting", tx, <<>>))
    BY <2>5, <2>7, BusyTyped DEF Turns
  <2> QED
    BY <2>1, <2>5, <2>8 DEF Presented
<1> QED
  BY <1>1, <1>2, <1>3, <1>4, <1>5, <1>6, <1>7, <1>8 DEF Next

-----------------------------------------------------------------------------
(* The clients *)

\* A turn changes one client.
LEMMA TurnFacts ==
  ASSUME ClientsOK, NEW v \in Voters, NEW new, Turns(v, new)
  PROVE  /\ client' \in [Voters -> ClientState]
         /\ client'[v] = new
         /\ \A w \in Voters \ {v} : client'[w] = client[w]
BY DEF Turns, ClientsOK

\* It keeps what is known of all of them.
LEMMA TurnKeepsClients ==
  ASSUME ClientsOK, NEW v \in Voters, NEW new, Turns(v, new),
         new.at # "idle" => new.tx \in Tx,
         new.todo # <<>> => new.at = "running" /\ new.tx.op = "lock"
  PROVE  ClientsOK'
BY TurnFacts DEF ClientsOK

\* The fields of a busy client.
LEMMA BusyFields ==
  ASSUME NEW v, NEW place, NEW tx, NEW todo
  PROVE  LET new == Busy(v, place, tx, todo)
         IN  new.at = place /\ new.tx = tx /\ new.todo = todo
BY DEF Busy

\* What a turn that does not ask for a signature makes of a client: what it may still
\* write, and of which lock.
LEMMA Turned ==
  ASSUME TypeOK, ClientsOK, ChainOK, [Next]_vars
  PROVE  \/ \E v \in Voters : Offered(v)
         \/ \E v \in Voters : \E new :
              /\ Turns(v, new) /\ new.at # "signing"
              /\ new.at # "idle" => new.tx \in Tx
              /\ new.todo # <<>> =>
                   /\ new.at = "running" /\ new.tx.op = "lock"
                   /\ \/ client[v].todo # <<>> /\ new.tx = client[v].tx
                      \/ ExpectedOutput(v, new.tx)
              /\ new.at \in {"waiting", "running"} /\ new.tx.op = "lock" =>
                   \/ Confirming(v) /\ new.tx = client[v].tx
                   \/ Mined(v) /\ new.tx = client[v].tx
                   \/ new.tx.lock \in mined
         \/ UNCHANGED client
<1> DEFINE Goal(v, new) ==
             /\ Turns(v, new) /\ new.at # "signing"
             /\ new.at # "idle" => new.tx \in Tx
             /\ new.todo # <<>> =>
                  /\ new.at = "running" /\ new.tx.op = "lock"
                  /\ \/ client[v].todo # <<>> /\ new.tx = client[v].tx
                     \/ ExpectedOutput(v, new.tx)
             /\ new.at \in {"waiting", "running"} /\ new.tx.op = "lock" =>
                  \/ Confirming(v) /\ new.tx = client[v].tx
                  \/ Mined(v) /\ new.tx = client[v].tx
                  \/ new.tx.lock \in mined
<1>1. ASSUME NEW v \in Voters, Turns(v, Idle) PROVE \E new : Goal(v, new)
  <2>1. Goal(v, Idle)
    BY <1>1, IdleTyped
  <2> QED
    BY <2>1
<1>2. ASSUME NEW v \in Voters, Retreats(v) PROVE \E new : Goal(v, new)
  <2>1. ASSUME At(v, "running"), NEW n \in Nat,
               Turns(v, [at |-> "waiting", tx |-> client[v].tx, todo |-> <<>>, tries |-> n])
        PROVE  \E new : Goal(v, new)
    <3>1. client[v].tx \in Tx
      BY <2>1, ClientFields DEF At
    <3>2. Goal(v, [at |-> "waiting", tx |-> client[v].tx, todo |-> <<>>, tries |-> n])
      BY <2>1, <3>1 DEF Confirming, At
    <3> QED
      BY <3>2
  <2> QED
    BY <1>1, <1>2, <2>1 DEF Retreats
<1>3. ASSUME NEW v \in Voters, Mined(v) PROVE \E new : Goal(v, new)
  <2>1. client[v].tx \in Tx
    BY <1>3, ClientFields DEF Mined, At
  <2>2. ASSUME Turns(v, Busy(v, "waiting", client[v].tx, <<>>))
        PROVE  \E new : Goal(v, new)
    <3>1. Goal(v, Busy(v, "waiting", client[v].tx, <<>>))
      BY <1>3, <2>1, <2>2, BusyFields
    <3> QED
      BY <3>1
  <2> QED
    BY <1>1, <1>3, <2>2 DEF Mined
<1>4. ASSUME NEW v \in Voters, Confirmed(v) PROVE \E new : Goal(v, new)
  <2>1. client[v].tx \in Tx
    BY <1>4, ClientFields DEF Confirmed, At
  <2>2. PICK todo \in {<<>>, <<"vote", "tally">>} :
          /\ todo # <<>> => client[v].tx.op = "lock" /\ ExpectedOutput(v, client[v].tx)
          /\ Turns(v, Busy(v, "running", client[v].tx, todo))
    BY <1>4 DEF Confirmed
  <2>3. Goal(v, Busy(v, "running", client[v].tx, todo))
    BY <1>4, <2>1, <2>2, BusyFields DEF Confirmed, Confirming, At
  <2> QED
    BY <2>3
<1>5. ASSUME NEW v \in Voters, Voted(v) \/ Tallied(v) PROVE \E new : Goal(v, new)
  <2>1. /\ client[v].tx \in Tx /\ client[v].tx.op = "lock" /\ client[v].at = "running"
        /\ client[v].todo # <<>>
    BY <1>5, ClientFields, Statements DEF Voted, Tallied
  <2>2. PICK todo \in {<<>>, <<"tally">>} : Turns(v, Busy(v, "running", client[v].tx, todo))
    BY <1>5 DEF Voted, Tallied
  <2>3. Goal(v, Busy(v, "running", client[v].tx, todo))
    BY <2>1, <2>2, BusyFields DEF Confirming
  <2> QED
    BY <2>3
<1>6. ASSUME NEW v \in Voters, Presented(v) PROVE \E new : Goal(v, new)
  <2>1. PICK tx \in Tx : tx.op = "lock" /\ tx.lock \in mined /\ Turns(v, Busy(v, "waiting", tx, <<>>))
    BY <1>6 DEF Presented
  <2>2. Goal(v, Busy(v, "waiting", tx, <<>>))
    BY <2>1, BusyFields
  <2> QED
    BY <2>2
<1>7. ASSUME \E w \in Wallets : lockElsewhere(w) \/ reclaimElsewhere(w) \/ transfer(w)
      PROVE  UNCHANGED client
  BY <1>7 DEF lockElsewhere, reclaimElsewhere, transfer
<1>8. CASE Tick \/ UNCHANGED vars
  BY <1>8 DEF Tick, vars
<1>9. CASE \E v \in Voters : Offered(v)
  BY <1>9
<1>10. CASE \E v \in Voters : \E new : Goal(v, new)
  BY <1>10
<1> HIDE DEF Goal
<1> QED
  BY <1>2, <1>3, <1>4, <1>5, <1>6, <1>7, <1>8, <1>9, <1>10, NextCases

\* Whatever a client does next, its transaction is one that a route built or that was mined.
LEMMA NextClientsOK ==
  ASSUME TypeOK, ClientsOK, ChainOK, [Next]_vars
  PROVE  ClientsOK'
<1>1. ASSUME NEW v \in Voters, Offered(v) PROVE ClientsOK'
  <2>1. PICK tx \in LockRoute(v) \cup UnlockRoute(v) : Turns(v, Busy(v, "signing", tx, <<>>))
    BY <1>1 DEF Offered
  <2>2. tx \in Tx
    BY RoutesBuildTx
  <2> QED
    BY <2>1, <2>2, BusyFields, TurnKeepsClients
<1>2. ASSUME NEW v \in Voters, NEW new, Turns(v, new), new.at # "idle" => new.tx \in Tx,
             new.todo # <<>> => new.at = "running" /\ new.tx.op = "lock"
      PROVE  ClientsOK'
  BY <1>2, TurnKeepsClients
<1>3. CASE UNCHANGED client
  BY <1>3 DEF ClientsOK
<1> QED
  BY <1>1, <1>2, <1>3, Turned

-----------------------------------------------------------------------------
(* The chain *)

\* Lock l is mined: its coins were free and in its owner's wallet, and if it counts as
\* made in time it was signed for before, or the voting period is not over.
LockAdded(l) ==
  /\ l \in Locks
  /\ locks' = locks \cup {l} /\ mined' = mined \cup {l}
  /\ Move(l.coins)
  /\ UNCHANGED <<wallet, holder, early>>
  /\ \A c \in l.coins :
       /\ holder[c] = l.wallet /\ c \notin Locked
       /\ \/ l.late \/ now <= VotingEnds
          \/ \E v \in Voters : Signing(v, c) /\ client[v].tx.lock.spends[c] = moved[c]

\* Lock l is spent.
Unlocked(l) == /\ l \in locks /\ l \in Locks
               /\ locks' = locks \ {l}
               /\ Move(l.coins)
               /\ early' = (early \/ (now <= VotingEnds /\ l.coins # {}))
               /\ UNCHANGED <<wallet, holder, mined>>

\* Coin c changes hands.
Handed(c, w) == /\ c \in Coins /\ c \notin Locked /\ w \in Wallets
                /\ holder' = [holder EXCEPT ![c] = w]
                /\ Move({c})
                /\ UNCHANGED <<wallet, locks, mined, early>>

\* Nobody is asked to sign anything new.
SignedStay == \A v \in Voters, c \in Coins : Signing(v, c)' => Signing(v, c) /\ client'[v] = client[v]

\* Moving coins counts for each of them.
LEMMA Moved ==
  ASSUME ChainOK, NEW coins \in SUBSET Coins, Move(coins)
  PROVE  /\ moved' \in [Coins -> Nat]
         /\ \A c \in coins : moved'[c] = moved[c] + 1
         /\ \A c \in Coins \ coins : moved'[c] = moved[c]
BY DEF ChainOK, Move

\* What a transaction of the backend that is mined does to the chain.
LEMMA MinedMoves ==
  ASSUME ClientsOK, ChainOK, LocksAreFresh, NEW v \in Voters, Mined(v)
  PROVE  /\ now' = now
         /\ \/ client[v].tx.op = "lock" /\ LockAdded(client[v].tx.lock)
            \/ client[v].tx.op # "lock" /\ Unlocked(client[v].tx.lock)
<1> DEFINE tx == client[v].tx
           l == tx.lock
<1>1. tx \in Tx /\ At(v, "signing")
  BY ClientFields DEF Mined, At
<1>2. l \in Locks /\ l.coins \in SUBSET Coins /\ tx.op \in {"lock", "unlock"}
  BY <1>1, TxFields, LockFields
<1>3. CASE tx.op = "lock"
  <2>1. \A c \in l.coins : moved[c] = l.spends[c] /\ Signing(v, c)
    BY <1>1, <1>3 DEF Mined, Accepts, Signing
  <2>2. \A c \in l.coins : holder[c] = l.wallet /\ c \notin Locked
    BY <1>2, <2>1 DEF LocksAreFresh
  <2>3. /\ locks' = locks \cup {l} /\ mined' = mined \cup {l} /\ Move(l.coins)
        /\ UNCHANGED <<wallet, holder, early, now>>
    BY <1>3 DEF Mined, Applied
  <2> QED
    BY <1>2, <1>3, <2>1, <2>2, <2>3 DEF LockAdded
<1>4. CASE tx.op # "lock"
  BY <1>2, <1>4 DEF Mined, Accepts, Applied, Unlocked
<1> QED
  BY <1>3, <1>4

\* What the wallets do by themselves.
LEMMA ElsewhereMoves ==
  ASSUME TypeOK, ChainOK, NEW w \in Wallets
  PROVE  /\ lockElsewhere(w) => \E l : LockAdded(l)
         /\ reclaimElsewhere(w) => \E l : Unlocked(l)
         /\ transfer(w) => \E c : Handed(c, w)
<1>1. ASSUME lockElsewhere(w) PROVE \E l : LockAdded(l)
  <2>1. PICK choice \in VoteChoices, stake \in Stakes(w) :
          Applied([op |-> "lock",
                   lock |-> [wallet |-> w, choice |-> choice, coins |-> stake,
                             spends |-> Restrict(moved, stake), sats |-> AmpleSats,
                             late |-> stake # {} /\ now > VotingEnds]])
    BY <1>1 DEF lockElsewhere
  <2>2. PICK late \in BOOLEAN : late = (stake # {} /\ now > VotingEnds)
    OBVIOUS
  <2>3. PICK l : l = [wallet |-> w, choice |-> choice, coins |-> stake,
                      spends |-> Restrict(moved, stake), sats |-> AmpleSats, late |-> late]
    OBVIOUS
  <2>4. /\ stake \in SUBSET Coins
        /\ \A c \in stake : holder[c] = w /\ c \notin Locked /\ moved[c] < MaxMoves
    BY DEF Stakes
  <2>5. l \in Locks
    BY <2>3, <2>4, ConstantTypes, LockTyped
  <2>6. l.coins = stake /\ l.wallet = w /\ l.late = late
    BY <2>3
  <2>7. Applied([op |-> "lock", lock |-> l])
    BY <2>1, <2>2, <2>3, Zenon
  <2>8. /\ locks' = locks \cup {l} /\ mined' = mined \cup {l} /\ Move(l.coins)
        /\ UNCHANGED <<wallet, holder, early>>
    BY <2>7 DEF Applied
  <2>9. stake # {} => l.late \/ now <= VotingEnds
    <3>1. now > VotingEnds \/ now <= VotingEnds
      BY ConstantTypes DEF TypeOK
    <3> QED
      BY <2>2, <2>6, <3>1, Zenon
  <2>10. LockAdded(l)
    BY <2>4, <2>5, <2>6, <2>8, <2>9 DEF LockAdded
  <2> QED
    BY <2>10
<1>2. ASSUME reclaimElsewhere(w) PROVE \E l : Unlocked(l)
  <2>1. PICK l \in locks, locktime \in 0 .. MaxTime, final \in BOOLEAN :
          Applied([op |-> "unlock", lock |-> l, nft |-> "mutable", locktime |-> locktime, final |-> final])
    BY <1>2 DEF reclaimElsewhere
  <2>2. Unlocked(l)
    BY <2>1 DEF Applied, Unlocked, ChainOK
  <2> QED
    BY <2>2
<1>3. ASSUME transfer(w) PROVE \E c : Handed(c, w)
  BY <1>3 DEF transfer, Handed
<1> QED
  BY <1>1, <1>2, <1>3

\* Every step is one of these for the chain.
LEMMA ChainSteps ==
  ASSUME TypeOK, ClientsOK, ChainOK, LocksAreFresh, [Next]_vars
  PROVE  \/ UNCHANGED <<chain, now>> /\ \E v \in Voters : Offered(v)
         \/ /\ SignedStay
            /\ \/ UNCHANGED chain /\ now <= now'
               \/ /\ now' = now
                  /\ \/ \E l : LockAdded(l) \/ Unlocked(l)
                     \/ \E c, w : Handed(c, w)
<1>0. now \in Int /\ now <= now
  BY DEF TypeOK
<1>1. CASE \E v \in Voters : Offered(v)
  BY <1>1 DEF Offered
<1>2. ASSUME ~\E v \in Voters : Offered(v) PROVE SignedStay
  <2>1. ASSUME NEW v \in Voters, NEW new, Turns(v, new), new.at # "signing" PROVE SignedStay
    BY <2>1, TurnFacts DEF SignedStay, Signing, At
  <2>2. ASSUME UNCHANGED client PROVE SignedStay
    BY <2>2 DEF SignedStay, Signing, At
  <2> QED
    BY <1>2, <2>1, <2>2, Turned
<1>3. ASSUME NEW v \in Voters,
             Retreats(v) \/ Confirmed(v) \/ Voted(v) \/ Tallied(v) \/ Presented(v)
      PROVE  UNCHANGED chain /\ now <= now'
  BY <1>0, <1>3 DEF Retreats, Confirmed, Voted, Tallied, Presented
<1>4. ASSUME NEW v \in Voters, Mined(v)
      PROVE  now' = now /\ \E l : LockAdded(l) \/ Unlocked(l)
  BY <1>4, MinedMoves
<1>5. ASSUME NEW w \in Wallets, lockElsewhere(w) \/ reclaimElsewhere(w) \/ transfer(w)
      PROVE  /\ now' = now
             /\ \/ \E l : LockAdded(l) \/ Unlocked(l)
                \/ \E c, x : Handed(c, x)
  <2>1. now' = now
    BY <1>5 DEF lockElsewhere, reclaimElsewhere, transfer
  <2> QED
    BY <1>5, <2>1, ElsewhereMoves
<1>6. ASSUME Tick \/ UNCHANGED vars PROVE UNCHANGED chain /\ now <= now'
  BY <1>0, <1>6 DEF Tick, vars
<1> QED
  BY <1>1, <1>2, <1>3, <1>4, <1>5, <1>6, NextCases

\* The part of TypeOK that is about the chain.
LocksOK ==
  /\ holder \in [Coins -> Wallets]
  /\ locks \subseteq mined
  /\ \A l \in locks : \A c \in l.coins : /\ holder[c] = l.wallet
                                       /\ \A k \in locks \ {l} : c \notin k.coins

\* Coins of locks are coins.
LEMMA MinedCoins ==
  ASSUME ChainOK, NEW l \in mined
  PROVE  l.coins \in SUBSET Coins /\ l.late \in BOOLEAN
BY LockFields DEF ChainOK

\* What stays out of date when coins move, and what is settled.
LEMMA FreshAfter ==
  ASSUME ClientsOK, ChainOK, LocksAreFresh, SignedStay, NEW coins \in SUBSET Coins, Move(coins),
         \A c \in Coins \ coins : holder'[c] = holder[c] /\ (c \notin Locked => c \notin Locked')
  PROVE  LocksAreFresh'
<1> SUFFICES ASSUME NEW w \in Voters, NEW c \in Coins, Signing(w, c)'
             PROVE  LET l == client'[w].tx.lock
                    IN  /\ l.spends[c] \in Nat /\ l.spends[c] <= moved'[c]
                        /\ l.spends[c] = moved'[c] => holder'[c] = l.wallet /\ c \notin Locked'
  BY DEF LocksAreFresh
<1> DEFINE l == client[w].tx.lock
<1>1. Signing(w, c) /\ client'[w] = client[w]
  BY DEF SignedStay
<1>2. /\ l.spends[c] \in Nat /\ l.spends[c] <= moved[c]
      /\ l.spends[c] = moved[c] => holder[c] = l.wallet /\ c \notin Locked
  BY <1>1 DEF LocksAreFresh
<1>3. moved[c] \in Nat
  BY DEF ChainOK
<1>4. CASE c \in coins
  BY <1>1, <1>2, <1>3, <1>4, Moved
<1>5. CASE c \notin coins
  BY <1>1, <1>2, <1>3, <1>5, Moved
<1> QED
  BY <1>4, <1>5

\* The coins of a lock that is mined are locked, the others are as they were; and the
\* other way round.
LEMMA LockedAfter ==
  ASSUME TypeOK, ChainOK
  PROVE  /\ \A l : LockAdded(l) => Locked' = Locked \cup l.coins
         /\ \A l : Unlocked(l) => Locked' = Locked \ l.coins
         /\ locks' = locks => Locked' = Locked
<1>1. ASSUME NEW l, LockAdded(l) PROVE Locked' = Locked \cup l.coins
  BY <1>1 DEF LockAdded, Locked
<1>2. ASSUME NEW l, Unlocked(l) PROVE Locked' = Locked \ l.coins
  <2>1. \A k \in locks \ {l} : k.coins \cap l.coins = {}
    BY <1>2 DEF Unlocked, TypeOK
  <2> QED
    BY <1>2, <2>1 DEF Unlocked, Locked
<1> QED
  BY <1>1, <1>2 DEF Locked

\* The locks, and what voters have to sign.
LEMMA NextLocksOK ==
  ASSUME TypeOK, ClientsOK, ChainOK, LocksAreFresh, [Next]_vars
  PROVE  LocksOK' /\ ChainOK' /\ LocksAreFresh'
<1> DEFINE Goal == LocksOK' /\ ChainOK' /\ LocksAreFresh'
<1>0. LocksOK
  BY DEF TypeOK, LocksOK
<1>1. ASSUME UNCHANGED chain PROVE LocksOK' /\ ChainOK' /\ Locked' = Locked
  <2>1. UNCHANGED <<wallet, holder, moved, locks, mined, early>>
    BY <1>1 DEF chain
  <2> QED
    BY <1>0, <2>1 DEF LocksOK, ChainOK, Locked
<1>2. ASSUME UNCHANGED <<chain, now>>, NEW v \in Voters, Offered(v) PROVE Goal
  <2>1. PICK tx \in LockRoute(v) \cup UnlockRoute(v) : Turns(v, Busy(v, "signing", tx, <<>>))
    BY <1>2 DEF Offered
  <2>2. client'[v].tx = tx /\ \A w \in Voters \ {v} : client'[w] = client[w]
    BY <2>1, TurnFacts, BusyFields
  <2>3. tx.op = "lock" => tx \in LockRoute(v)
    BY <2>1, RoutesBuildTx
  <2>4. UNCHANGED <<moved, holder>> /\ Locked' = Locked
    BY <1>1, <1>2 DEF chain
  <2>5. ASSUME NEW w \in Voters, NEW c \in Coins, Signing(w, c)'
        PROVE  LET l == client'[w].tx.lock
               IN  /\ l.spends[c] \in Nat /\ l.spends[c] <= moved'[c]
                   /\ l.spends[c] = moved'[c] => holder'[c] = l.wallet /\ c \notin Locked'
    <3>1. CASE w = v
      BY <2>2, <2>3, <2>4, <2>5, <3>1, RoutesBuildTx DEF Signing
    <3>2. CASE w # v
      BY <2>2, <2>4, <2>5, <3>2 DEF Signing, At, LocksAreFresh
    <3> QED
      BY <3>1, <3>2
  <2> QED
    BY <1>1, <1>2, <2>5 DEF LocksAreFresh
<1>3. ASSUME SignedStay, UNCHANGED chain PROVE Goal
  <2>1. UNCHANGED <<moved, holder>> /\ Locked' = Locked
    BY <1>1, <1>3 DEF chain
  <2>2. LocksAreFresh'
    BY <1>3, <2>1 DEF SignedStay, LocksAreFresh
  <2> QED
    BY <1>1, <1>3, <2>2
<1>4. ASSUME SignedStay, NEW l, LockAdded(l) PROVE Goal
  <2>1. l.coins \in SUBSET Coins
    BY <1>4, LockFields DEF LockAdded
  <2>2. LocksOK'
    <3>1. \A k \in locks : k.coins \cap l.coins = {}
      BY <1>4 DEF LockAdded, Locked
    <3>2. holder' \in [Coins -> Wallets] /\ locks' \subseteq mined'
      BY <1>0, <1>4 DEF LockAdded, LocksOK
    <3>3. ASSUME NEW k \in locks', NEW c \in k.coins
          PROVE  holder'[c] = k.wallet /\ \A j \in locks' \ {k} : c \notin j.coins
      <4>1. CASE k = l
        BY <1>4, <3>1, <4>1 DEF LockAdded
      <4>2. CASE k # l
        BY <1>0, <1>4, <3>1, <4>2 DEF LockAdded, LocksOK
      <4> QED
        BY <4>1, <4>2
    <3> QED
      BY <3>2, <3>3 DEF LocksOK
  <2>3. ChainOK'
    BY <1>4, <2>1, Moved DEF LockAdded, ChainOK
  <2>4. LocksAreFresh'
    <3>1. \A c \in Coins \ l.coins : holder'[c] = holder[c] /\ (c \notin Locked => c \notin Locked')
      BY <1>4, LockedAfter DEF LockAdded
    <3> QED
      BY <1>4, <2>1, <3>1, FreshAfter DEF LockAdded
  <2> QED
    BY <2>2, <2>3, <2>4
<1>5. ASSUME SignedStay, NEW l, Unlocked(l) PROVE Goal
  <2>1. l.coins \in SUBSET Coins
    BY <1>5, LockFields DEF Unlocked
  <2>2. LocksOK'
    BY <1>0, <1>5 DEF Unlocked, LocksOK
  <2>3. ChainOK'
    <3>1. early' \in BOOLEAN
      BY <1>5, Zenon DEF Unlocked
    <3> QED
      BY <1>5, <2>1, <3>1, Moved DEF Unlocked, ChainOK
  <2>4. LocksAreFresh'
    <3>1. \A c \in Coins \ l.coins : holder'[c] = holder[c] /\ (c \notin Locked => c \notin Locked')
      BY <1>5, LockedAfter DEF Unlocked
    <3> QED
      BY <1>5, <2>1, <3>1, FreshAfter DEF Unlocked
  <2> QED
    BY <2>2, <2>3, <2>4
<1>6. ASSUME SignedStay, NEW c, NEW w, Handed(c, w) PROVE Goal
  <2>1. /\ c \in Coins /\ c \notin Locked /\ w \in Wallets
        /\ \A d \in Coins \ {c} : holder'[d] = holder[d]
        /\ holder' \in [Coins -> Wallets]
    BY <1>0, <1>6 DEF Handed, LocksOK
  <2>2. LocksOK'
    <3>1. \A l \in locks : c \notin l.coins /\ l.coins \subseteq Coins
      BY <2>1, MinedCoins DEF Locked, ChainOK
    <3> QED
      BY <1>0, <1>6, <2>1, <3>1 DEF Handed, LocksOK
  <2>3. ChainOK'
    BY <1>6, <2>1, Moved DEF Handed, ChainOK
  <2>4. LocksAreFresh'
    <3>1. Locked' = Locked
      BY <1>6, LockedAfter DEF Handed
    <3> QED
      BY <1>6, <2>1, <3>1, FreshAfter DEF Handed
  <2> QED
    BY <2>2, <2>3, <2>4
<1> QED
  BY <1>2, <1>3, <1>4, <1>5, <1>6, ChainSteps

\* The chain forgets no lock, and the keys do not change.
LEMMA MinedGrows ==
  ASSUME TypeOK, ClientsOK, ChainOK, LocksAreFresh, [Next]_vars
  PROVE  mined \subseteq mined' /\ wallet' = wallet
BY ChainSteps DEF chain, LockAdded, Unlocked, Handed

\* Confirmations name mined locks, and statements are about expected outputs.
LEMMA NextPostsOK ==
  ASSUME TypeOK, ClientsOK, PostsOK, ChainOK, LocksAreFresh, [Next]_vars
  PROVE  PostsOK'
<1>1. mined \subseteq mined' /\ wallet' = wallet
  BY MinedGrows
<1>2. \A v \in Voters : \A tx : ExpectedOutput(v, tx)' <=> ExpectedOutput(v, tx)
  BY <1>1 DEF ExpectedOutput
<1>3. ASSUME NEW w \in Voters, client'[w] = client[w]
      PROVE  /\ Confirming(w)' => client'[w].tx.lock \in mined'
             /\ client'[w].todo # <<>> => ExpectedOutput(w, client'[w].tx)
  BY <1>1, <1>3 DEF PostsOK, Confirming
<1>4. ASSUME NEW v \in Voters, NEW new, Turns(v, new),
             new.todo # <<>> => \/ client[v].todo # <<>> /\ new.tx = client[v].tx
                                \/ ExpectedOutput(v, new.tx),
             new.at \in {"waiting", "running"} /\ new.tx.op = "lock" => new.tx.lock \in mined'
      PROVE  PostsOK'
  <2>1. client'[v] = new /\ \A w \in Voters \ {v} : client'[w] = client[w]
    BY <1>4, TurnFacts
  <2>2. /\ Confirming(v)' => client'[v].tx.lock \in mined'
        /\ client'[v].todo # <<>> => ExpectedOutput(v, client'[v].tx)
    BY <1>4, <2>1 DEF PostsOK, Confirming
  <2> QED
    BY <1>2, <1>3, <2>1, <2>2 DEF PostsOK
<1>5. ASSUME NEW v \in Voters, Offered(v) PROVE PostsOK'
  <2>1. PICK tx : Turns(v, Busy(v, "signing", tx, <<>>))
    BY <1>5 DEF Offered
  <2> QED
    BY <1>4, <2>1, BusyFields
<1>6. ASSUME NEW v \in Voters, NEW new, Turns(v, new),
             new.todo # <<>> => \/ client[v].todo # <<>> /\ new.tx = client[v].tx
                                \/ ExpectedOutput(v, new.tx),
             new.at \in {"waiting", "running"} /\ new.tx.op = "lock" =>
                   \/ Confirming(v) /\ new.tx = client[v].tx
                   \/ Mined(v) /\ new.tx = client[v].tx
                   \/ new.tx.lock \in mined
      PROVE  PostsOK'
  <2>1. ASSUME Mined(v), client[v].tx.op = "lock" PROVE client[v].tx.lock \in mined'
    BY <2>1, MinedMoves DEF LockAdded
  <2>2. Confirming(v) => client[v].tx.lock \in mined
    BY DEF PostsOK
  <2> QED
    BY <1>1, <1>4, <1>6, <2>1, <2>2
<1>7. CASE UNCHANGED client
  BY <1>2, <1>3, <1>7 DEF PostsOK
<1> QED
  BY <1>5, <1>6, <1>7, Turned

-----------------------------------------------------------------------------
(* The rows *)

\* A confirmation that still writes writes a row of a mined lock, of no more weight
\* than the lock has.
LEMMA RowTyped ==
  ASSUME ClientsOK, PostsOK, NEW v \in Voters, client[v].todo # <<>>
  PROVE  /\ Row(v) \in [lock : Locks, weight : Nat \ {0}]
         /\ Row(v).lock \in mined /\ Row(v).lock.wallet = wallet[v]
         /\ Holds(Row(v).lock, Row(v).weight)
<1>1. client[v].tx \in Tx /\ client[v].tx.op = "lock" /\ client[v].at = "running"
  BY ClientFields
<1>2. client[v].tx.lock \in Locks /\ client[v].tx.weight \in Nat \ {0}
  BY <1>1, TxFields
<1>3. client[v].tx.lock \in mined /\ ExpectedOutput(v, client[v].tx)
  BY <1>1 DEF PostsOK, Confirming
<1>4. Row(v).lock = client[v].tx.lock /\ Row(v).weight = client[v].tx.weight
  BY DEF Row
<1> QED
  BY <1>2, <1>3, <1>4 DEF ExpectedOutput, Row

\* Its weight is a number, its choice a choice.
LEMMA WeightTyped ==
  ASSUME ClientsOK, NEW v \in Voters, client[v].todo # <<>>
  PROVE  Weight(v) \in Nat /\ Choice(v) \in VoteChoices
<1>1. client[v].tx \in Tx /\ client[v].tx.op = "lock"
  BY ClientFields
<1> QED
  BY <1>1, TxFields, LockFields DEF Weight, Choice, Row

\* The clock and the rows.
LEMMA NextTypeOK ==
  ASSUME TypeOK, ClientsOK, PostsOK, ChainOK, LocksAreFresh, [Next]_vars
  PROVE  TypeOK'
<1> DEFINE RowsOK ==
             /\ votes \in [Voters -> {NoVote} \cup [lock : Locks, weight : Nat \ {0}]]
             /\ \A v \in Voters : votes[v] # NoVote =>
                  /\ votes[v].lock \in mined /\ votes[v].lock.wallet = wallet[v]
                  /\ Holds(votes[v].lock, votes[v].weight)
             /\ tally \in [VoteChoices -> Nat]
<1>0. RowsOK
  BY DEF TypeOK
<1>1. LocksOK'
  BY NextLocksOK
<1>2. now' \in 0 .. MaxTime
  <2>1. CASE Tick
    BY <2>1, ConstantTypes DEF Tick, TypeOK
  <2>2. CASE now' = now
    BY <2>2 DEF TypeOK
  <2> QED
    BY <2>1, <2>2, NextCases
    DEF Offered, Retreats, Mined, Confirmed, Voted, Tallied, Presented, lockElsewhere,
        reclaimElsewhere, transfer, vars
<1>3. mined \subseteq mined' /\ wallet' = wallet
  BY MinedGrows
<1>4. \A l, weight : Holds(l, weight)' <=> Holds(l, weight)
  BY DEF Holds
<1>5. RowsOK'
  <2>1. ASSUME NEW v \in Voters, Voted(v) PROVE RowsOK'
    <3>1. /\ Row(v) \in [lock : Locks, weight : Nat \ {0}]
          /\ Row(v).lock \in mined /\ Row(v).lock.wallet = wallet[v]
          /\ Holds(Row(v).lock, Row(v).weight)
      BY <2>1, RowTyped, Statements DEF Voted
    <3>2. votes' = [votes EXCEPT ![v] = Row(v)] /\ tally' = tally
      BY <2>1 DEF Voted
    <3>3. PICK row : row = Row(v)
      OBVIOUS
    <3>4. votes'[v] = row /\ \A w \in Voters \ {v} : votes'[w] = votes[w]
      BY <1>0, <3>2, <3>3
    <3>5. votes' \in [Voters -> {NoVote} \cup [lock : Locks, weight : Nat \ {0}]]
      BY <1>0, <3>1, <3>2
    <3>6. ASSUME NEW w \in Voters, votes'[w] # NoVote
          PROVE  /\ votes'[w].lock \in mined' /\ votes'[w].lock.wallet = wallet[w]
                 /\ Holds(votes'[w].lock, votes'[w].weight)
      <4>1. CASE w = v
        BY <1>3, <3>1, <3>3, <3>4, <4>1
      <4>2. CASE w # v
        BY <1>0, <1>3, <3>4, <3>6, <4>2
      <4> QED
        BY <4>1, <4>2
    <3> QED
      BY <1>0, <1>3, <1>4, <3>2, <3>5, <3>6
  <2>2. ASSUME NEW v \in Voters, Tallied(v) PROVE RowsOK'
    <3>1. Weight(v) \in Nat /\ Choice(v) \in VoteChoices
      BY <2>2, WeightTyped, Statements DEF Tallied
    <3>2. tally' \in [VoteChoices -> Nat] /\ votes' = votes
      BY <1>0, <2>2, <3>1 DEF Tallied
    <3> QED
      BY <1>0, <1>3, <1>4, <3>2
  <2>3. CASE UNCHANGED db
    BY <1>0, <1>3, <1>4, <2>3 DEF db
  <2> QED
    BY <2>1, <2>2, <2>3, NextCases
    DEF Offered, Retreats, Mined, Confirmed, Presented, lockElsewhere, reclaimElsewhere,
        transfer, Tick, vars, db
<1> HIDE DEF RowsOK
<1>6. LocksOK' /\ now' \in 0 .. MaxTime /\ RowsOK' => TypeOK'
  BY DEF LocksOK, TypeOK, RowsOK
<1> QED
  BY <1>1, <1>2, <1>5, <1>6

-----------------------------------------------------------------------------
(* The tally *)

\* The functions that are summed have naturals for values.
LEMMA SummandsTyped ==
  ASSUME TypeOK, ClientsOK, NEW v \in Voters, NEW choice \in VoteChoices
  PROVE  /\ Recorded(choice)[v] \in Nat /\ Untallied(choice)[v] \in Nat
         /\ Weights[v] \in Nat /\ OnTheWay[v] \in Nat
         /\ tally[choice] \in Nat
<1>1. votes[v] # NoVote => votes[v].weight \in Nat
  BY DEF TypeOK
<1>2. ASSUME client[v].todo = <<"tally">> PROVE Weight(v) \in Nat
  <2>1. client[v].todo # <<>>
    BY <1>2, Statements
  <2> QED
    BY <2>1, WeightTyped
<1>3. Recorded(choice)[v] \in Nat /\ Weights[v] \in Nat
  BY <1>1 DEF Recorded, Weights
<1>4. Untallied(choice)[v] \in Nat /\ OnTheWay[v] \in Nat
  <2>1. Row(v).weight = Weight(v)
    BY DEF Weight
  <2> QED
    BY <1>2, <2>1 DEF Untallied, OnTheWay
<1>5. tally[choice] \in Nat
  BY DEF TypeOK
<1> QED
  BY <1>3, <1>4, <1>5

\* What is due to the tally of a choice depends on a client only by its statements and,
\* while these are the tally, by its transaction.
LEMMA SameUntallied ==
  ASSUME ClientsOK, ClientsOK',
         \A v \in Voters : client'[v].todo = <<"tally">> \/ client[v].todo = <<"tally">> => client'[v] = client[v]
  PROVE  /\ OnTheWay' = OnTheWay
         /\ \A choice : Untallied(choice)' = Untallied(choice)
BY DEF OnTheWay, Untallied, Weight, Choice, Row

\* The sums are naturals.
LEMMA SumsTyped ==
  ASSUME TypeOK, ClientsOK, NEW choice \in VoteChoices
  PROVE  /\ SumFunctionOnSet(Recorded(choice), Voters) \in Nat
         /\ SumFunctionOnSet(Untallied(choice), Voters) \in Nat
         /\ SumFunctionOnSet(Weights, Voters) \in Nat
         /\ SumFunctionOnSet(OnTheWay, Voters) \in Nat
         /\ SumFunctionOnSet(tally, VoteChoices) \in Nat
<1>1. /\ \A v \in Voters : Recorded(choice)[v] \in Nat
      /\ \A v \in Voters : Untallied(choice)[v] \in Nat
      /\ \A v \in Voters : Weights[v] \in Nat
      /\ \A v \in Voters : OnTheWay[v] \in Nat
      /\ \A c \in VoteChoices : tally[c] \in Nat
  BY SummandsTyped DEF TypeOK
<1>2. SumFunctionOnSet(Recorded(choice), Voters) \in Nat
  BY <1>1, ConstantTypes, SumNat
<1>3. SumFunctionOnSet(Untallied(choice), Voters) \in Nat
  BY <1>1, ConstantTypes, SumNat
<1>4. SumFunctionOnSet(Weights, Voters) \in Nat
  BY <1>1, ConstantTypes, SumNat
<1>5. SumFunctionOnSet(OnTheWay, Voters) \in Nat
  BY <1>1, ConstantTypes, SumNat
<1>6. SumFunctionOnSet(tally, VoteChoices) \in Nat
  BY <1>1, ConstantTypes, SumNat
<1> QED
  BY <1>2, <1>3, <1>4, <1>5, <1>6

\* The row adds to the votes what it adds to the votes that are not tallied.
LEMMA VotedAdds ==
  ASSUME TypeOK, ClientsOK, PostsOK, TypeOK', ClientsOK', NEW v \in Voters, Voted(v), NEW choice \in VoteChoices
  PROVE  LET w == IF Choice(v) = choice THEN Weight(v) ELSE 0
         IN  /\ SumFunctionOnSet(Recorded(choice)', Voters) = SumFunctionOnSet(Recorded(choice), Voters) + w
             /\ SumFunctionOnSet(Untallied(choice)', Voters) = SumFunctionOnSet(Untallied(choice), Voters) + w
             /\ SumFunctionOnSet(Weights', Voters) = SumFunctionOnSet(Weights, Voters) + Weight(v)
             /\ SumFunctionOnSet(OnTheWay', Voters) = SumFunctionOnSet(OnTheWay, Voters) + Weight(v)
<1> DEFINE w == IF Choice(v) = choice THEN Weight(v) ELSE 0
<1>1. /\ client'[v].todo = <<"tally">> /\ client'[v].tx = client[v].tx
      /\ \A u \in Voters \ {v} : client'[u] = client[u]
  BY TurnFacts, BusyFields DEF Voted
<1>2. /\ votes[v] = NoVote
      /\ votes'[v] = Row(v)
      /\ \A u \in Voters \ {v} : votes'[u] = votes[u]
  BY DEF Voted, TypeOK
<1>3. /\ client[v].todo # <<"tally">>
      /\ Weight(v) \in Nat /\ Choice(v) \in VoteChoices
  BY WeightTyped, ConstantTypes, Statements DEF Voted
<1>4. votes'[v] # NoVote /\ votes'[v].lock.choice = Choice(v) /\ votes'[v].weight = Weight(v)
  BY <1>2, RowTyped, ConstantTypes, Statements DEF Voted, Weight, Choice
<1>5. /\ Recorded(choice)[v] = 0 /\ Recorded(choice)'[v] = w
      /\ Weights[v] = 0 /\ Weights'[v] = Weight(v)
      /\ Untallied(choice)[v] = 0 /\ Untallied(choice)'[v] = w
      /\ OnTheWay[v] = 0 /\ OnTheWay'[v] = Weight(v)
  BY <1>1, <1>2, <1>3, <1>4 DEF Recorded, Weights, Untallied, OnTheWay, Weight, Choice, Row
<1>6. \A u \in Voters : u # v =>
        /\ Recorded(choice)[u] = Recorded(choice)'[u]
        /\ Weights[u] = Weights'[u]
        /\ Untallied(choice)[u] = Untallied(choice)'[u]
        /\ OnTheWay[u] = OnTheWay'[u]
  BY <1>1, <1>2 DEF Recorded, Weights, Untallied, OnTheWay, Weight, Choice, Row
<1>7. \A u \in Voters :
        /\ Recorded(choice)[u] \in Nat /\ Untallied(choice)[u] \in Nat
        /\ Weights[u] \in Nat /\ OnTheWay[u] \in Nat
        /\ Recorded(choice)'[u] \in Nat /\ Untallied(choice)'[u] \in Nat
        /\ Weights'[u] \in Nat /\ OnTheWay'[u] \in Nat
  <2>1. \A u \in Voters :
          /\ Recorded(choice)[u] \in Nat /\ Untallied(choice)[u] \in Nat
          /\ Weights[u] \in Nat /\ OnTheWay[u] \in Nat
    BY SummandsTyped
  <2>2. w \in Nat
    BY <1>3
  <2> QED
    BY <1>3, <1>5, <1>6, <2>1, <2>2
<1> HIDE DEF w
<1>8. SumFunctionOnSet(Recorded(choice)', Voters) = SumFunctionOnSet(Recorded(choice), Voters) - 0 + w
  BY <1>5, <1>6, <1>7, ConstantTypes, SumUpdate
<1>9. SumFunctionOnSet(Untallied(choice)', Voters) = SumFunctionOnSet(Untallied(choice), Voters) - 0 + w
  BY <1>5, <1>6, <1>7, ConstantTypes, SumUpdate
<1>10. SumFunctionOnSet(Weights', Voters) = SumFunctionOnSet(Weights, Voters) - 0 + Weight(v)
  BY <1>5, <1>6, <1>7, ConstantTypes, SumUpdate
<1>11. SumFunctionOnSet(OnTheWay', Voters) = SumFunctionOnSet(OnTheWay, Voters) - 0 + Weight(v)
  BY <1>5, <1>6, <1>7, ConstantTypes, SumUpdate
<1> QED
  BY <1>8, <1>9, <1>10, <1>11, SumsTyped DEF w

\* The second statement takes away from them what it adds to the tally.
LEMMA TalliedMoves ==
  ASSUME TypeOK, ClientsOK, TypeOK', ClientsOK', NEW v \in Voters, Tallied(v), NEW choice \in VoteChoices
  PROVE  LET w == IF Choice(v) = choice THEN Weight(v) ELSE 0
         IN  /\ w \in Nat /\ Weight(v) \in Nat
             /\ tally'[choice] = tally[choice] + w
             /\ SumFunctionOnSet(Untallied(choice)', Voters) = SumFunctionOnSet(Untallied(choice), Voters) - w
             /\ SumFunctionOnSet(tally', VoteChoices) = SumFunctionOnSet(tally, VoteChoices) + Weight(v)
             /\ SumFunctionOnSet(OnTheWay', Voters) = SumFunctionOnSet(OnTheWay, Voters) - Weight(v)
<1> DEFINE w == IF Choice(v) = choice THEN Weight(v) ELSE 0
           c0 == Choice(v)
<1>1. /\ client'[v].todo = <<>> /\ client'[v].tx = client[v].tx
      /\ \A u \in Voters \ {v} : client'[u] = client[u]
  BY TurnFacts, BusyFields DEF Tallied
<1>2. client[v].todo = <<"tally">> /\ Weight(v) \in Nat /\ c0 \in VoteChoices
  <2>1. client[v].todo = <<"tally">> /\ client[v].todo # <<>>
    BY Statements DEF Tallied
  <2>2. Weight(v) \in Nat /\ c0 \in VoteChoices
    BY <2>1, WeightTyped
  <2> QED
    BY <2>1, <2>2, ConstantTypes
<1>3. tally'[c0] = tally[c0] + Weight(v) /\ \A c \in VoteChoices \ {c0} : tally'[c] = tally[c]
  BY <1>2 DEF Tallied, TypeOK
<1>4. /\ Untallied(choice)[v] = w /\ Untallied(choice)'[v] = 0
      /\ OnTheWay[v] = Weight(v) /\ OnTheWay'[v] = 0
  BY <1>1, <1>2, Statements DEF Untallied, OnTheWay, Weight, Choice, Row
<1>5. \A u \in Voters : u # v =>
        /\ Untallied(choice)[u] = Untallied(choice)'[u]
        /\ OnTheWay[u] = OnTheWay'[u]
  BY <1>1 DEF Untallied, OnTheWay, Weight, Choice, Row
<1>6. \A u \in Voters :
        /\ Untallied(choice)[u] \in Nat /\ OnTheWay[u] \in Nat
        /\ Untallied(choice)'[u] \in Nat /\ OnTheWay'[u] \in Nat
  <2>1. \A u \in Voters : Untallied(choice)[u] \in Nat /\ OnTheWay[u] \in Nat
    BY SummandsTyped
  <2> QED
    BY <1>4, <1>5, <2>1
<1>7. \A c \in VoteChoices : tally[c] \in Nat /\ tally'[c] \in Nat
  BY DEF TypeOK
<1>8. w \in Nat /\ tally'[choice] = tally[choice] + w
  BY <1>2, <1>3, <1>7
<1> HIDE DEF w, c0
<1>9. SumFunctionOnSet(Untallied(choice)', Voters) = SumFunctionOnSet(Untallied(choice), Voters) - w + 0
  BY <1>4, <1>5, <1>6, ConstantTypes, SumUpdate
<1>10. SumFunctionOnSet(OnTheWay', Voters) = SumFunctionOnSet(OnTheWay, Voters) - Weight(v) + 0
  BY <1>4, <1>5, <1>6, ConstantTypes, SumUpdate
<1>11. SumFunctionOnSet(tally', VoteChoices) = SumFunctionOnSet(tally, VoteChoices) - tally[c0] + tally'[c0]
  BY <1>2, <1>3, <1>7, ConstantTypes, SumUpdate
<1> QED
  BY <1>2, <1>3, <1>7, <1>8, <1>9, <1>10, <1>11, SumsTyped DEF w

\* TallyIsVotes and what it takes to bound the tally.
LEMMA TallyStep ==
  ASSUME TypeOK, ClientsOK, PostsOK, ChainOK, TypeOK', ClientsOK', TallyIsVotes, TallyWithinVotes, [Next]_vars
  PROVE  TallyIsVotes' /\ TallyWithinVotes'
<1>1. ASSUME UNCHANGED db, ~interrupted' => ~interrupted,
             \A v \in Voters : client'[v].todo = <<"tally">> \/ client[v].todo = <<"tally">> =>
                                 client'[v] = client[v]
      PROVE  TallyIsVotes' /\ TallyWithinVotes'
  <2>1. /\ OnTheWay' = OnTheWay /\ \A choice : Untallied(choice)' = Untallied(choice)
        /\ Weights' = Weights /\ \A choice : Recorded(choice)' = Recorded(choice)
        /\ tally' = tally
    BY <1>1, SameUntallied DEF db, Weights, Recorded
  <2> QED
    BY <1>1, <2>1 DEF TallyIsVotes, TallyWithinVotes
<1>2. ASSUME UNCHANGED db, ~interrupted' => ~interrupted, NEW v \in Voters, NEW new, Turns(v, new),
             client[v].todo # <<"tally">>, new.todo # <<"tally">>
      PROVE  TallyIsVotes' /\ TallyWithinVotes'
  BY <1>1, <1>2, TurnFacts
<1>3. ASSUME NEW v \in Voters, Offered(v) \/ Mined(v) \/ Confirmed(v) \/ Presented(v)
      PROVE  TallyIsVotes' /\ TallyWithinVotes'
  <2>1. UNCHANGED <<db, interrupted>> /\ client[v].todo # <<"tally">>
    BY <1>3, ClientFields, Statements DEF Offered, Mined, Confirmed, Presented, At
  <2>2. PICK new : Turns(v, new) /\ new.todo # <<"tally">>
    <3>1. CASE Offered(v)
      BY <3>1, BusyFields, Statements DEF Offered
    <3>2. CASE Mined(v)
      <4>1. PICK new : Turns(v, new) /\ (new = Idle \/ new = Busy(v, "waiting", client[v].tx, <<>>))
        BY <3>2 DEF Mined
      <4>2. new.todo = <<>>
        BY <4>1, BusyFields, IdleTyped
      <4> QED
        BY <4>1, <4>2, Statements
    <3>3. CASE Confirmed(v)
      <4>1. PICK todo \in {<<>>, <<"vote", "tally">>} : Turns(v, Busy(v, "running", client[v].tx, todo))
        BY <3>3 DEF Confirmed
      <4>2. Busy(v, "running", client[v].tx, todo).todo # <<"tally">>
        BY Statements DEF Busy
      <4> QED
        BY <4>1, <4>2
    <3>4. CASE Presented(v)
      BY <3>4, BusyFields, Statements DEF Presented
    <3> QED
      BY <1>3, <3>1, <3>2, <3>3, <3>4
  <2> QED
    BY <1>2, <2>1, <2>2
<1>4. ASSUME NEW v \in Voters, Retreats(v)
      PROVE  TallyIsVotes' /\ TallyWithinVotes'
  <2>1. PICK new : Turns(v, new) /\ new.todo = <<>>
    <3>1. CASE Turns(v, Idle)
      BY <3>1, IdleTyped
    <3>2. ASSUME NEW n \in Nat,
                 Turns(v, [at |-> "waiting", tx |-> client[v].tx, todo |-> <<>>, tries |-> n])
          PROVE  \E new : Turns(v, new) /\ new.todo = <<>>
      <4> DEFINE again == [at |-> "waiting", tx |-> client[v].tx, todo |-> <<>>, tries |-> n]
      <4>1. Turns(v, again) /\ again.todo = <<>>
        BY <3>2
      <4> HIDE DEF again
      <4> QED
        BY <4>1
    <3> QED
      BY <1>4, <3>1, <3>2 DEF Retreats
  <2>2. UNCHANGED db /\ (~interrupted' => ~interrupted /\ client[v].todo # <<"tally">>)
    BY <1>4 DEF Retreats
  <2>3. CASE client[v].todo # <<"tally">>
    BY <1>2, <2>1, <2>2, <2>3, Statements
  <2>4. CASE client[v].todo = <<"tally">>
    <3>1. TallyIsVotes'
      BY <2>2, <2>4 DEF TallyIsVotes
    <3>2. \A u \in Voters : OnTheWay[u] \in Nat
      <4>1. PICK c : c = Choice(v)
        OBVIOUS
      <4>2. c \in VoteChoices
        BY <2>4, <4>1, WeightTyped, Statements
      <4> QED
        BY <4>2, SummandsTyped
    <3>3. \A u \in Voters : OnTheWay'[u] \in Nat /\ OnTheWay'[u] <= OnTheWay[u]
      <4>1. client'[v].todo = <<>> /\ \A u \in Voters \ {v} : client'[u] = client[u]
        BY <2>1, TurnFacts
      <4>2. OnTheWay'[v] = 0 /\ \A u \in Voters \ {v} : OnTheWay'[u] = OnTheWay[u]
        BY <4>1, Statements DEF OnTheWay, Weight, Row
      <4> QED
        BY <3>2, <4>2
    <3>4. SumFunctionOnSet(OnTheWay', Voters) <= SumFunctionOnSet(OnTheWay, Voters)
      BY <3>2, <3>3, ConstantTypes, SumMonotone
    <3>5. tally' = tally /\ Weights' = Weights
      BY <2>2 DEF db, Weights
    <3>6. SumFunctionOnSet(OnTheWay', Voters) \in Nat
      BY <3>3, ConstantTypes, SumNat
    <3>7. /\ SumFunctionOnSet(OnTheWay, Voters) \in Nat
          /\ SumFunctionOnSet(tally, VoteChoices) \in Nat
          /\ SumFunctionOnSet(Weights, Voters) \in Nat
      BY <2>4, WeightTyped, Statements, SumsTyped
    <3> QED
      BY <3>1, <3>4, <3>5, <3>6, <3>7 DEF TallyWithinVotes
  <2> QED
    BY <2>3, <2>4
<1>5. ASSUME NEW v \in Voters, Voted(v)
      PROVE  TallyIsVotes' /\ TallyWithinVotes'
  <2>1. Choice(v) \in VoteChoices /\ Weight(v) \in Nat
    BY <1>5, WeightTyped, ConstantTypes, Statements DEF Voted
  <2>2. tally' = tally /\ interrupted' = interrupted
    BY <1>5 DEF Voted
  <2>3. TallyIsVotes'
    <3> SUFFICES ASSUME ~interrupted, NEW choice \in VoteChoices
                 PROVE  tally[choice] + SumFunctionOnSet(Untallied(choice)', Voters)
                          = SumFunctionOnSet(Recorded(choice)', Voters)
      BY <2>2 DEF TallyIsVotes
    <3>1. tally[choice] + SumFunctionOnSet(Untallied(choice), Voters)
            = SumFunctionOnSet(Recorded(choice), Voters)
      BY DEF TallyIsVotes
    <3>2. tally[choice] \in Nat
      BY DEF TypeOK
    <3> QED
      BY <1>5, <2>1, <3>1, <3>2, VotedAdds, SumsTyped
  <2>4. TallyWithinVotes'
    <3>1. /\ SumFunctionOnSet(OnTheWay, Voters) \in Nat
          /\ SumFunctionOnSet(tally, VoteChoices) \in Nat
          /\ SumFunctionOnSet(Weights, Voters) \in Nat
      BY <2>1, SumsTyped
    <3>2. /\ SumFunctionOnSet(Weights', Voters) = SumFunctionOnSet(Weights, Voters) + Weight(v)
          /\ SumFunctionOnSet(OnTheWay', Voters) = SumFunctionOnSet(OnTheWay, Voters) + Weight(v)
      BY <1>5, <2>1, VotedAdds
    <3> QED
      BY <2>1, <2>2, <3>1, <3>2 DEF TallyWithinVotes
  <2> QED
    BY <2>3, <2>4
<1>6. ASSUME NEW v \in Voters, Tallied(v)
      PROVE  TallyIsVotes' /\ TallyWithinVotes'
  <2>1. Choice(v) \in VoteChoices
    BY <1>6, WeightTyped, Statements DEF Tallied
  <2>2. /\ votes' = votes /\ interrupted' = interrupted
        /\ Weights' = Weights /\ \A choice : Recorded(choice)' = Recorded(choice)
    BY <1>6 DEF Tallied, Weights, Recorded
  <2>3. TallyIsVotes'
    <3> SUFFICES ASSUME ~interrupted, NEW choice \in VoteChoices
                 PROVE  tally'[choice] + SumFunctionOnSet(Untallied(choice)', Voters)
                          = SumFunctionOnSet(Recorded(choice), Voters)
      BY <2>2 DEF TallyIsVotes
    <3>1. tally[choice] + SumFunctionOnSet(Untallied(choice), Voters)
            = SumFunctionOnSet(Recorded(choice), Voters)
      BY DEF TallyIsVotes
    <3>2. tally[choice] \in Nat
      BY DEF TypeOK
    <3> QED
      BY <1>6, <3>1, <3>2, TalliedMoves, SumsTyped
  <2>4. TallyWithinVotes'
    <3>1. /\ SumFunctionOnSet(OnTheWay, Voters) \in Nat
          /\ SumFunctionOnSet(tally, VoteChoices) \in Nat
          /\ SumFunctionOnSet(Weights, Voters) \in Nat
      BY <2>1, SumsTyped
    <3>2. /\ SumFunctionOnSet(tally', VoteChoices) = SumFunctionOnSet(tally, VoteChoices) + Weight(v)
          /\ SumFunctionOnSet(OnTheWay', Voters) = SumFunctionOnSet(OnTheWay, Voters) - Weight(v)
          /\ Weight(v) \in Nat
      BY <1>6, <2>1, TalliedMoves
    <3> QED
      BY <2>2, <3>1, <3>2 DEF TallyWithinVotes
  <2> QED
    BY <2>3, <2>4
<1>7. CASE UNCHANGED <<client, db, interrupted>>
  BY <1>1, <1>7
<1> QED
  BY <1>3, <1>4, <1>5, <1>6, <1>7, NextCases DEF lockElsewhere, reclaimElsewhere, transfer, Tick, vars

-----------------------------------------------------------------------------
(* No token votes twice *)

\* A coin that is settled stays so, as long as no lock is spent early.
LEMMA SettledStays ==
  ASSUME TypeOK, TypeOK', ClientsOK, ChainOK, ChainOK', LocksAreFresh, [Next]_vars,
         NEW c \in Coins, Settled(c), ~early'
  PROVE  ~early /\ Settled(c)'
<1>0. now \in Int /\ now' \in Int /\ VotingEnds \in Int
  BY ConstantTypes DEF TypeOK
<1>1. c \in Locked \/ now > VotingEnds
  BY DEF Settled
<1>2. \A v \in Voters : Signing(v, c) => client[v].tx.lock.spends[c] # moved[c]
  BY DEF Settled
<1>3. \A v \in Voters : Signing(v, c) => /\ client[v].tx.lock.spends[c] \in Nat
                                       /\ client[v].tx.lock.spends[c] <= moved[c]
  BY DEF LocksAreFresh
<1>4. ASSUME UNCHANGED <<chain, now>>, NEW v \in Voters, Offered(v) PROVE ~early /\ Settled(c)'
  <2>1. PICK tx \in LockRoute(v) \cup UnlockRoute(v) : Turns(v, Busy(v, "signing", tx, <<>>))
    BY <1>4 DEF Offered
  <2>2. client'[v].tx = tx /\ \A w \in Voters \ {v} : client'[w] = client[w]
    BY <2>1, TurnFacts, BusyFields
  <2>3. UNCHANGED <<moved, early, now>> /\ Locked' = Locked
    BY <1>4, LockedAfter DEF chain
  <2>4. ~(tx.op = "lock" /\ c \in tx.lock.coins)
    BY <1>0, <1>1, <2>1, RoutesBuildTx
  <2>5. ASSUME NEW w \in Voters, Signing(w, c)'
        PROVE  client'[w].tx.lock.spends[c] # moved'[c]
    <3>1. CASE w = v
      BY <2>2, <2>4, <2>5, <3>1 DEF Signing
    <3>2. CASE w # v
      BY <1>2, <2>2, <2>3, <2>5, <3>2 DEF Signing, At
    <3> QED
      BY <3>1, <3>2
  <2> QED
    BY <1>1, <2>3, <2>5 DEF Settled
<1>5. ASSUME SignedStay, moved'[c] = moved[c] \/ moved'[c] = moved[c] + 1
      PROVE  \A v \in Voters : Signing(v, c)' => client'[v].tx.lock.spends[c] # moved'[c]
  <2> SUFFICES ASSUME NEW v \in Voters, Signing(v, c)'
               PROVE  client'[v].tx.lock.spends[c] # moved'[c]
    OBVIOUS
  <2>1. Signing(v, c) /\ client'[v] = client[v]
    BY <1>5 DEF SignedStay
  <2>2. moved[c] \in Nat
    BY DEF ChainOK
  <2> QED
    BY <1>2, <1>3, <1>5, <2>1, <2>2
<1>6. ASSUME SignedStay, UNCHANGED chain, now <= now' PROVE ~early /\ Settled(c)'
  <2>1. UNCHANGED <<moved, early>> /\ Locked' = Locked
    BY <1>6, LockedAfter DEF chain
  <2>2. c \in Locked' \/ now' > VotingEnds
    BY <1>0, <1>1, <1>6, <2>1
  <2> QED
    BY <1>5, <1>6, <2>1, <2>2 DEF Settled
<1>7. ASSUME SignedStay, now' = now, NEW l, LockAdded(l) PROVE ~early /\ Settled(c)'
  <2>1. l.coins \in SUBSET Coins
    BY <1>7, LockFields DEF LockAdded
  <2>2. /\ moved'[c] = moved[c] \/ moved'[c] = moved[c] + 1
        /\ early' = early /\ (c \in Locked => c \in Locked')
    BY <1>7, <2>1, Moved, LockedAfter DEF LockAdded
  <2> QED
    BY <1>1, <1>5, <1>7, <2>2 DEF Settled
<1>8. ASSUME SignedStay, now' = now, NEW l, Unlocked(l) PROVE ~early /\ Settled(c)'
  <2>1. l.coins \in SUBSET Coins
    BY <1>8, LockFields DEF Unlocked
  <2>2. moved'[c] = moved[c] \/ moved'[c] = moved[c] + 1
    BY <1>8, <2>1, Moved DEF Unlocked
  <2>3. ~early /\ (~(now <= VotingEnds) \/ l.coins = {})
    BY <1>8, Zenon DEF Unlocked
  <2>4. c \in Locked => c \in Locked' \/ c \in l.coins
    BY <1>8, LockedAfter
  <2>5. c \in Locked' \/ now' > VotingEnds
    BY <1>0, <1>1, <1>8, <2>3, <2>4
  <2> QED
    BY <1>5, <1>8, <2>2, <2>3, <2>5 DEF Settled
<1>9. ASSUME SignedStay, now' = now, NEW d, NEW w, Handed(d, w) PROVE ~early /\ Settled(c)'
  <2>1. moved'[c] = moved[c] \/ moved'[c] = moved[c] + 1
    BY <1>9, Moved DEF Handed
  <2>2. early' = early /\ Locked' = Locked
    BY <1>9, LockedAfter DEF Handed
  <2> QED
    BY <1>1, <1>5, <1>9, <2>1, <2>2 DEF Settled
<1> QED
  BY <1>4, <1>6, <1>7, <1>8, <1>9, ChainSteps

\* Every step keeps the locks made in time apart: a new one is of coins that are not settled.
LEMMA NextLocksApart ==
  ASSUME TypeOK, TypeOK', ClientsOK, ChainOK, ChainOK', LocksAreFresh, LocksAreFresh', LocksApart,
         [Next]_vars
  PROVE  LocksApart'
<1> SUFFICES ASSUME ~early'
             PROVE  /\ \A l \in InTime' : \A c \in l.coins : Settled(c)'
                    /\ \A k, l \in InTime' : k # l => k.coins \cap l.coins = {}
  BY DEF LocksApart
<1>0. now \in Int /\ VotingEnds \in Int
  BY ConstantTypes DEF TypeOK
<1>1. early' = early \/ \E l : Unlocked(l)
  BY ChainSteps DEF chain, LockAdded, Handed
<1>2. ~early
  <2>1. \A l : Unlocked(l) => ~early
    BY Zenon DEF Unlocked
  <2> QED
    BY <1>1, <2>1
<1>3. /\ \A l \in InTime : \A c \in l.coins : Settled(c)
      /\ \A k, l \in InTime : k # l => k.coins \cap l.coins = {}
  BY <1>2 DEF LocksApart
<1>4. \A l \in InTime : \A c \in l.coins : Settled(c)'
  <2> SUFFICES ASSUME NEW l \in InTime, NEW c \in l.coins PROVE Settled(c)'
    OBVIOUS
  <2>1. c \in Coins
    BY MinedCoins DEF InTime
  <2> QED
    BY <1>3, <2>1, SettledStays
<1>5. ASSUME mined' = mined
      PROVE  /\ \A l \in InTime' : \A c \in l.coins : Settled(c)'
             /\ \A k, l \in InTime' : k # l => k.coins \cap l.coins = {}
  <2>1. InTime' = InTime
    BY <1>5 DEF InTime
  <2> QED
    BY <1>3, <1>4, <2>1
<1>6. ASSUME SignedStay, now' = now, NEW new, LockAdded(new)
      PROVE  /\ \A l \in InTime' : \A c \in l.coins : Settled(c)'
             /\ \A k, l \in InTime' : k # l => k.coins \cap l.coins = {}
  <2>1. InTime' \subseteq InTime \cup {new} /\ (new \in InTime' => ~new.late)
    BY <1>6 DEF InTime, LockAdded
  <2>2. new.coins \in SUBSET Coins
    BY <1>6, LockFields DEF LockAdded
  <2>3. ASSUME new \in InTime', NEW c \in new.coins
        PROVE  Settled(c)' /\ \A l \in InTime : c \notin l.coins
    <3>1. /\ c \notin Locked
          /\ now <= VotingEnds \/ \E v \in Voters : Signing(v, c) /\ client[v].tx.lock.spends[c] = moved[c]
      BY <1>6, <2>1, <2>3 DEF LockAdded
    <3>2. ~Settled(c)
      <4>1. Settled(c) => now > VotingEnds
        BY <3>1 DEF Settled
      <4>2. Settled(c) => \A v \in Voters : Signing(v, c) => client[v].tx.lock.spends[c] # moved[c]
        BY DEF Settled
      <4> QED
        BY <1>0, <3>1, <4>1, <4>2
    <3>3. c \in Locked'
      BY <1>6, LockedAfter
    <3>4. moved[c] \in Nat /\ moved'[c] = moved[c] + 1
      BY <1>6, <2>2, Moved DEF LockAdded, ChainOK
    <3>5. ASSUME NEW v \in Voters, Signing(v, c)' PROVE client'[v].tx.lock.spends[c] # moved'[c]
      <4>1. c \in Coins
        BY <2>2
      <4>2. Signing(v, c) /\ client'[v] = client[v]
        BY <1>6, <3>5, <4>1 DEF SignedStay
      <4>3. client[v].tx.lock.spends[c] \in Nat /\ client[v].tx.lock.spends[c] <= moved[c]
        BY <4>1, <4>2 DEF LocksAreFresh
      <4> QED
        BY <3>4, <4>2, <4>3
    <3> QED
      BY <1>3, <3>2, <3>3, <3>5 DEF Settled
  <2>4. \A l \in InTime' : \A c \in l.coins : Settled(c)'
    BY <1>4, <2>1, <2>3
  <2>5. ASSUME NEW k \in InTime', NEW l \in InTime', k # l
        PROVE  k.coins \cap l.coins = {}
    <3>1. CASE k \in InTime /\ l \in InTime
      BY <1>3, <2>5, <3>1
    <3>2. CASE k = new
      BY <2>1, <2>3, <2>5, <3>2
    <3>3. CASE l = new
      BY <2>1, <2>3, <2>5, <3>3
    <3> QED
      BY <2>1, <3>1, <3>2, <3>3
  <2> QED
    BY <2>4, <2>5
<1>7. \/ mined' = mined
      \/ SignedStay /\ now' = now /\ \E l : LockAdded(l)
  BY ChainSteps DEF chain, Unlocked, Handed
<1> QED
  BY <1>5, <1>6, <1>7

-----------------------------------------------------------------------------
(* The theorems *)

\* A new proposal has no votes and no locks.
LEMMA InitIInv == Init => IInv
<1> SUFFICES ASSUME Init PROVE IInv
  OBVIOUS
<1>1. \A v \in Voters : client[v] = Idle
  BY DEF Init, LifecycleInit, Voters
<1>2. ClientsOK
  <2>1. client \in [Voters -> ClientState]
    BY IdleTyped DEF Init, LifecycleInit, Voters
  <2> QED
    BY <1>1, <2>1, IdleTyped DEF ClientsOK
<1>3. TypeOK
  BY ConstantTypes DEF Init, TypeOK
<1>4. ChainOK
  BY DEF Init, ChainOK
<1>5. \A v \in Voters, c \in Coins : ~Signing(v, c)
  BY <1>1, IdleTyped DEF Signing, At
<1>6. LocksAreFresh
  BY <1>5 DEF LocksAreFresh
<1>7. \A v \in Voters : votes[v] = NoVote /\ client[v].todo # <<"tally">>
  BY <1>1, IdleTyped, Statements DEF Init
<1>8. /\ \A choice \in VoteChoices : SumFunctionOnSet(Untallied(choice), Voters) = 0
      /\ \A choice \in VoteChoices : SumFunctionOnSet(Recorded(choice), Voters) = 0
      /\ SumFunctionOnSet(OnTheWay, Voters) = 0
      /\ SumFunctionOnSet(Weights, Voters) = 0
      /\ SumFunctionOnSet(tally, VoteChoices) = 0
  <2>1. ASSUME NEW choice \in VoteChoices
        PROVE  /\ SumFunctionOnSet(Untallied(choice), Voters) = 0
               /\ SumFunctionOnSet(Recorded(choice), Voters) = 0
    <3>1. \A v \in Voters : Untallied(choice)[v] = 0 /\ Recorded(choice)[v] = 0
      BY <1>7 DEF Untallied, Recorded
    <3>2. SumFunctionOnSet(Untallied(choice), Voters) = 0
      BY <3>1, ConstantTypes, SumZero
    <3>3. SumFunctionOnSet(Recorded(choice), Voters) = 0
      BY <3>1, ConstantTypes, SumZero
    <3> QED
      BY <3>2, <3>3
  <2>2. /\ \A v \in Voters : OnTheWay[v] = 0
        /\ \A v \in Voters : Weights[v] = 0
        /\ \A choice \in VoteChoices : tally[choice] = 0
    BY <1>7 DEF OnTheWay, Weights, Init
  <2>3. SumFunctionOnSet(OnTheWay, Voters) = 0
    BY <2>2, ConstantTypes, SumZero
  <2>4. SumFunctionOnSet(Weights, Voters) = 0
    BY <2>2, ConstantTypes, SumZero
  <2>5. SumFunctionOnSet(tally, VoteChoices) = 0
    BY <2>2, ConstantTypes, SumZero
  <2> QED
    BY <2>1, <2>3, <2>4, <2>5
<1>9. TallyIsVotes /\ TallyWithinVotes
  BY <1>8 DEF TallyIsVotes, TallyWithinVotes, Init
<1>10. LocksApart
  BY DEF Init, LocksApart, InTime
<1>11. PostsOK
  BY <1>1, IdleTyped DEF PostsOK, Confirming
<1> QED
  BY <1>2, <1>3, <1>4, <1>6, <1>9, <1>10, <1>11 DEF IInv

\* Every step preserves the invariant.
LEMMA NextIInv == IInv /\ [Next]_vars => IInv'
<1> SUFFICES ASSUME IInv, [Next]_vars PROVE IInv'
  OBVIOUS
<1> USE DEF IInv
<1>1. ClientsOK'
  BY NextClientsOK
<1>2. ChainOK' /\ LocksAreFresh'
  BY NextLocksOK
<1>3. TypeOK'
  BY NextTypeOK
<1>4. TallyIsVotes' /\ TallyWithinVotes'
  BY <1>1, <1>3, TallyStep
<1>5. LocksApart' /\ PostsOK'
  BY <1>2, <1>3, NextLocksApart, NextPostsOK
<1> QED
  BY <1>1, <1>2, <1>3, <1>4, <1>5

\* The inductive invariant holds throughout.
THEOREM VotesInvariant == Spec => []IInv
BY InitIInv, NextIInv, PTL DEF Spec

\* No coin is in two locks or in a lock of somebody who does not hold it, and rows
\* name mined locks of the voter's key, with weights that these have.
THEOREM VotesTypeOK == Spec => []TypeOK
<1>1. IInv => TypeOK
  BY DEF IInv
<1> QED
  BY <1>1, VotesInvariant, PTL

\* Unless a restart interrupted a confirmation, the tally of each choice and what is on
\* its way to it are the recorded votes.
THEOREM VotesTally == Spec => []TallyIsVotes
<1>1. IInv => TallyIsVotes
  BY DEF IInv
<1> QED
  BY <1>1, VotesInvariant, PTL

\* However coins are locked, handed on and locked again, no more weight is tallied than
\* there are tokens, unless a lock was spent before the deadline, a vote is not backed by
\* tokens locked in time, or two spellings of an address name one lock.
THEOREM VotesOnce == Spec => []TokensVoteOnce
<1>1. IInv => TokensVoteOnce
  <2> SUFFICES ASSUME IInv, ~early, \A v \in Voters : votes[v] # NoVote => Backed(v),
                      ~\E v, w \in Voters : SameLock(v, w)
               PROVE  SumFunctionOnSet(tally, VoteChoices) <= Cardinality(Coins)
    BY DEF TokensVoteOnce
  <2> USE DEF IInv
  <2>1. PICK part : part = [v \in Voters |-> IF votes[v] # NoVote THEN votes[v].lock.coins ELSE {}]
    OBVIOUS
  <2>2. ASSUME NEW v \in Voters, votes[v] # NoVote
        PROVE  /\ part[v] = votes[v].lock.coins /\ part[v] \in SUBSET Coins
               /\ votes[v].lock \in InTime
               /\ votes[v].weight \in Nat /\ votes[v].weight <= Cardinality(part[v])
    <3>1. votes[v].lock \in mined /\ Holds(votes[v].lock, votes[v].weight)
      BY <2>2 DEF TypeOK
    <3>2. votes[v].lock.coins # {} /\ ~votes[v].lock.late
      BY <2>2 DEF Backed
    <3>3. part[v] = votes[v].lock.coins
      BY <2>1, <2>2
    <3>4. votes[v].weight \in Nat
      BY <2>2 DEF TypeOK
    <3> QED
      BY <3>1, <3>2, <3>3, <3>4, MinedCoins DEF InTime, Holds
  <2>3. part \in [Voters -> SUBSET Coins]
    <3>1. \A v \in Voters : part[v] \in SUBSET Coins
      BY <2>1, <2>2
    <3> QED
      BY <2>1, <3>1
  <2>4. \A v, w \in Voters : v # w => part[v] \cap part[w] = {}
    <3> SUFFICES ASSUME NEW v \in Voters, NEW w \in Voters, v # w
                 PROVE  part[v] \cap part[w] = {}
      OBVIOUS
    <3>1. CASE votes[v] = NoVote \/ votes[w] = NoVote
      BY <2>1, <3>1
    <3>2. CASE votes[v] # NoVote /\ votes[w] # NoVote
      <4>1. votes[v].lock # votes[w].lock
        BY <3>2 DEF SameLock
      <4> QED
        BY <2>2, <3>2, <4>1 DEF LocksApart
    <3> QED
      BY <3>1, <3>2
  <2>5. PICK sizes : sizes = [v \in Voters |-> Cardinality(part[v])]
    OBVIOUS
  <2>6. SumFunctionOnSet(sizes, Voters) <= Cardinality(Coins)
    BY <2>3, <2>4, <2>5, ConstantTypes, SumOfDisjoint
  <2>7. \A v \in Voters : /\ Weights[v] \in Nat /\ sizes[v] \in Nat
                          /\ Weights[v] <= sizes[v]
    <3> TAKE v \in Voters
    <3>1. sizes[v] = Cardinality(part[v]) /\ sizes[v] \in Nat
      BY <2>3, <2>5, ConstantTypes, FS_Subset, FS_CardinalityType
    <3>2. CASE votes[v] # NoVote
      BY <2>2, <3>1, <3>2 DEF Weights
    <3>3. CASE votes[v] = NoVote
      BY <3>1, <3>3 DEF Weights
    <3> QED
      BY <3>2, <3>3
  <2>8. SumFunctionOnSet(Weights, Voters) <= SumFunctionOnSet(sizes, Voters)
    BY <2>7, ConstantTypes, SumMonotone
  <2>9. SumFunctionOnSet(sizes, Voters) \in Nat /\ SumFunctionOnSet(Weights, Voters) \in Nat
    <3>1. SumFunctionOnSet(sizes, Voters) \in Nat
      BY <2>7, ConstantTypes, SumNat
    <3>2. SumFunctionOnSet(Weights, Voters) \in Nat
      BY <2>7, ConstantTypes, SumNat
    <3> QED
      BY <3>1, <3>2
  <2>10. \A v \in Voters : OnTheWay[v] \in Nat
    BY WeightTyped, Statements DEF OnTheWay
  <2>11. SumFunctionOnSet(OnTheWay, Voters) \in Nat
    BY <2>10, ConstantTypes, SumNat
  <2>12. SumFunctionOnSet(tally, VoteChoices) \in Nat
    BY ConstantTypes, SumNat DEF TypeOK
  <2> QED
    BY <2>6, <2>8, <2>9, <2>11, <2>12, ConstantTypes DEF TallyWithinVotes
<1> QED
  BY <1>1, VotesInvariant, PTL
=============================================================================
