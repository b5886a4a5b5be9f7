--------------------------- MODULE PayoutSessions ---------------------------
(***************************************************************************)
(* Executing an approved proposal: backend/src/api/proposals.ts builds a   *)
(* payout of the vault, keeps it in a signing session, collects the        *)
(* signatures of two signers, broadcasts it and records the execution.     *)
(*                                                                         *)
(* The vault is VaultCovenant itself: a session holds a transaction built  *)
(* against one vault UTXO, and everything else that consumes that UTXO,    *)
(* another payout or a signer's pause, makes the transaction unspendable.  *)
(***************************************************************************)
EXTENDS VaultCovenant, Sequences

CONSTANTS
  Proposals,   \* the vault's approved proposals
  Payee,       \* the recipient they pay
  Payout,      \* the amount they pay
  FeeReserve,  \* 4000 satoshis, the fee the builder leaves
  BuilderLag,  \* two hours, how far behind the clock the builder dates
  Dust,        \* 546 satoshis, the least the builder leaves in the vault
  Approvers,   \* the signers who approved the proposals
  Slots,       \* the execute requests that may run at once
  Idle,        \* model value: the slot runs nothing
  Failures,    \* BOOLEAN: restarts, and answers of the network that get lost
  MaxSessions, \* bound: sessions in one behaviour
  MaxUtxo      \* bound: transactions that move the vault

VARIABLES
  utxo,       \* which vault UTXO is unspent: one more per transaction
  dbStatus,   \* proposals.status
  sessions,   \* proposal_execution_sessions, in order of insertion
  request,    \* what each slot of the execute route is doing
  payments,   \* history: payouts on the chain, by proposal
  paidAt,     \* history: payouts on the chain, by time
  raced       \* history: proposals with two execute requests at once

chain == <<status, periodId, spent, lastUpdate, value, willing,
           paid, payouts, released, burned, laterInput, utxo, payments, paidAt>>
vars == <<chain, now, dbStatus, sessions, request, raced>>

\* The builder's fee is within the covenant's; a transaction may be signed long
\* after it was built, so that the chain sees a locktime however old; the bounds
\* stop short of the four bytes of a locktime and of a period number; no builder
\* dates a transaction so far back that the first new period would begin before
\* the least timestamp.
ASSUME PayoutConstants ==
  /\ Payee \in Recipients
  /\ Approvers \subseteq Signers
  /\ Failures \in BOOLEAN
  /\ {Payout, FeeReserve, BuilderLag, Dust, MaxSessions, MaxUtxo} \subseteq Nat
  /\ FeeReserve <= MaxFee
  /\ MaxTime <= Lag
  /\ MaxTime <= MaxLocktime /\ MaxUtxo <= MaxPeriodId
  /\ Genesis <= MaxTime
  /\ PeriodDuration > 0 => LocktimeFloor + BuilderLag <= Genesis + PeriodDuration

\* The unsigned transaction a session keeps: the UTXO it spends and the state
\* it writes into the next one.
Template == [utxo : 0 .. MaxUtxo, periodId : Nat, spent : Nat, locktime : Nat]
NoTx == [utxo |-> 0, periodId |-> 0, spent |-> 0, locktime |-> 0]

\* `stage` is how far the request that brought the last signature has come:
\* "lost" when it failed or the server restarted under it.
Session == [proposal : Proposals, signers : SUBSET Signers, tx : Template,
            signedBy : SUBSET Signers, status : {"pending", "completed"},
            stage : {"collect", "broadcast", "mark", "finish", "done", "lost"}]

Requests == [op : {"session", "build", "insert"}, proposal : Proposals, tx : Template]

TypeOK ==
  /\ VaultTypeOK
  /\ utxo \in 0 .. MaxUtxo
  /\ dbStatus \in [Proposals -> {"approved", "executed"}]
  /\ sessions \in Seq(Session) /\ Len(sessions) <= MaxSessions
  /\ \A i \in DOMAIN sessions : sessions[i].signedBy \subseteq sessions[i].signers
  /\ request \in [Slots -> Requests \union {Idle}]
  /\ payments \in [Proposals -> Nat]
  /\ paidAt \in [0 .. MaxTime -> Nat]
  /\ raced \subseteq Proposals

Init ==
  /\ VaultInit
  /\ willing = Signers
  /\ utxo = 0
  /\ dbStatus = [p \in Proposals |-> "approved"]
  /\ sessions = <<>>
  /\ request = [h \in Slots |-> Idle]
  /\ payments = [p \in Proposals |-> 0]
  /\ paidAt = [t \in 0 .. MaxTime |-> 0]
  /\ raced = {}

-----------------------------------------------------------------------------
(* createExecutePayoutTransaction *)

\* Mutant of RolledPeriod: the builder rolls by the wall clock.
RolledPeriodNow(locktime) ==
  IF PeriodDuration > 0 /\ locktime + BuilderLag >= lastUpdate + PeriodDuration
  THEN periodId + (locktime + BuilderLag - lastUpdate) \div PeriodDuration
  ELSE periodId

\* The builder counts every period that went by since the last update.
RolledPeriod(locktime) ==
  IF PeriodDuration > 0 /\ locktime >= lastUpdate + PeriodDuration
  THEN periodId + (locktime - lastUpdate) \div PeriodDuration
  ELSE periodId

\* The transaction built against the vault UTXO that is unspent now, dated a
\* lag (two hours) behind the clock.
BuiltTx ==
  LET locktime == now - BuilderLag
      period == RolledPeriod(locktime)
  IN  [utxo |-> utxo, periodId |-> period, locktime |-> locktime,
       spent |-> IF period > periodId THEN Payout ELSE spent + Payout]

\* The builder's own checks, each an error to the caller.
Buildable ==
  /\ status = "ACTIVE"
  /\ now >= BuilderLag
  /\ PeriodCap > 0 => BuiltTx.spent <= PeriodCap
  /\ RecipientCap > 0 => Payout <= RecipientCap
  /\ value - Payout - FeeReserve >= Dust

-----------------------------------------------------------------------------
(* POST /:id/execute *)

\* The requester and a second signer, one who approved if there is another.  The
\* choice is shown where the session is inserted: nothing it reads changes before.
Pair(requester) ==
  LET others == Signers \ {requester}
      approved == others \intersect Approvers
  IN  {{requester, s} : s \in IF approved # {} THEN approved ELSE others}

InFlight(p) == {h \in Slots : request[h] # Idle /\ request[h].proposal = p}
At(h, op) == request[h] # Idle /\ request[h].op = op
Goto(h, record) == request' = [request EXCEPT ![h] = record]
Return(h) == request' = [request EXCEPT ![h] = Idle]

\* The proposal row is read: it must be approved.
ExecuteBegin(h, p) ==
  /\ request[h] = Idle
  /\ dbStatus[p] = "approved"
  /\ Goto(h, [op |-> "session", proposal |-> p, tx |-> NoTx])
  /\ raced' = IF InFlight(p) = {} THEN raced ELSE raced \union {p}
  /\ UNCHANGED <<chain, now, dbStatus, sessions>>

PendingSessions(p) ==
  {i \in DOMAIN sessions : sessions[i].proposal = p /\ sessions[i].status = "pending"}

\* Mutant of ExecuteSession: only sessions still short of signatures count.
ExecuteSessionOpen(h) ==
  /\ At(h, "session")
  /\ IF \E i \in PendingSessions(request[h].proposal) : sessions[i].stage = "collect"
     THEN Return(h)
     ELSE Goto(h, [request[h] EXCEPT !.op = "build"])
  /\ UNCHANGED <<chain, now, dbStatus, sessions, raced>>

\* A pending session of the proposal is handed back; otherwise one is built.
ExecuteSession(h) ==
  /\ At(h, "session")
  /\ IF PendingSessions(request[h].proposal) # {}
     THEN Return(h)
     ELSE Goto(h, [request[h] EXCEPT !.op = "build"])
  /\ UNCHANGED <<chain, now, dbStatus, sessions, raced>>

\* The builder reads the row and the vault UTXO again.
ExecuteBuild(h) ==
  /\ At(h, "build")
  /\ utxo < MaxUtxo
  /\ IF dbStatus[request[h].proposal] = "approved" /\ Buildable
     THEN Goto(h, [request[h] EXCEPT !.op = "insert", !.tx = BuiltTx])
     ELSE Return(h)
  /\ UNCHANGED <<chain, now, dbStatus, sessions, raced>>

ExecuteInsert(h, requester) ==
  /\ At(h, "insert")
  /\ Len(sessions) < MaxSessions
  /\ \E pair \in Pair(requester) :
       sessions' = Append(sessions,
         [proposal |-> request[h].proposal, signers |-> pair, tx |-> request[h].tx,
          signedBy |-> {}, status |-> "pending", stage |-> "collect"])
  /\ Return(h)
  /\ UNCHANGED <<chain, now, dbStatus, raced>>

-----------------------------------------------------------------------------
(* POST /:id/execute-signature *)

\* Mutant of Sign: any signer of the vault may sign the session.
SignAnyone(i, s) ==
  /\ sessions[i].status = "pending"
  /\ s \in Signers \ sessions[i].signedBy
  /\ sessions' = [sessions EXCEPT
       ![i].signedBy = @ \union {s},
       ![i].stage = IF sessions[i].signedBy = {} THEN @ ELSE "broadcast"]
  /\ UNCHANGED <<chain, now, dbStatus, request, raced>>

\* One locked transaction adds the signature; the second signature goes on.
Sign(i, s) ==
  /\ sessions[i].status = "pending"
  /\ s \in sessions[i].signers \ sessions[i].signedBy
  /\ sessions' = [sessions EXCEPT
       ![i].signedBy = @ \union {s},
       ![i].stage = IF sessions[i].signedBy = {} THEN @ ELSE "broadcast"]
  /\ UNCHANGED <<chain, now, dbStatus, request, raced>>

\* What the network makes of a session's transaction.
CovenantAccepts(tx) ==
  /\ tx.utxo = utxo
  /\ status = "ACTIVE"
  /\ tx.periodId = periodId \/ (tx.periodId = periodId + 1 /\ PeriodOver(tx.locktime))
  /\ tx.spent = IF tx.periodId = periodId THEN spent + Payout ELSE Payout
  /\ PeriodCap > 0 => tx.spent <= PeriodCap
  /\ RecipientCap > 0 => Payout <= RecipientCap
  /\ AllowlistEnabled => Payee \in Allowed
  /\ Payout + FeeReserve <= value

Stage(i, stage) == sessions' = [sessions EXCEPT ![i].stage = stage]

\* The spend is mined; the backend's answer from the network may be lost.
Broadcast(i) ==
  LET tx == sessions[i].tx
  IN  /\ sessions[i].stage = "broadcast"
      /\ CovenantAccepts(tx)
      /\ \E s1, s2 \in sessions[i].signers :
           spend(s1, s2, Payee, Payout, tx.locktime, FeeReserve)
      /\ periodId' = tx.periodId
      /\ spent' = tx.spent
      /\ utxo' = utxo + 1
      /\ payments' = [payments EXCEPT ![sessions[i].proposal] = @ + 1]
      /\ paidAt' = [paidAt EXCEPT ![now] = @ + 1]
      /\ \E stage \in {"mark"} \union (IF Failures THEN {"lost"} ELSE {}) : Stage(i, stage)
      /\ UNCHANGED <<dbStatus, request, raced>>

\* Mutant of BroadcastFails: the error is swallowed.
BroadcastFailsUnnoticed(i) ==
  /\ sessions[i].stage = "broadcast"
  /\ Failures \/ ~CovenantAccepts(sessions[i].tx)
  /\ Stage(i, "mark")
  /\ UNCHANGED <<chain, now, dbStatus, request, raced>>

\* The network refuses the transaction, or cannot be reached: an error, and the
\* session stays as it is.
BroadcastFails(i) ==
  /\ sessions[i].stage = "broadcast"
  /\ Failures \/ ~CovenantAccepts(sessions[i].tx)
  /\ Stage(i, "lost")
  /\ UNCHANGED <<chain, now, dbStatus, request, raced>>

\* Mutant of Mark: the session's row is written before the proposal's.
MarkSwapped(i) ==
  /\ sessions[i].stage = "mark"
  /\ sessions' = [sessions EXCEPT ![i].stage = "finish", ![i].status = "completed"]
  /\ UNCHANGED <<chain, now, dbStatus, request, raced>>

\* markProposalExecuted, then the session's own row.
Mark(i) ==
  /\ sessions[i].stage = "mark"
  /\ dbStatus' = [dbStatus EXCEPT ![sessions[i].proposal] = "executed"]
  /\ Stage(i, "finish")
  /\ UNCHANGED <<chain, now, request, raced>>

Finish(i) ==
  /\ sessions[i].stage = "finish"
  /\ sessions' = [sessions EXCEPT ![i].status = "completed", ![i].stage = "done"]
  /\ UNCHANGED <<chain, now, dbStatus, request, raced>>

-----------------------------------------------------------------------------
(* The rest of the world *)

\* The signers use the vault without the backend's sessions, as the first input
\* of their transactions (asLaterInput is left to VaultCovenant).
VaultMoves ==
  /\ utxo < MaxUtxo
  /\ \/ \E s \in Signers : unlockPeriod(s, now, 0) \/ pause(s, 0)
     \/ \E s1, s2 \in Signers : resume(s1, s2, 0)
     \/ emergencyLock(0)
  /\ utxo' = utxo + 1
  /\ UNCHANGED <<payments, paidAt, dbStatus, sessions, request, raced>>

Tick ==
  /\ VaultTick
  /\ UNCHANGED <<utxo, payments, paidAt, dbStatus, sessions, request, raced>>

\* The server restarts: requests are lost, the database stays.
Restart ==
  /\ Failures
  /\ request' = [h \in Slots |-> Idle]
  /\ sessions' = [i \in DOMAIN sessions |->
       [sessions[i] EXCEPT !.stage =
          IF @ \in {"broadcast", "mark", "finish"} THEN "lost" ELSE @]]
  /\ UNCHANGED <<chain, now, dbStatus, raced>>

Execute(h) ==
  \/ \E p \in Proposals : ExecuteBegin(h, p)
  \/ ExecuteSession(h) \/ ExecuteBuild(h)
  \/ \E s \in Signers : ExecuteInsert(h, s)

\* What the request that brought the last signature does by itself.
Settle(i) == Broadcast(i) \/ BroadcastFails(i) \/ Mark(i) \/ Finish(i)

Next ==
  \/ \E h \in Slots : Execute(h)
  \/ \E i \in DOMAIN sessions :
       \/ \E s \in Signers : Sign(i, s)
       \/ Settle(i)
  \/ VaultMoves
  \/ Tick
  \/ Restart

Spec == Init /\ [][Next]_vars

\* The server goes on with a request it has begun.
FairSpec ==
  Spec /\ \A i \in 1 .. MaxSessions : WF_vars(i \in DOMAIN sessions /\ Settle(i))

-----------------------------------------------------------------------------
(* Properties *)

\* A proposal is paid once, unless two execute requests for it ran at the same
\* time: not even a lost answer, a restart, or a second signature that arrives
\* late pays it again.
PaidAtMostOnce == \A p \in Proposals : p \notin raced => payments[p] <= 1

\* A proposal recorded as executed was paid on the chain.
ExecutedIsPaid == \A p \in Proposals : dbStatus[p] = "executed" => payments[p] >= 1

\* A payout the database has no record of is always found from a pending session
\* of its proposal with both signatures.
UnrecordedPayoutIsFound ==
  \A p \in Proposals :
    payments[p] >= 1 /\ dbStatus[p] = "approved" =>
      \E i \in PendingSessions(p) : sessions[i].signedBy = sessions[i].signers

\* The builder and the covenant agree: a transaction built for the vault UTXO
\* that is still unspent is one the covenant accepts, whenever it is broadcast,
\* provided the recipient is on the allowlist and the vault was not idle for
\* two periods or more.
BuilderAgrees ==
  (AllowlistEnabled => Payee \in Allowed) =>
    \A i \in DOMAIN sessions :
      LET tx == sessions[i].tx
      IN  tx.utxo = utxo /\ tx.periodId <= periodId + 1 => CovenantAccepts(tx)

\* "Once the required signatures are collected, the backend broadcasts the payout
\* transaction and marks the proposal executed", at least while nobody pauses the
\* vault.
SignedSessionExecutes ==
  [](status = "ACTIVE") => \A i \in 1 .. MaxSessions, p \in Proposals :
    (i \in DOMAIN sessions /\ sessions[i].proposal = p /\ sessions[i].stage = "broadcast")
      ~> dbStatus[p] = "executed"
=============================================================================
