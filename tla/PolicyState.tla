----------------------------- MODULE PolicyState ----------------------------
(***************************************************************************)
(* The backend's treasury policy: proposal rows, and the policy word of    *)
(* the vault (StateBits) that mirrors them.                                *)
(*                                                                         *)
(* Every handler reads the word, computes a new one and writes it back     *)
(* with awaits in between, so two handlers of one vault interleave at each *)
(* database statement and a restart may fall between any two.  A handler   *)
(* is a slot of `handler`; its record holds what it has read so far.       *)
(***************************************************************************)
EXTENDS StateBits, Sequences

CONSTANTS
  Signers,     \* the vault's signers
  Threshold,   \* approvalThreshold
  Slots,       \* the handlers that may run at once
  Idle,        \* model value: the slot runs nothing
  Backlogs,    \* how many pending proposals the vault may start with
  MaxRows,     \* bound: proposals created in one behaviour, backlog included
  Due,         \* bound: the cycles that come due, in whatever order they are unlocked
  MaxCalls,    \* bound: approvals counted for one number
  Watched      \* bound: proposal numbers the signers act upon

ASSUME PolicyConstants ==
  /\ IsFiniteSet(Signers)
  /\ Threshold \in 1 .. 2
  /\ Backlogs \subseteq 0 .. MaxRows
  /\ MaxRows \in Nat /\ MaxCalls \in Nat
  /\ Due \subseteq Nat
  /\ Watched \subseteq Nat

VARIABLES
  word,        \* vaults.state
  rows,        \* proposals of the vault in order of insertion
  sessions,    \* rows with an execution session whose payout may complete
  handler,     \* what each slot is doing
  calls,       \* history: approvals counted, by proposal number
  approvers,   \* history: who has approved, by row
  unlocked,    \* history: cycles that were unlocked
  clean        \* history: no overlap, restart or late confirmation so far

history == <<calls, approvers, unlocked, clean>>
vars == <<word, rows, sessions, handler, history>>

RowIds == DOMAIN rows
Numbers == 1 .. MaxRows
RowStatuses == {"pending", "approved", "executed"}
Row == [number : Numbers, status : RowStatuses, approvals : SUBSET Signers]

\* What a handler remembers between its awaits.
Handlers ==
  [op : {"create.count", "create.insert", "create.write"}, word : Words, number : 0 .. MaxRows]
    \union
  [op : {"approve.vault", "approve.row", "approve.write"}, word : Words,
   row : 1 .. MaxRows, who : Signers, seen : SUBSET Signers, done : BOOLEAN]
    \union
  [op : {"mark.row", "mark.write"}, word : Words, row : 1 .. MaxRows]
    \union
  [op : {"unlock.write"}, word : Words, cycle : Due]

ASSUME IdleConstant == Idle \notin Handlers

TypeOK ==
  /\ word \in Words
  /\ rows \in Seq(Row) /\ Len(rows) <= MaxRows
  /\ sessions \subseteq RowIds
  /\ \A h \in Slots : handler[h] = Idle \/ handler[h] \in Handlers
  /\ calls \in [Numbers -> Nat]
  /\ approvers \in [1 .. MaxRows -> SUBSET Signers]
  /\ unlocked \subseteq Due
  /\ clean \in BOOLEAN

\* A vault whose first n proposals were created one after the other.
Init ==
  \E n \in Backlogs :
    /\ word = {StatusShift(p) : p \in {q \in 1 .. n : HasStatus(q)}}
    /\ rows = [i \in 1 .. n |-> [number |-> i, status |-> "pending", approvals |-> {}]]
    /\ sessions = {}
    /\ handler = [h \in Slots |-> Idle]
    /\ calls = [p \in Numbers |-> 0]
    /\ approvers = [r \in 1 .. MaxRows |-> {}]
    /\ unlocked = {}
    /\ clean = TRUE

-----------------------------------------------------------------------------
\* A handler begins with its first read; it is clean if it runs alone.
Begin(h, record) ==
  /\ handler[h] = Idle
  /\ handler' = [handler EXCEPT ![h] = record]
  /\ clean' = (clean /\ \A g \in Slots : handler[g] = Idle)

At(h, op) == handler[h] # Idle /\ handler[h].op = op
Goto(h, record) == handler' = [handler EXCEPT ![h] = record]
Return(h) == handler' = [handler EXCEPT ![h] = Idle]

\* updateVaultState, the last statement of every handler.
WriteWord(h, new) == /\ word' = new
                     /\ Return(h)
                     /\ UNCHANGED <<rows, sessions, calls, approvers, clean>>

-----------------------------------------------------------------------------
(* createProposal *)

CreateBegin(h) ==
  /\ Len(rows) < MaxRows
  /\ Begin(h, [op |-> "create.count", word |-> word, number |-> 0])
  /\ UNCHANGED <<word, rows, sessions, calls, approvers, unlocked>>

\* COUNT(*) + 1 is the proposal's number; a number whose status bits are not
\* clear in the word read before is refused.
CreateCount(h) ==
  LET number == Len(rows) + 1
  IN  /\ At(h, "create.count")
      /\ IF number > MaxRows \/ getProposalStatus(handler[h].word, number) # 0
         THEN Return(h)
         ELSE Goto(h, [handler[h] EXCEPT !.op = "create.insert", !.number = number])
      /\ UNCHANGED <<word, rows, sessions, history>>

CreateInsert(h) ==
  /\ At(h, "create.insert")
  /\ Len(rows) < MaxRows
  /\ rows' = Append(rows, [number |-> handler[h].number, status |-> "pending",
                           approvals |-> {}])
  /\ Goto(h, [handler[h] EXCEPT !.op = "create.write"])
  /\ UNCHANGED <<word, sessions, history>>

CreateWrite(h) ==
  /\ At(h, "create.write")
  /\ WriteWord(h, setProposalPending(handler[h].word, handler[h].number))
  /\ UNCHANGED unlocked

-----------------------------------------------------------------------------
(* approveProposal *)

\* A proposal that is not pending, or already approved by s, is left alone.
Approvable(r, s) == rows[r].status = "pending" /\ s \notin rows[r].approvals

ApproveBegin(h, r, s) ==
  /\ rows[r].number \in Watched /\ calls[rows[r].number] < MaxCalls
  /\ Approvable(r, s)
  /\ Begin(h, [op |-> "approve.vault", word |-> {}, row |-> r, who |-> s,
               seen |-> rows[r].approvals, done |-> FALSE])
  /\ UNCHANGED <<word, rows, sessions, calls, approvers, unlocked>>

\* The vault's word decides: pending or an error, and whether this approval
\* reaches the threshold.
ApproveVault(h) ==
  LET number == rows[handler[h].row].number
      counted == incrementApprovalWithCheck(word, number, Threshold)
  IN  /\ At(h, "approve.vault")
      /\ IF isProposalPending(word, number)
         THEN /\ Goto(h, [handler[h] EXCEPT !.op = "approve.row",
                                            !.word = counted.newState,
                                            !.done = counted.isApproved])
              /\ calls' = [calls EXCEPT ![number] = @ + 1]
              /\ approvers' = [approvers EXCEPT ![handler[h].row] = @ \union {handler[h].who}]
         ELSE /\ Return(h)
              /\ UNCHANGED <<calls, approvers>>
      /\ UNCHANGED <<word, rows, sessions, unlocked, clean>>

\* Mutant of ApproveRow: the approval replaces the list instead of joining it.
ApproveRowReplaces(h) ==
  /\ At(h, "approve.row")
  /\ rows' = [rows EXCEPT ![handler[h].row].approvals = {handler[h].who},
                          ![handler[h].row].status = IF handler[h].done THEN "approved"
                                                     ELSE "pending"]
  /\ Goto(h, [handler[h] EXCEPT !.op = "approve.write"])
  /\ UNCHANGED <<word, sessions, history>>

ApproveRow(h) ==
  /\ At(h, "approve.row")
  /\ rows' = [rows EXCEPT ![handler[h].row].approvals = handler[h].seen \union {handler[h].who},
                          ![handler[h].row].status = IF handler[h].done THEN "approved"
                                                     ELSE "pending"]
  /\ Goto(h, [handler[h] EXCEPT !.op = "approve.write"])
  /\ UNCHANGED <<word, sessions, history>>

ApproveWrite(h) ==
  /\ At(h, "approve.write")
  /\ WriteWord(h, handler[h].word)
  /\ UNCHANGED unlocked

-----------------------------------------------------------------------------
(* Execution: a session for an approved proposal, and markProposalExecuted *)

OpenSession(r) ==
  /\ rows[r].status = "approved"
  /\ r \notin sessions
  /\ sessions' = sessions \union {r}
  /\ UNCHANGED <<word, rows, handler, history>>

\* The session's payout has been broadcast; markProposalExecuted reads the row
\* and the vault and checks the status of neither.
MarkBegin(h, r) ==
  /\ r \in sessions
  /\ sessions' = sessions \ {r}
  /\ Begin(h, [op |-> "mark.row", word |-> word, row |-> r])
  /\ UNCHANGED <<word, rows, calls, approvers, unlocked>>

MarkRow(h) ==
  /\ At(h, "mark.row")
  /\ rows' = [rows EXCEPT ![handler[h].row].status = "executed"]
  /\ Goto(h, [handler[h] EXCEPT !.op = "mark.write"])
  /\ UNCHANGED <<word, sessions, history>>

MarkWrite(h) ==
  /\ At(h, "mark.write")
  /\ WriteWord(h, setProposalExecuted(handler[h].word, rows[handler[h].row].number))
  /\ UNCHANGED unlocked

\* POST /:id/confirm-create writes "pending" whatever the status has become; it
\* is late when the proposal has moved on.
ConfirmCreate(r) ==
  /\ rows[r].status # "pending"
  /\ rows' = [rows EXCEPT ![r].status = "pending"]
  /\ clean' = FALSE
  /\ UNCHANGED <<word, sessions, handler, calls, approvers, unlocked>>

-----------------------------------------------------------------------------
(* unlockCycle, and the confirmation of an on-chain unlock *)

UnlockBegin(h, c) ==
  /\ ~isCycleUnlocked(word, c)
  /\ Begin(h, [op |-> "unlock.write", word |-> word, cycle |-> c])
  /\ UNCHANGED <<word, rows, sessions, calls, approvers, unlocked>>

UnlockWrite(h) ==
  /\ At(h, "unlock.write")
  /\ WriteWord(h, setCycleUnlocked(handler[h].word, handler[h].cycle))
  /\ unlocked' = unlocked \union {handler[h].cycle}

\* The server restarts: handlers are lost wherever they stand.
Restart ==
  /\ \E h \in Slots : handler[h] # Idle
  /\ handler' = [h \in Slots |-> Idle]
  /\ clean' = FALSE
  /\ UNCHANGED <<word, rows, sessions, calls, approvers, unlocked>>

Create(h) == CreateBegin(h) \/ CreateCount(h) \/ CreateInsert(h) \/ CreateWrite(h)
Approve(h) == \/ \E r \in RowIds, s \in Signers : ApproveBegin(h, r, s)
              \/ ApproveVault(h) \/ ApproveRow(h) \/ ApproveWrite(h)
Execute(h) == \/ \E r \in RowIds : MarkBegin(h, r)
              \/ MarkRow(h) \/ MarkWrite(h)
Unlock(h) == \/ \E c \in Due : UnlockBegin(h, c)
             \/ UnlockWrite(h)

Next ==
  \/ \E h \in Slots : Create(h) \/ Approve(h) \/ Execute(h) \/ Unlock(h)
  \/ \E r \in RowIds : OpenSession(r) \/ ConfirmCreate(r)
  \/ Restart

Spec == Init /\ [][Next]_vars
-----------------------------------------------------------------------------
(* Properties *)

quiet == \A h \in Slots : handler[h] = Idle
Used == {rows[r].number : r \in RowIds}
Code(status) == CASE status = "pending" -> 1
                  [] status = "approved" -> 2
                  [] OTHER -> 3

\* The words the layout can hold: the counts of numbers 1 .. 3 share their bits
\* with the statuses of numbers 10 .. 15, and a cycle c of the 16 that have a bit
\* shares it with the status of number c \div 2.
NoSharedCounts == Len(rows) <= 9
NoSharedStatus == \A c \in unlocked : HasFlag(c) => c \div 2 \notin Used

\* As long as handlers run one at a time, to their end, and no two fields in
\* use share a bit, the word says of every proposal and every cycle what the
\* rows and the unlocks that happened say.
WordMatchesRows ==
  clean /\ quiet /\ NoSharedCounts /\ NoSharedStatus =>
    /\ \A r \in RowIds :
         LET row == rows[r]
         IN  /\ getProposalStatus(word, row.number) = Code(row.status)
             /\ HasCount(row.number) =>
                  getApprovalCount(word, row.number) = Cardinality(row.approvals)
    /\ \A c \in Due :
         HasFlag(c) /\ c \div 2 \notin Used => (isCycleUnlocked(word, c) <=> c \in unlocked)

\* However handlers overlap, fail or repeat, a proposal is approved only after
\* as many approvals were counted for its number as the threshold asks for: a
\* stale write can lose a count and never make one up.
ApprovedWasCounted ==
  NoSharedCounts =>
    \A r \in RowIds :
      rows[r].status # "pending" => calls[rows[r].number] >= Threshold

\* As long as handlers run one at a time a proposal never goes back: it does not
\* lose an approval, and executed is final.
RowsAdvance ==
  \A r \in RowIds : /\ Code(rows[r].status) <= Code(rows'[r].status)
                    /\ rows[r].approvals \subseteq rows'[r].approvals
RowsOnlyAdvance == [][clean' => RowsAdvance]_vars

\* "When 2 of 3 sign, the proposal moves to approved and is ready for
\* execution": once enough signers have approved, and nothing overlapped or
\* failed, the proposal is approved.
TwoSignaturesApprove ==
  clean /\ quiet =>
    \A r \in RowIds :
      Cardinality(approvers[r]) >= Threshold => rows[r].status # "pending"
=============================================================================
