-------------------------- MODULE PolicyStateProofs --------------------------
(***************************************************************************)
(* Theorems about the treasury policy, for every number of signers,        *)
(* handlers, proposals and cycles.  The first part says what the           *)
(* operators of StateBits do to the fields of a word; the inductive        *)
(* invariant then says what a word, stale or not, can tell of the rows.    *)
(***************************************************************************)
EXTENDS PolicyState, FiniteSetTheorems, SequenceTheorems, TLAPS

-----------------------------------------------------------------------------
(* The fields of a word *)

\* Two words that differ in some bits at most.
SameBut(v, w, bits) == \A i \in WordBits \ bits : i \in v <=> i \in w

StatusAt(w, p) == Bit(w, 2 * p) + 2 * Bit(w, 2 * p + 1)
CountAt(w, p) == Bit(w, 16 + 4 * p) + 2 * Bit(w, 17 + 4 * p)
                   + 4 * Bit(w, 18 + 4 * p) + 8 * Bit(w, 19 + 4 * p)

\* A shift by 32 + 2 * p is one by 2 * p, and a shift by 48 + 4 * p one by 16 + 4 * p.
LEMMA Shifts ==
  /\ \A p \in 0 .. 15 : StatusShift(p) = 2 * p
  /\ \A p \in 0 .. 3 : CountShift(p) = 16 + 4 * p
BY DEF StatusShift, CountShift

\* Where a status is.
LEMMA StatusIs ==
  ASSUME NEW w, NEW p \in 0 .. 15
  PROVE  getProposalStatus(w, p) = StatusAt(w, p) /\ StatusBits(p) = {2 * p, 2 * p + 1}
<1>1. StatusShift(p) = 2 * p /\ HasStatus(p)
  BY Shifts DEF HasStatus
<1> QED
  BY <1>1 DEF getProposalStatus, TwoBits, StatusAt, StatusBits

\* Where an approval count is.
LEMMA CountIs ==
  ASSUME NEW w, NEW p \in 0 .. 3
  PROVE  /\ getApprovalCount(w, p) = CountAt(w, p) /\ CountBits(p) = 16 + 4 * p .. 19 + 4 * p
         /\ getApprovalCount(w, p) \in 0 .. 15
<1>1. CountShift(p) = 16 + 4 * p /\ HasCount(p)
  BY Shifts DEF HasCount
<1>2. /\ getApprovalCount(w, p) = Nibble(w, 16 + 4 * p)
      /\ CountBits(p) = 16 + 4 * p .. 19 + 4 * p
  BY <1>1 DEF getApprovalCount, CountBits
<1>3. /\ (16 + 4 * p) + 1 = 17 + 4 * p /\ (16 + 4 * p) + 2 = 18 + 4 * p
      /\ ((16 + 4 * p) + 2) + 1 = 19 + 4 * p
  OBVIOUS
<1>4. Nibble(w, 16 + 4 * p) = CountAt(w, p)
  BY <1>3 DEF Nibble, TwoBits, CountAt, Bit
<1>5. CountAt(w, p) \in 0 .. 15
  <2>1. \A i \in Nat : Bit(w, i) \in 0 .. 1
    BY DEF Bit
  <2>2. /\ 16 + 4 * p \in Nat /\ 17 + 4 * p \in Nat /\ 18 + 4 * p \in Nat /\ 19 + 4 * p \in Nat
    OBVIOUS
  <2>3. /\ Bit(w, 16 + 4 * p) \in 0 .. 1 /\ Bit(w, 17 + 4 * p) \in 0 .. 1
        /\ Bit(w, 18 + 4 * p) \in 0 .. 1 /\ Bit(w, 19 + 4 * p) \in 0 .. 1
    BY <2>1, <2>2
  <2> QED
    BY <2>3 DEF CountAt
<1> QED
  BY <1>2, <1>4, <1>5

\* A number without a count has none.
LEMMA CountRange ==
  ASSUME NEW w, NEW p
  PROVE  getApprovalCount(w, p) \in 0 .. 15 /\ (~HasCount(p) => getApprovalCount(w, p) = 0)
BY CountIs DEF getApprovalCount, HasCount

\* Bits outside its field do not change a status.
LEMMA StatusOutside ==
  ASSUME NEW v, NEW w, NEW bits, SameBut(v, w, bits),
         NEW p \in 0 .. 15, 2 * p \notin bits, 2 * p + 1 \notin bits
  PROVE  getProposalStatus(v, p) = getProposalStatus(w, p)
<1>1. 2 * p \in WordBits /\ 2 * p + 1 \in WordBits
  BY DEF WordBits
<1>2. Bit(v, 2 * p) = Bit(w, 2 * p) /\ Bit(v, 2 * p + 1) = Bit(w, 2 * p + 1)
  BY <1>1 DEF SameBut, Bit
<1> QED
  BY <1>2, StatusIs DEF StatusAt

\* Nor a count.
LEMMA CountOutside ==
  ASSUME NEW v, NEW w, NEW bits, SameBut(v, w, bits),
         NEW p \in 0 .. 3, \A i \in 16 + 4 * p .. 19 + 4 * p : i \notin bits
  PROVE  getApprovalCount(v, p) = getApprovalCount(w, p)
<1>1. \A i \in 16 + 4 * p .. 19 + 4 * p : i \in v <=> i \in w
  BY DEF SameBut, WordBits
<1>2. CountAt(v, p) = CountAt(w, p)
  BY <1>1 DEF CountAt, Bit
<1> QED
  BY <1>2, CountIs

-----------------------------------------------------------------------------
(* What the setters do *)

\* Pending is one bit of the status, which is 1 when the status was clear.
LEMMA PendingIs ==
  ASSUME NEW w \in Words, NEW p \in Nat
  PROVE  /\ setProposalPending(w, p) \in Words
         /\ p <= 15 => SameBut(setProposalPending(w, p), w, {2 * p})
         /\ p <= 15 /\ getProposalStatus(w, p) = 0 => getProposalStatus(setProposalPending(w, p), p) = 1
<1>1. CASE p > 15
  BY <1>1 DEF setProposalPending, HasStatus
<1>2. CASE p <= 15
  <2> DEFINE v == setProposalPending(w, p)
  <2>1. p \in 0 .. 15 /\ v = w \union {2 * p}
    BY <1>2, Shifts DEF setProposalPending, HasStatus
  <2>2. v \in Words /\ SameBut(v, w, {2 * p})
    BY <2>1 DEF Words, WordBits, SameBut
  <2>3. ASSUME getProposalStatus(w, p) = 0
        PROVE  getProposalStatus(v, p) = 1
    <3>1. StatusAt(w, p) = 0
      BY <2>3, <2>1, StatusIs
    <3>2. 2 * p + 1 \notin w
      BY <3>1 DEF StatusAt, Bit
    <3>3. StatusAt(v, p) = 1
      BY <2>1, <3>2 DEF StatusAt, Bit
    <3> QED
      BY <2>1, <3>3, StatusIs
  <2> QED
    BY <2>2, <2>3
<1> QED
  BY <1>1, <1>2

\* Executed is both bits of the status.
LEMMA ExecutedIs ==
  ASSUME NEW w \in Words, NEW p \in Nat
  PROVE  /\ setProposalExecuted(w, p) \in Words
         /\ p <= 15 => SameBut(setProposalExecuted(w, p), w, {2 * p, 2 * p + 1})
         /\ p <= 15 => getProposalStatus(setProposalExecuted(w, p), p) = 3
<1>1. CASE p > 15
  BY <1>1 DEF setProposalExecuted, HasStatus
<1>2. CASE p <= 15
  <2> DEFINE v == setProposalExecuted(w, p)
  <2>1. p \in 0 .. 15 /\ v = w \union {2 * p, 2 * p + 1}
    BY <1>2, StatusIs DEF setProposalExecuted, HasStatus
  <2>2. v \in Words /\ SameBut(v, w, {2 * p, 2 * p + 1})
    BY <2>1 DEF Words, WordBits, SameBut
  <2>3. StatusAt(v, p) = 3
    BY <2>1 DEF StatusAt, Bit
  <2> QED
    BY <2>1, <2>2, <2>3, StatusIs
<1> QED
  BY <1>1, <1>2

\* Approved is the higher bit of the status.
LEMMA ApprovedIs ==
  ASSUME NEW w \in Words, NEW p \in Nat
  PROVE  /\ setProposalApproved(w, p) \in Words
         /\ p <= 15 => SameBut(setProposalApproved(w, p), w, {2 * p, 2 * p + 1})
         /\ p <= 15 => getProposalStatus(setProposalApproved(w, p), p) = 2
<1>1. CASE p > 15
  BY <1>1 DEF setProposalApproved, HasStatus
<1>2. CASE p <= 15
  <2> DEFINE v == setProposalApproved(w, p)
  <2>1. p \in 0 .. 15 /\ v = (w \ {2 * p, 2 * p + 1}) \union {2 * p + 1}
    BY <1>2, StatusIs, Shifts DEF setProposalApproved, HasStatus
  <2>2. v \in Words /\ SameBut(v, w, {2 * p, 2 * p + 1})
    BY <2>1 DEF Words, WordBits, SameBut
  <2>3. StatusAt(v, p) = 2
    BY <2>1 DEF StatusAt, Bit
  <2> QED
    BY <2>1, <2>2, <2>3, StatusIs
<1> QED
  BY <1>1, <1>2

\* A number written as a count reads back.
LEMMA WithCountIs ==
  ASSUME NEW w \in Words, NEW p \in 0 .. 3, NEW n \in 0 .. 15
  PROVE  /\ withCount(w, p, n) \in Words
         /\ SameBut(withCount(w, p, n), w, 16 + 4 * p .. 19 + 4 * p)
         /\ getApprovalCount(withCount(w, p, n), p) = n
<1> DEFINE v == withCount(w, p, n)
<1>1. /\ CountBits(p) = 16 + 4 * p .. 19 + 4 * p /\ CountShift(p) = 16 + 4 * p
  BY CountIs, Shifts
<1>2. v = (w \ (16 + 4 * p .. 19 + 4 * p)) \union
            {i \in 16 + 4 * p .. 19 + 4 * p : (n \div 2 ^ (i - (16 + 4 * p))) % 2 = 1}
  BY <1>1 DEF withCount
<1> DEFINE Field == 16 + 4 * p .. 19 + 4 * p
           Ones == {i \in Field : (n \div 2 ^ (i - (16 + 4 * p))) % 2 = 1}
<1>0. Ones \subseteq Field
  OBVIOUS
<1>3. v \in Words /\ SameBut(v, w, Field)
  <2>1. Field \subseteq WordBits
    BY DEF WordBits
  <2>2. v = (w \ Field) \union Ones
    BY <1>2
  <2> HIDE DEF v, Field, Ones
  <2> QED
    BY <1>0, <2>1, <2>2 DEF Words, SameBut
<1>4. /\ 2 ^ 0 = 1 /\ 2 ^ 1 = 2 /\ 2 ^ 2 = 4 /\ 2 ^ 3 = 8
  OBVIOUS
<1>5. /\ (16 + 4 * p) - (16 + 4 * p) = 0 /\ (17 + 4 * p) - (16 + 4 * p) = 1
      /\ (18 + 4 * p) - (16 + 4 * p) = 2 /\ (19 + 4 * p) - (16 + 4 * p) = 3
  OBVIOUS
<1>6. /\ 16 + 4 * p \in v <=> (n \div 1) % 2 = 1
      /\ 17 + 4 * p \in v <=> (n \div 2) % 2 = 1
      /\ 18 + 4 * p \in v <=> (n \div 4) % 2 = 1
      /\ 19 + 4 * p \in v <=> (n \div 8) % 2 = 1
  BY <1>2, <1>4, <1>5
<1>7. /\ Bit(v, 16 + 4 * p) = (n \div 1) % 2 /\ Bit(v, 17 + 4 * p) = (n \div 2) % 2
      /\ Bit(v, 18 + 4 * p) = (n \div 4) % 2 /\ Bit(v, 19 + 4 * p) = (n \div 8) % 2
  <2>1. /\ (n \div 1) % 2 \in {0, 1} /\ (n \div 2) % 2 \in {0, 1}
        /\ (n \div 4) % 2 \in {0, 1} /\ (n \div 8) % 2 \in {0, 1}
    OBVIOUS
  <2> QED
    BY ONLY <1>6, <2>1 DEF Bit
<1>8. ((n \div 1) % 2) + 2 * ((n \div 2) % 2) + 4 * ((n \div 4) % 2) + 8 * ((n \div 8) % 2) = n
  OBVIOUS
<1>9. CountAt(v, p) = n
  BY ONLY <1>7, <1>8 DEF CountAt
<1> QED
  BY <1>3, <1>9, CountIs

\* A count goes up by one until it is full.
LEMMA IncrementIs ==
  ASSUME NEW w \in Words, NEW p \in Nat
  PROVE  /\ incrementApproval(w, p) \in Words
         /\ p > 3 => incrementApproval(w, p) = w
         /\ p <= 3 => SameBut(incrementApproval(w, p), w, 16 + 4 * p .. 19 + 4 * p)
         /\ p <= 3 => getApprovalCount(incrementApproval(w, p), p) <= getApprovalCount(w, p) + 1
         /\ p <= 3 /\ getApprovalCount(w, p) < 15 =>
              getApprovalCount(incrementApproval(w, p), p) = getApprovalCount(w, p) + 1
<1>1. CASE p > 3
  BY <1>1 DEF incrementApproval, HasCount
<1>2. CASE p <= 3
  <2>1. p \in 0 .. 3 /\ getApprovalCount(w, p) \in 0 .. 15 /\ HasCount(p)
    BY <1>2, CountIs DEF HasCount
  <2>2. CASE getApprovalCount(w, p) < 15
    <3>1. incrementApproval(w, p) = withCount(w, p, getApprovalCount(w, p) + 1)
      BY <2>1, <2>2 DEF incrementApproval
    <3>2. getApprovalCount(w, p) + 1 \in 0 .. 15
      BY <2>1, <2>2
    <3> DEFINE n == getApprovalCount(w, p) + 1
               v == incrementApproval(w, p)
    <3>3. /\ v \in Words /\ SameBut(v, w, 16 + 4 * p .. 19 + 4 * p)
          /\ getApprovalCount(v, p) = n
      BY <2>1, <3>1, <3>2, WithCountIs
    <3> QED
      BY <1>2, <2>1, <3>3
  <2>3. CASE getApprovalCount(w, p) = 15
    <3>1. incrementApproval(w, p) = w
      BY <2>1, <2>3 DEF incrementApproval
    <3> QED
      BY <1>2, <2>1, <2>3, <3>1 DEF SameBut
  <2> QED
    BY <2>1, <2>2, <2>3
<1> QED
  BY <1>1, <1>2

\* Unlocking a cycle sets its bit, if it has one.
LEMMA CycleIs ==
  ASSUME NEW w \in Words, NEW c \in Nat
  PROVE  /\ setCycleUnlocked(w, c) \in Words
         /\ HasFlag(c) => c \in 0 .. 15 /\ setCycleUnlocked(w, c) = w \union {c}
         /\ ~HasFlag(c) => setCycleUnlocked(w, c) = w
         /\ \E bits : SameBut(setCycleUnlocked(w, c), w, bits) /\ bits \subseteq 0 .. 15
<1>1. CASE HasFlag(c)
  <2>1. c \in 0 .. 15 /\ setCycleUnlocked(w, c) = w \union {c}
    BY <1>1 DEF setCycleUnlocked, HasFlag
  <2>2. setCycleUnlocked(w, c) \in Words /\ SameBut(setCycleUnlocked(w, c), w, {c})
    BY <2>1 DEF Words, WordBits, SameBut
  <2> QED
    BY <1>1, <2>1, <2>2
<1>2. CASE ~HasFlag(c)
  <2>1. setCycleUnlocked(w, c) = w
    BY <1>2 DEF setCycleUnlocked
  <2>2. SameBut(setCycleUnlocked(w, c), w, {})
    BY <2>1 DEF SameBut
  <2> QED
    BY <1>2, <2>1, <2>2
<1> QED
  BY <1>1, <1>2

\* The word after one more approval: the count goes up, and the status becomes approved
\* when the count reaches the threshold.
LEMMA WithCheckIs ==
  ASSUME NEW w \in Words, NEW p \in Nat, NEW c, c = incrementApprovalWithCheck(w, p, Threshold)
  PROVE  /\ c.newState \in Words /\ c.isApproved \in BOOLEAN
         /\ p > 3 => c.newState = w /\ ~c.isApproved
         /\ p <= 3 =>
              /\ SameBut(c.newState, w, {2 * p, 2 * p + 1} \union 16 + 4 * p .. 19 + 4 * p)
              /\ getApprovalCount(c.newState, p) <= getApprovalCount(w, p) + 1
              /\ getApprovalCount(w, p) < 15 =>
                   getApprovalCount(c.newState, p) = getApprovalCount(w, p) + 1
              /\ c.isApproved <=> getApprovalCount(c.newState, p) >= Threshold
              /\ getProposalStatus(c.newState, p) = IF c.isApproved THEN 2 ELSE getProposalStatus(w, p)
<1> DEFINE counted == incrementApproval(w, p)
           enough == getApprovalCount(counted, p) >= Threshold
<1>1. /\ c.newState = IF enough /\ ~isProposalApproved(counted, p)
                      THEN setProposalApproved(counted, p) ELSE counted
      /\ c.isApproved = enough
  BY DEF incrementApprovalWithCheck
<1>2. counted \in Words
  BY IncrementIs
<1>3. c.newState \in Words /\ c.isApproved \in BOOLEAN
  <2>1. setProposalApproved(counted, p) \in Words
    BY <1>2, ApprovedIs
  <2> HIDE DEF counted
  <2> QED
    BY <1>1, <1>2, <2>1
<1>4. CASE p > 3
  <2>1. counted = w /\ getApprovalCount(counted, p) = 0
    BY <1>4, IncrementIs, CountRange DEF HasCount
  <2>2. ~enough
    BY <2>1, PolicyConstants
  <2> HIDE DEF counted, enough
  <2>3. c.newState = w /\ ~c.isApproved
    BY <1>1, <2>1, <2>2
  <2> QED
    BY <1>3, <1>4, <2>3
<1>5. CASE p <= 3
  <2> DEFINE Field == {2 * p, 2 * p + 1} \union 16 + 4 * p .. 19 + 4 * p
             a == setProposalApproved(counted, p)
  <2>1. p \in 0 .. 3 /\ p \in 0 .. 15
    BY <1>5
  <2>2. /\ SameBut(counted, w, 16 + 4 * p .. 19 + 4 * p)
        /\ getApprovalCount(counted, p) <= getApprovalCount(w, p) + 1
        /\ getApprovalCount(w, p) < 15 => getApprovalCount(counted, p) = getApprovalCount(w, p) + 1
    BY <1>5, IncrementIs
  <2>3. SameBut(counted, w, Field)
    BY <2>2 DEF SameBut
  <2>4. getProposalStatus(counted, p) = getProposalStatus(w, p)
    <3>1. 2 * p \notin 16 + 4 * p .. 19 + 4 * p /\ 2 * p + 1 \notin 16 + 4 * p .. 19 + 4 * p
      BY <2>1
    <3> QED
      BY <2>1, <2>2, <3>1, StatusOutside
  <2>5. SameBut(a, counted, {2 * p, 2 * p + 1}) /\ getProposalStatus(a, p) = 2
    BY <1>2, <1>5, ApprovedIs
  <2>6. SameBut(a, w, Field)
    BY <2>2, <2>5 DEF SameBut
  <2>7. getApprovalCount(a, p) = getApprovalCount(counted, p)
    <3>1. \A i \in 16 + 4 * p .. 19 + 4 * p : i \notin {2 * p, 2 * p + 1}
      BY <2>1
    <3> QED
      BY <2>1, <2>5, <3>1, CountOutside
  <2>8. isProposalApproved(counted, p) => getProposalStatus(counted, p) = 2
    BY DEF isProposalApproved
  <2> HIDE DEF counted, a, Field
  <2>9. /\ SameBut(c.newState, w, Field)
        /\ getApprovalCount(c.newState, p) = getApprovalCount(counted, p)
    BY <1>1, <2>3, <2>6, <2>7 DEF a
  <2>10. c.isApproved <=> getApprovalCount(c.newState, p) >= Threshold
    BY <1>1, <2>9
  <2>11. getProposalStatus(c.newState, p) = IF c.isApproved THEN 2 ELSE getProposalStatus(w, p)
    BY <1>1, <2>4, <2>5, <2>8 DEF a
  <2> QED
    BY <1>3, <1>5, <2>2, <2>9, <2>10, <2>11 DEF Field
<1> QED
  BY <1>4, <1>5

-----------------------------------------------------------------------------
(* The inductive invariant *)

CreateHandlers ==
  [op : {"create.count", "create.insert", "create.write"}, word : Words, number : 0 .. MaxRows]
ApproveHandlers ==
  [op : {"approve.vault", "approve.row", "approve.write"}, word : Words,
   row : 1 .. MaxRows, who : Signers, seen : SUBSET Signers, done : BOOLEAN]
MarkHandlers == [op : {"mark.row", "mark.write"}, word : Words, row : 1 .. MaxRows]
UnlockHandlers == [op : {"unlock.write"}, word : Words, cycle : Due]

Typed ==
  /\ word \in Words
  /\ rows \in Seq(Row) /\ Len(rows) <= MaxRows
  /\ sessions \subseteq 1 .. Len(rows)
  /\ handler \in [Slots -> Handlers \union {Idle}]
  /\ calls \in [Numbers -> Nat]
  /\ approvers \in [1 .. MaxRows -> SUBSET Signers]
  /\ unlocked \subseteq Due
  /\ clean \in BOOLEAN

\* What a handler says of the rows when there are n of them: its number is not beyond the
\* next one, its row exists.
Placed(x, n) ==
  /\ x.op = "create.insert" => x.number >= 1 /\ x.number <= n + 1
  /\ x.op = "create.write" => x.number >= 1 /\ x.number <= n
  /\ x.op \in {"approve.vault", "approve.row", "approve.write", "mark.row", "mark.write"} =>
       x.row \in 1 .. n

\* A number is given when its row is not there yet; what is counted has a row.
Numbered ==
  /\ \A r \in 1 .. Len(rows) : rows[r].number <= r
  /\ \A p \in Numbers : calls[p] > 0 => p <= Len(rows)
  /\ \A h \in Slots : handler[h] # Idle => Placed(handler[h], Len(rows))

\* A word, stale or not, counts no approval that was not given.
Real(w, cs) == \A p \in Numbers : HasCount(p) => getApprovalCount(w, p) <= cs[p]

\* What a handler is about to write is backed by counted approvals.
Backed(x, rs, cs) ==
  /\ Real(x.word, cs)
  /\ x.op = "approve.row" /\ x.done => cs[rs[x.row].number] >= Threshold
  /\ x.op \in {"mark.row", "mark.write"} => cs[rs[x.row].number] >= Threshold

Counted ==
  NoSharedCounts =>
    /\ Real(word, calls)
    /\ \A r \in 1 .. Len(rows) :
         rows[r].status # "pending" \/ r \in sessions => calls[rows[r].number] >= Threshold
    /\ \A h \in Slots : handler[h] # Idle => Backed(handler[h], rows, calls)

\* What a handler that runs alone knows of the rows is still true.
Knows(x, rs) ==
  /\ x.op = "create.insert" => x.number = Len(rs) + 1
  /\ x.op = "create.write" =>
       x.number = Len(rs) /\ rs[x.number].status = "pending" /\ rs[x.number].approvals = {}
  /\ x.op \in {"approve.vault", "approve.row"} =>
       /\ rs[x.row].status = "pending" /\ x.who \notin rs[x.row].approvals
       /\ x.seen = rs[x.row].approvals

Alone ==
  clean =>
    /\ \A h, g \in Slots : handler[h] # Idle /\ handler[g] # Idle => h = g
    /\ \A r \in 1 .. Len(rows) : rows[r].number = r
    /\ \A h \in Slots : handler[h] # Idle => Knows(handler[h], rows)

\* The word w has the status and the count of number p's row.
Shows(w, p, status, approvals) ==
  /\ getProposalStatus(w, p) = Code(status)
  /\ HasCount(p) => getApprovalCount(w, p) = Cardinality(approvals)
ShowsRow(w, rs, r) == Shows(w, r, rs[r].status, rs[r].approvals)

\* It has the cycles that share no bit with a row.
ShowsCycles(w, n, us) ==
  \A c \in Due : HasFlag(c) /\ c \div 2 \notin 1 .. n => (isCycleUnlocked(w, c) <=> c \in us)

ShowsAll(w, rs, us) == (\A r \in 1 .. Len(rs) : ShowsRow(w, rs, r)) /\ ShowsCycles(w, Len(rs), us)

\* What the word w and the word of a handler x that runs alone say of the rows, at each
\* of its awaits.
Follows(x, w, rs, us) ==
  /\ x.op \in {"create.count", "create.insert", "mark.row", "unlock.write"} =>
       x.word = w /\ ShowsAll(w, rs, us)
  /\ x.op = "create.insert" => getProposalStatus(w, x.number) = 0
  /\ x.op = "create.write" =>
       /\ x.word = w /\ getProposalStatus(w, x.number) = 0 /\ getApprovalCount(w, x.number) = 0
       /\ ShowsCycles(w, Len(rs), us)
       /\ \A r \in 1 .. Len(rs) : r # x.number => ShowsRow(w, rs, r)
  /\ x.op = "approve.vault" => ShowsAll(w, rs, us)
  /\ x.op = "approve.row" =>
       /\ Shows(x.word, x.row, IF x.done THEN "approved" ELSE "pending", x.seen \union {x.who})
       /\ HasCount(x.row) /\ ~x.done => Cardinality(x.seen \union {x.who}) < Threshold
       /\ ShowsCycles(x.word, Len(rs), us)
       /\ \A r \in 1 .. Len(rs) : r # x.row => ShowsRow(x.word, rs, r)
  /\ x.op = "approve.write" => ShowsAll(x.word, rs, us)
  /\ x.op = "mark.write" =>
       /\ x.word = w /\ rs[x.row].status = "executed"
       /\ HasCount(x.row) => getApprovalCount(w, x.row) = Cardinality(rs[x.row].approvals)
       /\ ShowsCycles(w, Len(rs), us)
       /\ \A r \in 1 .. Len(rs) : r # x.row => ShowsRow(w, rs, r)

\* No two fields in use share a bit.
Unshared(n, us) == n <= 9 /\ \A c \in us : HasFlag(c) => c \div 2 \notin 1 .. n

\* A proposal that is still pending lacks approvals, and word and handlers say what the
\* rows and the unlocks say.
Followed ==
  /\ \A r \in 1 .. Len(rows) :
       rows[r].status = "pending" /\ HasCount(r) => Cardinality(rows[r].approvals) < Threshold
  /\ quiet => ShowsAll(word, rows, unlocked)
  /\ \A h \in Slots : handler[h] # Idle => Follows(handler[h], word, rows, unlocked)

Following == clean /\ Unshared(Len(rows), unlocked) => Followed

IInv == Typed /\ Numbered /\ Counted /\ Alone /\ Following
-----------------------------------------------------------------------------
(* Handlers and rows *)

\* The fields of a handler, by what it does.
LEMMA Kinds ==
  ASSUME NEW x \in Handlers
  PROVE  /\ x.word \in Words
         /\ x.op \in {"create.count", "create.insert", "create.write"} => x \in CreateHandlers
         /\ x.op \in {"approve.vault", "approve.row", "approve.write"} => x \in ApproveHandlers
         /\ x.op \in {"mark.row", "mark.write"} => x \in MarkHandlers
         /\ x.op = "unlock.write" => x \in UnlockHandlers
BY DEF Handlers, CreateHandlers, ApproveHandlers, MarkHandlers, UnlockHandlers

\* A handler under way is one, and Idle is none.
LEMMA Active ==
  ASSUME Typed, NEW h \in Slots, handler[h] # Idle
  PROVE  handler[h] \in Handlers
BY DEF Typed

\* A slot whose handler moves on, begins or ends leaves the other slots alone.
LEMMA Moved ==
  ASSUME Typed, NEW h \in Slots, NEW x \in Handlers \union {Idle}, Goto(h, x)
  PROVE  /\ handler' \in [Slots -> Handlers \union {Idle}]
         /\ handler'[h] = x
         /\ \A g \in Slots : g # h => handler'[g] = handler[g]
BY DEF Typed, Goto

\* A row that exists.
LEMMA RowIs ==
  ASSUME Typed, NEW r \in 1 .. Len(rows)
  PROVE  /\ rows[r] \in Row /\ rows[r].number \in Numbers /\ rows[r].number \in Nat
         /\ rows[r].status \in RowStatuses /\ rows[r].approvals \subseteq Signers
         /\ IsFiniteSet(rows[r].approvals)
<1>1. rows[r] \in Row
  BY DEF Typed
<1>2. /\ rows[r].number \in Numbers /\ rows[r].status \in RowStatuses
      /\ rows[r].approvals \subseteq Signers
  BY <1>1 DEF Row
<1>3. MaxRows \in Nat /\ IsFiniteSet(Signers)
  BY PolicyConstants
<1>4. rows[r].number \in Nat
  BY <1>2, <1>3 DEF Numbers
<1> QED
  BY <1>1, <1>2, <1>3, <1>4, FS_Subset

\* Row i has the status st and the approvals ap now; no other row has changed.
RowWritten(i, st, ap) ==
  /\ rows' \in Seq(Row) /\ Len(rows') = Len(rows)
  /\ rows'[i].number = rows[i].number /\ rows'[i].status = st /\ rows'[i].approvals = ap
  /\ \A r \in 1 .. Len(rows) : r # i => rows'[r] = rows[r]

\* A row as a whole, replaced.
LEMMA RowReplaced ==
  ASSUME Typed, NEW i \in 1 .. Len(rows), NEW st \in RowStatuses, NEW ap \in SUBSET Signers,
         rows' = [rows EXCEPT ![i] = [number |-> rows[i].number, status |-> st, approvals |-> ap]]
  PROVE  RowWritten(i, st, ap)
<1> DEFINE new == [number |-> rows[i].number, status |-> st, approvals |-> ap]
<1>1. new \in Row
  BY RowIs DEF Row
<1>2. rows \in Seq(Row)
  BY DEF Typed
<1>3. rows' = [rows EXCEPT ![i] = new]
  OBVIOUS
<1>4. new.number = rows[i].number /\ new.status = st /\ new.approvals = ap
  OBVIOUS
<1> HIDE DEF new
<1>5. /\ rows' \in Seq(Row) /\ Len(rows') = Len(rows)
      /\ rows'[i] = new /\ \A r \in 1 .. Len(rows) : r # i => rows'[r] = rows[r]
  BY <1>1, <1>2, <1>3
<1> QED
  BY <1>4, <1>5 DEF RowWritten

\* A row whose status is set.
LEMMA StatusSet ==
  ASSUME Typed, NEW i \in 1 .. Len(rows), NEW st \in RowStatuses,
         rows' = [rows EXCEPT ![i].status = st]
  PROVE  RowWritten(i, st, rows[i].approvals)
<1>1. PICK x : x = [rows[i] EXCEPT !.status = st]
  OBVIOUS
<1>2. rows[i] \in Row
  BY RowIs
<1>3. x = [number |-> rows[i].number, status |-> st, approvals |-> rows[i].approvals]
  BY <1>1, <1>2 DEF Row
<1>4. rows' = [rows EXCEPT ![i] = x]
  BY <1>1
<1> QED
  BY <1>3, <1>4, RowReplaced, RowIs

\* A row whose approvals and status are set.
LEMMA ApprovalsSet ==
  ASSUME Typed, NEW i \in 1 .. Len(rows), NEW st \in RowStatuses, NEW ap \in SUBSET Signers,
         rows' = [rows EXCEPT ![i].approvals = ap, ![i].status = st]
  PROVE  RowWritten(i, st, ap)
<1>1. PICK a : a = [rows EXCEPT ![i].approvals = ap]
  OBVIOUS
<1>2. rows' = [a EXCEPT ![i].status = st]
  BY <1>1
<1>3. PICK x : x = [rows[i] EXCEPT !.approvals = ap]
  OBVIOUS
<1>4. rows[i] \in Row
  BY RowIs
<1>5. x = [number |-> rows[i].number, status |-> rows[i].status, approvals |-> ap]
  BY <1>3, <1>4 DEF Row
<1>6. a = [rows EXCEPT ![i] = x]
  BY <1>1, <1>3
<1>7. PICK y : y = [x EXCEPT !.status = st]
  OBVIOUS
<1>8. y = [number |-> rows[i].number, status |-> st, approvals |-> ap]
  BY <1>5, <1>7
<1>9. rows \in Seq(Row)
  BY DEF Typed
<1>10. a[i] = x
  BY <1>6, <1>9
<1>11. rows' = [a EXCEPT ![i] = y]
  BY <1>2, <1>7, <1>10
<1>12. rows' = [rows EXCEPT ![i] = y]
  BY <1>6, <1>9, <1>11
<1> QED
  BY <1>8, <1>12, RowReplaced

-----------------------------------------------------------------------------
(* What each await does *)

CreateAt(y, op, n) == [op |-> op, word |-> y.word, number |-> n]
ApproveAt(y, op, w, d) ==
  [op |-> op, word |-> w, row |-> y.row, who |-> y.who, seen |-> y.seen, done |-> d]
MarkAt(y, op) == [op |-> op, word |-> y.word, row |-> y.row]

\* A number is taken if its status bits are clear in the word read before.
LEMMA CreateCountIs ==
  ASSUME Typed, NEW h \in Slots, CreateCount(h)
  PROVE  /\ handler[h] # Idle /\ handler[h] \in CreateHandlers /\ handler[h].op = "create.count"
         /\ \/ Goto(h, Idle)
            \/ /\ Len(rows) + 1 <= MaxRows
               /\ getProposalStatus(handler[h].word, Len(rows) + 1) = 0
               /\ Goto(h, CreateAt(handler[h], "create.insert", Len(rows) + 1))
         /\ UNCHANGED <<word, rows, sessions, history>>
<1>1. handler[h] # Idle /\ handler[h].op = "create.count"
  BY DEF CreateCount, At
<1>2. handler[h] \in CreateHandlers
  BY <1>1, Active, Kinds
<1>3. PICK y : y = handler[h]
  OBVIOUS
<1>4. PICK x : x = [y EXCEPT !.op = "create.insert"]
  OBVIOUS
<1>5. x = [op |-> "create.insert", word |-> y.word, number |-> y.number]
  BY <1>2, <1>3, <1>4 DEF CreateHandlers
<1>6. PICK z : z = [x EXCEPT !.number = Len(rows) + 1]
  OBVIOUS
<1>7. z = CreateAt(y, "create.insert", Len(rows) + 1)
  BY <1>5, <1>6 DEF CreateAt
<1>8. Len(rows) \in Nat /\ MaxRows \in Nat
  BY PolicyConstants DEF Typed
<1>9. \/ Goto(h, Idle)
      \/ /\ ~(Len(rows) + 1 > MaxRows) /\ getProposalStatus(y.word, Len(rows) + 1) = 0
         /\ Goto(h, z)
  BY <1>3, <1>4, <1>6 DEF CreateCount, Return, Goto
<1> QED
  BY <1>1, <1>2, <1>3, <1>7, <1>8, <1>9 DEF CreateCount

\* The new row is the last one; its number was counted before.
LEMMA CreateInsertIs ==
  ASSUME Typed, Numbered, NEW h \in Slots, CreateInsert(h)
  PROVE  /\ handler[h] # Idle /\ handler[h] \in CreateHandlers /\ handler[h].op = "create.insert"
         /\ handler[h].number \in Numbers /\ handler[h].number <= Len(rows) + 1
         /\ Goto(h, CreateAt(handler[h], "create.write", handler[h].number))
         /\ rows' \in Seq(Row) /\ Len(rows') = Len(rows) + 1 /\ Len(rows') <= MaxRows
         /\ rows'[Len(rows) + 1] =
              [number |-> handler[h].number, status |-> "pending", approvals |-> {}]
         /\ \A r \in 1 .. Len(rows) : rows'[r] = rows[r]
         /\ UNCHANGED <<word, sessions, history>>
<1>1. handler[h] # Idle /\ handler[h].op = "create.insert"
  BY DEF CreateInsert, At
<1>2. handler[h] \in CreateHandlers
  BY <1>1, Active, Kinds
<1>3. PICK y : y = handler[h]
  OBVIOUS
<1>4. PICK x : x = [y EXCEPT !.op = "create.write"]
  OBVIOUS
<1>5. x = CreateAt(y, "create.write", y.number)
  BY <1>2, <1>3, <1>4 DEF CreateHandlers, CreateAt
<1>6. Goto(h, x)
  BY <1>3, <1>4 DEF CreateInsert
<1>7. y.number >= 1 /\ y.number <= Len(rows) + 1
  BY <1>1, <1>3 DEF Numbered, Placed
<1>8. y.number \in Numbers /\ MaxRows \in Nat
  BY <1>2, <1>3, <1>7, PolicyConstants DEF CreateHandlers, Numbers
<1> DEFINE new == [number |-> y.number, status |-> "pending", approvals |-> {}]
<1>9. new \in Row
  BY <1>8 DEF Row, RowStatuses
<1>10. rows \in Seq(Row) /\ Len(rows) < MaxRows /\ rows' = Append(rows, new)
  BY <1>3 DEF Typed, CreateInsert
<1> HIDE DEF new
<1>11. /\ rows' \in Seq(Row) /\ Len(rows') = Len(rows) + 1 /\ Len(rows') <= MaxRows
       /\ rows'[Len(rows) + 1] = new /\ \A r \in 1 .. Len(rows) : rows'[r] = rows[r]
  BY <1>8, <1>9, <1>10
<1> QED
  BY <1>1, <1>2, <1>3, <1>5, <1>6, <1>7, <1>8, <1>11 DEF new, CreateInsert

\* The row and the number an approval or an execution is about.
LEMMA RowOfHandler ==
  ASSUME Typed, Numbered, NEW h \in Slots, handler[h] # Idle,
         handler[h].op \in {"approve.vault", "approve.row", "approve.write", "mark.row", "mark.write"}
  PROVE  /\ handler[h].row \in 1 .. Len(rows)
         /\ rows[handler[h].row] \in Row /\ rows[handler[h].row].number \in Numbers
         /\ rows[handler[h].row].number \in Nat /\ rows[handler[h].row].number <= handler[h].row
<1>1. handler[h].row \in 1 .. Len(rows)
  BY DEF Numbered, Placed
<1>2. rows[handler[h].row].number <= handler[h].row
  BY <1>1 DEF Numbered
<1> QED
  BY <1>1, <1>2, RowIs

\* An approval that the vault's word admits is counted.
LEMMA ApproveVaultIs ==
  ASSUME Typed, Numbered, NEW h \in Slots, ApproveVault(h)
  PROVE  LET y == handler[h]
             p == rows[y.row].number
         IN  /\ y # Idle /\ y \in ApproveHandlers /\ y.op = "approve.vault"
             /\ \/ Goto(h, Idle) /\ UNCHANGED <<calls, approvers>>
                \/ \E c : /\ isProposalPending(word, p)
                          /\ c = incrementApprovalWithCheck(word, p, Threshold)
                          /\ Goto(h, ApproveAt(y, "approve.row", c.newState, c.isApproved))
                          /\ calls' = [calls EXCEPT ![p] = @ + 1]
                          /\ approvers' = [approvers EXCEPT ![y.row] = @ \union {y.who}]
             /\ UNCHANGED <<word, rows, sessions, unlocked, clean>>
<1>1. handler[h] # Idle /\ handler[h].op = "approve.vault"
  BY DEF ApproveVault, At
<1>2. handler[h] \in ApproveHandlers
  BY <1>1, Active, Kinds
<1>3. PICK y : y = handler[h]
  OBVIOUS
<1>4. PICK p : p = rows[y.row].number
  OBVIOUS
<1>5. PICK c : c = incrementApprovalWithCheck(word, p, Threshold)
  OBVIOUS
<1>6. PICK x : x = [y EXCEPT !.op = "approve.row"]
  OBVIOUS
<1>7. x = ApproveAt(y, "approve.row", y.word, y.done)
  BY <1>2, <1>3, <1>6 DEF ApproveHandlers, ApproveAt
<1>8. PICK z : z = [x EXCEPT !.word = c.newState]
  OBVIOUS
<1>9. z = ApproveAt(y, "approve.row", c.newState, y.done)
  BY <1>7, <1>8 DEF ApproveAt
<1>10. PICK u : u = [z EXCEPT !.done = c.isApproved]
  OBVIOUS
<1>11. u = ApproveAt(y, "approve.row", c.newState, c.isApproved)
  BY <1>9, <1>10 DEF ApproveAt
<1>12. \/ Goto(h, Idle) /\ UNCHANGED <<calls, approvers>>
       \/ /\ isProposalPending(word, p)
          /\ Goto(h, u)
          /\ calls' = [calls EXCEPT ![p] = @ + 1]
          /\ approvers' = [approvers EXCEPT ![y.row] = @ \union {y.who}]
  BY <1>3, <1>4, <1>5, <1>6, <1>8, <1>10 DEF ApproveVault, Return, Goto
<1>13. UNCHANGED <<word, rows, sessions, unlocked, clean>>
  BY DEF ApproveVault
<1> QED
  BY <1>1, <1>2, <1>3, <1>4, <1>5, <1>11, <1>12, <1>13

\* The row gets the approvals read at the start and the signer's.
LEMMA ApproveRowIs ==
  ASSUME Typed, Numbered, NEW h \in Slots, ApproveRow(h)
  PROVE  LET y == handler[h]
         IN  /\ y # Idle /\ y \in ApproveHandlers /\ y.op = "approve.row"
             /\ Goto(h, ApproveAt(y, "approve.write", y.word, y.done))
             /\ RowWritten(y.row, IF y.done THEN "approved" ELSE "pending", y.seen \union {y.who})
             /\ UNCHANGED <<word, sessions, history>>
<1>1. handler[h] # Idle /\ handler[h].op = "approve.row"
  BY DEF ApproveRow, At
<1>2. handler[h] \in ApproveHandlers
  BY <1>1, Active, Kinds
<1>3. PICK y : y = handler[h]
  OBVIOUS
<1>4. PICK x : x = [y EXCEPT !.op = "approve.write"]
  OBVIOUS
<1>5. x = ApproveAt(y, "approve.write", y.word, y.done)
  BY <1>2, <1>3, <1>4 DEF ApproveHandlers, ApproveAt
<1>6. Goto(h, x)
  BY <1>3, <1>4 DEF ApproveRow
<1> DEFINE st == IF y.done THEN "approved" ELSE "pending"
           ap == y.seen \union {y.who}
<1>7. st \in RowStatuses /\ ap \in SUBSET Signers
  BY <1>2, <1>3 DEF ApproveHandlers, RowStatuses
<1>8. y.row \in 1 .. Len(rows)
  BY <1>1, <1>3, RowOfHandler
<1>9. rows' = [rows EXCEPT ![y.row].approvals = ap, ![y.row].status = st]
  BY <1>3 DEF ApproveRow
<1> HIDE DEF st, ap
<1>10. RowWritten(y.row, st, ap)
  BY <1>7, <1>8, <1>9, ApprovalsSet
<1> QED
  BY <1>1, <1>2, <1>3, <1>5, <1>6, <1>10 DEF st, ap, ApproveRow

\* The row of an executed proposal, whatever its status was.
LEMMA MarkRowIs ==
  ASSUME Typed, Numbered, NEW h \in Slots, MarkRow(h)
  PROVE  LET y == handler[h]
         IN  /\ y # Idle /\ y \in MarkHandlers /\ y.op = "mark.row" /\ y.row \in 1 .. Len(rows)
             /\ Goto(h, MarkAt(y, "mark.write"))
             /\ RowWritten(y.row, "executed", rows[y.row].approvals)
             /\ UNCHANGED <<word, sessions, history>>
<1>1. handler[h] # Idle /\ handler[h].op = "mark.row"
  BY DEF MarkRow, At
<1>2. handler[h] \in MarkHandlers
  BY <1>1, Active, Kinds
<1>3. PICK y : y = handler[h]
  OBVIOUS
<1>4. PICK x : x = [y EXCEPT !.op = "mark.write"]
  OBVIOUS
<1>5. x = MarkAt(y, "mark.write")
  BY <1>2, <1>3, <1>4 DEF MarkHandlers, MarkAt
<1>6. Goto(h, x)
  BY <1>3, <1>4 DEF MarkRow
<1>7. y.row \in 1 .. Len(rows) /\ "executed" \in RowStatuses
  BY <1>1, <1>3, RowOfHandler DEF RowStatuses
<1>8. rows' = [rows EXCEPT ![y.row].status = "executed"]
  BY <1>3 DEF MarkRow
<1>9. RowWritten(y.row, "executed", rows[y.row].approvals)
  BY <1>7, <1>8, StatusSet
<1> QED
  BY <1>1, <1>2, <1>3, <1>5, <1>6, <1>7, <1>9 DEF MarkRow

\* The handlers as they begin.
NewCreate(x) == x = [op |-> "create.count", word |-> word, number |-> 0]
NewApprove(x) ==
  \E r \in 1 .. Len(rows), s \in Signers :
    /\ rows[r].number \in Watched /\ Approvable(r, s)
    /\ x = [op |-> "approve.vault", word |-> {}, row |-> r, who |-> s,
            seen |-> rows[r].approvals, done |-> FALSE]
NewMark(x) == \E r \in sessions : /\ sessions' = sessions \ {r}
                                  /\ x = [op |-> "mark.row", word |-> word, row |-> r]
NewUnlock(x) == \E c \in Due : x = [op |-> "unlock.write", word |-> word, cycle |-> c]

\* A handler begins in a slot that was idle.
Began(h, x) ==
  /\ handler[h] = Idle /\ x \in Handlers /\ Goto(h, x)
  /\ clean' = (clean /\ \A g \in Slots : handler[g] = Idle)
  /\ UNCHANGED <<word, rows, calls, approvers, unlocked>>
  /\ \/ (NewCreate(x) \/ NewApprove(x) \/ NewUnlock(x)) /\ UNCHANGED sessions
     \/ NewMark(x)

\* What the steps that begin a handler have in common.
LEMMA BeginIs ==
  ASSUME Typed, NEW h \in Slots,
         \/ CreateBegin(h)
         \/ \E r \in RowIds, s \in Signers : ApproveBegin(h, r, s)
         \/ \E r \in RowIds : MarkBegin(h, r)
         \/ \E c \in Due : UnlockBegin(h, c)
  PROVE  \E x : Began(h, x)
<1>1. RowIds = 1 .. Len(rows)
  BY DEF RowIds, Typed
<1>2. MaxRows \in Nat /\ Len(rows) \in Nat /\ Len(rows) <= MaxRows
  BY PolicyConstants DEF Typed
<1>3. CASE CreateBegin(h)
  <2> DEFINE x == [op |-> "create.count", word |-> word, number |-> 0]
  <2>1. x \in CreateHandlers
    BY <1>2 DEF CreateHandlers, Typed
  <2>2. x \in Handlers
    BY <2>1 DEF CreateHandlers, Handlers
  <2>3. Began(h, x)
    BY <1>3, <2>2, Zenon DEF Began, CreateBegin, Begin, Goto, NewCreate
  <2> QED
    BY <2>3
<1>4. ASSUME NEW r \in RowIds, NEW s \in Signers, ApproveBegin(h, r, s)
      PROVE  \E x : Began(h, x)
  <2> DEFINE x == [op |-> "approve.vault", word |-> {}, row |-> r, who |-> s,
                   seen |-> rows[r].approvals, done |-> FALSE]
  <2>1. r \in 1 .. MaxRows /\ rows[r].approvals \in SUBSET Signers /\ r \in 1 .. Len(rows)
    BY <1>1, <1>2, RowIs
  <2>2. {} \in Words
    BY DEF Words
  <2>3. x \in Handlers
    BY <2>1, <2>2 DEF Handlers
  <2>4. NewApprove(x)
    BY <1>4, <2>1, Zenon DEF NewApprove, ApproveBegin
  <2> HIDE DEF x
  <2>5. Began(h, x)
    BY <1>4, <2>3, <2>4, Zenon DEF Began, ApproveBegin, Begin, Goto, x
  <2> QED
    BY <2>5
<1>5. ASSUME NEW r \in RowIds, MarkBegin(h, r)
      PROVE  \E x : Began(h, x)
  <2> DEFINE x == [op |-> "mark.row", word |-> word, row |-> r]
  <2>1. x \in MarkHandlers
    BY <1>1, <1>2 DEF MarkHandlers, Typed
  <2>2. x \in Handlers
    BY <2>1 DEF MarkHandlers, Handlers
  <2>3. NewMark(x)
    BY <1>5, Zenon DEF NewMark, MarkBegin
  <2> HIDE DEF x
  <2>4. Began(h, x)
    BY <1>5, <2>2, <2>3, Zenon DEF Began, MarkBegin, Begin, Goto, x
  <2> QED
    BY <2>4
<1>6. ASSUME NEW c \in Due, UnlockBegin(h, c)
      PROVE  \E x : Began(h, x)
  <2> DEFINE x == [op |-> "unlock.write", word |-> word, cycle |-> c]
  <2>1. x \in UnlockHandlers
    BY DEF UnlockHandlers, Typed
  <2>2. x \in Handlers
    BY <2>1 DEF UnlockHandlers, Handlers
  <2>3. NewUnlock(x)
    BY Zenon DEF NewUnlock
  <2> HIDE DEF x
  <2>4. Began(h, x)
    BY <1>6, <2>2, <2>3, Zenon DEF Began, UnlockBegin, Begin, Goto, x
  <2> QED
    BY <2>4
<1> QED
  BY <1>3, <1>4, <1>5, <1>6

\* A handler writes the word and ends.
Wrote(h, new) ==
  /\ handler[h] # Idle /\ Goto(h, Idle) /\ word' = new /\ new \in Words
  /\ UNCHANGED <<rows, sessions, calls, approvers, clean>>

\* The four statements that write the word, and what they write.
LEMMA WriteIs ==
  ASSUME Typed, Numbered, NEW h \in Slots,
         CreateWrite(h) \/ ApproveWrite(h) \/ MarkWrite(h) \/ UnlockWrite(h)
  PROVE  LET y == handler[h]
         IN  \/ /\ y \in CreateHandlers /\ y.op = "create.write" /\ y.number \in Numbers
                /\ y.number <= Len(rows)
                /\ Wrote(h, setProposalPending(y.word, y.number)) /\ UNCHANGED unlocked
             \/ /\ y \in ApproveHandlers /\ y.op = "approve.write"
                /\ Wrote(h, y.word) /\ UNCHANGED unlocked
             \/ /\ y \in MarkHandlers /\ y.op = "mark.write"
                /\ Wrote(h, setProposalExecuted(y.word, rows[y.row].number)) /\ UNCHANGED unlocked
             \/ /\ y \in UnlockHandlers /\ y.op = "unlock.write"
                /\ Wrote(h, setCycleUnlocked(y.word, y.cycle))
                /\ unlocked' = unlocked \union {y.cycle}
<1>0. PICK y : y = handler[h]
  OBVIOUS
<1>1. CASE CreateWrite(h)
  <2>1. y # Idle /\ y.op = "create.write"
    BY <1>0, <1>1 DEF CreateWrite, At
  <2>2. y \in CreateHandlers /\ y.word \in Words
    BY <1>0, <2>1, Active, Kinds
  <2>3. y.number >= 1 /\ y.number <= Len(rows)
    BY <1>0, <2>1 DEF Numbered, Placed
  <2>4. y.number \in Numbers /\ y.number \in Nat
    BY <2>2, <2>3, PolicyConstants DEF CreateHandlers, Numbers
  <2>5. Wrote(h, setProposalPending(y.word, y.number)) /\ UNCHANGED unlocked
    BY <1>0, <1>1, <2>1, <2>2, <2>4, PendingIs DEF CreateWrite, WriteWord, Return, Goto, Wrote
  <2> QED
    BY <1>0, <2>1, <2>2, <2>3, <2>4, <2>5
<1>2. CASE ApproveWrite(h)
  <2>1. y # Idle /\ y.op = "approve.write"
    BY <1>0, <1>2 DEF ApproveWrite, At
  <2>2. y \in ApproveHandlers /\ y.word \in Words
    BY <1>0, <2>1, Active, Kinds
  <2>3. Wrote(h, y.word) /\ UNCHANGED unlocked
    BY <1>0, <1>2, <2>1, <2>2 DEF ApproveWrite, WriteWord, Return, Goto, Wrote
  <2> QED
    BY <1>0, <2>1, <2>2, <2>3
<1>3. CASE MarkWrite(h)
  <2>1. y # Idle /\ y.op = "mark.write"
    BY <1>0, <1>3 DEF MarkWrite, At
  <2>2. y \in MarkHandlers /\ y.word \in Words
    BY <1>0, <2>1, Active, Kinds
  <2>3. rows[y.row].number \in Nat
    BY <1>0, <2>1, RowOfHandler
  <2>4. Wrote(h, setProposalExecuted(y.word, rows[y.row].number)) /\ UNCHANGED unlocked
    BY <1>0, <1>3, <2>1, <2>2, <2>3, ExecutedIs DEF MarkWrite, WriteWord, Return, Goto, Wrote
  <2> QED
    BY <1>0, <2>1, <2>2, <2>4
<1>4. CASE UnlockWrite(h)
  <2>1. y # Idle /\ y.op = "unlock.write"
    BY <1>0, <1>4 DEF UnlockWrite, At
  <2>2. y \in UnlockHandlers /\ y.word \in Words
    BY <1>0, <2>1, Active, Kinds
  <2>3. y.cycle \in Nat
    BY <2>2, PolicyConstants DEF UnlockHandlers
  <2>4. /\ Wrote(h, setCycleUnlocked(y.word, y.cycle))
        /\ unlocked' = unlocked \union {y.cycle}
    BY <1>0, <1>4, <2>1, <2>2, <2>3, CycleIs DEF UnlockWrite, WriteWord, Return, Goto, Wrote
  <2> QED
    BY <1>0, <2>1, <2>2, <2>4
<1> QED
  BY <1>1, <1>2, <1>3, <1>4

\* Steps without a handler, or of all of them.
Outside ==
  \/ \E r \in 1 .. Len(rows) : OpenSession(r)
  \/ \E r \in 1 .. Len(rows) : RowWritten(r, "pending", rows[r].approvals) /\ ConfirmCreate(r)
  \/ Restart
  \/ UNCHANGED vars

\* The steps, by what they do.
LEMMA Steps ==
  ASSUME Typed, [Next]_vars
  PROVE  \/ \E h \in Slots :
              \/ \E x : Began(h, x)
              \/ CreateCount(h) \/ CreateInsert(h)
              \/ ApproveVault(h) \/ ApproveRow(h) \/ MarkRow(h)
              \/ CreateWrite(h) \/ ApproveWrite(h) \/ MarkWrite(h) \/ UnlockWrite(h)
         \/ Outside
<1>1. RowIds = 1 .. Len(rows)
  BY DEF RowIds, Typed
<1>2. ASSUME NEW h \in Slots, Create(h) \/ Approve(h) \/ Execute(h) \/ Unlock(h)
      PROVE  \/ \E x : Began(h, x)
             \/ CreateCount(h) \/ CreateInsert(h)
             \/ ApproveVault(h) \/ ApproveRow(h) \/ MarkRow(h)
             \/ CreateWrite(h) \/ ApproveWrite(h) \/ MarkWrite(h) \/ UnlockWrite(h)
  BY <1>2, BeginIs, Zenon DEF Create, Approve, Execute, Unlock
<1>3. ASSUME NEW r \in RowIds, ConfirmCreate(r)
      PROVE  RowWritten(r, "pending", rows[r].approvals)
  BY <1>1, <1>3, StatusSet DEF ConfirmCreate, RowStatuses
<1> QED
  BY <1>1, <1>2, <1>3, Zenon DEF Next, Outside

-----------------------------------------------------------------------------
(* Types and numbers *)

\* The sessions of rows that exist.
LEMMA SessionsIn ==
  ASSUME Typed, sessions' \subseteq sessions, Len(rows') >= Len(rows), rows' \in Seq(Row)
  PROVE  sessions' \subseteq 1 .. Len(rows')
<1>1. Len(rows) \in Nat /\ Len(rows') \in Nat /\ sessions \subseteq 1 .. Len(rows)
  BY DEF Typed
<1>2. 1 .. Len(rows) \subseteq 1 .. Len(rows')
  BY <1>1
<1> QED
  BY <1>1, <1>2

\* Every step keeps what the variables hold.
LEMMA TypedStep == Typed /\ Numbered /\ [Next]_vars => Typed'
<1> SUFFICES ASSUME Typed, Numbered, [Next]_vars PROVE Typed'
  OBVIOUS
<1>0. MaxRows \in Nat /\ IsFiniteSet(Signers) /\ Len(rows) \in Nat
  BY PolicyConstants DEF Typed
<1>1. ASSUME NEW h \in Slots, NEW x, Began(h, x)
      PROVE  Typed'
  <2>1. handler' \in [Slots -> Handlers \union {Idle}]
    BY <1>1, Moved DEF Began
  <2>2. sessions' \subseteq sessions
    BY <1>1 DEF Began, NewMark
  <2>3. clean' \in BOOLEAN
    BY <1>1, Zenon DEF Began, Typed
  <2> QED
    BY <1>1, <2>1, <2>2, <2>3 DEF Typed, Began
<1>2. ASSUME NEW h \in Slots, CreateCount(h)
      PROVE  Typed'
  <2> DEFINE x == CreateAt(handler[h], "create.insert", Len(rows) + 1)
  <2>1. Goto(h, Idle) \/ (Goto(h, x) /\ Len(rows) + 1 <= MaxRows)
    BY <1>2, CreateCountIs
  <2>2. handler[h] \in CreateHandlers /\ UNCHANGED <<word, rows, sessions, history>>
    BY <1>2, CreateCountIs
  <2>3. Len(rows) + 1 <= MaxRows => x \in CreateHandlers
    BY <1>0, <2>2 DEF CreateHandlers, CreateAt
  <2>4. Len(rows) + 1 <= MaxRows => x \in Handlers
    BY <2>3 DEF CreateHandlers, Handlers
  <2> HIDE DEF x
  <2>5. handler' \in [Slots -> Handlers \union {Idle}]
    BY <2>1, <2>4, Moved
  <2> QED
    BY <2>2, <2>5 DEF Typed, history
<1>3. ASSUME NEW h \in Slots, CreateInsert(h)
      PROVE  Typed'
  <2> DEFINE x == CreateAt(handler[h], "create.write", handler[h].number)
  <2>1. /\ Goto(h, x) /\ handler[h] \in CreateHandlers /\ handler[h].number \in Numbers
        /\ rows' \in Seq(Row) /\ Len(rows') = Len(rows) + 1 /\ Len(rows') <= MaxRows
        /\ UNCHANGED <<word, sessions, history>>
    BY <1>3, CreateInsertIs
  <2>2. x \in CreateHandlers
    BY <2>1 DEF CreateHandlers, CreateAt
  <2>3. x \in Handlers
    BY <2>2 DEF CreateHandlers, Handlers
  <2> HIDE DEF x
  <2>4. handler' \in [Slots -> Handlers \union {Idle}]
    BY <2>1, <2>3, Moved
  <2>5. sessions' \subseteq 1 .. Len(rows')
    BY <1>0, <2>1, SessionsIn
  <2> QED
    BY <2>1, <2>4, <2>5 DEF Typed, history
<1>4. ASSUME NEW h \in Slots, ApproveVault(h)
      PROVE  Typed'
  <2>1. PICK y : y = handler[h]
    OBVIOUS
  <2>2. PICK p : p = rows[y.row].number
    OBVIOUS
  <2>3. /\ y # Idle /\ y \in ApproveHandlers /\ y.op = "approve.vault"
        /\ UNCHANGED <<word, rows, sessions, unlocked, clean>>
    BY <1>4, <2>1, ApproveVaultIs
  <2>4. p \in Numbers /\ p \in Nat
    BY <2>1, <2>2, <2>3, RowOfHandler
  <2>5. CASE Goto(h, Idle) /\ UNCHANGED <<calls, approvers>>
    <3>1. handler' \in [Slots -> Handlers \union {Idle}]
      BY <2>5, Moved
    <3> QED
      BY <2>3, <2>5, <3>1 DEF Typed
  <2>6. ASSUME NEW c, c = incrementApprovalWithCheck(word, p, Threshold),
               Goto(h, ApproveAt(y, "approve.row", c.newState, c.isApproved)),
               calls' = [calls EXCEPT ![p] = @ + 1],
               approvers' = [approvers EXCEPT ![y.row] = @ \union {y.who}]
        PROVE  Typed'
    <3> DEFINE x == ApproveAt(y, "approve.row", c.newState, c.isApproved)
    <3>1. c.newState \in Words /\ c.isApproved \in BOOLEAN
      BY <2>4, <2>6, WithCheckIs DEF Typed
    <3>2. x \in ApproveHandlers
      BY <2>3, <3>1 DEF ApproveHandlers, ApproveAt
    <3>3. x \in Handlers
      BY <3>2 DEF ApproveHandlers, Handlers
    <3>4. Goto(h, x)
      BY <2>6
    <3> HIDE DEF x
    <3>5. handler' \in [Slots -> Handlers \union {Idle}]
      BY <3>3, <3>4, Moved
    <3>6. calls' \in [Numbers -> Nat]
      BY <2>4, <2>6 DEF Typed
    <3>7. y.row \in 1 .. MaxRows /\ y.who \in Signers
      BY <2>3 DEF ApproveHandlers
    <3>8. approvers' \in [1 .. MaxRows -> SUBSET Signers]
      BY <2>6, <3>7 DEF Typed
    <3> QED
      BY <2>3, <3>5, <3>6, <3>8 DEF Typed
  <2> QED
    BY <1>4, <2>1, <2>2, <2>5, <2>6, ApproveVaultIs
<1>5. ASSUME NEW h \in Slots, ApproveRow(h)
      PROVE  Typed'
  <2>1. PICK y : y = handler[h]
    OBVIOUS
  <2>2. PICK x : x = ApproveAt(y, "approve.write", y.word, y.done)
    OBVIOUS
  <2>3. PICK st : st = IF y.done THEN "approved" ELSE "pending"
    OBVIOUS
  <2>4. PICK ap : ap = y.seen \union {y.who}
    OBVIOUS
  <2>5. /\ y \in ApproveHandlers /\ Goto(h, x) /\ RowWritten(y.row, st, ap)
        /\ UNCHANGED <<word, sessions, history>>
    BY <1>5, <2>1, <2>2, <2>3, <2>4, ApproveRowIs
  <2>6. x \in ApproveHandlers
    BY <2>2, <2>5 DEF ApproveHandlers, ApproveAt
  <2>7. x \in Handlers
    BY <2>6 DEF ApproveHandlers, Handlers
  <2>8. handler' \in [Slots -> Handlers \union {Idle}]
    BY <2>5, <2>7, Moved
  <2> QED
    BY <2>5, <2>8 DEF Typed, history, RowWritten
<1>6. ASSUME NEW h \in Slots, MarkRow(h)
      PROVE  Typed'
  <2>1. PICK y : y = handler[h]
    OBVIOUS
  <2>2. PICK x : x = MarkAt(y, "mark.write")
    OBVIOUS
  <2>3. /\ y \in MarkHandlers /\ Goto(h, x) /\ RowWritten(y.row, "executed", rows[y.row].approvals)
        /\ UNCHANGED <<word, sessions, history>>
    BY <1>6, <2>1, <2>2, MarkRowIs
  <2>4. x \in MarkHandlers
    BY <2>2, <2>3 DEF MarkHandlers, MarkAt
  <2>5. x \in Handlers
    BY <2>4 DEF MarkHandlers, Handlers
  <2>6. handler' \in [Slots -> Handlers \union {Idle}]
    BY <2>3, <2>5, Moved
  <2> QED
    BY <2>3, <2>6 DEF Typed, history, RowWritten
<1>7. ASSUME NEW h \in Slots, NEW new, Wrote(h, new), unlocked' \subseteq Due
      PROVE  Typed'
  <2>1. handler' \in [Slots -> Handlers \union {Idle}]
    BY <1>7, Moved DEF Wrote
  <2> QED
    BY <1>7, <2>1 DEF Typed, Wrote
<1>8. ASSUME NEW h \in Slots, CreateWrite(h) \/ ApproveWrite(h) \/ MarkWrite(h) \/ UnlockWrite(h)
      PROVE  Typed'
  <2>1. unlocked \subseteq Due
    BY DEF Typed
  <2>2. handler[h] \in UnlockHandlers => handler[h].cycle \in Due
    BY DEF UnlockHandlers
  <2>3. \E new : Wrote(h, new) /\ unlocked' \subseteq Due
    BY <1>8, <2>1, <2>2, WriteIs
  <2> QED
    BY <1>7, <2>3
<1>9. CASE Outside
  <2>1. ASSUME NEW r \in 1 .. Len(rows), OpenSession(r)
        PROVE  Typed'
    BY <2>1 DEF Typed, OpenSession, history
  <2>2. ASSUME NEW r \in 1 .. Len(rows), RowWritten(r, "pending", rows[r].approvals), ConfirmCreate(r)
        PROVE  Typed'
    BY <2>2 DEF Typed, ConfirmCreate, RowWritten
  <2>3. CASE Restart
    BY <2>3 DEF Typed, Restart
  <2>4. CASE UNCHANGED vars
    BY <2>4 DEF Typed, vars, history
  <2> QED
    BY <1>9, <2>1, <2>2, <2>3, <2>4 DEF Outside
<1> QED
  BY <1>1, <1>2, <1>3, <1>4, <1>5, <1>6, <1>8, <1>9, Steps

\* Handlers that stay, and a row or none in addition.
LEMMA NumberedFrame ==
  ASSUME Typed, Numbered, Typed', Len(rows) <= Len(rows'),
         \A r \in 1 .. Len(rows') : rows'[r].number <= r,
         \A p \in Numbers : calls'[p] > 0 => calls[p] > 0 \/ p <= Len(rows'),
         \A g \in Slots : \/ handler'[g] = handler[g] \/ handler'[g] = Idle
                          \/ Placed(handler'[g], Len(rows'))
  PROVE  Numbered'
<1>1. Len(rows) \in Nat /\ Len(rows') \in Nat /\ MaxRows \in Nat
  BY PolicyConstants DEF Typed
<1>2. ASSUME NEW p \in Numbers, calls'[p] > 0
      PROVE  p <= Len(rows')
  BY <1>1, <1>2 DEF Numbered, Numbers
<1>3. ASSUME NEW g \in Slots, handler'[g] # Idle
      PROVE  Placed(handler'[g], Len(rows'))
  <2>1. CASE handler'[g] = handler[g]
    <3>1. PICK x : x = handler[g]
      OBVIOUS
    <3>2. x \in Handlers /\ Placed(x, Len(rows))
      BY <1>3, <2>1, <3>1, Active DEF Numbered
    <3>3. x.op \in {"create.insert", "create.write"} => x.number \in Nat
      BY <1>1, <3>2, Kinds DEF CreateHandlers
    <3>4. Placed(x, Len(rows'))
      BY <1>1, <3>2, <3>3 DEF Placed
    <3> QED
      BY <2>1, <3>1, <3>4
  <2> QED
    BY <1>3, <2>1
<1> QED
  BY <1>2, <1>3 DEF Numbered

\* Every step keeps the numbers within the rows.
LEMMA NumberedStep == Typed /\ Numbered /\ [Next]_vars => Numbered'
<1> SUFFICES ASSUME Typed, Numbered, [Next]_vars PROVE Numbered'
  OBVIOUS
<1>0. Typed' /\ Len(rows) \in Nat /\ MaxRows \in Nat
  BY TypedStep, PolicyConstants DEF Typed
<1>1. ASSUME UNCHANGED <<rows, calls>>,
             \A g \in Slots : \/ handler'[g] = handler[g] \/ handler'[g] = Idle
                              \/ Placed(handler'[g], Len(rows))
      PROVE  Numbered'
  BY <1>0, <1>1, NumberedFrame DEF Numbered
<1>2. ASSUME NEW h \in Slots, NEW x \in Handlers \union {Idle}, Goto(h, x), x = Idle \/ Placed(x, Len(rows))
      PROVE  \A g \in Slots : \/ handler'[g] = handler[g] \/ handler'[g] = Idle
                              \/ Placed(handler'[g], Len(rows))
  BY <1>2, Moved
<1>3. ASSUME NEW h \in Slots, NEW x, Began(h, x)
      PROVE  Numbered'
  <2>1. Placed(x, Len(rows))
    <3>1. CASE NewCreate(x)
      BY <3>1 DEF NewCreate, Placed
    <3>2. CASE NewApprove(x)
      BY <3>2 DEF NewApprove, Placed
    <3>3. CASE NewMark(x)
      BY <3>3 DEF NewMark, Placed, Typed
    <3>4. CASE NewUnlock(x)
      BY <3>4 DEF NewUnlock, Placed
    <3> QED
      BY <1>3, <3>1, <3>2, <3>3, <3>4 DEF Began
  <2> QED
    BY <1>1, <1>2, <1>3, <2>1 DEF Began
<1>4. ASSUME NEW h \in Slots, CreateCount(h)
      PROVE  Numbered'
  <2> DEFINE x == CreateAt(handler[h], "create.insert", Len(rows) + 1)
  <2>1. /\ Goto(h, Idle) \/ (Goto(h, x) /\ Len(rows) + 1 <= MaxRows)
        /\ handler[h] \in CreateHandlers /\ UNCHANGED <<word, rows, sessions, history>>
    BY <1>4, CreateCountIs
  <2>2. Placed(x, Len(rows))
    BY <1>0 DEF Placed, CreateAt
  <2>3. \A g \in Slots : \/ handler'[g] = handler[g] \/ handler'[g] = Idle
                         \/ Placed(handler'[g], Len(rows))
    <3>1. Len(rows) + 1 <= MaxRows => x \in CreateHandlers
      BY <1>0, <2>1 DEF CreateHandlers, CreateAt
    <3>2. Len(rows) + 1 <= MaxRows => x \in Handlers
      BY <3>1 DEF CreateHandlers, Handlers
    <3> HIDE DEF x
    <3> QED
      BY <1>2, <2>1, <2>2, <3>2
  <2> QED
    BY <1>1, <2>1, <2>3 DEF history
<1>5. ASSUME NEW h \in Slots, CreateInsert(h)
      PROVE  Numbered'
  <2>1. PICK y : y = handler[h]
    OBVIOUS
  <2>2. PICK x : x = CreateAt(y, "create.write", y.number)
    OBVIOUS
  <2>3. /\ Goto(h, x) /\ y \in CreateHandlers /\ y.number \in Numbers /\ y.number <= Len(rows) + 1
        /\ Len(rows') = Len(rows) + 1 /\ UNCHANGED <<word, sessions, history>>
        /\ rows'[Len(rows) + 1] = [number |-> y.number, status |-> "pending", approvals |-> {}]
        /\ \A r \in 1 .. Len(rows) : rows'[r] = rows[r]
    BY <1>5, <2>1, <2>2, CreateInsertIs
  <2>4. x \in CreateHandlers
    BY <2>2, <2>3 DEF CreateHandlers, CreateAt
  <2>5. x \in Handlers
    BY <2>4 DEF CreateHandlers, Handlers
  <2>6. Placed(x, Len(rows'))
    BY <1>0, <2>2, <2>3 DEF Placed, CreateAt, Numbers
  <2>7. \A g \in Slots : handler'[g] = handler[g] \/ Placed(handler'[g], Len(rows'))
    BY <2>3, <2>5, <2>6, Moved
  <2>8. rows'[Len(rows) + 1].number = y.number
    BY <2>3
  <2>9. \A r \in 1 .. Len(rows') : rows'[r].number <= r
    BY <1>0, <2>3, <2>8 DEF Numbered
  <2> QED
    BY <1>0, <2>3, <2>7, <2>9, NumberedFrame DEF history
<1>6. ASSUME NEW h \in Slots, ApproveVault(h)
      PROVE  Numbered'
  <2>1. PICK y : y = handler[h]
    OBVIOUS
  <2>2. PICK p : p = rows[y.row].number
    OBVIOUS
  <2>3. /\ y # Idle /\ y \in ApproveHandlers /\ y.op = "approve.vault"
        /\ UNCHANGED <<word, rows, sessions, unlocked, clean>>
    BY <1>6, <2>1, ApproveVaultIs
  <2>4. p \in Numbers /\ p \in Nat /\ y.row \in 1 .. Len(rows) /\ p <= y.row
    BY <2>1, <2>2, <2>3, RowOfHandler
  <2>5. CASE Goto(h, Idle) /\ UNCHANGED <<calls, approvers>>
    BY <1>1, <1>2, <2>3, <2>5
  <2>6. ASSUME NEW c, c = incrementApprovalWithCheck(word, p, Threshold),
               Goto(h, ApproveAt(y, "approve.row", c.newState, c.isApproved)),
               calls' = [calls EXCEPT ![p] = @ + 1]
        PROVE  Numbered'
    <3>1. PICK x : x = ApproveAt(y, "approve.row", c.newState, c.isApproved)
      OBVIOUS
    <3>2. c.newState \in Words /\ c.isApproved \in BOOLEAN
      BY <2>4, <2>6, WithCheckIs DEF Typed
    <3>3. x \in ApproveHandlers
      BY <2>3, <3>1, <3>2 DEF ApproveHandlers, ApproveAt
    <3>4. x \in Handlers
      BY <3>3 DEF ApproveHandlers, Handlers
    <3>5. Placed(x, Len(rows'))
      BY <2>3, <2>4, <3>1 DEF Placed, ApproveAt
    <3>6. \A g \in Slots : handler'[g] = handler[g] \/ Placed(handler'[g], Len(rows'))
      BY <2>6, <3>1, <3>4, <3>5, Moved
    <3>7. \A q \in Numbers : calls'[q] > 0 => calls[q] > 0 \/ q <= Len(rows')
      BY <1>0, <2>3, <2>4, <2>6 DEF Typed
    <3>8. \A r \in 1 .. Len(rows') : rows'[r].number <= r
      BY <2>3 DEF Numbered
    <3> QED
      BY <1>0, <2>3, <3>6, <3>7, <3>8, NumberedFrame
  <2> QED
    BY <1>6, <2>1, <2>2, <2>5, <2>6, ApproveVaultIs
<1>7. ASSUME NEW h \in Slots, NEW x \in Handlers, Goto(h, x), Placed(x, Len(rows)), NEW i, NEW st, NEW ap,
             RowWritten(i, st, ap), i \in 1 .. Len(rows), UNCHANGED calls
      PROVE  Numbered'
  <2>1. \A r \in 1 .. Len(rows') : rows'[r].number <= r
    BY <1>7 DEF Numbered, RowWritten
  <2>2. \A g \in Slots : handler'[g] = handler[g] \/ Placed(handler'[g], Len(rows'))
    BY <1>7, Moved DEF RowWritten
  <2> QED
    BY <1>0, <1>7, <2>1, <2>2, NumberedFrame DEF RowWritten
<1>8. ASSUME NEW h \in Slots, ApproveRow(h)
      PROVE  Numbered'
  <2>1. PICK y : y = handler[h]
    OBVIOUS
  <2>2. PICK x : x = ApproveAt(y, "approve.write", y.word, y.done)
    OBVIOUS
  <2>3. /\ y # Idle /\ y \in ApproveHandlers /\ y.op = "approve.row" /\ Goto(h, x)
        /\ \E st, ap : RowWritten(y.row, st, ap)
        /\ UNCHANGED <<word, sessions, history>>
    BY <1>8, <2>1, <2>2, ApproveRowIs
  <2>4. x \in ApproveHandlers
    BY <2>2, <2>3 DEF ApproveHandlers, ApproveAt
  <2>5. x \in Handlers
    BY <2>4 DEF ApproveHandlers, Handlers
  <2>6. y.row \in 1 .. Len(rows)
    BY <2>1, <2>3, RowOfHandler
  <2>7. Placed(x, Len(rows))
    BY <2>2, <2>6 DEF Placed, ApproveAt
  <2> QED
    BY <1>7, <2>3, <2>5, <2>6, <2>7 DEF history
<1>9. ASSUME NEW h \in Slots, MarkRow(h)
      PROVE  Numbered'
  <2>1. PICK y : y = handler[h]
    OBVIOUS
  <2>2. PICK x : x = MarkAt(y, "mark.write")
    OBVIOUS
  <2>3. /\ y \in MarkHandlers /\ Goto(h, x) /\ y.row \in 1 .. Len(rows)
        /\ RowWritten(y.row, "executed", rows[y.row].approvals)
        /\ UNCHANGED <<word, sessions, history>>
    BY <1>9, <2>1, <2>2, MarkRowIs
  <2>4. x \in MarkHandlers
    BY <2>2, <2>3 DEF MarkHandlers, MarkAt
  <2>5. x \in Handlers
    BY <2>4 DEF MarkHandlers, Handlers
  <2>6. Placed(x, Len(rows))
    BY <2>2, <2>3 DEF Placed, MarkAt
  <2> QED
    BY <1>7, <2>3, <2>5, <2>6 DEF history
<1>10. ASSUME NEW h \in Slots, CreateWrite(h) \/ ApproveWrite(h) \/ MarkWrite(h) \/ UnlockWrite(h)
       PROVE  Numbered'
  <2>1. \E new : Wrote(h, new)
    BY <1>10, WriteIs
  <2> QED
    BY <1>1, <1>2, <2>1 DEF Wrote
<1>11. CASE Outside
  <2>1. ASSUME NEW r \in 1 .. Len(rows), OpenSession(r)
        PROVE  Numbered'
    BY <1>1, <2>1 DEF OpenSession, history
  <2>2. ASSUME NEW r \in 1 .. Len(rows), RowWritten(r, "pending", rows[r].approvals), ConfirmCreate(r)
        PROVE  Numbered'
    <3>1. \A q \in 1 .. Len(rows') : rows'[q].number <= q
      BY <2>2 DEF Numbered, RowWritten
    <3> QED
      BY <1>0, <2>2, <3>1, NumberedFrame DEF RowWritten, ConfirmCreate
  <2>3. CASE Restart
    BY <1>1, <2>3 DEF Restart
  <2>4. CASE UNCHANGED vars
    BY <1>1, <2>4 DEF vars, history
  <2> QED
    BY <1>11, <2>1, <2>2, <2>3, <2>4 DEF Outside
<1> QED
  BY <1>3, <1>4, <1>5, <1>6, <1>8, <1>9, <1>10, <1>11, Steps

-----------------------------------------------------------------------------
(* What is counted *)

\* Changes below the counts of the numbers that are given.
LEMMA RealKept ==
  ASSUME NEW v, NEW w, NEW bits, SameBut(v, w, bits), \A i \in bits : i < 20, NEW cs, Real(w, cs)
  PROVE  Real(v, cs)
<1>1. ASSUME NEW p \in Numbers, HasCount(p)
      PROVE  getApprovalCount(v, p) <= cs[p]
  <2>1. p \in 1 .. 3
    BY <1>1, PolicyConstants DEF Numbers, HasCount
  <2>2. \A i \in 16 + 4 * p .. 19 + 4 * p : i \notin bits
    BY <2>1
  <2>3. getApprovalCount(v, p) = getApprovalCount(w, p)
    BY <2>1, <2>2, CountOutside
  <2> QED
    BY <1>1, <2>3 DEF Real
<1> QED
  BY <1>1 DEF Real

\* More calls justify what fewer do.
LEMMA RealMore ==
  ASSUME NEW w, NEW cs \in [Numbers -> Nat], NEW ds \in [Numbers -> Nat],
         \A p \in Numbers : cs[p] <= ds[p], Real(w, cs)
  PROVE  Real(w, ds)
<1>1. \A p : getApprovalCount(w, p) \in 0 .. 15
  BY CountRange
<1>2. \A p \in Numbers : cs[p] \in Nat /\ ds[p] \in Nat
  OBVIOUS
<1> QED
  BY <1>1, <1>2 DEF Real

\* An approval counted in the word is counted in the history.
LEMMA RealCounts ==
  ASSUME NEW w \in Words, NEW cs \in [Numbers -> Nat], Real(w, cs), NEW p \in Numbers,
         NEW c, c = incrementApprovalWithCheck(w, p, Threshold),
         NEW ds, ds = [cs EXCEPT ![p] = @ + 1]
  PROVE  Real(c.newState, ds) /\ (c.isApproved => ds[p] >= Threshold)
<1>0. p \in Nat /\ p >= 1 /\ Threshold \in 1 .. 2
  BY PolicyConstants DEF Numbers
<1>1. ds \in [Numbers -> Nat] /\ ds[p] = cs[p] + 1 /\ \A q \in Numbers : cs[q] <= ds[q]
  BY <1>0
<1>2. CASE p > 3
  <2>1. c.newState = w /\ ~c.isApproved
    BY <1>0, <1>2, WithCheckIs
  <2> QED
    BY <1>1, <2>1, RealMore
<1>3. CASE p <= 3
  <2> DEFINE Field == {2 * p, 2 * p + 1} \union 16 + 4 * p .. 19 + 4 * p
  <2>1. p \in 1 .. 3 /\ p \in 0 .. 3 /\ HasCount(p)
    BY <1>0, <1>3 DEF HasCount
  <2>2. /\ SameBut(c.newState, w, Field)
        /\ getApprovalCount(c.newState, p) <= getApprovalCount(w, p) + 1
        /\ c.isApproved <=> getApprovalCount(c.newState, p) >= Threshold
    BY <1>0, <1>3, WithCheckIs
  <2>3. getApprovalCount(w, p) \in Nat /\ getApprovalCount(c.newState, p) \in Nat
    BY <2>1, CountIs
  <2>4. getApprovalCount(w, p) <= cs[p] /\ cs[p] \in Nat
    BY <2>1 DEF Real
  <2>5. getApprovalCount(c.newState, p) <= ds[p]
    BY <1>1, <2>2, <2>3, <2>4
  <2>6. ASSUME NEW q \in Numbers, HasCount(q), q # p
        PROVE  getApprovalCount(c.newState, q) <= ds[q]
    <3>1. q \in 1 .. 3 /\ q \in 0 .. 3
      BY <2>6, PolicyConstants DEF Numbers, HasCount
    <3>2. \A i \in 16 + 4 * q .. 19 + 4 * q : i \notin Field
      BY <2>1, <2>6, <3>1
    <3> HIDE DEF Field
    <3>3. getApprovalCount(c.newState, q) = getApprovalCount(w, q)
      BY <2>2, <3>1, <3>2, CountOutside
    <3>4. getApprovalCount(w, q) <= cs[q] /\ getApprovalCount(w, q) \in Nat /\ cs[q] \in Nat /\ ds[q] \in Nat
      BY <1>1, <2>6, <3>1, CountIs DEF Real
    <3> QED
      BY <1>1, <3>3, <3>4
  <2>7. Real(c.newState, ds)
    BY <2>5, <2>6 DEF Real
  <2>8. c.isApproved => ds[p] >= Threshold
    BY <1>0, <1>1, <2>2, <2>3, <2>5
  <2> QED
    BY <2>7, <2>8
<1> QED
  BY <1>0, <1>2, <1>3

\* What stays, grows or is new is backed, if what is new is.
LEMMA CountedFrame ==
  ASSUME Typed, Numbered, Typed', Counted, Len(rows) <= Len(rows'),
         \A p \in Numbers : calls[p] <= calls'[p],
         \A r \in 1 .. Len(rows) : rows'[r].number = rows[r].number,
         NoSharedCounts' => Real(word', calls'),
         NoSharedCounts' => \A r \in 1 .. Len(rows') :
           rows'[r].status # "pending" \/ r \in sessions' =>
             \/ r \in 1 .. Len(rows) /\ (rows[r].status # "pending" \/ r \in sessions)
             \/ calls'[rows'[r].number] >= Threshold,
         NoSharedCounts' => \A g \in Slots :
           handler'[g] = handler[g] \/ handler'[g] = Idle \/ Backed(handler'[g], rows', calls')
  PROVE  Counted'
<1> SUFFICES ASSUME NoSharedCounts'
             PROVE  /\ Real(word', calls')
                    /\ \A r \in 1 .. Len(rows') :
                         rows'[r].status # "pending" \/ r \in sessions' =>
                           calls'[rows'[r].number] >= Threshold
                    /\ \A h \in Slots : handler'[h] # Idle => Backed(handler'[h], rows', calls')
  BY DEF Counted
<1>1. /\ Len(rows) \in Nat /\ Len(rows') \in Nat /\ calls \in [Numbers -> Nat]
      /\ calls' \in [Numbers -> Nat] /\ Threshold \in 1 .. 2
  BY PolicyConstants DEF Typed
<1>2. NoSharedCounts
  BY <1>1 DEF NoSharedCounts
<1>3. ASSUME NEW r \in 1 .. Len(rows), calls[rows[r].number] >= Threshold
      PROVE  calls'[rows'[r].number] >= Threshold
  <2>1. rows[r].number \in Numbers
    BY RowIs
  <2> QED
    BY <1>1, <1>3, <2>1
<1>4. ASSUME NEW r \in 1 .. Len(rows'), rows'[r].status # "pending" \/ r \in sessions'
      PROVE  calls'[rows'[r].number] >= Threshold
  BY <1>2, <1>3, <1>4 DEF Counted
<1>5. ASSUME NEW g \in Slots, handler'[g] # Idle
      PROVE  Backed(handler'[g], rows', calls')
  <2>1. CASE handler'[g] = handler[g]
    <3>1. PICK x : x = handler[g]
      OBVIOUS
    <3>2. x \in Handlers /\ Backed(x, rows, calls) /\ Placed(x, Len(rows))
      BY <1>2, <1>5, <2>1, <3>1, Active DEF Counted, Numbered
    <3>3. Real(x.word, calls')
      BY <1>1, <3>2, RealMore DEF Backed
    <3>4. x.op \in {"approve.row", "mark.row", "mark.write"} => x.row \in 1 .. Len(rows)
      BY <3>2 DEF Placed
    <3>5. x.op = "approve.row" /\ x.done => calls'[rows'[x.row].number] >= Threshold
      BY <1>3, <3>2, <3>4 DEF Backed
    <3>6. x.op \in {"mark.row", "mark.write"} => calls'[rows'[x.row].number] >= Threshold
      BY <1>3, <3>2, <3>4 DEF Backed
    <3>7. Backed(x, rows', calls')
      BY <3>3, <3>5, <3>6 DEF Backed
    <3> QED
      BY <2>1, <3>1, <3>7
  <2> QED
    BY <1>5, <2>1
<1> QED
  BY <1>4, <1>5

\* Every step keeps counts that were not given out of the word and of what is read of it.
LEMMA CountedStep == Typed /\ Numbered /\ Counted /\ [Next]_vars => Counted'
<1> SUFFICES ASSUME Typed, Numbered, Counted, [Next]_vars PROVE Counted'
  OBVIOUS
<1>0. /\ Typed' /\ Len(rows) \in Nat /\ Len(rows') \in Nat /\ MaxRows \in Nat /\ Threshold \in 1 .. 2
      /\ calls \in [Numbers -> Nat]
  BY TypedStep, PolicyConstants DEF Typed
<1>1. /\ \A p \in Numbers : calls[p] \in Nat /\ calls[p] <= calls[p]
      /\ NoSharedCounts => Real(word, calls)
      /\ NoSharedCounts => \A h \in Slots : handler[h] # Idle => Real(handler[h].word, calls)
  BY <1>0 DEF Counted, Backed
<1>2. ASSUME UNCHANGED <<rows, calls>>, sessions' \subseteq sessions,
             NoSharedCounts => Real(word', calls),
             NoSharedCounts => \A g \in Slots :
               handler'[g] = handler[g] \/ handler'[g] = Idle \/ Backed(handler'[g], rows, calls)
      PROVE  Counted'
  BY <1>0, <1>1, <1>2, CountedFrame DEF NoSharedCounts
<1>3. ASSUME NEW h \in Slots, NEW x, Began(h, x)
      PROVE  Counted'
  <2>1. NoSharedCounts => Backed(x, rows, calls)
    <3>1. CASE NewCreate(x)
      BY <1>1, <3>1 DEF NewCreate, Backed
    <3>2. CASE NewApprove(x)
      <4>1. x.word = {} /\ x.op = "approve.vault"
        BY <3>2 DEF NewApprove
      <4>2. \A p \in Numbers : HasCount(p) => getApprovalCount({}, p) = 0
        BY CountIs DEF CountAt, Bit, HasCount
      <4> QED
        BY <1>1, <4>1, <4>2 DEF Backed, Real
    <3>3. CASE NewMark(x)
      <4>1. PICK r \in sessions : x = [op |-> "mark.row", word |-> word, row |-> r]
        BY <3>3 DEF NewMark
      <4>2. NoSharedCounts => calls[rows[r].number] >= Threshold
        BY DEF Counted, Typed
      <4> QED
        BY <1>1, <4>1, <4>2 DEF Backed
    <3>4. CASE NewUnlock(x)
      BY <1>1, <3>4 DEF NewUnlock, Backed
    <3> QED
      BY <1>3, <3>1, <3>2, <3>3, <3>4 DEF Began
  <2>2. \A g \in Slots : handler'[g] = handler[g] \/ handler'[g] = x
    BY <1>3, Moved DEF Began
  <2>3. sessions' \subseteq sessions
    BY <1>3 DEF Began, NewMark
  <2> QED
    BY <1>1, <1>2, <1>3, <2>1, <2>2, <2>3 DEF Began
<1>4. ASSUME NEW h \in Slots, CreateCount(h)
      PROVE  Counted'
  <2>1. PICK x : x = CreateAt(handler[h], "create.insert", Len(rows) + 1)
    OBVIOUS
  <2>2. /\ (Goto(h, Idle) \/ (Goto(h, x) /\ Len(rows) + 1 <= MaxRows)) /\ handler[h] # Idle
        /\ handler[h] \in CreateHandlers /\ UNCHANGED <<word, rows, sessions, history>>
    BY <1>4, <2>1, CreateCountIs
  <2>3. Len(rows) + 1 <= MaxRows => x \in CreateHandlers
    BY <1>0, <2>1, <2>2 DEF CreateHandlers, CreateAt
  <2>4. Len(rows) + 1 <= MaxRows => x \in Handlers
    BY <2>3 DEF CreateHandlers, Handlers
  <2>5. handler[h] # Idle
    BY <1>4, CreateCountIs
  <2>6. NoSharedCounts => Backed(x, rows, calls)
    BY <1>1, <2>1, <2>5 DEF Backed, CreateAt
  <2>7. \A g \in Slots : handler'[g] = handler[g] \/ handler'[g] = Idle \/ handler'[g] = x
    BY <2>2, <2>4, Moved
  <2> QED
    BY <1>1, <1>2, <2>2, <2>6, <2>7 DEF history
<1>5. ASSUME NEW h \in Slots, CreateInsert(h)
      PROVE  Counted'
  <2>1. PICK y : y = handler[h]
    OBVIOUS
  <2>2. PICK x : x = CreateAt(y, "create.write", y.number)
    OBVIOUS
  <2>3. /\ Goto(h, x) /\ y \in CreateHandlers /\ y.number \in Numbers /\ y # Idle
        /\ Len(rows') = Len(rows) + 1 /\ UNCHANGED <<word, sessions, history>>
        /\ rows'[Len(rows) + 1] = [number |-> y.number, status |-> "pending", approvals |-> {}]
        /\ \A r \in 1 .. Len(rows) : rows'[r] = rows[r]
    BY <1>5, <2>1, <2>2, CreateInsertIs
  <2>4. x \in CreateHandlers
    BY <2>2, <2>3 DEF CreateHandlers, CreateAt
  <2>5. x \in Handlers
    BY <2>4 DEF CreateHandlers, Handlers
  <2>6. \A g \in Slots : handler'[g] = handler[g] \/ handler'[g] = x
    BY <2>3, <2>5, Moved
  <2>7. UNCHANGED calls /\ (NoSharedCounts' => NoSharedCounts)
    BY <1>0, <2>3 DEF history, NoSharedCounts
  <2>8. NoSharedCounts => Backed(x, rows', calls)
    BY <1>1, <2>1, <2>2, <2>3 DEF Backed, CreateAt
  <2>9. rows'[Len(rows) + 1].status = "pending"
    BY <2>3
  <2>10. sessions \subseteq 1 .. Len(rows)
    BY DEF Typed
  <2>11. ASSUME NEW r \in 1 .. Len(rows'), rows'[r].status # "pending" \/ r \in sessions'
         PROVE  r \in 1 .. Len(rows) /\ (rows[r].status # "pending" \/ r \in sessions)
    BY <1>0, <2>3, <2>9, <2>10, <2>11
  <2> QED
    BY <1>0, <1>1, <2>3, <2>6, <2>7, <2>8, <2>11, CountedFrame
<1>6. ASSUME NEW h \in Slots, ApproveVault(h)
      PROVE  Counted'
  <2>1. PICK y : y = handler[h]
    OBVIOUS
  <2>2. PICK p : p = rows[y.row].number
    OBVIOUS
  <2>3. /\ y # Idle /\ y \in ApproveHandlers /\ y.op = "approve.vault"
        /\ UNCHANGED <<word, rows, sessions, unlocked, clean>>
    BY <1>6, <2>1, ApproveVaultIs
  <2>4. p \in Numbers /\ p \in Nat /\ y.row \in 1 .. Len(rows)
    BY <2>1, <2>2, <2>3, RowOfHandler
  <2>5. CASE Goto(h, Idle) /\ UNCHANGED <<calls, approvers>>
    <3>1. \A g \in Slots : handler'[g] = handler[g] \/ handler'[g] = Idle
      BY <2>5, Moved
    <3> QED
      BY <1>1, <1>2, <2>3, <2>5, <3>1
  <2>6. ASSUME NEW c, c = incrementApprovalWithCheck(word, p, Threshold),
               Goto(h, ApproveAt(y, "approve.row", c.newState, c.isApproved)),
               calls' = [calls EXCEPT ![p] = @ + 1]
        PROVE  Counted'
    <3>1. PICK x : x = ApproveAt(y, "approve.row", c.newState, c.isApproved)
      OBVIOUS
    <3>2. c.newState \in Words /\ c.isApproved \in BOOLEAN
      BY <2>4, <2>6, WithCheckIs DEF Typed
    <3>3. x \in ApproveHandlers
      BY <2>3, <3>1, <3>2 DEF ApproveHandlers, ApproveAt
    <3>4. x \in Handlers
      BY <3>3 DEF ApproveHandlers, Handlers
    <3>5. \A g \in Slots : handler'[g] = handler[g] \/ handler'[g] = x
      BY <2>6, <3>1, <3>4, Moved
    <3>6. \A q \in Numbers : calls[q] <= calls'[q]
      BY <1>0, <2>4, <2>6
    <3>7. NoSharedCounts' => NoSharedCounts
      BY <2>3 DEF NoSharedCounts
    <3>8. NoSharedCounts => Real(c.newState, calls') /\ (c.isApproved => calls'[p] >= Threshold)
      BY <1>0, <1>1, <2>4, <2>6, RealCounts DEF Typed
    <3>9. NoSharedCounts => Backed(x, rows', calls')
      <4>1. x.op = "approve.row" /\ x.word = c.newState /\ x.done = c.isApproved /\ x.row = y.row
        BY <3>1 DEF ApproveAt
      <4>2. rows'[x.row].number = p
        BY <2>2, <2>3, <4>1
      <4> QED
        BY <3>8, <4>1, <4>2 DEF Backed
    <3>10. calls' \in [Numbers -> Nat]
      BY <1>0 DEF Typed
    <3>11. NoSharedCounts => Real(word', calls')
      BY <1>0, <1>1, <2>3, <3>6, <3>10, RealMore
    <3> QED
      BY <1>0, <2>3, <3>5, <3>6, <3>7, <3>9, <3>11, CountedFrame
  <2> QED
    BY <1>6, <2>1, <2>2, <2>5, <2>6, ApproveVaultIs
<1>7. ASSUME NEW h \in Slots, NEW x \in Handlers, Goto(h, x), NEW i \in 1 .. Len(rows), NEW st, NEW ap,
             RowWritten(i, st, ap), UNCHANGED <<word, calls, sessions>>,
             NoSharedCounts => Backed(x, rows, calls), x.op # "approve.row",
             NoSharedCounts /\ st # "pending" => calls[rows[i].number] >= Threshold
      PROVE  Counted'
  <2>1. \A g \in Slots : handler'[g] = handler[g] \/ handler'[g] = x
    BY <1>7, Moved
  <2>2. /\ Len(rows') = Len(rows) /\ \A r \in 1 .. Len(rows) : rows'[r].number = rows[r].number
        /\ NoSharedCounts' => NoSharedCounts
    BY <1>7 DEF RowWritten, NoSharedCounts
  <2>3. Placed(x, Len(rows))
    <3>1. Numbered' /\ handler'[h] = x
      BY <1>7, NumberedStep, Moved
    <3>2. x # Idle
      BY IdleConstant
    <3> QED
      BY <2>2, <3>1, <3>2 DEF Numbered
  <2>4. NoSharedCounts => Backed(x, rows', calls')
    <3>1. x.op \in {"mark.row", "mark.write"} => rows'[x.row].number = rows[x.row].number
      BY <2>2, <2>3 DEF Placed
    <3> QED
      BY <1>7, <3>1 DEF Backed
  <2>5. ASSUME NoSharedCounts, NEW r \in 1 .. Len(rows'), rows'[r].status # "pending" \/ r \in sessions'
        PROVE  \/ r \in 1 .. Len(rows) /\ (rows[r].status # "pending" \/ r \in sessions)
               \/ calls'[rows'[r].number] >= Threshold
    BY <1>7, <2>2, <2>5 DEF RowWritten
  <2> QED
    BY <1>0, <1>1, <1>7, <2>1, <2>2, <2>4, <2>5, CountedFrame
<1>8. ASSUME NEW h \in Slots, ApproveRow(h)
      PROVE  Counted'
  <2>1. PICK y : y = handler[h]
    OBVIOUS
  <2>2. PICK x : x = ApproveAt(y, "approve.write", y.word, y.done)
    OBVIOUS
  <2>3. PICK st : st = IF y.done THEN "approved" ELSE "pending"
    OBVIOUS
  <2>4. /\ y # Idle /\ y \in ApproveHandlers /\ y.op = "approve.row" /\ Goto(h, x)
        /\ \E ap : RowWritten(y.row, st, ap)
        /\ UNCHANGED <<word, sessions, history>>
    BY <1>8, <2>1, <2>2, <2>3, ApproveRowIs
  <2>5. x \in ApproveHandlers
    BY <2>2, <2>4 DEF ApproveHandlers, ApproveAt
  <2>6. x \in Handlers
    BY <2>5 DEF ApproveHandlers, Handlers
  <2>7. y.row \in 1 .. Len(rows)
    BY <2>1, <2>4, RowOfHandler
  <2>8. x.op = "approve.write" /\ x.word = y.word
    BY <2>2 DEF ApproveAt
  <2>9. NoSharedCounts => Backed(y, rows, calls)
    BY <2>1, <2>4 DEF Counted
  <2>10. NoSharedCounts => Backed(x, rows, calls)
    BY <2>8, <2>9 DEF Backed
  <2>11. NoSharedCounts /\ st # "pending" => calls[rows[y.row].number] >= Threshold
    BY <2>3, <2>4, <2>9 DEF Backed
  <2> QED
    BY <1>7, <2>4, <2>6, <2>7, <2>8, <2>10, <2>11 DEF history
<1>9. ASSUME NEW h \in Slots, MarkRow(h)
      PROVE  Counted'
  <2>1. PICK y : y = handler[h]
    OBVIOUS
  <2>2. PICK x : x = MarkAt(y, "mark.write")
    OBVIOUS
  <2>3. /\ y # Idle /\ y \in MarkHandlers /\ y.op = "mark.row" /\ Goto(h, x) /\ y.row \in 1 .. Len(rows)
        /\ RowWritten(y.row, "executed", rows[y.row].approvals)
        /\ UNCHANGED <<word, sessions, history>>
    BY <1>9, <2>1, <2>2, MarkRowIs
  <2>4. x \in MarkHandlers
    BY <2>2, <2>3 DEF MarkHandlers, MarkAt
  <2>5. x \in Handlers
    BY <2>4 DEF MarkHandlers, Handlers
  <2>6. x.op = "mark.write" /\ x.word = y.word /\ x.row = y.row
    BY <2>2 DEF MarkAt
  <2>7. NoSharedCounts => Backed(y, rows, calls)
    BY <2>1, <2>3 DEF Counted
  <2>8. NoSharedCounts => Backed(x, rows, calls) /\ calls[rows[y.row].number] >= Threshold
    BY <2>3, <2>6, <2>7 DEF Backed
  <2> QED
    BY <1>7, <2>3, <2>5, <2>6, <2>8 DEF history
<1>10. ASSUME NEW h \in Slots, CreateWrite(h) \/ ApproveWrite(h) \/ MarkWrite(h) \/ UnlockWrite(h)
       PROVE  Counted'
  <2>1. PICK y : y = handler[h]
    OBVIOUS
  <2>2. ASSUME NEW new, Wrote(h, new), NoSharedCounts => Real(new, calls)
        PROVE  Counted'
    <3>1. \A g \in Slots : handler'[g] = handler[g] \/ handler'[g] = Idle
      BY <2>2, Moved DEF Wrote
    <3> QED
      BY <1>2, <2>2, <3>1 DEF Wrote
  <2>3. y \in Handlers => (NoSharedCounts /\ y # Idle => Real(y.word, calls)) /\ y.word \in Words
    BY <1>1, <2>1, Kinds
  <2>4. ASSUME y \in CreateHandlers, y.op = "create.write", y.number \in Numbers, y.number <= Len(rows),
               Wrote(h, setProposalPending(y.word, y.number))
        PROVE  Counted'
    <3>1. y # Idle /\ y \in Handlers
      BY <2>1, <2>4, Active DEF Wrote
    <3>2. ASSUME NoSharedCounts
          PROVE  Real(setProposalPending(y.word, y.number), calls)
      <4>1. y.number \in Nat /\ y.number <= 9
        BY <1>0, <2>4, <3>2 DEF NoSharedCounts, Numbers
      <4>2. SameBut(setProposalPending(y.word, y.number), y.word, {2 * y.number})
        BY <2>3, <3>1, <4>1, PendingIs
      <4>3. \A i \in {2 * y.number} : i < 20
        BY <4>1
      <4> QED
        BY <2>3, <3>1, <3>2, <4>2, <4>3, RealKept
    <3> QED
      BY <2>2, <2>4, <3>2
  <2>5. ASSUME Wrote(h, y.word)
        PROVE  Counted'
    <3>1. y # Idle /\ y \in Handlers
      BY <2>1, <2>5, Active DEF Wrote
    <3> QED
      BY <2>2, <2>3, <2>5, <3>1
  <2>6. ASSUME y \in MarkHandlers, y.op = "mark.write",
               Wrote(h, setProposalExecuted(y.word, rows[y.row].number))
        PROVE  Counted'
    <3> DEFINE p == rows[y.row].number
    <3>1. y # Idle /\ y \in Handlers
      BY <2>1, <2>6, Active DEF Wrote
    <3>2. p \in Nat /\ p <= y.row /\ y.row \in 1 .. Len(rows)
      BY <2>1, <2>6, <3>1, RowOfHandler
    <3> HIDE DEF p
    <3>3. ASSUME NoSharedCounts
          PROVE  Real(setProposalExecuted(y.word, p), calls)
      <4>1. p <= 9
        BY <1>0, <3>2, <3>3 DEF NoSharedCounts
      <4>2. SameBut(setProposalExecuted(y.word, p), y.word, {2 * p, 2 * p + 1})
        BY <2>3, <3>1, <3>2, <4>1, ExecutedIs
      <4>3. \A i \in {2 * p, 2 * p + 1} : i < 20
        BY <3>2, <4>1
      <4> QED
        BY <2>3, <3>1, <3>3, <4>2, <4>3, RealKept
    <3> QED
      BY <2>2, <2>6, <3>3 DEF p
  <2>7. ASSUME y \in UnlockHandlers, Wrote(h, setCycleUnlocked(y.word, y.cycle))
        PROVE  Counted'
    <3>1. y # Idle /\ y \in Handlers
      BY <2>1, <2>7, Active DEF Wrote
    <3>2. y.cycle \in Nat
      BY <2>7, PolicyConstants DEF UnlockHandlers
    <3>3. PICK bits : SameBut(setCycleUnlocked(y.word, y.cycle), y.word, bits) /\ bits \subseteq 0 .. 15
      BY <2>3, <3>1, <3>2, CycleIs
    <3>4. \A i \in bits : i < 20
      BY <3>3
    <3>5. NoSharedCounts => Real(setCycleUnlocked(y.word, y.cycle), calls)
      BY <2>3, <3>1, <3>3, <3>4, RealKept
    <3> QED
      BY <2>2, <2>7, <3>5
  <2> QED
    BY <1>10, <2>1, <2>4, <2>5, <2>6, <2>7, WriteIs
<1>11. CASE Outside
  <2>1. ASSUME NEW r \in 1 .. Len(rows), OpenSession(r)
        PROVE  Counted'
    <3>1. /\ UNCHANGED <<word, rows, handler, calls>> /\ rows[r].status = "approved"
          /\ sessions' = sessions \union {r}
      BY <2>1 DEF OpenSession, history
    <3>2. \A q \in 1 .. Len(rows') : rows'[q].status # "pending" \/ q \in sessions' =>
             q \in 1 .. Len(rows) /\ (rows[q].status # "pending" \/ q \in sessions)
      BY <3>1
    <3> QED
      BY <1>0, <1>1, <3>1, <3>2, CountedFrame DEF NoSharedCounts
  <2>2. ASSUME NEW r \in 1 .. Len(rows), RowWritten(r, "pending", rows[r].approvals), ConfirmCreate(r)
        PROVE  Counted'
    <3>1. UNCHANGED <<word, sessions, handler, calls>>
      BY <2>2 DEF ConfirmCreate
    <3>2. /\ Len(rows') = Len(rows) /\ \A q \in 1 .. Len(rows) : rows'[q].number = rows[q].number
          /\ NoSharedCounts' => NoSharedCounts
      BY <2>2 DEF RowWritten, NoSharedCounts
    <3>3. \A q \in 1 .. Len(rows') : rows'[q].status # "pending" \/ q \in sessions' =>
             q \in 1 .. Len(rows) /\ (rows[q].status # "pending" \/ q \in sessions)
      BY <2>2, <3>1, <3>2 DEF RowWritten
    <3> QED
      BY <1>0, <1>1, <3>1, <3>2, <3>3, CountedFrame
  <2>3. CASE Restart
    BY <1>1, <1>2, <2>3 DEF Restart
  <2>4. CASE UNCHANGED vars
    BY <1>1, <1>2, <2>4 DEF vars, history
  <2> QED
    BY <1>11, <2>1, <2>2, <2>3, <2>4 DEF Outside
<1> QED
  BY <1>3, <1>4, <1>5, <1>6, <1>8, <1>9, <1>10, <1>11, Steps

-----------------------------------------------------------------------------
(* Handlers that run alone *)

\* What a handler knows depends on its own row and on how many rows there are.
LEMMA AloneFrame ==
  ASSUME Typed, Alone, NEW h \in Slots, handler[h] # Idle, NEW x \in Handlers \union {Idle}, Goto(h, x),
         clean' => clean, clean' => \A r \in 1 .. Len(rows') : rows'[r].number = r,
         clean' => x = Idle \/ Knows(x, rows')
  PROVE  Alone'
<1> SUFFICES ASSUME clean'
             PROVE  /\ \A i, j \in Slots : handler'[i] # Idle /\ handler'[j] # Idle => i = j
                    /\ \A i \in Slots : handler'[i] # Idle => Knows(handler'[i], rows')
  BY DEF Alone
<1>1. \A i \in Slots : i # h => handler'[i] = Idle
  BY Moved DEF Alone
<1>2. handler'[h] = x
  BY Moved
<1> QED
  BY <1>1, <1>2

\* Every step keeps what a handler that runs alone knows of the rows.
LEMMA AloneStep == Typed /\ Numbered /\ Alone /\ [Next]_vars => Alone'
<1> SUFFICES ASSUME Typed, Numbered, Alone, [Next]_vars PROVE Alone'
  OBVIOUS
<1>0. Typed' /\ Len(rows) \in Nat /\ Len(rows') \in Nat /\ MaxRows \in Nat
  BY TypedStep, PolicyConstants DEF Typed
<1>1. ASSUME NEW h \in Slots, NEW x, Began(h, x)
      PROVE  Alone'
  <2>1. Knows(x, rows)
    <3>1. CASE NewCreate(x)
      BY <3>1 DEF NewCreate, Knows
    <3>2. CASE NewApprove(x)
      BY <3>2 DEF NewApprove, Knows, Approvable
    <3>3. CASE NewMark(x)
      BY <3>3 DEF NewMark, Knows
    <3>4. CASE NewUnlock(x)
      BY <3>4 DEF NewUnlock, Knows
    <3> QED
      BY <1>1, <3>1, <3>2, <3>3, <3>4 DEF Began
  <2>2. handler'[h] = x /\ \A g \in Slots : g # h => handler'[g] = handler[g]
    BY <1>1, Moved DEF Began
  <2>3. clean' => clean /\ \A g \in Slots : handler[g] = Idle
    BY <1>1, Zenon DEF Began
  <2>4. rows' = rows
    BY <1>1 DEF Began
  <2>5. clean' => \A g \in Slots : g # h => handler'[g] = Idle
    BY <2>2, <2>3
  <2> QED
    BY <2>1, <2>2, <2>3, <2>4, <2>5 DEF Alone
<1>2. ASSUME NEW h \in Slots, CreateCount(h)
      PROVE  Alone'
  <2>1. PICK x : x = CreateAt(handler[h], "create.insert", Len(rows) + 1)
    OBVIOUS
  <2>2. /\ Goto(h, Idle) \/ (Goto(h, x) /\ Len(rows) + 1 <= MaxRows)
        /\ handler[h] \in CreateHandlers /\ handler[h] # Idle /\ UNCHANGED <<word, rows, sessions, history>>
    BY <1>2, <2>1, CreateCountIs
  <2>3. Len(rows) + 1 <= MaxRows => x \in CreateHandlers
    BY <1>0, <2>1, <2>2 DEF CreateHandlers, CreateAt
  <2>4. Len(rows) + 1 <= MaxRows => x \in Handlers
    BY <2>3 DEF CreateHandlers, Handlers
  <2>5. Knows(x, rows')
    BY <2>1, <2>2 DEF Knows, CreateAt
  <2>6. UNCHANGED <<rows, clean>>
    BY <2>2 DEF history
  <2>7. clean' => \A r \in 1 .. Len(rows') : rows'[r].number = r
    BY <2>6 DEF Alone
  <2> QED
    BY <2>2, <2>4, <2>5, <2>6, <2>7, AloneFrame
<1>3. ASSUME NEW h \in Slots, CreateInsert(h)
      PROVE  Alone'
  <2>1. PICK y : y = handler[h]
    OBVIOUS
  <2>2. PICK x : x = CreateAt(y, "create.write", y.number)
    OBVIOUS
  <2>3. /\ Goto(h, x) /\ y \in CreateHandlers /\ y.number \in Numbers /\ y # Idle /\ y.op = "create.insert"
        /\ Len(rows') = Len(rows) + 1 /\ UNCHANGED <<word, sessions, history>>
        /\ rows'[Len(rows) + 1] = [number |-> y.number, status |-> "pending", approvals |-> {}]
        /\ \A r \in 1 .. Len(rows) : rows'[r] = rows[r]
    BY <1>3, <2>1, <2>2, CreateInsertIs
  <2>4. x \in CreateHandlers
    BY <2>2, <2>3 DEF CreateHandlers, CreateAt
  <2>5. x \in Handlers
    BY <2>4 DEF CreateHandlers, Handlers
  <2>6. UNCHANGED clean
    BY <2>3 DEF history
  <2>7. clean => y.number = Len(rows) + 1
    BY <2>1, <2>3 DEF Alone, Knows
  <2>8. /\ rows'[Len(rows) + 1].number = y.number /\ rows'[Len(rows) + 1].status = "pending"
        /\ rows'[Len(rows) + 1].approvals = {}
    BY <2>3
  <2>9. clean => \A r \in 1 .. Len(rows') : rows'[r].number = r
    BY <1>0, <2>3, <2>7, <2>8 DEF Alone
  <2>10. clean => Knows(x, rows')
    BY <2>2, <2>3, <2>7, <2>8 DEF Knows, CreateAt
  <2> QED
    BY <2>1, <2>3, <2>5, <2>6, <2>9, <2>10, AloneFrame
<1>4. ASSUME NEW h \in Slots, ApproveVault(h)
      PROVE  Alone'
  <2>1. PICK y : y = handler[h]
    OBVIOUS
  <2>2. PICK p : p = rows[y.row].number
    OBVIOUS
  <2>3. /\ y # Idle /\ y \in ApproveHandlers /\ y.op = "approve.vault"
        /\ UNCHANGED <<word, rows, sessions, unlocked, clean>>
    BY <1>4, <2>1, ApproveVaultIs
  <2>4. p \in Nat
    BY <2>1, <2>2, <2>3, RowOfHandler
  <2>5. clean => \A r \in 1 .. Len(rows) : rows[r].number = r
    BY DEF Alone
  <2>6. CASE Goto(h, Idle)
    BY <2>1, <2>3, <2>5, <2>6, AloneFrame
  <2>7. ASSUME NEW c, c = incrementApprovalWithCheck(word, p, Threshold),
               Goto(h, ApproveAt(y, "approve.row", c.newState, c.isApproved))
        PROVE  Alone'
    <3>1. PICK x : x = ApproveAt(y, "approve.row", c.newState, c.isApproved)
      OBVIOUS
    <3>2. c.newState \in Words /\ c.isApproved \in BOOLEAN
      BY <2>4, <2>7, WithCheckIs DEF Typed
    <3>3. x \in ApproveHandlers
      BY <2>3, <3>1, <3>2 DEF ApproveHandlers, ApproveAt
    <3>4. x \in Handlers
      BY <3>3 DEF ApproveHandlers, Handlers
    <3>5. clean => Knows(y, rows)
      BY <2>1, <2>3 DEF Alone
    <3>6. clean => Knows(x, rows')
      BY <2>3, <3>1, <3>5 DEF Knows, ApproveAt
    <3> QED
      BY <2>1, <2>3, <2>5, <2>7, <3>1, <3>4, <3>6, AloneFrame
  <2> QED
    BY <1>4, <2>1, <2>2, <2>6, <2>7, ApproveVaultIs
<1>5. ASSUME NEW h \in Slots, handler[h] # Idle, NEW x \in Handlers, Goto(h, x),
             x.op \in {"approve.write", "mark.write"},
             NEW i \in 1 .. Len(rows), NEW st, NEW ap, RowWritten(i, st, ap), UNCHANGED clean
      PROVE  Alone'
  <2>1. Knows(x, rows')
    BY <1>5 DEF Knows
  <2>2. clean' => \A r \in 1 .. Len(rows') : rows'[r].number = r
    BY <1>5 DEF Alone, RowWritten
  <2> QED
    BY <1>5, <2>1, <2>2, AloneFrame
<1>6. ASSUME NEW h \in Slots, ApproveRow(h)
      PROVE  Alone'
  <2>1. PICK y : y = handler[h]
    OBVIOUS
  <2>2. PICK x : x = ApproveAt(y, "approve.write", y.word, y.done)
    OBVIOUS
  <2>3. /\ y # Idle /\ y \in ApproveHandlers /\ y.op = "approve.row" /\ Goto(h, x)
        /\ \E st, ap : RowWritten(y.row, st, ap)
        /\ UNCHANGED <<word, sessions, history>>
    BY <1>6, <2>1, <2>2, ApproveRowIs
  <2>4. x \in ApproveHandlers
    BY <2>2, <2>3 DEF ApproveHandlers, ApproveAt
  <2>5. x \in Handlers /\ x.op = "approve.write"
    BY <2>2, <2>4 DEF ApproveHandlers, Handlers, ApproveAt
  <2>6. y.row \in 1 .. Len(rows)
    BY <2>1, <2>3, RowOfHandler
  <2> QED
    BY <1>5, <2>1, <2>3, <2>5, <2>6 DEF history
<1>7. ASSUME NEW h \in Slots, MarkRow(h)
      PROVE  Alone'
  <2>1. PICK y : y = handler[h]
    OBVIOUS
  <2>2. PICK x : x = MarkAt(y, "mark.write")
    OBVIOUS
  <2>3. /\ y # Idle /\ y \in MarkHandlers /\ Goto(h, x) /\ y.row \in 1 .. Len(rows)
        /\ RowWritten(y.row, "executed", rows[y.row].approvals)
        /\ UNCHANGED <<word, sessions, history>>
    BY <1>7, <2>1, <2>2, MarkRowIs
  <2>4. x \in MarkHandlers
    BY <2>2, <2>3 DEF MarkHandlers, MarkAt
  <2>5. x \in Handlers /\ x.op = "mark.write"
    BY <2>2, <2>4 DEF MarkHandlers, Handlers, MarkAt
  <2> QED
    BY <1>5, <2>1, <2>3, <2>5 DEF history
<1>8. ASSUME NEW h \in Slots, CreateWrite(h) \/ ApproveWrite(h) \/ MarkWrite(h) \/ UnlockWrite(h)
      PROVE  Alone'
  <2>1. \E new : Wrote(h, new)
    BY <1>8, WriteIs
  <2>2. clean => \A r \in 1 .. Len(rows) : rows[r].number = r
    BY DEF Alone
  <2> QED
    BY <2>1, <2>2, AloneFrame DEF Wrote
<1>9. CASE Outside
  <2>1. ASSUME NEW r \in 1 .. Len(rows), OpenSession(r)
        PROVE  Alone'
    BY <2>1 DEF Alone, OpenSession, history
  <2>2. ASSUME NEW r \in 1 .. Len(rows), ConfirmCreate(r)
        PROVE  Alone'
    BY <2>2 DEF Alone, ConfirmCreate
  <2>3. CASE Restart
    BY <2>3 DEF Alone, Restart
  <2>4. CASE UNCHANGED vars
    BY <2>4 DEF Alone, vars, history
  <2> QED
    BY <1>9, <2>1, <2>2, <2>3, <2>4 DEF Outside
<1> QED
  BY <1>1, <1>2, <1>3, <1>4, <1>6, <1>7, <1>8, <1>9, Steps

-----------------------------------------------------------------------------
(* The word of a handler that runs alone *)

\* The bits that belong to a number.
FieldOf(p) == {2 * p, 2 * p + 1} \union (IF HasCount(p) THEN 16 + 4 * p .. 19 + 4 * p ELSE {})

\* What is written in one number's bits changes no other number's.
LEMMA ShowsElsewhere ==
  ASSUME NEW v, NEW w, NEW i \in 1 .. 9, SameBut(v, w, FieldOf(i)),
         NEW r \in 1 .. 9, r # i, NEW st, NEW ap, Shows(w, r, st, ap)
  PROVE  Shows(v, r, st, ap)
<1>1. 2 * r \notin FieldOf(i) /\ 2 * r + 1 \notin FieldOf(i)
  BY DEF FieldOf, HasCount
<1>2. getProposalStatus(v, r) = getProposalStatus(w, r)
  BY <1>1, StatusOutside
<1>3. ASSUME HasCount(r)
      PROVE  getApprovalCount(v, r) = getApprovalCount(w, r)
  <2>1. r \in 0 .. 3
    BY <1>3 DEF HasCount
  <2>2. \A j \in 16 + 4 * r .. 19 + 4 * r : j \notin FieldOf(i)
    BY <2>1 DEF FieldOf, HasCount
  <2> QED
    BY <2>1, <2>2, CountOutside
<1> QED
  BY <1>2, <1>3 DEF Shows

\* Nor any cycle's that shares no bit with a row.
LEMMA CyclesElsewhere ==
  ASSUME NEW v, NEW w, NEW i \in 1 .. 9, SameBut(v, w, FieldOf(i)),
         NEW n \in 0 .. 9, i <= n, NEW us, ShowsCycles(w, n, us)
  PROVE  ShowsCycles(v, n, us)
<1>1. ASSUME NEW c \in Due, HasFlag(c), c \div 2 \notin 1 .. n
      PROVE  isCycleUnlocked(v, c) <=> isCycleUnlocked(w, c)
  <2>1. c \in 0 .. 15
    BY <1>1 DEF HasFlag
  <2>2. c \notin FieldOf(i)
    BY <1>1, <2>1 DEF FieldOf, HasCount
  <2>3. c \in WordBits \ FieldOf(i)
    BY <2>1, <2>2 DEF WordBits
  <2> QED
    BY <2>3 DEF SameBut, isCycleUnlocked
<1> QED
  BY <1>1 DEF ShowsCycles

\* One more row can only take cycles out of account.
LEMMA CyclesGrow ==
  ASSUME NEW w, NEW n \in Nat, NEW m \in Nat, n <= m, NEW us, ShowsCycles(w, n, us)
  PROVE  ShowsCycles(w, m, us)
<1>1. \A k : k \notin 1 .. m => k \notin 1 .. n
  OBVIOUS
<1> QED
  BY <1>1 DEF ShowsCycles

\* A row that is written as pending or as executed keeps its count.
LEMMA CountKept ==
  ASSUME NEW v, NEW w, NEW p \in 1 .. 9, NEW bits, bits \subseteq {2 * p, 2 * p + 1}, SameBut(v, w, bits)
  PROVE  /\ SameBut(v, w, FieldOf(p))
         /\ HasCount(p) => getApprovalCount(v, p) = getApprovalCount(w, p)
<1>1. SameBut(v, w, FieldOf(p))
  BY DEF SameBut, FieldOf
<1>2. ASSUME HasCount(p)
      PROVE  getApprovalCount(v, p) = getApprovalCount(w, p)
  <2>1. p \in 0 .. 3 /\ p >= 1
    BY <1>2 DEF HasCount
  <2>2. \A j \in 16 + 4 * p .. 19 + 4 * p : j \notin bits
    BY <2>1
  <2> QED
    BY <2>1, <2>2, CountOutside
<1> QED
  BY <1>1, <1>2

\* An unlock changes no row and no other cycle.
LEMMA UnlockShows ==
  ASSUME NEW w \in Words, NEW c \in Due, NEW n \in 0 .. 9, HasFlag(c) => c \div 2 \notin 1 .. n
  PROVE  /\ \A r \in 1 .. n : \A st, ap : Shows(w, r, st, ap) => Shows(setCycleUnlocked(w, c), r, st, ap)
         /\ \A us : ShowsCycles(w, n, us) => ShowsCycles(setCycleUnlocked(w, c), n, us \union {c})
<1> DEFINE v == setCycleUnlocked(w, c)
<1>0. c \in Nat
  BY PolicyConstants
<1>1. CASE HasFlag(c)
  <2>1. c \in 0 .. 15 /\ v = w \union {c} /\ SameBut(v, w, {c}) /\ c \div 2 \notin 1 .. n
    BY <1>0, <1>1, CycleIs DEF SameBut
  <2> HIDE DEF v
  <2>2. ASSUME NEW r \in 1 .. n, NEW st, NEW ap, Shows(w, r, st, ap)
        PROVE  Shows(v, r, st, ap)
    <3>1. r \in 0 .. 15 /\ 2 * r \notin {c} /\ 2 * r + 1 \notin {c}
      BY <2>1
    <3>2. getProposalStatus(v, r) = getProposalStatus(w, r)
      BY <2>1, <3>1, StatusOutside
    <3>3. ASSUME HasCount(r)
          PROVE  getApprovalCount(v, r) = getApprovalCount(w, r)
      <4>1. r \in 0 .. 3 /\ \A j \in 16 + 4 * r .. 19 + 4 * r : j \notin {c}
        BY <2>1, <3>3 DEF HasCount
      <4> QED
        BY <2>1, <4>1, CountOutside
    <3> QED
      BY <2>2, <3>2, <3>3 DEF Shows
  <2>3. ASSUME NEW us, ShowsCycles(w, n, us)
        PROVE  ShowsCycles(v, n, us \union {c})
    BY <2>1, <2>3 DEF ShowsCycles, isCycleUnlocked
  <2> QED
    BY <2>2, <2>3 DEF v
<1>2. CASE ~HasFlag(c)
  <2>1. v = w
    BY <1>0, <1>2, CycleIs
  <2>2. \A us : ShowsCycles(w, n, us) => ShowsCycles(w, n, us \union {c})
    BY <1>2 DEF ShowsCycles
  <2> QED
    BY <2>1, <2>2
<1> QED
  BY <1>1, <1>2

\* The histories and the rows only grow, and what was not clean stays so.
LEMMA Grows ==
  ASSUME Typed, Numbered, [Next]_vars
  PROVE  Len(rows) <= Len(rows') /\ unlocked \subseteq unlocked' /\ (clean' => clean)
<1>0. Len(rows) \in Nat
  BY DEF Typed
<1>1. ASSUME NEW h \in Slots
      PROVE  /\ \A x : Began(h, x) => rows' = rows /\ unlocked' = unlocked /\ (clean' => clean)
             /\ CreateCount(h) \/ ApproveVault(h) => UNCHANGED <<rows, unlocked, clean>>
             /\ CreateInsert(h) => Len(rows') = Len(rows) + 1 /\ UNCHANGED <<unlocked, clean>>
             /\ ApproveRow(h) \/ MarkRow(h) => Len(rows') = Len(rows) /\ UNCHANGED <<unlocked, clean>>
             /\ CreateWrite(h) \/ ApproveWrite(h) \/ MarkWrite(h) \/ UnlockWrite(h) =>
                  unlocked \subseteq unlocked' /\ UNCHANGED <<rows, clean>>
  <2>1. \A x : Began(h, x) => rows' = rows /\ unlocked' = unlocked /\ (clean' => clean)
    BY Zenon DEF Began
  <2>2. CreateCount(h) \/ ApproveVault(h) => UNCHANGED <<rows, unlocked, clean>>
    BY DEF CreateCount, ApproveVault, history
  <2>3. CreateInsert(h) => Len(rows') = Len(rows) + 1 /\ UNCHANGED <<unlocked, clean>>
    BY CreateInsertIs DEF history
  <2>4. ApproveRow(h) \/ MarkRow(h) => Len(rows') = Len(rows) /\ UNCHANGED <<unlocked, clean>>
    BY ApproveRowIs, MarkRowIs DEF history, RowWritten
  <2>5. CreateWrite(h) \/ ApproveWrite(h) \/ MarkWrite(h) \/ UnlockWrite(h) =>
          unlocked \subseteq unlocked' /\ UNCHANGED <<rows, clean>>
    BY WriteIs DEF Wrote
  <2> QED
    BY <2>1, <2>2, <2>3, <2>4, <2>5
<1>2. Outside => Len(rows') = Len(rows) /\ unlocked' = unlocked /\ (clean' => clean)
  BY DEF Outside, OpenSession, ConfirmCreate, RowWritten, Restart, vars, history
<1> QED
  BY <1>0, <1>1, <1>2, Steps

\* A step of the handler that runs alone.
LEMMA FollowingFrame ==
  ASSUME Typed, Alone, NEW h \in Slots, handler[h] # Idle, NEW x \in Handlers \union {Idle}, Goto(h, x),
         clean,
         \A r \in 1 .. Len(rows') : rows'[r].status = "pending" /\ HasCount(r) =>
           Cardinality(rows'[r].approvals) < Threshold,
         x = Idle => ShowsAll(word', rows', unlocked'),
         x # Idle => Follows(x, word', rows', unlocked')
  PROVE  Followed'
<1>1. \A i \in Slots : i # h => handler'[i] = Idle
  BY Moved DEF Alone
<1>2. handler'[h] = x
  BY Moved
<1>3. quiet' => x = Idle
  BY <1>2 DEF quiet
<1>4. \A i \in Slots : handler'[i] # Idle => Follows(handler'[i], word', rows', unlocked')
  BY <1>1, <1>2
<1> QED
  BY <1>3, <1>4 DEF Followed

\* What a step of the handler y in slot h may use.
Lone(h, y) ==
  /\ y = handler[h] /\ y # Idle /\ y \in Handlers /\ clean
  /\ Placed(y, Len(rows)) /\ Knows(y, rows) /\ Follows(y, word, rows, unlocked)
  /\ Len(rows) <= 9 /\ \A r \in 1 .. Len(rows) : rows[r].number = r
  /\ \A r \in 1 .. Len(rows) :
       rows[r].status = "pending" /\ HasCount(r) => Cardinality(rows[r].approvals) < Threshold

\* The rows are few enough for their fields not to overlap.
LEMMA Few ==
  ASSUME Typed, Len(rows) <= 9
  PROVE  /\ Len(rows) \in 0 .. 9
         /\ \A r \in 1 .. Len(rows) : r \in 1 .. 9 /\ r \in Nat /\ r <= Len(rows)
<1>1. PICK n : n = Len(rows)
  OBVIOUS
<1>2. n \in Nat
  BY <1>1 DEF Typed
<1>3. n <= 9
  BY <1>1
<1>4. n \in 0 .. 9 /\ \A r \in 1 .. n : r \in 1 .. 9 /\ r \in Nat /\ r <= n
  BY ONLY <1>2, <1>3
<1> QED
  BY <1>1, <1>4

\* A free number has status 0 in the word the handler has read.
LEMMA CreateCountFollows ==
  ASSUME Typed, Alone, NEW h \in Slots, Lone(h, handler[h]), CreateCount(h)
  PROVE  Followed'
<1>1. PICK y : y = handler[h]
  OBVIOUS
<1>2. PICK x : x = CreateAt(y, "create.insert", Len(rows) + 1)
  OBVIOUS
<1>3. /\ y # Idle /\ y \in CreateHandlers /\ y.op = "create.count"
      /\ Goto(h, Idle) \/ /\ Len(rows) + 1 <= MaxRows
                          /\ getProposalStatus(y.word, Len(rows) + 1) = 0
                          /\ Goto(h, x)
      /\ UNCHANGED <<word, rows, unlocked>>
  BY <1>1, <1>2, CreateCountIs DEF history
<1>4. /\ y.word = word /\ ShowsAll(word, rows, unlocked) /\ clean
      /\ \A r \in 1 .. Len(rows) :
           rows[r].status = "pending" /\ HasCount(r) => Cardinality(rows[r].approvals) < Threshold
  BY <1>1, <1>3 DEF Lone, Follows
<1>5. CASE Goto(h, Idle)
  BY <1>1, <1>3, <1>4, <1>5, FollowingFrame
<1>6. CASE /\ Len(rows) + 1 <= MaxRows /\ getProposalStatus(y.word, Len(rows) + 1) = 0
           /\ Goto(h, x)
  <2>1. Len(rows) \in Nat /\ MaxRows \in Nat
    BY PolicyConstants DEF Typed
  <2>2. x \in CreateHandlers
    BY <1>2, <1>3, <1>6, <2>1 DEF CreateHandlers, CreateAt
  <2>3. x \in Handlers
    BY <2>2 DEF CreateHandlers, Handlers
  <2>4. x.op = "create.insert" /\ x.word = y.word /\ x.number = Len(rows) + 1
    BY <1>2 DEF CreateAt
  <2>5. Follows(x, word, rows, unlocked)
    BY <1>4, <1>6, <2>4 DEF Follows
  <2>6. x # Idle
    BY <2>3, IdleConstant
  <2> QED
    BY <1>1, <1>3, <1>4, <1>6, <2>3, <2>5, <2>6, FollowingFrame
<1> QED
  BY <1>3, <1>5, <1>6

\* The new row is pending and has neither status nor count in the word yet: no approval was
\* counted for a number without a row.
LEMMA CreateInsertFollows ==
  ASSUME Typed, Numbered, Counted, Alone, NEW h \in Slots, Lone(h, handler[h]), CreateInsert(h),
         Len(rows') <= 9
  PROVE  Followed'
<1>0. Len(rows) \in Nat /\ Len(rows) <= 9 /\ MaxRows \in Nat /\ Threshold \in 1 .. 2
  BY PolicyConstants DEF Typed, Lone
<1>1. PICK y : y = handler[h]
  OBVIOUS
<1>2. PICK x : x = CreateAt(y, "create.write", y.number)
  OBVIOUS
<1>3. /\ y # Idle /\ y \in CreateHandlers /\ y.op = "create.insert" /\ y.number \in Numbers
      /\ Goto(h, x) /\ Len(rows') = Len(rows) + 1
      /\ rows'[Len(rows) + 1] = [number |-> y.number, status |-> "pending", approvals |-> {}]
      /\ \A r \in 1 .. Len(rows) : rows'[r] = rows[r]
      /\ UNCHANGED <<word, unlocked>>
  BY <1>1, <1>2, CreateInsertIs DEF history
<1>4. /\ y.word = word /\ ShowsAll(word, rows, unlocked) /\ getProposalStatus(word, y.number) = 0
      /\ clean /\ y.number = Len(rows) + 1
      /\ \A r \in 1 .. Len(rows) :
           rows[r].status = "pending" /\ HasCount(r) => Cardinality(rows[r].approvals) < Threshold
  BY <1>1, <1>3 DEF Lone, Follows, Knows
<1>5. x \in CreateHandlers
  BY <1>2, <1>3 DEF CreateHandlers, CreateAt
<1>6. x \in Handlers /\ x # Idle
  BY <1>5, IdleConstant DEF CreateHandlers, Handlers
<1>7. x.op = "create.write" /\ x.word = y.word /\ x.number = Len(rows) + 1
  BY <1>2, <1>4 DEF CreateAt
<1>8. getApprovalCount(word, Len(rows) + 1) = 0
  <2> DEFINE p == Len(rows) + 1
  <2>1. getApprovalCount(word, p) \in 0 .. 15
    BY CountRange
  <2>2. CASE HasCount(p)
    <3>1. p \in Numbers /\ calls[p] \in Nat
      BY <1>3, <1>4 DEF Typed
    <3>2. ~(calls[p] > 0)
      BY <1>0, <3>1 DEF Numbered
    <3>3. Real(word, calls)
      BY <1>0 DEF Counted, NoSharedCounts
    <3>4. getApprovalCount(word, p) <= calls[p]
      BY <2>2, <3>1, <3>3 DEF Real
    <3> QED
      BY <2>1, <3>1, <3>2, <3>4
  <2>3. CASE ~HasCount(p)
    BY <2>3, CountRange
  <2> QED
    BY <2>2, <2>3
<1>9. ShowsCycles(word, Len(rows'), unlocked)
  BY <1>0, <1>3, <1>4, CyclesGrow DEF ShowsAll
<1>10. \A r \in 1 .. Len(rows') : r # x.number => ShowsRow(word, rows', r)
  <2>1. \A r \in 1 .. Len(rows') : r # x.number => r \in 1 .. Len(rows)
    BY <1>0, <1>3, <1>7
  <2> QED
    BY <1>3, <1>4, <2>1 DEF ShowsAll, ShowsRow
<1>11. Follows(x, word, rows', unlocked)
  BY <1>4, <1>7, <1>8, <1>9, <1>10 DEF Follows
<1>12. rows'[Len(rows) + 1].approvals = {}
  BY <1>3
<1>13. \A r \in 1 .. Len(rows') : rows'[r].status = "pending" /\ HasCount(r) =>
         Cardinality(rows'[r].approvals) < Threshold
  <2>1. Cardinality({}) = 0
    BY FS_EmptySet
  <2>2. \A r \in 1 .. Len(rows') : r \in 1 .. Len(rows) \/ r = Len(rows) + 1
    BY <1>0, <1>3
  <2>3. Cardinality(rows'[Len(rows) + 1].approvals) < Threshold
    BY <1>0, <1>12, <2>1
  <2>4. \A r \in 1 .. Len(rows) : rows'[r].status = "pending" /\ HasCount(r) =>
          Cardinality(rows'[r].approvals) < Threshold
    BY <1>3, <1>4
  <2> QED
    BY <2>2, <2>3, <2>4
<1> QED
  BY <1>1, <1>3, <1>4, <1>6, <1>11, <1>13, FollowingFrame

\* The written word has the new row as pending and the others as before.
LEMMA CreateWriteFollows ==
  ASSUME Typed, Numbered, Alone, NEW h \in Slots, NEW y, Lone(h, y),
         y.op = "create.write", y \in CreateHandlers,
         Wrote(h, setProposalPending(y.word, y.number)), UNCHANGED unlocked
  PROVE  Followed'
<1> DEFINE n == Len(rows)
           v == setProposalPending(y.word, y.number)
<1>1. /\ y.word = word /\ getProposalStatus(word, y.number) = 0 /\ getApprovalCount(word, y.number) = 0
      /\ ShowsCycles(word, n, unlocked) /\ \A r \in 1 .. n : r # y.number => ShowsRow(word, rows, r)
      /\ y.number = n /\ rows[n].status = "pending" /\ rows[n].approvals = {}
  BY DEF Lone, Follows, Knows
<1>2. n \in 1 .. 9 /\ n \in Nat
  <2>1. n \in Nat /\ n <= 9
    BY DEF Typed, Lone
  <2>2. y.number >= 1
    BY DEF Lone, Placed
  <2>3. y.number = n
    BY <1>1
  <2> HIDE DEF n
  <2> QED
    BY ONLY <2>1, <2>2, <2>3
<1>3. word \in Words
  BY DEF Typed
<1>4. SameBut(v, word, {2 * n}) /\ getProposalStatus(v, n) = 1
  <2>1. v = setProposalPending(word, n) /\ getProposalStatus(word, n) = 0
    BY <1>1
  <2> HIDE DEF v, n
  <2> QED
    BY <1>2, <1>3, <2>1, PendingIs
<1> HIDE DEF v, n
<1>5. /\ SameBut(v, word, FieldOf(n))
      /\ HasCount(n) => getApprovalCount(v, n) = getApprovalCount(word, n)
  BY <1>2, <1>4, CountKept
<1>6. ShowsRow(v, rows, n)
  BY <1>1, <1>4, <1>5, FS_EmptySet DEF ShowsRow, Shows, Code
<1>7. \A r \in 1 .. n : r # n => ShowsRow(v, rows, r)
  BY <1>1, <1>2, <1>5, ShowsElsewhere DEF ShowsRow
<1>8. ShowsCycles(v, n, unlocked)
  BY <1>1, <1>2, <1>5, CyclesElsewhere
<1>9. ShowsAll(v, rows, unlocked)
  BY <1>6, <1>7, <1>8 DEF ShowsAll, n
<1>10. /\ handler[h] # Idle /\ Goto(h, Idle) /\ word' = v /\ rows' = rows /\ clean
       /\ \A r \in 1 .. Len(rows) :
            rows[r].status = "pending" /\ HasCount(r) => Cardinality(rows[r].approvals) < Threshold
  BY DEF Wrote, Lone, v
<1> QED
  BY <1>9, <1>10, FollowingFrame


\* The word the approval has computed is ahead of its row: one more approval, and approved
\* exactly when that reaches the threshold.
LEMMA ApproveVaultFollows ==
  ASSUME Typed, Numbered, Alone, NEW h \in Slots, Lone(h, handler[h]), ApproveVault(h)
  PROVE  Followed'
<1>1. PICK y : y = handler[h]
  OBVIOUS
<1>2. PICK p : p = rows[y.row].number
  OBVIOUS
<1>3. /\ y # Idle /\ y \in ApproveHandlers /\ y.op = "approve.vault"
      /\ UNCHANGED <<word, rows, unlocked>>
  BY <1>1, ApproveVaultIs
<1>4. /\ ShowsAll(word, rows, unlocked) /\ clean
      /\ rows[y.row].status = "pending" /\ y.who \notin rows[y.row].approvals
      /\ y.seen = rows[y.row].approvals
      /\ \A r \in 1 .. Len(rows) :
           rows[r].status = "pending" /\ HasCount(r) => Cardinality(rows[r].approvals) < Threshold
  BY <1>1, <1>3 DEF Lone, Follows, Knows
<1>5. y.row \in 1 .. Len(rows) /\ p = y.row
  BY <1>1, <1>2, <1>3 DEF Lone, Placed
<1>6. p \in 1 .. 9 /\ p \in Nat /\ Len(rows) \in 0 .. 9 /\ p <= Len(rows) /\ word \in Words
  <2>1. Len(rows) <= 9 /\ word \in Words
    BY DEF Typed, Lone
  <2> QED
    BY <1>5, <2>1, Few
<1>7. CASE Goto(h, Idle)
  BY <1>1, <1>3, <1>4, <1>7, FollowingFrame
<1>8. ASSUME NEW c, isProposalPending(word, p), c = incrementApprovalWithCheck(word, p, Threshold),
             Goto(h, ApproveAt(y, "approve.row", c.newState, c.isApproved))
      PROVE  Followed'
  <2> DEFINE ap == y.seen \union {y.who}
             v == c.newState
  <2>1. v \in Words /\ c.isApproved \in BOOLEAN
    BY <1>6, <1>8, WithCheckIs
  <2>2. getProposalStatus(word, p) = 1
    BY <1>8 DEF isProposalPending
  <2>3. /\ Shows(v, p, IF c.isApproved THEN "approved" ELSE "pending", ap)
        /\ HasCount(p) /\ ~c.isApproved => Cardinality(ap) < Threshold
        /\ SameBut(v, word, FieldOf(p))
    <3>1. CASE p > 3
      <4>1. v = word /\ ~c.isApproved
        BY <1>6, <1>8, <3>1, WithCheckIs
      <4>2. ~HasCount(p)
        BY <1>6, <3>1 DEF HasCount
      <4> HIDE DEF v
      <4> QED
        BY <2>2, <4>1, <4>2 DEF Shows, Code, SameBut
    <3>2. CASE p <= 3
      <4>1. HasCount(p) /\ Threshold \in 1 .. 2
        BY <1>6, <3>2, PolicyConstants DEF HasCount
      <4>2. IsFiniteSet(y.seen) /\ y.who \notin y.seen
        BY <1>4, <1>5, RowIs
      <4>3. Cardinality(ap) = Cardinality(y.seen) + 1 /\ Cardinality(y.seen) \in Nat
        BY <4>2, FS_AddElement, FS_CardinalityType
      <4>4. Cardinality(y.seen) < Threshold
        BY <1>4, <1>5, <4>1
      <4>5. getApprovalCount(word, p) = Cardinality(y.seen)
        BY <1>4, <1>5, <4>1 DEF ShowsAll, ShowsRow, Shows
      <4>6. getApprovalCount(word, p) < 15
        BY <4>1, <4>3, <4>4, <4>5
      <4>7. /\ SameBut(v, word, {2 * p, 2 * p + 1} \union 16 + 4 * p .. 19 + 4 * p)
            /\ getApprovalCount(v, p) = getApprovalCount(word, p) + 1
            /\ c.isApproved <=> getApprovalCount(v, p) >= Threshold
            /\ getProposalStatus(v, p) = IF c.isApproved THEN 2 ELSE getProposalStatus(word, p)
        BY <1>6, <1>8, <3>2, <4>6, WithCheckIs
      <4> HIDE DEF v, ap
      <4>8. SameBut(v, word, FieldOf(p))
        BY <4>1, <4>7 DEF FieldOf
      <4>9. getApprovalCount(v, p) = Cardinality(ap)
        BY <4>3, <4>5, <4>7
      <4>10. ~c.isApproved => Cardinality(ap) < Threshold
        BY <4>1, <4>3, <4>7, <4>9
      <4>11. getProposalStatus(v, p) = Code(IF c.isApproved THEN "approved" ELSE "pending")
        BY <2>2, <4>7 DEF Code
      <4> QED
        BY <4>8, <4>9, <4>10, <4>11 DEF Shows
    <3> QED
      BY <1>6, <3>1, <3>2
  <2>4. ShowsCycles(v, Len(rows), unlocked)
    BY <1>4, <1>6, <2>3, CyclesElsewhere DEF ShowsAll
  <2>5. \A r \in 1 .. Len(rows) : r # p => ShowsRow(v, rows, r)
    <3>1. \A r \in 1 .. Len(rows) : r \in 1 .. 9
      BY Few DEF Lone
    <3> HIDE DEF v
    <3> QED
      BY <1>4, <1>6, <2>3, <3>1, ShowsElsewhere DEF ShowsAll, ShowsRow
  <2>6. PICK x : x = ApproveAt(y, "approve.row", v, c.isApproved)
    OBVIOUS
  <2> HIDE DEF v
  <2>7. x \in ApproveHandlers
    BY <1>3, <2>1, <2>6 DEF ApproveHandlers, ApproveAt
  <2>8. x \in Handlers /\ x # Idle
    BY <2>7, IdleConstant DEF ApproveHandlers, Handlers
  <2>9. /\ x.op = "approve.row" /\ x.word = v /\ x.done = c.isApproved /\ x.row = p
        /\ x.seen \union {x.who} = ap
    BY <1>5, <2>6 DEF ApproveAt
  <2> HIDE DEF ap
  <2>10. Follows(x, word, rows, unlocked)
    BY <2>3, <2>4, <2>5, <2>9 DEF Follows
  <2>11. Goto(h, x)
    BY <1>8, <2>6 DEF v
  <2> QED
    BY <1>1, <1>3, <1>4, <2>8, <2>10, <2>11, FollowingFrame
<1> QED
  BY <1>1, <1>2, <1>7, <1>8, ApproveVaultIs

\* The row catches up with the word the approval has computed.
LEMMA ApproveRowFollows ==
  ASSUME Typed, Numbered, Alone, NEW h \in Slots, Lone(h, handler[h]), ApproveRow(h)
  PROVE  Followed'
<1>1. PICK y : y = handler[h]
  OBVIOUS
<1>2. PICK x : x = ApproveAt(y, "approve.write", y.word, y.done)
  OBVIOUS
<1>3. PICK st : st = IF y.done THEN "approved" ELSE "pending"
  OBVIOUS
<1>4. PICK ap : ap = y.seen \union {y.who}
  OBVIOUS
<1>5. /\ y # Idle /\ y \in ApproveHandlers /\ y.op = "approve.row" /\ Goto(h, x)
      /\ RowWritten(y.row, st, ap) /\ UNCHANGED <<word, unlocked>>
  BY <1>1, <1>2, <1>3, <1>4, ApproveRowIs DEF history
<1>6. /\ Shows(y.word, y.row, st, ap) /\ ShowsCycles(y.word, Len(rows), unlocked)
      /\ HasCount(y.row) /\ ~y.done => Cardinality(ap) < Threshold
      /\ \A r \in 1 .. Len(rows) : r # y.row => ShowsRow(y.word, rows, r)
      /\ clean
      /\ \A r \in 1 .. Len(rows) :
           rows[r].status = "pending" /\ HasCount(r) => Cardinality(rows[r].approvals) < Threshold
  BY <1>1, <1>3, <1>4, <1>5 DEF Lone, Follows
<1>7. x \in ApproveHandlers
  BY <1>2, <1>5 DEF ApproveHandlers, ApproveAt
<1>8. x \in Handlers /\ x # Idle
  BY <1>7, IdleConstant DEF ApproveHandlers, Handlers
<1>9. x.op = "approve.write" /\ x.word = y.word
  BY <1>2 DEF ApproveAt
<1>10. /\ Len(rows') = Len(rows) /\ rows'[y.row].status = st /\ rows'[y.row].approvals = ap
       /\ \A r \in 1 .. Len(rows) : r # y.row => rows'[r] = rows[r]
  BY <1>5 DEF RowWritten
<1>11. ShowsAll(y.word, rows', unlocked)
  BY <1>6, <1>10 DEF ShowsAll, ShowsRow
<1>12. Follows(x, word', rows', unlocked')
  BY <1>5, <1>9, <1>11 DEF Follows
<1>13. \A r \in 1 .. Len(rows') : rows'[r].status = "pending" /\ HasCount(r) =>
         Cardinality(rows'[r].approvals) < Threshold
  BY <1>3, <1>6, <1>10
<1> QED
  BY <1>1, <1>5, <1>6, <1>8, <1>12, <1>13, FollowingFrame

\* The row is executed and the word not yet.
LEMMA MarkRowFollows ==
  ASSUME Typed, Numbered, Alone, NEW h \in Slots, Lone(h, handler[h]), MarkRow(h)
  PROVE  Followed'
<1>1. PICK y : y = handler[h]
  OBVIOUS
<1>2. PICK x : x = MarkAt(y, "mark.write")
  OBVIOUS
<1>3. /\ y # Idle /\ y \in MarkHandlers /\ y.op = "mark.row" /\ y.row \in 1 .. Len(rows) /\ Goto(h, x)
      /\ RowWritten(y.row, "executed", rows[y.row].approvals) /\ UNCHANGED <<word, unlocked>>
  BY <1>1, <1>2, MarkRowIs DEF history
<1>4. /\ y.word = word /\ ShowsAll(word, rows, unlocked) /\ clean
      /\ \A r \in 1 .. Len(rows) :
           rows[r].status = "pending" /\ HasCount(r) => Cardinality(rows[r].approvals) < Threshold
  BY <1>1, <1>3 DEF Lone, Follows
<1>5. x \in MarkHandlers
  BY <1>2, <1>3 DEF MarkHandlers, MarkAt
<1>6. x \in Handlers /\ x # Idle
  BY <1>5, IdleConstant DEF MarkHandlers, Handlers
<1>7. x.op = "mark.write" /\ x.word = y.word /\ x.row = y.row
  BY <1>2 DEF MarkAt
<1>8. /\ Len(rows') = Len(rows) /\ rows'[y.row].status = "executed"
      /\ rows'[y.row].approvals = rows[y.row].approvals
      /\ \A r \in 1 .. Len(rows) : r # y.row => rows'[r] = rows[r]
  BY <1>3 DEF RowWritten
<1>9. HasCount(y.row) => getApprovalCount(word, y.row) = Cardinality(rows'[y.row].approvals)
  BY <1>3, <1>4, <1>8 DEF ShowsAll, ShowsRow, Shows
<1>10. \A r \in 1 .. Len(rows') : r # y.row => ShowsRow(word, rows', r)
  BY <1>4, <1>8 DEF ShowsAll, ShowsRow
<1>11. Follows(x, word, rows', unlocked)
  BY <1>4, <1>7, <1>8, <1>9, <1>10 DEF Follows, ShowsAll
<1>12. \A r \in 1 .. Len(rows') : rows'[r].status = "pending" /\ HasCount(r) =>
         Cardinality(rows'[r].approvals) < Threshold
  BY <1>4, <1>8
<1> QED
  BY <1>1, <1>3, <1>4, <1>6, <1>11, <1>12, FollowingFrame

\* The written word has the row as executed and keeps its count.
LEMMA MarkWriteFollows ==
  ASSUME Typed, Numbered, Alone, NEW h \in Slots, NEW y, Lone(h, y),
         y.op = "mark.write", y \in MarkHandlers,
         Wrote(h, setProposalExecuted(y.word, rows[y.row].number)), UNCHANGED unlocked
  PROVE  Followed'
<1>1. PICK i : i = y.row
  OBVIOUS
<1>2. /\ y.word = word /\ rows[i].status = "executed" /\ i \in 1 .. Len(rows) /\ rows[i].number = i
      /\ HasCount(i) => getApprovalCount(word, i) = Cardinality(rows[i].approvals)
      /\ ShowsCycles(word, Len(rows), unlocked)
      /\ \A r \in 1 .. Len(rows) : r # i => ShowsRow(word, rows, r)
  BY <1>1 DEF Lone, Follows, Placed
<1>3. Len(rows) \in 0 .. 9 /\ word \in Words
  BY Few DEF Typed, Lone
<1>4. i \in 1 .. 9 /\ i \in Nat /\ i <= Len(rows) /\ \A r \in 1 .. Len(rows) : r \in 1 .. 9
  BY <1>2, Few DEF Lone
<1>5. PICK v : v = setProposalExecuted(word, i)
  OBVIOUS
<1>6. SameBut(v, word, {2 * i, 2 * i + 1}) /\ getProposalStatus(v, i) = 3
  <2>1. i <= 15
    BY <1>4
  <2> QED
    BY ONLY <1>3, <1>4, <1>5, <2>1, ExecutedIs
<1>7. /\ SameBut(v, word, FieldOf(i))
      /\ HasCount(i) => getApprovalCount(v, i) = getApprovalCount(word, i)
  BY <1>4, <1>6, CountKept
<1>8. ShowsRow(v, rows, i)
  BY <1>2, <1>6, <1>7 DEF ShowsRow, Shows, Code
<1>9. \A r \in 1 .. Len(rows) : r # i => ShowsRow(v, rows, r)
  BY <1>2, <1>4, <1>7, ShowsElsewhere DEF ShowsRow
<1>10. ShowsCycles(v, Len(rows), unlocked)
  BY <1>2, <1>3, <1>4, <1>7, CyclesElsewhere
<1>11. ShowsAll(v, rows, unlocked)
  BY <1>8, <1>9, <1>10 DEF ShowsAll
<1>12. /\ handler[h] # Idle /\ Goto(h, Idle) /\ word' = v /\ rows' = rows /\ clean
       /\ \A r \in 1 .. Len(rows) :
            rows[r].status = "pending" /\ HasCount(r) => Cardinality(rows[r].approvals) < Threshold
  BY <1>1, <1>2, <1>5 DEF Wrote, Lone
<1> QED
  BY <1>11, <1>12, FollowingFrame

\* The written word has the cycle, in a bit that no row uses.
LEMMA UnlockWriteFollows ==
  ASSUME Typed, Numbered, Alone, NEW h \in Slots, NEW y, Lone(h, y),
         y.op = "unlock.write", y \in UnlockHandlers,
         Wrote(h, setCycleUnlocked(y.word, y.cycle)), unlocked' = unlocked \union {y.cycle},
         Unshared(Len(rows'), unlocked')
  PROVE  Followed'
<1>1. PICK c : c = y.cycle
  OBVIOUS
<1>2. c \in Due /\ (HasFlag(c) => c \div 2 \notin 1 .. Len(rows)) /\ rows' = rows
  BY <1>1 DEF UnlockHandlers, Unshared, Wrote
<1>3. Len(rows) \in 0 .. 9 /\ word \in Words
  BY Few DEF Typed, Lone
<1>4. y.word = word /\ ShowsAll(word, rows, unlocked)
  BY DEF Lone, Follows
<1>5. PICK v : v = setCycleUnlocked(word, c)
  OBVIOUS
<1>6. \A r \in 1 .. Len(rows) : ShowsRow(v, rows, r)
  BY <1>2, <1>3, <1>4, <1>5, UnlockShows DEF ShowsAll, ShowsRow
<1>7. ShowsCycles(v, Len(rows), unlocked')
  BY <1>1, <1>2, <1>3, <1>4, <1>5, UnlockShows DEF ShowsAll
<1>8. ShowsAll(v, rows, unlocked')
  BY <1>6, <1>7 DEF ShowsAll
<1>9. /\ handler[h] # Idle /\ Goto(h, Idle) /\ word' = v /\ rows' = rows /\ clean
      /\ \A r \in 1 .. Len(rows) :
           rows[r].status = "pending" /\ HasCount(r) => Cardinality(rows[r].approvals) < Threshold
  BY <1>1, <1>4, <1>5 DEF Wrote, Lone
<1> QED
  BY <1>8, <1>9, FollowingFrame

\* The written word is the one the approval has computed.
LEMMA ApproveWriteFollows ==
  ASSUME Typed, Numbered, Alone, NEW h \in Slots, NEW y, Lone(h, y),
         y.op = "approve.write", Wrote(h, y.word), UNCHANGED unlocked
  PROVE  Followed'
<1>1. ShowsAll(y.word, rows, unlocked)
  BY DEF Lone, Follows
<1>2. /\ handler[h] # Idle /\ Goto(h, Idle) /\ word' = y.word /\ rows' = rows /\ clean
      /\ \A r \in 1 .. Len(rows) :
           rows[r].status = "pending" /\ HasCount(r) => Cardinality(rows[r].approvals) < Threshold
  BY DEF Wrote, Lone
<1> QED
  BY <1>1, <1>2, FollowingFrame


\* Every step of a handler that runs alone keeps word, handler and rows in agreement.
LEMMA FollowingStep == IInv /\ [Next]_vars => Following'
<1> SUFFICES ASSUME Typed, Numbered, Counted, Alone, Following, [Next]_vars,
                    clean', Unshared(Len(rows'), unlocked')
             PROVE  Followed'
  BY DEF IInv, Following
<1>1. /\ Len(rows) \in Nat /\ Len(rows') \in Nat /\ Len(rows) <= Len(rows')
      /\ unlocked \subseteq unlocked' /\ clean
  BY TypedStep, Grows DEF Typed
<1>2. Unshared(Len(rows), unlocked)
  <2>1. Len(rows) <= 9
    BY <1>1 DEF Unshared
  <2>2. \A k : k \notin 1 .. Len(rows') => k \notin 1 .. Len(rows)
    BY <1>1
  <2> QED
    BY <1>1, <2>1, <2>2 DEF Unshared
<1>3. Followed
  BY <1>1, <1>2 DEF Following
<1>4. ASSUME NEW h \in Slots, handler[h] # Idle
      PROVE  Lone(h, handler[h])
  BY <1>1, <1>2, <1>3, <1>4, Active DEF Lone, Followed, Numbered, Alone, Unshared
<1>5. ASSUME NEW h \in Slots, NEW x, Began(h, x)
      PROVE  Followed'
  <2>1. quiet /\ x \in Handlers /\ Goto(h, x) /\ UNCHANGED <<word, rows, unlocked>>
    BY <1>5, Zenon DEF Began, quiet
  <2>2. /\ ShowsAll(word, rows, unlocked)
        /\ \A r \in 1 .. Len(rows) :
             rows[r].status = "pending" /\ HasCount(r) => Cardinality(rows[r].approvals) < Threshold
    BY <1>3, <2>1 DEF Followed
  <2>3. Follows(x, word, rows, unlocked)
    <3>1. CASE NewCreate(x)
      BY <2>2, <3>1 DEF NewCreate, Follows
    <3>2. CASE NewApprove(x)
      BY <2>2, <3>2 DEF NewApprove, Follows
    <3>3. CASE NewMark(x)
      BY <2>2, <3>3 DEF NewMark, Follows
    <3>4. CASE NewUnlock(x)
      BY <2>2, <3>4 DEF NewUnlock, Follows
    <3> QED
      BY <1>5, <3>1, <3>2, <3>3, <3>4 DEF Began
  <2>4. handler'[h] = x /\ \A g \in Slots : g # h => handler'[g] = Idle
    BY <2>1, Moved DEF quiet
  <2>5. x # Idle
    BY <2>1, IdleConstant
  <2>6. quiet' => FALSE
    BY <2>4, <2>5 DEF quiet
  <2>7. \A g \in Slots : handler'[g] # Idle => Follows(handler'[g], word', rows', unlocked')
    BY <2>1, <2>3, <2>4
  <2> QED
    BY <2>1, <2>2, <2>6, <2>7 DEF Followed
<1>6. ASSUME NEW h \in Slots, CreateCount(h)
      PROVE  Followed'
  BY <1>4, <1>6, CreateCountIs, CreateCountFollows
<1>7. ASSUME NEW h \in Slots, CreateInsert(h)
      PROVE  Followed'
  BY <1>4, <1>7, CreateInsertIs, CreateInsertFollows DEF Unshared
<1>8. ASSUME NEW h \in Slots, ApproveVault(h)
      PROVE  Followed'
  BY <1>4, <1>8, ApproveVaultIs, ApproveVaultFollows
<1>9. ASSUME NEW h \in Slots, ApproveRow(h)
      PROVE  Followed'
  BY <1>4, <1>9, ApproveRowIs, ApproveRowFollows
<1>10. ASSUME NEW h \in Slots, MarkRow(h)
       PROVE  Followed'
  BY <1>4, <1>10, MarkRowIs, MarkRowFollows
<1>11. ASSUME NEW h \in Slots, CreateWrite(h) \/ ApproveWrite(h) \/ MarkWrite(h) \/ UnlockWrite(h)
       PROVE  Followed'
  <2>1. PICK y : y = handler[h]
    OBVIOUS
  <2>2. \/ /\ y \in CreateHandlers /\ y.op = "create.write"
           /\ Wrote(h, setProposalPending(y.word, y.number)) /\ UNCHANGED unlocked
        \/ /\ y.op = "approve.write"
           /\ Wrote(h, y.word) /\ UNCHANGED unlocked
        \/ /\ y \in MarkHandlers /\ y.op = "mark.write"
           /\ Wrote(h, setProposalExecuted(y.word, rows[y.row].number)) /\ UNCHANGED unlocked
        \/ /\ y \in UnlockHandlers /\ y.op = "unlock.write"
           /\ Wrote(h, setCycleUnlocked(y.word, y.cycle))
           /\ unlocked' = unlocked \union {y.cycle}
    BY <1>11, <2>1, WriteIs
  <2>3. handler[h] # Idle
    BY <2>2 DEF Wrote
  <2>4. Lone(h, y)
    BY <1>4, <2>1, <2>3
  <2> QED
    BY <2>2, <2>4, CreateWriteFollows, ApproveWriteFollows, MarkWriteFollows, UnlockWriteFollows
<1>12. CASE Outside
  <2>1. CASE UNCHANGED <<word, rows, handler, unlocked>>
    BY <1>3, <2>1 DEF Followed, quiet
  <2>2. UNCHANGED <<word, rows, handler, unlocked>>
    BY <1>12 DEF Outside, OpenSession, ConfirmCreate, Restart, vars, history
  <2> QED
    BY <2>1, <2>2
<1> QED
  BY <1>5, <1>6, <1>7, <1>8, <1>9, <1>10, <1>11, <1>12, Steps

-----------------------------------------------------------------------------
(* The invariant *)

\* The invariant holds when the server starts on a vault whose proposals were created one
\* after the other.
LEMMA InitIInv == Init => IInv
<1> SUFFICES ASSUME Init PROVE IInv
  OBVIOUS
<1>1. PICK n \in Backlogs :
        /\ word = {StatusShift(p) : p \in {q \in 1 .. n : HasStatus(q)}}
        /\ rows = [i \in 1 .. n |-> [number |-> i, status |-> "pending", approvals |-> {}]]
        /\ sessions = {}
        /\ handler = [h \in Slots |-> Idle]
        /\ calls = [p \in Numbers |-> 0]
        /\ approvers = [r \in 1 .. MaxRows |-> {}]
        /\ unlocked = {}
        /\ clean = TRUE
  BY DEF Init
<1>2. n \in Nat /\ n <= MaxRows /\ MaxRows \in Nat /\ Threshold \in 1 .. 2
  BY PolicyConstants
<1>3. word = {2 * p : p \in {q \in 1 .. n : q <= 15}}
  <2>1. \A p \in 1 .. n : HasStatus(p) <=> p <= 15
    BY <1>2 DEF HasStatus
  <2>2. \A p \in {q \in 1 .. n : q <= 15} : StatusShift(p) = 2 * p
    BY <1>2, Shifts
  <2> QED
    BY <1>1, <2>1, <2>2
<1>4. /\ Len(rows) = n /\ rows \in Seq(Row)
      /\ \A r \in 1 .. n : rows[r].number = r /\ rows[r].status = "pending" /\ rows[r].approvals = {}
  <2>1. \A i \in 1 .. n : [number |-> i, status |-> "pending", approvals |-> {}] \in Row
    BY <1>2 DEF Row, Numbers, RowStatuses
  <2>2. rows \in [1 .. n -> Row]
    BY <1>1, <2>1
  <2>3. rows \in Seq(Row) /\ Len(rows) = n
    BY <1>2, <2>2
  <2> QED
    BY <1>1, <2>3
<1>5. Typed
  <2>1. word \in Words
    BY <1>2, <1>3 DEF Words, WordBits
  <2> QED
    BY <1>1, <1>2, <1>4, <2>1 DEF Typed
<1>6. Numbered
  BY <1>1, <1>2, <1>4 DEF Numbered
<1>7. ASSUME n <= 9, NEW p \in 1 .. 3
      PROVE  getApprovalCount(word, p) = 0
  <2>1. \A j \in word : j < 20
    BY <1>2, <1>3, <1>7
  <2>2. \A j \in {16 + 4 * p, 17 + 4 * p, 18 + 4 * p, 19 + 4 * p} : j \notin word
    BY <2>1
  <2>3. CountAt(word, p) = 0
    BY <2>2 DEF CountAt, Bit
  <2> QED
    BY <2>3, CountIs
<1>8. ASSUME n <= 9
      PROVE  Real(word, calls)
  <2>1. \A p \in Numbers : HasCount(p) => p \in 1 .. 3
    BY <1>2 DEF Numbers, HasCount
  <2> QED
    BY <1>1, <1>7, <1>8, <2>1 DEF Real
<1>9. Counted
  BY <1>1, <1>4, <1>8 DEF Counted, NoSharedCounts
<1>10. Alone
  BY <1>1, <1>4 DEF Alone
<1>11. ASSUME n <= 9
       PROVE  ShowsAll(word, rows, unlocked)
  <2>1. ASSUME NEW r \in 1 .. n
        PROVE  ShowsRow(word, rows, r)
    <3>1. r \in 0 .. 15 /\ r \in 1 .. n /\ r \in Nat
      BY <1>2, <1>11
    <3>2. 2 * r \in word
      BY <1>3, <3>1
    <3>3. 2 * r + 1 \notin word
      BY <1>2, <1>3, <3>1
    <3>4. getProposalStatus(word, r) = 1
      BY <3>1, <3>2, <3>3, StatusIs DEF StatusAt, Bit
    <3>5. HasCount(r) => getApprovalCount(word, r) = 0
      BY <1>7, <1>11, <3>1 DEF HasCount
    <3> QED
      BY <1>4, <3>4, <3>5, FS_EmptySet DEF ShowsRow, Shows, Code
  <2>2. ASSUME NEW c \in Due, HasFlag(c), c \div 2 \notin 1 .. n
        PROVE  ~isCycleUnlocked(word, c)
    <3>1. c \in 0 .. 15
      BY <2>2 DEF HasFlag
    <3>2. c \notin word
      BY <1>2, <1>3, <2>2, <3>1
    <3> QED
      BY <3>2 DEF isCycleUnlocked
  <2> QED
    BY <1>1, <1>4, <2>1, <2>2 DEF ShowsAll, ShowsCycles
<1>12. Following
  <2>1. \A r \in 1 .. n : Cardinality(rows[r].approvals) < Threshold
    <3>1. Cardinality({}) = 0
      BY FS_EmptySet
    <3>2. \A r \in 1 .. n : Cardinality(rows[r].approvals) = 0
      BY <1>4, <3>1
    <3> QED
      BY <1>2, <3>2
  <2>2. \A h \in Slots : handler[h] = Idle
    BY <1>1
  <2> QED
    BY <1>4, <1>11, <2>1, <2>2 DEF Following, Followed, Unshared
<1> QED
  BY <1>5, <1>6, <1>9, <1>10, <1>12 DEF IInv

\* Every reachable state satisfies it.
LEMMA PolicyInvariant == Spec => []IInv
<1>1. IInv /\ [Next]_vars => IInv'
  BY TypedStep, NumberedStep, CountedStep, AloneStep, FollowingStep DEF IInv
<1> QED
  BY InitIInv, <1>1, PTL DEF Spec

-----------------------------------------------------------------------------
(* The theorems *)

\* Types: words are words of 32 bits, and handlers, sessions and rows are what they
\* should be.
THEOREM PolicyTypeOK == Spec => []TypeOK
<1>1. IInv => TypeOK
  <2>1. Typed => \A h \in Slots : handler[h] = Idle \/ handler[h] \in Handlers
    BY DEF Typed
  <2>2. Typed => RowIds = 1 .. Len(rows)
    BY DEF Typed, RowIds
  <2> QED
    BY <2>1, <2>2 DEF IInv, Typed, TypeOK
<1> QED
  BY PolicyInvariant, <1>1, PTL

\* However handlers overlap, a restart loses them or a confirmation is late, a proposal is
\* approved only after as many approvals were counted for its number as the threshold
\* asks for.
THEOREM PolicyApprovedWasCounted == Spec => []ApprovedWasCounted
<1>1. IInv => ApprovedWasCounted
  BY DEF IInv, Counted, ApprovedWasCounted, Typed, RowIds
<1> QED
  BY PolicyInvariant, <1>1, PTL

\* As long as handlers run one at a time, to their end, and no two fields in use share a
\* bit, the word says of every proposal and every cycle what the rows and the unlocks say.
THEOREM PolicyWordMatchesRows == Spec => []WordMatchesRows
<1>1. IInv => WordMatchesRows
  <2> SUFFICES ASSUME Typed, Alone, Following, clean, quiet, NoSharedCounts, NoSharedStatus
               PROVE  /\ \A r \in RowIds :
                           LET row == rows[r]
                           IN  /\ getProposalStatus(word, row.number) = Code(row.status)
                               /\ HasCount(row.number) =>
                                    getApprovalCount(word, row.number) = Cardinality(row.approvals)
                      /\ \A c \in Due :
                           HasFlag(c) /\ c \div 2 \notin Used =>
                             (isCycleUnlocked(word, c) <=> c \in unlocked)
    BY DEF IInv, WordMatchesRows
  <2>1. RowIds = 1 .. Len(rows) /\ \A r \in RowIds : rows[r].number = r
    BY DEF RowIds, Typed, Alone
  <2>2. Used = 1 .. Len(rows)
    BY <2>1 DEF Used
  <2>3. Unshared(Len(rows), unlocked)
    BY <2>2 DEF Unshared, NoSharedCounts, NoSharedStatus
  <2>4. ShowsAll(word, rows, unlocked)
    BY <2>3 DEF Following, Followed
  <2> QED
    BY <2>1, <2>2, <2>4 DEF ShowsAll, ShowsRow, Shows, ShowsCycles
<1> QED
  BY PolicyInvariant, <1>1, PTL

\* One row and its successor.
Advances(r) ==
  Code(rows[r].status) <= Code(rows'[r].status) /\ rows[r].approvals \subseteq rows'[r].approvals

\* As long as handlers run one at a time a proposal never goes back: it does not lose an
\* approval, and executed is final.
THEOREM PolicyRowsOnlyAdvance == Spec => RowsOnlyAdvance
<1>1. IInv /\ [Next]_vars => (clean' => \A r \in RowIds : Advances(r))
  <2> SUFFICES ASSUME Typed, Numbered, Alone, [Next]_vars, clean', NEW r \in 1 .. Len(rows)
               PROVE  Advances(r)
    BY DEF IInv, RowIds, Typed
  <2>0. clean /\ \A s : Code(s) \in 1 .. 3
    BY Grows DEF Code
  <2>1. CASE rows'[r] = rows[r]
    BY <2>0, <2>1 DEF Advances
  <2>2. ASSUME NEW h \in Slots
        PROVE  /\ \A x : Began(h, x) => rows'[r] = rows[r]
               /\ CreateCount(h) \/ CreateInsert(h) \/ ApproveVault(h) => rows'[r] = rows[r]
               /\ CreateWrite(h) \/ ApproveWrite(h) \/ MarkWrite(h) \/ UnlockWrite(h) => rows'[r] = rows[r]
    <3>1. \A x : Began(h, x) => rows'[r] = rows[r]
      BY Zenon DEF Began
    <3>2. CreateCount(h) \/ CreateInsert(h) \/ ApproveVault(h) => rows'[r] = rows[r]
      BY CreateInsertIs DEF CreateCount, ApproveVault
    <3>3. CreateWrite(h) \/ ApproveWrite(h) \/ MarkWrite(h) \/ UnlockWrite(h) => rows'[r] = rows[r]
      BY WriteIs DEF Wrote
    <3> QED
      BY <3>1, <3>2, <3>3
  <2>3. ASSUME NEW h \in Slots, ApproveRow(h)
        PROVE  Advances(r)
    <3>1. PICK y : y = handler[h]
      OBVIOUS
    <3>2. /\ y # Idle /\ y.op = "approve.row"
          /\ RowWritten(y.row, IF y.done THEN "approved" ELSE "pending", y.seen \union {y.who})
      BY <2>3, <3>1, ApproveRowIs
    <3>3. Knows(y, rows)
      BY <2>0, <3>1, <3>2 DEF Alone
    <3>4. CASE r = y.row
      <4>1. rows[r].status = "pending" /\ rows[r].approvals = y.seen
        BY <3>2, <3>3, <3>4 DEF Knows
      <4>2. rows'[r].approvals = y.seen \union {y.who}
        BY <3>2, <3>4 DEF RowWritten
      <4>3. Code("pending") = 1
        BY DEF Code
      <4> QED
        BY <2>0, <4>1, <4>2, <4>3 DEF Advances
    <3> QED
      BY <2>1, <3>2, <3>4 DEF RowWritten
  <2>4. ASSUME NEW h \in Slots, MarkRow(h)
        PROVE  Advances(r)
    <3>1. PICK i : RowWritten(i, "executed", rows[i].approvals)
      BY <2>4, MarkRowIs
    <3>2. CASE r = i
      <4>1. rows'[r].status = "executed" /\ rows'[r].approvals = rows[r].approvals
        BY <3>1, <3>2 DEF RowWritten
      <4>2. Code("executed") = 3
        BY DEF Code
      <4> QED
        BY <2>0, <4>1, <4>2 DEF Advances
    <3> QED
      BY <2>1, <3>1, <3>2 DEF RowWritten
  <2>5. Outside => rows'[r] = rows[r]
    BY DEF Outside, OpenSession, ConfirmCreate, Restart, vars
  <2> QED
    BY <2>1, <2>2, <2>3, <2>4, <2>5, Steps
<1>2. IInv /\ [Next]_vars => [clean' => RowsAdvance]_vars
  BY <1>1 DEF Advances, RowsAdvance
<1> QED
  BY PolicyInvariant, <1>2, PTL DEF Spec, RowsOnlyAdvance

=============================================================================
