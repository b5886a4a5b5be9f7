------------------------------ MODULE StateBits -----------------------------
(***************************************************************************)
(* backend/src/services/state-service.ts: the policy word of a vault.      *)
(*                                                                         *)
(* The word records which cycles are unlocked, the status of each proposal *)
(* and its approval count.  JavaScript's bitwise operators work on 32-bit  *)
(* integers and take a shift count modulo 32, so a word is the set of its  *)
(* bits, 0 .. 31, and a shift by 32 + 2 * p is a shift by 2 * p modulo 32. *)
(***************************************************************************)
EXTENDS Integers, FiniteSets

WordBits == 0 .. 31
Words == SUBSET WordBits

\* Mutant of StatusShift: the field sits where the comment on the layout puts
\* it, in bits the word does not have.
StatusShiftWide(p) == 32 + 2 * p

\* The bits of a status: 1 = pending, 2 = approved, 3 = executed.
StatusShift(p) == (32 + 2 * p) % 32
StatusBits(p) == {StatusShift(p), StatusShift(p) + 1}
HasStatus(p) == p \in 0 .. 15

\* The bits of an approval count, which only the first four numbers have.
CountShift(p) == (48 + 4 * p) % 32
CountBits(p) == CountShift(p) .. CountShift(p) + 3
HasCount(p) == p \in 0 .. 3

\* The value of the low `width` bits of a word shifted right by `shift`.
Bit(word, i) == IF i \in word THEN 1 ELSE 0
TwoBits(word, shift) == Bit(word, shift) + 2 * Bit(word, shift + 1)
Nibble(word, shift) == TwoBits(word, shift) + 4 * TwoBits(word, shift + 2)

\* The flags of the first 16 cycles; a later cycle has none.
HasFlag(c) == c \in 0 .. 15
isCycleUnlocked(word, c) == HasFlag(c) /\ c \in word
setCycleUnlocked(word, c) == IF HasFlag(c) THEN word \union {c} ELSE word

getProposalStatus(word, p) ==
  IF HasStatus(p) THEN TwoBits(word, StatusShift(p)) ELSE 0
isProposalPending(word, p) == getProposalStatus(word, p) = 1
isProposalApproved(word, p) == getProposalStatus(word, p) = 2

setProposalPending(word, p) ==
  IF HasStatus(p) THEN word \union {StatusShift(p)} ELSE word

\* Mutant of setProposalApproved: the pending bit stays set.
setProposalApprovedOver(word, p) ==
  IF HasStatus(p) THEN word \union {StatusShift(p) + 1} ELSE word

setProposalApproved(word, p) ==
  IF HasStatus(p) THEN (word \ StatusBits(p)) \union {StatusShift(p) + 1} ELSE word
setProposalExecuted(word, p) ==
  IF HasStatus(p) THEN word \union StatusBits(p) ELSE word

getApprovalCount(word, p) ==
  IF HasCount(p) THEN Nibble(word, CountShift(p)) ELSE 0

\* The word with an approval count written over the old one.
withCount(word, p, n) ==
  (word \ CountBits(p)) \union
    {i \in CountBits(p) : (n \div 2 ^ (i - CountShift(p))) % 2 = 1}

incrementApproval(word, p) ==
  LET n == getApprovalCount(word, p) + 1
  IN  IF HasCount(p) /\ n <= 15 THEN withCount(word, p, n) ELSE word

\* Mutant of incrementApprovalWithCheck: the new approval is counted twice.
incrementApprovalEarly(word, p, threshold) ==
  LET counted == incrementApproval(word, p)
      enough == getApprovalCount(counted, p) + 1 >= threshold
  IN  [newState |-> IF enough THEN setProposalApproved(counted, p) ELSE counted,
       isApproved |-> enough]

\* The word after one more approval, and whether the threshold is reached.
incrementApprovalWithCheck(word, p, threshold) ==
  LET counted == incrementApproval(word, p)
      enough == getApprovalCount(counted, p) >= threshold
  IN  [newState |-> IF enough /\ ~isProposalApproved(counted, p)
                    THEN setProposalApproved(counted, p)
                    ELSE counted,
       isApproved |-> enough]
=============================================================================
