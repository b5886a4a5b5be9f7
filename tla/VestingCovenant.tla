--------------------------- MODULE VestingCovenant --------------------------
(***************************************************************************)
(* contracts/core/streaming: VestingCovenant (LINEAR and STEP), Hybrid-    *)
(* VestingCovenant and TrancheVestingCovenant.                             *)
(*                                                                         *)
(* A stream is one UTXO that holds satoshis or tokens.  Its commitment     *)
(* records what was released, a cursor (the start of the schedule, moved   *)
(* forward by every pause) and when a pause began.  Every function but     *)
(* transfer() enforces the transaction's locktime, which is therefore in   *)
(* the past; how far back is the builder's choice.                         *)
(*                                                                         *)
(* As in VaultCovenant, every function reads the transaction's FIRST input *)
(* and none asks which input it is evaluated for: the stream as the first  *)
(* input is one action per function, as a later one it is asLaterInput.    *)
(***************************************************************************)
EXTENDS VestingSchedules

CONSTANTS
  Start,         \* startTimestamp
  Cliff,         \* cliffTimestamp, 0 = none (LINEAR and STEP)
  Recipients,    \* who may be or become the recipient
  Reserve,       \* satoshis a BCH stream is funded with beyond its total
  MaxFee,        \* 5000 satoshis in the contracts
  LocktimeFloor, \* 500000000: smaller locktimes are block heights
  Genesis,       \* when the stream is funded
  Lag,           \* how far behind the chain a builder dates a transaction
  MaxTime,       \* bound of the model: the clock stops here
  MaxPauses      \* bound of the model

ASSUME VestingConstants ==
  /\ {Start, Cliff, Reserve, MaxFee, LocktimeFloor, Genesis, Lag, MaxTime, MaxPauses}
       \subseteq Nat
  /\ Recipients # {}
  /\ LocktimeFloor > 0
  /\ Reserve <= MaxFee

VARIABLES
  kind,          \* which of the schedules
  flags,         \* byte 1 of the commitment: cancelable, transferable, tokens
  status,        \* byte 0 of the commitment, or how the UTXO was consumed
  totalReleased, \* bytes 2-9
  cursor,        \* bytes 10-14
  pauseStart,    \* bytes 15-19
  recipient,     \* bytes 20-39
  held,          \* tokens of the UTXO, or its satoshis
  now,           \* the chain's median time past
  idle,          \* history: how long the stream has been paused
  pauses,        \* history: how often
  released,      \* history: what recipients received
  returned,      \* history: what the sender got back
  burned,        \* history: what no output of the contract claims (miner fees)
  laterInput     \* history: the stream was spent as a later input than the first

stream == <<kind, flags, recipient>>
history == <<idle, pauses, released, returned, burned, laterInput>>
vars == <<stream, status, totalReleased, cursor, pauseStart, held, now, history>>

Flags == {"cancelable", "transferable", "tokens"}
Live == {"ACTIVE", "PAUSED"}

TypeOK ==
  /\ kind \in Kinds
  /\ flags \in SUBSET Flags
  /\ status \in Live \union {"CANCELLED", "COMPLETED"}
  /\ totalReleased \in 0 .. Total
  /\ cursor \in Nat /\ pauseStart \in Nat
  /\ status = "ACTIVE" => pauseStart = 0
  /\ status = "PAUSED" => pauseStart > 0
  /\ recipient \in Recipients
  /\ {held, now, idle, pauses, released, returned, burned} \subseteq Nat
  /\ laterInput \in BOOLEAN

\* The commitment StreamDeploymentService creates and the output StreamFunding-
\* Service funds: tokens have no reserve, satoshis have one.
Init ==
  /\ kind \in Kinds
  /\ flags \in SUBSET Flags
  /\ status = "ACTIVE"
  /\ totalReleased = 0
  /\ cursor = Start
  /\ pauseStart = 0
  /\ recipient \in Recipients
  /\ held = IF "tokens" \in flags THEN Total ELSE Total + Reserve
  /\ now = Genesis
  /\ idle = 0 /\ pauses = 0 /\ released = 0 /\ returned = 0 /\ burned = 0
  /\ laterInput = FALSE

-----------------------------------------------------------------------------
EnforcedLocktimes == {t \in LocktimeFloor .. now : t + Lag >= now}
Fees == IF "tokens" \in flags THEN {0} ELSE 0 .. MaxFee
Positive(n) == IF n > 0 THEN n ELSE 0

\* A transaction whose first input is the stream pays the recipient and the sender
\* and leaves `fee` to the miner.
Pay(toRecipient, toSender, fee) ==
  /\ ~laterInput /\ laterInput' = laterInput
  /\ fee >= 0 /\ toRecipient + toSender + fee <= held
  /\ held' = held - toRecipient - toSender - fee
  /\ released' = released + toRecipient
  /\ returned' = returned + toSender
  /\ burned' = burned + fee

\* A transaction that consumes the UTXO without replacing it.
Consume(toRecipient, toSender) == Pay(toRecipient, toSender, held - toRecipient - toSender)

CliffPassed(t) == kind \in {"LINEAR", "STEP"} /\ Cliff > 0 => t >= Cliff

claim(t, fee) ==
  LET claimable == Vested(kind, t - cursor) - totalReleased
  IN  /\ status = "ACTIVE"
      /\ t \in EnforcedLocktimes
      /\ CliffPassed(t)
      /\ claimable > 0
      /\ totalReleased' = totalReleased + claimable
      /\ status' = IF totalReleased' >= Total THEN "COMPLETED" ELSE "ACTIVE"
      /\ pauseStart' = 0
      /\ Pay(claimable, 0, fee)
      /\ UNCHANGED <<stream, cursor, now, idle, pauses>>

\* Mutant of Ended: tranches too are compared on the chain's clock.
EndedUnshifted(t) ==
  IF kind = "TRANCHE" THEN t - Start >= Tranches[Len(Tranches)].after
                      ELSE t >= Start + Duration

\* The last unlock point on the shifted clock for tranches, endTimestamp on the
\* chain's clock, pauses or not, for the others.
Ended(t) ==
  IF kind = "TRANCHE" THEN t - cursor >= Tranches[Len(Tranches)].after
                      ELSE t >= Start + Duration

\* Anybody may complete a stream; only VestingCovenant bounds the fee.
complete(t) ==
  LET remaining == Total - totalReleased
  IN  /\ status \in Live
      /\ t \in EnforcedLocktimes
      /\ Ended(t)
      /\ kind \in {"LINEAR", "STEP"} => held - remaining <= MaxFee
      /\ status' = "COMPLETED"
      /\ Consume(remaining, 0)
      /\ UNCHANGED <<stream, totalReleased, cursor, pauseStart, now, idle, pauses>>

pause(t, fee) ==
  /\ "cancelable" \in flags
  /\ status = "ACTIVE"
  /\ t \in EnforcedLocktimes
  /\ pauses < MaxPauses
  /\ status' = "PAUSED"
  /\ pauseStart' = t
  /\ pauses' = pauses + 1
  /\ Pay(0, 0, fee)
  /\ UNCHANGED <<stream, totalReleased, cursor, now, idle>>

\* Mutant of resume: the cursor stays where it was.
resumeForgets(t, fee) ==
  /\ status = "PAUSED"
  /\ t \in EnforcedLocktimes
  /\ t > pauseStart
  /\ status' = "ACTIVE"
  /\ cursor' = cursor
  /\ pauseStart' = 0
  /\ Pay(0, 0, fee)
  /\ UNCHANGED <<stream, totalReleased, now, idle, pauses>>

\* Mutant of resume: the pause's beginning is not cleared.
resumeKeepsStart(t, fee) ==
  /\ status = "PAUSED"
  /\ t \in EnforcedLocktimes
  /\ t > pauseStart
  /\ status' = "ACTIVE"
  /\ cursor' = cursor + (t - pauseStart)
  /\ pauseStart' = pauseStart
  /\ Pay(0, 0, fee)
  /\ UNCHANGED <<stream, totalReleased, now, idle, pauses>>

\* Mutant of resume: the schedule starts over.
resumeRestarts(t, fee) ==
  /\ status = "PAUSED"
  /\ t \in EnforcedLocktimes
  /\ t > pauseStart
  /\ status' = "ACTIVE"
  /\ cursor' = t
  /\ pauseStart' = 0
  /\ Pay(0, 0, fee)
  /\ UNCHANGED <<stream, totalReleased, now, idle, pauses>>

resume(t, fee) ==
  /\ status = "PAUSED"
  /\ t \in EnforcedLocktimes
  /\ pauseStart > 0 /\ t > pauseStart
  /\ status' = "ACTIVE"
  /\ cursor' = cursor + (t - pauseStart)
  /\ pauseStart' = 0
  /\ Pay(0, 0, fee)
  /\ UNCHANGED <<stream, totalReleased, now, idle, pauses>>

\* Mutant of cancel: the sender gets back everything that was not claimed.
cancelUnclaimed(t) ==
  /\ "cancelable" \in flags
  /\ status \in Live
  /\ t \in EnforcedLocktimes
  /\ status' = "CANCELLED"
  /\ Consume(0, Total - totalReleased)
  /\ UNCHANGED <<stream, totalReleased, cursor, pauseStart, now, idle, pauses>>

\* The split at the locktime; time since pauseStart counts as elapsed.
cancel(t) ==
  LET vested == Vested(kind, t - cursor)
  IN  /\ "cancelable" \in flags
      /\ status \in Live
      /\ t \in EnforcedLocktimes
      /\ status' = "CANCELLED"
      /\ Consume(Positive(vested - totalReleased), Positive(Total - vested))
      /\ UNCHANGED <<stream, totalReleased, cursor, pauseStart, now, idle, pauses>>

\* Mutant of transfer: a paused stream can change hands.
transferPaused(r) ==
  /\ "transferable" \in flags
  /\ status \in Live
  /\ recipient' = r
  /\ \E fee \in Fees : Pay(0, 0, fee)
  /\ UNCHANGED <<kind, flags, status, totalReleased, cursor, pauseStart, now, idle, pauses>>

\* The recipient hands the stream on.  VestingCovenant compares neither the
\* tokens of the new UTXO with the old one's nor the number of outputs.
transfer(r) ==
  /\ "transferable" \in flags
  /\ status = "ACTIVE"
  /\ recipient' = r
  /\ IF "tokens" \in flags /\ kind \in {"LINEAR", "STEP"}
     THEN \E out \in 0 .. held : Pay(out, 0, 0)
     ELSE \E fee \in Fees : Pay(0, 0, fee)
  /\ UNCHANGED <<kind, flags, status, totalReleased, cursor, pauseStart, now, idle, pauses>>

\* The stream is not the first input of its transaction: commitment, signer and
\* amounts are then those of another input, in every status and at any time, and
\* how the stream's own value is divided is left open.  Whatever becomes of its
\* token after that is not followed.
asLaterInput(out) ==
  /\ ~laterInput /\ laterInput' = TRUE
  /\ held > 0
  /\ held' = 0
  /\ released' = released + out
  /\ burned' = burned + (held - out)
  /\ UNCHANGED <<stream, status, totalReleased, cursor, pauseStart, now, idle, pauses, returned>>

\* Blocks are mined: the median time past advances.
Tick ==
  /\ now < MaxTime
  /\ now' = now + 1
  /\ idle' = IF status = "PAUSED" THEN idle + 1 ELSE idle
  /\ UNCHANGED <<stream, status, totalReleased, cursor, pauseStart, held, pauses,
                 released, returned, burned, laterInput>>

Next ==
  \/ \E t \in EnforcedLocktimes, fee \in Fees :
        claim(t, fee) \/ pause(t, fee) \/ resume(t, fee)
  \/ \E t \in EnforcedLocktimes : complete(t) \/ cancel(t)
  \/ \E r \in Recipients : transfer(r)
  \/ \E out \in 0 .. held : asLaterInput(out)
  \/ Tick

Spec == Init /\ [][Next]_vars

-----------------------------------------------------------------------------
(* Properties *)

\* The time the schedule has been running, and how far the contract's cursor may
\* be off after that many pauses, each begun and ended by a dated transaction.
Running == now - Start - idle
Drift == pauses * Lag

\* "Paused time does not vest": however often the stream was paused, and in
\* whatever order claims and pauses came, what was claimed had vested in the time
\* the schedule has been running.  (complete() and cancel() are not claims.)
PausedTimeDoesNotVest ==
  totalReleased > 0 => totalReleased <= Vested(kind, Running + Drift)

\* No claim leaves vested money behind: after it everything is released that had
\* vested when it was dated, whatever was claimed or paused before.
ClaimKeepsUp ==
  [][totalReleased' > totalReleased =>
       totalReleased' >= Vested(kind, Running - Drift - Lag)]_vars

\* A stream that is cancelled while it runs is split at the time it has been
\* running: the sender gets what has not vested, no less and no more.
CancelIsFair ==
  [][status = "ACTIVE" /\ status' = "CANCELLED" =>
       /\ returned' - returned >= Total - Vested(kind, Running + Drift)
       /\ returned' - returned <= Total - Vested(kind, Running - Drift - Lag)]_vars

\* Nobody completes an active stream early: its last payment is made when all has
\* vested.  This leaves out the streams that complete() treats otherwise: endTimestamp
\* stands still for the schedules that are not tranches, so that a stream that was
\* paused may be completed while some of it has still to vest, and so may a stream
\* of any schedule that is paused.
CompletionIsDue ==
  [][status = "ACTIVE" /\ status' = "COMPLETED" /\ (kind = "TRANCHE" \/ pauses = 0) =>
       Vested(kind, Running + Drift) = Total]_vars

\* Every transaction whose first input is the stream is a step of the escrow: while
\* the stream is paused nothing leaves it, except by completing or cancelling it,
\* which end it.  The one step that need not be is the stream spent as a later
\* input.
phase == CASE status = "ACTIVE" -> "open"
           [] status = "PAUSED" -> "held"
           [] OTHER -> "closed"
E == INSTANCE Escrow WITH reserve <- held, released <- released + returned,
                          Deposits <- {Total, Total + Reserve}
VestingIsEscrow == E!Init /\ [][E!Next \/ laterInput' # laterInput]_(E!evars)

\* "If the stream is paused at cancellation time, the unvested portion is
\* calculated as of the pause_start time."
PausedCancelSplitsAtPauseStart ==
  [][status = "PAUSED" /\ status' = "CANCELLED" /\ pauseStart >= cursor =>
       returned' - returned = Total - Vested(kind, pauseStart - cursor)]_vars
=============================================================================
