-------------------------- MODULE VestingSchedules --------------------------
(***************************************************************************)
(* How much of a stream has vested, `elapsed` seconds after its start, for *)
(* the four schedules of contracts/core/streaming.  The contracts compute  *)
(* it in claim() and again in cancel(), from tx.locktime - cursor; where   *)
(* they shift the locktime instead (Hybrid and Tranche), the timestamps    *)
(* here are taken relative to the start of the stream.                     *)
(***************************************************************************)
EXTENDS Integers, Sequences

CONSTANTS
  Total,         \* totalAmount
  Duration,      \* endTimestamp - startTimestamp
  StepInterval,  \* seconds per step
  StepAmount,    \* amount per step
  UnlockAfter,   \* unlockTimestamp - startTimestamp
  Upfront,       \* upfrontAmount
  Tranches       \* the unlock points: seconds after the start, cumulative amount

\* What the routes that create a stream check of a schedule.
ASSUME ScheduleConstants ==
  /\ {Total, Duration, StepInterval, StepAmount, UnlockAfter, Upfront} \subseteq Nat
  /\ Duration > 0 /\ StepInterval > 0
  /\ (Duration \div StepInterval) * StepAmount >= Total
  /\ UnlockAfter < Duration /\ Upfront <= Total
  /\ Tranches \in Seq([after : Nat, cumulative : 0 .. Total]) /\ Tranches # <<>>
  /\ Tranches[Len(Tranches)].cumulative = Total
  /\ \A i, j \in DOMAIN Tranches :
       i < j => /\ Tranches[i].after < Tranches[j].after
                /\ Tranches[i].cumulative <= Tranches[j].cumulative

Kinds == {"LINEAR", "STEP", "HYBRID", "TRANCHE"}

\* CashScript's integer division truncates toward zero.
Quotient(a, b) == IF a >= 0 THEN a \div b ELSE -((-a) \div b)

VestedLinear(elapsed) ==
  IF elapsed >= Duration THEN Total ELSE Quotient(Total * elapsed, Duration)

\* Completed steps only.
VestedStep(elapsed) ==
  LET vested == Quotient(elapsed, StepInterval) * StepAmount
  IN  IF vested > Total THEN Total ELSE vested

\* An upfront amount, then linear to the end.
VestedHybrid(elapsed) ==
  CASE elapsed >= Duration -> Total
    [] UnlockAfter <= elapsed /\ elapsed < Duration ->
         Upfront + Quotient((Total - Upfront) * (elapsed - UnlockAfter), Duration - UnlockAfter)
    [] OTHER -> 0

\* The cumulative amount of the last unlock point that has passed.
Passed(elapsed) == {i \in DOMAIN Tranches : elapsed >= Tranches[i].after}
LastOf(points) == CHOOSE i \in points : \A j \in points : j <= i
VestedTranche(elapsed) ==
  IF Passed(elapsed) = {} THEN 0 ELSE Tranches[LastOf(Passed(elapsed))].cumulative

Vested(kind, elapsed) ==
  CASE kind = "LINEAR" -> VestedLinear(elapsed)
    [] kind = "STEP" -> VestedStep(elapsed)
    [] kind = "HYBRID" -> VestedHybrid(elapsed)
    [] OTHER -> VestedTranche(elapsed)
=============================================================================
