----------------------- MODULE VestingCovenantProofs ------------------------
(***************************************************************************)
(* Theorems about the vesting schedules, for every schedule the routes     *)
(* admit, and about the vesting covenants, for every schedule, every       *)
(* total, duration and reserve, any number of pauses and any lag of the    *)
(* builders.                                                               *)
(***************************************************************************)
EXTENDS VestingCovenant, WellFoundedInduction, TLAPS

-----------------------------------------------------------------------------
(* Integer division *)

\* The defining bounds of the rounded quotient.
LEMMA DivBounds ==
  ASSUME NEW a \in Int, NEW d \in Nat, d > 0
  PROVE  /\ a \div d \in Int
         /\ d * (a \div d) <= a
         /\ a < d * (a \div d) + d
OBVIOUS

\* A product is monotone in the factor that may be negative.
LEMMA ProductMonotone ==
  ASSUME NEW a \in Int, NEW b \in Int, NEW d \in Nat, a <= b
  PROVE  d * a \in Int /\ d * b \in Int /\ d * a <= d * b
OBVIOUS

\* Dividing more by the same gives no less.
LEMMA DivMonotone ==
  ASSUME NEW a \in Int, NEW b \in Int, NEW d \in Nat, d > 0, a <= b
  PROVE  a \div d <= b \div d
<1> DEFINE q == a \div d
           r == b \div d
<1>1. q \in Int /\ r \in Int /\ d * q <= b /\ b < d * r + d
  BY DivBounds
<1> HIDE DEF q, r
<1>2. d * q < d * (r + 1)
  BY <1>1
<1>3. q < r + 1
  BY <1>1, <1>2
<1> QED BY <1>1, <1>3 DEF q, r

\* A quotient is at most c when the dividend is at most c divisors.
LEMMA DivAtMost ==
  ASSUME NEW a \in Int, NEW c \in Int, NEW d \in Nat, d > 0, a <= c * d
  PROVE  a \div d <= c
<1> DEFINE q == a \div d
<1>1. q \in Int /\ d * q <= c * d
  BY DivBounds
<1> HIDE DEF q
<1> QED BY <1>1 DEF q

\* A quotient of a natural number is one.
LEMMA DivNat ==
  ASSUME NEW a \in Nat, NEW d \in Nat, d > 0
  PROVE  a \div d \in Nat
<1> DEFINE q == a \div d
<1>1. q \in Int /\ a < d * q + d
  BY DivBounds
<1> HIDE DEF q
<1>2. d * 0 < d * (q + 1)
  BY <1>1
<1>3. 0 < q + 1
  BY <1>1, <1>2
<1> QED BY <1>1, <1>3 DEF q

\* The contract's truncating quotient is monotone too, on both sides of zero.
LEMMA QuotientMonotone ==
  ASSUME NEW a \in Int, NEW b \in Int, NEW d \in Nat, d > 0, a <= b
  PROVE  /\ Quotient(a, d) \in Int
         /\ Quotient(b, d) \in Int
         /\ Quotient(a, d) <= Quotient(b, d)
<1>1. CASE a >= 0
  BY <1>1, DivMonotone, DivBounds DEF Quotient
<1>2. CASE a < 0 /\ b >= 0
  <2>1. (-a) \div d \in Nat /\ b \div d \in Nat
    BY <1>2, DivNat
  <2> QED BY <1>2, <2>1 DEF Quotient
<1>3. CASE b < 0
  <2>1. (-b) \div d <= (-a) \div d
    BY DivMonotone
  <2>2. (-b) \div d \in Int /\ (-a) \div d \in Int
    BY DivBounds
  <2> QED BY <1>3, <2>1, <2>2 DEF Quotient
<1> QED BY <1>1, <1>2, <1>3

\* ... and bounded as the exact quotient is, when the bound is not negative.
LEMMA QuotientAtMost ==
  ASSUME NEW a \in Int, NEW c \in Nat, NEW d \in Nat, d > 0, a <= c * d
  PROVE  Quotient(a, d) <= c
<1>1. CASE a >= 0
  BY <1>1, DivAtMost DEF Quotient
<1>2. CASE a < 0
  <2>1. (-a) \div d \in Nat
    BY <1>2, DivNat
  <2> QED BY <1>2, <2>1 DEF Quotient
<1> QED BY <1>1, <1>2

\* The quotient of a natural number.
LEMMA QuotientNat ==
  ASSUME NEW a \in Nat, NEW d \in Nat, d > 0
  PROVE  Quotient(a, d) \in Nat
BY DivNat DEF Quotient

-----------------------------------------------------------------------------
(* The schedules *)

\* What each schedule promises between two moments.
Sound(v, w) == v \in Int /\ w \in Int /\ v <= w /\ v <= Total /\ w <= Total

\* Linear: the product with the time is at most the product with the duration.
LEMMA LinearSound ==
  ASSUME NEW e \in Int, NEW f \in Int, e <= f
  PROVE  Sound(VestedLinear(e), VestedLinear(f))
<1>1. Total \in Nat /\ Duration \in Nat /\ Duration > 0
  BY ScheduleConstants
<1>2. Total * e \in Int /\ Total * f \in Int /\ Total * e <= Total * f
  BY <1>1, ProductMonotone
<1>3. \A x \in Int : x < Duration => Quotient(Total * x, Duration) <= Total
  BY <1>1, ProductMonotone, QuotientAtMost
<1>4. /\ Quotient(Total * e, Duration) \in Int
      /\ Quotient(Total * f, Duration) \in Int
      /\ Quotient(Total * e, Duration) <= Quotient(Total * f, Duration)
  BY <1>1, <1>2, QuotientMonotone
<1> QED BY <1>1, <1>3, <1>4 DEF Sound, VestedLinear

\* Steps: the number of completed steps is monotone, and the cap keeps the order.
LEMMA StepSound ==
  ASSUME NEW e \in Int, NEW f \in Int, e <= f
  PROVE  Sound(VestedStep(e), VestedStep(f))
<1> DEFINE q == Quotient(e, StepInterval)
           r == Quotient(f, StepInterval)
<1>1. Total \in Nat /\ StepInterval \in Nat /\ StepInterval > 0 /\ StepAmount \in Nat
  BY ScheduleConstants
<1>2. q \in Int /\ r \in Int /\ q <= r
  BY <1>1, QuotientMonotone
<1>3. VestedStep(e) = IF q * StepAmount > Total THEN Total ELSE q * StepAmount
  BY DEF VestedStep
<1>4. VestedStep(f) = IF r * StepAmount > Total THEN Total ELSE r * StepAmount
  BY DEF VestedStep
<1> HIDE DEF q, r
<1>5. q * StepAmount \in Int /\ r * StepAmount \in Int /\ q * StepAmount <= r * StepAmount
  BY <1>1, <1>2
<1> QED BY <1>1, <1>3, <1>4, <1>5 DEF Sound

\* Hybrid: nothing, then the upfront amount and a linear share of the rest.
LEMMA HybridSound ==
  ASSUME NEW e \in Int, NEW f \in Int, e <= f
  PROVE  Sound(VestedHybrid(e), VestedHybrid(f))
<1> DEFINE rest == Total - Upfront
           span == Duration - UnlockAfter
           share(x) == Quotient(rest * (x - UnlockAfter), span)
<1>1. /\ {Total, Duration, UnlockAfter, Upfront} \subseteq Nat
      /\ UnlockAfter < Duration
      /\ rest \in Nat /\ span \in Nat /\ span > 0
  BY ScheduleConstants
<1>2. \A x, y \in Int : x <= y => share(x) \in Int /\ share(y) \in Int /\ share(x) <= share(y)
  <2> TAKE x, y \in Int
  <2> HAVE x <= y
  <2>1. /\ rest * (x - UnlockAfter) \in Int
        /\ rest * (y - UnlockAfter) \in Int
        /\ rest * (x - UnlockAfter) <= rest * (y - UnlockAfter)
    BY <1>1, ProductMonotone
  <2> HIDE DEF rest, span
  <2> QED BY <1>1, <2>1, QuotientMonotone
<1>3. \A x \in Int : UnlockAfter <= x /\ x < Duration => share(x) \in Nat /\ share(x) <= rest
  <2> TAKE x \in Int
  <2> HAVE UnlockAfter <= x /\ x < Duration
  <2>1. x - UnlockAfter \in Nat /\ x - UnlockAfter <= span
    BY <1>1
  <2>2. rest * (x - UnlockAfter) \in Nat /\ rest * (x - UnlockAfter) <= rest * span
    <3> HIDE DEF rest, span
    <3> QED BY <1>1, <2>1
  <2> HIDE DEF rest, span
  <2> QED BY <1>1, <2>2, QuotientAtMost, QuotientNat
<1>4. \A x \in Int :
        /\ x >= Duration => VestedHybrid(x) = Total
        /\ UnlockAfter <= x /\ x < Duration => VestedHybrid(x) = Upfront + share(x)
        /\ x < UnlockAfter => VestedHybrid(x) = 0
  BY <1>1 DEF VestedHybrid
<1>5. Total = Upfront + rest /\ UnlockAfter < Duration /\ Upfront \in Nat /\ Total \in Nat
      /\ UnlockAfter \in Nat /\ Duration \in Nat /\ rest \in Nat
  BY <1>1
<1> HIDE DEF rest, span, share
<1>6. CASE f >= Duration
  <2>1. VestedHybrid(f) = Total
    BY <1>4, <1>6
  <2>2. VestedHybrid(e) \in 0 .. Total
    BY <1>3, <1>4, <1>5
  <2> QED
    BY <1>5, <2>1, <2>2 DEF Sound
<1>7. CASE UnlockAfter <= f /\ f < Duration
  BY <1>1, <1>2, <1>3, <1>4, <1>5, <1>7 DEF Sound
<1>8. CASE f < UnlockAfter
  BY <1>1, <1>4, <1>8 DEF Sound
<1> QED BY <1>1, <1>6, <1>7, <1>8

\* A nonempty set of positions has a last one.
LEMMA LastExists ==
  ASSUME NEW n \in Nat, NEW S \in SUBSET (1 .. n), S # {}
  PROVE  LastOf(S) \in S /\ \A j \in S : j <= LastOf(S)
<1> DEFINE T == {n - i : i \in S}
<1>1. \A i \in S : i \in Int /\ n - i \in Nat
  OBVIOUS
<1>2. T \subseteq Nat
  BY <1>1
<1>3. T # {}
  OBVIOUS
<1>4. PICK x \in T : \A y \in T : ~(<<y, x>> \in OpToRel(<, Nat))
  <2> HIDE DEF T
  <2> QED BY <1>2, <1>3, NatLessThanWellFounded, WFMin
<1>5. \A y \in T : ~(y < x)
  BY <1>2, <1>4 DEF OpToRel
<1>6. PICK i \in S : x = n - i
  OBVIOUS
<1>7. \A j \in S : j <= i
  <2> TAKE j \in S
  <2>1. n - j \in T
    OBVIOUS
  <2>2. ~(n - j < n - i)
    BY <1>5, <1>6, <2>1
  <2> QED BY <1>1, <2>2
<1> HIDE DEF T
<1> QED BY <1>7 DEF LastOf

\* Tranches: later, no fewer points have passed, and the amounts are cumulative.
LEMMA TrancheSound ==
  ASSUME NEW e \in Int, NEW f \in Int, e <= f
  PROVE  Sound(VestedTranche(e), VestedTranche(f))
<1> DEFINE Point == [after : Nat, cumulative : 0 .. Total]
<1>1. /\ Total \in Nat
      /\ Len(Tranches) \in Nat
      /\ DOMAIN Tranches = 1 .. Len(Tranches)
      /\ \A i \in DOMAIN Tranches : Tranches[i].after \in Nat /\ Tranches[i].cumulative \in 0 .. Total
  <2>1. Tranches \in Seq(Point) /\ Total \in Nat
    BY ScheduleConstants
  <2>2. \A p \in Point : p.after \in Nat /\ p.cumulative \in 0 .. Total
    OBVIOUS
  <2> HIDE DEF Point
  <2> QED BY <2>1, <2>2
<1>2. \A x \in Int : Passed(x) \in SUBSET (1 .. Len(Tranches))
  BY <1>1 DEF Passed
<1>3. Passed(e) \subseteq Passed(f)
  BY <1>1 DEF Passed
<1>4. \A x \in Int : Passed(x) # {} => /\ LastOf(Passed(x)) \in Passed(x)
                                      /\ \A j \in Passed(x) : j <= LastOf(Passed(x))
  BY <1>1, <1>2, LastExists
<1>5. \A x \in Int : VestedTranche(x) \in 0 .. Total
  BY <1>1, <1>2, <1>4 DEF VestedTranche
<1>6. VestedTranche(e) <= VestedTranche(f)
  <2>1. CASE Passed(e) = {}
    BY <1>1, <1>5, <2>1 DEF VestedTranche
  <2>2. CASE Passed(e) # {}
    <3> DEFINE i == LastOf(Passed(e))
               j == LastOf(Passed(f))
    <3>1. i \in Passed(e) /\ j \in Passed(f) /\ i <= j
      BY <1>3, <1>4, <2>2
    <3>2. VestedTranche(e) = Tranches[i].cumulative /\ VestedTranche(f) = Tranches[j].cumulative
      BY <1>3, <2>2 DEF VestedTranche
    <3>3. i \in DOMAIN Tranches /\ j \in DOMAIN Tranches
      BY <3>1 DEF Passed
    <3> HIDE DEF i, j
    <3>4. CASE i = j
      BY <1>1, <3>2, <3>3, <3>4
    <3>5. CASE i # j
      <4>1. i < j
        BY <1>1, <3>1, <3>3, <3>5
      <4> QED BY <3>2, <3>3, <4>1, ScheduleConstants
    <3> QED BY <3>4, <3>5
  <2> QED BY <2>1, <2>2
<1> QED BY <1>1, <1>5, <1>6 DEF Sound

\* Whatever the schedule: amounts are integers, never beyond the total, and time
\* only adds to them.
THEOREM VestedSound ==
  ASSUME NEW k \in Kinds, NEW e \in Int, NEW f \in Int, e <= f
  PROVE  Sound(Vested(k, e), Vested(k, f))
BY LinearSound, StepSound, HybridSound, TrancheSound DEF Vested, Kinds

\* At the end of the duration everything has vested, by the completed steps too.
LEMMA AllVestedAtEnd ==
  ASSUME NEW k \in Kinds \ {"TRANCHE"}, NEW e \in Int, e >= Duration
  PROVE  Vested(k, e) = Total
<1>1. /\ {Total, Duration, StepInterval, StepAmount, UnlockAfter} \subseteq Nat
      /\ StepInterval > 0 /\ UnlockAfter < Duration
      /\ (Duration \div StepInterval) * StepAmount >= Total
  BY ScheduleConstants
<1>2. VestedStep(e) = Total
  <2> DEFINE q == Quotient(e, StepInterval)
             r == Duration \div StepInterval
  <2>1. q \in Int /\ r \in Int /\ r <= q
    BY <1>1, QuotientMonotone, DivBounds DEF Quotient
  <2>2. VestedStep(e) = IF q * StepAmount > Total THEN Total ELSE q * StepAmount
    BY DEF VestedStep
  <2>3. r * StepAmount >= Total
    BY <1>1
  <2> HIDE DEF q, r
  <2>4. q * StepAmount \in Int /\ r * StepAmount \in Int /\ r * StepAmount <= q * StepAmount
    BY <1>1, <2>1
  <2> QED
    BY <1>1, <2>2, <2>3, <2>4
<1> QED
  BY <1>1, <1>2 DEF Vested, VestedLinear, VestedHybrid, Kinds

\* At the last unlock point all tranches have vested.
LEMMA AllTranchesVested ==
  ASSUME NEW e \in Int, e >= Tranches[Len(Tranches)].after
  PROVE  Vested("TRANCHE", e) = Total
<1> DEFINE n == Len(Tranches)
<1>1. n \in Nat /\ n > 0 /\ DOMAIN Tranches = 1 .. n
  <2> DEFINE Point == [after : Nat, cumulative : 0 .. Total]
  <2>1. Tranches \in Seq(Point) /\ Tranches # <<>>
    BY ScheduleConstants
  <2> HIDE DEF Point
  <2> QED BY <2>1
<1>2. Passed(e) \in SUBSET (1 .. n) /\ n \in Passed(e)
  BY <1>1 DEF Passed
<1>3. LastOf(Passed(e)) \in 1 .. n /\ n <= LastOf(Passed(e))
  BY <1>1, <1>2, LastExists
<1>4. LastOf(Passed(e)) = n
  BY <1>1, <1>3
<1> QED
  BY <1>2, <1>4, ScheduleConstants DEF Vested, VestedTranche

-----------------------------------------------------------------------------
(* The inductive invariant *)

\* The cursor has been moved by the time spent paused, give or take the lag of
\* the transactions that began and ended the pauses.  During a pause the cursor
\* stands still and the time since pauseStart is still to be added.
CursorShifted ==
  /\ status = "ACTIVE" =>
       /\ Start + idle - Drift <= cursor
       /\ cursor <= Start + idle + Drift
  /\ status = "PAUSED" =>
       /\ Start + idle - Drift + Lag <= cursor + (now - pauseStart)
       /\ cursor + (now - pauseStart) <= Start + idle + Drift

\* The UTXO holds no more than what is still owed and the reserve.
NothingBeyondReserve ==
  status \in Live =>
    held <= Total - totalReleased + (IF "tokens" \in flags THEN 0 ELSE Reserve)

\* A stream that was never paused has not stood still.
OnlyPausesIdle == pauses = 0 => idle = 0 /\ status # "PAUSED"

IInv == /\ TypeOK
        /\ CursorShifted
        /\ OnlyPausesIdle
        /\ PausedTimeDoesNotVest
        /\ NothingBeyondReserve

-----------------------------------------------------------------------------
(* The steps *)

\* Every parameter of the covenant is a natural number.
LEMMA ConstantTypes ==
  /\ Total \in Nat /\ Duration \in Nat /\ Start \in Nat /\ Cliff \in Nat
  /\ Reserve \in Nat /\ MaxFee \in Nat /\ LocktimeFloor \in Nat
  /\ Genesis \in Nat /\ Lag \in Nat /\ MaxTime \in Nat /\ MaxPauses \in Nat
  /\ LocktimeFloor > 0 /\ Reserve <= MaxFee
BY VestingConstants, ScheduleConstants

\* An enforced locktime lies in the past, at most the lag behind.
LEMMA Dated ==
  ASSUME now \in Nat, NEW t \in EnforcedLocktimes
  PROVE  t \in Nat /\ t > 0 /\ t <= now /\ now - Lag <= t
BY ConstantTypes DEF EnforcedLocktimes

\* A fee is at most MaxFee, and nothing at all when the UTXO holds tokens.
LEMMA FeeBounds ==
  ASSUME NEW fee \in Fees
  PROVE  fee \in 0 .. MaxFee
BY ConstantTypes DEF Fees

\* What has vested by the cursor's clock is an amount between zero released and
\* the total.
LEMMA VestedBounds ==
  ASSUME kind \in Kinds, NEW e \in Int
  PROVE  Vested(kind, e) \in Int /\ Vested(kind, e) <= Total
BY VestedSound DEF Sound

\* More time has vested no less.
LEMMA VestedMonotone ==
  ASSUME kind \in Kinds, NEW e \in Int, NEW f \in Int, e <= f
  PROVE  Vested(kind, e) <= Vested(kind, f)
BY VestedSound DEF Sound

\* Drift grows by one lag with every pause.
LEMMA DriftGrows ==
  ASSUME pauses \in Nat
  PROVE  /\ Drift \in Nat
         /\ pauses' = pauses => Drift' = Drift
         /\ pauses' = pauses + 1 => Drift' = Drift + Lag
BY ConstantTypes DEF Drift

\* A payment keeps the amounts natural and takes what it pays from the UTXO.
LEMMA PayEffect ==
  ASSUME TypeOK, NEW a \in Nat, NEW b \in Nat, NEW fee \in Int, Pay(a, b, fee)
  PROVE  /\ fee >= 0
         /\ a + b + fee <= held
         /\ held' = held - a - b - fee
         /\ {held, released, returned, burned}' \subseteq Nat
         /\ laterInput' \in BOOLEAN
<1>1. laterInput' = laterInput
  BY DEF Pay
<1>2. laterInput' \in BOOLEAN
  BY <1>1 DEF TypeOK
<1> QED
  BY <1>2 DEF Pay, TypeOK

-----------------------------------------------------------------------------
(* Type correctness *)

\* The commitment StreamDeploymentService creates is well typed.
LEMMA InitTypeOK == Init => TypeOK
<1>1. Init => laterInput \in BOOLEAN
  BY DEF Init
<1> QED
  BY <1>1, ConstantTypes DEF Init, TypeOK, Live, Kinds

\* Every transaction the contracts accept leaves a well-typed commitment.
LEMMA NextTypeOK == TypeOK /\ [Next]_vars => TypeOK'
<1> SUFFICES ASSUME TypeOK, [Next]_vars PROVE TypeOK'
  OBVIOUS
<1> USE ConstantTypes
<1>0. now \in Nat /\ kind \in Kinds /\ held \in Nat /\ totalReleased \in 0 .. Total
  BY DEF TypeOK
<1>1. ASSUME NEW t \in EnforcedLocktimes, NEW fee \in Fees, claim(t, fee)
      PROVE  TypeOK'
  <2> DEFINE claimable == Vested(kind, t - cursor) - totalReleased
  <2>1. t \in Nat
    BY <1>0, Dated
  <2>2. claimable \in Nat /\ totalReleased + claimable \in 0 .. Total
    BY <1>0, <1>1, <2>1, VestedBounds DEF claim, TypeOK
  <2>3. Pay(claimable, 0, fee) /\ totalReleased' = totalReleased + claimable
    BY <1>1 DEF claim
  <2> HIDE DEF claimable
  <2>4. {held, released, returned, burned}' \subseteq Nat /\ laterInput' \in BOOLEAN
    BY <2>2, <2>3, PayEffect, FeeBounds
  <2> QED
    BY <1>1, <2>2, <2>3, <2>4 DEF claim, TypeOK, stream, Live
<1>2. ASSUME NEW t \in EnforcedLocktimes, complete(t)
      PROVE  TypeOK'
  <2>1. {held, released, returned, burned}' \subseteq Nat /\ laterInput' \in BOOLEAN
    <3> DEFINE remaining == Total - totalReleased
    <3>1. remaining \in Nat /\ Pay(remaining, 0, held - remaining - 0)
      BY <1>0, <1>2 DEF complete, Consume
    <3> HIDE DEF remaining
    <3> QED BY <1>0, <3>1, PayEffect
  <2> QED
    BY <1>2, <2>1 DEF complete, TypeOK, stream, Live
<1>3. ASSUME NEW t \in EnforcedLocktimes, NEW fee \in Fees, pause(t, fee)
      PROVE  TypeOK'
  <2>1. {held, released, returned, burned}' \subseteq Nat /\ laterInput' \in BOOLEAN
    BY <1>3, PayEffect, FeeBounds DEF pause
  <2> QED
    BY <1>0, <1>3, <2>1, Dated DEF pause, TypeOK, stream, Live
<1>4. ASSUME NEW t \in EnforcedLocktimes, NEW fee \in Fees, resume(t, fee)
      PROVE  TypeOK'
  <2>1. {held, released, returned, burned}' \subseteq Nat /\ laterInput' \in BOOLEAN
    BY <1>4, PayEffect, FeeBounds DEF resume
  <2> QED
    BY <1>0, <1>4, <2>1, Dated DEF resume, TypeOK, stream, Live
<1>5. ASSUME NEW t \in EnforcedLocktimes, cancel(t)
      PROVE  TypeOK'
  <2> DEFINE due == Positive(Vested(kind, t - cursor) - totalReleased)
             back == Positive(Total - Vested(kind, t - cursor))
  <2>1. due \in Nat /\ back \in Nat
    BY <1>0, Dated, VestedBounds DEF Positive, TypeOK
  <2>2. Pay(due, back, held - due - back)
    BY <1>5 DEF cancel, Consume
  <2> HIDE DEF due, back
  <2>3. {held, released, returned, burned}' \subseteq Nat /\ laterInput' \in BOOLEAN
    BY <1>0, <2>1, <2>2, PayEffect
  <2> QED
    BY <1>5, <2>3 DEF cancel, TypeOK, stream, Live
<1>6. ASSUME NEW r \in Recipients, transfer(r)
      PROVE  TypeOK'
  <2>1. {held, released, returned, burned}' \subseteq Nat /\ laterInput' \in BOOLEAN
    BY <1>0, <1>6, PayEffect, FeeBounds DEF transfer
  <2> QED
    BY <1>6, <2>1 DEF transfer, TypeOK, Live
<1>7. ASSUME NEW out \in 0 .. held, asLaterInput(out)
      PROVE  TypeOK'
  <2>1. laterInput' \in BOOLEAN
    BY <1>7 DEF asLaterInput
  <2>2. {held, released, returned, burned}' \subseteq Nat
    BY <1>0, <1>7 DEF asLaterInput, TypeOK
  <2> QED
    BY <1>7, <2>1, <2>2 DEF asLaterInput, TypeOK, stream
<1>8. CASE Tick
  <2>1. laterInput' \in BOOLEAN
    BY <1>8 DEF Tick, TypeOK
  <2> QED
    BY <1>8, <2>1 DEF Tick, TypeOK, stream, Live
<1>9. CASE UNCHANGED vars
  <2>1. laterInput' \in BOOLEAN
    BY <1>9 DEF vars, history, TypeOK
  <2> QED
    BY <1>9, <2>1 DEF vars, stream, history, TypeOK
<1> QED
  BY <1>1, <1>2, <1>3, <1>4, <1>5, <1>6, <1>7, <1>8, <1>9 DEF Next

\* Claims never pass the total, a pause is dated exactly while it lasts, and the
\* amounts stay natural.
THEOREM VestingTypeOK == Spec => []TypeOK
BY InitTypeOK, NextTypeOK, PTL DEF Spec

-----------------------------------------------------------------------------
(* The invariant *)

\* The steps that leave the schedule's clock alone.
LEMMA ClockKept ==
  ASSUME NEW r, NEW t, NEW fee, NEW out,
         \/ claim(t, fee) \/ complete(t) \/ cancel(t) \/ transfer(r)
         \/ asLaterInput(out) \/ UNCHANGED vars
  PROVE  /\ UNCHANGED <<kind, cursor, now, idle, pauses>>
         /\ status' \in Live => status' = status
         /\ status' = "PAUSED" => pauseStart' = pauseStart
BY DEF claim, complete, cancel, transfer, asLaterInput, vars, stream, history, Live

\* A pause that begins late or ends late moves the cursor by one lag at most.
LEMMA CursorStep ==
  ASSUME TypeOK, CursorShifted, [Next]_vars
  PROVE  CursorShifted'
<1> USE ConstantTypes DEF CursorShifted
<1>0. now \in Nat /\ cursor \in Nat /\ pauseStart \in Nat /\ idle \in Nat /\ pauses \in Nat
  BY DEF TypeOK
<1>1. ASSUME NEW r, NEW t, NEW fee, NEW out,
             \/ claim(t, fee) \/ complete(t) \/ cancel(t) \/ transfer(r)
             \/ asLaterInput(out) \/ UNCHANGED vars
      PROVE  CursorShifted'
  <2>1. Drift' = Drift
    BY <1>0, <1>1, ClockKept, DriftGrows
  <2> QED
    BY <1>1, <2>1, ClockKept DEF Live
<1>2. ASSUME NEW t \in EnforcedLocktimes, NEW fee \in Fees, pause(t, fee)
      PROVE  CursorShifted'
  <2>1. Drift \in Nat /\ Drift' = Drift + Lag
    BY <1>0, <1>2, DriftGrows DEF pause
  <2>2. t \in Nat /\ t <= now /\ now - Lag <= t
    BY <1>0, Dated
  <2> QED
    BY <1>0, <1>2, <2>1, <2>2 DEF pause
<1>3. ASSUME NEW t \in EnforcedLocktimes, NEW fee \in Fees, resume(t, fee)
      PROVE  CursorShifted'
  <2>1. Drift \in Nat /\ Drift' = Drift
    BY <1>0, <1>3, DriftGrows DEF resume
  <2>2. t \in Nat /\ t <= now /\ now - Lag <= t
    BY <1>0, Dated
  <2> QED
    BY <1>0, <1>3, <2>1, <2>2 DEF resume
<1>4. CASE Tick
  <2>1. Drift \in Nat /\ Drift' = Drift
    BY <1>0, <1>4, DriftGrows DEF Tick
  <2> QED
    BY <1>0, <1>4, <2>1 DEF Tick
<1> QED
  BY <1>1, <1>2, <1>3, <1>4 DEF Next

\* What a claim releases had vested on the shifted clock, which is not ahead of
\* the time the schedule has been running by more than the drift.
LEMMA PausedTimeStep ==
  ASSUME TypeOK, CursorShifted, PausedTimeDoesNotVest, [Next]_vars
  PROVE  PausedTimeDoesNotVest'
<1> USE ConstantTypes
<1>0. /\ now \in Nat /\ cursor \in Nat /\ idle \in Nat /\ pauses \in Nat
      /\ kind \in Kinds /\ totalReleased \in Nat /\ Drift \in Nat
  BY DriftGrows DEF TypeOK
<1>1. Running \in Int /\ Running + Drift \in Int
  BY <1>0 DEF Running
<1>2. ASSUME NEW t \in EnforcedLocktimes, NEW fee \in Fees, claim(t, fee)
      PROVE  PausedTimeDoesNotVest'
  <2>1. t - cursor \in Int /\ t - cursor <= Running + Drift
    BY <1>0, <1>2, Dated DEF claim, CursorShifted, Running
  <2>2. Vested(kind, t - cursor) <= Vested(kind, Running + Drift)
    BY <1>0, <1>1, <2>1, VestedMonotone
  <2>3. totalReleased' = Vested(kind, t - cursor)
    BY <1>0, <1>2, <2>1, VestedBounds DEF claim
  <2>4. kind' = kind /\ Running' = Running /\ Drift' = Drift
    BY <1>2 DEF claim, stream, Running, Drift
  <2> QED
    BY <2>2, <2>3, <2>4 DEF PausedTimeDoesNotVest
<1>3. ASSUME ~ \E t \in EnforcedLocktimes, fee \in Fees : claim(t, fee)
      PROVE  PausedTimeDoesNotVest'
  <2>1. kind' = kind /\ totalReleased' = totalReleased
    BY <1>3 DEF Next, pause, resume, complete, cancel, transfer, asLaterInput, Tick, vars, stream
  <2>2. Running' + Drift' \in Int /\ Running + Drift <= Running' + Drift'
    <3>1. /\ pauses' = pauses \/ pauses' = pauses + 1
          /\ \/ now' = now /\ idle' = idle
             \/ now' = now + 1 /\ idle' \in {idle, idle + 1}
      BY <1>3 DEF Next, pause, resume, complete, cancel, transfer, asLaterInput, Tick, vars, history
    <3>2. Drift' \in {Drift, Drift + Lag}
      BY <1>0, <3>1, DriftGrows
    <3> QED
      BY <1>0, <3>1, <3>2 DEF Running
  <2>3. Vested(kind, Running + Drift) <= Vested(kind, Running' + Drift')
    BY <1>0, <1>1, <2>2, VestedMonotone
  <2>4. Vested(kind, Running + Drift) \in Int /\ Vested(kind, Running' + Drift') \in Int
    BY <1>0, <1>1, <2>2, VestedBounds
  <2> QED
    BY <1>0, <2>1, <2>3, <2>4 DEF PausedTimeDoesNotVest
<1> QED
  BY <1>2, <1>3

\* Time stands still during a pause only.
LEMMA IdleStep ==
  ASSUME TypeOK, OnlyPausesIdle, [Next]_vars
  PROVE  OnlyPausesIdle'
<1> USE DEF OnlyPausesIdle
<1>1. ASSUME NEW t, NEW fee, pause(t, fee)
      PROVE  OnlyPausesIdle'
  BY <1>1 DEF pause, TypeOK
<1>2. ASSUME NEW r, NEW t, NEW fee, NEW out,
             \/ claim(t, fee) \/ complete(t) \/ cancel(t) \/ transfer(r) \/ resume(t, fee)
             \/ asLaterInput(out) \/ Tick \/ UNCHANGED vars
      PROVE  OnlyPausesIdle'
  BY <1>2 DEF claim, complete, cancel, transfer, resume, asLaterInput, Tick, vars, stream, history
<1> QED
  BY <1>1, <1>2 DEF Next

\* A claim takes as much from the UTXO as from what is owed.
LEMMA ReserveStep ==
  ASSUME TypeOK, NothingBeyondReserve, [Next]_vars
  PROVE  NothingBeyondReserve'
<1> USE ConstantTypes DEF NothingBeyondReserve, Live
<1>0. held \in Nat /\ totalReleased \in 0 .. Total
  BY DEF TypeOK
<1>1. ASSUME NEW t \in EnforcedLocktimes, NEW fee \in Fees, claim(t, fee)
      PROVE  NothingBeyondReserve'
  <2> DEFINE claimable == Vested(kind, t - cursor) - totalReleased
  <2>1. claimable \in Nat
    BY <1>0, <1>1, Dated, VestedBounds DEF claim, TypeOK
  <2>2. /\ totalReleased' = totalReleased + claimable
        /\ Pay(claimable, 0, fee)
        /\ flags' = flags /\ status = "ACTIVE"
    BY <1>1 DEF claim, stream
  <2> HIDE DEF claimable
  <2> QED
    BY <1>0, <2>1, <2>2, FeeBounds DEF Pay
<1>2. ASSUME NEW fee \in Fees, NEW t, pause(t, fee) \/ resume(t, fee)
      PROVE  NothingBeyondReserve'
  BY <1>0, <1>2, FeeBounds DEF pause, resume, Pay, stream
<1>3. ASSUME NEW t, complete(t) \/ cancel(t)
      PROVE  NothingBeyondReserve'
  BY <1>3 DEF complete, cancel
<1>4. ASSUME NEW r \in Recipients, transfer(r)
      PROVE  NothingBeyondReserve'
  BY <1>0, <1>4, FeeBounds DEF transfer, Pay
<1>5. CASE Tick \/ UNCHANGED vars
  BY <1>5 DEF Tick, vars, stream, history
<1>6. ASSUME NEW out \in 0 .. held, asLaterInput(out)
      PROVE  NothingBeyondReserve'
  BY <1>0, <1>6 DEF asLaterInput, stream
<1> QED
  BY <1>1, <1>2, <1>3, <1>4, <1>5, <1>6 DEF Next

\* The inductive invariant holds in every reachable state.
THEOREM VestingInvariant == Spec => []IInv
<1>1. Init => IInv
  <2> SUFFICES ASSUME Init PROVE IInv
    OBVIOUS
  <2>1. Drift = 0
    BY ConstantTypes DEF Init, Drift
  <2> QED
    BY <2>1, InitTypeOK, ConstantTypes
    DEF Init, IInv, CursorShifted, OnlyPausesIdle, PausedTimeDoesNotVest, NothingBeyondReserve
<1>2. IInv /\ [Next]_vars => IInv'
  BY NextTypeOK, CursorStep, IdleStep, PausedTimeStep, ReserveStep DEF IInv
<1> QED
  BY <1>1, <1>2, PTL DEF Spec

\* "Paused time does not vest": whatever was claimed had vested in the time the
\* schedule has been running, for every order of claims, pauses and transfers.
THEOREM VestingPausedTime == Spec => []PausedTimeDoesNotVest
BY VestingInvariant, PTL DEF IInv

-----------------------------------------------------------------------------
(* The steps that divide the money *)

\* The clock of an active stream is within the drift, and a lag, of the time it
\* has been running.
LEMMA ClockIsRight ==
  ASSUME IInv, status = "ACTIVE", NEW t \in EnforcedLocktimes
  PROVE  /\ Vested(kind, Running - Drift - Lag) <= Vested(kind, t - cursor)
         /\ Vested(kind, t - cursor) <= Vested(kind, Running + Drift)
         /\ Vested(kind, t - cursor) \in Int
         /\ Vested(kind, t - cursor) <= Total
<1> USE ConstantTypes
<1>1. /\ now \in Nat /\ cursor \in Nat /\ idle \in Nat /\ pauses \in Nat
      /\ kind \in Kinds /\ Drift \in Nat
  BY DriftGrows DEF IInv, TypeOK
<1>2. /\ Running - Drift - Lag \in Int /\ Running + Drift \in Int /\ t - cursor \in Int
      /\ Running - Drift - Lag <= t - cursor /\ t - cursor <= Running + Drift
  BY <1>1, Dated DEF IInv, CursorShifted, Running
<1> QED
  BY <1>1, <1>2, VestedMonotone, VestedBounds

\* No claim leaves behind what had vested when it was dated.
THEOREM VestingClaimKeepsUp == Spec => ClaimKeepsUp
<1>1. ASSUME IInv, [Next]_vars, totalReleased' > totalReleased
      PROVE  totalReleased' >= Vested(kind, Running - Drift - Lag)
  <2>1. totalReleased \in Nat
    BY <1>1, ConstantTypes DEF IInv, TypeOK
  <2>2. PICK t \in EnforcedLocktimes, fee \in Fees : claim(t, fee)
    BY <1>1, <2>1 DEF Next, pause, resume, complete, cancel, transfer, asLaterInput, Tick, vars
  <2>3. totalReleased' = totalReleased + (Vested(kind, t - cursor) - totalReleased)
    BY <2>2 DEF claim
  <2>4. status = "ACTIVE"
    BY <2>2 DEF claim
  <2>5. Vested(kind, t - cursor) \in Int /\ Vested(kind, Running - Drift - Lag) <= Vested(kind, t - cursor)
    BY <1>1, <2>4, ClockIsRight
  <2>6. totalReleased' = Vested(kind, t - cursor)
    BY <2>1, <2>3, <2>5
  <2> QED
    BY <2>5, <2>6
<1> QED
  BY <1>1, VestingInvariant, PTL DEF Spec, ClaimKeepsUp

\* A running stream that is cancelled returns to the sender what has not vested
\* in the time it has been running, and nothing else.
THEOREM VestingCancelIsFair == Spec => CancelIsFair
<1>1. ASSUME IInv, [Next]_vars, status = "ACTIVE", status' = "CANCELLED"
      PROVE  /\ returned' - returned >= Total - Vested(kind, Running + Drift)
             /\ returned' - returned <= Total - Vested(kind, Running - Drift - Lag)
  <2>1. PICK t \in EnforcedLocktimes : cancel(t)
    BY <1>1 DEF Next, claim, pause, resume, complete, transfer, asLaterInput, Tick, vars
  <2> DEFINE v == Vested(kind, t - cursor)
  <2>2. returned' = returned + Positive(Total - v)
    BY <2>1 DEF cancel, Consume, Pay
  <2>3. /\ Vested(kind, Running - Drift - Lag) <= v /\ v <= Vested(kind, Running + Drift)
        /\ v \in Int /\ v <= Total
    BY <1>1, ClockIsRight
  <2>4. returned \in Nat /\ Total \in Nat
    BY <1>1, ConstantTypes DEF IInv, TypeOK
  <2>5. Vested(kind, Running - Drift - Lag) \in Int /\ Vested(kind, Running + Drift) \in Int
    <3>1. /\ now \in Nat /\ idle \in Nat /\ kind \in Kinds /\ Drift \in Nat
      BY <1>1, DriftGrows DEF IInv, TypeOK
    <3> QED
      BY <3>1, ConstantTypes, VestedBounds DEF Running
  <2> HIDE DEF v
  <2>6. returned' - returned = Total - v
    BY <2>2, <2>3, <2>4 DEF Positive
  <2> QED
    BY <2>3, <2>4, <2>5, <2>6
<1> QED
  BY <1>1, VestingInvariant, PTL DEF Spec, CancelIsFair

\* An active stream is completed, by a claim or by complete(), only when all of it
\* has vested, the exceptions named in CompletionIsDue apart.
THEOREM VestingCompletionIsDue == Spec => CompletionIsDue
<1>1. ASSUME IInv, [Next]_vars, status = "ACTIVE", status' = "COMPLETED",
             kind = "TRANCHE" \/ pauses = 0
      PROVE  Vested(kind, Running + Drift) = Total
  <2> USE ConstantTypes
  <2>1. /\ now \in Nat /\ cursor \in Nat /\ idle \in Nat /\ pauses \in Nat
        /\ kind \in Kinds /\ Drift \in Nat /\ totalReleased \in 0 .. Total
    BY <1>1, DriftGrows DEF IInv, TypeOK
  <2>2. Running + Drift \in Int
    BY <2>1 DEF Running
  <2>3. Vested(kind, Running + Drift) \in Int /\ Vested(kind, Running + Drift) <= Total
    BY <2>1, <2>2, VestedBounds
  <2>4. CASE \E t \in EnforcedLocktimes, fee \in Fees : claim(t, fee)
    <3>1. PICK t \in EnforcedLocktimes, fee \in Fees : claim(t, fee)
      BY <2>4
    <3> DEFINE v == Vested(kind, t - cursor)
    <3>2. v \in Int /\ v <= Vested(kind, Running + Drift)
      BY <1>1, ClockIsRight
    <3>3. /\ totalReleased' = totalReleased + (v - totalReleased)
          /\ status' = IF totalReleased' >= Total THEN "COMPLETED" ELSE "ACTIVE"
      BY <3>1 DEF claim
    <3> HIDE DEF v
    <3>4. v >= Total
      BY <1>1, <2>1, <3>2, <3>3
    <3> QED
      BY <2>3, <3>2, <3>4
  <2>5. CASE \E t \in EnforcedLocktimes : complete(t)
    <3>1. PICK t \in EnforcedLocktimes : complete(t)
      BY <2>5
    <3>2. t \in Nat /\ t <= now /\ Ended(t)
      BY <2>1, <3>1, Dated DEF complete
    <3>3. t - cursor <= Running + Drift
      BY <1>1, <2>1, <3>2 DEF IInv, CursorShifted, Running
    <3>4. CASE kind = "TRANCHE"
      <4>1. t - cursor \in Int /\ t - cursor >= Tranches[Len(Tranches)].after
        BY <2>1, <3>2, <3>4 DEF Ended
      <4>2. Vested(kind, t - cursor) = Total
        BY <3>4, <4>1, AllTranchesVested
      <4>3. Vested(kind, t - cursor) <= Vested(kind, Running + Drift)
        BY <2>1, <2>2, <3>3, <4>1, VestedMonotone
      <4> QED
        BY <2>3, <4>2, <4>3
    <3>5. CASE kind # "TRANCHE"
      <4>1. t >= Start + Duration
        BY <3>2, <3>5 DEF Ended
      <4>2. idle = 0
        BY <1>1, <3>5 DEF IInv, OnlyPausesIdle
      <4>3. Running + Drift >= Duration
        BY <2>1, <3>2, <4>1, <4>2 DEF Running
      <4> QED
        BY <2>1, <2>2, <3>5, <4>3, AllVestedAtEnd
    <3> QED
      BY <3>4, <3>5
  <2> QED
    BY <1>1, <2>4, <2>5 DEF Next, pause, resume, cancel, transfer, asLaterInput, Tick, vars
<1> QED
  BY <1>1, VestingInvariant, PTL DEF Spec, CompletionIsDue

\* In transactions whose first input is the stream, the stream implements the
\* escrow: it releases only while active, a pause moves nothing, and a cancelled or
\* completed stream is closed, with no more than a fee's worth left to the miner.
THEOREM VestingImplementsEscrow == Spec => VestingIsEscrow
<1>1. Init => E!Init
  BY DEF Init, E!Init, phase
<1>2. IInv /\ [Next]_vars => [E!Next \/ laterInput' # laterInput]_(E!evars)
  <2> SUFFICES ASSUME IInv, [Next]_vars
               PROVE  [E!Next \/ laterInput' # laterInput]_(E!evars)
    OBVIOUS
  <2> USE ConstantTypes
  <2>0. /\ now \in Nat /\ kind \in Kinds /\ held \in Nat /\ totalReleased \in 0 .. Total
        /\ released \in Nat /\ returned \in Nat /\ burned \in Nat /\ TypeOK
    BY DEF IInv, TypeOK
  <2>1. ASSUME NEW a \in Nat, NEW b \in Nat, NEW fee \in 0 .. MaxFee, Pay(a, b, fee)
        PROVE  a + b \in 0 .. held /\ E!Move(a + b, fee)
    BY <2>0, <2>1 DEF Pay, E!Move
  <2>2. ASSUME NEW t \in EnforcedLocktimes, NEW fee \in Fees, claim(t, fee)
        PROVE  E!Release \/ E!Close
    <3> DEFINE claimable == Vested(kind, t - cursor) - totalReleased
    <3>1. claimable \in Nat
      BY <2>0, <2>2, Dated, VestedBounds DEF claim, TypeOK
    <3>2. /\ Pay(claimable, 0, fee)
          /\ phase = "open" /\ phase' \in {"open", "closed"}
      BY <2>2 DEF claim, phase
    <3> HIDE DEF claimable
    <3>3. claimable + 0 \in 0 .. held /\ fee \in 0 .. MaxFee /\ E!Move(claimable + 0, fee)
      BY <2>1, <3>1, <3>2, FeeBounds
    <3> QED
      BY <3>2, <3>3 DEF E!Release, E!Close
  <2>3. ASSUME NEW a \in Nat, NEW b \in Nat, a + b >= Total - totalReleased,
               status \in Live, status' \in {"CANCELLED", "COMPLETED"}, Consume(a, b)
        PROVE  E!Close
    <3> DEFINE fee == held - a - b
    <3>1. fee \in 0 .. MaxFee /\ Pay(a, b, fee)
      BY <2>0, <2>3 DEF Consume, Pay, IInv, NothingBeyondReserve
    <3> HIDE DEF fee
    <3>2. a + b \in 0 .. held /\ E!Move(a + b, fee)
      BY <2>1, <3>1
    <3>3. phase \in {"open", "held"} /\ phase' = "closed"
      BY <2>3 DEF phase, Live
    <3> QED
      BY <3>1, <3>2, <3>3 DEF E!Close
  <2>4. ASSUME NEW t \in EnforcedLocktimes, complete(t)
        PROVE  E!Close
    BY <2>0, <2>3, <2>4 DEF complete
  <2>5. ASSUME NEW t \in EnforcedLocktimes, cancel(t)
        PROVE  E!Close
    <3> DEFINE v == Vested(kind, t - cursor)
    <3>1. v \in Int /\ v <= Total
      BY <2>0, Dated, VestedBounds DEF TypeOK
    <3>2. Consume(Positive(v - totalReleased), Positive(Total - v))
      BY <2>5 DEF cancel
    <3> HIDE DEF v
    <3>3. /\ Positive(v - totalReleased) \in Nat /\ Positive(Total - v) \in Nat
          /\ Positive(v - totalReleased) + Positive(Total - v) >= Total - totalReleased
      BY <2>0, <3>1 DEF Positive
    <3> QED
      BY <2>3, <2>5, <3>2, <3>3 DEF cancel
  <2>6. ASSUME NEW t \in EnforcedLocktimes, NEW fee \in Fees, pause(t, fee)
        PROVE  E!Hold
    <3>1. phase = "open" /\ phase' = "held" /\ Pay(0, 0, fee) /\ fee \in 0 .. MaxFee
      BY <2>6, FeeBounds DEF pause, phase
    <3> QED
      BY <2>1, <3>1 DEF E!Hold
  <2>7. ASSUME NEW t \in EnforcedLocktimes, NEW fee \in Fees, resume(t, fee)
        PROVE  E!Resume
    <3>1. phase = "held" /\ phase' = "open" /\ Pay(0, 0, fee) /\ fee \in 0 .. MaxFee
      BY <2>7, FeeBounds DEF resume, phase
    <3> QED
      BY <2>1, <3>1 DEF E!Resume
  <2>8. ASSUME NEW r \in Recipients, transfer(r)
        PROVE  E!Release
    <3>1. phase = "open" /\ phase' = phase
      BY <2>8 DEF transfer, phase
    <3>2. PICK out \in Nat, fee \in 0 .. MaxFee : Pay(out, 0, fee)
      <4>1. CASE "tokens" \in flags /\ kind \in {"LINEAR", "STEP"}
        BY <2>0, <2>8, <4>1 DEF transfer
      <4>2. CASE ~("tokens" \in flags /\ kind \in {"LINEAR", "STEP"})
        BY <2>8, <4>2, FeeBounds DEF transfer
      <4> QED BY <4>1, <4>2
    <3>3. out + 0 \in 0 .. held /\ E!Move(out + 0, fee)
      BY <2>1, <3>2
    <3> QED
      BY <3>1, <3>2, <3>3 DEF E!Release
  <2>9. CASE Tick \/ UNCHANGED vars
    BY <2>9 DEF Tick, vars, stream, history, E!evars, phase
  <2>10. ASSUME NEW out \in 0 .. held, asLaterInput(out)
         PROVE  laterInput' # laterInput
    BY <2>10 DEF asLaterInput
  <2> QED
    BY <2>2, <2>4, <2>5, <2>6, <2>7, <2>8, <2>9, <2>10 DEF Next, E!Next
<1> QED
  BY <1>1, <1>2, VestingInvariant, PTL DEF Spec, VestingIsEscrow
=============================================================================
