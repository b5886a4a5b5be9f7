---------------------------- MODULE VaultProofs -----------------------------
(***************************************************************************)
(* Theorems about the treasury covenant, for every number of periods,      *)
(* every cap and duration, every deposit and every lag of the locktimes;   *)
(* and about executing an approved proposal with it, for every number of   *)
(* proposals, concurrent requests and sessions.  The second part uses the  *)
(* first: the sessions move the vault only as the covenant allows.         *)
(***************************************************************************)
EXTENDS PayoutSessions, FiniteSetTheorems, TLAPS

-----------------------------------------------------------------------------
(* The inductive invariant of the vault *)

\* Until the vault is spent as a later input, the commitment's counter is what the
\* current period has paid, and later periods have paid nothing.
CounterIsHistory ==
  ~laterInput =>
    /\ paid[periodId] = spent
    /\ \A p \in PeriodIds : p > periodId => paid[p] = 0

\* last_update_timestamp follows the payouts, and a period that is over has
\* been over for at least its duration, less the lag.
UpdatesFollowPayouts ==
  ~laterInput => \A r \in payouts :
    /\ r.period <= periodId
    /\ r.at <= now
    /\ r.at <= lastUpdate + Lag
    /\ PeriodDuration > 0 /\ r.period < periodId =>
         now + Lag >= r.at + PeriodDuration

\* Nothing is lost: reserve, payouts and fees add up to the deposit.
Conserved == value + released + burned = Deposit

\* What a lone signer has been able to do: unlock elapsed periods, pause once,
\* and, with the vault as a later input, leave everything to the miner.
LoneSignerTrail ==
  Cardinality(willing) < 2 =>
    /\ payouts = {} /\ released = 0
    /\ status # "EMERGENCY_LOCK"
    /\ ~laterInput /\ PeriodDuration > 0 =>
         /\ lastUpdate <= now
         /\ Genesis + periodId * PeriodDuration <= lastUpdate
         /\ burned <= MaxFee * (periodId + IF status = "ACTIVE" THEN 0 ELSE 1)

VaultIInv ==
  /\ VaultTypeOK
  /\ PeriodCapHolds
  /\ PeriodsApart
  /\ CounterIsHistory
  /\ UpdatesFollowPayouts
  /\ Conserved
  /\ LoneSignerTrail

-----------------------------------------------------------------------------
(* Type correctness of the vault *)

\* Every number of the contract's parameters is a natural.
LEMMA VaultConstantTypes ==
  /\ PeriodDuration \in Nat /\ PeriodCap \in Nat /\ RecipientCap \in Nat
  /\ MaxFee \in Nat /\ Deposit \in Nat /\ Genesis \in Nat
  /\ LocktimeFloor \in Nat /\ Lag \in Nat /\ MaxLocktime \in Nat
  /\ MaxPeriodId \in Nat /\ MaxTime \in Nat
  /\ LocktimeFloor <= Genesis
BY VaultConstants

\* The funding commitment is well typed.
LEMMA VaultInitTypeOK == VaultInit => VaultTypeOK
<1>1. VaultInit => laterInput \in BOOLEAN
  BY DEF VaultInit
<1> QED
  BY <1>1, VaultConstantTypes DEF VaultInit, VaultTypeOK, Statuses, PeriodIds

\* Every transaction the contract accepts leaves a well-typed commitment.
LEMMA VaultNextTypeOK == VaultTypeOK /\ [VaultNext]_vaultVars => VaultTypeOK'
<1> SUFFICES ASSUME VaultTypeOK, [VaultNext]_vaultVars PROVE VaultTypeOK'
  OBVIOUS
<1> USE VaultConstantTypes DEF VaultTypeOK
<1>1. ASSUME NEW s \in Signers, NEW t \in 0 .. MaxLocktime,
             NEW fee \in 0 .. MaxFee, unlockPeriod(s, t, fee)
      PROVE  VaultTypeOK'
  BY <1>1 DEF unlockPeriod, PeriodOver, Move, PeriodIds
<1>2. ASSUME NEW s1 \in Signers, NEW s2 \in Signers, NEW r \in Recipients,
             NEW payout \in 1 .. value, NEW t \in 0 .. MaxLocktime,
             NEW fee \in 0 .. MaxFee, spend(s1, s2, r, payout, t, fee)
      PROVE  VaultTypeOK'
  <2>1. periodId' \in PeriodIds /\ spent' \in Nat
    <3>1. CASE SamePeriod(t, payout)
      BY <3>1 DEF SamePeriod
    <3>2. CASE NextPeriod(t, payout)
      BY <3>2 DEF NextPeriod, PeriodOver
    <3> QED
      BY <1>2, <3>1, <3>2 DEF spend
  <2>2. value' \in Nat /\ released' \in Nat /\ burned' \in Nat
    BY <1>2 DEF spend, Move
  <2>3. paid' \in [PeriodIds -> Nat]
    BY <1>2, <2>1 DEF spend
  <2>4. payouts' \in SUBSET [period : PeriodIds, at : Nat]
    BY <1>2, <2>1 DEF spend
  <2>5. laterInput' = laterInput
    BY <1>2 DEF spend, Move
  <2> QED
    BY <1>2, <2>1, <2>2, <2>3, <2>4, <2>5 DEF spend
<1>3. ASSUME NEW s \in Signers, NEW fee \in 0 .. MaxFee, pause(s, fee)
      PROVE  VaultTypeOK'
  BY <1>3 DEF pause, SetStatus, Move, Statuses
<1>4. ASSUME NEW s1 \in Signers, NEW s2 \in Signers,
             NEW fee \in 0 .. MaxFee, resume(s1, s2, fee)
      PROVE  VaultTypeOK'
  BY <1>4 DEF resume, SetStatus, Move, Statuses
<1>5. ASSUME NEW fee \in 0 .. MaxFee, emergencyLock(fee)
      PROVE  VaultTypeOK'
  BY <1>5 DEF emergencyLock, SetStatus, Move, Statuses
<1>6. ASSUME NEW s1 \in Signers, NEW s2 \in Signers, NEW out \in 0 .. value,
             asLaterInput(s1, s2, out)
      PROVE  VaultTypeOK'
  BY <1>6 DEF asLaterInput, commitment
<1>7. CASE VaultTick
  BY <1>7 DEF VaultTick, commitment, history
<1>8. CASE UNCHANGED vaultVars
  BY <1>8 DEF vaultVars, commitment, history
<1> QED
  BY <1>1, <1>2, <1>3, <1>4, <1>5, <1>6, <1>7, <1>8 DEF VaultNext

\* The guards on the period number keep it within the four bytes that the
\* contract pads it to, and the fee and payout bounds keep the value a natural.
THEOREM VaultTypeCorrect == VaultSpec => []VaultTypeOK
BY VaultInitTypeOK, VaultNextTypeOK, PTL DEF VaultSpec

-----------------------------------------------------------------------------
(* The period cap *)

\* The steps that only rewrite the status byte.
StatusStep == \/ \E s \in Signers, fee \in 0 .. MaxFee : pause(s, fee)
              \/ \E s1, s2 \in Signers, fee \in 0 .. MaxFee : resume(s1, s2, fee)
              \/ \E fee \in 0 .. MaxFee : emergencyLock(fee)

\* Pausing, resuming, locking, the clock and stuttering leave the period, the
\* counter, the time of the last update and the history of payouts alone.
LEMMA QuietSteps ==
  ASSUME StatusStep \/ VaultTick \/ UNCHANGED vaultVars
  PROVE  /\ UNCHANGED <<periodId, spent, lastUpdate, paid, payouts, willing, laterInput>>
         /\ now' = now \/ now' = now + 1
BY DEF StatusStep, pause, resume, emergencyLock, SetStatus, Move, VaultTick, vaultVars,
       commitment, history

\* The step that spends the vault as a later input.
LaterStep == \E s1, s2 \in Signers, out \in 0 .. value : asLaterInput(s1, s2, out)

\* After it the history says so.
LEMMA LaterSteps == LaterStep => laterInput'
BY DEF LaterStep, asLaterInput

\* The counter of the commitment stays the sum of the current period's payouts,
\* and no period's sum passes the cap.
LEMMA CapStep ==
  ASSUME VaultTypeOK, CounterIsHistory, PeriodCapHolds, [VaultNext]_vaultVars
  PROVE  CounterIsHistory' /\ PeriodCapHolds'
<1> USE VaultConstantTypes DEF VaultTypeOK, CounterIsHistory, PeriodCapHolds
<1>1. ASSUME NEW s \in Signers, NEW t \in 0 .. MaxLocktime,
             NEW fee \in 0 .. MaxFee, unlockPeriod(s, t, fee)
      PROVE  CounterIsHistory' /\ PeriodCapHolds'
  BY <1>1 DEF unlockPeriod, PeriodOver, PeriodIds, Move
<1>2. ASSUME NEW s1 \in Signers, NEW s2 \in Signers, NEW r \in Recipients,
             NEW payout \in 1 .. value, NEW t \in 0 .. MaxLocktime,
             NEW fee \in 0 .. MaxFee, spend(s1, s2, r, payout, t, fee)
      PROVE  CounterIsHistory' /\ PeriodCapHolds'
  <2>1. /\ paid' = [paid EXCEPT ![periodId'] = @ + payout]
        /\ PeriodCap > 0 => spent' <= PeriodCap
        /\ ~laterInput
    BY <1>2 DEF spend, WithinCaps, Move
  <2>2. CASE SamePeriod(t, payout)
    BY <2>1, <2>2 DEF SamePeriod, PeriodIds
  <2>3. CASE NextPeriod(t, payout)
    BY <2>1, <2>3 DEF NextPeriod, PeriodOver, PeriodIds
  <2> QED
    BY <1>2, <2>2, <2>3 DEF spend
<1>3. CASE StatusStep \/ VaultTick \/ UNCHANGED vaultVars
  BY <1>3, QuietSteps
<1>4. CASE LaterStep
  BY <1>4, LaterSteps
<1> QED
  BY <1>1, <1>2, <1>3, <1>4 DEF VaultNext, StatusStep, LaterStep

-----------------------------------------------------------------------------
(* Payouts of different periods *)

\* Each period opens at least periodDuration after the last update, which is
\* never older than any earlier payout by more than the lag.
LEMMA ApartStep ==
  ASSUME VaultTypeOK, UpdatesFollowPayouts, PeriodsApart, [VaultNext]_vaultVars
  PROVE  UpdatesFollowPayouts' /\ PeriodsApart'
<1> USE VaultConstantTypes DEF VaultTypeOK, UpdatesFollowPayouts, PeriodsApart
<1>1. ASSUME NEW s \in Signers, NEW t \in 0 .. MaxLocktime,
             NEW fee \in 0 .. MaxFee, unlockPeriod(s, t, fee)
      PROVE  UpdatesFollowPayouts' /\ PeriodsApart'
  BY <1>1 DEF unlockPeriod, PeriodOver, EnforcedLocktimes, PeriodIds, Move
<1>2. ASSUME NEW s1 \in Signers, NEW s2 \in Signers, NEW rc \in Recipients,
             NEW payout \in 1 .. value, NEW t \in 0 .. MaxLocktime,
             NEW fee \in 0 .. MaxFee, spend(s1, s2, rc, payout, t, fee)
      PROVE  UpdatesFollowPayouts' /\ PeriodsApart'
  <2> DEFINE new == [period |-> periodId', at |-> now]
  <2>1. /\ payouts' = payouts \union {new}
        /\ lastUpdate' = t
        /\ now' = now
        /\ ~laterInput
    BY <1>2 DEF spend, Move
  <2>2. CASE SamePeriod(t, payout)
    <3>1. periodId' = periodId /\ t \in 0 .. MaxLocktime /\ t + Lag >= now
      BY <2>2 DEF SamePeriod, Locktimes
    <3> QED
      BY <2>1, <3>1 DEF PeriodIds
  <2>3. CASE NextPeriod(t, payout)
    <3>1. /\ periodId' = periodId + 1 /\ periodId' \in PeriodIds
          /\ t \in 0 .. now /\ t + Lag >= now
          /\ PeriodDuration > 0 => t >= lastUpdate + PeriodDuration
      BY <2>3 DEF NextPeriod, PeriodOver, EnforcedLocktimes
    <3>2. ASSUME NEW r \in payouts
          PROVE  /\ r.period < periodId' /\ r.at <= now
                 /\ r.at <= t + Lag
                 /\ PeriodDuration > 0 => now + Lag >= r.at + PeriodDuration
      BY <2>1, <3>1 DEF PeriodIds
    <3>3. UpdatesFollowPayouts'
      BY <2>1, <3>1, <3>2 DEF PeriodIds
    <3>4. PeriodsApart'
      BY <2>1, <3>1, <3>2 DEF PeriodIds
    <3> QED
      BY <3>3, <3>4
  <2> QED
    BY <1>2, <2>2, <2>3 DEF spend
<1>3. CASE StatusStep \/ VaultTick \/ UNCHANGED vaultVars
  <2>1. /\ UNCHANGED <<periodId, lastUpdate, payouts, laterInput>>
        /\ now' = now \/ now' = now + 1
    BY <1>3, QuietSteps
  <2> QED
    BY <2>1 DEF PeriodIds
<1>4. CASE LaterStep
  BY <1>4, LaterSteps
<1> QED
  BY <1>1, <1>2, <1>3, <1>4 DEF VaultNext, StatusStep, LaterStep

-----------------------------------------------------------------------------
(* A lone signer *)

\* Two distinct members make a finite set of at least two.
LEMMA TwoMembers ==
  ASSUME NEW S, IsFiniteSet(S), NEW x \in S, NEW y \in S, x # y
  PROVE  Cardinality(S) >= 2
<1>1. IsFiniteSet({x}) /\ Cardinality({x}) = 1
  BY FS_Singleton
<1>2. Cardinality({x} \union {y}) = 2
  BY <1>1, FS_AddElement
<1>3. Cardinality({x} \union {y}) <= Cardinality(S)
  BY FS_Subset
<1> QED
  BY <1>2, <1>3, FS_CardinalityType

\* Fewer than two willing signers cannot spend, resume or lock.
LEMMA LoneSignerActions ==
  ASSUME VaultTypeOK, Cardinality(willing) < 2
  PROVE  /\ \A s1, s2 : ~TwoSigners(s1, s2)
         /\ \A fee : ~emergencyLock(fee)
<1>1. IsFiniteSet(willing) /\ Cardinality(willing) \in Nat
  BY VaultConstants, FS_Subset, FS_CardinalityType DEF VaultTypeOK
<1>2. \A s1, s2 : ~TwoSigners(s1, s2)
  BY <1>1, TwoMembers DEF TwoSigners
<1>3. ~(Signers \subseteq willing)
  <2>1. SUFFICES ASSUME Signers \subseteq willing PROVE FALSE
    OBVIOUS
  <2>2. Signers = willing
    BY <2>1 DEF VaultTypeOK
  <2> QED
    BY <2>2, VaultConstants
<1> QED
  BY <1>2, <1>3 DEF emergencyLock

\* What a lone signer has taken stays within one fee per opened period and one
\* for the pause, and every period it opened had elapsed.
LEMMA LoneSignerStep ==
  ASSUME VaultTypeOK, LoneSignerTrail, [VaultNext]_vaultVars
  PROVE  LoneSignerTrail'
<1>1. willing' = willing
  BY DEF VaultNext, unlockPeriod, spend, pause, resume, emergencyLock, SetStatus,
         asLaterInput, VaultTick, vaultVars, commitment, history
<1> SUFFICES ASSUME Cardinality(willing) < 2
             PROVE  LoneSignerTrail'
  BY <1>1 DEF LoneSignerTrail
<1> USE VaultConstantTypes DEF VaultTypeOK
<1>2. \A s1, s2 : ~TwoSigners(s1, s2)
  BY LoneSignerActions
<1>3. \A fee : ~emergencyLock(fee)
  BY LoneSignerActions
<1>4. ASSUME NEW s \in Signers, NEW t \in 0 .. MaxLocktime,
             NEW fee \in 0 .. MaxFee, unlockPeriod(s, t, fee)
      PROVE  LoneSignerTrail'
  <2>1. /\ status = "ACTIVE" /\ status' = status /\ payouts' = payouts
        /\ periodId' = periodId + 1 /\ lastUpdate' = t /\ now' = now
        /\ t <= now
        /\ PeriodDuration > 0 => t >= lastUpdate + PeriodDuration
        /\ burned' = burned + fee /\ released' = released + 0
        /\ willing' = willing /\ ~laterInput
    BY <1>4 DEF unlockPeriod, PeriodOver, EnforcedLocktimes, Move
  <2>2. periodId \in Nat
    BY DEF PeriodIds
  <2>3. (periodId + 1) * PeriodDuration = periodId * PeriodDuration + PeriodDuration
    BY <2>2
  <2>4. MaxFee * (periodId + 1) = MaxFee * periodId + MaxFee
    BY <2>2
  <2>5. ASSUME PeriodDuration > 0
        PROVE  /\ lastUpdate' <= now'
               /\ Genesis + periodId' * PeriodDuration <= lastUpdate'
    <3>1. Genesis + periodId * PeriodDuration <= lastUpdate
      BY <2>1, <2>5 DEF LoneSignerTrail
    <3>2. periodId * PeriodDuration \in Nat
      BY <2>2
    <3> QED
      BY <2>1, <2>3, <2>5, <3>1, <3>2
  <2>6. ASSUME PeriodDuration > 0
        PROVE  burned' <= MaxFee * (periodId' + 0)
    <3>1. burned <= MaxFee * (periodId + 0)
      BY <2>1, <2>6 DEF LoneSignerTrail
    <3>2. MaxFee * periodId \in Nat
      BY <2>2
    <3> QED
      BY <2>1, <2>2, <2>4, <3>1, <3>2
  <2> QED
    BY <2>1, <2>2, <2>5, <2>6 DEF LoneSignerTrail
<1>5. ASSUME NEW s \in Signers, NEW fee \in 0 .. MaxFee, pause(s, fee)
      PROVE  LoneSignerTrail'
  <2>1. /\ status = "ACTIVE" /\ status' = "PAUSED" /\ payouts' = payouts
        /\ UNCHANGED <<periodId, lastUpdate, now, willing>>
        /\ burned' = burned + fee /\ released' = released + 0
        /\ ~laterInput
    BY <1>5 DEF pause, SetStatus, Move
  <2>2. periodId \in Nat
    BY DEF PeriodIds
  <2>3. MaxFee * (periodId + 1) = MaxFee * (periodId + 0) + MaxFee
    BY <2>2
  <2>4. MaxFee * (periodId + 0) \in Nat
    BY <2>2
  <2> QED
    BY <2>1, <2>3, <2>4 DEF LoneSignerTrail
<1>6. CASE VaultTick \/ UNCHANGED vaultVars
  <2>1. /\ UNCHANGED <<status, periodId, lastUpdate, willing, payouts, released, burned>>
        /\ laterInput' = laterInput
        /\ now' = now \/ now' = now + 1
    BY <1>6 DEF VaultTick, vaultVars, commitment, history
  <2> QED
    BY <2>1 DEF LoneSignerTrail
<1>7. ASSUME NEW s1 \in Signers, NEW s2 \in Signers, NEW out \in 0 .. value,
             asLaterInput(s1, s2, out)
      PROVE  LoneSignerTrail'
  <2>1. out = 0
    BY <1>2, <1>7 DEF asLaterInput
  <2>2. /\ payouts' = payouts /\ released' = released + 0
        /\ status' = status /\ laterInput'
    BY <1>7, <2>1 DEF asLaterInput, commitment
  <2> QED
    BY <2>2 DEF LoneSignerTrail
<1> QED
  BY <1>2, <1>3, <1>4, <1>5, <1>6, <1>7 DEF VaultNext, spend, resume

-----------------------------------------------------------------------------
(* Conservation and the escrow *)

\* Every function moves value from the reserve to a recipient or the miner.
LEMMA ConservedStep ==
  ASSUME VaultTypeOK, Conserved, [VaultNext]_vaultVars
  PROVE  Conserved'
<1> USE VaultConstantTypes DEF VaultTypeOK, Conserved
<1>1. ASSUME NEW payout \in Nat, NEW fee \in Nat, Move(payout, fee)
      PROVE  Conserved'
  BY <1>1 DEF Move
<1>2. ASSUME UNCHANGED <<value, released, burned>>
      PROVE  Conserved'
  BY <1>2
<1>3. CASE VaultTick \/ UNCHANGED vaultVars
  BY <1>2, <1>3 DEF VaultTick, vaultVars, history
<1>4. ASSUME NEW s1, NEW s2, NEW r, NEW payout \in 1 .. value, NEW t,
             NEW fee \in 0 .. MaxFee, spend(s1, s2, r, payout, t, fee)
      PROVE  Conserved'
  BY <1>1, <1>4 DEF spend
<1>5. ASSUME NEW fee \in 0 .. MaxFee, Move(0, fee)
      PROVE  Conserved'
  BY <1>1, <1>5
<1>6. ASSUME NEW s1, NEW s2, NEW out \in 0 .. value, asLaterInput(s1, s2, out)
      PROVE  Conserved'
  BY <1>6 DEF asLaterInput
<1> QED
  BY <1>3, <1>4, <1>5, <1>6
  DEF VaultNext, unlockPeriod, pause, resume, emergencyLock, SetStatus

-----------------------------------------------------------------------------
(* The theorems about the vault *)

\* The funding transaction establishes the invariant.
LEMMA VaultInitIInv == VaultInit => VaultIInv
<1> SUFFICES ASSUME VaultInit PROVE VaultIInv
  OBVIOUS
<1>1. VaultTypeOK
  BY VaultInitTypeOK
<1>2. PeriodCapHolds /\ CounterIsHistory /\ PeriodsApart /\ UpdatesFollowPayouts
  BY VaultConstantTypes
  DEF VaultInit, PeriodCapHolds, CounterIsHistory, PeriodsApart,
      UpdatesFollowPayouts, PeriodIds
<1>3. Conserved
  BY VaultConstantTypes DEF VaultInit, Conserved
<1>4. LoneSignerTrail
  BY VaultConstantTypes DEF VaultInit, LoneSignerTrail
<1> QED
  BY <1>1, <1>2, <1>3, <1>4 DEF VaultIInv

\* Every step preserves it.
LEMMA VaultNextIInv == VaultIInv /\ [VaultNext]_vaultVars => VaultIInv'
BY VaultNextTypeOK, CapStep, ApartStep, LoneSignerStep, ConservedStep DEF VaultIInv

\* The inductive invariant holds throughout.
THEOREM VaultInvariant == VaultSpec => []VaultIInv
BY VaultInitIInv, VaultNextIInv, PTL DEF VaultSpec

\* No period pays out more than its cap over the whole history of payouts, in
\* transactions whose first input is the vault.
THEOREM VaultPeriodCap == VaultSpec => []PeriodCapHolds
<1>1. VaultIInv => PeriodCapHolds
  BY DEF VaultIInv
<1> QED
  BY <1>1, VaultInvariant, PTL

\* Payouts of different periods are a period, less the lag, apart.
THEOREM VaultPeriodsApart == VaultSpec => []PeriodsApart
<1>1. VaultIInv => PeriodsApart
  BY DEF VaultIInv
<1> QED
  BY <1>1, VaultInvariant, PTL

\* One signer alone pays nobody; in transactions whose first input is the vault
\* it burns at most one fee per elapsed period plus the fee of one pause.
THEOREM VaultLoneSigner == VaultSpec => []LoneSignerPaysNobody
<1>1. VaultIInv => LoneSignerPaysNobody
  <2> SUFFICES ASSUME VaultIInv, Cardinality(willing) < 2
               PROVE  LoneSignerPaysNobody
    BY DEF LoneSignerPaysNobody
  <2> USE VaultConstantTypes DEF VaultIInv, VaultTypeOK
  <2>1. payouts = {} /\ released = 0
    BY DEF LoneSignerTrail
  <2>2. ASSUME ~laterInput, PeriodDuration > 0
        PROVE  burned <= MaxFee * (1 + (now - Genesis) \div PeriodDuration)
    <3> DEFINE elapsed == (now - Genesis) \div PeriodDuration
    <3>1. periodId \in Nat
      BY DEF PeriodIds
    <3>2. periodId * PeriodDuration <= now - Genesis
      <4>1. /\ lastUpdate <= now
            /\ Genesis + periodId * PeriodDuration <= lastUpdate
        BY <2>2 DEF LoneSignerTrail
      <4>2. periodId * PeriodDuration \in Nat
        BY <3>1
      <4> QED
        BY <4>1, <4>2
    <3>3. elapsed \in Int /\ now - Genesis < (elapsed + 1) * PeriodDuration
      BY <2>2
    <3>4. periodId <= elapsed
      <4>1. SUFFICES ASSUME periodId >= elapsed + 1 PROVE FALSE
        BY <3>1, <3>3
      <4>2. (elapsed + 1) * PeriodDuration <= periodId * PeriodDuration
        BY <3>1, <3>3, <4>1
      <4> QED
        BY <3>1, <3>2, <3>3, <4>2
    <3>5. burned <= MaxFee * (periodId + 1)
      <4>1. MaxFee * (periodId + 0) <= MaxFee * (periodId + 1)
        BY <3>1
      <4>2. burned <= MaxFee * (periodId + IF status = "ACTIVE" THEN 0 ELSE 1)
        BY <2>2 DEF LoneSignerTrail
      <4> QED
        BY <3>1, <4>1, <4>2
    <3>6. MaxFee * (periodId + 1) <= MaxFee * (1 + elapsed)
      BY <3>1, <3>3, <3>4
    <3> QED
      BY <3>1, <3>3, <3>5, <3>6
  <2> QED
    BY <2>1, <2>2 DEF LoneSignerPaysNobody
<1> QED
  BY <1>1, VaultInvariant, PTL

\* In transactions whose first input is the vault, the vault implements the
\* escrow: it pays out only while active, a paused vault pays nothing, and an
\* emergency lock is final.
THEOREM VaultImplementsEscrow == VaultSpec => VaultIsEscrow
<1>1. VaultInit => E!Init
  BY DEF VaultInit, E!Init, phase
<1>2. VaultTypeOK /\ [VaultNext]_vaultVars =>
        [E!Next \/ laterInput' # laterInput]_(E!evars)
  <2> SUFFICES ASSUME VaultTypeOK, [VaultNext]_vaultVars
               PROVE  [E!Next \/ laterInput' # laterInput]_(E!evars)
    OBVIOUS
  <2> USE VaultConstantTypes DEF VaultTypeOK
  <2>0. ASSUME NEW payout \in Nat, NEW fee \in 0 .. MaxFee, Move(payout, fee)
        PROVE  /\ payout \in 0 .. value
               /\ E!Move(payout, fee)
    BY <2>0 DEF Move, E!Move
  <2>1. ASSUME NEW s \in Signers, NEW t \in 0 .. MaxLocktime,
               NEW fee \in 0 .. MaxFee, unlockPeriod(s, t, fee)
        PROVE  E!Release
    <3>1. phase = "open" /\ phase' = phase /\ Move(0, fee)
      BY <2>1 DEF unlockPeriod, phase
    <3> QED
      BY <2>0, <3>1 DEF E!Release
  <2>2. ASSUME NEW s1 \in Signers, NEW s2 \in Signers, NEW r \in Recipients,
               NEW payout \in 1 .. value, NEW t \in 0 .. MaxLocktime,
               NEW fee \in 0 .. MaxFee, spend(s1, s2, r, payout, t, fee)
        PROVE  E!Release
    <3>1. phase = "open" /\ phase' = phase /\ Move(payout, fee)
      BY <2>2 DEF spend, phase
    <3> QED
      BY <2>0, <3>1 DEF E!Release
  <2>3. ASSUME NEW s \in Signers, NEW fee \in 0 .. MaxFee, pause(s, fee)
        PROVE  E!Hold
    <3>1. phase = "open" /\ phase' = "held" /\ Move(0, fee)
      BY <2>3 DEF pause, SetStatus, phase
    <3> QED
      BY <2>0, <3>1 DEF E!Hold
  <2>4. ASSUME NEW s1 \in Signers, NEW s2 \in Signers,
               NEW fee \in 0 .. MaxFee, resume(s1, s2, fee)
        PROVE  E!Resume
    <3>1. phase = "held" /\ phase' = "open" /\ Move(0, fee)
      BY <2>4 DEF resume, SetStatus, phase
    <3> QED
      BY <2>0, <3>1 DEF E!Resume
  <2>5. ASSUME NEW fee \in 0 .. MaxFee, emergencyLock(fee)
        PROVE  E!Close
    <3>1. phase \in {"open", "held"} /\ phase' = "closed" /\ Move(0, fee)
      BY <2>5 DEF emergencyLock, SetStatus, phase
    <3> QED
      BY <2>0, <3>1 DEF E!Close
  <2>6. CASE VaultTick \/ UNCHANGED vaultVars
    BY <2>6 DEF VaultTick, vaultVars, commitment, history, E!evars, phase
  <2>7. CASE LaterStep
    BY <2>7 DEF LaterStep, asLaterInput
  <2> QED
    BY <2>1, <2>2, <2>3, <2>4, <2>5, <2>6, <2>7 DEF VaultNext, LaterStep, E!Next
<1> QED
  BY <1>1, <1>2, VaultTypeCorrect, PTL DEF VaultSpec, VaultIsEscrow

-----------------------------------------------------------------------------
(* The inductive invariant of the sessions *)

\* The clock runs from the funding of the vault to the bound of the model, no
\* update of the vault is older than the builder's lag behind the funding, no
\* transaction opens more than one period, and the vault is always the first
\* input of the transactions that spend it.
VaultFollowsClock ==
  /\ ~laterInput
  /\ now \in Genesis .. MaxTime
  /\ Genesis <= lastUpdate + BuilderLag
  /\ periodId <= utxo

\* What the builder checked of a transaction still holds of the vault.
StillBuilt(tx) ==
  /\ status = "ACTIVE"
  /\ utxo < MaxUtxo
  /\ tx.periodId = RolledPeriod(tx.locktime)
  /\ tx.spent = IF tx.periodId > periodId THEN Payout ELSE spent + Payout
  /\ PeriodCap > 0 => tx.spent <= PeriodCap
  /\ RecipientCap > 0 => Payout <= RecipientCap
  /\ value - Payout - FeeReserve >= Dust

\* A transaction was built for a vault UTXO of the past, or for the present one,
\* and then the vault is still as the builder saw it.
BuiltForVault(tx) ==
  /\ tx.utxo <= utxo
  /\ Genesis <= tx.locktime + BuilderLag
  /\ tx.utxo = utxo => StillBuilt(tx)

TxsAreBuilt ==
  /\ \A i \in DOMAIN sessions : BuiltForVault(sessions[i].tx)
  /\ \A h \in Slots : At(h, "insert") => BuiltForVault(request[h].tx)

\* A session has two signers; it has left "collect" when both have signed; it is
\* completed after its proposal is marked, and that after the payout.
SessionIsOrdered(s) ==
  /\ \E a, b \in Signers : a # b /\ s.signers = {a, b}
  /\ s.stage = "collect" <=> s.signedBy # s.signers
  /\ s.stage = "done" <=> s.status = "completed"
  /\ s.stage \in {"finish", "done"} => dbStatus[s.proposal] = "executed"
  /\ s.stage = "mark" => payments[s.proposal] >= 1

SessionsAreOrdered == \A i \in DOMAIN sessions : SessionIsOrdered(sessions[i])

\* A payout on the chain left a session that is past its broadcast.
PayoutsHaveSessions ==
  \A p \in Proposals : payments[p] >= 1 =>
    \E i \in DOMAIN sessions :
      sessions[i].proposal = p /\ sessions[i].stage \in {"mark", "finish", "done", "lost"}

\* Of a proposal whose requests never ran at once: one request, one session, and
\* a request that has passed the search for pending sessions is the only one to
\* add any.
OneSession(p) ==
  /\ \A h, g \in InFlight(p) : h = g
  /\ \A h \in InFlight(p) : request[h].op \in {"build", "insert"} => PendingSessions(p) = {}
  /\ \A h \in InFlight(p) : request[h].op = "insert" => dbStatus[p] = "approved"
  /\ \A i, j \in DOMAIN sessions :
       sessions[i].proposal = p /\ sessions[j].proposal = p => i = j
  /\ payments[p] <= 1

OneSessionUnlessRaced == \A p \in Proposals : p \notin raced => OneSession(p)

IInv ==
  /\ TypeOK
  /\ VaultFollowsClock
  /\ TxsAreBuilt
  /\ SessionsAreOrdered
  /\ PayoutsHaveSessions
  /\ ExecutedIsPaid
  /\ OneSessionUnlessRaced

-----------------------------------------------------------------------------
(* The vault behind the sessions *)

\* Every number among the parameters is a natural.
LEMMA ConstantTypes ==
  /\ PeriodDuration \in Nat /\ PeriodCap \in Nat /\ RecipientCap \in Nat
  /\ MaxFee \in Nat /\ Deposit \in Nat /\ Genesis \in Nat
  /\ LocktimeFloor \in Nat /\ BuilderLag \in Nat /\ MaxLocktime \in Nat
  /\ MaxPeriodId \in Nat /\ MaxTime \in Nat
  /\ Payout \in Nat /\ FeeReserve \in Nat /\ Dust \in Nat
  /\ MaxSessions \in Nat /\ MaxUtxo \in Nat
  /\ AllowlistEnabled \in BOOLEAN /\ Failures \in BOOLEAN
BY VaultConstants, PayoutConstants

-----------------------------------------------------------------------------
(* What a step does to the sessions *)

\* What one session goes through: a signature, the payout or its failure, the two
\* rows that record it, or a restart under it.
SessionStep(s, t) ==
  /\ t \in Session
  /\ t.proposal = s.proposal /\ t.signers = s.signers /\ t.tx = s.tx
  /\ \/ t = s
     \/ /\ s.status = "pending" /\ t.status = s.status
        /\ \E signer \in s.signers \ s.signedBy : t.signedBy = s.signedBy \union {signer}
        /\ t.stage = IF s.signedBy = {} THEN s.stage ELSE "broadcast"
     \/ /\ t.signedBy = s.signedBy /\ t.status = s.status
        /\ \/ /\ s.stage = "broadcast" /\ t.stage \in {"mark", "lost"}
              /\ payments' = [payments EXCEPT ![s.proposal] = @ + 1]
           \/ s.stage \in {"broadcast", "mark", "finish"} /\ t.stage = "lost"
           \/ /\ s.stage = "mark" /\ t.stage = "finish"
              /\ dbStatus' = [dbStatus EXCEPT ![s.proposal] = "executed"]
     \/ /\ s.stage = "finish" /\ t.stage = "done" /\ t.status = "completed"
        /\ t.signedBy = s.signedBy

\* A session of the sequence is a session.
LEMMA SessionFields ==
  ASSUME TypeOK, NEW i \in DOMAIN sessions
  PROVE  /\ sessions[i] \in Session
         /\ sessions[i].proposal \in Proposals
         /\ sessions[i].signers \subseteq Signers
         /\ sessions[i].signedBy \subseteq sessions[i].signers
         /\ sessions[i].tx \in Template
<1>1. sessions[i] \in Session
  BY DEF TypeOK
<1>2. sessions[i].signedBy \subseteq sessions[i].signers
  BY DEF TypeOK
<1> QED
  BY <1>1, <1>2 DEF Session

\* Changing one session's stage.
LEMMA StageStep ==
  ASSUME TypeOK, NEW i \in DOMAIN sessions,
         NEW stage \in {"collect", "broadcast", "mark", "finish", "done", "lost"},
         Stage(i, stage)
  PROVE  /\ DOMAIN sessions' = DOMAIN sessions
         /\ \A j \in DOMAIN sessions : j # i => sessions'[j] = sessions[j]
         /\ sessions'[i] = [sessions[i] EXCEPT !.stage = stage]
         /\ sessions'[i] \in Session
BY SessionFields DEF Stage, TypeOK, Session

\* Changing two fields of one session.
LEMMA TwoFieldStep ==
  ASSUME TypeOK, NEW i \in DOMAIN sessions, NEW signer \in Signers,
         Sign(i, signer) \/ Finish(i)
  PROVE  /\ DOMAIN sessions' = DOMAIN sessions
         /\ \A j \in DOMAIN sessions : j # i => sessions'[j] = sessions[j]
         /\ sessions'[i] \in Session
         /\ SessionStep(sessions[i], sessions'[i])
<1>1. CASE Sign(i, signer)
  BY <1>1, SessionFields DEF Sign, TypeOK, Session, SessionStep
<1>2. CASE Finish(i)
  BY <1>2, SessionFields DEF Finish, TypeOK, Session, SessionStep
<1> QED
  BY <1>1, <1>2

\* A step that leaves the sessions alone moves each by a stutter.
LEMMA SessionsStay ==
  ASSUME TypeOK, UNCHANGED sessions
  PROVE  /\ DOMAIN sessions' = DOMAIN sessions
         /\ \A i \in DOMAIN sessions : SessionStep(sessions[i], sessions'[i])
BY SessionFields DEF SessionStep

\* A step that moves one session moves all of them.
LEMMA OneSessionMoves ==
  ASSUME TypeOK, NEW i \in DOMAIN sessions,
         DOMAIN sessions' = DOMAIN sessions,
         \A j \in DOMAIN sessions : j # i => sessions'[j] = sessions[j],
         SessionStep(sessions[i], sessions'[i])
  PROVE  \A j \in DOMAIN sessions : SessionStep(sessions[j], sessions'[j])
<1> SUFFICES ASSUME NEW j \in DOMAIN sessions, j # i
             PROVE  SessionStep(sessions[j], sessions'[j])
  OBVIOUS
<1> QED
  BY SessionFields DEF SessionStep

\* The payout of a session settles step by step.
LEMMA SettleMoves ==
  ASSUME TypeOK, NEW i \in DOMAIN sessions, Settle(i)
  PROVE  /\ DOMAIN sessions' = DOMAIN sessions
         /\ \A j \in DOMAIN sessions : SessionStep(sessions[j], sessions'[j])
<1>1. ASSUME NEW stage \in {"collect", "broadcast", "mark", "finish", "done", "lost"},
             Stage(i, stage)
      PROVE  /\ DOMAIN sessions' = DOMAIN sessions
             /\ \A j \in DOMAIN sessions : j # i => sessions'[j] = sessions[j]
             /\ sessions'[i] = [sessions[i] EXCEPT !.stage = stage]
             /\ sessions'[i] \in Session
             /\ sessions'[i].stage = stage
             /\ sessions'[i].proposal = sessions[i].proposal
             /\ sessions'[i].signers = sessions[i].signers
             /\ sessions'[i].tx = sessions[i].tx
             /\ sessions'[i].signedBy = sessions[i].signedBy
             /\ sessions'[i].status = sessions[i].status
  <2>1. /\ DOMAIN sessions' = DOMAIN sessions
        /\ \A j \in DOMAIN sessions : j # i => sessions'[j] = sessions[j]
        /\ sessions'[i] = [sessions[i] EXCEPT !.stage = stage]
        /\ sessions'[i] \in Session
    BY <1>1, StageStep
  <2>2. sessions[i] \in Session
    BY SessionFields
  <2>3. /\ sessions'[i].stage = stage
        /\ sessions'[i].proposal = sessions[i].proposal
        /\ sessions'[i].signers = sessions[i].signers
        /\ sessions'[i].tx = sessions[i].tx
        /\ sessions'[i].signedBy = sessions[i].signedBy
        /\ sessions'[i].status = sessions[i].status
    BY <2>1, <2>2 DEF Session
  <2> QED
    BY <2>1, <2>3
<1>2. CASE Broadcast(i)
  <2>1. PICK stage \in {"mark", "lost"} : Stage(i, stage)
    BY <1>2 DEF Broadcast
  <2>2. /\ sessions[i].stage = "broadcast"
        /\ payments' = [payments EXCEPT ![sessions[i].proposal] = @ + 1]
    BY <1>2 DEF Broadcast
  <2>3. SessionStep(sessions[i], sessions'[i])
    BY <1>1, <2>1, <2>2 DEF SessionStep
  <2> QED
    BY <1>1, <2>1, <2>3, OneSessionMoves
<1>3. CASE BroadcastFails(i)
  <2>1. sessions[i].stage = "broadcast" /\ Stage(i, "lost")
    BY <1>3 DEF BroadcastFails
  <2>2. SessionStep(sessions[i], sessions'[i])
    BY <1>1, <2>1 DEF SessionStep
  <2> QED
    BY <1>1, <2>1, <2>2, OneSessionMoves
<1>4. CASE Mark(i)
  <2>1. /\ sessions[i].stage = "mark" /\ Stage(i, "finish")
        /\ dbStatus' = [dbStatus EXCEPT ![sessions[i].proposal] = "executed"]
    BY <1>4 DEF Mark
  <2>2. SessionStep(sessions[i], sessions'[i])
    BY <1>1, <2>1 DEF SessionStep
  <2> QED
    BY <1>1, <2>1, <2>2, OneSessionMoves
<1>5. CASE Finish(i)
  <2>1. PICK signer : signer \in Signers
    BY VaultConstants, FS_EmptySet
  <2>2. /\ DOMAIN sessions' = DOMAIN sessions
        /\ \A j \in DOMAIN sessions : j # i => sessions'[j] = sessions[j]
        /\ SessionStep(sessions[i], sessions'[i])
    BY <1>5, <2>1, TwoFieldStep
  <2> QED
    BY <2>2, OneSessionMoves
<1> QED
  BY <1>2, <1>3, <1>4, <1>5 DEF Settle

\* Every step moves each session by one step of its own, or inserts a session.
LEMMA SessionMoves ==
  ASSUME TypeOK, [Next]_vars
  PROVE  \/ /\ DOMAIN sessions' = DOMAIN sessions
            /\ \A i \in DOMAIN sessions : SessionStep(sessions[i], sessions'[i])
         \/ \E h \in Slots, s \in Signers : ExecuteInsert(h, s)
<1>1. ASSUME NEW h \in Slots, Execute(h)
      PROVE  UNCHANGED sessions \/ \E s \in Signers : ExecuteInsert(h, s)
  BY <1>1 DEF Execute, ExecuteBegin, ExecuteSession, ExecuteBuild
<1>2. ASSUME NEW i \in DOMAIN sessions, NEW s \in Signers, Sign(i, s)
      PROVE  /\ DOMAIN sessions' = DOMAIN sessions
             /\ \A j \in DOMAIN sessions : SessionStep(sessions[j], sessions'[j])
  BY <1>2, TwoFieldStep, OneSessionMoves
<1>3. CASE VaultMoves \/ Tick \/ UNCHANGED vars
  BY <1>3, SessionsStay DEF VaultMoves, Tick, vars
<1>4. CASE Restart
  <2>1. DOMAIN sessions' = DOMAIN sessions
    BY <1>4 DEF Restart
  <2>2. ASSUME NEW j \in DOMAIN sessions
        PROVE  SessionStep(sessions[j], sessions'[j])
    <3>1. sessions'[j] = [sessions[j] EXCEPT !.stage =
             IF @ \in {"broadcast", "mark", "finish"} THEN "lost" ELSE @]
      BY <1>4 DEF Restart
    <3> QED
      BY <3>1, SessionFields DEF SessionStep, Session
  <2> QED
    BY <2>1, <2>2
<1> QED
  BY <1>1, <1>2, <1>3, <1>4, SessionsStay, SettleMoves DEF Next


-----------------------------------------------------------------------------
(* What a step does to the vault *)

\* The numbers of the vault are naturals.
LEMMA VaultTypes ==
  ASSUME TypeOK
  PROVE  /\ periodId \in Nat /\ periodId <= MaxPeriodId
         /\ spent \in Nat /\ lastUpdate \in Nat /\ value \in Nat /\ now \in Nat
         /\ utxo \in Nat /\ utxo <= MaxUtxo
         /\ willing \subseteq Signers
BY ConstantTypes DEF TypeOK, VaultTypeOK, PeriodIds

\* The builder's period is a natural, and none before the vault's.
LEMMA RolledPeriodType ==
  ASSUME TypeOK, NEW locktime \in Nat
  PROVE  /\ RolledPeriod(locktime) \in Nat
         /\ RolledPeriod(locktime) >= periodId
         /\ RolledPeriod(locktime) > periodId =>
              PeriodDuration > 0 /\ locktime >= lastUpdate + PeriodDuration
<1> USE ConstantTypes, VaultTypes
<1>1. ASSUME PeriodDuration > 0, locktime >= lastUpdate + PeriodDuration
      PROVE  (locktime - lastUpdate) \div PeriodDuration \in Nat
  BY <1>1
<1> QED
  BY <1>1 DEF RolledPeriod

\* What the builder builds fits the vault it was built for.
LEMMA BuilderBuilds ==
  ASSUME TypeOK, VaultFollowsClock, Buildable, utxo < MaxUtxo
  PROVE  BuiltTx \in Template /\ BuiltForVault(BuiltTx)
<1> DEFINE locktime == now - BuilderLag
           period == RolledPeriod(locktime)
           total == IF period > periodId THEN Payout ELSE spent + Payout
<1>1. locktime \in Nat
  BY ConstantTypes, VaultTypes DEF Buildable
<1>2. period \in Nat
  BY <1>1, RolledPeriodType
<1>3. total \in Nat
  BY ConstantTypes, VaultTypes
<1>4. BuiltTx = [utxo |-> utxo, periodId |-> period, locktime |-> locktime, spent |-> total]
  BY DEF BuiltTx
<1>5. utxo \in 0 .. MaxUtxo
  BY ConstantTypes, VaultTypes
<1>6. Genesis <= locktime + BuilderLag
  BY ConstantTypes, VaultTypes DEF VaultFollowsClock
<1>7. BuiltTx.utxo = utxo /\ BuiltTx.periodId = period /\ BuiltTx.spent = total
      /\ BuiltTx.locktime = locktime
  BY <1>4
<1>8. StillBuilt(BuiltTx)
  BY <1>7 DEF StillBuilt, Buildable
<1> HIDE DEF locktime, period, total
<1> QED
  BY <1>1, <1>2, <1>3, <1>4, <1>5, <1>6, <1>7, <1>8 DEF BuiltForVault, Template

\* A payout of a session is a spend of the vault, for the UTXO it was built on.
LEMMA BroadcastSpends ==
  ASSUME TypeOK, VaultFollowsClock, TxsAreBuilt, NEW i \in DOMAIN sessions, Broadcast(i)
  PROVE  /\ VaultNext
         /\ VaultFollowsClock'
         /\ utxo' = utxo + 1 /\ utxo < MaxUtxo
<1> DEFINE t == sessions[i].tx.locktime
<1>1. PICK s1 \in sessions[i].signers, s2 \in sessions[i].signers :
           spend(s1, s2, Payee, Payout, t, FeeReserve)
  BY DEF Broadcast
<1>2. /\ utxo' = utxo + 1 /\ sessions[i].tx.utxo = utxo
  BY DEF Broadcast, CovenantAccepts
<1>3. utxo < MaxUtxo /\ Genesis <= t + BuilderLag
  BY <1>2 DEF TxsAreBuilt, BuiltForVault, StillBuilt
<1>4. s1 \in Signers /\ s2 \in Signers /\ t \in Nat
  BY SessionFields DEF Template
<1> HIDE DEF t
<1>5. /\ Payout > 0 /\ Payout + FeeReserve <= value
      /\ lastUpdate' = t /\ now' = now /\ laterInput' = laterInput
  BY <1>1 DEF spend, Move
<1>6. /\ t <= MaxLocktime
      /\ periodId' = periodId \/ periodId' = periodId + 1
  <2>1. CASE SamePeriod(t, Payout)
    BY <2>1, ConstantTypes DEF SamePeriod, Locktimes
  <2>2. CASE NextPeriod(t, Payout)
    BY <2>2, ConstantTypes, PayoutConstants
    DEF NextPeriod, EnforcedLocktimes, VaultFollowsClock
  <2> QED
    BY <1>1, <2>1, <2>2 DEF spend
<1>7. Payout \in 1 .. value /\ t \in 0 .. MaxLocktime /\ FeeReserve \in 0 .. MaxFee
  BY <1>4, <1>5, <1>6, ConstantTypes, VaultTypes, PayoutConstants
<1>8. VaultNext
  BY <1>1, <1>4, <1>7, PayoutConstants DEF VaultNext
<1>9. VaultFollowsClock'
  BY <1>2, <1>3, <1>4, <1>5, <1>6, ConstantTypes, VaultTypes DEF VaultFollowsClock
<1> QED
  BY <1>2, <1>3, <1>8, <1>9

\* What the signers do without the backend is a step of the vault too.
LEMMA MovesAreVaultSteps ==
  ASSUME TypeOK, VaultFollowsClock, VaultMoves
  PROVE  /\ VaultNext
         /\ VaultFollowsClock'
         /\ utxo' = utxo + 1 /\ utxo < MaxUtxo
<1>1. utxo' = utxo + 1 /\ utxo < MaxUtxo
  BY DEF VaultMoves
<1>2. 0 \in 0 .. MaxFee
  BY ConstantTypes
<1>3. ASSUME NEW s \in Signers, unlockPeriod(s, now, 0)
      PROVE  VaultNext /\ VaultFollowsClock'
  <2>1. /\ periodId' = periodId + 1 /\ lastUpdate' = now /\ now' = now
        /\ laterInput' = laterInput
    BY <1>3 DEF unlockPeriod, Move
  <2>2. now \in 0 .. MaxLocktime
    BY ConstantTypes, VaultTypes, PayoutConstants DEF VaultFollowsClock
  <2>3. VaultFollowsClock'
    BY <1>1, <2>1, ConstantTypes, VaultTypes DEF VaultFollowsClock
  <2> QED
    BY <1>2, <1>3, <2>2, <2>3 DEF VaultNext
<1>4. ASSUME NEW new, SetStatus(new, 0)
      PROVE  VaultFollowsClock'
  <2>1. UNCHANGED <<periodId, lastUpdate, now, laterInput>>
    BY <1>4 DEF SetStatus, Move
  <2> QED
    BY <1>1, <2>1, ConstantTypes, VaultTypes DEF VaultFollowsClock
<1>5. ASSUME NEW s \in Signers, pause(s, 0)
      PROVE  VaultNext /\ VaultFollowsClock'
  BY <1>2, <1>4, <1>5 DEF pause, VaultNext
<1>6. ASSUME NEW s1 \in Signers, NEW s2 \in Signers, resume(s1, s2, 0)
      PROVE  VaultNext /\ VaultFollowsClock'
  BY <1>2, <1>4, <1>6 DEF resume, VaultNext
<1>7. ASSUME emergencyLock(0)
      PROVE  VaultNext /\ VaultFollowsClock'
  BY <1>2, <1>4, <1>7 DEF emergencyLock, VaultNext
<1> QED
  BY <1>1, <1>3, <1>5, <1>6, <1>7 DEF VaultMoves

\* The steps that touch neither the vault nor the clock.
LEMMA OffChainSteps ==
  ASSUME [Next]_vars
  PROVE  \/ \E i \in DOMAIN sessions : Broadcast(i)
         \/ VaultMoves
         \/ Tick
         \/ UNCHANGED chain /\ now' = now
<1>1. ASSUME NEW h \in Slots, Execute(h)
      PROVE  UNCHANGED chain /\ now' = now
  BY <1>1 DEF Execute, ExecuteBegin, ExecuteSession, ExecuteBuild, ExecuteInsert, chain
<1>2. ASSUME NEW i \in DOMAIN sessions, NEW s \in Signers, Sign(i, s)
      PROVE  UNCHANGED chain /\ now' = now
  BY <1>2 DEF Sign, chain
<1>3. ASSUME NEW i \in DOMAIN sessions, BroadcastFails(i) \/ Mark(i) \/ Finish(i)
      PROVE  UNCHANGED chain /\ now' = now
  BY <1>3 DEF BroadcastFails, Mark, Finish, chain
<1>4. CASE Restart \/ UNCHANGED vars
  BY <1>4 DEF Restart, chain, vars
<1> QED
  BY <1>1, <1>2, <1>3, <1>4 DEF Next, Settle

\* Every step is a step of the vault or leaves it as it is, and whatever moves the
\* vault consumes its UTXO.
LEMMA VaultStep ==
  ASSUME TypeOK, VaultFollowsClock, TxsAreBuilt, [Next]_vars
  PROVE  /\ [VaultNext]_vaultVars
         /\ VaultFollowsClock'
         /\ \/ UNCHANGED <<status, periodId, spent, lastUpdate, value, utxo>>
            \/ utxo' = utxo + 1 /\ utxo < MaxUtxo
<1>1. ASSUME NEW i \in DOMAIN sessions, Broadcast(i)
      PROVE  /\ VaultNext
             /\ VaultFollowsClock'
             /\ utxo' = utxo + 1 /\ utxo < MaxUtxo
  BY <1>1, BroadcastSpends
<1>2. CASE VaultMoves
  BY <1>2, MovesAreVaultSteps
<1>3. CASE Tick
  <2>1. /\ VaultTick /\ utxo' = utxo
        /\ now < MaxTime /\ now' = now + 1
        /\ UNCHANGED <<status, periodId, spent, lastUpdate, value, laterInput>>
    BY <1>3 DEF Tick, VaultTick, commitment, history
  <2>2. VaultNext
    BY <2>1 DEF VaultNext
  <2>3. VaultFollowsClock'
    BY <2>1, ConstantTypes, VaultTypes DEF VaultFollowsClock
  <2> QED
    BY <2>1, <2>2, <2>3
<1>4. CASE UNCHANGED chain /\ now' = now
  <2>1. /\ UNCHANGED vaultVars
        /\ UNCHANGED <<status, periodId, spent, lastUpdate, value, utxo, now, laterInput>>
    BY <1>4 DEF chain, vaultVars, commitment, history
  <2>2. VaultFollowsClock'
    BY <2>1 DEF VaultFollowsClock
  <2> QED
    BY <2>1, <2>2
<1> QED
  BY <1>1, <1>2, <1>3, <1>4, OffChainSteps


-----------------------------------------------------------------------------
(* What a step does to the requests *)

\* How far a request goes in one step, and what it found when it went on.
RequestStep(h) ==
  \/ request'[h] = request[h]
  \/ request'[h] = Idle
  \/ /\ request'[h].op = "session" /\ request'[h] \in Requests
     /\ \E p \in Proposals : ExecuteBegin(h, p) /\ request'[h].proposal = p
  \/ /\ request'[h].op = "build" /\ request'[h] \in Requests /\ UNCHANGED <<sessions, dbStatus, raced>>
     /\ request'[h].proposal = request[h].proposal
     /\ At(h, "session") /\ PendingSessions(request[h].proposal) = {}
  \/ /\ request'[h].op = "insert" /\ request'[h] \in Requests
     /\ UNCHANGED <<chain, now, sessions, dbStatus, raced>>
     /\ request'[h].proposal = request[h].proposal
     /\ At(h, "build") /\ dbStatus[request[h].proposal] = "approved"
     /\ BuiltForVault(request'[h].tx)

\* A request that runs is a request.
LEMMA RequestFields ==
  ASSUME TypeOK, NEW h \in Slots, request[h] # Idle
  PROVE  /\ request[h] \in Requests
         /\ request[h].proposal \in Proposals
         /\ request[h].tx \in Template
<1>1. request[h] \in Requests
  BY DEF TypeOK
<1> QED
  BY <1>1 DEF Requests

\* Sending one request on leaves the others where they are.
LEMMA GotoStep ==
  ASSUME TypeOK, NEW h \in Slots, NEW record, Goto(h, record)
  PROVE  /\ request'[h] = record
         /\ \A g \in Slots : g # h => request'[g] = request[g]
         /\ DOMAIN request' = Slots
BY DEF Goto, TypeOK

\* A request that ends leaves the others where they are.
LEMMA ReturnStep ==
  ASSUME TypeOK, NEW h \in Slots, Return(h)
  PROVE  /\ request'[h] = Idle
         /\ \A g \in Slots : g # h => request'[g] = request[g]
         /\ DOMAIN request' = Slots
BY DEF Return, TypeOK

\* Each request takes a step of its own, stays, or ends.
LEMMA RequestMoves ==
  ASSUME TypeOK, VaultFollowsClock, [Next]_vars
  PROVE  /\ \A h \in Slots : RequestStep(h)
         /\ DOMAIN request' = Slots
<1>1. ASSUME NEW h \in Slots, NEW p \in Proposals, ExecuteBegin(h, p)
      PROVE  /\ \A g \in Slots : RequestStep(g)
             /\ DOMAIN request' = Slots
  <2> DEFINE record == [op |-> "session", proposal |-> p, tx |-> NoTx]
  <2>1. Goto(h, record)
    BY <1>1 DEF ExecuteBegin
  <2>2. NoTx \in Template
    BY ConstantTypes DEF NoTx, Template
  <2>3. record \in Requests /\ record.op = "session" /\ record.proposal = p
    BY <2>2 DEF Requests
  <2> HIDE DEF record
  <2> QED
    BY <1>1, <2>1, <2>3, GotoStep DEF RequestStep
<1>2. ASSUME NEW h \in Slots, ExecuteSession(h)
      PROVE  /\ \A g \in Slots : RequestStep(g)
             /\ DOMAIN request' = Slots
  <2>1. CASE Return(h)
    BY <2>1, ReturnStep DEF RequestStep
  <2>2. CASE ~Return(h)
    <3> DEFINE record == [request[h] EXCEPT !.op = "build"]
    <3>1. /\ Goto(h, record) /\ At(h, "session")
          /\ PendingSessions(request[h].proposal) = {}
          /\ UNCHANGED <<sessions, dbStatus, raced>>
      BY <1>2, <2>2 DEF ExecuteSession
    <3>2. request[h] \in Requests
      BY <3>1, RequestFields DEF At
    <3>3. record \in Requests /\ record.op = "build" /\ record.proposal = request[h].proposal
      BY <3>2 DEF Requests
    <3> HIDE DEF record
    <3> QED
      BY <3>1, <3>3, GotoStep DEF RequestStep
  <2> QED
    BY <2>1, <2>2
<1>3. ASSUME NEW h \in Slots, ExecuteBuild(h)
      PROVE  /\ \A g \in Slots : RequestStep(g)
             /\ DOMAIN request' = Slots
  <2>1. CASE Return(h)
    BY <2>1, ReturnStep DEF RequestStep
  <2>2. CASE ~Return(h)
    <3> DEFINE record == [request[h] EXCEPT !.op = "insert", !.tx = BuiltTx]
    <3>1. /\ Goto(h, record) /\ At(h, "build")
          /\ dbStatus[request[h].proposal] = "approved"
          /\ Buildable /\ utxo < MaxUtxo
          /\ UNCHANGED <<chain, now, sessions, dbStatus, raced>>
      BY <1>3, <2>2 DEF ExecuteBuild
    <3>2. request[h] \in Requests
      BY <3>1, RequestFields DEF At
    <3>3. BuiltTx \in Template /\ BuiltForVault(BuiltTx)
      BY <3>1, BuilderBuilds
    <3>4. /\ record \in Requests /\ record.op = "insert"
          /\ record.proposal = request[h].proposal /\ record.tx = BuiltTx
      BY <3>2, <3>3 DEF Requests
    <3>5. request'[h] = record /\ DOMAIN request' = Slots
          /\ \A g \in Slots : g # h => request'[g] = request[g]
      BY <3>1, GotoStep
    <3> HIDE DEF record
    <3>6. BuiltForVault(request'[h].tx)
      BY <3>3, <3>4, <3>5
    <3> QED
      BY <3>1, <3>4, <3>5, <3>6 DEF RequestStep
  <2> QED
    BY <2>1, <2>2
<1>4. ASSUME NEW h \in Slots, NEW s \in Signers, ExecuteInsert(h, s)
      PROVE  /\ \A g \in Slots : RequestStep(g)
             /\ DOMAIN request' = Slots
  BY <1>4, ReturnStep DEF ExecuteInsert, RequestStep
<1>5. ASSUME UNCHANGED request
      PROVE  /\ \A g \in Slots : RequestStep(g)
             /\ DOMAIN request' = Slots
  BY <1>5 DEF RequestStep, TypeOK
<1>6. CASE Restart
  BY <1>6 DEF Restart, RequestStep
<1>7. CASE VaultMoves \/ Tick \/ UNCHANGED vars
  BY <1>5, <1>7 DEF VaultMoves, Tick, vars
<1>8. ASSUME NEW i \in DOMAIN sessions, NEW s \in Signers, Sign(i, s)
      PROVE  UNCHANGED request
  BY <1>8 DEF Sign
<1>9. ASSUME NEW i \in DOMAIN sessions, Settle(i)
      PROVE  UNCHANGED request
  BY <1>9 DEF Settle, Broadcast, BroadcastFails, Mark, Finish
<1> QED
  BY <1>1, <1>2, <1>3, <1>4, <1>5, <1>6, <1>7, <1>8, <1>9 DEF Next, Execute


-----------------------------------------------------------------------------
(* Transactions and the vault they were built for *)

\* A transaction that fits the vault fits it until its UTXO is consumed.
LEMMA BuiltStays ==
  ASSUME TypeOK, VaultFollowsClock, TxsAreBuilt, [Next]_vars,
         NEW CONSTANT tx \in Template, BuiltForVault(tx)
  PROVE  BuiltForVault(tx)'
<1>1. tx.utxo \in Nat
  BY ConstantTypes DEF Template
<1>2. CASE UNCHANGED <<status, periodId, spent, lastUpdate, value, utxo>>
  BY <1>2 DEF BuiltForVault, StillBuilt, RolledPeriod
<1>3. CASE utxo' = utxo + 1
  <2>1. tx.utxo <= utxo' /\ tx.utxo # utxo'
    BY <1>1, <1>3, VaultTypes DEF BuiltForVault
  <2> QED
    BY <2>1 DEF BuiltForVault
<1> QED
  BY <1>2, <1>3, VaultStep

\* Sessions and requests keep transactions that fit the vault.
LEMMA TxsStayBuilt ==
  ASSUME TypeOK, VaultFollowsClock, TxsAreBuilt, [Next]_vars
  PROVE  TxsAreBuilt'
<1>1. ASSUME NEW i \in DOMAIN sessions'
      PROVE  BuiltForVault(sessions[i].tx)'
  <2>1. CASE DOMAIN sessions' = DOMAIN sessions
             /\ \A j \in DOMAIN sessions : SessionStep(sessions[j], sessions'[j])
    <3>1. i \in DOMAIN sessions /\ sessions'[i].tx = sessions[i].tx
      BY <2>1 DEF SessionStep
    <3>2. PICK tx \in Template : tx = sessions[i].tx
      BY <3>1, SessionFields
    <3>3. BuiltForVault(tx)'
      BY <3>1, <3>2, BuiltStays DEF TxsAreBuilt
    <3> QED
      BY <3>1, <3>2, <3>3 DEF BuiltForVault, StillBuilt, RolledPeriod
  <2>2. ASSUME NEW h \in Slots, NEW s \in Signers, ExecuteInsert(h, s)
        PROVE  BuiltForVault(sessions[i].tx)'
    <3>1. PICK new : sessions' = Append(sessions, new) /\ new.tx = request[h].tx
      BY <2>2 DEF ExecuteInsert
    <3>2. At(h, "insert")
      BY <2>2 DEF ExecuteInsert
    <3>3. sessions \in Seq(Session)
      BY DEF TypeOK
    <3>4. \/ i \in DOMAIN sessions /\ sessions'[i] = sessions[i]
          \/ sessions'[i] = new
      BY <3>1, <3>3
    <3>5. PICK tx \in Template : tx = sessions'[i].tx /\ BuiltForVault(tx)
      BY <3>1, <3>2, <3>4, SessionFields, RequestFields DEF TxsAreBuilt, At
    <3>6. BuiltForVault(tx)'
      BY <3>5, BuiltStays
    <3> QED
      BY <3>5, <3>6 DEF BuiltForVault, StillBuilt, RolledPeriod
  <2> QED
    BY <2>1, <2>2, SessionMoves
<1>2. ASSUME NEW h \in Slots, At(h, "insert")'
      PROVE  BuiltForVault(request[h].tx)'
  <2>1. request'[h] # Idle /\ request'[h].op = "insert"
    BY <1>2 DEF At
  <2>2. PICK tx \in Template : tx = request'[h].tx /\ BuiltForVault(tx)
    <3>1. CASE request'[h] = request[h]
      BY <2>1, <3>1, RequestFields DEF TxsAreBuilt, At
    <3>2. CASE request'[h] \in Requests /\ BuiltForVault(request'[h].tx)
      BY <3>2 DEF Requests
    <3> QED
      BY <2>1, <3>1, <3>2, RequestMoves DEF RequestStep
  <2>3. BuiltForVault(tx)'
    BY <2>2, BuiltStays
  <2> QED
    BY <2>2, <2>3 DEF BuiltForVault, StillBuilt, RolledPeriod
<1> QED
  BY <1>1, <1>2 DEF TxsAreBuilt


-----------------------------------------------------------------------------
(* Sessions, rows and payouts *)

\* A payment is counted by a broadcast, a row is executed by a mark, and neither
\* is ever taken back.
LEMMA RecordsAdvance ==
  ASSUME TypeOK, VaultFollowsClock, [Next]_vars
  PROVE  /\ payments' \in [Proposals -> Nat]
         /\ dbStatus' \in [Proposals -> {"approved", "executed"}]
         /\ paidAt' \in [0 .. MaxTime -> Nat]
         /\ \A p \in Proposals :
              \/ payments'[p] = payments[p]
              \/ /\ payments'[p] = payments[p] + 1
                 /\ \E i \in DOMAIN sessions : Broadcast(i) /\ sessions[i].proposal = p
         /\ \A p \in Proposals :
              \/ dbStatus'[p] = dbStatus[p]
              \/ /\ dbStatus'[p] = "executed"
                 /\ \E i \in DOMAIN sessions : Mark(i) /\ sessions[i].proposal = p
<1> USE DEF TypeOK
<1>1. ASSUME NEW i \in DOMAIN sessions, Broadcast(i)
      PROVE  /\ payments' = [payments EXCEPT ![sessions[i].proposal] = @ + 1]
             /\ paidAt' = [paidAt EXCEPT ![now] = @ + 1]
             /\ dbStatus' = dbStatus
  BY <1>1 DEF Broadcast
<1>2. ASSUME NEW i \in DOMAIN sessions, Mark(i)
      PROVE  /\ dbStatus' = [dbStatus EXCEPT ![sessions[i].proposal] = "executed"]
             /\ payments' = payments /\ paidAt' = paidAt
  BY <1>2 DEF Mark, chain
<1>3. \/ \E i \in DOMAIN sessions : Broadcast(i) \/ Mark(i)
      \/ UNCHANGED <<payments, paidAt, dbStatus>>
  <2>1. ASSUME NEW h \in Slots, Execute(h)
        PROVE  UNCHANGED <<payments, paidAt, dbStatus>>
    BY <2>1 DEF Execute, ExecuteBegin, ExecuteSession, ExecuteBuild, ExecuteInsert, chain
  <2>2. ASSUME NEW i \in DOMAIN sessions, NEW s \in Signers, Sign(i, s)
        PROVE  UNCHANGED <<payments, paidAt, dbStatus>>
    BY <2>2 DEF Sign, chain
  <2>3. ASSUME NEW i \in DOMAIN sessions, BroadcastFails(i) \/ Finish(i)
        PROVE  UNCHANGED <<payments, paidAt, dbStatus>>
    BY <2>3 DEF BroadcastFails, Finish, chain
  <2>4. CASE VaultMoves \/ Tick \/ Restart \/ UNCHANGED vars
    BY <2>4 DEF VaultMoves, Tick, Restart, chain, vars
  <2> QED
    BY <2>1, <2>2, <2>3, <2>4 DEF Next, Settle
<1>4. ASSUME NEW i \in DOMAIN sessions PROVE sessions[i].proposal \in Proposals
  BY SessionFields
<1>5. now \in 0 .. MaxTime
  BY ConstantTypes DEF VaultFollowsClock
<1>6. ASSUME NEW i \in DOMAIN sessions, Broadcast(i)
      PROVE  /\ payments' \in [Proposals -> Nat]
             /\ paidAt' \in [0 .. MaxTime -> Nat]
             /\ \A p \in Proposals :
                  \/ payments'[p] = payments[p]
                  \/ p = sessions[i].proposal /\ payments'[p] = payments[p] + 1
  <2> HIDE DEF TypeOK
  <2>1. payments \in [Proposals -> Nat] /\ paidAt \in [0 .. MaxTime -> Nat]
    BY DEF TypeOK
  <2>2. PICK q \in Proposals : q = sessions[i].proposal
    BY <1>4
  <2>3. payments' = [payments EXCEPT ![q] = @ + 1]
    BY <1>1, <1>6, <2>2
  <2>4. paidAt' = [paidAt EXCEPT ![now] = @ + 1]
    BY <1>1, <1>6
  <2>5. paidAt' \in [0 .. MaxTime -> Nat]
    BY <1>5, <2>1, <2>4
  <2> QED
    BY <2>1, <2>2, <2>3, <2>5
<1>7. ASSUME NEW i \in DOMAIN sessions, Mark(i)
      PROVE  /\ dbStatus' \in [Proposals -> {"approved", "executed"}]
             /\ \A p \in Proposals :
                  \/ dbStatus'[p] = dbStatus[p]
                  \/ p = sessions[i].proposal /\ dbStatus'[p] = "executed"
  BY <1>2, <1>4, <1>7
<1> QED
  BY <1>1, <1>2, <1>3, <1>6, <1>7

\* A step of a session keeps its order.
LEMMA SessionStaysOrdered ==
  ASSUME TypeOK, VaultFollowsClock, [Next]_vars,
         NEW CONSTANT s \in Session, NEW CONSTANT t, s.signedBy \subseteq s.signers,
         SessionIsOrdered(s), SessionStep(s, t)
  PROVE  t.signedBy \subseteq t.signers /\ SessionIsOrdered(t)'
<1>1. PICK a \in Signers, b \in Signers : a # b /\ s.signers = {a, b}
  BY DEF SessionIsOrdered
<1>2. s.proposal \in Proposals /\ t.proposal = s.proposal /\ t.signers = s.signers
  BY DEF Session, SessionStep
<1>3. t.signedBy \subseteq t.signers /\ (t.stage = "collect" <=> t.signedBy # t.signers)
  BY <1>1, <1>2 DEF SessionStep, SessionIsOrdered
<1>4. t.stage = "done" <=> t.status = "completed"
  BY <1>2 DEF SessionStep, SessionIsOrdered
<1>5. t.stage \in {"finish", "done"} => dbStatus'[t.proposal] = "executed"
  <2>1. s.stage \in {"finish", "done"} => dbStatus'[s.proposal] = "executed"
    BY <1>2, RecordsAdvance DEF SessionIsOrdered
  <2>2. dbStatus \in [Proposals -> {"approved", "executed"}]
    BY DEF TypeOK
  <2> QED
    BY <1>2, <2>1, <2>2 DEF SessionStep
<1>6. t.stage = "mark" => payments'[t.proposal] >= 1
  <2>1. payments \in [Proposals -> Nat]
    BY DEF TypeOK
  <2>2. s.stage = "mark" => payments'[s.proposal] >= 1
    BY <1>2, <2>1, RecordsAdvance DEF SessionIsOrdered
  <2> QED
    BY <1>2, <2>1, <2>2 DEF SessionStep
<1> QED
  BY <1>1, <1>2, <1>3, <1>4, <1>5, <1>6 DEF SessionIsOrdered


\* Inserting adds a session of two signers that nobody has signed.
LEMMA InsertedSession ==
  ASSUME TypeOK, NEW h \in Slots, NEW s \in Signers, ExecuteInsert(h, s)
  PROVE  /\ At(h, "insert")
         /\ request'[h] = Idle
         /\ \A g \in Slots : g # h => request'[g] = request[g]
         /\ Len(sessions) < MaxSessions
         /\ UNCHANGED <<chain, now, dbStatus, raced>>
         /\ \E new \in Session :
              /\ sessions' = Append(sessions, new)
              /\ new.proposal = request[h].proposal
              /\ new.signedBy = {} /\ new.status = "pending" /\ new.stage = "collect"
              /\ \E a, b \in Signers : a # b /\ new.signers = {a, b}
<1>1. /\ At(h, "insert") /\ Return(h) /\ Len(sessions) < MaxSessions
      /\ UNCHANGED <<chain, now, dbStatus, raced>>
  BY DEF ExecuteInsert
<1>2. PICK pair \in Pair(s) :
        sessions' = Append(sessions,
          [proposal |-> request[h].proposal, signers |-> pair, tx |-> request[h].tx,
           signedBy |-> {}, status |-> "pending", stage |-> "collect"])
  BY DEF ExecuteInsert
<1>3. PICK b \in Signers : b # s /\ pair = {s, b}
  BY DEF Pair
<1>4. /\ request[h].proposal \in Proposals /\ request[h].tx \in Template
  BY <1>1, RequestFields DEF At
<1> DEFINE new == [proposal |-> request[h].proposal, signers |-> pair, tx |-> request[h].tx,
                   signedBy |-> {}, status |-> "pending", stage |-> "collect"]
<1>5. new \in Session
  BY <1>3, <1>4 DEF Session
<1>6. /\ new.proposal = request[h].proposal
      /\ new.signedBy = {} /\ new.status = "pending" /\ new.stage = "collect"
      /\ new.signers = {s, b}
  BY <1>3
<1>7. sessions' = Append(sessions, new)
  BY <1>2
<1> HIDE DEF new
<1> QED
  BY <1>1, <1>3, <1>5, <1>6, <1>7, ReturnStep

\* Unless a session is inserted, the sequence keeps its length.
LEMMA SequenceStays ==
  ASSUME TypeOK, [Next]_vars
  PROVE  \/ \E h \in Slots, s \in Signers : ExecuteInsert(h, s)
         \/ sessions' = [i \in DOMAIN sessions |-> sessions'[i]]
<1>0. sessions \in Seq(Session)
  BY DEF TypeOK
<1>1. ASSUME NEW h \in Slots, Execute(h)
      PROVE  UNCHANGED sessions \/ \E s \in Signers : ExecuteInsert(h, s)
  BY <1>1 DEF Execute, ExecuteBegin, ExecuteSession, ExecuteBuild
<1>2. ASSUME NEW i \in DOMAIN sessions, NEW s \in Signers, Sign(i, s)
      PROVE  sessions' = [j \in DOMAIN sessions |-> sessions'[j]]
  BY <1>0, <1>2 DEF Sign
<1>3. ASSUME NEW i \in DOMAIN sessions, Settle(i)
      PROVE  sessions' = [j \in DOMAIN sessions |-> sessions'[j]]
  <2>1. ASSUME NEW stage, Stage(i, stage)
        PROVE  sessions' = [j \in DOMAIN sessions |-> sessions'[j]]
    BY <1>0, <2>1 DEF Stage
  <2>2. CASE Finish(i)
    BY <1>0, <2>2 DEF Finish
  <2> QED
    BY <1>3, <2>1, <2>2 DEF Settle, Broadcast, BroadcastFails, Mark
<1>4. ASSUME VaultMoves \/ Tick \/ UNCHANGED vars
      PROVE  UNCHANGED sessions
  BY <1>4 DEF VaultMoves, Tick, vars
<1>5. CASE Restart
  BY <1>5 DEF Restart
<1>6. UNCHANGED sessions => sessions' = [j \in DOMAIN sessions |-> sessions'[j]]
  BY <1>0
<1> QED
  BY <1>1, <1>2, <1>3, <1>4, <1>5, <1>6 DEF Next


\* Sessions stay sessions, in order, and within their number.
LEMMA SessionsStayOrdered ==
  ASSUME TypeOK, VaultFollowsClock, SessionsAreOrdered, [Next]_vars
  PROVE  /\ sessions' \in Seq(Session) /\ Len(sessions') <= MaxSessions
         /\ \A i \in DOMAIN sessions' : sessions'[i].signedBy \subseteq sessions'[i].signers
         /\ SessionsAreOrdered'
<1>0. sessions \in Seq(Session) /\ Len(sessions) <= MaxSessions
  BY DEF TypeOK
<1>1. ASSUME DOMAIN sessions' = DOMAIN sessions,
             \A i \in DOMAIN sessions : SessionStep(sessions[i], sessions'[i]),
             sessions' = [i \in DOMAIN sessions |-> sessions'[i]]
      PROVE  /\ sessions' \in Seq(Session) /\ Len(sessions') <= MaxSessions
             /\ \A i \in DOMAIN sessions' : sessions'[i].signedBy \subseteq sessions'[i].signers
             /\ SessionsAreOrdered'
  <2>1. \A i \in DOMAIN sessions : sessions'[i] \in Session
    BY <1>1 DEF SessionStep
  <2>2. sessions' \in Seq(Session) /\ Len(sessions') = Len(sessions)
    BY <1>0, <1>1, <2>1
  <2>3. ASSUME NEW i \in DOMAIN sessions'
        PROVE  /\ sessions'[i].signedBy \subseteq sessions'[i].signers
               /\ SessionIsOrdered(sessions[i])'
    <3>1. i \in DOMAIN sessions
      BY <1>1
    <3>2. PICK s \in Session : s = sessions[i]
      BY <3>1, SessionFields
    <3>3. PICK t : t = sessions'[i]
      OBVIOUS
    <3>4. /\ s.signedBy \subseteq s.signers /\ SessionIsOrdered(s)
          /\ SessionStep(s, t)
      BY <1>1, <3>1, <3>2, <3>3, SessionFields DEF SessionsAreOrdered
    <3>5. t.signedBy \subseteq t.signers /\ SessionIsOrdered(t)'
      BY <3>4, SessionStaysOrdered
    <3> QED
      BY <3>3, <3>5 DEF SessionIsOrdered
  <2> QED
    BY <1>0, <2>2, <2>3 DEF SessionsAreOrdered
<1>2. ASSUME NEW h \in Slots, NEW s \in Signers, ExecuteInsert(h, s)
      PROVE  /\ sessions' \in Seq(Session) /\ Len(sessions') <= MaxSessions
             /\ \A i \in DOMAIN sessions' : sessions'[i].signedBy \subseteq sessions'[i].signers
             /\ SessionsAreOrdered'
  <2>1. PICK new \in Session :
          /\ sessions' = Append(sessions, new)
          /\ new.signedBy = {} /\ new.status = "pending" /\ new.stage = "collect"
          /\ \E a, b \in Signers : a # b /\ new.signers = {a, b}
    BY <1>2, InsertedSession
  <2>2. /\ Len(sessions) < MaxSessions
        /\ UNCHANGED <<payments, dbStatus>>
    BY <1>2, InsertedSession DEF chain
  <2>3. sessions' \in Seq(Session) /\ Len(sessions') = Len(sessions) + 1
    BY <1>0, <2>1
  <2>4. Len(sessions') <= MaxSessions
    BY <1>0, <2>2, <2>3, ConstantTypes
  <2>5. ASSUME NEW i \in DOMAIN sessions'
        PROVE  /\ sessions'[i].signedBy \subseteq sessions'[i].signers
               /\ SessionIsOrdered(sessions[i])'
    <3>1. CASE i \in DOMAIN sessions /\ sessions'[i] = sessions[i]
      BY <2>2, <3>1, SessionFields DEF SessionsAreOrdered, SessionIsOrdered
    <3>2. CASE sessions'[i] = new
      BY <2>1, <3>2 DEF SessionIsOrdered
    <3>3. \/ i \in DOMAIN sessions /\ sessions'[i] = sessions[i]
          \/ sessions'[i] = new
      BY <1>0, <2>1
    <3> QED
      BY <3>1, <3>2, <3>3
  <2> QED
    BY <2>3, <2>4, <2>5 DEF SessionsAreOrdered
<1> QED
  BY <1>1, <1>2, SessionMoves, SequenceStays

\* A payout leaves its session past the broadcast, and the session stays there.
LEMMA PayoutsKeepSessions ==
  ASSUME TypeOK, VaultFollowsClock, SessionsAreOrdered, PayoutsHaveSessions, [Next]_vars
  PROVE  PayoutsHaveSessions'
<1> DEFINE Past == {"mark", "finish", "done", "lost"}
<1>1. ASSUME NEW i \in DOMAIN sessions,
             sessions[i].stage \in Past \/ Broadcast(i)
      PROVE  /\ i \in DOMAIN sessions'
             /\ sessions'[i].proposal = sessions[i].proposal
             /\ sessions'[i].stage \in Past
  <2>1. CASE \E h \in Slots, s \in Signers : ExecuteInsert(h, s)
    <3>1. PICK new : sessions' = Append(sessions, new)
      BY <2>1, InsertedSession
    <3>2. sessions[i].stage \in Past
      BY <1>1, <2>1, InsertedSession DEF Broadcast, chain, TypeOK, VaultTypeOK
    <3>3. sessions \in Seq(Session)
      BY DEF TypeOK
    <3> QED
      BY <3>1, <3>2, <3>3
  <2>2. CASE /\ DOMAIN sessions' = DOMAIN sessions
             /\ SessionStep(sessions[i], sessions'[i])
    <3>1. CASE Broadcast(i)
      <4>1. PICK stage \in {"mark", "lost"} : Stage(i, stage)
        BY <3>1 DEF Broadcast
      <4>2. sessions'[i] = [sessions[i] EXCEPT !.stage = stage]
        BY <4>1, StageStep
      <4> QED
        BY <2>2, <4>1, <4>2, SessionFields DEF Session
    <3>2. CASE sessions[i].stage \in Past
      BY <2>2, <3>2 DEF SessionStep, SessionsAreOrdered, SessionIsOrdered
    <3> QED
      BY <1>1, <3>1, <3>2
  <2> QED
    BY <2>1, <2>2, SessionMoves
<1> SUFFICES ASSUME NEW p \in Proposals, payments'[p] >= 1
             PROVE  \E i \in DOMAIN sessions' :
                      sessions'[i].proposal = p /\ sessions'[i].stage \in Past
  BY DEF PayoutsHaveSessions
<1>2. CASE payments'[p] = payments[p]
  <2>1. PICK i \in DOMAIN sessions : sessions[i].proposal = p /\ sessions[i].stage \in Past
    BY <1>2 DEF PayoutsHaveSessions
  <2> QED
    BY <1>1, <2>1
<1>3. ASSUME NEW i \in DOMAIN sessions, Broadcast(i), sessions[i].proposal = p
      PROVE  \E j \in DOMAIN sessions' :
               sessions'[j].proposal = p /\ sessions'[j].stage \in Past
  BY <1>1, <1>3
<1> QED
  BY <1>2, <1>3, RecordsAdvance


-----------------------------------------------------------------------------
(* One session a proposal *)

\* Beginning a request is what makes a proposal raced.
LEMMA RacedGrows ==
  ASSUME TypeOK, [Next]_vars
  PROVE  /\ raced' \subseteq Proposals
         /\ raced \subseteq raced'
<1>1. ASSUME NEW h \in Slots, Execute(h)
      PROVE  raced' \subseteq Proposals /\ raced \subseteq raced'
  BY <1>1
  DEF Execute, ExecuteBegin, ExecuteSession, ExecuteBuild, ExecuteInsert, TypeOK
<1>2. ASSUME NEW i \in DOMAIN sessions,
             (\E s \in Signers : Sign(i, s)) \/ Settle(i)
      PROVE  raced' = raced
  BY <1>2 DEF Sign, Settle, Broadcast, BroadcastFails, Mark, Finish
<1>3. ASSUME VaultMoves \/ Tick \/ Restart \/ UNCHANGED vars
      PROVE  raced' = raced
  BY <1>3 DEF VaultMoves, Tick, Restart, vars
<1>4. raced \subseteq Proposals
  BY DEF TypeOK
<1> QED
  BY <1>1, <1>2, <1>3, <1>4 DEF Next

\* A request is in flight for a proposal because it was, or because it begins,
\* and then it is alone unless the proposal is raced.
LEMMA InFlightComesFrom ==
  ASSUME TypeOK, VaultFollowsClock, [Next]_vars, NEW p \in Proposals, p \notin raced',
         NEW h \in Slots, request'[h] # Idle, request'[h].proposal = p
  PROVE  \/ h \in InFlight(p)
         \/ /\ request'[h].op = "session"
            /\ \A g \in Slots : request'[g] # Idle /\ request'[g].proposal = p => g = h
<1>1. CASE request'[h] = request[h]
  BY <1>1 DEF InFlight
<1>2. ASSUME NEW q \in Proposals, ExecuteBegin(h, q), request'[h].op = "session",
             request'[h].proposal = q
      PROVE  \A g \in Slots : request'[g] # Idle /\ request'[g].proposal = p => g = h
  <2>1. InFlight(p) = {}
    BY <1>2 DEF ExecuteBegin
  <2>2. \A g \in Slots : g # h => request'[g] = request[g]
    BY <1>2, GotoStep DEF ExecuteBegin
  <2> QED
    BY <2>1, <2>2 DEF InFlight
<1>3. CASE request'[h].proposal = request[h].proposal /\ request[h] # Idle
  BY <1>3 DEF InFlight
<1> QED
  BY <1>1, <1>2, <1>3, RequestMoves DEF RequestStep, At

\* A request that has passed the search for pending sessions is the only one
\* whose session may be pending.
LEMMA PendingStaysEmpty ==
  ASSUME TypeOK, VaultFollowsClock, [Next]_vars, NEW p \in Proposals, OneSession(p),
         NEW h \in InFlight(p), request'[h] # Idle, PendingSessions(p) = {}
  PROVE  PendingSessions(p)' = {}
<1> SUFFICES ASSUME NEW i \in DOMAIN sessions', sessions'[i].proposal = p,
                    sessions'[i].status = "pending"
             PROVE  FALSE
  BY DEF PendingSessions
<1>1. CASE DOMAIN sessions' = DOMAIN sessions
           /\ \A j \in DOMAIN sessions : SessionStep(sessions[j], sessions'[j])
  <2>1. i \in DOMAIN sessions /\ sessions[i].proposal = p
    BY <1>1 DEF SessionStep
  <2>2. sessions[i].status # "pending"
    BY <2>1 DEF PendingSessions
  <2> QED
    BY <1>1, <2>1, <2>2 DEF SessionStep
<1>2. ASSUME NEW k \in Slots, NEW s \in Signers, ExecuteInsert(k, s)
      PROVE  FALSE
  <2>1. PICK new \in Session : /\ sessions' = Append(sessions, new)
                               /\ new.proposal = request[k].proposal
    BY <1>2, InsertedSession
  <2>2. At(k, "insert") /\ request'[k] = Idle
    BY <1>2, InsertedSession
  <2>3. request[k].proposal # p
    BY <2>2 DEF OneSession, InFlight, At
  <2>4. sessions \in Seq(Session)
    BY DEF TypeOK
  <2>5. i \in DOMAIN sessions /\ sessions'[i] = sessions[i]
    BY <2>1, <2>3, <2>4
  <2> QED
    BY <2>5 DEF PendingSessions
<1> QED
  BY <1>1, <1>2, SessionMoves

\* Of a proposal that no two requests raced for there is one request, one session
\* and one payout.
LEMMA OneSessionStays ==
  ASSUME TypeOK, VaultFollowsClock, SessionsAreOrdered, PayoutsHaveSessions,
         OneSessionUnlessRaced, [Next]_vars
  PROVE  OneSessionUnlessRaced'
<1> SUFFICES ASSUME NEW p \in Proposals, p \notin raced'
             PROVE  OneSession(p)'
  BY DEF OneSessionUnlessRaced
<1>0. OneSession(p)
  BY RacedGrows DEF OneSessionUnlessRaced
<1>1. ASSUME NEW h \in InFlight(p)', NEW g \in InFlight(p)'
      PROVE  h = g
  <2>1. /\ h \in Slots /\ request'[h] # Idle /\ request'[h].proposal = p
        /\ g \in Slots /\ request'[g] # Idle /\ request'[g].proposal = p
    BY <1>1 DEF InFlight
  <2> QED
    BY <1>0, <2>1, InFlightComesFrom DEF OneSession
<1>2. ASSUME NEW h \in InFlight(p)', request'[h].op \in {"build", "insert"}
      PROVE  PendingSessions(p)' = {}
  <2>1. h \in Slots /\ request'[h] # Idle /\ request'[h].proposal = p
    BY DEF InFlight
  <2>2. h \in InFlight(p)
    BY <1>2, <2>1, InFlightComesFrom
  <2>3. CASE request'[h] = request[h]
    BY <1>0, <1>2, <2>1, <2>2, <2>3, PendingStaysEmpty DEF OneSession
  <2>4. CASE UNCHANGED sessions /\ PendingSessions(p) = {}
    BY <2>4 DEF PendingSessions
  <2>5. CASE UNCHANGED sessions /\ At(h, "build") /\ request[h].proposal = p
    BY <1>0, <2>2, <2>5 DEF OneSession, At, PendingSessions
  <2> QED
    BY <1>2, <2>1, <2>3, <2>4, <2>5, RequestMoves DEF RequestStep
<1>3. ASSUME NEW h \in InFlight(p)', request'[h].op = "insert"
      PROVE  dbStatus'[p] = "approved"
  <2>1. h \in Slots /\ request'[h] # Idle /\ request'[h].proposal = p
    BY DEF InFlight
  <2>2. h \in InFlight(p)
    BY <1>3, <2>1, InFlightComesFrom
  <2>3. CASE request'[h] = request[h]
    <3>1. dbStatus[p] = "approved" /\ PendingSessions(p) = {}
      BY <1>0, <1>3, <2>2, <2>3 DEF OneSession
    <3>2. ASSUME NEW i \in DOMAIN sessions, Mark(i), sessions[i].proposal = p
          PROVE  FALSE
      <4>1. sessions[i].stage = "mark"
        BY <3>2 DEF Mark
      <4>2. sessions[i].status = "pending"
        BY <4>1, SessionFields DEF SessionsAreOrdered, SessionIsOrdered, Session
      <4> QED
        BY <3>1, <3>2, <4>2 DEF PendingSessions
    <3> QED
      BY <3>1, <3>2, RecordsAdvance
  <2>4. CASE UNCHANGED dbStatus /\ dbStatus[p] = "approved"
    BY <2>4
  <2> QED
    BY <1>3, <2>1, <2>3, <2>4, RequestMoves DEF RequestStep
<1>4. ASSUME NEW i \in DOMAIN sessions', NEW j \in DOMAIN sessions',
             sessions'[i].proposal = p, sessions'[j].proposal = p
      PROVE  i = j
  <2>1. CASE DOMAIN sessions' = DOMAIN sessions
             /\ \A k \in DOMAIN sessions : SessionStep(sessions[k], sessions'[k])
    BY <1>0, <1>4, <2>1 DEF OneSession, SessionStep
  <2>2. ASSUME NEW h \in Slots, NEW s \in Signers, ExecuteInsert(h, s)
        PROVE  i = j
    <3>1. PICK new \in Session : /\ sessions' = Append(sessions, new)
                                 /\ new.proposal = request[h].proposal
      BY <2>2, InsertedSession
    <3>2. sessions \in Seq(Session)
      BY DEF TypeOK
    <3>3. CASE request[h].proposal # p
      <4>1. /\ i \in DOMAIN sessions /\ sessions'[i] = sessions[i]
            /\ j \in DOMAIN sessions /\ sessions'[j] = sessions[j]
        BY <1>4, <3>1, <3>2, <3>3
      <4> QED
        BY <1>0, <1>4, <4>1 DEF OneSession
    <3>4. CASE request[h].proposal = p
      <4>1. dbStatus[p] = "approved" /\ PendingSessions(p) = {}
        BY <1>0, <2>2, <3>4, InsertedSession DEF OneSession, InFlight, At
      <4>2. ASSUME NEW k \in DOMAIN sessions
            PROVE  sessions[k].proposal # p
        BY <4>1, SessionFields
        DEF SessionsAreOrdered, SessionIsOrdered, PendingSessions, Session
      <4> QED
        BY <1>4, <3>1, <3>2, <4>2
    <3> QED
      BY <3>3, <3>4
  <2> QED
    BY <2>1, <2>2, SessionMoves
<1>5. payments'[p] <= 1
  <2>1. payments[p] \in Nat /\ payments[p] <= 1
    BY <1>0 DEF OneSession, TypeOK
  <2>2. ASSUME NEW i \in DOMAIN sessions, Broadcast(i), sessions[i].proposal = p
        PROVE  payments[p] = 0
    <3>1. SUFFICES ASSUME payments[p] >= 1 PROVE FALSE
      BY <2>1
    <3>2. PICK j \in DOMAIN sessions :
            sessions[j].proposal = p /\ sessions[j].stage \in {"mark", "finish", "done", "lost"}
      BY <3>1 DEF PayoutsHaveSessions
    <3>3. i = j
      BY <1>0, <2>2, <3>2 DEF OneSession
    <3> QED
      BY <2>2, <3>2, <3>3 DEF Broadcast
  <2> QED
    BY <2>1, <2>2, RecordsAdvance
<1> QED
  BY <1>1, <1>2, <1>3, <1>4, <1>5 DEF OneSession


-----------------------------------------------------------------------------
(* The theorems *)

\* No step takes a slot away.
LEMMA RequestsStay ==
  ASSUME TypeOK, [Next]_vars
  PROVE  request' = [h \in Slots |-> request'[h]]
<1>0. request \in [Slots -> Requests \union {Idle}]
  BY DEF TypeOK
<1>1. ASSUME NEW h, NEW record, Goto(h, record)
      PROVE  request' = [g \in Slots |-> request'[g]]
  BY <1>0, <1>1 DEF Goto
<1>2. ASSUME NEW h, Return(h)
      PROVE  request' = [g \in Slots |-> request'[g]]
  BY <1>0, <1>2 DEF Return
<1>3. UNCHANGED request => request' = [g \in Slots |-> request'[g]]
  BY <1>0
<1>4. ASSUME NEW h \in Slots, Execute(h)
      PROVE  request' = [g \in Slots |-> request'[g]]
  BY <1>1, <1>2, <1>4
  DEF Execute, ExecuteBegin, ExecuteSession, ExecuteBuild, ExecuteInsert
<1>5. ASSUME NEW i \in DOMAIN sessions,
             (\E s \in Signers : Sign(i, s)) \/ Settle(i)
      PROVE  UNCHANGED request
  BY <1>5 DEF Sign, Settle, Broadcast, BroadcastFails, Mark, Finish
<1>6. ASSUME VaultMoves \/ Tick \/ UNCHANGED vars
      PROVE  UNCHANGED request
  BY <1>6 DEF VaultMoves, Tick, vars
<1>7. CASE Restart
  BY <1>7 DEF Restart
<1> QED
  BY <1>3, <1>4, <1>5, <1>6, <1>7 DEF Next

\* Sessions, requests, rows and vault keep their types.
LEMMA TypesStay ==
  ASSUME TypeOK, VaultFollowsClock, TxsAreBuilt, SessionsAreOrdered, [Next]_vars
  PROVE  TypeOK'
<1>1. VaultTypeOK'
  BY VaultNextTypeOK, VaultStep DEF TypeOK
<1>2. utxo' \in 0 .. MaxUtxo
  BY VaultStep, VaultTypes, ConstantTypes
<1>3. /\ sessions' \in Seq(Session) /\ Len(sessions') <= MaxSessions
      /\ \A i \in DOMAIN sessions' : sessions'[i].signedBy \subseteq sessions'[i].signers
  BY SessionsStayOrdered
<1>4. request' \in [Slots -> Requests \union {Idle}]
  <2>1. ASSUME NEW h \in Slots
        PROVE  request'[h] \in Requests \union {Idle}
    <3>1. request[h] \in Requests \union {Idle}
      BY DEF TypeOK
    <3> QED
      BY <3>1, RequestMoves DEF RequestStep
  <2>2. request' = [h \in Slots |-> request'[h]]
    BY RequestsStay
  <2> QED
    BY <2>1, <2>2
<1>5. /\ payments' \in [Proposals -> Nat]
      /\ dbStatus' \in [Proposals -> {"approved", "executed"}]
      /\ paidAt' \in [0 .. MaxTime -> Nat]
  BY RecordsAdvance
<1>6. raced' \subseteq Proposals
  BY RacedGrows
<1> QED
  BY <1>1, <1>2, <1>3, <1>4, <1>5, <1>6 DEF TypeOK

\* Before any request there is nothing to be wrong about.
LEMMA InitIInv == Init => IInv
<1> SUFFICES ASSUME Init PROVE IInv
  OBVIOUS
<1>1. VaultInit /\ VaultTypeOK
  BY VaultInitTypeOK DEF Init
<1>2. /\ utxo \in 0 .. MaxUtxo /\ periodId = 0 /\ now = Genesis /\ lastUpdate = Genesis
      /\ ~laterInput
  BY <1>1, ConstantTypes DEF Init, VaultInit
<1>3. sessions = <<>> /\ Len(sessions) = 0 /\ DOMAIN sessions = {} /\ sessions \in Seq(Session)
  BY DEF Init
<1>4. /\ payments = [p \in Proposals |-> 0] /\ dbStatus = [p \in Proposals |-> "approved"]
      /\ request = [h \in Slots |-> Idle] /\ raced = {}
      /\ paidAt = [t \in 0 .. MaxTime |-> 0]
  BY DEF Init
<1>5. TypeOK
  <2>1. Len(sessions) <= MaxSessions
    BY <1>3, ConstantTypes
  <2>2. request \in [Slots -> Requests \union {Idle}]
    BY <1>4
  <2>3. /\ payments \in [Proposals -> Nat]
        /\ dbStatus \in [Proposals -> {"approved", "executed"}]
        /\ paidAt \in [0 .. MaxTime -> Nat]
    BY <1>4
  <2> QED
    BY <1>1, <1>2, <1>3, <1>4, <2>1, <2>2, <2>3 DEF TypeOK
<1>6. VaultFollowsClock
  BY <1>2, ConstantTypes, PayoutConstants DEF VaultFollowsClock, Init
<1>7. TxsAreBuilt /\ SessionsAreOrdered
  BY <1>3, <1>4 DEF TxsAreBuilt, SessionsAreOrdered, At
<1>8. PayoutsHaveSessions /\ ExecutedIsPaid
  BY <1>4 DEF PayoutsHaveSessions, ExecutedIsPaid
<1>9. OneSessionUnlessRaced
  BY <1>3, <1>4 DEF OneSessionUnlessRaced, OneSession, InFlight
<1> QED
  BY <1>5, <1>6, <1>7, <1>8, <1>9 DEF IInv

\* Every step preserves the invariant.
LEMMA NextIInv == IInv /\ [Next]_vars => IInv'
<1> SUFFICES ASSUME IInv, [Next]_vars PROVE IInv'
  OBVIOUS
<1>1. ExecutedIsPaid'
  <2> SUFFICES ASSUME NEW p \in Proposals, dbStatus'[p] = "executed"
               PROVE  payments'[p] >= 1
    BY DEF ExecutedIsPaid
  <2>0. payments[p] \in Nat
    BY DEF IInv, TypeOK
  <2>1. payments[p] \in Nat /\ payments'[p] >= payments[p]
    BY <2>0, RecordsAdvance DEF IInv
  <2>2. payments[p] >= 1
    <3>1. CASE dbStatus'[p] = dbStatus[p]
      BY <3>1 DEF IInv, ExecutedIsPaid
    <3>2. ASSUME NEW i \in DOMAIN sessions, Mark(i), sessions[i].proposal = p
          PROVE  payments[p] >= 1
      BY <3>2 DEF Mark, IInv, SessionsAreOrdered, SessionIsOrdered
    <3> QED
      BY <3>1, <3>2, RecordsAdvance DEF IInv
  <2> QED
    BY <2>1, <2>2, RecordsAdvance DEF IInv
<1>2. TypeOK' /\ VaultFollowsClock' /\ TxsAreBuilt'
  BY TypesStay, VaultStep, TxsStayBuilt DEF IInv
<1>3. SessionsAreOrdered' /\ PayoutsHaveSessions' /\ OneSessionUnlessRaced'
  BY SessionsStayOrdered, PayoutsKeepSessions, OneSessionStays DEF IInv
<1> QED
  BY <1>1, <1>2, <1>3 DEF IInv

\* The inductive invariant holds throughout.
THEOREM PayoutInvariant == Spec => []IInv
BY InitIInv, NextIInv, PTL DEF Spec

\* Every session, request and row keeps its type, and the numbers of the vault
\* stay naturals whatever the sessions do to it.
THEOREM PayoutTypeOK == Spec => []TypeOK
<1>1. IInv => TypeOK
  BY DEF IInv
<1> QED
  BY <1>1, PayoutInvariant, PTL

\* However many proposals and requests there are, whatever answers are lost and
\* however often the server restarts, a proposal that no two requests raced for is
\* paid at most once.
THEOREM PayoutOnce == Spec => []PaidAtMostOnce
<1>1. IInv => PaidAtMostOnce
  BY DEF IInv, PaidAtMostOnce, OneSessionUnlessRaced, OneSession
<1> QED
  BY <1>1, PayoutInvariant, PTL

\* The row of a proposal says "executed" only of a payout that is on the chain.
THEOREM PayoutExecutedIsPaid == Spec => []ExecutedIsPaid
<1>1. IInv => ExecutedIsPaid
  BY DEF IInv
<1> QED
  BY <1>1, PayoutInvariant, PTL

\* A payout the row does not know of is found from a pending session that both of
\* its signers have signed.
THEOREM PayoutIsFound == Spec => []UnrecordedPayoutIsFound
<1>1. IInv => UnrecordedPayoutIsFound
  <2> SUFFICES ASSUME IInv, NEW p \in Proposals, payments[p] >= 1, dbStatus[p] = "approved"
               PROVE  \E i \in PendingSessions(p) : sessions[i].signedBy = sessions[i].signers
    BY DEF UnrecordedPayoutIsFound
  <2>1. PICK i \in DOMAIN sessions :
          sessions[i].proposal = p /\ sessions[i].stage \in {"mark", "finish", "done", "lost"}
    BY DEF IInv, PayoutsHaveSessions
  <2>2. /\ sessions[i].stage # "done"
        /\ sessions[i].signedBy = sessions[i].signers
    BY <2>1 DEF IInv, SessionsAreOrdered, SessionIsOrdered
  <2>3. sessions[i].status = "pending"
    BY <2>2, SessionFields DEF IInv, SessionsAreOrdered, SessionIsOrdered, Session
  <2> QED
    BY <2>1, <2>2, <2>3 DEF PendingSessions
<1> QED
  BY <1>1, PayoutInvariant, PTL

\* What the builder built for the UTXO that is unspent the covenant accepts, unless
\* the vault was idle for two periods or the recipient is not allowed.
THEOREM PayoutBuilderAgrees == Spec => []BuilderAgrees
<1>1. IInv => BuilderAgrees
  <2> SUFFICES ASSUME IInv, AllowlistEnabled => Payee \in Allowed,
                      NEW i \in DOMAIN sessions, sessions[i].tx.utxo = utxo,
                      sessions[i].tx.periodId <= periodId + 1
               PROVE  CovenantAccepts(sessions[i].tx)
    BY DEF BuilderAgrees
  <2> DEFINE tx == sessions[i].tx
  <2>1. StillBuilt(tx) /\ Genesis <= tx.locktime + BuilderLag /\ TypeOK /\ VaultFollowsClock
    BY DEF IInv, TxsAreBuilt, BuiltForVault
  <2>2. tx.locktime \in Nat /\ tx.periodId \in Nat
    BY <2>1, SessionFields DEF Template
  <2>3. tx.utxo = utxo /\ tx.periodId <= periodId + 1
    OBVIOUS
  <2> HIDE DEF tx
  <2>4. /\ tx.periodId >= periodId
        /\ tx.periodId > periodId =>
             PeriodDuration > 0 /\ tx.locktime >= lastUpdate + PeriodDuration
    BY <2>1, <2>2, RolledPeriodType DEF StillBuilt
  <2>5. tx.periodId = periodId \/ tx.periodId = periodId + 1
    BY <2>1, <2>2, <2>3, <2>4, VaultTypes
  <2>6. ASSUME tx.periodId = periodId + 1
        PROVE  PeriodOver(tx.locktime)
    <3>1. tx.locktime >= lastUpdate + PeriodDuration /\ PeriodDuration > 0
      BY <2>1, <2>4, <2>6, VaultTypes
    <3>2. tx.locktime >= LocktimeFloor
      BY <2>1, <2>2, <3>1, VaultTypes, ConstantTypes, PayoutConstants DEF VaultFollowsClock
    <3>3. periodId + 1 \in PeriodIds
      BY <2>1, VaultTypes, ConstantTypes, PayoutConstants
      DEF VaultFollowsClock, StillBuilt, PeriodIds
    <3> QED
      BY <3>1, <3>2, <3>3 DEF PeriodOver
  <2>7. tx.spent = IF tx.periodId = periodId THEN spent + Payout ELSE Payout
    BY <2>1, <2>2, <2>5, VaultTypes DEF StillBuilt
  <2>8. Payout + FeeReserve <= value
    BY <2>1, VaultTypes, ConstantTypes DEF StillBuilt
  <2>9. CovenantAccepts(tx)
    BY <2>1, <2>3, <2>5, <2>6, <2>7, <2>8 DEF StillBuilt, CovenantAccepts
  <2> QED
    BY <2>9 DEF tx
<1> QED
  BY <1>1, PayoutInvariant, PTL

\* The vault the backend pays from is the vault of the covenant: sessions, races,
\* lost answers and restarts included, nothing happens to it that VaultCovenant
\* does not allow.
THEOREM PayoutsKeepVault == Spec => VaultSpec
<1>1. Init => VaultInit
  BY DEF Init
<1>2. IInv /\ [Next]_vars => [VaultNext]_vaultVars
  BY VaultStep DEF IInv
<1> QED
  BY <1>1, <1>2, PayoutInvariant, PTL DEF Spec, VaultSpec

\* No period of the vault pays out more than its cap through the sessions, which
\* only ever spend the vault as a first input.
THEOREM PayoutPeriodCap == Spec => [](~laterInput /\ PeriodCapHolds)
<1>1. IInv => ~laterInput
  BY DEF IInv, VaultFollowsClock
<1> QED
  BY <1>1, PayoutInvariant, PayoutsKeepVault, VaultPeriodCap, PTL

\* The sessions' vault is an escrow without exception: nothing is paid while it is
\* paused, and the emergency lock is final, whatever has been signed before.
THEOREM PayoutsImplementEscrow == Spec => E!Spec
<1>1. IInv => laterInput = FALSE
  BY DEF IInv, VaultFollowsClock, TypeOK, VaultTypeOK
<1>2. laterInput = FALSE /\ (laterInput = FALSE)' =>
        ([E!Next \/ laterInput' # laterInput]_(E!evars) => [E!Next]_(E!evars))
  OBVIOUS
<1>3. Spec => VaultIsEscrow
  BY PayoutsKeepVault, VaultImplementsEscrow
<1> QED
  BY <1>1, <1>2, <1>3, PayoutInvariant, PTL DEF VaultIsEscrow, E!Spec

=============================================================================
