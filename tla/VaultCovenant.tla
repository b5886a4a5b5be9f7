--------------------------- MODULE VaultCovenant ----------------------------
(***************************************************************************)
(* contracts/core/treasury/VaultCovenant.cash: the treasury covenant.      *)
(*                                                                         *)
(* The vault is one UTXO.  Its CashTokens commitment carries a status, a   *)
(* period number, the amount spent in that period and the time of the last *)
(* update; every function of the contract consumes the UTXO and checks the *)
(* one that replaces it.  A transaction carries a locktime of its          *)
(* builder's choice: consensus only requires a locktime that is enforced   *)
(* (a non-final input) to lie in the past, and the contract enforces one   *)
(* (tx.time) only where the period number changes.                         *)
(*                                                                         *)
(* Every function reads the commitment, the category and the value of the  *)
(* transaction's FIRST input, and compares its outputs with those; no      *)
(* function asks which input it is itself evaluated for.  The vault as the *)
(* first input is one action per function; the vault as a later one, where *)
(* the same checks bind some other input, is asLaterInput.                 *)
(***************************************************************************)
EXTENDS Integers, FiniteSets

CONSTANTS
  Signers,          \* signer1Hash .. signer3Hash
  Recipients,       \* every recipient hash a payout may name
  Allowed,          \* allowedAddr1 .. allowedAddr3
  AllowlistEnabled, \* allowlistEnabled = 1
  PeriodDuration,   \* seconds per spending period, 0 = none
  PeriodCap,        \* most a period may pay out, 0 = unlimited
  RecipientCap,     \* most one payout may carry, 0 = unlimited
  MaxFee,           \* 5000 satoshis in the contract
  Deposit,          \* value of the funding output
  Genesis,          \* last_update_timestamp of the funding commitment
  LocktimeFloor,    \* 500000000: smaller locktimes are block heights
  Lag,              \* how far a locktime may lie behind the chain when it is mined
  MaxLocktime,      \* the largest locktime a transaction can carry (2^32 - 1)
  MaxPeriodId,      \* the largest period number four bytes hold (2^31 - 1)
  MaxTime           \* bound of the model: the clock stops here

ASSUME VaultConstants ==
  /\ IsFiniteSet(Signers) /\ Cardinality(Signers) = 3
  /\ Allowed \subseteq Recipients
  /\ AllowlistEnabled \in BOOLEAN
  /\ {PeriodDuration, PeriodCap, RecipientCap, MaxFee, Deposit, Genesis,
      LocktimeFloor, Lag, MaxLocktime, MaxPeriodId, MaxTime} \subseteq Nat
  /\ LocktimeFloor <= Genesis

VARIABLES
  status,      \* byte 1 of the commitment
  periodId,    \* bytes 5-8, current_period_id
  spent,       \* bytes 9-16, spent_this_period
  lastUpdate,  \* bytes 17-24, last_update_timestamp
  value,       \* satoshis of the vault UTXO
  now,         \* the chain's median time past
  willing,     \* the signers who take part in this behaviour
  paid,        \* history: what each period paid out
  payouts,     \* history: period and time of each payout
  released,    \* history: everything paid to recipients
  burned,      \* history: miner fees taken from the vault
  laterInput   \* history: the vault was spent as a later input than the first

commitment == <<status, periodId, spent, lastUpdate>>
history == <<paid, payouts, released, burned, laterInput>>
vaultVars == <<commitment, value, now, willing, history>>

Statuses == {"ACTIVE", "PAUSED", "EMERGENCY_LOCK"}
PeriodIds == 0 .. MaxPeriodId

VaultTypeOK ==
  /\ status \in Statuses
  /\ periodId \in PeriodIds
  /\ spent \in Nat
  /\ lastUpdate \in Nat
  /\ value \in Nat
  /\ now \in Nat
  /\ willing \in SUBSET Signers
  /\ paid \in [PeriodIds -> Nat]
  /\ payouts \in SUBSET [period : PeriodIds, at : Nat]
  /\ released \in Nat
  /\ burned \in Nat
  /\ laterInput \in BOOLEAN

\* The funding transaction: VaultFundingService builds the first commitment.
VaultInit ==
  /\ status = "ACTIVE"
  /\ periodId = 0
  /\ spent = 0
  /\ lastUpdate = Genesis
  /\ value = Deposit
  /\ now = Genesis
  /\ willing \in SUBSET Signers
  /\ paid = [p \in PeriodIds |-> 0]
  /\ payouts = {}
  /\ released = 0
  /\ burned = 0
  /\ laterInput = FALSE

-----------------------------------------------------------------------------
\* Locktimes of a transaction whose inputs enforce it, and of any transaction.
EnforcedLocktimes == {t \in 0 .. now : t + Lag >= now}
Locktimes == {t \in 0 .. MaxLocktime : t + Lag >= now}

\* Mutant of Move: the outputs are not bounded by the input's value.
MoveUnbounded(payout, fee) == /\ ~laterInput /\ laterInput' = laterInput
                              /\ value' = value - payout - fee
                              /\ released' = released + payout
                              /\ burned' = burned + fee

\* A transaction whose first input is the vault pays `payout` out and lets the
\* miner keep `fee`.
Move(payout, fee) == /\ ~laterInput /\ laterInput' = laterInput
                     /\ payout + fee <= value
                     /\ value' = value - payout - fee
                     /\ released' = released + payout
                     /\ burned' = burned + fee

\* Mutant of PeriodOver: the elapsed time is compared without periodDuration.
PeriodOverEarly(t) == /\ t >= LocktimeFloor
                      /\ t >= lastUpdate
                      /\ periodId + 1 \in PeriodIds

\* A new period may begin at locktime t.
PeriodOver(t) == /\ t >= LocktimeFloor
                 /\ PeriodDuration > 0 => t >= lastUpdate + PeriodDuration
                 /\ periodId + 1 \in PeriodIds

unlockPeriod(s, t, fee) ==
  /\ s \in willing
  /\ status = "ACTIVE"
  /\ t \in EnforcedLocktimes
  /\ PeriodOver(t)
  /\ periodId' = periodId + 1
  /\ spent' = 0
  /\ lastUpdate' = t
  /\ Move(0, fee)
  /\ UNCHANGED <<status, now, willing, paid, payouts>>

\* Mutant of TwoSigners: the same signer may sign twice.
TwoSignatures(s1, s2) == {s1, s2} \subseteq willing

\* spend and resume: two distinct registered signers.
TwoSigners(s1, s2) == /\ {s1, s2} \subseteq willing
                      /\ s1 # s2

\* Mutant of SamePeriod: the counter forgets what the period already spent.
SamePeriodForgets(t, payout) == /\ t \in Locktimes
                                /\ periodId' = periodId
                                /\ spent' = payout

\* spend's choice of period: stay in the current one, or open the next.
SamePeriod(t, payout) == /\ t \in Locktimes
                         /\ periodId' = periodId
                         /\ spent' = spent + payout

NextPeriod(t, payout) == /\ t \in EnforcedLocktimes
                         /\ PeriodOver(t)
                         /\ periodId' = periodId + 1
                         /\ spent' = payout

WithinCaps(payout) == /\ PeriodCap > 0 => spent' <= PeriodCap
                      /\ RecipientCap > 0 => payout <= RecipientCap

spend(s1, s2, recipient, payout, t, fee) ==
  /\ TwoSigners(s1, s2)
  /\ status = "ACTIVE"
  /\ payout > 0
  /\ SamePeriod(t, payout) \/ NextPeriod(t, payout)
  /\ WithinCaps(payout)
  /\ AllowlistEnabled => recipient \in Allowed
  /\ lastUpdate' = t
  /\ Move(payout, fee)
  /\ paid' = [paid EXCEPT ![periodId'] = @ + payout]
  /\ payouts' = payouts \union {[period |-> periodId', at |-> now]}
  /\ UNCHANGED <<status, now, willing>>

\* pause, resume and emergencyLock rewrite the status byte and nothing else.
SetStatus(new, fee) ==
  /\ status' = new
  /\ Move(0, fee)
  /\ UNCHANGED <<periodId, spent, lastUpdate, now, willing, paid, payouts>>

pause(s, fee) ==
  /\ s \in willing
  /\ status = "ACTIVE"
  /\ SetStatus("PAUSED", fee)

\* Mutant of resume: any vault that is not active can be resumed.
resumeAny(s1, s2, fee) ==
  /\ TwoSigners(s1, s2)
  /\ status # "ACTIVE"
  /\ SetStatus("ACTIVE", fee)

resume(s1, s2, fee) ==
  /\ TwoSigners(s1, s2)
  /\ status = "PAUSED"
  /\ SetStatus("ACTIVE", fee)

emergencyLock(fee) ==
  /\ Signers \subseteq willing
  /\ status \in {"ACTIVE", "PAUSED"}
  /\ SetStatus("EMERGENCY_LOCK", fee)

\* The vault is not the first input of its transaction.  What binds its value is
\* then the number of outputs alone: unlockPeriod and pause leave one, which is
\* bounded by the first input, so that everything goes to the miner; spend, with
\* its two signatures, leaves a third one nothing is asked of.  Whatever becomes
\* of the vault's token after that is not followed.
asLaterInput(s1, s2, out) ==
  /\ ~laterInput /\ laterInput' = TRUE
  /\ {s1, s2} \subseteq willing
  /\ out > 0 => TwoSigners(s1, s2)
  /\ value' = 0
  /\ released' = released + out
  /\ burned' = burned + (value - out)
  /\ paid' = [paid EXCEPT ![periodId] = @ + out]
  /\ payouts' = payouts \union
       (IF out > 0 THEN {[period |-> periodId, at |-> now]} ELSE {})
  /\ UNCHANGED <<commitment, now, willing>>

\* Blocks are mined: the median time past advances.
VaultTick ==
  /\ now < MaxTime
  /\ now' = now + 1
  /\ UNCHANGED <<commitment, value, willing, history>>

VaultNext ==
  \/ \E s \in Signers, t \in 0 .. MaxLocktime, fee \in 0 .. MaxFee :
        unlockPeriod(s, t, fee)
  \/ \E s1, s2 \in Signers, r \in Recipients, payout \in 1 .. value,
        t \in 0 .. MaxLocktime, fee \in 0 .. MaxFee :
        spend(s1, s2, r, payout, t, fee)
  \/ \E s \in Signers, fee \in 0 .. MaxFee : pause(s, fee)
  \/ \E s1, s2 \in Signers, fee \in 0 .. MaxFee : resume(s1, s2, fee)
  \/ \E fee \in 0 .. MaxFee : emergencyLock(fee)
  \/ \E s1, s2 \in Signers, out \in 0 .. value : asLaterInput(s1, s2, out)
  \/ VaultTick

VaultSpec == VaultInit /\ [][VaultNext]_vaultVars

-----------------------------------------------------------------------------
(* Properties *)

\* No period ever pays out more than periodCap, summed over the vault's whole
\* history of payouts and not only by the counter in the commitment, for as long
\* as the vault is only ever spent as a first input: as a later one its payouts
\* are not compared with the cap at all.
PeriodCapHolds ==
  ~laterInput /\ PeriodCap > 0 => \A p \in PeriodIds : paid[p] <= PeriodCap

\* Two payouts charged to different periods lie at least periodDuration, less
\* the locktimes' lag, apart on the chain's clock: the cap of one period cannot
\* be spent on top of another's within one window.  A spend that stays in its
\* period moves last_update_timestamp forward, which is what keeps this true
\* when the period is left open after its time.
PeriodsApart ==
  ~laterInput /\ PeriodDuration > 0 =>
    \A r, s \in payouts :
      r.period < s.period => s.at + Lag >= r.at + PeriodDuration

\* One signer alone pays nobody, whichever input the vault is.  The miner fees
\* one signer alone can take are those of one pause and of one unlockPeriod per
\* elapsed period, but only while the vault is spent as a first input: as a later
\* one a single signature leaves everything to the miner.
LoneSignerPaysNobody ==
  Cardinality(willing) < 2 =>
    /\ payouts = {} /\ released = 0
    /\ ~laterInput /\ PeriodDuration > 0 =>
         burned <= MaxFee * (1 + (now - Genesis) \div PeriodDuration)

\* Every transaction whose first input is the vault is a step of the escrow: while
\* the vault is paused nothing leaves it, and after the emergency lock nothing
\* moves it.  The one step that need not be is the vault spent as a later input.
phase == CASE status = "ACTIVE" -> "open"
           [] status = "PAUSED" -> "held"
           [] OTHER -> "closed"
E == INSTANCE Escrow WITH reserve <- value, Deposits <- {Deposit}
VaultIsEscrow == E!Init /\ [][E!Next \/ laterInput' # laterInput]_(E!evars)
=============================================================================
