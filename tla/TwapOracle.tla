------------------------------- MODULE TwapOracle -------------------------------
(***************************************************************************)
(* The on-chain program programs/slot_twap_oracle: one oracle, its         *)
(* observation buffer, its reward vault, and the token accounts the vault  *)
(* trades with.  There is one action per instruction of lib.rs.  A Solana  *)
(* transaction is atomic: when an account constraint, a require! or a      *)
(* checked operation fails, nothing it did remains.  So the conditions of  *)
(* an instruction are the guards of its action, and a failing call is a    *)
(* stuttering step.  get_swap changes nothing and is an operator.          *)
(*                                                                         *)
(* Several transactions can land in one slot; the clock moves between      *)
(* them (AdvanceSlot).                                                     *)
(***************************************************************************)
EXTENDS ObservationRing, SwapMath, Sequences, Functions

CONSTANTS
    Users,          \* the keys that sign transactions, each with one token account
    NoKey,          \* Pubkey::default()
    VaultTokens,    \* the vault's token account
    None,           \* an optional account that was not passed
    Prices,         \* the prices updaters submit
    Deviations,     \* the thresholds (bps) owners set
    Capacities,     \* the ring capacities owners ask for
    MaxGrowth,      \* entries one reallocation can add (10,240 bytes / 24)
    RewardAmounts,  \* reward_per_update of a vault, when one is created
    Amounts,        \* tokens moved by one fund or withdraw
    InitialTokens,  \* what each user's token account holds at first
    MaxU64,         \* the largest u64 of the instance's token counters
    FirstSlot,      \* the slot of the first transaction
    MaxSlot         \* the last slot explored

ASSUME UsersAssumption == NoKey \notin Users /\ VaultTokens \notin Users
ASSUME FiniteUsersAssumption == IsFiniteSet(Users)
ASSUME NoneAssumption == None \notin Users \cup {VaultTokens}
ASSUME PricesAssumption == Prices \subseteq 0 .. MaxU128
ASSUME DeviationsAssumption == Deviations \subseteq Nat
ASSUME CapacitiesAssumption == Capacities \subseteq Nat
ASSUME AmountsAssumption == /\ RewardAmounts \subseteq Nat
                            /\ Amounts \subseteq Nat
                            /\ InitialTokens \in Nat
ASSUME BoundsAssumption == /\ MaxGrowth \in Nat
                           /\ MaxU64 \in Nat
                           /\ FirstSlot \in Nat \ {0}
                           /\ MaxSlot \in Nat

VARIABLES
    slot,       \* Clock::slot
    accounts,   \* which of the PDAs "oracle" (with its buffer) and "vault" exist
    oracle,     \* the Oracle account
    buffer,     \* the ObservationBuffer account
    vault,      \* the RewardVault account
    balance,    \* the token accounts
    updates,    \* the OracleUpdate events emitted, in order
    claims      \* the RewardClaimed events emitted, in order

oracleVars == <<oracle, buffer, updates>>
rewardVars == <<vault, balance, claims>>
vars == <<slot, accounts, oracleVars, rewardVars>>

TokenAccounts == Users \cup {VaultTokens}

OracleExists == "oracle" \in accounts
VaultExists  == "vault" \in accounts
IsOwner(signer) == OracleExists /\ signer = oracle.owner

BPS_DENOMINATOR == 10000
DEFAULT_DEVIATION_BPS == 1000

\* An oracle as it is created; fields the handler leaves alone are zero.
NewOracle(owner, last_slot, max_deviation_bps) ==
    [owner             |-> owner,
     pending_owner     |-> NoKey,
     last_price        |-> 0,
     cumulative_price  |-> 0,
     last_slot         |-> last_slot,
     last_updater      |-> NoKey,
     paused            |-> FALSE,
     max_deviation_bps |-> max_deviation_bps]

NoOracle == NewOracle(NoKey, 0, 0)

NoVault == [reward_per_update      |-> 0,
            total_distributed      |-> 0,
            total_updates_rewarded |-> 0,
            last_rewarded_slot     |-> 0]

Init ==
    /\ slot = FirstSlot
    /\ accounts = {}
    /\ oracle = NoOracle
    /\ buffer = NewBuffer(0)
    /\ vault = NoVault
    /\ balance = [a \in TokenAccounts |->
                     IF a = VaultTokens THEN 0 ELSE InitialTokens]
    /\ updates = <<>>
    /\ claims = <<>>

AdvanceSlot ==
    /\ slot < MaxSlot
    /\ slot' = slot + 1
    /\ UNCHANGED <<accounts, oracleVars, rewardVars>>

--------------------------------------------------------------------------------
(* Administration *)

\* Slip: init_if_needed.
InitializeOracleAgain(authority, capacity) ==
    /\ capacity > 0
    /\ accounts' = accounts \cup {"oracle"}
    /\ oracle' = NewOracle(authority, slot, DEFAULT_DEVIATION_BPS)
    /\ buffer' = NewBuffer(capacity)
    /\ UNCHANGED <<slot, updates, rewardVars>>

\* The accounts are created with `init', which fails when they exist already.
InitializeOracle(authority, capacity) ==
    /\ ~ OracleExists
    /\ capacity > 0
    /\ accounts' = accounts \cup {"oracle"}
    /\ oracle' = NewOracle(authority, slot, DEFAULT_DEVIATION_BPS)
    /\ buffer' = NewBuffer(capacity)
    /\ UNCHANGED <<slot, updates, rewardVars>>

\* Slip: the default key can be proposed.
ProposeAnyKey(signer, new_owner) ==
    /\ IsOwner(signer)
    /\ new_owner # oracle.owner
    /\ oracle' = [oracle EXCEPT !.pending_owner = new_owner]
    /\ UNCHANGED <<slot, accounts, buffer, updates, rewardVars>>

TransferOwnership(signer, new_owner) ==
    /\ IsOwner(signer)
    /\ new_owner # oracle.owner
    /\ new_owner # NoKey
    /\ oracle' = [oracle EXCEPT !.pending_owner = new_owner]
    /\ UNCHANGED <<slot, accounts, buffer, updates, rewardVars>>

AcceptOwnership(signer) ==
    /\ OracleExists
    /\ signer = oracle.pending_owner
    /\ oracle' = [oracle EXCEPT !.owner = oracle.pending_owner,
                                !.pending_owner = NoKey]
    /\ UNCHANGED <<slot, accounts, buffer, updates, rewardVars>>

SetPaused(signer, paused) ==
    /\ IsOwner(signer)
    /\ oracle' = [oracle EXCEPT !.paused = paused]
    /\ UNCHANGED <<slot, accounts, buffer, updates, rewardVars>>

SetMaxDeviation(signer, new_max_deviation_bps) ==
    /\ IsOwner(signer)
    /\ new_max_deviation_bps > 0
    /\ oracle' = [oracle EXCEPT !.max_deviation_bps = new_max_deviation_bps]
    /\ UNCHANGED <<slot, accounts, buffer, updates, rewardVars>>

\* realloc runs first and grows an account by a bounded amount; the resized
\* buffer is written back into the account when the handler returns.
ResizeBuffer(signer, new_capacity) ==
    /\ IsOwner(signer)
    /\ new_capacity - buffer.capacity <= MaxGrowth
    /\ new_capacity > 0
    /\ FitsAccount(Resize(buffer, new_capacity))
    /\ buffer' = Resize(buffer, new_capacity)
    /\ UNCHANGED <<slot, accounts, oracle, updates, rewardVars>>

--------------------------------------------------------------------------------
(* Rewards *)

\* A token transfer; an account may pay itself, which changes nothing.
CanTransfer(source, amount) == balance[source] >= amount

\* Slip: both new balances computed from the old ones.
TransferredFromOld(source, target, amount) ==
    [[balance EXCEPT ![source] = @ - amount]
        EXCEPT ![target] = balance[target] + amount]

Transferred(source, target, amount) ==
    [a \in TokenAccounts |->
        balance[a] - (IF a = source THEN amount ELSE 0)
                   + (IF a = target THEN amount ELSE 0)]

\* The vault's last_rewarded_slot is left at zero.
InitializeRewardVault(signer, reward_per_update) ==
    /\ IsOwner(signer)
    /\ ~ VaultExists
    /\ reward_per_update > 0
    /\ accounts' = accounts \cup {"vault"}
    /\ vault' = [NoVault EXCEPT !.reward_per_update = reward_per_update]
    /\ UNCHANGED <<slot, oracleVars, balance, claims>>

FundRewardVault(funder, amount) ==
    /\ VaultExists
    /\ CanTransfer(funder, amount)
    /\ balance' = Transferred(funder, VaultTokens, amount)
    /\ UNCHANGED <<slot, accounts, oracleVars, vault, claims>>

\* Into any token account but the vault's own.
WithdrawRewardVault(signer, target, amount) ==
    /\ IsOwner(signer)
    /\ VaultExists
    /\ CanTransfer(VaultTokens, amount)
    /\ balance' = Transferred(VaultTokens, target, amount)
    /\ UNCHANGED <<slot, accounts, oracleVars, vault, claims>>

\* The conditions under which update_price pays for the update before it.
RewardDue(recipient) ==
    /\ recipient # None
    /\ oracle.last_updater # NoKey
    /\ oracle.last_slot # vault.last_rewarded_slot
    /\ balance[VaultTokens] >= vault.reward_per_update
    /\ vault.reward_per_update > 0

CountersFit ==
    /\ vault.total_distributed + vault.reward_per_update <= MaxU64
    /\ vault.total_updates_rewarded + 1 <= MaxU64

\* Pay into the token account the caller passed.  Its owner is not compared
\* with last_updater.  Where the token program refuses the transfer (another mint,
\* a frozen account) the whole update is refused: no step.
PayReward(recipient) ==
    /\ RewardDue(recipient)
    /\ CountersFit
    /\ balance' = Transferred(VaultTokens, recipient, vault.reward_per_update)
    /\ vault' = [vault EXCEPT !.total_distributed = @ + vault.reward_per_update,
                              !.total_updates_rewarded = @ + 1,
                              !.last_rewarded_slot = oracle.last_slot]
    /\ claims' = Append(claims, [updater   |-> oracle.last_updater,
                                 amount    |-> vault.reward_per_update,
                                 for_slot  |-> oracle.last_slot,
                                 paid_slot |-> slot,
                                 recipient |-> recipient])

\* Slip: accounts that were passed must be paid into.
SkipOnlyIfOmitted(recipient) == recipient = None /\ UNCHANGED rewardVars

SkipReward(recipient) == ~ RewardDue(recipient) /\ UNCHANGED rewardVars

--------------------------------------------------------------------------------
(* Prices *)

Distance(a, b) == IF a >= b THEN a - b ELSE b - a

\* Slip: the product is taken before the difference.
WithinDeviationScaledFirst(new_price) ==
    oracle.last_price # 0 =>
        LET scaled == Distance(new_price, oracle.last_price) * BPS_DENOMINATOR
        IN  /\ Fits(new_price * BPS_DENOMINATOR)
            /\ scaled \div oracle.last_price <= oracle.max_deviation_bps

\* The guard compares with the price in force, and is skipped when that is zero.
WithinDeviation(new_price) ==
    oracle.last_price # 0 =>
        LET scaled == Distance(new_price, oracle.last_price) * BPS_DENOMINATOR
        IN  /\ Fits(scaled)
            /\ scaled \div oracle.last_price <= oracle.max_deviation_bps

\* Slip: the first updater stays recorded.
AcceptedFromFirst(payer, new_price, cumulative) ==
    [oracle EXCEPT !.cumulative_price = cumulative,
                   !.last_price = new_price,
                   !.last_slot = slot,
                   !.last_updater = IF @ = NoKey THEN payer ELSE @]

\* The oracle after an update that is accepted.
Accepted(payer, new_price, cumulative) ==
    [oracle EXCEPT !.cumulative_price = cumulative,
                   !.last_price = new_price,
                   !.last_slot = slot,
                   !.last_updater = payer]

UpdatePrice(payer, new_price, recipient) ==
    LET cumulative == ExtendedCumulative(oracle, slot)
    IN  /\ OracleExists
        /\ recipient # None => VaultExists
        /\ ~ oracle.paused
        /\ oracle.last_slot < slot
        /\ WithinDeviation(new_price)
        /\ PayReward(recipient) \/ SkipReward(recipient)
        /\ Fits(cumulative)
        /\ oracle' = Accepted(payer, new_price, cumulative)
        /\ buffer' = PushObservation(buffer, [slot |-> slot,
                                              cumulative_price |-> cumulative])
        /\ updates' = Append(updates, [slot             |-> slot,
                                       price            |-> new_price,
                                       cumulative_price |-> cumulative,
                                       updater          |-> payer])
        /\ UNCHANGED <<slot, accounts>>

\* The instruction get_swap: which error it raises, or the average it returns.
GetSwap(window_slots, max_staleness_slots) ==
    LET cumulative_now == ExtendedCumulative(oracle, slot)
        window_start   == slot - window_slots
        past == ObservationBeforeSlot(buffer, window_start + 1)
    IN  IF oracle.paused THEN Fails("OraclePaused")
        ELSE IF buffer.len = 0 THEN Fails("InsufficientHistory")
        ELSE IF slot - oracle.last_slot > max_staleness_slots
             THEN Fails("StaleOracle")
        ELSE IF ~ Fits(cumulative_now) THEN Fails("PriceOverflow")
        ELSE IF window_start < 0 \/ AgesBefore(buffer, window_start + 1) = {}
             THEN Fails("InsufficientHistory")
        ELSE ComputeSwap(cumulative_now, past.cumulative_price, slot, past.slot)

--------------------------------------------------------------------------------
Administer(u) ==
    \/ \E c \in Capacities : InitializeOracle(u, c) \/ ResizeBuffer(u, c)
    \/ \E v \in Users \cup {NoKey} : TransferOwnership(u, v)
    \/ AcceptOwnership(u)
    \/ \E p \in BOOLEAN : SetPaused(u, p)
    \/ \E d \in Deviations : SetMaxDeviation(u, d)

Reward(u) ==
    \/ \E r \in RewardAmounts : InitializeRewardVault(u, r)
    \/ \E n \in Amounts : FundRewardVault(u, n)
    \/ \E n \in Amounts, v \in Users : WithdrawRewardVault(u, v, n)

Submit(u) ==
    \E p \in Prices, r \in TokenAccounts \cup {None} : UpdatePrice(u, p, r)

Next == AdvanceSlot \/ \E u \in Users : Administer(u) \/ Reward(u) \/ Submit(u)

Spec == Init /\ [][Next]_vars
================================================================================
