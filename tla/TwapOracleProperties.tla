-------------------------- MODULE TwapOracleProperties --------------------------
(***************************************************************************)
(* What the program promises.  The properties relate the accounts to the   *)
(* events emitted so far (updates, claims), never to the ring itself: the  *)
(* events are the history, the accounts are what is left of it.            *)
(***************************************************************************)
EXTENDS TwapOracle

Observations == [slot : Nat, cumulative_price : 0 .. MaxU128]

OracleType == [owner             : Users \cup {NoKey},
               pending_owner     : Users \cup {NoKey},
               last_price        : 0 .. MaxU128,
               cumulative_price  : 0 .. MaxU128,
               last_slot         : Nat,
               last_updater      : Users \cup {NoKey},
               paused            : BOOLEAN,
               max_deviation_bps : Nat]

BufferType == [head         : Nat,
               len          : Nat,
               capacity     : Nat,
               observations : [0 .. buffer.capacity - 1 -> Observations]]

VaultType == [reward_per_update      : Nat,
              total_distributed      : 0 .. MaxU64,
              total_updates_rewarded : 0 .. MaxU64,
              last_rewarded_slot     : Nat]

UpdateType == [slot : Nat, price : 0 .. MaxU128,
               cumulative_price : 0 .. MaxU128, updater : Users]

ClaimType == [updater : Users, amount : Nat, for_slot : Nat,
              paid_slot : Nat, recipient : TokenAccounts]

\* Every account holds values of its Rust type: no u128 or u64 overflows, no
\* token account is overdrawn, the array has exactly `capacity' elements.
TypeOK ==
    /\ slot \in Nat
    /\ accounts \subseteq {"oracle", "vault"}
    /\ oracle \in OracleType
    /\ buffer \in BufferType
    /\ vault \in VaultType
    /\ balance \in [TokenAccounts -> Nat]
    /\ updates \in Seq(UpdateType)
    /\ claims \in Seq(ClaimType)

--------------------------------------------------------------------------------
(* The ring *)

\* The n-th newest update accepted so far.
NthUpdate(n) == updates[Len(updates) - n + 1]

\* Whatever pushes, wraps and resizes came before, scanning the ring backwards
\* meets the newest updates in order, none missing, none twice: the n-th entry
\* get_observation_before_slot looks at is the n-th newest update.
RingHoldsNewestUpdates ==
    /\ buffer.len <= Len(updates)
    /\ \A n \in 1 .. buffer.len :
          NthNewest(buffer, n) =
              [slot |-> NthUpdate(n).slot,
               cumulative_price |-> NthUpdate(n).cumulative_price]

\* The buffer is an implementation of the sliding window of ObservationLog: in
\* particular an observation is forgotten only when a capacity demands it.
Window == [n \in 1 .. buffer.len |-> NthNewest(buffer, n)]

SlidingWindow == INSTANCE ObservationLog
                    WITH log <- Window, capacity <- buffer.capacity

ImplementsSlidingWindow == SlidingWindow!Spec

--------------------------------------------------------------------------------
(* The average *)

\* The price in force in slot s: the one of the last update at or before s.
UpdatesUpTo(s) == { k \in DOMAIN updates : updates[k].slot <= s }

PriceInForce(s) == IF UpdatesUpTo(s) = {} THEN 0
                   ELSE updates[Max(UpdatesUpTo(s))].price

\* The sum of the prices in force in the slots from .. to - 1.
Integral(from, to) == SumFunction([s \in from .. to - 1 |-> PriceInForce(s)])

\* The accumulator is the integral of the price over time, through pauses,
\* skipped slots and resizes, and each stored observation is its value then.
CumulativeIsIntegral ==
    /\ oracle.cumulative_price = Integral(FirstSlot, oracle.last_slot)
    /\ \A k \in DOMAIN updates :
          updates[k].cumulative_price = Integral(FirstSlot, updates[k].slot)

\* The updates the ring still remembers.
Retained == Len(updates) - buffer.len + 1 .. Len(updates)

\* The updates get_swap may measure from: retained, and outside the window.
Before(window_slots) ==
    { k \in Retained : updates[k].slot <= slot - window_slots }

\* get_swap answers exactly when the oracle runs, is fresh, has an update at or
\* before the window's start and none in the current slot that would make the
\* interval empty; and then the answer is the floor of the average price in
\* force since the newest such update.  It says nothing of the ring or of the
\* accumulator: both are means to this.
SwapIsSlotAverage ==
    \A window_slots \in 0 .. slot + 1, max_staleness_slots \in {0, 1, MaxSlot} :
        LET answer == GetSwap(window_slots, max_staleness_slots)
            start  == updates[Max(Before(window_slots))].slot
            answerable == /\ ~ oracle.paused
                          /\ slot - oracle.last_slot <= max_staleness_slots
                          /\ Before(window_slots) # {}
                          /\ start < slot
                          /\ Integral(FirstSlot, slot) <= MaxU128
        IN  /\ answer.error = "none" <=> answerable
            /\ answerable =>
                   answer.swap = Integral(start, slot) \div (slot - start)

--------------------------------------------------------------------------------
(* Availability *)

\* The accumulator can no longer be carried to the current slot.
Wedged == ExtendedCumulative(oracle, slot) > MaxU128

\* checked_add turns an accumulator that would overflow into a permanent stop:
\* no instruction, of the owner either, brings the oracle back.
WedgeIsPermanent == [][Wedged => Wedged']_vars

\* And it is the only one: to repeat the price in force is always accepted, of
\* anyone, when the oracle is not paused and this slot has no update yet.
OnlyAWedgeStopsUpdates ==
    \A u \in Users :
        OracleExists /\ ~ oracle.paused /\ oracle.last_slot < slot /\ ~ Wedged
            => ENABLED UpdatePrice(u, oracle.last_price, None)

\* However little the vault holds, passing the reward accounts does not make an
\* update fail that would have been accepted without them, as long as the vault's
\* counters do not overflow.  (What the token program itself refuses, an account of
\* another mint or a frozen one, does fail the update; it is not modelled.)
RewardNeverBlocksUpdate ==
    \A u \in Users, p \in Prices, r \in TokenAccounts :
        VaultExists /\ CountersFit /\ ENABLED UpdatePrice(u, p, None)
            => ENABLED UpdatePrice(u, p, r)

\* resize_buffer shrinks the ring of any oracle (README.md:47).  For a ring
\* without observations the code shortens the account and not the array.
OwnerCanShrink ==
    \A u \in Users, c \in Capacities :
        IsOwner(u) /\ c < buffer.capacity => ENABLED ResizeBuffer(u, c)

--------------------------------------------------------------------------------
(* Rewards *)

\* Each reward is for one accepted update, names the updater of that update and
\* is paid by the update that follows it; so no update is rewarded twice, and
\* one its successor left unrewarded never is.  (Whose account is paid is another
\* matter: RewardsGoToTheUpdater.)
RewardsFollowUpdates ==
    /\ \A c \in DOMAIN claims : \E k \in 1 .. Len(updates) - 1 :
          /\ claims[c].for_slot  = updates[k].slot
          /\ claims[c].updater   = updates[k].updater
          /\ claims[c].paid_slot = updates[k + 1].slot
    /\ \A c, d \in DOMAIN claims : c < d => claims[c].for_slot < claims[d].for_slot

\* "Pass all four to auto-pay the previous updater on each update", into the "token
\* account of the *previous* updater" (update_price.rs:29 and :49): a reward is paid
\* to the updater it names.  The code compares the account it is passed with nothing.
RewardsGoToTheUpdater ==
    \A c \in DOMAIN claims : claims[c].recipient = claims[c].updater

\* The vault's counters are those of the events, and fund, withdraw and pay
\* (into any account, the vault's own included) neither make nor lose tokens.
RewardBooksBalance ==
    /\ vault.total_updates_rewarded = Len(claims)
    /\ vault.total_distributed =
          SumFunction([c \in DOMAIN claims |-> claims[c].amount])
    /\ SumFunction(balance) = InitialTokens * Cardinality(Users)

--------------------------------------------------------------------------------
(* Ownership *)

\* An owner leaves only in favour of the key it proposed last, and a proposal,
\* once made, ends only when some proposed key accepts: it can be replaced, not
\* withdrawn.
ProposalEndsInAcceptance ==
    [][/\ oracle'.owner # oracle.owner /\ oracle.owner # NoKey =>
             /\ oracle'.owner = oracle.pending_owner
             /\ oracle'.pending_owner = NoKey
       /\ oracle.pending_owner # NoKey /\ oracle'.pending_owner = NoKey =>
             oracle'.owner = oracle.pending_owner]_vars

--------------------------------------------------------------------------------
(* The inductive invariant behind the theorems of TwapOracleProofs *)

\* The oracle and its buffer come into being together, the buffer as a ring.
Lifecycle ==
    IF OracleExists THEN IsRing(buffer, Observations)
    ELSE oracle = NoOracle /\ buffer = NewBuffer(0) /\ updates = <<>>

\* The oracle account is what the last update left, and no later than now.
OracleIsLastUpdate ==
    /\ oracle.last_slot <= slot
    /\ updates = <<>> => /\ oracle.last_updater = NoKey
                         /\ oracle.last_price = 0
                         /\ oracle.cumulative_price = 0
    /\ updates # <<>> => /\ oracle.last_updater = NthUpdate(1).updater
                         /\ oracle.last_price = NthUpdate(1).price
                         /\ oracle.cumulative_price = NthUpdate(1).cumulative_price
                         /\ oracle.last_slot = NthUpdate(1).slot

\* At most one update per slot, in slot order.
SlotsIncrease ==
    \A j, k \in DOMAIN updates : j < k => updates[j].slot < updates[k].slot

\* Every reward paid so far is for an update before the last one.
ClaimsAreSettled == \A c \in DOMAIN claims : claims[c].for_slot < oracle.last_slot

InductiveInvariant ==
    /\ TypeOK
    /\ Lifecycle
    /\ OracleIsLastUpdate
    /\ SlotsIncrease
    /\ RingHoldsNewestUpdates
    /\ RewardsFollowUpdates
    /\ ClaimsAreSettled
================================================================================
