-------------------------- MODULE TwapOracleSumProofs ---------------------------
(***************************************************************************)
(* What the program adds up, for every value of the constants: the prices  *)
(* in force over time, of which get_swap answers the average, and the      *)
(* tokens that move between accounts.                                      *)
(*                                                                         *)
(* The sum over the slots is reached in two steps: the rule by which the   *)
(* accumulator grows between two updates and the update the answer is      *)
(* measured from, and then, by induction over the updates, the integral.   *)
(***************************************************************************)
EXTENDS TwapOracleProofs, SumLemmas

--------------------------------------------------------------------------------
(* The accumulator *)

\* From one update to the next the accumulator grows by the price of the first
\* times the slots between them, however much later the second is.
Accumulates ==
    /\ updates # <<>> => updates[1].cumulative_price = 0
    /\ \A k \in 1 .. Len(updates) - 1 :
          updates[k + 1].cumulative_price =
              updates[k].cumulative_price
                  + updates[k].price * (updates[k + 1].slot - updates[k].slot)

\* So it never decreases.
NeverDecreases ==
    \A j, k \in DOMAIN updates :
       j <= k => updates[j].cumulative_price <= updates[k].cumulative_price

Accumulation == Accumulates /\ NeverDecreases

LEMMA InitAccumulation == Init => Accumulation
  BY DEF Init, Accumulation, Accumulates, NeverDecreases

\* An update that is accepted adds one event, and its accumulator is the one of
\* the event before it, carried to this slot.
LEMMA UpdateExtends ==
    ASSUME Structure, History, NEW u \in Users, NEW p \in Prices,
           NEW r \in TokenAccounts \cup {None}, UpdatePrice(u, p, r)
    PROVE  LET n == Len(updates)
               e == updates'[n + 1]
           IN  /\ n \in Nat /\ DOMAIN updates = 1 .. n
               /\ Len(updates') = n + 1 /\ DOMAIN updates' = 1 .. n + 1
               /\ \A k \in 1 .. n : updates'[k] = updates[k] /\ updates[k] \in UpdateType
               /\ n = 0 => e.cumulative_price = 0
               /\ n > 0 => /\ e.cumulative_price = updates[n].cumulative_price
                                 + updates[n].price * (e.slot - updates[n].slot)
                           /\ e.slot > updates[n].slot
<1> DEFINE n == Len(updates)
           cumulative == ExtendedCumulative(oracle, slot)
           e == [slot |-> slot, price |-> p, cumulative_price |-> cumulative,
                 updater |-> u]
<1>1. updates' = Append(updates, e) /\ oracle.last_slot < slot
  BY DEF UpdatePrice
<1>2. updates \in Seq(UpdateType) /\ slot \in Nat
  BY DEF Structure, TypeOK
<1>3. /\ n \in Nat /\ DOMAIN updates = 1 .. n
      /\ Len(updates') = n + 1 /\ DOMAIN updates' = 1 .. n + 1
      /\ updates'[n + 1] = e
      /\ \A k \in 1 .. n : updates'[k] = updates[k] /\ updates[k] \in UpdateType
  <2> HIDE DEF e
  <2> QED
    BY <1>1, <1>2, AppendedEvent
<1>4. e.slot = slot /\ e.cumulative_price = cumulative
  OBVIOUS
<1>5. oracle.last_slot \in Nat
  BY DEF Structure, TypeOK, OracleType
<1>6. CASE n = 0
  <2>1. updates = <<>>
    BY <1>2, <1>6
  <2>2. cumulative = 0 + 0 * (slot - oracle.last_slot)
    BY <2>1 DEF History, OracleIsLastUpdate, ExtendedCumulative
  <2>3. cumulative = 0
    BY <2>2, <1>2, <1>5
  <2> HIDE DEF cumulative
  <2> QED
    BY <1>3, <1>4, <1>6, <2>3
<1>7. CASE n > 0
  <2>1. updates # <<>> /\ NthUpdate(1) = updates[n]
    BY <1>3, <1>7 DEF NthUpdate
  <2>2. /\ oracle.last_price = updates[n].price
        /\ oracle.cumulative_price = updates[n].cumulative_price
        /\ oracle.last_slot = updates[n].slot
    BY <2>1 DEF History, OracleIsLastUpdate
  <2>3. cumulative = updates[n].cumulative_price
                        + updates[n].price * (slot - updates[n].slot)
    BY <2>2 DEF ExtendedCumulative
  <2> HIDE DEF cumulative
  <2> QED
    BY <1>1, <1>3, <1>4, <1>5, <1>7, <2>2, <2>3
<1> QED
  BY <1>3, <1>6, <1>7

LEMMA UpdateAccumulation ==
    ASSUME Structure, History, Accumulation, NEW u \in Users, NEW p \in Prices,
           NEW r \in TokenAccounts \cup {None}, UpdatePrice(u, p, r)
    PROVE  Accumulation'
<1> DEFINE n == Len(updates)
           e == updates'[n + 1]
<1>1. /\ n \in Nat /\ DOMAIN updates = 1 .. n
      /\ Len(updates') = n + 1 /\ DOMAIN updates' = 1 .. n + 1
      /\ \A k \in 1 .. n : updates'[k] = updates[k] /\ updates[k] \in UpdateType
      /\ n = 0 => e.cumulative_price = 0
      /\ n > 0 => /\ e.cumulative_price = updates[n].cumulative_price
                        + updates[n].price * (e.slot - updates[n].slot)
                  /\ e.slot > updates[n].slot
  BY UpdateExtends
<1>2. \A k \in 1 .. n : /\ updates[k].slot \in Nat /\ updates[k].price \in Nat
                        /\ updates[k].cumulative_price \in Nat
  BY <1>1 DEF UpdateType
<1>3. e.slot \in Nat /\ e.cumulative_price \in Nat
  <2>1. updates' \in Seq(UpdateType)
    BY UpdateStructure DEF Structure, TypeOK
  <2>2. updates'[n + 1] \in UpdateType
    <3> HIDE DEF n
    <3> QED
      BY <1>1, <2>1, AppendedEvent
  <2> QED
    BY <2>2 DEF UpdateType
<1>4. Accumulates'
  <2>1. n > 0 => updates # <<>>
    OBVIOUS
  <2>2. updates'[1].cumulative_price = 0
    <3> HIDE DEF n
    <3> QED
      BY <1>1, <2>1 DEF Accumulation, Accumulates
  <2>3. ASSUME NEW k \in 1 .. n
        PROVE  updates'[k + 1].cumulative_price =
                   updates'[k].cumulative_price
                       + updates'[k].price * (updates'[k + 1].slot - updates'[k].slot)
    <3> HIDE DEF n
    <3>1. CASE k = n
      BY <1>1, <3>1 DEF e
    <3>2. CASE k < n
      <4>1. k \in 1 .. n - 1 /\ k + 1 \in 1 .. n
        BY <1>1, <3>2
      <4>2. updates'[k] = updates[k] /\ updates'[k + 1] = updates[k + 1]
        BY <1>1, <4>1
      <4> QED
        BY <4>1, <4>2 DEF Accumulation, Accumulates, n
    <3> QED
      BY <1>1, <3>1, <3>2
  <2>4. Len(updates') - 1 = n
    BY <1>1
  <2> HIDE DEF n, e
  <2> QED
    BY <2>2, <2>3, <2>4 DEF Accumulates
<1>5. NeverDecreases'
  <2>1. ASSUME NEW j \in 1 .. n
        PROVE  updates[j].cumulative_price <= e.cumulative_price
    <3>1. n > 0 /\ updates[j].cumulative_price <= updates[n].cumulative_price
      BY <1>1 DEF Accumulation, NeverDecreases
    <3>2. updates[n].price * (e.slot - updates[n].slot) \in Nat
      BY <1>1, <1>2, <1>3, <3>1
    <3> HIDE DEF e, n
    <3> QED
      BY <1>1, <1>2, <3>1, <3>2
  <2>2. ASSUME NEW j \in 1 .. n + 1, NEW k \in 1 .. n + 1, j <= k
        PROVE  updates'[j].cumulative_price <= updates'[k].cumulative_price
    <3> HIDE DEF n
    <3>1. CASE k \in 1 .. n
      BY <1>1, <2>2, <3>1 DEF Accumulation, NeverDecreases
    <3>2. CASE k = n + 1 /\ j \in 1 .. n
      BY <1>1, <2>1, <3>2
    <3>3. CASE k = n + 1 /\ j = n + 1
      BY <1>3, <3>3
    <3> QED
      BY <1>1, <2>2, <3>1, <3>2, <3>3
  <2> QED
    BY <1>1, <2>2 DEF NeverDecreases
<1> QED
  BY <1>4, <1>5 DEF Accumulation

LEMMA AccumulationStep ==
    Structure /\ History /\ Accumulation /\ [Next]_vars => Accumulation'
<1>1. updates' = updates /\ Accumulation => Accumulation'
  BY DEF Accumulation, Accumulates, NeverDecreases
<1>2. ASSUME Structure, History, Accumulation, NEW u \in Users, Submit(u)
      PROVE  Accumulation'
  BY <1>2, UpdateAccumulation DEF Submit
<1> QED
  BY <1>1, <1>2
     DEF Next, AdvanceSlot, Administer, InitializeOracle, ResizeBuffer, TransferOwnership,
         AcceptOwnership, SetPaused, SetMaxDeviation, Reward, InitializeRewardVault,
         FundRewardVault, WithdrawRewardVault, oracleVars, rewardVars, vars

LEMMA AccumulationInvariance == Spec => [](Structure /\ History /\ Accumulation)
<1>1. Init => Accumulation
  BY InitAccumulation
<1>2. (Structure /\ History /\ Accumulation) /\ [Next]_vars => Accumulation'
  BY AccumulationStep
<1> QED
  BY <1>1, <1>2, Invariance, PTL DEF Spec

\* The accumulator an update leaves is the one of the update before it, plus that
\* update's price for each slot it was in force: through pauses, skipped slots,
\* resizes and changes of owner nothing else moves it.
THEOREM AccumulatorRule == Spec => []Accumulates
  BY AccumulationInvariance, PTL DEF Accumulation

--------------------------------------------------------------------------------
(* The scan of the ring *)

\* Min is the least element of a set of natural numbers.
LEMMA LeastAge ==
    ASSUME NEW S \in SUBSET Nat, S # {}
    PROVE  /\ Min(S) \in S
           /\ \A n \in S : Min(S) <= n
  BY LeastNatural DEF Min

\* Max is the upper bound that a set holds.
LEMMA GreatestIs ==
    ASSUME NEW S \in SUBSET Int, NEW x \in S, \A y \in S : y <= x
    PROVE  Max(S) = x
<1>1. Max(S) \in S /\ \A y \in S : Max(S) >= y
  BY DEF Max
<1>2. Max(S) \in Int /\ x \in Int /\ Max(S) <= x /\ Max(S) >= x
  BY <1>1
<1> QED
  BY <1>2

\* The backward scan finds an entry exactly when a retained update lies outside the
\* window, and then it finds the newest of these.
LEMMA ScanFindsNewest ==
    ASSUME Structure, History, OracleExists, NEW w \in Nat
    PROVE  LET target == slot - w + 1
               newest == Max(Before(w))
           IN  /\ AgesBefore(buffer, target) = {} <=> Before(w) = {}
               /\ Before(w) # {} =>
                     /\ newest \in Before(w)
                     /\ ObservationBeforeSlot(buffer, target) =
                           [slot |-> updates[newest].slot,
                            cumulative_price |-> updates[newest].cumulative_price]
<1> DEFINE n == Len(updates)
           len == buffer.len
           ages == AgesBefore(buffer, slot - w + 1)
<1>1. /\ n \in Nat /\ len \in Nat /\ len <= n /\ slot \in Nat
      /\ DOMAIN updates = 1 .. n
  BY DEF Structure, TypeOK, History, RingHoldsNewestUpdates, BufferType
<1>2. \A k \in 1 .. n : updates[k].slot \in Nat
  <2>1. updates \in Seq(UpdateType)
    BY DEF Structure, TypeOK
  <2>2. \A k \in 1 .. n : updates[k] \in UpdateType
    BY <2>1, AppendedEvent
  <2> QED
    BY <2>2 DEF UpdateType
<1>3. \A a \in 1 .. len :
         NthNewest(buffer, a) = [slot |-> updates[n - a + 1].slot,
                                 cumulative_price |-> updates[n - a + 1].cumulative_price]
  BY DEF History, RingHoldsNewestUpdates, NthUpdate
<1> HIDE DEF n, len
<1>4. Before(w) = { k \in n - len + 1 .. n : updates[k].slot <= slot - w }
  BY DEF Before, Retained, n, len
<1>5. ages = { a \in 1 .. len : updates[n - a + 1].slot <= slot - w }
  <2>1. ages = { a \in 1 .. len : NthNewest(buffer, a).slot < slot - w + 1 }
    BY DEF AgesBefore, len
  <2>2. ASSUME NEW a \in 1 .. len
        PROVE  NthNewest(buffer, a).slot < slot - w + 1
                  <=> updates[n - a + 1].slot <= slot - w
    <3>1. n - a + 1 \in 1 .. n
      BY <1>1
    <3>2. updates[n - a + 1].slot \in Nat
      BY <1>2, <3>1
    <3> QED
      BY <1>1, <1>3, <3>2
  <2> QED
    BY <2>1, <2>2
<1> HIDE DEF ages
<1>6. \A a \in ages : n - a + 1 \in Before(w)
  BY <1>1, <1>4, <1>5
<1>7. \A k \in Before(w) : n - k + 1 \in ages
  <2>1. ASSUME NEW k \in Before(w) PROVE n - k + 1 \in ages
    <3>1. k \in n - len + 1 .. n /\ updates[k].slot <= slot - w
      BY <1>4
    <3>2. n - k + 1 \in 1 .. len /\ n - (n - k + 1) + 1 = k
      BY <1>1, <3>1
    <3> QED
      BY <1>5, <3>1, <3>2
  <2> QED
    BY <2>1
<1>8. ASSUME Before(w) # {}
      PROVE  /\ Max(Before(w)) = n - Min(ages) + 1
             /\ Min(ages) \in ages
  <2>1. ages # {} /\ ages \in SUBSET Nat
    BY <1>1, <1>5, <1>7, <1>8
  <2>2. Min(ages) \in ages /\ \A a \in ages : Min(ages) <= a
    BY <2>1, LeastAge
  <2> DEFINE x == n - Min(ages) + 1
  <2>3. x \in Before(w)
    BY <1>6, <2>2
  <2>4. Before(w) \in SUBSET Int
    BY <1>1, <1>4
  <2>5. ASSUME NEW k \in Before(w) PROVE k <= x
    <3>1. Min(ages) <= n - k + 1
      BY <1>7, <2>2
    <3>2. k \in Int /\ Min(ages) \in Nat
      BY <2>1, <2>2, <2>4
    <3> QED
      BY <1>1, <3>1, <3>2
  <2> HIDE DEF x
  <2>6. Max(Before(w)) = x
    BY <2>3, <2>4, <2>5, GreatestIs
  <2> QED
    BY <2>2, <2>6 DEF x
<1>9. ASSUME Before(w) # {}
      PROVE  /\ Max(Before(w)) \in Before(w)
             /\ ObservationBeforeSlot(buffer, slot - w + 1) =
                   [slot |-> updates[Max(Before(w))].slot,
                    cumulative_price |-> updates[Max(Before(w))].cumulative_price]
  <2>1. Min(ages) \in 1 .. len
    BY <1>5, <1>8, <1>9
  <2> QED
    BY <1>3, <1>6, <1>8, <1>9, <2>1 DEF ObservationBeforeSlot, ages
<1>10. ages = {} <=> Before(w) = {}
  BY <1>6, <1>7
<1> QED
  BY <1>9, <1>10 DEF ages

--------------------------------------------------------------------------------
(* The answer *)

\* SwapIsSlotAverage, with the accumulator in the place of the sum.
MeasuresFromNewest ==
    \A window_slots, max_staleness_slots \in Nat :
        LET answer == GetSwap(window_slots, max_staleness_slots)
            start  == updates[Max(Before(window_slots))]
            answerable == /\ ~ oracle.paused
                          /\ slot - oracle.last_slot <= max_staleness_slots
                          /\ Before(window_slots) # {}
                          /\ start.slot < slot
                          /\ ~ Wedged
        IN  OracleExists =>
            /\ answer.error = "none" <=> answerable
            /\ answerable =>
                  answer.swap = (ExtendedCumulative(oracle, slot) - start.cumulative_price)
                                   \div (slot - start.slot)

\* The accumulator of now is a number, no less than that of any update.
LEMMA NowIsNoLess ==
    ASSUME Structure, History, Accumulation
    PROVE  /\ ExtendedCumulative(oracle, slot) \in Nat
           /\ \A k \in DOMAIN updates :
                 /\ updates[k].slot \in Nat /\ updates[k].cumulative_price \in Nat
                 /\ updates[k].cumulative_price <= ExtendedCumulative(oracle, slot)
<1> DEFINE now == ExtendedCumulative(oracle, slot)
           n == Len(updates)
<1>1. /\ oracle.cumulative_price \in Nat /\ oracle.last_price \in Nat
      /\ oracle.last_slot \in Nat /\ slot \in Nat /\ oracle.last_slot <= slot
  BY DEF Structure, TypeOK, OracleType, History, OracleIsLastUpdate
<1>2. oracle.last_price * (slot - oracle.last_slot) \in Nat
  BY <1>1
<1>3. now \in Nat /\ oracle.cumulative_price <= now
  BY <1>1, <1>2 DEF ExtendedCumulative
<1> HIDE DEF now
<1>4. ASSUME NEW k \in DOMAIN updates
      PROVE  /\ updates[k].slot \in Nat /\ updates[k].cumulative_price \in Nat
             /\ updates[k].cumulative_price <= now
  <2>1. updates \in Seq(UpdateType)
    BY DEF Structure, TypeOK
  <2>2. /\ n \in Nat /\ DOMAIN updates = 1 .. n
        /\ \A j \in 1 .. n : updates[j] \in UpdateType
    BY <2>1, AppendedEvent
  <2> HIDE DEF n
  <2>3. n \in DOMAIN updates /\ k <= n /\ updates # <<>>
    BY <1>4, <2>2
  <2>4. updates[k].cumulative_price <= updates[n].cumulative_price
    BY <2>3 DEF Accumulation, NeverDecreases
  <2>5. updates[n].cumulative_price = oracle.cumulative_price
    BY <2>2, <2>3 DEF History, OracleIsLastUpdate, NthUpdate, n
  <2>6. updates[k].slot \in Nat /\ updates[k].cumulative_price \in Nat
    BY <2>2 DEF UpdateType
  <2> QED
    BY <1>1, <1>3, <2>4, <2>5, <2>6
<1> QED
  BY <1>3, <1>4 DEF now

LEMMA AnswerMeasures ==
    Structure /\ History /\ Accumulation => MeasuresFromNewest
<1> SUFFICES ASSUME Structure, History, Accumulation, OracleExists,
                    NEW w \in Nat, NEW m \in Nat
             PROVE  LET answer == GetSwap(w, m)
                        start  == updates[Max(Before(w))]
                        answerable == /\ ~ oracle.paused
                                      /\ slot - oracle.last_slot <= m
                                      /\ Before(w) # {}
                                      /\ start.slot < slot
                                      /\ ~ Wedged
                    IN  /\ answer.error = "none" <=> answerable
                        /\ answerable =>
                              answer.swap = (ExtendedCumulative(oracle, slot)
                                                - start.cumulative_price)
                                               \div (slot - start.slot)
  BY DEF MeasuresFromNewest
<1> DEFINE now == ExtendedCumulative(oracle, slot)
           start == updates[Max(Before(w))]
           past == ObservationBeforeSlot(buffer, slot - w + 1)
           ages == AgesBefore(buffer, slot - w + 1)
<1>1. /\ now \in Nat /\ slot \in Nat
      /\ Fits(now) <=> ~ Wedged
  <2>1. now \in Nat
    BY NowIsNoLess
  <2>2. slot \in Nat
    BY DEF Structure, TypeOK
  <2> HIDE DEF now
  <2>3. Fits(now) <=> ~ (now > MaxU128)
    BY <2>1, MaxU128Assumption DEF Fits
  <2> QED
    BY <2>1, <2>2, <2>3, Zenon DEF Wedged, now
<1>2. /\ ages = {} <=> Before(w) = {}
      /\ Before(w) # {} =>
            /\ Max(Before(w)) \in Before(w)
            /\ past = [slot |-> start.slot, cumulative_price |-> start.cumulative_price]
  BY ScanFindsNewest
<1>3. Before(w) # {} =>
         /\ slot - w >= 0 /\ buffer.len # 0 /\ start.slot <= slot
         /\ start.slot \in Nat /\ start.cumulative_price \in Nat
         /\ start.cumulative_price <= now
  <2> SUFFICES ASSUME Before(w) # {}
               PROVE  /\ slot - w >= 0 /\ buffer.len # 0 /\ start.slot <= slot
                      /\ start.slot \in Nat /\ start.cumulative_price \in Nat
                      /\ start.cumulative_price <= now
    OBVIOUS
  <2> DEFINE k == Max(Before(w))
  <2>1. /\ k \in Len(updates) - buffer.len + 1 .. Len(updates)
        /\ updates[k].slot <= slot - w
    BY <1>2 DEF Before, Retained
  <2>2. /\ Len(updates) \in Nat /\ buffer.len \in Nat /\ buffer.len <= Len(updates)
        /\ DOMAIN updates = 1 .. Len(updates)
    BY DEF Structure, TypeOK, BufferType, History, RingHoldsNewestUpdates
  <2> HIDE DEF k
  <2>3. k \in DOMAIN updates /\ buffer.len # 0
    BY <2>1, <2>2
  <2>4. /\ updates[k].slot \in Nat /\ updates[k].cumulative_price \in Nat
        /\ updates[k].cumulative_price <= now
    BY <2>3, NowIsNoLess
  <2> QED
    BY <1>1, <2>1, <2>3, <2>4 DEF k
<1> DEFINE Answer ==
        IF oracle.paused THEN Fails("OraclePaused")
        ELSE IF buffer.len = 0 THEN Fails("InsufficientHistory")
        ELSE IF slot - oracle.last_slot > m THEN Fails("StaleOracle")
        ELSE IF ~ Fits(now) THEN Fails("PriceOverflow")
        ELSE IF slot - w < 0 \/ ages = {} THEN Fails("InsufficientHistory")
        ELSE ComputeSwap(now, past.cumulative_price, slot, past.slot)
<1>4. GetSwap(w, m) = Answer
  BY DEF GetSwap
<1>5. oracle.last_slot \in Nat /\ oracle.paused \in BOOLEAN
  BY DEF Structure, TypeOK, OracleType
<1> HIDE DEF now, start, past, ages
<1>6. CASE Before(w) = {}
  <2>1. Answer.error # "none"
    BY <1>2, <1>6 DEF Fails
  <2> QED
    BY <1>4, <1>6, <2>1
<1>7. CASE Before(w) # {}
  <2>1. /\ past.slot = start.slot /\ past.cumulative_price = start.cumulative_price
        /\ ~ (slot - w < 0 \/ ages = {}) /\ buffer.len # 0
    BY <1>1, <1>2, <1>3, <1>7
  <2>2. CASE start.slot < slot
    <3>1. ComputeSwap(now, past.cumulative_price, slot, past.slot)
             = Ok((now - start.cumulative_price) \div (slot - start.slot))
      BY <1>1, <1>3, <1>7, <2>1, <2>2 DEF ComputeSwap
    <3> QED
      BY <1>1, <1>4, <1>5, <1>7, <2>1, <2>2, <3>1 DEF Fails, Ok, now, start
  <2>3. CASE start.slot = slot
    <3>1. ComputeSwap(now, past.cumulative_price, slot, past.slot) = Fails("StaleSlot")
      BY <1>1, <2>1, <2>3 DEF ComputeSwap
    <3> QED
      BY <1>1, <1>4, <2>1, <2>3, <3>1 DEF Fails, now, start
  <2> QED
    BY <1>1, <1>3, <1>7, <2>2, <2>3
<1> QED
  BY <1>6, <1>7

\* get_swap answers exactly when the oracle runs, is fresh and has not overflowed, and
\* a retained update lies at or before the window's start and before this slot; the
\* answer is the growth of the accumulator since the newest such update, by the slots
\* since then.
THEOREM SwapMeasuresFromNewest == Spec => []MeasuresFromNewest
  BY AccumulationInvariance, AnswerMeasures, PTL

--------------------------------------------------------------------------------
(* The integral *)

\* The price in force, as a function of the slot.
InForce == [s \in Int |-> PriceInForce(s)]

LEMMA IntegralIsSum ==
    ASSUME NEW a \in Int, NEW b \in Int
    PROVE  Integral(a, b) = SumFunctionOnSet(InForce, a .. b - 1)
<1> DEFINE f == [s \in a .. b - 1 |-> PriceInForce(s)]
<1>1. Integral(a, b) = SumFunctionOnSet(f, a .. b - 1)
  BY DEF Integral, SumFunction
<1>2. IsFiniteSet(a .. b - 1)
  BY FS_Interval
<1>3. \A s \in a .. b - 1 : f[s] = InForce[s]
  BY DEF InForce
<1> HIDE DEF f
<1> QED
  BY <1>1, <1>2, <1>3, SumOfSame

\* An update is in force from its slot on until the next; before the first there is
\* none, and the price is zero.
LEMMA WhatIsInForce ==
    ASSUME Structure, History, NEW s \in Int
    PROVE  /\ PriceInForce(s) \in Nat
           /\ \A k \in DOMAIN updates :
                 updates[k].slot <= s /\ (k < Len(updates) => s < updates[k + 1].slot)
                    => PriceInForce(s) = updates[k].price
           /\ (updates # <<>> => s < updates[1].slot) => PriceInForce(s) = 0
<1> DEFINE n == Len(updates)
           past == UpdatesUpTo(s)
<1>1. n \in Nat /\ DOMAIN updates = 1 .. n /\ (n > 0 <=> updates # <<>>)
  BY DEF Structure, TypeOK
<1>2. \A k \in 1 .. n : updates[k].slot \in Nat /\ updates[k].price \in Nat
  <2>1. updates \in Seq(UpdateType)
    BY DEF Structure, TypeOK
  <2>2. \A k \in 1 .. n : updates[k] \in UpdateType
    BY <2>1, AppendedEvent
  <2> QED
    BY <2>2 DEF UpdateType
<1>3. \A j, k \in 1 .. n : j < k => updates[j].slot < updates[k].slot
  BY <1>1 DEF History, SlotsIncrease
<1> HIDE DEF n
<1>4. past = { k \in 1 .. n : updates[k].slot <= s }
  BY <1>1 DEF UpdatesUpTo
<1>5. PriceInForce(s) = IF past = {} THEN 0 ELSE updates[Max(past)].price
  BY DEF PriceInForce
<1> HIDE DEF past
<1>6. PriceInForce(s) \in Nat
  <2>1. CASE past = {}
    BY <1>5, <2>1
  <2>2. CASE past # {}
    <3>1. past \in SUBSET Nat /\ \A k \in past : k <= n
      BY <1>1, <1>4
    <3>2. PICK k \in past : \A j \in past : j <= k
      BY <1>1, <2>2, <3>1, GreatestNatural
    <3>3. Max(past) = k
      BY <3>1, <3>2, GreatestIs
    <3> QED
      BY <1>2, <1>4, <1>5, <2>2, <3>3
  <2> QED
    BY <2>1, <2>2
<1>7. ASSUME NEW k \in 1 .. n, updates[k].slot <= s, k < n => s < updates[k + 1].slot
      PROVE  PriceInForce(s) = updates[k].price
  <2>1. k \in past
    BY <1>4, <1>7
  <2>2. ASSUME NEW j \in past PROVE j <= k
    <3>1. j \in 1 .. n /\ updates[j].slot <= s
      BY <1>4
    <3>2. SUFFICES ASSUME j > k PROVE FALSE
      BY <3>1
    <3>3. k < n /\ k + 1 \in 1 .. n /\ (k + 1 = j \/ k + 1 < j)
      BY <1>1, <3>1, <3>2
    <3>4. updates[k + 1].slot <= updates[j].slot
      BY <1>2, <1>3, <3>1, <3>3
    <3> QED
      BY <1>2, <1>7, <3>1, <3>3, <3>4
  <2>3. past \in SUBSET Int
    BY <1>4
  <2>4. Max(past) = k
    BY <2>1, <2>2, <2>3, GreatestIs
  <2> QED
    BY <1>5, <2>1, <2>4
<1>8. ASSUME updates # <<>> => s < updates[1].slot
      PROVE  PriceInForce(s) = 0
  <2>1. ASSUME NEW k \in past PROVE FALSE
    <3>1. k \in 1 .. n /\ updates[k].slot <= s /\ 1 \in 1 .. n /\ updates # <<>>
      BY <1>1, <1>4
    <3>2. k = 1 \/ updates[1].slot < updates[k].slot
      BY <1>3, <3>1
    <3> QED
      BY <1>2, <1>8, <3>1, <3>2
  <2> QED
    BY <1>5, <2>1
<1> QED
  BY <1>1, <1>6, <1>7, <1>8

LEMMA IntegralSplits ==
    ASSUME Structure, History, NEW a \in Int, NEW b \in Int, NEW c \in Int, a <= b, b <= c
    PROVE  /\ Integral(a, c) = Integral(a, b) + Integral(b, c)
           /\ Integral(a, b) \in Int
<1>1. \A s \in Int : InForce[s] \in Int
  BY WhatIsInForce DEF InForce
<1>2. IsFiniteSet(a .. b - 1)
  BY FS_Interval
<1>3. SumFunctionOnSet(InForce, a .. b - 1) \in Int
  BY <1>1, <1>2, SumIsInteger
<1>4. SumFunctionOnSet(InForce, a .. c - 1) =
         SumFunctionOnSet(InForce, a .. b - 1) + SumFunctionOnSet(InForce, b .. c - 1)
  BY <1>1, SumOfIntervals
<1> QED
  BY <1>3, <1>4, IntegralIsSum

LEMMA IntegralOfSteady ==
    ASSUME NEW a \in Int, NEW b \in Int, a <= b, NEW p \in Int,
           \A s \in a .. b - 1 : PriceInForce(s) = p
    PROVE  Integral(a, b) = p * (b - a)
<1>1. \A s \in a .. b - 1 : InForce[s] = p
  BY DEF InForce
<1>2. SumFunctionOnSet(InForce, a .. b - 1) = p * (b - a)
  BY <1>1, SumOfSteady
<1> QED
  BY <1>2, IntegralIsSum

\* No transaction came before FirstSlot.
Started == slot >= FirstSlot /\ \A k \in DOMAIN updates : updates[k].slot >= FirstSlot

LEMMA StartedStep ==
    Structure /\ History /\ Started /\ [Next]_vars => Started'
<1>1. updates' = updates /\ slot' = slot /\ Started => Started'
  BY DEF Started
<1>2. ASSUME Structure, Started, AdvanceSlot PROVE Started'
  BY <1>2, BoundsAssumption DEF AdvanceSlot, Started, Structure, TypeOK, oracleVars
<1>3. ASSUME Structure, History, Started, NEW u \in Users, Submit(u)
      PROVE  Started'
  <2>1. PICK p \in Prices, r \in TokenAccounts \cup {None} : UpdatePrice(u, p, r)
    BY <1>3 DEF Submit
  <2> DEFINE n == Len(updates)
             e == [slot |-> slot, price |-> p,
                   cumulative_price |-> ExtendedCumulative(oracle, slot), updater |-> u]
  <2>2. updates' = Append(updates, e) /\ slot' = slot
    BY <2>1 DEF UpdatePrice
  <2>3. updates \in Seq(UpdateType) /\ e.slot = slot
    BY <1>3 DEF Structure, TypeOK
  <2> HIDE DEF e
  <2>4. /\ n \in Nat /\ DOMAIN updates = 1 .. n /\ DOMAIN updates' = 1 .. n + 1
        /\ updates'[n + 1] = e /\ \A k \in 1 .. n : updates'[k] = updates[k]
    BY <2>2, <2>3, AppendedEvent
  <2> HIDE DEF n
  <2>5. \A k \in 1 .. n + 1 : k = n + 1 \/ k \in 1 .. n
    BY <2>4
  <2> QED
    BY <1>3, <2>2, <2>3, <2>4, <2>5 DEF Started
<1> QED
  BY <1>1, <1>2, <1>3
     DEF Next, Administer, InitializeOracle, ResizeBuffer, TransferOwnership,
         AcceptOwnership, SetPaused, SetMaxDeviation, Reward, InitializeRewardVault,
         FundRewardVault, WithdrawRewardVault, oracleVars, rewardVars, vars

PricingInvariant == Structure /\ History /\ Accumulation /\ Started

LEMMA PricingInvariance == Spec => []PricingInvariant
<1>1. Init => Started
  BY BoundsAssumption DEF Init, Started
<1>2. (Structure /\ History /\ Accumulation) /\ Started /\ [Next]_vars => Started'
  BY StartedStep
<1> QED
  BY <1>1, <1>2, AccumulationInvariance, PTL DEF Spec, PricingInvariant

\* From an update to the next, or to now, the integral grows as the accumulator does.
LEMMA IntegralGrows ==
    ASSUME PricingInvariant, NEW k \in DOMAIN updates, NEW to \in Int,
           updates[k].slot <= to, k < Len(updates) => to <= updates[k + 1].slot
    PROVE  Integral(FirstSlot, to) =
              Integral(FirstSlot, updates[k].slot) + updates[k].price * (to - updates[k].slot)
<1> DEFINE from == updates[k].slot
           p == updates[k].price
<1>1. /\ from \in Nat /\ from <= to /\ p \in Nat
      /\ k < Len(updates) => updates[k + 1].slot \in Nat
  <2>1. updates \in Seq(UpdateType)
    BY DEF PricingInvariant, Structure, TypeOK
  <2>2. /\ Len(updates) \in Nat /\ DOMAIN updates = 1 .. Len(updates)
        /\ \A j \in 1 .. Len(updates) : updates[j] \in UpdateType
    BY <2>1, AppendedEvent
  <2> QED
    BY <2>2 DEF UpdateType
<1>2. FirstSlot \in Int /\ FirstSlot <= from
  BY BoundsAssumption DEF PricingInvariant, Started
<1>3. ASSUME NEW s \in from .. to - 1 PROVE PriceInForce(s) = p
  <2>1. s \in Int /\ from <= s /\ s < to
    BY <1>1
  <2>2. k < Len(updates) => s < updates[k + 1].slot
    BY <1>1, <2>1
  <2> QED
    BY <2>1, <2>2, WhatIsInForce DEF PricingInvariant
<1> HIDE DEF from, p
<1>4. Integral(from, to) = p * (to - from)
  BY <1>1, <1>3, IntegralOfSteady
<1>5. Structure /\ History
  BY DEF PricingInvariant
<1>6. Integral(FirstSlot, to) = Integral(FirstSlot, from) + Integral(from, to)
  BY <1>1, <1>2, <1>5, IntegralSplits
<1> QED
  BY <1>4, <1>6 DEF from, p

LEMMA IntegralOfUpdates ==
    ASSUME PricingInvariant
    PROVE  \A k \in DOMAIN updates :
              updates[k].cumulative_price = Integral(FirstSlot, updates[k].slot)
<1> DEFINE n == Len(updates)
           Agree(k) == updates[k].cumulative_price = Integral(FirstSlot, updates[k].slot)
           T == { m \in Nat : m + 1 \in 1 .. n => Agree(m + 1) }
<1>1. /\ n \in Nat /\ DOMAIN updates = 1 .. n /\ (n > 0 <=> updates # <<>>)
      /\ \A k \in 1 .. n : updates[k].slot \in Nat
  <2>1. updates \in Seq(UpdateType)
    BY DEF PricingInvariant, Structure, TypeOK
  <2>2. \A k \in 1 .. n : updates[k] \in UpdateType
    BY <2>1, AppendedEvent
  <2> QED
    BY <2>1, <2>2 DEF UpdateType
<1>2. 0 \in T
  <2> SUFFICES ASSUME 1 \in 1 .. n PROVE Agree(1)
    OBVIOUS
  <2>1. updates[1].cumulative_price = 0
    BY <1>1 DEF PricingInvariant, Accumulation, Accumulates
  <2>2. FirstSlot \in Int /\ updates[1].slot \in Nat /\ FirstSlot <= updates[1].slot
    BY <1>1, BoundsAssumption DEF PricingInvariant, Started
  <2> DEFINE first == updates[1].slot
  <2>3. ASSUME NEW s \in FirstSlot .. first - 1 PROVE PriceInForce(s) = 0
    <3>1. s \in Int /\ s < updates[1].slot
      BY <2>2
    <3> QED
      BY <3>1, WhatIsInForce DEF PricingInvariant
  <2>4. first \in Int /\ FirstSlot \in Int /\ FirstSlot <= first
    BY <2>2
  <2>5. Integral(FirstSlot, first) = 0
    <3> HIDE DEF first
    <3>1. Integral(FirstSlot, first) = 0 * (first - FirstSlot)
      BY <2>3, <2>4, IntegralOfSteady
    <3> QED
      BY <2>4, <3>1
  <2> QED
    BY <2>1, <2>5
<1>3. ASSUME NEW m \in T PROVE m + 1 \in T
  <2> SUFFICES ASSUME m + 2 \in 1 .. n PROVE Agree(m + 2)
    OBVIOUS
  <2> DEFINE k == m + 1
  <2>1. k \in 1 .. n - 1 /\ k \in 1 .. n /\ k + 1 \in 1 .. n /\ k + 1 = m + 2 /\ k < n
    BY <1>1
  <2>2. Agree(k)
    BY <1>3, <2>1
  <2> HIDE DEF k
  <2>3. updates[k + 1].cumulative_price =
           updates[k].cumulative_price
              + updates[k].price * (updates[k + 1].slot - updates[k].slot)
    BY <2>1 DEF PricingInvariant, Accumulation, Accumulates
  <2>4. updates[k].slot < updates[k + 1].slot
    BY <1>1, <2>1 DEF PricingInvariant, History, SlotsIncrease
  <2>5. Integral(FirstSlot, updates[k + 1].slot) =
           Integral(FirstSlot, updates[k].slot)
              + updates[k].price * (updates[k + 1].slot - updates[k].slot)
    <3>1. updates[k + 1].slot \in Int /\ updates[k].slot <= updates[k + 1].slot
      BY <1>1, <2>1, <2>4
    <3>2. k \in DOMAIN updates
      BY <1>1, <2>1
    <3> QED
      BY <1>1, <2>1, <3>1, <3>2, IntegralGrows
  <2> QED
    BY <2>1, <2>2, <2>3, <2>5
<1>4. \A m \in Nat : m \in T
  <2>1. T \in SUBSET Nat
    OBVIOUS
  <2> HIDE DEF T
  <2> QED
    BY <1>2, <1>3, <2>1, InductionOnNumbers
<1>5. ASSUME NEW k \in 1 .. n PROVE Agree(k)
  <2>1. k - 1 \in Nat /\ k - 1 + 1 = k
    BY <1>1
  <2> HIDE DEF Agree
  <2> QED
    BY <1>4, <2>1
<1> QED
  BY <1>1, <1>5

\* Now, too, the accumulator as it would be carried to this slot is the integral.
LEMMA IntegralOfNow ==
    ASSUME PricingInvariant
    PROVE  /\ Integral(FirstSlot, slot) = ExtendedCumulative(oracle, slot)
           /\ Integral(FirstSlot, oracle.last_slot) = oracle.cumulative_price
<1> DEFINE n == Len(updates)
<1>1. /\ oracle.last_slot \in Nat /\ slot \in Nat /\ oracle.last_slot <= slot
      /\ FirstSlot \in Nat /\ FirstSlot <= slot
      /\ n \in Nat /\ DOMAIN updates = 1 .. n /\ (n > 0 <=> updates # <<>>)
  BY BoundsAssumption
     DEF PricingInvariant, Structure, TypeOK, OracleType, History, OracleIsLastUpdate, Started
<1>2. CASE updates = <<>>
  <2>1. oracle.last_price = 0 /\ oracle.cumulative_price = 0
    BY <1>2 DEF PricingInvariant, History, OracleIsLastUpdate
  <2>2. \A s \in Int : PriceInForce(s) = 0
    BY <1>2, WhatIsInForce DEF PricingInvariant
  <2>3. ASSUME NEW to \in Nat PROVE Integral(FirstSlot, to) = 0
    <3>1. CASE FirstSlot <= to
      <4>1. Integral(FirstSlot, to) = 0 * (to - FirstSlot)
        BY <1>1, <2>2, <3>1, IntegralOfSteady
      <4> QED
        BY <1>1, <4>1
    <3>2. CASE to < FirstSlot
      <4>1. FirstSlot .. to - 1 = {}
        BY <1>1, <3>2
      <4>2. SumFunctionOnSet(InForce, {}) = 0
        BY SumOfSome, FS_EmptySet
      <4>3. Integral(FirstSlot, to) = SumFunctionOnSet(InForce, FirstSlot .. to - 1)
        BY <1>1, IntegralIsSum
      <4> QED
        BY <4>1, <4>2, <4>3, Zenon
    <3> QED
      BY <1>1, <3>1, <3>2
  <2>4. ExtendedCumulative(oracle, slot) = 0
    BY <1>1, <2>1 DEF ExtendedCumulative
  <2> QED
    BY <1>1, <2>1, <2>3, <2>4
<1>3. CASE updates # <<>>
  <2>1. n \in DOMAIN updates /\ NthUpdate(1) = updates[n]
    BY <1>1, <1>3 DEF NthUpdate
  <2>2. /\ oracle.last_price = updates[n].price
        /\ oracle.cumulative_price = updates[n].cumulative_price
        /\ oracle.last_slot = updates[n].slot
    BY <1>3, <2>1 DEF PricingInvariant, History, OracleIsLastUpdate
  <2>3. Integral(FirstSlot, oracle.last_slot) = oracle.cumulative_price
    BY <2>1, <2>2, IntegralOfUpdates
  <2>4. Integral(FirstSlot, slot) =
           Integral(FirstSlot, updates[n].slot) + updates[n].price * (slot - updates[n].slot)
    <3>1. ~ (n < n)
      BY <1>1
    <3> QED
      BY <1>1, <2>1, <2>2, <3>1, IntegralGrows
  <2> QED
    BY <2>2, <2>3, <2>4 DEF ExtendedCumulative
<1> QED
  BY <1>2, <1>3

\* The accumulator is the integral of the price over time, through pauses, skipped
\* slots, resizes and changes of owner, and each event holds its value then.
THEOREM AccumulatorIsIntegral == Spec => []CumulativeIsIntegral
<1>1. PricingInvariant => CumulativeIsIntegral
  BY IntegralOfUpdates, IntegralOfNow DEF CumulativeIsIntegral
<1> QED
  BY <1>1, PricingInvariance, PTL

\* Before an oracle exists there is nothing to measure, and no answer.
LEMMA NoOracleNoAnswer ==
    ASSUME Structure, ~ OracleExists, NEW w, NEW m
    PROVE  GetSwap(w, m).error # "none" /\ Before(w) = {}
<1>1. oracle.paused = FALSE /\ buffer.len = 0 /\ updates = <<>>
  BY DEF Structure, Lifecycle, NoOracle, NewOracle, NewBuffer
<1>2. GetSwap(w, m) = Fails("InsufficientHistory")
  BY <1>1 DEF GetSwap
<1>3. Retained = {}
  BY <1>1 DEF Retained
<1> QED
  BY <1>2, <1>3 DEF Before, Fails

LEMMA AnswerIsAverage ==
    ASSUME PricingInvariant, OracleExists, NEW w \in Nat, NEW m \in Nat
    PROVE  LET answer == GetSwap(w, m)
               start  == updates[Max(Before(w))].slot
               answerable == /\ ~ oracle.paused
                             /\ slot - oracle.last_slot <= m
                             /\ Before(w) # {}
                             /\ start < slot
                             /\ Integral(FirstSlot, slot) <= MaxU128
           IN  /\ answer.error = "none" <=> answerable
               /\ answerable => answer.swap = Integral(start, slot) \div (slot - start)
<1> DEFINE k == Max(Before(w))
           start == updates[k].slot
           now == ExtendedCumulative(oracle, slot)
<1>1. Structure /\ History /\ Accumulation
  BY DEF PricingInvariant
<1>2. /\ GetSwap(w, m).error = "none" <=>
            /\ ~ oracle.paused
            /\ slot - oracle.last_slot <= m
            /\ Before(w) # {}
            /\ start < slot
            /\ ~ Wedged
      /\ GetSwap(w, m).error = "none" =>
            GetSwap(w, m).swap = (now - updates[k].cumulative_price) \div (slot - start)
  BY <1>1, AnswerMeasures DEF MeasuresFromNewest
<1>3. Integral(FirstSlot, slot) = now /\ now \in Nat
  BY <1>1, NowIsNoLess, IntegralOfNow
<1>4. ~ Wedged <=> Integral(FirstSlot, slot) <= MaxU128
  <2> HIDE DEF now
  <2>1. ~ (now > MaxU128) <=> now <= MaxU128
    BY <1>3, MaxU128Assumption
  <2> QED
    BY <1>3, <2>1 DEF Wedged, now
<1>5. ASSUME Before(w) # {}, start < slot
      PROVE  Integral(start, slot) = now - updates[k].cumulative_price
  <2>1. k \in Before(w)
    BY <1>1, <1>5, ScanFindsNewest
  <2>2. k \in DOMAIN updates
    <3>1. k \in Len(updates) - buffer.len + 1 .. Len(updates)
      BY <2>1 DEF Before, Retained
    <3>2. /\ Len(updates) \in Nat /\ buffer.len \in Nat /\ buffer.len <= Len(updates)
          /\ DOMAIN updates = 1 .. Len(updates)
      BY <1>1 DEF Structure, TypeOK, BufferType, History, RingHoldsNewestUpdates
    <3> HIDE DEF k
    <3> QED
      BY <3>1, <3>2
  <2> HIDE DEF k
  <2>3. /\ start \in Nat /\ slot \in Nat /\ FirstSlot \in Nat
        /\ FirstSlot <= start /\ start <= slot
    BY <1>1, <1>5, <2>2, NowIsNoLess, BoundsAssumption
       DEF PricingInvariant, Structure, TypeOK, Started
  <2>4. Integral(FirstSlot, start) = updates[k].cumulative_price
    BY <2>2, IntegralOfUpdates
  <2> HIDE DEF start
  <2>5. /\ Integral(FirstSlot, slot) = Integral(FirstSlot, start) + Integral(start, slot)
        /\ Integral(FirstSlot, start) \in Int
    BY <1>1, <2>3, IntegralSplits
  <2>6. Integral(start, slot) \in Int
    BY <1>1, <2>3, IntegralSplits
  <2> HIDE DEF now
  <2> QED
    BY <1>3, <2>4, <2>5, <2>6
<1> HIDE DEF k, start, now
<1>6. ASSUME Before(w) # {}, start < slot, GetSwap(w, m).error = "none"
      PROVE  GetSwap(w, m).swap = Integral(start, slot) \div (slot - start)
  BY <1>2, <1>5, <1>6
<1> QED
  BY <1>2, <1>4, <1>6 DEF k, start

\* What get_swap answers, and when: the average of the prices in force since the newest
\* retained update at or before the window's start, whenever the oracle runs, is fresh
\* and has not overflowed and such an update lies before this slot.
THEOREM SwapAverages == Spec => []SwapIsSlotAverage
<1>1. PricingInvariant => SwapIsSlotAverage
  <2> SUFFICES ASSUME PricingInvariant,
                      NEW w \in 0 .. slot + 1, NEW m \in {0, 1, MaxSlot}
               PROVE  LET answer == GetSwap(w, m)
                          start  == updates[Max(Before(w))].slot
                          answerable == /\ ~ oracle.paused
                                        /\ slot - oracle.last_slot <= m
                                        /\ Before(w) # {}
                                        /\ start < slot
                                        /\ Integral(FirstSlot, slot) <= MaxU128
                      IN  /\ answer.error = "none" <=> answerable
                          /\ answerable =>
                                answer.swap = Integral(start, slot) \div (slot - start)
    BY DEF SwapIsSlotAverage
  <2>1. Structure /\ w \in Nat /\ m \in Nat
    BY BoundsAssumption DEF PricingInvariant, Structure, TypeOK
  <2>2. CASE ~ OracleExists
    BY <2>1, <2>2, NoOracleNoAnswer
  <2>3. CASE OracleExists
    BY <2>1, <2>3, AnswerIsAverage
  <2> QED
    BY <2>2, <2>3
<1> QED
  BY <1>1, PricingInvariance, PTL

--------------------------------------------------------------------------------
(* The books *)

\* What the accounts hold together.
Tokens == SumFunctionOnSet(balance, TokenAccounts)

Paid == [c \in DOMAIN claims |-> claims[c].amount]

\* Before there is a vault, nothing was claimed.
ClaimsNeedVault == ~ VaultExists => claims = <<>>

BooksInvariant ==
    /\ ClaimsNeedVault
    /\ vault.total_updates_rewarded = Len(claims)
    /\ vault.total_distributed = SumFunctionOnSet(Paid, DOMAIN claims)
    /\ Tokens = InitialTokens * Cardinality(Users)

\* A transfer takes from one account what it gives another.
LEMMA TransferKeepsTokens ==
    ASSUME balance \in [TokenAccounts -> Nat],
           NEW source \in TokenAccounts, NEW target \in TokenAccounts,
           NEW amount \in Nat
    PROVE  SumFunctionOnSet(Transferred(source, target, amount), TokenAccounts) = Tokens
<1> DEFINE taken == [a \in TokenAccounts |->
                        balance[a] - (IF a = source THEN amount ELSE 0)]
           after == Transferred(source, target, amount)
           Sum(f) == SumFunctionOnSet(f, TokenAccounts)
<1>1. IsFiniteSet(TokenAccounts)
  BY FiniteUsersAssumption, FS_AddElement DEF TokenAccounts
<1>2. \A a \in TokenAccounts : /\ balance[a] \in Int /\ taken[a] \in Int /\ after[a] \in Int
                               /\ a # source => taken[a] = balance[a]
                               /\ a # target => after[a] = taken[a]
  BY DEF Transferred
<1>3. taken[source] = balance[source] - amount /\ after[target] = taken[target] + amount
  BY DEF Transferred
<1> HIDE DEF taken, after
<1>4. Sum(taken) = Sum(balance) + taken[source] - balance[source]
  BY <1>1, <1>2, SumOfChanged
<1>5. Sum(after) = Sum(taken) + after[target] - taken[target]
  BY <1>1, <1>2, SumOfChanged
<1>6. Sum(balance) \in Int /\ Sum(taken) \in Int
  BY <1>1, <1>2, SumIsInteger
<1> HIDE DEF Sum
<1>7. Sum(after) = Sum(balance)
  BY <1>2, <1>3, <1>4, <1>5, <1>6
<1> QED
  BY <1>7 DEF Sum, Tokens, after

LEMMA InitBooks == Init => BooksInvariant
<1> SUFFICES ASSUME Init PROVE BooksInvariant
  OBVIOUS
<1>1. /\ claims = <<>> /\ Len(claims) = 0 /\ DOMAIN claims = {}
      /\ vault.total_updates_rewarded = 0 /\ vault.total_distributed = 0
  BY DEF Init, NoVault
<1>2. SumFunctionOnSet(Paid, {}) = 0
  BY SumOfSome, FS_EmptySet
<1>3. /\ VaultTokens \notin Users /\ IsFiniteSet(Users)
      /\ balance[VaultTokens] = 0
      /\ \A u \in Users : balance[u] = InitialTokens
      /\ InitialTokens \in Int
  BY UsersAssumption, FiniteUsersAssumption, AmountsAssumption DEF Init, TokenAccounts
<1>4. SumFunctionOnSet(balance, Users) = InitialTokens * Cardinality(Users)
  BY <1>3, SumOfConstant
<1>5. SumFunctionOnSet(balance, Users \cup {VaultTokens}) =
         balance[VaultTokens] + SumFunctionOnSet(balance, Users)
  <2>1. \A a \in Users \cup {VaultTokens} : balance[a] \in Int
    BY <1>3
  <2> QED
    BY <1>3, <2>1, SumWith
<1>6. Tokens = 0 + InitialTokens * Cardinality(Users)
  BY <1>3, <1>4, <1>5 DEF Tokens, TokenAccounts
<1>7. Cardinality(Users) \in Nat
  BY <1>3, FS_CardinalityType
<1>8. Tokens = InitialTokens * Cardinality(Users)
  BY <1>3, <1>6, <1>7
<1> QED
  BY <1>1, <1>2, <1>8 DEF BooksInvariant, ClaimsNeedVault

\* A payment is entered in all the books.
LEMMA PayBooks ==
    ASSUME Structure, BooksInvariant, VaultExists, accounts' = accounts,
           NEW r \in TokenAccounts \cup {None}, PayReward(r)
    PROVE  BooksInvariant'
<1> DEFINE n == Len(claims)
           e == [updater |-> oracle.last_updater, amount |-> vault.reward_per_update,
                 for_slot |-> oracle.last_slot, paid_slot |-> slot, recipient |-> r]
           amount == vault.reward_per_update
<1>1. /\ claims' = Append(claims, e) /\ r \in TokenAccounts
      /\ balance' = Transferred(VaultTokens, r, amount)
      /\ vault' = [vault EXCEPT !.total_distributed = @ + amount,
                                !.total_updates_rewarded = @ + 1,
                                !.last_rewarded_slot = oracle.last_slot]
  BY DEF PayReward, RewardDue
<1>2. /\ claims \in Seq(ClaimType) /\ amount \in Nat /\ e.amount = amount
      /\ balance \in [TokenAccounts -> Nat] /\ VaultTokens \in TokenAccounts
      /\ vault \in VaultType
  BY DEF Structure, TypeOK, VaultType, TokenAccounts
<1> HIDE DEF e, amount
<1>3. /\ n \in Nat /\ DOMAIN claims = 1 .. n /\ Len(claims') = n + 1
      /\ DOMAIN claims' = 1 .. n + 1 /\ claims'[n + 1] = e
      /\ \A k \in 1 .. n : claims'[k] = claims[k] /\ claims[k] \in ClaimType
  BY <1>1, <1>2, AppendedEvent
<1>4. Tokens' = Tokens
  BY <1>1, <1>2, TransferKeepsTokens DEF Tokens
<1>5. SumFunctionOnSet(Paid', DOMAIN claims') = amount + SumFunctionOnSet(Paid, DOMAIN claims)
  <2> DEFINE S == 1 .. n
             paid == Paid'
  <2>1. IsFiniteSet(S) /\ n + 1 \notin S /\ S \cup {n + 1} = 1 .. n + 1
    <3> HIDE DEF n
    <3>1. n \in Nat /\ IsFiniteSet(1 .. n)
      BY <1>3, FS_Interval
    <3> QED
      BY <3>1
  <2>2. /\ \A k \in S : paid[k] = Paid[k] /\ Paid[k] \in Nat
        /\ paid[n + 1] = amount
    <3>1. \A k \in S : Paid[k] = claims[k].amount /\ paid[k] = claims'[k].amount
      BY <1>3 DEF Paid
    <3>2. paid[n + 1] = claims'[n + 1].amount
      BY <1>3 DEF Paid
    <3> QED
      BY <1>2, <1>3, <3>1, <3>2 DEF ClaimType
  <2> HIDE DEF S, paid, n
  <2>3. \A k \in S \cup {n + 1} : paid[k] \in Int
    BY <1>2, <2>2
  <2>4. SumFunctionOnSet(paid, S \cup {n + 1}) = paid[n + 1] + SumFunctionOnSet(paid, S)
    BY <2>1, <2>3, SumWith
  <2>5. SumFunctionOnSet(paid, S) = SumFunctionOnSet(Paid, S)
    BY <2>1, <2>2, SumOfSame
  <2>6. SumFunctionOnSet(paid, 1 .. n + 1) = amount + SumFunctionOnSet(Paid, 1 .. n)
    BY <2>1, <2>2, <2>4, <2>5 DEF S
  <2> QED
    BY <1>3, <2>6 DEF paid
<1>6. /\ vault'.total_updates_rewarded = vault.total_updates_rewarded + 1
      /\ vault'.total_distributed = vault.total_distributed + amount
  BY <1>1, <1>2 DEF VaultType
<1>7. vault.total_distributed \in Nat
  BY <1>2, BoundsAssumption DEF VaultType
<1>8. ClaimsNeedVault'
  BY DEF ClaimsNeedVault, VaultExists
<1> QED
  BY <1>2, <1>3, <1>4, <1>5, <1>6, <1>7, <1>8 DEF BooksInvariant

LEMMA BooksStep == Structure /\ BooksInvariant /\ [Next]_vars => BooksInvariant'
<1> SUFFICES ASSUME Structure, BooksInvariant, [Next]_vars
             PROVE  BooksInvariant'
  OBVIOUS
<1>1. ASSUME UNCHANGED <<vault, claims>>, Tokens' = Tokens, VaultExists' = VaultExists
      PROVE  BooksInvariant'
  BY <1>1 DEF BooksInvariant, ClaimsNeedVault, Paid
<1>2. ASSUME UNCHANGED rewardVars, VaultExists' = VaultExists
      PROVE  BooksInvariant'
  BY <1>1, <1>2 DEF rewardVars, Tokens
<1>3. ASSUME NEW source \in TokenAccounts, NEW target \in TokenAccounts,
             NEW amount \in Nat, balance' = Transferred(source, target, amount),
             UNCHANGED <<vault, claims, accounts>>
      PROVE  BooksInvariant'
  <2>1. Tokens' = Tokens
    BY <1>3, TransferKeepsTokens DEF Tokens, Structure, TypeOK
  <2> QED
    BY <1>1, <1>3, <2>1 DEF VaultExists
<1>4. ASSUME NEW u \in Users, Administer(u) PROVE BooksInvariant'
  BY <1>2, <1>4 DEF Administer, InitializeOracle, ResizeBuffer, TransferOwnership,
     AcceptOwnership, SetPaused, SetMaxDeviation, VaultExists
<1>5. ASSUME NEW u \in Users, Reward(u) PROVE BooksInvariant'
  <2>1. ASSUME NEW r \in RewardAmounts, InitializeRewardVault(u, r) PROVE BooksInvariant'
    <3>1. claims = <<>> /\ Len(claims) = 0 /\ UNCHANGED <<balance, claims>>
      BY <2>1 DEF InitializeRewardVault, BooksInvariant, ClaimsNeedVault
    <3>2. vault.total_updates_rewarded = 0 /\ vault.total_distributed = 0
      <4>1. SumFunctionOnSet(Paid, {}) = 0 /\ DOMAIN claims = {}
        BY <3>1, SumOfSome, FS_EmptySet
      <4> QED
        BY <3>1, <4>1 DEF BooksInvariant
    <3>3. vault'.total_updates_rewarded = 0 /\ vault'.total_distributed = 0
      BY <2>1 DEF InitializeRewardVault, NoVault
    <3> QED
      BY <3>1, <3>2, <3>3 DEF BooksInvariant, ClaimsNeedVault, Paid, Tokens
  <2>2. ASSUME NEW n \in Amounts, FundRewardVault(u, n) PROVE BooksInvariant'
    <3>1. n \in Nat /\ u \in TokenAccounts /\ VaultTokens \in TokenAccounts
      BY AmountsAssumption DEF TokenAccounts
    <3> QED
      BY <1>3, <2>2, <3>1 DEF FundRewardVault
  <2>3. ASSUME NEW n \in Amounts, NEW v \in Users, WithdrawRewardVault(u, v, n)
        PROVE  BooksInvariant'
    <3>1. n \in Nat /\ v \in TokenAccounts /\ VaultTokens \in TokenAccounts
      BY AmountsAssumption DEF TokenAccounts
    <3> QED
      BY <1>3, <2>3, <3>1 DEF WithdrawRewardVault
  <2> QED
    BY <1>5, <2>1, <2>2, <2>3 DEF Reward
<1>6. ASSUME NEW u \in Users, Submit(u) PROVE BooksInvariant'
  <2>1. PICK p \in Prices, r \in TokenAccounts \cup {None} : UpdatePrice(u, p, r)
    BY <1>6 DEF Submit
  <2>2. accounts' = accounts /\ (r # None => VaultExists) /\ (PayReward(r) \/ SkipReward(r))
    BY <2>1 DEF UpdatePrice
  <2>3. CASE SkipReward(r)
    BY <1>2, <2>2, <2>3 DEF SkipReward, VaultExists
  <2>4. CASE PayReward(r)
    BY <2>2, <2>4, PayBooks DEF PayReward, RewardDue
  <2> QED
    BY <2>2, <2>3, <2>4
<1>7. CASE AdvanceSlot \/ UNCHANGED vars
  BY <1>2, <1>7 DEF AdvanceSlot, vars, VaultExists
<1> QED
  BY <1>4, <1>5, <1>6, <1>7 DEF Next

\* The vault's counters are those of the events, and no instruction makes or loses a
\* token, whichever account a reward is paid into.
THEOREM BooksBalance == Spec => []RewardBooksBalance
<1>1. Init => BooksInvariant
  BY InitBooks
<1>2. Structure /\ BooksInvariant /\ [Next]_vars => BooksInvariant'
  BY BooksStep
<1>3. Structure /\ BooksInvariant => RewardBooksBalance
  <2>1. Structure => DOMAIN balance = TokenAccounts
    BY DEF Structure, TypeOK
  <2>2. DOMAIN Paid = DOMAIN claims
    BY DEF Paid
  <2> QED
    BY <2>1, <2>2 DEF BooksInvariant, RewardBooksBalance, SumFunction, Tokens, Paid
<1> QED
  BY <1>1, <1>2, <1>3, Invariance, PTL DEF Spec

================================================================================
