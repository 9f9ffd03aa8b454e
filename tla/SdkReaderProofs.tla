---------------------------- MODULE SdkReaderProofs -----------------------------
(***************************************************************************)
(* What a client that repeats get_swap's computation may rely on, for every *)
(* value of the constants and however its three requests fall.              *)
(***************************************************************************)
EXTENDS SdkReaderProperties, ClientProgramsProperties, TwapOracleSumProofs, SequenceTheorems

Calls == [windowSlots : Nat, staleness : Nat]

CallOK ==
    /\ call # None => call \in Calls
    /\ DOMAIN fetched # {} => call # None

\* An oracle as some update left it: the n-th, or none when n is 0.
OracleOf(o, n) ==
    /\ o.last_slot \in Nat /\ o.last_slot <= oracle.last_slot
    /\ n > 0 => /\ o.last_slot = updates[n].slot
                /\ o.last_price = updates[n].price
                /\ o.cumulative_price = updates[n].cumulative_price
    /\ n < Len(updates) => o.last_slot < updates[n + 1].slot

ObservationOf(k) ==
    [slot |-> updates[k].slot, cumulative_price |-> updates[k].cumulative_price]

\* A buffer that holds observations of updates.
BufferOfUpdates(b) ==
    /\ b.len \in Nat
    /\ \A a \in 1 .. b.len : \E k \in DOMAIN updates : NthNewest(b, a) = ObservationOf(k)

\* What was fetched was once the chain's.
FetchedOK ==
    /\ Fetched("oracle") => \E n \in 0 .. Len(updates) : OracleOf(fetched["oracle"], n)
    /\ Fetched("buffer") => BufferOfUpdates(fetched["buffer"])
    /\ Fetched("slot") => fetched["slot"] \in Nat

ReaderInvariant == CallOK /\ FetchedOK

--------------------------------------------------------------------------------
(* The invariant *)

LEMMA ReaderTakesSteps == ReaderSpec => Spec
<1>1. ReaderInit => Init
  BY DEF ReaderInit
<1>2. [ReaderNext]_<<vars, readerVars>> => [Next]_vars
  BY DEF ReaderNext
<1> QED
  BY <1>1, <1>2, PTL DEF ReaderSpec, Spec

LEMMA PricingOfReader == ReaderSpec => []PricingInvariant
  BY ReaderTakesSteps, PricingInvariance, PTL

LEMMA InitReader == ReaderInit => ReaderInvariant
  BY DEF ReaderInit, readerInit, ReaderInvariant, CallOK, FetchedOK, Fetched

\* What the chain holds now is of some update.
LEMMA ChainIsOfUpdates ==
    ASSUME PricingInvariant
    PROVE  /\ OracleOf(oracle, Len(updates)) /\ Len(updates) \in 0 .. Len(updates)
           /\ BufferOfUpdates(buffer)
<1> DEFINE n == Len(updates)
<1>1. /\ n \in Nat /\ DOMAIN updates = 1 .. n /\ (n > 0 <=> updates # <<>>)
      /\ oracle.last_slot \in Nat /\ buffer.len \in Nat /\ buffer.len <= n
  BY DEF PricingInvariant, Structure, TypeOK, OracleType, BufferType, History,
         RingHoldsNewestUpdates
<1>2. n > 0 => /\ oracle.last_slot = updates[n].slot
               /\ oracle.last_price = updates[n].price
               /\ oracle.cumulative_price = updates[n].cumulative_price
  <2>1. NthUpdate(1) = updates[n]
    BY <1>1 DEF NthUpdate
  <2> QED
    BY <1>1, <2>1 DEF PricingInvariant, History, OracleIsLastUpdate
<1>3. ASSUME NEW a \in 1 .. buffer.len
      PROVE  \E k \in DOMAIN updates : NthNewest(buffer, a) = ObservationOf(k)
  <2>1. n - a + 1 \in DOMAIN updates
    BY <1>1
  <2>2. NthNewest(buffer, a) = ObservationOf(n - a + 1)
    BY DEF PricingInvariant, History, RingHoldsNewestUpdates, NthUpdate, ObservationOf
  <2> QED
    BY <2>1, <2>2
<1> QED
  BY <1>1, <1>2, <1>3 DEF OracleOf, BufferOfUpdates

\* Nothing the chain does takes an update back.
LEMMA ChainGoesOn ==
    ASSUME PricingInvariant, Next
    PROVE  /\ Len(updates) \in Nat /\ Len(updates') \in Nat /\ Len(updates) <= Len(updates')
           /\ DOMAIN updates = 1 .. Len(updates) /\ DOMAIN updates' = 1 .. Len(updates')
           /\ \A k \in DOMAIN updates : updates'[k] = updates[k]
           /\ oracle.last_slot \in Nat /\ oracle'.last_slot \in Nat
           /\ oracle.last_slot <= oracle'.last_slot
           /\ Len(updates) < Len(updates') =>
                 oracle.last_slot < updates'[Len(updates) + 1].slot
<1>1. Structure /\ History /\ Structure'
  BY StructureStep DEF PricingInvariant
<1>2. /\ updates \in Seq(UpdateType) /\ oracle.last_slot \in Nat /\ slot \in Nat
      /\ oracle.last_slot <= slot /\ oracle'.last_slot \in Nat
  BY <1>1 DEF Structure, TypeOK, OracleType, History, OracleIsLastUpdate
<1>3. Len(updates) \in Nat /\ DOMAIN updates = 1 .. Len(updates)
  BY <1>2
<1>4. CASE updates' = updates /\ oracle.last_slot <= oracle'.last_slot
  BY <1>2, <1>3, <1>4
<1>5. ASSUME NEW u \in Users, Submit(u)
      PROVE  /\ Len(updates') = Len(updates) + 1
             /\ DOMAIN updates' = 1 .. Len(updates')
             /\ \A k \in DOMAIN updates : updates'[k] = updates[k]
             /\ oracle.last_slot <= oracle'.last_slot
             /\ oracle.last_slot < updates'[Len(updates) + 1].slot
  <2>1. PICK p \in Prices, r \in TokenAccounts \cup {None} : UpdatePrice(u, p, r)
    BY <1>5 DEF Submit
  <2> DEFINE e == [slot |-> slot, price |-> p,
                   cumulative_price |-> ExtendedCumulative(oracle, slot), updater |-> u]
  <2>2. updates' = Append(updates, e) /\ e.slot = slot
    BY <2>1 DEF UpdatePrice
  <2>3. oracle.last_slot < slot /\ oracle'.last_slot = slot
    BY <1>1, <2>1 DEF UpdatePrice, Accepted, Structure, TypeOK, OracleType
  <2> HIDE DEF e
  <2>4. /\ Len(updates') = Len(updates) + 1
        /\ DOMAIN updates' = 1 .. Len(updates) + 1
        /\ updates'[Len(updates) + 1] = e
        /\ \A k \in 1 .. Len(updates) : updates'[k] = updates[k]
    BY <1>2, <2>2, AppendedEvent
  <2> QED
    BY <1>2, <1>3, <2>2, <2>3, <2>4
<1>6. CASE \E u \in Users : Submit(u)
  BY <1>2, <1>3, <1>5, <1>6
<1>7. ASSUME NEW u \in Users, Administer(u) \/ Reward(u)
      PROVE  updates' = updates /\ oracle.last_slot <= oracle'.last_slot
  <2>1. oracle \in OracleType
    BY <1>1 DEF Structure, TypeOK
  <2>2. ASSUME NEW c \in Capacities, InitializeOracle(u, c)
        PROVE  updates' = updates /\ oracle'.last_slot = slot
    BY <2>2 DEF InitializeOracle, NewOracle
  <2>3. ASSUME NEW v, \/ TransferOwnership(u, v) \/ AcceptOwnership(u)
                      \/ SetPaused(u, v) \/ SetMaxDeviation(u, v)
        PROVE  updates' = updates /\ oracle'.last_slot = oracle.last_slot
    BY <2>1, <2>3 DEF TransferOwnership, AcceptOwnership, SetPaused, SetMaxDeviation, OracleType
  <2>4. CASE UNCHANGED <<oracle, updates>>
    BY <1>2, <2>4
  <2>5. CASE Administer(u)
    BY <1>2, <2>2, <2>3, <2>4, <2>5 DEF Administer, ResizeBuffer
  <2>6. CASE Reward(u)
    BY <2>4, <2>6 DEF Reward, InitializeRewardVault, FundRewardVault, WithdrawRewardVault,
                      oracleVars
  <2> QED
    BY <1>7, <2>5, <2>6
<1>8. CASE AdvanceSlot
  BY <1>2, <1>4, <1>8 DEF AdvanceSlot, oracleVars
<1> QED
  BY <1>4, <1>6, <1>7, <1>8 DEF Next

LEMMA ChainKeepsFetched ==
    ASSUME PricingInvariant, ReaderInvariant, Next, UNCHANGED readerVars
    PROVE  ReaderInvariant'
<1>1. /\ Len(updates) \in Nat /\ Len(updates') \in Nat /\ Len(updates) <= Len(updates')
      /\ DOMAIN updates = 1 .. Len(updates) /\ DOMAIN updates' = 1 .. Len(updates')
      /\ \A k \in DOMAIN updates : updates'[k] = updates[k]
      /\ oracle.last_slot \in Nat /\ oracle'.last_slot \in Nat
      /\ oracle.last_slot <= oracle'.last_slot
      /\ Len(updates) < Len(updates') => oracle.last_slot < updates'[Len(updates) + 1].slot
  BY ChainGoesOn
<1>2. UNCHANGED <<call, fetched>>
  BY DEF readerVars
<1>3. ASSUME NEW o, NEW n \in 0 .. Len(updates), OracleOf(o, n)
      PROVE  n \in 0 .. Len(updates') /\ OracleOf(o, n)'
  <2>1. n \in 0 .. Len(updates')
    BY <1>1
  <2>2. o.last_slot \in Nat /\ o.last_slot <= oracle'.last_slot
    BY <1>1, <1>3 DEF OracleOf
  <2>3. n > 0 => /\ o.last_slot = updates'[n].slot
                 /\ o.last_price = updates'[n].price
                 /\ o.cumulative_price = updates'[n].cumulative_price
    BY <1>1, <1>3 DEF OracleOf
  <2>4. ASSUME n < Len(updates') PROVE o.last_slot < updates'[n + 1].slot
    <3>1. CASE n < Len(updates)
      BY <1>1, <1>3, <3>1 DEF OracleOf
    <3>2. CASE n = Len(updates)
      <4>1. o.last_slot <= oracle.last_slot /\ oracle.last_slot < updates'[n + 1].slot
        BY <1>1, <1>3, <2>4, <3>2 DEF OracleOf
      <4>2. updates'[n + 1].slot \in Nat
        <5>1. updates' \in Seq(UpdateType)
          BY StructureStep DEF PricingInvariant, Structure, TypeOK
        <5>2. n + 1 \in 1 .. Len(updates')
          BY <1>1, <2>4
        <5>3. updates'[n + 1] \in UpdateType
          BY <5>1, <5>2, AppendedEvent
        <5> QED
          BY <5>3 DEF UpdateType
      <4> QED
        BY <1>1, <2>2, <4>1, <4>2
    <3> QED
      BY <1>1, <3>1, <3>2
  <2> QED
    BY <2>1, <2>2, <2>3, <2>4 DEF OracleOf
<1>4. ASSUME NEW b, BufferOfUpdates(b) PROVE BufferOfUpdates(b)'
  <2>1. \A k \in DOMAIN updates : k \in DOMAIN updates' /\ ObservationOf(k)' = ObservationOf(k)
    BY <1>1 DEF ObservationOf
  <2> QED
    BY <1>4, <2>1 DEF BufferOfUpdates
<1> QED
  BY <1>2, <1>3, <1>4 DEF ReaderInvariant, CallOK, FetchedOK, Fetched

LEMMA ReaderKeepsFetched ==
    ASSUME PricingInvariant, ReaderInvariant, Read, UNCHANGED vars
    PROVE  ReaderInvariant'
<1>1. UNCHANGED <<oracle, updates, buffer, slot>> /\ slot \in Nat
  BY DEF vars, oracleVars, PricingInvariant, Structure, TypeOK
<1>2. CASE Call
  <2>1. PICK w \in Windows, m \in Stalenesses \cup {None} :
           call' = [windowSlots |-> w, staleness |-> IF m = None THEN w ELSE m]
    BY <1>2 DEF Call
  <2>2. w \in Nat /\ (m = None \/ m \in Nat)
    BY WindowsAssumption
  <2>3. call' \in Calls
    BY <2>1, <2>2 DEF Calls
  <2>4. call = None /\ DOMAIN fetched = {} /\ fetched' = fetched
    BY <1>2 DEF Call, ReaderInvariant, CallOK
  <2> QED
    BY <2>3, <2>4 DEF ReaderInvariant, CallOK, FetchedOK, Fetched
<1>3. CASE EndCall
  BY <1>3 DEF EndCall, ReaderInvariant, CallOK, FetchedOK, Fetched
<1>4. ASSUME NEW request \in Requests, NEW answer, Receive(request, answer),
             request = "oracle" => \E n \in 0 .. Len(updates) : OracleOf(answer, n),
             request = "buffer" => BufferOfUpdates(answer),
             request = "slot" => answer \in Nat
      PROVE  ReaderInvariant'
  <2>1. /\ call # None /\ call' = call
        /\ DOMAIN fetched' = DOMAIN fetched \cup {request}
        /\ fetched'[request] = answer
        /\ \A r \in DOMAIN fetched : r # request => fetched'[r] = fetched[r]
    BY <1>4 DEF Receive
  <2>2. CallOK'
    BY <2>1 DEF ReaderInvariant, CallOK
  <2>3. /\ \A o, n : OracleOf(o, n)' <=> OracleOf(o, n)
        /\ \A b : BufferOfUpdates(b)' <=> BufferOfUpdates(b)
    BY <1>1 DEF OracleOf, BufferOfUpdates, ObservationOf
  <2>4. FetchedOK'
    BY <1>1, <1>4, <2>1, <2>3 DEF ReaderInvariant, FetchedOK, Fetched
  <2> QED
    BY <2>2, <2>4 DEF ReaderInvariant
<1>5. CASE FetchOracle
  BY <1>4, <1>5, ChainIsOfUpdates DEF FetchOracle, Requests
<1>6. CASE FetchObservationBuffer
  BY <1>4, <1>6, ChainIsOfUpdates DEF FetchObservationBuffer, Requests
<1>7. CASE GetSlot
  BY <1>1, <1>4, <1>7 DEF GetSlot, Requests
<1> QED
  BY <1>2, <1>3, <1>5, <1>6, <1>7 DEF Read

LEMMA ReaderInvariance == ReaderSpec => [](PricingInvariant /\ ReaderInvariant)
<1>1. ReaderInit => ReaderInvariant
  BY InitReader
<1>2. PricingInvariant /\ ReaderInvariant /\ [ReaderNext]_<<vars, readerVars>>
         => ReaderInvariant'
  <2>1. ASSUME ReaderInvariant, UNCHANGED <<vars, readerVars>> PROVE ReaderInvariant'
    BY <2>1 DEF vars, oracleVars, readerVars, ReaderInvariant, CallOK, FetchedOK, Fetched,
                OracleOf, BufferOfUpdates, ObservationOf
  <2> QED
    BY <2>1, ChainKeepsFetched, ReaderKeepsFetched DEF ReaderNext
<1> QED
  BY <1>1, <1>2, PricingOfReader, PTL DEF ReaderSpec

--------------------------------------------------------------------------------
(* The same answer *)

\* A call that is answered has its window and its limit.
LEMMA AnsweredCall ==
    ASSUME ReaderInvariant, Answered
    PROVE  call.windowSlots \in Nat /\ call.staleness \in Nat
<1>1. DOMAIN fetched # {}
  BY DEF Answered, Fetched, Requests
<1> QED
  BY <1>1 DEF ReaderInvariant, CallOK, Calls

LEMMA SameAnswer ==
    ASSUME PricingInvariant, ReaderInvariant PROVE AgreesWithGetSwap
<1> SUFFICES ASSUME Answered, NothingMoved, ~ oracle.paused, ~ Wedged
             PROVE  LET onChain == GetSwap(call.windowSlots, call.staleness)
                    IN  /\ Answer.error = "none" <=> onChain.error = "none"
                        /\ Answer.swap = onChain.swap
  BY DEF AgreesWithGetSwap
<1> DEFINE w == call.windowSlots
           m == call.staleness
           now == ExtendedCumulative(oracle, slot)
           target == slot - w + 1
           ages == AgesBefore(buffer, target)
           past == ObservationBeforeSlot(buffer, target)
           late == slot - oracle.last_slot > m
           onChain == GetSwap(w, m)
<1>1. Structure /\ History /\ Accumulation /\ w \in Nat /\ m \in Nat
  BY AnsweredCall DEF PricingInvariant
<1>2. /\ now \in Nat /\ slot \in Nat /\ oracle.last_slot \in Nat /\ Fits(now)
      /\ \A k \in DOMAIN updates : updates[k].cumulative_price <= now
  <2>1. now \in Nat /\ \A k \in DOMAIN updates : updates[k].cumulative_price <= now
    BY <1>1, NowIsNoLess
  <2>2. ~ (now > MaxU128)
    BY DEF Wedged
  <2> HIDE DEF now
  <2>3. Fits(now)
    BY <2>1, <2>2, MaxU128Assumption DEF Fits
  <2> QED
    BY <1>1, <2>1, <2>3 DEF Structure, TypeOK, OracleType
<1>3. Answer = IF late THEN Fails("Stale")
               ELSE IF FindObservationBeforeSlot(buffer, target) = None
                    THEN Fails("Insufficient")
               ELSE ComputeSwapBN(now, FindObservationBeforeSlot(buffer, target).cumulative_price,
                                  slot, FindObservationBeforeSlot(buffer, target).slot)
  BY DEF Answer, NothingMoved, ComputeSwapFrom
<1>4. onChain = IF buffer.len = 0 THEN Fails("InsufficientHistory")
                ELSE IF late THEN Fails("StaleOracle")
                ELSE IF slot - w < 0 \/ ages = {} THEN Fails("InsufficientHistory")
                ELSE ComputeSwap(now, past.cumulative_price, slot, past.slot)
  BY <1>2 DEF GetSwap
<1> HIDE DEF now, ages, past, late, onChain, w, m
<1>5. CASE ages = {}
  <2>1. FindObservationBeforeSlot(buffer, target) = None
    BY <1>5 DEF FindObservationBeforeSlot, ages
  <2>2. Answer = Fails("Stale") \/ Answer = Fails("Insufficient")
    BY <1>3, <2>1
  <2>3. onChain = Fails("InsufficientHistory") \/ onChain = Fails("StaleOracle")
    BY <1>4, <1>5
  <2> QED
    BY <2>2, <2>3 DEF Fails, onChain, w, m
<1>6. CASE ages # {}
  <2>1. OracleExists /\ buffer.len # 0
    <3>1. buffer.len # 0
      BY <1>1, <1>6 DEF ages, AgesBefore, Structure, TypeOK, BufferType
    <3>2. ~ OracleExists => buffer.len = 0
      BY <1>1 DEF Structure, Lifecycle, NewBuffer
    <3> QED
      BY <3>1, <3>2
  <2> DEFINE k == Max(Before(w))
  <2>2. Before(w) # {} /\ k \in Before(w) /\ past = ObservationOf(k)
    BY <1>1, <1>6, <2>1, ScanFindsNewest DEF ages, past, ObservationOf
  <2>3. k \in DOMAIN updates /\ updates[k].slot <= slot - w
    <3>1. k \in Len(updates) - buffer.len + 1 .. Len(updates) /\ updates[k].slot <= slot - w
      BY <2>2 DEF Before, Retained
    <3>2. /\ Len(updates) \in Nat /\ buffer.len \in Nat /\ buffer.len <= Len(updates)
          /\ DOMAIN updates = 1 .. Len(updates)
      BY <1>1 DEF Structure, TypeOK, BufferType, History, RingHoldsNewestUpdates
    <3> HIDE DEF k
    <3> QED
      BY <3>1, <3>2
  <2> HIDE DEF k
  <2>4. /\ past.slot \in Nat /\ past.cumulative_price \in Nat /\ past.cumulative_price <= now
        /\ past.slot <= slot - w
    <3>1. updates[k].slot \in Nat /\ updates[k].cumulative_price \in Nat
      BY <1>1, <2>3, NowIsNoLess
    <3> QED
      BY <1>2, <2>2, <2>3, <3>1 DEF ObservationOf
  <2>5. past # None
    <3>1. past \in [slot : Nat, cumulative_price : Nat]
      BY <2>2, <2>4 DEF ObservationOf
    <3> QED
      BY <3>1, NothingFoundAssumption
  <2>6. FindObservationBeforeSlot(buffer, target) = past
    BY <1>6 DEF FindObservationBeforeSlot, ages, past
  <2>7. ~ (slot - w < 0) /\ past.slot <= slot
    BY <1>1, <1>2, <2>4
  <2>8. CASE late
    BY <1>3, <1>4, <2>1, <2>8 DEF Fails, onChain, w, m
  <2>9. CASE ~ late
    <3>1. Answer = ComputeSwapBN(now, past.cumulative_price, slot, past.slot)
      BY <1>3, <2>5, <2>6, <2>9
    <3>2. onChain = ComputeSwap(now, past.cumulative_price, slot, past.slot)
      BY <1>4, <1>6, <2>1, <2>7, <2>9
    <3>3. CASE past.slot = slot
      <4>1. Answer = Fails("DivisionByZero")
        BY <3>1, <3>3 DEF ComputeSwapBN
      <4>2. onChain = Fails("StaleSlot")
        BY <1>2, <3>2, <3>3 DEF ComputeSwap
      <4> QED
        BY <4>1, <4>2 DEF Fails, onChain, w, m
    <3>4. CASE past.slot < slot
      <4> DEFINE average == (now - past.cumulative_price) \div (slot - past.slot)
      <4>1. Answer = Ok(average)
        BY <1>2, <2>4, <3>1, <3>4 DEF ComputeSwapBN, DivBN
      <4>2. onChain = Ok(average)
        BY <1>2, <2>4, <3>2, <3>4 DEF ComputeSwap
      <4> HIDE DEF average
      <4> QED
        BY <4>1, <4>2 DEF onChain, w, m
    <3> QED
      BY <1>2, <2>4, <2>7, <3>3, <3>4
  <2> QED
    BY <2>8, <2>9
<1> QED
  BY <1>5, <1>6

\* Read in one state, the chain gives the client what get_swap would return, or an error
\* when get_swap fails, unless the oracle is paused or has overflowed.
THEOREM ReaderAgrees == ReaderSpec => []AgreesWithGetSwap
<1>1. PricingInvariant /\ ReaderInvariant => AgreesWithGetSwap
  BY SameAnswer
<1> QED
  BY <1>1, ReaderInvariance, PTL

--------------------------------------------------------------------------------
(* An average in any case *)

\* The prices known, from an update to the one the account shows and on to a slot: they
\* add up to what the accumulators of the two, and the price of the second, say.
LEMMA SumOfKnown ==
    ASSUME PricingInvariant, NEW n \in DOMAIN updates, NEW k \in DOMAIN updates, k <= n,
           NEW now \in Nat, updates[n].slot <= now,
           fetched["oracle"].last_slot = updates[n].slot
    PROVE  SumFunction([s \in updates[k].slot .. now - 1 |-> PriceKnown(s)]) =
              updates[n].cumulative_price - updates[k].cumulative_price
                 + updates[n].price * (now - updates[n].slot)
<1> DEFINE from == updates[k].slot
           mid == updates[n].slot
           p == updates[n].price
           known == [s \in Int |-> PriceKnown(s)]
           f == [s \in from .. now - 1 |-> PriceKnown(s)]
<1>1. Structure /\ History /\ Accumulation
  BY DEF PricingInvariant
<1>2. \A j \in DOMAIN updates : updates[j] \in UpdateType
  <2>1. updates \in Seq(UpdateType)
    BY <1>1 DEF Structure, TypeOK
  <2> QED
    BY <2>1, AppendedEvent
<1>3. /\ from \in Nat /\ mid \in Nat /\ p \in Nat /\ from <= mid /\ mid <= now
      /\ n \in Nat /\ k \in Nat /\ n <= Len(updates)
      /\ updates[n].cumulative_price \in Nat /\ updates[k].cumulative_price \in Nat
  <2>1. n \in Nat /\ k \in Nat /\ n <= Len(updates)
    BY <1>1 DEF Structure, TypeOK
  <2>2. from \in Nat /\ mid \in Nat /\ p \in Nat
    BY <1>2 DEF UpdateType
  <2>3. updates[n].cumulative_price \in Nat /\ updates[k].cumulative_price \in Nat
    BY <1>1, NowIsNoLess
  <2>4. k = n \/ from < mid
    BY <1>1, <2>1 DEF History, SlotsIncrease
  <2> QED
    BY <2>1, <2>2, <2>3, <2>4
<1>4. /\ n < Len(updates) => mid < updates[n + 1].slot
      /\ FirstSlot \in Nat /\ FirstSlot <= from
  <2>1. ASSUME n < Len(updates) PROVE mid < updates[n + 1].slot
    <3>1. n + 1 \in DOMAIN updates /\ n < n + 1
      BY <1>1, <1>3, <2>1 DEF Structure, TypeOK
    <3> QED
      BY <1>1, <3>1 DEF History, SlotsIncrease
  <2> QED
    BY <2>1, BoundsAssumption DEF PricingInvariant, Started
<1>5. /\ Integral(FirstSlot, from) = updates[k].cumulative_price
      /\ Integral(FirstSlot, mid) = updates[n].cumulative_price
  BY IntegralOfUpdates
<1>6. PriceInForce(mid) = p
  <2> DEFINE here == mid
  <2>1. here \in Int /\ updates[n].slot <= here /\ (n < Len(updates) => here < updates[n + 1].slot)
    BY <1>3, <1>4
  <2> HIDE DEF here
  <2>2. PriceInForce(here) = updates[n].price
    BY <1>1, <2>1, WhatIsInForce
  <2> QED
    BY <2>2 DEF here
<1>7. \A s \in Int : /\ s < mid => PriceKnown(s) = PriceInForce(s)
                     /\ ~ (s < mid) => PriceKnown(s) = p
  BY <1>6 DEF PriceKnown
<1> HIDE DEF mid, p, from
<1>8. \A s \in Int : known[s] \in Int
  <2>1. \A s \in Int : PriceInForce(s) \in Nat
    BY <1>1, WhatIsInForce
  <2> QED
    BY <1>3, <1>7, <2>1
<1>9. SumFunction(f) = SumFunctionOnSet(known, from .. now - 1)
  <2>1. SumFunction(f) = SumFunctionOnSet(f, from .. now - 1)
    BY DEF SumFunction
  <2>2. IsFiniteSet(from .. now - 1)
    <3>1. from \in Int /\ now - 1 \in Int
      BY <1>3
    <3> QED
      BY <3>1, FS_Interval
  <2>3. \A s \in from .. now - 1 : f[s] = known[s]
    BY <1>3
  <2> HIDE DEF f, known
  <2> QED
    BY <2>1, <2>2, <2>3, SumOfSame
<1>10. SumFunctionOnSet(known, from .. mid - 1) = Integral(from, mid)
  <2>1. IsFiniteSet(from .. mid - 1)
    <3>1. from \in Int /\ mid - 1 \in Int
      BY <1>3
    <3> QED
      BY <3>1, FS_Interval
  <2>2. ASSUME NEW s \in from .. mid - 1 PROVE known[s] = InForce[s]
    <3>1. s \in Int /\ s < mid
      BY <1>3
    <3>2. known[s] = PriceKnown(s) /\ InForce[s] = PriceInForce(s)
      BY <3>1 DEF InForce
    <3> QED
      BY <1>7, <3>1, <3>2
  <2>3. SumFunctionOnSet(known, from .. mid - 1) = SumFunctionOnSet(InForce, from .. mid - 1)
    <3> HIDE DEF known
    <3> QED
      BY <2>1, <2>2, SumOfSame
  <2> QED
    BY <1>3, <2>3, IntegralIsSum
<1>11. SumFunctionOnSet(known, mid .. now - 1) = p * (now - mid)
  <2>1. ASSUME NEW s \in mid .. now - 1 PROVE known[s] = p
    <3>1. s \in Int /\ ~ (s < mid)
      BY <1>3
    <3> QED
      BY <1>7, <3>1
  <2> HIDE DEF known
  <2> QED
    BY <1>3, <2>1, SumOfSteady
<1>12. SumFunctionOnSet(known, from .. now - 1) =
          SumFunctionOnSet(known, from .. mid - 1) + SumFunctionOnSet(known, mid .. now - 1)
  <2> HIDE DEF known
  <2> QED
    BY <1>3, <1>8, SumOfIntervals
<1>13. Integral(from, mid) = updates[n].cumulative_price - updates[k].cumulative_price
  <2>1. Integral(FirstSlot, mid) = Integral(FirstSlot, from) + Integral(from, mid)
    BY <1>1, <1>3, <1>4, IntegralSplits
  <2>2. Integral(from, mid) \in Int
    BY <1>1, <1>3, IntegralSplits
  <2> QED
    BY <1>3, <1>5, <2>1, <2>2
<1> HIDE DEF f, known
<1> QED
  BY <1>9, <1>10, <1>11, <1>12, <1>13 DEF f, from, mid, p

LEMMA AnswerIsAnAverage ==
    ASSUME PricingInvariant, ReaderInvariant PROVE DefaultAnswersAreAverages
<1> DEFINE o == fetched["oracle"]
           b == fetched["buffer"]
           s == fetched["slot"]
           w == call.windowSlots
           target == s - w + 1
           ages == AgesBefore(b, target)
           past == ObservationBeforeSlot(b, target)
           now == ExtendedCumulative(o, s)
<1> SUFFICES ASSUME Answered, Answer.error = "none", call.staleness = w, o.last_slot <= s
             PROVE  \E k \in DOMAIN updates :
                       /\ updates[k].slot <= s - w
                       /\ Answer.swap =
                             SumFunction([x \in updates[k].slot .. s - 1 |-> PriceKnown(x)])
                                \div (s - updates[k].slot)
  BY DEF DefaultAnswersAreAverages
<1>1. Structure /\ History /\ Accumulation /\ w \in Nat
  BY AnsweredCall DEF PricingInvariant
<1>2. s \in Nat /\ BufferOfUpdates(b) /\ \E n \in 0 .. Len(updates) : OracleOf(o, n)
  BY DEF ReaderInvariant, FetchedOK, Answered, Requests
<1>3. PICK n \in 0 .. Len(updates) : OracleOf(o, n)
  BY <1>2
<1>4. Answer = IF s - o.last_slot > w THEN Fails("Stale")
               ELSE IF FindObservationBeforeSlot(b, target) = None THEN Fails("Insufficient")
               ELSE ComputeSwapBN(now, FindObservationBeforeSlot(b, target).cumulative_price,
                                  s, FindObservationBeforeSlot(b, target).slot)
  BY DEF Answer, ComputeSwapFrom
<1> HIDE DEF o, b, s, w, now
<1>5. /\ ~ (s - o.last_slot > w)
      /\ FindObservationBeforeSlot(b, target) # None
      /\ Answer = ComputeSwapBN(now, FindObservationBeforeSlot(b, target).cumulative_price,
                                s, FindObservationBeforeSlot(b, target).slot)
  BY <1>4 DEF Fails
<1>6. ages # {} /\ FindObservationBeforeSlot(b, target) = past
  BY <1>5 DEF FindObservationBeforeSlot
<1>7. PICK k \in DOMAIN updates : past = ObservationOf(k) /\ past.slot < target
  <2>1. ages \in SUBSET Nat
    BY DEF AgesBefore
  <2>2. Min(ages) \in ages
    BY <1>6, <2>1, LeastAge
  <2>3. Min(ages) \in 1 .. b.len /\ NthNewest(b, Min(ages)).slot < target
    BY <2>2 DEF AgesBefore
  <2> QED
    BY <1>2, <2>3 DEF BufferOfUpdates, ObservationBeforeSlot
<1>8. /\ Len(updates) \in Nat /\ DOMAIN updates = 1 .. Len(updates)
      /\ \A j \in DOMAIN updates : /\ updates[j].slot \in Nat
                                   /\ updates[j].cumulative_price \in Nat
                                   /\ updates[j].price \in Nat
  <2>1. updates \in Seq(UpdateType)
    BY <1>1 DEF Structure, TypeOK
  <2>2. \A j \in DOMAIN updates : updates[j] \in UpdateType
    BY <2>1, AppendedEvent
  <2>3. \A j \in DOMAIN updates : updates[j].cumulative_price \in Nat
    BY <1>1, NowIsNoLess
  <2> QED
    BY <2>1, <2>2, <2>3 DEF UpdateType
<1>9. /\ past.slot = updates[k].slot /\ past.cumulative_price = updates[k].cumulative_price
      /\ updates[k].slot <= s - w
  BY <1>1, <1>2, <1>7, <1>8 DEF ObservationOf
<1>10. o.last_slot \in Nat /\ updates[k].slot <= o.last_slot
  BY <1>1, <1>2, <1>3, <1>5, <1>8, <1>9 DEF OracleOf
<1>11. k <= n
  <2> SUFFICES ASSUME n < k PROVE FALSE
    BY <1>8
  <2>1. n < Len(updates) /\ n + 1 \in DOMAIN updates /\ (n + 1 = k \/ n + 1 < k)
    BY <1>8
  <2>2. o.last_slot < updates[n + 1].slot /\ updates[n + 1].slot <= updates[k].slot
    BY <1>1, <1>3, <1>8, <2>1 DEF OracleOf, History, SlotsIncrease
  <2> QED
    BY <1>8, <1>10, <2>1, <2>2
<1>12. n \in DOMAIN updates /\ n > 0
  BY <1>8, <1>11
<1>13. /\ o.last_slot = updates[n].slot
       /\ now = updates[n].cumulative_price + updates[n].price * (s - updates[n].slot)
  BY <1>3, <1>12 DEF OracleOf, now, ExtendedCumulative
<1>14. now - updates[k].cumulative_price \in Nat
       /\ SumFunction([x \in updates[k].slot .. s - 1 |-> PriceKnown(x)])
             = now - updates[k].cumulative_price
  <2>1. updates[k].cumulative_price <= updates[n].cumulative_price
    BY <1>1, <1>11, <1>12 DEF Accumulation, NeverDecreases
  <2>2. updates[n].price * (s - updates[n].slot) \in Nat
    BY <1>2, <1>8, <1>12, <1>13
  <2>3. SumFunction([x \in updates[k].slot .. s - 1 |-> PriceKnown(x)]) =
           updates[n].cumulative_price - updates[k].cumulative_price
              + updates[n].price * (s - updates[n].slot)
    BY <1>2, <1>11, <1>12, <1>13, SumOfKnown DEF o
  <2> QED
    BY <1>8, <1>12, <1>13, <2>1, <2>2, <2>3
<1>15. Answer.swap = (now - updates[k].cumulative_price) \div (s - updates[k].slot)
  <2>1. Answer = ComputeSwapBN(now, updates[k].cumulative_price, s, updates[k].slot)
    BY <1>5, <1>6, <1>9
  <2>2. s # updates[k].slot
    BY <2>1 DEF ComputeSwapBN, Fails
  <2> QED
    BY <1>14, <2>1, <2>2 DEF ComputeSwapBN, DivBN, Ok
<1> QED
  BY <1>9, <1>14, <1>15

\* With the default staleness, and unless the slot was read before the update the oracle
\* account shows, an answer is an average of prices in force over an interval that covers
\* the window, however many updates and resizes fell between the requests.
THEOREM ReaderAverages == ReaderSpec => []DefaultAnswersAreAverages
<1>1. PricingInvariant /\ ReaderInvariant => DefaultAnswersAreAverages
  BY AnswerIsAnAverage
<1> QED
  BY <1>1, ReaderInvariance, PTL

--------------------------------------------------------------------------------
(* The parts of one answer *)

\* Programs on a public chain that make one answer of several requests.
Public == {"inspect", "/twap"}

\* Once there was an update, the ring holds one.
RingIsFed == updates # <<>> => buffer.len > 0

\* What inspect has read: nothing at first, then the account, then a buffer with an
\* observation that is not older.
InspectOK ==
    /\ pc \in 1 .. 3
    /\ got = {}
    /\ pc = 1 => DOMAIN noted = {}
    /\ pc < 3 => "buffer" \notin DOMAIN noted
    /\ "oracle" \in DOMAIN noted =>
          /\ noted["oracle"].last_slot \in Nat
          /\ noted["oracle"].last_slot <= oracle.last_slot
          /\ noted["oracle"].last_updater # NoKey => updates # <<>>
    /\ {"oracle", "buffer"} \subseteq DOMAIN noted /\ noted["oracle"].last_updater # NoKey =>
          \E n \in 1 .. noted["buffer"].len :
              NthNewest(noted["buffer"], n).slot >= noted["oracle"].last_slot

\* What /twap has read: no slot from the future, and the last one last.
TwapOK ==
    /\ pc \in 1 .. 4
    /\ got = {}
    /\ outcome = "passed" => pc = 4
    /\ Fetched("slot") => fetched["slot"] \in Nat /\ fetched["slot"] <= slot
    /\ pc > 2 => "averagedAt" \in DOMAIN noted
    /\ "averagedAt" \in DOMAIN noted => noted["averagedAt"] \in Nat /\ noted["averagedAt"] <= slot
    /\ pc > 3 => "slot" \in DOMAIN noted /\ noted["slot"] >= noted["averagedAt"]

AnswerInvariant ==
    script \in Public => /\ Structure /\ History /\ RingIsFed
                         /\ script = "inspect" => InspectOK
                         /\ script = "/twap" => TwapOK

LEMMA StepOfInspect ==
    ASSUME script = "inspect", pc \in 1 .. 3
    PROVE  /\ Finished <=> pc = 3
           /\ ~ Finished => Current = Fetches(IF pc = 1 THEN {"oracle"} ELSE {"buffer"})
<1>1. Program(script) = <<Fetches({"oracle"}), Fetches({"buffer"})>>
  BY DEF Program, Inspect
<1>2. Len(Program(script)) = 2
  BY <1>1
<1>3. /\ pc = 1 => Program(script)[pc] = Fetches({"oracle"})
      /\ pc = 2 => Program(script)[pc] = Fetches({"buffer"})
  BY <1>1
<1> QED
  BY <1>2, <1>3 DEF Finished, Current

LEMMA StepOfTwap ==
    ASSUME script = "/twap", pc \in 1 .. 4
    PROVE  /\ Finished <=> pc = 4
           /\ ~ Finished => Current = IF pc = 2 THEN Average(2)
                                      ELSE Fetches(IF pc = 1 THEN {"oracle"} ELSE {"slot"})
<1>1. Program(script) = <<Fetches({"oracle"}), Average(2), Fetches({"slot"})>>
  BY DEF Program, TwapRoute
<1>2. Len(Program(script)) = 3
  BY <1>1
<1>3. /\ pc = 1 => Program(script)[pc] = Fetches({"oracle"})
      /\ pc = 2 => Program(script)[pc] = Average(2)
      /\ pc = 3 => Program(script)[pc] = Fetches({"slot"})
  BY <1>1
<1> QED
  BY <1>2, <1>3 DEF Finished, Current

\* Others and the clock do what any user of the program can.
LEMMA ChainMoves ==
    ASSUME Others \/ Clock
    PROVE  /\ AdvanceSlot \/ (\E c \in Capacities : InitializeOracle(Other, c))
                          \/ (\E p \in Prices : UpdatePrice(Other, p, None))
           /\ Next
           /\ UNCHANGED <<readerVars, scriptVars>>
<1>1. Other \in Users
  BY ScriptsAssumption
<1> QED
  BY <1>1 DEF Others, Clock, Next, Administer, Submit

\* What an update or an initialization leaves to be read.
LEMMA ChainIsFed ==
    ASSUME Structure, History, RingIsFed, Others \/ Clock
    PROVE  /\ Structure' /\ History' /\ RingIsFed'
           /\ slot \in Nat /\ slot' \in Nat /\ slot <= slot'
           /\ updates # <<>> => updates' # <<>>
           /\ oracle.last_slot \in Nat /\ oracle'.last_slot \in Nat
           /\ oracle.last_slot <= oracle'.last_slot
<1>1. Structure' /\ History'
  BY ChainMoves, StructureStep, HistoryStep
<1>2. /\ slot \in Nat /\ slot' \in Nat /\ oracle.last_slot \in Nat /\ oracle'.last_slot \in Nat
      /\ oracle.last_slot <= slot /\ updates \in Seq(UpdateType)
  BY <1>1 DEF Structure, TypeOK, OracleType, History, OracleIsLastUpdate
<1>3. CASE AdvanceSlot
  BY <1>1, <1>2, <1>3 DEF AdvanceSlot, oracleVars, RingIsFed
<1>4. ASSUME NEW c \in Capacities, InitializeOracle(Other, c)
      PROVE  /\ RingIsFed' /\ slot' = slot /\ updates' = <<>> /\ updates = <<>>
             /\ oracle'.last_slot = slot
  <2>1. updates = <<>>
    BY <1>4 DEF InitializeOracle, Structure, Lifecycle
  <2> QED
    BY <1>4, <2>1 DEF InitializeOracle, NewOracle, RingIsFed
<1>5. ASSUME NEW p \in Prices, UpdatePrice(Other, p, None)
      PROVE  /\ RingIsFed' /\ slot' = slot /\ updates' # <<>> /\ oracle'.last_slot = slot
  <2>1. IsRing(buffer, Observations)
    BY <1>5 DEF UpdatePrice, Structure, Lifecycle
  <2>2. oracle'.last_slot = slot /\ slot' = slot
    BY <1>5 DEF UpdatePrice, Accepted, Structure, TypeOK, OracleType
  <2>3. buffer'.len > 0
    <3>1. buffer'.len = IF buffer.len < buffer.capacity THEN buffer.len + 1 ELSE buffer.len
      BY <1>5, <2>1 DEF UpdatePrice, PushObservation, IsRing
    <3> QED
      BY <2>1, <3>1 DEF IsRing
  <2>4. updates' # <<>>
    <3>1. \E e : updates' = Append(updates, e)
      BY <1>5 DEF UpdatePrice
    <3>2. \A e : Append(updates, e) # <<>>
      BY <1>2
    <3> QED
      BY <3>1, <3>2
  <2> QED
    BY <2>2, <2>3, <2>4 DEF RingIsFed
<1> QED
  BY <1>1, <1>2, <1>3, <1>4, <1>5, ChainMoves

\* The newest observation is of the account's update.
LEMMA NewestIsOfAccount ==
    ASSUME Structure, History, RingIsFed, updates # <<>>
    PROVE  buffer.len \in Nat /\ 1 \in 1 .. buffer.len
           /\ NthNewest(buffer, 1).slot = oracle.last_slot
<1>1. buffer.len \in Nat /\ 1 \in 1 .. buffer.len
  BY DEF Structure, TypeOK, BufferType, RingIsFed
<1> QED
  BY <1>1 DEF History, RingHoldsNewestUpdates, OracleIsLastUpdate

LEMMA InspectStep ==
    ASSUME script = "inspect", Structure, History, RingIsFed, InspectOK, Step
    PROVE  UNCHANGED <<vars, script>> /\ InspectOK'
<1>1. /\ pc \in 1 .. 3 /\ (Finished <=> pc = 3)
      /\ ~ Finished => /\ Current.op = "read"
                       /\ Current.names = IF pc = 1 THEN {"oracle"} ELSE {"buffer"}
  <2>1. pc \in 1 .. 3
    BY DEF InspectOK
  <2>2. /\ Finished <=> pc = 3
        /\ ~ Finished => Current = Fetches(IF pc = 1 THEN {"oracle"} ELSE {"buffer"})
    BY <2>1, StepOfInspect
  <2> QED
    BY <2>1, <2>2 DEF Fetches
<1>2. oracle.last_slot \in Nat
  BY DEF Structure, TypeOK, OracleType
<1>3. oracle.last_updater # NoKey => updates # <<>>
  BY DEF History, OracleIsLastUpdate
<1>4. CASE FetchOne
  <2>1. /\ ~ Finished /\ UNCHANGED vars
        /\ UNCHANGED chainVars
    BY <1>4 DEF FetchOne, At, Running, chainVars
  <2>2. CASE pc = 1
    <3>1. \/ Throws("NoAccount") /\ UNCHANGED <<noted, got>>
          \/ noted' = Noted("oracle", oracle) /\ Passed /\ got' = {}
      BY <1>1, <1>4, <2>1, <2>2 DEF FetchOne, OnChain, InspectOK
    <3>2. CASE noted' = Noted("oracle", oracle) /\ Passed /\ got' = {}
      <4>1. DOMAIN noted' = {"oracle"} /\ noted'["oracle"] = oracle /\ pc' = 2
        BY <2>2, <3>2 DEF InspectOK, Noted, Passed
      <4> QED
        BY <1>2, <1>3, <2>1, <3>2, <4>1 DEF InspectOK, Passed, vars, oracleVars
    <3> QED
      BY <2>1, <3>1, <3>2 DEF InspectOK, Throws, vars, oracleVars
  <2>3. CASE pc = 2
    <3>1. \/ Throws("NoAccount") /\ UNCHANGED <<noted, got>>
          \/ noted' = Noted("buffer", buffer) /\ Passed /\ got' = {}
      BY <1>1, <1>4, <2>1, <2>3 DEF FetchOne, OnChain, InspectOK
    <3>2. CASE noted' = Noted("buffer", buffer) /\ Passed /\ got' = {}
      <4>1. /\ DOMAIN noted' = DOMAIN noted \cup {"buffer"}
            /\ noted'["buffer"] = buffer /\ pc' = 3
            /\ "oracle" \in DOMAIN noted => noted'["oracle"] = noted["oracle"]
        BY <2>3, <3>2 DEF Noted, Passed
      <4>2. "oracle" \in DOMAIN noted /\ noted["oracle"].last_updater # NoKey =>
               /\ 1 \in 1 .. buffer.len
               /\ NthNewest(buffer, 1).slot >= noted["oracle"].last_slot
        BY <1>2, NewestIsOfAccount DEF InspectOK
      <4>3. ("oracle" \in DOMAIN noted)' => "oracle" \in DOMAIN noted
        BY <4>1
      <4> QED
        BY <2>1, <3>2, <4>1, <4>2, <4>3 DEF InspectOK, Passed, vars, oracleVars
    <3> QED
      BY <2>1, <3>1, <3>2 DEF InspectOK, Throws, vars, oracleVars
  <2> QED
    BY <1>1, <2>1, <2>2, <2>3
<1>5. CASE RpcFails \/ Ends
  BY <1>5 DEF RpcFails, Ends, Throws, InspectOK, chainVars, vars, oracleVars
<1>6. CASE RpcFailsInTry
  <2>1. WaitsInTry
    BY <1>1, <1>6 DEF RpcFailsInTry, At, Running
  <2> QED
    BY <1>1, <2>1 DEF WaitsInTry, At, Running
<1>7. Step => FetchOne \/ RpcFails \/ Ends \/ RpcFailsInTry
  BY <1>1 DEF Step, StartWaiting, StopWaiting, SendInitialize, SendUpdate, ExpectRefusal,
              SimulateGetSwap, StartAverage, Fetch, FetchMissing, GetAverage, ReadEvents,
              At, Running
<1> QED
  BY <1>4, <1>5, <1>6, <1>7

LEMMA TwapStep ==
    ASSUME script = "/twap", Structure, TwapOK, Step
    PROVE  UNCHANGED <<vars, script>> /\ TwapOK'
<1>1. /\ pc \in 1 .. 4 /\ (Finished <=> pc = 4)
      /\ ~ Finished => Current = IF pc = 2 THEN Average(2)
                                 ELSE Fetches(IF pc = 1 THEN {"oracle"} ELSE {"slot"})
  <2>1. pc \in 1 .. 4
    BY DEF TwapOK
  <2> QED
    BY <2>1, StepOfTwap
<1>2. /\ pc = 2 => Current.op = "average" /\ Current.window = 2
      /\ pc = 1 => Current.op = "read" /\ Current.names = {"oracle"}
      /\ pc = 3 => Current.op = "read" /\ Current.names = {"slot"}
  BY <1>1 DEF Average, Fetches
<1>3. slot \in Nat
  BY DEF Structure, TypeOK
<1>4. ASSUME UNCHANGED <<vars, readerVars, script, noted, got>>, NEW e, Throws(e), e # "passed"
      PROVE  UNCHANGED <<vars, script>> /\ TwapOK'
  BY <1>4 DEF Throws, TwapOK, Fetched, vars, readerVars
<1>5. ASSUME UNCHANGED <<vars, script, got, noted, pc, outcome>>,
             Fetched("slot")' => \/ fetched' = fetched
                                 \/ fetched'["slot"] = fetched["slot"] /\ Fetched("slot")
                                 \/ fetched'["slot"] = slot
      PROVE  TwapOK'
  BY <1>3, <1>5 DEF TwapOK, Fetched, vars
<1>6. CASE FetchOne
  <2>1. ~ Finished /\ UNCHANGED <<vars, readerVars>> /\ pc \in {1, 3}
    BY <1>1, <1>2, <1>6 DEF FetchOne, At, Running, chainVars
  <2> DEFINE name == IF pc = 1 THEN "oracle" ELSE "slot"
  <2>2. Current.names = {name}
    BY <1>2, <2>1
  <2>3. \/ Throws("NoAccount") /\ UNCHANGED <<noted, got>>
        \/ noted' = Noted(name, OnChain(name)) /\ Passed /\ got' = {}
    BY <1>6, <2>2 DEF FetchOne, TwapOK
  <2>4. CASE Throws("NoAccount") /\ UNCHANGED <<noted, got>>
    <3>1. script' = script
      BY <2>4 DEF Throws
    <3> QED
      BY <1>4, <2>1, <2>4, <3>1
  <2>5. CASE pc = 1 /\ noted' = Noted("oracle", OnChain("oracle")) /\ Passed /\ got' = {}
    <3>1. ("averagedAt" \in DOMAIN noted)' <=> "averagedAt" \in DOMAIN noted
      BY <2>5 DEF Noted
    <3>2. "averagedAt" \in DOMAIN noted => noted'["averagedAt"] = noted["averagedAt"]
      BY <2>5 DEF Noted
    <3> QED
      BY <2>1, <2>5, <3>1, <3>2 DEF Passed, TwapOK, Fetched, vars, readerVars
  <2>6. CASE pc = 3 /\ noted' = Noted("slot", slot) /\ Passed /\ got' = {}
    <3>1. /\ DOMAIN noted' = DOMAIN noted \cup {"slot"} /\ noted'["slot"] = slot
          /\ "averagedAt" \in DOMAIN noted
          /\ noted'["averagedAt"] = noted["averagedAt"]
      BY <2>6 DEF Noted, TwapOK
    <3> QED
      BY <1>3, <2>1, <2>6, <3>1 DEF Passed, TwapOK, Fetched, vars, readerVars
  <2> QED
    BY <2>1, <2>3, <2>4, <2>5, <2>6 DEF OnChain
<1>7. CASE StartAverage
  <2>1. pc = 2 /\ Current.window = 2
    BY <1>1, <1>2, <1>7 DEF StartAverage, At, Running
  <2>2. WindowOf(Current) = 2
    BY <2>1, WindowIsGivenAssumption DEF WindowOf, SinceFirst
  <2>3. UNCHANGED <<vars, fetched, scriptVars>>
    BY <1>7, <2>2 DEF StartAverage
  <2> QED
    BY <1>5, <2>3 DEF scriptVars
<1>8. CASE Fetch
  <2>1. UNCHANGED <<vars, scriptVars>> /\ (FetchOracle \/ FetchObservationBuffer \/ GetSlot)
    BY <1>8 DEF Fetch
  <2>2. Fetched("slot")' => \/ fetched'["slot"] = fetched["slot"] /\ Fetched("slot")
                            \/ fetched'["slot"] = slot
    BY <2>1 DEF FetchOracle, FetchObservationBuffer, GetSlot, Receive, Fetched
  <2> QED
    BY <1>5, <2>1, <2>2 DEF scriptVars
<1>9. CASE FetchMissing
  <2>1. Throws("NoAccount") /\ UNCHANGED <<vars, readerVars, noted, got>>
    BY <1>9 DEF FetchMissing, chainVars
  <2>2. script' = script
    BY <2>1 DEF Throws
  <2> QED
    BY <1>4, <2>1, <2>2
<1>10. CASE GetAverage
  <2>1. pc = 2 /\ Answered /\ UNCHANGED <<vars, got>>
    BY <1>1, <1>2, <1>10 DEF GetAverage, At, Running
  <2>2. Answer.error # "passed"
    BY DEF Answer, ComputeSwapFrom, ComputeSwapBN, Fails, Ok
  <2>3. CASE Answer.error = "none"
    <3>1. Passed /\ noted' = Noted("averagedAt", fetched["slot"]) /\ fetched' = <<>>
      BY <1>10, <2>3 DEF GetAverage
    <3>2. fetched["slot"] \in Nat /\ fetched["slot"] <= slot
      BY <2>1 DEF Answered, Requests, TwapOK
    <3>3. /\ DOMAIN noted' = DOMAIN noted \cup {"averagedAt"}
          /\ noted'["averagedAt"] = fetched["slot"]
      BY <3>1 DEF Noted
    <3>4. pc' = 3 /\ outcome' = outcome /\ script' = script
      BY <2>1, <3>1 DEF Passed
    <3>5. ~ Fetched("slot")'
      BY <3>1 DEF Fetched
    <3> QED
      BY <1>3, <2>1, <3>2, <3>3, <3>4, <3>5 DEF TwapOK, vars
  <2>4. CASE Answer.error # "none"
    <3>1. Throws(Answer.error) /\ UNCHANGED <<readerVars, noted>>
      BY <1>10, <2>4 DEF GetAverage
    <3>2. script' = script
      BY <3>1 DEF Throws
    <3> QED
      BY <1>4, <2>1, <2>2, <3>1, <3>2
  <2> QED
    BY <2>3, <2>4
<1>11. CASE RpcFails
  <2>1. Throws("rpc") /\ UNCHANGED <<vars, readerVars, noted, got>>
    BY <1>11 DEF RpcFails, chainVars
  <2>2. script' = script
    BY <2>1 DEF Throws
  <2> QED
    BY <1>4, <2>1, <2>2
<1>12. CASE Ends
  <2>1. pc = 4 /\ outcome' = "passed" /\ UNCHANGED <<vars, readerVars, script, pc, noted, got>>
    BY <1>1, <1>12 DEF Ends, chainVars
  <2> QED
    BY <2>1 DEF TwapOK, Fetched, vars, readerVars
<1>13. Step => \/ FetchOne \/ StartAverage \/ Fetch \/ FetchMissing \/ GetAverage
               \/ RpcFails \/ Ends
  <2>1. At("read") \/ At("average") \/ ~ Running
    BY <1>1, <1>2 DEF At, Running
  <2>2. ~ WaitsInTry
    BY <2>1 DEF WaitsInTry, At
  <2> QED
    BY <2>1, <2>2 DEF Step, StartWaiting, StopWaiting, SendInitialize, SendUpdate,
       ExpectRefusal, SimulateGetSwap, ReadEvents, RpcFailsInTry, At
<1> QED
  BY <1>6, <1>7, <1>8, <1>9, <1>10, <1>11, <1>12, <1>13

LEMMA AnswerStep == AnswerInvariant /\ [ScriptNext]_<<chainVars, scriptVars>> => AnswerInvariant'
<1> SUFFICES ASSUME AnswerInvariant, [ScriptNext]_<<chainVars, scriptVars>>, script' \in Public
             PROVE  AnswerInvariant'
  BY DEF AnswerInvariant
<1> USE DEF Public
<1>1. script' = script
  BY DEF ScriptNext, Step, StartWaiting, StopWaiting, SendInitialize, SendUpdate,
         ExpectRefusal, SimulateGetSwap, FetchOne, StartAverage, Fetch, FetchMissing,
         GetAverage, ReadEvents, RpcFails, RpcFailsInTry, Ends, Others, Clock,
         Passed, Complains, Throws, scriptVars
<1>2. /\ Structure /\ History /\ RingIsFed
      /\ script = "inspect" => InspectOK
      /\ script = "/twap" => TwapOK
  BY <1>1 DEF AnswerInvariant
<1>3. ASSUME UNCHANGED vars PROVE Structure' /\ History' /\ RingIsFed'
  <2>1. Structure' /\ History'
    BY <1>2, <1>3, StructureStep, HistoryStep
  <2> QED
    BY <1>2, <1>3, <2>1 DEF RingIsFed, vars, oracleVars
<1>4. CASE Step
  <2>1. /\ script = "inspect" => UNCHANGED vars /\ InspectOK'
        /\ script = "/twap" => UNCHANGED vars /\ TwapOK'
    BY <1>2, <1>4, InspectStep, TwapStep
  <2> QED
    BY <1>1, <1>3, <2>1 DEF AnswerInvariant
<1>5. CASE Others \/ Clock
  <2>1. /\ Structure' /\ History' /\ RingIsFed'
        /\ slot \in Nat /\ slot' \in Nat /\ slot <= slot'
        /\ updates # <<>> => updates' # <<>>
        /\ oracle.last_slot \in Nat /\ oracle'.last_slot \in Nat
        /\ oracle.last_slot <= oracle'.last_slot
    BY <1>2, <1>5, ChainIsFed
  <2>2. UNCHANGED <<call, fetched, script, pc, noted, got, complaints, outcome>>
    BY <1>5, ChainMoves DEF readerVars, scriptVars
  <2>3. script = "inspect" => InspectOK'
    <3>1. ASSUME script = "inspect", "oracle" \in DOMAIN noted
          PROVE  /\ noted["oracle"].last_slot <= oracle'.last_slot
                 /\ noted["oracle"].last_updater # NoKey => updates' # <<>>
      BY <1>2, <2>1, <3>1 DEF InspectOK
    <3> QED
      BY <1>2, <2>2, <3>1 DEF InspectOK
  <2>4. script = "/twap" => TwapOK'
    BY <1>2, <2>1, <2>2 DEF TwapOK, Fetched
  <2> QED
    BY <1>1, <2>1, <2>3, <2>4 DEF AnswerInvariant
<1>6. CASE UNCHANGED <<chainVars, scriptVars>>
  <2>1. UNCHANGED <<vars, fetched, script, pc, noted, got, outcome, oracle, updates, slot>>
    BY <1>6 DEF chainVars, scriptVars, readerVars, vars, oracleVars
  <2> QED
    BY <1>2, <1>3, <2>1 DEF AnswerInvariant, InspectOK, TwapOK, Fetched
<1> QED
  BY <1>4, <1>5, <1>6 DEF ScriptNext

\* Others update between the requests of one answer.  The CLI's inspect never prints a
\* buffer older than the oracle it prints above it, and /twap never dates its average
\* before the slot it was computed for, whatever the other users do.
THEOREM AnswersAreOrdered == ScriptSpec => []LaterPartsAreNotOlder
<1>1. ScriptInit => AnswerInvariant
  <2> SUFFICES ASSUME ScriptInit PROVE AnswerInvariant
    OBVIOUS
  <2>1. Init /\ fetched = <<>> /\ pc = 1 /\ noted = <<>> /\ got = {} /\ outcome = "running"
    BY DEF ScriptInit, ReaderInit, readerInit
  <2>2. Structure /\ History
    BY <2>1, InitStructure, InitHistory
  <2>3. RingIsFed
    BY <2>1 DEF Init, RingIsFed
  <2>4. InspectOK /\ TwapOK
    BY <2>1 DEF InspectOK, TwapOK, Fetched
  <2> QED
    BY <2>2, <2>3, <2>4 DEF AnswerInvariant
<1>2. AnswerInvariant => LaterPartsAreNotOlder
  BY DEF AnswerInvariant, Public, InspectOK, TwapOK, LaterPartsAreNotOlder
<1> QED
  BY <1>1, <1>2, AnswerStep, PTL DEF ScriptSpec

--------------------------------------------------------------------------------
(* The lists of steps of e2e-test.ts and benchmark.ts, entry by entry *)

\* A sequence, whatever its entries are.
IsList(s) == s \in Seq(Range(s))

\* The list u is s and then t.
Joins(u, s, t) ==
    /\ IsList(u)
    /\ Len(s) \in Nat /\ Len(t) \in Nat
    /\ Len(u) = Len(s) + Len(t)
    /\ \A k \in 1 .. Len(s) : u[k] = s[k]
    /\ \A k \in 1 .. Len(t) : u[Len(s) + k] = t[k]

LEMMA Joined ==
    ASSUME NEW s, NEW t, IsList(s), IsList(t)
    PROVE  Joins(s \o t, s, t)
<1> DEFINE S == Range(s) \cup Range(t)
           u == s \o t
<1>1. s \in Seq(S) /\ t \in Seq(S)
  BY DEF IsList
<1>2. Len(s) \in Nat /\ Len(t) \in Nat
  BY <1>1
<1>3. /\ u \in Seq(S) /\ Len(u) = Len(s) + Len(t)
      /\ \A k \in 1 .. Len(s) + Len(t) : u[k] = IF k <= Len(s) THEN s[k] ELSE t[k - Len(s)]
  BY <1>1, ConcatProperties
<1> HIDE DEF u, S
<1>4. IsList(u)
  <2>1. DOMAIN u = 1 .. Len(u) /\ u = [k \in 1 .. Len(u) |-> u[k]] /\ Len(u) \in Nat
    BY <1>3
  <2>2. u \in [1 .. Len(u) -> Range(u)]
    BY <2>1 DEF Range
  <2> QED
    BY <2>1, <2>2 DEF IsList
<1>5. \A k \in 1 .. Len(s) : u[k] = s[k]
  BY <1>2, <1>3
<1>6. ASSUME NEW k \in 1 .. Len(t) PROVE u[Len(s) + k] = t[k]
  <2>1. Len(s) + k \in 1 .. Len(s) + Len(t) /\ ~ (Len(s) + k <= Len(s)) /\ (Len(s) + k) - Len(s) = k
    BY <1>2
  <2> QED
    BY <1>3, <2>1
<1> QED
  BY <1>2, <1>3, <1>4, <1>5, <1>6 DEF u, Joins

LEMMA ListOfSteps ==
    ASSUME NEW n \in Nat, NEW s, DOMAIN s = 1 .. n, s = [k \in 1 .. n |-> s[k]]
    PROVE  IsList(s) /\ Len(s) = n
<1>1. s \in [1 .. n -> Range(s)]
  BY DEF Range
<1> HIDE DEF Range
<1> QED
  BY <1>1 DEF IsList

LEMMA WaitedUpdatesAre ==
    ASSUME NEW prices, Len(prices) \in Nat
    PROVE  /\ IsList(WaitedUpdates(prices))
           /\ Len(WaitedUpdates(prices)) = 2 * Len(prices)
           /\ \A i \in 1 .. Len(prices) :
                 /\ WaitedUpdates(prices)[2 * i - 1] = Wait
                 /\ WaitedUpdates(prices)[2 * i] = Update(Payer, prices[i])
<1> DEFINE w == WaitedUpdates(prices)
           n == Len(prices)
<1>1. w = [k \in 1 .. 2 * n |-> IF k % 2 = 1 THEN Wait ELSE Update(Payer, prices[k \div 2])]
  BY DEF WaitedUpdates
<1>2. 2 * n \in Nat /\ DOMAIN w = 1 .. 2 * n /\ w = [k \in 1 .. 2 * n |-> w[k]]
  BY <1>1
<1>3. ASSUME NEW i \in 1 .. n
      PROVE  w[2 * i - 1] = Wait /\ w[2 * i] = Update(Payer, prices[i])
  <2>1. 2 * i - 1 \in 1 .. 2 * n /\ 2 * i \in 1 .. 2 * n
    OBVIOUS
  <2>2. (2 * i - 1) % 2 = 1 /\ (2 * i) % 2 = 0 /\ (2 * i) \div 2 = i
    OBVIOUS
  <2> QED
    BY <1>1, <2>1, <2>2
<1> HIDE DEF w
<1>4. IsList(w) /\ Len(w) = 2 * n
  BY <1>2, ListOfSteps
<1> QED
  BY <1>3, <1>4 DEF w

LEMMA TimesAre ==
    ASSUME NEW n \in Nat, NEW step
    PROVE  /\ IsList(Times(n, step)) /\ Len(Times(n, step)) = n
           /\ \A k \in 1 .. n : Times(n, step)[k] = step
<1> DEFINE t == Times(n, step)
<1>1. DOMAIN t = 1 .. n /\ t = [k \in 1 .. n |-> t[k]] /\ \A k \in 1 .. n : t[k] = step
  BY DEF Times
<1> HIDE DEF t
<1> QED
  BY <1>1, ListOfSteps DEF t

\* The list u is s and then n equal steps.
Extends(u, s, n, step) ==
    /\ IsList(u)
    /\ Len(s) \in Nat
    /\ Len(u) = Len(s) + n
    /\ \A k \in 1 .. Len(s) : u[k] = s[k]
    /\ \A k \in Len(s) + 1 .. Len(s) + n : u[k] = step

LEMMA Repeated ==
    ASSUME NEW s, IsList(s), NEW n \in Nat, NEW step
    PROVE  Extends(s \o Times(n, step), s, n, step)
<1> DEFINE t == Times(n, step)
           u == s \o t
<1>1. IsList(t) /\ Len(t) = n /\ \A k \in 1 .. n : t[k] = step
  BY TimesAre
<1> HIDE DEF t
<1>2. /\ IsList(u) /\ Len(s) \in Nat /\ Len(u) = Len(s) + n
      /\ \A k \in 1 .. Len(s) : u[k] = s[k]
      /\ \A k \in 1 .. n : u[Len(s) + k] = t[k]
  BY <1>1, Joined DEF Joins
<1> HIDE DEF u
<1>3. ASSUME NEW k \in Len(s) + 1 .. Len(s) + n PROVE u[k] = step
  <2>1. k - Len(s) \in 1 .. n /\ Len(s) + (k - Len(s)) = k
    BY <1>2
  <2> QED
    BY <1>1, <1>2, <2>1
<1> QED
  BY <1>2, <1>3 DEF t, u, Extends

LEMMA StepsOfE2e ==
    /\ Len(E2eTest) = 22
    /\ E2eTest[1] = Initialize(32)
    /\ \A k \in 1 .. 5 : /\ E2eTest[2 * k] = Wait
                         /\ \E p \in 100 .. 110 : E2eTest[2 * k + 1] = Update(Payer, p)
    /\ E2eTest[12] = Fetches({"buffer"}) /\ E2eTest[13] = Fetches({"slot"})
    /\ E2eTest[14] = Average(SinceFirst)
    /\ E2eTest[15] = Wait /\ E2eTest[16] = Update(Other, 101) /\ E2eTest[17] = ParseEvents
    /\ E2eTest[18] = Wait /\ E2eTest[19] = Wait
    /\ E2eTest[20] = Refused(Simulate(3, 1), "StaleOracle")
    /\ E2eTest[21] = Wait /\ E2eTest[22] = Refused(Update(Payer, 200), "PriceDeviationTooLarge")
<1> DEFINE first == <<Initialize(32)>>
           sent == WaitedUpdates(E2ePrices)
           last == <<Fetches({"buffer"}), Fetches({"slot"}), Average(SinceFirst),
                     Wait, Update(Other, 101), ParseEvents,
                     Wait, Wait, Refused(Simulate(3, 1), "StaleOracle"),
                     Wait, Refused(Update(Payer, 200), "PriceDeviationTooLarge")>>
<1>1. /\ Len(E2ePrices) = 5
      /\ \A k \in 1 .. 5 : E2ePrices[k] \in 100 .. 110
  BY DEF E2ePrices
<1>2. E2eTest = (first \o sent) \o last
  BY DEF E2eTest
<1>3. IsList(first) /\ Len(first) = 1 /\ first[1] = Initialize(32)
  BY DEF IsList, Range
<1>4. /\ Len(last) = 11
      /\ last[1] = Fetches({"buffer"}) /\ last[2] = Fetches({"slot"})
      /\ last[3] = Average(SinceFirst) /\ last[4] = Wait
      /\ last[5] = Update(Other, 101) /\ last[6] = ParseEvents /\ last[7] = Wait
      /\ last[8] = Wait /\ last[9] = Refused(Simulate(3, 1), "StaleOracle")
      /\ last[10] = Wait /\ last[11] = Refused(Update(Payer, 200), "PriceDeviationTooLarge")
  OBVIOUS
<1>5. IsList(last)
  <2>1. DOMAIN last = 1 .. 11 /\ last = [k \in 1 .. 11 |-> last[k]]
    OBVIOUS
  <2> HIDE DEF last
  <2> QED
    BY <2>1, ListOfSteps
<1> HIDE DEF last
<1>6. /\ IsList(sent) /\ Len(sent) = 10
      /\ \A i \in 1 .. 5 : sent[2 * i - 1] = Wait /\ sent[2 * i] = Update(Payer, E2ePrices[i])
  <2>1. Len(E2ePrices) = 5 /\ 5 \in Nat
    BY <1>1
  <2>2. /\ IsList(sent) /\ Len(sent) = 2 * Len(E2ePrices)
        /\ \A i \in 1 .. Len(E2ePrices) :
              sent[2 * i - 1] = Wait /\ sent[2 * i] = Update(Payer, E2ePrices[i])
    BY <2>1, WaitedUpdatesAre
  <2> HIDE DEF sent
  <2> QED
    BY <2>1, <2>2
<1> HIDE DEF first, sent
<1> DEFINE ahead == first \o sent
<1>0. ahead = first \o sent
  OBVIOUS
<1> HIDE DEF ahead
<1>7. /\ IsList(ahead) /\ Len(ahead) = Len(first) + Len(sent)
      /\ \A k \in 1 .. Len(first) : ahead[k] = first[k]
      /\ \A k \in 1 .. Len(sent) : ahead[Len(first) + k] = sent[k]
  <2>1. Joins(ahead, first, sent)
    BY <1>0, <1>3, <1>6, Joined
  <2> QED
    BY <2>1 DEF Joins
<1>8. /\ Len(E2eTest) = Len(ahead) + Len(last)
      /\ \A k \in 1 .. Len(ahead) : E2eTest[k] = ahead[k]
      /\ \A k \in 1 .. Len(last) : E2eTest[Len(ahead) + k] = last[k]
  <2>1. E2eTest = ahead \o last
    BY <1>0, <1>2
  <2> QED
    <3>1. Joins(E2eTest, ahead, last)
      BY <1>5, <1>7, <2>1, Joined
    <3> QED
      BY <3>1 DEF Joins
<1>9. ASSUME NEW i \in 1 .. 5
      PROVE  /\ E2eTest[2 * i] = Wait
             /\ \E p \in 100 .. 110 : E2eTest[2 * i + 1] = Update(Payer, p)
  <2>1. /\ 2 * i \in 1 .. 11 /\ 2 * i + 1 \in 1 .. 11
        /\ 1 + (2 * i - 1) = 2 * i /\ 1 + 2 * i = 2 * i + 1
        /\ 2 * i - 1 \in 1 .. 10 /\ 2 * i \in 1 .. 10
    OBVIOUS
  <2>2. E2eTest[2 * i] = sent[2 * i - 1] /\ E2eTest[2 * i + 1] = sent[2 * i]
    BY <1>3, <1>6, <1>7, <1>8, <2>1
  <2> QED
    BY <1>1, <1>6, <2>2
<1>10. /\ Len(E2eTest) = 22 /\ E2eTest[1] = first[1]
       /\ \A k \in 1 .. 11 : E2eTest[11 + k] = last[k]
  <2>1. Len(ahead) = 11 /\ Len(last) = 11 /\ Len(first) = 1
    BY <1>3, <1>4, <1>6, <1>7
  <2>2. 1 \in 1 .. Len(ahead) /\ 1 \in 1 .. Len(first)
    BY <2>1
  <2>3. E2eTest[1] = first[1]
    BY <1>7, <1>8, <2>2
  <2> QED
    BY <1>8, <2>1, <2>3
<1> QED
  BY <1>3, <1>4, <1>9, <1>10

\* The steps of benchmark.ts up to its last timed update.
TimedUpdates == 2 * Iterations + 1

LEMMA StepsOfBenchmark ==
    /\ Len(Benchmark) = TimedUpdates + 4 * Repeats + 2
    /\ Benchmark[1] = Initialize(64)
    /\ \A i \in 1 .. Iterations :
          /\ Benchmark[2 * i] = Wait
          /\ \E p \in 100 .. 110 : Benchmark[2 * i + 1] = Update(Payer, p)
    /\ \A k \in TimedUpdates + 1 .. TimedUpdates + Repeats : Benchmark[k].op = "getSwap"
    /\ \A k \in TimedUpdates + Repeats + 1 .. TimedUpdates + 2 * Repeats :
          Benchmark[k] = Average(5)
    /\ \A k \in TimedUpdates + 2 * Repeats + 1 .. TimedUpdates + 3 * Repeats :
          Benchmark[k] = Fetches({"oracle"})
    /\ Benchmark[TimedUpdates + 3 * Repeats + 1] = Wait
    /\ Benchmark[TimedUpdates + 3 * Repeats + 2] = Update(Payer, 100)
    /\ \A k \in TimedUpdates + 3 * Repeats + 3 .. TimedUpdates + 4 * Repeats + 2 :
          Benchmark[k] = ParseEvents
<1> DEFINE n == TimedUpdates
           first == <<Initialize(64)>>
           prices == [i \in 1 .. Iterations |-> IF i % 2 = 1 THEN 105 ELSE 100]
           sent == WaitedUpdates(prices)
           last == <<Wait, Update(Payer, 100)>>
           b1 == first \o sent
           timed == Simulate(5, 1000000)
           b2 == b1 \o Times(Repeats, timed)
           b3 == b2 \o Times(Repeats, Average(5))
           b4 == b3 \o Times(Repeats, Fetches({"oracle"}))
           b5 == b4 \o last
<1>1. Iterations \in Nat /\ Repeats \in Nat /\ n = 2 * Iterations + 1
  BY ScriptsAssumption DEF TimedUpdates
<1>2. Len(prices) = Iterations /\ \A i \in 1 .. Iterations : prices[i] \in 100 .. 110
  BY <1>1
<1>3. IsList(first) /\ Len(first) = 1 /\ first[1] = Initialize(64)
  BY DEF IsList, Range
<1>4. IsList(last) /\ Len(last) = 2 /\ last[1] = Wait /\ last[2] = Update(Payer, 100)
  <2>1. DOMAIN last = 1 .. 2 /\ last = [k \in 1 .. 2 |-> last[k]]
    OBVIOUS
  <2>2. Len(last) = 2 /\ last[1] = Wait /\ last[2] = Update(Payer, 100)
    OBVIOUS
  <2> HIDE DEF last
  <2> QED
    BY <2>1, <2>2, ListOfSteps
<1>5. Benchmark = b5 \o Times(Repeats, ParseEvents)
  BY DEF Benchmark
<1>0. timed.op = "getSwap"
  BY DEF Simulate
<1> HIDE DEF prices, first, last, n, timed
<1>6. /\ IsList(sent) /\ Len(sent) = 2 * Iterations
      /\ \A i \in 1 .. Iterations :
            sent[2 * i - 1] = Wait /\ sent[2 * i] = Update(Payer, prices[i])
  BY <1>1, <1>2, WaitedUpdatesAre
<1> HIDE DEF sent
<1>7. /\ IsList(b1) /\ Len(b1) = n /\ b1[1] = Initialize(64)
      /\ \A k \in 1 .. 2 * Iterations : b1[1 + k] = sent[k]
  <2>1. /\ IsList(b1) /\ Len(b1) = Len(first) + Len(sent)
        /\ \A k \in 1 .. Len(first) : b1[k] = first[k]
        /\ \A k \in 1 .. Len(sent) : b1[Len(first) + k] = sent[k]
    <3>1. Joins(b1, first, sent)
      BY <1>3, <1>6, Joined
    <3> HIDE DEF b1
    <3> QED
      BY <3>1 DEF Joins
  <2> HIDE DEF b1
  <2> QED
    BY <1>1, <1>3, <1>6, <2>1
<1> HIDE DEF b1
<1>8. /\ IsList(b2) /\ Len(b2) = n + Repeats
      /\ \A k \in 1 .. n : b2[k] = b1[k]
      /\ \A k \in n + 1 .. n + Repeats : b2[k] = timed
  <2>1. Extends(b2, b1, Repeats, timed)
    BY <1>1, <1>7, Repeated
  <2> HIDE DEF b2
  <2> QED
    BY <1>7, <2>1 DEF Extends
<1> HIDE DEF b2
<1>9. /\ IsList(b3) /\ Len(b3) = n + 2 * Repeats
      /\ \A k \in 1 .. n + Repeats : b3[k] = b2[k]
      /\ \A k \in n + Repeats + 1 .. n + 2 * Repeats : b3[k] = Average(5)
  <2>1. /\ IsList(b3) /\ Len(b3) = Len(b2) + Repeats
        /\ \A k \in 1 .. Len(b2) : b3[k] = b2[k]
        /\ \A k \in Len(b2) + 1 .. Len(b2) + Repeats : b3[k] = Average(5)
    <3>1. Extends(b3, b2, Repeats, Average(5))
      BY <1>1, <1>8, Repeated
    <3> HIDE DEF b3
    <3> QED
      BY <3>1 DEF Extends
  <2> HIDE DEF b3
  <2>2. Len(b2) + Repeats = n + 2 * Repeats
    BY <1>1, <1>8
  <2> QED
    BY <1>8, <2>1, <2>2
<1> HIDE DEF b3
<1>10. /\ IsList(b4) /\ Len(b4) = n + 3 * Repeats
       /\ \A k \in 1 .. n + 2 * Repeats : b4[k] = b3[k]
       /\ \A k \in n + 2 * Repeats + 1 .. n + 3 * Repeats : b4[k] = Fetches({"oracle"})
  <2>1. /\ IsList(b4) /\ Len(b4) = Len(b3) + Repeats
        /\ \A k \in 1 .. Len(b3) : b4[k] = b3[k]
        /\ \A k \in Len(b3) + 1 .. Len(b3) + Repeats : b4[k] = Fetches({"oracle"})
    <3>1. Extends(b4, b3, Repeats, Fetches({"oracle"}))
      BY <1>1, <1>9, Repeated
    <3> HIDE DEF b4
    <3> QED
      BY <3>1 DEF Extends
  <2> HIDE DEF b4
  <2>2. Len(b3) + Repeats = n + 3 * Repeats
    BY <1>1, <1>9
  <2> QED
    BY <1>9, <2>1, <2>2
<1> HIDE DEF b4
<1>11. /\ IsList(b5) /\ Len(b5) = n + 3 * Repeats + 2
       /\ \A k \in 1 .. n + 3 * Repeats : b5[k] = b4[k]
       /\ b5[n + 3 * Repeats + 1] = Wait /\ b5[n + 3 * Repeats + 2] = Update(Payer, 100)
  <2>1. /\ IsList(b5) /\ Len(b5) = Len(b4) + Len(last)
        /\ \A k \in 1 .. Len(b4) : b5[k] = b4[k]
        /\ \A k \in 1 .. Len(last) : b5[Len(b4) + k] = last[k]
    <3>1. Joins(b5, b4, last)
      BY <1>4, <1>10, Joined
    <3> HIDE DEF b5
    <3> QED
      BY <3>1 DEF Joins
  <2> HIDE DEF b5
  <2> QED
    BY <1>1, <1>4, <1>10, <2>1
<1> HIDE DEF b5
<1>12. /\ Len(Benchmark) = n + 4 * Repeats + 2
       /\ \A k \in 1 .. n + 3 * Repeats + 2 : Benchmark[k] = b5[k]
       /\ \A k \in n + 3 * Repeats + 3 .. n + 4 * Repeats + 2 : Benchmark[k] = ParseEvents
  <2>1. /\ Len(Benchmark) = Len(b5) + Repeats
        /\ \A k \in 1 .. Len(b5) : Benchmark[k] = b5[k]
        /\ \A k \in Len(b5) + 1 .. Len(b5) + Repeats : Benchmark[k] = ParseEvents
    <3>1. Extends(Benchmark, b5, Repeats, ParseEvents)
      BY <1>1, <1>5, <1>11, Repeated
    <3> QED
      BY <3>1 DEF Extends
  <2>2. /\ Len(b5) + Repeats = n + 4 * Repeats + 2
        /\ Len(b5) + 1 = n + 3 * Repeats + 3
    BY <1>1, <1>11
  <2> QED
    BY <1>11, <2>1, <2>2
<1>13. n \in Nat
  BY <1>1
<1>14. /\ \A k \in 1 .. n : Benchmark[k] = b1[k]
       /\ \A k \in n + 1 .. n + Repeats : Benchmark[k] = timed
       /\ \A k \in n + Repeats + 1 .. n + 2 * Repeats : Benchmark[k] = Average(5)
       /\ \A k \in n + 2 * Repeats + 1 .. n + 3 * Repeats : Benchmark[k] = Fetches({"oracle"})
       /\ Benchmark[n + 3 * Repeats + 1] = Wait
       /\ Benchmark[n + 3 * Repeats + 2] = Update(Payer, 100)
  <2>1. \A k \in 1 .. n : Benchmark[k] = b1[k]
    BY <1>1, <1>8, <1>9, <1>10, <1>11, <1>12, <1>13
  <2>2. \A k \in n + 1 .. n + Repeats : Benchmark[k] = timed
    BY <1>1, <1>8, <1>9, <1>10, <1>11, <1>12, <1>13
  <2>3. \A k \in n + Repeats + 1 .. n + 2 * Repeats : Benchmark[k] = Average(5)
    <3> SUFFICES ASSUME NEW k \in n + Repeats + 1 .. n + 2 * Repeats
                 PROVE  Benchmark[k] = Average(5)
      OBVIOUS
    <3>1. k \in 1 .. n + 2 * Repeats /\ k \in 1 .. n + 3 * Repeats /\ k \in 1 .. n + 3 * Repeats + 2
      BY <1>1, <1>13
    <3>2. Benchmark[k] = b3[k]
      BY <1>10, <1>11, <1>12, <3>1
    <3> QED
      BY <1>9, <3>2
  <2>4. \A k \in n + 2 * Repeats + 1 .. n + 3 * Repeats : Benchmark[k] = Fetches({"oracle"})
    BY <1>1, <1>10, <1>11, <1>12, <1>13
  <2>5. /\ Benchmark[n + 3 * Repeats + 1] = Wait
        /\ Benchmark[n + 3 * Repeats + 2] = Update(Payer, 100)
    BY <1>1, <1>11, <1>12, <1>13
  <2> QED
    BY <2>1, <2>2, <2>3, <2>4, <2>5
<1>15. ASSUME NEW i \in 1 .. Iterations
       PROVE  /\ Benchmark[2 * i] = Wait
              /\ \E p \in 100 .. 110 : Benchmark[2 * i + 1] = Update(Payer, p)
  <2>1. /\ 2 * i \in 1 .. n /\ 2 * i + 1 \in 1 .. n
        /\ 1 + (2 * i - 1) = 2 * i /\ 1 + 2 * i = 2 * i + 1
        /\ 2 * i - 1 \in 1 .. 2 * Iterations /\ 2 * i \in 1 .. 2 * Iterations
    BY <1>1
  <2>2. Benchmark[2 * i] = sent[2 * i - 1] /\ Benchmark[2 * i + 1] = sent[2 * i]
    BY <1>7, <1>14, <2>1
  <2> QED
    BY <1>2, <1>6, <2>2
<1>16. Benchmark[1] = Initialize(64)
  BY <1>1, <1>7, <1>14, <1>13
<1> QED
  BY <1>0, <1>12, <1>14, <1>15, <1>16 DEF n

--------------------------------------------------------------------------------
(* These two on a validator of their own: what they rely on, and why it holds *)

\* What the oracle of a script's validator is, once it is initialized.
ScriptOracle == [owner             : Users,
                 pending_owner     : {NoKey},
                 last_price        : {0} \cup 100 .. 110,
                 cumulative_price  : Nat,
                 last_slot         : Nat,
                 last_updater      : Users \cup {NoKey},
                 paused            : {FALSE},
                 max_deviation_bps : {DEFAULT_DEVIATION_BPS}]

ScriptObservation == [slot : Nat, cumulative_price : Nat]
ScriptUpdate == [slot : Nat, price : Nat, cumulative_price : Nat, updater : Users]

\* More entries than a script makes updates while it reads them, so that the oldest of
\* e2e-test.ts stays at index 0.
ScriptCapacity == IF script = "e2e-test" THEN 32 ELSE 64

\* The oracle and its ring, after updates in slots of their own.
ScriptChain ==
    /\ OracleExists
    /\ oracle \in ScriptOracle
    /\ oracle.last_slot <= slot
    /\ oracle.cumulative_price <= 110 * oracle.last_slot
    /\ IsRing(buffer, ScriptObservation)
    /\ buffer.capacity = ScriptCapacity
    /\ buffer.len = Smaller(buffer.capacity, Len(updates))
    /\ updates # <<>> => /\ updates[Len(updates)].slot = oracle.last_slot
                         /\ oracle.last_price # 0
    /\ \A a \in 1 .. buffer.len : NthNewest(buffer, a).slot + a - 1 <= oracle.last_slot

\* The updates a script has sent before its k-th step.
SentBefore(k) ==
    IF k = 1 THEN 0
    ELSE IF script = "e2e-test"
    THEN IF k < 12 THEN (k - 2) \div 2 ELSE IF k < 17 THEN 5 ELSE 6
    ELSE IF k <= 2 * Iterations + 1 THEN (k - 2) \div 2
         ELSE IF k <= 2 * Iterations + 3 * Repeats + 3 THEN Iterations
         ELSE Iterations + 1

\* The k-th step is there and is a wait.
IsWait(k) == k \in 1 .. Len(Program(script)) /\ Program(script)[k].op = "wait"

\* A wait that is over has left the last update behind, two of them by two slots.
ScriptWaits ==
    /\ "waitingFor" \in DOMAIN noted =>
          /\ IsWait(pc)
          /\ noted["waitingFor"] \in Nat
          /\ oracle.last_slot <= noted["waitingFor"]
          /\ IsWait(pc - 1) => oracle.last_slot < noted["waitingFor"]
    /\ IsWait(pc - 1) => oracle.last_slot < slot
    /\ IsWait(pc - 1) /\ IsWait(pc - 2) => oracle.last_slot + 1 < slot

\* The slot after which e2e-test.ts's first query may be computed, the last update's for
\* the others.
QueriedFrom == IF script = "e2e-test" THEN noted["slot"] ELSE oracle.last_slot

\* What e2e-test.ts computes its window from.
ScriptNotes ==
    script = "e2e-test" =>
        /\ pc \in 13 .. 14 => "buffer" \in DOMAIN noted /\ noted["buffer"] = buffer
        /\ pc = 14 => /\ "slot" \in DOMAIN noted /\ noted["slot"] \in Nat
                      /\ oracle.last_slot <= noted["slot"] /\ noted["slot"] <= slot

\* What a query in flight asks for and has fetched.
ScriptReads ==
    /\ DOMAIN fetched # {} => call # None
    /\ call # None =>
          /\ ~ Finished /\ Current.op = "average"
          /\ call = [windowSlots |-> WindowOf(Current), staleness |-> WindowOf(Current)]
          /\ Fetched("oracle") => fetched["oracle"] = oracle
          /\ Fetched("buffer") => fetched["buffer"] = buffer
          /\ Fetched("slot") => /\ fetched["slot"] \in Nat
                                /\ QueriedFrom <= fetched["slot"] /\ fetched["slot"] <= slot

\* A script of a validator of its own, as long as nothing has stopped it.
ScriptRuns ==
    /\ slot \in Nat /\ (slot = FirstSlot \/ slot <= MaxSlot)
    /\ pc \in 1 .. Len(Program(script)) + 1
    /\ got = {}
    /\ updates \in Seq(ScriptUpdate)
    /\ Len(updates) = SentBefore(pc)
    /\ IF pc = 1 THEN ~ OracleExists ELSE ScriptChain
    /\ ScriptWaits
    /\ ScriptNotes
    /\ ScriptReads

\* Nothing changes after the end: what stopped the script is still to be seen.
ScriptInvariant ==
    /\ script \in Scripts
    /\ pc \in Nat \ {0}
    /\ script \in Private /\ outcome = "running" => ScriptRuns
    /\ OnlyDelayStopsScripts
    /\ RefusalsAreTheExpectedOnes

\* What the k-th step of such a script can be.
ScriptedStep(k, step) ==
    IF k = 1 THEN step = Initialize(ScriptCapacity)
    ELSE \/ step = Wait
         \/ IsWait(k - 1) /\ \E by \in {Payer, Other}, p \in 100 .. 110 : step = Update(by, p)
         \/ script = "benchmark" /\ step.op = "getSwap"
         \/ script = "benchmark" /\ step = Fetches({"oracle"})
         \/ script = "benchmark" /\ step = Average(5) /\ SentBefore(k) = Iterations
         \/ script = "e2e-test" /\ k = 12 /\ step = Fetches({"buffer"})
         \/ script = "e2e-test" /\ k = 13 /\ step = Fetches({"slot"})
         \/ script = "e2e-test" /\ k = 14 /\ step = Average(SinceFirst)
         \/ step = ParseEvents
         \/ /\ script = "e2e-test" /\ k = 20
            /\ step = Refused(Simulate(3, 1), "StaleOracle")
            /\ IsWait(19) /\ IsWait(18)
         \/ /\ script = "e2e-test" /\ k = 22
            /\ step = Refused(Update(Payer, 200), "PriceDeviationTooLarge")
            /\ IsWait(21)

\* The k-th step is what the scripts do, and is counted when it is an update.
StepIsScripted(k) ==
    /\ ScriptedStep(k, Program(script)[k])
    /\ SentBefore(k) \in Nat
    /\ SentBefore(k + 1) =
          IF Program(script)[k].op = "update" THEN SentBefore(k) + 1 ELSE SentBefore(k)

\* Every number from 2 to 2 n + 1 is twice one from 1 to n, or one more.
LEMMA HalfOf ==
    ASSUME NEW n \in Nat, NEW k \in 2 .. 2 * n + 1
    PROVE  \E i \in 1 .. n : k = 2 * i \/ k = 2 * i + 1
<1>1. k \div 2 \in 1 .. n /\ (k = 2 * (k \div 2) \/ k = 2 * (k \div 2) + 1)
  OBVIOUS
<1> QED
  BY <1>1

LEMMA StepOfE2e ==
    ASSUME script = "e2e-test"
    PROVE  /\ Len(Program(script)) = 22
           /\ \A k \in 1 .. 22 : StepIsScripted(k)
<1> DEFINE P == Program(script)
<1>1. P = E2eTest
  BY DEF Program
<1>2. Len(P) = 22 /\ ScriptCapacity = 32
  BY <1>1, StepsOfE2e DEF ScriptCapacity
<1>3. /\ Wait.op = "wait" /\ ParseEvents.op = "events"
      /\ \A c : Initialize(c).op = "initialize"
      /\ \A b, p : Update(b, p).op = "update"
      /\ \A n : Fetches(n).op = "read"
      /\ \A w : Average(w).op = "average"
      /\ \A s, e : Refused(s, e).op = "refused"
  BY DEF Wait, Initialize, Update, Fetches, Average, ParseEvents, Refused
<1>4. /\ P[1] = Initialize(32)
      /\ \A i \in 1 .. 5 : /\ P[2 * i] = Wait
                           /\ \E p \in 100 .. 110 : P[2 * i + 1] = Update(Payer, p)
      /\ P[12] = Fetches({"buffer"}) /\ P[13] = Fetches({"slot"}) /\ P[14] = Average(SinceFirst)
      /\ P[15] = Wait /\ P[16] = Update(Other, 101) /\ P[17] = ParseEvents
      /\ P[18] = Wait /\ P[19] = Wait /\ P[20] = Refused(Simulate(3, 1), "StaleOracle")
      /\ P[21] = Wait /\ P[22] = Refused(Update(Payer, 200), "PriceDeviationTooLarge")
  BY <1>1, StepsOfE2e
<1> HIDE DEF P
<1>5. \A k \in 1 .. 22 : IsWait(k) <=> P[k].op = "wait"
  BY <1>2 DEF IsWait, P
<1>6. ASSUME NEW i \in 1 .. 5 PROVE StepIsScripted(2 * i) /\ StepIsScripted(2 * i + 1)
  <2>1. 2 * i \in 1 .. 22 /\ 2 * i > 1 /\ 2 * i < 12 /\ 2 * i + 1 < 12 /\ (2 * i + 1) - 1 = 2 * i
    OBVIOUS
  <2>2. /\ SentBefore(2 * i) = i - 1 /\ SentBefore(2 * i + 1) = i - 1
        /\ SentBefore((2 * i + 1) + 1) = i
    BY DEF SentBefore
  <2>3. P[2 * i] = Wait /\ P[2 * i].op = "wait" /\ IsWait(2 * i)
    BY <1>3, <1>4, <1>5, <2>1
  <2>4. StepIsScripted(2 * i)
    <3>1. ScriptedStep(2 * i, P[2 * i])
      BY <2>1, <2>3 DEF ScriptedStep
    <3>2. i - 1 \in Nat
      OBVIOUS
    <3> QED
      BY <2>2, <2>3, <3>1, <3>2 DEF StepIsScripted, P
  <2>5. StepIsScripted(2 * i + 1)
    <3>1. PICK p \in 100 .. 110 : P[2 * i + 1] = Update(Payer, p)
      BY <1>4
    <3>2. ScriptedStep(2 * i + 1, P[2 * i + 1])
      BY <2>1, <2>3, <3>1 DEF ScriptedStep
    <3>3. P[2 * i + 1].op = "update"
      BY <1>3, <3>1
    <3>4. i - 1 \in Nat /\ (i - 1) + 1 = i
      OBVIOUS
    <3> QED
      BY <2>2, <3>2, <3>3, <3>4 DEF StepIsScripted, P
  <2> QED
    BY <2>4, <2>5
<1>7. StepIsScripted(1)
  <2>1. ScriptedStep(1, P[1]) /\ P[1].op = "initialize"
    BY <1>2, <1>3, <1>4 DEF ScriptedStep
  <2>2. SentBefore(1) = 0 /\ SentBefore(1 + 1) = 0
    BY DEF SentBefore
  <2> QED
    BY <2>1, <2>2 DEF StepIsScripted, P
<1>8. ASSUME NEW k \in 12 .. 22 PROVE StepIsScripted(k)
  <2>1. /\ SentBefore(k) = IF k < 17 THEN 5 ELSE 6
        /\ SentBefore(k + 1) = IF k < 16 THEN 5 ELSE 6
    BY DEF SentBefore
  <2>2. P[k].op = "update" <=> k = 16
    BY <1>3, <1>4
  <2>3. SentBefore(k) \in Nat
        /\ SentBefore(k + 1) = IF P[k].op = "update" THEN SentBefore(k) + 1 ELSE SentBefore(k)
    BY <2>1, <2>2
  <2>4. IsWait(15) /\ IsWait(18) /\ IsWait(19) /\ IsWait(21)
    BY <1>3, <1>4, <1>5
  <2>5. ScriptedStep(k, P[k])
    <3>1. CASE k = 16
      BY <1>4, <2>4, <3>1 DEF ScriptedStep
    <3>2. CASE k \in {12, 13, 14, 20, 22}
      BY <1>4, <2>4, <3>2 DEF ScriptedStep
    <3>3. CASE k \in {15, 17, 18, 19, 21}
      BY <1>4, <3>3 DEF ScriptedStep
    <3> QED
      BY <3>1, <3>2, <3>3
  <2> QED
    BY <2>3, <2>5 DEF StepIsScripted, P
<1>9. ASSUME NEW k \in 1 .. 22 PROVE StepIsScripted(k)
  <2>1. k = 1 \/ k \in 12 .. 22 \/ \E i \in 1 .. 5 : k = 2 * i \/ k = 2 * i + 1
    OBVIOUS
  <2> QED
    BY <1>6, <1>7, <1>8, <2>1
<1> QED
  BY <1>2, <1>9 DEF P

LEMMA StepOfBenchmark ==
    ASSUME script = "benchmark"
    PROVE  /\ Len(Program(script)) = TimedUpdates + 4 * Repeats + 2
           /\ \A k \in 1 .. Len(Program(script)) : StepIsScripted(k)
<1> DEFINE P == Program(script)
           n == TimedUpdates
           m == n + 3 * Repeats
<1>1. P = Benchmark
  BY DEF Program
<1>2. Len(P) = n + 4 * Repeats + 2 /\ ScriptCapacity = 64
  BY <1>1, StepsOfBenchmark DEF ScriptCapacity
<1>3. /\ Wait.op = "wait" /\ ParseEvents.op = "events"
      /\ \A c : Initialize(c).op = "initialize"
      /\ \A b, p : Update(b, p).op = "update"
      /\ \A names : Fetches(names).op = "read"
      /\ \A w : Average(w).op = "average"
  BY DEF Wait, Initialize, Update, Fetches, Average, ParseEvents
<1>4. /\ P[1] = Initialize(64)
      /\ \A i \in 1 .. Iterations : /\ P[2 * i] = Wait
                                    /\ \E p \in 100 .. 110 : P[2 * i + 1] = Update(Payer, p)
      /\ \A k \in n + 1 .. n + Repeats : P[k].op = "getSwap"
      /\ \A k \in n + Repeats + 1 .. n + 2 * Repeats : P[k] = Average(5)
      /\ \A k \in n + 2 * Repeats + 1 .. m : P[k] = Fetches({"oracle"})
      /\ P[m + 1] = Wait /\ P[m + 2] = Update(Payer, 100)
      /\ \A k \in m + 3 .. n + 4 * Repeats + 2 : P[k] = ParseEvents
  BY <1>1, StepsOfBenchmark
<1>5. /\ Iterations \in Nat /\ Iterations > 5 /\ Repeats \in Nat /\ n = 2 * Iterations + 1
      /\ Payer \in {Payer, Other} /\ 100 \in 100 .. 110
  BY ScriptsAssumption DEF TimedUpdates
<1>6. /\ n \in Nat /\ m \in Nat /\ n <= m /\ 12 < n /\ m = n + 3 * Repeats
      /\ Len(P) = m + Repeats + 2 /\ 2 * Iterations + 3 * Repeats + 3 = m + 2
  BY <1>2, <1>5
<1> HIDE DEF P, n, m
<1>7. \A k \in 1 .. Len(P) : IsWait(k) <=> P[k].op = "wait"
  BY DEF IsWait, P
<1>8. \A k \in Nat : SentBefore(k) = IF k = 1 THEN 0
                                     ELSE IF k <= n THEN (k - 2) \div 2
                                     ELSE IF k <= m + 2 THEN Iterations ELSE Iterations + 1
  BY <1>5, <1>6 DEF SentBefore
<1>9. ASSUME NEW i \in 1 .. Iterations PROVE StepIsScripted(2 * i) /\ StepIsScripted(2 * i + 1)
  <2>1. /\ 2 * i \in 1 .. Len(P) /\ 2 * i > 1 /\ 2 * i <= n /\ 2 * i + 1 <= n
        /\ (2 * i + 1) - 1 = 2 * i /\ 2 * i \in Nat /\ 2 * i + 1 \in Nat
        /\ (2 * i + 1) + 1 \in Nat /\ i - 1 \in Nat /\ (i - 1) + 1 = i
        /\ 2 * i + 1 \in 1 .. Len(P) /\ 2 * i + 1 # 1
    BY <1>5, <1>6
  <2>2. /\ SentBefore(2 * i) = i - 1 /\ SentBefore(2 * i + 1) = i - 1
    <3>1. (2 * i - 2) \div 2 = i - 1 /\ ((2 * i + 1) - 2) \div 2 = i - 1
      BY <1>5
    <3> QED
      BY <1>8, <2>1, <3>1
  <2>3. SentBefore((2 * i + 1) + 1) = i
    <3>1. CASE i < Iterations
      <4>1. (2 * i + 1) + 1 <= n /\ (((2 * i + 1) + 1) - 2) \div 2 = i /\ (2 * i + 1) + 1 # 1
        BY <1>5, <3>1
      <4> QED
        BY <1>8, <2>1, <4>1
    <3>2. CASE i = Iterations
      <4>1. ~ ((2 * i + 1) + 1 <= n) /\ (2 * i + 1) + 1 <= m + 2 /\ (2 * i + 1) + 1 # 1
        BY <1>5, <1>6, <3>2
      <4> QED
        BY <1>8, <2>1, <3>2, <4>1
    <3> QED
      BY <1>5, <3>1, <3>2
  <2>4. P[2 * i] = Wait /\ P[2 * i].op = "wait" /\ IsWait(2 * i)
    BY <1>3, <1>4, <1>7, <2>1
  <2>5. StepIsScripted(2 * i)
    <3>1. ScriptedStep(2 * i, P[2 * i])
      BY <2>1, <2>4 DEF ScriptedStep
    <3> QED
      BY <2>1, <2>2, <2>4, <3>1 DEF StepIsScripted, P
  <2>6. StepIsScripted(2 * i + 1)
    <3>1. PICK p \in 100 .. 110 : P[2 * i + 1] = Update(Payer, p)
      BY <1>4
    <3>2. ScriptedStep(2 * i + 1, P[2 * i + 1])
      BY <2>1, <2>4, <3>1 DEF ScriptedStep
    <3>3. P[2 * i + 1].op = "update"
      BY <1>3, <3>1
    <3> QED
      BY <2>1, <2>2, <2>3, <3>2, <3>3 DEF StepIsScripted, P
  <2> QED
    BY <2>5, <2>6
<1>10. StepIsScripted(1)
  <2>1. ScriptedStep(1, P[1]) /\ P[1].op = "initialize"
    BY <1>2, <1>3, <1>4 DEF ScriptedStep
  <2>2. SentBefore(1) = 0 /\ SentBefore(1 + 1) = 0
    BY <1>6, <1>8
  <2> QED
    BY <2>1, <2>2 DEF StepIsScripted, P
<1>11. ASSUME NEW k \in n + 1 .. m PROVE StepIsScripted(k)
  <2>1. /\ k \in Nat /\ k + 1 \in Nat /\ k # 1 /\ ~ (k <= n) /\ k <= m + 2
        /\ k + 1 # 1 /\ ~ (k + 1 <= n) /\ k + 1 <= m + 2
    BY <1>6
  <2>2. SentBefore(k) = Iterations /\ SentBefore(k + 1) = Iterations
    BY <1>8, <2>1
  <2>3. \/ k \in n + 1 .. n + Repeats \/ k \in n + Repeats + 1 .. n + 2 * Repeats
        \/ k \in n + 2 * Repeats + 1 .. m
    BY <1>5, <1>6
  <2>4. P[k].op = "getSwap" \/ P[k] = Average(5) \/ P[k] = Fetches({"oracle"})
    BY <1>4, <2>3
  <2>5. ScriptedStep(k, P[k]) /\ P[k].op # "update"
    BY <1>3, <2>1, <2>2, <2>4 DEF ScriptedStep
  <2> QED
    BY <1>5, <2>2, <2>5 DEF StepIsScripted, P
<1>12. StepIsScripted(m + 1)
  <2>1. /\ m + 1 \in Nat /\ (m + 1) + 1 \in Nat /\ m + 1 # 1 /\ ~ (m + 1 <= n) /\ m + 1 <= m + 2
        /\ (m + 1) + 1 # 1 /\ ~ ((m + 1) + 1 <= n) /\ (m + 1) + 1 <= m + 2 /\ m + 1 > 1
    BY <1>6
  <2>2. SentBefore(m + 1) = Iterations /\ SentBefore((m + 1) + 1) = Iterations
    BY <1>8, <2>1
  <2>3. ScriptedStep(m + 1, P[m + 1]) /\ P[m + 1].op # "update"
    BY <1>3, <1>4, <2>1 DEF ScriptedStep
  <2> QED
    BY <1>5, <2>2, <2>3 DEF StepIsScripted, P
<1>13. StepIsScripted(m + 2)
  <2>1. /\ m + 2 \in Nat /\ (m + 2) + 1 \in Nat /\ m + 2 # 1 /\ ~ (m + 2 <= n) /\ m + 2 <= m + 2
        /\ (m + 2) + 1 # 1 /\ ~ ((m + 2) + 1 <= n) /\ ~ ((m + 2) + 1 <= m + 2)
        /\ (m + 2) - 1 = m + 1 /\ m + 1 \in 1 .. Len(P)
    BY <1>5, <1>6
  <2>2. SentBefore(m + 2) = Iterations /\ SentBefore((m + 2) + 1) = Iterations + 1
    BY <1>8, <2>1
  <2>3. IsWait((m + 2) - 1)
    BY <1>3, <1>4, <1>7, <2>1
  <2>4. ScriptedStep(m + 2, P[m + 2]) /\ P[m + 2].op = "update"
    BY <1>3, <1>4, <1>5, <2>3 DEF ScriptedStep
  <2> QED
    BY <1>5, <2>2, <2>4 DEF StepIsScripted, P
<1>14. ASSUME NEW k \in m + 3 .. Len(P) PROVE StepIsScripted(k)
  <2>1. /\ k \in Nat /\ k + 1 \in Nat /\ k # 1 /\ ~ (k <= n) /\ ~ (k <= m + 2)
        /\ k + 1 # 1 /\ ~ (k + 1 <= n) /\ ~ (k + 1 <= m + 2)
    BY <1>6
  <2>2. SentBefore(k) = Iterations + 1 /\ SentBefore(k + 1) = Iterations + 1
    BY <1>8, <2>1
  <2>3. P[k] = ParseEvents
    BY <1>2, <1>4
  <2>4. ScriptedStep(k, P[k]) /\ P[k].op # "update"
    BY <1>3, <2>1, <2>3 DEF ScriptedStep
  <2> QED
    BY <1>5, <2>2, <2>4 DEF StepIsScripted, P
<1>15. ASSUME NEW k \in 1 .. Len(P) PROVE StepIsScripted(k)
  <2>1. \/ k = 1 \/ k \in 2 .. n \/ k \in n + 1 .. m \/ k = m + 1 \/ k = m + 2
        \/ k \in m + 3 .. Len(P)
    BY <1>6
  <2>2. k \in 2 .. n => \E i \in 1 .. Iterations : k = 2 * i \/ k = 2 * i + 1
    BY <1>5, HalfOf
  <2> QED
    BY <1>9, <1>10, <1>11, <1>12, <1>13, <1>14, <2>1, <2>2
<1> QED
  BY <1>2, <1>15 DEF P, n

\* The clock of the instance does not run past its last slot.
SlotIsBounded == slot \in Nat /\ (slot = FirstSlot \/ slot <= MaxSlot)

LEMMA StepOfScript ==
    ASSUME script \in Private, pc \in 1 .. Len(Program(script))
    PROVE  /\ ~ Finished /\ Current = Program(script)[pc]
           /\ ScriptedStep(pc, Current)
           /\ SentBefore(pc) \in Nat
           /\ SentBefore(pc + 1) =
                 IF Current.op = "update" THEN SentBefore(pc) + 1 ELSE SentBefore(pc)
<1>1. StepIsScripted(pc)
  BY StepOfE2e, StepOfBenchmark DEF Private
<1>2. Len(Program(script)) \in Nat
  BY StepOfE2e, StepOfBenchmark, ScriptsAssumption DEF Private, TimedUpdates
<1> QED
  BY <1>1, <1>2 DEF StepIsScripted, Finished, Current

LEMMA ScriptLength == script \in Private => Len(Program(script)) \in Nat
  BY StepOfE2e, StepOfBenchmark, ScriptsAssumption DEF Private, TimedUpdates

\* The accumulator of a script's oracle fits, in whatever slot it is extended to.
LEMMA ScriptAccumulates ==
    ASSUME ScriptChain, SlotIsBounded
    PROVE  /\ ExtendedCumulative(oracle, slot) \in Nat
           /\ ExtendedCumulative(oracle, slot) <= 110 * slot
           /\ Fits(ExtendedCumulative(oracle, slot))
<1> DEFINE p == oracle.last_price
           d == slot - oracle.last_slot
           c == oracle.cumulative_price
<1>1. /\ slot \in Nat /\ oracle.last_slot \in Nat /\ oracle.last_slot <= slot
      /\ p \in Nat /\ p <= 110 /\ c \in Nat /\ c <= 110 * oracle.last_slot
  BY DEF ScriptChain, ScriptOracle, SlotIsBounded
<1>2. d \in Nat
  BY <1>1
<1>3. p * d \in Nat /\ p * d <= 110 * d
  <2> HIDE DEF p, d
  <2>1. 110 - p \in Nat
    BY <1>1
  <2>2. (110 - p) * d \in Nat /\ p * d \in Nat
    BY <1>1, <1>2, <2>1
  <2>3. (110 - p) * d = 110 * d - p * d
    BY <1>1, <1>2
  <2> QED
    BY <1>2, <2>2, <2>3
<1>4. ExtendedCumulative(oracle, slot) = c + p * d
  BY DEF ExtendedCumulative
<1>5. 110 * d = 110 * slot - 110 * oracle.last_slot
  BY <1>1
<1>6. 110 * slot <= MaxU128 /\ MaxU128 \in Nat
  BY ScriptPricesAssumption, MaxU128Assumption, BoundsAssumption DEF SlotIsBounded
<1> HIDE DEF p, d, c
<1>7. c + p * d \in Nat /\ c + p * d <= 110 * slot
  BY <1>1, <1>2, <1>3, <1>5
<1> QED
  BY <1>1, <1>4, <1>6, <1>7 DEF Fits

\* A price of the scripts passes every check in a later slot.
LEMMA ScriptUpdatePasses ==
    ASSUME ScriptChain, SlotIsBounded, oracle.last_slot < slot, NEW p \in 100 .. 110
    PROVE  UpdateError(p) = "none"
<1> DEFINE q == oracle.last_price
           d == Distance(p, q)
<1>1. OracleExists /\ ~ oracle.paused /\ slot \in Nat /\ oracle.last_slot \in Nat
  BY DEF ScriptChain, ScriptOracle, SlotIsBounded
<1>2. q = 0 \/ q \in 100 .. 110
  BY DEF ScriptChain, ScriptOracle
<1>3. oracle.max_deviation_bps = 1000
  BY DEF ScriptChain, ScriptOracle, DEFAULT_DEVIATION_BPS
<1>4. ASSUME q # 0 PROVE Fits(d * 10000) /\ (d * 10000) \div q <= 1000
  <2>1. d \in 0 .. 10
    BY <1>2, <1>4 DEF Distance
  <2>2. 100 * 10000 <= MaxU128 /\ MaxU128 \in Nat
    BY ScriptPricesAssumption, MaxU128Assumption DEF BPS_DENOMINATOR
  <2> HIDE DEF d, q
  <2>3. Fits(d * 10000)
    BY <2>1, <2>2 DEF Fits
  <2>4. (d * 10000) \div q <= 1000
    BY <1>2, <1>4, <2>1
  <2> QED
    BY <2>3, <2>4
<1>5. WithinDeviation(p)
  BY <1>3, <1>4 DEF WithinDeviation, BPS_DENOMINATOR
<1>6. ~ (oracle.last_slot >= slot)
  BY <1>1
<1>7. ~ (oracle.last_price # 0 /\ ~ Fits(Distance(p, oracle.last_price) * BPS_DENOMINATOR))
  BY <1>4 DEF BPS_DENOMINATOR
<1>8. Fits(ExtendedCumulative(oracle, slot))
  BY ScriptAccumulates
<1> QED
  BY <1>1, <1>5, <1>6, <1>7, <1>8 DEF UpdateError

\* Twice the price does not, once there is one.
LEMMA ScriptJumpIsRefused ==
    ASSUME ScriptChain, SlotIsBounded, oracle.last_slot < slot, oracle.last_price # 0
    PROVE  UpdateError(200) = "PriceDeviationTooLarge"
<1> DEFINE q == oracle.last_price
           d == Distance(200, q)
<1>1. OracleExists /\ ~ oracle.paused /\ slot \in Nat /\ oracle.last_slot \in Nat
  BY DEF ScriptChain, ScriptOracle, SlotIsBounded
<1>2. q \in 100 .. 110
  BY DEF ScriptChain, ScriptOracle
<1>3. oracle.max_deviation_bps = 1000
  BY DEF ScriptChain, ScriptOracle, DEFAULT_DEVIATION_BPS
<1>4. d \in 90 .. 100
  BY <1>2 DEF Distance
<1>5. Fits(d * 10000)
  <2>1. 100 * 10000 <= MaxU128 /\ MaxU128 \in Nat
    BY ScriptPricesAssumption, MaxU128Assumption DEF BPS_DENOMINATOR
  <2> HIDE DEF d
  <2> QED
    BY <1>4, <2>1 DEF Fits
<1>6. ~ ((d * 10000) \div q <= 1000)
  <2> HIDE DEF d, q
  <2> QED
    BY <1>2, <1>4
<1>7. ~ WithinDeviation(200)
  BY <1>2, <1>3, <1>6 DEF WithinDeviation, BPS_DENOMINATOR
<1>8. ~ (oracle.last_slot >= slot)
  BY <1>1
<1>9. ~ (oracle.last_price # 0 /\ ~ Fits(Distance(200, oracle.last_price) * BPS_DENOMINATOR))
  BY <1>5 DEF BPS_DENOMINATOR
<1> QED
  BY <1>1, <1>7, <1>8, <1>9 DEF UpdateError

\* A query that allows one slot is stale after two.
LEMMA ScriptQueryIsStale ==
    ASSUME ScriptChain, SlotIsBounded, oracle.last_slot + 1 < slot, buffer.len # 0
    PROVE  GetSwap(3, 1).error = "StaleOracle"
<1>1. slot - oracle.last_slot > 1
  <2>1. oracle.last_slot \in Nat /\ slot \in Nat
    BY DEF ScriptChain, ScriptOracle, SlotIsBounded
  <2> QED
    BY <2>1
<1>2. ~ oracle.paused
  BY DEF ScriptChain, ScriptOracle
<1>3. GetSwap(3, 1) = Fails("StaleOracle")
  BY <1>1, <1>2, Zenon DEF GetSwap
<1> QED
  BY <1>3 DEF Fails

\* initialize_oracle makes the chain a script starts from.
LEMMA ScriptInitializes ==
    ASSUME script \in Private, SlotIsBounded, updates = <<>>,
           InitializeOracle(Payer, ScriptCapacity), script' = script
    PROVE  ScriptChain' /\ slot' = slot /\ updates' = updates /\ oracle'.last_slot = slot
<1>1. Payer \in Users /\ slot \in Nat /\ ScriptCapacity \in {32, 64}
  BY ScriptsAssumption DEF SlotIsBounded, ScriptCapacity
<1>2. /\ accounts' = accounts \cup {"oracle"}
      /\ oracle' = NewOracle(Payer, slot, DEFAULT_DEVIATION_BPS)
      /\ buffer' = NewBuffer(ScriptCapacity)
      /\ slot' = slot /\ updates' = updates
  BY DEF InitializeOracle
<1>3. oracle' \in ScriptOracle /\ oracle'.last_slot = slot /\ oracle'.cumulative_price = 0
  BY <1>1, <1>2 DEF NewOracle, ScriptOracle
<1>4. IsRing(buffer', ScriptObservation)
  <2>1. ZeroObservation \in ScriptObservation
    BY DEF ZeroObservation, ScriptObservation
  <2>2. ScriptCapacity \in Nat \ {0}
    BY <1>1
  <2> QED
    BY <1>2, <2>1, <2>2, NewBufferIsRing
<1>5. buffer'.capacity = ScriptCapacity /\ buffer'.len = 0
  BY <1>2 DEF NewBuffer
<1>6. ScriptCapacity' = ScriptCapacity
  BY DEF ScriptCapacity
<1>7. Len(updates') = 0 /\ updates' = <<>>
  BY <1>2
<1>8. Smaller(buffer'.capacity, Len(updates')) = 0
  BY <1>1, <1>5, <1>7 DEF Smaller
<1>9. OracleExists'
  BY <1>2 DEF OracleExists
<1> QED
  BY <1>1, <1>2, <1>3, <1>4, <1>5, <1>6, <1>7, <1>8, <1>9 DEF ScriptChain

\* The entries of a ring are observations.
LEMMA EntriesOfRing ==
    ASSUME NEW b, IsRing(b, ScriptObservation), NEW a \in 1 .. b.len
    PROVE  NthNewest(b, a) \in ScriptObservation /\ NthNewest(b, a).slot \in Nat
<1>1. /\ b.capacity \in Nat \ {0} /\ b.head \in 0 .. b.capacity - 1 /\ a \in 1 .. b.capacity
      /\ b.observations \in [0 .. b.capacity - 1 -> ScriptObservation]
  BY DEF IsRing
<1>2. (b.head + b.capacity - a) % b.capacity \in 0 .. b.capacity - 1
  BY <1>1, IndexOfAge
<1>3. NthNewest(b, a) \in ScriptObservation
  BY <1>1, <1>2 DEF NthNewest
<1> QED
  BY <1>3 DEF ScriptObservation

\* update_price by a script leaves it so, and the slot as it was.
LEMMA ScriptUpdates ==
    ASSUME script \in Private, SlotIsBounded, ScriptChain, updates \in Seq(ScriptUpdate),
           NEW by \in Users, NEW p \in 100 .. 110, UpdatePrice(by, p, None), script' = script
    PROVE  /\ ScriptChain' /\ slot' = slot /\ oracle'.last_slot = slot
           /\ updates' \in Seq(ScriptUpdate) /\ Len(updates') = Len(updates) + 1
<1> DEFINE c == ExtendedCumulative(oracle, slot)
           e == [slot |-> slot, price |-> p, cumulative_price |-> c, updater |-> by]
           o == [slot |-> slot, cumulative_price |-> c]
<1>1. /\ slot \in Nat /\ oracle.last_slot < slot /\ oracle.last_slot \in Nat
      /\ slot' = slot /\ accounts' = accounts
      /\ updates' = Append(updates, e) /\ buffer' = PushObservation(buffer, o)
      /\ oracle' = [oracle EXCEPT !.cumulative_price = c, !.last_price = p,
                                  !.last_slot = slot, !.last_updater = by]
  BY DEF UpdatePrice, Accepted, SlotIsBounded, ScriptChain, ScriptOracle
<1>2. c \in Nat /\ c <= 110 * slot
  BY ScriptAccumulates
<1> HIDE DEF c
<1>3. oracle' \in ScriptOracle /\ oracle'.last_slot = slot /\ oracle'.cumulative_price = c
      /\ oracle'.last_price = p
  BY <1>1, <1>2 DEF ScriptChain, ScriptOracle
<1>4. e \in ScriptUpdate /\ e.slot = slot /\ o \in ScriptObservation /\ o.slot = slot
  BY <1>1, <1>2 DEF ScriptUpdate, ScriptObservation
<1> HIDE DEF e, o
<1>5. /\ Len(updates) \in Nat /\ Len(updates') = Len(updates) + 1
      /\ updates'[Len(updates) + 1] = e
      /\ updates' \in Seq(ScriptUpdate)
  BY <1>1, <1>4, AppendedEvent
<1>6. updates' # <<>> => updates'[Len(updates')].slot = oracle'.last_slot /\ oracle'.last_price # 0
  BY <1>3, <1>4, <1>5
<1>7. IsRing(buffer, ScriptObservation) /\ IsRing(buffer', ScriptObservation)
  BY <1>1, <1>4, PushIsRing DEF ScriptChain
<1>8. /\ buffer'.capacity = buffer.capacity
      /\ buffer'.len = IF buffer.len < buffer.capacity THEN buffer.len + 1 ELSE buffer.len
      /\ buffer.len \in 0 .. buffer.capacity /\ buffer.capacity \in Nat
  BY <1>1, <1>7 DEF PushObservation, IsRing
<1>9. buffer'.len = Smaller(buffer'.capacity, Len(updates'))
  BY <1>5, <1>8 DEF Smaller, ScriptChain
<1>10. ASSUME NEW a \in 1 .. buffer'.len PROVE NthNewest(buffer', a).slot + a - 1 <= slot
  <2>1. NthNewest(buffer', a) = IF a = 1 THEN o ELSE NthNewest(buffer, a - 1)
    BY <1>1, <1>4, <1>7, PushAges
  <2>2. CASE a = 1
    BY <1>1, <1>4, <2>1, <2>2
  <2>3. CASE a # 1
    <3>1. a - 1 \in 1 .. buffer.len /\ a \in Nat
      BY <1>8, <2>3
    <3>2. NthNewest(buffer, a - 1).slot + (a - 1) - 1 <= oracle.last_slot
      BY <3>1 DEF ScriptChain
    <3>3. NthNewest(buffer, a - 1).slot \in Nat
      BY <1>7, <3>1, EntriesOfRing
    <3> QED
      BY <1>1, <2>1, <2>3, <3>1, <3>2, <3>3
  <2> QED
    BY <2>2, <2>3
<1>11. ScriptCapacity' = ScriptCapacity
  BY DEF ScriptCapacity
<1> QED
  BY <1>1, <1>2, <1>3, <1>5, <1>6, <1>7, <1>8, <1>9, <1>10, <1>11 DEF ScriptChain, OracleExists

\* A query with the default staleness of a script's chain, in a slot s: an observation of
\* age a that is far enough back leaves only staleness to fail it.
LEMMA ScriptQuery ==
    ASSUME ScriptChain, NEW s \in Nat, NEW w \in Nat \ {0}, NEW a \in 1 .. buffer.len,
           NthNewest(buffer, a).slot <= s - w
    PROVE  ComputeSwapFrom(oracle, buffer, s, [windowSlots |-> w, staleness |-> w]).error
              = IF s - oracle.last_slot > w THEN "Stale" ELSE "none"
<1> DEFINE t == s - w + 1
           ages == AgesBefore(buffer, t)
           past == NthNewest(buffer, Min(ages))
           c == [windowSlots |-> w, staleness |-> w]
<1>1. /\ IsRing(buffer, ScriptObservation)
      /\ \A n \in 1 .. buffer.len : /\ NthNewest(buffer, n) \in ScriptObservation
                                    /\ NthNewest(buffer, n).slot \in Nat
  BY EntriesOfRing DEF ScriptChain
<1>2. buffer.len \in Nat
  BY <1>1 DEF IsRing
<1>3. a \in ages
  BY <1>1 DEF AgesBefore
<1>4. ages \in SUBSET Nat /\ ages # {} /\ ages \subseteq 1 .. buffer.len
  BY <1>2, <1>3 DEF AgesBefore
<1>5. Min(ages) \in ages
  BY <1>4, LeastAge
<1>6. past \in ScriptObservation /\ past.slot \in Nat /\ past.slot < t
  BY <1>1, <1>5 DEF AgesBefore
<1>7. past # None /\ s # past.slot
  BY <1>6, NothingFoundAssumption DEF ScriptObservation
<1>8. FindObservationBeforeSlot(buffer, t) = past
  BY <1>4 DEF FindObservationBeforeSlot, ObservationBeforeSlot
<1>9. c.windowSlots = w /\ c.staleness = w
  OBVIOUS
<1> HIDE DEF c, ages, past
<1>10. ComputeSwapFrom(oracle, buffer, s, c)
         = IF s - oracle.last_slot > w THEN Fails("Stale")
           ELSE ComputeSwapBN(ExtendedCumulative(oracle, s), past.cumulative_price, s, past.slot)
  BY <1>7, <1>8, <1>9 DEF ComputeSwapFrom
<1>11. ComputeSwapBN(ExtendedCumulative(oracle, s), past.cumulative_price, s, past.slot).error
         = "none"
  BY <1>7 DEF ComputeSwapBN, Ok
<1> QED
  BY <1>10, <1>11 DEF Fails, c

\* What e2e-test.ts's average fails with, when it does.
LEMMA E2eAnswer ==
    ASSUME script = "e2e-test", ScriptRuns, call # None, Answered
    PROVE  \/ Answer.error = "none"
           \/ Answer.error = "Stale" /\ fetched["slot"] - noted["slot"] >= 4
<1> DEFINE first == buffer.observations[0].slot
           w == noted["slot"] - first - 1
           s == fetched["slot"]
<1>1. /\ pc \in 1 .. 22 /\ Current.op = "average" /\ script \in Private
  <2>1. Len(Program(script)) = 22 /\ pc \in 1 .. Len(Program(script)) + 1
    BY StepOfE2e DEF ScriptRuns
  <2>2. ~ Finished /\ Current.op = "average"
    BY DEF ScriptRuns, ScriptReads
  <2>3. script \in Private
    BY DEF Private
  <2>4. ~ (pc > Len(Program(script)))
    BY <2>2 DEF Finished
  <2>5. pc \in 1 .. 22
    <3> DEFINE n == Len(Program(script))
    <3>1. n = 22 /\ pc \in 1 .. n + 1 /\ ~ (pc > n)
      BY <2>1, <2>4
    <3> HIDE DEF n
    <3> QED
      BY <3>1
  <2> QED
    BY <2>2, <2>3, <2>5
<1>2. pc = 14 /\ Current = Average(SinceFirst)
  <2>1. ScriptedStep(pc, Current)
    BY <1>1, StepOfE2e, StepOfScript
  <2> QED
    BY <1>1, <2>1 DEF ScriptedStep, Initialize, Wait, Update, Fetches, ParseEvents, Refused
<1>3. /\ ScriptChain /\ Len(updates) = 5
      /\ "slot" \in DOMAIN noted /\ noted["slot"] \in Nat
      /\ oracle.last_slot <= noted["slot"] /\ noted["buffer"] = buffer
  BY <1>2 DEF ScriptRuns, ScriptNotes, SentBefore
<1>4. /\ buffer.capacity = 32 /\ buffer.len = 5 /\ buffer.head = 5
      /\ IsRing(buffer, ScriptObservation)
  BY <1>3 DEF ScriptChain, ScriptCapacity, Smaller, IsRing
<1>5. NthNewest(buffer, 5) = buffer.observations[0]
  BY <1>4 DEF NthNewest
<1>6. first \in Nat /\ first + 4 <= oracle.last_slot /\ oracle.last_slot \in Nat
  <2>1. NthNewest(buffer, 5).slot \in Nat
    BY <1>4, EntriesOfRing
  <2>2. NthNewest(buffer, 5).slot + 5 - 1 <= oracle.last_slot
    BY <1>3, <1>4 DEF ScriptChain
  <2>3. oracle.last_slot \in Nat
    BY <1>3 DEF ScriptChain, ScriptOracle
  <2> QED
    BY <1>5, <2>1, <2>2, <2>3
<1>7. WindowOf(Current) = w
  BY <1>2, <1>3 DEF WindowOf, Average
<1>8. /\ s \in Nat /\ noted["slot"] <= s
      /\ Answer = ComputeSwapFrom(oracle, buffer, s, [windowSlots |-> w, staleness |-> w])
  BY <1>7 DEF ScriptRuns, ScriptReads, Answered, Requests, Answer, QueriedFrom
<1> HIDE DEF first, s
<1>9. w \in Nat \ {0} /\ first <= s - w
  BY <1>3, <1>6, <1>8
<1>10. Answer.error = IF s - oracle.last_slot > w THEN "Stale" ELSE "none"
  <2>1. 5 \in 1 .. buffer.len /\ NthNewest(buffer, 5).slot <= s - w
    BY <1>4, <1>5, <1>9 DEF first
  <2> HIDE DEF w
  <2> QED
    BY <1>3, <1>8, <1>9, <2>1, ScriptQuery
<1>11. s - oracle.last_slot > w => s - noted["slot"] >= 4
  BY <1>3, <1>6, <1>8
<1> QED
  BY <1>10, <1>11 DEF s

\* And benchmark.ts's.
LEMMA BenchmarkAnswer ==
    ASSUME script = "benchmark", ScriptRuns, SlotIsBounded, call # None, Answered
    PROVE  \/ Answer.error = "none"
           \/ Answer.error = "Stale" /\ slot - updates[Iterations].slot > 5
<1> DEFINE s == fetched["slot"]
<1>1. /\ pc \in 1 .. Len(Program(script)) /\ Current.op = "average" /\ script \in Private
  <2>1. script \in Private
    BY DEF Private
  <2>2. Len(Program(script)) \in Nat
    BY <2>1, ScriptLength
  <2> QED
    BY <2>1, <2>2 DEF ScriptRuns, ScriptReads, Finished
<1>2. pc # 1 /\ Current = Average(5) /\ SentBefore(pc) = Iterations
  <2>1. ScriptedStep(pc, Current)
    BY <1>1, StepOfScript
  <2> QED
    BY <1>1, <2>1 DEF ScriptedStep, Initialize, Wait, Update, Fetches, ParseEvents, Refused
<1>3. /\ ScriptChain /\ Len(updates) = Iterations /\ Iterations \in Nat /\ Iterations > 5
      /\ updates # <<>>
  <2>1. ScriptChain /\ Len(updates) = Iterations
    BY <1>2 DEF ScriptRuns
  <2> QED
    BY <2>1, ScriptsAssumption
<1>4. updates[Iterations].slot = oracle.last_slot /\ oracle.last_slot \in Nat
  BY <1>3 DEF ScriptChain, ScriptOracle
<1>5. 6 \in 1 .. buffer.len /\ NthNewest(buffer, 6).slot + 5 <= oracle.last_slot
      /\ NthNewest(buffer, 6).slot \in Nat
  <2>1. buffer.capacity = 64 /\ IsRing(buffer, ScriptObservation)
    BY <1>3 DEF ScriptChain, ScriptCapacity
  <2>2. buffer.len \in Nat /\ buffer.len >= 6
    BY <1>3, <2>1 DEF ScriptChain, Smaller
  <2>3. 6 \in 1 .. buffer.len
    BY <2>2
  <2>4. NthNewest(buffer, 6).slot \in Nat
    BY <2>1, <2>3, EntriesOfRing
  <2>5. NthNewest(buffer, 6).slot + 6 - 1 <= oracle.last_slot
    BY <1>3, <2>3 DEF ScriptChain
  <2> QED
    BY <1>4, <2>3, <2>4, <2>5
<1>6. WindowOf(Current) = 5
  BY <1>2, WindowIsGivenAssumption DEF WindowOf, Average, SinceFirst
<1>7. /\ s \in Nat /\ oracle.last_slot <= s /\ s <= slot /\ slot \in Nat
      /\ Answer = ComputeSwapFrom(oracle, buffer, s, [windowSlots |-> 5, staleness |-> 5])
  BY <1>6 DEF ScriptRuns, ScriptReads, Answered, Requests, Answer, QueriedFrom, SlotIsBounded
<1> HIDE DEF s
<1>8. NthNewest(buffer, 6).slot <= s - 5 /\ 5 \in Nat \ {0}
  BY <1>4, <1>5, <1>7
<1>9. Answer.error = IF s - oracle.last_slot > 5 THEN "Stale" ELSE "none"
  BY <1>3, <1>5, <1>7, <1>8, ScriptQuery
<1> QED
  BY <1>4, <1>7, <1>9

\* A step that neither throws nor complains leaves the invariant to the script's run.
LEMMA ScriptGoesOn ==
    ASSUME ScriptInvariant, script' = script, outcome' = "running",
           "refused" \notin complaints', ScriptRuns'
    PROVE  ScriptInvariant'
<1>1. pc' \in Nat \ {0}
  BY DEF ScriptRuns
<1> QED
  BY <1>1 DEF ScriptInvariant, OnlyDelayStopsScripts, RefusalsAreTheExpectedOnes

\* A step that ends the script, other than by a query that is stale.
LEMMA ScriptStops ==
    ASSUME ScriptInvariant, UNCHANGED <<script, pc, complaints>>, outcome' \in {"rpc", "passed"}
    PROVE  ScriptInvariant'
  BY DEF ScriptInvariant, OnlyDelayStopsScripts, RefusalsAreTheExpectedOnes

\* What holds where a script runs.
LEMMA ScriptIsAt ==
    ASSUME ScriptInvariant, script \in Private, outcome = "running"
    PROVE  /\ ScriptRuns /\ SlotIsBounded /\ pc \in Nat \ {0}
           /\ "refused" \notin complaints
           /\ pc # 1 => ScriptChain
           /\ (~ Finished \/ pc <= Len(Program(script))) => pc \in 1 .. Len(Program(script))
<1>1. Len(Program(script)) \in Nat
  BY ScriptLength
<1>2. ScriptRuns /\ pc \in Nat \ {0} /\ "refused" \notin complaints
  BY DEF ScriptInvariant, RefusalsAreTheExpectedOnes
<1> QED
  BY <1>1, <1>2 DEF ScriptRuns, SlotIsBounded, Finished

\* A step at which the script is, by its kind.
LEMMA ScriptStepKinds ==
    ASSUME script \in Private, pc \in 1 .. Len(Program(script))
    PROVE  /\ IsWait(pc) <=> Current = Wait
           /\ IsWait(pc) <=> Current.op = "wait"
           /\ Current.op = "initialize" <=> pc = 1
           /\ Current.op = "initialize" => Current = Initialize(ScriptCapacity)
           /\ Current.op = "update" =>
                 /\ IsWait(pc - 1)
                 /\ \E by \in {Payer, Other}, p \in 100 .. 110 : Current = Update(by, p)
           /\ Current.op = "read" =>
                 \/ script = "benchmark" /\ Current = Fetches({"oracle"})
                 \/ script = "e2e-test" /\ pc = 12 /\ Current = Fetches({"buffer"})
                 \/ script = "e2e-test" /\ pc = 13 /\ Current = Fetches({"slot"})
           /\ Current.op = "average" =>
                 \/ script = "benchmark" /\ Current = Average(5) /\ SentBefore(pc) = Iterations
                 \/ script = "e2e-test" /\ pc = 14 /\ Current = Average(SinceFirst)
           /\ Current.op = "refused" =>
                 \/ /\ script = "e2e-test" /\ pc = 20
                    /\ Current = Refused(Simulate(3, 1), "StaleOracle")
                    /\ IsWait(19) /\ IsWait(18)
                 \/ /\ script = "e2e-test" /\ pc = 22
                    /\ Current = Refused(Update(Payer, 200), "PriceDeviationTooLarge")
                    /\ IsWait(21)
           /\ Current.op = "getSwap" => script = "benchmark"
           /\ script = "e2e-test" /\ pc = 12 => Current.op = "read"
           /\ script = "e2e-test" /\ pc = 13 => Current.op = "read"
<1>1. ScriptedStep(pc, Current) /\ Current = Program(script)[pc]
  BY StepOfScript
<1>2. /\ Wait.op = "wait" /\ ParseEvents.op = "events"
      /\ \A c : Initialize(c).op = "initialize"
      /\ \A b, p : Update(b, p).op = "update"
      /\ \A n : Fetches(n).op = "read"
      /\ \A w : Average(w).op = "average"
      /\ \A s, e : Refused(s, e).op = "refused"
  BY DEF Wait, Initialize, Update, Fetches, Average, ParseEvents, Refused
<1>3. IsWait(pc) <=> Current.op = "wait"
  BY <1>1 DEF IsWait
<1>4. script = "e2e-test" => Program(script)[12].op = "read" /\ Program(script)[13].op = "read"
  BY <1>2, StepsOfE2e DEF Program
<1>5. pc = 1 => Current = Initialize(ScriptCapacity)
  BY <1>1 DEF ScriptedStep
<1>6. pc # 1 =>
         \/ Current = Wait
         \/ IsWait(pc - 1) /\ \E by \in {Payer, Other}, p \in 100 .. 110 : Current = Update(by, p)
         \/ script = "benchmark" /\ Current.op = "getSwap"
         \/ script = "benchmark" /\ Current = Fetches({"oracle"})
         \/ script = "benchmark" /\ Current = Average(5) /\ SentBefore(pc) = Iterations
         \/ script = "e2e-test" /\ pc = 12 /\ Current = Fetches({"buffer"})
         \/ script = "e2e-test" /\ pc = 13 /\ Current = Fetches({"slot"})
         \/ script = "e2e-test" /\ pc = 14 /\ Current = Average(SinceFirst)
         \/ Current = ParseEvents
         \/ /\ script = "e2e-test" /\ pc = 20
            /\ Current = Refused(Simulate(3, 1), "StaleOracle")
            /\ IsWait(19) /\ IsWait(18)
         \/ /\ script = "e2e-test" /\ pc = 22
            /\ Current = Refused(Update(Payer, 200), "PriceDeviationTooLarge")
            /\ IsWait(21)
  BY <1>1 DEF ScriptedStep
<1> QED
  BY <1>1, <1>2, <1>3, <1>4, <1>5, <1>6, SMTT(60)

\* A step that leaves the chain alone and goes on to the k-th one keeps the script
\* running, if what it notes is right.
LEMMA ScriptAdvances ==
    ASSUME script \in Private, ScriptRuns, UNCHANGED <<vars, script, updates>>,
           NEW k \in 2 .. Len(Program(script)) + 1, pc' = k, pc # 1,
           SentBefore(k) = SentBefore(pc), got' = {}, call' = None, DOMAIN fetched' = {},
           ScriptWaits', ScriptNotes'
    PROVE  ScriptRuns'
<1>1. slot' = slot /\ oracle' = oracle /\ buffer' = buffer /\ accounts' = accounts
  BY DEF vars, oracleVars
<1>2. ScriptChain'
  <2>1. ScriptChain
    BY DEF ScriptRuns
  <2> QED
    BY <1>1, <2>1 DEF ScriptChain, OracleExists, ScriptCapacity
<1>3. Len(updates') = SentBefore(pc)'
  <2>1. Len(updates) = SentBefore(pc)
    BY DEF ScriptRuns
  <2>2. SentBefore(pc)' = SentBefore(k)
    BY DEF SentBefore
  <2> QED
    BY <2>1, <2>2
<1>4. pc' # 1 /\ pc' \in 1 .. Len(Program(script)') + 1
  <2>1. Len(Program(script)) \in Nat /\ Program(script)' = Program(script)
    BY ScriptLength
  <2> QED
    BY <2>1
<1>5. ScriptReads'
  BY DEF ScriptReads
<1> QED
  BY <1>1, <1>2, <1>3, <1>4, <1>5 DEF ScriptRuns

\* What a wait remembers, and what is left of it.
LEMMA NotedIs ==
    ASSUME NEW name, NEW value
    PROVE  /\ DOMAIN Noted(name, value) = DOMAIN noted \cup {name}
           /\ Noted(name, value)[name] = value
           /\ \A n \in DOMAIN noted : n # name => Noted(name, value)[n] = noted[n]
  BY DEF Noted

LEMMA ForgottenIs ==
    ASSUME NEW name
    PROVE  /\ DOMAIN Forgotten(name) = DOMAIN noted \ {name}
           /\ \A n \in DOMAIN noted : n # name => Forgotten(name)[n] = noted[n]
  BY DEF Forgotten

LEMMA ScriptWaitsAt ==
    ASSUME script' = script, NEW k \in Nat, pc' = k,
           "waitingFor" \in DOMAIN noted' =>
               /\ IsWait(k)
               /\ noted'["waitingFor"] \in Nat
               /\ oracle'.last_slot <= noted'["waitingFor"]
               /\ IsWait(k - 1) => oracle'.last_slot < noted'["waitingFor"],
           IsWait(k - 1) => oracle'.last_slot < slot',
           IsWait(k - 1) /\ IsWait(k - 2) => oracle'.last_slot + 1 < slot'
    PROVE  ScriptWaits'
<1>1. IsWait(pc)' = IsWait(k) /\ IsWait(pc - 1)' = IsWait(k - 1) /\ IsWait(pc - 2)' = IsWait(k - 2)
  BY DEF IsWait
<1> QED
  BY <1>1 DEF ScriptWaits

\* After a step that is not a wait there is nothing to wait for.
LEMMA NothingIsWaitedFor ==
    ASSUME script' = script, pc \in Nat, ScriptWaits, ~ IsWait(pc),
           pc' = pc + 1, "waitingFor" \in DOMAIN noted' => "waitingFor" \in DOMAIN noted
    PROVE  ScriptWaits'
<1>1. "waitingFor" \notin DOMAIN noted'
  BY DEF ScriptWaits
<1>2. (pc + 1) - 1 = pc /\ pc + 1 \in Nat
  OBVIOUS
<1> QED
  BY <1>1, <1>2, ScriptWaitsAt

\* Only a query fetches.
LEMMA NothingInFlight ==
    ASSUME ScriptRuns, ~ Finished => Current.op # "average"
    PROVE  call = None /\ DOMAIN fetched = {}
  BY DEF ScriptRuns, ScriptReads

LEMMA StartWaitingKeeps ==
    ASSUME ScriptInvariant, script \in Private, outcome = "running", StartWaiting
    PROVE  ScriptInvariant'
<1>1. /\ ScriptRuns /\ SlotIsBounded /\ "refused" \notin complaints /\ pc \in Nat
      /\ pc \in 1 .. Len(Program(script)) /\ pc # 1 /\ IsWait(pc) /\ ScriptChain
      /\ ScriptWaits /\ ScriptNotes /\ got = {}
  <2>1. Current.op = "wait" /\ ~ Finished
    BY DEF StartWaiting, At, Running
  <2>2. ScriptRuns /\ SlotIsBounded /\ "refused" \notin complaints
        /\ pc \in 1 .. Len(Program(script)) /\ (pc # 1 => ScriptChain) /\ pc \in Nat
    BY <2>1, ScriptIsAt
  <2>3. pc # 1 /\ IsWait(pc)
    BY <2>1, <2>2, ScriptStepKinds
  <2> QED
    BY <2>2, <2>3 DEF ScriptRuns
<1>2. call = None /\ DOMAIN fetched = {}
  BY <1>1, NothingInFlight DEF StartWaiting, At
<1>3. /\ noted' = Noted("waitingFor", slot) /\ UNCHANGED <<vars, script, updates, slot, oracle>>
      /\ pc' = pc /\ got' = {} /\ call' = None /\ DOMAIN fetched' = {}
      /\ outcome' = "running" /\ complaints' = complaints /\ buffer' = buffer
  BY <1>1, <1>2 DEF StartWaiting, chainVars, vars, oracleVars, readerVars
<1>4. ScriptWaits'
  <2>1. slot \in Nat /\ oracle.last_slot <= slot
    BY <1>1 DEF SlotIsBounded, ScriptChain
  <2>2. /\ IsWait(pc - 1) => oracle.last_slot < slot
        /\ IsWait(pc - 1) /\ IsWait(pc - 2) => oracle.last_slot + 1 < slot
    BY <1>1 DEF ScriptWaits
  <2>3. noted'["waitingFor"] = slot
    BY <1>3, NotedIs
  <2> QED
    BY <1>1, <1>3, <2>1, <2>2, <2>3, ScriptWaitsAt
<1>5. ScriptNotes'
  <2>1. \A n \in DOMAIN noted : n # "waitingFor" => n \in DOMAIN noted' /\ noted'[n] = noted[n]
    <3> DEFINE N == Noted("waitingFor", slot)
    <3>1. /\ DOMAIN N = DOMAIN noted \cup {"waitingFor"}
          /\ \A n \in DOMAIN noted : n # "waitingFor" => N[n] = noted[n]
      BY DEF Noted
    <3>2. noted' = N
      BY <1>3
    <3> HIDE DEF N
    <3> QED
      BY <3>1, <3>2
  <2> QED
    BY <1>1, <1>3, <2>1 DEF ScriptNotes
<1>6. ScriptRuns'
  <2>1. pc \in 2 .. Len(Program(script)) + 1
    BY <1>1, ScriptLength
  <2> QED
    BY <1>1, <1>3, <1>4, <1>5, <2>1, ScriptAdvances
<1> QED
  BY <1>1, <1>3, <1>6, ScriptGoesOn

\* A wait ends in a slot after the one it began in.
LEMMA StopWaitingKeeps ==
    ASSUME ScriptInvariant, script \in Private, outcome = "running", StopWaiting
    PROVE  ScriptInvariant'
<1>1. /\ ScriptRuns /\ SlotIsBounded /\ "refused" \notin complaints /\ pc \in Nat
      /\ pc \in 1 .. Len(Program(script)) /\ pc # 1 /\ IsWait(pc) /\ ScriptChain
      /\ ScriptWaits /\ ScriptNotes /\ got = {} /\ Current.op = "wait" /\ ~ Finished
  <2>1. Current.op = "wait" /\ ~ Finished
    BY DEF StopWaiting, At, Running
  <2>2. ScriptRuns /\ SlotIsBounded /\ "refused" \notin complaints
        /\ pc \in 1 .. Len(Program(script)) /\ (pc # 1 => ScriptChain) /\ pc \in Nat
    BY <2>1, ScriptIsAt
  <2>3. pc # 1 /\ IsWait(pc)
    BY <2>1, <2>2, ScriptStepKinds
  <2> QED
    BY <2>1, <2>2, <2>3 DEF ScriptRuns
<1>2. call = None /\ DOMAIN fetched = {}
  BY <1>1, NothingInFlight
<1>3. /\ noted' = Forgotten("waitingFor") /\ UNCHANGED <<vars, script, updates, slot, oracle>>
      /\ pc' = pc + 1 /\ got' = {} /\ call' = None /\ DOMAIN fetched' = {}
      /\ outcome' = "running" /\ complaints' = complaints
  BY <1>1, <1>2 DEF StopWaiting, Passed, chainVars, vars, oracleVars, readerVars
<1>4. ScriptWaits'
  <2> DEFINE w == noted["waitingFor"]
  <2>1. "waitingFor" \notin DOMAIN noted'
    BY <1>3, ForgottenIs
  <2>2. /\ "waitingFor" \in DOMAIN noted /\ slot > w /\ w \in Nat /\ oracle.last_slot <= w
        /\ IsWait(pc - 1) => oracle.last_slot < w
    BY <1>1 DEF StopWaiting, ScriptWaits
  <2>3. slot \in Nat /\ oracle.last_slot \in Nat
    BY <1>1 DEF SlotIsBounded, ScriptChain, ScriptOracle
  <2> HIDE DEF w
  <2>4. oracle.last_slot < slot /\ (IsWait(pc - 1) => oracle.last_slot + 1 < slot)
    BY <2>2, <2>3
  <2>5. (pc + 1) - 1 = pc /\ (pc + 1) - 2 = pc - 1 /\ pc + 1 \in Nat
    BY <1>1
  <2> QED
    BY <1>3, <2>1, <2>4, <2>5, ScriptWaitsAt
<1>5. ScriptNotes'
  <2>1. script = "e2e-test" => pc + 1 \notin {13, 14}
    BY <1>1, ScriptStepKinds
  <2> QED
    BY <1>1, <1>3, <2>1 DEF ScriptNotes
<1>6. ScriptRuns'
  <2>1. pc + 1 \in 2 .. Len(Program(script)) + 1
    BY <1>1, ScriptLength
  <2>2. SentBefore(pc + 1) = SentBefore(pc)
    BY <1>1, StepOfScript
  <2> QED
    BY <1>1, <1>3, <1>4, <1>5, <2>1, <2>2, ScriptAdvances
<1> QED
  BY <1>1, <1>3, <1>6, ScriptGoesOn

LEMMA ScriptAtWork ==
    ASSUME ScriptInvariant, script \in Private, outcome = "running", ~ Finished
    PROVE  /\ ScriptRuns /\ SlotIsBounded /\ "refused" \notin complaints
           /\ pc \in Nat /\ pc \in 1 .. Len(Program(script))
           /\ pc + 1 \in 2 .. Len(Program(script)) + 1
           /\ Current.op # "initialize" => pc # 1 /\ ScriptChain
           /\ ScriptWaits /\ ScriptNotes /\ got = {}
           /\ updates \in Seq(ScriptUpdate) /\ Len(updates) = SentBefore(pc)
           /\ SentBefore(pc + 1) =
                 IF Current.op = "update" THEN SentBefore(pc) + 1 ELSE SentBefore(pc)
           /\ Current.op # "average" => call = None /\ DOMAIN fetched = {}
           /\ IsWait(pc) <=> Current.op = "wait"
<1>1. /\ ScriptRuns /\ SlotIsBounded /\ "refused" \notin complaints
      /\ pc \in 1 .. Len(Program(script)) /\ (pc # 1 => ScriptChain) /\ pc \in Nat
  BY ScriptIsAt
<1>2. /\ Current.op # "initialize" => pc # 1
      /\ IsWait(pc) <=> Current.op = "wait"
  BY <1>1, ScriptStepKinds
<1>3. SentBefore(pc + 1) = IF Current.op = "update" THEN SentBefore(pc) + 1 ELSE SentBefore(pc)
  BY <1>1, StepOfScript
<1>4. Current.op # "average" => call = None /\ DOMAIN fetched = {}
  BY <1>1, NothingInFlight
<1>5. pc + 1 \in 2 .. Len(Program(script)) + 1
  BY <1>1, ScriptLength
<1>6. /\ ScriptWaits /\ ScriptNotes /\ got = {}
      /\ updates \in Seq(ScriptUpdate) /\ Len(updates) = SentBefore(pc)
  BY <1>1 DEF ScriptRuns
<1> QED
  BY <1>1, <1>2, <1>3, <1>4, <1>5, <1>6

\* A step that only reads, is done.
LEMMA ScriptPasses ==
    ASSUME ScriptInvariant, script \in Private, outcome = "running", ~ Finished,
           Current.op \notin {"wait", "initialize", "update"},
           UNCHANGED <<vars, script, outcome>>, "refused" \notin complaints', pc' = pc + 1,
           got' = {}, call' = None, DOMAIN fetched' = {},
           "waitingFor" \in DOMAIN noted' => "waitingFor" \in DOMAIN noted,
           ScriptNotes'
    PROVE  ScriptInvariant'
<1>1. /\ ScriptRuns /\ pc \in Nat /\ pc + 1 \in 2 .. Len(Program(script)) + 1
      /\ pc # 1 /\ ScriptWaits /\ ~ IsWait(pc) /\ SentBefore(pc + 1) = SentBefore(pc)
  BY ScriptAtWork
<1>2. ScriptWaits'
  BY <1>1, NothingIsWaitedFor
<1>3. UNCHANGED <<vars, script, updates>>
  BY DEF vars, oracleVars
<1>4. ScriptRuns'
  BY <1>1, <1>2, <1>3, ScriptAdvances
<1> QED
  BY <1>4, ScriptGoesOn

\* What e2e-test.ts notes lasts for the step after.
LEMMA NotesLast ==
    ASSUME script' = script, pc' \in Nat, script = "e2e-test" => pc' \notin {13, 14}
    PROVE  ScriptNotes'
  BY DEF ScriptNotes

LEMMA SendInitializeKeeps ==
    ASSUME ScriptInvariant, script \in Private, outcome = "running", SendInitialize
    PROVE  ScriptInvariant'
<1>1. /\ ~ Finished /\ Current.op = "initialize"
  BY DEF SendInitialize, At, Running
<1>2. /\ ScriptRuns /\ SlotIsBounded /\ "refused" \notin complaints /\ pc \in Nat
      /\ pc \in 1 .. Len(Program(script)) /\ pc + 1 \in 2 .. Len(Program(script)) + 1
      /\ got = {} /\ updates \in Seq(ScriptUpdate) /\ Len(updates) = SentBefore(pc)
      /\ SentBefore(pc + 1) = SentBefore(pc) /\ ScriptWaits
      /\ call = None /\ DOMAIN fetched = {} /\ ~ IsWait(pc)
  BY <1>1, ScriptAtWork
<1>3. pc = 1 /\ Current = Initialize(ScriptCapacity)
  BY <1>1, <1>2, ScriptStepKinds
<1>4. ~ OracleExists /\ updates = <<>>
  BY <1>2, <1>3 DEF ScriptRuns, SentBefore
<1>5. /\ InitializeOracle(Payer, ScriptCapacity) /\ (Passed \/ Throws("rpc"))
      /\ UNCHANGED <<readerVars, noted, got>>
  BY <1>3, <1>4 DEF SendInitialize, Initialize
<1>6. CASE Throws("rpc")
  BY <1>6, ScriptStops DEF Throws
<1>7. CASE Passed
  <2>1. script' = script /\ pc' = pc + 1 /\ outcome' = "running" /\ complaints' = complaints
    BY <1>7 DEF Passed
  <2>2. /\ ScriptChain' /\ slot' = slot /\ updates' = updates /\ oracle'.last_slot = slot
    BY <1>2, <1>4, <1>5, <2>1, ScriptInitializes
  <2>3. noted' = noted /\ got' = {} /\ call' = None /\ DOMAIN fetched' = {}
    BY <1>2, <1>5 DEF readerVars
  <2>4. ScriptWaits'
    BY <1>2, <2>1, <2>3, NothingIsWaitedFor
  <2>5. ScriptNotes'
    BY <1>3, <2>1, NotesLast
  <2>6. ScriptReads'
    BY <2>3 DEF ScriptReads
  <2>7. SentBefore(pc)' = SentBefore(pc + 1) /\ Program(script)' = Program(script)
    BY <2>1 DEF SentBefore
  <2>8. ScriptRuns'
    <3>1. pc' # 1 /\ pc' \in 1 .. Len(Program(script)') + 1
      BY <1>2, <1>3, <2>1, <2>7
    <3> QED
      BY <1>2, <2>2, <2>3, <2>4, <2>5, <2>6, <2>7, <3>1 DEF ScriptRuns, SlotIsBounded
  <2> QED
    BY <1>2, <2>1, <2>8, ScriptGoesOn
<1> QED
  BY <1>5, <1>6, <1>7

\* Every update of a script is accepted.
LEMMA SendUpdateKeeps ==
    ASSUME ScriptInvariant, script \in Private, outcome = "running", SendUpdate
    PROVE  ScriptInvariant'
<1>1. /\ ~ Finished /\ Current.op = "update"
  BY DEF SendUpdate, At, Running
<1>2. /\ ScriptRuns /\ SlotIsBounded /\ "refused" \notin complaints /\ pc \in Nat
      /\ pc \in 1 .. Len(Program(script)) /\ pc + 1 \in 2 .. Len(Program(script)) + 1
      /\ got = {} /\ updates \in Seq(ScriptUpdate) /\ Len(updates) = SentBefore(pc)
      /\ SentBefore(pc + 1) = SentBefore(pc) + 1 /\ ScriptWaits /\ ScriptChain /\ pc # 1
      /\ call = None /\ DOMAIN fetched = {} /\ ~ IsWait(pc)
  BY <1>1, ScriptAtWork
<1>3. PICK by \in {Payer, Other}, p \in 100 .. 110 : Current = Update(by, p)
  BY <1>1, <1>2, ScriptStepKinds
<1>4. by \in Users /\ Current.by = by /\ Current.price = p
  BY <1>3, ScriptsAssumption DEF Update
<1>5. IsWait(pc - 1) /\ oracle.last_slot < slot
  <2>1. IsWait(pc - 1)
    BY <1>1, <1>2, ScriptStepKinds
  <2> QED
    BY <1>2, <2>1 DEF ScriptWaits
<1>6. UpdateError(p) = "none"
  BY <1>2, <1>5, ScriptUpdatePasses
<1>7. /\ UpdatePrice(by, p, None) /\ (Passed \/ Throws("rpc"))
      /\ UNCHANGED <<readerVars, noted, got>>
  BY <1>4, <1>6 DEF SendUpdate
<1>8. CASE Throws("rpc")
  BY <1>8, ScriptStops DEF Throws
<1>9. CASE Passed
  <2>1. script' = script /\ pc' = pc + 1 /\ outcome' = "running" /\ complaints' = complaints
    BY <1>9 DEF Passed
  <2>2. /\ ScriptChain' /\ slot' = slot /\ oracle'.last_slot = slot
        /\ updates' \in Seq(ScriptUpdate) /\ Len(updates') = Len(updates) + 1
    BY <1>2, <1>4, <1>7, <2>1, ScriptUpdates
  <2>3. noted' = noted /\ got' = {} /\ call' = None /\ DOMAIN fetched' = {}
    BY <1>2, <1>7 DEF readerVars
  <2>4. ScriptWaits'
    BY <1>2, <2>1, <2>3, NothingIsWaitedFor
  <2>5. ScriptNotes'
    <3>1. script = "e2e-test" => pc # 12 /\ pc # 13
      BY <1>1, <1>2, ScriptStepKinds
    <3>2. pc + 1 \in Nat /\ (script = "e2e-test" => pc + 1 \notin {13, 14})
      BY <1>2, <3>1
    <3> QED
      BY <2>1, <3>2, NotesLast
  <2>6. ScriptReads'
    BY <2>3 DEF ScriptReads
  <2>7. SentBefore(pc)' = SentBefore(pc + 1) /\ Program(script)' = Program(script)
    BY <2>1 DEF SentBefore
  <2>8. ScriptRuns'
    <3>1. pc' # 1 /\ pc' \in 1 .. Len(Program(script)') + 1
      BY <1>2, <2>1, <2>7
    <3> QED
      BY <1>2, <2>2, <2>3, <2>4, <2>5, <2>6, <2>7, <3>1 DEF ScriptRuns, SlotIsBounded
  <2> QED
    BY <1>2, <2>1, <2>8, ScriptGoesOn
<1> QED
  BY <1>7, <1>8, <1>9

\* The update and the query that must be refused are, for the reason expected.
LEMMA ExpectRefusalKeeps ==
    ASSUME ScriptInvariant, script \in Private, outcome = "running", ExpectRefusal
    PROVE  ScriptInvariant'
<1>1. ~ Finished /\ Current.op = "refused"
  BY DEF ExpectRefusal, At, Running
<1>2. /\ ScriptRuns /\ SlotIsBounded /\ pc \in Nat /\ pc \in 1 .. Len(Program(script))
      /\ ScriptWaits /\ ScriptChain /\ updates \in Seq(ScriptUpdate)
      /\ Len(updates) = SentBefore(pc) /\ got = {} /\ call = None /\ DOMAIN fetched = {}
      /\ "refused" \notin complaints
  BY <1>1, ScriptAtWork
<1>3. \/ /\ script = "e2e-test" /\ pc = 20
         /\ Current = Refused(Simulate(3, 1), "StaleOracle")
         /\ IsWait(19) /\ IsWait(18)
      \/ /\ script = "e2e-test" /\ pc = 22
         /\ Current = Refused(Update(Payer, 200), "PriceDeviationTooLarge")
         /\ IsWait(21)
  BY <1>1, <1>2, ScriptStepKinds
<1>4. ErrorOf(Current.step) = Current.error /\ Current.error # "none"
  <2>1. CASE pc = 20
    <3>1. Current = Refused(Simulate(3, 1), "StaleOracle") /\ IsWait(pc - 1) /\ IsWait(pc - 2)
      BY <1>3, <2>1
    <3>2. oracle.last_slot + 1 < slot
      BY <1>2, <3>1 DEF ScriptWaits
    <3>3. buffer.len # 0
      <4>1. Len(updates) = 6 /\ buffer.capacity = 32
        BY <1>2, <1>3, <2>1 DEF SentBefore, ScriptChain, ScriptCapacity
      <4> QED
        BY <1>2, <4>1 DEF ScriptChain, Smaller
    <3>4. GetSwap(3, 1).error = "StaleOracle"
      BY <1>2, <3>2, <3>3, ScriptQueryIsStale
    <3> QED
      BY <3>1, <3>4 DEF ErrorOf, Refused, Simulate
  <2>2. CASE pc = 22
    <3>1. Current = Refused(Update(Payer, 200), "PriceDeviationTooLarge") /\ IsWait(pc - 1)
      BY <1>3, <2>2
    <3>2. oracle.last_slot < slot
      BY <1>2, <3>1 DEF ScriptWaits
    <3>3. oracle.last_price # 0
      <4>1. Len(updates) = 6
        BY <1>2, <1>3, <2>2 DEF SentBefore
      <4>2. updates # <<>>
        BY <4>1
      <4> QED
        BY <1>2, <4>2 DEF ScriptChain
    <3>4. UpdateError(200) = "PriceDeviationTooLarge"
      BY <1>2, <3>2, <3>3, ScriptJumpIsRefused
    <3> QED
      BY <3>1, <3>4 DEF ErrorOf, Refused, Update
  <2> QED
    BY <1>3, <2>1, <2>2
<1>5. UNCHANGED <<vars, readerVars, noted, got>> /\ Passed
  BY <1>4 DEF ExpectRefusal
<1>6. ScriptNotes'
  BY <1>3, <1>5, NotesLast DEF Passed
<1> QED
  BY <1>1, <1>2, <1>5, <1>6, ScriptPasses DEF Passed, readerVars

LEMMA SimulateGetSwapKeeps ==
    ASSUME ScriptInvariant, script \in Private, outcome = "running", SimulateGetSwap
    PROVE  ScriptInvariant'
<1>1. ~ Finished /\ Current.op = "getSwap"
  BY DEF SimulateGetSwap, At, Running
<1>2. /\ pc \in Nat /\ pc \in 1 .. Len(Program(script))
      /\ got = {} /\ call = None /\ DOMAIN fetched = {} /\ "refused" \notin complaints
  BY <1>1, ScriptAtWork
<1>3. script # "e2e-test"
  BY <1>1, <1>2, ScriptStepKinds
<1>4. Passed /\ UNCHANGED <<vars, call, fetched, noted, got>>
  BY DEF SimulateGetSwap, chainVars, readerVars
<1>5. ScriptNotes'
  BY <1>2, <1>3, <1>4, NotesLast DEF Passed
<1> QED
  BY <1>1, <1>2, <1>4, <1>5, ScriptPasses DEF Passed

LEMMA ReadEventsKeeps ==
    ASSUME ScriptInvariant, script \in Private, outcome = "running", ReadEvents
    PROVE  ScriptInvariant'
<1>1. ~ Finished /\ Current.op = "events"
  BY DEF ReadEvents, At, Running
<1>2. /\ pc \in Nat /\ pc \in 1 .. Len(Program(script))
      /\ got = {} /\ call = None /\ DOMAIN fetched = {} /\ "refused" \notin complaints
  BY <1>1, ScriptAtWork
<1>3. /\ UNCHANGED <<vars, call, fetched, noted, got, script, outcome>> /\ pc' = pc + 1
      /\ "refused" \notin complaints'
  BY <1>1, <1>2 DEF ReadEvents, Passed, Complains, chainVars, readerVars
<1>4. ScriptNotes'
  <2>1. script = "e2e-test" => pc # 12 /\ pc # 13
    BY <1>1, <1>2, ScriptStepKinds
  <2>2. pc + 1 \in Nat /\ (script = "e2e-test" => pc + 1 \notin {13, 14})
    BY <1>2, <2>1
  <2> QED
    BY <1>3, <2>2, NotesLast
<1> QED
  BY <1>1, <1>2, <1>3, <1>4, ScriptPasses

\* What e2e-test.ts reads is what its window is computed from.
LEMMA FetchOneKeeps ==
    ASSUME ScriptInvariant, script \in Private, outcome = "running", FetchOne
    PROVE  ScriptInvariant'
<1>1. ~ Finished /\ Current.op = "read"
  BY DEF FetchOne, At, Running
<1>2. /\ pc \in Nat /\ pc \in 1 .. Len(Program(script)) /\ ScriptChain /\ SlotIsBounded
      /\ got = {} /\ call = None /\ DOMAIN fetched = {} /\ "refused" \notin complaints
      /\ ScriptNotes
  BY <1>1, ScriptAtWork
<1>3. \/ script = "benchmark" /\ Current = Fetches({"oracle"})
      \/ script = "e2e-test" /\ pc = 12 /\ Current = Fetches({"buffer"})
      \/ script = "e2e-test" /\ pc = 13 /\ Current = Fetches({"slot"})
  BY <1>1, <1>2, ScriptStepKinds
<1>4. PICK only : /\ Current.names = {only} /\ only \in {"oracle", "buffer", "slot"}
                  /\ script = "e2e-test" /\ pc = 12 => only = "buffer"
                  /\ script = "e2e-test" /\ pc = 13 => only = "slot"
  BY <1>3 DEF Fetches
<1>5. /\ noted' = Noted(only, OnChain(only)) /\ Passed /\ got' = {}
      /\ UNCHANGED <<vars, slot, buffer, oracle, call, fetched>>
  <2>1. OracleExists
    BY <1>2 DEF ScriptChain
  <2>2. Current.names \ got = {only} /\ got \cup {only} = Current.names
    BY <1>2, <1>4
  <2>3. /\ noted' = Noted(only, OnChain(only))
        /\ IF got \cup {only} = Current.names
           THEN Passed /\ got' = {}
           ELSE got' = got \cup {only} /\ UNCHANGED <<script, pc, complaints, outcome>>
    BY <2>1, <2>2 DEF FetchOne
  <2>4. UNCHANGED <<vars, slot, buffer, oracle, call, fetched>>
    BY DEF FetchOne, chainVars, readerVars, vars, oracleVars
  <2> QED
    BY <2>2, <2>3, <2>4
<1>6. /\ only \in DOMAIN noted' /\ noted'[only] = OnChain(only)
      /\ \A n \in DOMAIN noted : n # only => n \in DOMAIN noted' /\ noted'[n] = noted[n]
      /\ \A n \in DOMAIN noted' : n # only => n \in DOMAIN noted
  BY <1>5 DEF Noted
<1>7. ScriptNotes'
  <2>1. CASE script = "e2e-test" /\ pc = 12
    <3>1. only = "buffer" /\ OnChain(only) = buffer
      BY <1>4, <2>1 DEF OnChain
    <3> QED
      BY <1>5, <1>6, <2>1, <3>1 DEF ScriptNotes, Passed
  <2>2. CASE script = "e2e-test" /\ pc = 13
    <3>1. only = "slot" /\ OnChain(only) = slot
      BY <1>4, <2>2 DEF OnChain
    <3>2. slot \in Nat /\ oracle.last_slot <= slot /\ slot <= slot
      BY <1>2 DEF SlotIsBounded, ScriptChain
    <3>3. "buffer" \in DOMAIN noted /\ noted["buffer"] = buffer
      BY <1>2, <2>2 DEF ScriptNotes
    <3>4. "buffer" \in DOMAIN noted' /\ noted'["buffer"] = buffer
      BY <1>6, <3>1, <3>3
    <3> QED
      BY <1>5, <1>6, <2>2, <3>1, <3>2, <3>4 DEF ScriptNotes, Passed
  <2>3. CASE script = "benchmark"
    BY <1>2, <1>5, <2>3, NotesLast DEF Passed
  <2> QED
    BY <1>3, <2>1, <2>2, <2>3
<1>8. "waitingFor" \in DOMAIN noted' => "waitingFor" \in DOMAIN noted
  BY <1>4, <1>6
<1> QED
  BY <1>1, <1>2, <1>5, <1>7, <1>8, ScriptPasses DEF Passed

\* A program that ends, or that the node stops.
LEMMA EndsKeeps ==
    ASSUME ScriptInvariant, script \in Private, outcome = "running", Ends \/ RpcFails
    PROVE  ScriptInvariant'
<1>1. UNCHANGED <<script, pc, complaints>> /\ outcome' \in {"rpc", "passed"}
  BY DEF Ends, RpcFails, Throws
<1> QED
  BY <1>1, ScriptStops

\* The node fails in a try block: the check counts as failed, and the script goes on.
LEMMA RpcFailsInTryKeeps ==
    ASSUME ScriptInvariant, script \in Private, outcome = "running", RpcFailsInTry
    PROVE  ScriptInvariant'
<1>1. /\ ~ Finished /\ UNCHANGED <<vars, call, fetched, script, got, outcome, slot, oracle>>
      /\ noted' = Forgotten("waitingFor") /\ complaints' = complaints \cup {"rpc"}
  BY DEF RpcFailsInTry, WaitsInTry, At, Running, chainVars, readerVars, vars, oracleVars
<1>2. /\ pc \in Nat /\ pc \in 1 .. Len(Program(script)) /\ ScriptRuns
      /\ got = {} /\ "refused" \notin complaints
  BY <1>1, ScriptAtWork
<1>3. "waitingFor" \notin DOMAIN noted'
  BY <1>1, ForgottenIs
<1>4. CASE At("refused") /\ pc' = pc + 1
  <2>1. Current.op = "refused"
    BY <1>4 DEF At
  <2>2. script = "e2e-test" /\ pc \in {20, 22}
    BY <1>2, <2>1, ScriptStepKinds
  <2>3. call = None /\ DOMAIN fetched = {}
    BY <1>1, <2>1, ScriptAtWork
  <2>4. ScriptNotes'
    BY <1>1, <1>4, <2>2, NotesLast
  <2>5. "refused" \notin complaints'
    BY <1>1, <1>2
  <2> QED
    BY <1>1, <1>2, <1>3, <1>4, <2>1, <2>3, <2>4, <2>5, ScriptPasses
<1>5. CASE WaitsInTry /\ pc' = pc + 2
  <2>1. /\ Current.op = "wait" /\ pc < Len(Program(script))
        /\ Program(script)[pc + 1].op = "refused"
        /\ Program(script)[pc + 1].step.op = "update"
    BY <1>5 DEF WaitsInTry, At
  <2>2. script = "e2e-test" /\ pc = 21 /\ Len(Program(script)) = 22
    <3> DEFINE s == Program(script)[pc + 1]
    <3>1. pc + 1 \in 1 .. Len(Program(script)) /\ pc + 1 # 1
      BY <1>2, <2>1, ScriptLength
    <3>2. ScriptedStep(pc + 1, s)
      BY <3>1, StepOfE2e, StepOfBenchmark DEF Private, StepIsScripted
    <3>3. s.op = "refused" /\ s.step.op = "update"
      BY <2>1
    <3> HIDE DEF s
    <3>4. script = "e2e-test" /\ pc + 1 = 22
      BY <3>1, <3>2, <3>3
         DEF ScriptedStep, Wait, Update, Fetches, Average, ParseEvents, Refused, Simulate
    <3> QED
      BY <1>2, <3>4, StepOfE2e
  <2>3. call = None /\ DOMAIN fetched = {}
    BY <1>1, <2>1, ScriptAtWork
  <2>4. ~ IsWait(22)
    <3>1. Program(script)[22].op = "refused"
      BY <2>1, <2>2
    <3> QED
      BY <3>1 DEF IsWait
  <2>5. pc' = 23 /\ pc' \in 2 .. Len(Program(script)) + 1
    <3>1. pc' = pc + 2
      BY <1>5
    <3>2. pc' = 23
      BY <2>2, <3>1
    <3>3. 23 \in 2 .. 22 + 1
      OBVIOUS
    <3> QED
      BY <2>2, <3>2, <3>3
  <2>6. ScriptWaits' /\ ScriptNotes'
    <3>1. 23 \in Nat /\ 23 - 1 = 22
      OBVIOUS
    <3> QED
      BY <1>1, <1>3, <2>4, <2>5, <3>1, ScriptWaitsAt, NotesLast
  <2>7. SentBefore(23) = SentBefore(pc)
    BY <2>2 DEF SentBefore
  <2>8. ScriptRuns'
    <3>1. UNCHANGED <<vars, script, updates>> /\ pc # 1
      BY <1>1, <2>2 DEF vars, oracleVars
    <3> QED
      BY <1>1, <1>2, <2>3, <2>5, <2>6, <2>7, <3>1, ScriptAdvances
  <2> QED
    BY <1>1, <1>2, <2>8, ScriptGoesOn
<1> QED
  BY <1>4, <1>5 DEF RpcFailsInTry

\* A query begins, of the window the script asks for.
LEMMA StartAverageKeeps ==
    ASSUME ScriptInvariant, script \in Private, outcome = "running", StartAverage
    PROVE  ScriptInvariant'
<1>1. ~ Finished /\ Current.op = "average" /\ call = None
  BY DEF StartAverage, At, Running
<1>2. /\ pc \in Nat /\ pc \in 1 .. Len(Program(script)) /\ ScriptRuns /\ ScriptReads
      /\ got = {} /\ "refused" \notin complaints
      /\ DOMAIN fetched = {}
  BY <1>1, ScriptAtWork DEF ScriptRuns, ScriptReads
<1>3. UNCHANGED <<vars, slot, oracle, buffer, updates, accounts, fetched, noted, got>>
  BY DEF StartAverage, vars, oracleVars
<1>4. CASE WindowOf(Current) > 0
  <2>1. /\ call' = [windowSlots |-> WindowOf(Current), staleness |-> WindowOf(Current)]
        /\ UNCHANGED <<script, pc, noted, got, complaints, outcome>>
    BY <1>4 DEF StartAverage, scriptVars
  <2>2. Current' = Current /\ WindowOf(Current)' = WindowOf(Current) /\ (Finished' <=> Finished)
    BY <1>3, <2>1 DEF Current, WindowOf, Finished
  <2>3. ScriptReads'
    <3>1. \A r : ~ Fetched(r)'
      BY <1>2, <1>3 DEF Fetched
    <3>2. DOMAIN fetched' = {}
      BY <1>2, <1>3
    <3> QED
      BY <1>1, <2>1, <2>2, <3>1, <3>2 DEF ScriptReads
  <2>4. ScriptRuns'
    BY <1>2, <1>3, <2>1, <2>3
       DEF ScriptRuns, ScriptChain, ScriptCapacity, OracleExists, SentBefore, ScriptWaits,
           IsWait, ScriptNotes
  <2> QED
    BY <1>2, <2>1, <2>4, ScriptGoesOn
<1>5. CASE ~ (WindowOf(Current) > 0)
  <2>1. /\ UNCHANGED <<call, script, complaints, outcome>> /\ pc' = pc + 1
    BY <1>5 DEF StartAverage, Passed
  <2>2. ScriptNotes'
    <3>1. script = "e2e-test" => pc # 12 /\ pc # 13
      BY <1>1, <1>2, ScriptStepKinds
    <3>2. pc + 1 \in Nat /\ (script = "e2e-test" => pc + 1 \notin {13, 14})
      BY <1>2, <3>1
    <3> QED
      BY <2>1, <3>2, NotesLast
  <2> QED
    BY <1>1, <1>2, <1>3, <2>1, <2>2, ScriptPasses
<1> QED
  BY <1>4, <1>5

\* A request is answered with what the chain holds.
LEMMA FetchKeeps ==
    ASSUME ScriptInvariant, script \in Private, outcome = "running", Fetch
    PROVE  ScriptInvariant'
<1>1. ~ Finished /\ Current.op = "average"
  BY DEF Fetch, At, Running
<1>2. /\ pc \in Nat /\ pc \in 1 .. Len(Program(script)) /\ ScriptRuns /\ ScriptReads
      /\ "refused" \notin complaints /\ SlotIsBounded /\ ScriptChain /\ ScriptNotes
  BY <1>1, ScriptAtWork DEF ScriptRuns
<1>3. UNCHANGED <<vars, slot, oracle, buffer, updates, accounts, call, script, pc, noted, got,
                  complaints, outcome>>
  BY DEF Fetch, FetchOracle, FetchObservationBuffer, GetSlot, Receive, vars, oracleVars, scriptVars
<1>4. PICK r \in Requests : Receive(r, IF r = "oracle" THEN oracle
                                       ELSE IF r = "buffer" THEN buffer ELSE slot)
  BY DEF Fetch, FetchOracle, FetchObservationBuffer, GetSlot, Requests
<1>5. /\ call # None
      /\ DOMAIN fetched' = DOMAIN fetched \cup {r}
      /\ \A q \in DOMAIN fetched : q # r => fetched'[q] = fetched[q]
      /\ fetched'[r] = IF r = "oracle" THEN oracle ELSE IF r = "buffer" THEN buffer ELSE slot
  BY <1>4 DEF Receive
<1>6. QueriedFrom <= slot /\ slot \in Nat /\ slot <= slot
  <2>1. slot \in Nat /\ slot <= slot /\ oracle.last_slot <= slot
    BY <1>2 DEF SlotIsBounded, ScriptChain
  <2>2. script = "e2e-test" => pc = 14
    BY <1>1, <1>2, ScriptStepKinds
  <2> QED
    BY <1>2, <2>1, <2>2 DEF QueriedFrom, ScriptNotes
<1>7. /\ Current' = Current /\ WindowOf(Current)' = WindowOf(Current) /\ (Finished' <=> Finished)
      /\ QueriedFrom' = QueriedFrom
  BY <1>3 DEF Current, WindowOf, Finished, QueriedFrom
<1>8. ScriptReads'
  <2>1. /\ call = [windowSlots |-> WindowOf(Current), staleness |-> WindowOf(Current)]
        /\ "oracle" \in DOMAIN fetched => fetched["oracle"] = oracle
        /\ "buffer" \in DOMAIN fetched => fetched["buffer"] = buffer
        /\ "slot" \in DOMAIN fetched =>
              fetched["slot"] \in Nat /\ QueriedFrom <= fetched["slot"] /\ fetched["slot"] <= slot
    BY <1>2, <1>5 DEF ScriptReads, Fetched
  <2>2. /\ "oracle" \in DOMAIN fetched' => fetched'["oracle"] = oracle
        /\ "buffer" \in DOMAIN fetched' => fetched'["buffer"] = buffer
    BY <1>5, <2>1
  <2>3. "slot" \in DOMAIN fetched' =>
           /\ fetched'["slot"] \in Nat
           /\ QueriedFrom <= fetched'["slot"] /\ fetched'["slot"] <= slot
    <3>1. CASE r = "slot"
      BY <1>5, <1>6, <3>1
    <3>2. CASE r # "slot"
      BY <1>5, <2>1, <3>2
    <3> QED
      BY <3>1, <3>2
  <2> QED
    BY <1>1, <1>3, <1>5, <1>7, <2>1, <2>2, <2>3 DEF ScriptReads, Fetched
<1>9. ScriptRuns'
  BY <1>2, <1>3, <1>8
     DEF ScriptRuns, ScriptChain, ScriptCapacity, OracleExists, SentBefore, ScriptWaits,
         IsWait, ScriptNotes
<1> QED
  BY <1>2, <1>3, <1>9, ScriptGoesOn

\* A query of a script fails for its age alone.
LEMMA GetAverageKeeps ==
    ASSUME ScriptInvariant, script \in Private, outcome = "running", GetAverage
    PROVE  ScriptInvariant'
<1>1. ~ Finished /\ Current.op = "average" /\ Answered
  BY DEF GetAverage, At, Running
<1>2. /\ pc \in Nat /\ pc \in 1 .. Len(Program(script)) /\ ScriptRuns
      /\ got = {} /\ "refused" \notin complaints /\ SlotIsBounded
  BY <1>1, ScriptAtWork
<1>3. call # None
  BY <1>1, <1>2 DEF Answered, Requests, Fetched, ScriptRuns, ScriptReads
<1>4. UNCHANGED <<vars, slot, updates, got>>
  BY DEF GetAverage, vars, oracleVars
<1>5. CASE Answer.error = "none"
  <2>1. /\ noted' = Noted("averagedAt", fetched["slot"]) /\ call' = None /\ DOMAIN fetched' = {}
        /\ pc' = pc + 1 /\ UNCHANGED <<script, complaints, outcome>>
    BY <1>5 DEF GetAverage, Passed
  <2>2. "waitingFor" \in DOMAIN noted' => "waitingFor" \in DOMAIN noted
    BY <2>1 DEF Noted
  <2>3. ScriptNotes'
    <3>1. script = "e2e-test" => pc # 12 /\ pc # 13
      BY <1>1, <1>2, ScriptStepKinds
    <3>2. pc + 1 \in Nat /\ (script = "e2e-test" => pc + 1 \notin {13, 14})
      BY <1>2, <3>1
    <3> QED
      BY <2>1, <3>2, NotesLast
  <2> QED
    BY <1>1, <1>2, <1>4, <2>1, <2>2, <2>3, ScriptPasses
<1>6. CASE Answer.error # "none"
  <2>1. /\ outcome' = Answer.error
        /\ UNCHANGED <<script, pc, complaints, call, fetched, noted>>
    BY <1>6 DEF GetAverage, Throws, readerVars
  <2>2. script = "e2e-test" => outcome' = "Stale" /\ fetched'["slot"] - noted'["slot"] >= 4
    BY <1>1, <1>2, <1>3, <1>6, <2>1, E2eAnswer
  <2>3. script = "benchmark" => outcome' = "Stale" /\ slot' - updates'[Iterations].slot > 5
    BY <1>1, <1>2, <1>3, <1>4, <1>6, <2>1, BenchmarkAnswer
  <2>4. outcome' = "Stale"
    BY <2>2, <2>3 DEF Private
  <2> QED
    BY <2>1, <2>2, <2>3, <2>4
       DEF ScriptInvariant, OnlyDelayStopsScripts, RefusalsAreTheExpectedOnes, Private
<1> QED
  BY <1>5, <1>6

\* The clock only makes what a script waits for come.
LEMMA ClockKeeps ==
    ASSUME ScriptInvariant, script \in Private, outcome = "running", Clock
    PROVE  ScriptInvariant'
<1>1. /\ ScriptRuns /\ SlotIsBounded /\ pc \in Nat \ {0} /\ "refused" \notin complaints
      /\ pc # 1 => ScriptChain
  BY ScriptIsAt
<1>2. /\ UNCHANGED <<oracle, buffer, updates, accounts, call, fetched, script, pc, noted, got,
                     complaints, outcome>>
      /\ slot' = slot + 1 /\ slot < MaxSlot
  BY DEF Clock, AdvanceSlot, oracleVars, readerVars, scriptVars
<1>3. slot \in Nat /\ slot' \in Nat /\ slot' <= MaxSlot /\ slot <= slot'
  BY <1>1, <1>2, BoundsAssumption DEF SlotIsBounded
<1>4. pc # 1 => ScriptChain' /\ oracle.last_slot \in Nat
  <2> SUFFICES ASSUME pc # 1 PROVE ScriptChain' /\ oracle.last_slot \in Nat
    OBVIOUS
  <2>1. ScriptChain
    BY <1>1
  <2>2. oracle.last_slot \in Nat /\ oracle.last_slot <= slot
    BY <2>1 DEF ScriptChain, ScriptOracle
  <2>3. oracle'.last_slot <= slot'
    BY <1>2, <1>3, <2>2
  <2>4. ScriptCapacity' = ScriptCapacity /\ (OracleExists' <=> OracleExists)
    BY <1>2 DEF ScriptCapacity, OracleExists
  <2> QED
    BY <1>2, <2>1, <2>2, <2>3, <2>4 DEF ScriptChain
<1>5. ScriptWaits'
  <2>1. /\ IsWait(pc) <=> IsWait(pc)'
        /\ IsWait(pc - 1) <=> IsWait(pc - 1)'
        /\ IsWait(pc - 2) <=> IsWait(pc - 2)'
    BY <1>2 DEF IsWait
  <2>2. IsWait(pc - 1) => pc # 1
    BY DEF IsWait
  <2>3. ScriptWaits
    BY <1>1 DEF ScriptRuns
  <2> QED
    BY <1>2, <1>3, <1>4, <2>1, <2>2, <2>3 DEF ScriptWaits
<1>6. ScriptNotes'
  BY <1>1, <1>2, <1>3 DEF ScriptRuns, ScriptNotes
<1>7. ScriptReads'
  <2>1. /\ Current' = Current /\ WindowOf(Current)' = WindowOf(Current) /\ (Finished' <=> Finished)
        /\ QueriedFrom' = QueriedFrom /\ \A r : Fetched(r)' <=> Fetched(r)
    BY <1>2 DEF Current, WindowOf, Finished, QueriedFrom, Fetched
  <2>2. ScriptReads
    BY <1>1 DEF ScriptRuns
  <2> QED
    BY <1>2, <1>3, <2>1, <2>2 DEF ScriptReads
<1>8. ScriptRuns'
  <2>1. SentBefore(pc)' = SentBefore(pc) /\ Program(script)' = Program(script)
    BY <1>2 DEF SentBefore
  <2>2. OracleExists' <=> OracleExists
    BY <1>2 DEF OracleExists
  <2> QED
    BY <1>1, <1>2, <1>3, <1>4, <1>5, <1>6, <1>7, <2>1, <2>2 DEF ScriptRuns
<1> QED
  BY <1>1, <1>2, <1>8, ScriptGoesOn

\* The other programs expect no refusal of anything.
LEMMA NothingIsRefusedElsewhere ==
    ASSUME script \in Scripts \ Private, pc \in Nat \ {0}, ~ Finished
    PROVE  Current.op # "refused"
<1>1. /\ Initialize(32).op = "initialize" /\ Update(Payer, 100).op = "update"
      /\ ParseEvents.op = "events" /\ Average(2).op = "average"
      /\ \A n : Fetches(n).op = "read"
  BY DEF Initialize, Update, ParseEvents, Average, Fetches
<1> DEFINE P == Program(script)
<1>2. Len(P) \in Nat /\ \A k \in 1 .. Len(P) : P[k].op # "refused"
  <2>1. CASE script \in {"init-pair", "inspect"}
    BY <1>1, <2>1 DEF Program, InitPair, Inspect
  <2>2. CASE script \in {"init", "update-price", "get-swap", "parse-events"}
    BY <1>1, <2>2 DEF Program, CliInit, CliUpdatePrice, CliGetSwap, CliParseEvents
  <2>3. CASE script \in {"/price", "/twap"}
    BY <1>1, <2>3 DEF Program, PriceRoute, TwapRoute
  <2> QED
    BY <2>1, <2>2, <2>3 DEF Scripts
<1> HIDE DEF P
<1>3. ~ (pc > Len(P))
  BY DEF Finished, P
<1>4. pc \in 1 .. Len(P)
  BY <1>2, <1>3
<1> QED
  BY <1>2, <1>4 DEF Current, P

LEMMA PublicKeeps ==
    ASSUME ScriptInvariant, script \notin Private, ScriptNext
    PROVE  ScriptInvariant'
<1>1. script \in Scripts \ Private /\ pc \in Nat \ {0} /\ "refused" \notin complaints
  BY DEF ScriptInvariant, RefusalsAreTheExpectedOnes
<1>2. script' = script /\ pc' \in {pc, pc + 1, pc + 2} /\ "refused" \notin complaints'
  <2>1. CASE StartWaiting \/ StopWaiting \/ SendInitialize \/ SendUpdate \/ SimulateGetSwap
    BY <1>1, <2>1
       DEF StartWaiting, StopWaiting, SendInitialize, SendUpdate, SimulateGetSwap, Passed, Throws
  <2>2. CASE ExpectRefusal
    BY <1>1, <2>2, NothingIsRefusedElsewhere DEF ExpectRefusal, At, Running
  <2>3. CASE FetchOne
    BY <1>1, <2>3 DEF FetchOne, Passed, Throws
  <2>4. CASE StartAverage \/ Fetch \/ FetchMissing \/ GetAverage
    BY <1>1, <2>4 DEF StartAverage, Fetch, FetchMissing, GetAverage, Passed, Throws, scriptVars
  <2>5. CASE ReadEvents
    BY <1>1, <2>5 DEF ReadEvents, Passed, Private
  <2>6. CASE RpcFails \/ RpcFailsInTry \/ Ends
    BY <1>1, <2>6 DEF RpcFails, RpcFailsInTry, Ends, Throws
  <2>7. CASE Others \/ Clock
    BY <1>1, <2>7 DEF Others, Clock, scriptVars
  <2> QED
    BY <2>1, <2>2, <2>3, <2>4, <2>5, <2>6, <2>7 DEF ScriptNext, Step
<1>3. pc' \in Nat \ {0}
  BY <1>1, <1>2
<1> QED
  BY <1>1, <1>2, <1>3 DEF ScriptInvariant, OnlyDelayStopsScripts, RefusalsAreTheExpectedOnes

\* A stuttering step.
LEMMA StutterKeepsScript ==
    ASSUME ScriptInvariant, UNCHANGED <<chainVars, scriptVars>>
    PROVE  ScriptInvariant'
<1>1. UNCHANGED <<slot, accounts, oracle, buffer, updates, call, fetched,
                  script, pc, noted, got, complaints, outcome>>
  BY DEF chainVars, scriptVars, vars, oracleVars, readerVars
<1>2. ASSUME ScriptRuns PROVE ScriptRuns'
  <2>1. /\ Current' = Current /\ WindowOf(Current)' = WindowOf(Current) /\ (Finished' <=> Finished)
        /\ QueriedFrom' = QueriedFrom
        /\ \A r : Fetched(r)' <=> Fetched(r)
        /\ SentBefore(pc)' = SentBefore(pc)
        /\ ScriptCapacity' = ScriptCapacity
    BY <1>1 DEF Current, WindowOf, Finished, QueriedFrom, Fetched, SentBefore, ScriptCapacity
  <2>2. ScriptReads'
    BY <1>1, <1>2, <2>1 DEF ScriptRuns, ScriptReads
  <2>3. ScriptWaits' /\ ScriptNotes'
    BY <1>1, <1>2 DEF ScriptRuns, ScriptWaits, IsWait, ScriptNotes
  <2>4. (ScriptChain => ScriptChain') /\ (OracleExists' <=> OracleExists)
    BY <1>1, <2>1 DEF ScriptChain, OracleExists
  <2> QED
    BY <1>1, <1>2, <2>1, <2>2, <2>3, <2>4 DEF ScriptRuns
<1> QED
  BY <1>1, <1>2 DEF ScriptInvariant, OnlyDelayStopsScripts, RefusalsAreTheExpectedOnes

LEMMA ScriptInvariantStep ==
    ScriptInvariant /\ [ScriptNext]_<<chainVars, scriptVars>> => ScriptInvariant'
<1> SUFFICES ASSUME ScriptInvariant, [ScriptNext]_<<chainVars, scriptVars>>
             PROVE  ScriptInvariant'
  OBVIOUS
<1>1. CASE UNCHANGED <<chainVars, scriptVars>>
  BY <1>1, StutterKeepsScript
<1>2. CASE ScriptNext /\ script \notin Private
  BY <1>2, PublicKeeps
<1>3. CASE ScriptNext /\ script \in Private
  <2>1. outcome = "running" /\ ~ Others
    BY <1>3 DEF ScriptNext, Step, StartWaiting, StopWaiting, SendInitialize, SendUpdate,
                ExpectRefusal, SimulateGetSwap, FetchOne, StartAverage, Fetch, FetchMissing,
                GetAverage, ReadEvents, RpcFails, RpcFailsInTry, WaitsInTry, Ends, Others, Clock,
                At, Running
  <2>2. CASE FetchMissing
    <3>1. ~ Finished /\ Current.op = "average" /\ ~ OracleExists
      BY <2>2 DEF FetchMissing, At, Running
    <3>2. ScriptChain
      BY <1>3, <2>1, <3>1, ScriptAtWork
    <3> QED
      BY <3>1, <3>2 DEF ScriptChain
  <2> QED
    BY <1>3, <2>1, <2>2, StartWaitingKeeps, StopWaitingKeeps, SendInitializeKeeps,
       SendUpdateKeeps, ExpectRefusalKeeps, SimulateGetSwapKeeps, FetchOneKeeps,
       StartAverageKeeps, FetchKeeps, GetAverageKeeps, ReadEventsKeeps, EndsKeeps,
       RpcFailsInTryKeeps, ClockKeeps
       DEF ScriptNext, Step
<1> QED
  BY <1>1, <1>2, <1>3

LEMMA ScriptInvariance == ScriptSpec => []ScriptInvariant
<1>1. ScriptInit => ScriptInvariant
  <2> SUFFICES ASSUME ScriptInit PROVE ScriptInvariant
    OBVIOUS
  <2>1. /\ script \in Scripts /\ pc = 1 /\ noted = <<>> /\ got = {} /\ complaints = {}
        /\ outcome = "running" /\ call = None /\ fetched = <<>>
        /\ slot = FirstSlot /\ accounts = {} /\ updates = <<>>
    BY DEF ScriptInit, ReaderInit, readerInit, Init
  <2>2. ASSUME script \in Private PROVE ScriptRuns
    <3>1. pc \in 1 .. Len(Program(script)) + 1
      BY <2>1, <2>2, ScriptLength
    <3>2. ScriptWaits
      BY <2>1 DEF ScriptWaits, IsWait
    <3>3. ScriptNotes /\ ScriptReads
      BY <2>1 DEF ScriptNotes, ScriptReads
    <3>4. ~ OracleExists /\ SentBefore(pc) = 0
      BY <2>1 DEF OracleExists, SentBefore
    <3>5. updates \in Seq(ScriptUpdate) /\ Len(updates) = 0 /\ slot \in Nat
      BY <2>1, BoundsAssumption
    <3> QED
      BY <2>1, <3>1, <3>2, <3>3, <3>4, <3>5 DEF ScriptRuns
  <2> QED
    BY <2>1, <2>2 DEF ScriptInvariant, OnlyDelayStopsScripts, RefusalsAreTheExpectedOnes
<1> QED
  BY <1>1, ScriptInvariantStep, PTL DEF ScriptSpec

\* Whatever slots the steps of e2e-test.ts and benchmark.ts fall in, on a validator of
\* their own only the node or a delay stops them: every update they send is accepted for
\* its slot and its price, no window they ask for reaches back too far, and what fails a
\* query is four slots between the two readings of one check (e2e-test.ts) or five after
\* the last update (benchmark.ts).
THEOREM ScriptsOnlyWait == ScriptSpec => []OnlyDelayStopsScripts
<1>1. ScriptInvariant => OnlyDelayStopsScripts
  BY DEF ScriptInvariant
<1> QED
  BY <1>1, ScriptInvariance, PTL

\* The stale query and the price jump that e2e-test.ts expects to be refused are, each
\* for the reason it expects, in whatever slots they fall.
THEOREM RefusalsCome == ScriptSpec => []RefusalsAreTheExpectedOnes
<1>1. ScriptInvariant => RefusalsAreTheExpectedOnes
  BY DEF ScriptInvariant
<1> QED
  BY <1>1, ScriptInvariance, PTL
================================================================================
