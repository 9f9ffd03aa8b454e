---------------------------- MODULE TwapOracleProofs ----------------------------
(***************************************************************************)
(* Theorems about TwapOracle, for every value of its constants, after the  *)
(* lemmas that say what the operators of ObservationRing return.  Those    *)
(* name entries by age, not by index, so that the rest needs to know       *)
(* nothing of the modular arithmetic.                                      *)
(***************************************************************************)
EXTENDS TwapOracleProperties, TLAPS

--------------------------------------------------------------------------------
(* The ring *)

\* An empty ring of any positive capacity is a ring.
LEMMA NewBufferIsRing ==
    ASSUME NEW Observation, ZeroObservation \in Observation,
           NEW capacity \in Nat \ {0}
    PROVE  IsRing(NewBuffer(capacity), Observation)
  BY DEF IsRing, NewBuffer

\* The index (ring_buffer.rs:40) of the n-th newest entry, without the modulus.
LEMMA IndexOfAge ==
    ASSUME NEW c \in Nat \ {0}, NEW h \in 0 .. c - 1, NEW n \in 1 .. c
    PROVE  /\ n <= h => (h + c - n) % c = h - n
           /\ n > h => (h + c - n) % c = h + c - n
           /\ (h + c - n) % c \in 0 .. c - 1
  OBVIOUS

\* The index that follows h around the ring (ring_buffer.rs:21).
LEMMA NextIndex ==
    ASSUME NEW c \in Nat \ {0}, NEW h \in 0 .. c - 1
    PROVE  (h + 1) % c = IF h = c - 1 THEN 0 ELSE h + 1
  OBVIOUS

\* push_observation keeps a ring a ring.
LEMMA PushIsRing ==
    ASSUME NEW Observation, NEW b, IsRing(b, Observation), NEW o \in Observation
    PROVE  IsRing(PushObservation(b, o), Observation)
  BY DEF IsRing, PushObservation

\* After a push the new observation is the newest, and every other entry that
\* is still there is one step older than it was.
LEMMA PushAges ==
    ASSUME NEW Observation, NEW b, IsRing(b, Observation), NEW o \in Observation,
           NEW n \in 1 .. PushObservation(b, o).len
    PROVE  NthNewest(PushObservation(b, o), n)
              = IF n = 1 THEN o ELSE NthNewest(b, n - 1)
<1> DEFINE p == PushObservation(b, o)
           c == b.capacity
           h == b.head
<1>1. /\ c \in Nat \ {0} /\ h \in 0 .. c - 1 /\ b.len \in 0 .. c
      /\ b.observations \in [0 .. c - 1 -> Observation]
  BY DEF IsRing
<1>2. /\ p.capacity = c
      /\ p.len \in 1 .. c
      /\ p.len - 1 <= b.len
      /\ p.head = IF h = c - 1 THEN 0 ELSE h + 1
      /\ p.observations = [b.observations EXCEPT ![h] = o]
  <2>1. (h + 1) % c = IF h = c - 1 THEN 0 ELSE h + 1
    BY <1>1, NextIndex
  <2> QED
    BY <1>1, <2>1 DEF PushObservation
<1> HIDE DEF p, c, h
<1>3. /\ n \in 1 .. c
      /\ p.head \in 0 .. c - 1
  BY <1>1, <1>2 DEF p
<1>4. CASE n = 1
  <2>1. (p.head + c - n) % c = h
    <3>1. /\ 1 <= p.head => (p.head + c - 1) % c = p.head - 1
          /\ 1 > p.head => (p.head + c - 1) % c = p.head + c - 1
      <4>1. 1 \in 1 .. c
        BY <1>1
      <4> QED
        BY <4>1, <1>1, <1>3, IndexOfAge
    <3> QED
      BY <3>1, <1>1, <1>2, <1>4
  <2> QED
    BY <2>1, <1>1, <1>2, <1>4 DEF NthNewest, p
<1>5. CASE n # 1
  <2>1. n - 1 \in 1 .. c
    BY <1>1, <1>3, <1>5
  <2>2. (p.head + c - n) % c = (h + c - (n - 1)) % c
    <3>1. /\ n <= p.head => (p.head + c - n) % c = p.head - n
          /\ n > p.head => (p.head + c - n) % c = p.head + c - n
      BY <1>1, <1>3, IndexOfAge
    <3>2. /\ n - 1 <= h => (h + c - (n - 1)) % c = h - (n - 1)
          /\ n - 1 > h => (h + c - (n - 1)) % c = h + c - (n - 1)
      BY <1>1, <2>1, IndexOfAge
    <3> QED
      BY <1>1, <1>2, <1>3, <3>1, <3>2
  <2>3. /\ (h + c - (n - 1)) % c # h
        /\ (h + c - (n - 1)) % c \in 0 .. c - 1
    BY <1>1, <1>3, <2>1, <1>5, IndexOfAge
  <2> QED
    BY <2>2, <2>3, <1>1, <1>2, <1>5 DEF NthNewest, p, c, h
<1> QED
  BY <1>4, <1>5 DEF p

--------------------------------------------------------------------------------
(* Reallocation *)

\* Laying the ring out oldest first puts the n-th newest entry n places from
\* the end, wrapped or not.
LEMMA OrderedByAge ==
    ASSUME NEW Observation, NEW b, IsRing(b, Observation), NEW n \in 1 .. b.len
    PROVE  Ordered(b, b.len - n) = NthNewest(b, n)
<1>1. /\ b.capacity \in Nat \ {0} /\ b.head \in 0 .. b.capacity - 1
      /\ b.len \in 0 .. b.capacity
      /\ b.len < b.capacity => b.head = b.len
  BY DEF IsRing
<1>2. n \in 1 .. b.capacity
  BY <1>1
<1>3. /\ n <= b.head => (b.head + b.capacity - n) % b.capacity = b.head - n
      /\ n > b.head => (b.head + b.capacity - n) % b.capacity
                           = b.head + b.capacity - n
  BY <1>1, <1>2, IndexOfAge
<1>4. CASE b.len < b.capacity
  BY <1>1, <1>3, <1>4 DEF Ordered, NthNewest
<1>5. CASE b.len = b.capacity /\ n <= b.head
  <2>1. ~ (b.len - n < b.capacity - b.head) /\ ~ (b.len < b.capacity)
    BY <1>1, <1>5
  <2>2. b.len - n - (b.capacity - b.head) = b.head - n
    BY <1>1, <1>5
  <2> QED
    BY <1>1, <1>3, <1>5, <2>1, <2>2 DEF Ordered, NthNewest
<1>6. CASE b.len = b.capacity /\ n > b.head
  <2>1. b.len - n < b.capacity - b.head /\ ~ (b.len < b.capacity)
    BY <1>1, <1>6
  <2>2. b.head + (b.len - n) = b.head + b.capacity - n
    BY <1>1, <1>6
  <2> QED
    BY <1>1, <1>3, <1>6, <2>1, <2>2 DEF Ordered, NthNewest
<1> QED
  BY <1>1, <1>2, <1>4, <1>5, <1>6

\* Every entry laid out is an entry of the ring.
LEMMA OrderedInRing ==
    ASSUME NEW Observation, NEW b, IsRing(b, Observation),
           NEW i \in 0 .. b.len - 1
    PROVE  Ordered(b, i) \in Observation
<1>1. /\ b.capacity \in Nat \ {0} /\ b.head \in 0 .. b.capacity - 1
      /\ b.len \in 0 .. b.capacity
      /\ b.observations \in [0 .. b.capacity - 1 -> Observation]
  BY DEF IsRing
<1>2. CASE b.len < b.capacity
  BY <1>1, <1>2 DEF Ordered
<1>3. CASE ~ (b.len < b.capacity) /\ i < b.capacity - b.head
  <2>1. b.head + i \in 0 .. b.capacity - 1
    BY <1>1, <1>3
  <2> QED
    BY <1>1, <1>3, <2>1 DEF Ordered
<1>4. CASE ~ (b.len < b.capacity) /\ ~ (i < b.capacity - b.head)
  <2>1. i - (b.capacity - b.head) \in 0 .. b.capacity - 1
    BY <1>1, <1>4
  <2> QED
    BY <1>1, <1>4, <2>1 DEF Ordered
<1> QED
  BY <1>2, <1>3, <1>4

\* The head of a shrunk ring: after its last entry, or back at the start.
LEMMA ShrunkHead ==
    ASSUME NEW c \in Nat \ {0}, NEW k \in 0 .. c
    PROVE  k % c = IF k = c THEN 0 ELSE k
  OBVIOUS

\* Shrinking keeps a ring a ring, and keeps its newest entries at their ages.
LEMMA ShrinkKeepsNewest ==
    ASSUME NEW Observation, ZeroObservation \in Observation,
           NEW b, IsRing(b, Observation), NEW c \in Nat \ {0}
    PROVE  /\ IsRing(Shrink(b, c), Observation)
           /\ Shrink(b, c).capacity = c
           /\ Shrink(b, c).len = Smaller(c, b.len)
           /\ \A n \in 1 .. Smaller(c, b.len) :
                 NthNewest(Shrink(b, c), n) = NthNewest(b, n)
<1> DEFINE s == Shrink(b, c)
           k == Smaller(c, b.len)
<1>1. /\ b.len \in Nat
      /\ k \in 0 .. c /\ k <= b.len
  BY DEF IsRing, Smaller
<1>2. s = [head         |-> k % c,
           len          |-> k,
           capacity     |-> c,
           observations |-> [i \in 0 .. c - 1 |->
                               IF i < k THEN Ordered(b, b.len - k + i)
                                        ELSE ZeroObservation]]
  BY DEF Shrink
<1> HIDE DEF s, k
<1>3. k % c = IF k = c THEN 0 ELSE k
  BY <1>1, ShrunkHead
<1>4. s.observations \in [0 .. c - 1 -> Observation]
  <2>1. ASSUME NEW i \in 0 .. c - 1, i < k
        PROVE  Ordered(b, b.len - k + i) \in Observation
    <3>1. b.len - k + i \in 0 .. b.len - 1
      BY <1>1, <2>1
    <3> QED
      BY <3>1, OrderedInRing
  <2> QED
    BY <2>1, <1>2
<1>5. IsRing(s, Observation)
  BY <1>1, <1>2, <1>3, <1>4 DEF IsRing
<1>6. ASSUME NEW n \in 1 .. k
      PROVE  NthNewest(s, n) = NthNewest(b, n)
  <2>1. /\ n \in 1 .. c /\ n \in 1 .. b.len /\ k - n \in 0 .. c - 1
        /\ s.head \in 0 .. c - 1
    BY <1>1, <1>2, <1>3
  <2>2. (s.head + c - n) % c = k - n
    <3>1. /\ n <= s.head => (s.head + c - n) % c = s.head - n
          /\ n > s.head => (s.head + c - n) % c = s.head + c - n
      BY <2>1, IndexOfAge
    <3> QED
      BY <3>1, <2>1, <1>1, <1>2, <1>3
  <2>3. NthNewest(s, n) = s.observations[k - n]
    BY <2>2, <1>2 DEF NthNewest
  <2>4. s.observations[k - n] = Ordered(b, b.len - k + (k - n))
    BY <2>1, <1>1, <1>2
  <2>5. b.len - k + (k - n) = b.len - n
    BY <2>1, <1>1
  <2>6. Ordered(b, b.len - n) = NthNewest(b, n)
    BY <2>1, OrderedByAge
  <2> QED
    BY <2>3, <2>4, <2>5, <2>6
<1> QED
  BY <1>2, <1>5, <1>6 DEF s, k

\* Growing keeps a ring a ring, and keeps all its entries at their ages.
LEMMA GrowKeepsAll ==
    ASSUME NEW Observation, ZeroObservation \in Observation,
           NEW b, IsRing(b, Observation), NEW c \in Nat \ {0}, c > b.capacity
    PROVE  /\ IsRing(Grow(b, c), Observation)
           /\ Grow(b, c).capacity = c
           /\ Grow(b, c).len = b.len
           /\ \A n \in 1 .. b.len : NthNewest(Grow(b, c), n) = NthNewest(b, n)
<1> DEFINE g == Grow(b, c)
           wrapped == b.len = b.capacity /\ b.head # b.len
<1>1. /\ b.capacity \in Nat \ {0} /\ b.head \in 0 .. b.capacity - 1
      /\ b.len \in 0 .. b.capacity
      /\ b.len < b.capacity => b.head = b.len
      /\ b.observations \in [0 .. b.capacity - 1 -> Observation]
  BY DEF IsRing
<1>2. /\ g.head = b.len
      /\ g.len = b.len
      /\ g.capacity = c
      /\ wrapped <=> ~ (b.len < b.capacity)
  BY <1>1 DEF Grow
<1>3. g = [head         |-> g.head,
           len          |-> g.len,
           capacity     |-> g.capacity,
           observations |-> g.observations]
  BY DEF Grow
<1>4. g.observations = [i \in 0 .. c - 1 |->
                          CASE i >= b.capacity -> ZeroObservation
                            [] i < b.capacity /\ wrapped -> Ordered(b, i)
                            [] OTHER -> b.observations[i]]
  BY DEF Grow
<1>5. ASSUME NEW i \in 0 .. b.len - 1
      PROVE  g.observations[i] = Ordered(b, i)
  <2>1. i \in 0 .. c - 1 /\ i < b.capacity /\ ~ (i >= b.capacity)
    BY <1>1
  <2>2. CASE wrapped
    BY <2>1, <2>2, <1>4
  <2>3. CASE ~ wrapped
    BY <2>1, <2>3, <1>1, <1>2, <1>4 DEF Ordered
  <2> QED
    BY <2>2, <2>3
<1>6. g.observations \in [0 .. c - 1 -> Observation]
  <2>1. ASSUME NEW i \in 0 .. c - 1, i < b.capacity, wrapped
        PROVE  Ordered(b, i) \in Observation
    <3>1. i \in 0 .. b.len - 1
      BY <1>1, <2>1
    <3> QED
      BY <3>1, OrderedInRing
  <2>2. ASSUME NEW i \in 0 .. c - 1, i < b.capacity
        PROVE  b.observations[i] \in Observation
    BY <1>1, <2>2
  <2>3. ASSUME NEW i \in 0 .. c - 1
        PROVE  (CASE i >= b.capacity -> ZeroObservation
                  [] i < b.capacity /\ wrapped -> Ordered(b, i)
                  [] OTHER -> b.observations[i]) \in Observation
    <3>1. i >= b.capacity \/ i < b.capacity
      BY <1>1
    <3> HIDE DEF wrapped
    <3> QED
      BY <2>1, <2>2, <3>1
  <2> QED
    BY <2>3, <1>4
<1> HIDE DEF g
<1>7. IsRing(g, Observation)
  BY <1>1, <1>2, <1>3, <1>6 DEF IsRing
<1>8. ASSUME NEW n \in 1 .. b.len
      PROVE  NthNewest(g, n) = NthNewest(b, n)
  <2>1. /\ n \in 1 .. c /\ b.len \in 0 .. c - 1 /\ n <= b.len
        /\ b.len - n \in 0 .. b.len - 1
    BY <1>1
  <2>2. (b.len + c - n) % c = b.len - n
    BY <2>1, IndexOfAge
  <2>3. NthNewest(g, n) = Ordered(b, b.len - n)
    BY <2>1, <2>2, <1>2, <1>5 DEF NthNewest
  <2> QED
    BY <2>3, OrderedByAge
<1> QED
  BY <1>2, <1>7, <1>8 DEF g

\* resize_buffer, when the account can hold its result, yields a ring of the
\* new capacity with the newest entries that fit, each at the age it had.
LEMMA ResizeKeepsNewest ==
    ASSUME NEW Observation, ZeroObservation \in Observation,
           NEW b, IsRing(b, Observation), NEW c \in Nat \ {0},
           FitsAccount(Resize(b, c))
    PROVE  /\ IsRing(Resize(b, c), Observation)
           /\ Resize(b, c).capacity = c
           /\ Resize(b, c).len = Smaller(c, b.len)
           /\ \A n \in 1 .. Smaller(c, b.len) :
                 NthNewest(Resize(b, c), n) = NthNewest(b, n)
<1>1. /\ b.capacity \in Nat \ {0} /\ b.len \in 0 .. b.capacity
      /\ DOMAIN b.observations = 0 .. b.capacity - 1
  BY DEF IsRing
<1>2. CASE c < b.capacity /\ b.len > 0
  BY <1>2, ShrinkKeepsNewest DEF Resize
<1>3. CASE c > b.capacity
  <2>1. Resize(b, c) = Grow(b, c)
    BY <1>1, <1>3 DEF Resize
  <2>2. Smaller(c, b.len) = b.len
    BY <1>1, <1>3 DEF Smaller
  <2> QED
    BY <2>1, <2>2, <1>3, GrowKeepsAll
<1>4. CASE c = b.capacity
  <2>1. Resize(b, c) = [b EXCEPT !.capacity = c]
    BY <1>1, <1>4 DEF Resize
  <2>2. Smaller(c, b.len) = b.len
    BY <1>1, <1>4 DEF Smaller
  <2>3. [b EXCEPT !.capacity = c] = b
    BY <1>4 DEF IsRing
  <2> QED
    BY <2>1, <2>2, <2>3, <1>4
<1>5. CASE c < b.capacity /\ b.len = 0
  <2>1. Resize(b, c) = [b EXCEPT !.capacity = c]
    BY <1>1, <1>5 DEF Resize
  <2>2. Resize(b, c).observations = b.observations /\ Resize(b, c).capacity = c
    BY <2>1 DEF IsRing
  <2>3. b.capacity - 1 \in DOMAIN b.observations /\ b.capacity - 1 \notin 0 .. c - 1
    BY <1>1, <1>5
  <2> QED
    BY <2>2, <2>3 DEF FitsAccount
<1> QED
  BY <1>1, <1>2, <1>3, <1>4, <1>5

--------------------------------------------------------------------------------
(* Types, and the life of the accounts *)

USE MaxU128Assumption, UsersAssumption, NoneAssumption, PricesAssumption,
    DeviationsAssumption, CapacitiesAssumption, AmountsAssumption,
    BoundsAssumption

Structure == TypeOK /\ Lifecycle

\* Moving tokens an account holds leaves every account with a natural number.
LEMMA TransferKeepsType ==
    ASSUME balance \in [TokenAccounts -> Nat],
           NEW source \in TokenAccounts, NEW target \in TokenAccounts,
           NEW amount \in Nat, CanTransfer(source, amount)
    PROVE  Transferred(source, target, amount) \in [TokenAccounts -> Nat]
  BY DEF CanTransfer, Transferred

\* The initial state: no account, and the users' tokens.
LEMMA InitStructure == Init => Structure
<1> SUFFICES ASSUME Init PROVE Structure
  OBVIOUS
<1>1. TypeOK
  BY DEF Init, TypeOK, OracleType, BufferType, VaultType, NoOracle, NewOracle,
         NoVault, NewBuffer
<1>2. Lifecycle
  BY DEF Init, Lifecycle, OracleExists
<1> QED
  BY <1>1, <1>2 DEF Structure

\* An accepted update leaves values of the right types, in a ring.
LEMMA UpdateStructure ==
    ASSUME Structure, NEW u \in Users, NEW p \in Prices,
           NEW r \in TokenAccounts \cup {None}, UpdatePrice(u, p, r)
    PROVE  Structure'
<1> DEFINE cumulative == ExtendedCumulative(oracle, slot)
           o == [slot |-> slot, cumulative_price |-> cumulative]
<1>1. /\ OracleExists /\ Fits(cumulative)
      /\ IsRing(buffer, Observations)
      /\ oracle' = Accepted(u, p, cumulative)
      /\ buffer' = PushObservation(buffer, o)
      /\ updates' = Append(updates, [slot |-> slot, price |-> p,
                                     cumulative_price |-> cumulative,
                                     updater |-> u])
      /\ UNCHANGED <<slot, accounts>>
      /\ PayReward(r) \/ SkipReward(r)
  BY DEF UpdatePrice, Structure, Lifecycle
<1>2. cumulative \in 0 .. MaxU128 /\ p \in 0 .. MaxU128
  BY <1>1 DEF Fits
<1> HIDE DEF cumulative
<1>3. oracle' \in OracleType
  BY <1>1, <1>2 DEF Structure, TypeOK, OracleType, Accepted
<1>4. o \in Observations
  BY <1>2 DEF Structure, TypeOK, Observations
<1>5. IsRing(buffer', Observations)
  BY <1>1, <1>4, PushIsRing
<1>6. (buffer \in BufferType)'
  BY <1>5 DEF IsRing, BufferType
<1>7. updates' \in Seq(UpdateType)
  BY <1>1, <1>2 DEF Structure, TypeOK, UpdateType
<1>8. /\ vault' \in VaultType
      /\ balance' \in [TokenAccounts -> Nat]
      /\ claims' \in Seq(ClaimType)
  <2>1. CASE SkipReward(r)
    BY <2>1 DEF SkipReward, rewardVars, Structure, TypeOK
  <2>2. CASE PayReward(r)
    <3>1. /\ r \in TokenAccounts /\ oracle.last_updater \in Users
          /\ vault.reward_per_update \in Nat /\ oracle.last_slot \in Nat
          /\ slot \in Nat
          /\ CanTransfer(VaultTokens, vault.reward_per_update)
      BY <2>2 DEF PayReward, RewardDue, CanTransfer, Structure, TypeOK,
                  OracleType, VaultType
    <3>2. balance' \in [TokenAccounts -> Nat]
      <4>1. balance' = Transferred(VaultTokens, r, vault.reward_per_update)
        BY <2>2 DEF PayReward
      <4>2. VaultTokens \in TokenAccounts /\ balance \in [TokenAccounts -> Nat]
        BY DEF TokenAccounts, Structure, TypeOK
      <4> QED
        BY <4>1, <4>2, <3>1, TransferKeepsType
    <3>3. vault' \in VaultType
      <4>1. /\ vault \in VaultType /\ oracle.last_slot \in Nat
            /\ vault.total_distributed + vault.reward_per_update \in 0 .. MaxU64
            /\ vault.total_updates_rewarded + 1 \in 0 .. MaxU64
        <5>1. CountersFit
          BY <2>2 DEF PayReward
        <5>2. vault \in VaultType
          BY DEF Structure, TypeOK
        <5>3. /\ vault.total_distributed \in Nat
              /\ vault.total_updates_rewarded \in Nat
          BY <5>2 DEF VaultType
        <5> QED
          BY <3>1, <5>1, <5>2, <5>3 DEF CountersFit
      <4>2. vault' = [vault EXCEPT
                         !.total_distributed = @ + vault.reward_per_update,
                         !.total_updates_rewarded = @ + 1,
                         !.last_rewarded_slot = oracle.last_slot]
        BY <2>2 DEF PayReward
      <4> QED
        BY <4>1, <4>2 DEF VaultType
    <3>4. claims' \in Seq(ClaimType)
      BY <2>2, <3>1 DEF PayReward, ClaimType, Structure, TypeOK
    <3> QED
      BY <3>2, <3>3, <3>4
  <2> QED
    BY <1>1, <2>1, <2>2
<1>9. TypeOK'
  BY <1>1, <1>3, <1>6, <1>7, <1>8 DEF TypeOK, Structure
<1>10. Lifecycle'
  BY <1>1, <1>5 DEF Lifecycle, OracleExists
<1> QED
  BY <1>9, <1>10 DEF Structure

\* The instructions of the owner keep the types and the ring.
LEMMA AdministerStructure ==
    ASSUME Structure, NEW u \in Users, Administer(u)
    PROVE  Structure'
<1>1. ASSUME NEW c \in Capacities, InitializeOracle(u, c)
      PROVE  Structure'
  <2>1. c \in Nat \ {0} /\ slot \in Nat
    BY <1>1 DEF InitializeOracle, Structure, TypeOK
  <2>2. ZeroObservation \in Observations
    BY DEF ZeroObservation, Observations
  <2>3. IsRing(buffer', Observations)
    BY <1>1, <2>1, <2>2, NewBufferIsRing DEF InitializeOracle
  <2>4. (buffer \in BufferType)'
    BY <2>3 DEF IsRing, BufferType
  <2>5. oracle' \in OracleType
    <3>1. oracle' = NewOracle(u, slot, 1000)
      BY <1>1 DEF InitializeOracle, DEFAULT_DEVIATION_BPS
    <3> QED
      BY <2>1, <3>1 DEF NewOracle, OracleType
  <2>6. TypeOK'
    BY <1>1, <2>4, <2>5 DEF InitializeOracle, Structure, TypeOK, rewardVars
  <2>7. Lifecycle'
    BY <1>1, <2>3 DEF InitializeOracle, Lifecycle, OracleExists
  <2> QED
    BY <2>6, <2>7 DEF Structure
<1>2. ASSUME NEW c \in Capacities, ResizeBuffer(u, c)
      PROVE  Structure'
  <2>1. /\ OracleExists /\ IsRing(buffer, Observations)
        /\ c \in Nat \ {0}
        /\ FitsAccount(Resize(buffer, c))
        /\ buffer' = Resize(buffer, c)
    BY <1>2 DEF ResizeBuffer, IsOwner, Structure, Lifecycle
  <2>2. ZeroObservation \in Observations
    BY DEF ZeroObservation, Observations
  <2>3. IsRing(buffer', Observations)
    BY <2>1, <2>2, ResizeKeepsNewest
  <2>4. (buffer \in BufferType)'
    BY <2>3 DEF IsRing, BufferType
  <2>5. TypeOK'
    BY <1>2, <2>4 DEF ResizeBuffer, Structure, TypeOK, rewardVars
  <2>6. Lifecycle'
    BY <1>2, <2>1, <2>3 DEF ResizeBuffer, Lifecycle, OracleExists
  <2> QED
    BY <2>5, <2>6 DEF Structure
<1>3. ASSUME OracleExists, oracle' \in OracleType,
             UNCHANGED <<slot, accounts, buffer, updates, rewardVars>>
      PROVE  Structure'
  BY <1>3 DEF Structure, TypeOK, Lifecycle, OracleExists, BufferType, rewardVars
<1>4. oracle \in OracleType
  BY DEF Structure, TypeOK
<1>5. ASSUME NEW v \in Users \cup {NoKey}, TransferOwnership(u, v)
      PROVE  Structure'
  BY <1>3, <1>4, <1>5 DEF TransferOwnership, IsOwner, OracleType
<1>6. ASSUME AcceptOwnership(u)
      PROVE  Structure'
  BY <1>3, <1>4, <1>6 DEF AcceptOwnership, OracleType
<1>7. ASSUME NEW b \in BOOLEAN, SetPaused(u, b)
      PROVE  Structure'
  BY <1>3, <1>4, <1>7 DEF SetPaused, IsOwner, OracleType
<1>8. ASSUME NEW d \in Deviations, SetMaxDeviation(u, d)
      PROVE  Structure'
  BY <1>3, <1>4, <1>8 DEF SetMaxDeviation, IsOwner, OracleType
<1> QED
  BY <1>1, <1>2, <1>5, <1>6, <1>7, <1>8 DEF Administer

\* So do the instructions of the vault.
LEMMA RewardStructure ==
    ASSUME Structure, NEW u \in Users, Reward(u)
    PROVE  Structure'
<1>1. ASSUME UNCHANGED <<slot, oracleVars, claims>>,
             vault' \in VaultType, balance' \in [TokenAccounts -> Nat],
             accounts' \subseteq {"oracle", "vault"},
             OracleExists' = OracleExists
      PROVE  Structure'
  BY <1>1 DEF Structure, TypeOK, Lifecycle, BufferType, oracleVars
<1>2. ASSUME NEW r \in RewardAmounts, InitializeRewardVault(u, r)
      PROVE  Structure'
  <2>1. vault' \in VaultType
    BY <1>2 DEF InitializeRewardVault, NoVault, VaultType
  <2> QED
    BY <1>1, <1>2, <2>1 DEF InitializeRewardVault, Structure, TypeOK, OracleExists
<1>3. ASSUME NEW n \in Amounts, FundRewardVault(u, n)
      PROVE  Structure'
  <2>1. Transferred(u, VaultTokens, n) \in [TokenAccounts -> Nat]
    BY <1>3, TransferKeepsType
       DEF FundRewardVault, Structure, TypeOK, TokenAccounts
  <2> QED
    BY <1>1, <1>3, <2>1 DEF FundRewardVault, Structure, TypeOK, OracleExists
<1>4. ASSUME NEW n \in Amounts, NEW v \in Users, WithdrawRewardVault(u, v, n)
      PROVE  Structure'
  <2>1. Transferred(VaultTokens, v, n) \in [TokenAccounts -> Nat]
    BY <1>4, TransferKeepsType
       DEF WithdrawRewardVault, Structure, TypeOK, TokenAccounts
  <2> QED
    BY <1>1, <1>4, <2>1 DEF WithdrawRewardVault, Structure, TypeOK, OracleExists
<1> QED
  BY <1>2, <1>3, <1>4 DEF Reward

LEMMA StructureStep == Structure /\ [Next]_vars => Structure'
<1> SUFFICES ASSUME Structure, [Next]_vars PROVE Structure'
  OBVIOUS
<1>1. CASE AdvanceSlot
  BY <1>1 DEF AdvanceSlot, Structure, TypeOK, Lifecycle, OracleExists,
              BufferType, oracleVars, rewardVars
<1>2. ASSUME NEW u \in Users, Administer(u) PROVE Structure'
  BY <1>2, AdministerStructure
<1>3. ASSUME NEW u \in Users, Reward(u) PROVE Structure'
  BY <1>3, RewardStructure
<1>4. ASSUME NEW u \in Users, Submit(u) PROVE Structure'
  BY <1>4, UpdateStructure DEF Submit
<1>5. CASE UNCHANGED vars
  BY <1>5 DEF vars, Structure, TypeOK, Lifecycle, OracleExists, BufferType,
              oracleVars, rewardVars
<1> QED
  BY <1>1, <1>2, <1>3, <1>4, <1>5 DEF Next

LEMMA StructureInvariant == Spec => []Structure
  BY InitStructure, StructureStep, PTL DEF Spec

\* No reachable state holds a value outside its Rust type: checked arithmetic
\* keeps the accumulator and the counters in range, transfers never overdraw,
\* and every resize that succeeds leaves an array of `capacity' entries.
THEOREM TypeCorrect == Spec => []TypeOK
  BY StructureInvariant, PTL DEF Structure

--------------------------------------------------------------------------------
(* The accounts and the history of events *)

\* What a sequence is after one more event.
LEMMA AppendedEvent ==
    ASSUME NEW Event, NEW events \in Seq(Event), NEW e
    PROVE  /\ Len(events) \in Nat
           /\ DOMAIN events = 1 .. Len(events)
           /\ Len(Append(events, e)) = Len(events) + 1
           /\ DOMAIN Append(events, e) = 1 .. Len(events) + 1
           /\ Append(events, e)[Len(events) + 1] = e
           /\ \A k \in 1 .. Len(events) : /\ Append(events, e)[k] = events[k]
                                          /\ events[k] \in Event
  OBVIOUS

History ==
    /\ OracleIsLastUpdate
    /\ SlotsIncrease
    /\ RingHoldsNewestUpdates
    /\ RewardsFollowUpdates
    /\ ClaimsAreSettled

LEMMA InitHistory == Init => History
  BY DEF Init, History, OracleIsLastUpdate, SlotsIncrease, RingHoldsNewestUpdates,
         RewardsFollowUpdates, ClaimsAreSettled, NoOracle, NewOracle, NewBuffer

\* An instruction that emits neither event and leaves the ring and the price
\* alone keeps the history in step with the accounts.
LEMMA QuietHistory ==
    ASSUME Structure, History, UNCHANGED <<buffer, updates, claims>>,
           slot' \in Nat, slot <= slot',
           oracle'.last_slot = oracle.last_slot,
           oracle'.last_price = oracle.last_price,
           oracle'.cumulative_price = oracle.cumulative_price,
           oracle'.last_updater = oracle.last_updater
    PROVE  History'
<1>1. oracle.last_slot \in Nat /\ slot \in Nat
  BY DEF Structure, TypeOK, OracleType
<1>2. OracleIsLastUpdate'
  BY <1>1 DEF History, OracleIsLastUpdate, NthUpdate
<1>3. SlotsIncrease'
  BY DEF History, SlotsIncrease
<1>4. RingHoldsNewestUpdates'
  BY DEF History, RingHoldsNewestUpdates, NthUpdate
<1>5. RewardsFollowUpdates'
  BY DEF History, RewardsFollowUpdates
<1>6. ClaimsAreSettled'
  BY DEF History, ClaimsAreSettled
<1> QED
  BY <1>2, <1>3, <1>4, <1>5, <1>6 DEF History

LEMMA AdministerHistory ==
    ASSUME Structure, History, NEW u \in Users, Administer(u)
    PROVE  History'
<1>0. oracle \in OracleType /\ slot \in Nat
  BY DEF Structure, TypeOK
<1>1. ASSUME NEW c \in Capacities, InitializeOracle(u, c)
      PROVE  History'
  <2>1. /\ updates = <<>> /\ updates' = updates /\ claims' = claims /\ slot' = slot
        /\ oracle.last_slot = 0
        /\ oracle' = NewOracle(u, slot, DEFAULT_DEVIATION_BPS)
        /\ buffer'.len = 0
    BY <1>1 DEF InitializeOracle, Structure, Lifecycle, NoOracle, NewOracle,
                NewBuffer, rewardVars
  <2>2. OracleIsLastUpdate'
    BY <2>1, <1>0 DEF OracleIsLastUpdate, NewOracle
  <2>3. SlotsIncrease' /\ RewardsFollowUpdates'
    BY <2>1 DEF History, SlotsIncrease, RewardsFollowUpdates
  <2>4. RingHoldsNewestUpdates'
    BY <2>1 DEF RingHoldsNewestUpdates
  <2>5. ClaimsAreSettled'
    <3>1. ASSUME NEW c1 \in DOMAIN claims PROVE FALSE
      <4>1. claims[c1] \in ClaimType
        BY <3>1 DEF Structure, TypeOK
      <4>2. claims[c1].for_slot \in Nat /\ claims[c1].for_slot < 0
        BY <4>1, <2>1 DEF ClaimType, History, ClaimsAreSettled
      <4> QED
        BY <4>2
    <3> QED
      BY <3>1, <2>1 DEF ClaimsAreSettled
  <2> QED
    BY <2>2, <2>3, <2>4, <2>5 DEF History
<1>2. ASSUME NEW c \in Capacities, ResizeBuffer(u, c)
      PROVE  History'
  <2>1. /\ IsRing(buffer, Observations)
        /\ c \in Nat \ {0}
        /\ FitsAccount(Resize(buffer, c))
        /\ buffer' = Resize(buffer, c)
        /\ UNCHANGED <<slot, oracle, updates, claims>>
    BY <1>2 DEF ResizeBuffer, IsOwner, Structure, Lifecycle, rewardVars
  <2>2. ZeroObservation \in Observations
    BY DEF ZeroObservation, Observations
  <2>3. /\ buffer'.len = Smaller(c, buffer.len)
        /\ \A n \in 1 .. Smaller(c, buffer.len) :
              NthNewest(buffer', n) = NthNewest(buffer, n)
    BY <2>1, <2>2, ResizeKeepsNewest
  <2>4. buffer.len \in Nat /\ Smaller(c, buffer.len) \in 0 .. buffer.len
    BY <2>1 DEF IsRing, Smaller
  <2>5. Len(updates) \in Nat
    BY DEF Structure, TypeOK
  <2>6. RingHoldsNewestUpdates'
    <3>1. buffer'.len <= Len(updates)'
      BY <2>1, <2>3, <2>4, <2>5 DEF History, RingHoldsNewestUpdates
    <3>2. ASSUME NEW n \in 1 .. buffer'.len
          PROVE  NthNewest(buffer', n) =
                    [slot |-> NthUpdate(n)'.slot,
                     cumulative_price |-> NthUpdate(n)'.cumulative_price]
      <4>1. n \in 1 .. buffer.len /\ NthNewest(buffer', n) = NthNewest(buffer, n)
        BY <2>3, <2>4
      <4>2. NthUpdate(n)' = NthUpdate(n)
        BY <2>1 DEF NthUpdate
      <4> QED
        BY <4>1, <4>2 DEF History, RingHoldsNewestUpdates
    <3> QED
      BY <3>1, <3>2 DEF RingHoldsNewestUpdates
  <2>7. /\ OracleIsLastUpdate' /\ SlotsIncrease'
        /\ RewardsFollowUpdates' /\ ClaimsAreSettled'
    BY <2>1 DEF History, OracleIsLastUpdate, SlotsIncrease, RewardsFollowUpdates,
                ClaimsAreSettled, NthUpdate
  <2> QED
    BY <2>6, <2>7 DEF History
<1>3. ASSUME NEW v \in Users \cup {NoKey}, TransferOwnership(u, v)
      PROVE  History'
  BY <1>0, <1>3, QuietHistory DEF TransferOwnership, OracleType, rewardVars
<1>4. ASSUME AcceptOwnership(u)
      PROVE  History'
  BY <1>0, <1>4, QuietHistory DEF AcceptOwnership, OracleType, rewardVars
<1>5. ASSUME NEW b \in BOOLEAN, SetPaused(u, b)
      PROVE  History'
  BY <1>0, <1>5, QuietHistory DEF SetPaused, OracleType, rewardVars
<1>6. ASSUME NEW d \in Deviations, SetMaxDeviation(u, d)
      PROVE  History'
  BY <1>0, <1>6, QuietHistory DEF SetMaxDeviation, OracleType, rewardVars
<1> QED
  BY <1>1, <1>2, <1>3, <1>4, <1>5, <1>6 DEF Administer

\* The heart of it: an accepted update extends the events, the accumulator and
\* the ring together, and pays, if at all, for the update it follows.
LEMMA UpdateHistory ==
    ASSUME Structure, History, NEW u \in Users, NEW p \in Prices,
           NEW r \in TokenAccounts \cup {None}, UpdatePrice(u, p, r)
    PROVE  History'
<1> DEFINE cumulative == ExtendedCumulative(oracle, slot)
           o == [slot |-> slot, cumulative_price |-> cumulative]
           e == [slot |-> slot, price |-> p, cumulative_price |-> cumulative,
                 updater |-> u]
           n == Len(updates)
<1>1. /\ Fits(cumulative) /\ oracle.last_slot < slot
      /\ IsRing(buffer, Observations)
      /\ oracle' = Accepted(u, p, cumulative)
      /\ buffer' = PushObservation(buffer, o)
      /\ updates' = Append(updates, e)
      /\ slot' = slot
      /\ PayReward(r) \/ SkipReward(r)
  BY DEF UpdatePrice, Structure, Lifecycle
<1>2. o \in Observations
  BY <1>1 DEF Fits, Structure, TypeOK, Observations
<1> HIDE DEF cumulative
<1>3. /\ n \in Nat /\ Len(updates') = n + 1
      /\ DOMAIN updates = 1 .. n /\ DOMAIN updates' = 1 .. n + 1
      /\ updates'[n + 1] = e
      /\ \A k \in 1 .. n : updates'[k] = updates[k] /\ updates[k].slot \in Nat
  <2>1. updates \in Seq(UpdateType)
    BY DEF Structure, TypeOK
  <2>2. \A k \in 1 .. n : updates[k] \in UpdateType
    BY <2>1, AppendedEvent
  <2>3. \A k \in 1 .. n : updates[k].slot \in Nat
    BY <2>2 DEF UpdateType
  <2>4. /\ n \in Nat /\ Len(updates') = n + 1
        /\ DOMAIN updates = 1 .. n /\ DOMAIN updates' = 1 .. n + 1
        /\ updates'[n + 1] = e
        /\ \A k \in 1 .. n : updates'[k] = updates[k]
    <3> HIDE DEF e
    <3> QED
      BY <1>1, <2>1, AppendedEvent
  <2> QED
    BY <2>3, <2>4
<1>4. slot \in Nat /\ oracle \in OracleType /\ oracle.last_slot \in Nat
  BY DEF Structure, TypeOK, OracleType
<1>5. /\ oracle'.last_slot = slot /\ oracle'.last_price = p
      /\ oracle'.cumulative_price = cumulative /\ oracle'.last_updater = u
  BY <1>1, <1>4 DEF Accepted, OracleType
<1>6. \A k \in 1 .. n : updates[k].slot < slot
  <2>1. ASSUME NEW k \in 1 .. n PROVE updates[k].slot <= oracle.last_slot
    <3>1. updates # <<>> /\ NthUpdate(1) = updates[n]
      BY <1>3 DEF NthUpdate
    <3>2. updates[n].slot = oracle.last_slot
      BY <3>1 DEF History, OracleIsLastUpdate
    <3>3. k = n \/ updates[k].slot < updates[n].slot
      <4>1. n \in Nat /\ DOMAIN updates = 1 .. n
        BY <1>3
      <4>2. n \in 1 .. n /\ (k = n \/ k < n)
        <5> HIDE DEF n
        <5> QED
          BY <4>1, <2>1
      <4> QED
        BY <4>1, <4>2 DEF History, SlotsIncrease
    <3> QED
      BY <3>2, <3>3, <1>3, <1>4
  <2> QED
    BY <2>1, <1>1, <1>3, <1>4
<1>7. OracleIsLastUpdate'
  <2>1. NthUpdate(1)' = e /\ updates' # <<>>
    BY <1>3 DEF NthUpdate
  <2> QED
    BY <2>1, <1>1, <1>4, <1>5 DEF OracleIsLastUpdate
<1>8. SlotsIncrease'
  <2>1. ASSUME NEW j \in 1 .. n + 1, NEW k \in 1 .. n + 1, j < k
        PROVE  updates'[j].slot < updates'[k].slot
    <3>1. CASE k = n + 1
      BY <3>1, <2>1, <1>3, <1>6
    <3>2. CASE k # n + 1
      BY <3>2, <2>1, <1>3 DEF History, SlotsIncrease
    <3> QED
      BY <3>1, <3>2
  <2> QED
    BY <2>1, <1>3 DEF SlotsIncrease
<1>9. RingHoldsNewestUpdates'
  <2>1. buffer.len \in Nat /\ buffer'.len \in 1 .. buffer.len + 1
        /\ buffer.len <= n
    BY <1>1 DEF IsRing, PushObservation, History, RingHoldsNewestUpdates
  <2>2. ASSUME NEW m \in 1 .. buffer'.len
        PROVE  NthNewest(buffer', m) =
                  [slot |-> NthUpdate(m)'.slot,
                   cumulative_price |-> NthUpdate(m)'.cumulative_price]
    <3>1. NthNewest(buffer', m) = IF m = 1 THEN o ELSE NthNewest(buffer, m - 1)
      BY <1>1, <1>2, PushAges
    <3>2. CASE m = 1
      <4>1. NthUpdate(m)' = e
        BY <3>2, <1>3 DEF NthUpdate
      <4> QED
        BY <4>1, <3>1, <3>2
    <3>3. CASE m # 1
      <4>1. m - 1 \in 1 .. buffer.len
        BY <2>1, <3>3
      <4>2. NthUpdate(m)' = NthUpdate(m - 1)
        <5>1. /\ n + 1 - m + 1 = n - (m - 1) + 1
              /\ n - (m - 1) + 1 \in 1 .. n
          BY <4>1, <2>1, <1>3
        <5>2. NthUpdate(m)' = updates'[n + 1 - m + 1]
          BY <1>3 DEF NthUpdate
        <5> QED
          BY <5>1, <5>2, <1>3 DEF NthUpdate
      <4> QED
        BY <4>1, <4>2, <3>1, <3>3 DEF History, RingHoldsNewestUpdates
    <3> QED
      BY <3>2, <3>3
  <2> QED
    BY <1>3, <2>1, <2>2 DEF RingHoldsNewestUpdates
<1>10. CASE SkipReward(r)
  <2>1. claims' = claims
    BY <1>10 DEF SkipReward, rewardVars
  <2>2. RewardsFollowUpdates'
    <3>1. ASSUME NEW c \in DOMAIN claims
          PROVE  \E k \in 1 .. n : /\ claims[c].for_slot  = updates'[k].slot
                                  /\ claims[c].updater   = updates'[k].updater
                                  /\ claims[c].paid_slot = updates'[k + 1].slot
      <4>1. PICK k \in 1 .. n - 1 : /\ claims[c].for_slot  = updates[k].slot
                                    /\ claims[c].updater   = updates[k].updater
                                    /\ claims[c].paid_slot = updates[k + 1].slot
        BY DEF History, RewardsFollowUpdates
      <4>2. k \in 1 .. n /\ k + 1 \in 1 .. n
        BY <1>3, <4>1
      <4> QED
        BY <4>1, <4>2, <1>3
    <3> QED
      BY <3>1, <2>1, <1>3 DEF History, RewardsFollowUpdates
  <2>3. ClaimsAreSettled'
    <3>1. ASSUME NEW c \in DOMAIN claims PROVE claims[c].for_slot < slot
      <4>1. claims[c].for_slot \in Nat
        <5>1. claims \in Seq(ClaimType)
          BY DEF Structure, TypeOK
        <5>2. claims[c] \in ClaimType
          BY <5>1, AppendedEvent
        <5> QED
          BY <5>2 DEF ClaimType
      <4> QED
        BY <4>1, <1>1, <1>4 DEF History, ClaimsAreSettled
    <3> QED
      BY <3>1, <2>1, <1>5 DEF ClaimsAreSettled
  <2> QED
    BY <1>7, <1>8, <1>9, <2>2, <2>3 DEF History
<1>11. CASE PayReward(r)
  <2> DEFINE new == [updater   |-> oracle.last_updater,
                     amount    |-> vault.reward_per_update,
                     for_slot  |-> oracle.last_slot,
                     paid_slot |-> slot,
                     recipient |-> r]
             d == Len(claims)
  <2>1. claims' = Append(claims, new) /\ oracle.last_updater # NoKey
    BY <1>11 DEF PayReward, RewardDue
  <2>2. /\ d \in Nat /\ DOMAIN claims = 1 .. d /\ DOMAIN claims' = 1 .. d + 1
        /\ claims'[d + 1] = new
        /\ \A c \in 1 .. d : claims'[c] = claims[c] /\ claims[c].for_slot \in Nat
    <3>1. claims \in Seq(ClaimType)
      BY DEF Structure, TypeOK
    <3>2. \A c \in 1 .. d : claims[c] \in ClaimType
      BY <3>1, AppendedEvent
    <3>3. \A c \in 1 .. d : claims[c].for_slot \in Nat
      BY <3>2 DEF ClaimType
    <3>4. /\ d \in Nat /\ DOMAIN claims = 1 .. d /\ DOMAIN claims' = 1 .. d + 1
          /\ claims'[d + 1] = new
          /\ \A c \in 1 .. d : claims'[c] = claims[c]
      <4> HIDE DEF new
      <4> QED
        BY <2>1, <3>1, AppendedEvent
    <3> QED
      BY <3>3, <3>4
  <2>3. /\ n >= 1
        /\ oracle.last_slot = updates[n].slot
        /\ oracle.last_updater = updates[n].updater
    <3>1. updates # <<>>
      BY <2>1 DEF History, OracleIsLastUpdate
    <3>2. n >= 1 /\ NthUpdate(1) = updates[n]
      BY <3>1, <1>3 DEF NthUpdate, Structure, TypeOK
    <3> QED
      BY <3>1, <3>2 DEF History, OracleIsLastUpdate
  <2>4. ASSUME NEW c \in 1 .. d + 1
        PROVE  \E k \in 1 .. n : /\ claims'[c].for_slot  = updates'[k].slot
                                /\ claims'[c].updater   = updates'[k].updater
                                /\ claims'[c].paid_slot = updates'[k + 1].slot
    <3>1. CASE c = d + 1
      <4>1. n \in 1 .. n
        BY <1>3, <2>3
      <4>2. /\ claims'[c].for_slot  = updates'[n].slot
            /\ claims'[c].updater   = updates'[n].updater
            /\ claims'[c].paid_slot = updates'[n + 1].slot
        BY <3>1, <2>2, <2>3, <1>3, <4>1
      <4> QED
        BY <4>1, <4>2
    <3>2. CASE c # d + 1
      <4>1. c \in 1 .. d /\ claims'[c] = claims[c]
        BY <3>2, <2>2
      <4>2. PICK k \in 1 .. n - 1 : /\ claims[c].for_slot  = updates[k].slot
                                    /\ claims[c].updater   = updates[k].updater
                                    /\ claims[c].paid_slot = updates[k + 1].slot
        BY <4>1, <2>2 DEF History, RewardsFollowUpdates
      <4>3. k \in 1 .. n /\ k + 1 \in 1 .. n
        BY <1>3, <4>2
      <4> QED
        BY <4>1, <4>2, <4>3, <1>3
    <3> QED
      BY <3>1, <3>2
  <2>5. \A c \in 1 .. d : claims[c].for_slot < oracle.last_slot
    BY <2>2 DEF History, ClaimsAreSettled
  <2>6. ASSUME NEW c1 \in 1 .. d + 1, NEW c2 \in 1 .. d + 1, c1 < c2
        PROVE  claims'[c1].for_slot < claims'[c2].for_slot
    <3>1. CASE c2 = d + 1
      <4>1. c1 \in 1 .. d
        BY <3>1, <2>6, <2>2
      <4>2. claims'[c1].for_slot < oracle.last_slot
        BY <4>1, <2>2, <2>5
      <4> QED
        BY <4>2, <3>1, <2>2
    <3>2. CASE c2 # d + 1
      <4>1. d \in Nat
        BY <2>2
      <4>2. c1 \in 1 .. d /\ c2 \in 1 .. d
        BY <4>1, <3>2, <2>6
      <4>3. claims[c1].for_slot < claims[c2].for_slot
        BY <4>2, <2>2, <2>6 DEF History, RewardsFollowUpdates
      <4> QED
        BY <4>2, <4>3, <2>2
    <3> QED
      BY <3>1, <3>2
  <2>7. RewardsFollowUpdates'
    BY <2>2, <2>4, <2>6, <1>3 DEF RewardsFollowUpdates
  <2>8. ClaimsAreSettled'
    <3>1. ASSUME NEW c \in 1 .. d + 1 PROVE claims'[c].for_slot < slot
      <4>1. CASE c = d + 1
        BY <4>1, <2>2, <1>1
      <4>2. CASE c # d + 1
        BY <4>2, <2>2, <2>5, <1>1, <1>4
      <4> QED
        BY <4>1, <4>2
    <3> QED
      BY <3>1, <2>2, <1>5 DEF ClaimsAreSettled
  <2> QED
    BY <1>7, <1>8, <1>9, <2>7, <2>8 DEF History
<1> QED
  BY <1>1, <1>10, <1>11

LEMMA HistoryStep == Structure /\ History /\ [Next]_vars => History'
<1> SUFFICES ASSUME Structure, History, [Next]_vars PROVE History'
  OBVIOUS
<1>0. slot \in Nat
  BY DEF Structure, TypeOK
<1>1. CASE AdvanceSlot
  BY <1>0, <1>1, QuietHistory DEF AdvanceSlot, oracleVars, rewardVars
<1>2. ASSUME NEW u \in Users, Administer(u) PROVE History'
  BY <1>2, AdministerHistory
<1>3. ASSUME NEW u \in Users, Reward(u) PROVE History'
  BY <1>0, <1>3, QuietHistory
     DEF Reward, InitializeRewardVault, FundRewardVault, WithdrawRewardVault,
         oracleVars
<1>4. ASSUME NEW u \in Users, Submit(u) PROVE History'
  BY <1>4, UpdateHistory DEF Submit
<1>5. CASE UNCHANGED vars
  BY <1>0, <1>5, QuietHistory DEF vars, oracleVars, rewardVars
<1> QED
  BY <1>1, <1>2, <1>3, <1>4, <1>5 DEF Next

LEMMA Invariance == Spec => [](Structure /\ History)
<1>1. Init => Structure /\ History
  BY InitStructure, InitHistory
<1>2. (Structure /\ History) /\ [Next]_vars => (Structure /\ History)'
  BY StructureStep, HistoryStep
<1> QED
  BY <1>1, <1>2, PTL DEF Spec

\* The invariant TLC checks is inductive, so it holds of every instance.
THEOREM Inductive == Spec => []InductiveInvariant
<1>1. Structure /\ History => InductiveInvariant
  BY DEF Structure, History, InductiveInvariant
<1> QED
  BY <1>1, Invariance, PTL

\* Through any sequence of pushes, wraps and resizes, the ring read backwards is
\* the newest updates in order.
THEOREM RingHistory == Spec => []RingHoldsNewestUpdates
  BY Invariance, PTL DEF History

\* Each update is rewarded at most once, by the update after it, in the name of
\* the key that submitted it.
THEOREM RewardHistory == Spec => []RewardsFollowUpdates
  BY Invariance, PTL DEF History

--------------------------------------------------------------------------------
(* What a step may never do *)

LEMMA WedgeStep ==
    Structure /\ History /\ [Next]_vars => [Wedged => Wedged']_vars
<1> SUFFICES ASSUME Structure, History, [Next]_vars, Wedged
             PROVE  Wedged'
  OBVIOUS
<1>1. /\ oracle \in OracleType /\ slot \in Nat /\ oracle.last_slot <= slot
      /\ oracle.last_slot \in Nat /\ oracle.last_price \in Nat
      /\ oracle.cumulative_price \in Nat
  BY DEF Structure, TypeOK, OracleType, History, OracleIsLastUpdate
<1>2. ASSUME slot' = slot,
             oracle'.last_slot = oracle.last_slot,
             oracle'.last_price = oracle.last_price,
             oracle'.cumulative_price = oracle.cumulative_price
      PROVE  Wedged'
  BY <1>2 DEF Wedged, ExtendedCumulative
<1>3. CASE AdvanceSlot
  <2>1. oracle.last_price * (slot + 1 - oracle.last_slot)
           = oracle.last_price * (slot - oracle.last_slot) + oracle.last_price
    BY <1>1
  <2>2. oracle.last_price * (slot - oracle.last_slot) \in Int
    BY <1>1
  <2> QED
    BY <1>1, <1>3, <2>1, <2>2
       DEF AdvanceSlot, oracleVars, Wedged, ExtendedCumulative
<1>4. ASSUME NEW u \in Users, Administer(u) PROVE Wedged'
  <2>1. ASSUME NEW c \in Capacities, InitializeOracle(u, c) PROVE Wedged'
    <3>1. oracle.cumulative_price = 0 /\ oracle.last_price = 0
      BY <2>1 DEF InitializeOracle, Structure, Lifecycle, NoOracle, NewOracle
    <3>2. ~ (0 + 0 * (slot - oracle.last_slot) > MaxU128)
      BY <1>1
    <3> QED
      BY <3>1, <3>2 DEF Wedged, ExtendedCumulative
  <2>2. ASSUME NEW c \in Capacities, ResizeBuffer(u, c) PROVE Wedged'
    BY <1>2, <2>2 DEF ResizeBuffer
  <2>3. ASSUME NEW v \in Users \cup {NoKey}, TransferOwnership(u, v) PROVE Wedged'
    BY <1>1, <1>2, <2>3 DEF TransferOwnership, OracleType
  <2>4. ASSUME AcceptOwnership(u) PROVE Wedged'
    BY <1>1, <1>2, <2>4 DEF AcceptOwnership, OracleType
  <2>5. ASSUME NEW b \in BOOLEAN, SetPaused(u, b) PROVE Wedged'
    BY <1>1, <1>2, <2>5 DEF SetPaused, OracleType
  <2>6. ASSUME NEW d \in Deviations, SetMaxDeviation(u, d) PROVE Wedged'
    BY <1>1, <1>2, <2>6 DEF SetMaxDeviation, OracleType
  <2> QED
    BY <1>4, <2>1, <2>2, <2>3, <2>4, <2>5, <2>6 DEF Administer
<1>5. ASSUME NEW u \in Users, Reward(u) PROVE Wedged'
  BY <1>2, <1>5 DEF Reward, InitializeRewardVault, FundRewardVault,
                    WithdrawRewardVault, oracleVars
<1>6. ASSUME NEW u \in Users, Submit(u) PROVE Wedged'
  <2>1. Fits(ExtendedCumulative(oracle, slot))
    BY <1>6 DEF Submit, UpdatePrice
  <2> QED
    BY <2>1 DEF Fits, Wedged
<1>7. CASE UNCHANGED vars
  BY <1>2, <1>7 DEF vars, oracleVars
<1> QED
  BY <1>3, <1>4, <1>5, <1>6, <1>7 DEF Next

\* Once the accumulator cannot be carried to the current slot no instruction
\* ever brings the oracle back, whatever prices and slots the instance has.
THEOREM WedgeNeverHeals == Spec => WedgeIsPermanent
<1>1. (Structure /\ History) /\ [Next]_vars => [Wedged => Wedged']_vars
  BY WedgeStep
<1> QED
  BY <1>1, Invariance, PTL DEF Spec, WedgeIsPermanent

\* Ownership moves only by acceptance, and a proposal ends only that way.
THEOREM ProposalNeedsAcceptance == Spec => ProposalEndsInAcceptance
<1> DEFINE Moved == /\ oracle'.owner # oracle.owner /\ oracle.owner # NoKey =>
                         /\ oracle'.owner = oracle.pending_owner
                         /\ oracle'.pending_owner = NoKey
                    /\ oracle.pending_owner # NoKey /\ oracle'.pending_owner = NoKey =>
                         oracle'.owner = oracle.pending_owner
<1>1. Structure /\ [Next]_vars => [Moved]_vars
  <2> SUFFICES ASSUME Structure, Next PROVE Moved
    BY DEF Moved
  <2>0. oracle \in OracleType
    BY DEF Structure, TypeOK
  <2>1. CASE oracle' = oracle
    BY <2>1
  <2>2. ASSUME NEW u \in Users, Administer(u) PROVE Moved
    <3>1. ASSUME NEW c \in Capacities, InitializeOracle(u, c) PROVE Moved
      BY <3>1 DEF InitializeOracle, Structure, Lifecycle, NoOracle, NewOracle
    <3>2. ASSUME NEW c \in Capacities, ResizeBuffer(u, c) PROVE Moved
      BY <3>2 DEF ResizeBuffer
    <3>3. ASSUME NEW v \in Users \cup {NoKey}, TransferOwnership(u, v) PROVE Moved
      BY <2>0, <3>3 DEF TransferOwnership, OracleType
    <3>4. ASSUME AcceptOwnership(u) PROVE Moved
      BY <2>0, <3>4 DEF AcceptOwnership, OracleType
    <3>5. ASSUME NEW b \in BOOLEAN, SetPaused(u, b) PROVE Moved
      BY <2>0, <3>5 DEF SetPaused, OracleType
    <3>6. ASSUME NEW d \in Deviations, SetMaxDeviation(u, d) PROVE Moved
      BY <2>0, <3>6 DEF SetMaxDeviation, OracleType
    <3> QED
      BY <2>2, <3>1, <3>2, <3>3, <3>4, <3>5, <3>6 DEF Administer
  <2>3. ASSUME NEW u \in Users, Submit(u) PROVE Moved
    BY <2>0, <2>3 DEF Submit, UpdatePrice, Accepted, OracleType
  <2>4. ASSUME NEW u \in Users, Reward(u) PROVE oracle' = oracle
    BY <2>4 DEF Reward, InitializeRewardVault, FundRewardVault,
                WithdrawRewardVault, oracleVars
  <2> QED
    BY <2>1, <2>2, <2>3, <2>4 DEF Next, AdvanceSlot, oracleVars
<1> QED
  BY <1>1, StructureInvariant, PTL DEF Spec, ProposalEndsInAcceptance

--------------------------------------------------------------------------------
(* The ring implements the sliding window *)

\* The ring read by age is a sequence of observations, newest first.
LEMMA WindowIsSequence ==
    ASSUME IsRing(buffer, Observations)
    PROVE  /\ buffer.len \in Nat /\ buffer.capacity \in Nat \ {0}
           /\ buffer.len <= buffer.capacity
           /\ Window \in Seq(Observations) /\ Len(Window) = buffer.len
           /\ \A n \in 1 .. buffer.len : Window[n] = NthNewest(buffer, n)
<1>1. /\ buffer.capacity \in Nat \ {0} /\ buffer.len \in 0 .. buffer.capacity
      /\ buffer.head \in 0 .. buffer.capacity - 1
      /\ buffer.observations \in [0 .. buffer.capacity - 1 -> Observations]
  BY DEF IsRing
<1>2. ASSUME NEW n \in 1 .. buffer.len
      PROVE  NthNewest(buffer, n) \in Observations
  <2>1. n \in 1 .. buffer.capacity
    BY <1>1
  <2>2. (buffer.head + buffer.capacity - n) % buffer.capacity
           \in 0 .. buffer.capacity - 1
    BY <1>1, <2>1, IndexOfAge
  <2> QED
    BY <1>1, <2>2 DEF NthNewest
<1>3. Window \in Seq(Observations) /\ Len(Window) = buffer.len
  BY <1>1, <1>2 DEF Window
<1> QED
  BY <1>1, <1>3 DEF Window

LEMMA RefinesInit == Init => SlidingWindow!Init
  BY DEF Init, NewBuffer, SlidingWindow!Init, Window

\* resize_buffer is the abstract change of capacity.
LEMMA RefinesResize ==
    ASSUME Structure, NEW u \in Users, NEW c \in Capacities, ResizeBuffer(u, c)
    PROVE  SlidingWindow!SetCapacity(c)
<1>1. /\ IsRing(buffer, Observations) /\ c \in Nat \ {0}
      /\ FitsAccount(Resize(buffer, c))
      /\ buffer' = Resize(buffer, c)
  BY DEF ResizeBuffer, IsOwner, Structure, Lifecycle
<1>2. ZeroObservation \in Observations
  BY DEF ZeroObservation, Observations
<1>3. /\ buffer'.capacity = c
      /\ buffer'.len = Smaller(c, buffer.len)
      /\ \A n \in 1 .. Smaller(c, buffer.len) :
            NthNewest(buffer', n) = NthNewest(buffer, n)
  BY <1>1, <1>2, ResizeKeepsNewest
<1>4. /\ buffer.len \in Nat /\ buffer.capacity \in Nat \ {0}
      /\ Len(Window) = buffer.len
      /\ \A n \in 1 .. buffer.len : Window[n] = NthNewest(buffer, n)
  BY <1>1, WindowIsSequence
<1>5. /\ SlidingWindow!AtMost(c, Window) = Smaller(c, buffer.len)
      /\ Smaller(c, buffer.len) \in 0 .. buffer.len
  BY <1>1, <1>4 DEF SlidingWindow!AtMost, Smaller
<1>6. \A n \in 1 .. Smaller(c, buffer.len) : NthNewest(buffer', n) = Window[n]
  BY <1>3, <1>4, <1>5
<1>7. Window' = [n \in 1 .. Smaller(c, buffer.len) |-> Window[n]]
  <2>1. Window' = [n \in 1 .. Smaller(c, buffer.len) |-> NthNewest(buffer', n)]
    BY <1>3 DEF Window
  <2> QED
    BY <2>1, <1>6
<1>8. SlidingWindow!Newest(c, Window) = [n \in 1 .. Smaller(c, buffer.len) |-> Window[n]]
  BY <1>5 DEF SlidingWindow!Newest
<1> QED
  BY <1>3, <1>4, <1>7, <1>8 DEF SlidingWindow!SetCapacity

\* update_price is the abstract recording of an observation.
LEMMA RefinesUpdate ==
    ASSUME Structure, History, NEW u \in Users, NEW p \in Prices,
           NEW r \in TokenAccounts \cup {None}, UpdatePrice(u, p, r)
    PROVE  SlidingWindow!Record
<1> DEFINE o == [slot |-> slot,
                 cumulative_price |-> ExtendedCumulative(oracle, slot)]
           full == SlidingWindow!InFront(o, Window)
<1>1. /\ Fits(ExtendedCumulative(oracle, slot)) /\ oracle.last_slot < slot
      /\ IsRing(buffer, Observations)
      /\ buffer' = PushObservation(buffer, o)
  BY DEF UpdatePrice, Structure, Lifecycle
<1>2. o \in Observations
  BY <1>1 DEF Fits, Structure, TypeOK, Observations
<1>3. /\ buffer.len \in Nat /\ buffer.capacity \in Nat \ {0}
      /\ buffer.len <= buffer.capacity
      /\ Len(Window) = buffer.len
      /\ \A n \in 1 .. buffer.len : Window[n] = NthNewest(buffer, n)
  BY <1>1, WindowIsSequence
<1>4. /\ buffer'.capacity = buffer.capacity
      /\ buffer'.len = Smaller(buffer.capacity, buffer.len + 1)
  BY <1>1, <1>3 DEF PushObservation, Smaller
<1>5. \A n \in 1 .. buffer'.len :
         NthNewest(buffer', n) = IF n = 1 THEN o ELSE NthNewest(buffer, n - 1)
  BY <1>1, <1>2, PushAges
<1> HIDE DEF o
<1>6. /\ full = [n \in 1 .. buffer.len + 1 |-> IF n = 1 THEN o ELSE Window[n - 1]]
      /\ Len(full) = buffer.len + 1
  BY <1>3 DEF SlidingWindow!InFront
<1> HIDE DEF full
<1>7. /\ SlidingWindow!AtMost(buffer.capacity, full) = buffer'.len
      /\ buffer'.len \in 1 .. buffer.len + 1
  BY <1>3, <1>4, <1>6 DEF SlidingWindow!AtMost, Smaller
<1>8. \A n \in 1 .. buffer'.len : NthNewest(buffer', n) = full[n]
  <2> SUFFICES ASSUME NEW n \in 1 .. buffer'.len
               PROVE  NthNewest(buffer', n) = full[n]
    OBVIOUS
  <2>1. n \in 1 .. buffer.len + 1 /\ (n = 1 \/ n - 1 \in 1 .. buffer.len)
    BY <1>3, <1>7
  <2>2. full[n] = IF n = 1 THEN o ELSE Window[n - 1]
    BY <2>1, <1>6
  <2> QED
    BY <2>1, <2>2, <1>3, <1>5
<1>9. Window' = SlidingWindow!Newest(buffer.capacity, full)
  <2>1. Window' = [n \in 1 .. buffer'.len |-> NthNewest(buffer', n)]
    BY DEF Window
  <2>2. SlidingWindow!Newest(buffer.capacity, full)
           = [n \in 1 .. buffer'.len |-> full[n]]
    BY <1>7 DEF SlidingWindow!Newest
  <2> QED
    BY <2>1, <2>2, <1>8
<1>10. Window' # <<>> /\ Window'[1] = o
  <2>1. 1 \in 1 .. buffer'.len /\ 1 \in 1 .. buffer.len + 1
    BY <1>3, <1>7
  <2>2. Window' = [n \in 1 .. buffer'.len |-> full[n]]
    BY <1>7, <1>9 DEF SlidingWindow!Newest
  <2>3. Window'[1] = full[1] /\ full[1] = o
    BY <2>1, <2>2, <1>6
  <2>4. 1 \in DOMAIN Window' /\ DOMAIN <<>> = {}
    BY <2>1, <2>2
  <2> QED
    BY <2>3, <2>4
<1>11. Window # <<>> => Window[1].slot < o.slot
  <2> SUFFICES ASSUME Window # <<>> PROVE Window[1].slot < o.slot
    OBVIOUS
  <2>1. 1 \in 1 .. buffer.len
    BY <1>1, <1>3, WindowIsSequence
  <2>2. Window[1].slot = NthUpdate(1).slot /\ Len(updates) >= 1
    BY <2>1, <1>3 DEF History, RingHoldsNewestUpdates, Structure, TypeOK
  <2>3. NthUpdate(1).slot = oracle.last_slot
    BY <2>2 DEF History, OracleIsLastUpdate
  <2> QED
    BY <2>2, <2>3, <1>1 DEF o
<1> QED
  BY <1>2, <1>3, <1>4, <1>9, <1>10, <1>11 DEF SlidingWindow!Record, full

\* Every step is an abstract step or leaves the window alone.
LEMMA RefinesStep ==
    Structure /\ History /\ [Next]_vars => [SlidingWindow!Next]_(SlidingWindow!vars)
<1> SUFFICES ASSUME Structure, History, [Next]_vars
             PROVE  SlidingWindow!Next \/ UNCHANGED SlidingWindow!vars
  OBVIOUS
<1>1. CASE buffer' = buffer
  BY <1>1 DEF SlidingWindow!vars, Window
<1>2. ASSUME NEW u \in Users, NEW c \in Capacities, InitializeOracle(u, c)
      PROVE  SlidingWindow!Create(c)
  <2>1. buffer.capacity = 0 /\ buffer' = NewBuffer(c)
    BY <1>2 DEF InitializeOracle, Structure, Lifecycle, NewBuffer
  <2>2. buffer'.len = 0 /\ buffer'.capacity = c
    BY <2>1 DEF NewBuffer
  <2>3. Window' = <<>>
    BY <2>2 DEF Window
  <2> QED
    BY <2>1, <2>2, <2>3 DEF SlidingWindow!Create
<1>3. ASSUME NEW u \in Users, Administer(u)
      PROVE  buffer' = buffer \/ \E c \in Capacities :
                SlidingWindow!Create(c) \/ SlidingWindow!SetCapacity(c)
  BY <1>2, <1>3, RefinesResize
     DEF Administer, TransferOwnership, AcceptOwnership, SetPaused, SetMaxDeviation
<1>4. ASSUME NEW u \in Users, Submit(u)
      PROVE  SlidingWindow!Record
  BY <1>4, RefinesUpdate DEF Submit
<1>5. ASSUME NEW u \in Users, Reward(u)
      PROVE  buffer' = buffer
  BY <1>5 DEF Reward, InitializeRewardVault, FundRewardVault,
              WithdrawRewardVault, oracleVars
<1> QED
  BY <1>1, <1>3, <1>4, <1>5
     DEF Next, AdvanceSlot, vars, oracleVars, SlidingWindow!Next

\* The ring, its head, its wrap-around and its reallocation implement a plain
\* window over the stream of observations, for every capacity.
THEOREM RingImplementsWindow == Spec => ImplementsSlidingWindow
<1>1. (Structure /\ History) /\ [Next]_vars
         => [SlidingWindow!Next]_(SlidingWindow!vars)
  BY RefinesStep
<1> QED
  BY <1>1, RefinesInit, Invariance, PTL
     DEF Spec, ImplementsSlidingWindow, SlidingWindow!Spec

--------------------------------------------------------------------------------
(* Availability *)

\* The conditions update_price checks, of the price and of the reward account passed.
Admits(price, recipient) ==
    /\ OracleExists
    /\ recipient # None => VaultExists
    /\ ~ oracle.paused
    /\ oracle.last_slot < slot
    /\ WithinDeviation(price)
    /\ RewardDue(recipient) => CountersFit
    /\ Fits(ExtendedCumulative(oracle, slot))

\* What it leaves of the accounts: a state of its own, whatever the state before.
UpdateAssigns(payer, price, recipient) ==
    LET cumulative == ExtendedCumulative(oracle, slot)
    IN  /\ oracle' = Accepted(payer, price, cumulative)
        /\ buffer' = PushObservation(buffer, [slot |-> slot,
                                              cumulative_price |-> cumulative])
        /\ updates' = Append(updates, [slot             |-> slot,
                                       price            |-> price,
                                       cumulative_price |-> cumulative,
                                       updater          |-> payer])
        /\ rewardVars' =
              IF RewardDue(recipient)
              THEN <<[vault EXCEPT !.total_distributed = @ + vault.reward_per_update,
                                   !.total_updates_rewarded = @ + 1,
                                   !.last_rewarded_slot = oracle.last_slot],
                     Transferred(VaultTokens, recipient, vault.reward_per_update),
                     Append(claims, [updater   |-> oracle.last_updater,
                                     amount    |-> vault.reward_per_update,
                                     for_slot  |-> oracle.last_slot,
                                     paid_slot |-> slot,
                                     recipient |-> recipient])>>
              ELSE rewardVars
        /\ UNCHANGED <<slot, accounts>>

\* Nothing else stops an update: the handler is its checks, and then an assignment to
\* every variable.
LEMMA UpdateIsAdmitted ==
    ASSUME NEW payer, NEW price, NEW recipient
    PROVE  UpdatePrice(payer, price, recipient) <=>
              Admits(price, recipient) /\ UpdateAssigns(payer, price, recipient)
<1>1. PayReward(recipient) \/ SkipReward(recipient) <=>
         /\ RewardDue(recipient) => CountersFit
         /\ rewardVars' =
              IF RewardDue(recipient)
              THEN <<[vault EXCEPT !.total_distributed = @ + vault.reward_per_update,
                                   !.total_updates_rewarded = @ + 1,
                                   !.last_rewarded_slot = oracle.last_slot],
                     Transferred(VaultTokens, recipient, vault.reward_per_update),
                     Append(claims, [updater   |-> oracle.last_updater,
                                     amount    |-> vault.reward_per_update,
                                     for_slot  |-> oracle.last_slot,
                                     paid_slot |-> slot,
                                     recipient |-> recipient])>>
              ELSE rewardVars
  <2>1. CASE RewardDue(recipient)
    BY <2>1 DEF PayReward, SkipReward, rewardVars
  <2>2. CASE ~ RewardDue(recipient)
    BY <2>2 DEF PayReward, SkipReward, rewardVars
  <2> QED
    BY <2>1, <2>2
<1> QED
  BY <1>1, Zenon DEF UpdatePrice, Admits, UpdateAssigns

\* An accumulator that no longer fits is the only thing that keeps the price in force
\* from being confirmed: with the oracle running and no update in this slot yet, anyone
\* may repeat it, and pass a reward account as well when the vault exists and its
\* counters have room, however little it holds.
THEOREM RepeatsAreAdmitted ==
    Spec => [](OracleExists /\ ~ oracle.paused /\ oracle.last_slot < slot /\ ~ Wedged =>
                  \A r \in TokenAccounts \cup {None} :
                     (r # None => VaultExists /\ CountersFit) => Admits(oracle.last_price, r))
<1>1. ASSUME Structure, OracleExists, ~ oracle.paused, oracle.last_slot < slot, ~ Wedged,
             NEW r \in TokenAccounts \cup {None}, r # None => VaultExists /\ CountersFit
      PROVE  Admits(oracle.last_price, r)
  <2>1. /\ oracle.last_price \in 0 .. MaxU128 /\ oracle.cumulative_price \in 0 .. MaxU128
        /\ oracle.last_slot \in Nat /\ oracle.max_deviation_bps \in Nat /\ slot \in Nat
    BY <1>1 DEF Structure, TypeOK, OracleType
  <2>2. WithinDeviation(oracle.last_price)
    <3> SUFFICES ASSUME oracle.last_price # 0 PROVE WithinDeviation(oracle.last_price)
      BY DEF WithinDeviation
    <3>1. Distance(oracle.last_price, oracle.last_price) * BPS_DENOMINATOR = 0
      BY <2>1 DEF Distance, BPS_DENOMINATOR
    <3>2. 0 \div oracle.last_price = 0 /\ Fits(0)
      BY <2>1 DEF Fits
    <3> QED
      BY <2>1, <3>1, <3>2 DEF WithinDeviation
  <2>3. Fits(ExtendedCumulative(oracle, slot))
    <3> DEFINE p == oracle.last_price
               d == slot - oracle.last_slot
    <3>1. p \in Nat /\ d \in Nat /\ oracle.cumulative_price \in Nat
      BY <1>1, <2>1
    <3>2. p * d \in Nat
      <4> HIDE DEF p, d
      <4> QED
        BY <3>1
    <3>3. ExtendedCumulative(oracle, slot) = oracle.cumulative_price + p * d
      BY DEF ExtendedCumulative
    <3> HIDE DEF p, d
    <3> QED
      BY <1>1, <3>1, <3>2, <3>3 DEF Wedged, Fits
  <2>4. RewardDue(r) => CountersFit
    BY <1>1 DEF RewardDue
  <2> QED
    BY <1>1, <2>2, <2>3, <2>4, Zenon DEF Admits
<1>2. Structure =>
         (OracleExists /\ ~ oracle.paused /\ oracle.last_slot < slot /\ ~ Wedged =>
             \A r \in TokenAccounts \cup {None} :
                (r # None => VaultExists /\ CountersFit) => Admits(oracle.last_price, r))
  BY <1>1
<1> QED
  BY <1>2, StructureInvariant, PTL
================================================================================
