------------------------- MODULE PriceAggregationProofs -------------------------
(***************************************************************************)
(* Theorems about PriceAggregation, for any pools, any number of trades    *)
(* and any order of the requests: what the medians and the spread test do  *)
(* to the answers, and so what a submitted price owes to them.             *)
(***************************************************************************)
EXTENDS PriceAggregationProperties, SumLemmas

--------------------------------------------------------------------------------
(* Medians *)

\* The extremes of a family of prices.
LEMMA Extremes ==
    ASSUME NEW D, IsFiniteSet(D), D # {}, NEW p \in [D -> Nat], NEW top \in Nat,
           \A d \in D : p[d] <= top
    PROVE  /\ Min(Range(p)) \in Range(p) /\ Max(Range(p)) \in Range(p)
           /\ Min(Range(p)) \in Nat /\ Max(Range(p)) \in Nat
           /\ \A d \in D : Min(Range(p)) <= p[d] /\ p[d] <= Max(Range(p))
<1> DEFINE R == Range(p)
<1>1. R \in SUBSET Nat /\ R # {} /\ \A x \in R : x <= top
  BY DEF Range
<1>2. \A d \in D : p[d] \in R
  BY DEF Range
<1> HIDE DEF R
<1>3. \E x \in R : \A y \in R : x =< y
  BY <1>1, LeastNatural
<1>4. \E x \in R : \A y \in R : y <= x
  BY <1>1, GreatestNatural
<1>5. \E x \in R : \A y \in R : x >= y
  BY <1>1, <1>4
<1>6. Min(R) \in R /\ \A y \in R : Min(R) =< y
  BY <1>3 DEF Min
<1>7. Max(R) \in R /\ \A y \in R : Max(R) >= y
  BY <1>5 DEF Max
<1>8. \A y \in R : y <= Max(R)
  BY <1>1, <1>7
<1> QED
  BY <1>1, <1>2, <1>6, <1>7, <1>8 DEF R

\* There is a k-th smallest price.
LEMMA RankedOK ==
    ASSUME NEW D, IsFiniteSet(D), NEW p \in [D -> Nat], NEW top \in Nat,
           \A d \in D : p[d] <= top, NEW k \in 1 .. Cardinality(D)
    PROVE  /\ Ranked(p, k) \in Range(p) /\ Ranked(p, k) \in Nat
           /\ Cardinality({ d \in D : p[d] < Ranked(p, k) }) < k
           /\ Cardinality({ d \in D : p[d] <= Ranked(p, k) }) >= k
<1> DEFINE Upto(v) == { d \in D : p[d] <= v }
           Below(v) == { d \in D : p[d] < v }
           C == { v \in Range(p) : Cardinality(Upto(v)) >= k }
<1>1. Range(p) \in SUBSET Nat /\ \A d \in D : p[d] \in Range(p)
  BY DEF Range
<1>2. Cardinality(D) \in Nat /\ k \in Nat /\ k >= 1 /\ k <= Cardinality(D)
  BY FS_CardinalityType
<1>3. D # {}
  <2>1. Cardinality({}) = 0
    BY FS_EmptySet
  <2> QED
    BY <1>2, <2>1
<1>4. Max(Range(p)) \in C
  <2>1. Max(Range(p)) \in Range(p) /\ \A d \in D : p[d] <= Max(Range(p))
    BY <1>3, Extremes
  <2>2. Upto(Max(Range(p))) = D
    BY <2>1
  <2> QED
    BY <1>2, <2>1, <2>2
<1>5. PICK v \in C : \A w \in C : v <= w
  <2>1. C \in SUBSET Nat /\ C # {}
    BY <1>1, <1>4
  <2> HIDE DEF C
  <2> QED
    BY <2>1, LeastNatural
<1>6. v \in Range(p) /\ v \in Nat /\ Cardinality(Upto(v)) >= k
  BY <1>1, <1>5
<1>7. Cardinality(Below(v)) < k
  <2>1. CASE Below(v) = {}
    BY <1>2, <2>1, FS_EmptySet
  <2>2. CASE Below(v) # {}
    <3> DEFINE W == { p[d] : d \in Below(v) }
    <3>1. W \in SUBSET Nat /\ W # {} /\ \A x \in W : x <= top
      BY <2>2
    <3>2. PICK w \in W : \A x \in W : x <= w
      <4> HIDE DEF W
      <4> QED
        BY <3>1, GreatestNatural
    <3>3. w \in Range(p) /\ w \in Nat /\ w < v
      BY <1>1, <3>2
    <3>4. Below(v) = Upto(w)
      <4>1. \A d \in D : p[d] < v <=> p[d] <= w
        <5> SUFFICES ASSUME NEW d \in D PROVE p[d] < v <=> p[d] <= w
          OBVIOUS
        <5>1. p[d] < v => p[d] <= w
          BY <3>2
        <5>2. p[d] \in Nat
          OBVIOUS
        <5> QED
          BY <1>6, <3>3, <5>1, <5>2
      <4> QED
        BY <4>1
    <3>5. w \notin C
      BY <1>5, <1>6, <3>3
    <3>6. ~ (Cardinality(Upto(w)) >= k)
      BY <3>3, <3>5
    <3>7. Cardinality(Upto(w)) \in Nat
      <4>1. Upto(w) \in SUBSET D
        OBVIOUS
      <4> HIDE DEF Upto
      <4> QED
        BY <4>1, FS_Subset, FS_CardinalityType
    <3> QED
      BY <1>2, <3>4, <3>6, <3>7
  <2> QED
    BY <2>1, <2>2
<1>8. DOMAIN p = D
  OBVIOUS
<1>9. /\ Cardinality({ d \in DOMAIN p : p[d] < v }) < k
      /\ Cardinality({ d \in DOMAIN p : p[d] <= v }) >= k
  BY <1>6, <1>7, <1>8
<1>10. /\ Ranked(p, k) \in Range(p)
       /\ Cardinality({ d \in DOMAIN p : p[d] < Ranked(p, k) }) < k
       /\ Cardinality({ d \in DOMAIN p : p[d] <= Ranked(p, k) }) >= k
  BY <1>6, <1>9 DEF Ranked
<1> QED
  BY <1>1, <1>8, <1>10

\* A median is half the sum of two prices that more than half of the prices reach, and
\* that more than half of the prices are not above.
LEMMA MedianOK ==
    ASSUME NEW D, IsFiniteSet(D), D # {}, NEW p \in [D -> Nat], NEW top \in Nat,
           \A d \in D : p[d] <= top
    PROVE  \E x, y \in Range(p) :
              /\ Median2(p) = x + y /\ x \in Nat /\ y \in Nat
              /\ Cardinality({ d \in D : p[d] < x }) < Cardinality(D) \div 2 + 1
              /\ Cardinality({ d \in D : p[d] < y }) < Cardinality(D) \div 2 + 1
              /\ Cardinality({ d \in D : p[d] <= y }) >= Cardinality(D) \div 2 + 1
<1> DEFINE n == Cardinality(D)
           h == n \div 2
<1>1. n \in Nat /\ n >= 1 /\ DOMAIN p = D
  BY FS_CardinalityType, FS_EmptySet
<1>2. h \in Nat /\ h + 1 \in 1 .. n /\ (n % 2 = 0 => h \in 1 .. n)
  <2> HIDE DEF n
  <2> QED
    BY <1>1
<1> DEFINE y == Ranked(p, h + 1)
           x == Ranked(p, h)
<1>3. /\ y \in Range(p) /\ y \in Nat
      /\ Cardinality({ d \in D : p[d] < y }) < h + 1
      /\ Cardinality({ d \in D : p[d] <= y }) >= h + 1
  <2> DEFINE k == h + 1
  <2>1. k \in 1 .. Cardinality(D)
    BY <1>2
  <2> HIDE DEF k
  <2>2. /\ Ranked(p, k) \in Range(p) /\ Ranked(p, k) \in Nat
        /\ Cardinality({ d \in D : p[d] < Ranked(p, k) }) < k
        /\ Cardinality({ d \in D : p[d] <= Ranked(p, k) }) >= k
    BY <2>1, RankedOK
  <2> QED
    BY <2>2 DEF k
<1>4. CASE n % 2 = 0
  <2> DEFINE k == h
  <2>1. k \in 1 .. Cardinality(D)
    BY <1>2, <1>4
  <2> HIDE DEF k
  <2>2. /\ Ranked(p, k) \in Range(p) /\ Ranked(p, k) \in Nat
        /\ Cardinality({ d \in D : p[d] < Ranked(p, k) }) < k
    BY <2>1, RankedOK
  <2>3. x \in Range(p) /\ x \in Nat /\ Cardinality({ d \in D : p[d] < x }) < h
    BY <2>2 DEF k
  <2>4. Median2(p) = x + y
    BY <1>1, <1>4 DEF Median2
  <2> DEFINE c == Cardinality({ d \in D : p[d] < x })
  <2>5. c \in Nat
    <3> DEFINE S == { d \in D : p[d] < x }
    <3>1. S \in SUBSET D
      OBVIOUS
    <3> HIDE DEF S
    <3>2. Cardinality(S) \in Nat
      BY <3>1, FS_Subset, FS_CardinalityType
    <3> QED
      BY <3>2 DEF S
  <2>6. c < h + 1
    <3> HIDE DEF c, h
    <3>1. c < h
      BY <2>3 DEF c
    <3> QED
      BY <1>2, <2>5, <3>1
  <2> HIDE DEF x, y
  <2> QED
    BY <1>3, <2>3, <2>4, <2>6
<1>5. CASE n % 2 # 0
  <2>1. Median2(p) = 2 * y
    BY <1>1, <1>5 DEF Median2
  <2> HIDE DEF x, y
  <2>2. Median2(p) = y + y
    BY <1>3, <2>1
  <2> QED
    BY <1>3, <2>2
<1> QED
  BY <1>4, <1>5

\* It lies between the extremes, so no price is farther from it than they are from each other.
LEMMA NearMedian ==
    ASSUME NEW D, IsFiniteSet(D), D # {}, NEW p \in [D -> Nat], NEW top \in Nat,
           \A d \in D : p[d] <= top
    PROVE  /\ Median2(p) \in Nat
           /\ \A d \in D : /\ Apart(2 * p[d], Median2(p)) \in Nat
                           /\ Apart(2 * p[d], Median2(p)) <= 2 * (Max(Range(p)) - Min(Range(p)))
<1>1. PICK x \in Range(p), y \in Range(p) : Median2(p) = x + y /\ x \in Nat /\ y \in Nat
  BY MedianOK
<1>2. PICK i \in D, j \in D : x = p[i] /\ y = p[j]
  BY DEF Range
<1> DEFINE low == Min(Range(p))
           high == Max(Range(p))
           m == Median2(p)
<1>3. low \in Nat /\ high \in Nat /\ \A d \in D : low <= p[d] /\ p[d] <= high
  BY Extremes
<1> HIDE DEF low, high
<1>4. m \in Nat /\ 2 * low <= m /\ m <= 2 * high
  BY <1>1, <1>2, <1>3
<1> HIDE DEF m
<1>5. ASSUME NEW d \in D PROVE Apart(2 * p[d], m) \in Nat /\ Apart(2 * p[d], m) <= 2 * (high - low)
  <2> DEFINE q == p[d]
  <2>1. q \in Nat /\ low <= q /\ q <= high
    BY <1>3
  <2> HIDE DEF q
  <2>2. Apart(2 * q, m) \in Nat /\ Apart(2 * q, m) <= 2 * (high - low)
    BY <1>3, <1>4, <2>1 DEF Apart
  <2> QED
    BY <2>2 DEF q
<1> QED
  BY <1>4, <1>5 DEF m, low, high

--------------------------------------------------------------------------------
(* The aggregation *)

Prices == (0 .. SCALE * SCALE) \cup {Infinity}

LEMMA ScaleOK ==
    /\ SCALE * SCALE \in Nat /\ SCALE * SCALE >= 1
    /\ Infinity \in Nat /\ Infinity > 2 * (SCALE * SCALE)
    /\ PER_UNIT \in Nat \ {0} /\ MIN_SOURCES \in Nat \ {0}
<1>1. SCALE \in Nat /\ SCALE >= 1 /\ Infinity > 2 * SCALE * SCALE
  BY AggregationAssumption
<1>2. \A x \in Nat : x >= 1 => x * x \in Nat /\ x * x >= 1 /\ 2 * x * x = 2 * (x * x)
  OBVIOUS
<1> QED
  BY <1>1, <1>2, AggregationAssumption

LEMMA PricesOK == Prices \in SUBSET Nat /\ \A x \in Prices : x <= Infinity
BY ScaleOK DEF Prices

\* The filter drops some of the prices, or none.
LEMMA KeptOK ==
    ASSUME NEW D, NEW p \in [D -> Prices]
    PROVE  /\ DOMAIN FilterOutliers(p) \subseteq D
           /\ FilterOutliers(p) \in [DOMAIN FilterOutliers(p) -> Prices]
           /\ \A d \in DOMAIN FilterOutliers(p) : FilterOutliers(p)[d] = p[d]
           /\ Median2(p) = 0 \/ Median2(p) >= Infinity => FilterOutliers(p) = p
           /\ ~ (Median2(p) = 0 \/ Median2(p) >= Infinity) =>
                 \A d \in D : d \in DOMAIN FilterOutliers(p) <=>
                    WithinSpread(Apart(2 * p[d], Median2(p)), Median2(p))
<1> DEFINE m == Median2(p)
           K == { d \in D : WithinSpread(Apart(2 * p[d], m), m) }
<1>1. FilterOutliers(p) = IF m = 0 \/ m >= Infinity THEN p ELSE Restrict(p, K)
  BY DEF FilterOutliers
<1>2. CASE m = 0 \/ m >= Infinity
  BY <1>1, <1>2
<1>3. CASE ~ (m = 0 \/ m >= Infinity)
  <2>1. FilterOutliers(p) = [d \in K |-> p[d]]
    BY <1>1, <1>3 DEF Restrict
  <2>2. K \subseteq D /\ DOMAIN FilterOutliers(p) = K
    BY <2>1
  <2> HIDE DEF m
  <2> QED
    BY <1>3, <2>1, <2>2 DEF m
<1> QED
  BY <1>2, <1>3

\* A run is skipped unless enough prices are kept and agree.
LEMMA AggregateCases ==
    ASSUME NEW p, Aggregate(p) # Ends("skipped")
    PROVE  LET kept == FilterOutliers(p)
           IN  /\ Enough(p) /\ Enough(kept) /\ Agreeing(kept)
               /\ IF Median2(kept) >= Infinity THEN Aggregate(p) = Ends("threw")
                  ELSE Aggregate(p) = Submits((Median2(kept) + PER_UNIT) \div (2 * PER_UNIT))
BY DEF Aggregate

\* A median that is finite is that of two finite prices.
LEMMA FiniteMedian ==
    ASSUME NEW D, IsFiniteSet(D), D # {}, NEW p \in [D -> Prices]
    PROVE  /\ Median2(p) \in Nat
           /\ Median2(p) < Infinity => Median2(p) <= 2 * (SCALE * SCALE)
<1>1. p \in [D -> Nat] /\ Infinity \in Nat /\ \A d \in D : p[d] <= Infinity
  BY PricesOK, ScaleOK
<1>2. PICK x \in Range(p), y \in Range(p) : Median2(p) = x + y /\ x \in Nat /\ y \in Nat
  BY <1>1, MedianOK
<1>3. x \in Prices /\ y \in Prices
  BY DEF Range
<1> DEFINE t == SCALE * SCALE
<1>4. t \in Nat /\ (x <= t \/ x = Infinity) /\ (y <= t \/ y = Infinity)
  BY <1>3, ScaleOK DEF Prices
<1> HIDE DEF t
<1>5. Infinity \in Nat
  BY ScaleOK
<1>6. x + y < Infinity => x + y <= 2 * t
  BY <1>2, <1>4, <1>5
<1> QED
  BY <1>2, <1>6 DEF t

\* The submitted price is the median, to the nearest unit.
LEMMA Rounding ==
    ASSUME NEW m \in Nat, NEW unit \in Nat \ {0}
    PROVE  LET price == (m + unit) \div (2 * unit)
           IN  /\ price \in Nat
               /\ 2 * (unit * price) \in Nat
               /\ 2 * (unit * price) <= m + unit /\ m - unit < 2 * (unit * price)
<1> DEFINE x == m + unit
           i == 2 * unit
           q == x \div i
<1>1. x \in Nat /\ i \in Nat /\ i > 0
  OBVIOUS
<1>2. q \in Nat /\ i * q <= x /\ x < i * q + i
  <2> HIDE DEF x, i
  <2>1. q \in Int /\ x = i * q + (x % i) /\ x % i \in 0 .. i - 1 /\ q >= 0
    BY <1>1
  <2> HIDE DEF q
  <2>2. i * q \in Int
    BY <1>1, <2>1
  <2> QED
    BY <1>1, <2>1, <2>2
<1>3. q = (m + unit) \div (2 * unit)
  OBVIOUS
<1> HIDE DEF q
<1>4. i * q = 2 * (unit * q) /\ unit * q \in Nat
  BY <1>2
<1>5. /\ 2 * (unit * q) \in Nat
      /\ 2 * (unit * q) <= m + unit /\ m - unit < 2 * (unit * q)
  <2> DEFINE z == unit * q
  <2>1. z \in Nat /\ 2 * z <= m + unit /\ m + unit < 2 * z + 2 * unit
    BY <1>2, <1>4
  <2> HIDE DEF z
  <2>2. 2 * z \in Nat /\ 2 * z <= m + unit /\ m - unit < 2 * z
    BY <2>1
  <2> QED
    BY <2>2 DEF z
<1> QED
  BY <1>2, <1>3, <1>5

\* It is not more than a price can be.
LEMMA SubmittedBound ==
    ASSUME NEW m \in Nat, m <= 2 * (SCALE * SCALE)
    PROVE  (m + PER_UNIT) \div (2 * PER_UNIT) \in 0 .. SCALE * SCALE
<1> DEFINE t == SCALE * SCALE
           unit == PER_UNIT
           price == (m + unit) \div (2 * unit)
<1>1. t \in Nat /\ unit \in Nat \ {0} /\ m <= 2 * t
  BY ScaleOK
<1> HIDE DEF t, unit
<1>2. price \in Nat /\ 2 * (unit * price) <= m + unit
  BY <1>1, Rounding
<1> HIDE DEF price
<1>3. ASSUME price >= t + 1 PROVE FALSE
  <2>1. unit * price >= unit * (t + 1)
    BY <1>1, <1>2, <1>3
  <2>2. unit * (t + 1) = unit * t + unit /\ unit * t >= t /\ unit * t \in Nat
    BY <1>1
  <2> DEFINE y == unit * price
             z == unit * t
  <2>3. y \in Nat /\ y >= z + unit /\ z >= t /\ z \in Nat /\ 2 * y <= m + unit
    BY <1>1, <1>2, <2>1, <2>2
  <2> HIDE DEF y, z
  <2> QED
    BY <1>1, <2>3
<1>4. price \in 0 .. t
  BY <1>1, <1>2, <1>3
<1> QED
  BY <1>4 DEF price, t, unit

\* Prices that agree pass the filter, all of them, and the test.
LEMMA AgreedAreKept ==
    ASSUME NEW D, IsFiniteSet(D), NEW p \in [D -> Prices], Enough(p), Median2(p) < Infinity,
           WithinSpread(2 * (Max(Range(p)) - Min(Range(p))), Median2(p))
    PROVE  Aggregate(p) = Submits((Median2(p) + PER_UNIT) \div (2 * PER_UNIT))
<1>1. D # {}
  <2>1. Cardinality(D) >= MIN_SOURCES /\ MIN_SOURCES >= 1 /\ MIN_SOURCES \in Nat
    BY ScaleOK DEF Enough
  <2> QED
    BY <2>1, FS_EmptySet
<1>2. p \in [D -> Nat] /\ Infinity \in Nat /\ \A d \in D : p[d] <= Infinity
  BY PricesOK, ScaleOK
<1> DEFINE m == Median2(p)
           spread == 2 * (Max(Range(p)) - Min(Range(p)))
<1>3. m \in Nat /\ \A d \in D : Apart(2 * p[d], m) \in Nat /\ Apart(2 * p[d], m) <= spread
  BY <1>1, <1>2, NearMedian
<1>4. spread \in Int /\ 100 * spread <= 5 * m
  <2>1. Max(Range(p)) \in Nat /\ Min(Range(p)) \in Nat
    BY <1>1, <1>2, Extremes
  <2> QED
    BY <2>1 DEF WithinSpread
<1>5. ASSUME NEW d \in D PROVE WithinSpread(Apart(2 * p[d], m), m)
  <2> DEFINE x == Apart(2 * p[d], m)
  <2>1. x \in Nat /\ x <= spread
    BY <1>3
  <2> HIDE DEF x, spread, m
  <2>2. 100 * x <= 5 * m
    BY <1>3, <1>4, <2>1
  <2> QED
    BY <2>2 DEF WithinSpread, x
<1>6. FilterOutliers(p) = p
  <2>1. CASE m = 0 \/ m >= Infinity
    BY <2>1, KeptOK
  <2>2. CASE ~ (m = 0 \/ m >= Infinity)
    <3>1. DOMAIN FilterOutliers(p) = D
      BY <1>5, <2>2, KeptOK
    <3> QED
      BY <3>1, KeptOK
  <2> QED
    BY <2>1, <2>2
<1>7. Agreeing(p) /\ ~ (m >= Infinity)
  BY <1>2, <1>3 DEF Agreeing
<1> HIDE DEF m
<1> QED
  BY <1>6, <1>7 DEF Aggregate, m

\* A submitted price is near every price that is kept.  When the median is zero, which
\* spares the test, zero is all that is kept, as only one source can price a pool at zero.
LEMMA SubmittedIsNear ==
    ASSUME NEW D, IsFiniteSet(D), NEW p \in [D -> Prices],
           Aggregate(p).result = "submitted",
           NEW one, \A d \in D : p[d] = 0 => d = one,
           NEW d \in DOMAIN FilterOutliers(p)
    PROVE  LET price == PER_UNIT * Aggregate(p).price
           IN  200 * Apart(p[d], price) <= 5 * (2 * price + PER_UNIT) + 100 * PER_UNIT
<1> DEFINE kept == FilterOutliers(p)
           K == DOMAIN kept
           m == Median2(kept)
           q == Aggregate(p).price
<1>1. /\ Aggregate(p) # Ends("skipped") /\ Aggregate(p) # Ends("threw")
  BY DEF Ends
<1>2. /\ Agreeing(kept) /\ ~ (m >= Infinity)
      /\ Aggregate(p) = Submits((m + PER_UNIT) \div (2 * PER_UNIT))
  BY <1>1, AggregateCases
<1>3. K \subseteq D /\ kept \in [K -> Prices] /\ kept[d] = p[d] /\ d \in K
  BY KeptOK
<1>4. IsFiniteSet(K) /\ K # {}
  BY <1>3, FS_Subset
<1>5. kept \in [K -> Nat] /\ Infinity \in Nat /\ \A k \in K : kept[k] <= Infinity
  BY <1>3, PricesOK, ScaleOK
<1>6. m \in Nat /\ Apart(2 * kept[d], m) \in Nat
      /\ Apart(2 * kept[d], m) <= 2 * (Max(Range(kept)) - Min(Range(kept)))
  <2> HIDE DEF kept, K
  <2> QED
    BY <1>3, <1>4, <1>5, NearMedian
<1>7. q \in Nat /\ 2 * (PER_UNIT * q) <= m + PER_UNIT /\ m - PER_UNIT < 2 * (PER_UNIT * q)
  <2>1. q = (m + PER_UNIT) \div (2 * PER_UNIT)
    BY <1>2 DEF Submits
  <2> HIDE DEF m, q
  <2> QED
    BY <1>6, <2>1, ScaleOK, Rounding
<1> DEFINE x == kept[d]
           z == PER_UNIT * q
<1>8. x \in Nat /\ z \in Nat /\ PER_UNIT \in Nat \ {0}
  BY <1>3, <1>5, <1>7, ScaleOK
<1>9. CASE m # 0
  <2> DEFINE high == Max(Range(kept))
             low == Min(Range(kept))
  <2>1. high \in Nat /\ low \in Nat
    <3> HIDE DEF kept, K
    <3> QED
      BY <1>4, <1>5, Extremes
  <2>2. 100 * (2 * (high - low)) <= 5 * m
    BY <1>2, <1>9 DEF Agreeing, WithinSpread
  <2> DEFINE y == Apart(2 * x, m)
  <2>3. y \in Nat /\ y <= 2 * (high - low)
    BY <1>6
  <2>4. 100 * y <= 5 * m
    <3> HIDE DEF y, high, low, m
    <3> QED
      BY <1>6, <2>1, <2>2, <2>3
  <2>5. 2 * x - m <= y /\ m - 2 * x <= y
    <3> HIDE DEF x, m
    <3> QED
      BY <1>6, <1>8 DEF Apart
  <2> HIDE DEF x, z, m, y
  <2>6. 200 * Apart(x, z) <= 5 * (2 * z + PER_UNIT) + 100 * PER_UNIT
    <3>1. 200 * (x - z) <= 5 * (2 * z + PER_UNIT) + 100 * PER_UNIT
      BY <1>6, <1>7, <1>8, <2>3, <2>4, <2>5 DEF z
    <3>2. 200 * (z - x) <= 5 * (2 * z + PER_UNIT) + 100 * PER_UNIT
      BY <1>6, <1>7, <1>8, <2>3, <2>4, <2>5 DEF z
    <3> QED
      BY <3>1, <3>2 DEF Apart
  <2> QED
    BY <1>3, <2>6 DEF x, z
<1>10. CASE m = 0
  <2> DEFINE Z == { k \in K : kept[k] <= 0 }
             n == Cardinality(K)
  <2>1. Cardinality(Z) >= n \div 2 + 1
    <3>1. PICK v \in Range(kept), w \in Range(kept) :
             /\ m = v + w /\ v \in Nat /\ w \in Nat
             /\ Cardinality({ k \in K : kept[k] < v }) < n \div 2 + 1
             /\ Cardinality({ k \in K : kept[k] < w }) < n \div 2 + 1
             /\ Cardinality({ k \in K : kept[k] <= w }) >= n \div 2 + 1
      <4> HIDE DEF kept, K
      <4> QED
        BY <1>4, <1>5, MedianOK
    <3>2. w = 0
      <4> HIDE DEF m
      <4> QED
        BY <1>10, <3>1
    <3> QED
      BY <3>1, <3>2
  <2>2. Z \subseteq {one}
    <3> SUFFICES ASSUME NEW k \in K, kept[k] <= 0 PROVE k = one
      OBVIOUS
    <3>1. kept[k] = p[k] /\ k \in D
      BY <1>3, KeptOK
    <3>2. kept[k] \in Nat
      BY <1>5
    <3>3. p[k] = 0
      BY <3>1, <3>2
    <3> QED
      BY <3>1, <3>3
  <2>3. n \in Nat /\ n >= 1
    <3> HIDE DEF K
    <3>1. n \in Nat /\ n # 0
      BY <1>4, FS_CardinalityType, FS_EmptySet
    <3> QED
      BY <3>1
  <2>4. Cardinality(Z) <= 1 /\ Cardinality(Z) \in Nat /\ IsFiniteSet(Z)
    <3>1. IsFiniteSet({one}) /\ Cardinality({one}) = 1
      BY FS_Singleton
    <3> HIDE DEF Z
    <3>2. IsFiniteSet(Z) /\ Cardinality(Z) <= 1
      BY <2>2, <3>1, FS_Subset
    <3> QED
      BY <3>2, FS_CardinalityType
  <2>5. n = 1 /\ Cardinality(Z) = 1
    <3> DEFINE c == Cardinality(Z)
    <3>1. c >= n \div 2 + 1 /\ c <= 1 /\ c \in Nat
      BY <2>1, <2>4
    <3> HIDE DEF c, n
    <3>2. n = 1 /\ c = 1
      BY <2>3, <3>1
    <3> QED
      BY <3>2 DEF c
  <2>6. Z = K
    <3>1. Z \in SUBSET K
      OBVIOUS
    <3> HIDE DEF Z, K
    <3> QED
      BY <1>4, <2>5, <3>1, FS_Subset
  <2>7. x = 0
    <3>1. x <= 0
      BY <1>3, <2>6
    <3> QED
      BY <1>8, <3>1
  <2> HIDE DEF x, z, m
  <2>8. 200 * Apart(x, z) <= 5 * (2 * z + PER_UNIT) + 100 * PER_UNIT
    <3>1. 2 * z <= PER_UNIT
      BY <1>7, <1>8, <1>10 DEF z
    <3>2. Apart(x, z) = z
      BY <1>8, <2>7 DEF Apart
    <3> QED
      BY <1>8, <3>1, <3>2
  <2> QED
    BY <1>3, <2>8 DEF x, z
<1> QED
  BY <1>9, <1>10

\* An infinite price does not get past two finite ones.
LEMMA TwoOutvoteInfinity ==
    ASSUME NEW D, IsFiniteSet(D), NEW p \in [D -> Prices],
           Aggregate(p).result = "threw",
           NEW one, \A d \in D : p[d] = Infinity => d = one
    PROVE  Cardinality({ d \in D : p[d] < Infinity }) < 2
<1> DEFINE F == { d \in D : p[d] < Infinity }
           I == { d \in D : p[d] = Infinity }
           f == Cardinality(F)
           n == Cardinality(D)
           kept == FilterOutliers(p)
<1>1. \A d \in D : p[d] \in Nat /\ p[d] <= Infinity /\ Infinity \in Nat
  BY PricesOK, ScaleOK
<1>2. F \cup I = D /\ F \cap I = {}
  BY <1>1
<1>3. IsFiniteSet(F) /\ f \in Nat /\ n \in Nat /\ IsFiniteSet(I)
  <2>1. F \in SUBSET D /\ I \in SUBSET D
    OBVIOUS
  <2> HIDE DEF F, I
  <2> QED
    BY <2>1, FS_Subset, FS_CardinalityType
<1>4. n <= f + 1
  <2>1. I \in SUBSET {one}
    OBVIOUS
  <2>2. IsFiniteSet({one}) /\ Cardinality({one}) = 1
    BY FS_Singleton
  <2> HIDE DEF F, I
  <2>3. Cardinality(I) <= 1 /\ Cardinality(I) \in Nat
    BY <1>3, <2>1, <2>2, FS_Subset, FS_CardinalityType
  <2>4. Cardinality(F \cup I) = f + Cardinality(I) - Cardinality(F \cap I)
    BY <1>3, FS_Union
  <2>5. Cardinality(F \cap I) = 0
    BY <1>2, FS_EmptySet
  <2> DEFINE i == Cardinality(I)
  <2>6. i \in Nat /\ i <= 1 /\ n = f + i - 0
    BY <1>2, <2>3, <2>4, <2>5
  <2> HIDE DEF i, f, n
  <2> QED
    BY <1>3, <2>6
<1> SUFFICES ASSUME f >= 2 PROVE FALSE
  <2> HIDE DEF f
  <2> QED
    BY <1>3 DEF f
<1>5. D # {}
  BY <1>3, FS_EmptySet
<1>6. p \in [D -> Nat] /\ Infinity \in Nat
  BY PricesOK, ScaleOK
\* The first median is finite: fewer than half of the prices are infinite.
<1>7. Median2(p) < Infinity
  <2>1. PICK x \in Range(p), y \in Range(p) :
           /\ Median2(p) = x + y /\ x \in Nat /\ y \in Nat
           /\ Cardinality({ d \in D : p[d] < x }) < n \div 2 + 1
           /\ Cardinality({ d \in D : p[d] < y }) < n \div 2 + 1
    BY <1>1, <1>5, <1>6, MedianOK
  <2>2. n \div 2 + 1 <= f
    <3> HIDE DEF n, f
    <3> QED
      BY <1>3, <1>4
  <2>3. x # Infinity /\ y # Infinity
    <3> DEFINE h == n \div 2 + 1
    <3>1. h \in Int
      BY <1>3
    <3>2. x = Infinity => f < h
      BY <2>1
    <3>3. y = Infinity => f < h
      BY <2>1
    <3> HIDE DEF f, h
    <3> QED
      BY <1>3, <2>2, <3>1, <3>2, <3>3 DEF h
  <2>4. x \in Prices /\ y \in Prices
    BY DEF Range
  <2> DEFINE t == SCALE * SCALE
  <2>5. x <= t /\ y <= t /\ t \in Nat /\ Infinity > 2 * t /\ Infinity \in Nat
    BY <2>3, <2>4, ScaleOK DEF Prices
  <2> HIDE DEF t
  <2> QED
    BY <2>1, <2>5
\* So the filter drops the infinite price, unless the median is zero, when there is one median.
<1>8. /\ Aggregate(p) # Ends("skipped")
      /\ \A q : Aggregate(p) # Submits(q)
  BY DEF Ends, Submits
<1>9. Median2(kept) >= Infinity /\ Enough(kept)
  BY <1>8, AggregateCases
<1>10. DOMAIN kept \subseteq D /\ kept \in [DOMAIN kept -> Prices]
       /\ \A d \in DOMAIN kept : kept[d] = p[d]
  BY KeptOK
<1>11. IsFiniteSet(DOMAIN kept) /\ DOMAIN kept # {}
  <2>1. Cardinality(DOMAIN kept) >= MIN_SOURCES /\ MIN_SOURCES >= 1 /\ MIN_SOURCES \in Nat
    BY <1>9, ScaleOK DEF Enough
  <2> QED
    BY <1>10, <2>1, FS_Subset, FS_EmptySet
<1>12. Median2(p) \in Nat /\ Median2(p) <= 2 * (SCALE * SCALE) /\ Median2(kept) \in Nat
  <2>1. Median2(p) \in Nat /\ Median2(p) <= 2 * (SCALE * SCALE)
    BY <1>5, <1>7, FiniteMedian
  <2> DEFINE K == DOMAIN kept
  <2>2. Median2(kept) \in Nat
    <3>1. IsFiniteSet(K) /\ K # {} /\ kept \in [K -> Prices]
      BY <1>10, <1>11
    <3> HIDE DEF kept, K
    <3> QED
      BY <3>1, FiniteMedian
  <2> QED
    BY <2>1, <2>2
<1>13. CASE Median2(p) = 0
  <2>1. kept = p
    BY <1>13, KeptOK
  <2> QED
    BY <1>6, <1>7, <1>9, <1>12, <2>1
<1>14. CASE Median2(p) # 0
  <2> DEFINE m == Median2(p)
  <2>1. \A d \in DOMAIN kept : WithinSpread(Apart(2 * p[d], m), m)
    BY <1>6, <1>7, <1>10, <1>12, <1>14, KeptOK
  <2>2. ~ WithinSpread(Apart(2 * Infinity, m), m)
    <3> DEFINE t == SCALE * SCALE
    <3>1. m \in Nat /\ m <= 2 * t /\ t \in Nat /\ Infinity \in Nat /\ Infinity > 2 * t
      BY <1>12, ScaleOK
    <3> HIDE DEF m, t
    <3>2. Apart(2 * Infinity, m) = 2 * Infinity - m
      BY <3>1 DEF Apart
    <3>3. ~ (100 * (2 * Infinity - m) <= 5 * m)
      BY <3>1
    <3> QED
      BY <3>2, <3>3 DEF WithinSpread
  <2>3. \A d \in DOMAIN kept : kept[d] # Infinity
    BY <1>10, <2>1, <2>2
  <2> DEFINE K == DOMAIN kept
  <2>4. PICK x \in Range(kept), y \in Range(kept) :
           Median2(kept) = x + y /\ x \in Nat /\ y \in Nat
    <3>1. IsFiniteSet(K) /\ K # {} /\ kept \in [K -> Nat] /\ \A d \in K : kept[d] <= Infinity
      BY <1>1, <1>6, <1>10, <1>11
    <3> HIDE DEF kept, K
    <3> QED
      BY <1>6, <3>1, MedianOK
  <2>5. x \in Prices \ {Infinity} /\ y \in Prices \ {Infinity}
    BY <1>10, <2>3, <2>4 DEF Range
  <2> DEFINE t == SCALE * SCALE
  <2>6. x <= t /\ y <= t /\ t \in Nat /\ Infinity > 2 * t /\ Infinity \in Nat
    BY <2>5, ScaleOK DEF Prices
  <2> HIDE DEF t, kept
  <2> QED
    BY <1>9, <2>4, <2>6
<1> QED
  BY <1>13, <1>14

--------------------------------------------------------------------------------
(* A run *)

Halves == (0 .. SCALE) \cup {None}

SourcesOK == /\ direction \in Configurations
             /\ pool \in [Sources -> Pools]
             /\ torn \subseteq Sources \ {"orca"}
             /\ failed \subseteq Sources

\* Orca's pool is read in one request.
ReadsOK == /\ read \in [Sources -> [a : Halves, b : Halves]]
           /\ "orca" \in Sources => read["orca"] = Unread \/ Complete("orca")

\* An outcome is that of the answers, and there are no more to come.
OutcomeOK == outcome # Ends("none") => /\ outcome = Aggregate(NamedPrices)
                                       /\ \A d \in Sources : Settled(d)

RunInvariant == SourcesOK /\ ReadsOK /\ OutcomeOK

\* The answers depend on the pools' directions, what was read and who failed.
LEMMA SameAnswers ==
    ASSUME UNCHANGED <<direction, read, failed>>
    PROVE  /\ NamedPrices' = NamedPrices
           /\ \A d : Complete(d)' = Complete(d) /\ Settled(d)' = Settled(d)
BY DEF NamedPrices, Answered, PriceOf, Complete, Settled, Sources

LEMMA InitRun == Init => RunInvariant
<1> SUFFICES ASSUME Init PROVE RunInvariant
  OBVIOUS
<1>1. SourcesOK
  BY DEF Init, SourcesOK
<1>2. ReadsOK
  <2>1. Unread \in [a : Halves, b : Halves]
    BY DEF Unread, Halves
  <2> QED
    BY <2>1 DEF Init, ReadsOK
<1>3. OutcomeOK
  BY DEF Init, OutcomeOK
<1> QED
  BY <1>1, <1>2, <1>3 DEF RunInvariant

LEMMA AggregateEnds == ASSUME NEW p PROVE Aggregate(p) # Ends("none")
BY DEF Aggregate, Ends, Submits

\* A vault that is read adds a balance of the pool.
LEMMA ReadKeepsRun ==
    ASSUME RunInvariant, NEW d \in Sources \ failed, ~ Complete(d),
           read' \in [Sources -> [a : Halves, b : Halves]],
           "orca" \in Sources => read'["orca"] = Unread \/ Complete("orca")',
           UNCHANGED <<direction, pool, torn, failed, trades, outcome>>
    PROVE  RunInvariant'
<1>1. SourcesOK'
  BY DEF RunInvariant, SourcesOK, Sources
<1>2. ReadsOK'
  BY DEF ReadsOK, Sources
<1>3. outcome = Ends("none")
  BY DEF RunInvariant, OutcomeOK, Settled
<1> QED
  BY <1>1, <1>2, <1>3 DEF RunInvariant, OutcomeOK

LEMMA NextRunInvariant == RunInvariant /\ [Next]_vars => RunInvariant'
<1> SUFFICES ASSUME RunInvariant, [Next]_vars PROVE RunInvariant'
  OBVIOUS
<1>0. pool \in [Sources -> [a : 0 .. SCALE, b : 0 .. SCALE]]
  BY PoolsAssumption DEF RunInvariant, SourcesOK
<1>1. ASSUME NEW d \in Sources, Trade(d) PROVE RunInvariant'
  <2>1. UNCHANGED <<direction, read, failed, outcome>>
    BY <1>1 DEF Trade
  <2>2. pool' \in [Sources -> Pools]
    BY <1>1 DEF Trade, RunInvariant, SourcesOK
  <2>3. torn' \subseteq Sources \ {"orca"}
    BY <1>1 DEF Trade, RunInvariant, SourcesOK, ReadsOK
  <2>4. SourcesOK'
    BY <2>1, <2>2, <2>3 DEF RunInvariant, SourcesOK, Sources
  <2>5. ReadsOK'
    BY <2>1, SameAnswers DEF RunInvariant, ReadsOK, Sources
  <2>6. OutcomeOK'
    BY <2>1, SameAnswers DEF RunInvariant, OutcomeOK, Sources
  <2> QED
    BY <2>4, <2>5, <2>6 DEF RunInvariant
<1>2. ASSUME NEW d \in Sources, SourceFails(d) PROVE RunInvariant'
  <2>1. ~ Settled(d) /\ failed' = failed \cup {d}
        /\ UNCHANGED <<direction, pool, read, torn, outcome>>
    BY <1>2 DEF SourceFails
  <2>2. outcome = Ends("none")
    BY <2>1 DEF RunInvariant, OutcomeOK
  <2>3. SourcesOK'
    BY <2>1 DEF RunInvariant, SourcesOK, Sources
  <2>4. ReadsOK'
    BY <2>1 DEF RunInvariant, ReadsOK, Sources, Complete
  <2> QED
    BY <2>1, <2>2, <2>3, <2>4 DEF RunInvariant, OutcomeOK
<1>3. ASSUME NEW d \in Sources, NEW vault \in {"a", "b"}, ReadVault(d, vault)
      PROVE  RunInvariant'
  <2>1. /\ d # "orca" /\ d \notin failed /\ read[d][vault] = None
        /\ read' = [read EXCEPT ![d][vault] = pool[d][vault]]
        /\ UNCHANGED <<direction, pool, torn, failed, trades, outcome>>
    BY <1>3 DEF ReadVault
  <2>2. ~ Complete(d)
    BY <2>1 DEF Complete
  <2>3. pool[d][vault] \in Halves
    BY <1>0 DEF Halves
  <2>4. read' \in [Sources -> [a : Halves, b : Halves]]
    BY <2>1, <2>3 DEF RunInvariant, ReadsOK
  <2>5. "orca" \in Sources => read'["orca"] = read["orca"]
    BY <2>1 DEF RunInvariant, ReadsOK
  <2>6. "orca" \in Sources => read'["orca"] = Unread \/ Complete("orca")'
    BY <2>5 DEF RunInvariant, ReadsOK, Complete
  <2> QED
    BY <2>1, <2>2, <2>4, <2>6, ReadKeepsRun
<1>4. CASE ReadWhirlpool
  <2>1. /\ "orca" \in Sources \ failed /\ read["orca"] = Unread
        /\ read' = [read EXCEPT !["orca"] = pool["orca"]]
        /\ UNCHANGED <<direction, pool, torn, failed, trades, outcome>>
    BY <1>4 DEF ReadWhirlpool
  <2>2. ~ Complete("orca")
    BY <2>1 DEF Complete, Unread
  <2>3. pool["orca"] \in [a : 0 .. SCALE, b : 0 .. SCALE]
    BY <1>0, <2>1
  <2>4. read' \in [Sources -> [a : Halves, b : Halves]]
    BY <2>1, <2>3 DEF RunInvariant, ReadsOK, Halves
  <2>5. read'["orca"] = pool["orca"]
    BY <2>1 DEF RunInvariant, ReadsOK
  <2>6. Complete("orca")'
    BY <2>3, <2>5, AggregationAssumption DEF Complete
  <2> QED
    BY <2>1, <2>2, <2>4, <2>6, ReadKeepsRun
<1>5. CASE UpdatePair
  <2>1. /\ \A d \in Sources : Settled(d)
        /\ outcome' = Aggregate(NamedPrices)
        /\ UNCHANGED <<direction, pool, read, torn, failed, trades>>
    BY <1>5 DEF UpdatePair
  <2>2. SourcesOK'
    BY <2>1 DEF RunInvariant, SourcesOK, Sources
  <2>3. ReadsOK'
    BY <2>1 DEF RunInvariant, ReadsOK, Sources, Complete
  <2>4. OutcomeOK'
    BY <2>1, SameAnswers DEF OutcomeOK, Sources
  <2> QED
    BY <2>2, <2>3, <2>4 DEF RunInvariant
<1>6. CASE NextRun
  <2>1. /\ outcome' = Ends("none") /\ read' = [d \in Sources |-> Unread]
        /\ torn' = {} /\ failed' = {}
        /\ UNCHANGED <<direction, pool>>
    BY <1>6 DEF NextRun
  <2>2. SourcesOK'
    BY <2>1 DEF RunInvariant, SourcesOK, Sources
  <2>3. Unread \in [a : Halves, b : Halves]
    BY DEF Unread, Halves
  <2>4. ReadsOK'
    BY <2>1, <2>3 DEF ReadsOK, Sources
  <2> QED
    BY <2>1, <2>2, <2>4 DEF RunInvariant, OutcomeOK
<1>7. CASE UNCHANGED vars
  <2>1. UNCHANGED <<direction, pool, read, torn, failed, outcome>>
    BY <1>7 DEF vars
  <2>2. SourcesOK'
    BY <2>1 DEF RunInvariant, SourcesOK, Sources
  <2>3. ReadsOK'
    BY <2>1 DEF RunInvariant, ReadsOK, Sources, Complete
  <2>4. OutcomeOK'
    BY <2>1, SameAnswers DEF RunInvariant, OutcomeOK, Sources
  <2> QED
    BY <2>2, <2>3, <2>4 DEF RunInvariant
<1> QED
  BY <1>1, <1>2, <1>3, <1>4, <1>5, <1>6, <1>7 DEF Next

LEMMA RunIsKept == Spec => []RunInvariant
BY InitRun, NextRunInvariant, PTL DEF Spec

--------------------------------------------------------------------------------
(* The answers *)

LEMMA Quotients ==
    ASSUME NEW x \in Nat, NEW d \in Nat \ {0}
    PROVE  /\ x \div d \in Nat /\ x \div d <= x
           /\ d <= x => x \div d >= 1
<1> DEFINE q == x \div d
<1>1. q \in Int /\ x = d * q + (x % d) /\ x % d \in 0 .. d - 1 /\ q >= 0
  OBVIOUS
<1> HIDE DEF q
<1>2. d * q >= q
  BY <1>1
<1>3. q <= x
  BY <1>1, <1>2
<1>4. q = 0 => d * q = 0
  BY <1>1
<1>5. d <= x => q >= 1
  BY <1>1, <1>4
<1> QED
  BY <1>1, <1>3, <1>5 DEF q

\* Only Raydium's pools, which are not refused for it, can be priced at zero or infinity.
LEMMA PriceOfOK ==
    ASSUME NEW d, direction[d] \in {"forward", "reversed"},
           NEW b \in [a : 0 .. SCALE, b : 0 .. SCALE], PriceOf(d, b) # None
    PROVE  /\ PriceOf(d, b) \in Prices
           /\ PriceOf(d, b) = 0 \/ PriceOf(d, b) = Infinity => d = "raydium"
<1> DEFINE t == SCALE * SCALE
           x == b.b * SCALE
           raw == ComputePriceFromBalances(b)
<1>1. /\ b.a \in Nat /\ b.a <= SCALE /\ b.b \in Nat /\ b.b <= SCALE /\ SCALE \in Nat
      /\ t \in Nat /\ Infinity \in Nat /\ Infinity > 2 * t /\ None \notin Nat /\ t >= 1
  BY ScaleOK, AggregationAssumption
<1>2. x \in Nat /\ x <= t
  BY <1>1
<1>3. raw # None
  BY DEF PriceOf
<1>4. b.a # 0 /\ raw = x \div b.a
  BY <1>3 DEF ComputePriceFromBalances
<1>5. raw \in Nat /\ raw <= t
  <2> DEFINE n == b.a
  <2>1. n \in Nat \ {0} /\ raw = x \div n
    BY <1>1, <1>4
  <2> HIDE DEF n, x, raw, t
  <2>2. x \div n \in Nat /\ x \div n <= x
    BY <1>2, <2>1, Quotients
  <2> QED
    BY <1>1, <1>2, <2>1, <2>2
<1>6. /\ ~ (raw = 0 /\ d # "raydium")
      /\ PriceOf(d, b) = IF direction[d] = "reversed" THEN Reciprocal(raw) ELSE raw
  BY <1>3 DEF PriceOf
<1>7. Prices = (0 .. t) \cup {Infinity}
  BY DEF Prices
<1>8. Reciprocal(raw) = IF raw = 0 THEN Infinity ELSE t \div raw
  BY DEF Reciprocal
<1> HIDE DEF raw, t, x
<1>9. raw # 0 => t \div raw \in Nat /\ t \div raw <= t /\ t \div raw >= 1
  BY <1>1, <1>5, Quotients
<1>10. CASE direction[d] # "reversed"
  BY <1>1, <1>5, <1>6, <1>7, <1>10
<1>11. CASE direction[d] = "reversed" /\ raw = 0
  BY <1>1, <1>6, <1>7, <1>8, <1>11
<1>12. CASE direction[d] = "reversed" /\ raw # 0
  <2> DEFINE r == t \div raw
  <2>1. r \in Nat /\ r <= t /\ r >= 1 /\ PriceOf(d, b) = r
    BY <1>6, <1>8, <1>9, <1>12
  <2> HIDE DEF r
  <2>2. r \in Prices /\ r # 0 /\ r # Infinity
    BY <1>1, <1>7, <2>1
  <2> QED
    BY <2>1, <2>2
<1> QED
  BY <1>10, <1>11, <1>12

LEMMA SourcesAreFew ==
    ASSUME RunInvariant
    PROVE  /\ Sources \subseteq Dexes /\ IsFiniteSet(Sources)
           /\ \A d \in Sources : direction[d] \in {"forward", "reversed"}
<1>1. PICK S \in SUBSET Dexes : direction \in [S -> {"forward", "reversed"}]
  BY DEF RunInvariant, SourcesOK, Configurations
<1>2. Sources = S
  BY <1>1 DEF Sources
<1>3. IsFiniteSet(Dexes)
  <2>1. IsFiniteSet({}) /\ {"raydium", "orca", "meteora"} =
            (({} \cup {"raydium"}) \cup {"orca"}) \cup {"meteora"}
    BY FS_EmptySet
  <2>2. IsFiniteSet({} \cup {"raydium"})
    BY <2>1, FS_AddElement
  <2>3. IsFiniteSet(({} \cup {"raydium"}) \cup {"orca"})
    BY <2>2, FS_AddElement
  <2>4. IsFiniteSet((({} \cup {"raydium"}) \cup {"orca"}) \cup {"meteora"})
    BY <2>3, FS_AddElement
  <2> QED
    BY <2>1, <2>4 DEF Dexes
<1>4. IsFiniteSet(S)
  BY <1>3, FS_Subset
<1> QED
  BY <1>1, <1>2, <1>4

LEMMA AnswersOK ==
    ASSUME RunInvariant
    PROVE  /\ Answered \subseteq Sources /\ IsFiniteSet(Answered)
           /\ NamedPrices \in [Answered -> Prices]
           /\ \A d \in Answered : NamedPrices[d] = 0 \/ NamedPrices[d] = Infinity => d = "raydium"
<1>1. Answered \subseteq Sources
  BY DEF Answered
<1>2. IsFiniteSet(Answered)
  BY <1>1, SourcesAreFew, FS_Subset
<1>3. ASSUME NEW d \in Answered
      PROVE  /\ PriceOf(d, read[d]) \in Prices
             /\ PriceOf(d, read[d]) = 0 \/ PriceOf(d, read[d]) = Infinity => d = "raydium"
  <2>1. read[d] \in [a : Halves, b : Halves] /\ read[d].a # None /\ read[d].b # None
    BY <1>1 DEF RunInvariant, ReadsOK, Answered, Complete
  <2>2. read[d] \in [a : 0 .. SCALE, b : 0 .. SCALE]
    BY <2>1 DEF Halves
  <2>3. PriceOf(d, read[d]) # None
    BY DEF Answered
  <2>4. direction[d] \in {"forward", "reversed"}
    BY <1>1, SourcesAreFew
  <2> QED
    BY <2>2, <2>3, <2>4, PriceOfOK
<1> QED
  BY <1>1, <1>2, <1>3 DEF NamedPrices

--------------------------------------------------------------------------------
(* The theorems *)

\* Whatever the pools hold, what is submitted is a finite price.
THEOREM AggregationIsTyped == Spec => []AggregationTypeOK
<1>1. ASSUME RunInvariant PROVE AggregationTypeOK
  <2>1. /\ direction \in Configurations /\ pool \in [Sources -> Pools] /\ DOMAIN read = Sources
        /\ torn \subseteq Sources \ {"orca"} /\ failed \subseteq Sources
    BY <1>1 DEF RunInvariant, SourcesOK, ReadsOK
  <2>2. /\ Answered \subseteq Sources /\ IsFiniteSet(Answered)
        /\ NamedPrices \in [Answered -> Prices]
    BY <1>1, AnswersOK
  <2>3. ASSUME NEW r \in {"none", "skipped", "threw"}, outcome = Ends(r)
        PROVE  /\ outcome.result \in {"none", "skipped", "threw", "submitted"}
               /\ outcome.price \in 0 .. SCALE * SCALE
    BY <2>3, ScaleOK DEF Ends
  <2>4. ASSUME outcome # Ends("none"), outcome # Ends("skipped"), outcome # Ends("threw")
        PROVE  /\ outcome.result \in {"none", "skipped", "threw", "submitted"}
               /\ outcome.price \in 0 .. SCALE * SCALE
    <3> DEFINE p == NamedPrices
               kept == FilterOutliers(p)
               K == DOMAIN kept
               m == Median2(kept)
    <3>1. outcome = Aggregate(p)
      BY <1>1, <2>4 DEF RunInvariant, OutcomeOK
    <3>2. /\ Enough(kept) /\ ~ (m >= Infinity)
          /\ outcome = Submits((m + PER_UNIT) \div (2 * PER_UNIT))
      BY <2>4, <3>1, AggregateCases
    <3>3. K \subseteq Answered /\ kept \in [K -> Prices]
      <4> HIDE DEF p
      <4>1. p \in [Answered -> Prices]
        BY <2>2 DEF p
      <4> QED
        BY <4>1, KeptOK
    <3>4. IsFiniteSet(K) /\ K # {}
      <4>1. Cardinality(K) >= MIN_SOURCES /\ MIN_SOURCES >= 1 /\ MIN_SOURCES \in Nat
        BY <3>2, ScaleOK DEF Enough
      <4>2. IsFiniteSet(K)
        BY <2>2, <3>3, FS_Subset
      <4>3. Cardinality({}) = 0
        BY FS_EmptySet
      <4> QED
        BY <4>1, <4>2, <4>3
    <3>5. m \in Nat /\ m <= 2 * (SCALE * SCALE)
      <4>1. m \in Nat /\ (m < Infinity => m <= 2 * (SCALE * SCALE))
        <5> HIDE DEF kept, K
        <5> QED
          BY <3>3, <3>4, FiniteMedian
      <4>2. m < Infinity
        <5> HIDE DEF m
        <5> QED
          BY <3>2, <4>1, ScaleOK
      <4> QED
        BY <4>1, <4>2
    <3>6. (m + PER_UNIT) \div (2 * PER_UNIT) \in 0 .. SCALE * SCALE
      <4> HIDE DEF m
      <4> QED
        BY <3>5, SubmittedBound
    <3> QED
      BY <3>2, <3>6 DEF Submits
  <2> QED
    BY <2>1, <2>3, <2>4 DEF AggregationTypeOK
<1> QED
  BY <1>1, RunIsKept, PTL

\* A minority of sources whose pools were traded on between their two requests does not
\* choose the price.
THEOREM TornReadsDoNotDecide == Spec => []TornReadsAreContained
<1>1. ASSUME RunInvariant PROVE TornReadsAreContained
  <2> SUFFICES ASSUME Submitted, Cardinality(Answered \cap torn) < MIN_SOURCES
               PROVE  \E d \in Honest :
                         LET price == PER_UNIT * outcome.price
                         IN  200 * Apart(NamedPrices[d], price)
                                 <= 5 * (2 * price + PER_UNIT) + 100 * PER_UNIT
    BY DEF TornReadsAreContained
  <2> DEFINE p == NamedPrices
             kept == FilterOutliers(p)
             K == DOMAIN kept
  <2>1. /\ IsFiniteSet(Answered) /\ p \in [Answered -> Prices]
        /\ \A d \in Answered : p[d] = 0 => d = "raydium"
    BY <1>1, AnswersOK
  <2>2. outcome = Aggregate(p) /\ outcome.result = "submitted"
    BY <1>1 DEF RunInvariant, OutcomeOK, Submitted, Ends
  <2> HIDE DEF p
  <2>3. Aggregate(p) # Ends("skipped")
    BY <2>2 DEF Ends
  <2>4. Cardinality(K) >= MIN_SOURCES
    BY <2>3, AggregateCases DEF Enough
  <2>5. K \subseteq Answered
    BY <2>1, KeptOK
  <2>6. PICK d \in K : d \notin torn
    <3> SUFFICES ASSUME K \subseteq torn PROVE FALSE
      OBVIOUS
    <3> DEFINE T == Answered \cap torn
    <3>1. K \in SUBSET T /\ T \in SUBSET Answered
      BY <2>5
    <3> HIDE DEF K, T
    <3>2. IsFiniteSet(T)
      BY <2>1, <3>1, FS_Subset
    <3>3. Cardinality(K) <= Cardinality(T) /\ IsFiniteSet(K)
      BY <3>1, <3>2, FS_Subset
    <3>4. Cardinality(K) \in Nat /\ Cardinality(T) \in Nat
      BY <3>2, <3>3, FS_CardinalityType
    <3>5. MIN_SOURCES \in Nat
      BY ScaleOK
    <3>6. Cardinality(T) < MIN_SOURCES
      BY DEF T
    <3> QED
      BY <2>4, <3>3, <3>4, <3>5, <3>6
  <2>7. d \in Honest
    BY <2>5, <2>6 DEF Honest
  <2>8. LET price == PER_UNIT * Aggregate(p).price
        IN  200 * Apart(p[d], price) <= 5 * (2 * price + PER_UNIT) + 100 * PER_UNIT
    <3>1. d \in DOMAIN FilterOutliers(p)
      BY <2>6
    <3>2. Aggregate(p).result = "submitted"
      BY <2>2
    <3> DEFINE one == "raydium"
    <3>3. \A x \in Answered : p[x] = 0 => x = one
      BY <2>1
    <3> HIDE DEF one
    <3> QED
      BY <2>1, <3>1, <3>2, <3>3, SubmittedIsNear
  <2> QED
    BY <2>2, <2>7, <2>8 DEF p
<1> QED
  BY <1>1, RunIsKept, PTL

\* The infinite price of an empty Raydium pool makes the bot throw only where no two sources
\* answered with a finite one.
THEOREM InfinityNeedsNoMajority == Spec => []InfinityIsOutvoted
<1>1. ASSUME RunInvariant PROVE InfinityIsOutvoted
  <2> SUFFICES ASSUME outcome.result = "threw"
               PROVE  Cardinality({ d \in Answered : NamedPrices[d] < Infinity }) < 2
    BY DEF InfinityIsOutvoted
  <2> DEFINE p == NamedPrices
             one == "raydium"
  <2>1. /\ IsFiniteSet(Answered) /\ p \in [Answered -> Prices]
        /\ \A d \in Answered : p[d] = Infinity => d = one
    BY <1>1, AnswersOK
  <2>2. Aggregate(p).result = "threw"
    BY <1>1 DEF RunInvariant, OutcomeOK, Ends
  <2> HIDE DEF p, one
  <2>3. Cardinality({ d \in Answered : p[d] < Infinity }) < 2
    BY <2>1, <2>2, TwoOutvoteInfinity
  <2> QED
    BY <2>3 DEF p
<1> QED
  BY <1>1, RunIsKept, PTL

\* Sources that agree to 5 percent make a price, their median: the outlier filter refuses
\* none of what the spread test accepts.
THEOREM AgreementSuffices == Spec => []AgreementIsSubmitted
<1>1. ASSUME RunInvariant PROVE AgreementIsSubmitted
  <2> DEFINE p == NamedPrices
  <2>1. IsFiniteSet(Answered) /\ p \in [Answered -> Prices]
    BY <1>1, AnswersOK
  <2>2. outcome.result # "none" => outcome = Aggregate(p)
    BY <1>1 DEF RunInvariant, OutcomeOK, Ends
  <2> HIDE DEF p
  <2>3. Enough(p) /\ Median2(p) < Infinity
        /\ WithinSpread(2 * (Max(Range(p)) - Min(Range(p))), Median2(p))
        => Aggregate(p) = Submits((Median2(p) + PER_UNIT) \div (2 * PER_UNIT))
    BY <2>1, AgreedAreKept
  <2> QED
    BY <2>2, <2>3 DEF AgreementIsSubmitted, p
<1> QED
  BY <1>1, RunIsKept, PTL
================================================================================
