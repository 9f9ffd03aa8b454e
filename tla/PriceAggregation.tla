---------------------------- MODULE PriceAggregation ----------------------------
(***************************************************************************)
(* How the updater bot makes one price out of several pools                *)
(* (bots/updater/src/index.ts and bots/updater/src/sources): one run of    *)
(* updatePair up to the transaction.  Every configured source is read at   *)
(* once.  Raydium and Meteora price a pool by the balances of its two      *)
(* vaults, which are two requests, so that a trade can fall between them;  *)
(* Orca's price is a field of the pool account.  What answers goes through *)
(* a median, an outlier filter, a second median and a spread test.         *)
(*                                                                         *)
(* A price is an integer, in units of 1/SCALE, or Infinity; a submitted    *)
(* price is in units of PER_UNIT of those.  Floating point is exact to     *)
(* that precision.  A median is kept twice as large, to stay an integer.   *)
(***************************************************************************)
EXTENDS Integers, FiniteSetsExt, Functions

CONSTANTS
    MIN_SOURCES,    \* sources a price needs
    Pools,          \* what pools can hold: amounts of their tokens a and b
    SCALE,          \* what a price of one is computed as (1e18)
    PER_UNIT,       \* computed units in one submitted unit (1e18 / 1e9)
    Infinity,       \* 1 / 0, larger than twice every price
    None,           \* a balance that was not read yet
    MaxTrades       \* trades explored

ASSUME AggregationAssumption ==
    /\ MIN_SOURCES \in Nat \ {0}
    /\ SCALE \in Nat \ {0} /\ PER_UNIT \in Nat \ {0}
    /\ Infinity \in Nat /\ Infinity > 2 * SCALE * SCALE
    /\ None \notin Nat
    /\ MaxTrades \in Nat
\* A price and its reciprocal both have digits left at the scale of the instance.
ASSUME PoolsAssumption == Pools \subseteq [a : 0 .. SCALE, b : 0 .. SCALE]

VARIABLES
    direction,  \* the configured sources: how their pool's mints match the oracle's
    pool,       \* what the pool of each source holds
    read,       \* the balances read of it so far
    torn,       \* sources whose pool was traded on between its two reads
    failed,     \* sources that threw
    trades,     \* trades so far
    outcome     \* what became of the run

vars == <<direction, pool, read, torn, failed, trades, outcome>>

Dexes == {"raydium", "orca", "meteora"}

Sources == DOMAIN direction

Ends(result)   == [result |-> result, price |-> 0]
Submits(price) == [result |-> "submitted", price |-> price]

Unread == [a |-> None, b |-> None]

\* buildPairs throws for a pair with too few sources.
Configurations ==
    UNION { [S -> {"forward", "reversed"}] :
               S \in { S \in SUBSET Dexes : Cardinality(S) >= MIN_SOURCES } }

Init ==
    /\ direction \in Configurations
    /\ pool \in [Sources -> Pools]
    /\ read = [d \in Sources |-> Unread]
    /\ torn = {}
    /\ failed = {}
    /\ trades = 0
    /\ outcome = Ends("none")

--------------------------------------------------------------------------------
(* One source *)

\* Token b per token a of a pool, or None when there is no a.
ComputePriceFromBalances(balances) ==
    IF balances.a = 0 THEN None ELSE (balances.b * SCALE) \div balances.a

Reciprocal(price) == IF price = 0 THEN Infinity ELSE (SCALE * SCALE) \div price

\* What a source makes of the balances; None when it throws.  Raydium alone does
\* not refuse a price of zero.
PriceOf(d, balances) ==
    LET raw == ComputePriceFromBalances(balances)
    IN  IF raw = None \/ (raw = 0 /\ d # "raydium") THEN None
        ELSE IF direction[d] = "reversed" THEN Reciprocal(raw) ELSE raw

Complete(d) == None \notin { read[d].a, read[d].b }

Answered == { d \in Sources \ failed : Complete(d) /\ PriceOf(d, read[d]) # None }

Settled(d) == d \in failed \/ Complete(d)

Trade(d) ==
    /\ trades < MaxTrades
    /\ pool' \in { [pool EXCEPT ![d] = p] : p \in Pools \ {pool[d]} }
    /\ trades' = trades + 1
    /\ torn' = IF read[d] # Unread /\ ~ Complete(d) THEN torn \cup {d} ELSE torn
    /\ UNCHANGED <<direction, read, failed, outcome>>

\* Slip: Orca's pools are priced by their vaults too.
ReadVaultOfAny(d, vault) ==
    /\ d \notin failed
    /\ read[d][vault] = None
    /\ read' = [read EXCEPT ![d][vault] = pool[d][vault]]
    /\ UNCHANGED <<direction, pool, torn, failed, trades, outcome>>

\* fetchVaultBalances asks for both balances under one Promise.all.
ReadVault(d, vault) ==
    /\ d # "orca" /\ d \notin failed
    /\ read[d][vault] = None
    /\ read' = [read EXCEPT ![d][vault] = pool[d][vault]]
    /\ UNCHANGED <<direction, pool, torn, failed, trades, outcome>>

\* The square of sqrt_price is the pool's price at the moment of the one request.
ReadWhirlpool ==
    /\ "orca" \in Sources \ failed
    /\ read["orca"] = Unread
    /\ read' = [read EXCEPT !["orca"] = pool["orca"]]
    /\ UNCHANGED <<direction, pool, torn, failed, trades, outcome>>

\* A request fails, or the account is missing, of another program, too small, or
\* of a pool of other mints.
SourceFails(d) ==
    /\ ~ Settled(d)
    /\ failed' = failed \cup {d}
    /\ UNCHANGED <<direction, pool, read, torn, trades, outcome>>

--------------------------------------------------------------------------------
(* The aggregation *)

\* The k-th smallest of a family of prices.
Ranked(prices, k) ==
    CHOOSE v \in Range(prices) :
        /\ Cardinality({ d \in DOMAIN prices : prices[d] < v }) < k
        /\ Cardinality({ d \in DOMAIN prices : prices[d] <= v }) >= k

\* Twice the median; not less than Infinity when the median is infinite.
Median2(prices) ==
    LET n == Cardinality(DOMAIN prices)
    IN  IF n % 2 = 0 THEN Ranked(prices, n \div 2) + Ranked(prices, n \div 2 + 1)
        ELSE 2 * Ranked(prices, n \div 2 + 1)

Apart(x, y) == IF x >= y THEN x - y ELSE y - x

\* MAX_SOURCE_SPREAD is 5 percent; both numbers are twice what they measure.
WithinSpread(difference2, median2) == 100 * difference2 <= 5 * median2

\* Slip: whatever is not finite passes.
FilterFiniteOutliers(prices) ==
    LET m == Median2(prices)
    IN  IF m = 0 \/ m >= Infinity THEN prices
        ELSE Restrict(prices, { d \in DOMAIN prices :
                \/ prices[d] = Infinity
                \/ WithinSpread(Apart(2 * prices[d], m), m) })

\* Every price is kept when the median is zero, and when it is infinite: then
\* the deviations are NaN, and no NaN is greater than the limit.
FilterOutliers(prices) ==
    LET m == Median2(prices)
    IN  IF m = 0 \/ m >= Infinity THEN prices
        ELSE Restrict(prices, { d \in DOMAIN prices :
                WithinSpread(Apart(2 * prices[d], m), m) })

\* Slip: sources whose spread is at the limit do not agree.
AgreeingBelowLimit(prices) ==
    LET m == Median2(prices)
    IN  m = 0 \/ m >= Infinity
        \/ 200 * (Max(Range(prices)) - Min(Range(prices))) < 5 * m

\* The same for the spread of what was kept.
Agreeing(prices) ==
    LET m == Median2(prices)
    IN  m = 0 \/ m >= Infinity
        \/ WithinSpread(2 * (Max(Range(prices)) - Min(Range(prices))), m)

Enough(prices) == Cardinality(DOMAIN prices) >= MIN_SOURCES

\* Slip: the sources are not counted again after the filter.
AggregateUncounted(prices) ==
    LET kept == FilterOutliers(prices)
    IN  IF ~ Enough(prices) \/ DOMAIN kept = {} \/ ~ Agreeing(kept) THEN Ends("skipped")
        ELSE IF Median2(kept) >= Infinity THEN Ends("threw")
        ELSE Submits((Median2(kept) + PER_UNIT) \div (2 * PER_UNIT))

\* The run is skipped, or throws (BigInt takes no Infinity), or submits a price.
Aggregate(prices) ==
    LET kept == FilterOutliers(prices)
    IN  IF ~ Enough(prices) \/ ~ Enough(kept) \/ ~ Agreeing(kept) THEN Ends("skipped")
        ELSE IF Median2(kept) >= Infinity THEN Ends("threw")
        ELSE Submits((Median2(kept) + PER_UNIT) \div (2 * PER_UNIT))

NamedPrices == [d \in Answered |-> PriceOf(d, read[d])]

\* Promise.allSettled: once every source has answered or thrown.
UpdatePair ==
    /\ outcome = Ends("none")
    /\ \A d \in Sources : Settled(d)
    /\ outcome' = Aggregate(NamedPrices)
    /\ UNCHANGED <<direction, pool, read, torn, failed, trades>>

\* The next tick: nothing of the last run is kept.
NextRun ==
    /\ outcome # Ends("none")
    /\ outcome' = Ends("none")
    /\ read' = [d \in Sources |-> Unread]
    /\ torn' = {}
    /\ failed' = {}
    /\ UNCHANGED <<direction, pool, trades>>

Next ==
    \/ \E d \in Sources : \/ Trade(d) \/ SourceFails(d)
                          \/ \E vault \in {"a", "b"} : ReadVault(d, vault)
    \/ ReadWhirlpool \/ UpdatePair \/ NextRun

Spec == Init /\ [][Next]_vars
================================================================================
