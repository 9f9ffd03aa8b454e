----------------------- MODULE PriceAggregationProperties -----------------------
(***************************************************************************)
(* What the submitted price owes to the sources.                           *)
(***************************************************************************)
EXTENDS PriceAggregation

Submitted == outcome.result = "submitted"

\* Types; a price that is submitted is finite.
AggregationTypeOK ==
    /\ direction \in Configurations
    /\ pool \in [Sources -> Pools]
    /\ DOMAIN read = Sources
    /\ torn \subseteq Sources \ {"orca"}
    /\ failed \subseteq Sources
    /\ outcome.result \in {"none", "skipped", "threw", "submitted"}
    /\ outcome.price \in 0 .. SCALE * SCALE

\* Sources whose price is one their pool had at one moment of the run.
Honest == Answered \ torn

\* As long as fewer sources than MIN_SOURCES answered with balances of two
\* moments, the submitted price is within 5 percent of itself, and the rounding,
\* of what some source answered that did not: the median of an even number of
\* prices, the outlier filter and the spread test use three medians of two
\* populations, and together still let no minority choose the price.
TornReadsAreContained ==
    Submitted /\ Cardinality(Answered \cap torn) < MIN_SOURCES =>
        \E d \in Honest :
            LET price == PER_UNIT * outcome.price
            IN  200 * Apart(NamedPrices[d], price)
                    <= 5 * (2 * price + PER_UNIT) + 100 * PER_UNIT

\* The infinite price of an empty Raydium pool fails the pair only when no two
\* finite answers outvote it: NaN comparisons, which let everything through, do
\* not let an infinite price past a majority.
InfinityIsOutvoted ==
    outcome.result = "threw" =>
        Cardinality({ d \in Answered : NamedPrices[d] < Infinity }) < 2

\* Enough sources whose prices lie within 5 percent of their median make a price:
\* neither filter rejects what the other one would accept.
AgreementIsSubmitted ==
    outcome.result # "none" /\ Enough(NamedPrices) /\ Median2(NamedPrices) < Infinity
    /\ WithinSpread(2 * (Max(Range(NamedPrices)) - Min(Range(NamedPrices))),
                    Median2(NamedPrices)) =>
        outcome = Submits((Median2(NamedPrices) + PER_UNIT) \div (2 * PER_UNIT))
================================================================================
