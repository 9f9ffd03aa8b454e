--------------------------- MODULE MCPriceAggregation ---------------------------
(***************************************************************************)
(* Instances of PriceAggregation for TLC.  The pools are at 1, at 1.05 (the *)
(* limit of the spread from 1 in a median of two ones), far away, and empty *)
(* of one token.                                                           *)
(***************************************************************************)
EXTENDS PriceAggregationProperties

SomePools == { [a |-> 20, b |-> 20], [a |-> 20, b |-> 21],
               [a |-> 10, b |-> 40], [a |-> 20, b |-> 0] }
================================================================================
