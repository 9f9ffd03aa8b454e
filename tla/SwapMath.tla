-------------------------------- MODULE SwapMath --------------------------------
(***************************************************************************)
(* The arithmetic the program and its clients share: cumulative prices     *)
(* extended to a slot, and the slot-weighted average price of              *)
(* math/swap.rs.  Rust's checked_* operations are modelled by what they    *)
(* reject: a result outside 0 .. MaxU128.                                  *)
(***************************************************************************)
EXTENDS Integers

CONSTANT MaxU128          \* the largest u128 of the instance

ASSUME MaxU128Assumption == MaxU128 \in Nat

\* Slip: arithmetic that is not checked.
UncheckedFits(x) == x \in Nat

\* checked_mul, checked_add: the result, when the type can hold it.
Fits(x) == x \in 0 .. MaxU128

\* Slip: the slot of the last update is not counted.
ExtendedFromNextSlot(oracle, slot) ==
    oracle.cumulative_price + oracle.last_price * (slot - oracle.last_slot - 1)

\* cumulative_price carried to `slot' at the price now in force.
ExtendedCumulative(oracle, slot) ==
    oracle.cumulative_price + oracle.last_price * (slot - oracle.last_slot)

Ok(value)     == [error |-> "none", swap |-> value]
Fails(reason) == [error |-> reason, swap |-> 0]

ComputeSwap(cumulative_now, cumulative_past, slot_now, slot_past) ==
    IF slot_now < slot_past                   THEN Fails("PriceOverflow")
    ELSE IF slot_now = slot_past              THEN Fails("StaleSlot")
    ELSE IF cumulative_now < cumulative_past  THEN Fails("PriceOverflow")
    ELSE Ok((cumulative_now - cumulative_past) \div (slot_now - slot_past))

--------------------------------------------------------------------------------
(* The clients' arithmetic: BN and BigInt are unbounded and signed. *)

\* BN.div truncates towards zero.
DivBN(n, d) == IF n >= 0 THEN n \div d ELSE -((-n) \div d)

\* The static computeSwap: unlike compute_swap, only an empty interval fails.
ComputeSwapBN(cumulativeNow, cumulativePast, slotNow, slotPast) ==
    IF slotNow = slotPast THEN Fails("DivisionByZero")
    ELSE Ok(DivBN(cumulativeNow - cumulativePast, slotNow - slotPast))
================================================================================
