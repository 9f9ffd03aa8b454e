---------------------------- MODULE ObservationRing ----------------------------
(***************************************************************************)
(* The observation ring of programs/slot_twap_oracle: the account record   *)
(* ObservationBuffer (state/observation.rs), the two helpers that write    *)
(* and read it (utils/ring_buffer.rs), and the reallocation that changes   *)
(* its capacity (instructions/resize_buffer.rs).  Everything here is a     *)
(* pure operator; TwapOracle applies them to its buffer variable.          *)
(*                                                                         *)
(* A buffer is a record whose `observations' is a function on array        *)
(* indices, `head' the next index to write and `len' the number of         *)
(* indices that hold an observation.                                       *)
(***************************************************************************)
EXTENDS Integers, FiniteSetsExt

\* Observation::default(), what a fresh array is filled with.
ZeroObservation == [slot |-> 0, cumulative_price |-> 0]

NewBuffer(capacity) ==
    [head         |-> 0,
     len          |-> 0,
     capacity     |-> capacity,
     observations |-> [i \in 0 .. capacity - 1 |-> ZeroObservation]]

\* Write at head, count up to the capacity, advance head around the ring.
PushObservation(buffer, observation) ==
    [head         |-> (buffer.head + 1) % buffer.capacity,
     len          |-> IF buffer.len < buffer.capacity
                      THEN buffer.len + 1 ELSE buffer.len,
     capacity     |-> buffer.capacity,
     observations |-> [buffer.observations EXCEPT ![buffer.head] = observation]]

\* The n-th newest entry, 1 being the one written last.
NthNewest(buffer, n) ==
    buffer.observations[(buffer.head + buffer.capacity - n) % buffer.capacity]

\* Slip: an observation at the target slot counts as before it.
AgesAtOrBefore(buffer, target) ==
    { n \in 1 .. buffer.len : NthNewest(buffer, n).slot <= target }

\* The ages (1 = newest) at which the backward scan finds a slot below target.
AgesBefore(buffer, target) ==
    { n \in 1 .. buffer.len : NthNewest(buffer, n).slot < target }

\* The scan stops at the first of them; defined when there is one.
ObservationBeforeSlot(buffer, target) ==
    NthNewest(buffer, Min(AgesBefore(buffer, target)))

\* A buffer in use: the array has `capacity' entries, head is one of its
\* indices, and until the ring fills entries are stored from index 0 up.
IsRing(buffer, Observation) ==
    /\ buffer \in [head         : 0 .. buffer.capacity - 1,
                   len          : 0 .. buffer.capacity,
                   capacity     : Nat \ {0},
                   observations : [0 .. buffer.capacity - 1 -> Observation]]
    /\ buffer.len < buffer.capacity => buffer.head = buffer.len

--------------------------------------------------------------------------------
(* Reallocation *)

\* The entry at position i (from 0) of the ring copied oldest first: as stored
\* while the ring has not filled, else observations[head..] then [..head].
Ordered(buffer, i) ==
    LET older == buffer.capacity - buffer.head
    IN  CASE buffer.len < buffer.capacity -> buffer.observations[i]
          [] buffer.len >= buffer.capacity /\ i < older ->
                buffer.observations[buffer.head + i]
          [] OTHER -> buffer.observations[i - older]

Smaller(a, b) == IF a < b THEN a ELSE b

\* Slip: the oldest entries are the ones kept.
ShrinkKeepingOldest(buffer, new_capacity) ==
    LET keep == Smaller(new_capacity, buffer.len)
    IN  [head         |-> keep % new_capacity,
         len          |-> keep,
         capacity     |-> new_capacity,
         observations |-> [i \in 0 .. new_capacity - 1 |->
                              IF i < keep THEN Ordered(buffer, i)
                                          ELSE ZeroObservation]]

\* Keep the newest entries that fit, oldest first, in a fresh array.
Shrink(buffer, new_capacity) ==
    LET keep  == Smaller(new_capacity, buffer.len)
        start == buffer.len - keep
    IN  [head         |-> keep % new_capacity,
         len          |-> keep,
         capacity     |-> new_capacity,
         observations |-> [i \in 0 .. new_capacity - 1 |->
                              IF i < keep THEN Ordered(buffer, start + i)
                                          ELSE ZeroObservation]]

\* Slip: a wrapped ring grows where it lies.
GrowInPlace(buffer, new_capacity) ==
    [buffer EXCEPT !.capacity = new_capacity,
                   !.observations = [i \in 0 .. new_capacity - 1 |->
                                        IF i < buffer.capacity THEN @[i]
                                        ELSE ZeroObservation]]

\* A full ring is first laid out oldest first, with head after its last entry.
Grow(buffer, new_capacity) ==
    LET wrapped == buffer.len = buffer.capacity /\ buffer.head # buffer.len
    IN  [head         |-> IF wrapped THEN buffer.len ELSE buffer.head,
         len          |-> buffer.len,
         capacity     |-> new_capacity,
         observations |-> [i \in 0 .. new_capacity - 1 |->
                              CASE i >= buffer.capacity -> ZeroObservation
                                [] i < buffer.capacity /\ wrapped ->
                                      Ordered(buffer, i)
                                [] OTHER -> buffer.observations[i]]]

\* Neither branch runs for an unchanged capacity, nor for a smaller one while
\* the ring is empty: then the array keeps its old length.
Resize(buffer, new_capacity) ==
    IF new_capacity < buffer.capacity /\ buffer.len > 0
    THEN Shrink(buffer, new_capacity)
    ELSE IF new_capacity > buffer.capacity
         THEN Grow(buffer, new_capacity)
         ELSE [buffer EXCEPT !.capacity = new_capacity]

\* The account has room for `capacity' observations (ObservationBuffer::space);
\* the instruction fails when the array written back on exit is longer.
FitsAccount(buffer) ==
    DOMAIN buffer.observations \subseteq 0 .. buffer.capacity - 1
================================================================================
