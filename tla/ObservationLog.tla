----------------------------- MODULE ObservationLog -----------------------------
(***************************************************************************)
(* What the observation buffer promises, without a ring: a window over the *)
(* stream of observations, newest first.  Recording puts an observation in *)
(* front and forgets the oldest one only when the window is full; changing *)
(* the capacity forgets the oldest ones only as far as the new capacity    *)
(* demands.  Slots strictly decrease from the front, so the first entry    *)
(* below a slot is the newest one below it.                                *)
(***************************************************************************)
EXTENDS Integers, Sequences

CONSTANTS Observations,   \* records with a field slot
          Capacities      \* the capacities an oracle may be given

VARIABLES log,            \* the observations kept, newest first
          capacity        \* how many may be kept; 0 before the oracle exists

vars == <<log, capacity>>

AtMost(n, s) == IF n < Len(s) THEN n ELSE Len(s)

Newest(n, s) == [i \in 1 .. AtMost(n, s) |-> s[i]]

InFront(o, s) == [i \in 1 .. Len(s) + 1 |-> IF i = 1 THEN o ELSE s[i - 1]]

Init == log = <<>> /\ capacity = 0

Create(c) ==
    /\ capacity = 0
    /\ capacity' = c
    /\ log' = <<>>

\* The observation recorded is the one in front afterwards.
Record ==
    /\ capacity > 0
    /\ log' # <<>>
    /\ log'[1] \in Observations
    /\ log # <<>> => log[1].slot < log'[1].slot
    /\ log' = Newest(capacity, InFront(log'[1], log))
    /\ UNCHANGED capacity

SetCapacity(c) ==
    /\ capacity > 0
    /\ capacity' = c
    /\ log' = Newest(c, log)

Next == Record \/ \E c \in Capacities : Create(c) \/ SetCapacity(c)

Spec == Init /\ [][Next]_vars
================================================================================
