----------------------------- MODULE MCEventIndexer -----------------------------
(***************************************************************************)
(* Instances of EventIndexer for TLC: transactions that update one oracle, *)
(* or another one and then that one, or in which another program logs an   *)
(* event of that oracle; two updaters with prices far apart.               *)
(***************************************************************************)
EXTENDS EventIndexerProperties

CONSTANTS o1, o2

OneOrBoth == { <<o1>>, <<o2, o1>> }

ForeignEvent == [oracle |-> o1, price |-> 300, slot |-> 1, updater |-> "u1",
                 cumulative_price |-> 50]

WithForeign == { <<o1>>, <<ForeignEvent, o2>> }

TwoUpdaters == { [price |-> 100, updater |-> "u1"], [price |-> 300, updater |-> "u2"] }
================================================================================
