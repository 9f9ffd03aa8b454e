------------------------------ MODULE MCTwapOracle ------------------------------
(***************************************************************************)
(* Instances of TwapOracle for TLC.  Users occur in no ordered position,   *)
(* so permuting them is a symmetry; the properties checked under it are    *)
(* invariants and action properties.                                       *)
(***************************************************************************)
EXTENDS TwapOracleProperties, TLC

UserSymmetry == Permutations(Users)
================================================================================
