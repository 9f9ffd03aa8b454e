------------------------------ MODULE MCUpdaterBot ------------------------------
(***************************************************************************)
(* Instances of UpdaterBot for TLC.                                        *)
(***************************************************************************)
EXTENDS UpdaterBotProperties
================================================================================
