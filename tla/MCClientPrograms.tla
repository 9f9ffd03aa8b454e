---------------------------- MODULE MCClientPrograms -----------------------------
(***************************************************************************)
(* Instances of ClientPrograms for TLC: one run of each program.           *)
(***************************************************************************)
EXTENDS ClientProgramsProperties
================================================================================
