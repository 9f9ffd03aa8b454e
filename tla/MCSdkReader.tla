------------------------------- MODULE MCSdkReader -------------------------------
(***************************************************************************)
(* Instances of SdkReader for TLC: one reader beside one oracle.           *)
(***************************************************************************)
EXTENDS SdkReaderProperties
================================================================================
