------------------------------- MODULE MCNetwork -------------------------------
(***************************************************************************)
(* Instances of Network.                                                   *)
(***************************************************************************)
EXTENDS Network
================================================================================
