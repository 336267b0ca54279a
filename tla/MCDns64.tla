------------------------------ MODULE MCDns64 ------------------------------
(***************************************************************************)
(* The instance of Dns64 for TLC.                                           *)
(***************************************************************************)
EXTENDS Dns64
============================================================================
