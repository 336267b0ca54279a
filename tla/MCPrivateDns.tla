--------------------------- MODULE MCPrivateDns ---------------------------
(* Instances of PrivateDns for TLC. *)
EXTENDS PrivateDns, TLC

CONSTANTS n1, s1, host, m1, m2, k1, k2
============================================================================
