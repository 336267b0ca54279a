------------------------ MODULE MCDnsTlsDispatcher ------------------------
(***************************************************************************)
(* Instances of DnsTlsDispatcher for TLC.                                   *)
(***************************************************************************)
EXTENDS DnsTlsDispatcher, TLC

ThreadSymmetry == Permutations(Threads)
============================================================================
