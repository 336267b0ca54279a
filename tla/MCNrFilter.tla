----------------------------- MODULE MCNrFilter -----------------------------
(* Two threads, the two mappings an index change needs and no spare one, and *)
(* a ring of two slots that the third record comes back to.                  *)
EXTENDS NrFilter, TLC
CONSTANTS t1, t2, m1, m2, none
MCThreads == {t1, t2}
MCPool == {m1, m2}
=============================================================================
