--------------------------- MODULE MCResolvCache ---------------------------
(* Instances of ResolvCache for TLC. *)
EXTENDS ResolvCache, TLC

CONSTANTS n1, c1, c2, qa, qb, qc, bad

\* qa, qb and qc share a bucket, qa and qc share the whole hash; bad is malformed.
MCHash == (qa :> 0) @@ (qb :> 2) @@ (qc :> 0) @@ (bad :> 0)

\* Plain lookups, and one that skips the table but stores its answer.
MCFlags == {{}, {NoCacheLookup, TryAll}}
============================================================================
