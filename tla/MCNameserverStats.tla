------------------------- MODULE MCNameserverStats -------------------------
(***************************************************************************)
(* Instances of NameserverStats for TLC.                                    *)
(***************************************************************************)
EXTENDS NameserverStats, TLC

CONSTANTS s1, s2, s3

\* One server, and more than MAXNS = 2.
MCLists == {<<s1>>, <<s2, s3, s1>>}

\* The netid is used twice; the revisions of the second network repeat those of the first.
MCRevisions == <<2, 1>>

Symmetry == Permutations(Lookups)
============================================================================
