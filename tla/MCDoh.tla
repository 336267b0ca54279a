------------------------------- MODULE MCDoh --------------------------------
(* Two servers for one network, and channels of one place each, so that      *)
(* every channel fills up.                                                   *)
EXTENDS Doh, TLC
CONSTANTS q1, q2, s1, s2
MCQueries == {q1, q2}
MCServers == {s1, s2}
Scene(live, qs, ps, n) ==
    [live |-> live, queries |-> qs, probes |-> ps, clears |-> n]
MCScenes == {Scene(FALSE, {q1}, <<s1, s1>>, 0),
             Scene(TRUE, {q1}, <<s1, s1>>, 1), Scene(TRUE, {q1}, <<s1, s2>>, 0),
             Scene(TRUE, {q1, q2}, <<s1>>, 0)}
=============================================================================
