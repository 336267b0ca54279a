----------------------------- MODULE MCResSend -----------------------------
(* Instances of ResSend for TLC. *)
EXTENDS ResSend

Off == [mode |-> "OFF", doh |-> FALSE, dot |-> FALSE]
Base == [mdns |-> FALSE, bypass |-> FALSE, tryAll |-> FALSE, noRetry |-> FALSE, local |-> TRUE,
         large |-> FALSE, keep |-> FALSE, udpTcp |-> TRUE, edns |-> FALSE, private |-> Off,
         replies |-> {"answer", "servfail", "truncated", "old", "icmp"}]

\* Private DNS from every status; UDP and TCP with each option; EDNS0; all servers tried.
MCScenes ==
    {[Base EXCEPT !.local = FALSE, !.mdns = TRUE, !.noRetry = TRUE, !.private = p,
                  !.replies = {"answer", "truncated"}] : p \in PrivateStatuses}
    \cup {[Base EXCEPT !.keep = k, !.udpTcp = k] : k \in BOOLEAN}
    \cup {[Base EXCEPT !.edns = e, !.replies = {"formerr", "formerr_bare", "short"}] : e \in BOOLEAN}
    \cup {[Base EXCEPT !.tryAll = TRUE, !.keep = k,
                       !.replies = {"answer", "nodata", "nxdomain", "truncated"}] : k \in BOOLEAN}
    \cup {[Base EXCEPT !.tryAll = TRUE, !.large = TRUE]}
    \cup {[Base EXCEPT !.bypass = TRUE, !.noRetry = TRUE, !.large = TRUE]}
============================================================================
