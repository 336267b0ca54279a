------------------------ MODULE MCDnsProxyListener ------------------------
(***************************************************************************)
(* Instances of DnsProxyListener for TLC.                                   *)
(***************************************************************************)
EXTENDS DnsProxyListener, TLC

CONSTANTS r1, r2, r3, app, sys, other

\* A request of any kind, against two raw queries, one of them perhaps of the same uid.
MCIssued ==
    (r1 :> Commands \X {app}) @@ (r2 :> {"resnsend"} \X {app, sys}) @@ (r3 :> {"resnsend"} \X {other})
============================================================================
