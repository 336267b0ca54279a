------------------------- MODULE MCDnsTlsTransport -------------------------
(* Instances of DnsTlsTransport for TLC. *)
EXTENDS DnsTlsTransport, FiniteSets

CONSTANTS q1, q2, q3

\* Failing queries do not cause a storm of connections: doConnect() runs at most
\* mMaxTries times for each query ("The maximum number of times we will send a
\* query before abandoning it").
ConnectsBounded == mConnectCounter <= Cardinality(Queries \ TooShort) * mMaxTries
============================================================================
