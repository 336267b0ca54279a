---------------------------- MODULE QueryService ----------------------------
(***************************************************************************)
(* What DnsTlsTransport promises its callers: query() returns a future that *)
(* gets exactly one result, which is the answer to that very query or an    *)
(* error.  Connections, retries, IDs and threads do not show.               *)
(***************************************************************************)
CONSTANTS Queries, NoAnswer

VARIABLES
    code,     \* the state of each future: Response of its Result
    answer    \* the query that the response answers

vars == <<code, answer>>

Init ==
    /\ code = [q \in Queries |-> "none"]
    /\ answer = [q \in Queries |-> NoAnswer]

\* Many futures can get their result at once: they do when a connection fails.
Submit(q) ==
    /\ code[q] = "none"
    /\ \E c \in {"pending", "internal_error"} : code' = [code EXCEPT ![q] = c]
    /\ UNCHANGED answer

Answer(q) ==
    /\ code[q] = "pending"
    /\ code' = [code EXCEPT ![q] = "success"]
    /\ answer' = [answer EXCEPT ![q] = q]

Fail(failed) ==
    /\ \A q \in failed : code[q] = "pending"
    /\ code' = [q \in Queries |-> IF q \in failed THEN "network_error" ELSE code[q]]
    /\ UNCHANGED answer

Next == (\E q \in Queries : Submit(q) \/ Answer(q)) \/ (\E failed \in SUBSET Queries : Fail(failed))

Spec == Init /\ [][Next]_vars

\* Every submitted query gets its result.  A result is final and each query is
\* submitted once, so with finitely many of them there is none pending in the end.
Resolved == <>[](\A q \in Queries : code[q] # "pending")
============================================================================
