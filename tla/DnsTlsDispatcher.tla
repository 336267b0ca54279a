------------------------- MODULE DnsTlsDispatcher -------------------------
(***************************************************************************)
(* DnsTlsDispatcher: the cache of DNS-over-TLS transports, shared by the    *)
(* resolver threads, with its use counts, its cleanup and the counters of   *)
(* continuous failures.                                                     *)
(*                                                                         *)
(* Each action is one critical section of sLock, or the query to the        *)
(* transport between two of them.  The transport itself is                  *)
(* DnsTlsTransport.tla: here its future is only a code.                     *)
(***************************************************************************)
EXTENDS Integers, Sequences, FiniteSets

CONSTANTS
    NetIds,           \* networks; each has its own socket mark
    Servers,          \* DoT servers
    IPv6,             \* those with an IPv6 address
    Threads,          \* resolver threads
    Strict,           \* the servers have a name: strict mode
    quickFallback,    \* "dot_quick_fallback"
    triggerThr,       \* "dot_revalidation_threshold", none unless positive
    unusableThr,      \* "dot_xport_unusable_threshold", none unless positive
    IDLE_TIMEOUT,
    MaxTime,          \* bound on the clock
    MaxQueries,       \* bound: calls of query()
    NoTransport

ASSUME ServersAssumption == IsFiniteSet(Servers) /\ IPv6 \subseteq Servers /\ NetIds # {}
ASSUME ThreadsAssumption == IsFiniteSet(Threads)
ASSUME ModeAssumption == Strict \in BOOLEAN /\ quickFallback \in BOOLEAN
ASSUME NumberAssumption ==
    /\ triggerThr \in Int /\ unusableThr \in Int
    /\ IDLE_TIMEOUT \in Nat /\ MaxTime \in Nat /\ MaxQueries \in Nat

\* A transport is found by mark and server; the mark belongs to one network.
Keys == NetIds \X Servers
Codes == {"success", "network_error", "limit_error", "internal_error"}

VARIABLES
    mStore,         \* per key: a Transport, or NoTransport
    mLastCleanup,
    clock,          \* steady_clock
    made,           \* transports created so far; each has its number
    asked,          \* numbers of the transports that requested a revalidation,
                    \* with how often they did
    queries,        \* calls of query() so far
    call            \* per thread: the query() it is in

dispatcherVars == <<mStore, mLastCleanup, clock, made, asked, queries, call>>

Times == 0..MaxTime
Transport == [number: Nat, useCount: Nat, lastUsed: Times, continuousfailureCount: Nat,
              isRevalidationThresholdReached: BOOLEAN,
              isXportUnusableThresholdReached: BOOLEAN]
ASSUME NoTransportAssumption == NoTransport \notin Transport

\* "listed": between two servers of the list; "using": outside sLock with a
\* pointer to transport `xport`; "finish": the code is known and `now` was read.
Places == {"idle", "listed", "using", "finish"}
Calls == [at: Places, netid: NetIds, servers: Seq(Servers), xport: Nat, code: Codes,
          now: Times,
          skip: SUBSET Nat]   \* the transports marked unusable when the list was made

DispatcherTypeOK ==
    /\ mStore \in [Keys -> Transport \cup {NoTransport}]
    /\ mLastCleanup \in Times /\ clock \in Times
    /\ made \in Nat /\ queries \in 0..MaxQueries
    /\ asked \in [1..made -> Nat]
    /\ call \in [Threads -> Calls]

NoCall == [at |-> "idle", netid |-> CHOOSE n \in NetIds : TRUE, servers |-> <<>>, xport |-> 0,
           code |-> "internal_error", now |-> 0, skip |-> {}]

DispatcherInit ==
    /\ mStore = [k \in Keys |-> NoTransport]
    /\ mLastCleanup = 0 /\ clock = 0
    /\ made = 0 /\ asked = <<>> /\ queries = 0
    /\ call = [t \in Threads |-> NoCall]

getTransport(k) == mStore[k]

Transports(store) == {store[k] : k \in Keys} \ {NoTransport}

----------------------------------------------------------------------------
(* Cleanup                                                                  *)

\* Mutant: a transport in use is dropped with its network.
Expired_InUse(x, k, now, netId) ==
    \/ k[1] \in netId
    \/ x.useCount = 0 /\ now - x.lastUsed > IDLE_TIMEOUT

\* Whether cleanup() drops transport x; netId is empty for std::nullopt.
Expired(x, k, now, netId) ==
    /\ x.useCount = 0
    /\ k[1] \in netId \/ now - x.lastUsed > IDLE_TIMEOUT

cleanupStore(store, now, netId) ==
    [k \in Keys |-> IF store[k] # NoTransport /\ Expired(store[k], k, now, netId)
                    THEN NoTransport ELSE store[k]]

maybeCleanup(store, now) ==
    IF now - mLastCleanup < IDLE_TIMEOUT
    THEN mStore' = store /\ UNCHANGED mLastCleanup
    ELSE mStore' = cleanupStore(store, now, {}) /\ mLastCleanup' = now

\* ResolverController::destroyNetworkCache()
forceCleanup(n) ==
    /\ mStore' = cleanupStore(mStore, clock, {n})
    /\ UNCHANGED <<mLastCleanup, clock, made, asked, queries, call>>

----------------------------------------------------------------------------
(* query(list)                                                              *)

\* The thresholds count in opportunistic mode only (addTransport()).
triggerThreshold   == IF triggerThr <= 0 \/ Strict THEN -1 ELSE triggerThr
unusableThreshold  == IF unusableThr <= 0 \/ Strict THEN -1 ELSE unusableThr

\* Transport::usable(): its answer, and the mark it leaves.
usable(x) ==
    \/ unusableThreshold <= 0
    \/ x.continuousfailureCount < unusableThreshold /\ ~x.isXportUnusableThresholdReached

MarkedUnusable(x) ==
    [x EXCEPT !.isXportUnusableThresholdReached =
        @ \/ (unusableThreshold > 0 /\ x.continuousfailureCount >= unusableThreshold)]

\* The servers a caller passes: the validated ones of its network, in some order.
Lists == {s \in UNION {[1..k -> Servers] : k \in 1..Cardinality(Servers)} :
            \A i, j \in DOMAIN s : i # j => s[i] # s[j]}

\* The four lists in the order they are joined: existing connections first, and IPv6
\* before IPv4.
Preference(n, s) ==
    (IF getTransport(<<n, s>>) = NoTransport THEN 2 ELSE 0) + (IF s \in IPv6 THEN 0 ELSE 1)

\* Whether `out` is the list made of `list`: a server whose transport is not usable is
\* left out, and servers of the same preference keep their order.
Ordered(n, list, out) ==
    /\ {out[i] : i \in DOMAIN out} =
          {s \in {list[i] : i \in DOMAIN list} :
              getTransport(<<n, s>>) # NoTransport => usable(getTransport(<<n, s>>))}
    /\ \A a, b \in DOMAIN list, i, j \in DOMAIN out : out[i] = list[a] /\ out[j] = list[b] /\ i < j =>
          \/ Preference(n, out[i]) < Preference(n, out[j])
          \/ Preference(n, out[i]) = Preference(n, out[j]) /\ a < b

\* Looking at the servers of the list leaves marks on their transports.
Looked(n, list) ==
    [k \in Keys |-> IF /\ getTransport(k) # NoTransport
                       /\ k[1] = n /\ \E i \in DOMAIN list : k[2] = list[i]
                    THEN MarkedUnusable(getTransport(k)) ELSE mStore[k]]

getOrderedAndUsableServerList(t, n, list) ==
    /\ call[t].at = "idle" /\ queries < MaxQueries
    /\ queries' = queries + 1
    /\ mStore' = Looked(n, list)
    /\ \E out \in Lists \cup {<<>>} :
         /\ Ordered(n, list, out)
         /\ call' = [call EXCEPT ![t] = [NoCall EXCEPT
                   !.at = "listed", !.netid = n, !.servers = out,
                   !.skip = {x.number : x \in {y \in Transports(mStore') :
                                y.isXportUnusableThresholdReached}}]]
    /\ UNCHANGED <<mLastCleanup, clock, made, asked>>

\* No server is left: query(list) returns the last code; without any server it
\* has made room first.
ListOver(t) ==
    /\ call[t].at = "listed" /\ call[t].servers = <<>>
    /\ IF call[t].xport = 0 THEN maybeCleanup(mStore, clock)
                            ELSE UNCHANGED <<mStore, mLastCleanup>>
    /\ call' = [call EXCEPT ![t] = NoCall]
    /\ UNCHANGED <<clock, made, asked, queries>>

----------------------------------------------------------------------------
(* query(server)                                                            *)

addTransport(number) ==
    [number |-> number, useCount |-> 0, lastUsed |-> 0, continuousfailureCount |-> 0,
     isRevalidationThresholdReached |-> FALSE, isXportUnusableThresholdReached |-> FALSE]

Acquired(x) == [x EXCEPT !.useCount = @ + 1]

\* The first critical section of query(): the transport is found or made, and
\* counted as used.
Acquire(t) ==
    LET key == <<call[t].netid, Head(call[t].servers)>>
        xport == IF getTransport(key) = NoTransport THEN addTransport(made + 1)
                 ELSE getTransport(key)
    IN  /\ call[t].at = "listed" /\ call[t].servers # <<>>
        /\ mStore' = [mStore EXCEPT ![key] = Acquired(xport)]
        /\ made' = IF getTransport(key) = NoTransport THEN made + 1 ELSE made
        /\ asked' = IF getTransport(key) = NoTransport THEN Append(asked, 0) ELSE asked
        /\ call' = [call EXCEPT ![t] = [@ EXCEPT !.at = "using", !.xport = xport.number]]
        /\ UNCHANGED <<mLastCleanup, clock, queries>>

\* The future is answered, or dot_query_timeout_ms is over and the query is left
\* in the transport; an answer that does not fit the caller's buffer is a
\* limit_error.  The time is read before sLock is taken.
queryInternal(t, code) ==
    /\ call[t].at = "using"
    /\ call' = [call EXCEPT ![t] = [@ EXCEPT !.at = "finish", !.code = code, !.now = clock]]
    /\ UNCHANGED <<mStore, mLastCleanup, clock, made, asked, queries>>

\* Mutant: a transport asks again after every failure past the threshold.
checkRevalidationNecessary_Again(x) ==
    triggerThreshold > 0 /\ x.continuousfailureCount >= triggerThreshold

checkRevalidationNecessary(x) ==
    /\ triggerThreshold > 0
    /\ x.continuousfailureCount >= triggerThreshold
    /\ ~x.isRevalidationThresholdReached

\* These codes are "not expected to change if another server is queried".
Final(code) ==
    \/ code \in {"success", "limit_error"}
    \/ code = "network_error" /\ quickFallback /\ ~Strict

\* Only failures of the network count, and anything else ends their row.
Failures(x, code) == IF code = "network_error" THEN x.continuousfailureCount + 1 ELSE 0

\* The transport a query gives back, and the mark of the revalidation it asks for.
Returned(x, code, now) ==
    [x EXCEPT !.useCount = @ - 1, !.lastUsed = now, !.continuousfailureCount = Failures(x, code)]

Flagged(x) == [x EXCEPT !.isRevalidationThresholdReached = @ \/ checkRevalidationNecessary(x)]

\* The second critical section of query(), and the return to query(list).
Release(t) ==
    LET key == <<call[t].netid, Head(call[t].servers)>>
        x == Returned(mStore[key], call[t].code, call[t].now)
    IN  /\ call[t].at = "finish"
        /\ maybeCleanup([mStore EXCEPT ![key] = Flagged(x)], call[t].now)
        /\ asked' = IF checkRevalidationNecessary(x) THEN [asked EXCEPT ![x.number] = @ + 1] ELSE asked
        /\ call' = [call EXCEPT ![t] =
              IF Final(call[t].code) THEN NoCall
              ELSE [call[t] EXCEPT !.at = "listed", !.servers = Tail(call[t].servers)]]
        /\ UNCHANGED <<clock, made, queries>>

Tick ==
    /\ clock < MaxTime
    /\ clock' = clock + 1
    /\ UNCHANGED <<mStore, mLastCleanup, made, asked, queries, call>>

QueryStep(t) ==
    \/ \E n \in NetIds, list \in Lists : getOrderedAndUsableServerList(t, n, list)
    \/ ListOver(t)
    \/ Acquire(t)
    \/ \E code \in Codes : queryInternal(t, code)
    \/ Release(t)

DispatcherNext == (\E t \in Threads : QueryStep(t)) \/ (\E n \in NetIds : forceCleanup(n)) \/ Tick

DispatcherSpec == DispatcherInit /\ [][DispatcherNext]_dispatcherVars

----------------------------------------------------------------------------

InUse(t) == call[t].at \in {"using", "finish"}
KeyOf(t) == <<call[t].netid, Head(call[t].servers)>>

\* While a thread uses a transport outside sLock, the store keeps that very
\* transport: neither the cleanup of another query nor forceCleanup() destroys
\* it, and its use count is the number of threads that use it
\* (DnsTlsDispatcher::query, cleanup).
PointerValid ==
    /\ \A t \in Threads : InUse(t) =>
          mStore[KeyOf(t)] # NoTransport /\ mStore[KeyOf(t)].number = call[t].xport
    /\ \A x \in Transports(mStore) :
          x.useCount = Cardinality({t \in Threads : InUse(t) /\ call[t].xport = x.number})

\* A transport requests a revalidation of its server at most once, and never in
\* strict mode, however many of its queries fail and whatever succeeds in
\* between (checkRevalidationNecessary).
AsksOnce == \A i \in 1..made : asked[i] <= (IF Strict THEN 0 ELSE 1)

\* A transport that was unusable when a call made its list is not used by that
\* call ("Don't use this xport"), not even after one of its older queries has
\* succeeded and reset the failure count (usable).
SkipsUnusable == \A t \in Threads : InUse(t) => call[t].xport \notin call[t].skip
============================================================================
