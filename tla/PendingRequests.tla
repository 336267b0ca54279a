-------------------------- MODULE PendingRequests --------------------------
(***************************************************************************)
(* Coalescing of identical DNS requests: the pending-request list of        *)
(* res_cache.cpp and its caller res_nsend() (res_send.cpp).                 *)
(*                                                                         *)
(* The first thread that misses the cache for a question registers the      *)
(* question's hash and goes to the network; threads that ask the same       *)
(* question meanwhile block on the condition variable `cv` until the hash   *)
(* is removed, or for PENDING_REQUEST_TIMEOUT seconds.                      *)
(*                                                                         *)
(* Every function below runs under cache_mutex, so each is one action.  The *)
(* mutex is not held between a lookup and the add (or the failure report)   *)
(* that ends the call: the thread is "sending" then.  What the hash table   *)
(* holds for a question is the parameter `hit`; this module lets it be      *)
(* anything, ResolvCache.tla takes it from the table.                       *)
(***************************************************************************)
EXTENDS Naturals

CONSTANTS
    NetIds,      \* networks
    Clients,     \* resolver threads that call res_nsend()
    Queries,     \* question packets
    Malformed,   \* the packets entry_init_key() rejects
    Hashes,      \* values of the query hash
    hash,        \* _dnsPacket_hashQuery; distinct questions may collide
    FlagSets,    \* the flag words callers pass to res_nsend()
    MaxCalls,    \* bound: calls each thread makes
    NoRequest    \* a thread outside res_nsend()

NoCacheLookup == "ANDROID_RESOLV_NO_CACHE_LOOKUP"
NoCacheStore  == "ANDROID_RESOLV_NO_CACHE_STORE"
TryAll        == "RESOLV_TRY_ALL_USABLE_SERVERS"

ASSUME QueriesAssumption == Malformed \subseteq Queries /\ hash \in [Queries -> Hashes]
ASSUME FlagsAssumption   == FlagSets \subseteq SUBSET {NoCacheLookup, NoCacheStore, TryAll}
ASSUME CallsAssumption   == MaxCalls \in Nat

Requests == [netid: NetIds, query: Queries, flags: FlagSets]

ASSUME NoRequestAssumption == NoRequest \notin Requests

VARIABLES
    nets,      \* the domain of sNetConfigMap
    pending,   \* pending[n]: the hashes on the pending_requests list of n's cache
    timeouts,  \* wait_for_pending_req_timeout_count of each network
    pc,        \* where each thread is
    req,       \* the call it is in
    status,    \* what resolv_cache_lookup() last returned to it
    calls      \* how many calls it has made

vars == <<nets, pending, timeouts, pc, req, status, calls>>

\* "waiting": blocked on cv; "notified": woken, not yet holding cache_mutex
\* again; "sending": from the lookup to the end of res_nsend().
Locations == {"idle", "waiting", "notified", "sending"}

Statuses == {"UNSUPPORTED", "NOTFOUND", "FOUND", "SKIP"}

\* What the table holds for a question: no entry, an expired one, one that
\* does not fit the caller's buffer, or one that can be returned.
Hits == {"MISS", "STALE", "TOO_LONG", "FRESH"}

TypeOK ==
    /\ nets \in SUBSET NetIds
    /\ pending \in [NetIds -> SUBSET Hashes]
    /\ timeouts \in [NetIds -> Nat]
    /\ pc \in [Clients -> Locations]
    /\ req \in [Clients -> Requests \cup {NoRequest}]
    /\ status \in [Clients -> Statuses]
    /\ calls \in [Clients -> 0..MaxCalls]

Init ==
    /\ nets = {}
    /\ pending = [n \in NetIds |-> {}]
    /\ timeouts = [n \in NetIds |-> 0]
    /\ pc = [c \in Clients |-> "idle"]
    /\ req = [c \in Clients |-> NoRequest]
    /\ status = [c \in Clients |-> "UNSUPPORTED"]
    /\ calls = [c \in Clients |-> 0]

----------------------------------------------------------------------------
(* The pending-request list and the condition variable.                     *)

\* The list is matched by hash alone.
cache_has_pending_request_locked(n, q) == n \in nets /\ hash[q] \in pending[n]

\* cv.notify_all(): one condition variable serves every network and question.
notify_all(locs) == [c \in Clients |-> IF locs[c] = "waiting" THEN "notified" ELSE locs[c]]

\* Unlink the question's hash and wake every waiter; nothing happens when no
\* such hash is listed.  `locs` is where the threads are after the call.
cache_notify_waiting_tid_locked(n, q, locs) ==
    IF cache_has_pending_request_locked(n, q)
    THEN /\ pending' = [pending EXCEPT ![n] = @ \ {hash[q]}]
         /\ pc' = notify_all(locs)
    ELSE /\ pending' = pending
         /\ pc' = locs

----------------------------------------------------------------------------
(* resolv_cache_lookup(): called by res_nsend() of thread c for request r.   *)

\* The lookup is over: FOUND ends res_nsend(), anything else goes on to send.
LookupReturns(c, r, s) ==
    /\ pc' = [pc EXCEPT ![c] = IF s = "FOUND" THEN "idle" ELSE "sending"]
    /\ req' = [req EXCEPT ![c] = IF s = "FOUND" THEN NoRequest ELSE r]
    /\ status' = [status EXCEPT ![c] = s]

BypassesCache(flags) == flags \cap {NoCacheLookup, NoCacheStore} # {}

\* The caller asked to bypass the cache: the table is not even read.
LookupBypass(c, r) ==
    /\ BypassesCache(r.flags)
    /\ LookupReturns(c, r, IF NoCacheStore \in r.flags THEN "SKIP" ELSE "NOTFOUND")
    /\ UNCHANGED pending

\* Malformed question, or no cache for the network.
LookupUnsupported(c, r) ==
    /\ ~BypassesCache(r.flags)
    /\ r.query \in Malformed \/ r.netid \notin nets
    /\ LookupReturns(c, r, "UNSUPPORTED")
    /\ UNCHANGED pending

\* The part of the lookup after an entry was found: an expired entry is
\* dropped (and nothing is registered), a too long one is left alone.
StatusOf(hit) == IF hit \in {"MISS", "STALE"} THEN "NOTFOUND"
                 ELSE IF hit = "TOO_LONG" THEN "UNSUPPORTED" ELSE "FOUND"

\* First to miss: register the question and go to the network.
LookupRegister(c, r) ==
    /\ ~cache_has_pending_request_locked(r.netid, r.query)
    /\ pending' = [pending EXCEPT ![r.netid] = @ \cup {hash[r.query]}]
    /\ LookupReturns(c, r, "NOTFOUND")

\* Somebody else already asked: block in cv.wait_for().
LookupWait(c, r) ==
    /\ cache_has_pending_request_locked(r.netid, r.query)
    /\ pc' = [pc EXCEPT ![c] = "waiting"]
    /\ req' = [req EXCEPT ![c] = r]
    /\ UNCHANGED <<pending, status>>

LookupTable(c, r, hit) ==
    /\ ~BypassesCache(r.flags) /\ r.query \notin Malformed /\ r.netid \in nets
    /\ \/ hit = "MISS" /\ (LookupRegister(c, r) \/ LookupWait(c, r))
       \/ hit # "MISS" /\ LookupReturns(c, r, StatusOf(hit)) /\ UNCHANGED pending

Lookup(c, r, hit) ==
    /\ pc[c] = "idle" /\ calls[c] < MaxCalls
    /\ calls' = [calls EXCEPT ![c] = @ + 1]
    /\ LookupBypass(c, r) \/ LookupUnsupported(c, r) \/ LookupTable(c, r, hit)
    /\ UNCHANGED <<nets, timeouts>>

\* After the wait: no cache any more, or a second look at the table.  A miss
\* here registers nothing.
AfterWait(c, hit) ==
    /\ LookupReturns(c, req[c], IF req[c].netid \in nets THEN StatusOf(hit) ELSE "NOTFOUND")
    /\ UNCHANGED <<nets, pending, calls>>

\* The predicate of cv.wait_for().
WaitIsOver(c) == ~cache_has_pending_request_locked(req[c].netid, req[c].query)

\* Mutant: a woken thread goes on only if its network still has a cache.
WakeUp_NeedsCache(c, hit) ==
    /\ pc[c] = "notified"
    /\ \/ WaitIsOver(c) /\ req[c].netid \in nets /\ AfterWait(c, hit) /\ UNCHANGED timeouts
       \/ /\ ~WaitIsOver(c)
          /\ pc' = [pc EXCEPT ![c] = "waiting"]
          /\ UNCHANGED <<nets, pending, timeouts, req, status, calls>>

\* A woken thread holds the mutex again and tests the predicate: it goes on,
\* or blocks again because the same hash has been registered meanwhile.
WakeUp(c, hit) ==
    /\ pc[c] = "notified"
    /\ \/ WaitIsOver(c) /\ AfterWait(c, hit) /\ UNCHANGED timeouts
       \/ /\ ~WaitIsOver(c)
          /\ pc' = [pc EXCEPT ![c] = "waiting"]
          /\ UNCHANGED <<nets, pending, timeouts, req, status, calls>>

\* PENDING_REQUEST_TIMEOUT seconds have passed and the predicate is still false.
WaitTimeout(c, hit) ==
    /\ pc[c] \in {"waiting", "notified"} /\ ~WaitIsOver(c)
    /\ timeouts' = [timeouts EXCEPT ![req[c].netid] = @ + 1]
    /\ AfterWait(c, hit)

----------------------------------------------------------------------------
(* The ends of res_nsend().                                                 *)

Return(c) ==
    /\ req' = [req EXCEPT ![c] = NoRequest]
    /\ UNCHANGED <<nets, timeouts, status, calls>>

Returned(c) == [pc EXCEPT ![c] = "idle"]

\* A server (over private DNS or in the clear) answered: resolv_cache_add()
\* when the lookup said NOTFOUND.  Added or not, it tells the waiters.
Answered(c) ==
    /\ pc[c] = "sending"
    /\ IF status[c] = "NOTFOUND" /\ req[c].query \notin Malformed
       THEN cache_notify_waiting_tid_locked(req[c].netid, req[c].query, Returned(c))
       ELSE pc' = Returned(c) /\ UNCHANGED pending
    /\ Return(c)

\* Mutant: a failed request returns without telling the cache.
resolv_cache_query_failed_Untold(c) ==
    /\ pc[c] = "sending"
    /\ pc' = Returned(c) /\ UNCHANGED pending
    /\ Return(c)

\* _resolv_cache_query_failed(): no nameserver, strict private DNS failed, a
\* fatal socket error, or every retry was used up.
resolv_cache_query_failed(c) ==
    /\ pc[c] = "sending"
    /\ IF ~BypassesCache(req[c].flags) /\ req[c].query \notin Malformed
       THEN cache_notify_waiting_tid_locked(req[c].netid, req[c].query, Returned(c))
       ELSE pc' = Returned(c) /\ UNCHANGED pending
    /\ Return(c)

\* resolv_cache_get_resolver_stats() found no network: return at once.
NetworkGone(c) ==
    /\ pc[c] = "sending" /\ req[c].netid \notin nets
    /\ pc' = Returned(c) /\ UNCHANGED pending
    /\ Return(c)

\* RESOLV_TRY_ALL_USABLE_SERVERS and every usable server answered with an
\* error or no data: the first such answer is returned, the cache not told.
FirstError(c) ==
    /\ pc[c] = "sending" /\ TryAll \in req[c].flags
    /\ pc' = Returned(c) /\ UNCHANGED pending
    /\ Return(c)

----------------------------------------------------------------------------
(* Networks come and go (ResolverController, under cache_mutex).             *)

resolv_create_cache_for_net(n) ==
    /\ n \notin nets
    /\ nets' = nets \cup {n}
    /\ timeouts' = [timeouts EXCEPT ![n] = 0]
    /\ UNCHANGED <<pending, pc, req, status, calls>>

\* Mutant: the pending list is freed and the waiters are left asleep.
flush_Silent(n) ==
    /\ n \in nets
    /\ pending' = [pending EXCEPT ![n] = {}]
    /\ UNCHANGED <<pc, req, status, calls>>

\* Cache::flush(): frees the pending list and wakes everybody.
flush(n) ==
    /\ n \in nets
    /\ pending' = [pending EXCEPT ![n] = {}]
    /\ pc' = notify_all(pc)
    /\ UNCHANGED <<req, status, calls>>

resolv_flush_cache_for_net(n) == flush(n) /\ UNCHANGED <<nets, timeouts>>

\* Erasing the NetConfig runs ~Cache(), which flushes.
resolv_delete_cache_for_net(n) ==
    /\ flush(n)
    /\ nets' = nets \ {n}
    /\ UNCHANGED timeouts

Finish(c) == Answered(c) \/ resolv_cache_query_failed(c) \/ NetworkGone(c) \/ FirstError(c)

ClientStep(c) ==
    \/ \E r \in Requests, hit \in Hits : Lookup(c, r, hit)
    \/ \E hit \in Hits : WakeUp(c, hit) \/ WaitTimeout(c, hit)
    \/ Finish(c)

NetworkStep(n) ==
    \/ resolv_create_cache_for_net(n)
    \/ resolv_flush_cache_for_net(n)
    \/ resolv_delete_cache_for_net(n)

Next == (\E c \in Clients : ClientStep(c)) \/ (\E n \in NetIds : NetworkStep(n))

Spec == Init /\ [][Next]_vars

----------------------------------------------------------------------------
(* Properties.                                                              *)

\* Thread c registered the hash of its question and will remove it.
Owes(c, n, h) ==
    /\ pc[c] = "sending" /\ status[c] = "NOTFOUND"
    /\ req[c].netid = n /\ hash[req[c].query] = h
    /\ req[c].query \notin Malformed /\ ~BypassesCache(req[c].flags)

\* No wake-up is lost: a thread blocked on cv still has its question's hash on
\* the list of an existing cache, so the removal that frees it is still to come
\* (the wait predicate in resolv_cache_lookup and every notify_all).
NoLostWakeup ==
    \A c \in Clients : pc[c] = "waiting" =>
        cache_has_pending_request_locked(req[c].netid, req[c].query)

\* No pending request is orphaned: while a hash is listed, some thread between
\* its lookup and the end of res_nsend() will remove it, so that "anyone else
\* asking the same question" fails fast instead of blocking for
\* PENDING_REQUEST_TIMEOUT seconds (the comment in res_nsend()).
PendingHasOwner ==
    \A n \in NetIds : \A h \in pending[n] : \E c \in Clients : Owes(c, n, h)

\* Waiting never needs the 20 s timeout: even if it never expires, a blocked
\* thread is released once the requests in flight finish and woken threads run.
WaitersReleased == \A c \in Clients : pc[c] = "waiting" ~> pc[c] \in {"sending", "idle"}

\* Threads in flight finish (their sockets time out) and woken threads get the
\* mutex; nothing is assumed of WaitTimeout or of the network operations.
Fairness ==
    \A c \in Clients : WF_vars(Finish(c)) /\ WF_vars(\E hit \in Hits : WakeUp(c, hit))

FairSpec == Spec /\ Fairness
============================================================================
