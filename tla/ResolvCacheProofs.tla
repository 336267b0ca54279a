------------------------- MODULE ResolvCacheProofs -------------------------
(***************************************************************************)
(* Proofs about PendingRequests.tla and ResolvCache.tla, for any number of  *)
(* networks, threads, questions and hash values, and any size of the cache. *)
(*                                                                         *)
(* First the pending-request list alone, then the table: lists and chains,  *)
(* the operations on a Cache, the invariant, and what it gives.             *)
(***************************************************************************)
EXTENDS ResolvCache, FiniteSetTheorems, TLAPS

\* A thread inside res_nsend() has a request; a network without a cache has no
\* pending list.
Shape ==
    /\ \A c \in Clients : pc[c] # "idle" => req[c] \in Requests
    /\ \A n \in NetIds : n \notin nets => pending[n] = {}

TypeInv == TypeOK /\ Shape

\* The parts of a request.
LEMMA RequestFields ==
  ASSUME NEW r \in Requests
  PROVE  /\ r.netid \in NetIds /\ r.query \in Queries /\ r.flags \in FlagSets
         /\ hash[r.query] \in Hashes
BY QueriesAssumption, Zenon DEF Requests

\* The initial state is well typed.
LEMMA InitTypeInv == Init => TypeInv
BY CallsAssumption DEF Init, TypeInv, TypeOK, Shape, Locations, Statuses

\* Every step keeps the types.
LEMMA NextTypeInv == TypeInv /\ [Next]_vars => TypeInv'
<1> SUFFICES ASSUME TypeInv, [Next]_vars
             PROVE  TypeInv'
  BY Zenon
<1> USE CallsAssumption DEF TypeInv, TypeOK, Shape
<1>1. ASSUME NEW c \in Clients, NEW r \in Requests, NEW hit \in Hits, Lookup(c, r, hit)
      PROVE  TypeInv'
  <2>1. r.netid \in NetIds /\ r.query \in Queries /\ hash[r.query] \in Hashes
    BY RequestFields, Zenon
  <2>2. CASE LookupBypass(c, r)
    BY <1>1, <2>1, <2>2 DEF Lookup, LookupBypass, LookupReturns, Locations, Statuses
  <2>3. CASE LookupUnsupported(c, r)
    BY <1>1, <2>1, <2>3 DEF Lookup, LookupUnsupported, LookupReturns, Locations, Statuses
  <2>4. CASE LookupTable(c, r, hit)
    <3>1. CASE LookupRegister(c, r)
      BY <1>1, <2>1, <2>4, <3>1
      DEF Lookup, LookupTable, LookupRegister, LookupReturns, Locations, Statuses
    <3>2. CASE LookupWait(c, r)
      BY <1>1, <2>1, <3>2 DEF Lookup, LookupWait, Locations, Statuses
    <3>3. CASE LookupReturns(c, r, StatusOf(hit)) /\ UNCHANGED pending
      BY <1>1, <2>1, <3>3 DEF Lookup, LookupReturns, StatusOf, Hits, Locations, Statuses
    <3>4. QED
      BY <2>4, <3>1, <3>2, <3>3, Zenon DEF LookupTable
  <2>5. QED
    BY <1>1, <2>2, <2>3, <2>4, Zenon DEF Lookup
<1>2. ASSUME NEW c \in Clients, NEW hit \in Hits, WakeUp(c, hit) \/ WaitTimeout(c, hit)
      PROVE  TypeInv'
  <2>1. pc[c] # "idle" /\ req[c] \in Requests
    BY <1>2, Zenon DEF WakeUp, WaitTimeout
  <2>2. req[c].netid \in NetIds
    BY <2>1, RequestFields, Zenon
  <2>3. CASE AfterWait(c, hit) /\ UNCHANGED timeouts
    BY <2>1, <2>2, <2>3, Zenon DEF AfterWait, LookupReturns, StatusOf, Hits, Locations, Statuses
  <2>4. CASE pc' = [pc EXCEPT ![c] = "waiting"]
             /\ UNCHANGED <<nets, pending, timeouts, req, status, calls>>
    BY <2>1, <2>4, Zenon DEF Locations
  <2>5. CASE WaitTimeout(c, hit)
    BY <2>1, <2>2, <2>5
    DEF WaitTimeout, AfterWait, LookupReturns, StatusOf, Hits, Locations, Statuses
  <2>6. QED
    BY <1>2, <2>3, <2>4, <2>5, Zenon DEF WakeUp
<1>3. ASSUME NEW c \in Clients, Finish(c)
      PROVE  TypeInv'
  <2>1. pc[c] # "idle" /\ req[c] \in Requests
    BY <1>3, Zenon DEF Finish, Answered, resolv_cache_query_failed, NetworkGone, FirstError
  <2>2. req[c].netid \in NetIds
    BY <2>1, RequestFields, Zenon
  <2>3. Return(c)
    BY <1>3, Zenon DEF Finish, Answered, resolv_cache_query_failed, NetworkGone, FirstError
  <2>4. \/ cache_notify_waiting_tid_locked(req[c].netid, req[c].query, Returned(c))
        \/ pc' = Returned(c) /\ UNCHANGED pending
    BY <1>3, Zenon DEF Finish, Answered, resolv_cache_query_failed, NetworkGone, FirstError
  <2>5. CASE pc' = Returned(c) /\ UNCHANGED pending
    BY <2>1, <2>3, <2>5, Zenon DEF Return, Returned, Locations
  <2>6. CASE cache_notify_waiting_tid_locked(req[c].netid, req[c].query, Returned(c))
    BY <2>1, <2>2, <2>3, <2>6
    DEF cache_notify_waiting_tid_locked, cache_has_pending_request_locked,
        notify_all, Return, Returned, Locations
  <2>7. QED
    BY <2>4, <2>5, <2>6, Zenon
<1>4. ASSUME NEW n \in NetIds, NetworkStep(n)
      PROVE  TypeInv'
  <2>1. CASE resolv_create_cache_for_net(n)
    BY <2>1, Zenon DEF resolv_create_cache_for_net
  <2>2. CASE resolv_flush_cache_for_net(n) \/ resolv_delete_cache_for_net(n)
    BY <2>2, Zenon DEF resolv_flush_cache_for_net, resolv_delete_cache_for_net, flush,
                notify_all, Locations
  <2>3. QED
    BY <1>4, <2>1, <2>2, Zenon DEF NetworkStep
<1>5. CASE UNCHANGED vars
  BY <1>5, Zenon DEF vars
<1>6. QED
  BY <1>1, <1>2, <1>3, <1>4, <1>5, Zenon DEF Next, ClientStep

\* Every variable keeps its type: threads inside res_nsend() always carry the
\* request they were called with.
THEOREM TypeCorrect == Spec => []TypeOK
<1>1. Spec => []TypeInv
  BY InitTypeInv, NextTypeInv, PTL DEF Spec
<1>2. TypeInv => TypeOK
  BY Zenon DEF TypeInv
<1>3. QED
  BY <1>1, <1>2, PTL

----------------------------------------------------------------------------
(* No lost wake-up.                                                         *)

\* Every step that removes a hash wakes the threads that wait for it.
LEMMA NextNoLostWakeup == TypeInv /\ NoLostWakeup /\ [Next]_vars => NoLostWakeup'
<1> SUFFICES ASSUME TypeInv, NoLostWakeup, [Next]_vars
             PROVE  NoLostWakeup'
  BY Zenon
<1> USE DEF TypeInv, TypeOK, Shape, NoLostWakeup, cache_has_pending_request_locked
<1>1. ASSUME NEW c \in Clients, NEW r \in Requests, NEW hit \in Hits, Lookup(c, r, hit)
      PROVE  NoLostWakeup'
  <2>1. r.netid \in NetIds
    BY RequestFields, Zenon
  <2>2. nets' = nets /\ \A n \in NetIds : pending[n] \subseteq pending'[n]
    BY <1>1, <2>1 DEF Lookup, LookupBypass, LookupUnsupported, LookupTable, LookupRegister, LookupWait
  <2>3. \A d \in Clients \ {c} : pc'[d] = pc[d] /\ req'[d] = req[d]
    BY <1>1 DEF Lookup, LookupBypass, LookupUnsupported, LookupTable, LookupRegister,
                LookupWait, LookupReturns
  <2>4. ASSUME pc'[c] = "waiting"
        PROVE  req'[c] = r /\ r.netid \in nets /\ hash[r.query] \in pending'[r.netid]
    BY <1>1, <2>4, Zenon DEF Lookup, LookupBypass, LookupUnsupported, LookupTable, LookupRegister,
                LookupWait, LookupReturns
  <2>5. \A d \in Clients : pc[d] = "waiting" => req[d].netid \in NetIds
    BY RequestFields, Zenon
  <2>6. QED
    BY <2>1, <2>2, <2>3, <2>4, <2>5, Zenon
<1>2. ASSUME NEW c \in Clients, NEW hit \in Hits, WakeUp(c, hit) \/ WaitTimeout(c, hit)
      PROVE  NoLostWakeup'
  <2>1. nets' = nets /\ pending' = pending
    BY <1>2, Zenon DEF WakeUp, WaitTimeout, AfterWait
  <2>2. \A d \in Clients \ {c} : pc'[d] = pc[d] /\ req'[d] = req[d]
    BY <1>2 DEF WakeUp, WaitTimeout, AfterWait, LookupReturns
  <2>3. ASSUME pc'[c] = "waiting"
        PROVE  req'[c] = req[c] /\ req[c].netid \in nets /\ hash[req[c].query] \in pending[req[c].netid]
    BY <1>2, <2>3, Zenon DEF WakeUp, WaitTimeout, AfterWait, LookupReturns, WaitIsOver
  <2>4. QED
    BY <2>1, <2>2, <2>3, Zenon
<1>3. ASSUME NEW c \in Clients, Finish(c)
      PROVE  NoLostWakeup'
  <2>1. nets' = nets /\ req' = [req EXCEPT ![c] = NoRequest]
    BY <1>3, Zenon DEF Finish, Answered, resolv_cache_query_failed, NetworkGone, FirstError, Return
  <2>2. \/ pc' = notify_all(Returned(c))
        \/ pc' = Returned(c) /\ pending' = pending
    BY <1>3, Zenon DEF Finish, Answered, resolv_cache_query_failed, NetworkGone, FirstError,
                cache_notify_waiting_tid_locked
  <2>3. QED
    BY <2>1, <2>2 DEF notify_all, Returned
<1>4. ASSUME NEW n \in NetIds, NetworkStep(n)
      PROVE  NoLostWakeup'
  <2>1. req' = req
    BY <1>4, Zenon DEF NetworkStep, resolv_create_cache_for_net, resolv_flush_cache_for_net,
                resolv_delete_cache_for_net, flush
  <2>2. \/ pc' = notify_all(pc)
        \/ pc' = pc /\ pending' = pending /\ nets \subseteq nets'
    BY <1>4, Zenon DEF NetworkStep, resolv_create_cache_for_net, resolv_flush_cache_for_net,
                resolv_delete_cache_for_net, flush
  <2>3. QED
    BY <2>1, <2>2 DEF notify_all
<1>5. CASE UNCHANGED vars
  BY <1>5, Zenon DEF vars
<1>6. QED
  BY <1>1, <1>2, <1>3, <1>4, <1>5, Zenon DEF Next, ClientStep

\* No wake-up is lost, whatever the flags and however questions collide: every
\* change of the list that could end a wait is followed by cv.notify_all().
THEOREM WakeupsNotLost == Spec => []NoLostWakeup
<1>1. Init => NoLostWakeup
  BY Zenon DEF Init, NoLostWakeup
<1>2. QED
  BY <1>1, InitTypeInv, NextTypeInv, NextNoLostWakeup, PTL DEF Spec

----------------------------------------------------------------------------
(* No orphaned pending request.                                             *)

\* RESOLV_TRY_ALL_USABLE_SERVERS is passed only by callers that bypass the
\* cache.  FirstError shows why the theorem needs it.
TryAllBypasses == \A f \in FlagSets : TryAll \in f => BypassesCache(f)

\* A step of thread d that neither is nor changes an owner keeps every owner.
LEMMA OwnerKept ==
  ASSUME TypeInv, PendingHasOwner, NEW d \in Clients,
         \A c \in Clients \ {d} : (pc[c] = "sending" =>
             pc'[c] = "sending" /\ status'[c] = status[c] /\ req'[c] = req[c]),
         \A n \in NetIds : \A h \in pending'[n] :
             \/ h \in pending[n] /\ ~Owes(d, n, h)
             \/ Owes(d, n, h)'
  PROVE  PendingHasOwner'
<1> SUFFICES ASSUME NEW n \in NetIds, NEW h \in pending'[n]
             PROVE  \E c \in Clients : Owes(c, n, h)'
  BY Zenon DEF PendingHasOwner
<1>1. CASE h \in pending[n] /\ ~Owes(d, n, h)
  <2>1. PICK c \in Clients : Owes(c, n, h)
    BY <1>1, Zenon DEF PendingHasOwner
  <2>2. c # d
    BY <1>1, <2>1, Zenon
  <2>3. Owes(c, n, h)'
    BY <2>1, <2>2, Zenon DEF Owes
  <2>4. QED
    BY <2>3, Zenon
<1>2. CASE Owes(d, n, h)'
  BY <1>2, Zenon
<1>3. QED
  BY <1>1, <1>2, Zenon

\* Every step that ends an owner's call removes the hash it registered.
LEMMA NextPendingHasOwner ==
  ASSUME TryAllBypasses
  PROVE  TypeInv /\ PendingHasOwner /\ [Next]_vars => PendingHasOwner'
<1> SUFFICES ASSUME TypeInv, PendingHasOwner, [Next]_vars
             PROVE  PendingHasOwner'
  BY Zenon
<1>1. ASSUME NEW c \in Clients, NEW r \in Requests, NEW hit \in Hits, Lookup(c, r, hit)
      PROVE  PendingHasOwner'
  <2>1. r.netid \in NetIds
    BY RequestFields, Zenon
  <2>2. \A d \in Clients \ {c} : pc'[d] = pc[d] /\ status'[d] = status[d] /\ req'[d] = req[d]
    BY <1>1, Zenon DEF Lookup, LookupBypass, LookupUnsupported, LookupTable, LookupRegister,
                LookupWait, LookupReturns, TypeInv, TypeOK
  <2>3. pc[c] = "idle"
    BY <1>1, Zenon DEF Lookup
  <2>4. CASE pending' = pending
    BY <2>2, <2>3, <2>4, OwnerKept, Zenon DEF Owes
  <2>5. CASE LookupTable(c, r, hit) /\ LookupRegister(c, r)
    <3>1. /\ pc'[c] = "sending" /\ status'[c] = "NOTFOUND" /\ req'[c] = r
          /\ r.query \notin Malformed /\ ~BypassesCache(r.flags)
      BY <2>5, Zenon DEF LookupTable, LookupRegister, LookupReturns, TypeInv, TypeOK
    <3>2. pending' = [pending EXCEPT ![r.netid] = @ \cup {hash[r.query]}]
      BY <2>5, Zenon DEF LookupRegister
    <3>3. \A n \in NetIds : \A h \in pending'[n] :
             h \in pending[n] \/ (n = r.netid /\ h = hash[r.query])
      BY <3>2, Zenon DEF TypeInv, TypeOK
    <3>4. \A n, h : n = r.netid /\ h = hash[r.query] => Owes(c, n, h)'
      BY <3>1, Zenon DEF Owes
    <3>5. \A n, h : ~Owes(c, n, h)
      BY <2>3, Zenon DEF Owes
    <3>6. QED
      BY <2>2, <3>3, <3>4, <3>5, OwnerKept, Zenon
  <2>6. QED
    BY <1>1, <2>4, <2>5, Zenon
    DEF Lookup, LookupBypass, LookupUnsupported, LookupTable, LookupWait
<1>2. ASSUME NEW c \in Clients, NEW hit \in Hits, WakeUp(c, hit) \/ WaitTimeout(c, hit)
      PROVE  PendingHasOwner'
  <2>1. pending' = pending /\ pc[c] # "sending"
    BY <1>2, Zenon DEF WakeUp, WaitTimeout, AfterWait
  <2>2. \A d \in Clients \ {c} : pc'[d] = pc[d] /\ status'[d] = status[d] /\ req'[d] = req[d]
    BY <1>2, Zenon DEF WakeUp, WaitTimeout, AfterWait, LookupReturns, TypeInv, TypeOK
  <2>3. QED
    BY <2>1, <2>2, OwnerKept, Zenon DEF Owes
<1>3. ASSUME NEW c \in Clients, Finish(c)
      PROVE  PendingHasOwner'
  <2>1. /\ pc[c] = "sending" /\ req[c] \in Requests
        /\ req' = [req EXCEPT ![c] = NoRequest] /\ status' = status
    BY <1>3, Zenon DEF Finish, Answered, resolv_cache_query_failed, NetworkGone, FirstError,
                Return, TypeInv, Shape
  <2>2. \A d \in Clients \ {c} : pc[d] = "sending" =>
            pc'[d] = "sending" /\ status'[d] = status[d] /\ req'[d] = req[d]
    BY <1>3, <2>1, Zenon DEF Finish, Answered, resolv_cache_query_failed, NetworkGone, FirstError,
                cache_notify_waiting_tid_locked, notify_all, Returned, TypeInv, TypeOK
  <2>3. \A n \in NetIds : pending'[n] \subseteq pending[n]
    BY <1>3 DEF Finish, Answered, resolv_cache_query_failed, NetworkGone, FirstError,
                cache_notify_waiting_tid_locked, TypeInv, TypeOK
  <2>4. TryAll \in req[c].flags => BypassesCache(req[c].flags)
    BY <2>1, RequestFields, Zenon DEF TryAllBypasses
  <2>5. ASSUME NEW n \in NetIds, NEW h \in pending'[n], Owes(c, n, h)
        PROVE  FALSE
    <3>1. n \in nets /\ h \in pending[n]
      BY <2>3, <2>5, Zenon DEF TypeInv, Shape
    <3>2. cache_notify_waiting_tid_locked(req[c].netid, req[c].query, Returned(c))
      BY <1>3, <2>4, <2>5, <3>1, Zenon
      DEF Finish, Answered, resolv_cache_query_failed, NetworkGone, FirstError, Owes
    <3>3. h \notin pending'[n]
      BY <2>5, <3>1, <3>2
      DEF cache_notify_waiting_tid_locked, cache_has_pending_request_locked, Owes, TypeInv, TypeOK
    <3>4. QED
      BY <2>5, <3>3, Zenon
  <2>6. QED
    BY <2>2, <2>3, <2>5, OwnerKept, Zenon
<1>4. ASSUME NEW n \in NetIds, NetworkStep(n)
      PROVE  PendingHasOwner'
  <2>1. /\ req' = req /\ status' = status
        /\ \A d \in Clients : pc[d] = "sending" => pc'[d] = "sending"
    BY <1>4, Zenon DEF NetworkStep, resolv_create_cache_for_net, resolv_flush_cache_for_net,
                resolv_delete_cache_for_net, flush, notify_all
  <2>2. \A m \in NetIds : pending'[m] \subseteq pending[m]
    BY <1>4, Zenon DEF NetworkStep, resolv_create_cache_for_net, resolv_flush_cache_for_net,
                resolv_delete_cache_for_net, flush, TypeInv, TypeOK
  <2>3. \A c \in Clients, m \in NetIds : \A h : Owes(c, m, h) => Owes(c, m, h)'
    BY <2>1, Zenon DEF Owes
  <2>4. QED
    BY <2>2, <2>3, Zenon DEF PendingHasOwner
<1>5. CASE UNCHANGED vars
  BY <1>5 DEF vars, PendingHasOwner, Owes
<1>6. QED
  BY <1>1, <1>2, <1>3, <1>4, <1>5, Zenon DEF Next, ClientStep

\* Unless RESOLV_TRY_ALL_USABLE_SERVERS meets the cache, no pending request is
\* ever orphaned:
\* every way res_nsend() can end (answer, failure, network gone) removes the
\* hash its lookup registered, whatever other threads with the same hash,
\* flushes, deletions and timeouts did in between.
THEOREM PendingOwned ==
  ASSUME TryAllBypasses
  PROVE  Spec => []PendingHasOwner
<1>1. Init => PendingHasOwner
  BY Zenon DEF Init, PendingHasOwner
<1>2. TypeInv /\ PendingHasOwner /\ [Next]_vars => PendingHasOwner'
  BY NextPendingHasOwner, Zenon
<1>3. QED
  BY <1>1, <1>2, InitTypeInv, NextTypeInv, PTL DEF Spec

----------------------------------------------------------------------------
(* Natural numbers and lists.                                               *)

USE Zenon

\* A set of naturals that has an element has a least one.
LEMMA LeastNatural ==
    ASSUME NEW S \in SUBSET Nat, S # {}
    PROVE  \E m \in S : \A x \in S : m <= x
<1> DEFINE R == OpToRel(<, Nat)
<1>1. IsWellFoundedOn(R, Nat)
  BY NatLessThanWellFounded
<1>2. \A x, y \in Nat : x < y => <<x, y>> \in R
  BY SMT DEF OpToRel
<1> HIDE DEF R
<1>3. \E m \in S : \A y \in S : ~(<<y, m>> \in R)
  BY <1>1, WFMin
<1>4. PICK m \in S : \A y \in S : ~(<<y, m>> \in R)
  BY <1>3
<1>5. \A y \in S : ~(y < m)
  BY <1>2, <1>4
<1> QED
  BY <1>5, SMT

\* Induction over the naturals, for sets.
LEMMA SetInduction ==
    ASSUME NEW S \in SUBSET Nat, 0 \in S, \A n \in S : n + 1 \in S
    PROVE  S = Nat
<1> SUFFICES ASSUME NEW z \in Nat, z \notin S PROVE FALSE
  OBVIOUS
<1> DEFINE T == Nat \ S
<1>1. T \in SUBSET Nat /\ T # {}
  BY SMT
<1>2. PICK m \in T : \A x \in T : m <= x
  BY <1>1, LeastNatural
<1>3. m - 1 \in S
  BY <1>2, SMT
<1> QED
  BY <1>3, <1>2, SMT

----------------------------------------------------------------------------
(* Lists                                                                    *)

\* Whether t is list s without its i-th element.
Shortened(t, s, i) ==
    /\ Len(t) = Len(s) - 1
    /\ \A m \in 1..Len(t) : t[m] = IF m < i THEN s[m] ELSE s[m + 1]

\* No element is twice in s.
Distinct(s) == \A i, j \in 1..Len(s) : i # j => s[i] # s[j]

\* Elements of t come in the same order in s.
SameOrder(t, s) ==
    \A m, n \in 1..Len(t) : m < n => \E a, b \in 1..Len(s) : a < b /\ t[m] = s[a] /\ t[n] = s[b]

\* Without() does what it says.
LEMMA WithoutShortens ==
    ASSUME NEW S, NEW s \in Seq(S), NEW i \in 1..Len(s)
    PROVE  Without(s, i) \in Seq(S) /\ Shortened(Without(s, i), s, i)
<1>1. Len(s) \in Nat /\ Len(s) - 1 \in Nat /\ \A m \in 1..Len(s) : s[m] \in S
  BY SMT
<1>2. \A m \in 1..(Len(s) - 1) : (IF m < i THEN s[m] ELSE s[m + 1]) \in S
  BY <1>1, SMT
<1>3. Without(s, i) \in [1..(Len(s) - 1) -> S]
  BY <1>2 DEF Without
<1>4. Without(s, i) \in Seq(S)
  BY <1>1, <1>3, SMT
<1>5. Len(Without(s, i)) = Len(s) - 1
  BY <1>1, <1>3, <1>4, SMT
<1>6. \A m \in 1..(Len(s) - 1) : Without(s, i)[m] = IF m < i THEN s[m] ELSE s[m + 1]
  BY DEF Without
<1> QED
  BY <1>4, <1>5, <1>6 DEF Shortened

\* The elements of a list.
LEMMA InRange ==
    ASSUME NEW S, NEW s \in Seq(S)
    PROVE  /\ \A x : x \in Range(s) <=> \E i \in 1..Len(s) : s[i] = x
           /\ Range(s) \subseteq S /\ DOMAIN s = 1..Len(s) /\ Len(s) \in Nat
<1>1. DOMAIN s = 1..Len(s) /\ Len(s) \in Nat /\ \A i \in 1..Len(s) : s[i] \in S
  BY SMT
<1> QED
  BY <1>1 DEF Range

\* Removing an element of a list of distinct ones removes just that element.
LEMMA DistinctShortened ==
    ASSUME NEW S, NEW s \in Seq(S), NEW t \in Seq(S), Distinct(s), NEW i \in 1..Len(s), Shortened(t, s, i)
    PROVE  Distinct(t) /\ Range(t) = Range(s) \ {s[i]} /\ SameOrder(t, s)
<1>1. /\ Len(s) \in Nat /\ Len(t) \in Nat /\ Len(t) = Len(s) - 1
      /\ \A m \in 1..Len(t) : t[m] = IF m < i THEN s[m] ELSE s[m + 1]
  BY InRange DEF Shortened
<1> DEFINE From(m) == IF m < i THEN m ELSE m + 1
<1>2. \A m \in 1..Len(t) : From(m) \in 1..Len(s) /\ From(m) # i /\ t[m] = s[From(m)]
  BY <1>1, SMT
<1>3. \A m, n \in 1..Len(t) : m < n => From(m) < From(n)
  BY <1>1, SMT
<1>4. \A m, n \in 1..Len(t) : m # n => From(m) # From(n)
  BY <1>1, SMT
<1>5. ASSUME NEW a \in 1..Len(s), a # i PROVE \E m \in 1..Len(t) : t[m] = s[a]
  <2>1. CASE a < i
    <3>1. a \in 1..Len(t) /\ t[a] = s[a]
      BY <1>1, <2>1, SMT
    <3> QED
      BY <3>1
  <2>2. CASE a > i
    <3>1. a - 1 \in 1..Len(t) /\ t[a - 1] = s[a]
      BY <1>1, <2>2, SMT
    <3> QED
      BY <3>1
  <2> QED
    BY <1>1, <1>5, <2>1, <2>2, SMT
<1> HIDE DEF From
<1>6. Distinct(t)
  BY <1>2, <1>4 DEF Distinct
<1>7. SameOrder(t, s)
  BY <1>2, <1>3 DEF SameOrder
<1>8. \A x : x \in Range(t) <=> \E m \in 1..Len(t) : t[m] = x
  BY InRange
<1>9. \A x : x \in Range(s) <=> \E m \in 1..Len(s) : s[m] = x
  BY InRange
<1>10. ASSUME NEW x, x \in Range(t) PROVE x \in Range(s) /\ x # s[i]
  <2>1. PICK m \in 1..Len(t) : t[m] = x
    BY <1>8, <1>10
  <2>2. From(m) \in 1..Len(s) /\ From(m) # i /\ s[From(m)] = x
    BY <1>2, <2>1
  <2> QED
    BY <1>9, <2>2 DEF Distinct
<1>11. ASSUME NEW x, x \in Range(s), x # s[i] PROVE x \in Range(t)
  <2>1. PICK a \in 1..Len(s) : s[a] = x
    BY <1>9, <1>11
  <2> QED
    BY <1>5, <1>8, <2>1, <1>11
<1> QED
  BY <1>6, <1>7, <1>10, <1>11

----------------------------------------------------------------------------
(* The table                                                                *)

\* The bucket of a question.
Bucket(q) == hash[q] % MaxCacheEntries

\* What the table and the MRU list of a Cache have to do with each other.
Good(k) ==
    /\ \A b \in Buckets : Distinct(k.entries[b]) /\ \A e \in Range(k.entries[b]) : Bucket(e.query) = b
    /\ \A e, x \in InTable(k) : e.query = x.query => e = x
    /\ Distinct(k.mru_list) /\ Len(k.mru_list) = k.num_entries /\ Chained(k) = Range(k.mru_list)

\* The parts of a Cache and of an entry.
LEMMA CacheParts ==
    ASSUME NEW k \in Caches
    PROVE  /\ k.entries \in [Buckets -> Seq(Entries)] /\ k.mru_list \in Seq(Queries) /\ k.num_entries \in Nat
           /\ \A b \in Buckets : k.entries[b] \in Seq(Entries)
  BY DEF Caches

\* The parts of an entry.
LEMMA EntryParts == \A e \in Entries : e.query \in Queries /\ e.expires \in Nat
  BY DEF Entries

\* The entries in the table are those of its chains.
LEMMA TableParts ==
    ASSUME NEW k \in Caches
    PROVE  /\ \A e : e \in InTable(k) <=> \E b \in Buckets : e \in Range(k.entries[b])
           /\ InTable(k) \subseteq Entries
           /\ \A q : q \in Chained(k) <=> \E e \in InTable(k) : e.query = q
<1>1. \A e : e \in InTable(k) <=> \E b \in Buckets : e \in Range(k.entries[b])
  BY DEF InTable
<1>2. \A b \in Buckets : Range(k.entries[b]) \subseteq Entries
  BY CacheParts, InRange
<1>3. \A q : q \in Chained(k) <=> \E e \in InTable(k) : e.query = q
  BY DEF Chained
<1> QED
  BY <1>1, <1>2, <1>3

\* Every question has a bucket.
LEMMA BucketInTable == \A q \in Queries : Bucket(q) \in Buckets
<1> SUFFICES ASSUME NEW q \in Queries PROVE Bucket(q) \in Buckets
  OBVIOUS
<1>1. hash[q] \in Nat
  BY QueriesAssumption, HashesAssumption
<1> QED
  BY <1>1, EntriesAssumption, SMT DEF Bucket, Buckets

\* r is k without entry e, which was linked into one chain and into the MRU list.
Unlinks(r, k, e) ==
    /\ \E b \in Buckets : \E i \in 1..Len(k.entries[b]) :
         /\ k.entries[b][i] = e /\ Shortened(r.entries[b], k.entries[b], i)
         /\ \A c \in Buckets \ {b} : r.entries[c] = k.entries[c]
    /\ \E j \in 1..Len(k.mru_list) : k.mru_list[j] = e.query /\ Shortened(r.mru_list, k.mru_list, j)
    /\ r.num_entries = k.num_entries - 1

Less(r, k, e) ==
    /\ Good(r) /\ InTable(r) = InTable(k) \ {e} /\ SameOrder(r.mru_list, k.mru_list)
    /\ r.num_entries = k.num_entries - 1

\* An entry that is unlinked leaves a table and a list that agree again.
LEMMA UnlinkKeeps ==
    ASSUME NEW k \in Caches, NEW r \in Caches, Good(k), NEW e, Unlinks(r, k, e)
    PROVE  Less(r, k, e)
<1>1. PICK b \in Buckets : \E i \in 1..Len(k.entries[b]) :
         /\ k.entries[b][i] = e /\ Shortened(r.entries[b], k.entries[b], i)
         /\ \A c \in Buckets \ {b} : r.entries[c] = k.entries[c]
  BY DEF Unlinks
<1>2. PICK i \in 1..Len(k.entries[b]) :
         /\ k.entries[b][i] = e /\ Shortened(r.entries[b], k.entries[b], i)
         /\ \A c \in Buckets \ {b} : r.entries[c] = k.entries[c]
  BY <1>1
<1>3. PICK j \in 1..Len(k.mru_list) : k.mru_list[j] = e.query /\ Shortened(r.mru_list, k.mru_list, j)
  BY DEF Unlinks
<1>4. /\ k.entries[b] \in Seq(Entries) /\ r.entries[b] \in Seq(Entries)
      /\ k.mru_list \in Seq(Queries) /\ r.mru_list \in Seq(Queries)
  BY CacheParts
<1>5. Distinct(k.entries[b]) /\ Distinct(k.mru_list)
  BY DEF Good
<1>6. Distinct(r.entries[b]) /\ Range(r.entries[b]) = Range(k.entries[b]) \ {e}
  <2>1. Shortened(r.entries[b], k.entries[b], i)
    BY <1>2
  <2>2. /\ Distinct(r.entries[b]) /\ Range(r.entries[b]) = Range(k.entries[b]) \ {k.entries[b][i]}
        /\ SameOrder(r.entries[b], k.entries[b])
    BY <2>1, <1>4, <1>5, DistinctShortened
  <2> QED
    BY <1>2, <2>2
<1>7. /\ Distinct(r.mru_list) /\ Range(r.mru_list) = Range(k.mru_list) \ {e.query}
      /\ SameOrder(r.mru_list, k.mru_list)
  <2>1. Shortened(r.mru_list, k.mru_list, j)
    BY <1>3
  <2>2. /\ Distinct(r.mru_list) /\ Range(r.mru_list) = Range(k.mru_list) \ {k.mru_list[j]}
        /\ SameOrder(r.mru_list, k.mru_list)
    BY <2>1, <1>4, <1>5, DistinctShortened
  <2> QED
    BY <1>3, <2>2
<1>8. e \in Range(k.entries[b]) /\ Bucket(e.query) = b
  <2>1. \A x : x \in Range(k.entries[b]) <=> \E m \in 1..Len(k.entries[b]) : k.entries[b][m] = x
    BY <1>4, InRange
  <2>2. e \in Range(k.entries[b])
    BY <1>2, <2>1
  <2> QED
    BY <2>2 DEF Good
<1>9. \A c \in Buckets \ {b} : e \notin Range(k.entries[c])
  BY <1>8 DEF Good
<1>10. \A c \in Buckets : Range(r.entries[c]) = Range(k.entries[c]) \ {e}
  BY <1>2, <1>6, <1>9
<1>11. /\ \A x : x \in InTable(k) <=> \E c \in Buckets : x \in Range(k.entries[c])
       /\ \A q : q \in Chained(k) <=> \E x \in InTable(k) : x.query = q
  BY TableParts
<1>12. /\ \A x : x \in InTable(r) <=> \E c \in Buckets : x \in Range(r.entries[c])
       /\ \A q : q \in Chained(r) <=> \E x \in InTable(r) : x.query = q
  BY TableParts
<1>13. InTable(r) = InTable(k) \ {e} /\ e \in InTable(k)
  <2>1. \A x : x \in InTable(r) <=> x \in InTable(k) /\ x # e
    <3>1. \A x : \A c \in Buckets : x \in Range(r.entries[c]) <=> x \in Range(k.entries[c]) /\ x # e
      BY <1>10
    <3> QED
      BY <3>1, <1>11, <1>12
  <2>2. e \in InTable(k)
    BY <1>8, <1>11
  <2> QED
    BY <2>1, <2>2
<1>14. \A c \in Buckets : Distinct(r.entries[c]) /\ \A x \in Range(r.entries[c]) : Bucket(x.query) = c
  BY <1>2, <1>6, <1>10 DEF Good
<1>15. \A x, y \in InTable(r) : x.query = y.query => x = y
  BY <1>13 DEF Good
<1>16. Chained(r) = Range(r.mru_list)
  <2>1. Chained(r) = Chained(k) \ {e.query}
    <3>1. \A x \in InTable(k) : x.query = e.query => x = e
      BY <1>13 DEF Good
    <3>2. \A q : q \in Chained(r) <=> q \in Chained(k) /\ q # e.query
      BY <1>11, <1>12, <1>13, <3>1
    <3> QED
      BY <3>2
  <2> QED
    BY <2>1, <1>7 DEF Good
<1>17. Len(r.mru_list) = r.num_entries /\ r.num_entries = k.num_entries - 1
  BY <1>3 DEF Shortened, Good, Unlinks
<1> QED
  BY <1>7, <1>13, <1>14, <1>15, <1>16, <1>17 DEF Less, Good

\* Whether t is list s with x in front.
Fronted(t, s, x) ==
    Len(t) = Len(s) + 1 /\ t[1] = x /\ \A m \in 2..Len(t) : t[m] = s[m - 1]

\* What comes before what in t did so in s, unless it is x.
FirstIs(t, s, x) ==
    \A m, n \in 1..Len(t) : m < n =>
        t[n] # x /\ (t[m] = x \/ \E a, b \in 1..Len(s) : a < b /\ t[m] = s[a] /\ t[n] = s[b])

\* Concatenation puts an element in front.
LEMMA ConsFronts ==
    ASSUME NEW S, NEW s \in Seq(S), NEW x \in S
    PROVE  <<x>> \o s \in Seq(S) /\ Fronted(<<x>> \o s, s, x)
  BY SMT DEF Fronted

\* A new element in front of a list of distinct ones.
LEMMA DistinctFronted ==
    ASSUME NEW S, NEW s \in Seq(S), NEW t \in Seq(S), NEW x, Distinct(s), x \notin Range(s), Fronted(t, s, x)
    PROVE  Distinct(t) /\ Range(t) = Range(s) \cup {x} /\ FirstIs(t, s, x)
<1>1. /\ Len(s) \in Nat /\ Len(t) = Len(s) + 1 /\ Len(t) \in Nat /\ t[1] = x
      /\ \A m \in 2..Len(t) : t[m] = s[m - 1]
  BY InRange DEF Fronted
<1>2. \A y : y \in Range(s) <=> \E i \in 1..Len(s) : s[i] = y
  BY InRange
<1>3. \A y : y \in Range(t) <=> \E i \in 1..Len(t) : t[i] = y
  BY InRange
<1>4. /\ \A m \in 1..Len(t) : m # 1 => m - 1 \in 1..Len(s) /\ t[m] = s[m - 1]
      /\ \A a \in 1..Len(s) : a + 1 \in 1..Len(t) /\ t[a + 1] = s[a]
      /\ 1 \in 1..Len(t)
      /\ \A m, n \in 1..Len(t) : m < n => n # 1
      /\ \A m, n \in 1..Len(t) : m # 1 /\ n # 1 /\ m < n => m - 1 < n - 1
      /\ \A m, n \in 1..Len(t) : m # n => m - 1 # n - 1
  <2>1. /\ \A m \in 1..Len(t) : m # 1 => m \in 2..Len(t) /\ m - 1 \in 1..Len(s)
        /\ \A a \in 1..Len(s) : a + 1 \in 2..Len(t) /\ (a + 1) - 1 = a /\ a + 1 \in 1..Len(t)
    BY <1>1, SMT
  <2>2. /\ 1 \in 1..Len(t)
        /\ \A m, n \in 1..Len(t) : m < n => n # 1
    BY <1>1, SMT
  <2>3. /\ \A m, n \in 1..Len(t) : m # 1 /\ n # 1 /\ m < n => m - 1 < n - 1
        /\ \A m, n \in 1..Len(t) : m # n => m - 1 # n - 1
    BY <1>1, SMT
  <2>4. \A m \in 1..Len(t) : m # 1 => t[m] = s[m - 1]
    BY <1>1, <2>1
  <2>5. \A a \in 1..Len(s) : t[a + 1] = s[a]
    BY <1>1, <2>1
  <2> QED
    BY <2>1, <2>2, <2>3, <2>4, <2>5
<1>5. \A m \in 1..Len(t) : m # 1 => t[m] # x /\ t[m] \in Range(s)
  BY <1>2, <1>4
<1>6. Distinct(t)
  <2> SUFFICES ASSUME NEW m \in 1..Len(t), NEW n \in 1..Len(t), m # n, t[m] = t[n] PROVE FALSE
    BY DEF Distinct
  <2>1. m # 1 /\ n # 1
    BY <1>1, <1>5
  <2>2. m - 1 \in 1..Len(s) /\ n - 1 \in 1..Len(s) /\ m - 1 # n - 1 /\ s[m - 1] = s[n - 1]
    BY <2>1, <1>4
  <2> QED
    BY <2>2 DEF Distinct
<1>7. FirstIs(t, s, x)
  <2> SUFFICES ASSUME NEW m \in 1..Len(t), NEW n \in 1..Len(t), m < n, t[m] # x
               PROVE  \E a, b \in 1..Len(s) : a < b /\ t[m] = s[a] /\ t[n] = s[b]
    BY <1>4, <1>5 DEF FirstIs
  <2>1. m # 1 /\ n # 1
    BY <1>1, <1>4
  <2> QED
    BY <2>1, <1>4
<1>8. \A y : y \in Range(t) <=> y \in Range(s) \/ y = x
  <2>1. \A y : y \in Range(t) => y \in Range(s) \/ y = x
    BY <1>1, <1>3, <1>5
  <2>2. \A y : y \in Range(s) => y \in Range(t)
    BY <1>2, <1>3, <1>4
  <2>3. x \in Range(t)
    BY <1>1, <1>3, <1>4
  <2> QED
    BY <2>1, <2>2, <2>3
<1> QED
  BY <1>6, <1>7, <1>8

\* r is k with an entry for a question that was not there.
Links(r, k, e) ==
    /\ \A b \in Buckets : r.entries[b] = IF b = Bucket(e.query) THEN Append(k.entries[b], e) ELSE k.entries[b]
    /\ Fronted(r.mru_list, k.mru_list, e.query)
    /\ r.num_entries = k.num_entries + 1

More(r, k, e) ==
    /\ Good(r) /\ InTable(r) = InTable(k) \cup {e} /\ FirstIs(r.mru_list, k.mru_list, e.query)
    /\ r.num_entries = k.num_entries + 1

\* A chain with an entry at its end.
Appended(t, s, x) == Distinct(t) /\ Range(t) = Range(s) \cup {x}

\* An entry that is put at the end of a chain of others is there once.
LEMMA DistinctAppended ==
    ASSUME NEW S, NEW s \in Seq(S), NEW x \in S, Distinct(s), x \notin Range(s)
    PROVE  Appended(Append(s, x), s, x)
<1>1. PICK t : t = Append(s, x)
  OBVIOUS
<1>2. /\ t \in Seq(S) /\ Len(t) = Len(s) + 1 /\ Len(s) \in Nat /\ t[Len(t)] = x
      /\ \A m \in 1..Len(s) : t[m] = s[m]
  BY <1>1, SMT
<1>3. /\ Len(t) \in 1..Len(t) /\ \A m \in 1..Len(s) : m \in 1..Len(t)
      /\ \A m \in 1..Len(t) : m \in 1..Len(s) \/ m = Len(t)
  BY <1>2, SMT
<1>4. \A y : y \in Range(s) <=> \E i \in 1..Len(s) : s[i] = y
  BY InRange
<1>5. \A y : y \in Range(t) <=> \E i \in 1..Len(t) : t[i] = y
  BY <1>2, InRange
<1>6. \A m \in 1..Len(s) : t[m] # x /\ t[m] \in Range(s)
  BY <1>2, <1>4
<1>7. Distinct(t)
  <2> SUFFICES ASSUME NEW m \in 1..Len(t), NEW n \in 1..Len(t), m # n, t[m] = t[n] PROVE FALSE
    BY DEF Distinct
  <2>1. m \in 1..Len(s) /\ n \in 1..Len(s)
    BY <1>2, <1>3, <1>6
  <2> QED
    BY <2>1, <1>2 DEF Distinct
<1>8. \A y : y \in Range(t) <=> y \in Range(s) \/ y = x
  <2>1. \A y : y \in Range(t) => y \in Range(s) \/ y = x
    BY <1>2, <1>3, <1>5, <1>6
  <2>2. \A y : y \in Range(s) => y \in Range(t)
    BY <1>2, <1>3, <1>4, <1>5
  <2>3. x \in Range(t)
    BY <1>2, <1>3, <1>5
  <2> QED
    BY <2>1, <2>2, <2>3
<1>9. Appended(t, s, x)
  BY <1>7, <1>8 DEF Appended
<1> QED
  BY <1>1, <1>9

\* A new entry keeps table and list in agreement.
LEMMA LinkKeeps ==
    ASSUME NEW k \in Caches, NEW r \in Caches, Good(k), NEW e \in Entries,
           e.query \notin Chained(k), Links(r, k, e)
    PROVE  More(r, k, e)
<1>1. /\ \A x : x \in InTable(k) <=> \E c \in Buckets : x \in Range(k.entries[c])
      /\ \A q : q \in Chained(k) <=> \E x \in InTable(k) : x.query = q
  BY TableParts
<1>2. /\ \A x : x \in InTable(r) <=> \E c \in Buckets : x \in Range(r.entries[c])
      /\ \A q : q \in Chained(r) <=> \E x \in InTable(r) : x.query = q
  BY TableParts
<1>3. Bucket(e.query) \in Buckets /\ e.query \in Queries
  BY BucketInTable, EntryParts
<1>4. \A x \in InTable(k) : x.query # e.query /\ x # e
  BY <1>1
<1>5. /\ r.entries[Bucket(e.query)] = Append(k.entries[Bucket(e.query)], e)
      /\ \A c \in Buckets : c # Bucket(e.query) => r.entries[c] = k.entries[c]
  BY <1>3 DEF Links
<1>6. /\ Distinct(r.entries[Bucket(e.query)])
      /\ Range(r.entries[Bucket(e.query)]) = Range(k.entries[Bucket(e.query)]) \cup {e}
  <2>1. k.entries[Bucket(e.query)] \in Seq(Entries) /\ Distinct(k.entries[Bucket(e.query)])
    BY <1>3, CacheParts DEF Good
  <2>2. e \notin Range(k.entries[Bucket(e.query)])
    BY <1>1, <1>3, <1>4
  <2>3. \A s \in Seq(Entries) : Distinct(s) /\ e \notin Range(s) => Appended(Append(s, e), s, e)
    BY DistinctAppended
  <2>4. PICK s \in Seq(Entries) : s = k.entries[Bucket(e.query)] /\ Distinct(s) /\ e \notin Range(s)
    BY <2>1, <2>2
  <2>5. Distinct(Append(s, e)) /\ Range(Append(s, e)) = Range(s) \cup {e}
    BY <2>3, <2>4 DEF Appended
  <2> QED
    BY <1>5, <2>4, <2>5
<1>7. \A x : x \in InTable(r) <=> x \in InTable(k) \/ x = e
  <2>1. ASSUME NEW x, x \in InTable(r) PROVE x \in InTable(k) \/ x = e
    <3>1. PICK c \in Buckets : x \in Range(r.entries[c])
      BY <1>2, <2>1
    <3>2. CASE c = Bucket(e.query)
      BY <1>1, <1>6, <3>1, <3>2
    <3>3. CASE c # Bucket(e.query)
      BY <1>1, <1>5, <3>1, <3>3
    <3> QED
      BY <3>2, <3>3
  <2>2. ASSUME NEW x, x \in InTable(k) PROVE x \in InTable(r)
    <3>1. PICK c \in Buckets : x \in Range(k.entries[c])
      BY <1>1, <2>2
    <3>2. CASE c = Bucket(e.query)
      BY <1>2, <1>6, <3>1, <3>2
    <3>3. CASE c # Bucket(e.query)
      BY <1>2, <1>5, <3>1, <3>3
    <3> QED
      BY <3>2, <3>3
  <2>3. e \in InTable(r)
    BY <1>2, <1>3, <1>6
  <2> QED
    BY <2>1, <2>2, <2>3
<1>8. ASSUME NEW c \in Buckets
      PROVE  Distinct(r.entries[c]) /\ \A x \in Range(r.entries[c]) : Bucket(x.query) = c
  <2>1. CASE c = Bucket(e.query)
    BY <1>6, <2>1 DEF Good
  <2>2. CASE c # Bucket(e.query)
    BY <1>5, <2>2 DEF Good
  <2> QED
    BY <2>1, <2>2
<1>9. \A x, y \in InTable(r) : x.query = y.query => x = y
  BY <1>4, <1>7 DEF Good
<1>10. /\ Distinct(r.mru_list) /\ Range(r.mru_list) = Range(k.mru_list) \cup {e.query}
       /\ FirstIs(r.mru_list, k.mru_list, e.query)
  <2>1. k.mru_list \in Seq(Queries) /\ r.mru_list \in Seq(Queries)
    BY CacheParts
  <2>2. Distinct(k.mru_list) /\ e.query \notin Range(k.mru_list)
    BY DEF Good
  <2> QED
    BY <2>1, <2>2, DistinctFronted DEF Links
<1>11. \A q : q \in Chained(r) <=> q \in Chained(k) \/ q = e.query
  BY <1>1, <1>2, <1>7
<1>12. Chained(r) = Range(r.mru_list)
  <2>1. Chained(r) = Chained(k) \cup {e.query} /\ Chained(k) = Range(k.mru_list)
    BY <1>11 DEF Good
  <2> QED
    BY <1>10, <2>1
<1>13. Len(r.mru_list) = r.num_entries /\ r.num_entries = k.num_entries + 1
  BY DEF Links, Fronted, Good
<1>14. InTable(r) = InTable(k) \cup {e}
  BY <1>7
<1> QED
  BY <1>8, <1>9, <1>10, <1>12, <1>13, <1>14 DEF More, Good

\* An entry that is returned goes to the front of the MRU list.
Bumps(r, k, q) ==
    /\ r.entries = k.entries /\ r.num_entries = k.num_entries
    /\ \E j \in 1..Len(k.mru_list) : \E s \in Seq(Queries) :
          k.mru_list[j] = q /\ Shortened(s, k.mru_list, j) /\ Fronted(r.mru_list, s, q)

\* A question that is moved to the head of the MRU list leaves table and list in agreement.
LEMMA BumpKeeps ==
    ASSUME NEW k \in Caches, NEW r \in Caches, Good(k), NEW q, Bumps(r, k, q)
    PROVE  Good(r) /\ InTable(r) = InTable(k) /\ FirstIs(r.mru_list, k.mru_list, q)
<1>1. PICK j \in 1..Len(k.mru_list), s \in Seq(Queries) :
          k.mru_list[j] = q /\ Shortened(s, k.mru_list, j) /\ Fronted(r.mru_list, s, q)
  BY DEF Bumps
<1>2. k.mru_list \in Seq(Queries) /\ r.mru_list \in Seq(Queries) /\ Distinct(k.mru_list)
  BY CacheParts DEF Good
<1>3. Distinct(s) /\ Range(s) = Range(k.mru_list) \ {q} /\ SameOrder(s, k.mru_list)
  <2>1. Distinct(s) /\ Range(s) = Range(k.mru_list) \ {k.mru_list[j]} /\ SameOrder(s, k.mru_list)
    BY <1>1, <1>2, DistinctShortened
  <2> QED
    BY <1>1, <2>1
<1>4. Distinct(r.mru_list) /\ Range(r.mru_list) = Range(s) \cup {q} /\ FirstIs(r.mru_list, s, q)
  <2>1. q \notin Range(s) /\ Fronted(r.mru_list, s, q)
    BY <1>1, <1>3
  <2> QED
    BY <1>2, <1>3, <2>1, DistinctFronted
<1>5. q \in Range(k.mru_list)
  <2>1. \A x : x \in Range(k.mru_list) <=> \E i \in 1..Len(k.mru_list) : k.mru_list[i] = x
    BY <1>2, InRange
  <2> QED
    BY <1>1, <2>1
<1>6. Range(r.mru_list) = Range(k.mru_list)
  BY <1>3, <1>4, <1>5
<1>7. FirstIs(r.mru_list, k.mru_list, q)
  <2> SUFFICES ASSUME NEW m \in 1..Len(r.mru_list), NEW n \in 1..Len(r.mru_list), m < n, r.mru_list[m] # q
               PROVE  \E a, b \in 1..Len(k.mru_list) :
                         a < b /\ r.mru_list[m] = k.mru_list[a] /\ r.mru_list[n] = k.mru_list[b]
    BY <1>4 DEF FirstIs
  <2>1. PICK a, b \in 1..Len(s) : a < b /\ r.mru_list[m] = s[a] /\ r.mru_list[n] = s[b]
    BY <1>4 DEF FirstIs
  <2>2. PICK c, d \in 1..Len(k.mru_list) : c < d /\ s[a] = k.mru_list[c] /\ s[b] = k.mru_list[d]
    BY <1>3, <2>1 DEF SameOrder
  <2> QED
    BY <2>1, <2>2
<1>8. InTable(r) = InTable(k) /\ Chained(r) = Chained(k)
  BY DEF Bumps, InTable, Chained
<1>9. Len(r.mru_list) = r.num_entries
  <2>1. /\ Len(r.mru_list) = Len(s) + 1 /\ Len(s) = Len(k.mru_list) - 1 /\ Len(k.mru_list) \in Nat
        /\ Len(k.mru_list) = k.num_entries /\ r.num_entries = k.num_entries
    BY <1>1, <1>2, InRange DEF Fronted, Shortened, Good, Bumps
  <2> QED
    BY <2>1, SMT
<1>10. \A b \in Buckets : Distinct(r.entries[b]) /\ \A e \in Range(r.entries[b]) : Bucket(e.query) = b
  BY DEF Good, Bumps
<1>11. /\ \A e, x \in InTable(r) : e.query = x.query => e = x
       /\ Chained(r) = Range(r.mru_list)
  BY <1>6, <1>8 DEF Good
<1> QED
  BY <1>4, <1>7, <1>8, <1>9, <1>10, <1>11 DEF Good

----------------------------------------------------------------------------
(* Lookups                                                                  *)

\* What a lookup returns: the first place in the chain with the question, or its end.
Looks(k, q, lookup) ==
    /\ lookup.bucket = Bucket(q)
    /\ lookup.at \in 1..(Len(k.entries[Bucket(q)]) + 1)
    /\ lookup.at <= Len(k.entries[Bucket(q)]) => k.entries[Bucket(q)][lookup.at].query = q
    /\ \A j \in 1..(lookup.at - 1) : k.entries[Bucket(q)][j].query # q

\* _cache_lookup_p() follows the chain to the question or to the end.
LEMMA LookupLooks ==
    ASSUME NEW k \in Caches, NEW q \in Queries
    PROVE  Looks(k, q, cache_lookup_p(k, q))
<1>1. PICK chain : chain = k.entries[Bucket(q)]
  OBVIOUS
<1>2. Len(chain) \in Nat
  <2>1. chain \in Seq(Entries)
    BY <1>1, BucketInTable, CacheParts
  <2> QED
    BY <2>1, InRange
<1> DEFINE P(i) == /\ i <= Len(chain) => chain[i].query = q
                   /\ \A j \in 1..(i - 1) : chain[j].query # q
           T == {i \in 1..(Len(chain) + 1) : i <= Len(chain) => chain[i].query = q}
<1>3. T \in SUBSET Nat /\ T # {}
  <2>1. Len(chain) + 1 \in T
    BY <1>2, SMT
  <2>2. T \in SUBSET Nat
    BY <1>2, SMT
  <2> HIDE DEF T
  <2> QED
    BY <2>1, <2>2
<1>4. PICK m \in T : \A x \in T : m <= x
  <2> HIDE DEF T
  <2> QED
    BY <1>3, LeastNatural
<1>5. m \in 1..(Len(chain) + 1) /\ P(m)
  <2>1. m \in 1..(Len(chain) + 1) /\ (m <= Len(chain) => chain[m].query = q)
    OBVIOUS
  <2>2. ASSUME NEW j \in 1..(m - 1), chain[j].query = q PROVE FALSE
    <3>1. j \in 1..(Len(chain) + 1) /\ ~(m <= j)
      BY <1>2, <2>1, SMT
    <3>2. j \in T
      BY <2>2, <3>1
    <3> QED
      BY <1>4, <3>1, <3>2
  <2> QED
    BY <2>1, <2>2
<1>6. PICK at : at = CHOOSE i \in 1..(Len(chain) + 1) : P(i)
  OBVIOUS
<1>7. at \in 1..(Len(chain) + 1) /\ P(at)
  BY <1>5, <1>6
<1>8. cache_lookup_p(k, q) = [bucket |-> Bucket(q), at |-> at]
  BY <1>1, <1>6 DEF cache_lookup_p, Bucket
<1>9. cache_lookup_p(k, q).bucket = Bucket(q) /\ cache_lookup_p(k, q).at = at
  BY <1>8, SMT
<1> QED
  BY <1>1, <1>7, <1>9 DEF Looks

\* A question is in the table or its lookup ends at NULL; and the entry found is its own.
LEMMA LookupFinds ==
    ASSUME NEW k \in Caches, Good(k), NEW q \in Queries, NEW lookup, Looks(k, q, lookup)
    PROVE  /\ IsNull(k, lookup) <=> q \notin Chained(k)
           /\ ~IsNull(k, lookup) =>
                 /\ lookup.at \in 1..Len(k.entries[Bucket(q)])
                 /\ EntryAt(k, lookup) \in InTable(k) /\ EntryAt(k, lookup).query = q
           /\ IsNull(k, lookup) => lookup.at = Len(k.entries[Bucket(q)]) + 1
<1>1. PICK chain : chain = k.entries[Bucket(q)]
  OBVIOUS
<1>2. /\ lookup.bucket = Bucket(q) /\ lookup.at \in 1..(Len(chain) + 1)
      /\ lookup.at <= Len(chain) => chain[lookup.at].query = q
      /\ \A j \in 1..(lookup.at - 1) : chain[j].query # q
  BY <1>1 DEF Looks
<1>3. chain \in Seq(Entries) /\ Bucket(q) \in Buckets
  BY <1>1, BucketInTable, CacheParts
<1>4. /\ \A x : x \in Range(chain) <=> \E i \in 1..Len(chain) : chain[i] = x
      /\ Len(chain) \in Nat
  BY <1>3, InRange
<1>5. /\ \A x : x \in InTable(k) <=> \E c \in Buckets : x \in Range(k.entries[c])
      /\ \A x : x \in Chained(k) <=> \E e \in InTable(k) : e.query = x
  BY TableParts
<1>6. /\ IsNull(k, lookup) <=> lookup.at > Len(chain)
      /\ EntryAt(k, lookup) = chain[lookup.at]
  BY <1>1, <1>2 DEF IsNull, EntryAt
<1>7. \A e \in InTable(k) : e.query = q => e \in Range(chain)
  <2> SUFFICES ASSUME NEW e \in InTable(k), e.query = q PROVE e \in Range(chain)
    OBVIOUS
  <2>1. PICK c \in Buckets : e \in Range(k.entries[c])
    BY <1>5
  <2>2. c = Bucket(q)
    BY <2>1 DEF Good
  <2> QED
    BY <1>1, <2>1, <2>2
<1>8. CASE lookup.at <= Len(chain)
  <2>1. lookup.at \in 1..Len(chain) /\ ~(lookup.at > Len(chain))
    BY <1>2, <1>4, <1>8, SMT
  <2>2. chain[lookup.at] \in Range(chain) /\ chain[lookup.at].query = q
    BY <1>2, <1>4, <1>8, <2>1
  <2>3. chain[lookup.at] \in InTable(k)
    BY <1>1, <1>3, <1>5, <2>2
  <2>4. q \in Chained(k)
    BY <1>5, <2>2, <2>3
  <2> QED
    BY <1>1, <1>6, <2>1, <2>2, <2>3, <2>4
<1>9. CASE lookup.at = Len(chain) + 1
  <2>1. lookup.at > Len(chain) /\ \A i \in 1..Len(chain) : i \in 1..(lookup.at - 1)
    BY <1>4, <1>9, SMT
  <2>2. q \notin Chained(k)
    <3>1. \A x \in Range(chain) : x.query # q
      BY <1>2, <1>4, <2>1
    <3> QED
      BY <1>5, <1>7, <3>1
  <2> QED
    BY <1>1, <1>6, <1>9, <2>1, <2>2
<1> QED
  BY <1>2, <1>4, <1>8, <1>9, SMT

\* _cache_remove_p() after a successful lookup unlinks the entry of the question.
LEMMA RemoveUnlinks ==
    ASSUME NEW k \in Caches, Good(k), NEW q \in Queries, q \in Chained(k)
    PROVE  \E e \in InTable(k) :
              /\ e.query = q /\ e = EntryAt(k, cache_lookup_p(k, q))
              /\ cache_remove_p(k, cache_lookup_p(k, q)) \in Caches
              /\ Less(cache_remove_p(k, cache_lookup_p(k, q)), k, e)
<1>1. PICK lookup : lookup = cache_lookup_p(k, q)
  OBVIOUS
<1>2. Looks(k, q, lookup)
  BY <1>1, LookupLooks
<1>3. /\ lookup.at \in 1..Len(k.entries[Bucket(q)])
      /\ EntryAt(k, lookup) \in InTable(k) /\ EntryAt(k, lookup).query = q
  BY <1>2, LookupFinds
<1>4. PICK e \in InTable(k) : e = EntryAt(k, lookup) /\ e.query = q
  BY <1>3
<1>5. lookup.bucket = Bucket(q) /\ Bucket(q) \in Buckets /\ k.entries[Bucket(q)][lookup.at] = e
  BY <1>2, <1>4, BucketInTable DEF Looks, EntryAt
<1>6. /\ k.entries \in [Buckets -> Seq(Entries)] /\ k.mru_list \in Seq(Queries) /\ k.num_entries \in Nat
      /\ k.entries[Bucket(q)] \in Seq(Entries)
  BY <1>5, CacheParts
<1>7. PICK chain : chain = Without(k.entries[Bucket(q)], lookup.at)
  OBVIOUS
<1>8. chain \in Seq(Entries) /\ Shortened(chain, k.entries[Bucket(q)], lookup.at)
  BY <1>3, <1>6, <1>7, WithoutShortens
<1>9. PICK j : j = CHOOSE i \in DOMAIN k.mru_list : k.mru_list[i] = q
  OBVIOUS
<1>10. j \in 1..Len(k.mru_list) /\ k.mru_list[j] = q
  <2>1. /\ \A x : x \in Range(k.mru_list) <=> \E i \in 1..Len(k.mru_list) : k.mru_list[i] = x
        /\ DOMAIN k.mru_list = 1..Len(k.mru_list)
    BY <1>6, InRange
  <2>2. \E i \in DOMAIN k.mru_list : k.mru_list[i] = q
    BY <2>1 DEF Good
  <2> QED
    BY <1>9, <2>1, <2>2
<1>11. PICK list : list = entry_mru_remove(k.mru_list, q)
  OBVIOUS
<1>12. list \in Seq(Queries) /\ Shortened(list, k.mru_list, j)
  <2>1. list = Without(k.mru_list, j)
    BY <1>9, <1>11 DEF entry_mru_remove
  <2>2. Without(k.mru_list, j) \in Seq(Queries) /\ Shortened(Without(k.mru_list, j), k.mru_list, j)
    BY <1>6, <1>10, WithoutShortens
  <2> QED
    BY <2>1, <2>2
<1>13. PICK r : r = cache_remove_p(k, lookup)
  OBVIOUS
<1>14. r = [entries |-> [k.entries EXCEPT ![Bucket(q)] = chain], mru_list |-> list,
            num_entries |-> k.num_entries - 1]
  BY <1>4, <1>5, <1>7, <1>11, <1>13 DEF cache_remove_p
<1>15. /\ r.entries = [k.entries EXCEPT ![Bucket(q)] = chain] /\ r.mru_list = list
       /\ r.num_entries = k.num_entries - 1
  BY <1>14
<1>16. k.num_entries - 1 \in Nat
  <2>1. Len(k.mru_list) = k.num_entries
    BY DEF Good
  <2> QED
    BY <1>6, <1>10, <2>1, SMT
<1>17. [k.entries EXCEPT ![Bucket(q)] = chain] \in [Buckets -> Seq(Entries)]
  BY <1>6, <1>8
<1>18. r \in Caches
  BY <1>12, <1>14, <1>16, <1>17 DEF Caches
<1>19. r.entries[Bucket(q)] = chain /\ \A c \in Buckets \ {Bucket(q)} : r.entries[c] = k.entries[c]
  BY <1>5, <1>6, <1>15
<1>20. Unlinks(r, k, e)
  <2>1. /\ k.entries[Bucket(q)][lookup.at] = e /\ Shortened(r.entries[Bucket(q)], k.entries[Bucket(q)], lookup.at)
        /\ \A c \in Buckets \ {Bucket(q)} : r.entries[c] = k.entries[c]
    BY <1>5, <1>8, <1>19
  <2>2. k.mru_list[j] = e.query /\ Shortened(r.mru_list, k.mru_list, j)
    BY <1>4, <1>10, <1>12, <1>15
  <2> QED
    BY <1>3, <1>5, <1>10, <1>15, <2>1, <2>2 DEF Unlinks
<1>21. Less(r, k, e)
  BY <1>18, <1>20, UnlinkKeeps
<1> QED
  BY <1>1, <1>4, <1>13, <1>18, <1>21

\* _cache_add_p() after a failed lookup links the entry.
LEMMA AddLinks ==
    ASSUME NEW k \in Caches, Good(k), NEW e \in Entries, e.query \notin Chained(k)
    PROVE  /\ cache_add_p(k, cache_lookup_p(k, e.query), e) \in Caches
           /\ More(cache_add_p(k, cache_lookup_p(k, e.query), e), k, e)
<1>1. PICK lookup : lookup = cache_lookup_p(k, e.query)
  OBVIOUS
<1>2. e.query \in Queries /\ Bucket(e.query) \in Buckets
  BY EntryParts, BucketInTable
<1>3. Looks(k, e.query, lookup)
  BY <1>1, <1>2, LookupLooks
<1>4. lookup.bucket = Bucket(e.query) /\ lookup.at = Len(k.entries[Bucket(e.query)]) + 1
  <2>1. /\ IsNull(k, lookup) <=> e.query \notin Chained(k)
        /\ IsNull(k, lookup) => lookup.at = Len(k.entries[Bucket(e.query)]) + 1
    <3>1. PICK q \in Queries : q = e.query
      BY <1>2
    <3>2. Looks(k, q, lookup)
      BY <1>3, <3>1
    <3>3. IsNull(k, lookup) <=> q \notin Chained(k)
      BY <3>2, LookupFinds
    <3>4. PICK n \in Nat : n = Len(k.entries[Bucket(q)])
      <4>1. k.entries[Bucket(q)] \in Seq(Entries)
        BY <1>2, <3>1, CacheParts
      <4> QED
        BY <4>1, SMT
    <3>5. lookup.at \in 1..(n + 1) /\ (IsNull(k, lookup) => lookup.at > n)
      BY <3>2, <3>4 DEF Looks, IsNull
    <3>6. IsNull(k, lookup) => lookup.at = n + 1
      BY <3>5, SMT
    <3> QED
      BY <3>1, <3>3, <3>4, <3>6
  <2> QED
    BY <1>3, <2>1 DEF Looks
<1>5. /\ k.entries \in [Buckets -> Seq(Entries)] /\ k.mru_list \in Seq(Queries) /\ k.num_entries \in Nat
      /\ k.entries[Bucket(e.query)] \in Seq(Entries)
  BY <1>2, CacheParts
<1>6. PICK chain : chain = Append(k.entries[Bucket(e.query)], e)
  OBVIOUS
<1>7. chain \in Seq(Entries)
  BY <1>5, <1>6, SMT
<1>8. PICK list : list = <<e.query>> \o k.mru_list
  OBVIOUS
<1>9. list \in Seq(Queries) /\ Fronted(list, k.mru_list, e.query)
  BY <1>2, <1>5, <1>8, ConsFronts
<1>10. PICK r : r = cache_add_p(k, lookup, e)
  OBVIOUS
<1>11. r = [entries |-> [k.entries EXCEPT ![Bucket(e.query)] = chain], mru_list |-> list,
            num_entries |-> k.num_entries + 1]
  BY <1>4, <1>6, <1>8, <1>10 DEF cache_add_p
<1>12. /\ r.entries = [k.entries EXCEPT ![Bucket(e.query)] = chain] /\ r.mru_list = list
       /\ r.num_entries = k.num_entries + 1
  BY <1>11
<1>13. k.num_entries + 1 \in Nat
  BY <1>5, SMT
<1>14. [k.entries EXCEPT ![Bucket(e.query)] = chain] \in [Buckets -> Seq(Entries)]
  BY <1>5, <1>7
<1>15. r \in Caches
  BY <1>9, <1>11, <1>13, <1>14 DEF Caches
<1>16. Links(r, k, e)
  <2>1. \A b \in Buckets : r.entries[b] = IF b = Bucket(e.query) THEN chain ELSE k.entries[b]
    BY <1>5, <1>12
  <2> QED
    BY <1>6, <1>9, <1>12, <2>1 DEF Links
<1>17. More(r, k, e)
  BY <1>15, <1>16, LinkKeeps
<1> QED
  BY <1>1, <1>10, <1>15, <1>17

\* A visit removes the question's entry if it has expired.
LEMMA VisitRemoves ==
    ASSUME NEW w \in Caches, Good(w), NEW q \in Queries
    PROVE  \/ Visited(w, q) = w /\ \A e \in InTable(w) : e.query = q => ~IsExpired(e)
           \/ \E e \in InTable(w) : /\ e.query = q /\ IsExpired(e) /\ Visited(w, q) \in Caches
                                    /\ Less(Visited(w, q), w, e)
<1>1. PICK lookup : lookup = cache_lookup_p(w, q)
  OBVIOUS
<1>2. Looks(w, q, lookup)
  BY <1>1, LookupLooks
<1>3. IsNull(w, lookup) <=> q \notin Chained(w)
  BY <1>2, LookupFinds
<1>4. Visited(w, q) = IF ~IsNull(w, lookup) /\ IsExpired(EntryAt(w, lookup)) THEN cache_remove_p(w, lookup) ELSE w
  BY <1>1 DEF Visited
<1>5. CASE q \notin Chained(w)
  <2>1. \A e \in InTable(w) : e.query # q
    BY <1>5, TableParts
  <2> QED
    BY <1>3, <1>4, <1>5, <2>1
<1>6. CASE q \in Chained(w)
  <2>1. PICK e \in InTable(w) :
          /\ e.query = q /\ e = EntryAt(w, lookup)
          /\ cache_remove_p(w, lookup) \in Caches /\ Less(cache_remove_p(w, lookup), w, e)
    BY <1>1, <1>6, RemoveUnlinks
  <2>2. CASE IsExpired(e)
    BY <1>3, <1>4, <1>6, <2>1, <2>2
  <2>3. CASE ~IsExpired(e)
    <3>1. \A x \in InTable(w) : x.query = q => x = e
      BY <2>1 DEF Good
    <3> QED
      BY <1>4, <2>1, <2>3, <3>1
  <2> QED
    BY <2>2, <2>3
<1> QED
  BY <1>5, <1>6

\* Being in the same order carries over.
LEMMA SameOrderCarries ==
    ASSUME NEW s, NEW t, NEW u, SameOrder(s, t), SameOrder(t, u)
    PROVE  SameOrder(s, u)
<1> SUFFICES ASSUME NEW m \in 1..Len(s), NEW n \in 1..Len(s), m < n
             PROVE  \E a, b \in 1..Len(u) : a < b /\ s[m] = u[a] /\ s[n] = u[b]
  BY DEF SameOrder
<1>1. PICK a, b \in 1..Len(t) : a < b /\ s[m] = t[a] /\ s[n] = t[b]
  BY DEF SameOrder
<1>2. PICK c, d \in 1..Len(u) : c < d /\ t[a] = u[c] /\ t[b] = u[d]
  BY <1>1 DEF SameOrder
<1> QED
  BY <1>1, <1>2

\* What k has become after the first i questions of its MRU list were visited.
Swept(w, k, i) ==
    /\ w \in Caches /\ Good(w) /\ InTable(w) \subseteq InTable(k) /\ SameOrder(w.mru_list, k.mru_list)
    /\ \A e \in InTable(k) \ InTable(w) : IsExpired(e)
    /\ \A e \in InTable(w) : (\E m \in 1..i : k.mru_list[m] = e.query) => ~IsExpired(e)
    /\ w.num_entries <= k.num_entries /\ (w.num_entries = k.num_entries => w = k)

\* The walk of _cache_remove_expired() goes on by one place.
LEMMA SweepStep ==
    ASSUME NEW k \in Caches, NEW i \in Nat, i + 1 \in 1..Len(k.mru_list), NEW w, Swept(w, k, i)
    PROVE  Swept(Visited(w, k.mru_list[i + 1]), k, i + 1)
<1>1. PICK q : q = k.mru_list[i + 1]
  OBVIOUS
<1>2. q \in Queries /\ k.num_entries \in Nat
  BY <1>1, CacheParts, InRange
<1>3. \A m \in 1..(i + 1) : m \in 1..i \/ m = i + 1
  BY SMT
<1>4. PICK v : v = Visited(w, q)
  OBVIOUS
<1>5. w \in Caches /\ Good(w) /\ w.num_entries \in Nat
  BY CacheParts DEF Swept
<1>6. \/ v = w /\ \A e \in InTable(w) : e.query = q => ~IsExpired(e)
      \/ \E e \in InTable(w) : e.query = q /\ IsExpired(e) /\ v \in Caches /\ Less(v, w, e)
  BY <1>2, <1>4, <1>5, VisitRemoves
<1>7. CASE v = w /\ \A e \in InTable(w) : e.query = q => ~IsExpired(e)
  <2>1. \A e \in InTable(w) : (\E m \in 1..(i + 1) : k.mru_list[m] = e.query) => ~IsExpired(e)
    BY <1>1, <1>3, <1>7 DEF Swept
  <2>2. Swept(w, k, i + 1)
    BY <2>1 DEF Swept
  <2> QED
    BY <1>1, <1>4, <1>7, <2>2
<1>8. ASSUME NEW e \in InTable(w), e.query = q, IsExpired(e), v \in Caches, Less(v, w, e)
      PROVE  Swept(v, k, i + 1)
  <2>1. /\ Good(v) /\ InTable(v) = InTable(w) \ {e} /\ SameOrder(v.mru_list, w.mru_list)
        /\ v.num_entries = w.num_entries - 1
    BY <1>8 DEF Less
  <2>2. InTable(v) \subseteq InTable(k) /\ \A x \in InTable(k) \ InTable(v) : IsExpired(x)
    BY <1>8, <2>1 DEF Swept
  <2>3. SameOrder(v.mru_list, k.mru_list)
    BY <2>1, SameOrderCarries DEF Swept
  <2>4. \A x \in InTable(w) : x.query = q => x = e
    BY <1>5, <1>8 DEF Good
  <2>5. \A x \in InTable(v) : (\E m \in 1..(i + 1) : k.mru_list[m] = x.query) => ~IsExpired(x)
    BY <1>1, <1>3, <2>1, <2>4 DEF Swept
  <2>6. v.num_entries <= k.num_entries /\ v.num_entries # k.num_entries
    <3>1. w.num_entries <= k.num_entries
      BY DEF Swept
    <3> QED
      BY <1>2, <1>5, <2>1, <3>1, SMT
  <2> QED
    BY <1>8, <2>1, <2>2, <2>3, <2>5, <2>6 DEF Swept
<1> QED
  BY <1>1, <1>4, <1>6, <1>7, <1>8

----------------------------------------------------------------------------
(* The walk over the expired entries.                                       *)

\* _cache_remove_expired() visits the questions of the MRU list one after the other.
LEMMA WalkSteps ==
    ASSUME NEW k, NEW n \in Nat, n = Len(k.mru_list)
    PROVE  \E w : /\ w = [i \in 0..n |-> IF i = 0 THEN k ELSE Visited(w[i - 1], k.mru_list[i])]
                  /\ cache_remove_expired(k) = w[n]
<1> DEFINE Walk(w, m) == w = [i \in 0..m |-> IF i = 0 THEN k ELSE Visited(w[i - 1], k.mru_list[i])]
           S == {m \in Nat : \E w : Walk(w, m)}
<1>1. 0 \in S
  <2> DEFINE w == [i \in 0..0 |-> k]
  <2>1. Walk(w, 0) /\ 0 \in Nat
    BY SMT
  <2> HIDE DEF w
  <2> QED
    BY <2>1
<1>2. ASSUME NEW m \in S PROVE m + 1 \in S
  <2>1. PICK w : Walk(w, m)
    BY <1>2
  <2>2. m \in Nat /\ m + 1 \in Nat
    BY SMT
  <2> DEFINE v == [i \in 0..(m + 1) |-> IF i <= m THEN w[i] ELSE Visited(w[m], k.mru_list[m + 1])]
  <2>3. ASSUME NEW i \in 0..(m + 1)
        PROVE  v[i] = IF i = 0 THEN k ELSE Visited(v[i - 1], k.mru_list[i])
    <3>1. CASE i = 0
      <4>1. i \in 0..m /\ i <= m
        BY <2>2, <3>1, SMT
      <4>2. w[i] = k
        BY <2>1, <3>1, <4>1
      <4> QED
        BY <4>1, <4>2, <3>1
    <3>2. CASE i # 0 /\ i <= m
      <4>1. i \in 0..m /\ i - 1 \in 0..m /\ i - 1 <= m /\ i - 1 \in 0..(m + 1)
        BY <2>2, <3>2, SMT
      <4>2. w[i] = Visited(w[i - 1], k.mru_list[i])
        BY <2>1, <3>2, <4>1
      <4>3. v[i] = w[i] /\ v[i - 1] = w[i - 1]
        BY <4>1, <3>2
      <4> QED
        BY <4>2, <4>3, <3>2
    <3>3. CASE i = m + 1
      <4>1. i - 1 = m /\ m \in 0..(m + 1) /\ m <= m /\ ~(i <= m) /\ i # 0
        BY <2>2, <3>3, SMT
      <4>2. v[i] = Visited(w[m], k.mru_list[i]) /\ v[i - 1] = w[m]
        BY <4>1, <3>3
      <4> QED
        BY <4>1, <4>2
    <3> QED
      BY <2>2, <3>1, <3>2, <3>3, SMT
  <2>4. v = [i \in 0..(m + 1) |-> v[i]]
    OBVIOUS
  <2> HIDE DEF v
  <2>5. Walk(v, m + 1)
    BY <2>3, <2>4
  <2> QED
    BY <2>2, <2>5
<1>3. n \in S
  <2>1. S \in SUBSET Nat
    OBVIOUS
  <2> HIDE DEF S
  <2> QED
    BY <1>1, <1>2, <2>1, SetInduction
<1>4. \E w : Walk(w, n)
  BY <1>3
<1> DEFINE W == CHOOSE w : Walk(w, n)
<1>5. Walk(W, n)
  BY <1>4
<1>6. cache_remove_expired(k) = W[n]
  BY DEF cache_remove_expired
<1> QED
  BY <1>5, <1>6

\* _cache_remove_expired() leaves no expired entry and removes no other, and the rest agrees.
LEMMA ExpiredRemoved ==
    ASSUME NEW k \in Caches, Good(k)
    PROVE  Swept(cache_remove_expired(k), k, Len(k.mru_list))
<1>1. PICK n \in Nat : n = Len(k.mru_list)
  BY CacheParts, InRange
<1>2. PICK w : /\ w = [i \in 0..n |-> IF i = 0 THEN k ELSE Visited(w[i - 1], k.mru_list[i])]
               /\ cache_remove_expired(k) = w[n]
  BY <1>1, WalkSteps
<1> DEFINE S == {i \in Nat : i <= n => Swept(w[i], k, i)}
<1>3. 0 \in S
  <2>1. 0 \in 0..n /\ 0 \in Nat /\ \A m \in 1..0 : FALSE
    BY SMT
  <2>2. w[0] = k
    BY <1>2, <2>1
  <2>3. SameOrder(k.mru_list, k.mru_list) /\ k.num_entries <= k.num_entries
    <3>1. k.num_entries \in Nat
      BY CacheParts
    <3>2. k.num_entries <= k.num_entries
      BY <3>1, SMT
    <3> QED
      BY <3>2 DEF SameOrder
  <2>4. Swept(k, k, 0)
    BY <2>1, <2>3 DEF Swept
  <2> QED
    BY <2>1, <2>2, <2>4
<1>4. ASSUME NEW i \in S PROVE i + 1 \in S
  <2>1. i \in Nat /\ i + 1 \in Nat
    BY SMT
  <2> SUFFICES ASSUME i + 1 <= n PROVE Swept(w[i + 1], k, i + 1)
    BY <2>1
  <2>2. i <= n /\ i + 1 \in 0..n /\ i + 1 # 0 /\ (i + 1) - 1 = i /\ i + 1 \in 1..n
    BY <2>1, SMT
  <2>3. Swept(w[i], k, i)
    BY <2>2
  <2>4. w[i + 1] = Visited(w[i], k.mru_list[i + 1])
    BY <1>2, <2>2
  <2> HIDE DEF S
  <2>5. Swept(Visited(w[i], k.mru_list[i + 1]), k, i + 1)
    BY <1>1, <2>1, <2>2, <2>3, SweepStep
  <2> QED
    BY <2>4, <2>5
<1>5. n \in S
  <2>1. S \in SUBSET Nat
    OBVIOUS
  <2> HIDE DEF S
  <2> QED
    BY <1>3, <1>4, <2>1, SetInduction
<1>6. n <= n
  BY SMT
<1>7. Swept(w[n], k, n)
  BY <1>5, <1>6
<1> QED
  BY <1>1, <1>2, <1>7

----------------------------------------------------------------------------
(* The operations on a Cache.                                               *)

\* x is nearer to the head of the MRU list than y.
Before(list, x, y) == \E a, b \in 1..Len(list) : a < b /\ list[a] = x /\ list[b] = y

\* Why entry e may leave Cache k: it has expired, or k is full of valid entries and e is its oldest.
MayGo(k, e) ==
    \/ IsExpired(e)
    \/ /\ k.num_entries = MaxCacheEntries
       /\ \A x \in InTable(k) \ {e} : ~IsExpired(x) /\ Before(k.mru_list, x.query, e.query)

\* The MRU list holds the questions of the table.
LEMMA ListParts ==
    ASSUME NEW k \in Caches, Good(k)
    PROVE  \A q : q \in Chained(k) <=> \E i \in 1..Len(k.mru_list) : k.mru_list[i] = q
<1>1. PICK list \in Seq(Queries) : list = k.mru_list
  BY CacheParts
<1>2. \A q : q \in Range(list) <=> \E i \in 1..Len(list) : list[i] = q
  BY InRange
<1>3. Chained(k) = Range(list)
  BY <1>1 DEF Good
<1> QED
  BY <1>1, <1>2, <1>3

\* _cache_remove_oldest() unlinks the last entry of the MRU list.
LEMMA OldestRemoved ==
    ASSUME NEW k \in Caches, Good(k), k.num_entries # 0
    PROVE  \E e \in InTable(k) : /\ cache_remove_oldest(k) \in Caches /\ Less(cache_remove_oldest(k), k, e)
                                 /\ \A x \in InTable(k) \ {e} : Before(k.mru_list, x.query, e.query)
<1>1. PICK n : n = Len(k.mru_list)
  OBVIOUS
<1>2. k.mru_list \in Seq(Queries) /\ k.num_entries \in Nat /\ k.num_entries = n /\ Chained(k) = Range(k.mru_list)
  BY <1>1, CacheParts DEF Good
<1>3. n \in 1..n /\ n \in Nat
  BY <1>2, SMT
<1>4. \A x : x \in Chained(k) <=> \E i \in 1..n : k.mru_list[i] = x
  BY <1>1, ListParts
<1>5. PICK q : q = k.mru_list[n]
  OBVIOUS
<1>6. q \in Chained(k)
  BY <1>3, <1>4, <1>5
<1>7. q \in Queries
  <2>1. Range(k.mru_list) \subseteq Queries
    BY <1>2, InRange
  <2> QED
    BY <1>2, <1>6, <2>1
<1>8. PICK lookup : lookup = cache_lookup_p(k, q)
  OBVIOUS
<1>9. ~IsNull(k, lookup)
  <2>1. Looks(k, q, lookup)
    BY <1>7, <1>8, LookupLooks
  <2>2. IsNull(k, lookup) <=> q \notin Chained(k)
    BY <1>7, <2>1, LookupFinds
  <2> QED
    BY <1>6, <2>2
<1>10. cache_remove_oldest(k) = cache_remove_p(k, lookup)
  BY <1>1, <1>5, <1>8, <1>9 DEF cache_remove_oldest
<1>11. PICK e \in InTable(k) :
          /\ e.query = q /\ cache_remove_p(k, lookup) \in Caches /\ Less(cache_remove_p(k, lookup), k, e)
  <2>1. \E e \in InTable(k) :
          /\ e.query = q /\ e = EntryAt(k, cache_lookup_p(k, q))
          /\ cache_remove_p(k, cache_lookup_p(k, q)) \in Caches
          /\ Less(cache_remove_p(k, cache_lookup_p(k, q)), k, e)
    BY <1>6, <1>7, RemoveUnlinks
  <2> QED
    BY <1>8, <2>1
<1>12. ASSUME NEW x \in InTable(k) \ {e} PROVE Before(k.mru_list, x.query, e.query)
  <2>1. x.query # q
    BY <1>11 DEF Good
  <2>2. x.query \in Chained(k)
    BY TableParts
  <2>3. PICK i \in 1..n : k.mru_list[i] = x.query
    BY <1>4, <2>2
  <2>4. i # n
    BY <1>5, <2>1, <2>3
  <2>5. i < n
    BY <1>3, <2>4, SMT
  <2> QED
    BY <1>1, <1>3, <1>5, <1>11, <2>3, <2>5 DEF Before
<1> QED
  BY <1>10, <1>11, <1>12

\* What making room in k leaves.
Roomy(r, k) ==
    /\ r \in Caches /\ Good(r) /\ r.num_entries < MaxCacheEntries /\ SameOrder(r.mru_list, k.mru_list)
    /\ InTable(r) \subseteq InTable(k) /\ \A e \in InTable(k) \ InTable(r) : MayGo(k, e)

\* resolv_cache_add() makes room in a full cache: first the expired entries, then the oldest.
LEMMA RoomMade ==
    ASSUME NEW k \in Caches, Good(k), k.num_entries <= MaxCacheEntries
    PROVE  Roomy(MakeRoom(k), k)
<1>1. PICK w : w = cache_remove_expired(k)
  OBVIOUS
<1>2. Swept(w, k, Len(k.mru_list))
  BY <1>1, ExpiredRemoved
<1>3. k.num_entries \in Nat /\ w.num_entries \in Nat /\ MaxCacheEntries \in Nat /\ MaxCacheEntries # 0
  BY <1>2, CacheParts, EntriesAssumption DEF Swept
<1>4. CASE k.num_entries < MaxCacheEntries
  <2>1. MakeRoom(k) = k
    BY <1>4 DEF MakeRoom
  <2>2. Roomy(k, k)
    BY <1>4 DEF Roomy, SameOrder
  <2> QED
    BY <2>1, <2>2
<1>5. CASE ~(k.num_entries < MaxCacheEntries) /\ w.num_entries < MaxCacheEntries
  <2>1. MakeRoom(k) = w
    BY <1>1, <1>5 DEF MakeRoom
  <2>2. Roomy(w, k)
    BY <1>2, <1>5 DEF Roomy, Swept, MayGo
  <2> QED
    BY <2>1, <2>2
<1>6. CASE ~(k.num_entries < MaxCacheEntries) /\ ~(w.num_entries < MaxCacheEntries)
  <2>1. w.num_entries <= k.num_entries
    BY <1>2 DEF Swept
  <2>2. k.num_entries = MaxCacheEntries /\ w.num_entries = k.num_entries /\ k.num_entries # 0
    BY <1>3, <1>6, <2>1, SMT
  <2>3. w = k
    BY <1>2, <2>2 DEF Swept
  <2>4. MakeRoom(k) = cache_remove_oldest(k)
    BY <1>1, <1>6, <2>3 DEF MakeRoom
  <2>5. PICK r : r = cache_remove_oldest(k)
    OBVIOUS
  <2>6. PICK e \in InTable(k) :
          r \in Caches /\ Less(r, k, e) /\ \A x \in InTable(k) \ {e} : Before(k.mru_list, x.query, e.query)
    BY <2>2, <2>5, OldestRemoved
  <2>7. \A x \in InTable(k) : ~IsExpired(x)
    <3>1. \A x \in InTable(k) : x.query \in Chained(k)
      BY TableParts
    <3>2. \A y : y \in Chained(k) <=> \E m \in 1..Len(k.mru_list) : k.mru_list[m] = y
      BY ListParts
    <3>3. \A x \in InTable(k) : (\E m \in 1..Len(k.mru_list) : k.mru_list[m] = x.query) => ~IsExpired(x)
      BY <1>2, <2>3 DEF Swept
    <3> QED
      BY <3>1, <3>2, <3>3
  <2>8. MayGo(k, e)
    BY <2>2, <2>6, <2>7 DEF MayGo
  <2>9. r.num_entries < MaxCacheEntries
    <3>1. r.num_entries = k.num_entries - 1
      BY <2>6 DEF Less
    <3> QED
      BY <1>3, <2>2, <3>1, SMT
  <2>10. Roomy(r, k)
    BY <2>6, <2>8, <2>9 DEF Roomy, Less
  <2> QED
    BY <2>4, <2>5, <2>10
<1> QED
  BY <1>4, <1>5, <1>6

\* What an operation on k leaves.
Kept(r, k) ==
    /\ r \in Caches /\ Good(r) /\ r.num_entries <= MaxCacheEntries
    /\ \A e \in InTable(k) \ InTable(r) : MayGo(k, e)

\* resolv_cache_add() keeps the table consistent and makes the question the most recently used;
\* what it removes was expired, or the oldest of a cache full of valid entries.
LEMMA AddKeeps ==
    ASSUME NEW k \in Caches, Good(k), k.num_entries <= MaxCacheEntries,
           NEW q \in Queries, NEW ttl \in Nat, now \in Nat
    PROVE  /\ Kept(resolv_cache_add(k, q, ttl), k)
           /\ q \in Chained(k) => resolv_cache_add(k, q, ttl) = k
           /\ q \notin Chained(k) => FirstIs(resolv_cache_add(k, q, ttl).mru_list, k.mru_list, q)
<1>1. PICK r : r = resolv_cache_add(k, q, ttl)
  OBVIOUS
<1>2. IsNull(k, cache_lookup_p(k, q)) <=> q \notin Chained(k)
  <2>1. PICK lookup : lookup = cache_lookup_p(k, q)
    OBVIOUS
  <2>2. Looks(k, q, lookup)
    BY <2>1, LookupLooks
  <2>3. IsNull(k, lookup) <=> q \notin Chained(k)
    BY <2>2, LookupFinds
  <2> QED
    BY <2>1, <2>3
<1>3. CASE q \in Chained(k)
  <2>1. r = k
    BY <1>1, <1>2, <1>3 DEF resolv_cache_add
  <2>2. Kept(k, k)
    BY DEF Kept
  <2> QED
    BY <1>1, <1>3, <2>1, <2>2
<1>4. CASE q \notin Chained(k)
  <2>1. PICK w : w = MakeRoom(k)
    OBVIOUS
  <2>2. Roomy(w, k)
    BY <2>1, RoomMade
  <2>3. w \in Caches /\ Good(w) /\ w.num_entries \in Nat /\ MaxCacheEntries \in Nat
    BY <2>2, CacheParts, EntriesAssumption DEF Roomy
  <2>4. w.num_entries <= MaxCacheEntries /\ w.num_entries + 1 <= MaxCacheEntries
    <3>1. w.num_entries < MaxCacheEntries
      BY <2>2 DEF Roomy
    <3> QED
      BY <2>3, <3>1, SMT
  <2>5. q \notin Chained(w)
    <3>1. InTable(w) \subseteq InTable(k)
      BY <2>2 DEF Roomy
    <3>2. \A x \in InTable(w) : x.query # q
      BY <1>4, <3>1, TableParts
    <3> QED
      BY <2>3, <3>2, TableParts
  <2>6. CASE ttl = 0
    <3>1. r = w
      BY <1>1, <1>2, <1>4, <2>1, <2>6 DEF resolv_cache_add
    <3>2. Kept(w, k)
      BY <2>2, <2>4 DEF Kept, Roomy
    <3>3. \A i \in 1..Len(k.mru_list) : k.mru_list[i] # q
      BY <1>4, ListParts
    <3>4. FirstIs(w.mru_list, k.mru_list, q)
      <4>1. SameOrder(w.mru_list, k.mru_list)
        BY <2>2 DEF Roomy
      <4> SUFFICES ASSUME NEW m \in 1..Len(w.mru_list), NEW n \in 1..Len(w.mru_list), m < n
                   PROVE  /\ w.mru_list[n] # q
                          /\ \E a, b \in 1..Len(k.mru_list) :
                                a < b /\ w.mru_list[m] = k.mru_list[a] /\ w.mru_list[n] = k.mru_list[b]
        BY DEF FirstIs
      <4>2. PICK a, b \in 1..Len(k.mru_list) :
               a < b /\ w.mru_list[m] = k.mru_list[a] /\ w.mru_list[n] = k.mru_list[b]
        BY <4>1 DEF SameOrder
      <4> QED
        BY <3>3, <4>2
    <3> QED
      BY <1>1, <1>4, <3>1, <3>2, <3>4
  <2>7. CASE ttl # 0
    <3>1. PICK e \in Entries : e = [query |-> q, expires |-> ttl + now] /\ e.query = q
      <4>1. ttl + now \in Nat
        BY SMT
      <4>2. [query |-> q, expires |-> ttl + now] \in Entries
        BY <4>1 DEF Entries
      <4> QED
        BY <4>2
    <3>2. r = cache_add_p(w, cache_lookup_p(w, q), e)
      BY <1>1, <1>2, <1>4, <2>1, <2>7, <3>1 DEF resolv_cache_add
    <3>3. r \in Caches /\ More(r, w, e)
      <4>1. e.query \notin Chained(w)
        BY <2>5, <3>1
      <4>2. /\ cache_add_p(w, cache_lookup_p(w, e.query), e) \in Caches
            /\ More(cache_add_p(w, cache_lookup_p(w, e.query), e), w, e)
        BY <2>3, <4>1, AddLinks
      <4> QED
        BY <3>1, <3>2, <4>2
    <3>4. /\ Good(r) /\ InTable(r) = InTable(w) \cup {e} /\ FirstIs(r.mru_list, w.mru_list, q)
          /\ r.num_entries = w.num_entries + 1
      BY <3>1, <3>3 DEF More
    <3>5. Kept(r, k)
      <4>1. r.num_entries <= MaxCacheEntries
        BY <2>4, <3>4
      <4>2. \A x \in InTable(k) \ InTable(r) : MayGo(k, x)
        BY <2>2, <3>4 DEF Roomy
      <4> QED
        BY <3>3, <3>4, <4>1, <4>2 DEF Kept
    <3>6. FirstIs(r.mru_list, k.mru_list, q)
      <4>1. SameOrder(w.mru_list, k.mru_list)
        BY <2>2 DEF Roomy
      <4> SUFFICES ASSUME NEW m \in 1..Len(r.mru_list), NEW n \in 1..Len(r.mru_list), m < n
                   PROVE  /\ r.mru_list[n] # q
                          /\ \/ r.mru_list[m] = q
                             \/ \E a, b \in 1..Len(k.mru_list) :
                                   a < b /\ r.mru_list[m] = k.mru_list[a] /\ r.mru_list[n] = k.mru_list[b]
        BY DEF FirstIs
      <4>2. /\ r.mru_list[n] # q
            /\ \/ r.mru_list[m] = q
               \/ \E a, b \in 1..Len(w.mru_list) :
                     a < b /\ r.mru_list[m] = w.mru_list[a] /\ r.mru_list[n] = w.mru_list[b]
        BY <3>4 DEF FirstIs
      <4>3. ASSUME NEW a \in 1..Len(w.mru_list), NEW b \in 1..Len(w.mru_list),
                   a < b, r.mru_list[m] = w.mru_list[a], r.mru_list[n] = w.mru_list[b]
            PROVE  \E c, d \in 1..Len(k.mru_list) :
                      c < d /\ r.mru_list[m] = k.mru_list[c] /\ r.mru_list[n] = k.mru_list[d]
        <5>1. PICK c, d \in 1..Len(k.mru_list) :
                 c < d /\ w.mru_list[a] = k.mru_list[c] /\ w.mru_list[b] = k.mru_list[d]
          BY <4>1, <4>3 DEF SameOrder
        <5> QED
          BY <4>3, <5>1
      <4> QED
        BY <4>2, <4>3
    <3> QED
      BY <1>1, <1>4, <3>5, <3>6
  <2> QED
    BY <2>6, <2>7
<1> QED
  BY <1>3, <1>4

\* The lookup keeps the table consistent: it removes a stale entry, makes a returned one the most
\* recently used, and returns an entry only for the question asked and only before it expires.
LEMMA ReadKeeps ==
    ASSUME NEW k \in Caches, Good(k), k.num_entries <= MaxCacheEntries,
           NEW q \in Queries, NEW fits, NEW hit, hit = HitOf(k, q, fits)
    PROVE  /\ Kept(AfterHit(k, q, hit), k)
           /\ hit # "FRESH" => SameOrder(AfterHit(k, q, hit).mru_list, k.mru_list)
           /\ hit = "FRESH" =>
                 /\ FirstIs(AfterHit(k, q, hit).mru_list, k.mru_list, q)
                 /\ EntryAt(k, cache_lookup_p(k, q)) \in Entries
                 /\ EntryAt(k, cache_lookup_p(k, q)).query = q
                 /\ ~IsExpired(EntryAt(k, cache_lookup_p(k, q)))
<1>1. PICK lookup : lookup = cache_lookup_p(k, q)
  OBVIOUS
<1>2. PICK r : r = AfterHit(k, q, hit)
  OBVIOUS
<1>3. /\ hit = "STALE" => ~IsNull(k, lookup) /\ IsExpired(EntryAt(k, lookup))
      /\ hit = "FRESH" => ~IsNull(k, lookup) /\ ~IsExpired(EntryAt(k, lookup))
  BY <1>1 DEF HitOf
<1>4. Looks(k, q, lookup)
  BY <1>1, LookupLooks
<1>5. IsNull(k, lookup) <=> q \notin Chained(k)
  BY <1>4, LookupFinds
<1>6. CASE hit = "STALE"
  <2>1. r = cache_remove_p(k, lookup) /\ q \in Chained(k)
    BY <1>1, <1>2, <1>3, <1>5, <1>6 DEF AfterHit
  <2>2. PICK e \in InTable(k) :
          /\ e = EntryAt(k, lookup) /\ cache_remove_p(k, lookup) \in Caches
          /\ Less(cache_remove_p(k, lookup), k, e)
    <3>1. \E e \in InTable(k) :
            /\ e.query = q /\ e = EntryAt(k, cache_lookup_p(k, q))
            /\ cache_remove_p(k, cache_lookup_p(k, q)) \in Caches
            /\ Less(cache_remove_p(k, cache_lookup_p(k, q)), k, e)
      BY <2>1, RemoveUnlinks
    <3> QED
      BY <1>1, <3>1
  <2>3. /\ r \in Caches /\ Good(r) /\ InTable(r) = InTable(k) \ {e} /\ SameOrder(r.mru_list, k.mru_list)
        /\ r.num_entries = k.num_entries - 1
    BY <2>1, <2>2 DEF Less
  <2>4. r.num_entries <= MaxCacheEntries
    <3>1. k.num_entries \in Nat /\ MaxCacheEntries \in Nat
      BY CacheParts, EntriesAssumption
    <3> QED
      BY <2>3, <3>1, SMT
  <2>5. \A x \in InTable(k) \ InTable(r) : MayGo(k, x)
    BY <1>3, <1>6, <2>2, <2>3 DEF MayGo
  <2>6. Kept(r, k)
    BY <2>3, <2>4, <2>5 DEF Kept
  <2> QED
    BY <1>2, <1>6, <2>3, <2>6
<1>7. CASE hit = "FRESH"
  <2>1. q \in Chained(k)
    BY <1>3, <1>5, <1>7
  <2>2. EntryAt(k, lookup) \in InTable(k) /\ EntryAt(k, lookup).query = q
    <3>1. \E e \in InTable(k) :
            /\ e.query = q /\ e = EntryAt(k, cache_lookup_p(k, q))
            /\ cache_remove_p(k, cache_lookup_p(k, q)) \in Caches
            /\ Less(cache_remove_p(k, cache_lookup_p(k, q)), k, e)
      BY <2>1, RemoveUnlinks
    <3> QED
      BY <1>1, <3>1
  <2>3. EntryAt(k, lookup) \in Entries
    BY <2>2, TableParts
  <2>4. k.mru_list \in Seq(Queries)
    BY CacheParts
  <2>5. PICK j : j = CHOOSE i \in DOMAIN k.mru_list : k.mru_list[i] = q
    OBVIOUS
  <2>6. j \in 1..Len(k.mru_list) /\ k.mru_list[j] = q
    <3>1. DOMAIN k.mru_list = 1..Len(k.mru_list)
      BY <2>4, SMT
    <3>2. \E i \in DOMAIN k.mru_list : k.mru_list[i] = q
      BY <2>1, <3>1, ListParts
    <3> QED
      BY <2>5, <3>1, <3>2
  <2>7. PICK list : list = entry_mru_remove(k.mru_list, q)
    OBVIOUS
  <2>8. list \in Seq(Queries) /\ Shortened(list, k.mru_list, j)
    <3>1. list = Without(k.mru_list, j)
      BY <2>5, <2>7 DEF entry_mru_remove
    <3>2. Without(k.mru_list, j) \in Seq(Queries) /\ Shortened(Without(k.mru_list, j), k.mru_list, j)
      BY <2>4, <2>6, WithoutShortens
    <3> QED
      BY <3>1, <3>2
  <2>9. <<q>> \o list \in Seq(Queries) /\ Fronted(<<q>> \o list, list, q)
    BY <2>8, ConsFronts
  <2>10. r = [k EXCEPT !.mru_list = <<q>> \o list]
    BY <1>2, <1>7, <2>7 DEF AfterHit
  <2>11. /\ r \in Caches /\ r.entries = k.entries /\ r.num_entries = k.num_entries
         /\ r.mru_list = <<q>> \o list
    <3>1. PICK t \in Seq(Queries) : t = <<q>> \o list
      BY <2>9
    <3>2. r = [k EXCEPT !.mru_list = t]
      BY <2>10, <3>1
    <3>3. r \in Caches /\ r.entries = k.entries /\ r.num_entries = k.num_entries /\ r.mru_list = t
      BY <3>2 DEF Caches
    <3> QED
      BY <3>1, <3>3
  <2>12. Bumps(r, k, q)
    BY <2>6, <2>8, <2>9, <2>11 DEF Bumps
  <2>13. Good(r) /\ InTable(r) = InTable(k) /\ FirstIs(r.mru_list, k.mru_list, q)
    BY <2>11, <2>12, BumpKeeps
  <2>14. Kept(r, k)
    BY <2>11, <2>13 DEF Kept
  <2> QED
    BY <1>1, <1>2, <1>3, <1>7, <2>2, <2>3, <2>13, <2>14
<1>8. CASE hit # "STALE" /\ hit # "FRESH"
  <2>1. r = k
    BY <1>2, <1>8 DEF AfterHit
  <2>2. Kept(k, k) /\ SameOrder(k.mru_list, k.mru_list)
    BY DEF Kept, SameOrder
  <2> QED
    BY <1>2, <1>8, <2>1, <2>2
<1> QED
  BY <1>6, <1>7, <1>8

----------------------------------------------------------------------------
(* The invariant of the cache.                                              *)

\* The MRU list is in the order of last use.
Ordered(list, order) == \A m, n \in 1..Len(list) : m < n => <<list[m], list[n]>> \in order

Sound(k, order) ==
    k \in Caches /\ Good(k) /\ k.num_entries <= MaxCacheEntries /\ Ordered(k.mru_list, order)

CacheInv ==
    /\ CacheTypeOK /\ FoundIsRight
    /\ \A n \in NetIds : Sound(cache[n], recency[n])

\* What a step may remove from the caches.
Evictions ==
    \A n \in NetIds : cache'[n] # EmptyCache =>
        \A e \in InTable(cache[n]) \ InTable(cache'[n]) : MayGo(cache[n], e)

\* A list whose elements come in the same order is ordered too.
LEMMA SameOrdered ==
    ASSUME NEW s, NEW t, NEW order, SameOrder(t, s), Ordered(s, order)
    PROVE  Ordered(t, order)
<1> SUFFICES ASSUME NEW m \in 1..Len(t), NEW n \in 1..Len(t), m < n
             PROVE  <<t[m], t[n]>> \in order
  BY DEF Ordered
<1>1. PICK a, b \in 1..Len(s) : a < b /\ t[m] = s[a] /\ t[n] = s[b]
  BY DEF SameOrder
<1>2. <<s[a], s[b]>> \in order
  BY <1>1 DEF Ordered
<1> QED
  BY <1>1, <1>2

\* A list to whose head q has moved is in the order after the use of q.
LEMMA UseOrdered ==
    ASSUME NEW k, NEW r \in Caches, NEW order, NEW q, Good(r),
           FirstIs(r.mru_list, k.mru_list, q), Ordered(k.mru_list, order)
    PROVE  Ordered(r.mru_list, MoreRecent(Chained(r), order, q))
<1> SUFFICES ASSUME NEW m \in 1..Len(r.mru_list), NEW n \in 1..Len(r.mru_list), m < n
             PROVE  <<r.mru_list[m], r.mru_list[n]>> \in MoreRecent(Chained(r), order, q)
  BY DEF Ordered
<1>1. PICK x, y : x = r.mru_list[m] /\ y = r.mru_list[n]
  OBVIOUS
<1>2. x \in Chained(r) /\ y \in Chained(r)
  BY <1>1, ListParts
<1>3. m # n
  BY CacheParts, SMT
<1>4. x # y
  BY <1>1, <1>3 DEF Good, Distinct
<1>5. /\ y # q
      /\ x = q \/ \E a, b \in 1..Len(k.mru_list) : a < b /\ x = k.mru_list[a] /\ y = k.mru_list[b]
  BY <1>1 DEF FirstIs
<1>6. x = q \/ <<x, y>> \in order
  BY <1>5 DEF Ordered
<1>7. <<x, y>> \in MoreRecent(Chained(r), order, q)
  BY <1>2, <1>4, <1>5, <1>6 DEF MoreRecent
<1> QED
  BY <1>1, <1>7

\* The order after a use relates questions.
LEMMA OrderTyped ==
    ASSUME NEW r \in Caches, NEW order, NEW q
    PROVE  MoreRecent(Chained(r), order, q) \in SUBSET (Queries \X Queries)
<1>1. Chained(r) \subseteq Queries
  BY TableParts, EntryParts
<1> QED
  BY <1>1 DEF MoreRecent

\* A step that replaces the Cache of network n.
LEMMA TableStep ==
    ASSUME CacheInv, NEW n \in NetIds, NEW r, NEW order \in SUBSET (Queries \X Queries), Sound(r, order),
           r = EmptyCache \/ Kept(r, cache[n]),
           cache' = [cache EXCEPT ![n] = r], recency' = [recency EXCEPT ![n] = order]
    PROVE  /\ cache' \in [NetIds -> Caches] /\ recency' \in [NetIds -> SUBSET (Queries \X Queries)]
           /\ \A m \in NetIds : Sound(cache'[m], recency'[m])
           /\ Evictions
<1>1. cache \in [NetIds -> Caches] /\ recency \in [NetIds -> SUBSET (Queries \X Queries)]
  BY DEF CacheInv, CacheTypeOK
<1>2. r \in Caches
  BY DEF Sound
<1>3. \A m \in NetIds : /\ cache'[m] = IF m = n THEN r ELSE cache[m]
                        /\ recency'[m] = IF m = n THEN order ELSE recency[m]
  BY <1>1
<1>4. \A m \in NetIds : Sound(cache'[m], recency'[m])
  BY <1>3 DEF CacheInv
<1>5. Evictions
  <2> SUFFICES ASSUME NEW m \in NetIds, cache'[m] # EmptyCache, NEW e \in InTable(cache[m]) \ InTable(cache'[m])
               PROVE  MayGo(cache[m], e)
    BY DEF Evictions
  <2>1. CASE m = n
    BY <1>3, <2>1 DEF Kept
  <2>2. CASE m # n
    BY <1>3, <2>2
  <2> QED
    BY <2>1, <2>2
<1> QED
  BY <1>1, <1>2, <1>4, <1>5

\* A step that leaves the caches alone.
LEMMA TableAlone ==
    ASSUME CacheInv, UNCHANGED <<cache, recency>>
    PROVE  /\ cache' \in [NetIds -> Caches] /\ recency' \in [NetIds -> SUBSET (Queries \X Queries)]
           /\ \A m \in NetIds : Sound(cache'[m], recency'[m])
           /\ Evictions
  BY DEF CacheInv, CacheTypeOK, Evictions

\* What resolv_cache_lookup() may hand to a thread.
Replies == [asked: Requests, entry: Entries, at: 0..MaxTime]
Right(v) == v \in Replies /\ v.entry.query = v.asked.query /\ v.at < v.entry.expires

\* A step that gives thread c the reply v.
LEMMA ReplyStep ==
    ASSUME CacheInv, NEW c \in Clients, NEW v, v = NoReply \/ Right(v), reply' = [reply EXCEPT ![c] = v]
    PROVE  reply' \in [Clients -> Replies \cup {NoReply}] /\ FoundIsRight'
<1>1. reply \in [Clients -> Replies \cup {NoReply}]
  BY DEF CacheInv, CacheTypeOK, Replies
<1>2. v \in Replies \cup {NoReply}
  BY DEF Right
<1>3. \A d \in Clients : reply'[d] = IF d = c THEN v ELSE reply[d]
  BY <1>1
<1>4. \A d \in Clients : reply'[d] # NoReply =>
          reply'[d].entry.query = reply'[d].asked.query /\ reply'[d].at < reply'[d].entry.expires
  <2> SUFFICES ASSUME NEW d \in Clients, reply'[d] # NoReply
               PROVE  reply'[d].entry.query = reply'[d].asked.query /\ reply'[d].at < reply'[d].entry.expires
    OBVIOUS
  <2>1. CASE d = c
    BY <1>3, <2>1 DEF Right
  <2>2. CASE d # c
    BY <1>3, <2>2 DEF CacheInv, FoundIsRight
  <2> QED
    BY <2>1, <2>2
<1>5. reply' \in [Clients -> Replies \cup {NoReply}]
  BY <1>1, <1>2
<1> QED
  BY <1>4, <1>5 DEF FoundIsRight

\* The parts of the invariant after a step.
LEMMA InvParts ==
    ASSUME cache' \in [NetIds -> Caches], recency' \in [NetIds -> SUBSET (Queries \X Queries)],
           \A m \in NetIds : Sound(cache'[m], recency'[m]),
           now' \in 0..MaxTime, reply' \in [Clients -> Replies \cup {NoReply}], FoundIsRight'
    PROVE  CacheInv'
  BY DEF CacheInv, CacheTypeOK, Replies

\* A step that reads the table.
LEMMA ReadStep ==
    ASSUME CacheInv, NEW c \in Clients, NEW r \in Requests, NEW hit, TableRead(c, r, hit), now' = now
    PROVE  CacheInv' /\ Evictions
<1>1. PICK n \in NetIds, q \in Queries : n = r.netid /\ q = r.query
  BY RequestFields
<1>2. PICK k : k = cache[n]
  OBVIOUS
<1>3. /\ k \in Caches /\ Good(k) /\ k.num_entries <= MaxCacheEntries /\ Ordered(k.mru_list, recency[n])
      /\ now \in 0..MaxTime /\ recency \in [NetIds -> SUBSET (Queries \X Queries)]
  BY <1>2 DEF CacheInv, CacheTypeOK, Sound
<1>4. PICK fits \in BOOLEAN : hit = HitOf(k, q, fits)
  BY <1>1, <1>2 DEF TableRead
<1>5. PICK w : w = AfterHit(k, q, hit)
  OBVIOUS
<1>6. PICK e : e = EntryAt(k, cache_lookup_p(k, q))
  OBVIOUS
<1>7. /\ Kept(w, k)
      /\ hit # "FRESH" => SameOrder(w.mru_list, k.mru_list)
      /\ hit = "FRESH" => /\ FirstIs(w.mru_list, k.mru_list, q)
                          /\ e \in Entries /\ e.query = q /\ ~IsExpired(e)
  <2>1. /\ Kept(AfterHit(k, q, hit), k)
        /\ hit # "FRESH" => SameOrder(AfterHit(k, q, hit).mru_list, k.mru_list)
        /\ hit = "FRESH" =>
              /\ FirstIs(AfterHit(k, q, hit).mru_list, k.mru_list, q)
              /\ EntryAt(k, cache_lookup_p(k, q)) \in Entries
              /\ EntryAt(k, cache_lookup_p(k, q)).query = q
              /\ ~IsExpired(EntryAt(k, cache_lookup_p(k, q)))
    BY <1>3, <1>4, ReadKeeps
  <2> QED
    BY <1>5, <1>6, <2>1
<1>8. cache' = [cache EXCEPT ![n] = w] /\ w \in Caches /\ Good(w) /\ w.num_entries <= MaxCacheEntries
  BY <1>1, <1>2, <1>5, <1>7 DEF TableRead, Kept
<1>9. cache'[n] = w
  BY <1>8 DEF CacheInv, CacheTypeOK
<1>10. CASE hit = "FRESH"
  <2>1. PICK v : v = [asked |-> r, entry |-> e, at |-> now]
    OBVIOUS
  <2>2. now < e.expires
    <3>1. e.expires \in Nat /\ ~(now >= e.expires)
      BY <1>7, <1>10, EntryParts DEF IsExpired
    <3> QED
      BY <1>3, <3>1, TimeAssumption, SMT
  <2>3. Right(v)
    <3>1. v \in Replies
      BY <1>3, <1>7, <1>10, <2>1 DEF Replies
    <3>2. v.asked = r /\ v.entry = e /\ v.at = now
      BY <2>1
    <3> QED
      BY <1>1, <1>7, <1>10, <2>2, <3>1, <3>2 DEF Right
  <2>4. reply' = [reply EXCEPT ![c] = v]
    BY <1>1, <1>2, <1>6, <1>10, <2>1 DEF TableRead
  <2>5. reply' \in [Clients -> Replies \cup {NoReply}] /\ FoundIsRight'
    BY <2>3, <2>4, ReplyStep
  <2>6. PICK order : order = MoreRecent(Chained(w), recency[n], q)
    OBVIOUS
  <2>7. recency' = [recency EXCEPT ![n] = order]
    BY <1>1, <1>3, <1>9, <1>10, <2>6 DEF TableRead, Used
  <2>8. order \in SUBSET (Queries \X Queries)
    BY <1>8, <2>6, OrderTyped
  <2>9. Ordered(w.mru_list, order)
    BY <1>3, <1>7, <1>8, <1>10, <2>6, UseOrdered
  <2>10. Sound(w, order)
    BY <1>8, <2>9 DEF Sound
  <2>11. /\ cache' \in [NetIds -> Caches] /\ recency' \in [NetIds -> SUBSET (Queries \X Queries)]
         /\ \A m \in NetIds : Sound(cache'[m], recency'[m])
         /\ Evictions
    BY <1>2, <1>7, <1>8, <2>7, <2>8, <2>10, TableStep
  <2> QED
    BY <1>3, <2>5, <2>11, InvParts
<1>11. CASE hit # "FRESH"
  <2>1. reply' = [reply EXCEPT ![c] = NoReply]
    BY <1>11 DEF TableRead
  <2>2. reply' \in [Clients -> Replies \cup {NoReply}] /\ FoundIsRight'
    BY <2>1, ReplyStep
  <2>3. PICK order : order = recency[n]
    OBVIOUS
  <2>4. recency' = [recency EXCEPT ![n] = order] /\ order \in SUBSET (Queries \X Queries)
    BY <1>3, <1>11, <2>3 DEF TableRead
  <2>5. Ordered(w.mru_list, order)
    BY <1>3, <1>7, <1>11, <2>3, SameOrdered
  <2>6. Sound(w, order)
    BY <1>8, <2>5 DEF Sound
  <2>7. /\ cache' \in [NetIds -> Caches] /\ recency' \in [NetIds -> SUBSET (Queries \X Queries)]
        /\ \A m \in NetIds : Sound(cache'[m], recency'[m])
        /\ Evictions
    BY <1>2, <1>7, <1>8, <2>4, <2>6, TableStep
  <2> QED
    BY <1>3, <2>2, <2>7, InvParts
<1> QED
  BY <1>10, <1>11

\* A step that adds an answer.
LEMMA AddStep ==
    ASSUME TypeInv, CacheInv, NEW c \in Clients, NEW ttl \in TTLs, AnsweredWith(c, ttl)
    PROVE  CacheInv' /\ Evictions
<1>1. pc[c] = "sending" /\ now' = now /\ reply' = reply
  BY DEF AnsweredWith, Answered
<1>2. PICK r \in Requests : r = req[c]
  BY <1>1 DEF TypeInv, Shape
<1>3. PICK n \in NetIds, q \in Queries : n = r.netid /\ q = r.query
  BY RequestFields
<1>4. PICK k : k = cache[n]
  OBVIOUS
<1>5. /\ k \in Caches /\ Good(k) /\ k.num_entries <= MaxCacheEntries /\ Ordered(k.mru_list, recency[n])
      /\ now \in 0..MaxTime /\ recency \in [NetIds -> SUBSET (Queries \X Queries)]
      /\ cache \in [NetIds -> Caches]
  BY <1>4 DEF CacheInv, CacheTypeOK, Sound
<1>6. reply' \in [Clients -> Replies \cup {NoReply}] /\ FoundIsRight' /\ now' \in 0..MaxTime
  BY <1>1, <1>5 DEF CacheInv, CacheTypeOK, Replies, FoundIsRight
<1>7. PICK w : w = resolv_cache_add(k, q, ttl)
  OBVIOUS
<1>8. /\ Kept(w, k) /\ (q \in Chained(k) => w = k)
      /\ q \notin Chained(k) => FirstIs(w.mru_list, k.mru_list, q)
  <2>1. ttl \in Nat /\ now \in Nat
    BY <1>5, TimeAssumption, SMT
  <2>2. /\ Kept(resolv_cache_add(k, q, ttl), k)
        /\ q \in Chained(k) => resolv_cache_add(k, q, ttl) = k
        /\ q \notin Chained(k) => FirstIs(resolv_cache_add(k, q, ttl).mru_list, k.mru_list, q)
    BY <1>5, <2>1, AddKeeps
  <2> QED
    BY <1>7, <2>2
<1>9. w \in Caches /\ Good(w) /\ w.num_entries <= MaxCacheEntries
  BY <1>8 DEF Kept
<1>10. CASE UNCHANGED <<cache, recency>>
  BY <1>6, <1>10, TableAlone, InvParts
<1>11. ASSUME cache' = [cache EXCEPT ![n] = w],
              IF q \in Chained(k) THEN UNCHANGED recency ELSE Used(n, q)
       PROVE  CacheInv' /\ Evictions
  <2>1. cache'[n] = w
    BY <1>5, <1>11
  <2>2. CASE q \in Chained(k)
    <3>1. cache' = cache
      BY <1>4, <1>5, <1>8, <1>11, <2>2
    <3> QED
      BY <1>10, <1>11, <2>2, <3>1
  <2>3. CASE q \notin Chained(k)
    <3>1. PICK order : order = MoreRecent(Chained(w), recency[n], q)
      OBVIOUS
    <3>2. recency' = [recency EXCEPT ![n] = order]
      BY <1>5, <1>11, <2>1, <2>3, <3>1 DEF Used
    <3>3. order \in SUBSET (Queries \X Queries)
      BY <1>9, <3>1, OrderTyped
    <3>4. Ordered(w.mru_list, order)
      BY <1>5, <1>8, <1>9, <2>3, <3>1, UseOrdered
    <3>5. Sound(w, order)
      BY <1>9, <3>4 DEF Sound
    <3>6. /\ cache' \in [NetIds -> Caches] /\ recency' \in [NetIds -> SUBSET (Queries \X Queries)]
          /\ \A m \in NetIds : Sound(cache'[m], recency'[m])
          /\ Evictions
      BY <1>4, <1>8, <1>11, <3>2, <3>3, <3>5, TableStep
    <3> QED
      BY <1>6, <3>6, InvParts
  <2> QED
    BY <2>2, <2>3
<1>12. \/ UNCHANGED <<cache, recency>>
       \/ /\ cache' = [cache EXCEPT ![n] = w]
          /\ IF q \in Chained(k) THEN UNCHANGED recency ELSE Used(n, q)
  <2>1. IF status[c] = "NOTFOUND" /\ r.query \notin Malformed /\ r.netid \in nets
        THEN /\ cache' = [cache EXCEPT ![r.netid] = resolv_cache_add(@, r.query, ttl)]
             /\ IF r.query \in Chained(cache[r.netid])
                THEN UNCHANGED recency ELSE Used(r.netid, r.query)
        ELSE UNCHANGED <<cache, recency>>
    BY <1>2 DEF AnsweredWith
  <2>2. \/ UNCHANGED <<cache, recency>>
        \/ /\ cache' = [cache EXCEPT ![n] = resolv_cache_add(cache[n], q, ttl)]
           /\ IF q \in Chained(cache[n]) THEN UNCHANGED recency ELSE Used(n, q)
    BY <1>3, <1>5, <2>1
  <2> QED
    BY <1>4, <1>7, <2>2
<1> QED
  BY <1>10, <1>11, <1>12

\* An empty Cache is sound.
LEMMA EmptySound == Sound(EmptyCache, {})
<1>1. PICK k : k = EmptyCache
  OBVIOUS
<1>2. k.mru_list = <<>> /\ k.num_entries = 0 /\ k.entries = [b \in Buckets |-> <<>>]
  BY <1>1 DEF EmptyCache
<1>3. <<>> \in Seq(Entries) /\ <<>> \in Seq(Queries) /\ 0 \in Nat /\ Len(<<>>) = 0
  BY SMT
<1>4. k \in Caches
  BY <1>1, <1>3 DEF EmptyCache, Caches
<1>5. Range(<<>>) = {} /\ \A i \in 1..Len(<<>>) : FALSE
  <2>1. \A i \in 1..0 : FALSE
    BY SMT
  <2>2. \A x : x \in Range(<<>>) <=> \E i \in 1..Len(<<>>) : <<>>[i] = x
    BY <1>3, InRange
  <2> QED
    BY <1>3, <2>1, <2>2
<1>6. \A b \in Buckets : k.entries[b] = <<>>
  BY <1>2
<1>7. InTable(k) = {} /\ Chained(k) = {}
  <2>1. InTable(k) = {}
    BY <1>4, <1>5, <1>6, TableParts
  <2> QED
    BY <2>1 DEF Chained
<1>8. Good(k)
  BY <1>2, <1>3, <1>5, <1>6, <1>7 DEF Good, Distinct
<1>9. Ordered(k.mru_list, {}) /\ k.num_entries <= MaxCacheEntries
  <2>1. 0 <= MaxCacheEntries
    BY EntriesAssumption, SMT
  <2> QED
    BY <1>2, <1>5, <2>1 DEF Ordered
<1> QED
  BY <1>1, <1>4, <1>8, <1>9 DEF Sound

\* The cache takes part in the protocol of the pending-request list: what it does to the list and
\* to the threads is a step of PendingRequests.tla.
LEMMA CacheStepIsStep == [CacheNext]_cacheVars => [Next]_vars
<1> SUFFICES ASSUME [CacheNext]_cacheVars PROVE [Next]_vars
  OBVIOUS
<1>1. ASSUME NEW c \in Clients,
             \/ \E r \in Requests : resolv_cache_lookup(c, r)
             \/ WokenLookup(c) \/ TimedOutLookup(c)
             \/ \E ttl \in TTLs : AnsweredWith(c, ttl)
             \/ NotAnswered(c)
      PROVE  ClientStep(c)
  <2>1. CASE \E r \in Requests : resolv_cache_lookup(c, r)
    BY <2>1 DEF resolv_cache_lookup, ClientStep
  <2>2. CASE WokenLookup(c) \/ TimedOutLookup(c)
    BY <2>2 DEF WokenLookup, TimedOutLookup, ClientStep
  <2>3. CASE (\E ttl \in TTLs : AnsweredWith(c, ttl)) \/ NotAnswered(c)
    BY <2>3 DEF AnsweredWith, NotAnswered, ClientStep, Finish
  <2> QED
    BY <1>1, <2>1, <2>2, <2>3
<1>2. ASSUME NEW n \in NetIds, CacheNetworkStep(n) PROVE NetworkStep(n)
  BY <1>2 DEF CacheNetworkStep
<1>3. CASE Tick
  BY <1>3 DEF Tick
<1>4. CASE UNCHANGED cacheVars
  BY <1>4 DEF cacheVars, vars
<1> QED
  BY <1>1, <1>2, <1>3, <1>4 DEF CacheNext, Next

\* The first state.
LEMMA CacheInitInv == CacheInit => CacheInv
<1> SUFFICES ASSUME CacheInit PROVE CacheInv
  OBVIOUS
<1>1. EmptyCache \in Caches /\ {} \in SUBSET (Queries \X Queries) /\ 0 \in 0..MaxTime
  <2>1. 0 \in 0..MaxTime
    BY TimeAssumption, SMT
  <2> QED
    BY <2>1, EmptySound DEF Sound
<1>2. CacheTypeOK
  BY <1>1 DEF CacheInit, CacheTypeOK
<1>3. FoundIsRight
  BY DEF CacheInit, FoundIsRight
<1>4. \A n \in NetIds : Sound(cache[n], recency[n])
  BY EmptySound DEF CacheInit
<1> QED
  BY <1>2, <1>3, <1>4 DEF CacheInv

\* Every step keeps the invariant and removes only what may go.
LEMMA CacheStepKeeps == TypeInv /\ CacheInv /\ [CacheNext]_cacheVars => CacheInv' /\ Evictions
<1> SUFFICES ASSUME TypeInv, CacheInv, [CacheNext]_cacheVars PROVE CacheInv' /\ Evictions
  OBVIOUS
<1>1. /\ now \in 0..MaxTime /\ reply \in [Clients -> Replies \cup {NoReply}] /\ FoundIsRight
      /\ \A c \in Clients : pc[c] # "idle" => req[c] \in Requests
  BY DEF TypeInv, Shape, CacheInv, CacheTypeOK, Replies
<1>2. ASSUME NEW c \in Clients, TableNotRead(c), now' = now
      PROVE  CacheInv' /\ Evictions
  <2>1. reply' \in [Clients -> Replies \cup {NoReply}] /\ FoundIsRight'
    BY <1>2, ReplyStep DEF TableNotRead
  <2>2. UNCHANGED <<cache, recency>>
    BY <1>2 DEF TableNotRead
  <2> QED
    BY <1>1, <1>2, <2>1, <2>2, TableAlone, InvParts
<1>3. ASSUME UNCHANGED <<cache, reply, recency>>, now' \in 0..MaxTime
      PROVE  CacheInv' /\ Evictions
  <2>1. reply' \in [Clients -> Replies \cup {NoReply}] /\ FoundIsRight'
    BY <1>1, <1>3 DEF FoundIsRight
  <2>2. UNCHANGED <<cache, recency>>
    BY <1>3
  <2> QED
    BY <1>3, <2>1, <2>2, TableAlone, InvParts
<1>4. ASSUME NEW c \in Clients, NEW r \in Requests, resolv_cache_lookup(c, r)
      PROVE  CacheInv' /\ Evictions
  <2>1. now' = now /\ (TableNotRead(c) \/ \E hit \in Hits : TableRead(c, r, hit))
    BY <1>4 DEF resolv_cache_lookup
  <2> QED
    BY <1>2, <2>1, ReadStep
<1>5. ASSUME NEW c \in Clients, WokenLookup(c) \/ TimedOutLookup(c)
      PROVE  CacheInv' /\ Evictions
  <2>1. /\ now' = now /\ pc[c] # "idle"
        /\ TableNotRead(c) \/ \E hit \in Hits : TableRead(c, req[c], hit)
    BY <1>5 DEF WokenLookup, TimedOutLookup, WakeUp, WaitTimeout
  <2>2. req[c] \in Requests
    BY <1>1, <2>1
  <2> QED
    BY <1>2, <2>1, <2>2, ReadStep
<1>6. ASSUME NEW c \in Clients, NEW ttl \in TTLs, AnsweredWith(c, ttl)
      PROVE  CacheInv' /\ Evictions
  BY <1>6, AddStep
<1>7. ASSUME NEW c \in Clients, NotAnswered(c)
      PROVE  CacheInv' /\ Evictions
  BY <1>1, <1>3, <1>7 DEF NotAnswered
<1>8. ASSUME NEW n \in NetIds, CacheNetworkStep(n)
      PROVE  CacheInv' /\ Evictions
  <2>1. now' = now /\ reply' = reply
    BY <1>8 DEF CacheNetworkStep
  <2>2. reply' \in [Clients -> Replies \cup {NoReply}] /\ FoundIsRight'
    BY <1>1, <2>1 DEF FoundIsRight
  <2>3. cache' = [cache EXCEPT ![n] = EmptyCache] /\ recency' = [recency EXCEPT ![n] = {}]
    BY <1>8 DEF CacheNetworkStep
  <2>4. /\ cache' \in [NetIds -> Caches] /\ recency' \in [NetIds -> SUBSET (Queries \X Queries)]
        /\ \A m \in NetIds : Sound(cache'[m], recency'[m])
        /\ Evictions
    BY <2>3, EmptySound, TableStep
  <2> QED
    BY <1>1, <2>1, <2>2, <2>4, InvParts
<1>9. CASE Tick
  <2>1. now < MaxTime /\ now' = now + 1 /\ UNCHANGED <<cache, reply, recency>>
    BY <1>9 DEF Tick
  <2>2. now' \in 0..MaxTime
    BY <1>1, <2>1, TimeAssumption, SMT
  <2> QED
    BY <1>3, <2>1, <2>2
<1>10. CASE UNCHANGED cacheVars
  BY <1>1, <1>3, <1>10 DEF cacheVars
<1> QED
  BY <1>4, <1>5, <1>6, <1>7, <1>8, <1>9, <1>10 DEF CacheNext

\* What every reachable state of the cache satisfies.
LEMMA CacheInvariant == CacheSpec => [](TypeInv /\ CacheInv)
<1>1. CacheInit => TypeInv
  BY InitTypeInv DEF CacheInit
<1>2. TypeInv /\ CacheInv /\ [CacheNext]_cacheVars => TypeInv' /\ CacheInv'
  BY CacheStepIsStep, NextTypeInv, CacheStepKeeps
<1> QED
  BY <1>1, <1>2, CacheInitInv, PTL DEF CacheSpec

----------------------------------------------------------------------------
(* What the cache promises.                                                 *)

\* A Cache that is sound has as many questions as num_entries says.
LEMMA SoundCounts ==
    ASSUME NEW k \in Caches, Good(k)
    PROVE  Cardinality(Chained(k)) = k.num_entries
<1>1. PICK list \in Seq(Queries) : list = k.mru_list
  BY CacheParts
<1>2. PICK n \in Nat : n = Len(list) /\ n = k.num_entries
  BY <1>1, CacheParts DEF Good
<1>3. list \in [1..n -> Queries] /\ DOMAIN list = 1..n
  <2>1. list \in [1..Len(list) -> Queries]
    BY SMTT(20)
  <2> QED
    BY <1>2, <2>1
<1>4. \A q : q \in Chained(k) <=> \E i \in 1..n : list[i] = q
  BY <1>1, <1>2, ListParts
<1>5. \A i, j \in 1..n : list[i] = list[j] => i = j
  BY <1>1, <1>2 DEF Good, Distinct
<1>6. list \in [1..n -> Chained(k)]
  <2>1. \A i \in 1..n : list[i] \in Chained(k)
    BY <1>4
  <2> QED
    BY <1>3, <2>1
<1>7. list \in Injection(1..n, Chained(k))
  BY <1>3, <1>5, <1>6 DEF Injection, IsInjective
<1>8. list \in Surjection(1..n, Chained(k))
  BY <1>4, <1>6 DEF Surjection
<1>9. ExistsBijection(1..n, Chained(k))
  BY <1>7, <1>8 DEF ExistsBijection, Bijection
<1> QED
  BY <1>2, <1>9, FS_CountingElements

\* A Cache that is sound has no two entries for a question in a chain.
LEMMA SoundChains ==
    ASSUME NEW k \in Caches, Good(k), NEW b \in Buckets,
           NEW i \in 1..Len(k.entries[b]), NEW j \in 1..Len(k.entries[b])
    PROVE  /\ hash[k.entries[b][i].query] % MaxCacheEntries = b
           /\ i # j => k.entries[b][i].query # k.entries[b][j].query
<1>1. PICK chain \in Seq(Entries) : chain = k.entries[b]
  BY CacheParts
<1>2. \A x : x \in Range(chain) <=> \E m \in 1..Len(chain) : chain[m] = x
  BY InRange
<1>3. chain[i] \in Range(chain) /\ chain[j] \in Range(chain)
  BY <1>1, <1>2
<1>4. chain[i] \in InTable(k) /\ chain[j] \in InTable(k)
  BY <1>1, <1>3, TableParts
<1>5. Bucket(chain[i].query) = b
  BY <1>1, <1>3 DEF Good
<1>6. i # j => chain[i] # chain[j]
  BY <1>1 DEF Good, Distinct
<1>7. i # j => chain[i].query # chain[j].query
  BY <1>4, <1>6 DEF Good
<1> QED
  BY <1>1, <1>5, <1>7 DEF Bucket

\* The table, the MRU list and the count of every network agree, whatever was added, evicted,
\* expired, bumped, flushed or deleted, and however questions collide: the relookup after
\* _cache_remove_expired() and _cache_remove_oldest() in resolv_cache_add() is what it takes.
THEOREM TableStaysConsistent == CacheSpec => []TableConsistent
<1>1. CacheInv => TableConsistent
  <2> SUFFICES ASSUME CacheInv, NEW n \in NetIds
               PROVE  LET k == cache[n] IN
                      /\ Len(k.mru_list) = k.num_entries /\ k.num_entries <= MaxCacheEntries
                      /\ Chained(k) = Range(k.mru_list) /\ Cardinality(Chained(k)) = k.num_entries
                      /\ \A b \in Buckets : \A i, j \in 1..Len(k.entries[b]) :
                           /\ hash[k.entries[b][i].query] % MaxCacheEntries = b
                           /\ i # j => k.entries[b][i].query # k.entries[b][j].query
    BY DEF TableConsistent
  <2>1. PICK k \in Caches : k = cache[n] /\ Good(k) /\ k.num_entries <= MaxCacheEntries
    BY DEF CacheInv, Sound
  <2>2. Len(k.mru_list) = k.num_entries /\ Chained(k) = Range(k.mru_list)
    BY <2>1 DEF Good
  <2>3. Cardinality(Chained(k)) = k.num_entries
    BY <2>1, SoundCounts
  <2>4. \A b \in Buckets : \A i, j \in 1..Len(k.entries[b]) :
           /\ hash[k.entries[b][i].query] % MaxCacheEntries = b
           /\ i # j => k.entries[b][i].query # k.entries[b][j].query
    BY <2>1, SoundChains
  <2> QED
    BY <2>1, <2>2, <2>3, <2>4
<1> QED
  BY <1>1, CacheInvariant, PTL

\* RESOLV_CACHE_FOUND always comes with an answer to the question asked that has not expired,
\* although entries of several questions share a bucket or even a hash.
THEOREM FoundStaysRight == CacheSpec => []FoundIsRight
<1>1. CacheInv => FoundIsRight
  BY DEF CacheInv
<1> QED
  BY <1>1, CacheInvariant, PTL

\* Except by a flush or a deletion, resolv_cache_add() and resolv_cache_lookup() drop a valid entry
\* only from a cache full of valid entries, and then the one whose last use lies furthest back.
THEOREM OldestIsEvicted == CacheSpec => EvictsOldest
<1>1. ASSUME CacheInv, Evictions
      PROVE  \A n \in NetIds :
                LET k == cache[n]
                IN  cache'[n] # EmptyCache =>
                      \A e \in InTable(k) \ InTable(cache'[n]) :
                         \/ IsExpired(e)
                         \/ /\ k.num_entries = MaxCacheEntries
                            /\ \A x \in InTable(k) \ {e} :
                                  ~IsExpired(x) /\ <<x.query, e.query>> \in recency[n]
  <2> SUFFICES ASSUME NEW n \in NetIds, NEW k, k = cache[n], cache'[n] # EmptyCache,
                      NEW e \in InTable(k) \ InTable(cache'[n]), ~IsExpired(e)
               PROVE  /\ k.num_entries = MaxCacheEntries
                      /\ \A x \in InTable(k) \ {e} :
                            ~IsExpired(x) /\ <<x.query, e.query>> \in recency[n]
    OBVIOUS
  <2>1. MayGo(k, e)
    BY <1>1 DEF Evictions
  <2>2. \A x, y : Before(k.mru_list, x, y) => <<x, y>> \in recency[n]
    <3>1. Ordered(k.mru_list, recency[n])
      BY <1>1 DEF CacheInv, Sound
    <3> QED
      BY <3>1 DEF Ordered, Before
  <2> QED
    BY <2>1, <2>2 DEF MayGo
<1>2. TypeInv /\ CacheInv /\ [CacheNext]_cacheVars =>
        [\A n \in NetIds :
            LET k == cache[n]
            IN  cache'[n] # EmptyCache =>
                  \A e \in InTable(k) \ InTable(cache'[n]) :
                     \/ IsExpired(e)
                     \/ /\ k.num_entries = MaxCacheEntries
                        /\ \A x \in InTable(k) \ {e} :
                              ~IsExpired(x) /\ <<x.query, e.query>> \in recency[n]]_cacheVars
  BY <1>1, CacheStepKeeps
<1> QED
  BY <1>2, CacheInvariant, PTL DEF EvictsOldest, CacheSpec

\* The cache keeps the promises of the pending-request list: every behaviour of the table and the
\* list together is one of the list alone, so that no wake-up is lost in it either.
THEOREM CacheLosesNoWakeup == CacheSpec => Spec /\ []NoLostWakeup
<1>1. CacheInit => Init
  BY DEF CacheInit
<1>2. CacheSpec => Spec
  BY <1>1, CacheStepIsStep, PTL DEF CacheSpec, Spec
<1> QED
  BY <1>2, WakeupsNotLost, PTL
=============================================================================
