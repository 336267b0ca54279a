---------------------- MODULE DnsProxyListenerProofs ----------------------
(***************************************************************************)
(* For any number of commands, uids and limits: the limiter counts exactly  *)
(* the handlers in progress and keeps to a limit that was in force, and a   *)
(* client gets addresses of the family it asked for.                        *)
(***************************************************************************)
EXTENDS DnsProxyListener, FiniteSetTheorems, TLAPS

\* The places between startQueryLimiter() and endQueryLimiter().
Inside == {"lookup", "synthesis", "finish"}
InProgress == {r \in Requests : handler[r].at \in Inside}

CountInv == TypeOK /\ LimiterExact

\* What a handler has found so far fits the family it was asked for; getaddrinfo never
\* has code 0 and no address once it has looked.
Fits(h) ==
    /\ h.at # "done" => h.sent = "nothing"
    /\ h.family = "AF_INET6" => h.res \subseteq {"v6", "nat64"}
    /\ h.family = "AF_INET" => h.res \subseteq {"v4", "special"}
    /\ h.family = "AF_UNSPEC" /\ "nat64" \in h.res => "v4" \in h.res
    /\ h.cmd = "getaddrinfo" /\ h.rv = "0" /\ h.at \in {"synthesis", "finish", "reply"} => h.res # {}
    /\ h.cmd \in {"getaddrinfo", "gethostbyname"} /\ h.sent = "result" => h.res # {}

FamilyInv == \A r \in Requests : Fits(handler[r])

IInv == CountInv /\ FamilyInv

----------------------------------------------------------------------------
(* Handlers.                                                                *)

\* The other handlers stay, and handler r keeps what it was asked.
Only(r) ==
    /\ \A x \in Requests : x # r => handler'[x] = handler[x]
    /\ handler'[r].cmd = handler[r].cmd /\ handler'[r].uid = handler[r].uid
    /\ handler'[r].family = handler[r].family

\* What a handler that goes on has in its record.
LEMMA GoesFacts ==
    ASSUME handler \in [Requests -> Handler], NEW r \in Requests, NEW l \in Places,
           NEW rv \in {"0"} \cup Errors, NEW res \in SUBSET Addresses, Goes(r, l, rv, res)
    PROVE  /\ handler' \in [Requests -> Handler] /\ Only(r)
           /\ handler'[r].at = l /\ handler'[r].rv = rv /\ handler'[r].res = res
           /\ handler'[r].sent = handler[r].sent
<1> DEFINE h == [handler[r] EXCEPT !.at = l, !.rv = rv, !.res = res]
<1>1. handler' = [handler EXCEPT ![r] = h]
  BY Zenon DEF Goes
<1>2. /\ h \in Handler /\ h.at = l /\ h.rv = rv /\ h.res = res /\ h.sent = handler[r].sent
      /\ h.cmd = handler[r].cmd /\ h.uid = handler[r].uid /\ h.family = handler[r].family
  BY Zenon DEF Handler
<1> HIDE DEF h
<1>3. handler' \in [Requests -> Handler] /\ handler'[r] = h /\ \A x \in Requests : x # r => handler'[x] = handler[x]
  BY <1>1, <1>2, Zenon
<1> QED
  BY <1>2, <1>3, Zenon DEF Only

\* A handler that keeps its code and addresses.
LEMMA StaysFacts ==
    ASSUME handler \in [Requests -> Handler], NEW r \in Requests, NEW l \in Places, Stays(r, l)
    PROVE  /\ handler' \in [Requests -> Handler] /\ Only(r)
           /\ handler'[r].at = l /\ handler'[r].rv = handler[r].rv /\ handler'[r].res = handler[r].res
           /\ handler'[r].sent = handler[r].sent
<1>1. handler[r].rv \in {"0"} \cup Errors /\ handler[r].res \in SUBSET Addresses
  BY Zenon DEF Handler
<1> QED
  BY <1>1, GoesFacts, Zenon DEF Stays

\* A handler that answers its client.
LEMMA SendsFacts ==
    ASSUME handler \in [Requests -> Handler], NEW r \in Requests, NEW what \in {"result", "failure"},
           Sends(r, what)
    PROVE  /\ handler' \in [Requests -> Handler] /\ Only(r)
           /\ handler'[r].at = "done" /\ handler'[r].rv = handler[r].rv /\ handler'[r].res = handler[r].res
           /\ handler'[r].sent = what
<1> DEFINE h == [handler[r] EXCEPT !.at = "done", !.sent = what]
<1>1. handler' = [handler EXCEPT ![r] = h]
  BY Zenon DEF Sends
<1>2. /\ h \in Handler /\ h.at = "done" /\ h.rv = handler[r].rv /\ h.res = handler[r].res /\ h.sent = what
      /\ h.cmd = handler[r].cmd /\ h.uid = handler[r].uid /\ h.family = handler[r].family
  BY Zenon DEF Handler, Places
<1> HIDE DEF h
<1>3. handler' \in [Requests -> Handler] /\ handler'[r] = h /\ \A x \in Requests : x # r => handler'[x] = handler[x]
  BY <1>1, <1>2, Zenon
<1> QED
  BY <1>2, <1>3, Zenon DEF Only

\* The shortcut of gethostbyname for "localhost".
LEMMA LocalhostFacts ==
    ASSUME handler \in [Requests -> Handler], NEW r \in Requests,
           handler' = [handler EXCEPT ![r] = [@ EXCEPT !.at = "done", !.res = {"special"}, !.sent = "result"]]
    PROVE  /\ handler' \in [Requests -> Handler] /\ Only(r)
           /\ handler'[r].at = "done" /\ handler'[r].rv = handler[r].rv /\ handler'[r].res = {"special"}
           /\ handler'[r].sent = "result"
<1> DEFINE h == [handler[r] EXCEPT !.at = "done", !.res = {"special"}, !.sent = "result"]
<1>1. handler' = [handler EXCEPT ![r] = h]
  BY Zenon
<1>2. "done" \in Places /\ {"special"} \in SUBSET Addresses
  BY Zenon DEF Places, Addresses
<1>3. /\ h \in Handler /\ h.at = "done" /\ h.rv = handler[r].rv /\ h.res = {"special"} /\ h.sent = "result"
      /\ h.cmd = handler[r].cmd /\ h.uid = handler[r].uid /\ h.family = handler[r].family
  BY <1>2, Zenon DEF Handler
<1> HIDE DEF h
<1>4. handler' \in [Requests -> Handler] /\ handler'[r] = h /\ \A x \in Requests : x # r => handler'[x] = handler[x]
  BY <1>1, <1>3, Zenon
<1> QED
  BY <1>3, <1>4, Zenon DEF Only

\* A lookup finds an error or addresses of the family.
LEMMA LookupFacts ==
    ASSUME NEW family \in Families, NEW found \in LookupResults(family)
    PROVE  /\ found.rv \in {"0"} \cup Errors /\ found.res \in SUBSET Addresses
           /\ found.res \subseteq OfFamily(family)
           /\ found.rv = "0" => found.res # {}
<1>1. OfFamily(family) \subseteq Addresses
  BY Zenon DEF OfFamily, Addresses
<1>2. CASE found \in {[rv |-> "0", res |-> a] : a \in (SUBSET OfFamily(family)) \ {{}}}
  BY <1>1, <1>2
<1>3. CASE found \in {[rv |-> e, res |-> {}] : e \in {"EAI_NODATA", "EAI_SYSTEM"}}
  BY <1>3 DEF Errors
<1> QED
  BY <1>2, <1>3, Zenon DEF LookupResults

----------------------------------------------------------------------------
(* Counting.                                                                *)

\* The handlers of the uids together are all the handlers in progress.
LEMMA UnionIsAll ==
    ASSUME NEW h \in [Requests -> Handler]
    PROVE  UNION {{r \in Requests : h[r].uid = u /\ h[r].at \in Inside} : u \in KeyType}
             = {r \in Requests : h[r].at \in Inside}
<1> DEFINE B(u) == {r \in Requests : h[r].uid = u /\ h[r].at \in Inside}
           All == {r \in Requests : h[r].at \in Inside}
<1>1. \A u \in KeyType : B(u) \subseteq All
  BY Zenon
<1>2. \A r \in All : h[r].uid \in KeyType /\ r \in B(h[r].uid)
  BY Zenon DEF Handler
<1> HIDE DEF B, All
<1>3. UNION {B(u) : u \in KeyType} = All
  BY <1>1, <1>2, SMT
<1> QED
  BY <1>3, Zenon DEF B, All

\* The sets that are counted are finite.
LEMMA Counted ==
    /\ IsFiniteSet(InProgress) /\ Cardinality(InProgress) \in Nat
    /\ \A u : IsFiniteSet(Between(u)) /\ Cardinality(Between(u)) \in Nat
<1>1. InProgress \in SUBSET Requests /\ \A u : Between(u) \in SUBSET Requests
  BY Zenon DEF Between, InProgress
<1>2. \A S \in SUBSET Requests : IsFiniteSet(S) /\ Cardinality(S) \in Nat
  BY RequestsAssumption, FS_Subset, FS_CardinalityType, Zenon
<1> QED
  BY <1>1, <1>2, Zenon

\* A step in which no handler enters or leaves.
LEMMA NobodyPasses ==
    ASSUME CountInv, handler' \in [Requests -> Handler], NEW r \in Requests, Only(r),
           handler[r].at \in Inside <=> handler'[r].at \in Inside, UNCHANGED limiter
    PROVE  CountInv'
<1>1. \A x \in Requests : handler'[x].uid = handler[x].uid
                          /\ (handler'[x].at \in Inside <=> handler[x].at \in Inside)
  BY Zenon DEF Only
<1>2. \A u : Between(u)' = Between(u)
  BY <1>1, Zenon DEF Between, Inside
<1>3. LimiterExact'
  BY <1>2, Zenon DEF CountInv, LimiterExact, limiter
<1>4. TypeOK'
  BY Zenon DEF CountInv, TypeOK, LimiterTypeOK, limiter
<1> QED
  BY <1>3, <1>4, Zenon DEF CountInv

\* start() counts a handler that enters.
LEMMA OneEnters ==
    ASSUME CountInv, handler' \in [Requests -> Handler], NEW r \in Requests, Only(r),
           handler[r].at \notin Inside, handler'[r].at \in Inside,
           NEW globalLimit, start(handler[r].uid, globalLimit)
    PROVE  CountInv'
<1>k. PICK key \in KeyType : key = handler[r].uid
  BY Zenon DEF CountInv, TypeOK, Handler
<1>1. /\ handler \in [Requests -> Handler]
      /\ mCounters \in [KeyType -> 0..mLimitPerKey] /\ mGlobalCounter \in Nat
  BY Zenon DEF CountInv, TypeOK, LimiterTypeOK, Handler
<1>2. /\ mCounters' = [mCounters EXCEPT ![key] = mCounters[key] + 1]
      /\ mGlobalCounter' = mGlobalCounter + 1 /\ mCounters[key] < mLimitPerKey
  BY <1>k, Zenon DEF start, Allowed
<1>3. /\ Between(key)' = Between(key) \cup {r} /\ r \notin Between(key)
      /\ \A u : u # key => Between(u)' = Between(u)
      /\ InProgress' = InProgress \cup {r} /\ r \notin InProgress
  BY <1>k, Zenon DEF Only, Between, InProgress, Inside
<1>4. /\ Cardinality(Between(key)') = Cardinality(Between(key)) + 1
      /\ Cardinality(InProgress') = Cardinality(InProgress) + 1
  <2>1. \A S, x : IsFiniteSet(S) /\ x \notin S => Cardinality(S \cup {x}) = Cardinality(S) + 1
    BY FS_AddElement, Zenon
  <2> QED
    BY <1>3, <2>1, Counted, Zenon
<1>5. UNION {Between(u) : u \in KeyType} = InProgress
      /\ UNION {Between(u)' : u \in KeyType} = InProgress'
  BY <1>1, UnionIsAll, Zenon DEF Between, InProgress, Inside
<1>6. mCounters' \in [KeyType -> 0..mLimitPerKey] /\ mGlobalCounter' \in Nat
  BY <1>1, <1>2, LimitAssumption
<1>7. mGlobalCounter' = Cardinality(InProgress')
  BY <1>2, <1>4, <1>5, Zenon DEF CountInv, LimiterExact
<1>8. \A u \in KeyType : mCounters'[u] = Cardinality(Between(u)')
  <2>1. mCounters'[key] = mCounters[key] + 1 /\ \A u \in KeyType : u # key => mCounters'[u] = mCounters[u]
    BY <1>1, <1>2, Zenon
  <2>2. \A u \in KeyType : mCounters[u] = Cardinality(Between(u))
    BY Zenon DEF CountInv, LimiterExact
  <2> QED
    BY <1>3, <1>4, <2>1, <2>2, Zenon
<1>9. LimiterExact'
  BY <1>5, <1>7, <1>8, Zenon DEF LimiterExact
<1> QED
  BY <1>6, <1>9, Zenon DEF CountInv, TypeOK, LimiterTypeOK

\* finish() finds the handler counted and takes it off both counters.
LEMMA OneLeaves ==
    ASSUME CountInv, handler' \in [Requests -> Handler], NEW r \in Requests, Only(r),
           handler[r].at \in Inside, handler'[r].at \notin Inside, finish(handler[r].uid)
    PROVE  CountInv'
<1>k. PICK key \in KeyType : key = handler[r].uid
  BY Zenon DEF CountInv, TypeOK, Handler
<1>1. /\ handler \in [Requests -> Handler]
      /\ mCounters \in [KeyType -> 0..mLimitPerKey] /\ mGlobalCounter \in Nat
  BY Zenon DEF CountInv, TypeOK, LimiterTypeOK, Handler
<1>2. /\ Between(key)' = Between(key) \ {r} /\ r \in Between(key)
      /\ \A u : u # key => Between(u)' = Between(u)
      /\ InProgress' = InProgress \ {r} /\ r \in InProgress
  BY <1>k, Zenon DEF Only, Between, InProgress, Inside
<1>3. /\ Cardinality(Between(key)') = Cardinality(Between(key)) - 1
      /\ Cardinality(InProgress') = Cardinality(InProgress) - 1
  <2>1. \A S, x : IsFiniteSet(S) /\ x \in S => Cardinality(S \ {x}) = Cardinality(S) - 1
    BY FS_RemoveElement, Zenon
  <2> QED
    BY <1>2, <2>1, Counted, Zenon
<1>4. UNION {Between(u) : u \in KeyType} = InProgress
      /\ UNION {Between(u)' : u \in KeyType} = InProgress'
  BY <1>1, UnionIsAll, Zenon DEF Between, InProgress, Inside
<1>5. /\ mCounters[key] = Cardinality(Between(key)) /\ mCounters[key] # 0
      /\ mGlobalCounter = Cardinality(InProgress) /\ mGlobalCounter # 0
  <2>1. Cardinality(Between(key)) # 0 /\ Cardinality(InProgress) # 0
    BY <1>1, <1>2, Counted, FS_EmptySet, Zenon
  <2> QED
    BY <1>1, <1>4, <2>1, Zenon DEF CountInv, LimiterExact
<1>6. /\ mGlobalCounter' = mGlobalCounter - 1
      /\ mCounters' = [mCounters EXCEPT ![key] = mCounters[key] - 1]
  BY <1>k, <1>1, <1>5 DEF finish
<1>7. mCounters' \in [KeyType -> 0..mLimitPerKey] /\ mGlobalCounter' \in Nat
  BY <1>1, <1>5, <1>6, LimitAssumption
<1>8. mGlobalCounter' = Cardinality(InProgress')
  BY <1>3, <1>5, <1>6, Zenon
<1>9. \A u \in KeyType : mCounters'[u] = Cardinality(Between(u)')
  <2>1. mCounters'[key] = mCounters[key] - 1 /\ \A u \in KeyType : u # key => mCounters'[u] = mCounters[u]
    BY <1>1, <1>6, Zenon
  <2>2. \A u \in KeyType : mCounters[u] = Cardinality(Between(u))
    BY Zenon DEF CountInv, LimiterExact
  <2> QED
    BY <1>2, <1>3, <2>1, <2>2, Zenon
<1>10. LimiterExact'
  BY <1>4, <1>8, <1>9, Zenon DEF LimiterExact
<1> QED
  BY <1>7, <1>10, Zenon DEF CountInv, TypeOK, LimiterTypeOK

----------------------------------------------------------------------------
(* The limiter is exact.                                                    *)

\* No command has come in and nothing is counted.
LEMMA InitCounts == Init => CountInv
<1> SUFFICES ASSUME Init PROVE CountInv
  BY Zenon
<1>1. handler \in [Requests -> Handler] /\ \A r \in Requests : handler[r].at = "new"
  BY Zenon DEF Init
<1>2. InProgress = {} /\ \A u : Between(u) = {}
  BY <1>1, Zenon DEF InProgress, Between, Inside
<1>3. UNION {Between(u) : u \in KeyType} = InProgress
  BY <1>1, UnionIsAll, Zenon DEF Between, InProgress, Inside
<1>4. mCounters = [key \in KeyType |-> 0] /\ mGlobalCounter = 0
  BY Zenon DEF Init, LimiterInit
<1>5. LimiterExact
  BY <1>2, <1>3, <1>4, FS_EmptySet, Zenon DEF LimiterExact
<1>6. LimiterTypeOK
  BY <1>4, LimitAssumption DEF LimiterTypeOK
<1> QED
  BY <1>1, <1>5, <1>6, Zenon DEF CountInv, TypeOK

\* Synthesis and the lookups it makes find addresses and codes.
LEMMA SynthesisTypes ==
    ASSUME NEW h \in Handler, NEW found \in LookupResults("AF_INET")
    PROVE  /\ afterIPv4(h, found).rv \in {"0"} \cup Errors /\ afterIPv4(h, found).res \in SUBSET {"nat64"}
           /\ WithIPv4(h.res) \in SUBSET Addresses /\ "0" \in {"0"} \cup Errors
           /\ (IF found.res = {} THEN {} ELSE {"v6"}) \in SUBSET {"v6"}
           /\ {"nat64"} \in SUBSET Addresses /\ {"v6"} \in SUBSET Addresses
<1>1. \A res : Synthesized(res) \in SUBSET {"nat64"}
  BY Zenon DEF Synthesized
<1>2. afterIPv4(h, found).rv \in {"0"} \cup Errors /\ afterIPv4(h, found).res \in SUBSET {"nat64"}
  BY <1>1, Zenon DEF afterIPv4, Errors
<1>3. h.res \in SUBSET Addresses
  BY Zenon DEF Handler
<1>4. WithIPv4(h.res) \in SUBSET Addresses
  BY <1>1, <1>3, Zenon DEF WithIPv4, Addresses
<1>5. {"nat64"} \in SUBSET Addresses /\ {"v6"} \in SUBSET Addresses
  BY Zenon DEF Addresses
<1> QED
  BY <1>2, <1>4, <1>5, Zenon

----------------------------------------------------------------------------
(* Each step keeps the invariant.                                           *)

\* A step of one handler, after which it fits.
LEMMA OnlyFits ==
    ASSUME FamilyInv, NEW r \in Requests, Only(r), Fits(handler'[r])
    PROVE  FamilyInv'
  BY Zenon DEF FamilyInv, Only

\* The facts of the invariant each step begins with.
LEMMA Start ==
    ASSUME IInv, NEW r \in Requests
    PROVE  /\ CountInv /\ FamilyInv /\ Fits(handler[r])
           /\ handler \in [Requests -> Handler] /\ handler[r] \in Handler
  BY Zenon DEF IInv, CountInv, TypeOK, FamilyInv

\* A handler that answers with a failure, outside the limiter.
LEMMA FailureStep ==
    ASSUME IInv, NEW r \in Requests, handler[r].at \notin Inside, Sends(r, "failure"), UNCHANGED limiter
    PROVE  IInv'
<1>1. /\ handler' \in [Requests -> Handler] /\ Only(r) /\ handler'[r].at = "done"
      /\ handler'[r].res = handler[r].res /\ handler'[r].sent = "failure"
  BY Start, SendsFacts, Zenon
<1>2. CountInv'
  BY <1>1, Start, NobodyPasses, Zenon DEF Inside
<1>3. Fits(handler'[r])
  BY <1>1, Start DEF Fits, Only
<1> QED
  BY <1>1, <1>2, <1>3, Start, OnlyFits, Zenon DEF IInv

\* A handler that gives up with an error and no address.
LEMMA ErrorStep ==
    ASSUME IInv, NEW r \in Requests, NEW l \in {"finish", "reply"}, NEW e \in Errors, Goes(r, l, e, {}),
           handler[r].at # "done", handler[r].at \in Inside <=> l \in Inside, UNCHANGED limiter
    PROVE  IInv'
<1>1. l \in Places /\ e \in {"0"} \cup Errors /\ {} \in SUBSET Addresses /\ e # "0" /\ l # "done"
  BY Zenon DEF Places, Errors
<1>2. /\ handler' \in [Requests -> Handler] /\ Only(r) /\ handler'[r].at = l
      /\ handler'[r].rv = e /\ handler'[r].res = {} /\ handler'[r].sent = handler[r].sent
  BY <1>1, Start, GoesFacts, Zenon
<1>3. CountInv'
  BY <1>2, Start, NobodyPasses, Zenon
<1>4. Fits(handler'[r])
  BY <1>1, <1>2, Start, Zenon DEF Fits, Only
<1> QED
  BY <1>2, <1>3, <1>4, Start, OnlyFits, Zenon DEF IInv

\* The listener's thread: a failure, "localhost", or a thread for the handler.
LEMMA RunCommandStep ==
    ASSUME IInv, NEW r \in Requests, runCommand(r)
    PROVE  IInv'
<1>1. handler[r].at = "new" /\ handler[r].at \notin Inside /\ UNCHANGED limiter
  BY Zenon DEF runCommand, Inside
<1>2. CASE Sends(r, "failure")
  BY <1>1, <1>2, FailureStep, Zenon
<1>3. CASE /\ handler[r].cmd = "gethostbyname" /\ handler[r].family = "AF_INET"
           /\ handler' = [handler EXCEPT ![r] =
                [@ EXCEPT !.at = "done", !.res = {"special"}, !.sent = "result"]]
  <2>1. /\ handler' \in [Requests -> Handler] /\ Only(r) /\ handler'[r].at = "done"
        /\ handler'[r].res = {"special"} /\ handler'[r].sent = "result"
    BY <1>3, Start, LocalhostFacts, Zenon
  <2>2. CountInv'
    BY <1>1, <2>1, Start, NobodyPasses, Zenon DEF Inside
  <2>3. Fits(handler'[r])
    BY <1>3, <2>1, Zenon DEF Fits, Only
  <2> QED
    BY <2>1, <2>2, <2>3, Start, OnlyFits, Zenon DEF IInv
<1>4. CASE Stays(r, "queued")
  <2>1. "queued" \in Places
    BY Zenon DEF Places
  <2>2. /\ handler' \in [Requests -> Handler] /\ Only(r) /\ handler'[r].at = "queued"
        /\ handler'[r].res = handler[r].res /\ handler'[r].sent = handler[r].sent
    BY <1>4, <2>1, Start, StaysFacts, Zenon
  <2>3. CountInv'
    BY <1>1, <2>2, Start, NobodyPasses, Zenon DEF Inside
  <2>4. Fits(handler'[r])
    BY <1>1, <2>2, Start DEF Fits, Only
  <2> QED
    BY <2>2, <2>3, <2>4, Start, OnlyFits, Zenon DEF IInv
<1> QED
  BY <1>2, <1>3, <1>4, Zenon DEF runCommand, spawn

\* A handler's thread up to the lookup.
LEMMA QueuedStep ==
    ASSUME IInv, NEW r \in Requests, RejectQuery(r) \/ Blocked(r) \/ startQueryLimiter(r)
    PROVE  IInv'
<1>1. handler[r].at = "queued" /\ handler[r].at \notin Inside
  BY Zenon DEF RejectQuery, Blocked, startQueryLimiter, Inside
<1>2. CASE RejectQuery(r)
  BY <1>1, <1>2, FailureStep, Zenon DEF RejectQuery
<1>3. CASE Blocked(r)
  BY <1>1, <1>3, ErrorStep, Zenon DEF Blocked, Errors, Inside
<1>4. CASE startQueryLimiter(r)
  <2>1. PICK globalLimit \in GlobalLimits :
          \/ start(handler[r].uid, globalLimit) /\ Stays(r, "lookup")
          \/ refuse(handler[r].uid, globalLimit) /\ Goes(r, "reply", "EAI_MEMORY", {})
    BY <1>4, Zenon DEF startQueryLimiter
  <2>2. CASE start(handler[r].uid, globalLimit) /\ Stays(r, "lookup")
    <3>1. "lookup" \in Places
      BY Zenon DEF Places
    <3>2. /\ handler' \in [Requests -> Handler] /\ Only(r) /\ handler'[r].at = "lookup"
          /\ handler'[r].res = handler[r].res /\ handler'[r].sent = handler[r].sent
      BY <2>2, <3>1, Start, StaysFacts, Zenon
    <3>3. CountInv'
      BY <1>1, <2>2, <3>2, Start, OneEnters, Zenon DEF Inside
    <3>4. Fits(handler'[r])
      BY <1>1, <3>2, Start DEF Fits, Only
    <3> QED
      BY <3>2, <3>3, <3>4, Start, OnlyFits, Zenon DEF IInv
  <2>3. CASE refuse(handler[r].uid, globalLimit) /\ Goes(r, "reply", "EAI_MEMORY", {})
    BY <1>1, <2>3, ErrorStep, Zenon DEF refuse, limiter, Errors, Inside
  <2> QED
    BY <2>1, <2>2, <2>3, Zenon
<1> QED
  BY <1>2, <1>3, <1>4, Zenon

\* A handler inside the limiter that stays inside, with these addresses and code.
LEMMA InsideStep ==
    ASSUME IInv, NEW r \in Requests, handler[r].at \in Inside, NEW l \in {"synthesis", "finish"},
           NEW rv \in {"0"} \cup Errors, NEW res \in SUBSET Addresses, Goes(r, l, rv, res), UNCHANGED limiter,
           handler[r].family = "AF_INET6" => res \subseteq {"v6", "nat64"},
           handler[r].family = "AF_INET" => res \subseteq {"v4", "special"},
           handler[r].family = "AF_UNSPEC" /\ "nat64" \in res => "v4" \in res,
           handler[r].cmd = "getaddrinfo" /\ rv = "0" => res # {}
    PROVE  IInv'
<1>1. l \in Places /\ l \in Inside /\ l # "done" /\ handler[r].at # "done"
  BY Zenon DEF Places, Inside
<1>2. /\ handler' \in [Requests -> Handler] /\ Only(r) /\ handler'[r].at = l
      /\ handler'[r].rv = rv /\ handler'[r].res = res /\ handler'[r].sent = handler[r].sent
  BY <1>1, Start, GoesFacts, Zenon
<1>3. CountInv'
  BY <1>1, <1>2, Start, NobodyPasses, Zenon
<1>4. handler'[r].sent = "nothing"
  BY <1>1, <1>2, Start, Zenon DEF Fits
<1>5. Fits(handler'[r])
  BY <1>1, <1>2, <1>4, Zenon DEF Fits, Only
<1> QED
  BY <1>2, <1>3, <1>5, Start, OnlyFits, Zenon DEF IInv

\* The lookup fails or finds addresses of the family.
LEMMA LookupStep ==
    ASSUME IInv, NEW r \in Requests, Lookup(r)
    PROVE  IInv'
<1>1. handler[r].at = "lookup" /\ handler[r].at \in Inside /\ UNCHANGED limiter
  BY Zenon DEF Lookup, Inside
<1>2. CASE Goes(r, "finish", "EAI_SYSTEM", {})
  BY <1>1, <1>2, ErrorStep, Zenon DEF Errors, Inside
<1>3. ASSUME NEW found \in LookupResults(handler[r].family), Goes(r, "synthesis", found.rv, found.res)
      PROVE  IInv'
  <2>1. handler[r].family \in Families
    BY Start, Zenon DEF Handler
  <2>2. /\ found.rv \in {"0"} \cup Errors /\ found.res \in SUBSET Addresses
        /\ found.res \subseteq OfFamily(handler[r].family)
        /\ found.rv = "0" => found.res # {}
    BY <2>1, LookupFacts, Zenon
  <2>3. /\ handler[r].family = "AF_INET6" => found.res \subseteq {"v6", "nat64"}
        /\ handler[r].family = "AF_INET" => found.res \subseteq {"v4", "special"}
        /\ handler[r].family = "AF_UNSPEC" => "nat64" \notin found.res
    BY <2>2, Zenon DEF OfFamily
  <2> QED
    BY <1>1, <1>3, <2>2, <2>3, InsideStep, Zenon
<1> QED
  BY <1>2, <1>3, Zenon DEF Lookup

\* DNS64 adds synthesized addresses to usable IPv4 ones, and returns only those where
\* IPv6 was wanted.
LEMMA SynthesisStep ==
    ASSUME IInv, NEW r \in Requests, doDns64Synthesis(r)
    PROVE  IInv'
<1>1. handler[r].at = "synthesis" /\ handler[r].at \in Inside /\ UNCHANGED limiter
  BY Zenon DEF doDns64Synthesis, Inside
<1>2. /\ handler[r].rv \in {"0"} \cup Errors /\ handler[r].res \in SUBSET Addresses
      /\ handler[r].cmd = "getaddrinfo" /\ handler[r].rv = "0" => handler[r].res # {}
  BY <1>1, Start, Zenon DEF Handler, Fits
<1>3. CASE Stays(r, "finish")
  <2>1. /\ handler[r].family = "AF_INET6" => handler[r].res \subseteq {"v6", "nat64"}
        /\ handler[r].family = "AF_INET" => handler[r].res \subseteq {"v4", "special"}
        /\ handler[r].family = "AF_UNSPEC" /\ "nat64" \in handler[r].res => "v4" \in handler[r].res
    BY Start, Zenon DEF Fits
  <2> QED
    BY <1>1, <1>2, <1>3, <2>1, InsideStep, Zenon DEF Stays
<1>4. ASSUME ipv6WantedButNoData(handler[r]), NEW found \in LookupResults("AF_INET"),
             Goes(r, "finish", afterIPv4(handler[r], found).rv, afterIPv4(handler[r], found).res)
      PROVE  IInv'
  <2> DEFINE a == afterIPv4(handler[r], found)
  <2>1. handler[r].family = "AF_INET6"
    BY <1>4, Zenon DEF ipv6WantedButNoData
  <2>2. a.rv \in {"0"} \cup Errors /\ a.res \in SUBSET {"nat64"} /\ {"nat64"} \in SUBSET Addresses
    BY Start, SynthesisTypes, Zenon
  <2>3. handler[r].cmd = "getaddrinfo" /\ a.rv = "0" => a.res # {}
    BY Zenon DEF afterIPv4
  <2> HIDE DEF a
  <2>4. a.res \in SUBSET Addresses /\ a.res \subseteq {"v6", "nat64"}
    BY <2>2, Zenon
  <2>5. Goes(r, "finish", a.rv, a.res)
    BY <1>4, Zenon DEF a
  <2> QED
    BY <1>1, <2>1, <2>2, <2>3, <2>4, <2>5, InsideStep, Zenon
<1>5. ASSUME unspecWantedButNoIPv6(handler[r]), Goes(r, "finish", "0", WithIPv4(handler[r].res))
      PROVE  IInv'
  <2>1. /\ handler[r].family = "AF_UNSPEC" /\ handler[r].res # {}
        /\ handler[r].res \subseteq {"v4", "special"}
    BY <1>2, <1>5, Zenon DEF unspecWantedButNoIPv6, onlyIPv4Answers
  <2>2. "nat64" \in WithIPv4(handler[r].res) => "v4" \in WithIPv4(handler[r].res)
    BY <2>1, Zenon DEF WithIPv4, Synthesized, onlyNonSpecialUseIPv4Addresses
  <2>3. WithIPv4(handler[r].res) # {}
    BY <2>1, Zenon DEF WithIPv4
  <2>4. WithIPv4(handler[r].res) \in SUBSET Addresses /\ "0" \in {"0"} \cup Errors
    BY <2>1, Zenon DEF WithIPv4, Synthesized, Addresses
  <2> QED
    BY <1>1, <1>5, <2>1, <2>2, <2>3, <2>4, InsideStep, Zenon
<1>6. ASSUME reverseWanted(handler[r]), NEW found \in LookupResults("AF_INET"),
             Goes(r, "finish", handler[r].rv, IF found.res = {} THEN {} ELSE {"v6"})
      PROVE  IInv'
  <2> DEFINE res == IF found.res = {} THEN {} ELSE {"v6"}
  <2>1. handler[r].family = "AF_INET6" /\ handler[r].cmd = "gethostbyaddr"
    BY <1>6, Zenon DEF reverseWanted
  <2>2. res \in SUBSET Addresses /\ res \subseteq {"v6", "nat64"}
    BY Zenon DEF Addresses
  <2> HIDE DEF res
  <2>3. Goes(r, "finish", handler[r].rv, res)
    BY <1>6, Zenon DEF res
  <2>4. /\ handler[r].family = "AF_INET6" => res \subseteq {"v6", "nat64"}
        /\ handler[r].family = "AF_INET" => res \subseteq {"v4", "special"}
        /\ handler[r].family = "AF_UNSPEC" /\ "nat64" \in res => "v4" \in res
        /\ handler[r].cmd = "getaddrinfo" /\ handler[r].rv = "0" => res # {}
    BY <2>1, <2>2, Zenon
  <2> QED
    BY <1>1, <1>2, <2>2, <2>3, <2>4, InsideStep, Zenon
<1> QED
  BY <1>3, <1>4, <1>5, <1>6, Zenon DEF doDns64Synthesis

\* endQueryLimiter(), and the answer.
LEMMA EndStep ==
    ASSUME IInv, NEW r \in Requests, endQueryLimiter(r) \/ Reply(r)
    PROVE  IInv'
<1>1. CASE endQueryLimiter(r)
  <2>1. handler[r].at = "finish" /\ Stays(r, "reply") /\ finish(handler[r].uid) /\ "reply" \in Places
    BY <1>1, Zenon DEF endQueryLimiter, Places
  <2>2. /\ handler' \in [Requests -> Handler] /\ Only(r) /\ handler'[r].at = "reply"
        /\ handler'[r].rv = handler[r].rv /\ handler'[r].res = handler[r].res
        /\ handler'[r].sent = handler[r].sent
    BY <2>1, Start, StaysFacts, Zenon
  <2>3. CountInv'
    BY <2>1, <2>2, Start, OneLeaves, Zenon DEF Inside
  <2>4. Fits(handler'[r])
    BY <2>1, <2>2, Start DEF Fits, Only
  <2> QED
    BY <2>2, <2>3, <2>4, Start, OnlyFits, Zenon DEF IInv
<1>2. CASE Reply(r)
  <2> DEFINE what == IF Succeeded(handler[r]) THEN "result" ELSE "failure"
  <2>1. handler[r].at = "reply" /\ Sends(r, what) /\ UNCHANGED limiter /\ what \in {"result", "failure"}
    BY <1>2, Zenon DEF Reply
  <2>2. what = "result" => Succeeded(handler[r])
    BY Zenon
  <2> HIDE DEF what
  <2>3. /\ handler' \in [Requests -> Handler] /\ Only(r) /\ handler'[r].at = "done"
        /\ handler'[r].rv = handler[r].rv /\ handler'[r].res = handler[r].res
        /\ handler'[r].sent = what
    BY <2>1, Start, SendsFacts, Zenon
  <2>4. CountInv'
    BY <2>1, <2>3, Start, NobodyPasses, Zenon DEF Inside
  <2>5. what = "result" /\ handler[r].cmd \in {"getaddrinfo", "gethostbyname"} => handler[r].res # {}
    BY <2>1, <2>2, Start, Zenon DEF Succeeded, Fits
  <2>6. Fits(handler'[r])
    BY <2>1, <2>3, <2>5, Start DEF Fits, Only
  <2> QED
    BY <2>3, <2>4, <2>6, Start, OnlyFits, Zenon DEF IInv
<1> QED
  BY <1>1, <1>2, Zenon

\* Every step keeps the invariant.
LEMMA NextIInv == IInv /\ [Next]_vars => IInv'
<1> SUFFICES ASSUME IInv, [Next]_vars PROVE IInv'
  BY Zenon
<1>1. CASE UNCHANGED vars
  <2>1. CountInv'
    BY <1>1 DEF vars, limiter, IInv, CountInv, TypeOK, LimiterTypeOK, LimiterExact, Between
  <2>2. FamilyInv'
    BY <1>1, Zenon DEF vars, IInv, FamilyInv
  <2> QED
    BY <2>1, <2>2, Zenon DEF IInv
<1>2. CASE \E r \in Requests : HandlerStep(r)
  BY <1>2, RunCommandStep, QueuedStep, LookupStep, SynthesisStep, EndStep, Zenon DEF HandlerStep
<1> QED
  BY <1>1, <1>2, Zenon DEF Next, Done

\* No command has come in, so nothing is counted and nothing found.
LEMMA InitIInv == Init => IInv
<1> SUFFICES ASSUME Init PROVE FamilyInv
  BY InitCounts, Zenon DEF IInv
<1>1. \A r \in Requests : handler[r].at = "new" /\ handler[r].res = {} /\ handler[r].sent = "nothing"
  BY Zenon DEF Init
<1> QED
  BY <1>1, Zenon DEF FamilyInv, Fits

\* The counters and the records of the handlers have their types; in particular the total
\* never gets negative (finish).
THEOREM TypeCorrect == Spec => []TypeOK
<1>1. IInv => TypeOK
  BY Zenon DEF IInv, CountInv
<1> QED
  BY <1>1, InitIInv, NextIInv, PTL DEF Spec

\* For any number of commands and uids the counters are the numbers of handlers between
\* startQueryLimiter() and endQueryLimiter(): no path leaks a slot or returns it twice.
THEOREM LimiterCountsExactly == Spec => []LimiterExact
<1>1. IInv => LimiterExact
  BY Zenon DEF IInv, CountInv
<1> QED
  BY <1>1, InitIInv, NextIInv, PTL DEF Spec

\* A client never gets IPv4 addresses where it wants IPv6 ones, and synthesized ones only
\* beside the IPv4 ones they were made of if it takes both (doDns64Synthesis).
THEOREM FamilyIsRespected == Spec => []FamilyRespected
<1>1. IInv => FamilyRespected
  BY Zenon DEF IInv, FamilyInv, Fits, FamilyRespected
<1> QED
  BY <1>1, InitIInv, NextIInv, PTL DEF Spec

\* No more queries are in progress than the largest of the limits that were in force
\* allows, if the flag has a value at all (OperationLimiter::start).
THEOREM GlobalLimitKept ==
  ASSUME GlobalLimits # {}
  PROVE  Spec => []GlobalLimited
<1>1. IInv /\ GlobalLimited /\ [Next]_vars => GlobalLimited'
  <2> SUFFICES ASSUME IInv, GlobalLimited, [Next]_vars PROVE GlobalLimited'
    BY Zenon
  <2>1. mGlobalCounter \in Nat /\ \A g \in GlobalLimits : Effective(g) \in Nat
    BY FlagAssumption, LimitAssumption, Zenon DEF IInv, CountInv, TypeOK, LimiterTypeOK, Effective
  <2>2. CASE mGlobalCounter' = mGlobalCounter
    BY <2>2, Zenon DEF GlobalLimited, Effective
  <2>3. CASE mGlobalCounter' = mGlobalCounter - 1
    <3>1. PICK g \in GlobalLimits : mGlobalCounter <= Effective(g)
      BY Zenon DEF GlobalLimited
    <3>2. mGlobalCounter' <= Effective(g)
      BY <2>1, <2>3, <3>1
    <3> QED
      BY <3>2, Zenon DEF GlobalLimited, Effective
  <2>4. ASSUME NEW g \in GlobalLimits, NEW r \in Requests, start(handler[r].uid, g) PROVE GlobalLimited'
    <3>1. mGlobalCounter < Effective(g) /\ mGlobalCounter' = mGlobalCounter + 1
      BY <2>4, Zenon DEF start, Allowed
    <3>2. mGlobalCounter' <= Effective(g)
      BY <2>1, <3>1
    <3> QED
      BY <3>2, Zenon DEF GlobalLimited, Effective
  <2> QED
    BY <2>2, <2>3, <2>4, Zenon DEF Next, Done, vars, HandlerStep, runCommand, RejectQuery, Blocked,
         startQueryLimiter, refuse, Lookup, doDns64Synthesis, endQueryLimiter, Reply, finish, limiter
<1>2. Init => GlobalLimited
  <2> SUFFICES ASSUME Init PROVE GlobalLimited
    BY Zenon
  <2>1. PICK g \in GlobalLimits : TRUE
    BY Zenon
  <2>2. mGlobalCounter = 0
    BY Zenon DEF Init, LimiterInit
  <2>3. mGlobalCounter <= Effective(g)
    BY <2>2, FlagAssumption, LimitAssumption DEF Effective
  <2> QED
    BY <2>3, Zenon DEF GlobalLimited
<1> QED
  BY <1>1, <1>2, InitIInv, NextIInv, PTL DEF Spec
============================================================================
