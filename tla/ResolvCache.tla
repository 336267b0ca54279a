---------------------------- MODULE ResolvCache ----------------------------
(***************************************************************************)
(* The answer cache of res_cache.cpp: a hash table with collision chains,   *)
(* an MRU list through the same entries, an entry count, and expiry times.  *)
(*                                                                         *)
(* Each action is one of PendingRequests.tla (which says who registers,     *)
(* waits and is woken) together with what the same function does to the     *)
(* table under the same cache_mutex.                                        *)
(***************************************************************************)
EXTENDS PendingRequests, Sequences, FiniteSets, Functions

CONSTANTS
    MaxCacheEntries,  \* max_cache_entries, also the number of buckets
    TTLs,             \* what answer_getTTL() can return
    MaxTime,          \* bound on the clock
    NoReply

ASSUME HashesAssumption  == Hashes \subseteq Nat
ASSUME EntriesAssumption == MaxCacheEntries \in Nat \ {0}
ASSUME TimeAssumption    == TTLs \subseteq Nat /\ MaxTime \in Nat

VARIABLES
    cache,  \* cache[n]: the Cache of network n
    now,    \* _time_now()
    reply,  \* per thread: the entry the last FOUND returned, for which request
    recency \* history: <<x, y>> if x was added or returned after y, for questions in the table

cacheVars == <<nets, pending, timeouts, pc, req, status, calls, cache, now, reply, recency>>

Buckets == 0..(MaxCacheEntries - 1)
Entries == [query: Queries, expires: Nat]

\* An empty Cache: no chain, no MRU entry.
EmptyCache == [entries |-> [b \in Buckets |-> <<>>], mru_list |-> <<>>, num_entries |-> 0]

Caches == [entries: [Buckets -> Seq(Entries)], mru_list: Seq(Queries), num_entries: Nat]

CacheTypeOK ==
    /\ cache \in [NetIds -> Caches]
    /\ now \in 0..MaxTime
    /\ reply \in [Clients -> [asked: Requests, entry: Entries, at: 0..MaxTime] \cup {NoReply}]
    /\ recency \in [NetIds -> SUBSET (Queries \X Queries)]

----------------------------------------------------------------------------
(* The table.  k is a Cache.                                                *)

\* Where a question is in its chain, or the place after the chain's end.  The
\* questions of the model are what entry_equals() tells apart.
cache_lookup_p(k, q) ==
    LET b == hash[q] % MaxCacheEntries
        chain == k.entries[b]
    IN  [bucket |-> b,
         at |-> CHOOSE i \in 1..(Len(chain) + 1) :
                  /\ i <= Len(chain) => chain[i].query = q
                  /\ \A j \in 1..(i - 1) : chain[j].query # q]

IsNull(k, lookup)  == lookup.at > Len(k.entries[lookup.bucket])
EntryAt(k, lookup) == k.entries[lookup.bucket][lookup.at]

\* *lookup = e.  A place that is no longer the end of its chain belongs to a
\* freed entry: what is stored there is not linked into the table.
cache_add_p(k, lookup, e) ==
    [entries |-> [k.entries EXCEPT ![lookup.bucket] =
                    IF lookup.at = Len(@) + 1 THEN Append(@, e) ELSE @],
     mru_list |-> <<e.query>> \o k.mru_list,
     num_entries |-> k.num_entries + 1]

\* A list without its i-th element, and the MRU list without question q.
Without(s, i) == [j \in 1..(Len(s) - 1) |-> IF j < i THEN s[j] ELSE s[j + 1]]
entry_mru_remove(list, q) == Without(list, CHOOSE i \in DOMAIN list : list[i] = q)

cache_remove_p(k, lookup) ==
    [entries |-> [k.entries EXCEPT ![lookup.bucket] = Without(@, lookup.at)],
     mru_list |-> entry_mru_remove(k.mru_list, EntryAt(k, lookup).query),
     num_entries |-> k.num_entries - 1]

cache_remove_oldest(k) ==
    LET lookup == cache_lookup_p(k, k.mru_list[Len(k.mru_list)])
    IN  IF IsNull(k, lookup) THEN k ELSE cache_remove_p(k, lookup)

\* Mutant: an entry is still valid in the second it expires.
IsExpired_OffByOne(e) == now > e.expires

IsExpired(e) == now >= e.expires

\* Walk the MRU list and drop what is no longer valid.  (An entry of the list that is not in
\* the table, which "should not happen" and by TableConsistent does not, is passed over.)
Visited(k, q) ==
    LET lookup == cache_lookup_p(k, q)
    IN  IF ~IsNull(k, lookup) /\ IsExpired(EntryAt(k, lookup)) THEN cache_remove_p(k, lookup) ELSE k

cache_remove_expired(k) ==
    LET walk[i \in 0..Len(k.mru_list)] == IF i = 0 THEN k ELSE Visited(walk[i - 1], k.mru_list[i])
    IN  walk[Len(k.mru_list)]

\* A full cache loses its expired entries, and its oldest if that is not enough.
MakeRoom(k) ==
    LET kk == cache_remove_expired(k)
    IN  IF k.num_entries < MaxCacheEntries THEN k
        ELSE IF kk.num_entries < MaxCacheEntries THEN kk
        ELSE cache_remove_oldest(kk)

\* Mutant: the place found before room was made is used ("It looks useless").
resolv_cache_add_NoRelookup(k, q, ttl) ==
    LET lookup == cache_lookup_p(k, q)
    IN  IF ~IsNull(k, lookup) THEN k
        ELSE LET kk == MakeRoom(k)
             IN  IF ttl = 0 THEN kk
                 ELSE cache_add_p(kk, lookup, [query |-> q, expires |-> ttl + now])

\* resolv_cache_add() on the table: an entry that is there already stays (even
\* expired); the place is looked up again once room has been made.
resolv_cache_add(k, q, ttl) ==
    IF ~IsNull(k, cache_lookup_p(k, q)) THEN k
    ELSE LET kk == MakeRoom(k)
         IN  IF ttl = 0 THEN kk
             ELSE cache_add_p(kk, cache_lookup_p(kk, q), [query |-> q, expires |-> ttl + now])

\* What resolv_cache_lookup() finds; `fits`: the answer fits the buffer.
HitOf(k, q, fits) ==
    LET lookup == cache_lookup_p(k, q)
    IN  IF IsNull(k, lookup) THEN "MISS"
        ELSE IF IsExpired(EntryAt(k, lookup)) THEN "STALE"
        ELSE IF ~fits THEN "TOO_LONG" ELSE "FRESH"

\* Mutant: a returned entry keeps its place in the MRU list.
AfterHit_NoBump(k, q, hit) ==
    IF hit = "STALE" THEN cache_remove_p(k, cache_lookup_p(k, q)) ELSE k

\* A stale entry is removed, a returned one becomes the most recently used.
AfterHit(k, q, hit) ==
    IF hit = "STALE" THEN cache_remove_p(k, cache_lookup_p(k, q))
    ELSE IF hit = "FRESH" THEN [k EXCEPT !.mru_list = <<q>> \o entry_mru_remove(@, q)]
    ELSE k

----------------------------------------------------------------------------
(* Actions.                                                                 *)

CacheInit ==
    /\ Init
    /\ cache = [n \in NetIds |-> EmptyCache]
    /\ now = 0
    /\ reply = [c \in Clients |-> NoReply]
    /\ recency = [n \in NetIds |-> {}]

InTable(k) == UNION {Range(k.entries[b]) : b \in Buckets}
Chained(k) == {e.query : e \in InTable(k)}

\* The order of the questions in the table, once q has just been added or returned.
MoreRecent(left, order, q) == {p \in left \X left : p[2] # q /\ p[1] # p[2] /\ (p[1] = q \/ p \in order)}

Used(n, q) == recency' = [recency EXCEPT ![n] = MoreRecent(Chained(cache'[n]), @, q)]

\* The lookup of request r reads the table and finds `hit`.
TableRead(c, r, hit) ==
    LET k == cache[r.netid]
    IN  /\ \E fits \in BOOLEAN : hit = HitOf(k, r.query, fits)
        /\ cache' = [cache EXCEPT ![r.netid] = AfterHit(k, r.query, hit)]
        /\ reply' = [reply EXCEPT ![c] =
             IF hit = "FRESH"
             THEN [asked |-> r, entry |-> EntryAt(k, cache_lookup_p(k, r.query)), at |-> now]
             ELSE NoReply]
        /\ IF hit = "FRESH" THEN Used(r.netid, r.query) ELSE UNCHANGED recency

TableNotRead(c) ==
    /\ reply' = [reply EXCEPT ![c] = NoReply]
    /\ UNCHANGED <<cache, recency>>

ReadsTable(r) == ~BypassesCache(r.flags) /\ r.query \notin Malformed /\ r.netid \in nets

resolv_cache_lookup(c, r) ==
    /\ \E hit \in Hits :
         /\ Lookup(c, r, hit)
         /\ IF ReadsTable(r) THEN TableRead(c, r, hit) ELSE hit = "MISS" /\ TableNotRead(c)
    /\ UNCHANGED now

\* The second look at the table, after cv.wait_for() returned: woken,
WokenLookup(c) ==
    /\ \E hit \in Hits :
         /\ WakeUp(c, hit)
         /\ IF WaitIsOver(c) /\ req[c].netid \in nets
            THEN TableRead(c, req[c], hit) ELSE hit = "MISS" /\ TableNotRead(c)
    /\ UNCHANGED now

\* or timed out.
TimedOutLookup(c) ==
    /\ \E hit \in Hits : WaitTimeout(c, hit) /\ TableRead(c, req[c], hit)
    /\ UNCHANGED now

AnsweredWith(c, ttl) ==
    /\ Answered(c)
    /\ LET r == req[c] IN
       IF status[c] = "NOTFOUND" /\ r.query \notin Malformed /\ r.netid \in nets
       THEN /\ cache' = [cache EXCEPT ![r.netid] = resolv_cache_add(@, r.query, ttl)]
            /\ IF r.query \in Chained(cache[r.netid])
               THEN UNCHANGED recency ELSE Used(r.netid, r.query)
       ELSE UNCHANGED <<cache, recency>>
    /\ UNCHANGED <<now, reply>>

NotAnswered(c) ==
    /\ resolv_cache_query_failed(c) \/ NetworkGone(c) \/ FirstError(c)
    /\ UNCHANGED <<cache, now, reply, recency>>

\* A new, a flushed and a destroyed Cache are all empty.
CacheNetworkStep(n) ==
    /\ NetworkStep(n)
    /\ cache' = [cache EXCEPT ![n] = EmptyCache]
    /\ recency' = [recency EXCEPT ![n] = {}]
    /\ UNCHANGED <<now, reply>>

Tick == now < MaxTime /\ now' = now + 1 /\ UNCHANGED <<vars, cache, reply, recency>>

CacheNext ==
    \/ \E c \in Clients :
         \/ \E r \in Requests : resolv_cache_lookup(c, r)
         \/ WokenLookup(c)
         \/ TimedOutLookup(c)
         \/ \E ttl \in TTLs : AnsweredWith(c, ttl)
         \/ NotAnswered(c)
    \/ \E n \in NetIds : CacheNetworkStep(n)
    \/ Tick

CacheSpec == CacheInit /\ [][CacheNext]_cacheVars

\* The fairness of PendingRequests: its actions leave the outcome of the table open, so a
\* step of this module that ends a request or wakes a thread is a step of theirs.
FairCacheSpec == CacheSpec /\ Fairness

----------------------------------------------------------------------------
(* Properties.                                                              *)

\* The hash table and the MRU list hold the same questions, each once, in the
\* bucket its hash selects; num_entries counts them and never exceeds
\* max_cache_entries, whatever was added, evicted, expired or flushed.
TableConsistent ==
    \A n \in NetIds : LET k == cache[n] IN
        /\ Len(k.mru_list) = k.num_entries /\ k.num_entries <= MaxCacheEntries
        /\ Chained(k) = Range(k.mru_list) /\ Cardinality(Chained(k)) = k.num_entries
        /\ \A b \in Buckets : \A i, j \in 1..Len(k.entries[b]) :
             /\ hash[k.entries[b][i].query] % MaxCacheEntries = b
             /\ i # j => k.entries[b][i].query # k.entries[b][j].query

\* RESOLV_CACHE_FOUND returns an answer to the very question asked, although
\* questions share buckets and hashes, and only before the answer's TTL is over.
FoundIsRight ==
    \A c \in Clients : reply[c] # NoReply =>
        /\ reply[c].entry.query = reply[c].asked.query
        /\ reply[c].at < reply[c].entry.expires

\* "a trivial least-recently-used expiration policy": except by a flush or a
\* deletion, a valid entry is lost only from a cache full of valid entries, and
\* only if every other entry was added or returned after it.
EvictsOldest ==
    [][\A n \in NetIds :
         LET k == cache[n]
         IN  cache'[n] # EmptyCache =>
                \A e \in InTable(k) \ InTable(cache'[n]) :
                   \/ IsExpired(e)
                   \/ /\ k.num_entries = MaxCacheEntries
                      /\ \A x \in InTable(k) \ {e} : ~IsExpired(x) /\ <<x.query, e.query>> \in recency[n]
      ]_cacheVars
============================================================================
