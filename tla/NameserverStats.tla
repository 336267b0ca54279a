--------------------------- MODULE NameserverStats ---------------------------
(***************************************************************************)
(* The nameservers of one network and the samples kept of each of them      *)
(* (NetConfig and the statistics of res_cache.cpp, res_stats.cpp), with the *)
(* lookups of res_nsend() that read them, ask the servers, and write their  *)
(* samples back.                                                            *)
(*                                                                         *)
(* Every operation on NetConfig runs under cache_mutex and is one step; a   *)
(* lookup holds no lock while it asks, so what it read may have changed.    *)
(* Only the first attempt of a lookup records samples: the attempts after   *)
(* it leave this state alone.  Time enters only through the choice whether  *)
(* samples are older than sample_validity.                                  *)
(***************************************************************************)
EXTENDS Integers, Sequences, FiniteSets, FiniteSetsExt

CONSTANTS
    Lookups,            \* threads in res_nsend()
    ServerLists,        \* lists of servers that may be configured
    MaxSampleChoices,   \* values of maxSamples that may be configured
    min_samples, success_threshold,
    MAXNS, MAXNSSAMPLES,
    MaxRevisions        \* bound: the revisions of each network created with this netid

\* No server twice: "the framework filters out duplicates" (res_cache.cpp).
ASSUME ListAssumption ==
    \A l \in ServerLists : \A i, j \in DOMAIN l : l[i] = l[j] => i = j
ASSUME SampleAssumption ==
    /\ MaxSampleChoices \subseteq 0..MAXNSSAMPLES
    /\ min_samples \in Nat \ {0} /\ success_threshold \in 0..100
    /\ MAXNS \in Nat \ {0} /\ MAXNSSAMPLES \in Nat \ {0}

VARIABLES
    config,     \* the NetConfig in sNetConfigMap, or NoConfig
    lookup,     \* what each lookup has read and how far it is
    created,    \* networks created so far
    log         \* history, for each server since its samples were cleared: whether all
                \* came from lookups that began on the present network and, as long
                \* as they do, the last MAXNSSAMPLES of them

vars == <<config, lookup, created, log>>

Slots == 0..(MAXNSSAMPLES - 1)

\* A sample: whether its rcode counts as a success and, as history, the list seen by
\* the lookup that recorded it.  A slot never written holds zeros, and 0 is NOERROR.
Zeros == [ok |-> TRUE, list |-> <<>>]

NoStats == [samples |-> [s \in Slots |-> Zeros], sample_count |-> 0, sample_next |-> 0]

NoConfig == [nameservers |-> <<>>, revision_id |-> -1, max_samples |-> 0,
             nsstats |-> [i \in 1..MAXNS |-> NoStats]]

NoLog == [i \in 1..MAXNS |-> [taken |-> <<>>, own |-> TRUE]]

Idle == [at |-> "idle", nsaddrs |-> <<>>, list |-> <<>>, net |-> 0, revision_id |-> -1,
         max_samples |-> 0, usable |-> {}, ns |-> 0, useTcp |-> FALSE, first |-> TRUE]

Init ==
    /\ config = NoConfig
    /\ lookup = [c \in Lookups |-> Idle]
    /\ created = 0
    /\ log = NoLog

Exists == config # NoConfig

----------------------------------------------------------------------------
(* Configuration                                                            *)

resolv_create_cache_for_net ==
    /\ ~Exists /\ created < Len(MaxRevisions)
    /\ config' = [NoConfig EXCEPT !.revision_id = 0]
    /\ created' = created + 1
    /\ log' = NoLog
    /\ UNCHANGED lookup

resolv_delete_cache_for_net ==
    /\ Exists
    /\ config' = NoConfig
    /\ UNCHANGED <<lookup, created, log>>

\* Mutant: a list longer than MAXNS is stored whole.
filter_nameservers_Whole(l) == l

filter_nameservers(l) == SubSeq(l, 1, Min({Len(l), MAXNS}))

Emptied(st) == [st EXCEPT !.sample_count = 0, !.sample_next = 0]

\* The slots keep what is in them.
res_cache_clear_stats_locked(conf) ==
    [conf EXCEPT !.nsstats = [i \in 1..MAXNS |-> Emptied(@[i])], !.revision_id = @ + 1]

\* Compares sets: the order does not count.
resolv_is_nameservers_equal(olds, news) ==
    {olds[i] : i \in DOMAIN olds} = {news[i] : i \in DOMAIN news}

\* Mutant: with a new list, samples of lookups that began before are still accepted.
afterSet_SameRevision(conf, l, max) ==
    IF ~resolv_is_nameservers_equal(conf.nameservers, l) /\ max = conf.max_samples
    THEN [conf EXCEPT !.nsstats = [i \in 1..MAXNS |-> Emptied(@[i])],
             !.nameservers = filter_nameservers(l)]
    ELSE IF max # conf.max_samples
         THEN [res_cache_clear_stats_locked(conf) EXCEPT
                 !.nameservers = filter_nameservers(l), !.max_samples = max]
         ELSE conf

\* The present list is compared with the whole new one, before it is cut to MAXNS.
afterSet(conf, l, max) ==
    IF ~resolv_is_nameservers_equal(conf.nameservers, l)
    THEN [res_cache_clear_stats_locked(conf) EXCEPT
             !.nameservers = filter_nameservers(l), !.max_samples = max]
    ELSE IF max # conf.max_samples
         THEN [res_cache_clear_stats_locked(conf) EXCEPT !.max_samples = max]
         ELSE conf

\* The history starts again when the statistics are cleared, as they are whenever the
\* list or the maximum changes.
Cleared(conf, l, max) ==
    ~resolv_is_nameservers_equal(conf.nameservers, l) \/ max # conf.max_samples

\* A list with an address that cannot be parsed is refused before the lock is taken.
resolv_set_nameservers(l, max) ==
    /\ Exists /\ config.revision_id < MaxRevisions[created]
    /\ config' = afterSet(config, l, max)
    /\ log' = IF Cleared(config, l, max) THEN NoLog ELSE log
    /\ UNCHANGED <<lookup, created>>

resolv_flush_cache_for_net ==
    /\ Exists /\ config.revision_id < MaxRevisions[created]
    /\ config' = res_cache_clear_stats_locked(config)
    /\ log' = NoLog
    /\ UNCHANGED <<lookup, created>>

----------------------------------------------------------------------------
(* Statistics                                                               *)

\* Mutant: the sample in the last place, wherever the next one goes.
LastSample_Place(st) == st.samples[st.sample_count - 1]

\* android_net_res_stats_aggregate(): the sample that gives last_sample_time.
LastSample(st) ==
    st.samples[IF st.sample_next > 0 THEN st.sample_next - 1 ELSE st.sample_count - 1]

\* Whether the statistics speak against a server; stale samples do not.
res_stats_usable_server(st, stale) ==
    LET total     == st.sample_count
        successes == Cardinality({s \in 0..(total - 1) : st.samples[s].ok})
    IN  total >= min_samples /\ (successes * 100) \div total < success_threshold => stale

\* The statistics of each server a lookup has, found by address; none are found of
\* a server that is no longer configured.
StatsOf(conf, nsaddrs) == [i \in DOMAIN nsaddrs |->
    LET found == {j \in DOMAIN conf.nameservers : conf.nameservers[j] = nsaddrs[i]}
    IN  IF found = {} THEN NoStats ELSE conf.nsstats[Min(found)]]

\* "If there are no usable servers, consider all of them usable."
UsableServers(stats, stale) ==
    LET good == {i \in DOMAIN stats : res_stats_usable_server(stats[i], stale[i])}
    IN  IF good = {} THEN DOMAIN stats ELSE good

res_cache_add_stats_sample_locked(st, sample, max) ==
    [samples      |-> [st.samples EXCEPT ![st.sample_next] = sample],
     sample_count |-> IF st.sample_count < max THEN st.sample_count + 1 ELSE st.sample_count,
     sample_next  |-> IF st.sample_next + 1 >= max THEN 0 ELSE st.sample_next + 1]

----------------------------------------------------------------------------
(* Lookups: the part of res_nsend() that asks servers in the clear          *)

\* resolv_populate_res_for_net(); a lookup that finds no server ends.
resolv_populate_res_for_net(c) ==
    /\ lookup[c].at = "idle" /\ Exists /\ config.nameservers # <<>>
    /\ lookup' = [lookup EXCEPT ![c] = [@ EXCEPT !.at = "stats", !.nsaddrs = config.nameservers]]
    /\ UNCHANGED <<config, created, log>>

\* resolv_cache_get_resolver_stats() and the choice of servers: all usable ones, one
\* of them when the query may not be retried, every one when they are sorted.  A large
\* query starts with TCP.
resolv_cache_get_resolver_stats(c) ==
    /\ lookup[c].at = "stats"
    /\ IF ~Exists THEN lookup' = [lookup EXCEPT ![c] = Idle]
       ELSE \E stale \in [DOMAIN lookup[c].nsaddrs -> BOOLEAN] :
              LET usable == UsableServers(StatsOf(config, lookup[c].nsaddrs), stale) IN
              \E chosen \in {usable, DOMAIN lookup[c].nsaddrs} \cup {{i} : i \in usable},
                 large \in BOOLEAN :
                lookup' = [lookup EXCEPT ![c] = [@ EXCEPT
                    !.at = "ask", !.usable = chosen, !.ns = 1, !.useTcp = large,
                    !.revision_id = config.revision_id, !.max_samples = config.max_samples,
                    !.list = config.nameservers, !.net = created]]
    /\ UNCHANGED <<config, created, log>>

\* The last k elements of a history, or all of it.
LastOf(h, k) == SubSeq(h, Len(h) - Min({k, Len(h)}) + 1, Len(h))

\* resolv_cache_add_resolver_stats_sample(): which place takes the sample of server s,
\* if any does.
TakesSample(l, s) ==
    IF l.max_samples > 0 /\ Exists /\ config.revision_id = l.revision_id
    THEN {j \in DOMAIN config.nameservers : config.nameservers[j] = s} ELSE {}

resolv_cache_add_resolver_stats_sample(l, s, ok) ==
    LET sample == [ok |-> ok, list |-> l.list]
        j      == Min(TakesSample(l, s))
    IN  IF TakesSample(l, s) = {} THEN UNCHANGED <<config, log>>
        ELSE /\ config' = [config EXCEPT !.nsstats[j] =
                             res_cache_add_stats_sample_locked(@, sample, l.max_samples)]
             /\ log' = [log EXCEPT ![j] =
                          IF @.own /\ l.net = created
                          THEN [@ EXCEPT !.taken = LastOf(Append(@, sample), MAXNSSAMPLES)]
                          ELSE [taken |-> <<>>, own |-> FALSE]]

\* The server after ns, or the end of the first attempt.
Goto(l, ns, useTcp, first) ==
    IF ns \notin DOMAIN l.nsaddrs \/ ~first THEN Idle
    ELSE [l EXCEPT !.ns = ns, !.useTcp = useTcp, !.first = first]

\* Server ns is not asked.
Skip(c) ==
    LET l == lookup[c] IN
    /\ l.at = "ask" /\ l.ns \notin l.usable
    /\ lookup' = [lookup EXCEPT ![c] = Goto(l, l.ns + 1, l.useTcp, l.first)]
    /\ UNCHANGED <<config, created, log>>

\* send_dg() to server ns.  An answer may be a late one, of a server asked before; a
\* truncated one is recorded as an internal error and asked for again over TCP.  An
\* attempt that the network restricts is not recorded.
send_dg(c) ==
    LET l == lookup[c] IN
    /\ l.at = "ask" /\ l.ns \in l.usable /\ ~l.useTcp
    /\ \/ /\ \/ \E actualNs \in {i \in l.usable : i <= l.ns}, ok \in BOOLEAN :
                  resolv_cache_add_resolver_stats_sample(l, l.nsaddrs[actualNs], ok)
             \/ UNCHANGED <<config, log>>
          /\ lookup' = [lookup EXCEPT ![c] = Idle]
       \/ /\ \/ resolv_cache_add_resolver_stats_sample(l, l.nsaddrs[l.ns], FALSE)
             \/ UNCHANGED <<config, log>>
          /\ lookup' = [lookup EXCEPT ![c] = Goto(l, l.ns + 1, FALSE, TRUE)]
       \/ /\ resolv_cache_add_resolver_stats_sample(l, l.nsaddrs[l.ns], FALSE)
          /\ lookup' = [lookup EXCEPT ![c] = Goto(l, l.ns, TRUE, TRUE)]
    /\ UNCHANGED created

\* send_vc() to server ns: "at most one attempt per server", and it counts as the
\* last attempt, so that no sample is recorded after it.
send_vc(c) ==
    LET l == lookup[c] IN
    /\ l.at = "ask" /\ l.ns \in l.usable /\ l.useTcp
    /\ \/ \E ok \in BOOLEAN : resolv_cache_add_resolver_stats_sample(l, l.nsaddrs[l.ns], ok)
       \/ UNCHANGED <<config, log>>
    /\ lookup' = [lookup EXCEPT ![c] = Goto(l, l.ns + 1, TRUE, FALSE)]
    /\ UNCHANGED created

LookupStep(c) ==
    \/ resolv_populate_res_for_net(c) \/ resolv_cache_get_resolver_stats(c)
    \/ Skip(c) \/ send_dg(c) \/ send_vc(c)

Next ==
    \/ resolv_create_cache_for_net \/ resolv_delete_cache_for_net
    \/ \E l \in ServerLists, max \in MaxSampleChoices : resolv_set_nameservers(l, max)
    \/ resolv_flush_cache_for_net
    \/ \E c \in Lookups : LookupStep(c)

Spec == Init /\ [][Next]_vars

----------------------------------------------------------------------------

Lists == {<<>>} \cup {filter_nameservers(l) : l \in ServerLists}

TypeOK ==
    /\ config.nameservers \in Lists /\ Len(config.nameservers) <= MAXNS
    /\ config.revision_id \in -1..Max({MaxRevisions[n] : n \in DOMAIN MaxRevisions})
    /\ config.max_samples \in {0} \cup MaxSampleChoices
    /\ \A i \in 1..MAXNS :
         config.nsstats[i] \in [samples: [Slots -> [ok: BOOLEAN, list: Lists]],
                               sample_count: 0..MAXNSSAMPLES, sample_next: Slots]
    /\ \A c \in Lookups : lookup[c].at \in {"idle", "stats", "ask"}

\* The samples counted, oldest first, as the ring is meant to be read.
RingOf(st, max) ==
    [i \in 1..st.sample_count |-> st.samples[(st.sample_next - st.sample_count + i - 1 + max) % max]]

\* The ring of each server holds the last max_samples samples recorded since the
\* statistics were cleared, in their order, and the one taken for the latest is the
\* latest ("Stats of the last <sample_count> queries", stats.h): a new maximum does not
\* disturb it (res_cache_add_stats_sample_locked, android_net_res_stats_aggregate).  Only
\* a lookup that outlived its network can, which brings the maximum of the old one.
RingIsWindow ==
    \A i \in {j \in DOMAIN config.nameservers : log[j].own} :
        LET st    == config.nsstats[i]
            taken == log[i].taken
        IN
        /\ st.sample_count = Min({Len(taken), config.max_samples})
        /\ st.sample_count > 0 =>
             /\ RingOf(st, config.max_samples) = LastOf(taken, config.max_samples)
             /\ LastSample(st) = taken[Len(taken)]

\* A lookup that has servers always asks one (android_net_res_stats_get_usable_servers).
SomeServerAsked ==
    \A c \in Lookups : lookup[c].at = "ask" => lookup[c].usable # {}

\* "Increment the revision id to ensure that sample state is not written back if the
\* servers change" (res_cache.cpp:1799): a sample counted was measured by a lookup that
\* saw the present servers.  The exception is, again, the ring of a server that took a
\* sample from a lookup that outlived its network: the revisions of a network created
\* again count from 0, and the old lookup's may match by coincidence.
NotWrittenBack ==
    \A i \in {j \in DOMAIN config.nameservers : log[j].own} :
        LET st == config.nsstats[i] IN
        \A s \in 0..(st.sample_count - 1) : st.samples[s].list = config.nameservers
============================================================================
