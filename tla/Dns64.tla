------------------------------- MODULE Dns64 -------------------------------
(***************************************************************************)
(* Dns64Configuration: the NAT64 prefix of each network, set by the caller  *)
(* or found by a detached discovery thread (RFC 7050), and the events told  *)
(* to the listeners.  Each action is one critical section of mMutex, or one *)
(* step of a discovery thread between two of them.                          *)
(***************************************************************************)
EXTENDS Integers

CONSTANTS
    NetIds,
    Prefixes,    \* /96 IPv6 prefixes
    NoPrefix,    \* an uninitialized IPPrefix
    IdCount,     \* discovery ids are 0 .. IdCount - 1 (2^32 in the code)
    MaxStarts,   \* bound: calls of startPrefixDiscovery()
    NoConfig     \* a network without an entry in mDns64Configs

\* Fewer discoveries than ids are started before a discovery thread ends.
ASSUME IdAssumption == IdCount \in Nat /\ MaxStarts \in Nat /\ MaxStarts < IdCount
ASSUME PrefixAssumption == NoPrefix \notin Prefixes

kNoDiscoveryId == 0

VARIABLES
    mDns64Configs,  \* per network: a Dns64Config, or NoConfig
    mNextId,
    starts,         \* discovery threads started; thread t is the t-th of them
    pc,             \* where each discovery thread is
    cfg,            \* evalCfg of each thread
    told,           \* per network: the prefix the listeners believe in
    latest          \* per network: the discovery in progress or over, 0 when stopped

vars == <<mDns64Configs, mNextId, starts, pc, cfg, told, latest>>

Threads == 1..MaxStarts
Ids == 0..(IdCount - 1)
AnyPrefix == Prefixes \cup {NoPrefix}
Dns64Config == [discoveryId: Ids, netId: NetIds, prefix64: AnyPrefix]
isFromPrefixDiscovery(c) == c.discoveryId # kNoDiscoveryId

ASSUME NoConfigAssumption == NoConfig \notin Dns64Config

TypeOK ==
    /\ mDns64Configs \in [NetIds -> Dns64Config \cup {NoConfig}]
    /\ mNextId \in Ids
    /\ starts \in 0..MaxStarts
    /\ pc \in [Threads -> {"none", "check", "query", "record", "recheck", "wait", "ended"}]
    /\ cfg \in [Threads -> {c \in Dns64Config : isFromPrefixDiscovery(c)} \cup {NoConfig}]
    /\ told \in [NetIds -> AnyPrefix]
    /\ latest \in [NetIds -> 0..MaxStarts]

\* No constructor initializes mNextId: it may start anywhere.
Init ==
    /\ mDns64Configs = [n \in NetIds |-> NoConfig]
    /\ mNextId \in Ids
    /\ starts = 0
    /\ pc = [t \in Threads |-> "none"]
    /\ cfg = [t \in Threads |-> NoConfig]
    /\ told = [n \in NetIds |-> NoPrefix]
    /\ latest = [n \in NetIds |-> 0]

\* "Picks the next discovery ID. Never returns kNoDiscoveryId."
getNextId(i) == IF i + 1 = IdCount THEN 1 ELSE i + 1

Config(id, n, pfx) == [discoveryId |-> id, netId |-> n, prefix64 |-> pfx]

\* The entry of n belongs to a discovery, in progress or over.
Discovering(n) == mDns64Configs[n] # NoConfig /\ isFromPrefixDiscovery(mDns64Configs[n])

\* What the listeners believe once the entry of n has been removed.
\* Mutant: the removal of a discovered prefix is not reported.
ToldRemoved_Silent(n) == told[n]

ToldRemoved(n) ==
    IF Discovering(n) /\ mDns64Configs[n].prefix64 # NoPrefix THEN NoPrefix ELSE told[n]

isDiscoveryInProgress(c) ==
    /\ mDns64Configs[c.netId] # NoConfig
    /\ mDns64Configs[c.netId].discoveryId = c.discoveryId

----------------------------------------------------------------------------
(* Callers                                                                  *)

startPrefixDiscovery(n) ==
    /\ starts < MaxStarts
    /\ LET c == Config(getNextId(mNextId), n, NoPrefix)
       IN  /\ mNextId' = getNextId(mNextId)
           /\ mDns64Configs' = [mDns64Configs EXCEPT ![n] = c]
           /\ cfg' = [cfg EXCEPT ![starts + 1] = c]
    /\ told' = [told EXCEPT ![n] = ToldRemoved(n)]
    /\ starts' = starts + 1
    /\ pc' = [pc EXCEPT ![starts + 1] = "check"]
    /\ latest' = [latest EXCEPT ![n] = starts + 1]

\* notify_all() ends every thread's wait, those of other networks included.
stopPrefixDiscovery(n) ==
    /\ mDns64Configs' = [mDns64Configs EXCEPT ![n] = NoConfig]
    /\ told' = [told EXCEPT ![n] = ToldRemoved(n)]
    /\ latest' = [latest EXCEPT ![n] = 0]
    /\ pc' = [t \in Threads |-> IF pc[t] = "wait" THEN "check" ELSE pc[t]]
    /\ UNCHANGED <<mNextId, starts, cfg>>

\* -EEXIST, and no change, while a discovery owns the entry.
setPrefix64(n, pfx) ==
    /\ ~Discovering(n)
    /\ mDns64Configs' = [mDns64Configs EXCEPT ![n] = Config(kNoDiscoveryId, n, pfx)]
    /\ UNCHANGED <<mNextId, starts, pc, cfg, told, latest>>

\* -ENOENT, and no change, without a prefix that was set.
clearPrefix64(n) ==
    /\ mDns64Configs[n] # NoConfig /\ ~Discovering(n)
    /\ mDns64Configs' = [mDns64Configs EXCEPT ![n] = NoConfig]
    /\ UNCHANGED <<mNextId, starts, pc, cfg, told, latest>>

----------------------------------------------------------------------------
(* A discovery thread                                                       *)

Goto(t, l) == pc' = [pc EXCEPT ![t] = l]

\* Mutant: a thread does not notice that it has been superseded.
shouldContinueDiscovery_Always(t, from, to) ==
    /\ pc[t] = from
    /\ Goto(t, to)
    /\ UNCHANGED <<mDns64Configs, mNextId, starts, cfg, told, latest>>

\* Before each query and after each failed one.  The back-off sequence has no
\* maximum count: hasNextTimeout() holds for ever.
shouldContinueDiscovery(t, from, to) ==
    /\ pc[t] = from
    /\ Goto(t, IF isDiscoveryInProgress(cfg[t]) THEN to ELSE "ended")
    /\ UNCHANGED <<mDns64Configs, mNextId, starts, cfg, told, latest>>

\* The lookup of ipv4only.arpa. fails, or its first address gives the prefix.
doRfc7050PrefixDiscovery(t) ==
    /\ pc[t] = "query"
    /\ \/ Goto(t, "recheck") /\ UNCHANGED cfg
       \/ \E pfx \in Prefixes :
            /\ cfg' = [cfg EXCEPT ![t] = Config(cfg[t].discoveryId, cfg[t].netId, pfx)]
            /\ Goto(t, "record")
    /\ UNCHANGED <<mDns64Configs, mNextId, starts, told, latest>>

\* Mutant: the result of a discovery is recorded whatever happened meanwhile.
recordDns64Config_Late(t) ==
    /\ pc[t] = "record"
    /\ mDns64Configs' = [mDns64Configs EXCEPT ![cfg[t].netId] = cfg[t]]
    /\ told' = [told EXCEPT ![cfg[t].netId] = cfg[t].prefix64]
    /\ Goto(t, "ended")
    /\ UNCHANGED <<mNextId, starts, cfg, latest>>

recordDns64Config(t) ==
    /\ pc[t] = "record"
    /\ IF isDiscoveryInProgress(cfg[t])
       THEN /\ mDns64Configs' = [mDns64Configs EXCEPT ![cfg[t].netId] = cfg[t]]
            /\ told' = [told EXCEPT ![cfg[t].netId] = cfg[t].prefix64]
       ELSE UNCHANGED <<mDns64Configs, told>>
    /\ Goto(t, "ended")
    /\ UNCHANGED <<mNextId, starts, cfg, latest>>

\* The wait ends by itself (stopPrefixDiscovery() ends it too).  Starting a new
\* discovery does not notify: the old thread sleeps on.
WaitOver(t) ==
    /\ pc[t] = "wait"
    /\ Goto(t, "check")
    /\ UNCHANGED <<mDns64Configs, mNextId, starts, cfg, told, latest>>

ThreadStep(t) ==
    \/ shouldContinueDiscovery(t, "check", "query")
    \/ doRfc7050PrefixDiscovery(t)
    \/ recordDns64Config(t)
    \/ shouldContinueDiscovery(t, "recheck", "wait")
    \/ WaitOver(t)

CallerStep(n) ==
    \/ startPrefixDiscovery(n)
    \/ stopPrefixDiscovery(n)
    \/ \E pfx \in Prefixes : setPrefix64(n, pfx)
    \/ clearPrefix64(n)

Next == (\E n \in NetIds : CallerStep(n)) \/ (\E t \in Threads : ThreadStep(t))

Spec == Init /\ [][Next]_vars

\* Discovery threads are scheduled, their lookups return and their waits time
\* out; the callers owe nothing.
FairSpec == Spec /\ \A t \in Threads : WF_vars(ThreadStep(t))

----------------------------------------------------------------------------

\* The listeners believe in a prefix of a network exactly when a discovery found
\* it and its entry is still there: additions and removals alternate and none is
\* lost, whatever starts, stops, set prefixes and late threads come in between
\* (reportNat64PrefixStatus).
ToldIsDiscovered ==
    \A n \in NetIds :
        told[n] = IF Discovering(n) THEN mDns64Configs[n].prefix64 ELSE NoPrefix

\* A prefix is recorded only by the discovery that was started last on its
\* network, and never after that network's discovery was stopped: ids tell the
\* discoveries apart although mNextId is not initialized and wraps around
\* (recordDns64Config).
RecordedByLatest ==
    [][\A t \in Threads :
         /\ pc[t] = "record" /\ pc'[t] = "ended"
         /\ UNCHANGED <<starts, latest>> /\ mDns64Configs' # mDns64Configs
         => latest[cfg[t].netId] = t]_vars

\* A discovery that was stopped or superseded ends its thread, even when no
\* lookup ever succeeds ("running resolution threads can notice they are no
\* longer the most recent resolution attempt").
SupersededEnds ==
    \A t \in Threads :
        (pc[t] # "none" /\ latest[cfg[t].netId] # t) ~> pc[t] = "ended"
============================================================================
