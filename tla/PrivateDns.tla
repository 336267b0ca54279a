---------------------------- MODULE PrivateDns ----------------------------
(***************************************************************************)
(* PrivateDnsConfiguration: the private DNS mode of each network, the DoT   *)
(* servers with their validation states, the detached validation threads,   *)
(* the DoH server of each network, and the events told to the listeners.    *)
(*                                                                         *)
(* Every action is one critical section of mPrivateDnsLock, or one step of  *)
(* the ResolverController call that surrounds it.                           *)
(***************************************************************************)
EXTENDS Integers, FiniteSets

CONSTANTS
    NetIds,
    Servers,      \* IP addresses
    Names,        \* private DNS hostnames (strict mode)
    NoName,       \* "": opportunistic mode
    Marks,
    DdrIds,       \* DoH servers that dohParams may name, as <<ip, host>>
    Controllers,  \* binder threads inside ResolverController
    MaxRunning,   \* bound on the threads alive for one server
    Nobody        \* no server, no DoH server, no controller call

ASSUME RunningAssumption == MaxRunning \in Nat
ASSUME DdrAssumption == DdrIds \subseteq Servers \X (Names \cup {NoName})

VARIABLES
    nets,         \* networks with a cache (resolv_create_cache_for_net)
    modes,        \* mPrivateDnsModes; "NONE": no entry
    mDotTracker,  \* per network and identity: a DnsTlsServer, or Nobody
    mDohTracker,  \* per network: [id, status], or Nobody
    running,      \* how many validation threads are at each place
    asked,        \* doh_net_new() calls made: late answers may still arrive
    reported,     \* per network and identity: last onPrivateDnsValidationEvent
    job           \* per controller: the call in progress, or Nobody

vars == <<nets, modes, mDotTracker, mDohTracker, running, asked, reported, job>>

ServerIdentity == Servers \X (Names \cup {NoName})
Modes == {"NONE", "OFF", "OPPORTUNISTIC", "STRICT"}
Validation == {"in_process", "success", "success_but_expired", "fail", "unknown_server"}
DnsTlsServer == [active: BOOLEAN, validation: Validation, mark: Marks]

\* A validation thread: what it was started with, and where it is.
Threads == [netid: NetIds, id: ServerIdentity, isRevalidation: BOOLEAN,
            at: {"validate", "backoff"}]
Jobs == [op: {"set", "clear"}, netid: NetIds]
ASSUME NobodyAssumption == Nobody \notin DnsTlsServer /\ Nobody \notin Jobs

TypeOK ==
    /\ nets \subseteq NetIds
    /\ modes \in [NetIds -> Modes]
    /\ mDotTracker \in [NetIds -> [ServerIdentity -> DnsTlsServer \cup {Nobody}]]
    /\ mDohTracker \in [NetIds -> [id: ServerIdentity, status: Validation] \cup {Nobody}]
    /\ running \in [Threads -> Nat]
    /\ asked \subseteq NetIds \X ServerIdentity
    /\ reported \in [NetIds -> [ServerIdentity -> {"none", "success", "fail"}]]
    /\ job \in [Controllers -> Jobs \cup {Nobody}]

NoServers == [id \in ServerIdentity |-> Nobody]

Init ==
    /\ nets = {}
    /\ modes = [n \in NetIds |-> "NONE"]
    /\ mDotTracker = [n \in NetIds |-> NoServers]
    /\ mDohTracker = [n \in NetIds |-> Nobody]
    /\ running = [t \in Threads |-> 0]
    /\ asked = {}
    /\ reported = [n \in NetIds |-> [id \in ServerIdentity |-> "none"]]
    /\ job = [k \in Controllers |-> Nobody]

----------------------------------------------------------------------------
(* set()                                                                    *)

ModeFor(servers, name) ==
    IF name # NoName THEN "STRICT" ELSE IF servers # {} THEN "OPPORTUNISTIC" ELSE "OFF"

needsValidation(s) ==
    s.active /\ s.validation \in {"unknown_server", "fail", "success_but_expired"}

\* The server known under an identity once the wanted ones have been added and
\* the others made inactive ("deem the validation result ... as unreliable").
Configured(n, id, wanted, mark) ==
    LET s == IF mDotTracker[n][id] = Nobody
             THEN [active |-> TRUE, validation |-> "unknown_server", mark |-> mark]
             ELSE mDotTracker[n][id]
    IN  [active |-> id \in wanted,
         validation |-> IF id \notin wanted /\ s.validation = "success"
                        THEN "success_but_expired" ELSE s.validation,
         mark |-> s.mark]

Known(n, wanted) == {id \in ServerIdentity : mDotTracker[n][id] # Nobody} \cup wanted

\* The identities whose validation is started.
Starting(n, wanted, mark) ==
    {id \in Known(n, wanted) : needsValidation(Configured(n, id, wanted, mark))}

Thread(n, id, reval, at) == [netid |-> n, id |-> id, isRevalidation |-> reval, at |-> at]

\* One thread per identity.  The delays of mBackoffBuilder have no maximum count:
\* hasNextTimeout() holds for ever.
startDotValidation(n, ids, reval) ==
    /\ \A id \in ids : running[Thread(n, id, reval, "validate")]
                         + running[Thread(n, id, reval, "backoff")] < MaxRunning
    /\ running' = [t \in Threads |->
        IF t.netid = n /\ t.id \in ids /\ t.isRevalidation = reval /\ t.at = "validate"
        THEN running[t] + 1 ELSE running[t]]

setDot(n, wanted, mark) ==
    /\ mDotTracker' = [mDotTracker EXCEPT ![n] = [id \in ServerIdentity |->
         IF id \notin Known(n, wanted) THEN Nobody
         ELSE [Configured(n, id, wanted, mark) EXCEPT
                 !.validation = IF id \in Starting(n, wanted, mark) THEN "in_process" ELSE @]]]
    /\ startDotValidation(n, Starting(n, wanted, mark), FALSE)

clearDoh(n) == mDohTracker' = [mDohTracker EXCEPT ![n] = Nobody] /\ UNCHANGED asked

\* What makeDohIdentity() can return: a provider's server, one found by DDR, none.
DohIdentities(servers, name) == (servers \X {name}) \cup DdrIds \cup {Nobody}

\* Reached only if resolv_stats_set_addrs() in setDot() found the network.
setDoh(n, doh) ==
    \/ n \notin nets /\ UNCHANGED <<mDohTracker, asked>>
    \/ n \in nets /\ doh = Nobody /\ clearDoh(n)
    \/ /\ n \in nets /\ doh # Nobody
       /\ IF mDohTracker[n] = [id |-> doh, status |-> "success"]
          THEN UNCHANGED <<mDohTracker, asked>>
          ELSE /\ mDohTracker' = [mDohTracker EXCEPT ![n] = [id |-> doh, status |-> "in_process"]]
               /\ asked' = asked \cup {<<n, doh>>}

set(n, mark, servers, name, doh) ==
    LET mode == ModeFor(servers, name) IN
    /\ modes' = [modes EXCEPT ![n] = mode]
    /\ IF mode = "OFF"
       THEN /\ mDotTracker' = [mDotTracker EXCEPT ![n] = NoServers]
            /\ clearDoh(n)
            /\ UNCHANGED running
       ELSE /\ setDot(n, servers \X {name}, mark)
            /\ setDoh(n, doh)
    /\ UNCHANGED reported

----------------------------------------------------------------------------
(* ResolverController                                                       *)

createNetworkCache(k, n) ==
    /\ job[k] = Nobody /\ n \notin nets
    /\ nets' = nets \cup {n}
    /\ UNCHANGED <<modes, mDotTracker, mDohTracker, running, asked, reported, job>>

\* setResolverConfiguration(): has_named_cache() is tested first ...
BeginSet(k, n) ==
    /\ job[k] = Nobody /\ n \in nets
    /\ job' = [job EXCEPT ![k] = [op |-> "set", netid |-> n]]
    /\ UNCHANGED <<nets, modes, mDotTracker, mDohTracker, running, asked, reported>>

\* ... and PrivateDnsConfiguration::set() is called later.
FinishSet(k) ==
    /\ job[k] # Nobody /\ job[k].op = "set"
    /\ \E mark \in Marks, servers \in SUBSET Servers, name \in Names \cup {NoName} :
       \E doh \in DohIdentities(servers, name) : set(job[k].netid, mark, servers, name, doh)
    /\ job' = [job EXCEPT ![k] = Nobody]
    /\ UNCHANGED nets

\* destroyNetworkCache(): the cache is deleted first ...
BeginDestroy(k, n) ==
    /\ job[k] = Nobody
    /\ nets' = nets \ {n}
    /\ job' = [job EXCEPT ![k] = [op |-> "clear", netid |-> n]]
    /\ UNCHANGED <<modes, mDotTracker, mDohTracker, running, asked, reported>>

\* ... and the private DNS configuration later.
\* Mutant: the DoH state outlives the network.
clear_KeepsDoh(k) ==
    /\ job[k] # Nobody /\ job[k].op = "clear"
    /\ modes' = [modes EXCEPT ![job[k].netid] = "NONE"]
    /\ mDotTracker' = [mDotTracker EXCEPT ![job[k].netid] = NoServers]
    /\ job' = [job EXCEPT ![k] = Nobody]
    /\ UNCHANGED <<nets, running, reported, mDohTracker, asked>>

clear(k) ==
    /\ job[k] # Nobody /\ job[k].op = "clear"
    /\ LET n == job[k].netid IN
       /\ modes' = [modes EXCEPT ![n] = "NONE"]
       /\ mDotTracker' = [mDotTracker EXCEPT ![n] = NoServers]
       /\ clearDoh(n)
    /\ job' = [job EXCEPT ![k] = Nobody]
    /\ UNCHANGED <<nets, running, reported>>

----------------------------------------------------------------------------
(* Validation                                                               *)

updateServerState(n, id, state) ==
    mDotTracker' = IF mDotTracker[n][id] = Nobody THEN mDotTracker
                   ELSE [mDotTracker EXCEPT ![n][id].validation = state]

\* DnsTlsDispatcher asks for a revalidation after repeated timeouts.
requestDotValidation(n, id, mark) ==
    /\ modes[n] = "OPPORTUNISTIC"
    /\ mDotTracker[n][id] # Nobody
    /\ LET s == mDotTracker[n][id]
       IN  s.active /\ s.validation = "success" /\ s.mark = mark
    /\ updateServerState(n, id, "in_process")
    /\ startDotValidation(n, {id}, TRUE)
    /\ UNCHANGED <<nets, modes, mDohTracker, asked, reported, job>>

Goto(t, at) == running' = [running EXCEPT ![t] = @ - 1, ![[t EXCEPT !.at = at]] = @ + 1]
End(t)      == running' = [running EXCEPT ![t] = @ - 1]

\* A failure is not reported while the other transport works.
needReportDot(n, id, success) ==
    success \/ mDohTracker[n] # [id |-> id, status |-> "success"]
\* Mutant: a DoH failure is reported although DoT works.
needReportDoh_Always(n, id, success) == TRUE

needReportDoh(n, id, success) ==
    \/ success
    \/ \A x \in ServerIdentity : x[1] = id[1] /\ mDotTracker[n][x] # Nobody =>
            mDotTracker[n][x].validation # "success"

Report(n, id, success, needed) ==
    reported' = IF needed
                THEN [reported EXCEPT ![n][id] = IF success THEN "success" ELSE "fail"]
                ELSE reported

\* Whether a thread that saw `success` must try again, and what its result
\* counts for if its server is no longer wanted.
reevaluate(t, success) ==
    /\ ~success /\ modes[t.netid] # "OFF"
    /\ ~(modes[t.netid] = "OPPORTUNISTIC" /\ ~t.isRevalidation)

\* Mutant: the result for an inactive server is dropped.
recordDotValidation_IgnoresInactive(t, success) ==
    LET n == t.netid
        s == mDotTracker[n][t.id]
        again == reevaluate(t, success)
    IN  /\ t.at = "validate" /\ running[t] > 0
        /\ IF s = Nobody \/ ~s.active
           THEN End(t) /\ UNCHANGED <<mDotTracker, reported>>
           ELSE /\ Report(n, t.id, success, needReportDot(n, t.id, success))
                /\ updateServerState(n, t.id, IF success THEN "success"
                                              ELSE IF again THEN "in_process" ELSE "fail")
                /\ IF again THEN Goto(t, "backoff") ELSE End(t)
        /\ UNCHANGED <<nets, modes, mDohTracker, asked, job>>

\* recordDotValidation(), called by thread t when validate() returned.
recordDotValidation(t, success) ==
    LET n == t.netid
        s == mDotTracker[n][t.id]
        wanted == s # Nobody /\ s.active
        good   == success /\ wanted
        again  == wanted /\ reevaluate(t, success)
    IN  /\ t.at = "validate" /\ running[t] > 0
        /\ IF modes[n] \in {"NONE", "OFF"}  \* no entry in mDotTracker
           THEN End(t) /\ UNCHANGED <<mDotTracker, reported>>
           ELSE /\ Report(n, t.id, good, needReportDot(n, t.id, good))
                /\ updateServerState(n, t.id, IF good THEN "success"
                                              ELSE IF again THEN "in_process" ELSE "fail")
                /\ IF again THEN Goto(t, "backoff") ELSE End(t)
        /\ UNCHANGED <<nets, modes, mDohTracker, asked, job>>

\* Mutant: a waiting thread is not told that its network is gone.
BackoffOver_NotWoken(t) ==
    /\ t.at = "backoff" /\ running[t] > 0
    /\ modes[t.netid] # "NONE" /\ Goto(t, "validate")
    /\ UNCHANGED <<nets, modes, mDotTracker, mDohTracker, asked, reported, job>>

\* mCv.wait_for() returned: the network is gone, or the delay has passed.
BackoffOver(t) ==
    /\ t.at = "backoff" /\ running[t] > 0
    /\ IF modes[t.netid] = "NONE" THEN End(t) ELSE Goto(t, "validate")
    /\ UNCHANGED <<nets, modes, mDotTracker, mDohTracker, asked, reported, job>>

\* The DoH dispatcher reports on a server it was given at some time.
onDohStatusUpdate(n, id, success) ==
    /\ <<n, id>> \in asked
    /\ IF mDohTracker[n] = Nobody
          \/ (mDohTracker[n].id[1] # id[1] /\ mDohTracker[n].id[2] # id[2])
       THEN UNCHANGED <<mDohTracker, reported>>
       ELSE /\ mDohTracker' = [mDohTracker EXCEPT ![n] =
                    [id |-> @.id, status |-> IF success THEN "success" ELSE "fail"]]
            /\ Report(n, id, success, needReportDoh(n, id, success))
    /\ UNCHANGED <<nets, modes, mDotTracker, running, asked, job>>

ControllerStep(k) ==
    \/ \E n \in NetIds : createNetworkCache(k, n) \/ BeginSet(k, n) \/ BeginDestroy(k, n)
    \/ FinishSet(k)
    \/ clear(k)

ThreadStep(t) == (\E success \in BOOLEAN : recordDotValidation(t, success)) \/ BackoffOver(t)

Next ==
    \/ \E k \in Controllers : ControllerStep(k)
    \/ \E t \in Threads : ThreadStep(t)
    \/ \E n \in NetIds, id \in ServerIdentity :
         \/ \E mark \in Marks : requestDotValidation(n, id, mark)
         \/ \E success \in BOOLEAN : onDohStatusUpdate(n, id, success)

Spec == Init /\ [][Next]_vars

\* A validation thread runs on: its connection attempt and its delay end.
FairSpec == Spec /\ \A t \in Threads : WF_vars(ThreadStep(t))

----------------------------------------------------------------------------
(* Properties                                                               *)

Alive(n, id) == {t \in Threads : t.netid = n /\ t.id = id /\ running[t] > 0}

InProcess(n, id) == mDotTracker[n][id] # Nobody /\ mDotTracker[n][id].validation = "in_process"

\* A server is never left in_process for good: some validation thread is still
\* working on it and will record a result, whatever reconfigurations, OFF
\* modes, destroyed networks and overlapping threads came in between.  set()
\* starts no validation for an in_process server, so it would stay unusable.
InProcessHasThread ==
    \A n \in NetIds, id \in ServerIdentity : InProcess(n, id) => Alive(n, id) # {}

\* With one controller call at a time, a destroyed network keeps no private DNS
\* configuration (destroyNetworkCache against setResolverConfiguration).
NoConfigLeft ==
    \A n \in NetIds \ nets : (\A k \in Controllers : job[k] = Nobody) =>
        modes[n] = "NONE" /\ mDotTracker[n] = NoServers /\ mDohTracker[n] = Nobody

\* If the last validation event about a server was a failure, no query is sent
\* to it over TLS: the events and the states used by res_private_dns_send agree.
ReportedFailureIsReal ==
    \A n \in NetIds, id \in ServerIdentity :
        reported[n][id] = "fail" /\ mDotTracker[n][id] # Nobody =>
            mDotTracker[n][id].validation # "success"

\* The threads of a network that stays destroyed all end ("Notify the relevant
\* private DNS validations, if they are waiting, to finish").
ThreadsEnd ==
    \A n \in NetIds : <>[](modes[n] = "NONE") =>
        <>[](\A t \in Threads : t.netid = n => running[t] = 0)
============================================================================
