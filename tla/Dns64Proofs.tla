---------------------------- MODULE Dns64Proofs ----------------------------
(***************************************************************************)
(* Proofs about Dns64: what the listeners know, and that discovery ids tell *)
(* discoveries apart although mNextId starts anywhere and wraps around.     *)
(***************************************************************************)
EXTENDS Dns64, TLAPS

\* Entries are filed under their own network; thread t exists iff t <= starts.
FiledInv ==
    /\ \A n \in NetIds : mDns64Configs[n] # NoConfig => mDns64Configs[n].netId = n
    /\ \A t \in Threads : (pc[t] # "none") = (t <= starts)
    /\ \A t \in Threads : (cfg[t] # NoConfig) = (t <= starts)

\* Going once around the ids 1 .. IdCount - 1 takes IdCount - 1 starts: mNextId is
\* as far from the id of thread t as there were starts since, up to one turn.
IdInv ==
    \A t \in Threads : t <= starts =>
        LET ahead == cfg[t].discoveryId + (starts - t)
        IN  mNextId = ahead \/ mNextId = ahead - (IdCount - 1)

\* The id in a network's entry is the one of its latest discovery.
LatestInv ==
    \A n \in NetIds : Discovering(n) =>
        /\ latest[n] \in Threads /\ latest[n] <= starts
        /\ cfg[latest[n]].discoveryId = mDns64Configs[n].discoveryId

IInv == TypeOK /\ FiledInv /\ IdInv /\ LatestInv /\ ToldIsDiscovered

----------------------------------------------------------------------------

\* getNextId() stays among the ids and never gives kNoDiscoveryId.
LEMMA NextIdType ==
    ASSUME NEW i \in Ids, NEW k \in Nat, k < MaxStarts
    PROVE  getNextId(i) \in Ids \ {kNoDiscoveryId}
  BY IdAssumption DEF getNextId, Ids, kNoDiscoveryId

\* A discovery's configuration, whatever its prefix, is well typed.
LEMMA ConfigType ==
    ASSUME NEW id \in Ids, NEW n \in NetIds, NEW pfx \in AnyPrefix
    PROVE  /\ Config(id, n, pfx) \in Dns64Config
           /\ Config(id, n, pfx) # NoConfig
           /\ Config(id, n, pfx).discoveryId = id
           /\ Config(id, n, pfx).netId = n
           /\ Config(id, n, pfx).prefix64 = pfx
  BY NoConfigAssumption DEF Config, Dns64Config

\* What TypeOK says of a thread that exists.
LEMMA CfgType ==
    ASSUME TypeOK, FiledInv, NEW t \in Threads, t <= starts
    PROVE  /\ cfg[t] \in Dns64Config /\ cfg[t].discoveryId \in Ids
           /\ cfg[t].discoveryId # kNoDiscoveryId
           /\ cfg[t].netId \in NetIds /\ cfg[t].prefix64 \in AnyPrefix
  BY Zenon DEF TypeOK, FiledInv, isFromPrefixDiscovery, Dns64Config

\* Two discoveries never have the same id.
LEMMA IdsDiffer ==
    ASSUME TypeOK, FiledInv, IdInv,
           NEW t \in Threads, NEW u \in Threads, t <= starts, u <= starts,
           cfg[t].discoveryId = cfg[u].discoveryId
    PROVE  t = u
  <1>1. /\ cfg[t].discoveryId \in Int /\ starts \in Int /\ mNextId \in Int
        /\ starts <= MaxStarts
    BY CfgType, IdAssumption DEF TypeOK, Ids
  <1>2. \A v \in {t, u} : LET ahead == cfg[v].discoveryId + (starts - v)
                          IN  mNextId = ahead \/ mNextId = ahead - (IdCount - 1)
    BY Zenon DEF IdInv
  <1>3. t \in Int /\ u \in Int /\ t >= 1 /\ u >= 1
    BY IdAssumption DEF Threads
  <1>4. QED
    BY <1>1, <1>2, <1>3, IdAssumption

\* Initially there is no configuration and no thread.
LEMMA InitIInv == Init => IInv
  <1> SUFFICES ASSUME Init PROVE IInv
    BY Zenon
  <1>1. TypeOK
    BY IdAssumption DEF Init, TypeOK, AnyPrefix
  <1>2. FiledInv
    BY IdAssumption DEF Init, FiledInv, Threads
  <1>3. IdInv
    BY IdAssumption DEF Init, IdInv, Threads
  <1>4. LatestInv /\ ToldIsDiscovered
    BY Zenon DEF Init, LatestInv, ToldIsDiscovered, Discovering
  <1>5. QED
    BY <1>1, <1>2, <1>3, <1>4, Zenon DEF IInv

\* startPrefixDiscovery() takes a fresh id.
LEMMA StartStep ==
    ASSUME IInv, NEW n \in NetIds, startPrefixDiscovery(n)
    PROVE  IInv'
  <1> DEFINE id == getNextId(mNextId)
             c == Config(id, n, NoPrefix)
             s == starts + 1
  <1>1. /\ TypeOK /\ FiledInv /\ IdInv /\ LatestInv /\ ToldIsDiscovered
    BY Zenon DEF IInv
  <1>2. /\ starts \in Nat /\ starts < MaxStarts /\ s \in Threads
    BY <1>1, IdAssumption DEF TypeOK, startPrefixDiscovery, Threads
  <1>3. id \in Ids \ {kNoDiscoveryId}
    BY <1>1, <1>2, NextIdType, Zenon DEF TypeOK
  <1>4. NoPrefix \in AnyPrefix
    BY Zenon DEF AnyPrefix
  <1>5. /\ c \in Dns64Config /\ c # NoConfig /\ c.discoveryId = id /\ c.netId = n
        /\ c.prefix64 = NoPrefix /\ isFromPrefixDiscovery(c)
    BY <1>3, <1>4, ConfigType DEF isFromPrefixDiscovery
  <1>6. /\ mNextId' = id /\ starts' = s
        /\ mDns64Configs' = [mDns64Configs EXCEPT ![n] = c]
        /\ cfg' = [cfg EXCEPT ![s] = c]
        /\ pc' = [pc EXCEPT ![s] = "check"]
        /\ latest' = [latest EXCEPT ![n] = s]
        /\ told' = [told EXCEPT ![n] = ToldRemoved(n)]
    BY Zenon DEF startPrefixDiscovery
  <1>7. ToldRemoved(n) = NoPrefix
    BY <1>1, Zenon DEF ToldIsDiscovered, ToldRemoved
  <1> HIDE DEF c, id
  <1>8. TypeOK'
    BY <1>1, <1>2, <1>3, <1>4, <1>5, <1>6, <1>7, IdAssumption DEF TypeOK, Threads
  <1>9. FiledInv'
    BY <1>1, <1>2, <1>5, <1>6, IdAssumption DEF FiledInv, TypeOK, Threads
  <1>10. IdInv'
    <2>1. ASSUME NEW t \in Threads, t <= starts'
          PROVE  LET ahead == cfg'[t].discoveryId + (starts' - t)
                 IN  mNextId' = ahead \/ mNextId' = ahead - (IdCount - 1)
      <3>1. t \in Int /\ t >= 1
        BY IdAssumption DEF Threads
      <3>2. CASE t = s
        BY <3>1, <3>2, <1>1, <1>2, <1>3, <1>5, <1>6, IdAssumption DEF TypeOK, Ids
      <3>3. CASE t # s
        <4>1. t <= starts /\ cfg'[t] = cfg[t]
          BY <3>1, <3>3, <2>1, <1>1, <1>2, <1>6 DEF TypeOK
        <4>2. LET ahead == cfg[t].discoveryId + (starts - t)
              IN  mNextId = ahead \/ mNextId = ahead - (IdCount - 1)
          BY <4>1, <1>1, Zenon DEF IdInv
        <4>3. /\ cfg[t].discoveryId \in 1..(IdCount - 1) /\ mNextId \in 0..(IdCount - 1)
          BY <4>1, <1>1, CfgType, IdAssumption DEF TypeOK, Ids, kNoDiscoveryId
        <4>4. id = IF mNextId + 1 = IdCount THEN 1 ELSE mNextId + 1
          BY Zenon DEF id, getNextId
        <4>5. starts - t < IdCount - 2
          BY <3>1, <1>2, IdAssumption
        <4> DEFINE d == cfg[t].discoveryId
        <4>6. d \in Int
          BY <4>3
        <4> HIDE DEF d
        <4>7. id = d + (s - t) \/ id = d + (s - t) - (IdCount - 1)
          BY <4>2, <4>3, <4>4, <4>5, <4>6, <3>1, <1>2, IdAssumption DEF d
        <4>8. QED
          BY <4>1, <4>6, <4>7, <3>1, <1>2, <1>6, IdAssumption DEF d
      <3>4. QED
        BY <3>2, <3>3, Zenon
    <2>2. QED
      BY <2>1, Zenon DEF IdInv
  <1>11. LatestInv'
    <2>1. ASSUME NEW m \in NetIds, Discovering(m)'
          PROVE  /\ latest'[m] \in Threads /\ latest'[m] <= starts'
                 /\ cfg'[latest'[m]].discoveryId = mDns64Configs'[m].discoveryId
      <3>1. CASE m = n
        BY <3>1, <1>1, <1>2, <1>6 DEF TypeOK
      <3>2. CASE m # n
        <4>1. Discovering(m) /\ latest'[m] = latest[m] /\ mDns64Configs'[m] = mDns64Configs[m]
          BY <3>2, <2>1, <1>1, <1>6, Zenon DEF TypeOK, Discovering
        <4>2. /\ latest[m] \in Threads /\ latest[m] <= starts
              /\ cfg[latest[m]].discoveryId = mDns64Configs[m].discoveryId
          BY <4>1, <1>1, Zenon DEF LatestInv
        <4>3. latest[m] # s
          BY <4>2, <1>2, IdAssumption DEF Threads
        <4>4. cfg'[latest[m]] = cfg[latest[m]]
          BY <4>2, <4>3, <1>1, <1>6, Zenon DEF TypeOK
        <4>5. QED
          BY <4>1, <4>2, <4>4, <1>2, <1>6, IdAssumption DEF Threads
      <3>3. QED
        BY <3>1, <3>2, Zenon
    <2>2. QED
      BY <2>1, Zenon DEF LatestInv
  <1>12. ToldIsDiscovered'
    BY <1>1, <1>5, <1>6, <1>7, Zenon DEF TypeOK, ToldIsDiscovered, Discovering
  <1>13. QED
    BY <1>8, <1>9, <1>10, <1>11, <1>12, Zenon DEF IInv

\* stopPrefixDiscovery(), setPrefix64() and clearPrefix64().
LEMMA CallerKeeps ==
    ASSUME IInv, NEW n \in NetIds, NEW pfx \in AnyPrefix,
           stopPrefixDiscovery(n) \/ setPrefix64(n, pfx) \/ clearPrefix64(n)
    PROVE  IInv'
  <1> DEFINE c == Config(kNoDiscoveryId, n, pfx)
  <1>1. /\ TypeOK /\ FiledInv /\ IdInv /\ LatestInv /\ ToldIsDiscovered
    BY Zenon DEF IInv
  <1>2. PICK e \in {NoConfig, c} : mDns64Configs' = [mDns64Configs EXCEPT ![n] = e]
    BY Zenon DEF stopPrefixDiscovery, setPrefix64, clearPrefix64
  <1>3. UNCHANGED <<mNextId, starts, cfg>>
    BY Zenon DEF stopPrefixDiscovery, setPrefix64, clearPrefix64
  <1>4. \A m \in NetIds \ {n} : latest'[m] = latest[m] /\ told'[m] = told[m]
    BY <1>1, Zenon DEF stopPrefixDiscovery, setPrefix64, clearPrefix64, TypeOK
  <1>5. told'[n] = NoPrefix
    BY <1>1, Zenon DEF stopPrefixDiscovery, setPrefix64, clearPrefix64, TypeOK, ToldIsDiscovered,
                ToldRemoved
  <1>6. \A t \in Threads : (pc'[t] # "none") = (pc[t] # "none")
    BY <1>1, Zenon DEF stopPrefixDiscovery, setPrefix64, clearPrefix64, TypeOK
  <1>7. kNoDiscoveryId \in Ids \/ mNextId \notin Ids
    BY IdAssumption DEF Ids, kNoDiscoveryId
  <1>8. e # NoConfig => e \in Dns64Config /\ e.netId = n /\ e.discoveryId = kNoDiscoveryId
    BY <1>1, <1>7, ConfigType DEF AnyPrefix, TypeOK
  <1>9. ~Discovering(n)'
    BY <1>1, <1>2, <1>8, Zenon DEF Discovering, isFromPrefixDiscovery, TypeOK
  <1>10. \A m \in NetIds \ {n} : mDns64Configs'[m] = mDns64Configs[m]
    BY <1>1, <1>2, Zenon DEF TypeOK
  <1>11. TypeOK'
    <2>1. mDns64Configs' \in [NetIds -> Dns64Config \cup {NoConfig}]
      BY <1>1, <1>2, <1>8, Zenon DEF TypeOK
    <2>2. /\ pc' \in [Threads -> {"none", "check", "query", "record", "recheck", "wait", "ended"}]
          /\ told' \in [NetIds -> AnyPrefix]
          /\ latest' \in [NetIds -> 0..MaxStarts]
      BY <1>1, IdAssumption DEF stopPrefixDiscovery, setPrefix64, clearPrefix64, TypeOK,
                                AnyPrefix, ToldRemoved
    <2>3. QED
      BY <1>1, <1>3, <2>1, <2>2, Zenon DEF TypeOK
  <1>12. FiledInv'
    BY <1>1, <1>2, <1>3, <1>6, <1>8, <1>10, Zenon DEF FiledInv, TypeOK
  <1>13. IdInv'
    BY <1>1, <1>3, Zenon DEF IdInv
  <1>14. LatestInv' /\ ToldIsDiscovered'
    BY <1>1, <1>3, <1>4, <1>5, <1>9, <1>10 DEF LatestInv, ToldIsDiscovered, Discovering
  <1>15. QED
    BY <1>11, <1>12, <1>13, <1>14, Zenon DEF IInv

\* The steps of a discovery thread that touch no entry.
LEMMA ThreadKeeps ==
    ASSUME IInv, NEW t \in Threads,
           \/ shouldContinueDiscovery(t, "check", "query")
           \/ shouldContinueDiscovery(t, "recheck", "wait")
           \/ doRfc7050PrefixDiscovery(t)
           \/ WaitOver(t)
    PROVE  IInv'
  <1>1. /\ TypeOK /\ FiledInv /\ IdInv /\ LatestInv /\ ToldIsDiscovered
    BY Zenon DEF IInv
  <1>2. UNCHANGED <<mDns64Configs, mNextId, starts, told, latest>>
    BY Zenon DEF shouldContinueDiscovery, doRfc7050PrefixDiscovery, WaitOver
  <1>3. /\ pc' \in [Threads -> {"check", "query", "record", "recheck", "wait", "ended", "none"}]
        /\ \A u \in Threads : (pc'[u] # "none") = (pc[u] # "none")
    BY <1>1 DEF TypeOK, shouldContinueDiscovery, doRfc7050PrefixDiscovery, WaitOver, Goto
  <1>4. /\ cfg' \in [Threads -> {c \in Dns64Config : isFromPrefixDiscovery(c)} \cup {NoConfig}]
        /\ \A u \in Threads : /\ (cfg'[u] # NoConfig) = (cfg[u] # NoConfig)
                              /\ u <= starts => cfg'[u].discoveryId = cfg[u].discoveryId
    <2>1. CASE cfg' = cfg
      BY <2>1, <1>1, Zenon DEF TypeOK
    <2>2. CASE doRfc7050PrefixDiscovery(t) /\ cfg' # cfg
      <3>1. PICK pfx \in Prefixes :
              cfg' = [cfg EXCEPT ![t] = Config(cfg[t].discoveryId, cfg[t].netId, pfx)]
        BY <2>2, Zenon DEF doRfc7050PrefixDiscovery
      <3>2. t <= starts
        BY <2>2, <1>1, Zenon DEF doRfc7050PrefixDiscovery, FiledInv
      <3>3. pfx \in AnyPrefix
        BY Zenon DEF AnyPrefix
      <3> DEFINE d == Config(cfg[t].discoveryId, cfg[t].netId, pfx)
      <3>4. /\ d \in Dns64Config /\ d # NoConfig /\ d.discoveryId = cfg[t].discoveryId
            /\ isFromPrefixDiscovery(d)
        BY <3>2, <3>3, <1>1, CfgType, ConfigType DEF isFromPrefixDiscovery
      <3>5. cfg[t] # NoConfig
        BY <3>2, <1>1, Zenon DEF FiledInv
      <3> HIDE DEF d
      <3>6. cfg' = [cfg EXCEPT ![t] = d]
        BY <3>1, Zenon DEF d
      <3>7. QED
        BY <3>4, <3>5, <3>6, <1>1, Zenon DEF TypeOK
    <2>3. QED
      BY <2>1, <2>2, Zenon DEF shouldContinueDiscovery, WaitOver
  <1>5. TypeOK'
    BY <1>1, <1>2, <1>3, <1>4, Zenon DEF TypeOK
  <1>6. FiledInv' /\ IdInv'
    BY <1>1, <1>2, <1>3, <1>4, Zenon DEF FiledInv, IdInv
  <1>7. LatestInv'
    BY <1>1, <1>2, <1>4, Zenon DEF LatestInv, Discovering
  <1>8. ToldIsDiscovered'
    BY <1>1, <1>2, Zenon DEF ToldIsDiscovered, Discovering
  <1>9. QED
    BY <1>5, <1>6, <1>7, <1>8, Zenon DEF IInv

\* recordDns64Config() replaces an entry by one with the same id.
LEMMA RecordStep ==
    ASSUME IInv, NEW t \in Threads, recordDns64Config(t)
    PROVE  IInv'
  <1> DEFINE n == cfg[t].netId
  <1>1. /\ TypeOK /\ FiledInv /\ IdInv /\ LatestInv /\ ToldIsDiscovered
    BY Zenon DEF IInv
  <1>2. UNCHANGED <<mNextId, starts, cfg, latest>> /\ t <= starts
    BY <1>1, Zenon DEF recordDns64Config, FiledInv
  <1>3. /\ cfg[t] \in Dns64Config /\ n \in NetIds /\ cfg[t].prefix64 \in AnyPrefix
        /\ isFromPrefixDiscovery(cfg[t]) /\ cfg[t] # NoConfig
    BY <1>1, <1>2, CfgType, Zenon DEF isFromPrefixDiscovery, FiledInv
  <1>4. /\ pc' \in [Threads -> {"check", "query", "record", "recheck", "wait", "ended", "none"}]
        /\ \A u \in Threads : (pc'[u] # "none") = (pc[u] # "none")
    BY <1>1, Zenon DEF TypeOK, recordDns64Config, Goto
  <1>5. IdInv'
    BY <1>1, <1>2, Zenon DEF IdInv
  <1>6. CASE isDiscoveryInProgress(cfg[t])
    <2>1. /\ mDns64Configs' = [mDns64Configs EXCEPT ![n] = cfg[t]]
          /\ told' = [told EXCEPT ![n] = cfg[t].prefix64]
          /\ Discovering(n) /\ mDns64Configs[n].discoveryId = cfg[t].discoveryId
      BY <1>6, <1>3, Zenon DEF recordDns64Config, isDiscoveryInProgress, Discovering,
                        isFromPrefixDiscovery
    <2>2. TypeOK' /\ FiledInv'
      BY <2>1, <1>1, <1>2, <1>3, <1>4, Zenon DEF TypeOK, FiledInv
    <2>3. LatestInv'
      BY <2>1, <1>1, <1>2, <1>3, Zenon DEF TypeOK, LatestInv, Discovering
    <2>4. ToldIsDiscovered'
      BY <2>1, <1>1, <1>3, Zenon DEF TypeOK, ToldIsDiscovered, Discovering
    <2>5. QED
      BY <2>2, <2>3, <2>4, <1>5, Zenon DEF IInv
  <1>7. CASE ~isDiscoveryInProgress(cfg[t])
    <2>1. UNCHANGED <<mDns64Configs, told>>
      BY <1>7, Zenon DEF recordDns64Config
    <2>2. QED
      BY <2>1, <1>1, <1>2, <1>4, <1>5, Zenon DEF IInv, TypeOK, FiledInv, LatestInv, ToldIsDiscovered,
                                          Discovering
  <1>8. QED
    BY <1>6, <1>7, Zenon

\* Every step keeps the invariant.
LEMMA NextIInv == IInv /\ [Next]_vars => IInv'
  <1> SUFFICES ASSUME IInv, [Next]_vars PROVE IInv'
    BY Zenon
  <1>1. ASSUME NEW n \in NetIds, CallerStep(n) PROVE IInv'
    <2>1. CASE startPrefixDiscovery(n)
      BY <2>1, StartStep, Zenon
    <2>2. CASE stopPrefixDiscovery(n) \/ clearPrefix64(n)
      <3>1. NoPrefix \in AnyPrefix
        BY Zenon DEF AnyPrefix
      <3>2. QED
        BY <2>2, <3>1, CallerKeeps, Zenon
    <2>3. CASE \E pfx \in Prefixes : setPrefix64(n, pfx)
      BY <2>3, CallerKeeps, Zenon DEF AnyPrefix
    <2>4. QED
      BY <1>1, <2>1, <2>2, <2>3, Zenon DEF CallerStep
  <1>2. ASSUME NEW t \in Threads, ThreadStep(t) PROVE IInv'
    BY <1>2, ThreadKeeps, RecordStep, Zenon DEF ThreadStep
  <1>3. CASE UNCHANGED vars
    BY <1>3, Zenon DEF vars, IInv, TypeOK, FiledInv, IdInv, LatestInv, ToldIsDiscovered, Discovering
  <1>4. QED
    BY <1>1, <1>2, <1>3, Zenon DEF Next

----------------------------------------------------------------------------

\* The types; a discovery never runs under kNoDiscoveryId (getNextId).
THEOREM TypeCorrect == Spec => []TypeOK
  <1>1. IInv => TypeOK
    BY Zenon DEF IInv
  <1>2. QED
    BY <1>1, InitIInv, NextIInv, PTL DEF Spec

\* The listeners know exactly the discovered prefix of each network, for any
\* number of networks, prefixes and discoveries (reportNat64PrefixStatus).
THEOREM ListenersKnow == Spec => []ToldIsDiscovered
  <1>1. IInv => ToldIsDiscovered
    BY Zenon DEF IInv
  <1>2. QED
    BY <1>1, InitIInv, NextIInv, PTL DEF Spec

\* Only the latest discovery of a network records a prefix, as long as fewer
\* discoveries are started than there are ids (recordDns64Config).
THEOREM OnlyLatestRecords == Spec => RecordedByLatest
  <1> DEFINE A == \A t \in Threads :
                    /\ pc[t] = "record" /\ pc'[t] = "ended"
                    /\ UNCHANGED <<starts, latest>> /\ mDns64Configs' # mDns64Configs
                    => latest[cfg[t].netId] = t
  <1>1. IInv /\ [Next]_vars => [A]_vars
    <2> SUFFICES ASSUME IInv, Next, NEW t \in Threads,
                        pc[t] = "record", pc'[t] = "ended", UNCHANGED <<starts, latest>>,
                        mDns64Configs' # mDns64Configs
                 PROVE  latest[cfg[t].netId] = t
      BY Zenon
    <2>1. TypeOK /\ FiledInv /\ IdInv /\ LatestInv
      BY Zenon DEF IInv
    <2>2. recordDns64Config(t)
      BY <2>1, Zenon DEF Next, CallerStep, ThreadStep, startPrefixDiscovery, stopPrefixDiscovery,
                  setPrefix64, clearPrefix64, shouldContinueDiscovery,
                  doRfc7050PrefixDiscovery, recordDns64Config, WaitOver, Goto, TypeOK
    <2>3. isDiscoveryInProgress(cfg[t]) /\ t <= starts
      BY <2>1, <2>2, Zenon DEF recordDns64Config, FiledInv
    <2>4. cfg[t].netId \in NetIds /\ Discovering(cfg[t].netId)
      BY <2>1, <2>3, CfgType, Zenon DEF isDiscoveryInProgress, Discovering, isFromPrefixDiscovery
    <2>5. QED
      BY <2>1, <2>3, <2>4, IdsDiffer DEF LatestInv, isDiscoveryInProgress
  <1>2. QED
    BY <1>1, InitIInv, NextIInv, PTL DEF Spec, RecordedByLatest
============================================================================
