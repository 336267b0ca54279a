------------------------- MODULE PrivateDnsProofs -------------------------
(***************************************************************************)
(* Theorems about PrivateDns: its type invariant, that a server is          *)
(* in_process only while some validation thread works on it, that a failure *)
(* told to the listeners is real, and that a destroyed network keeps no     *)
(* configuration.                                                           *)
(***************************************************************************)
EXTENDS PrivateDns, TLAPS

\* A network without private DNS has no entry in mDotTracker.
TrackedHasMode ==
    \A n \in NetIds : modes[n] \in {"NONE", "OFF"} =>
        \A id \in ServerIdentity : mDotTracker[n][id] = Nobody

IInv == TypeOK /\ TrackedHasMode /\ InProcessHasThread

----------------------------------------------------------------------------
(* The thread counts.                                                       *)

\* Threads are records: changing the place of one gives a thread.
LEMMA MovedThread ==
    ASSUME NEW t \in Threads, NEW at \in {"validate", "backoff"}
    PROVE  /\ [t EXCEPT !.at = at] \in Threads
           /\ [t EXCEPT !.at = at].netid = t.netid
           /\ [t EXCEPT !.at = at].id = t.id
           /\ [t EXCEPT !.at = at].at = at
  BY Zenon DEF Threads

\* A thread that goes on is counted at its new place; no other thread is lost.
LEMMA GotoCounts ==
    ASSUME running \in [Threads -> Nat], NEW t \in Threads, running[t] > 0,
           NEW at \in {"validate", "backoff"}, at # t.at, Goto(t, at)
    PROVE  /\ running' \in [Threads -> Nat]
           /\ running'[[t EXCEPT !.at = at]] > 0
           /\ \A u \in Threads : u # t => running'[u] >= running[u]
<1> DEFINE v == [t EXCEPT !.at = at]
<1>1. v \in Threads /\ v # t
  <2>1. v \in Threads /\ v.at = at
    BY Zenon, MovedThread
  <2>2. QED
    BY Zenon, <2>1
<1>2. running' = [running EXCEPT ![t] = @ - 1, ![v] = @ + 1]
  BY Zenon DEF Goto
<1> HIDE DEF v
<1>3. QED
  BY <1>1, <1>2 DEF v

\* A thread that ends is counted off; no other thread is lost.
LEMMA EndCounts ==
    ASSUME running \in [Threads -> Nat], NEW t \in Threads, running[t] > 0, End(t)
    PROVE  /\ running' \in [Threads -> Nat]
           /\ \A u \in Threads : u # t => running'[u] = running[u]
  BY DEF End

\* startDotValidation() adds a thread for each server and loses none.
LEMMA StartCounts ==
    ASSUME running \in [Threads -> Nat], NEW n \in NetIds, NEW ids \in SUBSET ServerIdentity,
           NEW reval \in BOOLEAN, startDotValidation(n, ids, reval)
    PROVE  /\ running' \in [Threads -> Nat]
           /\ \A u \in Threads : running'[u] >= running[u]
           /\ \A id \in ids : Thread(n, id, reval, "validate") \in Threads
                              /\ running'[Thread(n, id, reval, "validate")] > 0
<1>1. running' = [t \in Threads |->
        IF t.netid = n /\ t.id \in ids /\ t.isRevalidation = reval /\ t.at = "validate"
        THEN running[t] + 1 ELSE running[t]]
  BY Zenon DEF startDotValidation
<1>2. ASSUME NEW id \in ids
      PROVE  Thread(n, id, reval, "validate") \in Threads
  BY Zenon DEF Thread, Threads
<1>3. QED
  BY <1>1, <1>2 DEF Thread

----------------------------------------------------------------------------
(* Type correctness.                                                        *)

\* Nothing is configured and no thread runs.
LEMMA InitIInv == Init => IInv
<1> SUFFICES ASSUME Init PROVE IInv
  BY Zenon
<1>1. TypeOK
  BY Zenon DEF Init, TypeOK, Modes, NoServers
<1>2. TrackedHasMode /\ InProcessHasThread
  BY Zenon DEF Init, NoServers, TrackedHasMode, InProcessHasThread, InProcess
<1>3. QED
  BY <1>1, <1>2, Zenon DEF IInv

\* The servers of a reconfigured network.
LEMMA ConfiguredType ==
    ASSUME TypeOK, NEW n \in NetIds, NEW wanted \in SUBSET ServerIdentity, NEW mark \in Marks,
           NEW id \in Known(n, wanted)
    PROVE  Configured(n, id, wanted, mark) \in DnsTlsServer
<1>1. id \in ServerIdentity
  BY Zenon DEF Known
<1>2. mDotTracker[n][id] \in DnsTlsServer \cup {Nobody}
  BY <1>1 DEF TypeOK
<1>3. ASSUME NEW s \in DnsTlsServer
      PROVE  [active |-> id \in wanted,
              validation |-> IF id \notin wanted /\ s.validation = "success"
                             THEN "success_but_expired" ELSE s.validation,
              mark |-> s.mark] \in DnsTlsServer
  BY DEF DnsTlsServer, Validation
<1>4. [active |-> TRUE, validation |-> "unknown_server", mark |-> mark] \in DnsTlsServer
  BY Zenon DEF DnsTlsServer, Validation
<1>5. QED
  BY <1>2, <1>3, <1>4, Zenon DEF Configured

\* setDot() starts a thread for each server it marks in_process.
LEMMA SetDotStep ==
    ASSUME IInv, NEW n \in NetIds, NEW wanted \in SUBSET ServerIdentity, NEW mark \in Marks,
           setDot(n, wanted, mark)
    PROVE  /\ mDotTracker' \in [NetIds -> [ServerIdentity -> DnsTlsServer \cup {Nobody}]]
           /\ running' \in [Threads -> Nat]
           /\ \A m \in NetIds : m # n => mDotTracker'[m] = mDotTracker[m]
           /\ InProcessHasThread'
<1> USE DEF IInv
<1>t. /\ running \in [Threads -> Nat]
      /\ mDotTracker \in [NetIds -> [ServerIdentity -> DnsTlsServer \cup {Nobody}]]
  BY Zenon DEF TypeOK
<1> DEFINE S == Starting(n, wanted, mark)
           new(id) == IF id \notin Known(n, wanted) THEN Nobody
                      ELSE [Configured(n, id, wanted, mark) EXCEPT
                              !.validation = IF id \in S THEN "in_process" ELSE @]
<1>1. /\ mDotTracker' = [mDotTracker EXCEPT ![n] = [id \in ServerIdentity |-> new(id)]]
      /\ startDotValidation(n, S, FALSE)
  BY Zenon DEF setDot
<1>2. S \in SUBSET ServerIdentity
  BY Zenon DEF Starting, Known
<1>3. /\ running' \in [Threads -> Nat]
      /\ \A u \in Threads : running'[u] >= running[u]
      /\ \A id \in S : Thread(n, id, FALSE, "validate") \in Threads
                       /\ running'[Thread(n, id, FALSE, "validate")] > 0
  BY Zenon, <1>1, <1>2, <1>t, StartCounts
<1>4. \A id \in ServerIdentity : new(id) \in DnsTlsServer \cup {Nobody}
  <2> TAKE id \in ServerIdentity
  <2>1. CASE id \in Known(n, wanted)
    <3>1. Configured(n, id, wanted, mark) \in DnsTlsServer
      BY <2>1, ConfiguredType, Zenon
    <3>2. QED
      BY <2>1, <3>1, Zenon DEF DnsTlsServer, Validation
  <2>2. QED
    BY <2>1, Zenon
<1>5. mDotTracker' \in [NetIds -> [ServerIdentity -> DnsTlsServer \cup {Nobody}]]
  BY <1>1, <1>4, <1>t, Zenon
<1>6. \A m \in NetIds : m # n => mDotTracker'[m] = mDotTracker[m]
  BY <1>1, <1>t, Zenon
<1>7. ASSUME NEW m \in NetIds, NEW id \in ServerIdentity, InProcess(m, id)'
      PROVE  Alive(m, id)' # {}
  <2>1. CASE InProcess(m, id)
    <3>1. PICK t \in Threads : t.netid = m /\ t.id = id /\ running[t] > 0
      BY <2>1, Zenon DEF InProcessHasThread, Alive
    <3>2. running'[t] > 0
      BY <3>1, <1>3, <1>t
    <3>3. QED
      BY <3>1, <3>2, Zenon DEF Alive
  <2>2. CASE ~InProcess(m, id)
    <3>1. m = n
      BY <1>6, <1>7, <2>2, Zenon DEF InProcess
    <3>2. mDotTracker'[n][id] = new(id) /\ new(id) # Nobody /\ new(id).validation = "in_process"
      BY <1>1, <1>7, <1>t, <3>1, Zenon DEF InProcess
    <3>3. id \in Known(n, wanted)
      BY <3>2, Zenon
    <3>4. id \in S
      <4> SUFFICES ASSUME id \notin S PROVE FALSE
        BY Zenon
      <4>1. Configured(n, id, wanted, mark) \in DnsTlsServer
        BY <3>3, ConfiguredType, Zenon
      <4>2. Configured(n, id, wanted, mark).validation = "in_process"
        BY <3>2, <3>3, <4>1, Zenon DEF DnsTlsServer
      <4>3. mDotTracker[n][id] \in DnsTlsServer \cup {Nobody}
        BY <1>t, Zenon
      <4>4. mDotTracker[n][id] # Nobody /\ mDotTracker[n][id].validation = "in_process"
        BY <4>2, <4>3, Zenon DEF Configured, DnsTlsServer
      <4>5. QED
        BY <4>4, <2>2, <3>1, Zenon DEF InProcess
    <3>5. Thread(n, id, FALSE, "validate") \in Alive(m, id)'
      BY <1>3, <3>1, <3>4, Zenon DEF Alive, Thread
    <3>6. QED
      BY Zenon, <3>5
  <2>3. QED
    BY <2>1, <2>2, Zenon
<1>8. QED
  BY <1>3, <1>5, <1>6, <1>7, Zenon DEF InProcessHasThread

----------------------------------------------------------------------------
(* Each step keeps the invariant.                                           *)

\* clear() and an OFF mode: the tracker of n is emptied, no thread is touched.
LEMMA EmptiedTracker ==
    ASSUME IInv, NEW n \in NetIds, running' = running,
           mDotTracker' = [mDotTracker EXCEPT ![n] = NoServers]
    PROVE  /\ mDotTracker' \in [NetIds -> [ServerIdentity -> DnsTlsServer \cup {Nobody}]]
           /\ \A m \in NetIds : m # n => mDotTracker'[m] = mDotTracker[m]
           /\ \A id \in ServerIdentity : mDotTracker'[n][id] = Nobody
           /\ InProcessHasThread'
<1>1. mDotTracker \in [NetIds -> [ServerIdentity -> DnsTlsServer \cup {Nobody}]]
  BY Zenon DEF IInv, TypeOK
<1>2. /\ mDotTracker' \in [NetIds -> [ServerIdentity -> DnsTlsServer \cup {Nobody}]]
      /\ \A m \in NetIds : m # n => mDotTracker'[m] = mDotTracker[m]
      /\ \A id \in ServerIdentity : mDotTracker'[n][id] = Nobody
  BY <1>1, Zenon DEF NoServers
<1>3. ASSUME NEW m \in NetIds, NEW id \in ServerIdentity, InProcess(m, id)'
      PROVE  Alive(m, id)' # {}
  BY <1>2, <1>3 DEF InProcess, IInv, InProcessHasThread, Alive
<1>4. QED
  BY <1>2, <1>3, Zenon DEF InProcessHasThread

\* PrivateDnsConfiguration::set() in each mode.
LEMMA SetStep ==
    ASSUME IInv, NEW n \in NetIds, NEW mark \in Marks, NEW servers \in SUBSET Servers,
           NEW name \in Names \cup {NoName}, NEW doh \in DohIdentities(servers, name),
           set(n, mark, servers, name, doh), nets' = nets,
           job' \in [Controllers -> Jobs \cup {Nobody}]
    PROVE  IInv'
<1> DEFINE mode == ModeFor(servers, name)
<1>t. TypeOK
  BY Zenon DEF IInv
<1>1. mode \in Modes /\ mode # "NONE"
  BY Zenon DEF ModeFor, Modes
<1>2. modes' = [modes EXCEPT ![n] = mode] /\ reported' = reported
  BY Zenon DEF set
<1>3. modes' \in [NetIds -> Modes] /\ modes'[n] = mode
  BY <1>1, <1>2, <1>t, Zenon DEF TypeOK
<1>4. servers \X {name} \in SUBSET ServerIdentity
  BY Zenon DEF ServerIdentity
<1>5. doh \in ServerIdentity \cup {Nobody}
  BY <1>4, DdrAssumption, Zenon DEF DohIdentities, ServerIdentity
<1>6. /\ mDohTracker' \in [NetIds -> [id: ServerIdentity, status: Validation] \cup {Nobody}]
      /\ asked' \subseteq NetIds \X ServerIdentity
  <2>1. clearDoh(n) \/ setDoh(n, doh)
    BY Zenon DEF set
  <2>2. CASE clearDoh(n)
    BY <2>2, <1>t, Zenon DEF clearDoh, TypeOK
  <2>3. CASE setDoh(n, doh)
    <3>1. doh # Nobody => [id |-> doh, status |-> "in_process"] \in [id: ServerIdentity, status: Validation]
      BY <1>5, Zenon DEF Validation
    <3>2. /\ mDohTracker \in [NetIds -> [id: ServerIdentity, status: Validation] \cup {Nobody}]
          /\ asked \subseteq NetIds \X ServerIdentity
      BY <1>t, Zenon DEF TypeOK
    <3>3. CASE UNCHANGED <<mDohTracker, asked>> \/ clearDoh(n)
      BY <3>2, <3>3, Zenon DEF clearDoh
    <3>4. CASE /\ doh # Nobody
               /\ mDohTracker' = [mDohTracker EXCEPT ![n] = [id |-> doh, status |-> "in_process"]]
               /\ asked' = asked \cup {<<n, doh>>}
      <4>1. doh \in ServerIdentity
        BY <3>4, <1>5, Zenon
      <4>2. QED
        BY <3>1, <3>2, <3>4, <4>1
    <3>5. QED
      BY <2>3, <3>3, <3>4, Zenon DEF setDoh
  <2>4. QED
    BY <2>1, <2>2, <2>3, Zenon
<1>7. /\ mDotTracker' \in [NetIds -> [ServerIdentity -> DnsTlsServer \cup {Nobody}]]
      /\ running' \in [Threads -> Nat]
      /\ \A m \in NetIds : m # n => mDotTracker'[m] = mDotTracker[m]
      /\ mode = "OFF" => \A id \in ServerIdentity : mDotTracker'[n][id] = Nobody
      /\ InProcessHasThread'
  <2>1. CASE mode = "OFF"
    <3>1. running' = running /\ mDotTracker' = [mDotTracker EXCEPT ![n] = NoServers]
      BY <2>1, Zenon DEF set
    <3>2. running' \in [Threads -> Nat]
      BY <3>1, <1>t, Zenon DEF TypeOK
    <3>3. QED
      BY Zenon, <3>1, <3>2, EmptiedTracker
  <2>2. CASE mode # "OFF"
    <3>1. setDot(n, servers \X {name}, mark)
      BY <2>2, Zenon DEF set
    <3>2. QED
      BY Zenon, <2>2, <3>1, <1>4, SetDotStep
  <2>3. QED
    BY <2>1, <2>2, Zenon
<1>8. TypeOK'
  BY <1>2, <1>3, <1>6, <1>7, <1>t, Zenon DEF TypeOK
<1>9. TrackedHasMode'
  <2> SUFFICES ASSUME NEW m \in NetIds, modes'[m] \in {"NONE", "OFF"}, NEW id \in ServerIdentity
               PROVE  mDotTracker'[m][id] = Nobody
    BY Zenon DEF TrackedHasMode
  <2>1. CASE m = n
    BY <2>1, <1>1, <1>3, <1>7, Zenon
  <2>2. CASE m # n
    BY <2>2, <1>2, <1>7, <1>t DEF IInv, TrackedHasMode, TypeOK
  <2>3. QED
    BY <2>1, <2>2, Zenon
<1>10. QED
  BY <1>7, <1>8, <1>9, Zenon DEF IInv

\* updateServerState() changes the state of one server, if it is there.
LEMMA UpdatedServer ==
    ASSUME IInv, NEW n \in NetIds, NEW id \in ServerIdentity, NEW v \in Validation,
           updateServerState(n, id, v)
    PROVE  /\ mDotTracker' \in [NetIds -> [ServerIdentity -> DnsTlsServer \cup {Nobody}]]
           /\ mDotTracker[n][id] # Nobody => mDotTracker'[n][id].validation = v
           /\ \A m \in NetIds, x \in ServerIdentity :
                /\ mDotTracker'[m][x] = Nobody <=> mDotTracker[m][x] = Nobody
                /\ <<m, x>> # <<n, id>> => mDotTracker'[m][x] = mDotTracker[m][x]
<1> DEFINE s == mDotTracker[n][id]
           w == [s EXCEPT !.validation = v]
<1>1. mDotTracker \in [NetIds -> [ServerIdentity -> DnsTlsServer \cup {Nobody}]]
  BY Zenon DEF IInv, TypeOK
<1>2. CASE s = Nobody
  BY <1>1, <1>2, Zenon DEF updateServerState
<1>3. CASE s # Nobody
  <2>1. s \in DnsTlsServer
    BY <1>1, <1>3, Zenon
  <2>2. w \in DnsTlsServer /\ w.validation = v
    BY <2>1, Zenon DEF DnsTlsServer
  <2>3. mDotTracker' = [mDotTracker EXCEPT ![n] = [mDotTracker[n] EXCEPT ![id] = w]]
    BY <1>3, Zenon DEF updateServerState
  <2>4. w # Nobody
    BY <2>2, NobodyAssumption, Zenon
  <2> DEFINE row == [mDotTracker[n] EXCEPT ![id] = w]
  <2> HIDE DEF w
  <2>5. /\ row \in [ServerIdentity -> DnsTlsServer \cup {Nobody}]
        /\ row[id] = w
        /\ \A x \in ServerIdentity : x # id => row[x] = mDotTracker[n][x]
    BY <1>1, <2>2, Zenon
  <2> HIDE DEF row
  <2>6. /\ mDotTracker' \in [NetIds -> [ServerIdentity -> DnsTlsServer \cup {Nobody}]]
        /\ mDotTracker'[n] = row
        /\ \A m \in NetIds : m # n => mDotTracker'[m] = mDotTracker[m]
    <3>1. mDotTracker' = [mDotTracker EXCEPT ![n] = row]
      BY <2>3, Zenon DEF row
    <3>2. QED
      BY <3>1, <2>5, <1>1, Zenon
  <2>7. QED
    BY <1>3, <2>2, <2>4, <2>5, <2>6, Zenon
<1>4. QED
  BY <1>2, <1>3, Zenon

\* A step that changes one server, or none, and the threads.
LEMMA OneServerStep ==
    ASSUME IInv, NEW n \in NetIds, NEW id \in ServerIdentity,
           mDotTracker' \in [NetIds -> [ServerIdentity -> DnsTlsServer \cup {Nobody}]],
           \A m \in NetIds, x \in ServerIdentity :
                /\ mDotTracker'[m][x] = Nobody <=> mDotTracker[m][x] = Nobody
                /\ <<m, x>> # <<n, id>> => mDotTracker'[m][x] = mDotTracker[m][x],
           \A u \in Threads : <<u.netid, u.id>> # <<n, id>> /\ running[u] > 0 => running'[u] > 0,
           InProcess(n, id)' => Alive(n, id)' # {},
           UNCHANGED modes
    PROVE  TrackedHasMode' /\ InProcessHasThread'
<1>1. TrackedHasMode'
  BY Zenon DEF IInv, TrackedHasMode
<1>2. ASSUME NEW m \in NetIds, NEW x \in ServerIdentity, InProcess(m, x)'
      PROVE  Alive(m, x)' # {}
  <2>1. CASE <<m, x>> = <<n, id>>
    BY <2>1, <1>2, Zenon
  <2>2. CASE <<m, x>> # <<n, id>>
    <3>1. InProcess(m, x)
      BY <2>2, <1>2, Zenon DEF InProcess
    <3>2. PICK u \in Threads : u.netid = m /\ u.id = x /\ running[u] > 0
      BY <3>1 DEF IInv, InProcessHasThread, Alive
    <3>3. running'[u] > 0
      BY <2>2, <3>2, Zenon
    <3>4. QED
      BY <3>2, <3>3, Zenon DEF Alive
  <2>3. QED
    BY <2>1, <2>2, Zenon
<1>3. QED
  BY <1>1, <1>2, Zenon DEF InProcessHasThread

\* requestDotValidation() marks one server and starts one thread.
LEMMA RequestStep ==
    ASSUME IInv, NEW n \in NetIds, NEW id \in ServerIdentity, NEW mark \in Marks,
           requestDotValidation(n, id, mark)
    PROVE  IInv'
<1> USE DEF requestDotValidation
<1>t. TypeOK
  BY Zenon DEF IInv
<1>1. "in_process" \in Validation
  BY Zenon DEF Validation
<1>2. /\ mDotTracker' \in [NetIds -> [ServerIdentity -> DnsTlsServer \cup {Nobody}]]
      /\ \A m \in NetIds, x \in ServerIdentity :
            /\ mDotTracker'[m][x] = Nobody <=> mDotTracker[m][x] = Nobody
            /\ <<m, x>> # <<n, id>> => mDotTracker'[m][x] = mDotTracker[m][x]
  BY <1>1, UpdatedServer, Zenon
<1>3. startDotValidation(n, {id}, TRUE) /\ running \in [Threads -> Nat]
  BY Zenon, <1>t DEF TypeOK
<1>4. /\ running' \in [Threads -> Nat]
      /\ \A u \in Threads : running'[u] >= running[u]
      /\ Thread(n, id, TRUE, "validate") \in Threads
      /\ running'[Thread(n, id, TRUE, "validate")] > 0
  BY Zenon, <1>3, StartCounts
<1>5. Alive(n, id)' # {}
  BY <1>4, Zenon DEF Alive, Thread
<1>6. \A u \in Threads : running[u] > 0 => running'[u] > 0
  BY <1>3, <1>4
<1>7. TrackedHasMode' /\ InProcessHasThread'
  BY <1>2, <1>5, <1>6, OneServerStep, SMTT(30)
<1>8. TypeOK'
  BY <1>2, <1>4, <1>t, Zenon DEF TypeOK
<1>9. QED
  BY <1>7, <1>8, Zenon DEF IInv

\* An event is a success or a failure.
LEMMA ReportType ==
    ASSUME TypeOK, NEW n \in NetIds, NEW id \in ServerIdentity, NEW success, NEW needed,
           Report(n, id, success, needed)
    PROVE  reported' \in [NetIds -> [ServerIdentity -> {"none", "success", "fail"}]]
  BY Zenon DEF TypeOK, Report

\* recordDotValidation(): a thread that ends leaves its server out of in_process.
LEMMA RecordStep ==
    ASSUME IInv, NEW t \in Threads, NEW success \in BOOLEAN, recordDotValidation(t, success)
    PROVE  IInv'
<1> DEFINE n == t.netid
           s == mDotTracker[n][t.id]
           wanted == s # Nobody /\ s.active
           good   == success /\ wanted
           again  == wanted /\ reevaluate(t, success)
           v == IF good THEN "success" ELSE IF again THEN "in_process" ELSE "fail"
<1>t. TypeOK
  BY Zenon DEF IInv
<1>1. /\ n \in NetIds /\ t.id \in ServerIdentity
      /\ t.at = "validate" /\ running[t] > 0 /\ running \in [Threads -> Nat]
      /\ UNCHANGED <<nets, modes, mDohTracker, asked, job>>
  BY <1>t, Zenon DEF Threads, recordDotValidation, TypeOK
<1>2. CASE modes[n] \in {"NONE", "OFF"}
  <2>1. End(t) /\ UNCHANGED <<mDotTracker, reported>>
    BY <1>2, Zenon DEF recordDotValidation
  <2>2. /\ running' \in [Threads -> Nat]
        /\ \A u \in Threads : u # t => running'[u] = running[u]
    BY <1>1, <2>1, EndCounts, Zenon
  <2>3. ~InProcess(n, t.id)'
    BY <1>1, <1>2, <2>1, Zenon DEF IInv, TrackedHasMode, InProcess
  <2>4. mDotTracker' \in [NetIds -> [ServerIdentity -> DnsTlsServer \cup {Nobody}]]
    BY <2>1, <1>t, Zenon DEF TypeOK
  <2>5. TrackedHasMode' /\ InProcessHasThread'
    BY <1>1, <2>1, <2>2, <2>3, <2>4, OneServerStep, SMTT(30)
  <2>6. TypeOK'
    BY <1>1, <2>1, <2>2, <1>t, Zenon DEF TypeOK
  <2>7. QED
    BY <2>5, <2>6, Zenon DEF IInv
<1>3. CASE modes[n] \notin {"NONE", "OFF"}
  <2>1. /\ Report(n, t.id, good, needReportDot(n, t.id, good))
        /\ updateServerState(n, t.id, v)
        /\ IF again THEN Goto(t, "backoff") ELSE End(t)
    BY Zenon, <1>3 DEF recordDotValidation
  <2>2. reported' \in [NetIds -> [ServerIdentity -> {"none", "success", "fail"}]]
    BY <2>1, <1>1, <1>t, ReportType, Zenon
  <2>3. v \in Validation
    BY Zenon DEF Validation
  <2> HIDE DEF v
  <2>4. /\ mDotTracker' \in [NetIds -> [ServerIdentity -> DnsTlsServer \cup {Nobody}]]
        /\ s # Nobody => mDotTracker'[n][t.id].validation = v
        /\ \A m \in NetIds, x \in ServerIdentity :
             /\ mDotTracker'[m][x] = Nobody <=> mDotTracker[m][x] = Nobody
             /\ <<m, x>> # <<n, t.id>> => mDotTracker'[m][x] = mDotTracker[m][x]
    BY <1>1, <2>1, <2>3, UpdatedServer, Zenon
  <2>5. /\ running' \in [Threads -> Nat]
        /\ \A u \in Threads : u # t => running'[u] >= running[u]
        /\ again => Alive(n, t.id)' # {}
    <3>1. CASE again
      <4>1. Goto(t, "backoff")
        BY <2>1, <3>1, Zenon
      <4>2. /\ running' \in [Threads -> Nat]
            /\ running'[[t EXCEPT !.at = "backoff"]] > 0
            /\ \A u \in Threads : u # t => running'[u] >= running[u]
        BY Zenon, <4>1, <1>1, GotoCounts
      <4>3. [t EXCEPT !.at = "backoff"] \in Alive(n, t.id)'
        BY Zenon, <4>2, MovedThread DEF Alive
      <4>4. QED
        BY <4>2, <4>3, Zenon
    <3>2. CASE ~again
      <4>1. End(t)
        BY <2>1, <3>2, Zenon
      <4>2. /\ running' \in [Threads -> Nat]
            /\ \A u \in Threads : u # t => running'[u] = running[u]
        BY <4>1, <1>1, EndCounts, Zenon
      <4>3. \A u \in Threads : u # t => running'[u] >= running[u]
        BY <4>2, <1>1
      <4>4. QED
        BY <4>2, <4>3, <3>2, Zenon
    <3>3. QED
      BY <3>1, <3>2, Zenon
  <2>6. InProcess(n, t.id)' => Alive(n, t.id)' # {}
    <3>1. InProcess(n, t.id)' => s # Nobody /\ v = "in_process"
      BY <2>4, <1>1, Zenon DEF InProcess
    <3>2. v = "in_process" => again
      BY Zenon DEF v
    <3>3. QED
      BY <3>1, <3>2, <2>5, Zenon
  <2>7. \A u \in Threads : <<u.netid, u.id>> # <<n, t.id>> /\ running[u] > 0 => running'[u] > 0
    BY <1>1, <2>5
  <2>8. TrackedHasMode' /\ InProcessHasThread'
    BY <1>1, <2>4, <2>6, <2>7, OneServerStep, SMTT(30)
  <2>9. TypeOK'
    BY <1>1, <2>2, <2>4, <2>5, <1>t, Zenon DEF TypeOK
  <2>10. QED
    BY <2>8, <2>9, Zenon DEF IInv
<1>4. QED
  BY <1>2, <1>3, Zenon

\* A waiting thread goes on unless its network is gone.
LEMMA BackoffStep ==
    ASSUME IInv, NEW t \in Threads, BackoffOver(t)
    PROVE  IInv'
<1> DEFINE n == t.netid
<1>t. TypeOK
  BY Zenon DEF IInv
<1>1. /\ n \in NetIds /\ t.id \in ServerIdentity
      /\ t.at = "backoff" /\ running[t] > 0 /\ running \in [Threads -> Nat]
      /\ UNCHANGED <<nets, modes, mDotTracker, mDohTracker, asked, reported, job>>
  BY <1>t, Zenon DEF Threads, BackoffOver, TypeOK
<1>2. /\ running' \in [Threads -> Nat]
      /\ \A u \in Threads : u # t => running'[u] >= running[u]
      /\ modes[n] # "NONE" => Alive(n, t.id)' # {}
  <2>1. CASE modes[n] = "NONE"
    BY <2>1, <1>1, EndCounts DEF BackoffOver
  <2>2. CASE modes[n] # "NONE"
    <3>1. Goto(t, "validate")
      BY <2>2, Zenon DEF BackoffOver
    <3>2. /\ running' \in [Threads -> Nat]
          /\ running'[[t EXCEPT !.at = "validate"]] > 0
          /\ \A u \in Threads : u # t => running'[u] >= running[u]
      BY Zenon, <3>1, <1>1, GotoCounts
    <3>3. [t EXCEPT !.at = "validate"] \in Alive(n, t.id)'
      BY Zenon, <3>2, MovedThread DEF Alive
    <3>4. QED
      BY <3>2, <3>3, Zenon
  <2>3. QED
    BY <2>1, <2>2, Zenon
<1>3. modes[n] = "NONE" => ~InProcess(n, t.id)'
  BY <1>1, Zenon DEF IInv, TrackedHasMode, InProcess
<1>4. mDotTracker' \in [NetIds -> [ServerIdentity -> DnsTlsServer \cup {Nobody}]]
  BY <1>1, <1>t, Zenon DEF TypeOK
<1>5. \A u \in Threads : <<u.netid, u.id>> # <<n, t.id>> /\ running[u] > 0 => running'[u] > 0
  BY <1>1, <1>2
<1>6. TrackedHasMode' /\ InProcessHasThread'
  BY <1>1, <1>2, <1>3, <1>4, <1>5, OneServerStep, SMTT(30)
<1>7. TypeOK'
  BY <1>1, <1>2, <1>t, Zenon DEF TypeOK
<1>8. QED
  BY <1>6, <1>7, Zenon DEF IInv

\* createNetworkCache, setResolverConfiguration and destroyNetworkCache.
LEMMA ControllerKeeps ==
    ASSUME IInv, NEW k \in Controllers, ControllerStep(k)
    PROVE  IInv'
<1>t. TypeOK
  BY Zenon DEF IInv
<1>1. CASE \E n \in NetIds : createNetworkCache(k, n) \/ BeginSet(k, n) \/ BeginDestroy(k, n)
  <2>1. PICK n \in NetIds : createNetworkCache(k, n) \/ BeginSet(k, n) \/ BeginDestroy(k, n)
    BY <1>1, Zenon
  <2>2. UNCHANGED <<modes, mDotTracker, mDohTracker, running, asked, reported>>
    BY <2>1, Zenon DEF createNetworkCache, BeginSet, BeginDestroy
  <2>3. nets' \subseteq NetIds /\ job' \in [Controllers -> Jobs \cup {Nobody}]
    BY <2>1, <1>t DEF createNetworkCache, BeginSet, BeginDestroy, TypeOK, Jobs
  <2>4. TypeOK'
    BY <2>2, <2>3, <1>t, Zenon DEF TypeOK
  <2>5. TrackedHasMode' /\ InProcessHasThread'
    BY <2>2, Zenon DEF IInv, TrackedHasMode, InProcessHasThread, InProcess, Alive
  <2>6. QED
    BY <2>4, <2>5, Zenon DEF IInv
<1>2. CASE FinishSet(k)
  <2>1. job[k] \in Jobs /\ job[k].netid \in NetIds
    BY <1>2, <1>t, Zenon DEF FinishSet, TypeOK, Jobs
  <2>2. PICK mark \in Marks, servers \in SUBSET Servers, name \in Names \cup {NoName} :
          \E doh \in DohIdentities(servers, name) : set(job[k].netid, mark, servers, name, doh)
    BY <1>2, Zenon DEF FinishSet
  <2>3. PICK doh \in DohIdentities(servers, name) : set(job[k].netid, mark, servers, name, doh)
    BY <2>2, Zenon
  <2>4. nets' = nets /\ job' \in [Controllers -> Jobs \cup {Nobody}]
    BY <1>2, <1>t, Zenon DEF FinishSet, TypeOK
  <2>5. QED
    BY <2>1, <2>3, <2>4, SetStep, Zenon
<1>3. CASE clear(k)
  <2> DEFINE n == job[k].netid
  <2>1. n \in NetIds
    BY <1>3, <1>t, Zenon DEF clear, TypeOK, Jobs
  <2>2. /\ modes' = [modes EXCEPT ![n] = "NONE"]
        /\ mDotTracker' = [mDotTracker EXCEPT ![n] = NoServers]
        /\ mDohTracker' = [mDohTracker EXCEPT ![n] = Nobody]
        /\ job' = [job EXCEPT ![k] = Nobody]
        /\ UNCHANGED <<nets, running, asked, reported>>
    BY <1>3, Zenon DEF clear, clearDoh
  <2> HIDE DEF n
  <2>3. /\ mDotTracker' \in [NetIds -> [ServerIdentity -> DnsTlsServer \cup {Nobody}]]
        /\ \A m \in NetIds : m # n => mDotTracker'[m] = mDotTracker[m]
        /\ \A id \in ServerIdentity : mDotTracker'[n][id] = Nobody
        /\ InProcessHasThread'
    BY Zenon, <2>1, <2>2, EmptiedTracker
  <2>4. TypeOK'
    BY <2>1, <2>2, <2>3, <1>t, Zenon DEF TypeOK, Modes
  <2>5. TrackedHasMode'
    BY <2>2, <2>3, <1>t, Zenon DEF IInv, TrackedHasMode, TypeOK
  <2>6. QED
    BY <2>3, <2>4, <2>5, Zenon DEF IInv
<1>4. QED
  BY <1>1, <1>2, <1>3, Zenon DEF ControllerStep

\* onDohStatusUpdate() leaves the DoT servers and threads alone.
LEMMA DohStep ==
    ASSUME IInv, NEW n \in NetIds, NEW id \in ServerIdentity, NEW success \in BOOLEAN,
           onDohStatusUpdate(n, id, success)
    PROVE  IInv'
<1>t. TypeOK
  BY Zenon DEF IInv
<1>1. UNCHANGED <<nets, modes, mDotTracker, running, asked, job>>
  BY Zenon DEF onDohStatusUpdate
<1>2. /\ mDohTracker' \in [NetIds -> [id: ServerIdentity, status: Validation] \cup {Nobody}]
      /\ reported' \in [NetIds -> [ServerIdentity -> {"none", "success", "fail"}]]
  <2>1. CASE UNCHANGED <<mDohTracker, reported>>
    BY <2>1, <1>t, Zenon DEF TypeOK
  <2>2. CASE ~UNCHANGED <<mDohTracker, reported>>
    <3> DEFINE v == IF success THEN "success" ELSE "fail"
    <3>1. /\ mDohTracker[n] # Nobody
          /\ mDohTracker' = [mDohTracker EXCEPT ![n] = [id |-> @.id, status |-> v]]
          /\ Report(n, id, success, needReportDoh(n, id, success))
      BY <2>2, Zenon DEF onDohStatusUpdate
    <3>2. mDohTracker \in [NetIds -> [id: ServerIdentity, status: Validation] \cup {Nobody}]
      BY <1>t, Zenon DEF TypeOK
    <3>3. v \in Validation
      BY Zenon DEF Validation
    <3> HIDE DEF v
    <3>4. mDohTracker' \in [NetIds -> [id: ServerIdentity, status: Validation] \cup {Nobody}]
      <4>1. [id |-> mDohTracker[n].id, status |-> v] \in [id: ServerIdentity, status: Validation]
        BY <3>1, <3>2, <3>3, Zenon
      <4>2. QED
        BY <3>1, <3>2, <4>1, Zenon
    <3>5. QED
      BY <3>1, <3>4, <1>t, ReportType, Zenon
  <2>3. QED
    BY <2>1, <2>2, Zenon
<1>3. TypeOK'
  BY <1>1, <1>2, <1>t, Zenon DEF TypeOK
<1>4. TrackedHasMode' /\ InProcessHasThread'
  BY <1>1, Zenon DEF IInv, TrackedHasMode, InProcessHasThread, InProcess, Alive
<1>5. QED
  BY <1>3, <1>4, Zenon DEF IInv

\* Every step keeps the invariant.
LEMMA NextIInv == IInv /\ [Next]_vars => IInv'
<1> SUFFICES ASSUME IInv, [Next]_vars PROVE IInv'
  BY Zenon
<1>1. CASE UNCHANGED vars
  BY <1>1 DEF vars, IInv, TypeOK, TrackedHasMode, InProcessHasThread, InProcess, Alive
<1>2. CASE \E k \in Controllers : ControllerStep(k)
  BY <1>2, ControllerKeeps, Zenon
<1>3. CASE \E t \in Threads : ThreadStep(t)
  BY <1>3, RecordStep, BackoffStep, Zenon DEF ThreadStep
<1>4. CASE \E n \in NetIds, id \in ServerIdentity :
             \/ \E mark \in Marks : requestDotValidation(n, id, mark)
             \/ \E success \in BOOLEAN : onDohStatusUpdate(n, id, success)
  BY <1>4, RequestStep, DohStep, Zenon
<1>5. QED
  BY <1>1, <1>2, <1>3, <1>4, Zenon DEF Next

\* The type invariant of PrivateDnsConfiguration, for any networks and servers.
THEOREM TypeCorrect == Spec => []TypeOK
<1>1. IInv => TypeOK
  BY Zenon DEF IInv
<1>2. QED
  BY <1>1, InitIInv, NextIInv, PTL DEF Spec

\* No server is left in_process without a validation thread, for any number of
\* networks, servers, names, controllers and threads.
THEOREM InProcessIsWorkedOn == Spec => []InProcessHasThread
<1>1. IInv => InProcessHasThread
  BY Zenon DEF IInv
<1>2. QED
  BY <1>1, InitIInv, NextIInv, PTL DEF Spec

----------------------------------------------------------------------------
(* The events and the states agree.                                         *)

Works(n, id) == mDotTracker[n][id] # Nobody /\ mDotTracker[n][id].validation = "success"

\* A step after which no more servers work than before.
NoNewSuccess == \A n \in NetIds, id \in ServerIdentity : Works(n, id)' => Works(n, id)

\* Such a step keeps the agreement if it tells nobody anything.
LEMMA QuietStep ==
    ASSUME ReportedFailureIsReal, NoNewSuccess, reported' = reported
    PROVE  ReportedFailureIsReal'
  BY Zenon DEF ReportedFailureIsReal, NoNewSuccess, Works

\* set(): a server is in_process, or what it was, or new and unknown.
LEMMA SetQuiet ==
    ASSUME IInv, NEW n \in NetIds, NEW mark \in Marks, NEW servers \in SUBSET Servers,
           NEW name \in Names \cup {NoName}, NEW doh, set(n, mark, servers, name, doh)
    PROVE  NoNewSuccess
<1> DEFINE wanted == servers \X {name}
           S == Starting(n, wanted, mark)
           new(id) == IF id \notin Known(n, wanted) THEN Nobody
                      ELSE [Configured(n, id, wanted, mark) EXCEPT
                              !.validation = IF id \in S THEN "in_process" ELSE @]
<1>t. TypeOK /\ mDotTracker \in [NetIds -> [ServerIdentity -> DnsTlsServer \cup {Nobody}]]
  BY Zenon DEF IInv, TypeOK
<1>1. wanted \in SUBSET ServerIdentity
  BY Zenon DEF ServerIdentity
<1>2. CASE mDotTracker' = [mDotTracker EXCEPT ![n] = NoServers]
  <2>1. \A m \in NetIds, id \in ServerIdentity :
          mDotTracker'[m][id] = mDotTracker[m][id] \/ mDotTracker'[m][id] = Nobody
    BY <1>2, <1>t, Zenon DEF NoServers
  <2>2. QED
    BY <2>1, Zenon DEF NoNewSuccess, Works
<1>3. CASE mDotTracker' = [mDotTracker EXCEPT ![n] = [id \in ServerIdentity |-> new(id)]]
  <2> SUFFICES ASSUME NEW m \in NetIds, NEW id \in ServerIdentity, Works(m, id)'
               PROVE  Works(m, id)
    BY Zenon DEF NoNewSuccess
  <2>1. CASE m # n
    BY <2>1, <1>3, <1>t, Zenon DEF Works
  <2>2. CASE m = n
    <3>1. mDotTracker'[n][id] = new(id) /\ new(id) # Nobody /\ new(id).validation = "success"
      BY <1>3, <1>t, <2>2, Zenon DEF Works
    <3>2. id \in Known(n, wanted)
      BY <3>1, Zenon
    <3>3. Configured(n, id, wanted, mark) \in DnsTlsServer
      BY <1>1, <1>t, <3>2, ConfiguredType, Zenon
    <3>4. Configured(n, id, wanted, mark).validation = "success"
      <4>1. id \notin S
        BY <3>1, <3>2, <3>3, Zenon DEF DnsTlsServer
      <4>2. QED
        BY <3>1, <3>2, <3>3, <4>1, Zenon DEF DnsTlsServer
    <3>5. mDotTracker[n][id] # Nobody /\ mDotTracker[n][id].validation = "success"
      BY <3>4, Zenon DEF Configured
    <3>6. QED
      BY <2>2, <3>5, Zenon DEF Works
  <2>3. QED
    BY <2>1, <2>2, Zenon
<1>4. QED
  BY <1>2, <1>3, Zenon DEF set, setDot

\* What Report() leaves for one server, and that it tells nothing of the others.
LEMMA ReportFacts ==
    ASSUME TypeOK, NEW n \in NetIds, NEW id \in ServerIdentity, NEW success \in BOOLEAN, NEW needed,
           Report(n, id, success, needed)
    PROVE  /\ needed => reported'[n][id] = IF success THEN "success" ELSE "fail"
           /\ ~needed => reported'[n][id] = reported[n][id]
           /\ \A m \in NetIds, x \in ServerIdentity :
                <<m, x>> # <<n, id>> => reported'[m][x] = reported[m][x]
<1>1. reported \in [NetIds -> [ServerIdentity -> {"none", "success", "fail"}]]
  BY Zenon DEF TypeOK
<1> DEFINE v == IF success THEN "success" ELSE "fail"
           row == [reported[n] EXCEPT ![id] = v]
<1>2. needed => reported' = [reported EXCEPT ![n] = row]
  BY Zenon DEF Report
<1>3. ~needed => reported' = reported
  BY Zenon DEF Report
<1>4. row[id] = v /\ \A x \in ServerIdentity : x # id => row[x] = reported[n][x]
  BY <1>1, Zenon
<1> HIDE DEF row
<1>5. needed => reported'[n] = row /\ \A m \in NetIds : m # n => reported'[m] = reported[m]
  BY <1>1, <1>2, Zenon
<1>6. QED
  BY <1>3, <1>4, <1>5, Zenon

\* A server gets a new state, and a success is always told.
LEMMA ToldAgrees ==
    ASSUME IInv, ReportedFailureIsReal, NEW n \in NetIds, NEW id \in ServerIdentity,
           NEW good \in BOOLEAN, NEW needed, NEW v \in Validation,
           good => needed, v = "success" => good,
           Report(n, id, good, needed), updateServerState(n, id, v)
    PROVE  ReportedFailureIsReal'
<1>t. TypeOK
  BY Zenon DEF IInv
<1>1. /\ mDotTracker[n][id] # Nobody => mDotTracker'[n][id].validation = v
      /\ \A m \in NetIds, x \in ServerIdentity :
           /\ mDotTracker'[m][x] = Nobody <=> mDotTracker[m][x] = Nobody
           /\ <<m, x>> # <<n, id>> => mDotTracker'[m][x] = mDotTracker[m][x]
  BY UpdatedServer, Zenon
<1>2. /\ needed => reported'[n][id] = IF good THEN "success" ELSE "fail"
      /\ \A m \in NetIds, x \in ServerIdentity :
           <<m, x>> # <<n, id>> => reported'[m][x] = reported[m][x]
  BY <1>t, ReportFacts
<1> SUFFICES ASSUME NEW m \in NetIds, NEW x \in ServerIdentity,
                    reported'[m][x] = "fail", mDotTracker'[m][x] # Nobody
             PROVE  mDotTracker'[m][x].validation # "success"
  BY Zenon DEF ReportedFailureIsReal
<1>3. CASE m = n /\ x = id
  <2>1. mDotTracker'[n][id].validation = v
    BY <1>1, <1>3, Zenon
  <2>2. ~good
    BY <1>2, <1>3
  <2>3. QED
    BY <1>3, <2>1, <2>2, Zenon
<1>4. CASE <<m, x>> # <<n, id>>
  <2>1. mDotTracker'[m][x] = mDotTracker[m][x] /\ reported'[m][x] = reported[m][x]
    BY <1>1, <1>2, <1>4, Zenon
  <2>2. QED
    BY <2>1, Zenon DEF ReportedFailureIsReal
<1>5. QED
  BY <1>3, <1>4

\* recordDotValidation(): a success is always told.
LEMMA RecordAgrees ==
    ASSUME IInv, ReportedFailureIsReal, NEW t \in Threads, NEW success \in BOOLEAN,
           recordDotValidation(t, success)
    PROVE  ReportedFailureIsReal'
<1> DEFINE n == t.netid
           s == mDotTracker[n][t.id]
           wanted == s # Nobody /\ s.active
           good   == success /\ wanted
           again  == wanted /\ reevaluate(t, success)
           v == IF good THEN "success" ELSE IF again THEN "in_process" ELSE "fail"
<1>1. n \in NetIds /\ t.id \in ServerIdentity
  BY Zenon DEF Threads
<1>2. CASE modes[n] \in {"NONE", "OFF"}
  BY <1>2, QuietStep, Zenon DEF recordDotValidation, NoNewSuccess, Works
<1>3. CASE modes[n] \notin {"NONE", "OFF"}
  <2>1. /\ Report(n, t.id, good, needReportDot(n, t.id, good))
        /\ updateServerState(n, t.id, v)
    BY <1>3, Zenon DEF recordDotValidation
  <2>2. v \in Validation /\ (v = "success" => good) /\ good \in BOOLEAN
    BY Zenon DEF Validation
  <2>3. good => needReportDot(n, t.id, good)
    BY Zenon DEF needReportDot
  <2> HIDE DEF v, good
  <2>4. QED
    BY <1>1, <2>1, <2>2, <2>3, ToldAgrees, Zenon
<1>4. QED
  BY <1>2, <1>3, Zenon

\* onDohStatusUpdate(): a failure is told only if no DoT server of that address works.
LEMMA DohAgrees ==
    ASSUME IInv, ReportedFailureIsReal, NEW n \in NetIds, NEW id \in ServerIdentity,
           NEW success \in BOOLEAN, onDohStatusUpdate(n, id, success)
    PROVE  ReportedFailureIsReal'
<1>t. TypeOK
  BY Zenon DEF IInv
<1>1. mDotTracker' = mDotTracker
  BY Zenon DEF onDohStatusUpdate
<1>2. CASE reported' = reported
  BY <1>1, <1>2, Zenon DEF ReportedFailureIsReal
<1>3. CASE Report(n, id, success, needReportDoh(n, id, success))
  <2>1. /\ needReportDoh(n, id, success) => reported'[n][id] = IF success THEN "success" ELSE "fail"
        /\ ~needReportDoh(n, id, success) => reported'[n][id] = reported[n][id]
        /\ \A m \in NetIds, x \in ServerIdentity :
             <<m, x>> # <<n, id>> => reported'[m][x] = reported[m][x]
    BY <1>3, <1>t, ReportFacts
  <2>2. needReportDoh(n, id, success) /\ ~success => ~Works(n, id)
    BY Zenon DEF needReportDoh, Works
  <2> SUFFICES ASSUME NEW m \in NetIds, NEW x \in ServerIdentity, reported'[m][x] = "fail"
               PROVE  ~Works(m, x)
    BY <1>1, Zenon DEF ReportedFailureIsReal, Works
  <2>3. CASE m = n /\ x = id
    <3>1. CASE needReportDoh(n, id, success)
      BY <2>1, <2>2, <2>3, <3>1, Zenon
    <3>2. CASE ~needReportDoh(n, id, success)
      BY <2>1, <2>3, <3>2, Zenon DEF ReportedFailureIsReal, Works
    <3>3. QED
      BY <3>1, <3>2, Zenon
  <2>4. CASE <<m, x>> # <<n, id>>
    BY <2>1, <2>4, Zenon DEF ReportedFailureIsReal, Works
  <2>5. QED
    BY <2>3, <2>4
<1>4. QED
  BY <1>2, <1>3, Zenon DEF onDohStatusUpdate

\* Every step keeps the events and the states in agreement.
LEMMA NextAgrees == IInv /\ ReportedFailureIsReal /\ [Next]_vars => ReportedFailureIsReal'
<1> SUFFICES ASSUME IInv, ReportedFailureIsReal, [Next]_vars PROVE ReportedFailureIsReal'
  BY Zenon
<1>t. mDotTracker \in [NetIds -> [ServerIdentity -> DnsTlsServer \cup {Nobody}]]
      /\ job \in [Controllers -> Jobs \cup {Nobody}]
  BY Zenon DEF IInv, TypeOK
<1>1. CASE mDotTracker' = mDotTracker /\ reported' = reported
  BY <1>1, Zenon DEF ReportedFailureIsReal
<1>2. ASSUME NEW k \in Controllers, FinishSet(k) PROVE ReportedFailureIsReal'
  <2>1. job[k].netid \in NetIds
    BY <1>2, <1>t, Zenon DEF FinishSet, Jobs
  <2>2. PICK mark \in Marks, servers \in SUBSET Servers, name \in Names \cup {NoName} :
          \E doh \in DohIdentities(servers, name) : set(job[k].netid, mark, servers, name, doh)
    BY <1>2, Zenon DEF FinishSet
  <2>3. PICK doh \in DohIdentities(servers, name) : set(job[k].netid, mark, servers, name, doh)
    BY <2>2, Zenon
  <2>4. NoNewSuccess
    BY <2>1, <2>3, SetQuiet, Zenon
  <2>5. QED
    BY <2>3, <2>4, QuietStep, Zenon DEF set
<1>3. ASSUME NEW k \in Controllers, clear(k) PROVE ReportedFailureIsReal'
  <2> DEFINE n == job[k].netid
  <2>1. mDotTracker' = [mDotTracker EXCEPT ![n] = NoServers] /\ reported' = reported
    BY <1>3, Zenon DEF clear
  <2>2. \A m \in NetIds, id \in ServerIdentity :
          mDotTracker'[m][id] = mDotTracker[m][id] \/ mDotTracker'[m][id] = Nobody
    BY <2>1, <1>t, Zenon DEF NoServers
  <2>3. QED
    BY <2>1, <2>2, QuietStep, Zenon DEF NoNewSuccess, Works
<1>4. ASSUME NEW n \in NetIds, NEW id \in ServerIdentity, NEW mark \in Marks,
             requestDotValidation(n, id, mark)
      PROVE  ReportedFailureIsReal'
  <2>1. "in_process" \in Validation /\ updateServerState(n, id, "in_process") /\ reported' = reported
        /\ mDotTracker[n][id] # Nobody
    BY <1>4, Zenon DEF requestDotValidation, Validation
  <2>2. /\ mDotTracker'[n][id].validation = "in_process"
        /\ \A m \in NetIds, x \in ServerIdentity :
             <<m, x>> # <<n, id>> => mDotTracker'[m][x] = mDotTracker[m][x]
    BY <2>1, UpdatedServer
  <2>3. NoNewSuccess
    BY <2>2, Zenon DEF NoNewSuccess, Works
  <2>4. QED
    BY <2>1, <2>3, QuietStep, Zenon
<1>5. CASE \E k \in Controllers : ControllerStep(k)
  BY <1>1, <1>2, <1>3, <1>5, Zenon DEF ControllerStep, createNetworkCache, BeginSet, BeginDestroy
<1>6. CASE \E t \in Threads : ThreadStep(t)
  BY <1>1, <1>6, RecordAgrees, Zenon DEF ThreadStep, BackoffOver
<1>7. CASE UNCHANGED vars
  BY <1>1, <1>7, Zenon DEF vars
<1>8. ASSUME NEW n \in NetIds, NEW id \in ServerIdentity,
             \/ \E mark \in Marks : requestDotValidation(n, id, mark)
             \/ \E success \in BOOLEAN : onDohStatusUpdate(n, id, success)
      PROVE  ReportedFailureIsReal'
  BY <1>4, <1>8, DohAgrees, Zenon
<1>9. QED
  BY <1>5, <1>6, <1>7, <1>8, Zenon DEF Next

\* If the last event about a server was a failure then no query goes to it over TLS,
\* whatever validations, DoH reports and reconfigurations overlapped.
THEOREM FailuresAreReal == Spec => []ReportedFailureIsReal
<1>1. Init => ReportedFailureIsReal
  BY Zenon DEF Init, ReportedFailureIsReal, NoServers
<1>2. QED
  BY <1>1, InitIInv, NextIInv, NextAgrees, PTL DEF Spec

----------------------------------------------------------------------------
(* A destroyed network.                                                     *)

\* Calls of ResolverController do not overlap.
OneController == \A j, k \in Controllers : j = k

Clean(n) == modes[n] = "NONE" /\ mDotTracker[n] = NoServers /\ mDohTracker[n] = Nobody
Clearing(n) == \E k \in Controllers : job[k] # Nobody /\ job[k].op = "clear" /\ job[k].netid = n

\* A network without a cache is clean or about to be cleared, and none is being set.
ClearedInv ==
    /\ \A n \in NetIds \ nets : Clean(n) \/ Clearing(n)
    /\ \A k \in Controllers : job[k] # Nobody /\ job[k].op = "set" => job[k].netid \in nets

\* A step of the controller that reconfigures or clears only the network it is called for.
LEMMA ControllerClears ==
    ASSUME OneController, IInv, ClearedInv, NEW k \in Controllers, ControllerStep(k)
    PROVE  ClearedInv'
<1>t. /\ modes \in [NetIds -> Modes] /\ job \in [Controllers -> Jobs \cup {Nobody}]
      /\ mDotTracker \in [NetIds -> [ServerIdentity -> DnsTlsServer \cup {Nobody}]]
      /\ mDohTracker \in [NetIds -> [id: ServerIdentity, status: Validation] \cup {Nobody}]
  BY Zenon DEF IInv, TypeOK
<1>1. \A j \in Controllers : j = k
  BY Zenon DEF OneController
<1>2. ASSUME NEW n \in NetIds, createNetworkCache(k, n) PROVE ClearedInv'
  BY <1>2, Zenon DEF createNetworkCache, ClearedInv, Clean, Clearing
<1>3. ASSUME NEW n \in NetIds, BeginSet(k, n) PROVE ClearedInv'
  <2>1. job'[k] = [op |-> "set", netid |-> n] /\ job[k] = Nobody /\ n \in nets
    BY <1>3, <1>t, Zenon DEF BeginSet
  <2>2. UNCHANGED <<nets, modes, mDotTracker, mDohTracker>>
    BY <1>3, Zenon DEF BeginSet
  <2>3. \A m \in NetIds \ nets : Clean(m)
    BY <1>1, <2>1, Zenon DEF ClearedInv, Clearing
  <2>4. job'[k].netid = n
    BY <2>1
  <2>5. QED
    BY <1>1, <2>1, <2>2, <2>3, <2>4, Zenon DEF ClearedInv, Clean
<1>4. ASSUME NEW n \in NetIds, BeginDestroy(k, n) PROVE ClearedInv'
  <2>1. job'[k] = [op |-> "clear", netid |-> n] /\ job[k] = Nobody /\ nets' = nets \ {n}
    BY <1>4, <1>t, Zenon DEF BeginDestroy
  <2>2. UNCHANGED <<modes, mDotTracker, mDohTracker>>
    BY <1>4, Zenon DEF BeginDestroy
  <2>3. \A m \in NetIds \ nets : Clean(m)
    BY <1>1, <2>1, Zenon DEF ClearedInv, Clearing
  <2>4. job'[k].netid = n /\ job'[k].op = "clear" /\ job'[k] # Nobody
    <3>1. [op |-> "clear", netid |-> n] \in Jobs
      BY Zenon DEF Jobs
    <3>2. QED
      BY <2>1, <3>1, NobodyAssumption
  <2>5. QED
    BY <1>1, <2>1, <2>2, <2>3, <2>4, Zenon DEF ClearedInv, Clean, Clearing
<1>5. ASSUME NEW n \in NetIds, n = job[k].netid, job[k] # Nobody, nets' = nets, job'[k] = Nobody,
             \A m \in NetIds : m # n =>
               modes'[m] = modes[m] /\ mDotTracker'[m] = mDotTracker[m] /\ mDohTracker'[m] = mDohTracker[m],
             n \in nets \/ Clean(n)'
      PROVE  ClearedInv'
  <2>1. \A m \in NetIds \ nets : m # n => Clean(m)
    BY <1>1, <1>5, Zenon DEF ClearedInv, Clearing
  <2>2. \A m \in NetIds \ nets : m # n => Clean(m)'
    BY <1>5, <2>1, Zenon DEF Clean
  <2>3. \A m \in NetIds \ nets' : Clean(m)'
    BY <1>5, <2>2, Zenon
  <2>4. \A j \in Controllers : job'[j] = Nobody
    BY <1>1, <1>5, Zenon
  <2>5. QED
    BY <2>3, <2>4, Zenon DEF ClearedInv
<1>6. ASSUME FinishSet(k) PROVE ClearedInv'
  <2>n. PICK n \in NetIds : n = job[k].netid
    BY <1>6, <1>t, Zenon DEF FinishSet, Jobs
  <2>1. job[k] # Nobody /\ job[k].op = "set" /\ nets' = nets /\ job'[k] = Nobody
    BY <1>6, <1>t, Zenon DEF FinishSet
  <2>2. PICK mark, servers, name, doh : set(n, mark, servers, name, doh)
    BY <1>6, <2>n, Zenon DEF FinishSet
  <2>3. \A m \in NetIds : m # n => modes'[m] = modes[m]
    BY <1>t, <2>2, Zenon DEF set
  <2>4. \A m \in NetIds : m # n => mDotTracker'[m] = mDotTracker[m]
    BY <1>t, <2>2, Zenon DEF set, setDot
  <2>5. \A m \in NetIds : m # n => mDohTracker'[m] = mDohTracker[m]
    BY <1>t, <2>2, Zenon DEF set, setDoh, clearDoh
  <2>6. n \in nets
    BY <2>n, <2>1, Zenon DEF ClearedInv
  <2>7. QED
    BY <1>5, <2>n, <2>1, <2>3, <2>4, <2>5, <2>6, Zenon
<1>7. ASSUME clear(k) PROVE ClearedInv'
  <2>1. PICK n \in NetIds : n = job[k].netid
    BY <1>7, <1>t, Zenon DEF clear, Jobs
  <2>2. /\ modes' = [modes EXCEPT ![n] = "NONE"]
        /\ mDotTracker' = [mDotTracker EXCEPT ![n] = NoServers]
        /\ mDohTracker' = [mDohTracker EXCEPT ![n] = Nobody]
        /\ job[k] # Nobody /\ nets' = nets /\ job'[k] = Nobody
    BY <1>7, <1>t, <2>1, Zenon DEF clear, clearDoh
  <2>3. modes'[n] = "NONE" /\ \A m \in NetIds : m # n => modes'[m] = modes[m]
    BY <1>t, <2>1, <2>2, Zenon
  <2>4. mDotTracker'[n] = NoServers /\ \A m \in NetIds : m # n => mDotTracker'[m] = mDotTracker[m]
    BY <1>t, <2>1, <2>2, Zenon
  <2>5. mDohTracker'[n] = Nobody /\ \A m \in NetIds : m # n => mDohTracker'[m] = mDohTracker[m]
    BY <1>t, <2>1, <2>2, Zenon
  <2>6. Clean(n)'
    BY <2>3, <2>4, <2>5, Zenon DEF Clean
  <2>7. QED
    BY <1>5, <2>1, <2>2, <2>3, <2>4, <2>5, <2>6, Zenon
<1>8. QED
  BY <1>2, <1>3, <1>4, <1>6, <1>7, Zenon DEF ControllerStep

\* A step of a thread, the dispatcher or DoH gives a clean network nothing.
LEMMA OthersLeaveClean ==
    ASSUME IInv, ClearedInv, UNCHANGED <<nets, job>>, \A n \in NetIds : Clean(n) => Clean(n)'
    PROVE  ClearedInv'
  BY Zenon DEF ClearedInv, Clearing

\* Every step keeps a destroyed network clean or about to be cleared.
LEMMA NextCleared == OneController /\ IInv /\ ClearedInv /\ [Next]_vars => ClearedInv'
<1> SUFFICES ASSUME OneController, IInv, ClearedInv, [Next]_vars PROVE ClearedInv'
  BY Zenon
<1>t. /\ mDotTracker \in [NetIds -> [ServerIdentity -> DnsTlsServer \cup {Nobody}]]
      /\ mDohTracker \in [NetIds -> [id: ServerIdentity, status: Validation] \cup {Nobody}]
  BY Zenon DEF IInv, TypeOK
<1>1. ASSUME NEW t \in Threads, ThreadStep(t) PROVE ClearedInv'
  <2>1. UNCHANGED <<nets, modes, mDohTracker, job>>
    BY <1>1, Zenon DEF ThreadStep, recordDotValidation, BackoffOver
  <2>2. \A n \in NetIds : modes[n] = "NONE" => mDotTracker'[n] = mDotTracker[n]
    BY <1>1, <1>t, Zenon DEF ThreadStep, recordDotValidation, BackoffOver, updateServerState
  <2>3. QED
    BY <2>1, <2>2, OthersLeaveClean, Zenon DEF Clean
<1>2. ASSUME NEW n \in NetIds, NEW id \in ServerIdentity, NEW mark \in Marks,
             requestDotValidation(n, id, mark)
      PROVE  ClearedInv'
  <2>1. UNCHANGED <<nets, modes, mDohTracker, job>>
    BY <1>2, Zenon DEF requestDotValidation
  <2>2. \A m \in NetIds : modes[m] = "NONE" => mDotTracker'[m] = mDotTracker[m]
    BY <1>2, <1>t, Zenon DEF requestDotValidation, updateServerState
  <2>3. QED
    BY <2>1, <2>2, OthersLeaveClean, Zenon DEF Clean
<1>3. ASSUME NEW n \in NetIds, NEW id \in ServerIdentity, NEW success \in BOOLEAN,
             onDohStatusUpdate(n, id, success)
      PROVE  ClearedInv'
  <2>1. UNCHANGED <<nets, modes, mDotTracker, job>>
    BY <1>3, Zenon DEF onDohStatusUpdate
  <2>2. \A m \in NetIds : mDohTracker[m] = Nobody => mDohTracker'[m] = Nobody
    BY <1>3, <1>t, Zenon DEF onDohStatusUpdate
  <2>3. QED
    BY <2>1, <2>2, OthersLeaveClean, Zenon DEF Clean
<1>4. CASE UNCHANGED vars
  BY <1>4, OthersLeaveClean, Zenon DEF vars, Clean
<1>5. QED
  BY <1>1, <1>2, <1>3, <1>4, ControllerClears, Zenon DEF Next

\* A destroyed network keeps no private DNS configuration, whatever validation threads,
\* DoH reports and revalidations are still under way, as long as calls of
\* ResolverController do not overlap.
THEOREM NothingIsLeft ==
  ASSUME OneController
  PROVE  Spec => []NoConfigLeft
<1>1. Init => ClearedInv
  BY Zenon DEF Init, ClearedInv, Clean
<1>2. IInv /\ ClearedInv /\ [Next]_vars => ClearedInv'
  BY NextCleared, Zenon
<1>3. ClearedInv => NoConfigLeft
  BY Zenon DEF ClearedInv, Clean, Clearing, NoConfigLeft
<1>4. QED
  BY <1>1, <1>2, <1>3, InitIInv, NextIInv, PTL DEF Spec
============================================================================
