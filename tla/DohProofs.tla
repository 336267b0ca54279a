------------------------------ MODULE DohProofs ------------------------------
(***************************************************************************)
(* Proofs about Doh, for every number of queries, probes, networks and      *)
(* connections and every size of the channels:                              *)
(*                                                                         *)
(*   TypeCorrect           every variable keeps its type                    *)
(*   DohImplementsService  to its callers DoH is the query service          *)
(*   RequestsAreTracked    no request is dropped on the floor               *)
(*   QueriesGoToValidated  queries go to servers whose probe was answered   *)
(*   RegisteredIsServed    a network that is registered has its driver      *)
(*                                                                         *)
(* The invariant has a part per question.  JobsFit says what a driver may   *)
(* work on at each of its awaits.  AnswersRight follows a query from the    *)
(* caller to the stream that answers it.  NetsConnected gives each running  *)
(* network a connection of its own to its own server.  ProbesOwned says     *)
(* that a probe is in one place only until it is answered: without it a     *)
(* stream that answered a probe might be overwritten, and a server would no *)
(* longer count as validated.  OnlyValidated then follows a query from the  *)
(* dispatcher to the connection.                                            *)
(***************************************************************************)
EXTENDS Doh, TLAPS

\* A leaf is proved by Zenon unless it says SMT.
USE Zenon

----------------------------------------------------------------------------
(* The invariants                                                           *)

\* What a connection driver still has, and each probe in one place.
Holds(d) == (Range(d.rq) \cup d.sent \cup {d.buf}) \ {None}
Once(s, S) == \A m, n \in DOMAIN s : s[m] = s[n] /\ s[m] \in S => m = n
Tidy(d) ==
    /\ Once(d.rq, Probes)
    /\ \A p \in Probes : p \in Range(d.rq) => p # d.buf /\ p \notin d.sent
    /\ d.buf \in Probes => d.buf \notin d.sent

\* A running network has a connection of its own to its own server.  A connection that is
\* not there has nothing.
Running(i) == net[i].at \notin {"none", "ended"}
NetsConnected ==
    /\ \A i \in Nets : Running(i) =>
         /\ net[i].conn \in Conns /\ conn[net[i].conn].phase # "none" /\ conn[net[i].conn].tx
         /\ conn[net[i].conn].info = net[i].info
    /\ \A i, j \in Nets : Running(i) /\ Running(j) /\ net[i].conn = net[j].conn => i = j
    /\ \A c \in Conns : conn[c].phase \in {"none", "gone"} => Holds(conn[c]) = {}

\* What a driver works on fits the place it is at.
Fits(n) ==
    /\ n.at \in {"p_query", "p_wait", "report"} => n.job \in Probes
    /\ n.at \in {"wait1", "wait2", "q_send"} => n.job \in Queries
    /\ n.at = "reconnect" => n.job # None
    /\ n.at \in {"none", "recv", "ended"} => n.job = None
JobsFit == \A i \in Nets : Fits(net[i])

\* Who has a query until its answer is waited for.
Asked(q) == [op |-> "query", job |-> q] \in Range(cmds)
InNet(i, j) == j \in Range(net[i].q) \/ net[i].job = j
Submitted(r) ==
    r.at = "waiting" \/ (r.at = "done" /\ ~(r.code = "CAN_NOT_SEND" /\ r.rsp = "pending"))

Right(r, q) ==
    /\ r.at \in {"idle", "sending"} => r.rsp = "pending" /\ r.code = "none"
    /\ r.rsp = "Success" => r.got = q
    /\ r.code = "answer" => r.at = "done" /\ r.rsp = "Success"
AnswersRight ==
    /\ \A q \in Queries : Right(call[q], q)
    /\ \A q \in Queries : Asked(q) \/ (\E i \in Nets : InNet(i, q)) \/ q \in spawned => Submitted(call[q])
    /\ \A j \in Jobs : resp[j].st = "stream" => resp[j].of = j

\* Each probe is in one place until it is answered: in the dispatcher, in a network that has
\* not queried for it yet, or in a connection; and in each of them once.
ProbeCommands == [op: {"probe"}, job: Probes]
ProbeAsked(p) == [op |-> "probe", job |-> p] \in Range(cmds)
ProbeIn(i, p) == p \in Range(net[i].q) \/ (net[i].job = p /\ net[i].at \notin {"p_wait", "report"})
Owners == {<<"cmds", 0>>, <<"held", 0>>} \cup ({"net"} \X Nets) \cup ({"conn"} \X Conns)
Owns(x, p) ==
    \/ x = <<"cmds", 0>> /\ ProbeAsked(p)
    \/ x = <<"held", 0>> /\ held = p
    \/ \E i \in Nets : x = <<"net", i>> /\ ProbeIn(i, p)
    \/ \E c \in Conns : x = <<"conn", c>> /\ p \in Holds(conn[c])

OnceNet(i) ==
    /\ Once(net[i].q, Probes)
    /\ \A p \in Probes : p \in Range(net[i].q) => net[i].job # p \/ net[i].at \in {"p_wait", "report"}
OnceEach ==
    /\ Once(cmds, ProbeCommands)
    /\ \A i \in Nets : OnceNet(i)
    /\ \A c \in Conns : Tidy(conn[c])

ProbesOwned ==
    /\ OnceEach
    /\ \A p \in Probes : \A x, y \in Owners : Owns(x, p) /\ Owns(y, p) => x = y
    /\ \A p \in Probes : \A x \in Owners : Owns(x, p) => resp[p] = Pending /\ probe[p].at # "none"
    /\ \A p \in Probes : probe[p].at = "none" => resp[p] = Pending
    /\ \A p \in Probes : resp[p].st = "pending" => resp[p] = Pending

\* A query gets only as far as a probe of the same server was answered.
Validated(info) == \E p \in Probes : probe[p].info = info /\ resp[p].st \in {"stream", "reset"}
NetValid(i) ==
    /\ Running(i) /\ net[i].status = "Live" => Validated(net[i].info)
    /\ \A p \in Probes : InNet(i, p) => probe[p].info = net[i].info /\ probe[p].at # "none"
    /\ \A q \in Queries : InNet(i, q) => Validated(net[i].info)
ConnValid(c) == \A q \in Queries : q \in Holds(conn[c]) => Validated(conn[c].info)
OnlyValidated ==
    /\ NetworkServed
    /\ held # None => networks # 0 /\ probe[held].info = net[networks].info
    /\ \A i \in Nets : NetValid(i)
    /\ \A c \in Conns : ConnValid(c)

----------------------------------------------------------------------------
(* Types                                                                    *)

\* The values a place starts from.
LEMMA StartTypes ==
    /\ NoNet \in NetType /\ NoConn \in ConnType /\ Buried \in ConnType
    /\ Pending \in RespType
    /\ NoProbe \in ProbeType
<1>1. <<>> \in Seq(Jobs) /\ 0 \in 0..MaxConns /\ {} \in SUBSET Jobs
  BY LimitsAssumption, SMT
<1>2. NoNet \in NetType
  BY <1>1 DEF NoNet, NetType
<1>3. NoConn \in ConnType
  BY <1>1 DEF NoConn, ConnType
<1>4. Buried \in ConnType
  BY <1>3 DEF Buried, ConnType
<1> QED
  BY <1>2, <1>3, <1>4 DEF Pending, NoProbe, RespType, ProbeType

\* Taking from a channel and adding to it.
LEMMA ChannelTypes ==
    ASSUME NEW S, NEW s \in Seq(S)
    PROVE  /\ s # <<>> => Head(s) \in S /\ Tail(s) \in Seq(S)
           /\ \A x \in S : Append(s, x) \in Seq(S)
  BY SMT

\* Connections made and dropped.
LEMMA ConnectTypes ==
    ASSUME NEW cn \in [Conns -> ConnType], NEW c, NEW info \in Servers \cup {None}
    PROVE  /\ Connect(cn, c, info) \in [Conns -> ConnType]
           /\ Disconnect(cn, c) \in [Conns -> ConnType]
<1>1. [NoConn EXCEPT !.info = info, !.tx = TRUE, !.phase = "quic"] \in ConnType
  BY StartTypes DEF ConnType
<1>2. \A r \in ConnType : [r EXCEPT !.tx = FALSE] \in ConnType
  BY DEF ConnType
<1>3. Connect(cn, c, info) \in [Conns -> ConnType]
  BY <1>1 DEF Connect
<1>4. Disconnect(cn, c) \in [Conns -> ConnType]
  BY <1>2, StartTypes DEF Disconnect
<1> QED
  BY <1>3, <1>4

\* The updates of a Network.
LEMMA NetUpdates ==
    ASSUME NEW n \in NetType
    PROVE  /\ Ended(n) \in NetType /\ NextCommand(n) \in NetType
           /\ [n EXCEPT !.handle = FALSE] \in NetType
           /\ \A at \in {"wait2", "reconnect", "q_send", "p_wait"} : [n EXCEPT !.at = at] \in NetType
           /\ \A q \in Seq(Jobs) : [n EXCEPT !.q = q] \in NetType
<1>1. <<>> \in Seq(Jobs)
  BY SMT
<1>2. Ended(n) \in NetType
  BY <1>1 DEF NetType, Ended
<1>3. NextCommand(n) \in NetType
  BY DEF NetType, NextCommand
<1> QED
  BY <1>2, <1>3 DEF NetType

\* The network registered, when it is unregistered.
LEMMA UnregisteredType ==
    ASSUME net \in [Nets -> NetType]
    PROVE  Unregistered \in [Nets -> NetType]
  BY NetUpdates DEF Unregistered

\* The initial state, with a live network or without.
LEMMA InitType == Init => TypeOK
<1> SUFFICES ASSUME Init PROVE TypeOK
  BY SMT
<1>1. scene \in Scenes /\ scene.live \in BOOLEAN /\ clears \in Nat
  BY ScenesAssumption DEF Init
<1>2. call \in [Queries -> CallType]
  BY DEF Init, CallType
<1>3. cmds \in Seq(Commands) /\ held = None /\ spawned = {}
  BY SMT DEF Init
<1>4. /\ networks \in 0..MaxNets /\ net \in [Nets -> NetType] /\ conn \in [Conns -> ConnType]
      /\ resp \in [Jobs -> RespType]
      /\ probe \in [Probes -> ProbeType]
  <2>0. 1 \in 0..MaxConns /\ 1 \in 0..MaxNets /\ 0 \in 0..MaxNets
    BY LimitsAssumption, SMT
  <2>1. CASE scene.live
    <3>1. PICK info : info = scene.probes[1]
      OBVIOUS
    <3>2. info \in Servers /\ 1 \in Probes
      <4>1. scene.probes \in UNION {[1..m -> Servers] : m \in 0..MaxProbes} /\ scene.probes # <<>>
        BY <1>1, <2>1, ScenesAssumption
      <4>2. PICK m \in 0..MaxProbes : scene.probes \in [1..m -> Servers]
        BY <4>1
      <4>3. m # 0
        <5>1. ASSUME m = 0 PROVE FALSE
          <6>1. scene.probes = <<>>
            BY <4>2, <5>1, SMT
          <6> QED
            BY <4>1, <6>1
        <5> QED
          BY <5>1
      <4>4. 1 \in 1..m /\ 1 \in 1..MaxProbes
        BY <4>2, <4>3, LimitsAssumption, SMT
      <4> QED
        BY <3>1, <4>2, <4>4 DEF Probes
    <3>3. [NoNet EXCEPT !.handle = TRUE, !.info = info, !.status = "Live", !.at = "recv", !.conn = 1] \in NetType
      BY <2>0, <3>2, StartTypes DEF NetType
    <3>4. [NoConn EXCEPT !.info = info, !.tx = TRUE, !.val = "H3", !.news = TRUE, !.phase = "h3"] \in ConnType
      BY <3>2, StartTypes DEF ConnType
    <3>5. [st |-> "stream", of |-> 1] \in RespType
      BY <3>2 DEF RespType, Jobs
    <3>6. [info |-> info, at |-> "valid"] \in ProbeType
      BY <3>2 DEF ProbeType
    <3>7. /\ networks = 1
          /\ net = [[i \in Nets |-> NoNet] EXCEPT ![1] =
                      [NoNet EXCEPT !.handle = TRUE, !.info = info, !.status = "Live",
                                    !.at = "recv", !.conn = 1]]
          /\ conn = [[c \in Conns |-> NoConn] EXCEPT ![1] =
                       [NoConn EXCEPT !.info = info, !.tx = TRUE, !.val = "H3", !.news = TRUE,
                                      !.phase = "h3"]]
          /\ resp = [[j \in Jobs |-> Pending] EXCEPT ![1] = [st |-> "stream", of |-> 1]]
          /\ probe = [[p \in Probes |-> NoProbe] EXCEPT ![1] = [info |-> info, at |-> "valid"]]
      BY <2>1, <3>1 DEF Init
    <3>8. net \in [Nets -> NetType] /\ conn \in [Conns -> ConnType]
      BY <3>3, <3>4, <3>7, StartTypes
    <3>9. /\ resp \in [Jobs -> RespType]
          /\ probe \in [Probes -> ProbeType]
      BY <3>5, <3>6, <3>7, StartTypes
    <3> QED
      BY <2>0, <3>7, <3>8, <3>9
  <2>2. CASE ~scene.live
    BY <2>0, <2>2, StartTypes DEF Init
  <2> QED
    BY <2>1, <2>2
<1> QED
  BY <1>1, <1>2, <1>3, <1>4 DEF TypeOK

\* The command the dispatcher takes.
LEMMA JobTypes ==
    ASSUME TypeOK, NEW op, Command(op)
    PROVE  /\ cmds # <<>> /\ Head(cmds) \in Commands /\ Tail(cmds) \in Seq(Commands)
           /\ op = "query" => Job \in Queries
           /\ op = "probe" => Job \in Probes
<1>1. cmds # <<>> /\ cmds \in Seq(Commands) /\ Head(cmds).op = op
  BY DEF TypeOK, Command
<1>2. Head(cmds) \in Commands /\ Tail(cmds) \in Seq(Commands)
  BY <1>1, ChannelTypes
<1>3. \A d \in Commands : (d.op = "query" => d.job \in Queries) /\ (d.op = "probe" => d.job \in Probes)
  BY SMT DEF Commands
<1> QED
  BY <1>1, <1>2, <1>3 DEF Job

\* The initial jobs fit.
LEMMA InitFits == Init => JobsFit
<1> SUFFICES ASSUME Init, NEW i \in Nets PROVE Fits(net[i])
  BY DEF JobsFit
<1>1. net[i].at \in {"none", "recv"} /\ net[i].job = None
  <2>1. NoNet.at = "none" /\ NoNet.job = None
    BY SMT DEF NoNet
  <2>2. CASE scene.live
    <3>1. PICK n : n = [NoNet EXCEPT !.handle = TRUE, !.info = scene.probes[1], !.status = "Live", !.at = "recv", !.conn = 1]
      OBVIOUS
    <3>2. n.at = "recv" /\ n.job = None
      BY <3>1, SMT DEF NoNet
    <3>3. net = [[k \in Nets |-> NoNet] EXCEPT ![1] = n]
      BY <2>2, <3>1 DEF Init
    <3>4. net[i] = n \/ net[i] = NoNet
      BY <3>3
    <3> QED
      BY <2>1, <3>2, <3>4
  <2>3. CASE ~scene.live
    <3>1. net[i] = NoNet
      BY <2>3 DEF Init
    <3> QED
      BY <2>1, <3>1
  <2> QED
    BY <2>2, <2>3
<1> QED
  BY <1>1, SMT DEF Fits

\* The types hold, and the jobs fit.
Base == TypeOK /\ JobsFit

\* Every step keeps both.
LEMMA NextBase == Base /\ [Next]_vars => Base'
\* A call whose response is lost.
<1>LostType.
    ASSUME NEW cl \in [Queries -> CallType], NEW qs, NEW rsp \in {"Error", "Dropped"}
    PROVE  Lost(cl, qs, rsp) \in [Queries -> CallType]
  <2> USE <1>LostType
  <2>1. \A r \in CallType : [r EXCEPT !.rsp = rsp] \in CallType
    BY DEF CallType
  <2> QED
    BY <2>1 DEF Lost
\* Responses that are dropped.
<1>DroppedType.
    ASSUME resp \in [Jobs -> RespType], NEW js
    PROVE  Dropped(js) \in [Jobs -> RespType]
  <2> USE <1>DroppedType
  <2>1. [Pending EXCEPT !.st = "dropped"] \in RespType
    BY DEF Pending, RespType
  <2> QED
    BY <2>1 DEF Dropped
\* Probes that are given up.
<1>UnreportedType.
    ASSUME probe \in [Probes -> ProbeType], NEW ps
    PROVE  Unreported(ps) \in [Probes -> ProbeType]
  <2> USE <1>UnreportedType
  <2>1. \A r \in ProbeType :
          [r EXCEPT !.at = "unreported"] \in ProbeType
    BY DEF ProbeType
  <2> QED
    BY <2>1 DEF Unreported
\* The updates of a call.
<1>CallUpdates.
    ASSUME NEW r \in CallType
    PROVE  /\ [r EXCEPT !.at = "waiting"] \in CallType /\ [r EXCEPT !.at = "sending"] \in CallType
           /\ [r EXCEPT !.expired = TRUE] \in CallType
           /\ \A code \in {"answer", "CAN_NOT_SEND", "INTERNAL_ERROR", "TIMEOUT"} :
                 [r EXCEPT !.at = "done", !.code = code] \in CallType
           /\ \A j \in Jobs \cup {None} : [r EXCEPT !.rsp = "Success", !.got = j] \in CallType
  BY <1>CallUpdates DEF CallType
\* The callers keep the types.
<1>CallersType.
    ASSUME TypeOK, \/ \E q \in Queries : doh_query(q) \/ doh_query_send(q) \/ Expire(q) \/ doh_query_returns(q) \/ Deliver(q)
                   \/ (\E p \in Probes : doh_net_new(p)) \/ doh_net_delete
    PROVE  TypeOK'
  <2> USE <1>CallersType
  <2> USE DEF TypeOK
  <2>0. \A cmd \in Commands : Append(cmds, cmd) \in Seq(Commands)
    BY ChannelTypes
  <2>1. ASSUME NEW q \in Queries, doh_query(q) PROVE TypeOK'
    <3>1. [op |-> "query", job |-> q] \in Commands
      BY DEF Commands
    <3>2. UNCHANGED <<held, networks, net, conn, resp, spawned, probe, clears, scene>>
      BY <2>1 DEF doh_query, callerVars
    <3>3. cmds' \in Seq(Commands)
      BY <2>0, <2>1, <3>1 DEF doh_query, send_cmd
    <3>4. call' \in [Queries -> CallType]
      <4>1. \/ call' = [call EXCEPT ![q].at = "waiting"] \/ call' = [call EXCEPT ![q].at = "sending"]
            \/ call' = [call EXCEPT ![q] = [call[q] EXCEPT !.at = "done", !.code = "CAN_NOT_SEND"]]
        BY <2>1 DEF doh_query
      <4>2. call[q] \in CallType
        OBVIOUS
      <4>3. PICK r \in CallType : call' = [call EXCEPT ![q] = r]
        BY <4>1, <4>2, <1>CallUpdates
      <4> QED
        BY <4>3
    <3> QED
      BY <3>2, <3>3, <3>4
  <2>2. ASSUME NEW q \in Queries, doh_query_send(q) PROVE TypeOK'
    <3>1. [op |-> "query", job |-> q] \in Commands
      BY DEF Commands
    <3>2. UNCHANGED <<held, networks, net, conn, resp, spawned, probe, clears, scene>>
      BY <2>2 DEF doh_query_send, callerVars
    <3>3. cmds' \in Seq(Commands)
      BY <2>0, <2>2, <3>1 DEF doh_query_send, send_cmd
    <3>4. call' \in [Queries -> CallType]
      BY <2>2, <1>CallUpdates DEF doh_query_send
    <3> QED
      BY <3>2, <3>3, <3>4
  <2>3. ASSUME NEW q \in Queries, Expire(q) \/ doh_query_returns(q) PROVE TypeOK'
    <3>1. UNCHANGED <<cmds, held, networks, net, conn, resp, spawned, probe, clears, scene>>
      BY <2>3 DEF doh_query_returns, Expire, callerVars
    <3>2. call' \in [Queries -> CallType]
      <4>1. \/ call' = [call EXCEPT ![q].expired = TRUE]
            \/ \E code \in {"answer", "CAN_NOT_SEND", "INTERNAL_ERROR", "TIMEOUT"} :
                  call' = [call EXCEPT ![q] = [call[q] EXCEPT !.at = "done", !.code = code]]
        BY <2>3 DEF doh_query_returns, Expire
      <4>2. call[q] \in CallType
        OBVIOUS
      <4>3. PICK r \in CallType : call' = [call EXCEPT ![q] = r]
        BY <4>1, <4>2, <1>CallUpdates
      <4> QED
        BY <4>3
    <3> QED
      BY <3>1, <3>2
  <2>4. ASSUME NEW q \in Queries, Deliver(q) PROVE TypeOK'
    <3>1. UNCHANGED <<cmds, held, networks, net, conn, resp, probe, clears, scene>> /\ spawned' = spawned \ {q}
      BY <2>4 DEF Deliver
    <3>2. resp[q].of \in Jobs \cup {None}
      <4>1. q \in Jobs
        BY DEF Jobs
      <4> QED
        BY <4>1 DEF RespType
    <3>3. call' \in [Queries -> CallType]
      <4>1. Lost(call, {q}, "Error") \in [Queries -> CallType]
        BY <1>LostType
      <4>2. [call EXCEPT ![q] = [call[q] EXCEPT !.rsp = "Success", !.got = resp[q].of]] \in [Queries -> CallType]
        BY <3>2, <1>CallUpdates
      <4> QED
        BY <2>4, <4>1, <4>2 DEF Deliver
    <3> QED
      BY <3>1, <3>3
  <2>5. ASSUME NEW p \in Probes, doh_net_new(p) PROVE TypeOK'
    <3>1. [op |-> "probe", job |-> p] \in Commands
      BY DEF Commands
    <3>2. UNCHANGED <<call, held, networks, net, conn, resp, spawned, clears, scene>>
      BY <2>5 DEF doh_net_new, callerVars
    <3>3. cmds' \in Seq(Commands)
      BY <2>0, <2>5, <3>1 DEF doh_net_new, send_cmd
    <3>4. scene.probes[p] \in Servers
      <4>0. scene.probes \in UNION {[1..m -> Servers] : m \in 0..MaxProbes}
        BY ScenesAssumption
      <4>1. PICK m \in 0..MaxProbes : scene.probes \in [1..m -> Servers]
        BY <4>0
      <4>2. p \in 1..MaxProbes /\ p <= Len(scene.probes)
        BY <2>5 DEF doh_net_new, Probes
      <4>3. Len(scene.probes) = m
        BY <4>1, LimitsAssumption, SMT
      <4>4. p \in 1..m
        BY <4>1, <4>2, <4>3, LimitsAssumption, SMT
      <4> QED
        BY <4>1, <4>4
    <3>5. probe' = [probe EXCEPT ![p] = [info |-> scene.probes[p], at |-> "asked"]]
      BY <2>5 DEF doh_net_new
    <3>6. probe' \in [Probes -> ProbeType]
      <4>1. [info |-> scene.probes[p], at |-> "asked"] \in ProbeType
        BY <3>4 DEF ProbeType
      <4> QED
        BY <3>5, <4>1
    <3> QED
      BY <3>2, <3>3, <3>6
  <2>6. CASE doh_net_delete
    <3>1. [op |-> "clear", job |-> None] \in Commands
      BY DEF Commands
    <3>2. UNCHANGED <<call, held, networks, net, conn, resp, spawned, probe, scene>>
      BY <2>6 DEF doh_net_delete, callerVars
    <3>3. cmds' \in Seq(Commands)
      BY <2>0, <2>6, <3>1 DEF doh_net_delete, send_cmd
    <3>4. clears' \in Nat
      BY <2>6, SMT DEF doh_net_delete
    <3> QED
      BY <3>2, <3>3, <3>4
  <2> QED
    BY <2>1, <2>2, <2>3, <2>4, <2>5, <2>6
\* A new network.
<1>NewNetType.
    ASSUME NEW info \in Servers \cup {None}, NEW j \in Jobs, NEW c \in Conns
    PROVE  [NoNet EXCEPT !.handle = TRUE, !.info = info, !.q = <<j>>, !.at = "recv", !.conn = c] \in NetType
  <2> USE <1>NewNetType
  <2>1. <<j>> \in Seq(Jobs) /\ c \in 0..MaxConns
    BY LimitsAssumption, SMT DEF Conns
  <2> QED
    BY <2>1, StartTypes DEF NetType
\* The dispatcher keeps the types.
<1>DispatchType.
    ASSUME TypeOK, Dispatch
    PROVE  TypeOK'
  <2> USE <1>DispatchType
  <2> USE DEF TypeOK
  <2>0. \A i \in Nets, j \in Jobs : [net EXCEPT ![i].q = Append(@, j)] \in [Nets -> NetType]
    <3> SUFFICES ASSUME NEW i \in Nets, NEW j \in Jobs
                 PROVE  [net EXCEPT ![i].q = Append(net[i].q, j)] \in [Nets -> NetType]
      OBVIOUS
    <3>1. net[i] \in NetType
      OBVIOUS
    <3>2. Append(net[i].q, j) \in Seq(Jobs)
      BY <3>1, ChannelTypes DEF NetType
    <3>3. [net[i] EXCEPT !.q = Append(net[i].q, j)] \in NetType
      BY <3>1, <3>2, NetUpdates
    <3> QED
      BY <3>3
  <2>1. CASE Driver_query
    <3>1. Job \in Queries /\ Job \in Jobs /\ Tail(cmds) \in Seq(Commands)
      BY <2>1, JobTypes DEF Driver_query, Jobs
    <3>2. UNCHANGED <<held, networks, conn, resp, spawned, probe, clears, scene>> /\ cmds' = Tail(cmds)
      BY <2>1 DEF Driver_query, Taken
    <3>3. net' = net \/ (networks # 0 /\ net' = [net EXCEPT ![networks].q = Append(@, Job)])
      BY <2>1 DEF Driver_query
    <3>4. networks # 0 => networks \in Nets
      BY LimitsAssumption, SMT DEF Nets
    <3>5. net' \in [Nets -> NetType]
      <4>1. CASE net' = net
        BY <4>1
      <4>2. CASE networks # 0 /\ net' = [net EXCEPT ![networks].q = Append(@, Job)]
        BY <2>0, <3>1, <3>4, <4>2
      <4> QED
        BY <3>3, <4>1, <4>2
    <3>6. call' \in [Queries -> CallType]
      <4>1. \A rsp \in {"Error", "Dropped"} : Lost(call, {Job}, rsp) \in [Queries -> CallType]
        BY <1>LostType
      <4>2. call' = call \/ call' = Lost(call, {Job}, "Error") \/ call' = Lost(call, {Job}, "Dropped")
        BY <2>1 DEF Driver_query
      <4> QED
        BY <4>1, <4>2
    <3> QED
      BY <3>1, <3>2, <3>5, <3>6
  <2>2. CASE Driver_probe_same
    <3>1. Job \in Probes /\ Job \in Jobs /\ Tail(cmds) \in Seq(Commands)
      BY <2>2, JobTypes DEF Driver_probe_same, Jobs
    <3>2. UNCHANGED <<call, networks, conn, resp, spawned, probe, clears, scene>> /\ cmds' = Tail(cmds)
      BY <2>2 DEF Driver_probe_same, Taken
    <3>3. networks \in Nets
      BY <2>2, LimitsAssumption, SMT DEF Nets, Driver_probe_same, Registered
    <3>4. \/ net' = [net EXCEPT ![networks].q = Append(@, Job)] /\ UNCHANGED held
          \/ held' = Job /\ UNCHANGED net
      BY <2>2 DEF Driver_probe_same
    <3>5. CASE net' = [net EXCEPT ![networks].q = Append(@, Job)] /\ UNCHANGED held
      <4>1. net' \in [Nets -> NetType]
        BY <2>0, <3>1, <3>3, <3>5
      <4> QED
        BY <3>1, <3>2, <3>5, <4>1
    <3>6. CASE held' = Job /\ UNCHANGED net
      BY <3>1, <3>2, <3>6
    <3> QED
      BY <3>4, <3>5, <3>6
  <2>3. CASE Driver_probe_waited
    <3>1. held \in Probes /\ held \in Jobs
      BY <2>3 DEF Driver_probe_waited, Jobs
    <3>2. UNCHANGED <<call, cmds, networks, conn, resp, spawned, probe, clears, scene>> /\ held' = None
      BY <2>3 DEF Driver_probe_waited
    <3>3. net' = [net EXCEPT ![networks].q = Append(@, held)]
      BY <2>3 DEF Driver_probe_waited
    <3>4. networks \in Nets \/ networks \notin Nets
      BY SMT
    <3>5. net' \in [Nets -> NetType]
      BY <2>0, <3>1, <3>3, <3>4
    <3> QED
      BY <3>2, <3>5
  <2>4. CASE Driver_probe_new
    <3>1. Job \in Probes /\ Job \in Jobs /\ Tail(cmds) \in Seq(Commands)
      BY <2>4, JobTypes DEF Driver_probe_new, Jobs
    <3>2. UNCHANGED <<call, held, resp, spawned, clears, scene>> /\ cmds' = Tail(cmds)
      BY <2>4 DEF Driver_probe_new, Taken
    <3>3. PICK info : info = probe[Job].info
      OBVIOUS
    <3>4. info \in Servers \cup {None} /\ probe[Job] \in ProbeType
      BY <3>1, <3>3 DEF ProbeType
    <3>5. CASE /\ net' = Unregistered /\ networks' = 0
               /\ probe' = [probe EXCEPT ![Job].at = "unreported"] /\ UNCHANGED conn
      <4>1. [probe[Job] EXCEPT !.at = "unreported"] \in ProbeType
        BY <3>4 DEF ProbeType
      <4>2. probe' \in [Probes -> ProbeType]
        BY <3>1, <3>5, <4>1
      <4>3. net' \in [Nets -> NetType]
        BY <3>5, UnregisteredType
      <4>4. networks' \in 0..MaxNets
        BY <3>5, LimitsAssumption, SMT
      <4> QED
        BY <3>1, <3>2, <3>5, <4>2, <4>3, <4>4
    <3>6. ASSUME NEW i \in Nets, NEW c \in NewConns,
                 net' = [Unregistered EXCEPT ![i] = [NoNet EXCEPT !.handle = TRUE, !.info = info,
                                                     !.q = <<Job>>, !.at = "recv", !.conn = c]],
                 conn' = Connect(conn, c, info), networks' = i, UNCHANGED probe
          PROVE  TypeOK'
      <4>1. c \in Conns
        BY DEF NewConns
      <4>2. net' \in [Nets -> NetType]
        BY <3>1, <3>4, <3>6, <4>1, <1>NewNetType, UnregisteredType
      <4>3. conn' \in [Conns -> ConnType]
        BY <3>4, <3>6, ConnectTypes
      <4>4. networks' \in 0..MaxNets
        BY <3>6, LimitsAssumption, SMT DEF Nets
      <4> QED
        BY <3>1, <3>2, <3>6, <4>2, <4>3, <4>4
    <3> QED
      BY <2>4, <3>3, <3>5, <3>6 DEF Driver_probe_new
  <2>5. CASE Driver_clear
    <3>1. Tail(cmds) \in Seq(Commands)
      BY <2>5, JobTypes DEF Driver_clear
    <3>2. /\ UNCHANGED <<call, held, conn, resp, spawned, probe, clears, scene>> /\ cmds' = Tail(cmds)
          /\ net' = Unregistered /\ networks' = 0
      BY <2>5 DEF Driver_clear, Taken
    <3>3. networks' \in 0..MaxNets
      BY <3>2, LimitsAssumption, SMT
    <3> QED
      BY <3>1, <3>2, <3>3, UnregisteredType
  <2> QED
    BY <2>1, <2>2, <2>3, <2>4, <2>5 DEF Dispatch
\* The end of a network's driver keeps the types.
<1>EndNetType.
    ASSUME TypeOK, NEW i \in Nets, EndNet(i)
    PROVE  /\ net' \in [Nets -> NetType] /\ conn' \in [Conns -> ConnType]
           /\ call' \in [Queries -> CallType] /\ probe' \in [Probes -> ProbeType]
  <2> USE <1>EndNetType
  <2> USE DEF TypeOK
  <2>1. PICK left : /\ net' = [net EXCEPT ![i] = Ended(net[i])] /\ conn' = Disconnect(conn, net[i].conn)
                    /\ call' = Lost(call, left, "Dropped") /\ probe' = Unreported(left)
    BY DEF EndNet
  <2>2. net' \in [Nets -> NetType]
    BY <2>1, NetUpdates
  <2>3. conn' \in [Conns -> ConnType]
    BY <2>1, ConnectTypes
  <2>4. call' \in [Queries -> CallType]
    BY <2>1, <1>LostType
  <2>5. probe' \in [Probes -> ProbeType]
    BY <2>1, <1>UnreportedType
  <2> QED
    BY <2>2, <2>3, <2>4, <2>5
\* A status that a network's driver tells keeps the types.
<1>StatusType.
    ASSUME TypeOK, NEW i \in Nets, NEW status \in {"Live", "Failed"}, Status(i, status, "report")
    PROVE  TypeOK'
  <2> USE <1>StatusType
  <2> USE DEF TypeOK
  <2>1. UNCHANGED <<cmds, held, networks, resp, clears, scene, spawned>>
    BY DEF Status, NetStep
  <2>2. CASE /\ net' = [net EXCEPT ![i] = [net[i] EXCEPT !.status = status, !.at = "report"]]
             /\ UNCHANGED <<call, conn, probe>>
    <3>1. net[i] \in NetType
      OBVIOUS
    <3>2. [net[i] EXCEPT !.status = status, !.at = "report"] \in NetType
      BY <3>1 DEF NetType
    <3>3. net' \in [Nets -> NetType]
      BY <2>2, <3>2
    <3> QED
      BY <2>1, <2>2, <3>3
  <2>3. CASE EndNet(i)
    BY <2>1, <2>3, <1>EndNetType
  <2> QED
    BY <2>2, <2>3 DEF Status
\* A query that could not be sent keeps the types.
<1>QueryFailedType.
    ASSUME TypeOK, NEW i \in Nets, QueryFailed(i)
    PROVE  TypeOK'
  <2> USE <1>QueryFailedType
  <2> USE DEF TypeOK
  <2>1. /\ UNCHANGED <<cmds, held, networks, resp, clears, scene, conn, spawned, probe>>
        /\ net' = [net EXCEPT ![i] = NextCommand(net[i])]
        /\ call' = Lost(call, {net[i].job}, "Dropped")
    BY DEF QueryFailed, NetStep
  <2>2. net' \in [Nets -> NetType]
    BY <2>1, NetUpdates
  <2>3. call' \in [Queries -> CallType]
    BY <2>1, <1>LostType
  <2> QED
    BY <2>1, <2>2, <2>3
\* A request queued on a connection keeps the types.
<1>QueuedType.
    ASSUME TypeOK, NEW i \in Nets, Queued(i), net[i].job # None
    PROVE  conn' \in [Conns -> ConnType]
  <2> USE <1>QueuedType
  <2> USE DEF TypeOK
  <2>1. PICK c : c = net[i].conn /\ conn' = [conn EXCEPT ![c].rq = Append(@, net[i].job)]
    BY DEF Queued
  <2>2. net[i].job \in Jobs
    BY DEF NetType
  <2>3. CASE c \in Conns
    <3>1. conn[c] \in ConnType
      BY <2>3
    <3>2. Append(conn[c].rq, net[i].job) \in Seq(Jobs)
      BY <2>2, <3>1, ChannelTypes DEF ConnType
    <3>3. [conn[c] EXCEPT !.rq = Append(conn[c].rq, net[i].job)] \in ConnType
      BY <3>1, <3>2 DEF ConnType
    <3> QED
      BY <2>1, <3>3
  <2>4. CASE c \notin Conns
    BY <2>1, <2>4
  <2> QED
    BY <2>3, <2>4
\* The networks' drivers keep the types.
<1>NetDriverType.
    ASSUME TypeOK, JobsFit, NEW i \in Nets, NetDriver(i) \/ p_timeout(i)
    PROVE  TypeOK'
  <2> USE <1>NetDriverType
  <2> USE DEF TypeOK
  <2>0. net[i] \in NetType
    OBVIOUS
  <2>1. CASE recv(i)
    <3>1. UNCHANGED <<cmds, held, networks, resp, clears, scene, conn, spawned, probe>> /\ net[i].q # <<>>
      BY <2>1 DEF recv, NetStep
    <3>2. PICK j : j = Head(net[i].q)
      OBVIOUS
    <3>3. PICK n : n = [net[i] EXCEPT !.q = Tail(net[i].q), !.job = j]
      OBVIOUS
    <3>4. j \in Jobs /\ Tail(net[i].q) \in Seq(Jobs)
      BY <2>0, <3>1, <3>2, ChannelTypes DEF NetType
    <3>5. n \in NetType
      BY <2>0, <3>3, <3>4 DEF NetType
    <3>6. /\ \A at \in {"reconnect", "report", "p_query", "q_send", "wait1"} : [n EXCEPT !.at = at] \in NetType
          /\ [n EXCEPT !.job = None] \in NetType
      BY <3>5 DEF NetType
    <3>7. PICK m \in NetType : net' = [net EXCEPT ![i] = m]
      <4>1. CASE j \in Probes
        <5>1. \E at \in {"reconnect", "report", "p_query"} : net' = [net EXCEPT ![i] = [n EXCEPT !.at = at]]
          BY <2>1, <3>2, <3>3, <4>1 DEF recv
        <5> QED
          BY <3>6, <5>1
      <4>2. CASE j \notin Probes /\ call[j].at = "done"
        BY <2>1, <3>2, <3>3, <3>6, <4>2 DEF recv
      <4>3. CASE j \notin Probes /\ call[j].at # "done"
        <5>1. net' = [net EXCEPT ![i] = [n EXCEPT !.at = Look(n.conn)]]
          BY <2>1, <3>2, <3>3, <4>3 DEF recv
        <5>2. Look(n.conn) \in {"q_send", "reconnect", "wait1"}
          BY DEF Look
        <5> QED
          BY <3>6, <5>1, <5>2
      <4> QED
        BY <4>1, <4>2, <4>3
    <3>8. call' \in [Queries -> CallType]
      <4>1. Lost(call, {j}, "Dropped") \in [Queries -> CallType]
        BY <1>LostType
      <4>2. call' = call \/ call' = Lost(call, {j}, "Dropped")
        BY <2>1, <3>2 DEF recv
      <4> QED
        BY <4>1, <4>2
    <3> QED
      BY <3>1, <3>7, <3>8
  <2>2. CASE recv_none(i)
    <3>1. EndNet(i) /\ UNCHANGED <<cmds, held, networks, resp, clears, scene, spawned>>
      BY <2>2 DEF recv_none, NetStep
    <3> QED
      BY <3>1, <1>EndNetType
  <2>3. CASE reconnect(i)
    <3>1. UNCHANGED <<cmds, held, networks, resp, clears, scene, spawned>>
      BY <2>3 DEF reconnect, NetStep
    <3>2. CASE EndNet(i)
      BY <3>1, <3>2, <1>EndNetType
    <3>3. ASSUME NEW c \in NewConns, conn' = Connect(Disconnect(conn, net[i].conn), c, net[i].info),
                 \/ net' = [net EXCEPT ![i] = [net[i] EXCEPT !.at = "q_send", !.conn = c]]
                 \/ net' = [net EXCEPT ![i] = [net[i] EXCEPT !.at = "p_query", !.conn = c, !.status = "Unprobed"]],
                 UNCHANGED <<call, probe>>
          PROVE  TypeOK'
      <4>1. c \in 0..MaxConns
        BY LimitsAssumption, SMT DEF NewConns, Conns
      <4>2. /\ [net[i] EXCEPT !.at = "q_send", !.conn = c] \in NetType
            /\ [net[i] EXCEPT !.at = "p_query", !.conn = c, !.status = "Unprobed"] \in NetType
        BY <2>0, <4>1 DEF NetType
      <4>3. net' \in [Nets -> NetType]
        BY <3>3, <4>2
      <4>4. net[i].info \in Servers \cup {None}
        BY <2>0 DEF NetType
      <4>5. Disconnect(conn, net[i].conn) \in [Conns -> ConnType]
        BY <4>4, ConnectTypes
      <4>6. conn' \in [Conns -> ConnType]
        BY <3>3, <4>4, <4>5, ConnectTypes
      <4> QED
        BY <3>1, <3>3, <4>3, <4>6
    <3> QED
      BY <2>3, <3>2, <3>3 DEF reconnect
  <2>4. CASE reconnect_fails(i)
    <3>1. CASE QueryFailed(i)
      BY <3>1, <1>QueryFailedType
    <3>2. CASE /\ net' = [net EXCEPT ![i] = [NextCommand(net[i]) EXCEPT !.status = "Failed"]]
               /\ probe' = Unreported({net[i].job}) /\ UNCHANGED <<call, conn>>
               /\ NetStep(i) /\ UNCHANGED spawned
      <4>1. NextCommand(net[i]) \in NetType
        BY <2>0, NetUpdates
      <4>2. [NextCommand(net[i]) EXCEPT !.status = "Failed"] \in NetType
        BY <4>1 DEF NetType
      <4>3. net' \in [Nets -> NetType]
        BY <3>2, <4>2
      <4>4. probe' \in [Probes -> ProbeType]
        BY <3>2, <1>UnreportedType
      <4>5. UNCHANGED <<cmds, held, networks, resp, clears, scene, spawned, call, conn>>
        BY <3>2 DEF NetStep
      <4> QED
        BY <4>3, <4>4, <4>5
    <3>3. CASE EndNet(i) /\ NetStep(i) /\ UNCHANGED spawned
      <4>1. UNCHANGED <<cmds, held, networks, resp, clears, scene, spawned>>
        BY <3>3 DEF NetStep
      <4> QED
        BY <3>3, <4>1, <1>EndNetType
    <3> QED
      BY <2>4, <3>1, <3>2, <3>3 DEF reconnect_fails
  <2>5. CASE p_query(i)
    <3>1. CASE Status(i, "Failed", "report")
      BY <3>1, <1>StatusType
    <3>2. CASE Queued(i) /\ Goto(i, "p_wait") /\ NetStep(i) /\ UNCHANGED <<call, spawned, probe>>
      <4>1. net[i].job # None
        BY <2>5, NamesAssumption DEF p_query, At, JobsFit, Fits, Jobs
      <4>2. conn' \in [Conns -> ConnType]
        BY <3>2, <4>1, <1>QueuedType
      <4>3. net' \in [Nets -> NetType]
        BY <2>0, <3>2, NetUpdates DEF Goto
      <4> QED
        BY <3>2, <4>2, <4>3 DEF NetStep
    <3> QED
      BY <2>5, <3>1, <3>2 DEF p_query
  <2>6. CASE p_answered(i)
    <3>1. Status(i, ProbeVerdict(resp[net[i].job].st), "report")
      BY <2>6 DEF p_answered
    <3>2. ProbeVerdict(resp[net[i].job].st) \in {"Live", "Failed"}
      BY DEF ProbeVerdict
    <3> QED
      BY <3>1, <3>2, <1>StatusType
  <2>7. CASE p_timeout(i)
    BY <2>7, <1>StatusType DEF p_timeout
  <2>8. CASE report(i)
    <3>1. /\ UNCHANGED <<cmds, held, networks, resp, clears, scene, spawned, call, conn>>
          /\ net' = [net EXCEPT ![i] = NextCommand(net[i])]
      BY <2>8 DEF report, NetStep, NextCommand
    <3>2. net' \in [Nets -> NetType]
      BY <2>0, <3>1, NetUpdates
    <3>3. net[i].job \in Probes
      BY <2>8 DEF report, At, JobsFit, Fits
    <3>4. \A r \in ProbeType : [r EXCEPT !.at = "valid"] \in ProbeType /\ [r EXCEPT !.at = "invalid"] \in ProbeType
      BY DEF ProbeType
    <3>5. \/ probe' = [probe EXCEPT ![net[i].job].at = "valid"] \/ probe' = [probe EXCEPT ![net[i].job].at = "invalid"]
      BY <2>8 DEF report
    <3>6. probe' \in [Probes -> ProbeType]
      <4>1. probe[net[i].job] \in ProbeType
        BY <3>3
      <4>2. PICK r \in ProbeType : probe' = [probe EXCEPT ![net[i].job] = r]
        BY <3>4, <3>5, <4>1
      <4> QED
        BY <4>2
    <3> QED
      BY <3>1, <3>2, <3>6
  <2>9. CASE wait_for_live(i)
    <3>1. PICK at \in {"wait2", "reconnect", "q_send", "p_wait"} : net' = [net EXCEPT ![i] = [net[i] EXCEPT !.at = at]]
      BY <2>9 DEF wait_for_live, Goto
    <3>2. net' \in [Nets -> NetType]
      BY <2>0, <3>1, NetUpdates
    <3>3. /\ conn' = [conn EXCEPT ![net[i].conn].news = FALSE]
          /\ UNCHANGED <<cmds, held, networks, resp, clears, scene, spawned, call, probe>>
      BY <2>9 DEF wait_for_live, NetStep
    <3>4. \A r \in ConnType : [r EXCEPT !.news = FALSE] \in ConnType
      BY DEF ConnType
    <3>5. conn' \in [Conns -> ConnType]
      BY <3>3, <3>4
    <3> QED
      BY <3>2, <3>3, <3>5
  <2>10. CASE q_send(i)
    <3>1. CASE QueryFailed(i)
      BY <3>1, <1>QueryFailedType
    <3>2. CASE /\ Queued(i) /\ spawned' = spawned \cup {net[i].job}
               /\ net' = [net EXCEPT ![i] = NextCommand(net[i])]
               /\ NetStep(i) /\ UNCHANGED <<call, probe>>
      <4>1. net[i].job \in Queries /\ net[i].job # None
        BY <2>10, NamesAssumption DEF q_send, At, JobsFit, Fits, Jobs
      <4>2. conn' \in [Conns -> ConnType]
        BY <3>2, <4>1, <1>QueuedType
      <4>3. net' \in [Nets -> NetType]
        BY <2>0, <3>2, NetUpdates
      <4> QED
        BY <3>2, <4>1, <4>2, <4>3 DEF NetStep
    <3> QED
      BY <2>10, <3>1, <3>2 DEF q_send, NextCommand
  <2> QED
    BY <2>1, <2>2, <2>3, <2>4, <2>5, <2>6, <2>7, <2>8, <2>9, <2>10 DEF NetDriver
\* The updates of a connection.
<1>ConnUpdates.
    ASSUME NEW r \in ConnType
    PROVE  /\ [r EXCEPT !.phase = "h3", !.val = "H3", !.news = TRUE] \in ConnType
           /\ \A val \in {"QUIC", "H3", "Dead"}, news \in BOOLEAN :
                [r EXCEPT !.closing = TRUE, !.rq = <<>>, !.val = val, !.news = news] \in ConnType
           /\ \A q \in Seq(Jobs) : [r EXCEPT !.rq = q] \in ConnType
           /\ \A s \in SUBSET Jobs : [r EXCEPT !.sent = s] \in ConnType
           /\ \A j \in Jobs \cup {None} : [r EXCEPT !.buf = j] \in ConnType
  <2> USE <1>ConnUpdates
  <2>1. <<>> \in Seq(Jobs)
    BY SMT
  <2>2. [r EXCEPT !.phase = "h3", !.val = "H3", !.news = TRUE] \in ConnType
    BY DEF ConnType
  <2>3. \A val \in {"QUIC", "H3", "Dead"}, news \in BOOLEAN :
          [r EXCEPT !.closing = TRUE, !.rq = <<>>, !.val = val, !.news = news] \in ConnType
    BY <2>1 DEF ConnType
  <2>4. \A q \in Seq(Jobs) : [r EXCEPT !.rq = q] \in ConnType
    BY DEF ConnType
  <2>5. \A s \in SUBSET Jobs : [r EXCEPT !.sent = s] \in ConnType
    BY DEF ConnType
  <2>6. \A j \in Jobs \cup {None} : [r EXCEPT !.buf = j] \in ConnType
    BY DEF ConnType
  <2> QED
    BY <2>2, <2>3, <2>4, <2>5, <2>6
\* A driver that returns keeps the types.
<1>GoneType.
    ASSUME TypeOK, NEW c \in Conns, NEW val \in {"QUIC", "H3", "Dead"}, NEW news \in BOOLEAN, Gone(c, val, news)
    PROVE  TypeOK'
  <2> USE <1>GoneType
  <2> USE DEF TypeOK
  <2>1. /\ conn' = [conn EXCEPT ![c] = IF ~conn[c].tx THEN Buried
                      ELSE [Buried EXCEPT !.tx = TRUE, !.info = conn[c].info, !.val = val, !.news = news]]
        /\ resp' = Dropped(Has(c))
        /\ UNCHANGED <<call, cmds, held, networks, net, spawned, probe, clears, scene>>
    BY DEF Gone, ConnStep
  <2>2. conn[c].info \in Servers \cup {None}
    BY DEF ConnType
  <2>3. [Buried EXCEPT !.tx = TRUE, !.info = conn[c].info, !.val = val, !.news = news] \in ConnType
    BY <2>2, StartTypes DEF ConnType
  <2>4. conn' \in [Conns -> ConnType]
    BY <2>1, <2>3, StartTypes
  <2>5. resp' \in [Jobs -> RespType]
    BY <2>1, <1>DroppedType
  <2> QED
    BY <2>1, <2>4, <2>5
\* A driver that closes keeps the types.
<1>CloseType.
    ASSUME TypeOK, NEW c \in Conns, NEW val \in {"QUIC", "H3", "Dead"}, NEW news \in BOOLEAN, Close(c, val, news)
    PROVE  TypeOK'
  <2> USE <1>CloseType
  <2> USE DEF TypeOK
  <2>1. /\ conn' = [conn EXCEPT ![c] = [conn[c] EXCEPT !.closing = TRUE, !.rq = <<>>, !.val = val, !.news = news]]
        /\ resp' = Dropped(Range(conn[c].rq))
        /\ UNCHANGED <<call, cmds, held, networks, net, spawned, probe, clears, scene>>
    BY DEF Close, ConnStep
  <2>2. conn' \in [Conns -> ConnType]
    BY <2>1, <1>ConnUpdates
  <2>3. resp' \in [Jobs -> RespType]
    BY <2>1, <1>DroppedType
  <2> QED
    BY <2>1, <2>2, <2>3
\* The connections' drivers and their peers keep the types.
<1>ConnDriverType.
    ASSUME TypeOK, NEW c \in Conns, ConnDriver(c) \/ Peer(c)
    PROVE  TypeOK'
  <2> USE <1>ConnDriverType
  <2> USE DEF TypeOK
  <2>0. conn[c] \in ConnType
    OBVIOUS
  <2>1. conn[c].val \in {"QUIC", "H3", "Dead"} /\ conn[c].news \in BOOLEAN
    BY <2>0 DEF ConnType
  <2>2. CASE Established(c)
    <3>1. /\ conn' = [conn EXCEPT ![c] = [conn[c] EXCEPT !.phase = "h3", !.val = "H3", !.news = TRUE]]
          /\ UNCHANGED <<call, cmds, held, networks, net, spawned, probe, clears, scene, resp>>
      BY <2>2 DEF Established, ConnStep
    <3>2. conn' \in [Conns -> ConnType]
      BY <2>0, <3>1, <1>ConnUpdates
    <3> QED
      BY <3>1, <3>2
  <2>3. CASE Broken(c)
    BY <2>1, <2>3, <1>GoneType DEF Broken
  <2>4. CASE handle_closed(c)
    BY <2>4, <1>GoneType DEF handle_closed
  <2>5. CASE handle_draining(c)
    BY <2>5, <1>CloseType DEF handle_draining
  <2>6. CASE shutdown(c) \/ shutdown_unowned(c)
    BY <2>1, <2>6, <1>CloseType DEF shutdown, shutdown_unowned
  <2>7. ASSUME NEW d \in [Conns -> ConnType], NEW j \in Jobs, handle_request(d, j), ConnStep(c)
        PROVE  TypeOK'
    <3>1. UNCHANGED <<call, cmds, held, networks, net, spawned, probe, clears, scene>>
      BY <2>7 DEF ConnStep
    <3>2. resp' \in [Jobs -> RespType]
      BY <2>7, <1>DroppedType DEF handle_request
    <3>3. conn' \in [Conns -> ConnType]
      <4>1. CASE conn' = d
        BY <4>1
      <4>2. ASSUME NEW e \in Conns,
                   conn' = [d EXCEPT ![e].sent = @ \cup {j}] \/ conn' = [d EXCEPT ![e].buf = j]
            PROVE  conn' \in [Conns -> ConnType]
        <5>1. d[e] \in ConnType /\ d[e].sent \cup {j} \in SUBSET Jobs
          BY DEF ConnType
        <5>2. PICK r \in ConnType : conn' = [d EXCEPT ![e] = r]
          BY <4>2, <5>1, <1>ConnUpdates
        <5> QED
          BY <5>2
      <4> QED
        BY <2>7, <4>1, <4>2 DEF handle_request
    <3> QED
      BY <3>1, <3>2, <3>3
  <2>8. CASE H3_recv(c)
    <3>1. conn[c].rq # <<>> /\ conn[c].rq \in Seq(Jobs)
      BY <2>0, <2>8 DEF H3_recv, ConnType
    <3>2. Head(conn[c].rq) \in Jobs /\ Tail(conn[c].rq) \in Seq(Jobs)
      BY <3>1, ChannelTypes
    <3>3. [conn EXCEPT ![c].rq = Tail(@)] \in [Conns -> ConnType]
      BY <2>0, <3>2, <1>ConnUpdates
    <3> QED
      BY <2>7, <2>8, <3>2, <3>3 DEF H3_recv
  <2>9. CASE H3_resend(c)
    <3>1. conn[c].buf \in Jobs
      BY <2>0, <2>9 DEF H3_resend, ConnType
    <3>2. [conn EXCEPT ![c].buf = None] \in [Conns -> ConnType]
      BY <2>0, <1>ConnUpdates
    <3> QED
      BY <2>7, <2>9, <3>1, <3>2 DEF H3_resend
  <2>10. ASSUME NEW j \in Jobs, respond(c, j) PROVE TypeOK'
    <3>1. PICK st \in {"stream", "reset", "dropped"} :
            /\ resp' = [resp EXCEPT ![j] = [st |-> st, of |-> j]]
            /\ conn' = [conn EXCEPT ![c].sent = @ \ {j}]
      BY <2>10 DEF respond, answers
    <3>2. UNCHANGED <<call, cmds, held, networks, net, spawned, probe, clears, scene>>
      BY <2>10 DEF respond, ConnStep
    <3>3. [st |-> st, of |-> j] \in RespType
      BY DEF RespType
    <3>4. resp' \in [Jobs -> RespType]
      BY <3>1, <3>3
    <3>5. conn[c].sent \ {j} \in SUBSET Jobs
      BY <2>0 DEF ConnType
    <3>6. conn' \in [Conns -> ConnType]
      BY <2>0, <3>1, <3>5, <1>ConnUpdates
    <3> QED
      BY <3>2, <3>4, <3>6
  <2> QED
    BY <2>2, <2>3, <2>4, <2>5, <2>6, <2>8, <2>9, <2>10 DEF ConnDriver, Peer
\* The updates of a Network that leave its job where it fits.
<1>FitUpdates.
    ASSUME NEW n \in NetType
    PROVE  /\ Fits(Ended(n)) /\ Fits(NextCommand(n))
           /\ Fits(n) => Fits([n EXCEPT !.handle = FALSE])
           /\ Fits(n) => \A q : Fits([n EXCEPT !.q = q])
           /\ Fits([NextCommand(n) EXCEPT !.status = "Failed"])
           /\ n.job \in Probes => \A status : Fits([n EXCEPT !.status = status, !.at = "report"])
  <2> USE <1>FitUpdates
  <2>2. /\ Ended(n).at = "ended" /\ Ended(n).job = None
        /\ NextCommand(n).at = "recv" /\ NextCommand(n).job = None
        /\ [NextCommand(n) EXCEPT !.status = "Failed"].at = "recv"
        /\ [NextCommand(n) EXCEPT !.status = "Failed"].job = None
    BY SMT DEF Ended, NextCommand, NetType
  <2>3. /\ [n EXCEPT !.handle = FALSE].at = n.at /\ [n EXCEPT !.handle = FALSE].job = n.job
        /\ \A q : [n EXCEPT !.q = q].at = n.at /\ [n EXCEPT !.q = q].job = n.job
        /\ \A status : /\ [n EXCEPT !.status = status, !.at = "report"].at = "report"
                       /\ [n EXCEPT !.status = status, !.at = "report"].job = n.job
    BY DEF NetType
  <2>4. Fits(Ended(n)) /\ Fits(NextCommand(n)) /\ Fits([NextCommand(n) EXCEPT !.status = "Failed"])
    BY <2>2, SMT DEF Fits
  <2>5. (Fits(n) => Fits([n EXCEPT !.handle = FALSE])) /\ (Fits(n) => \A q : Fits([n EXCEPT !.q = q]))
    BY <2>3 DEF Fits
  <2>6. n.job \in Probes => \A status : Fits([n EXCEPT !.status = status, !.at = "report"])
    BY <2>3, SMT DEF Fits
  <2> QED
    BY <2>4, <2>5, <2>6
\* A step that changes one Network keeps the jobs fit.
<1>FitOne.
    ASSUME NEW f, NEW g, NEW i \in Nets, NEW n, f \in [Nets -> NetType], g = [f EXCEPT ![i] = n],
           Fits(n), \A k \in Nets : Fits(f[k])
    PROVE  \A k \in Nets : Fits(g[k])
  BY <1>FitOne
\* The dispatcher leaves the jobs alone.
<1>DispatchFits.
    ASSUME TypeOK, JobsFit, Dispatch
    PROVE  JobsFit'
  <2> USE <1>DispatchFits
  <2>1. net \in [Nets -> NetType] /\ \A k \in Nets : net[k] \in NetType /\ Fits(net[k])
    BY DEF TypeOK, JobsFit
  <2>2. \A i \in Nets : \A q : \A k \in Nets : Fits([net EXCEPT ![i].q = q][k])
    BY <2>1, <1>FitUpdates
  <2>3. \A q : \A k \in Nets : Fits([net EXCEPT ![networks].q = q][k])
    <3>1. CASE networks \in Nets
      BY <2>2, <3>1
    <3>2. CASE networks \notin Nets
      BY <2>1, <3>2
    <3> QED
      BY <3>1, <3>2
  <2>4. \A k \in Nets : Fits(Unregistered[k])
    BY <2>1, <1>FitUpdates DEF Unregistered
  <2>5. CASE net' = net
    BY <2>1, <2>5 DEF JobsFit
  <2>6. CASE net' = Unregistered
    BY <2>4, <2>6 DEF JobsFit
  <2>7. ASSUME NEW q, net' = [net EXCEPT ![networks].q = q] PROVE JobsFit'
    BY <2>3, <2>7 DEF JobsFit
  <2>8. ASSUME NEW info, NEW c, NEW i \in Nets,
               net' = [Unregistered EXCEPT ![i] = [NoNet EXCEPT !.handle = TRUE, !.info = info,
                                                   !.q = <<Job>>, !.at = "recv", !.conn = c]]
        PROVE  JobsFit'
    <3>1. PICK n : n = [NoNet EXCEPT !.handle = TRUE, !.info = info, !.q = <<Job>>, !.at = "recv", !.conn = c]
      OBVIOUS
    <3>2. n.at = "recv" /\ n.job = None
      BY <3>1, SMT DEF NoNet
    <3>3. Fits(n)
      BY <3>2, SMT DEF Fits
    <3>4. Unregistered \in [Nets -> NetType]
      BY <2>1, UnregisteredType
    <3> QED
      BY <2>4, <2>8, <3>1, <3>3, <3>4, <1>FitOne DEF JobsFit
  <2> QED
    BY <2>5, <2>6, <2>7, <2>8 DEF Dispatch, Driver_query, Driver_probe_same, Driver_probe_waited, Driver_probe_new, Driver_clear
\* The networks' drivers move from one job to the next.
<1>NetDriverFits.
    ASSUME TypeOK, JobsFit, NEW i \in Nets, NetDriver(i) \/ p_timeout(i)
    PROVE  JobsFit'
  <2> USE <1>NetDriverFits
  <2>1. net \in [Nets -> NetType] /\ net[i] \in NetType /\ Fits(net[i]) /\ \A k \in Nets : Fits(net[k])
    BY DEF TypeOK, JobsFit
  <2>2. ASSUME NEW n, net' = [net EXCEPT ![i] = n], Fits(n) PROVE JobsFit'
    BY <2>1, <2>2, <1>FitOne DEF JobsFit
  <2>3. CASE EndNet(i)
    BY <2>1, <2>2, <2>3, <1>FitUpdates DEF EndNet
  <2>4. CASE QueryFailed(i)
    BY <2>1, <2>2, <2>4, <1>FitUpdates DEF QueryFailed
  <2>5. ASSUME NEW status, Status(i, status, "report"), net[i].job \in Probes PROVE JobsFit'
    BY <2>1, <2>2, <2>3, <2>5, <1>FitUpdates DEF Status
  <2>6. CASE recv(i)
    <3>1. PICK j, n : j = Head(net[i].q) /\ n = [net[i] EXCEPT !.q = Tail(net[i].q), !.job = j]
      OBVIOUS
    <3>2. j \in Jobs
      <4>1. net[i].q \in Seq(Jobs) /\ net[i].q # <<>>
        BY <2>1, <2>6 DEF recv, NetType
      <4> QED
        BY <3>1, <4>1, ChannelTypes
    <3>3. n.job = j /\ n.at = "recv" /\ \A at : [n EXCEPT !.at = at].at = at /\ [n EXCEPT !.at = at].job = j
      BY <2>1, <2>6, <3>1 DEF recv, At, NetType
    <3>4. CASE j \in Probes
      <4>1. PICK at \in {"reconnect", "report", "p_query"} : net' = [net EXCEPT ![i] = [n EXCEPT !.at = at]]
        BY <2>6, <3>1, <3>4 DEF recv
      <4>2. Fits([n EXCEPT !.at = at])
        BY <3>2, <3>3, <3>4, NamesAssumption, SMT DEF Fits
      <4> QED
        BY <2>2, <4>1, <4>2
    <3>5. CASE j \notin Probes /\ call[j].at = "done"
      <4>1. net' = [net EXCEPT ![i] = [n EXCEPT !.job = None]]
        BY <2>6, <3>1, <3>5 DEF recv
      <4>2. [n EXCEPT !.job = None].at = "recv" /\ [n EXCEPT !.job = None].job = None
        BY <2>1, <3>1, <3>3 DEF NetType
      <4>3. Fits([n EXCEPT !.job = None])
        BY <4>2, SMT DEF Fits
      <4> QED
        BY <2>2, <4>1, <4>3
    <3>6. CASE j \notin Probes /\ call[j].at # "done"
      <4>1. net' = [net EXCEPT ![i] = [n EXCEPT !.at = Look(n.conn)]]
        BY <2>6, <3>1, <3>6 DEF recv
      <4>2. Look(n.conn) \in {"q_send", "reconnect", "wait1"}
        BY DEF Look
      <4>3. j \in Queries /\ j # None
        BY <3>2, <3>6, NamesAssumption DEF Jobs
      <4>4. Fits([n EXCEPT !.at = Look(n.conn)])
        BY <3>3, <4>2, <4>3, SMT DEF Fits
      <4> QED
        BY <2>2, <4>1, <4>4
    <3> QED
      BY <3>4, <3>5, <3>6
  <2>7. CASE recv_none(i)
    BY <2>3, <2>7 DEF recv_none
  <2>8. CASE reconnect(i)
    <3>1. net[i].at = "reconnect" /\ net[i].job # None /\ net[i].job \in Jobs
      BY <2>1, <2>8 DEF reconnect, At, Fits, NetType
    <3>2. ASSUME NEW c, net[i].job \in Queries, net' = [net EXCEPT ![i] = [net[i] EXCEPT !.at = "q_send", !.conn = c]]
          PROVE  JobsFit'
      <4>1. PICK n : n = [net[i] EXCEPT !.at = "q_send", !.conn = c]
        OBVIOUS
      <4>2. n.at = "q_send" /\ n.job = net[i].job
        BY <2>1, <4>1 DEF NetType
      <4>3. Fits(n)
        BY <3>2, <4>2, SMT DEF Fits
      <4> QED
        BY <2>2, <3>2, <4>1, <4>3
    <3>3. ASSUME NEW c, net[i].job \notin Queries,
                 net' = [net EXCEPT ![i] = [net[i] EXCEPT !.at = "p_query", !.conn = c, !.status = "Unprobed"]]
          PROVE  JobsFit'
      <4>1. PICK n : n = [net[i] EXCEPT !.at = "p_query", !.conn = c, !.status = "Unprobed"]
        OBVIOUS
      <4>2. n.at = "p_query" /\ n.job = net[i].job
        BY <2>1, <4>1 DEF NetType
      <4>3. n.job \in Probes
        BY <3>1, <3>3, <4>2 DEF Jobs
      <4>4. Fits(n)
        BY <4>2, <4>3, SMT DEF Fits
      <4> QED
        BY <2>2, <3>3, <4>1, <4>4
    <3> QED
      BY <2>3, <2>8, <3>2, <3>3 DEF reconnect
  <2>9. CASE reconnect_fails(i)
    BY <2>1, <2>2, <2>3, <2>4, <2>9, <1>FitUpdates DEF reconnect_fails
  <2>10. CASE p_query(i)
    <3>1. net[i].at = "p_query" /\ net[i].job \in Probes
      BY <2>1, <2>10, SMT DEF p_query, At, Fits
    <3>2. CASE net' = [net EXCEPT ![i].at = "p_wait"]
      <4>1. [net[i] EXCEPT !.at = "p_wait"].at = "p_wait" /\ [net[i] EXCEPT !.at = "p_wait"].job = net[i].job
        BY <2>1 DEF NetType
      <4>2. Fits([net[i] EXCEPT !.at = "p_wait"])
        BY <3>1, <4>1, SMT DEF Fits
      <4> QED
        BY <2>2, <3>2, <4>2
    <3> QED
      BY <2>5, <2>10, <3>1, <3>2 DEF p_query, Goto
  <2>11. CASE p_answered(i) \/ p_timeout(i)
    <3>1. net[i].job \in Probes
      BY <2>1, <2>11, SMT DEF p_answered, p_timeout, At, Fits
    <3> QED
      BY <2>5, <2>11, <3>1 DEF p_answered, p_timeout
  <2>12. CASE report(i)
    BY <2>1, <2>2, <2>12, <1>FitUpdates DEF report, NextCommand
  <2>13. CASE wait_for_live(i)
    <3>1. net[i].job \in Queries /\ net[i].job # None
      BY <2>1, <2>13, NamesAssumption, SMT DEF wait_for_live, Fits, Jobs
    <3>2. PICK at \in {"wait2", "reconnect", "q_send"} : net' = [net EXCEPT ![i] = [net[i] EXCEPT !.at = at]]
      BY <2>13 DEF wait_for_live, Goto
    <3>3. [net[i] EXCEPT !.at = at].at = at /\ [net[i] EXCEPT !.at = at].job = net[i].job
      BY <2>1 DEF NetType
    <3>4. Fits([net[i] EXCEPT !.at = at])
      BY <3>1, <3>2, <3>3, SMT DEF Fits
    <3> QED
      BY <2>2, <3>2, <3>4
  <2>14. CASE q_send(i)
    BY <2>1, <2>2, <2>4, <2>14, <1>FitUpdates DEF q_send, NextCommand
  <2> QED
    BY <2>6, <2>7, <2>8, <2>9, <2>10, <2>11, <2>12, <2>13, <2>14 DEF NetDriver
<1> SUFFICES ASSUME TypeOK, JobsFit, [Next]_vars PROVE TypeOK' /\ JobsFit'
  BY DEF Base
<1>0. ASSUME UNCHANGED net PROVE JobsFit'
  BY <1>0 DEF JobsFit
<1>1. CASE \/ \E q \in Queries : doh_query(q) \/ doh_query_send(q) \/ Expire(q) \/ doh_query_returns(q) \/ Deliver(q)
           \/ (\E p \in Probes : doh_net_new(p)) \/ doh_net_delete
  <2>1. UNCHANGED net
    BY <1>1 DEF doh_query, doh_query_send, Expire, doh_query_returns, Deliver, doh_net_new, doh_net_delete, callerVars
  <2> QED
    BY <1>0, <1>1, <2>1, <1>CallersType
<1>2. CASE Dispatch
  BY <1>2, <1>DispatchType, <1>DispatchFits
<1>3. ASSUME NEW i \in Nets, NetDriver(i) \/ p_timeout(i) PROVE TypeOK' /\ JobsFit'
  BY <1>3, <1>NetDriverType, <1>NetDriverFits
<1>4. ASSUME NEW c \in Conns, ConnDriver(c) \/ Peer(c) PROVE TypeOK' /\ JobsFit'
  <2>1. UNCHANGED net
    BY <1>4 DEF ConnDriver, Peer, H3_recv, H3_resend, shutdown_unowned, Established, Broken, Gone,
          handle_closed, handle_draining, shutdown, Close, respond, ConnStep
  <2> QED
    BY <1>0, <1>4, <2>1, <1>ConnDriverType
<1>5. CASE UNCHANGED vars
  BY <1>0, <1>5 DEF vars, TypeOK
<1> QED
  BY <1>1, <1>2, <1>3, <1>4, <1>5 DEF Next

\* Every channel, task and call keeps its type, and a network's driver always has the kind of
\* job that it is about to handle, for any number of queries, probes, networks and connections.
THEOREM TypeCorrect == Spec => []TypeOK
<1>1. Init => Base
  BY InitType, InitFits DEF Base
<1>2. Base => TypeOK
  BY DEF Base
<1> QED
  BY <1>1, <1>2, NextBase, PTL DEF Spec

----------------------------------------------------------------------------
(* The channels                                                             *)

\* What a channel holds when something is taken from it or added to it.
LEMMA ChannelHolds ==
    ASSUME NEW S, NEW s \in Seq(S)
    PROVE  /\ s # <<>> => Range(s) = {Head(s)} \cup Range(Tail(s))
           /\ \A x : Range(Append(s, x)) = Range(s) \cup {x}
<1>1. ASSUME s # <<>> PROVE Range(s) = {Head(s)} \cup Range(Tail(s))
  <2>1. Len(s) \in Nat \ {0} /\ DOMAIN s = 1..Len(s) /\ DOMAIN Tail(s) = 1..(Len(s) - 1) /\ Head(s) = s[1]
    BY <1>1, SMT
  <2>2. \A i \in 1..(Len(s) - 1) : Tail(s)[i] = s[i + 1]
    BY <1>1, <2>1, SMT
  <2>3. ASSUME NEW x \in Range(s) PROVE x \in {Head(s)} \cup Range(Tail(s))
    <3>1. PICK i \in 1..Len(s) : x = s[i]
      BY <2>1, <2>3 DEF Range
    <3>2. CASE i = 1
      BY <2>1, <3>1, <3>2
    <3>3. CASE i # 1
      <4>1. i - 1 \in 1..(Len(s) - 1) /\ (i - 1) + 1 = i
        BY <2>1, <3>1, <3>3, SMT
      <4>2. Tail(s)[i - 1] = x
        BY <2>2, <3>1, <4>1, SMT
      <4> QED
        BY <2>1, <4>1, <4>2 DEF Range
    <3> QED
      BY <3>2, <3>3
  <2>4. ASSUME NEW x \in Range(Tail(s)) PROVE x \in Range(s)
    <3>1. PICK i \in 1..(Len(s) - 1) : x = Tail(s)[i]
      BY <2>1, <2>4 DEF Range
    <3>2. i + 1 \in 1..Len(s)
      BY <2>1, <3>1, SMT
    <3> QED
      BY <2>1, <2>2, <3>1, <3>2 DEF Range
  <2>5. Head(s) \in Range(s)
    <3>1. 1 \in 1..Len(s)
      BY <2>1, SMT
    <3> QED
      BY <2>1, <3>1 DEF Range
  <2> QED
    BY <2>3, <2>4, <2>5
<1>2. ASSUME NEW x PROVE Range(Append(s, x)) = Range(s) \cup {x}
  <2>1. Len(s) \in Nat /\ DOMAIN s = 1..Len(s) /\ DOMAIN Append(s, x) = 1..(Len(s) + 1)
    BY SMT
  <2>2. Append(s, x)[Len(s) + 1] = x /\ \A i \in 1..Len(s) : Append(s, x)[i] = s[i]
    BY SMT
  <2>3. 1..(Len(s) + 1) = 1..Len(s) \cup {Len(s) + 1}
    BY <2>1, SMT
  <2> QED
    BY <2>1, <2>2, <2>3 DEF Range
<1> QED
  BY <1>1, <1>2

\* What is left of a Network after an update.
LEMMA NetParts ==
    ASSUME NEW n \in NetType
    PROVE  /\ Ended(n).q = <<>> /\ Ended(n).job = None /\ Ended(n).info = n.info /\ Ended(n).handle = n.handle
           /\ NextCommand(n).q = n.q /\ NextCommand(n).job = None
           /\ NextCommand(n).info = n.info /\ NextCommand(n).handle = n.handle
           /\ n.q \in Seq(Jobs)
  BY DEF Ended, NextCommand, NetType

\* A driver's step changes its own network only, takes nothing in, and loses only queries
\* that it has.
LEMMA DriverEffect ==
    ASSUME Base, NEW i \in Nets, NetDriver(i) \/ p_timeout(i)
    PROVE  /\ UNCHANGED <<cmds, held, networks, resp, clears, scene>>
           /\ \E n \in NetType : /\ net' = [net EXCEPT ![i] = n] /\ n.info = net[i].info /\ n.handle = net[i].handle
                                 /\ \A j \in Jobs : j \in Range(n.q) \/ n.job = j => InNet(i, j)
           /\ Running(i)
           /\ \E rsp \in {"Error", "Dropped"} : \E qs : /\ call' = Lost(call, qs, rsp)
                                                           /\ \A q \in qs \cap Queries : InNet(i, q)
           /\ spawned \subseteq spawned' /\ \A q \in spawned' : q \in spawned \/ InNet(i, q)
<1> DEFINE Net == \E n \in NetType : /\ net' = [net EXCEPT ![i] = n] /\ n.info = net[i].info /\ n.handle = net[i].handle
                                     /\ \A j \in Jobs : j \in Range(n.q) \/ n.job = j => InNet(i, j)
           Calls == \E rsp \in {"Error", "Dropped"} : \E qs : /\ call' = Lost(call, qs, rsp)
                                                                 /\ \A q \in qs \cap Queries : InNet(i, q)
           Spawned == spawned \subseteq spawned' /\ \A q \in spawned' : q \in spawned \/ InNet(i, q)
<1>0. /\ net[i] \in NetType /\ None \notin Jobs /\ net[i].q \in Seq(Jobs)
      /\ call \in [Queries -> CallType] /\ Range(<<>>) = {}
  <2>1. Range(<<>>) = {}
    BY SMT DEF Range
  <2> QED
    BY <2>1, NamesAssumption, NetParts DEF Base, TypeOK
<1>1. ASSUME UNCHANGED call PROVE Calls
  <2>1. call' = Lost(call, {}, "Error")
    BY <1>0, <1>1 DEF Lost
  <2>2. \A q \in {} \cap Queries : InNet(i, q)
    OBVIOUS
  <2> QED
    BY <2>1, <2>2
<1>2. ASSUME NEW qs, NEW rsp \in {"Error", "Dropped"}, call' = Lost(call, qs, rsp),
             \A q \in qs \cap Queries : InNet(i, q)
      PROVE  Calls
  BY <1>2
<1>3. ASSUME UNCHANGED spawned PROVE Spawned
  BY <1>3
<1>4. ASSUME NEW n \in NetType, net' = [net EXCEPT ![i] = n], n.info = net[i].info, n.handle = net[i].handle,
             \A j \in Jobs : j \in Range(n.q) \/ n.job = j => InNet(i, j)
      PROVE  Net
  BY <1>4
<1>5. ASSUME NEW n \in NetType, net' = [net EXCEPT ![i] = n], n.info = net[i].info, n.handle = net[i].handle,
             n.q = net[i].q, n.job = net[i].job \/ n.job = None
      PROVE  Net
  BY <1>0, <1>4, <1>5 DEF InNet
<1> HIDE DEF Net, Calls, Spawned
<1>6. ASSUME EndNet(i) PROVE Net /\ Calls
  <2>1. Net
    <3>1. PICK n : n = Ended(net[i])
      OBVIOUS
    <3>2. n \in NetType /\ n.q = <<>> /\ n.job = None /\ n.info = net[i].info /\ n.handle = net[i].handle
      BY <1>0, <3>1, NetParts, NetUpdates
    <3>3. net' = [net EXCEPT ![i] = n]
      BY <1>6, <3>1 DEF EndNet
    <3>4. \A j \in Jobs : ~(j \in Range(n.q) \/ n.job = j)
      BY <1>0, <3>2
    <3> QED
      BY <1>4, <3>2, <3>3, <3>4
  <2>2. Calls
    <3>1. \A q \in (Range(net[i].q) \cup {net[i].job}) \cap Queries : InNet(i, q)
      BY DEF InNet
    <3> QED
      BY <1>2, <1>6, <3>1 DEF EndNet
  <2> QED
    BY <2>1, <2>2
<1>7. ASSUME QueryFailed(i) PROVE Net /\ Calls /\ Spawned
  <2>1. Net
    BY <1>0, <1>5, <1>7, NetParts, NetUpdates DEF QueryFailed
  <2>2. Calls
    <3>1. \A q \in {net[i].job} \cap Queries : InNet(i, q)
      BY DEF InNet
    <3> QED
      BY <1>2, <1>7, <3>1 DEF QueryFailed
  <2>3. Spawned
    BY <1>3, <1>7 DEF QueryFailed
  <2> QED
    BY <2>1, <2>2, <2>3
<1>8. ASSUME NEW status \in {"Live", "Failed"}, Status(i, status, "report")
      PROVE  Net /\ Calls /\ Spawned
  <2>1. Spawned
    BY <1>3, <1>8 DEF Status
  <2>2. CASE /\ net' = [net EXCEPT ![i] = [net[i] EXCEPT !.status = status, !.at = "report"]]
             /\ UNCHANGED <<call, conn, probe>>
    <3>1. PICK n : n = [net[i] EXCEPT !.status = status, !.at = "report"]
      OBVIOUS
    <3>2. n \in NetType /\ n.info = net[i].info /\ n.handle = net[i].handle /\ n.q = net[i].q /\ n.job = net[i].job
      BY <1>0, <3>1 DEF NetType
    <3> QED
      BY <1>1, <1>5, <2>1, <2>2, <3>1, <3>2
  <2> QED
    BY <1>6, <1>8, <2>1, <2>2 DEF Status
<1>9. ASSUME recv(i) PROVE Net /\ Calls /\ Spawned
  <2>1. Spawned
    BY <1>3, <1>9 DEF recv
  <2>2. PICK j, n : j = Head(net[i].q) /\ n = [net[i] EXCEPT !.q = Tail(net[i].q), !.job = j]
    OBVIOUS
  <2>3. net[i].q # <<>> /\ j \in Jobs /\ Tail(net[i].q) \in Seq(Jobs) /\ Range(net[i].q) = {j} \cup Range(Tail(net[i].q))
    BY <1>0, <1>9, <2>2, ChannelTypes, ChannelHolds DEF recv
  <2>4. PICK m \in NetType : /\ net' = [net EXCEPT ![i] = m] /\ m.q = Tail(net[i].q) /\ (m.job = j \/ m.job = None)
                             /\ m.info = net[i].info /\ m.handle = net[i].handle
    <3>1. n \in NetType /\ n.q = Tail(net[i].q) /\ n.job = j /\ n.info = net[i].info /\ n.handle = net[i].handle
      BY <1>0, <2>2, <2>3 DEF NetType
    <3>2. \A at \in {"reconnect", "report", "p_query", "q_send", "wait1"} :
             /\ [n EXCEPT !.at = at] \in NetType /\ [n EXCEPT !.at = at].q = n.q /\ [n EXCEPT !.at = at].job = n.job
             /\ [n EXCEPT !.at = at].info = n.info /\ [n EXCEPT !.at = at].handle = n.handle
      BY <3>1 DEF NetType
    <3>3. /\ [n EXCEPT !.job = None] \in NetType /\ [n EXCEPT !.job = None].q = n.q /\ [n EXCEPT !.job = None].job = None
          /\ [n EXCEPT !.job = None].info = n.info /\ [n EXCEPT !.job = None].handle = n.handle
      BY <3>1 DEF NetType
    <3>4. \/ \E at \in {"reconnect", "report", "p_query", "q_send", "wait1"} : net' = [net EXCEPT ![i] = [n EXCEPT !.at = at]]
          \/ net' = [net EXCEPT ![i] = [n EXCEPT !.job = None]]
      <4>1. CASE j \in Probes
        BY <1>9, <2>2, <4>1 DEF recv
      <4>2. CASE j \notin Probes
        <5>1. Look(n.conn) \in {"q_send", "reconnect", "wait1"}
          BY DEF Look
        <5> QED
          BY <1>9, <2>2, <4>2, <5>1 DEF recv
      <4> QED
        BY <4>1, <4>2
    <3>5. CASE net' = [net EXCEPT ![i] = [n EXCEPT !.job = None]]
      BY <3>1, <3>3, <3>5
    <3>6. ASSUME NEW at \in {"reconnect", "report", "p_query", "q_send", "wait1"},
                 net' = [net EXCEPT ![i] = [n EXCEPT !.at = at]]
          PROVE  \E m \in NetType : /\ net' = [net EXCEPT ![i] = m] /\ m.q = Tail(net[i].q) /\ (m.job = j \/ m.job = None)
                                    /\ m.info = net[i].info /\ m.handle = net[i].handle
      <4>1. PICK m : m = [n EXCEPT !.at = at]
        OBVIOUS
      <4>2. /\ m \in NetType /\ m.q = Tail(net[i].q) /\ m.job = j
            /\ m.info = net[i].info /\ m.handle = net[i].handle
        BY <3>1, <3>2, <4>1
      <4> QED
        BY <3>6, <4>1, <4>2
    <3> QED
      BY <3>4, <3>5, <3>6
  <2>5. Net
    <3>1. \A k \in Jobs : k \in Range(m.q) \/ m.job = k => InNet(i, k)
      BY <1>0, <2>3, <2>4 DEF InNet
    <3> QED
      BY <1>4, <2>4, <3>1
  <2>6. Calls
    <3>1. InNet(i, j)
      BY <2>3 DEF InNet
    <3>2. \A q \in {j} \cap Queries : InNet(i, q)
      BY <3>1
    <3>3. UNCHANGED call \/ call' = Lost(call, {j}, "Dropped")
      BY <1>9, <2>2 DEF recv
    <3> QED
      BY <1>1, <1>2, <3>2, <3>3
  <2> QED
    BY <2>1, <2>5, <2>6
<1>10. ASSUME recv_none(i) PROVE Net /\ Calls /\ Spawned
  BY <1>3, <1>6, <1>10 DEF recv_none
<1>11. ASSUME reconnect(i) PROVE Net /\ Calls /\ Spawned
  <2>1. Spawned
    BY <1>3, <1>11 DEF reconnect
  <2>2. CASE EndNet(i)
    BY <1>6, <2>1, <2>2
  <2>3. ASSUME NEW c \in NewConns, UNCHANGED <<call, probe>>,
               \/ net' = [net EXCEPT ![i] = [net[i] EXCEPT !.at = "q_send", !.conn = c]]
               \/ net' = [net EXCEPT ![i] = [net[i] EXCEPT !.at = "p_query", !.conn = c, !.status = "Unprobed"]]
        PROVE  Net /\ Calls /\ Spawned
    <3>1. c \in 0..MaxConns
      BY LimitsAssumption, SMT DEF NewConns, Conns
    <3>2. PICK n : /\ net' = [net EXCEPT ![i] = n]
                   /\ \/ n = [net[i] EXCEPT !.at = "q_send", !.conn = c]
                      \/ n = [net[i] EXCEPT !.at = "p_query", !.conn = c, !.status = "Unprobed"]
      BY <2>3
    <3>3. n \in NetType /\ n.info = net[i].info /\ n.handle = net[i].handle /\ n.q = net[i].q /\ n.job = net[i].job
      BY <1>0, <3>1, <3>2 DEF NetType
    <3> QED
      BY <1>1, <1>5, <2>1, <2>3, <3>2, <3>3
  <2> QED
    BY <1>11, <2>2, <2>3 DEF reconnect
<1>12. ASSUME reconnect_fails(i) PROVE Net /\ Calls /\ Spawned
  <2>1. CASE QueryFailed(i)
    BY <1>7, <2>1
  <2>2. CASE EndNet(i) /\ UNCHANGED spawned
    BY <1>3, <1>6, <2>2
  <2>3. CASE /\ net' = [net EXCEPT ![i] = [NextCommand(net[i]) EXCEPT !.status = "Failed"]]
             /\ UNCHANGED <<call, conn>> /\ UNCHANGED spawned
    <3>1. PICK n : n = [NextCommand(net[i]) EXCEPT !.status = "Failed"]
      OBVIOUS
    <3>2. n \in NetType /\ n.info = net[i].info /\ n.handle = net[i].handle /\ n.q = net[i].q /\ n.job = None
      <4>1. NextCommand(net[i]) \in NetType
        BY <1>0, NetUpdates
      <4> QED
        BY <1>0, <3>1, <4>1, NetParts DEF NetType
    <3> QED
      BY <1>1, <1>3, <1>5, <2>3, <3>1, <3>2
  <2> QED
    BY <1>12, <2>1, <2>2, <2>3 DEF reconnect_fails
<1>13. ASSUME p_query(i) PROVE Net /\ Calls /\ Spawned
  <2>1. CASE Status(i, "Failed", "report")
    BY <1>8, <2>1
  <2>2. CASE Goto(i, "p_wait") /\ UNCHANGED <<call, spawned, probe>>
    <3>1. PICK n : n = [net[i] EXCEPT !.at = "p_wait"]
      OBVIOUS
    <3>2. n \in NetType /\ n.info = net[i].info /\ n.handle = net[i].handle /\ n.q = net[i].q /\ n.job = net[i].job
      BY <1>0, <3>1 DEF NetType
    <3> QED
      BY <1>1, <1>3, <1>5, <2>2, <3>1, <3>2 DEF Goto
  <2> QED
    BY <1>13, <2>1, <2>2 DEF p_query
<1>14. ASSUME p_answered(i) PROVE Net /\ Calls /\ Spawned
  <2>1. ProbeVerdict(resp[net[i].job].st) \in {"Live", "Failed"}
    BY DEF ProbeVerdict
  <2> QED
    BY <1>8, <1>14, <2>1 DEF p_answered
<1>15. ASSUME p_timeout(i) PROVE Net /\ Calls /\ Spawned
  BY <1>8, <1>15 DEF p_timeout
<1>16. ASSUME report(i) PROVE Net /\ Calls /\ Spawned
  BY <1>0, <1>1, <1>3, <1>5, <1>16, NetParts, NetUpdates DEF report, NextCommand
<1>17. ASSUME wait_for_live(i) PROVE Net /\ Calls /\ Spawned
  <2>1. PICK at \in {"wait2", "reconnect", "q_send"} : net' = [net EXCEPT ![i] = [net[i] EXCEPT !.at = at]]
    BY <1>17 DEF wait_for_live, Goto
  <2>2. PICK n : n = [net[i] EXCEPT !.at = at]
    OBVIOUS
  <2>3. n \in NetType /\ n.info = net[i].info /\ n.handle = net[i].handle /\ n.q = net[i].q /\ n.job = net[i].job
    BY <1>0, <2>1, <2>2 DEF NetType
  <2>4. UNCHANGED <<call, spawned, probe>>
    BY <1>17 DEF wait_for_live
  <2> QED
    BY <1>1, <1>3, <1>5, <2>1, <2>2, <2>3, <2>4
<1>18. ASSUME q_send(i) PROVE Net /\ Calls /\ Spawned
  <2>1. CASE QueryFailed(i)
    BY <1>7, <2>1
  <2>2. CASE /\ spawned' = spawned \cup {net[i].job} /\ net' = [net EXCEPT ![i] = NextCommand(net[i])]
             /\ UNCHANGED <<call, probe>>
    <3>1. Net
      BY <1>0, <1>5, <2>2, NetParts, NetUpdates
    <3>2. Spawned
      BY <2>2 DEF Spawned, InNet
    <3> QED
      BY <1>1, <2>2, <3>1, <3>2
  <2> QED
    BY <1>18, <2>1, <2>2 DEF q_send, NextCommand
<1>19. Net /\ Calls /\ Spawned
  <2>1. CASE recv(i) \/ recv_none(i) \/ reconnect(i) \/ reconnect_fails(i) \/ p_query(i)
    BY <1>9, <1>10, <1>11, <1>12, <1>13, <2>1
  <2>2. CASE p_answered(i) \/ p_timeout(i) \/ report(i) \/ wait_for_live(i) \/ q_send(i)
    BY <1>14, <1>15, <1>16, <1>17, <1>18, <2>2
  <2> QED
    BY <2>1, <2>2 DEF NetDriver
<1>20. UNCHANGED <<cmds, held, networks, resp, clears, scene>>
  BY DEF NetDriver, recv, recv_none, reconnect, reconnect_fails, p_query, p_answered, report,
       wait_for_live, q_send, p_timeout, QueryFailed, Status, NetStep
<1>21. Running(i)
  BY DEF NetDriver, recv, recv_none, reconnect, reconnect_fails, p_query, p_answered, report,
       wait_for_live, q_send, p_timeout, At, Running
<1> QED
  BY <1>19, <1>20, <1>21 DEF Net, Calls, Spawned

\* The dispatcher passes on what it has been asked, and loses only queries it has been asked.
LEMMA DispatchEffect ==
    ASSUME Base, Dispatch
    PROVE  /\ Range(cmds') \subseteq Range(cmds)
           /\ UNCHANGED <<resp, spawned, clears, scene>>
           /\ \A k \in Nets, q \in Queries : InNet(k, q)' => InNet(k, q) \/ Asked(q)
           /\ \E rsp \in {"Error", "Dropped"} : \E qs : /\ call' = Lost(call, qs, rsp)
                                                        /\ \A q \in qs \cap Queries : Asked(q)
<1> DEFINE Calls == \E rsp \in {"Error", "Dropped"} : \E qs : /\ call' = Lost(call, qs, rsp)
                                                              /\ \A q \in qs \cap Queries : Asked(q)
           Nets_ == \A k \in Nets, q \in Queries : InNet(k, q)' => InNet(k, q) \/ Asked(q)
<1>0. /\ net \in [Nets -> NetType] /\ call \in [Queries -> CallType] /\ cmds \in Seq(Commands)
      /\ held \in Probes \cup {None} /\ networks \in 0..MaxNets
      /\ None \notin Queries /\ \A p \in Probes : p \notin Queries
  BY NamesAssumption DEF Base, TypeOK, Jobs
<1>1. ASSUME UNCHANGED call PROVE Calls
  <2>1. call' = Lost(call, {}, "Error")
    BY <1>0, <1>1 DEF Lost
  <2>2. \A q \in {} \cap Queries : Asked(q)
    OBVIOUS
  <2> QED
    BY <2>1, <2>2
<1>2. ASSUME NEW op, Command(op), Taken
      PROVE  Range(cmds') \subseteq Range(cmds) /\ Head(cmds) \in Range(cmds)
  <2>1. cmds # <<>> /\ cmds' = Tail(cmds)
    BY <1>2 DEF Command, Taken
  <2>2. cmds \in Seq(Commands)
    BY <1>0
  <2>3. Range(cmds) = {Head(cmds)} \cup Range(Tail(cmds))
    BY <2>1, <2>2, ChannelHolds
  <2> QED
    BY <2>1, <2>3
<1>3. ASSUME NEW j, NEW k \in Nets, net' = [net EXCEPT ![k].q = Append(@, j)], j \in Queries => Asked(j)
      PROVE  Nets_
  <2> SUFFICES ASSUME NEW m \in Nets, NEW q \in Queries, InNet(m, q)' PROVE InNet(m, q) \/ Asked(q)
    OBVIOUS
  <2>1. CASE m = k
    <3>1. net'[m].job = net[m].job /\ net'[m].q = Append(net[m].q, j) /\ net[m].q \in Seq(Jobs)
      BY <1>0, <1>3, <2>1 DEF NetType
    <3>2. Range(Append(net[m].q, j)) = Range(net[m].q) \cup {j}
      BY <3>1, ChannelHolds
    <3> QED
      BY <1>3, <3>1, <3>2 DEF InNet
  <2>2. CASE m # k
    <3>1. net'[m] = net[m]
      BY <1>0, <1>3, <2>2
    <3> QED
      BY <3>1 DEF InNet
  <2> QED
    BY <2>1, <2>2
<1>4. ASSUME UNCHANGED net PROVE Nets_
  BY <1>4 DEF InNet
<1>5. \A k \in Nets : Unregistered[k].q = net[k].q /\ Unregistered[k].job = net[k].job
  BY <1>0 DEF Unregistered, NetType
<1>6. networks # 0 => networks \in Nets
  BY <1>0, LimitsAssumption, SMT DEF Nets
<1> HIDE DEF Calls, Nets_
<1>7. ASSUME Driver_query PROVE Calls /\ Nets_
  <2>1. Job \in Queries /\ Asked(Job)
    <3>1. Head(cmds) \in Commands /\ Head(cmds).op = "query" /\ Head(cmds) \in Range(cmds) /\ Job \in Queries
      BY <1>2, <1>7, JobTypes DEF Driver_query, Command, Base
    <3>2. \A d \in Commands : d.op = "query" => d = [op |-> "query", job |-> d.job]
      BY SMT DEF Commands
    <3> QED
      BY <3>1, <3>2 DEF Asked, Job
  <2>2. Calls
    <3>1. \A q \in {Job} \cap Queries : Asked(q)
      BY <2>1
    <3>2. UNCHANGED call \/ call' = Lost(call, {Job}, "Error") \/ call' = Lost(call, {Job}, "Dropped")
      BY <1>7 DEF Driver_query
    <3> QED
      BY <1>1, <3>1, <3>2 DEF Calls
  <2>3. Nets_
    <3>1. UNCHANGED net \/ (networks # 0 /\ net' = [net EXCEPT ![networks].q = Append(@, Job)])
      BY <1>7 DEF Driver_query
    <3> QED
      BY <1>3, <1>4, <1>6, <2>1, <3>1
  <2> QED
    BY <2>2, <2>3
<1>8. ASSUME Driver_probe_same PROVE Calls /\ Nets_
  <2>1. Job \notin Queries
    BY <1>0, <1>8, JobTypes DEF Driver_probe_same, Base
  <2>2. networks \in Nets
    BY <1>6, <1>8 DEF Driver_probe_same, Registered
  <2> QED
    BY <1>1, <1>3, <1>4, <1>8, <2>1, <2>2 DEF Driver_probe_same
<1>9. ASSUME Driver_probe_waited PROVE Calls /\ Nets_
  <2>1. held \notin Queries
    BY <1>0
  <2>2. CASE networks \in Nets
    BY <1>1, <1>3, <1>9, <2>1, <2>2 DEF Driver_probe_waited
  <2>3. CASE networks \notin Nets
    <3>1. UNCHANGED net
      BY <1>0, <1>9, <2>3 DEF Driver_probe_waited
    <3> QED
      BY <1>1, <1>4, <1>9, <3>1 DEF Driver_probe_waited
  <2> QED
    BY <2>2, <2>3
<1>10. ASSUME net' = Unregistered PROVE Nets_
  BY <1>5, <1>10 DEF Nets_, InNet
<1>11. ASSUME Driver_probe_new PROVE Calls /\ Nets_
  <2>1. Job \notin Queries
    BY <1>0, <1>11, JobTypes DEF Driver_probe_new, Base
  <2>2. ASSUME NEW i \in Nets, NEW c, NEW info,
               net' = [Unregistered EXCEPT ![i] = [NoNet EXCEPT !.handle = TRUE, !.info = info,
                                                   !.q = <<Job>>, !.at = "recv", !.conn = c]]
        PROVE  Nets_
    <3> SUFFICES ASSUME NEW m \in Nets, NEW q \in Queries, InNet(m, q)' PROVE InNet(m, q) \/ Asked(q)
      BY DEF Nets_
    <3>1. PICK n : n = [NoNet EXCEPT !.handle = TRUE, !.info = info, !.q = <<Job>>, !.at = "recv", !.conn = c]
      OBVIOUS
    <3>2. n.q = <<Job>> /\ n.job = None
      BY <3>1, SMT DEF NoNet
    <3>3. Range(n.q) = {Job}
      BY <3>2, SMT DEF Range
    <3>4. Unregistered \in [Nets -> NetType]
      BY <1>0, UnregisteredType
    <3>5. net'[m] = n \/ net'[m] = Unregistered[m]
      BY <2>2, <3>1, <3>4
    <3> QED
      BY <1>0, <1>5, <2>1, <3>2, <3>3, <3>5 DEF InNet
  <2> QED
    BY <1>1, <1>10, <1>11, <2>2 DEF Driver_probe_new
<1>12. ASSUME Driver_clear PROVE Calls /\ Nets_
  BY <1>1, <1>10, <1>12 DEF Driver_clear
<1>13. Range(cmds') \subseteq Range(cmds)
  BY <1>2 DEF Dispatch, Driver_query, Driver_probe_same, Driver_probe_waited, Driver_probe_new, Driver_clear
<1>14. UNCHANGED <<resp, spawned, clears, scene>>
  BY DEF Dispatch, Driver_query, Driver_probe_same, Driver_probe_waited, Driver_probe_new, Driver_clear
<1>15. Calls /\ Nets_
  BY <1>7, <1>8, <1>9, <1>11, <1>12 DEF Dispatch
<1> QED
  BY <1>13, <1>14, <1>15 DEF Calls, Nets_

\* A connection's step changes the streams of its own requests only: it drops some, or a stream
\* that is one of its own ends.
LEMMA ConnEffect ==
    ASSUME Base, NEW c \in Conns, ConnDriver(c) \/ Peer(c)
    PROVE  /\ UNCHANGED <<call, cmds, held, networks, net, spawned, probe, clears, scene>>
           /\ \/ UNCHANGED resp
              \/ \E js \in SUBSET Has(c) : resp' = Dropped(js)
              \/ \E j \in conn[c].sent, st \in {"stream", "reset", "dropped"} :
                    resp' = [resp EXCEPT ![j] = [st |-> st, of |-> j]]
<1> DEFINE Streams == \/ UNCHANGED resp
                      \/ \E js \in SUBSET Has(c) : resp' = Dropped(js)
                      \/ \E j \in conn[c].sent, st \in {"stream", "reset", "dropped"} :
                            resp' = [resp EXCEPT ![j] = [st |-> st, of |-> j]]
<1>1. conn[c] \in ConnType /\ conn[c].rq \in Seq(Jobs) /\ None \notin Jobs
  BY NamesAssumption DEF Base, TypeOK, ConnType
<1>2. Range(conn[c].rq) \subseteq Has(c) /\ (conn[c].buf # None => conn[c].buf \in Has(c))
  <2>1. Range(conn[c].rq) \subseteq Jobs
    BY <1>1, SMT DEF Range
  <2> QED
    BY <1>1, <2>1 DEF Has
<1>3. conn[c].rq # <<>> => Head(conn[c].rq) \in Has(c)
  <2> SUFFICES ASSUME conn[c].rq # <<>> PROVE Head(conn[c].rq) \in Has(c)
    OBVIOUS
  <2>1. Range(conn[c].rq) = {Head(conn[c].rq)} \cup Range(Tail(conn[c].rq))
    BY <1>1, ChannelHolds
  <2> QED
    BY <1>2, <2>1
<1>4. ASSUME NEW d, NEW j \in Has(c), handle_request(d, j) PROVE Streams
  BY <1>4 DEF handle_request
<1>5. ASSUME NEW val, NEW news, Gone(c, val, news) \/ Close(c, val, news) PROVE Streams
  BY <1>2, <1>5 DEF Gone, Close
<1>6. ASSUME NEW j, respond(c, j) PROVE Streams
  BY <1>6 DEF respond, answers
<1> HIDE DEF Streams
<1>7. CASE ConnDriver(c)
  <2>1. Streams
    BY <1>2, <1>3, <1>4, <1>5, <1>7 DEF ConnDriver, H3_recv, H3_resend, shutdown_unowned, shutdown
  <2>2. ConnStep(c)
    BY <1>7 DEF ConnDriver, H3_recv, H3_resend, shutdown_unowned, shutdown, Close
  <2> QED
    BY <2>1, <2>2 DEF Streams, ConnStep
<1>8. CASE Peer(c)
  <2>1. Streams
    <3>1. Established(c) => Streams
      BY DEF Established, Streams
    <3> QED
      BY <1>5, <1>6, <1>8, <3>1 DEF Peer, Broken, handle_closed, handle_draining, shutdown
  <2>2. ConnStep(c)
    BY <1>8 DEF Peer, Established, Broken, handle_closed, handle_draining, shutdown, respond, Gone, Close
  <2> QED
    BY <2>1, <2>2 DEF Streams, ConnStep
<1> QED
  BY <1>7, <1>8

----------------------------------------------------------------------------
(* The query service                                                        *)

\* The result of a call as the callers of the query service see it.
Shown(r) ==
    IF r.at = "idle" THEN "none" ELSE IF r.at # "done" THEN "pending"
    ELSE IF r.code = "answer" THEN "success"
    ELSE IF r.code = "CAN_NOT_SEND" /\ r.rsp = "pending" THEN "internal_error"
    ELSE "network_error"

\* A late response keeps a call right and shows nowhere.
Unseen(r, s, q) ==
    /\ Right(s, q) /\ (Submitted(r) => Submitted(s)) /\ Shown(s) = Shown(r)
    /\ s.code = r.code /\ (r.code = "answer" => s.got = r.got)

\* A step of a call that its caller sees.
Moves(r, s, q) ==
    /\ Right(s, q) /\ (Submitted(r) => Submitted(s)) /\ r.code # "answer"
    /\ \/ Shown(r) = "none" /\ Shown(s) \in {"pending", "internal_error"} /\ s.code # "answer"
       \/ Shown(r) = "pending" /\ Shown(s) = "success" /\ s.code = "answer" /\ s.got = q
       \/ Shown(r) = "pending" /\ Shown(s) = "network_error" /\ s.code # "answer"
Seen(q) == Moves(call[q], call'[q], q) /\ \A k \in Queries \ {q} : call'[k] = call[k]
NotSeen == \A q \in Queries : Unseen(call[q], call'[q], q)

\* The state of the query service, as the refinement maps it.
Codes == [q \in Queries |-> Shown(call[q])]
Answers == [q \in Queries |-> IF call[q].code = "answer" THEN call[q].got ELSE None]

\* At the start nobody has asked anything, and the one answer there may be is that of a probe.
LEMMA InitAnswers == Init => AnswersRight /\ Service!Init
<1> SUFFICES ASSUME Init PROVE AnswersRight /\ Service!Init
  OBVIOUS
<1>1. TypeOK
  BY InitType
<1>2. ASSUME NEW q \in Queries
      PROVE  Right(call[q], q) /\ Shown(call[q]) = "none" /\ call[q].code # "answer"
  <2>1. call[q] = [at |-> "idle", expired |-> FALSE, rsp |-> "pending", got |-> None, code |-> "none"]
    BY DEF Init
  <2> QED
    BY <2>1, SMT DEF Right, Shown
<1>3. ASSUME NEW q \in Queries PROVE ~Asked(q) /\ q \notin spawned /\ \A i \in Nets : ~InNet(i, q)
  <2>0. Range(<<>>) = {}
    BY SMT DEF Range
  <2>1. Range(<<>>) = {} /\ q # None
    BY <2>0, NamesAssumption DEF Jobs
  <2>2. ASSUME NEW i \in Nets PROVE net[i].q = <<>> /\ net[i].job = None
    <3>1. PICK n : /\ net[i] = n
                   /\ \/ n = NoNet
                      \/ \E info : n = [NoNet EXCEPT !.handle = TRUE, !.info = info, !.status = "Live",
                                                     !.at = "recv", !.conn = 1]
      BY DEF Init
    <3>2. ASSUME n = NoNet PROVE n.q = <<>> /\ n.job = None
      BY <3>2, SMT DEF NoNet
    <3>3. ASSUME NEW info, n = [NoNet EXCEPT !.handle = TRUE, !.info = info, !.status = "Live",
                                             !.at = "recv", !.conn = 1]
          PROVE  n.q = <<>> /\ n.job = None
      BY <3>3, SMT DEF NoNet
    <3> QED
      BY <3>1, <3>2, <3>3
  <2>3. cmds = <<>> /\ spawned = {}
    BY DEF Init
  <2> QED
    BY <2>1, <2>2, <2>3 DEF Asked, InNet
<1>4. ASSUME NEW j \in Jobs, resp[j].st = "stream" PROVE resp[j].of = j
  <2>1. resp[j] = Pending \/ (j = 1 /\ resp[j] = [st |-> "stream", of |-> 1])
    BY DEF Init
  <2> QED
    BY <1>4, <2>1, SMT DEF Pending
<1>5. Codes = [q \in Queries |-> "none"] /\ Answers = [q \in Queries |-> None]
  BY <1>2 DEF Codes, Answers
<1>6. Service!Init
  BY <1>5 DEF Service!Init, Codes, Answers, Shown
<1> QED
  BY <1>2, <1>3, <1>4, <1>6 DEF AnswersRight

\* Every step keeps the answers right.
LEMMA NextAnswers == Base /\ AnswersRight /\ [Next]_vars => AnswersRight' /\ [Service!Next]_(Service!vars)
\* Losing a submitted query's response shows nowhere.
<1>LostRight.
    ASSUME call \in [Queries -> CallType], \A q \in Queries : Right(call[q], q),
           NEW qs, NEW rsp \in {"Error", "Dropped"}, \A q \in qs \cap Queries : Submitted(call[q])
    PROVE  \A q \in Queries : Unseen(call[q], Lost(call, qs, rsp)[q], q)
  <2> USE <1>LostRight
  <2> SUFFICES ASSUME NEW q \in Queries PROVE Unseen(call[q], Lost(call, qs, rsp)[q], q)
    OBVIOUS
  <2>1. call[q] \in CallType /\ Right(call[q], q)
    OBVIOUS
  <2>2. ASSUME NEW r \in CallType, Right(r, q) PROVE Unseen(r, r, q)
    BY <2>2 DEF Unseen
  <2>3. ASSUME NEW r \in CallType, Right(r, q), Submitted(r), r.rsp = "pending"
        PROVE  Unseen(r, [r EXCEPT !.rsp = rsp], q)
    <3>1. PICK s : s = [r EXCEPT !.rsp = rsp]
      OBVIOUS
    <3>2. /\ s.rsp = rsp /\ s.at = r.at /\ s.code = r.code /\ s.got = r.got
          /\ rsp # "pending" /\ rsp # "Success" /\ r.at # "idle" /\ r.at # "sending"
      BY <2>3, <3>1, SMT DEF CallType, Submitted
    <3>3. Right(s, q) /\ Submitted(s) /\ Shown(s) = Shown(r)
      BY <2>3, <3>2, SMT DEF Right, Submitted, Shown
    <3> QED
      BY <3>1, <3>2, <3>3 DEF Unseen
  <2>4. CASE q \in qs /\ call[q].rsp = "pending"
    BY <2>1, <2>3, <2>4 DEF Lost
  <2>5. CASE ~(q \in qs /\ call[q].rsp = "pending")
    BY <2>1, <2>2, <2>5 DEF Lost
  <2> QED
    BY <2>4, <2>5
\* The steps of one call.
<1>CallSteps.
    ASSUME NEW q, NEW r \in CallType, Right(r, q)
    PROVE  /\ Unseen(r, r, q)
           /\ r.at = "idle" => /\ Moves(r, [r EXCEPT !.at = "waiting"], q) /\ Submitted([r EXCEPT !.at = "waiting"])
                               /\ Moves(r, [r EXCEPT !.at = "sending"], q)
                               /\ Moves(r, [r EXCEPT !.at = "done", !.code = "CAN_NOT_SEND"], q)
           /\ r.at = "sending" => /\ Unseen(r, [r EXCEPT !.at = "waiting"], q)
                                  /\ Submitted([r EXCEPT !.at = "waiting"])
           /\ r.at \in {"sending", "waiting"} => Unseen(r, [r EXCEPT !.expired = TRUE], q)
           /\ r.at = "waiting" /\ r.rsp = "Success" => Moves(r, [r EXCEPT !.at = "done", !.code = "answer"], q)
           /\ r.at = "waiting" /\ r.rsp = "Success" => Moves(r, [r EXCEPT !.at = "done", !.code = "INTERNAL_ERROR"], q)
           /\ r.at = "waiting" /\ r.rsp # "pending" => Moves(r, [r EXCEPT !.at = "done", !.code = "CAN_NOT_SEND"], q)
           /\ r.at = "waiting" => Moves(r, [r EXCEPT !.at = "done", !.code = "TIMEOUT"], q)
           /\ Submitted(r) => Unseen(r, [r EXCEPT !.rsp = "Success", !.got = q], q)
  <2> USE <1>CallSteps
  <2>1. Unseen(r, r, q)
    BY DEF Unseen
  <2>2. ASSUME NEW at \in {"waiting", "sending"}, r.at = "idle" \/ (r.at = "sending" /\ at = "waiting")
        PROVE  /\ r.at = "idle" => Moves(r, [r EXCEPT !.at = at], q)
               /\ r.at = "sending" => Unseen(r, [r EXCEPT !.at = at], q)
               /\ at = "waiting" => Submitted([r EXCEPT !.at = at])
    <3>1. PICK s : s = [r EXCEPT !.at = at]
      OBVIOUS
    <3>2. s.at = at /\ s.rsp = r.rsp /\ s.code = r.code /\ s.got = r.got
      BY <3>1, SMT DEF CallType
    <3>3. r.rsp = "pending" /\ r.code = "none" /\ ~Submitted(r) /\ r.code # "answer"
      BY <2>2, SMT DEF Right, Submitted
    <3>4. Right(s, q) /\ Shown(s) = "pending" /\ (at = "waiting" => Submitted(s))
      BY <3>2, <3>3, SMT DEF Right, Submitted, Shown
    <3>5. (r.at = "idle" => Shown(r) = "none") /\ (r.at = "sending" => Shown(r) = "pending")
      BY SMT DEF Shown
    <3> QED
      BY <3>1, <3>2, <3>3, <3>4, <3>5 DEF Moves, Unseen
  <2>3. ASSUME r.at = "idle" PROVE Moves(r, [r EXCEPT !.at = "done", !.code = "CAN_NOT_SEND"], q)
    <3>1. PICK s : s = [r EXCEPT !.at = "done", !.code = "CAN_NOT_SEND"]
      OBVIOUS
    <3>2. s.at = "done" /\ s.rsp = r.rsp /\ s.code = "CAN_NOT_SEND" /\ s.got = r.got
      BY <3>1, SMT DEF CallType
    <3>3. r.rsp = "pending" /\ r.code = "none" /\ ~Submitted(r) /\ Shown(r) = "none"
      BY <2>3, SMT DEF Right, Submitted, Shown
    <3>4. Right(s, q) /\ Shown(s) = "internal_error"
      BY <3>2, <3>3, SMT DEF Right, Shown
    <3> QED
      BY <3>1, <3>2, <3>3, <3>4 DEF Moves
  <2>4. ASSUME r.at \in {"sending", "waiting"} PROVE Unseen(r, [r EXCEPT !.expired = TRUE], q)
    <3>1. PICK s : s = [r EXCEPT !.expired = TRUE]
      OBVIOUS
    <3>2. s.at = r.at /\ s.rsp = r.rsp /\ s.code = r.code /\ s.got = r.got
      BY <3>1, SMT DEF CallType
    <3> QED
      BY <3>1, <3>2 DEF Unseen, Right, Submitted, Shown
  <2>5. ASSUME NEW code \in {"answer", "INTERNAL_ERROR", "CAN_NOT_SEND", "TIMEOUT"}, r.at = "waiting",
               code = "answer" => r.rsp = "Success", code = "CAN_NOT_SEND" => r.rsp # "pending"
        PROVE  Moves(r, [r EXCEPT !.at = "done", !.code = code], q)
    <3>1. PICK s : s = [r EXCEPT !.at = "done", !.code = code]
      OBVIOUS
    <3>2. s.at = "done" /\ s.rsp = r.rsp /\ s.code = code /\ s.got = r.got
      BY <3>1, SMT DEF CallType
    <3>3. r.code # "answer" /\ Shown(r) = "pending" /\ (r.rsp = "Success" => r.got = q)
      BY <2>5, SMT DEF Right, Shown
    <3>4. Right(s, q) /\ Submitted(s) /\ Shown(s) = IF code = "answer" THEN "success" ELSE "network_error"
      BY <2>5, <3>2, <3>3, SMT DEF Right, Shown, Submitted
    <3> QED
      BY <2>5, <3>1, <3>2, <3>3, <3>4, SMT DEF Moves
  <2>6. ASSUME Submitted(r) PROVE Unseen(r, [r EXCEPT !.rsp = "Success", !.got = q], q)
    <3>1. PICK s : s = [r EXCEPT !.rsp = "Success", !.got = q]
      OBVIOUS
    <3>2. s.at = r.at /\ s.rsp = "Success" /\ s.code = r.code /\ s.got = q
      BY <3>1, SMT DEF CallType
    <3>3. Right(s, q) /\ Submitted(s) /\ Shown(s) = Shown(r) /\ (r.code = "answer" => r.got = q)
      BY <2>6, <3>2, SMT DEF Right, Shown, Submitted
    <3> QED
      BY <3>1, <3>2, <3>3 DEF Unseen
  <2> QED
    BY <2>1, <2>2, <2>3, <2>4, <2>5, <2>6, SMT
\* Every step either shows nowhere or is a step of one call that its caller sees.
<1>NextShown.
    ASSUME Base, AnswersRight, Next
    PROVE  NotSeen \/ \E q \in Queries : Seen(q)
  <2> USE <1>NextShown
  <2>0. /\ call \in [Queries -> CallType] /\ \A q \in Queries : call[q] \in CallType /\ Right(call[q], q)
    BY DEF Base, TypeOK, AnswersRight
  <2>1. ASSUME UNCHANGED call PROVE NotSeen
    BY <2>0, <2>1, <1>CallSteps DEF NotSeen
  <2>2. ASSUME NEW qs, NEW rsp \in {"Error", "Dropped"}, call' = Lost(call, qs, rsp),
               \A q \in qs \cap Queries : Submitted(call[q])
        PROVE  NotSeen
    BY <2>0, <2>2, <1>LostRight DEF NotSeen
  <2>3. ASSUME NEW q \in Queries, NEW s, call' = [call EXCEPT ![q] = s], Moves(call[q], s, q)
        PROVE  Seen(q)
    <3>1. call'[q] = s /\ \A k \in Queries \ {q} : call'[k] = call[k]
      BY <2>0, <2>3
    <3> QED
      BY <2>3, <3>1 DEF Seen
  <2>4. ASSUME NEW q \in Queries, NEW s, call' = [call EXCEPT ![q] = s], Unseen(call[q], s, q)
        PROVE  NotSeen
    <3> SUFFICES ASSUME NEW k \in Queries PROVE Unseen(call[k], call'[k], k)
      BY DEF NotSeen
    <3>1. CASE k = q
      BY <2>0, <2>4, <3>1
    <3>2. CASE k # q
      <4>1. call'[k] = call[k]
        BY <2>0, <2>4, <3>2
      <4> QED
        BY <2>0, <4>1, <1>CallSteps
    <3> QED
      BY <3>1, <3>2
  <2>5. ASSUME NEW q \in Queries, doh_query(q) PROVE Seen(q)
    <3>1. call[q].at = "idle" /\ call[q] \in CallType /\ Right(call[q], q)
      BY <2>0, <2>5 DEF doh_query
    <3>2. \E s : /\ call' = [call EXCEPT ![q] = s]
                 /\ \/ s = [call[q] EXCEPT !.at = "waiting"] \/ s = [call[q] EXCEPT !.at = "sending"]
                    \/ s = [call[q] EXCEPT !.at = "done", !.code = "CAN_NOT_SEND"]
      BY <2>5 DEF doh_query
    <3> QED
      BY <2>3, <3>1, <3>2, <1>CallSteps
  <2>6. ASSUME NEW q \in Queries, doh_query_send(q) PROVE NotSeen
    BY <2>0, <2>4, <2>6, <1>CallSteps DEF doh_query_send
  <2>7. ASSUME NEW q \in Queries, Expire(q) PROVE NotSeen
    BY <2>0, <2>4, <2>7, <1>CallSteps DEF Expire
  <2>8. ASSUME NEW q \in Queries, doh_query_returns(q) PROVE Seen(q)
    <3>1. call[q].at = "waiting" /\ call[q] \in CallType /\ Right(call[q], q)
      BY <2>0, <2>8 DEF doh_query_returns
    <3>2. PICK code : /\ call' = [call EXCEPT ![q] = [call[q] EXCEPT !.at = "done", !.code = code]]
                      /\ \/ call[q].rsp = "Success" /\ code \in {"answer", "INTERNAL_ERROR"}
                         \/ call[q].rsp # "pending" /\ code = "CAN_NOT_SEND"
                         \/ code = "TIMEOUT"
      BY <2>8 DEF doh_query_returns
    <3>3. Moves(call[q], [call[q] EXCEPT !.at = "done", !.code = code], q)
      BY <3>1, <3>2, <1>CallSteps
    <3> QED
      BY <2>3, <3>2, <3>3
  <2>9. ASSUME NEW q \in Queries, Deliver(q) PROVE NotSeen
    <3>1. Submitted(call[q]) /\ (resp[q].st = "stream" => resp[q].of = q)
      BY <2>9 DEF AnswersRight, Deliver, Jobs
    <3>2. CASE resp[q].st # "stream"
      <4>1. \A k \in {q} \cap Queries : Submitted(call[k])
        BY <3>1
      <4> QED
        BY <2>2, <2>9, <3>2, <4>1 DEF Deliver
    <3>3. CASE resp[q].st = "stream"
      <4>1. call' = [call EXCEPT ![q] = [call[q] EXCEPT !.rsp = "Success", !.got = q]]
        BY <2>9, <3>1, <3>3 DEF Deliver
      <4>2. Unseen(call[q], [call[q] EXCEPT !.rsp = "Success", !.got = q], q)
        BY <2>0, <3>1, <1>CallSteps
      <4> QED
        BY <2>4, <4>1, <4>2
    <3> QED
      BY <3>2, <3>3
  <2>10. CASE Dispatch
    <3>1. \E rsp \in {"Error", "Dropped"} : \E qs : /\ call' = Lost(call, qs, rsp)
                                                    /\ \A q \in qs \cap Queries : Asked(q)
      BY <2>10, DispatchEffect
    <3> QED
      BY <2>2, <3>1 DEF AnswersRight
  <2>11. ASSUME NEW i \in Nets, NetDriver(i) \/ p_timeout(i) PROVE NotSeen
    <3>1. \E rsp \in {"Error", "Dropped"} : \E qs : /\ call' = Lost(call, qs, rsp)
                                                    /\ \A q \in qs \cap Queries : InNet(i, q)
      BY <2>11, DriverEffect
    <3> QED
      BY <2>2, <3>1 DEF AnswersRight
  <2>12. ASSUME NEW c \in Conns, ConnDriver(c) \/ Peer(c) PROVE NotSeen
    BY <2>1, <2>12, ConnEffect
  <2>13. (\E p \in Probes : doh_net_new(p)) \/ doh_net_delete => NotSeen
    BY <2>1 DEF doh_net_new, doh_net_delete
  <2> QED
    BY <2>5, <2>6, <2>7, <2>8, <2>9, <2>10, <2>11, <2>12, <2>13 DEF Next
\* A step takes queries in from callers only, who have then submitted them.
<1>NextSubmitted.
    ASSUME Base, AnswersRight, Next, NEW q \in Queries
    PROVE  (Asked(q) \/ (\E i \in Nets : InNet(i, q)) \/ q \in spawned)' => Submitted(call'[q])
  <2> USE <1>NextSubmitted
  <2> DEFINE Before == Asked(q) \/ (\E i \in Nets : InNet(i, q)) \/ q \in spawned
             After == (Asked(q) \/ (\E i \in Nets : InNet(i, q)) \/ q \in spawned)'
  <2>0. /\ cmds \in Seq(Commands) /\ call \in [Queries -> CallType] /\ Right(call[q], q)
        /\ \A k \in Queries : call[k] \in CallType /\ Right(call[k], k)
    BY DEF Base, TypeOK, AnswersRight
  <2>1. Submitted(call[q]) => Submitted(call'[q])
    <3>1. NotSeen => (Submitted(call[q]) => Submitted(call'[q]))
      BY DEF NotSeen, Unseen
    <3>2. ASSUME NEW k \in Queries, Seen(k) PROVE Submitted(call[q]) => Submitted(call'[q])
      BY <3>2 DEF Seen, Moves
    <3> QED
      BY <3>1, <3>2, <1>NextShown
  <2>2. Before => Submitted(call'[q])
    BY <2>1 DEF AnswersRight
  <2>3. ASSUME UNCHANGED <<net, spawned>>, UNCHANGED cmds PROVE After => Before
    BY <2>3 DEF Asked, InNet
  <2>4. ASSUME UNCHANGED <<net, spawned>>, NEW cmd, send_cmd(cmd)
        PROVE  After => Before \/ cmd = [op |-> "query", job |-> q]
    <3>1. Range(Append(cmds, cmd)) = Range(cmds) \cup {cmd}
      BY <2>0, ChannelHolds
    <3>2. cmds' = Append(cmds, cmd)
      BY <2>4 DEF send_cmd
    <3> QED
      BY <2>4, <3>1, <3>2 DEF Asked, InNet
  <2> HIDE DEF Before, After
  <2>5. ASSUME NEW k \in Queries, doh_query(k) \/ doh_query_send(k) PROVE After => Submitted(call'[q])
    <3>1. UNCHANGED <<net, spawned>>
      BY <2>5 DEF doh_query, doh_query_send, callerVars
    <3>2. CASE UNCHANGED cmds
      BY <2>2, <2>3, <3>1, <3>2
    <3>3. CASE /\ send_cmd([op |-> "query", job |-> k]) /\ call[k].at \in {"idle", "sending"}
               /\ call' = [call EXCEPT ![k] = [call[k] EXCEPT !.at = "waiting"]]
      <4>1. [op |-> "query", job |-> k] = [op |-> "query", job |-> q] => k = q
        BY SMT
      <4>2. Submitted([call[k] EXCEPT !.at = "waiting"])
        BY <2>0, <3>3, <1>CallSteps
      <4>3. k = q => Submitted(call'[q])
        BY <2>0, <3>3, <4>2
      <4> QED
        BY <2>2, <2>4, <3>1, <3>3, <4>1, <4>3
    <3> QED
      BY <2>5, <3>2, <3>3 DEF doh_query, doh_query_send
  <2>6. ASSUME NEW k \in Queries, Expire(k) \/ doh_query_returns(k) PROVE After => Before
    BY <2>3, <2>6 DEF Expire, doh_query_returns, callerVars
  <2>7. ASSUME NEW k \in Queries, Deliver(k) PROVE After => Before
    BY <2>7 DEF Deliver, After, Before, Asked, InNet
  <2>8. ASSUME (\E p \in Probes : doh_net_new(p)) \/ doh_net_delete PROVE After => Before
    <3>1. PICK cmd : send_cmd(cmd) /\ UNCHANGED <<net, spawned>> /\ cmd.op # "query"
      <4>1. ASSUME NEW p \in Probes, doh_net_new(p)
            PROVE  \E cmd : send_cmd(cmd) /\ UNCHANGED <<net, spawned>> /\ cmd.op # "query"
        <5>1. [op |-> "probe", job |-> p].op # "query"
          BY SMT
        <5> QED
          BY <4>1, <5>1 DEF doh_net_new, callerVars
      <4>2. ASSUME doh_net_delete
            PROVE  \E cmd : send_cmd(cmd) /\ UNCHANGED <<net, spawned>> /\ cmd.op # "query"
        <5>1. [op |-> "clear", job |-> None].op # "query"
          BY SMT
        <5> QED
          BY <4>2, <5>1 DEF doh_net_delete, callerVars
      <4> QED
        BY <2>8, <4>1, <4>2
    <3>2. cmd # [op |-> "query", job |-> q]
      BY <3>1, SMT
    <3> QED
      BY <2>4, <3>1, <3>2
  <2>9. ASSUME Dispatch PROVE After => Before
    BY <2>9, DispatchEffect DEF After, Before, Asked
  <2>10. ASSUME NEW i \in Nets, NetDriver(i) \/ p_timeout(i) PROVE After => Before
    <3>1. net \in [Nets -> NetType] /\ q \in Jobs
      BY DEF Base, TypeOK, Jobs
    <3>2. PICK n \in NetType : /\ net' = [net EXCEPT ![i] = n]
                               /\ \A j \in Jobs : j \in Range(n.q) \/ n.job = j => InNet(i, j)
      BY <2>10, DriverEffect
    <3>3. cmds' = cmds /\ \A k \in spawned' : k \in spawned \/ InNet(i, k)
      BY <2>10, DriverEffect
    <3>4. ASSUME NEW k \in Nets, InNet(k, q)' PROVE \E m \in Nets : InNet(m, q)
      <4>1. CASE k = i
        <5>1. net'[k] = n
          BY <3>1, <3>2, <4>1
        <5> QED
          BY <3>1, <3>2, <3>4, <5>1 DEF InNet
      <4>2. CASE k # i
        <5>1. net'[k] = net[k]
          BY <3>1, <3>2, <4>2
        <5> QED
          BY <3>4, <5>1 DEF InNet
      <4> QED
        BY <4>1, <4>2
    <3> QED
      BY <3>3, <3>4 DEF After, Before, Asked
  <2>11. ASSUME NEW c \in Conns, ConnDriver(c) \/ Peer(c) PROVE After => Before
    BY <2>3, <2>11, ConnEffect
  <2>12. After => Submitted(call'[q])
    BY <2>2, <2>5, <2>6, <2>7, <2>8, <2>9, <2>10, <2>11 DEF Next
  <2> QED
    BY <2>12 DEF After
\* A stream that ends well is one of the request it was opened for.
<1>NextStreams.
    ASSUME Base, AnswersRight, Next, NEW j \in Jobs
    PROVE  resp'[j].st = "stream" => resp'[j].of = j
  <2> USE <1>NextStreams
  <2>0. resp \in [Jobs -> RespType] /\ (resp[j].st = "stream" => resp[j].of = j)
    BY DEF Base, TypeOK, AnswersRight
  <2>1. ASSUME UNCHANGED resp PROVE resp'[j].st = "stream" => resp'[j].of = j
    BY <2>0, <2>1
  <2>2. ASSUME NEW c \in Conns, ConnDriver(c) \/ Peer(c) PROVE resp'[j].st = "stream" => resp'[j].of = j
    <3>1. ASSUME NEW js, resp' = Dropped(js) PROVE resp'[j].st = "stream" => resp'[j].of = j
      <4>1. [Pending EXCEPT !.st = "dropped"].st = "dropped"
        BY SMT DEF Pending
      <4> QED
        BY <2>0, <3>1, <4>1, SMT DEF Dropped
    <3>2. ASSUME NEW k, NEW st, resp' = [resp EXCEPT ![k] = [st |-> st, of |-> k]]
          PROVE  resp'[j].st = "stream" => resp'[j].of = j
      BY <2>0, <3>2, SMT
    <3> QED
      BY <2>1, <2>2, <3>1, <3>2, ConnEffect
  <2>3. Dispatch => UNCHANGED resp
    BY DispatchEffect
  <2>4. ASSUME NEW i \in Nets, NetDriver(i) \/ p_timeout(i) PROVE UNCHANGED resp
    BY <2>4, DriverEffect
  <2>5. /\ \A q \in Queries : (doh_query(q) \/ doh_query_send(q) \/ Expire(q) \/ doh_query_returns(q) \/ Deliver(q)) => UNCHANGED resp
        /\ (\E p \in Probes : doh_net_new(p)) \/ doh_net_delete => UNCHANGED resp
    BY DEF doh_query, doh_query_send, Expire, doh_query_returns, Deliver, doh_net_new, doh_net_delete, callerVars
  <2> QED
    BY <2>1, <2>2, <2>3, <2>4, <2>5 DEF Next
\* What a caller sees is a step of the query service, and what nobody sees is none.
<1>NextService.
    ASSUME Base, AnswersRight, NotSeen \/ \E q \in Queries : Seen(q)
    PROVE  [Service!Next]_(Service!vars)
  <2> USE <1>NextService
  <2>1. CASE NotSeen
    <3>1. Codes' = Codes /\ Answers' = Answers
      BY <2>1 DEF NotSeen, Unseen, Codes, Answers
    <3> QED
      BY <3>1 DEF Service!vars, Codes, Answers, Shown
  <2>2. ASSUME NEW q \in Queries, Seen(q) PROVE Service!Next
    <3>1. \A k \in Queries \ {q} : call'[k] = call[k]
      BY <2>2 DEF Seen
    <3>2. Codes' = [Codes EXCEPT ![q] = Shown(call'[q])] /\ Codes[q] = Shown(call[q])
      BY <3>1 DEF Codes
    <3>3. Answers' = [Answers EXCEPT ![q] = IF call'[q].code = "answer" THEN call'[q].got ELSE None]
      BY <3>1 DEF Answers
    <3>4. call[q].code # "answer" => Answers[q] = None
      BY DEF Answers
    <3>6. CASE Shown(call[q]) = "none"
      <4>1. Shown(call'[q]) \in {"pending", "internal_error"} /\ Answers' = Answers
        BY <2>2, <3>3, <3>4, <3>6 DEF Seen, Moves, Answers
      <4>2. Service!Submit(q)
        <5>1. Codes[q] = "none" /\ \E c \in {"pending", "internal_error"} : Codes' = [Codes EXCEPT ![q] = c]
          BY <3>2, <3>6, <4>1
        <5> QED
          BY <4>1, <5>1 DEF Service!Submit, Codes, Answers, Shown
      <4> QED
        BY <4>2 DEF Service!Next
    <3>7. CASE Shown(call[q]) = "pending" /\ Shown(call'[q]) = "success"
      <4>1. call'[q].code = "answer" /\ call'[q].got = q
        BY <2>2, <3>7, SMT DEF Seen, Moves
      <4>2. Codes[q] = "pending" /\ Codes' = [Codes EXCEPT ![q] = "success"] /\ Answers' = [Answers EXCEPT ![q] = q]
        BY <3>2, <3>3, <3>7, <4>1
      <4>3. Service!Answer(q)
        BY <4>2 DEF Service!Answer, Codes, Answers, Shown
      <4> QED
        BY <4>3 DEF Service!Next
    <3>8. CASE Shown(call[q]) = "pending" /\ Shown(call'[q]) # "success"
      <4>1. Shown(call'[q]) = "network_error" /\ call'[q].code # "answer" /\ call[q].code # "answer"
        BY <2>2, <3>8, SMT DEF Seen, Moves
      <4>2. Answers' = Answers
        BY <3>1, <4>1 DEF Answers
      <4>3. Codes' = [k \in Queries |-> IF k \in {q} THEN "network_error" ELSE Codes[k]]
        BY <3>1, <4>1 DEF Codes
      <4>4. \A k \in {q} : Codes[k] = "pending"
        BY <3>2, <3>8
      <4>5. Service!Fail({q})
        BY <4>2, <4>3, <4>4 DEF Service!Fail, Codes, Answers, Shown
      <4>6. {q} \in SUBSET Queries
        OBVIOUS
      <4> QED
        BY <4>5, <4>6 DEF Service!Next
    <3> QED
      BY <2>2, <3>6, <3>7, <3>8 DEF Seen, Moves
  <2> QED
    BY <2>1, <2>2
<1> SUFFICES ASSUME Base, AnswersRight, [Next]_vars PROVE AnswersRight' /\ [Service!Next]_(Service!vars)
  OBVIOUS
<1>1. CASE Next
  <2>1. NotSeen \/ \E q \in Queries : Seen(q)
    BY <1>1, <1>NextShown
  <2>2. ASSUME NEW q \in Queries PROVE Right(call'[q], q)
    BY <2>1 DEF NotSeen, Unseen, Seen, Moves, AnswersRight
  <2>3. AnswersRight'
    <3>1. \A q \in Queries : (Asked(q) \/ (\E i \in Nets : InNet(i, q)) \/ q \in spawned)' => Submitted(call'[q])
      BY <1>1, <1>NextSubmitted
    <3>2. \A j \in Jobs : resp'[j].st = "stream" => resp'[j].of = j
      BY <1>1, <1>NextStreams
    <3> QED
      BY <2>2, <3>1, <3>2 DEF AnswersRight
  <2> QED
    BY <2>1, <2>3, <1>NextService
<1>2. CASE UNCHANGED vars
  <2>1. UNCHANGED <<call, cmds, net, resp, spawned>>
    BY <1>2 DEF vars
  <2>2. AnswersRight'
    BY <2>1 DEF AnswersRight, Asked, InNet
  <2>3. UNCHANGED Service!vars
    BY <2>1 DEF Service!vars
  <2> QED
    BY <2>2, <2>3
<1> QED
  BY <1>1, <1>2

\* doh_query(), the dispatcher, the networks and the connections together are the query
\* service: a call gets one result, and an answer it gets is the answer to its own query,
\* whichever networks and connections came and went meanwhile.
THEOREM DohImplementsService == Spec => ImplementsService
<1>1. Init => Base /\ AnswersRight /\ Service!Init
  BY InitType, InitFits, InitAnswers DEF Base
<1> QED
  BY <1>1, NextBase, NextAnswers, PTL DEF Spec, ImplementsService, Service!Spec

----------------------------------------------------------------------------
(* The connections                                                          *)

\* A probe that is in a channel once is gone from it when it is taken out, and a probe that
\* is not in the channel is there once when it is put in.
LEMMA ChannelOnce ==
    ASSUME NEW T, NEW S, NEW s \in Seq(T), Once(s, S)
    PROVE  /\ s # <<>> => Once(Tail(s), S) /\ (Head(s) \in S => Head(s) \notin Range(Tail(s)))
           /\ \A x : (x \in S => x \notin Range(s)) => Once(Append(s, x), S)
<1>1. ASSUME s # <<>> PROVE Once(Tail(s), S) /\ (Head(s) \in S => Head(s) \notin Range(Tail(s)))
  <2>1. /\ Len(s) \in Nat \ {0} /\ DOMAIN s = 1..Len(s) /\ DOMAIN Tail(s) = 1..(Len(s) - 1) /\ Head(s) = s[1]
        /\ \A i \in 1..(Len(s) - 1) : Tail(s)[i] = s[i + 1]
    BY <1>1, SMT
  <2>2. Once(Tail(s), S)
    <3> SUFFICES ASSUME NEW m \in 1..(Len(s) - 1), NEW n \in 1..(Len(s) - 1),
                        Tail(s)[m] = Tail(s)[n], Tail(s)[m] \in S
                 PROVE  m = n
      BY <2>1 DEF Once
    <3>1. m + 1 \in 1..Len(s) /\ n + 1 \in 1..Len(s)
      BY <2>1, SMT
    <3>2. s[m + 1] = s[n + 1] /\ s[m + 1] \in S
      BY <2>1
    <3>3. m + 1 = n + 1
      BY <2>1, <3>1, <3>2 DEF Once
    <3> QED
      BY <3>3, SMT
  <2>3. ASSUME Head(s) \in S, Head(s) \in Range(Tail(s)) PROVE FALSE
    <3>1. PICK n \in 1..(Len(s) - 1) : s[1] = s[n + 1]
      BY <2>1, <2>3 DEF Range
    <3>2. 1 \in 1..Len(s) /\ n + 1 \in 1..Len(s) /\ n + 1 # 1
      BY <2>1, SMT
    <3>3. \A m, k \in 1..Len(s) : s[m] = s[k] /\ s[m] \in S => m = k
      BY <2>1 DEF Once
    <3>4. s[1] \in S
      BY <2>1, <2>3
    <3>5. 1 = n + 1
      BY <3>1, <3>2, <3>3, <3>4
    <3> QED
      BY <3>2, <3>5
  <2> QED
    BY <2>2, <2>3
<1>2. ASSUME NEW x, x \in S => x \notin Range(s) PROVE Once(Append(s, x), S)
  <2>1. /\ Len(s) \in Nat /\ DOMAIN s = 1..Len(s) /\ DOMAIN Append(s, x) = 1..(Len(s) + 1)
        /\ \A i \in 1..Len(s) : Append(s, x)[i] = s[i]
        /\ Append(s, x)[Len(s) + 1] = x
    BY SMT
  <2>2. \A m \in 1..(Len(s) + 1) : m \in 1..Len(s) \/ m = Len(s) + 1
    BY <2>1, SMT
  <2>3. \A m \in 1..Len(s) : s[m] \in Range(s)
    BY <2>1 DEF Range
  <2> SUFFICES ASSUME NEW m \in 1..(Len(s) + 1), NEW n \in 1..(Len(s) + 1),
                      Append(s, x)[m] = Append(s, x)[n], Append(s, x)[m] \in S
               PROVE  m = n
    BY <2>1 DEF Once
  <2>4. CASE m \in 1..Len(s) /\ n \in 1..Len(s)
    BY <2>1, <2>4 DEF Once
  <2>5. CASE m = Len(s) + 1 \/ n = Len(s) + 1
    BY <1>2, <2>1, <2>2, <2>3, <2>5
  <2> QED
    BY <2>2, <2>4, <2>5
<1> QED
  BY <1>1, <1>2

\* What a connection keeps when its driver takes a step: the requests it no longer has are
\* answered or dropped, and no probe is then in two places.
Keeps(c, d) ==
    /\ d.phase # "none" /\ d.tx = conn[c].tx
    /\ d.info = conn[c].info \/ (~d.tx /\ Holds(d) = {})
    /\ d.phase = "gone" => Holds(d) = {}
    /\ Holds(d) \subseteq Holds(conn[c])
    /\ \A j \in Holds(conn[c]) \ Holds(d) : resp'[j] # Pending
    /\ Tidy(conn[c]) => Tidy(d) /\ \A p \in Probes \cap Holds(d) : resp'[p] = resp[p]

\* A driver that returns has nothing any more.
LEMMA GoneKeeps ==
    ASSUME Base, NEW c \in Conns, NEW val, NEW news, Gone(c, val, news), conn[c].phase \in {"quic", "h3"}
    PROVE  \E d : conn' = [conn EXCEPT ![c] = d] /\ Keeps(c, d)
<1>0. /\ conn[c] \in ConnType /\ None \notin Jobs /\ resp \in [Jobs -> RespType] /\ Range(<<>>) = {}
      /\ Holds(conn[c]) \subseteq Jobs
  <2>1. Range(<<>>) = {}
    BY SMT DEF Range
  <2>2. conn[c] \in ConnType /\ None \notin Jobs /\ resp \in [Jobs -> RespType]
    BY NamesAssumption DEF Base, TypeOK
  <2>3. conn[c].rq \in Seq(Jobs) /\ conn[c].sent \subseteq Jobs /\ conn[c].buf \in Jobs \cup {None}
    BY <2>2 DEF ConnType
  <2>4. Range(conn[c].rq) \subseteq Jobs
    BY <2>3, SMT DEF Range
  <2> QED
    BY <2>1, <2>2, <2>3, <2>4 DEF Holds
<1>1. PICK d : /\ conn' = [conn EXCEPT ![c] = d]
               /\ IF ~conn[c].tx THEN d = Buried
                  ELSE d = [Buried EXCEPT !.tx = TRUE, !.info = conn[c].info, !.val = val, !.news = news]
  BY DEF Gone
<1>2. /\ d.phase = "gone" /\ d.tx = conn[c].tx /\ (conn[c].tx => d.info = conn[c].info)
      /\ d.rq = <<>> /\ d.sent = {} /\ d.buf = None
  <2>1. CASE ~conn[c].tx
    <3>1. conn[c].tx = FALSE
      BY <1>0, <2>1, SMT DEF ConnType
    <3> QED
      BY <1>1, <2>1, <3>1 DEF Buried, NoConn
  <2>2. CASE conn[c].tx
    <3>1. conn[c].tx = TRUE
      BY <1>0, <2>2, SMT DEF ConnType
    <3>2. d = [Buried EXCEPT !.tx = TRUE, !.info = conn[c].info, !.val = val, !.news = news]
      BY <1>1, <2>2
    <3> QED
      BY <3>1, <3>2 DEF Buried, NoConn
  <2> QED
    BY <2>1, <2>2
<1>3. Holds(d) = {} /\ Tidy(d)
  <2>1. Range(d.rq) = {} /\ DOMAIN d.rq = {} /\ None \notin Probes
    BY <1>0, <1>2, SMT DEF Jobs
  <2> QED
    BY <1>2, <2>1 DEF Holds, Tidy, Once
<1>4. \A j \in Holds(conn[c]) : resp'[j] # Pending
  <2>1. resp' = Dropped(Holds(conn[c])) /\ [Pending EXCEPT !.st = "dropped"] # Pending
    <3>1. [Pending EXCEPT !.st = "dropped"].st # Pending.st
      BY SMT DEF Pending
    <3> QED
      BY <3>1 DEF Gone, Has, Holds
  <2> QED
    BY <1>0, <2>1 DEF Dropped
<1>5. Keeps(c, d)
  <2>1. d.info = conn[c].info \/ (~d.tx /\ Holds(d) = {})
    BY <1>2, <1>3
  <2>2. d.phase # "none"
    BY <1>2, SMT
  <2> QED
    BY <1>2, <1>3, <1>4, <2>1, <2>2 DEF Keeps
<1> QED
  BY <1>1, <1>5

\* A stream sender that is dropped is not pending; the others are left alone.
LEMMA DroppedParts ==
    ASSUME Base, NEW js, resp' = Dropped(js), NEW j \in Jobs
    PROVE  (j \in js => resp'[j] # Pending) /\ (j \notin js => resp'[j] = resp[j])
<1>1. [Pending EXCEPT !.st = "dropped"] # Pending
  <2>1. [Pending EXCEPT !.st = "dropped"].st # Pending.st
    BY SMT DEF Pending
  <2> QED
    BY <2>1
<1> QED
  BY <1>1 DEF Dropped

\* What a connection's record is made of.
LEMMA ConnParts ==
    ASSUME NEW r \in ConnType
    PROVE  /\ r.rq \in Seq(Jobs) /\ Range(r.rq) \subseteq Jobs /\ r.sent \subseteq Jobs /\ r.buf \in Jobs \cup {None}
           /\ Holds(r) \subseteq Jobs /\ None \notin Jobs /\ None \notin Probes /\ None \notin Queries
<1>1. r.rq \in Seq(Jobs) /\ r.sent \subseteq Jobs /\ r.buf \in Jobs \cup {None}
  BY DEF ConnType
<1>2. Range(r.rq) \subseteq Jobs
  BY <1>1, SMT DEF Range
<1> QED
  BY <1>1, <1>2, NamesAssumption DEF Holds, Jobs

\* handle_request() drops the request, sends it or keeps it in the buffer.
LEMMA RequestKeeps ==
    ASSUME Base, NEW c \in Conns, InH3(c), NEW r \in ConnType, NEW j \in Jobs,
           r # conn[c], r.buf = None,
           r.phase = conn[c].phase, r.tx = conn[c].tx, r.info = conn[c].info,
           Holds(conn[c]) = Holds(r) \cup {j},
           Tidy(conn[c]) => Tidy(r) /\ (j \in Probes => j \notin Holds(r)),
           handle_request([conn EXCEPT ![c] = r], j)
    PROVE  \E d : conn' = [conn EXCEPT ![c] = d] /\ Keeps(c, d)
<1>0. conn \in [Conns -> ConnType] /\ conn[c] \in ConnType /\ resp \in [Jobs -> RespType]
  BY DEF Base, TypeOK
<1>1. r.phase = "h3" /\ r.phase # "none" /\ r.phase # "gone"
  BY SMT DEF InH3
<1>2. CASE conn' = [conn EXCEPT ![c] = r] /\ resp' = Dropped({j})
  <2>1. Keeps(c, r)
    <3>1. \A k \in Holds(conn[c]) \ Holds(r) : resp'[k] # Pending
      BY <1>2, DroppedParts
    <3>2. ASSUME Tidy(conn[c]) PROVE Tidy(r) /\ \A p \in Probes \cap Holds(r) : resp'[p] = resp[p]
      <4>1. \A p \in Probes \cap Holds(r) : p \notin {j} /\ p \in Jobs
        BY <3>2 DEF Jobs
      <4> QED
        BY <1>2, <3>2, <4>1, DroppedParts
    <3> QED
      BY <1>1, <3>1, <3>2 DEF Keeps
  <2> QED
    BY <1>2, <2>1
<1>3. ASSUME NEW d, d \in {[r EXCEPT !.sent = r.sent \cup {j}], [r EXCEPT !.buf = j]}, UNCHANGED resp
      PROVE  Keeps(c, d)
  <2>1. /\ d.phase = r.phase /\ d.tx = r.tx /\ d.info = r.info /\ d.rq = r.rq
        /\ \/ d.sent = r.sent \cup {j} /\ d.buf = None
           \/ d.sent = r.sent /\ d.buf = j
    BY <1>3 DEF ConnType
  <2>2. j # None
    BY <1>0, ConnParts
  <2>3. Holds(d) = Holds(conn[c])
    BY <2>1, <2>2 DEF Holds
  <2>4. ASSUME Tidy(conn[c]) PROVE Tidy(d)
    <3>1. Tidy(r) /\ (j \in Probes => j \notin Range(r.rq) /\ j \notin r.sent) /\ None \notin Probes
      BY <2>2, <2>4, ConnParts DEF Holds
    <3>2. CASE d.sent = r.sent \cup {j} /\ d.buf = None
      BY <2>1, <3>1, <3>2 DEF Tidy
    <3>3. CASE d.sent = r.sent /\ d.buf = j
      BY <2>1, <3>1, <3>3 DEF Tidy
    <3> QED
      BY <2>1, <3>2, <3>3
  <2> QED
    BY <1>1, <1>3, <2>1, <2>3, <2>4 DEF Keeps
<1>4. ASSUME NEW k \in Conns, [conn EXCEPT ![c] = r][k] # conn[k] PROVE k = c
  BY <1>0, <1>4
<1>5. [conn EXCEPT ![c] = r] \in [Conns -> ConnType] /\ [conn EXCEPT ![c] = r][c] = r
  BY <1>0
<1>6. \A d : [[conn EXCEPT ![c] = r] EXCEPT ![c] = d] = [conn EXCEPT ![c] = d]
  BY <1>0
<1>7. CASE /\ UNCHANGED resp
           /\ \/ conn' = [[conn EXCEPT ![c] = r] EXCEPT ![c].sent = @ \cup {j}]
              \/ conn' = [[conn EXCEPT ![c] = r] EXCEPT ![c].buf = j]
  <2>1. \E d \in {[r EXCEPT !.sent = r.sent \cup {j}], [r EXCEPT !.buf = j]} : conn' = [conn EXCEPT ![c] = d]
    BY <1>5, <1>6, <1>7
  <2> QED
    BY <1>3, <1>7, <2>1
<1> QED
  BY <1>2, <1>4, <1>7 DEF handle_request

\* A connection's step changes its own connection only, and keeps what it should.
LEMMA ConnKeeps ==
    ASSUME Base, NEW c \in Conns, ConnDriver(c) \/ Peer(c)
    PROVE  /\ conn[c].phase \in {"quic", "h3"}
           /\ \E d : conn' = [conn EXCEPT ![c] = d] /\ Keeps(c, d)
<1> DEFINE Kept == conn[c].phase \in {"quic", "h3"} /\ \E d : conn' = [conn EXCEPT ![c] = d] /\ Keeps(c, d)
<1>0. /\ conn \in [Conns -> ConnType] /\ conn[c] \in ConnType /\ resp \in [Jobs -> RespType]
      /\ Range(<<>>) = {} /\ DOMAIN <<>> = {}
  <2>1. Range(<<>>) = {} /\ DOMAIN <<>> = {}
    BY SMT DEF Range
  <2> QED
    BY <2>1 DEF Base, TypeOK
<1>1. /\ conn[c].rq \in Seq(Jobs) /\ Range(conn[c].rq) \subseteq Jobs /\ conn[c].sent \subseteq Jobs
      /\ conn[c].buf \in Jobs \cup {None} /\ Holds(conn[c]) \subseteq Jobs
      /\ None \notin Jobs /\ None \notin Probes
  BY <1>0, ConnParts
<1>2. ASSUME NEW val, NEW news, Gone(c, val, news), conn[c].phase \in {"quic", "h3"} PROVE Kept
  BY <1>2, GoneKeeps
<1>3. ASSUME NEW val, NEW news, Close(c, val, news), conn[c].phase \in {"quic", "h3"} PROVE Kept
  <2>1. PICK d : d = [conn[c] EXCEPT !.closing = TRUE, !.rq = <<>>, !.val = val, !.news = news]
    OBVIOUS
  <2>2. /\ d.phase = conn[c].phase /\ d.tx = conn[c].tx /\ d.info = conn[c].info
        /\ d.rq = <<>> /\ d.sent = conn[c].sent /\ d.buf = conn[c].buf
    BY <1>0, <2>1 DEF ConnType
  <2>3. conn' = [conn EXCEPT ![c] = d] /\ resp' = Dropped(Range(conn[c].rq))
    BY <1>3, <2>1 DEF Close
  <2>4. Holds(d) \subseteq Holds(conn[c]) /\ Holds(conn[c]) \ Holds(d) \subseteq Range(conn[c].rq)
    BY <1>0, <2>2 DEF Holds
  <2>5. \A j \in Holds(conn[c]) \ Holds(d) : resp'[j] # Pending
    BY <1>1, <2>3, <2>4, DroppedParts
  <2>6. ASSUME Tidy(conn[c]) PROVE Tidy(d) /\ \A p \in Probes \cap Holds(d) : resp'[p] = resp[p]
    <3>1. Tidy(d)
      BY <1>0, <2>2, <2>6 DEF Tidy, Once
    <3>2. \A p \in Probes \cap Holds(d) : p \in Jobs /\ p \notin Range(conn[c].rq)
      BY <1>0, <2>2, <2>6 DEF Tidy, Holds, Jobs
    <3> QED
      BY <2>3, <3>1, <3>2, DroppedParts
  <2>7. d.phase # "none" /\ d.phase # "gone"
    BY <1>3, <2>2, SMT
  <2>8. Keeps(c, d)
    BY <2>2, <2>4, <2>5, <2>6, <2>7 DEF Keeps
  <2> QED
    BY <1>3, <2>3, <2>8
<1>4. ASSUME Established(c) PROVE Kept
  <2>1. PICK d : d = [conn[c] EXCEPT !.phase = "h3", !.val = "H3", !.news = TRUE]
    OBVIOUS
  <2>2. /\ d.phase = "h3" /\ d.tx = conn[c].tx /\ d.info = conn[c].info
        /\ d.rq = conn[c].rq /\ d.sent = conn[c].sent /\ d.buf = conn[c].buf
    BY <1>0, <2>1 DEF ConnType
  <2>3. Holds(d) = Holds(conn[c]) /\ (Tidy(conn[c]) => Tidy(d))
    BY <2>2 DEF Holds, Tidy
  <2>4. Keeps(c, d)
    BY <1>4, <2>2, <2>3 DEF Keeps, Established
  <2> QED
    BY <1>4, <2>1, <2>4 DEF Established
<1>5. ASSUME H3_recv(c) PROVE Kept
  <2>1. PICK j, r : j = Head(conn[c].rq) /\ r = [conn[c] EXCEPT !.rq = Tail(conn[c].rq)]
    OBVIOUS
  <2>2. conn[c].rq # <<>> /\ conn[c].buf = None /\ InH3(c) /\ handle_request([conn EXCEPT ![c] = r], j)
    BY <1>5, <2>1 DEF H3_recv, ready
  <2>3. /\ j \in Jobs /\ Tail(conn[c].rq) \in Seq(Jobs) /\ Range(conn[c].rq) = {j} \cup Range(Tail(conn[c].rq))
        /\ Tail(conn[c].rq) # conn[c].rq
    <3>1. Len(Tail(conn[c].rq)) # Len(conn[c].rq)
      BY <1>1, <2>2, SMT
    <3> QED
      BY <1>1, <2>1, <2>2, <3>1, ChannelTypes, ChannelHolds
  <2>4. /\ r \in ConnType /\ r.rq = Tail(conn[c].rq) /\ r.buf = None /\ r.sent = conn[c].sent
        /\ r.phase = conn[c].phase /\ r.tx = conn[c].tx /\ r.info = conn[c].info
    BY <1>0, <2>1, <2>2, <2>3 DEF ConnType
  <2>5. r # conn[c]
    BY <2>3, <2>4
  <2>6. Holds(conn[c]) = Holds(r) \cup {j}
    BY <1>1, <2>2, <2>3, <2>4 DEF Holds
  <2>7. ASSUME Tidy(conn[c]) PROVE Tidy(r) /\ (j \in Probes => j \notin Holds(r))
    <3>1. Once(Tail(conn[c].rq), Probes) /\ (j \in Probes => j \notin Range(Tail(conn[c].rq)))
      BY <1>1, <2>1, <2>2, <2>7, ChannelOnce DEF Tidy
    <3> QED
      BY <1>1, <2>2, <2>3, <2>4, <2>7, <3>1 DEF Tidy, Holds
  <2> QED
    BY <2>2, <2>3, <2>4, <2>5, <2>6, <2>7, RequestKeeps DEF InH3
<1>6. ASSUME H3_resend(c) PROVE Kept
  <2>1. PICK j, r : j = conn[c].buf /\ r = [conn[c] EXCEPT !.buf = None]
    OBVIOUS
  <2>2. j \in Jobs /\ j # None /\ InH3(c) /\ handle_request([conn EXCEPT ![c] = r], j)
    BY <1>1, <1>6, <2>1 DEF H3_resend
  <2>3. /\ r \in ConnType /\ r.rq = conn[c].rq /\ r.buf = None /\ r.sent = conn[c].sent
        /\ r.phase = conn[c].phase /\ r.tx = conn[c].tx /\ r.info = conn[c].info
    BY <1>0, <2>1 DEF ConnType
  <2>4. r # conn[c]
    BY <2>1, <2>2, <2>3
  <2>5. Holds(conn[c]) = Holds(r) \cup {j}
    BY <2>1, <2>2, <2>3 DEF Holds
  <2>6. ASSUME Tidy(conn[c]) PROVE Tidy(r) /\ (j \in Probes => j \notin Holds(r))
    BY <1>1, <2>1, <2>2, <2>3, <2>6 DEF Tidy, Holds
  <2> QED
    BY <2>2, <2>3, <2>4, <2>5, <2>6, RequestKeeps DEF InH3
<1>7. ASSUME NEW j \in Jobs, respond(c, j) PROVE Kept
  <2>1. PICK d : d = [conn[c] EXCEPT !.sent = conn[c].sent \ {j}]
    OBVIOUS
  <2>2. /\ d.phase = conn[c].phase /\ d.tx = conn[c].tx /\ d.info = conn[c].info
        /\ d.rq = conn[c].rq /\ d.sent = conn[c].sent \ {j} /\ d.buf = conn[c].buf
    BY <1>0, <2>1 DEF ConnType
  <2>3. PICK st \in {"stream", "reset", "dropped"} : resp' = [resp EXCEPT ![j] = [st |-> st, of |-> j]]
    BY <1>7 DEF respond, answers
  <2>4. conn' = [conn EXCEPT ![c] = d] /\ conn[c].phase = "h3" /\ j \in conn[c].sent
    BY <1>7, <2>1 DEF respond, answers, InH3
  <2>5. resp'[j] # Pending /\ \A k \in Jobs \ {j} : resp'[k] = resp[k]
    <3>1. [st |-> st, of |-> j].st # Pending.st
      BY <2>3, SMT DEF Pending
    <3> QED
      BY <1>0, <2>3, <3>1
  <2>6. Holds(d) \subseteq Holds(conn[c]) /\ Holds(conn[c]) \ Holds(d) \subseteq {j}
    BY <2>2 DEF Holds
  <2>7. ASSUME Tidy(conn[c]) PROVE Tidy(d) /\ \A p \in Probes \cap Holds(d) : resp'[p] = resp[p]
    <3>1. Tidy(d)
      BY <2>2, <2>7 DEF Tidy
    <3>2. \A p \in Probes \cap Holds(d) : p \in Jobs /\ p # j
      BY <2>2, <2>4, <2>7 DEF Tidy, Holds, Jobs
    <3> QED
      BY <2>5, <3>1, <3>2
  <2>8. Keeps(c, d)
    <3>1. d.phase # "none" /\ d.phase # "gone"
      BY <2>2, <2>4, SMT
    <3>2. \A k \in Holds(conn[c]) \ Holds(d) : resp'[k] # Pending
      BY <2>5, <2>6
    <3> QED
      BY <2>2, <2>6, <2>7, <3>1, <3>2 DEF Keeps
  <2> QED
    BY <2>4, <2>8
<1> HIDE DEF Kept
<1>8. ConnDriver(c) => Kept
  BY <1>3, <1>5, <1>6 DEF ConnDriver, shutdown_unowned, shutdown, InH3
<1>9. Peer(c) => Kept
  BY <1>2, <1>3, <1>4, <1>7 DEF Peer, Broken, handle_closed, handle_draining, shutdown, InH3
<1> QED
  BY <1>8, <1>9 DEF Kept

\* What a network's step does with its connection: it is dropped at the end, replaced, left
\* as it is but for the news, or given a request.
Ends(i) == conn' = Disconnect(conn, net[i].conn) /\ net'[i].at = "ended" /\ UNCHANGED spawned
Reconnects(i) ==
    \E c \in NewConns : /\ conn' = Connect(Disconnect(conn, net[i].conn), c, net[i].info)
                        /\ net'[i].conn = c /\ UNCHANGED spawned
SameConn(r, d) ==
    d.phase = r.phase /\ d.tx = r.tx /\ d.info = r.info /\ d.rq = r.rq /\ d.sent = r.sent /\ d.buf = r.buf
Stays(i) ==
    /\ net'[i].conn = net[i].conn /\ UNCHANGED spawned
    /\ \E d : conn' = [conn EXCEPT ![net[i].conn] = d] /\ SameConn(conn[net[i].conn], d)
Requests(i) ==
    /\ Queued(i) /\ net'[i].conn = net[i].conn /\ net'[i].q = net[i].q
    /\ \/ net[i].job \in Queries /\ net'[i].job = None /\ spawned' = spawned \cup {net[i].job}
       \/ /\ net[i].job \in Probes /\ net'[i].job = net[i].job /\ UNCHANGED spawned
          /\ net[i].at = "p_query" /\ net'[i].at = "p_wait"

\* A network's step is one of these.
LEMMA DriverConn ==
    ASSUME Base, NetsConnected, NEW i \in Nets, NetDriver(i) \/ p_timeout(i)
    PROVE  Ends(i) \/ Reconnects(i) \/ Stays(i) \/ Requests(i)
<1> DEFINE OneOf == Ends(i) \/ Reconnects(i) \/ Stays(i) \/ Requests(i)
<1>0. /\ net \in [Nets -> NetType] /\ net[i] \in NetType /\ conn \in [Conns -> ConnType] /\ Fits(net[i])
      /\ net[i].conn \in Conns
  <2>1. Running(i)
    BY DriverEffect
  <2> QED
    BY <2>1 DEF Base, TypeOK, JobsFit, NetsConnected
<1>1. ASSUME NEW n, net' = [net EXCEPT ![i] = n], n.conn = net[i].conn, UNCHANGED <<conn, spawned>> PROVE OneOf
  <2>1. conn' = [conn EXCEPT ![net[i].conn] = conn[net[i].conn]]
    BY <1>0, <1>1
  <2>2. net'[i].conn = net[i].conn
    BY <1>0, <1>1
  <2> QED
    BY <1>1, <2>1, <2>2 DEF Stays, SameConn
<1>2. ASSUME EndNet(i), UNCHANGED spawned PROVE OneOf
  <2>1. net'[i].at = "ended"
    <3>1. net'[i] = Ended(net[i])
      BY <1>0, <1>2 DEF EndNet
    <3>2. Ended(net[i]).at = "ended"
      BY <1>0 DEF Ended, NetType
    <3> QED
      BY <3>1, <3>2
  <2> QED
    BY <1>2, <2>1 DEF Ends, EndNet
<1> HIDE DEF OneOf
<1>3. ASSUME QueryFailed(i) PROVE OneOf
  <2>1. NextCommand(net[i]).conn = net[i].conn
    BY <1>0 DEF NextCommand, NetType
  <2> QED
    BY <1>1, <1>3, <2>1 DEF QueryFailed
<1>4. ASSUME NEW status, Status(i, status, "report") PROVE OneOf
  <2>1. CASE /\ net' = [net EXCEPT ![i] = [net[i] EXCEPT !.status = status, !.at = "report"]]
             /\ UNCHANGED <<call, conn, probe>>
    <3>1. [net[i] EXCEPT !.status = status, !.at = "report"].conn = net[i].conn
      BY <1>0 DEF NetType
    <3> QED
      BY <1>1, <1>4, <2>1, <3>1 DEF Status
  <2> QED
    BY <1>2, <1>4, <2>1 DEF Status
<1>5. ASSUME recv(i) PROVE OneOf
  <2>1. PICK at, job : net' = [net EXCEPT ![i] = [[net[i] EXCEPT !.q = Tail(net[i].q), !.job = Head(net[i].q)] EXCEPT !.at = at]]
                       \/ net' = [net EXCEPT ![i] = [[net[i] EXCEPT !.q = Tail(net[i].q), !.job = Head(net[i].q)] EXCEPT !.job = job]]
    BY <1>5 DEF recv
  <2>2. /\ [[net[i] EXCEPT !.q = Tail(net[i].q), !.job = Head(net[i].q)] EXCEPT !.at = at].conn = net[i].conn
        /\ [[net[i] EXCEPT !.q = Tail(net[i].q), !.job = Head(net[i].q)] EXCEPT !.job = job].conn = net[i].conn
    BY <1>0 DEF NetType
  <2> QED
    BY <1>1, <1>5, <2>1, <2>2 DEF recv
<1>6. ASSUME recv_none(i) PROVE OneOf
  BY <1>2, <1>6 DEF recv_none
<1>7. ASSUME reconnect(i) PROVE OneOf
  <2>1. ASSUME NEW c \in NewConns, UNCHANGED spawned,
               conn' = Connect(Disconnect(conn, net[i].conn), c, net[i].info),
               \/ net' = [net EXCEPT ![i] = [net[i] EXCEPT !.at = "q_send", !.conn = c]]
               \/ net' = [net EXCEPT ![i] = [net[i] EXCEPT !.at = "p_query", !.conn = c, !.status = "Unprobed"]]
        PROVE  OneOf
    <3>1. /\ [net[i] EXCEPT !.at = "q_send", !.conn = c].conn = c
          /\ [net[i] EXCEPT !.at = "p_query", !.conn = c, !.status = "Unprobed"].conn = c
      BY <1>0 DEF NetType
    <3>2. net'[i].conn = c
      BY <1>0, <2>1, <3>1
    <3> QED
      BY <2>1, <3>2 DEF OneOf, Reconnects
  <2> QED
    BY <1>2, <1>7, <2>1 DEF reconnect
<1>8. ASSUME reconnect_fails(i) PROVE OneOf
  <2>1. CASE /\ net' = [net EXCEPT ![i] = [NextCommand(net[i]) EXCEPT !.status = "Failed"]]
             /\ UNCHANGED <<call, conn>> /\ UNCHANGED spawned
    <3>1. [NextCommand(net[i]) EXCEPT !.status = "Failed"].conn = net[i].conn
      BY <1>0 DEF NextCommand, NetType
    <3> QED
      BY <1>1, <2>1, <3>1
  <2> QED
    BY <1>2, <1>3, <1>8, <2>1 DEF reconnect_fails
<1>9. ASSUME p_query(i) PROVE OneOf
  <2>1. CASE Queued(i) /\ Goto(i, "p_wait") /\ UNCHANGED spawned
    <3>1. PICK n : n = [net[i] EXCEPT !.at = "p_wait"]
      OBVIOUS
    <3>2. n.at = "p_wait" /\ n.conn = net[i].conn /\ n.q = net[i].q /\ n.job = net[i].job
      BY <1>0, <3>1 DEF NetType
    <3>3. net'[i] = n
      BY <1>0, <2>1, <3>1 DEF Goto
    <3>4. net[i].job \in Probes /\ net[i].at = "p_query"
      BY <1>0, <1>9, SMT DEF p_query, At, Fits
    <3> QED
      BY <2>1, <3>2, <3>3, <3>4 DEF OneOf, Requests
  <2> QED
    BY <1>4, <1>9, <2>1 DEF p_query
<1>10. ASSUME p_answered(i) \/ p_timeout(i) PROVE OneOf
  BY <1>4, <1>10 DEF p_answered, p_timeout
<1>11. ASSUME report(i) PROVE OneOf
  <2>1. [net[i] EXCEPT !.at = "recv", !.job = None].conn = net[i].conn
    BY <1>0 DEF NetType
  <2> QED
    BY <1>1, <1>11, <2>1 DEF report
<1>12. ASSUME wait_for_live(i) PROVE OneOf
  <2>1. PICK at : net' = [net EXCEPT ![i] = [net[i] EXCEPT !.at = at]]
    BY <1>12 DEF wait_for_live, Goto
  <2>2. [net[i] EXCEPT !.at = at].conn = net[i].conn
    BY <1>0 DEF NetType
  <2>3. net'[i].conn = net[i].conn
    BY <1>0, <2>1, <2>2
  <2>4. PICK d : d = [conn[net[i].conn] EXCEPT !.news = FALSE]
    OBVIOUS
  <2>5. SameConn(conn[net[i].conn], d)
    <3>1. conn[net[i].conn] \in ConnType
      BY <1>0
    <3> QED
      BY <2>4, <3>1 DEF SameConn, ConnType
  <2>6. conn' = [conn EXCEPT ![net[i].conn] = d] /\ UNCHANGED spawned
    BY <1>12, <2>4 DEF wait_for_live
  <2> QED
    BY <2>3, <2>5, <2>6 DEF OneOf, Stays
<1>13. ASSUME q_send(i) PROVE OneOf
  <2>1. CASE /\ Queued(i) /\ spawned' = spawned \cup {net[i].job}
             /\ net' = [net EXCEPT ![i] = [net[i] EXCEPT !.at = "recv", !.job = None]]
    <3>1. PICK n : n = [net[i] EXCEPT !.at = "recv", !.job = None]
      OBVIOUS
    <3>2. n.conn = net[i].conn /\ n.q = net[i].q /\ n.job = None
      BY <1>0, <3>1 DEF NetType
    <3>3. net'[i] = n
      BY <1>0, <2>1, <3>1
    <3>4. net[i].job \in Queries
      BY <1>0, <1>13, SMT DEF q_send, At, Fits
    <3> QED
      BY <2>1, <3>2, <3>3, <3>4 DEF OneOf, Requests
  <2> QED
    BY <1>3, <1>13, <2>1 DEF q_send
<1>14. OneOf
  BY <1>5, <1>6, <1>7, <1>8, <1>9, <1>10, <1>11, <1>12, <1>13 DEF NetDriver
<1> QED
  BY <1>14 DEF OneOf

\* A connection that is not there has nothing.
Empty == \A c \in Conns : conn[c].phase \in {"none", "gone"} => Holds(conn[c]) = {}

\* A connection that is dropped keeps its requests until its driver is done with them.
Disconnected(cn, c) ==
    /\ cn \in [Conns -> ConnType] /\ \A k \in Conns \ {c} : cn[k] = conn[k]
    /\ cn[c].phase # "none" /\ Holds(cn[c]) = Holds(conn[c]) /\ (cn[c].phase = "gone" => Holds(cn[c]) = {})
    /\ cn[c].info = conn[c].info \/ Holds(cn[c]) = {}
    /\ Tidy(conn[c]) => Tidy(cn[c])

\* Disconnect() does that.
LEMMA DisconnectParts ==
    ASSUME conn \in [Conns -> ConnType], Empty, NEW c \in Conns, conn[c].phase # "none"
    PROVE  Disconnected(Disconnect(conn, c), c)
<1>0. PICK cn : cn = Disconnect(conn, c)
  OBVIOUS
<1> SUFFICES Disconnected(cn, c)
  BY <1>0
<1>1. Buried.phase = "gone" /\ Buried.rq = <<>> /\ Buried.sent = {} /\ Buried.buf = None
  BY SMT DEF Buried, NoConn
<1>2. Holds(Buried) = {} /\ Tidy(Buried) /\ Buried.phase # "none"
  <2>1. Range(<<>>) = {} /\ DOMAIN <<>> = {} /\ "gone" # "none"
    BY SMT DEF Range
  <2>2. None \notin Probes
    BY NamesAssumption DEF Jobs
  <2> QED
    BY <1>1, <2>1, <2>2 DEF Holds, Tidy, Once
<1>3. \A k \in Conns \ {c} : cn[k] = conn[k]
  BY <1>0 DEF Disconnect
<1>4. cn[c] = IF conn[c].phase = "gone" \/ Has(c) = {} THEN Buried ELSE [conn[c] EXCEPT !.tx = FALSE]
  BY <1>0 DEF Disconnect
<1>5. cn \in [Conns -> ConnType]
  <2>1. None \in Servers \cup {None}
    OBVIOUS
  <2> QED
    BY <1>0, <2>1, ConnectTypes
<1>6. CASE conn[c].phase = "gone" \/ Has(c) = {}
  <2>1. cn[c] = Buried /\ Holds(conn[c]) = {}
    BY <1>4, <1>6 DEF Empty, Has, Holds
  <2> QED
    BY <1>2, <1>3, <1>5, <2>1 DEF Disconnected
<1>7. CASE ~(conn[c].phase = "gone" \/ Has(c) = {})
  <2>1. PICK d : d = [conn[c] EXCEPT !.tx = FALSE] /\ cn[c] = d
    BY <1>4, <1>7
  <2>2. d.phase = conn[c].phase /\ d.info = conn[c].info /\ d.rq = conn[c].rq /\ d.sent = conn[c].sent /\ d.buf = conn[c].buf
    <3>1. conn[c] \in ConnType /\ d = [conn[c] EXCEPT !.tx = FALSE]
      BY <2>1
    <3> QED
      BY <3>1 DEF ConnType
  <2>3. Holds(d) = Holds(conn[c]) /\ (Tidy(conn[c]) => Tidy(d))
    BY <2>2 DEF Holds, Tidy
  <2>4. d.phase # "gone" /\ d.phase # "none"
    BY <1>7, <2>2
  <2> QED
    BY <1>3, <1>5, <2>1, <2>2, <2>3, <2>4 DEF Disconnected
<1> QED
  BY <1>6, <1>7

\* A new connection has nothing yet.
Connected(dn, cn, c, info) ==
    /\ \A k \in Conns \ {c} : dn[k] = cn[k]
    /\ dn[c].phase = "quic" /\ dn[c].tx /\ dn[c].info = info /\ Holds(dn[c]) = {} /\ Tidy(dn[c])

\* Connect() does that.
LEMMA ConnectParts ==
    ASSUME NEW cn \in [Conns -> ConnType], NEW c \in Conns, NEW info
    PROVE  Connected(Connect(cn, c, info), cn, c, info)
<1>0. PICK dn : dn = Connect(cn, c, info)
  OBVIOUS
<1>1. PICK d : d = [NoConn EXCEPT !.info = info, !.tx = TRUE, !.phase = "quic"]
  OBVIOUS
<1>2. d.phase = "quic" /\ d.tx /\ d.info = info /\ d.rq = <<>> /\ d.sent = {} /\ d.buf = None
  BY <1>1, SMT DEF NoConn
<1>3. Holds(d) = {} /\ Tidy(d)
  <2>1. Range(<<>>) = {} /\ DOMAIN <<>> = {}
    BY SMT DEF Range
  <2>2. None \notin Probes
    BY NamesAssumption DEF Jobs
  <2> QED
    BY <1>2, <2>1, <2>2 DEF Holds, Tidy, Once
<1>4. dn[c] = d /\ \A k \in Conns \ {c} : dn[k] = cn[k]
  BY <1>0, <1>1 DEF Connect
<1> QED
  BY <1>0, <1>2, <1>3, <1>4 DEF Connected

\* A connection that is given a request has it.
LEMMA QueuedParts ==
    ASSUME conn \in [Conns -> ConnType], NEW i, Queued(i), NEW c \in Conns, c = net[i].conn, net[i].job \in Jobs
    PROVE  /\ \A k \in Conns \ {c} : conn'[k] = conn[k]
           /\ conn'[c].phase = conn[c].phase /\ conn[c].phase # "gone" /\ conn'[c].tx = conn[c].tx
           /\ conn'[c].info = conn[c].info
           /\ Holds(conn'[c]) = Holds(conn[c]) \cup {net[i].job}
           /\ Tidy(conn[c]) /\ (net[i].job \in Probes => net[i].job \notin Holds(conn[c])) => Tidy(conn'[c])
<1>1. PICK j, d : j = net[i].job /\ d = [conn[c] EXCEPT !.rq = Append(conn[c].rq, j)]
  OBVIOUS
<1>2. conn' = [conn EXCEPT ![c] = d] /\ conn[c].phase # "gone"
  BY <1>1 DEF Queued, Closed
<1>3. d.phase = conn[c].phase /\ d.tx = conn[c].tx /\ d.info = conn[c].info /\ d.sent = conn[c].sent
      /\ d.buf = conn[c].buf /\ d.rq = Append(conn[c].rq, j)
  <2>1. conn[c] \in ConnType
    OBVIOUS
  <2> QED
    BY <1>1, <2>1 DEF ConnType
<1>4. conn[c].rq \in Seq(Jobs) /\ None \notin Jobs
  BY ConnParts
<1>5. Range(Append(conn[c].rq, j)) = Range(conn[c].rq) \cup {j}
  BY <1>4, ChannelHolds
<1>6. Holds(d) = Holds(conn[c]) \cup {j}
  BY <1>1, <1>3, <1>4, <1>5 DEF Holds
<1>7. ASSUME Tidy(conn[c]), j \in Probes => j \notin Holds(conn[c]) PROVE Tidy(d)
  <2>1. j \in Probes => j \notin Range(conn[c].rq) /\ j \notin conn[c].sent /\ j # conn[c].buf
    BY <1>1, <1>4, <1>7 DEF Holds, Jobs
  <2>2. Once(Append(conn[c].rq, j), Probes)
    BY <1>1, <1>4, <1>7, <2>1, ChannelOnce DEF Tidy
  <2> QED
    BY <1>3, <1>5, <1>7, <2>1, <2>2 DEF Tidy
<1>8. conn'[c] = d /\ \A k \in Conns \ {c} : conn'[k] = conn[k]
  BY <1>2
<1> QED
  BY <1>1, <1>2, <1>3, <1>6, <1>7, <1>8

\* A network's connection is there, owned, and to the network's server.
Linked(i) ==
    /\ net[i].conn \in Conns /\ conn[net[i].conn].phase # "none" /\ conn[net[i].conn].tx
    /\ conn[net[i].conn].info = net[i].info

\* A step that changes one network and leaves the connections of the others alone keeps
\* every running network connected.
LEMMA OneNetConnected ==
    ASSUME NetsConnected, NEW i \in Nets,
           \A k \in Nets \ {i} : net'[k].at = net[k].at /\ net'[k].conn = net[k].conn /\ net'[k].info = net[k].info,
           \A k \in Nets \ {i} : Running(k) => conn'[net[k].conn] = conn[net[k].conn],
           Running(i)' => Linked(i)' /\ \A k \in Nets \ {i} : Running(k) => net[k].conn # net'[i].conn,
           Empty'
    PROVE  NetsConnected'
<1>1. ASSUME NEW k \in Nets \ {i}, Running(k)' PROVE Running(k) /\ Linked(k)'
  <2>1. Running(k)
    BY <1>1 DEF Running
  <2>2. Linked(k)
    BY <2>1 DEF NetsConnected, Linked
  <2>3. net'[k].conn = net[k].conn /\ net'[k].info = net[k].info /\ conn'[net[k].conn] = conn[net[k].conn]
    BY <2>1
  <2> QED
    BY <2>1, <2>2, <2>3 DEF Linked
<1>2. \A k \in Nets : Running(k)' => Linked(k)'
  BY <1>1
<1>3. ASSUME NEW k \in Nets, NEW m \in Nets, Running(k)', Running(m)', net'[k].conn = net'[m].conn PROVE k = m
  <2>1. CASE k = i \/ m = i
    BY <1>1, <1>3, <2>1
  <2>2. CASE k # i /\ m # i
    <3>1. Running(k) /\ Running(m) /\ net[k].conn = net[m].conn
      BY <1>1, <1>3, <2>2
    <3> QED
      BY <3>1 DEF NetsConnected
  <2> QED
    BY <2>1, <2>2
<1> QED
  BY <1>2, <1>3 DEF NetsConnected, Linked, Empty

\* What a step does to the requests of the connections: a connection loses a request only
\* when its stream is no longer pending.
NoneLost == \A k \in Conns : \A j \in Holds(conn[k]) : j \in Holds(conn'[k]) \/ resp'[j] # Pending

\* The dispatcher keeps every network connected and leaves the requests alone.
LEMMA DispatchConnected ==
    ASSUME Base, NetsConnected, Dispatch
    PROVE  /\ NetsConnected'
           /\ \A k \in Conns : Holds(conn'[k]) = Holds(conn[k]) /\ (Tidy(conn[k]) => Tidy(conn'[k]))
           /\ \A k \in Conns : conn[k].phase # "none" => conn'[k] = conn[k]
<1> DEFINE Good == /\ NetsConnected'
                   /\ \A k \in Conns : Holds(conn'[k]) = Holds(conn[k]) /\ (Tidy(conn[k]) => Tidy(conn'[k]))
                   /\ \A k \in Conns : conn[k].phase # "none" => conn'[k] = conn[k]
           Same(g) == \A k \in Nets : g[k].at = net[k].at /\ g[k].conn = net[k].conn /\ g[k].info = net[k].info
<1>0. net \in [Nets -> NetType] /\ conn \in [Conns -> ConnType] /\ Empty /\ probe \in [Probes -> ProbeType]
  BY DEF Base, TypeOK, NetsConnected, Empty
<1>1. ASSUME UNCHANGED conn, Same(net') PROVE Good
  <2>1. \A k \in Nets : Running(k)' <=> Running(k)
    BY <1>1 DEF Running
  <2>2. NetsConnected'
    BY <1>1, <2>1 DEF NetsConnected
  <2> QED
    BY <1>1, <2>2
<1>2. Same(Unregistered)
  BY <1>0 DEF Unregistered, NetType
<1>3. Same([net EXCEPT ![networks].q = Append(@, Job)]) /\ Same([net EXCEPT ![networks].q = Append(@, held)])
  BY <1>0 DEF NetType
<1>4. Same(net)
  OBVIOUS
<1>5. ASSUME NEW i \in Nets, NEW c \in NewConns, NEW info, net[i].at = "none", conn' = Connect(conn, c, info),
             net' = [Unregistered EXCEPT ![i] = [NoNet EXCEPT !.handle = TRUE, !.info = info,
                                                 !.q = <<Job>>, !.at = "recv", !.conn = c]]
      PROVE  Good
  <2>1. PICK n : n = [NoNet EXCEPT !.handle = TRUE, !.info = info, !.q = <<Job>>, !.at = "recv", !.conn = c]
    OBVIOUS
  <2>2. n.conn = c /\ n.info = info
    BY <2>1, SMT DEF NoNet
  <2>3. Unregistered \in [Nets -> NetType]
    BY <1>0, UnregisteredType
  <2>4. net'[i] = n /\ \A k \in Nets \ {i} : net'[k] = Unregistered[k]
    BY <1>5, <2>1, <2>3
  <2>5. c \in Conns /\ conn[c].phase = "none" /\ Holds(conn[c]) = {}
    BY <1>0 DEF NewConns, Empty
  <2>6. /\ \A k \in Conns \ {c} : conn'[k] = conn[k]
        /\ conn'[c].phase = "quic" /\ conn'[c].tx /\ conn'[c].info = info /\ Holds(conn'[c]) = {} /\ Tidy(conn'[c])
    <3>1. Connected(conn', conn, c, info)
      BY <1>0, <1>5, <2>5, ConnectParts
    <3> QED
      BY <3>1 DEF Connected
  <2>7. Empty'
    BY <1>0, <2>5, <2>6 DEF Empty
  <2>8. \A k \in Conns : Holds(conn'[k]) = Holds(conn[k]) /\ (Tidy(conn[k]) => Tidy(conn'[k]))
    BY <2>5, <2>6
  <2>9. \A k \in Conns : conn[k].phase # "none" => conn'[k] = conn[k]
    BY <2>5, <2>6
  <2>10. \A k \in Nets : Running(k) => net[k].conn \in Conns /\ conn[net[k].conn].phase # "none"
    BY DEF NetsConnected
  <2>11. Linked(i)' /\ \A k \in Nets \ {i} : Running(k) => net[k].conn # net'[i].conn
    BY <2>2, <2>4, <2>5, <2>6, <2>10 DEF Linked
  <2>12. \A k \in Nets \ {i} : Running(k) => conn'[net[k].conn] = conn[net[k].conn]
    BY <2>9, <2>10
  <2>13. \A k \in Nets \ {i} : net'[k].at = net[k].at /\ net'[k].conn = net[k].conn /\ net'[k].info = net[k].info
    BY <1>2, <2>4
  <2>14. NetsConnected'
    BY <2>7, <2>11, <2>12, <2>13, OneNetConnected
  <2> QED
    BY <2>8, <2>9, <2>14
<1> HIDE DEF Good, Same
<1>6. Driver_query \/ Driver_probe_same \/ Driver_probe_waited \/ Driver_clear => Good
  BY <1>1, <1>2, <1>3, <1>4 DEF Driver_query, Driver_probe_same, Driver_probe_waited, Driver_clear
<1>7. Driver_probe_new => Good
  BY <1>1, <1>2, <1>5 DEF Driver_probe_new
<1>8. Good
  BY <1>6, <1>7 DEF Dispatch
<1> QED
  BY <1>8 DEF Good

\* The callers and the spawned tasks leave networks and connections alone.
LEMMA CallersEffect ==
    ASSUME \/ \E q \in Queries : doh_query(q) \/ doh_query_send(q) \/ Expire(q) \/ doh_query_returns(q) \/ Deliver(q)
           \/ \E p \in Probes : doh_net_new(p)
           \/ doh_net_delete
    PROVE  UNCHANGED <<held, networks, net, conn, resp>> /\ spawned' \subseteq spawned
  BY DEF doh_query, doh_query_send, Expire, doh_query_returns, Deliver, doh_net_new, doh_net_delete, callerVars

\* At the start there is at most one network, with its connection.
LEMMA InitConnected == Init => NetsConnected
<1> SUFFICES ASSUME Init PROVE NetsConnected
  OBVIOUS
<1>0. NoNet.at = "none" /\ NoConn.rq = <<>> /\ NoConn.sent = {} /\ NoConn.buf = None /\ 1 \in Conns /\ 1 \in Nets
  BY LimitsAssumption, SMT DEF NoNet, NoConn, Conns, Nets
<1>1. ASSUME NEW d, d.rq = <<>>, d.sent = {}, d.buf = None PROVE Holds(d) = {}
  <2>1. Range(<<>>) = {}
    BY SMT DEF Range
  <2> QED
    BY <1>1, <2>1 DEF Holds
<1>2. CASE scene.live
  <2>1. PICK info, n, d :
           /\ info = scene.probes[1]
           /\ n = [NoNet EXCEPT !.handle = TRUE, !.info = info, !.status = "Live", !.at = "recv", !.conn = 1]
           /\ d = [NoConn EXCEPT !.info = info, !.tx = TRUE, !.val = "H3", !.news = TRUE, !.phase = "h3"]
    OBVIOUS
  <2>2. /\ net = [[i \in Nets |-> NoNet] EXCEPT ![1] = n]
        /\ conn = [[c \in Conns |-> NoConn] EXCEPT ![1] = d]
    BY <1>2, <2>1 DEF Init
  <2>3. n.conn = 1 /\ n.info = info /\ d.info = info /\ d.tx /\ d.phase = "h3" /\ d.rq = <<>> /\ d.sent = {} /\ d.buf = None
    BY <2>1, SMT DEF NoNet, NoConn
  <2>4. /\ net[1] = n /\ conn[1] = d
        /\ \A i \in Nets : i # 1 => net[i] = NoNet
        /\ \A c \in Conns : conn[c] = d \/ conn[c] = NoConn
    BY <1>0, <2>2
  <2>5. \A c \in Conns : Holds(conn[c]) = {}
    BY <1>0, <1>1, <2>3, <2>4
  <2>6. \A i \in Nets : Running(i) => i = 1
    BY <1>0, <2>4 DEF Running
  <2> QED
    BY <1>0, <2>3, <2>4, <2>5, <2>6 DEF NetsConnected
<1>3. CASE ~scene.live
  <2>1. net = [i \in Nets |-> NoNet] /\ conn = [c \in Conns |-> NoConn]
    BY <1>3 DEF Init
  <2>2. \A i \in Nets : ~Running(i)
    BY <1>0, <2>1 DEF Running
  <2>3. \A c \in Conns : Holds(conn[c]) = {}
    BY <1>0, <1>1, <2>1
  <2> QED
    BY <2>2, <2>3 DEF NetsConnected
<1> QED
  BY <1>2, <1>3

\* Every step keeps the networks connected and every request that is waited for somewhere.
LEMMA NextTracked == Base /\ NetsConnected /\ RequestTracked /\ [Next]_vars => NetsConnected' /\ RequestTracked'
\* The driver of a network keeps every network connected and loses no request; it waits for
\* the answers to those only that it gave to its connection.
<1>DriverConnected.
    ASSUME Base, NetsConnected, NEW i \in Nets, NetDriver(i) \/ p_timeout(i)
    PROVE  NetsConnected' /\ NoneLost /\ \A q \in spawned' \ spawned : \E c \in Conns : q \in Holds(conn'[c])
  <2> USE <1>DriverConnected
  <2>0. /\ net \in [Nets -> NetType] /\ conn \in [Conns -> ConnType] /\ Empty /\ Running(i)
    BY DriverEffect DEF Base, TypeOK, NetsConnected, Empty
  <2>1. PICK c0 \in Conns : c0 = net[i].conn /\ conn[c0].phase # "none" /\ conn[c0].tx /\ conn[c0].info = net[i].info
    BY <2>0 DEF NetsConnected
  <2>2. \A k \in Nets \ {i} : net'[k] = net[k]
    BY <2>0, DriverEffect
  <2>3. net'[i].info = net[i].info
    BY <2>0, DriverEffect
  <2>4. \A k \in Nets \ {i} : Running(k) => net[k].conn # c0 /\ net[k].conn \in Conns /\ conn[net[k].conn].phase # "none"
    BY <2>0, <2>1 DEF NetsConnected
  <2>10. Disconnected(Disconnect(conn, c0), c0)
    BY <2>0, <2>1, DisconnectParts
  <2>5. CASE Ends(i)
    <3>1. PICK cn : cn = Disconnect(conn, c0) /\ conn' = cn /\ UNCHANGED spawned
      BY <2>1, <2>5 DEF Ends
    <3>2. ~Running(i)'
      BY <2>5 DEF Ends, Running
    <3>3. /\ \A k \in Conns \ {c0} : cn[k] = conn[k]
          /\ Holds(cn[c0]) = Holds(conn[c0]) /\ cn[c0].phase # "none" /\ (cn[c0].phase = "gone" => Holds(cn[c0]) = {})
      BY <2>10, <3>1 DEF Disconnected
    <3>4. Empty' /\ NoneLost
      BY <2>0, <3>1, <3>3 DEF Empty, NoneLost
    <3>5. \A k \in Nets \ {i} : Running(k) => conn'[net[k].conn] = conn[net[k].conn]
      BY <2>4, <3>1, <3>3
    <3>6. NetsConnected'
      BY <2>2, <3>2, <3>4, <3>5, OneNetConnected
    <3> QED
      BY <3>1, <3>4, <3>6
  <2>6. CASE Reconnects(i)
    <3>0. PICK cn : cn = Disconnect(conn, c0)
      OBVIOUS
    <3>1. PICK c \in Conns : /\ conn' = Connect(cn, c, net[i].info)
                             /\ net'[i].conn = c /\ UNCHANGED spawned /\ conn[c].phase = "none"
      BY <2>1, <2>6, <3>0 DEF Reconnects, NewConns
    <3>2. /\ \A k \in Conns \ {c0} : cn[k] = conn[k]
          /\ Holds(cn[c0]) = Holds(conn[c0]) /\ cn[c0].phase # "none" /\ (cn[c0].phase = "gone" => Holds(cn[c0]) = {})
          /\ cn \in [Conns -> ConnType]
      BY <2>10, <3>0 DEF Disconnected
    <3>3. c # c0 /\ Holds(conn[c]) = {}
      BY <2>0, <2>1, <3>1 DEF Empty
    <3>4. /\ \A k \in Conns \ {c} : conn'[k] = cn[k]
          /\ conn'[c].phase = "quic" /\ conn'[c].tx /\ conn'[c].info = net[i].info /\ Holds(conn'[c]) = {}
      <4>1. Connected(conn', cn, c, net[i].info)
        BY <3>1, <3>2, ConnectParts
      <4> QED
        BY <4>1 DEF Connected
    <3>5. Empty' /\ NoneLost
      BY <2>0, <3>2, <3>3, <3>4 DEF Empty, NoneLost
    <3>6. Linked(i)' /\ \A k \in Nets \ {i} : Running(k) => net[k].conn # net'[i].conn
      BY <2>3, <2>4, <3>1, <3>4 DEF Linked
    <3>7. ASSUME NEW k \in Nets \ {i}, Running(k) PROVE conn'[net[k].conn] = conn[net[k].conn]
      <4>1. PICK m \in Conns : m = net[k].conn /\ m # c0 /\ m # c
        BY <2>4, <3>1, <3>7
      <4>2. conn'[m] = conn[m]
        BY <3>2, <3>4, <4>1
      <4> QED
        BY <4>1, <4>2
    <3>8. NetsConnected'
      BY <2>2, <3>5, <3>6, <3>7, OneNetConnected
    <3> QED
      BY <3>1, <3>5, <3>8
  <2>7. ASSUME \A k \in Conns \ {c0} : conn'[k] = conn[k],
               conn'[c0].phase = conn[c0].phase, conn'[c0].tx = conn[c0].tx, conn'[c0].info = conn[c0].info,
               net'[i].conn = c0, Empty'
        PROVE  NetsConnected'
    <3>1. Linked(i)' /\ \A k \in Nets \ {i} : Running(k) => net[k].conn # net'[i].conn
      BY <2>1, <2>3, <2>4, <2>7 DEF Linked
    <3>2. \A k \in Nets \ {i} : Running(k) => conn'[net[k].conn] = conn[net[k].conn]
      BY <2>4, <2>7
    <3> QED
      BY <2>2, <2>7, <3>1, <3>2, OneNetConnected
  <2>8. CASE Stays(i)
    <3>1. PICK d : conn' = [conn EXCEPT ![c0] = d] /\ SameConn(conn[c0], d) /\ net'[i].conn = c0 /\ UNCHANGED spawned
      BY <2>1, <2>8 DEF Stays
    <3>2. conn'[c0] = d /\ \A k \in Conns \ {c0} : conn'[k] = conn[k]
      BY <2>0, <3>1
    <3>3. Holds(d) = Holds(conn[c0]) /\ d.phase = conn[c0].phase /\ d.tx = conn[c0].tx /\ d.info = conn[c0].info
      BY <3>1 DEF SameConn, Holds
    <3>4. Empty' /\ NoneLost
      BY <2>0, <3>2, <3>3 DEF Empty, NoneLost
    <3> QED
      BY <2>7, <3>1, <3>2, <3>3, <3>4
  <2>9. CASE Requests(i)
    <3>1. Queued(i) /\ net'[i].conn = c0 /\ net[i].job \in Jobs /\ spawned' \subseteq spawned \cup {net[i].job}
      BY <2>1, <2>9 DEF Requests, Jobs
    <3>2. /\ \A k \in Conns \ {c0} : conn'[k] = conn[k]
          /\ conn'[c0].phase = conn[c0].phase /\ conn[c0].phase # "gone" /\ conn'[c0].tx = conn[c0].tx
          /\ conn'[c0].info = conn[c0].info
          /\ Holds(conn'[c0]) = Holds(conn[c0]) \cup {net[i].job}
      BY <2>0, <2>1, <3>1, QueuedParts
    <3>3. Empty' /\ NoneLost
      BY <2>0, <2>1, <3>2 DEF Empty, NoneLost
    <3>4. \A q \in spawned' \ spawned : \E c \in Conns : q \in Holds(conn'[c])
      BY <3>1, <3>2
    <3> QED
      BY <2>7, <3>1, <3>2, <3>3, <3>4
  <2> QED
    BY <2>5, <2>6, <2>8, <2>9, DriverConn
\* A connection's step keeps every network connected and loses no request.
<1>ConnConnected.
    ASSUME Base, NetsConnected, NEW c \in Conns, ConnDriver(c) \/ Peer(c)
    PROVE  NetsConnected' /\ NoneLost
  <2> USE <1>ConnConnected
  <2>0. conn \in [Conns -> ConnType] /\ Empty /\ conn[c].phase # "none" /\ UNCHANGED <<net, spawned>>
    BY ConnKeeps, ConnEffect DEF Base, TypeOK, NetsConnected, Empty
  <2>1. PICK d : conn' = [conn EXCEPT ![c] = d] /\ Keeps(c, d)
    BY ConnKeeps
  <2>2. conn'[c] = d /\ \A k \in Conns \ {c} : conn'[k] = conn[k]
    BY <2>0, <2>1
  <2>3. /\ d.phase # "none" /\ d.tx = conn[c].tx /\ (d.tx => d.info = conn[c].info) /\ (d.phase = "gone" => Holds(d) = {})
        /\ \A j \in Holds(conn[c]) \ Holds(d) : resp'[j] # Pending
    BY <2>1 DEF Keeps
  <2>4. NoneLost
    BY <2>2, <2>3 DEF NoneLost
  <2>5. Empty'
    BY <2>0, <2>2, <2>3 DEF Empty
  <2>6. ASSUME NEW i \in Nets, Running(i)' PROVE Linked(i)'
    <3>1. Running(i) /\ Linked(i)
      BY <2>0, <2>6 DEF NetsConnected, Running, Linked
    <3>2. conn'[net[i].conn].phase # "none" /\ conn'[net[i].conn].tx /\ conn'[net[i].conn].info = net[i].info
      <4>1. CASE net[i].conn = c
        BY <2>2, <2>3, <3>1, <4>1 DEF Linked
      <4>2. CASE net[i].conn # c
        BY <2>2, <3>1, <4>2 DEF Linked
      <4> QED
        BY <4>1, <4>2
    <3> QED
      BY <2>0, <3>1, <3>2 DEF Linked
  <2>7. \A i, j \in Nets : Running(i)' /\ Running(j)' /\ net'[i].conn = net'[j].conn => i = j
    BY <2>0 DEF NetsConnected, Running
  <2> QED
    BY <2>4, <2>5, <2>6, <2>7 DEF NetsConnected, Linked, Empty
\* A stream that is over stays so.
<1>NextPending.
    ASSUME Base, Next, NEW j \in Jobs, resp'[j] = Pending
    PROVE  resp[j] = Pending
  <2> USE <1>NextPending
  <2>0. resp \in [Jobs -> RespType]
    BY DEF Base, TypeOK
  <2>1. ASSUME NEW c \in Conns, ConnDriver(c) \/ Peer(c) PROVE resp[j] = Pending
    <3>1. ASSUME NEW js, resp' = Dropped(js) PROVE resp[j] = Pending
      BY <3>1, DroppedParts
    <3>2. ASSUME NEW k, NEW st \in {"stream", "reset", "dropped"}, resp' = [resp EXCEPT ![k] = [st |-> st, of |-> k]]
          PROVE  resp[j] = Pending
      <4>1. [st |-> st, of |-> k].st # Pending.st
        BY <3>2, SMT DEF Pending
      <4> QED
        BY <2>0, <3>2, <4>1
    <3> QED
      BY <2>1, <3>1, <3>2, ConnEffect
  <2>2. Dispatch => UNCHANGED resp
    BY DispatchEffect
  <2>3. ASSUME NEW i \in Nets, NetDriver(i) \/ p_timeout(i) PROVE UNCHANGED resp
    BY <2>3, DriverEffect
  <2>4. /\ \A q \in Queries : (doh_query(q) \/ doh_query_send(q) \/ Expire(q) \/ doh_query_returns(q) \/ Deliver(q)) => UNCHANGED resp
        /\ (\E p \in Probes : doh_net_new(p)) \/ doh_net_delete => UNCHANGED resp
    BY DEF doh_query, doh_query_send, Expire, doh_query_returns, Deliver, doh_net_new, doh_net_delete, callerVars
  <2> QED
    BY <2>1, <2>2, <2>3, <2>4 DEF Next
<1> SUFFICES ASSUME Base, NetsConnected, RequestTracked, [Next]_vars PROVE NetsConnected' /\ RequestTracked'
  OBVIOUS
<1>1. RequestTracked <=> \A q \in spawned : resp[q] = Pending => \E c \in Conns : q \in Holds(conn[c])
  BY DEF RequestTracked, Has, Holds
<1>2. RequestTracked' <=> \A q \in spawned' : resp'[q] = Pending => \E c \in Conns : q \in Holds(conn'[c])
  BY DEF RequestTracked, Has, Holds
<1>3. \A q \in spawned' : q \in Jobs
  BY NextBase DEF Base, TypeOK, Jobs
<1>4. ASSUME Next, NoneLost, \A q \in spawned' \ spawned : \E c \in Conns : q \in Holds(conn'[c])
      PROVE  RequestTracked'
  <2> SUFFICES ASSUME NEW q \in spawned', resp'[q] = Pending PROVE \E c \in Conns : q \in Holds(conn'[c])
    BY <1>2
  <2>1. resp[q] = Pending
    BY <1>3, <1>4, <1>NextPending
  <2>2. CASE q \notin spawned
    BY <1>4, <2>2
  <2>3. CASE q \in spawned
    BY <1>1, <1>4, <2>1, <2>3 DEF NoneLost
  <2> QED
    BY <2>2, <2>3
<1>5. ASSUME UNCHANGED <<net, conn, resp>>, spawned' \subseteq spawned PROVE NetsConnected' /\ RequestTracked'
  BY <1>1, <1>2, <1>5 DEF NetsConnected, Running
<1>6. CASE UNCHANGED vars
  BY <1>5, <1>6 DEF vars
<1>7. ASSUME NEW i \in Nets, NetDriver(i) \/ p_timeout(i), Next PROVE NetsConnected' /\ RequestTracked'
  BY <1>4, <1>7, <1>DriverConnected
<1>8. ASSUME Dispatch, Next PROVE NetsConnected' /\ RequestTracked'
  <2>1. NetsConnected' /\ NoneLost /\ spawned' = spawned
    BY <1>8, DispatchConnected, DispatchEffect DEF NoneLost
  <2> QED
    BY <1>4, <1>8, <2>1
<1>9. ASSUME NEW c \in Conns, ConnDriver(c) \/ Peer(c), Next PROVE NetsConnected' /\ RequestTracked'
  <2>1. NetsConnected' /\ NoneLost /\ spawned' = spawned
    BY <1>9, <1>ConnConnected, ConnEffect
  <2> QED
    BY <1>4, <1>9, <2>1
<1> QED
  BY <1>5, <1>6, <1>7, <1>8, <1>9, CallersEffect DEF Next

\* A request whose answer somebody waits for is in some connection's channel, in its buffer or
\* on a stream, or its stream is over: networks and connections that come and go do not drop
\* one on the floor.
THEOREM RequestsAreTracked == Spec => []RequestTracked
<1>1. Init => Base /\ NetsConnected /\ RequestTracked
  <2>1. Init => RequestTracked
    BY DEF Init, RequestTracked
  <2> QED
    BY <2>1, InitType, InitFits, InitConnected DEF Base
<1> QED
  BY <1>1, NextBase, NextTracked, PTL DEF Spec

----------------------------------------------------------------------------
(* The probes                                                               *)

\* What a network's step makes of its record: the job is done, the network ends, the job goes
\* on, or the next one is taken.
DoneWith(m, n) == n.q = m.q /\ n.job = None
GivenUp(n) == n.q = <<>> /\ n.job = None
GoesOn(m, n) ==
    n.q = m.q /\ n.job = m.job /\ (n.at \in {"p_wait", "report"} \/ m.at \notin {"p_wait", "report"})
TakesNext(m, n) == m.q # <<>> /\ n.q = Tail(m.q) /\ (n.job = Head(m.q) \/ n.job = None)
Answered(m) == m.at = "p_wait" /\ resp[m.job] # Pending /\ resp[m.job].st # "dropped"
NetMove(m, n) ==
    /\ DoneWith(m, n) \/ GivenUp(n) \/ GoesOn(m, n) \/ TakesNext(m, n)
    /\ n.info = m.info /\ n.handle = m.handle /\ n.at # "none"
    /\ n.status = "Live" => m.status = "Live" \/ Answered(m)
    /\ n.at = "ended" => ~m.handle

\* The driver of a network only moves so: it is live only once a probe was answered, and ends
\* only once nobody can send to it.
LEMMA DriverMoves ==
    ASSUME Base, NEW i \in Nets, NetDriver(i) \/ p_timeout(i)
    PROVE  \E n : net' = [net EXCEPT ![i] = n] /\ NetMove(net[i], n)
<1> DEFINE Moved == \E n : net' = [net EXCEPT ![i] = n] /\ NetMove(net[i], n)
           m == net[i]
<1>0. m \in NetType /\ Fits(m) /\ m.status \in {"Unprobed", "Live", "Failed"}
  BY DEF Base, TypeOK, JobsFit, NetType
<1>1. ASSUME NEW n, net' = [net EXCEPT ![i] = n], NetMove(m, n) PROVE Moved
  BY <1>1
<1> HIDE DEF Moved, m
<1>2. ASSUME EndNet(i), ~m.handle PROVE Moved
  <2>1. PICK n : n = Ended(m)
    OBVIOUS
  <2>2. n.q = <<>> /\ n.job = None /\ n.info = m.info /\ n.handle = m.handle /\ n.at = "ended" /\ n.status = m.status
    BY <1>0, <2>1 DEF Ended, NetType
  <2>3. n.at # "none"
    BY <2>2, SMT
  <2>4. NetMove(m, n)
    BY <1>2, <2>2, <2>3 DEF NetMove, GivenUp
  <2> QED
    BY <1>1, <1>2, <2>1, <2>4 DEF EndNet, m
<1>3. ASSUME NEW n, net' = [net EXCEPT ![i] = n], n.q = m.q, n.job = None, n.at = "recv", n.info = m.info,
             n.handle = m.handle, n.status \in {m.status, "Failed"}
      PROVE  Moved
  <2>1. n.at # "none" /\ n.at # "ended" /\ (n.status = "Live" => m.status = "Live")
    BY <1>3, SMT
  <2>2. NetMove(m, n)
    BY <1>3, <2>1 DEF NetMove, DoneWith
  <2> QED
    BY <1>1, <1>3, <2>2
<1>4. ASSUME QueryFailed(i) PROVE Moved
  <2>1. PICK n : n = NextCommand(m)
    OBVIOUS
  <2>2. n.q = m.q /\ n.job = None /\ n.at = "recv" /\ n.info = m.info /\ n.handle = m.handle /\ n.status = m.status
    BY <1>0, <2>1 DEF NextCommand, NetType
  <2> QED
    BY <1>3, <1>4, <2>1, <2>2 DEF QueryFailed, m
<1>5. ASSUME NEW n, net' = [net EXCEPT ![i] = n], n.q = m.q, n.job = m.job, n.info = m.info, n.handle = m.handle,
             n.at \notin {"none", "ended"}, n.at \in {"p_wait", "report"} \/ m.at \notin {"p_wait", "report"},
             n.status = "Live" => m.status = "Live" \/ Answered(m)
      PROVE  Moved
  <2>1. NetMove(m, n)
    BY <1>5 DEF NetMove, GoesOn
  <2> QED
    BY <1>1, <1>5, <2>1
<1>6. ASSUME NEW status \in {"Live", "Failed"}, Status(i, status, "report"), status = "Live" => Answered(m) PROVE Moved
  <2>1. CASE m.handle
    <3>1. PICK n : n = [m EXCEPT !.status = status, !.at = "report"]
      OBVIOUS
    <3>2. n.q = m.q /\ n.job = m.job /\ n.at = "report" /\ n.info = m.info /\ n.handle = m.handle /\ n.status = status
      BY <1>0, <3>1 DEF NetType
    <3>3. net' = [net EXCEPT ![i] = n]
      BY <1>6, <2>1, <3>1 DEF Status, m
    <3>4. n.at \notin {"none", "ended"} /\ n.at \in {"p_wait", "report"}
      BY <3>2, SMT
    <3> QED
      BY <1>5, <1>6, <3>2, <3>3, <3>4
  <2>2. CASE ~m.handle
    BY <1>2, <1>6, <2>2 DEF Status, m
  <2> QED
    BY <2>1, <2>2
<1>7. ASSUME recv(i) PROVE Moved
  <2>1. PICK r : r = [m EXCEPT !.q = Tail(m.q), !.job = Head(m.q)]
    OBVIOUS
  <2>2. /\ r.q = Tail(m.q) /\ r.job = Head(m.q) /\ r.info = m.info /\ r.handle = m.handle
        /\ r.status = m.status /\ r.at = "recv" /\ m.q # <<>>
    BY <1>0, <1>7, <2>1 DEF NetType, recv, At, m
  <2>3. ASSUME NEW n, NEW at \in {"reconnect", "report", "p_query", "q_send", "wait1"}, n = [r EXCEPT !.at = at]
        PROVE  /\ n.q = r.q /\ n.job = r.job /\ n.info = r.info /\ n.handle = r.handle /\ n.status = r.status
               /\ n.at # "none" /\ n.at # "ended"
    BY <1>0, <2>1, <2>3, SMT DEF NetType
  <2>8. ASSUME NEW n, n = [r EXCEPT !.job = None]
        PROVE  /\ n.q = r.q /\ n.job = None /\ n.info = r.info /\ n.handle = r.handle /\ n.status = r.status
               /\ n.at # "none" /\ n.at # "ended"
    <3>1. r.at # "none" /\ r.at # "ended"
      BY <2>2, SMT
    <3> QED
      BY <1>0, <2>1, <2>8, <3>1 DEF NetType
  <2>4. PICK n : /\ net' = [net EXCEPT ![i] = n]
                 /\ \/ n = [r EXCEPT !.job = None]
                    \/ \E at \in {"reconnect", "report", "p_query", "q_send", "wait1"} : n = [r EXCEPT !.at = at]
    <3>1. Look(r.conn) \in {"q_send", "reconnect", "wait1"}
      BY DEF Look
    <3>2. CASE Head(m.q) \in Probes
      <4>1. net' = [net EXCEPT ![i] = [r EXCEPT !.at = IF r.status = "Failed" THEN "reconnect"
                                                       ELSE IF r.status = "Live" THEN "report" ELSE "p_query"]]
        BY <1>7, <2>1, <3>2 DEF recv, m
      <4> QED
        BY <4>1
    <3>3. CASE Head(m.q) \notin Probes
      <4>1. \/ net' = [net EXCEPT ![i] = [r EXCEPT !.job = None]]
            \/ net' = [net EXCEPT ![i] = [r EXCEPT !.at = Look(r.conn)]]
        BY <1>7, <2>1, <3>3 DEF recv, m
      <4> QED
        BY <3>1, <4>1
    <3> QED
      BY <3>2, <3>3
  <2>5. /\ n.q = r.q /\ (n.job = r.job \/ n.job = None) /\ n.info = r.info /\ n.handle = r.handle /\ n.status = r.status
        /\ n.at # "none" /\ n.at # "ended"
    BY <2>3, <2>4, <2>8
  <2>7. NetMove(m, n)
    BY <2>2, <2>5 DEF NetMove, TakesNext
  <2> QED
    BY <1>1, <2>4, <2>7
<1>8. ASSUME recv_none(i) PROVE Moved
  BY <1>2, <1>8 DEF recv_none, m
<1>9. ASSUME reconnect(i) PROVE Moved
  <2>1. ASSUME NEW n, NEW c, net' = [net EXCEPT ![i] = n],
               \/ n = [m EXCEPT !.at = "q_send", !.conn = c]
               \/ n = [m EXCEPT !.at = "p_query", !.conn = c, !.status = "Unprobed"]
        PROVE  Moved
    <3>1. /\ n.q = m.q /\ n.job = m.job /\ n.info = m.info /\ n.handle = m.handle
          /\ n.at \in {"q_send", "p_query"} /\ n.status \in {m.status, "Unprobed"}
      BY <1>0, <2>1 DEF NetType
    <3>2. m.at = "reconnect"
      BY <1>9 DEF reconnect, At, m
    <3>3. n.at \notin {"none", "ended"} /\ m.at \notin {"p_wait", "report"} /\ (n.status = "Live" => m.status = "Live")
      BY <3>1, <3>2, SMT
    <3> QED
      BY <1>5, <2>1, <3>1, <3>3
  <2> QED
    BY <1>2, <1>9, <2>1 DEF reconnect, m
<1>10. ASSUME reconnect_fails(i) PROVE Moved
  <2>1. CASE net' = [net EXCEPT ![i] = [NextCommand(m) EXCEPT !.status = "Failed"]]
    <3>1. PICK n : n = [NextCommand(m) EXCEPT !.status = "Failed"]
      OBVIOUS
    <3>2. n.q = m.q /\ n.job = None /\ n.at = "recv" /\ n.info = m.info /\ n.handle = m.handle /\ n.status = "Failed"
      BY <1>0, <3>1 DEF NextCommand, NetType
    <3> QED
      BY <1>3, <2>1, <3>1, <3>2
  <2> QED
    BY <1>2, <1>4, <1>10, <2>1 DEF reconnect_fails, m
<1>11. ASSUME NEW at, net' = [net EXCEPT ![i] = [m EXCEPT !.at = at]], at \notin {"none", "ended"},
              at \in {"p_wait", "report"} \/ m.at \notin {"p_wait", "report"}
       PROVE  Moved
  <2>1. PICK n : n = [m EXCEPT !.at = at]
    OBVIOUS
  <2>2. n.q = m.q /\ n.job = m.job /\ n.info = m.info /\ n.handle = m.handle /\ n.at = at /\ n.status = m.status
    BY <1>0, <2>1 DEF NetType
  <2> QED
    BY <1>5, <1>11, <2>1, <2>2
<1>12. ASSUME p_query(i) PROVE Moved
  <2>1. "p_wait" \notin {"none", "ended"} /\ "p_wait" \in {"p_wait", "report"} /\ "Failed" # "Live"
    BY SMT
  <2>2. "Failed" \in {"Live", "Failed"}
    OBVIOUS
  <2> QED
    BY <1>6, <1>11, <1>12, <2>1, <2>2 DEF p_query, Goto, m
<1>13. ASSUME p_answered(i) PROVE Moved
  <2>1. ProbeVerdict(resp[m.job].st) \in {"Live", "Failed"} /\ (ProbeVerdict(resp[m.job].st) = "Live" => Answered(m))
    BY <1>13, SMT DEF ProbeVerdict, Answered, p_answered, At, m
  <2> QED
    BY <1>6, <1>13, <2>1 DEF p_answered, m
<1>14. ASSUME p_timeout(i) PROVE Moved
  <2>1. "Failed" # "Live" /\ "Failed" \in {"Live", "Failed"}
    BY SMT
  <2> QED
    BY <1>6, <1>14, <2>1 DEF p_timeout
<1>15. ASSUME net' = [net EXCEPT ![i] = [m EXCEPT !.at = "recv", !.job = None]] PROVE Moved
  <2>1. PICK n : n = [m EXCEPT !.at = "recv", !.job = None]
    OBVIOUS
  <2>2. n.q = m.q /\ n.job = None /\ n.at = "recv" /\ n.info = m.info /\ n.handle = m.handle /\ n.status = m.status
    BY <1>0, <2>1 DEF NetType
  <2> QED
    BY <1>3, <1>15, <2>1, <2>2
<1>16. ASSUME wait_for_live(i) PROVE Moved
  <2>1. PICK at \in {"wait2", "reconnect", "q_send"} : net' = [net EXCEPT ![i] = [m EXCEPT !.at = at]]
    BY <1>16 DEF wait_for_live, Goto, m
  <2>2. at \notin {"none", "ended"} /\ m.at \notin {"p_wait", "report"}
    BY <1>16, <2>1, SMT DEF wait_for_live, m
  <2> QED
    BY <1>11, <2>1, <2>2
<1>17. Moved
  BY <1>4, <1>7, <1>8, <1>9, <1>10, <1>12, <1>13, <1>14, <1>15, <1>16 DEF NetDriver, report, q_send, m
<1> QED
  BY <1>17 DEF Moved, m

\* Moving on, a network takes no probe in, and has each of them once.
LEMMA MoveOnce ==
    ASSUME Base, NEW i \in Nets, OnceNet(i), NEW n, net' = [net EXCEPT ![i] = n], NetMove(net[i], n)
    PROVE  /\ OnceNet(i)'
           /\ \A p \in Probes : ProbeIn(i, p)' => ProbeIn(i, p)
           /\ \A j \in Jobs : InNet(i, j)' => InNet(i, j)
<1>0. /\ net \in [Nets -> NetType] /\ net[i].q \in Seq(Jobs) /\ None \notin Jobs /\ Probes \subseteq Jobs
      /\ net'[i] = n /\ Fits(net[i])
  BY NetParts, NamesAssumption DEF Base, TypeOK, JobsFit, Jobs
<1>1. CASE DoneWith(net[i], n)
  BY <1>0, <1>1 DEF DoneWith, OnceNet, ProbeIn, InNet
<1>2. CASE GivenUp(n)
  <2>1. Range(<<>>) = {} /\ DOMAIN <<>> = {}
    BY SMT DEF Range
  <2> QED
    BY <1>0, <1>2, <2>1 DEF GivenUp, OnceNet, Once, ProbeIn, InNet
<1>3. CASE GoesOn(net[i], n)
  BY <1>0, <1>3 DEF GoesOn, OnceNet, ProbeIn, InNet
<1>4. CASE TakesNext(net[i], n)
  <2>1. PICK t, j : t = Tail(net[i].q) /\ j = Head(net[i].q) /\ n.q = t /\ (n.job = j \/ n.job = None)
    BY <1>4 DEF TakesNext
  <2>2. Range(net[i].q) = {j} \cup Range(t)
    BY <1>0, <1>4, <2>1, ChannelHolds DEF TakesNext
  <2>3. Once(t, Probes) /\ (j \in Probes => j \notin Range(t))
    BY <1>0, <1>4, <2>1, ChannelOnce DEF TakesNext, OnceNet
  <2>4. OnceNet(i)'
    BY <1>0, <2>1, <2>3 DEF OnceNet
  <2>5. \A p \in Probes : ProbeIn(i, p)' => ProbeIn(i, p)
    BY <1>0, <2>1, <2>2 DEF ProbeIn
  <2>6. \A k \in Jobs : InNet(i, k)' => InNet(i, k)
    BY <1>0, <2>1, <2>2 DEF InNet
  <2> QED
    BY <2>4, <2>5, <2>6
<1> QED
  BY <1>1, <1>2, <1>3, <1>4 DEF NetMove

\* A step that does not take a probe in, and one that hands a probe from one owner to another.
Kept(p) == \A x \in Owners : Owns(x, p)' => Owns(x, p)
Handed(p) == Kept(p) \/ ((\E x \in Owners : Owns(x, p)) /\ \E y : \A x \in Owners : Owns(x, p)' => x = y)

\* The owners are all different.
LEMMA OwnersDiffer ==
    /\ <<"cmds", 0>> \in Owners /\ <<"held", 0>> \in Owners /\ <<"cmds", 0>> # <<"held", 0>>
    /\ \A i \in Nets : <<"net", i>> \in Owners /\ <<"net", i>> # <<"cmds", 0>> /\ <<"net", i>> # <<"held", 0>>
    /\ \A c \in Conns : <<"conn", c>> \in Owners /\ <<"conn", c>> # <<"cmds", 0>> /\ <<"conn", c>> # <<"held", 0>>
    /\ \A i \in Nets, c \in Conns : <<"net", i>> # <<"conn", c>>
    /\ \A i, j \in Nets : i # j => <<"net", i>> # <<"net", j>>
    /\ \A c, d \in Conns : c # d => <<"conn", c>> # <<"conn", d>>
  BY SMT DEF Owners

\* A connection's step answers or drops only requests that it has.
LEMMA ConnAnswers ==
    ASSUME Base, NEW c \in Conns, ConnDriver(c) \/ Peer(c), NEW j \in Jobs, resp'[j] # resp[j]
    PROVE  j \in Holds(conn[c]) /\ resp'[j].st # "pending"
<1>0. /\ resp \in [Jobs -> RespType] /\ Has(c) = Holds(conn[c]) /\ conn[c] \in ConnType /\ conn[c].sent \subseteq Jobs
      /\ None \notin Jobs
  <2>1. conn[c] \in ConnType
    BY DEF Base, TypeOK
  <2> QED
    BY <2>1, ConnParts DEF Base, TypeOK, Has, Holds
<1>1. [Pending EXCEPT !.st = "dropped"].st # "pending"
  BY SMT DEF Pending
<1>2. ASSUME NEW js \in SUBSET Has(c), resp' = Dropped(js) PROVE j \in Holds(conn[c]) /\ resp'[j].st # "pending"
  BY <1>0, <1>1, <1>2 DEF Dropped
<1>3. ASSUME NEW k \in conn[c].sent, NEW st \in {"stream", "reset", "dropped"}, resp' = [resp EXCEPT ![k] = [st |-> st, of |-> k]]
      PROVE  j \in Holds(conn[c]) /\ resp'[j].st # "pending"
  <2>1. j = k /\ resp'[j] = [st |-> st, of |-> k]
    BY <1>0, <1>3
  <2>2. [st |-> st, of |-> k].st # "pending"
    BY <1>3, SMT
  <2> QED
    BY <1>0, <1>3, <2>1, <2>2 DEF Holds
<1> QED
  BY <1>2, <1>3, ConnEffect

\* A network's driver changes what becomes of probes only.
LEMMA DriverProbes ==
    ASSUME Base, NEW i \in Nets, NetDriver(i) \/ p_timeout(i)
    PROVE  \/ UNCHANGED probe
           \/ \E ps : probe' = Unreported(ps)
           \/ \E k \in Probes, at \in {"valid", "invalid"} : probe' = [probe EXCEPT ![k].at = at]
<1>1. EndNet(i) => \E ps : probe' = Unreported(ps)
  BY DEF EndNet
<1>2. \A status, next : Status(i, status, next) => UNCHANGED probe \/ EndNet(i)
  BY DEF Status
<1>3. CASE recv(i) \/ recv_none(i) \/ wait_for_live(i)
  BY <1>1, <1>3 DEF recv, recv_none, wait_for_live
<1>4. CASE reconnect(i)
  BY <1>1, <1>4 DEF reconnect
<1>5. CASE reconnect_fails(i)
  BY <1>1, <1>5 DEF reconnect_fails, QueryFailed
<1>6. CASE p_query(i) \/ p_answered(i) \/ p_timeout(i)
  BY <1>1, <1>2, <1>6 DEF p_query, p_answered, p_timeout
<1>7. CASE report(i)
  <2>1. net[i].job \in Probes
    BY <1>7 DEF Base, JobsFit, Fits, report, At
  <2> QED
    BY <1>7, <2>1 DEF report
<1>8. CASE q_send(i)
  BY <1>8 DEF q_send, QueryFailed
<1> QED
  BY <1>3, <1>4, <1>5, <1>6, <1>7, <1>8 DEF NetDriver

\* A probe that was started stays so, and with the server it was started for.
LEMMA ProbeStays ==
    ASSUME Base, Next, NEW p \in Probes, probe[p].at # "none"
    PROVE  probe'[p].at # "none" /\ probe'[p].info = probe[p].info
<1> DEFINE Good == probe'[p].at # "none" /\ probe'[p].info = probe[p].info
<1>0. probe \in [Probes -> ProbeType] /\ probe[p] \in ProbeType
  BY DEF Base, TypeOK
<1>1. ASSUME UNCHANGED probe PROVE Good
  BY <1>1
<1>2. ASSUME NEW k, NEW at \in {"valid", "invalid", "unreported"}, probe' = [probe EXCEPT ![k].at = at] PROVE Good
  <2>1. PICK r : r = [probe[p] EXCEPT !.at = at]
    OBVIOUS
  <2>2. r.at = at /\ r.info = probe[p].info /\ at # "none"
    BY <1>0, <1>2, <2>1 DEF ProbeType
  <2>3. probe'[p] = probe[p] \/ probe'[p] = r
    BY <1>0, <1>2, <2>1
  <2> QED
    BY <2>2, <2>3
<1>3. ASSUME NEW ps, probe' = Unreported(ps) PROVE Good
  <2>1. PICK r : r = [probe[p] EXCEPT !.at = "unreported"]
    OBVIOUS
  <2>2. r.at # "none" /\ r.info = probe[p].info
    BY <1>0, <2>1 DEF ProbeType
  <2>3. probe'[p] = probe[p] \/ probe'[p] = r
    BY <1>3, <2>1 DEF Unreported
  <2> QED
    BY <2>2, <2>3
<1>4. ASSUME NEW o \in Probes, doh_net_new(o) PROVE Good
  <2>1. o # p
    BY <1>4 DEF doh_net_new
  <2>2. probe'[p] = probe[p]
    BY <1>0, <1>4, <2>1 DEF doh_net_new
  <2> QED
    BY <2>2
<1>5. ASSUME NEW i \in Nets, NetDriver(i) \/ p_timeout(i) PROVE Good
  BY <1>1, <1>2, <1>3, <1>5, DriverProbes
<1>6. ASSUME Dispatch PROVE Good
  BY <1>1, <1>2, <1>6 DEF Dispatch, Driver_query, Driver_probe_same, Driver_probe_waited, Driver_probe_new, Driver_clear
<1>7. ASSUME NEW c \in Conns, ConnDriver(c) \/ Peer(c) PROVE Good
  BY <1>1, <1>7, ConnEffect
<1>8. /\ \A q \in Queries : (doh_query(q) \/ doh_query_send(q) \/ Expire(q) \/ doh_query_returns(q) \/ Deliver(q)) => UNCHANGED probe
      /\ doh_net_delete => UNCHANGED probe
  BY DEF doh_query, doh_query_send, Expire, doh_query_returns, Deliver, doh_net_delete
<1> HIDE DEF Good
<1>9. Good
  BY <1>1, <1>4, <1>5, <1>6, <1>7, <1>8 DEF Next
<1> QED
  BY <1>9, SMT DEF Good

\* Only a connection's step changes a stream, and then one of its own requests.
LEMMA StreamChanges ==
    ASSUME Base, Next, NEW j \in Jobs, resp'[j] # resp[j]
    PROVE  resp'[j].st # "pending" /\ \E c \in Conns : (ConnDriver(c) \/ Peer(c)) /\ j \in Holds(conn[c])
<1>1. ASSUME Dispatch PROVE FALSE
  BY <1>1, DispatchEffect
<1>2. ASSUME NEW i \in Nets, NetDriver(i) \/ p_timeout(i) PROVE FALSE
  BY <1>2, DriverEffect
<1>3. ASSUME \/ \E q \in Queries : doh_query(q) \/ doh_query_send(q) \/ Expire(q) \/ doh_query_returns(q) \/ Deliver(q)
             \/ \E p \in Probes : doh_net_new(p)
             \/ doh_net_delete
      PROVE  FALSE
  BY <1>3, CallersEffect
<1>4. PICK c \in Conns : ConnDriver(c) \/ Peer(c)
  BY <1>1, <1>2, <1>3 DEF Next
<1> QED
  BY <1>4, ConnAnswers

\* The stream of a probe changes only while a connection has it.
LEMMA ProbeAnswered ==
    ASSUME Base, ProbesOwned, Next, NEW p \in Probes, resp'[p] # resp[p]
    PROVE  resp[p] = Pending /\ probe[p].at # "none" /\ resp'[p].st # "pending"
<1>1. PICK c \in Conns : p \in Holds(conn[c])
  BY StreamChanges DEF Jobs
<1>2. Owns(<<"conn", c>>, p) /\ <<"conn", c>> \in Owners
  BY <1>1, OwnersDiffer DEF Owns
<1> QED
  BY <1>2, StreamChanges DEF ProbesOwned, Jobs

\* Every step keeps each probe in one place.
LEMMA NextOwned == Base /\ NetsConnected /\ ProbesOwned /\ [Next]_vars => ProbesOwned'
\* Where a probe is kept.
<1>KeptByAll.
    ASSUME NEW p \in Probes, ProbeAsked(p)' => ProbeAsked(p), held' = p => held = p,
           \A i \in Nets : ProbeIn(i, p)' => ProbeIn(i, p),
           \A c \in Conns : p \in Holds(conn'[c]) => p \in Holds(conn[c])
    PROVE  Kept(p)
  BY <1>KeptByAll DEF Kept, Owns
\* A probe that one owner gives and another takes is handed over.
<1>HandedOver.
    ASSUME NEW p \in Probes, \A x, y \in Owners : Owns(x, p) /\ Owns(y, p) => x = y,
           NEW from \in Owners, NEW to, Owns(from, p),
           \A x \in Owners : Owns(x, p)' => x = to \/ (Owns(x, p) /\ x # from)
    PROVE  Handed(p)
  BY <1>HandedOver DEF Handed
\* A network's step keeps the probes where they are, or hands one to its connection.
<1>DriverOwns.
    ASSUME Base, NetsConnected, ProbesOwned, NEW i \in Nets, NetDriver(i) \/ p_timeout(i)
    PROVE  OnceEach' /\ \A p \in Probes : Handed(p)
  <2> USE <1>DriverOwns
  <2>0. /\ net \in [Nets -> NetType] /\ conn \in [Conns -> ConnType] /\ Empty /\ Running(i)
        /\ UNCHANGED <<cmds, held>> /\ OnceEach /\ Probes \subseteq Jobs /\ Probes \cap Queries = {}
    BY DriverEffect, NamesAssumption DEF Base, TypeOK, NetsConnected, Empty, ProbesOwned, Jobs
  <2>1. PICK c0 \in Conns : c0 = net[i].conn /\ conn[c0].phase # "none"
    BY <2>0 DEF NetsConnected
  <2>2. PICK n : net' = [net EXCEPT ![i] = n] /\ NetMove(net[i], n)
    BY DriverMoves
  <2>3. OnceNet(i)' /\ (\A p \in Probes : ProbeIn(i, p)' => ProbeIn(i, p))
    BY <2>0, <2>2, MoveOnce DEF OnceEach
  <2>4. \A k \in Nets \ {i} : net'[k] = net[k]
    BY <2>0, <2>2
  <2>5. \A k \in Nets : OnceNet(k)' /\ \A p \in Probes : ProbeIn(k, p)' => ProbeIn(k, p)
    BY <2>0, <2>3, <2>4 DEF OnceEach, OnceNet, ProbeIn
  <2>6. \A p \in Probes : ProbeAsked(p)' = ProbeAsked(p)
    BY <2>0 DEF ProbeAsked
  <2>7. ASSUME \A k \in Conns : Tidy(conn'[k]) PROVE OnceEach'
    BY <2>0, <2>5, <2>7 DEF OnceEach
  <2>8. ASSUME \A k \in Conns, p \in Probes : p \in Holds(conn'[k]) => p \in Holds(conn[k]) PROVE \A p \in Probes : Handed(p)
    BY <2>0, <2>5, <2>6, <2>8, <1>KeptByAll DEF Handed
  <2>9. \A k \in Conns : Tidy(conn[k])
    BY <2>0 DEF OnceEach
  <2>10. Disconnected(Disconnect(conn, c0), c0)
    BY <2>0, <2>1, DisconnectParts
  <2>11. CASE Ends(i)
    <3>1. Disconnected(conn', c0)
      BY <2>1, <2>10, <2>11 DEF Ends
    <3>2. \A k \in Conns : Tidy(conn'[k]) /\ Holds(conn'[k]) = Holds(conn[k])
      BY <2>9, <3>1 DEF Disconnected
    <3> QED
      BY <2>7, <2>8, <3>2
  <2>12. CASE Reconnects(i)
    <3>1. PICK cn : cn = Disconnect(conn, c0)
      OBVIOUS
    <3>2. PICK c \in Conns : conn' = Connect(cn, c, net[i].info)
      BY <2>1, <2>12, <3>1 DEF Reconnects, NewConns
    <3>3. cn \in [Conns -> ConnType] /\ \A k \in Conns : Tidy(cn[k]) /\ Holds(cn[k]) = Holds(conn[k])
      BY <2>9, <2>10, <3>1 DEF Disconnected
    <3>4. Connected(conn', cn, c, net[i].info)
      BY <3>2, <3>3, ConnectParts
    <3>5. \A k \in Conns : Tidy(conn'[k]) /\ Holds(conn'[k]) \subseteq Holds(conn[k])
      BY <3>3, <3>4 DEF Connected
    <3> QED
      BY <2>7, <2>8, <3>5
  <2>13. CASE Stays(i)
    <3>1. PICK d : conn' = [conn EXCEPT ![c0] = d] /\ SameConn(conn[c0], d)
      BY <2>1, <2>13 DEF Stays
    <3>2. Holds(d) = Holds(conn[c0]) /\ Tidy(d)
      BY <2>9, <3>1 DEF SameConn, Holds, Tidy
    <3>3. \A k \in Conns : Tidy(conn'[k]) /\ Holds(conn'[k]) = Holds(conn[k])
      BY <2>0, <2>9, <3>1, <3>2
    <3> QED
      BY <2>7, <2>8, <3>3
  <2>14. CASE Requests(i)
    <3>1. PICK j \in Jobs : j = net[i].job
      BY <2>14 DEF Requests, Jobs
    <3>2. Queued(i)
      BY <2>14 DEF Requests
    <3>3. /\ \A k \in Conns \ {c0} : conn'[k] = conn[k]
          /\ Holds(conn'[c0]) = Holds(conn[c0]) \cup {j}
          /\ (j \in Probes => j \notin Holds(conn[c0])) => Tidy(conn'[c0])
      BY <2>0, <2>1, <2>9, <3>1, <3>2, QueuedParts
    <3>4. ASSUME j \in Probes PROVE j \notin Holds(conn[c0]) /\ Handed(j)
      <4>1. net[i].at = "p_query" /\ net'[i].at = "p_wait" /\ net'[i].q = net[i].q
        BY <2>0, <2>14, <3>1, <3>4 DEF Requests
      <4>2. j \notin Range(net[i].q)
        <5>1. net[i].at \notin {"p_wait", "report"}
          BY <4>1, SMT
        <5> QED
          BY <2>0, <3>1, <3>4, <5>1 DEF OnceEach, OnceNet
      <4>3. ProbeIn(i, j) /\ ~ProbeIn(i, j)'
        <5>1. "p_query" \notin {"p_wait", "report"} /\ "p_wait" \in {"p_wait", "report"}
          BY SMT
        <5> QED
          BY <3>1, <4>1, <4>2, <5>1 DEF ProbeIn
      <4>4. Owns(<<"net", i>>, j)
        BY <4>3 DEF Owns
      <4>5. \A x, y \in Owners : Owns(x, j) /\ Owns(y, j) => x = y
        BY <3>4 DEF ProbesOwned
      <4>6. j \notin Holds(conn[c0])
        <5>1. j \in Holds(conn[c0]) => Owns(<<"conn", c0>>, j)
          BY DEF Owns
        <5> QED
          BY <4>4, <4>5, <5>1, OwnersDiffer
      <4>7. ASSUME NEW x \in Owners, Owns(x, j)' PROVE x = <<"conn", c0>> \/ (Owns(x, j) /\ x # <<"net", i>>)
        <5>1. CASE x = <<"cmds", 0>> /\ ProbeAsked(j)'
          BY <2>6, <3>4, <5>1, OwnersDiffer DEF Owns
        <5>2. CASE x = <<"held", 0>> /\ held' = j
          BY <2>0, <5>2, OwnersDiffer DEF Owns
        <5>3. ASSUME NEW k \in Nets, x = <<"net", k>>, ProbeIn(k, j)' PROVE Owns(x, j) /\ x # <<"net", i>>
          <6>1. k # i
            BY <4>3, <5>3
          <6>2. ProbeIn(k, j)
            BY <2>5, <3>4, <5>3
          <6> QED
            BY <5>3, <6>1, <6>2, OwnersDiffer DEF Owns
        <5>4. ASSUME NEW k \in Conns, x = <<"conn", k>>, j \in Holds(conn'[k])
              PROVE  x = <<"conn", c0>> \/ (Owns(x, j) /\ x # <<"net", i>>)
          <6>1. k = c0 \/ j \in Holds(conn[k])
            BY <3>3, <5>4
          <6> QED
            BY <5>4, <6>1, OwnersDiffer DEF Owns
        <5> QED
          BY <4>7, <5>1, <5>2, <5>3, <5>4 DEF Owns
      <4>8. Handed(j)
        BY <3>4, <4>4, <4>5, <4>7, <1>HandedOver, OwnersDiffer
      <4> QED
        BY <4>6, <4>8
    <3>5. OnceEach'
      <4>1. \A k \in Conns : Tidy(conn'[k])
        BY <2>9, <3>3, <3>4
      <4> QED
        BY <2>7, <4>1
    <3>6. ASSUME NEW p \in Probes, p # j PROVE Handed(p)
      <4>1. \A k \in Conns : p \in Holds(conn'[k]) => p \in Holds(conn[k])
        BY <3>3, <3>6
      <4> QED
        BY <2>0, <2>5, <2>6, <4>1, <1>KeptByAll DEF Handed
    <3> QED
      BY <3>4, <3>5, <3>6
  <2> QED
    BY <2>11, <2>12, <2>13, <2>14, DriverConn
\* A network that is given a probe it does not have has it once.
<1>NetTakes.
    ASSUME Base, OnceEach, NEW k \in Nets, NEW j \in Jobs, net' = [net EXCEPT ![k].q = Append(@, j)],
           j \in Probes => ~ProbeIn(k, j)
    PROVE  /\ \A i \in Nets : OnceNet(i)'
           /\ \A i \in Nets, p \in Probes : ProbeIn(i, p)' => ProbeIn(i, p) \/ (i = k /\ p = j)
  <2> USE <1>NetTakes
  <2>0. net \in [Nets -> NetType] /\ net[k] \in NetType /\ net[k].q \in Seq(Jobs) /\ \A i \in Nets : OnceNet(i)
    BY NetParts DEF Base, TypeOK, OnceEach
  <2>1. PICK n : n = [net[k] EXCEPT !.q = Append(net[k].q, j)]
    OBVIOUS
  <2>2. n.q = Append(net[k].q, j) /\ n.job = net[k].job /\ n.at = net[k].at
    BY <2>0, <2>1 DEF NetType
  <2>3. net'[k] = n /\ \A i \in Nets \ {k} : net'[i] = net[i]
    BY <2>0, <2>1
  <2>4. Range(Append(net[k].q, j)) = Range(net[k].q) \cup {j}
    BY <2>0, ChannelHolds
  <2>5. j \in Probes => j \notin Range(net[k].q) /\ (net[k].job # j \/ net[k].at \in {"p_wait", "report"})
    BY DEF ProbeIn
  <2>6. Once(Append(net[k].q, j), Probes)
    BY <2>0, <2>5, ChannelOnce DEF OnceNet
  <2>7. OnceNet(k)' /\ \A p \in Probes : ProbeIn(k, p)' => ProbeIn(k, p) \/ p = j
    BY <2>0, <2>2, <2>3, <2>4, <2>5, <2>6 DEF OnceNet, ProbeIn
  <2>8. \A i \in Nets \ {k} : OnceNet(i)' /\ \A p \in Probes : ProbeIn(i, p)' => ProbeIn(i, p)
    BY <2>0, <2>3 DEF OnceNet, ProbeIn
  <2> QED
    BY <2>7, <2>8
\* A network that is given a probe gets it from the dispatcher.
<1>TakenFrom.
    ASSUME ProbesOwned, NEW p \in Probes, NEW from \in Owners, Owns(from, p), NEW to \in Nets,
           \A c \in Conns : p \in Holds(conn'[c]) => p \in Holds(conn[c]),
           \A i \in Nets : ProbeIn(i, p)' => ProbeIn(i, p) \/ i = to,
           \/ from = <<"cmds", 0>> /\ ~ProbeAsked(p)' /\ (held' = p => held = p)
           \/ from = <<"held", 0>> /\ held' # p /\ (ProbeAsked(p)' => ProbeAsked(p))
    PROVE  Handed(p)
  <2> USE <1>TakenFrom
  <2>1. \A x, y \in Owners : Owns(x, p) /\ Owns(y, p) => x = y
    BY DEF ProbesOwned
  <2>2. ASSUME NEW x \in Owners, Owns(x, p)' PROVE x = <<"net", to>> \/ (Owns(x, p) /\ x # from)
    <3>1. CASE x = <<"cmds", 0>> /\ ProbeAsked(p)'
      BY <3>1, OwnersDiffer DEF Owns
    <3>2. CASE x = <<"held", 0>> /\ held' = p
      BY <3>2, OwnersDiffer DEF Owns
    <3>3. ASSUME NEW i \in Nets, x = <<"net", i>>, ProbeIn(i, p)' PROVE x = <<"net", to>> \/ (Owns(x, p) /\ x # from)
      BY <3>3, OwnersDiffer DEF Owns
    <3>4. ASSUME NEW c \in Conns, x = <<"conn", c>>, p \in Holds(conn'[c]) PROVE Owns(x, p) /\ x # from
      BY <3>4, OwnersDiffer DEF Owns
    <3> QED
      BY <2>2, <3>1, <3>2, <3>3, <3>4 DEF Owns
  <2> QED
    BY <2>1, <2>2, <1>HandedOver
\* The dispatcher hands every probe on to one network at most.
<1>DispatchOwns.
    ASSUME Base, NetsConnected, ProbesOwned, Dispatch
    PROVE  OnceEach' /\ \A p \in Probes : Handed(p)
  <2> USE <1>DispatchOwns
  <2>0. /\ net \in [Nets -> NetType] /\ OnceEach /\ Probes \subseteq Jobs /\ Queries \subseteq Jobs
        /\ Probes \cap Queries = {} /\ None \notin Probes /\ cmds \in Seq(Commands)
        /\ held \in Probes \cup {None} /\ networks \in 0..MaxNets
    BY NamesAssumption DEF Base, TypeOK, ProbesOwned, Jobs
  <2>1. \A k \in Conns : Tidy(conn'[k]) /\ \A p \in Probes : p \in Holds(conn'[k]) => p \in Holds(conn[k])
    BY <2>0, DispatchConnected DEF OnceEach
  <2>2. ASSUME cmds # <<>>, Taken
        PROVE  /\ Once(cmds', ProbeCommands) /\ (\A p \in Probes : ProbeAsked(p)' => ProbeAsked(p))
               /\ Head(cmds).op = "probe" => /\ Job \in Probes /\ ProbeAsked(Job)
                                             /\ \A p \in Probes : p = Job => ~ProbeAsked(p)'
    <3>1. Range(cmds) = {Head(cmds)} \cup Range(Tail(cmds)) /\ cmds' = Tail(cmds)
      BY <2>0, <2>2, ChannelHolds DEF Taken
    <3>2. Once(Tail(cmds), ProbeCommands) /\ (Head(cmds) \in ProbeCommands => Head(cmds) \notin Range(Tail(cmds)))
      BY <2>0, <2>2, ChannelOnce DEF OnceEach
    <3>3. ASSUME Head(cmds).op = "probe" PROVE Head(cmds) \in ProbeCommands /\ Head(cmds) = [op |-> "probe", job |-> Job] /\ Job \in Probes
      <4>1. Head(cmds) \in Commands
        BY <2>0, <2>2, ChannelTypes
      <4>2. \A d \in Commands : d.op = "probe" => d \in ProbeCommands /\ d = [op |-> "probe", job |-> d.job] /\ d.job \in Probes
        BY SMT DEF Commands, ProbeCommands
      <4> QED
        BY <3>3, <4>1, <4>2 DEF Job
    <3> QED
      BY <3>1, <3>2, <3>3 DEF ProbeAsked
  <2>3. ASSUME Once(cmds', ProbeCommands), \A i \in Nets : OnceNet(i)' PROVE OnceEach'
    BY <2>1, <2>3 DEF OnceEach
  <2>4. ASSUME \A i \in Nets : net'[i].q = net[i].q /\ net'[i].job = net[i].job /\ net'[i].at = net[i].at
        PROVE  /\ \A i \in Nets : OnceNet(i)'
               /\ \A i \in Nets, p \in Probes : ProbeIn(i, p)' => ProbeIn(i, p)
    BY <2>0, <2>4 DEF OnceEach, OnceNet, ProbeIn
  <2>5. \A i \in Nets : Unregistered[i].q = net[i].q /\ Unregistered[i].job = net[i].job /\ Unregistered[i].at = net[i].at
    BY <2>0 DEF Unregistered, NetType
  <2>6. networks # 0 => networks \in Nets
    BY <2>0, LimitsAssumption, SMT DEF Nets
  <2>7. ASSUME NEW p \in Probes, ProbeAsked(p)' => ProbeAsked(p), held' = p => held = p,
               \A i \in Nets : ProbeIn(i, p)' => ProbeIn(i, p)
        PROVE  Handed(p)
    <3>1. Kept(p)
      BY <2>1, <2>7, <1>KeptByAll
    <3> QED
      BY <3>1 DEF Handed
  <2>8. ASSUME NEW p \in Probes, NEW x \in Owners, NEW k \in Nets, Owns(x, p), x # <<"net", k>> PROVE ~ProbeIn(k, p)
    <3>1. ProbeIn(k, p) => Owns(<<"net", k>>, p)
      BY DEF Owns
    <3> QED
      BY <2>8, <3>1, OwnersDiffer DEF ProbesOwned
  <2>9. CASE Driver_query
    <3>1. cmds # <<>> /\ Taken /\ Job \in Queries /\ UNCHANGED held
      BY <2>9, JobTypes DEF Driver_query, Command, Base
    <3>2. /\ \A i \in Nets : OnceNet(i)'
          /\ \A i \in Nets, p \in Probes : ProbeIn(i, p)' => ProbeIn(i, p)
      <4>1. CASE UNCHANGED net
        BY <2>4, <4>1
      <4>2. CASE networks # 0 /\ net' = [net EXCEPT ![networks].q = Append(@, Job)]
        <5>1. Job \notin Probes /\ Job \in Jobs
          BY <2>0, <3>1
        <5> QED
          BY <2>0, <2>6, <4>2, <5>1, <1>NetTakes
      <4> QED
        BY <2>9, <4>1, <4>2 DEF Driver_query
    <3> QED
      BY <2>2, <2>3, <2>7, <3>1, <3>2
  <2>10. CASE Driver_probe_same
    <3>1. /\ cmds # <<>> /\ Taken /\ Head(cmds).op = "probe" /\ held = None /\ networks \in Nets
      BY <2>6, <2>10 DEF Driver_probe_same, Command, Registered
    <3>2. /\ Job \in Probes /\ ProbeAsked(Job) /\ Once(cmds', ProbeCommands)
          /\ \A p \in Probes : (ProbeAsked(p)' => ProbeAsked(p)) /\ (p = Job => ~ProbeAsked(p)')
      BY <2>2, <3>1
    <3>3. Owns(<<"cmds", 0>>, Job)
      BY <3>2 DEF Owns
    <3>4. CASE net' = [net EXCEPT ![networks].q = Append(@, Job)] /\ UNCHANGED held
      <4>1. ~ProbeIn(networks, Job) /\ Job \in Jobs
        BY <2>0, <2>8, <3>1, <3>2, <3>3, OwnersDiffer
      <4>2. /\ \A i \in Nets : OnceNet(i)'
            /\ \A i \in Nets, p \in Probes : ProbeIn(i, p)' => ProbeIn(i, p) \/ (i = networks /\ p = Job)
        BY <2>0, <3>1, <3>4, <4>1, <1>NetTakes
      <4>3. ASSUME NEW p \in Probes, p = Job PROVE Handed(p)
        BY <2>1, <3>1, <3>2, <3>3, <3>4, <4>2, <4>3, <1>TakenFrom, OwnersDiffer
      <4>4. ASSUME NEW p \in Probes, p # Job PROVE Handed(p)
        BY <2>7, <3>2, <3>4, <4>2, <4>4
      <4> QED
        BY <2>3, <3>2, <4>2, <4>3, <4>4
    <3>5. CASE held' = Job /\ UNCHANGED net
      <4>1. /\ \A i \in Nets : OnceNet(i)'
            /\ \A i \in Nets, p \in Probes : ProbeIn(i, p)' => ProbeIn(i, p)
        BY <2>4, <3>5
      <4>2. ASSUME NEW p \in Probes, p = Job PROVE Handed(p)
        <5>1. \A x, y \in Owners : Owns(x, p) /\ Owns(y, p) => x = y
          BY DEF ProbesOwned
        <5>2. ~ProbeAsked(p)'
          BY <3>2, <4>2
        <5>3. ASSUME NEW x \in Owners, Owns(x, p)' PROVE x = <<"held", 0>> \/ (Owns(x, p) /\ x # <<"cmds", 0>>)
          BY <2>1, <4>1, <5>2, <5>3, OwnersDiffer DEF Owns
        <5> QED
          BY <3>3, <4>2, <5>1, <5>3, <1>HandedOver, OwnersDiffer
      <4>3. ASSUME NEW p \in Probes, p # Job PROVE Handed(p)
        BY <2>7, <3>2, <3>5, <4>1, <4>3
      <4> QED
        BY <2>3, <3>2, <4>1, <4>2, <4>3
    <3> QED
      BY <2>10, <3>4, <3>5 DEF Driver_probe_same
  <2>11. CASE Driver_probe_waited
    <3>1. held \in Probes /\ held' = None /\ UNCHANGED cmds
      BY <2>0, <2>11 DEF Driver_probe_waited
    <3>2. Owns(<<"held", 0>>, held) /\ Once(cmds', ProbeCommands) /\ \A p \in Probes : ProbeAsked(p)' => ProbeAsked(p)
      BY <2>0, <3>1 DEF Owns, ProbeAsked, OnceEach
    <3>3. CASE networks \in Nets
      <4>1. ~ProbeIn(networks, held) /\ held \in Jobs
        BY <2>0, <2>8, <3>1, <3>2, <3>3, OwnersDiffer
      <4>2. /\ \A i \in Nets : OnceNet(i)'
            /\ \A i \in Nets, p \in Probes : ProbeIn(i, p)' => ProbeIn(i, p) \/ (i = networks /\ p = held)
        BY <2>0, <2>11, <3>3, <4>1, <1>NetTakes DEF Driver_probe_waited
      <4>3. ASSUME NEW p \in Probes, p = held PROVE Handed(p)
        <5>1. held' # p
          BY <2>0, <3>1, <4>3
        <5> QED
          BY <2>1, <3>2, <3>3, <4>2, <4>3, <5>1, <1>TakenFrom, OwnersDiffer
      <4>4. ASSUME NEW p \in Probes, p # held PROVE Handed(p)
        BY <2>0, <2>7, <3>1, <3>2, <4>2, <4>4
      <4> QED
        BY <2>3, <3>2, <4>2, <4>3, <4>4
    <3>4. CASE networks \notin Nets
      <4>1. UNCHANGED net
        BY <2>0, <2>11, <3>4 DEF Driver_probe_waited
      <4>2. \A p \in Probes : held' # p
        BY <2>0, <3>1
      <4> QED
        BY <2>3, <2>4, <2>7, <3>2, <4>1, <4>2
    <3> QED
      BY <3>3, <3>4
  <2>12. ASSUME net' = Unregistered, cmds # <<>>, Taken, UNCHANGED held PROVE OnceEach' /\ \A p \in Probes : Handed(p)
    BY <2>2, <2>3, <2>4, <2>5, <2>7, <2>12
  <2>13. CASE Driver_probe_new
    <3>1. cmds # <<>> /\ Taken /\ Head(cmds).op = "probe" /\ UNCHANGED held
      BY <2>13 DEF Driver_probe_new, Command
    <3>2. /\ Job \in Probes /\ ProbeAsked(Job) /\ Once(cmds', ProbeCommands)
          /\ \A p \in Probes : (ProbeAsked(p)' => ProbeAsked(p)) /\ (p = Job => ~ProbeAsked(p)')
      BY <2>2, <3>1
    <3>3. Owns(<<"cmds", 0>>, Job)
      BY <3>2 DEF Owns
    <3>4. ASSUME NEW i \in Nets, NEW c, NEW info,
                 net' = [Unregistered EXCEPT ![i] = [NoNet EXCEPT !.handle = TRUE, !.info = info,
                                                     !.q = <<Job>>, !.at = "recv", !.conn = c]]
          PROVE  OnceEach' /\ \A p \in Probes : Handed(p)
      <4>1. PICK n : n = [NoNet EXCEPT !.handle = TRUE, !.info = info, !.q = <<Job>>, !.at = "recv", !.conn = c]
        OBVIOUS
      <4>2. n.q = <<Job>> /\ n.job = None
        BY <4>1, SMT DEF NoNet
      <4>3. Range(n.q) = {Job} /\ Once(n.q, Probes)
        <5>1. Range(<<Job>>) = {Job} /\ \A a, b \in DOMAIN <<Job>> : a = b
          BY SMT DEF Range
        <5> QED
          BY <4>2, <5>1 DEF Once
      <4>4. Unregistered \in [Nets -> NetType]
        BY <2>0, UnregisteredType
      <4>5. net'[i] = n /\ \A k \in Nets \ {i} : net'[k] = Unregistered[k]
        BY <3>4, <4>1, <4>4
      <4>6. \A k \in Nets : OnceNet(k)'
        <5>1. OnceNet(i)'
          BY <2>0, <4>2, <4>3, <4>5 DEF OnceNet
        <5>2. \A k \in Nets \ {i} : OnceNet(k)'
          BY <2>0, <2>5, <4>5 DEF OnceEach, OnceNet
        <5> QED
          BY <5>1, <5>2
      <4>7. \A k \in Nets, p \in Probes : ProbeIn(k, p)' => ProbeIn(k, p) \/ (k = i /\ p = Job)
        BY <2>0, <2>5, <4>2, <4>3, <4>5 DEF ProbeIn
      <4>8. ASSUME NEW p \in Probes, p = Job PROVE Handed(p)
        BY <2>1, <3>1, <3>2, <3>3, <4>7, <4>8, <1>TakenFrom, OwnersDiffer
      <4>9. ASSUME NEW p \in Probes, p # Job PROVE Handed(p)
        BY <2>7, <3>1, <3>2, <4>7, <4>9
      <4> QED
        BY <2>3, <3>2, <4>6, <4>8, <4>9
    <3> QED
      BY <2>12, <2>13, <3>1, <3>4 DEF Driver_probe_new
  <2>14. CASE Driver_clear
    BY <2>12, <2>14 DEF Driver_clear, Command
  <2> QED
    BY <2>9, <2>10, <2>11, <2>13, <2>14 DEF Dispatch
\* A connection's step takes no probe in.
<1>ConnOwns.
    ASSUME Base, ProbesOwned, NEW c \in Conns, ConnDriver(c) \/ Peer(c)
    PROVE  /\ OnceEach' /\ \A p \in Probes : Kept(p)
           /\ \A p \in Probes : \A x \in Owners : Owns(x, p)' => resp'[p] = resp[p]
  <2> USE <1>ConnOwns
  <2>0. /\ conn \in [Conns -> ConnType] /\ UNCHANGED <<cmds, held, net>> /\ OnceEach /\ Probes \subseteq Jobs
    BY ConnEffect DEF Base, TypeOK, ProbesOwned, Jobs
  <2>1. PICK d : conn' = [conn EXCEPT ![c] = d] /\ Keeps(c, d)
    BY ConnKeeps
  <2>2. conn'[c] = d /\ \A k \in Conns \ {c} : conn'[k] = conn[k]
    BY <2>0, <2>1
  <2>3. Tidy(conn[c]) /\ Tidy(d) /\ Holds(d) \subseteq Holds(conn[c]) /\ \A p \in Probes \cap Holds(d) : resp'[p] = resp[p]
    BY <2>0, <2>1 DEF Keeps, OnceEach
  <2>4. OnceEach'
    <3>1. \A k \in Conns : Tidy(conn'[k])
      BY <2>0, <2>2, <2>3 DEF OnceEach
    <3>2. \A i \in Nets : OnceNet(i)'
      BY <2>0 DEF OnceEach, OnceNet
    <3> QED
      BY <2>0, <3>1, <3>2 DEF OnceEach
  <2>5. \A p \in Probes : Kept(p)
    <3> SUFFICES ASSUME NEW p \in Probes PROVE Kept(p)
      OBVIOUS
    <3>1. ProbeAsked(p)' => ProbeAsked(p)
      BY <2>0 DEF ProbeAsked
    <3>2. \A i \in Nets : ProbeIn(i, p)' => ProbeIn(i, p)
      BY <2>0 DEF ProbeIn
    <3>3. \A k \in Conns : p \in Holds(conn'[k]) => p \in Holds(conn[k])
      BY <2>2, <2>3
    <3> QED
      BY <2>0, <3>1, <3>2, <3>3, <1>KeptByAll
  <2>6. ASSUME NEW p \in Probes, NEW x \in Owners, Owns(x, p)', resp'[p] # resp[p] PROVE FALSE
    <3>1. p \in Holds(conn[c])
      BY <2>0, <2>6, ConnAnswers
    <3>2. Owns(<<"conn", c>>, p) /\ Owns(x, p)
      BY <2>5, <2>6, <3>1 DEF Owns, Kept
    <3>3. x = <<"conn", c>>
      BY <2>6, <3>2, OwnersDiffer DEF ProbesOwned
    <3>4. p \in Holds(conn'[c])
      <4>1. PICK e \in Conns : x = <<"conn", e>> /\ p \in Holds(conn'[e])
        BY <2>6, <3>3, OwnersDiffer DEF Owns
      <4> QED
        BY <3>3, <4>1, OwnersDiffer
    <3> QED
      BY <2>2, <2>3, <2>6, <3>4
  <2> QED
    BY <2>4, <2>5, <2>6
\* A caller starts at most one probe, one that was nowhere.
<1>CallersOwn.
    ASSUME Base, ProbesOwned,
           \/ \E q \in Queries : doh_query(q) \/ doh_query_send(q) \/ Expire(q) \/ doh_query_returns(q) \/ Deliver(q)
           \/ \E p \in Probes : doh_net_new(p)
           \/ doh_net_delete
    PROVE  /\ OnceEach'
           /\ \A p \in Probes : \/ Kept(p)
                                \/ /\ resp[p] = Pending /\ probe'[p].at # "none"
                                   /\ \A x \in Owners : Owns(x, p)' => x = <<"cmds", 0>>
  <2> USE <1>CallersOwn
  <2>0. /\ UNCHANGED <<held, net, conn>> /\ OnceEach /\ cmds \in Seq(Commands) /\ probe \in [Probes -> ProbeType]
    BY CallersEffect DEF Base, TypeOK, ProbesOwned
  <2>1. ASSUME Once(cmds', ProbeCommands) PROVE OnceEach'
    BY <2>0, <2>1 DEF OnceEach, OnceNet
  <2>2. ASSUME NEW p \in Probes, ProbeAsked(p)' => ProbeAsked(p) PROVE Kept(p)
    BY <2>0, <2>2, <1>KeptByAll DEF ProbeIn
  <2>3. ASSUME NEW p \in Probes, doh_net_new(p)
        PROVE  /\ Once(cmds', ProbeCommands) /\ \A o \in Probes \ {p} : ProbeAsked(o)' => ProbeAsked(o)
               /\ resp[p] = Pending /\ probe'[p].at # "none" /\ ~\E x \in Owners : Owns(x, p)
    <3>1. PICK d : d = [op |-> "probe", job |-> p]
      OBVIOUS
    <3>2. d \in Commands /\ d.job = p /\ \A o \in Probes : [op |-> "probe", job |-> o].job = o
      BY <3>1 DEF Commands
    <3>3. cmds' = Append(cmds, d) /\ probe[p].at = "none" /\ probe' = [probe EXCEPT ![p] = [info |-> scene.probes[p], at |-> "asked"]]
      BY <2>3, <3>1 DEF doh_net_new, send_cmd
    <3>4. resp[p] = Pending /\ ~\E x \in Owners : Owns(x, p)
      BY <3>3 DEF ProbesOwned
    <3>5. d \notin Range(cmds)
      BY <3>1, <3>4, OwnersDiffer DEF Owns, ProbeAsked
    <3>6. Range(cmds') = Range(cmds) \cup {d}
      BY <2>0, <3>2, <3>3, ChannelHolds
    <3>7. Once(cmds', ProbeCommands)
      BY <2>0, <3>2, <3>3, <3>5, ChannelOnce DEF OnceEach
    <3>8. probe'[p].at # "none"
      <4>1. probe'[p] = [info |-> scene.probes[p], at |-> "asked"]
        BY <2>0, <3>3
      <4> QED
        BY <4>1, SMT
    <3> QED
      BY <3>2, <3>4, <3>6, <3>7, <3>8 DEF ProbeAsked
  <2>4. ASSUME NEW p \in Probes, doh_net_new(p), NEW x \in Owners, Owns(x, p)' PROVE x = <<"cmds", 0>>
    <3>1. ~Owns(x, p)
      BY <2>3, <2>4
    <3> QED
      BY <2>0, <2>4, <3>1 DEF Owns, ProbeIn
  <2>5. ASSUME \E p \in Probes : doh_net_new(p)
        PROVE  /\ OnceEach'
               /\ \A p \in Probes : \/ Kept(p)
                                    \/ /\ resp[p] = Pending /\ probe'[p].at # "none"
                                       /\ \A x \in Owners : Owns(x, p)' => x = <<"cmds", 0>>
    <3>1. PICK o \in Probes : doh_net_new(o)
      BY <2>5
    <3>2. \A p \in Probes \ {o} : Kept(p)
      BY <2>2, <2>3, <3>1
    <3> QED
      BY <2>1, <2>3, <2>4, <3>1, <3>2
  <2>6. ASSUME UNCHANGED cmds PROVE OnceEach' /\ \A p \in Probes : Kept(p)
    BY <2>0, <2>1, <2>2, <2>6 DEF OnceEach, ProbeAsked
  <2>7. ASSUME NEW d \in Commands, d.op # "probe", cmds' = Append(cmds, d) PROVE OnceEach' /\ \A p \in Probes : Kept(p)
    <3>1. d \notin ProbeCommands /\ \A p \in Probes : [op |-> "probe", job |-> p].op = "probe"
      BY <2>7 DEF ProbeCommands
    <3>2. Range(cmds') = Range(cmds) \cup {d}
      BY <2>0, <2>7, ChannelHolds
    <3>3. Once(cmds', ProbeCommands)
      BY <2>0, <2>7, <3>1, ChannelOnce DEF OnceEach
    <3> QED
      BY <2>1, <2>2, <2>7, <3>1, <3>2, <3>3 DEF ProbeAsked
  <2>8. ASSUME NEW q \in Queries, doh_query(q) \/ doh_query_send(q) \/ Expire(q) \/ doh_query_returns(q) \/ Deliver(q)
        PROVE  OnceEach' /\ \A p \in Probes : Kept(p)
    <3>1. [op |-> "query", job |-> q] \in Commands /\ [op |-> "query", job |-> q].op # "probe"
      BY SMT DEF Commands
    <3>2. UNCHANGED cmds \/ cmds' = Append(cmds, [op |-> "query", job |-> q])
      BY <2>8 DEF doh_query, doh_query_send, Expire, doh_query_returns, Deliver, send_cmd
    <3> QED
      BY <2>6, <2>7, <3>1, <3>2
  <2>9. ASSUME doh_net_delete PROVE OnceEach' /\ \A p \in Probes : Kept(p)
    <3>1. [op |-> "clear", job |-> None] \in Commands /\ [op |-> "clear", job |-> None].op # "probe"
      BY SMT DEF Commands
    <3> QED
      BY <2>7, <2>9, <3>1 DEF doh_net_delete, send_cmd
  <2> QED
    BY <2>5, <2>8, <2>9
\* A probe that is kept or handed over is where it belongs.
<1>HandedOwned.
    ASSUME ProbesOwned, NEW p \in Probes, Handed(p), probe[p].at # "none" => probe'[p].at # "none"
    PROVE  /\ \A x, y \in Owners : Owns(x, p)' /\ Owns(y, p)' => x = y
           /\ \A x \in Owners : Owns(x, p)' => resp[p] = Pending /\ probe'[p].at # "none"
  <2> USE <1>HandedOwned
  <2>1. /\ \A x, y \in Owners : Owns(x, p) /\ Owns(y, p) => x = y
        /\ \A x \in Owners : Owns(x, p) => resp[p] = Pending /\ probe'[p].at # "none"
    BY DEF ProbesOwned
  <2>2. CASE Kept(p)
    BY <2>1, <2>2 DEF Kept
  <2>3. CASE (\E x \in Owners : Owns(x, p)) /\ \E y : \A x \in Owners : Owns(x, p)' => x = y
    BY <2>1, <2>3
  <2> QED
    BY <2>2, <2>3 DEF Handed
<1> SUFFICES ASSUME Base, NetsConnected, ProbesOwned, [Next]_vars PROVE ProbesOwned'
  OBVIOUS
<1>1. CASE UNCHANGED vars
  <2>1. UNCHANGED <<cmds, held, net, conn, resp, probe>>
    BY <1>1 DEF vars
  <2>2. OnceEach'
    BY <2>1 DEF ProbesOwned, OnceEach, OnceNet
  <2>3. \A x, p : Owns(x, p)' => Owns(x, p)
    BY <2>1 DEF Owns, ProbeAsked, ProbeIn
  <2> QED
    BY <2>1, <2>2, <2>3 DEF ProbesOwned
<1>2. CASE Next
  <2>1. \A p \in Probes : probe[p].at # "none" => probe'[p].at # "none"
    BY <1>2, ProbeStays
  <2>2. \A p \in Probes : probe'[p].at = "none" => resp'[p] = Pending
    BY <1>2, <2>1, ProbeAnswered DEF ProbesOwned
  <2>3. \A p \in Probes : resp'[p].st = "pending" => resp'[p] = Pending
    BY <1>2, ProbeAnswered DEF ProbesOwned
  <2>4. ASSUME OnceEach', \A p \in Probes : Handed(p), UNCHANGED resp PROVE ProbesOwned'
    BY <2>1, <2>2, <2>3, <2>4, <1>HandedOwned DEF ProbesOwned
  <2>5. ASSUME Dispatch PROVE ProbesOwned'
    BY <2>4, <2>5, <1>DispatchOwns, DispatchEffect
  <2>6. ASSUME NEW i \in Nets, NetDriver(i) \/ p_timeout(i) PROVE ProbesOwned'
    BY <2>4, <2>6, <1>DriverOwns, DriverEffect
  <2>7. ASSUME NEW c \in Conns, ConnDriver(c) \/ Peer(c) PROVE ProbesOwned'
    <3>1. OnceEach' /\ (\A p \in Probes : Handed(p)) /\ \A p \in Probes : \A x \in Owners : Owns(x, p)' => resp'[p] = resp[p]
      BY <2>7, <1>ConnOwns DEF Handed
    <3> QED
      BY <2>1, <2>2, <2>3, <3>1, <1>HandedOwned DEF ProbesOwned
  <2>8. ASSUME \/ \E q \in Queries : doh_query(q) \/ doh_query_send(q) \/ Expire(q) \/ doh_query_returns(q) \/ Deliver(q)
               \/ \E p \in Probes : doh_net_new(p)
               \/ doh_net_delete
        PROVE  ProbesOwned'
    <3>1. OnceEach' /\ UNCHANGED resp
      BY <2>8, <1>CallersOwn, CallersEffect
    <3>2. ASSUME NEW p \in Probes
          PROVE  /\ \A x, y \in Owners : Owns(x, p)' /\ Owns(y, p)' => x = y
                 /\ \A x \in Owners : Owns(x, p)' => resp[p] = Pending /\ probe'[p].at # "none"
      <4>1. CASE Kept(p)
        BY <2>1, <4>1, <1>HandedOwned DEF Handed
      <4>2. CASE ~Kept(p)
        BY <2>8, <4>2, <1>CallersOwn
      <4> QED
        BY <4>1, <4>2
    <3> QED
      BY <2>2, <2>3, <3>1, <3>2 DEF ProbesOwned
  <2> QED
    BY <1>2, <2>5, <2>6, <2>7, <2>8 DEF Next
<1> QED
  BY <1>1, <1>2

\* At the start every probe is nowhere, or answered.
LEMMA InitOwned == Init => ProbesOwned
<1> SUFFICES ASSUME Init PROVE ProbesOwned
  OBVIOUS
<1>0. /\ NoNet.q = <<>> /\ NoNet.job = None /\ Range(<<>>) = {} /\ DOMAIN <<>> = {} /\ None \notin Probes /\ Probes \subseteq Jobs
      /\ NoProbe.at = "none"
  <2>1. NoNet.q = <<>> /\ NoNet.job = None /\ Range(<<>>) = {} /\ DOMAIN <<>> = {} /\ NoProbe.at = "none"
    BY SMT DEF NoNet, Range, NoProbe
  <2> QED
    BY <2>1, NamesAssumption DEF Jobs
<1>1. cmds = <<>> /\ held = None
  BY DEF Init
<1>2. \A i \in Nets : net[i].q = <<>> /\ net[i].job = None
  <2>1. CASE scene.live
    <3>1. PICK n : n = [NoNet EXCEPT !.handle = TRUE, !.info = scene.probes[1], !.status = "Live", !.at = "recv", !.conn = 1]
      OBVIOUS
    <3>2. n.q = <<>> /\ n.job = None
      BY <3>1, SMT DEF NoNet
    <3>3. net = [[i \in Nets |-> NoNet] EXCEPT ![1] = n]
      BY <2>1, <3>1 DEF Init
    <3>4. \A i \in Nets : net[i] = NoNet \/ net[i] = n
      BY <3>3
    <3> QED
      BY <1>0, <3>2, <3>4
  <2>2. CASE ~scene.live
    BY <1>0, <2>2 DEF Init
  <2> QED
    BY <2>1, <2>2
<1>3. \A c \in Conns : conn[c].rq = <<>> /\ conn[c].sent = {} /\ conn[c].buf = None
  <2>0. NoConn.rq = <<>> /\ NoConn.sent = {} /\ NoConn.buf = None
    BY SMT DEF NoConn
  <2>1. CASE scene.live
    <3>1. PICK d : d = [NoConn EXCEPT !.info = scene.probes[1], !.tx = TRUE, !.val = "H3", !.news = TRUE, !.phase = "h3"]
      OBVIOUS
    <3>2. d.rq = <<>> /\ d.sent = {} /\ d.buf = None
      BY <3>1, SMT DEF NoConn
    <3>3. conn = [[c \in Conns |-> NoConn] EXCEPT ![1] = d]
      BY <2>1, <3>1 DEF Init
    <3>4. \A c \in Conns : conn[c] = NoConn \/ conn[c] = d
      BY <3>3
    <3> QED
      BY <2>0, <3>2, <3>4
  <2>2. CASE ~scene.live
    BY <2>0, <2>2 DEF Init
  <2> QED
    BY <2>1, <2>2
<1>4. OnceEach
  <2>1. \A i \in Nets : OnceNet(i)
    BY <1>0, <1>2 DEF OnceNet, Once
  <2>2. \A c \in Conns : Tidy(conn[c])
    BY <1>0, <1>3 DEF Tidy, Once
  <2> QED
    BY <1>0, <1>1, <2>1, <2>2 DEF OnceEach, Once
<1>5. \A p \in Probes : \A x \in Owners : ~Owns(x, p)
  BY <1>0, <1>1, <1>2, <1>3 DEF Owns, ProbeAsked, ProbeIn, Holds
<1>6. \A p \in Probes : /\ probe[p].at = "none" => resp[p] = Pending
                        /\ resp[p].st = "pending" => resp[p] = Pending
  <2>1. CASE scene.live
    <3>1. PICK r, g : r = [st |-> "stream", of |-> 1] /\ g = [info |-> scene.probes[1], at |-> "valid"]
      OBVIOUS
    <3>2. r.st = "stream" /\ g.at = "valid"
      BY <3>1, SMT
    <3>3. resp = [[j \in Jobs |-> Pending] EXCEPT ![1] = r] /\ probe = [[p \in Probes |-> NoProbe] EXCEPT ![1] = g]
      BY <2>1, <3>1 DEF Init
    <3>4. \A p \in Probes : (p # 1 /\ resp[p] = Pending) \/ (resp[p] = r /\ probe[p] = g)
      BY <1>0, <3>3
    <3> QED
      BY <3>2, <3>4
  <2>2. CASE ~scene.live
    <3>1. resp = [j \in Jobs |-> Pending]
      BY <2>2 DEF Init
    <3> QED
      BY <1>0, <3>1
  <2> QED
    BY <2>1, <2>2
<1> QED
  BY <1>4, <1>5, <1>6 DEF ProbesOwned

----------------------------------------------------------------------------
(* Only validated servers get queries                                       *)

\* A server whose probe was answered stays one.
LEMMA ValidatedStays ==
    ASSUME Base, ProbesOwned, Next
    PROVE  \A info : Validated(info) => \E p \in Probes : probe'[p].info = info /\ resp'[p].st \in {"stream", "reset"}
<1> SUFFICES ASSUME NEW info, Validated(info)
             PROVE  \E p \in Probes : probe'[p].info = info /\ resp'[p].st \in {"stream", "reset"}
  OBVIOUS
<1>1. PICK p \in Probes : probe[p].info = info /\ resp[p].st \in {"stream", "reset"}
  BY DEF Validated
<1>2. resp[p] # Pending
  BY <1>1, SMT DEF Pending
<1>3. resp'[p] = resp[p] /\ probe[p].at # "none"
  BY <1>2, ProbeAnswered DEF ProbesOwned
<1>4. probe'[p].info = info
  BY <1>1, <1>3, ProbeStays
<1> QED
  BY <1>1, <1>3, <1>4

\* Every step keeps queries with validated servers.
LEMMA NextValid == Base /\ NetsConnected /\ ProbesOwned /\ OnlyValidated /\ [Next]_vars => OnlyValidated'
\* A network that takes in what belongs to it, and is live only when its server is validated,
\* is good.
<1>NetValidKept.
    ASSUME Base, ProbesOwned, Next, NEW i \in Nets, NetValid(i), net'[i].info = net[i].info,
           Running(i)' /\ net'[i].status = "Live" => Validated(net[i].info),
           \A p \in Probes : InNet(i, p)' => InNet(i, p) \/ (probe[p].info = net[i].info /\ probe[p].at # "none"),
           \A q \in Queries : InNet(i, q)' => InNet(i, q) \/ Validated(net[i].info)
    PROVE  NetValid(i)'
  <2> USE <1>NetValidKept
  <2>1. Validated(net[i].info) => \E p \in Probes : probe'[p].info = net'[i].info /\ resp'[p].st \in {"stream", "reset"}
    BY ValidatedStays
  <2>2. \A p \in Probes : InNet(i, p)' => probe'[p].info = net'[i].info /\ probe'[p].at # "none"
    BY ProbeStays DEF NetValid
  <2>3. \A q \in Queries : InNet(i, q)' => Validated(net[i].info)
    BY DEF NetValid
  <2> QED
    BY <2>1, <2>2, <2>3 DEF NetValid, Validated
\* A connection that keeps its server and takes in only what may be sent there is good.
<1>ConnValidKept.
    ASSUME Base, ProbesOwned, Next, NEW c \in Conns, ConnValid(c),
           \/ Holds(conn'[c]) = {}
           \/ /\ conn'[c].info = conn[c].info
              /\ \A q \in Queries : q \in Holds(conn'[c]) => q \in Holds(conn[c]) \/ Validated(conn[c].info)
    PROVE  ConnValid(c)'
  <2> USE <1>ConnValidKept
  <2>1. CASE Holds(conn'[c]) = {}
    BY <2>1 DEF ConnValid
  <2>2. CASE /\ conn'[c].info = conn[c].info
             /\ \A q \in Queries : q \in Holds(conn'[c]) => q \in Holds(conn[c]) \/ Validated(conn[c].info)
    <3>1. Validated(conn[c].info) => \E p \in Probes : probe'[p].info = conn'[c].info /\ resp'[p].st \in {"stream", "reset"}
      BY <2>2, ValidatedStays
    <3>2. \A q \in Queries : q \in Holds(conn'[c]) => Validated(conn[c].info)
      BY <2>2 DEF ConnValid
    <3> QED
      BY <3>1, <3>2 DEF ConnValid, Validated
  <2> QED
    BY <2>1, <2>2
\* What the driver of a network does to the connections: one that it drops keeps its requests,
\* one that it makes has none, and one that it uses gets the job.
<1>DriverHolds.
    ASSUME Base, NetsConnected, NEW i \in Nets, NetDriver(i) \/ p_timeout(i), NEW k \in Conns
    PROVE  \/ Holds(conn'[k]) = {}
           \/ /\ conn'[k].info = conn[k].info
              /\ \A j : j \in Holds(conn'[k]) => j \in Holds(conn[k]) \/ (k = net[i].conn /\ j = net[i].job)
  <2> USE <1>DriverHolds
  <2> DEFINE Good == \/ Holds(conn'[k]) = {}
                     \/ /\ conn'[k].info = conn[k].info
                        /\ \A j : j \in Holds(conn'[k]) => j \in Holds(conn[k]) \/ (k = net[i].conn /\ j = net[i].job)
  <2>0. conn \in [Conns -> ConnType] /\ Empty /\ Running(i)
    BY DriverEffect DEF Base, TypeOK, NetsConnected, Empty
  <2>1. PICK c0 \in Conns : c0 = net[i].conn /\ conn[c0].phase # "none"
    BY <2>0 DEF NetsConnected
  <2>2. PICK cn : cn = Disconnect(conn, c0) /\ Disconnected(cn, c0)
    BY <2>0, <2>1, DisconnectParts
  <2>3. cn[k] = conn[k] \/ Holds(cn[k]) = {} \/ (cn[k].info = conn[k].info /\ Holds(cn[k]) = Holds(conn[k]))
    BY <2>2 DEF Disconnected
  <2>4. CASE Ends(i)
    <3>1. conn' = cn
      BY <2>1, <2>2, <2>4 DEF Ends
    <3> QED
      BY <2>3, <3>1
  <2>5. CASE Reconnects(i)
    <3>1. PICK c \in Conns : conn' = Connect(cn, c, net[i].info)
      BY <2>1, <2>2, <2>5 DEF Reconnects, NewConns
    <3>2. Connected(conn', cn, c, net[i].info)
      BY <2>2, <3>1, ConnectParts DEF Disconnected
    <3>3. conn'[k] = cn[k] \/ Holds(conn'[k]) = {}
      BY <3>2 DEF Connected
    <3> QED
      BY <2>3, <3>3
  <2>6. CASE Stays(i)
    <3>1. PICK d : conn' = [conn EXCEPT ![c0] = d] /\ SameConn(conn[c0], d)
      BY <2>1, <2>6 DEF Stays
    <3>2. conn'[k] = conn[k] \/ (k = c0 /\ conn'[k] = d)
      BY <2>0, <3>1
    <3>3. Holds(d) = Holds(conn[c0]) /\ d.info = conn[c0].info
      BY <3>1 DEF SameConn, Holds
    <3> QED
      BY <3>2, <3>3
  <2>7. CASE Requests(i)
    <3>1. Queued(i) /\ net[i].job \in Jobs
      BY <2>7 DEF Requests, Jobs
    <3>2. /\ \A m \in Conns \ {c0} : conn'[m] = conn[m]
          /\ conn'[c0].info = conn[c0].info
          /\ Holds(conn'[c0]) = Holds(conn[c0]) \cup {net[i].job}
      BY <2>0, <2>1, <3>1, QueuedParts
    <3>3. CASE k = c0
      BY <2>1, <3>2, <3>3
    <3>4. CASE k # c0
      BY <3>2, <3>4
    <3> QED
      BY <3>3, <3>4
  <2> QED
    BY <2>4, <2>5, <2>6, <2>7, DriverConn
\* A network's step sends queries only where its probe was answered.
<1>DriverValid.
    ASSUME Base, NetsConnected, ProbesOwned, OnlyValidated, Next, NEW i \in Nets, NetDriver(i) \/ p_timeout(i)
    PROVE  OnlyValidated'
  <2> USE <1>DriverValid
  <2>0. /\ net \in [Nets -> NetType] /\ Running(i) /\ UNCHANGED <<held, networks>> /\ OnceNet(i) /\ Fits(net[i])
        /\ NetValid(i) /\ Probes \subseteq Jobs /\ Queries \subseteq Jobs
    BY DriverEffect DEF Base, TypeOK, JobsFit, ProbesOwned, OnceEach, OnlyValidated, Jobs
  <2>1. PICK n : net' = [net EXCEPT ![i] = n] /\ NetMove(net[i], n)
    BY DriverMoves
  <2>2. net'[i] = n /\ \A k \in Nets \ {i} : net'[k] = net[k]
    BY <2>0, <2>1
  <2>3. /\ n.info = net[i].info /\ n.handle = net[i].handle /\ n.at # "none" /\ (n.at = "ended" => ~net[i].handle)
        /\ n.status = "Live" => net[i].status = "Live" \/ Answered(net[i])
    BY <2>1 DEF NetMove
  <2>4. \A k \in Nets : net'[k].info = net[k].info /\ net'[k].handle = net[k].handle
    BY <2>2, <2>3
  <2>5. networks # 0 => networks \in Nets
    BY LimitsAssumption, SMT DEF Base, TypeOK, Nets
  <2>6. NetworkServed'
    BY <2>0, <2>2, <2>3, <2>5 DEF OnlyValidated, NetworkServed
  <2>7. held' # None => networks' # 0 /\ probe'[held'].info = net'[networks'].info
    <3> SUFFICES ASSUME held # None PROVE networks # 0 /\ probe'[held].info = net'[networks].info
      BY <2>0
    <3>1. held \in Probes /\ networks \in Nets /\ probe[held].info = net[networks].info
      BY <2>5 DEF Base, TypeOK, OnlyValidated
    <3>2. probe[held].at # "none"
      BY <3>1, OwnersDiffer DEF ProbesOwned, Owns
    <3>3. probe'[held].info = probe[held].info
      BY <3>1, <3>2, ProbeStays
    <3> QED
      BY <2>4, <3>1, <3>3 DEF OnlyValidated
  <2>8. Answered(net[i]) => Validated(net[i].info)
    <3> SUFFICES ASSUME Answered(net[i]) PROVE Validated(net[i].info)
      OBVIOUS
    <3>1. net[i].job \in Probes /\ resp[net[i].job] # Pending /\ resp[net[i].job].st # "dropped"
      BY <2>0 DEF Answered, Fits
    <3>2. probe[net[i].job].info = net[i].info
      BY <2>0, <3>1 DEF NetValid, InNet
    <3>3. resp[net[i].job].st # "pending" /\ resp[net[i].job] \in RespType
      BY <2>0, <3>1 DEF ProbesOwned, Base, TypeOK
    <3>4. resp[net[i].job].st \in {"stream", "reset"}
      BY <3>1, <3>3 DEF RespType
    <3> QED
      BY <3>1, <3>2, <3>4 DEF Validated
  <2>9. NetValid(i)'
    <3>1. \A j \in Jobs : InNet(i, j)' => InNet(i, j)
      BY <2>0, <2>1, MoveOnce
    <3>2. n.status = "Live" => Validated(net[i].info)
      BY <2>0, <2>3, <2>8 DEF NetValid
    <3> QED
      BY <2>0, <2>2, <2>3, <3>1, <3>2, <1>NetValidKept
  <2>10. ASSUME NEW k \in Nets, k # i PROVE NetValid(k)'
    <3>1. net'[k] = net[k] /\ NetValid(k)
      BY <2>2, <2>10 DEF OnlyValidated
    <3>2. /\ Running(k)' /\ net'[k].status = "Live" => Validated(net[k].info)
          /\ \A j : InNet(k, j)' => InNet(k, j)
      BY <3>1 DEF Running, InNet, NetValid
    <3> QED
      BY <3>1, <3>2, <1>NetValidKept
  <2>11. ASSUME NEW c \in Conns PROVE ConnValid(c)'
    <3>1. ConnValid(c)
      BY DEF OnlyValidated
    <3>2. ASSUME c = net[i].conn PROVE \A q \in Queries : q = net[i].job => Validated(conn[c].info)
      BY <2>0, <3>2 DEF NetValid, InNet, NetsConnected
    <3> QED
      BY <3>1, <3>2, <1>DriverHolds, <1>ConnValidKept
  <2> QED
    BY <2>6, <2>7, <2>9, <2>10, <2>11 DEF OnlyValidated
\* A connection's step does too.
<1>ConnStepValid.
    ASSUME Base, ProbesOwned, OnlyValidated, Next, NEW c \in Conns, ConnDriver(c) \/ Peer(c)
    PROVE  OnlyValidated'
  <2> USE <1>ConnStepValid
  <2>0. conn \in [Conns -> ConnType] /\ UNCHANGED <<held, networks, net, probe>>
    BY ConnEffect DEF Base, TypeOK
  <2>1. PICK d : conn' = [conn EXCEPT ![c] = d] /\ Keeps(c, d)
    BY ConnKeeps
  <2>2. conn'[c] = d /\ \A k \in Conns \ {c} : conn'[k] = conn[k]
    BY <2>0, <2>1
  <2>3. (d.info = conn[c].info \/ Holds(d) = {}) /\ Holds(d) \subseteq Holds(conn[c])
    BY <2>1 DEF Keeps
  <2>4. ASSUME NEW i \in Nets PROVE NetValid(i)'
    <3>1. NetValid(i) /\ net'[i] = net[i]
      BY <2>0 DEF OnlyValidated
    <3>2. /\ Running(i)' /\ net'[i].status = "Live" => Validated(net[i].info)
          /\ \A j : InNet(i, j)' => InNet(i, j)
      BY <3>1 DEF Running, InNet, NetValid
    <3> QED
      BY <3>1, <3>2, <1>NetValidKept
  <2>5. ASSUME NEW k \in Conns PROVE ConnValid(k)'
    <3>1. ConnValid(k)
      BY DEF OnlyValidated
    <3>2. \/ Holds(conn'[k]) = {}
          \/ conn'[k].info = conn[k].info /\ \A j : j \in Holds(conn'[k]) => j \in Holds(conn[k])
      <4>1. CASE k = c
        BY <2>2, <2>3, <4>1
      <4>2. CASE k # c
        <5>1. conn'[k] = conn[k]
          BY <2>2, <4>2
        <5> QED
          BY <5>1
      <4> QED
        BY <4>1, <4>2
    <3> QED
      BY <3>1, <3>2, <1>ConnValidKept
  <2> QED
    BY <2>0, <2>4, <2>5 DEF OnlyValidated, NetworkServed
\* And a caller's.
<1>CallersValid.
    ASSUME Base, ProbesOwned, OnlyValidated, Next,
           \/ \E q \in Queries : doh_query(q) \/ doh_query_send(q) \/ Expire(q) \/ doh_query_returns(q) \/ Deliver(q)
           \/ \E p \in Probes : doh_net_new(p)
           \/ doh_net_delete
    PROVE  OnlyValidated'
  <2> USE <1>CallersValid
  <2>0. UNCHANGED <<held, networks, net, conn>>
    BY CallersEffect
  <2>1. ASSUME NEW i \in Nets PROVE NetValid(i)'
    <3>1. NetValid(i) /\ net'[i] = net[i]
      BY <2>0 DEF OnlyValidated
    <3>2. /\ Running(i)' /\ net'[i].status = "Live" => Validated(net[i].info)
          /\ \A j : InNet(i, j)' => InNet(i, j)
      BY <3>1 DEF Running, InNet, NetValid
    <3> QED
      BY <3>1, <3>2, <1>NetValidKept
  <2>2. ASSUME NEW k \in Conns PROVE ConnValid(k)'
    <3>1. ConnValid(k) /\ conn'[k] = conn[k]
      BY <2>0 DEF OnlyValidated
    <3> QED
      BY <3>1, <1>ConnValidKept
  <2>3. held' # None => networks' # 0 /\ probe'[held'].info = net'[networks'].info
    <3> SUFFICES ASSUME held # None PROVE networks # 0 /\ probe'[held].info = net[networks].info
      BY <2>0
    <3>1. held \in Probes /\ probe[held].info = net[networks].info /\ networks # 0
      BY DEF Base, TypeOK, OnlyValidated
    <3>2. probe[held].at # "none"
      BY <3>1, OwnersDiffer DEF ProbesOwned, Owns
    <3> QED
      BY <3>1, <3>2, ProbeStays
  <2> QED
    BY <2>0, <2>1, <2>2, <2>3 DEF OnlyValidated, NetworkServed
\* The dispatcher gives a network its own probes, and queries only when it is live.
<1>DispatchValid.
    ASSUME Base, NetsConnected, ProbesOwned, OnlyValidated, Next, Dispatch
    PROVE  OnlyValidated'
  <2> USE <1>DispatchValid
  <2>0. /\ net \in [Nets -> NetType] /\ held \in Probes \cup {None} /\ None \notin Probes /\ None \notin Queries
        /\ Probes \cap Queries = {} /\ Probes \subseteq Jobs /\ Queries \subseteq Jobs
        /\ \A i \in Nets : NetValid(i)
    BY NamesAssumption DEF Base, TypeOK, OnlyValidated, Jobs
  <2>1. networks # 0 => networks \in Nets
    BY LimitsAssumption, SMT DEF Base, TypeOK, Nets
  <2>2. ASSUME NEW c \in Conns PROVE ConnValid(c)'
    <3>1. ConnValid(c)
      BY DEF OnlyValidated
    <3>2. CASE conn[c].phase = "none"
      <4>1. Holds(conn'[c]) = {}
        BY <3>2, DispatchConnected DEF NetsConnected
      <4> QED
        BY <4>1 DEF ConnValid
    <3>3. CASE conn[c].phase # "none"
      <4>1. conn'[c] = conn[c]
        BY <3>3, DispatchConnected
      <4> QED
        BY <3>1, <4>1, <1>ConnValidKept
    <3> QED
      BY <3>2, <3>3
  <2>3. ASSUME NEW i \in Nets, net'[i].q = net[i].q, net'[i].job = net[i].job, net'[i].at = net[i].at,
               net'[i].status = net[i].status, net'[i].info = net[i].info
        PROVE  NetValid(i)'
    <3>1. /\ Running(i)' /\ net'[i].status = "Live" => Validated(net[i].info)
          /\ \A j : InNet(i, j)' => InNet(i, j)
      BY <2>0, <2>3 DEF Running, InNet, NetValid
    <3> QED
      BY <2>0, <2>3, <3>1, <1>NetValidKept
  <2>4. ASSUME NEW j \in Jobs, networks # 0, net' = [net EXCEPT ![networks].q = Append(@, j)], UNCHANGED networks,
               j \in Probes => probe[j].info = net[networks].info /\ probe[j].at # "none",
               j \in Queries => Validated(net[networks].info)
        PROVE  (\A i \in Nets : NetValid(i)') /\ NetworkServed' /\ net'[networks].info = net[networks].info
    <3>1. PICK k \in Nets : k = networks
      BY <2>1, <2>4
    <3>2. PICK n : n = [net[k] EXCEPT !.q = Append(net[k].q, j)]
      OBVIOUS
    <3>3. net[k] \in NetType /\ net[k].q \in Seq(Jobs)
      BY <2>0, NetParts
    <3>4. /\ n.q = Append(net[k].q, j) /\ n.job = net[k].job /\ n.at = net[k].at /\ n.status = net[k].status
          /\ n.info = net[k].info /\ n.handle = net[k].handle
      BY <3>2, <3>3 DEF NetType
    <3>11. net' = [net EXCEPT ![k] = n]
      BY <2>4, <3>1, <3>2, SMT
    <3>5. net'[k] = n /\ \A i \in Nets \ {k} : net'[i] = net[i]
      BY <2>0, <3>11
    <3>12. Range(Append(net[k].q, j)) = Range(net[k].q) \cup {j}
      BY <3>3, ChannelHolds
    <3>6. Range(n.q) = Range(net[k].q) \cup {j}
      BY <3>4, <3>12
    <3>7. \A l : InNet(k, l)' => InNet(k, l) \/ l = j
      BY <3>4, <3>5, <3>6 DEF InNet
    <3>8. NetValid(k)'
      <4>1. Running(k)' /\ net'[k].status = "Live" => Validated(net[k].info)
        BY <2>0, <3>4, <3>5 DEF Running, NetValid
      <4>2. /\ \A p \in Probes : InNet(k, p)' => InNet(k, p) \/ (probe[p].info = net[k].info /\ probe[p].at # "none")
            /\ \A q \in Queries : InNet(k, q)' => InNet(k, q) \/ Validated(net[k].info)
        BY <2>4, <3>1, <3>7
      <4> QED
        BY <2>0, <3>4, <3>5, <4>1, <4>2, <1>NetValidKept
    <3>9. \A i \in Nets : NetValid(i)'
      BY <2>3, <3>5, <3>8
    <3>10. NetworkServed'
      BY <2>4, <3>1, <3>4, <3>5 DEF OnlyValidated, NetworkServed
    <3> QED
      BY <3>1, <3>4, <3>5, <3>9, <3>10
  <2>5. ASSUME UNCHANGED <<net, networks>> PROVE (\A i \in Nets : NetValid(i)') /\ NetworkServed'
    BY <2>3, <2>5 DEF OnlyValidated, NetworkServed
  <2>6. ASSUME Head(cmds).op = "probe", cmds # <<>> PROVE Job \in Probes /\ probe[Job].at # "none"
    <3>1. cmds \in Seq(Commands) /\ Head(cmds) \in Commands /\ Range(cmds) = {Head(cmds)} \cup Range(Tail(cmds))
      BY <2>6, ChannelTypes, ChannelHolds DEF Base, TypeOK
    <3>2. \A d \in Commands : d.op = "probe" => d = [op |-> "probe", job |-> d.job] /\ d.job \in Probes
      BY SMT DEF Commands
    <3>3. Job \in Probes /\ ProbeAsked(Job)
      BY <2>6, <3>1, <3>2 DEF Job, ProbeAsked
    <3> QED
      BY <3>3, OwnersDiffer DEF ProbesOwned, Owns
  <2>7. CASE Driver_query
    <3>1. held = None /\ UNCHANGED <<held, networks>> /\ Job \in Queries
      BY <2>7, JobTypes DEF Driver_query, Command, Base
    <3>2. (\A i \in Nets : NetValid(i)') /\ NetworkServed'
      <4>1. CASE UNCHANGED net
        BY <2>5, <3>1, <4>1
      <4>2. CASE networks # 0 /\ forwards(net[networks].status) /\ net' = [net EXCEPT ![networks].q = Append(@, Job)]
        <5>1. Validated(net[networks].info)
          BY <2>0, <2>1, <4>2 DEF forwards, NetValid, OnlyValidated, NetworkServed, Running
        <5>2. Job \in Jobs /\ Job \notin Probes
          BY <2>0, <3>1
        <5> QED
          BY <2>4, <3>1, <4>2, <5>1, <5>2
      <4> QED
        BY <2>7, <4>1, <4>2 DEF Driver_query
    <3> QED
      BY <2>2, <3>1, <3>2 DEF OnlyValidated
  <2>8. CASE Driver_probe_same
    <3>1. /\ held = None /\ UNCHANGED <<networks, probe>> /\ networks # 0 /\ net[networks].info = probe[Job].info
          /\ Head(cmds).op = "probe" /\ cmds # <<>>
      BY <2>8 DEF Driver_probe_same, Command, Registered
    <3>2. Job \in Probes /\ probe[Job].at # "none" /\ Job \in Jobs /\ Job \notin Queries
      BY <2>0, <2>6, <3>1
    <3>3. CASE net' = [net EXCEPT ![networks].q = Append(@, Job)] /\ UNCHANGED held
      <4>1. (\A i \in Nets : NetValid(i)') /\ NetworkServed'
        BY <2>4, <3>1, <3>2, <3>3
      <4> QED
        BY <2>2, <3>1, <3>3, <4>1 DEF OnlyValidated
    <3>4. CASE held' = Job /\ UNCHANGED net
      BY <2>2, <2>5, <3>1, <3>4 DEF OnlyValidated
    <3> QED
      BY <2>8, <3>3, <3>4 DEF Driver_probe_same
  <2>9. CASE Driver_probe_waited
    <3>1. /\ held # None /\ held' = None /\ UNCHANGED networks /\ networks # 0 /\ probe[held].info = net[networks].info
          /\ held \in Probes /\ net' = [net EXCEPT ![networks].q = Append(@, held)]
      BY <2>0, <2>9 DEF Driver_probe_waited, OnlyValidated
    <3>2. probe[held].at # "none" /\ held \in Jobs /\ held \notin Queries
      BY <2>0, <3>1, OwnersDiffer DEF ProbesOwned, Owns
    <3>3. (\A i \in Nets : NetValid(i)') /\ NetworkServed'
      BY <2>4, <3>1, <3>2
    <3> QED
      BY <2>2, <3>1, <3>3 DEF OnlyValidated
  <2>10. /\ Unregistered \in [Nets -> NetType]
         /\ \A i \in Nets : /\ Unregistered[i].q = net[i].q /\ Unregistered[i].job = net[i].job /\ Unregistered[i].at = net[i].at
                            /\ Unregistered[i].status = net[i].status /\ Unregistered[i].info = net[i].info
    <3>1. Unregistered \in [Nets -> NetType]
      BY <2>0, UnregisteredType
    <3>2. \A i \in Nets : Unregistered[i] = net[i] \/ Unregistered[i] = [net[i] EXCEPT !.handle = FALSE]
      BY <2>0 DEF Unregistered
    <3>3. ASSUME NEW m \in NetType, NEW n, n = [m EXCEPT !.handle = FALSE]
          PROVE  n.q = m.q /\ n.job = m.job /\ n.at = m.at /\ n.status = m.status /\ n.info = m.info
      BY <3>3 DEF NetType
    <3> QED
      BY <2>0, <3>1, <3>2, <3>3
  <2>11. ASSUME net' = Unregistered, networks' = 0, held = None, UNCHANGED held PROVE OnlyValidated'
    <3>1. \A i \in Nets : NetValid(i)'
      BY <2>3, <2>10, <2>11
    <3> QED
      BY <2>2, <2>11, <3>1 DEF OnlyValidated, NetworkServed
  <2>12. CASE Driver_probe_new
    <3>1. held = None /\ UNCHANGED held /\ Job \in Probes /\ probe[Job].at # "none" /\ Job \notin Queries
      BY <2>0, <2>6, <2>12 DEF Driver_probe_new, Command
    <3>2. ASSUME NEW i \in Nets, NEW c,
                 net' = [Unregistered EXCEPT ![i] = [NoNet EXCEPT !.handle = TRUE, !.info = probe[Job].info,
                                                     !.q = <<Job>>, !.at = "recv", !.conn = c]],
                 networks' = i, UNCHANGED probe
          PROVE  OnlyValidated'
      <4>1. PICK n : n = [NoNet EXCEPT !.handle = TRUE, !.info = probe[Job].info, !.q = <<Job>>, !.at = "recv", !.conn = c]
        OBVIOUS
      <4>2. n.q = <<Job>> /\ n.job = None /\ n.at = "recv" /\ n.handle /\ n.info = probe[Job].info /\ n.status = "Unprobed"
        BY <4>1, SMT DEF NoNet
      <4>3. Range(<<Job>>) = {Job}
        BY SMT DEF Range
      <4>4. net'[i] = n /\ \A k \in Nets \ {i} : net'[k] = Unregistered[k]
        BY <2>10, <3>2, <4>1
      <4>5. \A j \in Jobs : InNet(i, j)' => j = Job
        BY <2>0, <4>2, <4>3, <4>4, NamesAssumption DEF InNet
      <4>6. NetValid(i)'
        <5>0. n.status # "Live"
          BY <4>2, SMT
        <5>1. net'[i].status # "Live" /\ net'[i].info = probe[Job].info /\ probe[Job].at # "none" /\ probe' = probe
          BY <3>1, <3>2, <4>2, <4>4, <5>0
        <5> QED
          BY <2>0, <3>1, <4>5, <5>1 DEF NetValid
      <4>7. \A k \in Nets \ {i} : NetValid(k)'
        BY <2>3, <2>10, <4>4
      <4>8. NetworkServed'
        BY <3>2, <4>2, <4>4, SMT DEF NetworkServed
      <4> QED
        BY <2>2, <3>1, <4>6, <4>7, <4>8 DEF OnlyValidated
    <3> QED
      BY <2>11, <2>12, <3>1, <3>2 DEF Driver_probe_new
  <2>13. CASE Driver_clear
    BY <2>11, <2>13 DEF Driver_clear, Command
  <2> QED
    BY <2>7, <2>8, <2>9, <2>12, <2>13 DEF Dispatch
<1> SUFFICES ASSUME Base, NetsConnected, ProbesOwned, OnlyValidated, [Next]_vars PROVE OnlyValidated'
  OBVIOUS
<1>1. CASE UNCHANGED vars
  <2>1. UNCHANGED <<held, networks, net, conn, resp, probe>>
    BY <1>1 DEF vars
  <2>2. \A info : Validated(info)' <=> Validated(info)
    BY <2>1 DEF Validated
  <2>3. \A i \in Nets : NetValid(i)'
    BY <2>1 DEF OnlyValidated, NetValid, Validated, Running, InNet
  <2>4. \A c \in Conns : ConnValid(c)'
    BY <2>1 DEF OnlyValidated, ConnValid, Validated
  <2> QED
    BY <2>1, <2>3, <2>4 DEF OnlyValidated, NetworkServed
<1>2. CASE Next
  BY <1>2, <1>CallersValid, <1>DispatchValid, <1>DriverValid, <1>ConnStepValid DEF Next
<1> QED
  BY <1>1, <1>2

\* At the start a network that is live has a probe that was answered.
LEMMA InitValid == Init => OnlyValidated
<1> SUFFICES ASSUME Init PROVE OnlyValidated
  OBVIOUS
<1>0. /\ NoNet.q = <<>> /\ NoNet.job = None /\ NoNet.at = "none" /\ Range(<<>>) = {} /\ None \notin Jobs
      /\ Probes \subseteq Jobs /\ Queries \subseteq Jobs
  <2>1. NoNet.q = <<>> /\ NoNet.job = None /\ NoNet.at = "none" /\ Range(<<>>) = {}
    BY SMT DEF NoNet, Range
  <2> QED
    BY <2>1, NamesAssumption DEF Jobs
<1>1. \A i \in Nets : net[i] = NoNet => NetValid(i)
  BY <1>0 DEF NetValid, Running, InNet
<1>2. \A c \in Conns : ConnValid(c)
  <2>1. \A c \in Conns : conn[c].rq = <<>> /\ conn[c].sent = {} /\ conn[c].buf = None
    <3>0. NoConn.rq = <<>> /\ NoConn.sent = {} /\ NoConn.buf = None
      BY SMT DEF NoConn
    <3>1. CASE scene.live
      <4>1. PICK d : d = [NoConn EXCEPT !.info = scene.probes[1], !.tx = TRUE, !.val = "H3", !.news = TRUE, !.phase = "h3"]
        OBVIOUS
      <4>2. d.rq = <<>> /\ d.sent = {} /\ d.buf = None
        BY <4>1, SMT DEF NoConn
      <4>3. conn = [[c \in Conns |-> NoConn] EXCEPT ![1] = d]
        BY <3>1, <4>1 DEF Init
      <4>4. \A c \in Conns : conn[c] = NoConn \/ conn[c] = d
        BY <4>3
      <4> QED
        BY <3>0, <4>2, <4>4
    <3>2. CASE ~scene.live
      BY <3>0, <3>2 DEF Init
    <3> QED
      BY <3>1, <3>2
  <2> QED
    BY <1>0, <2>1 DEF ConnValid, Holds
<1>3. CASE scene.live
  <2>0. 1 \in Nets /\ 1 \in Probes
    <3>1. scene.probes # <<>> /\ scene \in Scenes
      BY <1>3, ScenesAssumption DEF Init
    <3>2. PICK m \in 0..MaxProbes : scene.probes \in [1..m -> Servers]
      BY <3>1, ScenesAssumption, SMT
    <3>3. m # 0
      BY <3>1, <3>2, SMT
    <3> QED
      BY <3>2, <3>3, LimitsAssumption, SMT DEF Nets, Probes
  <2>1. PICK info, n, r, g :
           /\ info = scene.probes[1]
           /\ n = [NoNet EXCEPT !.handle = TRUE, !.info = info, !.status = "Live", !.at = "recv", !.conn = 1]
           /\ r = [st |-> "stream", of |-> 1] /\ g = [info |-> info, at |-> "valid"]
    OBVIOUS
  <2>2. n.q = <<>> /\ n.job = None /\ n.at = "recv" /\ n.handle /\ n.info = info /\ r.st = "stream" /\ g.info = info
    BY <2>1, SMT DEF NoNet
  <2>3. /\ networks = 1 /\ held = None
        /\ net = [[i \in Nets |-> NoNet] EXCEPT ![1] = n]
        /\ resp = [[j \in Jobs |-> Pending] EXCEPT ![1] = r]
        /\ probe = [[p \in Probes |-> NoProbe] EXCEPT ![1] = g]
    BY <1>3, <2>1 DEF Init
  <2>4. net[1] = n /\ (\A i \in Nets \ {1} : net[i] = NoNet) /\ resp[1] = r /\ probe[1] = g
    BY <1>0, <2>0, <2>3
  <2>5. Validated(info)
    BY <2>0, <2>2, <2>4 DEF Validated
  <2>6. NetValid(1)
    BY <1>0, <2>2, <2>4, <2>5 DEF NetValid, InNet
  <2>7. NetworkServed
    BY <2>2, <2>3, <2>4, SMT DEF NetworkServed
  <2> QED
    BY <1>1, <1>2, <2>3, <2>4, <2>6, <2>7 DEF OnlyValidated
<1>4. CASE ~scene.live
  <2>1. networks = 0 /\ held = None /\ net = [i \in Nets |-> NoNet]
    BY <1>4 DEF Init
  <2> QED
    BY <1>1, <1>2, <2>1 DEF OnlyValidated, NetworkServed
<1> QED
  BY <1>3, <1>4

\* The invariant of the DoH client holds in every reachable state.
LEMMA DohInvariant == Spec => [](Base /\ ProbesOwned /\ OnlyValidated)
<1>1. Init => Base /\ NetsConnected /\ RequestTracked /\ ProbesOwned /\ OnlyValidated
  <2>1. Init => RequestTracked
    BY DEF Init, RequestTracked
  <2> QED
    BY <2>1, InitType, InitFits, InitConnected, InitOwned, InitValid DEF Base
<1> QED
  BY <1>1, NextBase, NextTracked, NextOwned, NextValid, PTL DEF Spec

\* A query is on the wire to a server only if a probe of that very server was answered, however
\* often the network is replaced and its connection lost and made again (Network::query(),
\* Driver::probe()).
THEOREM QueriesGoToValidated == Spec => []SentOnlyToValidated
<1>1. Base /\ OnlyValidated => SentOnlyToValidated
  <2> SUFFICES ASSUME Base, OnlyValidated, NEW c \in Conns, NEW q \in Queries, q \in conn[c].sent
               PROVE  Validated(conn[c].info)
    BY DEF SentOnlyToValidated, Validated
  <2>1. q \in Holds(conn[c])
    BY NamesAssumption DEF Holds, Jobs
  <2> QED
    BY <2>1 DEF OnlyValidated, ConnValid
<1> QED
  BY <1>1, DohInvariant, PTL

\* The dispatcher never sends to a driver that has ended: as long as a network is registered
\* its driver runs, whatever failed on it (Driver::drive()).
THEOREM RegisteredIsServed == Spec => []NetworkServed
<1>1. OnlyValidated => NetworkServed
  BY DEF OnlyValidated
<1> QED
  BY <1>1, DohInvariant, PTL
=============================================================================
