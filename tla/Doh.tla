-------------------------------- MODULE Doh ---------------------------------
(***************************************************************************)
(* DNS over HTTPS (rust/src/doh): doh_query() and its callers, the          *)
(* dispatcher task, one task per Network and one per HTTP/3 connection, for *)
(* one net_id whose network is probed, replaced and cleared.                *)
(*                                                                         *)
(* Channels: the dispatcher's commands and each network's are bounded       *)
(* queues; a connection's requests are one too.  A watch channel is its     *)
(* value and whether the receiver has seen the last change.  A oneshot is   *)
(* pending until something is sent or its sender is dropped.  A task that   *)
(* ends drops what it owns.  Every await is the end of a step.              *)
(*                                                                         *)
(* quiche and the server are external: a handshake succeeds, times out or   *)
(* breaks; a peer drains or closes; a stream is answered, reset or never    *)
(* heard of again.                                                          *)
(***************************************************************************)
EXTENDS Naturals, Sequences, Functions

CONSTANTS
    Queries,                 \* the calls of doh_query()
    Servers,                 \* the ServerInfos the network is probed with
    MAX_BUFFERED_CMD_COUNT, MAX_BUFFERED_COMMANDS, MAX_PENDING_REQUESTS,
    MaxProbes,               \* bound: calls of doh_net_new()
    Scenes,                  \* bounds: whether a network is live, and the calls that come
    MaxNets, MaxConns,       \* bounds: networks and connections created; past them it fails
    None

Probes == 1..MaxProbes
Nets == 1..MaxNets
Conns == 1..MaxConns
Jobs == Probes \cup Queries

ASSUME LimitsAssumption ==
    /\ MAX_BUFFERED_CMD_COUNT \in Nat \ {0} /\ MAX_BUFFERED_COMMANDS \in Nat \ {0}
    /\ MAX_PENDING_REQUESTS \in Nat \ {0}
    /\ MaxProbes \in Nat /\ MaxNets \in Nat \ {0} /\ MaxConns \in Nat \ {0}
ASSUME NamesAssumption == Queries \cap Probes = {} /\ None \notin Jobs /\ None \notin Servers
ASSUME ScenesAssumption ==
    /\ Scenes \subseteq [live: BOOLEAN, queries: SUBSET Queries, probes: UNION {[1..m -> Servers] : m \in 0..MaxProbes}, clears: Nat]
    /\ \A s \in Scenes : s.live => s.probes # <<>>

VARIABLES
    call,       \* call[q]: the caller and its oneshot of the Response
    cmds, held, \* the dispatcher's channel and the probe it is waiting to pass on
    networks,   \* the Network registered, 0 if none
    net,        \* net[i]: handle, status and command channel of a Network, and its Driver
    conn,       \* conn[c]: a Connection and its Driver or H3Driver
    resp,       \* resp[j]: the oneshot of the Stream of a request
    spawned,    \* the queries whose response a spawned task awaits
    probe,      \* probe[p]: its server and what became of it
    clears,     \* calls of doh_net_delete() still to come
    scene

vars == <<call, cmds, held, networks, net, conn, resp, spawned, probe, clears, scene>>

NoNet == [handle |-> FALSE, info |-> None, status |-> "Unprobed", q |-> <<>>, at |-> "none",
          job |-> None, conn |-> 0]
NoConn == [info |-> None, tx |-> FALSE, val |-> "QUIC", news |-> FALSE, phase |-> "none",
           rq |-> <<>>, closing |-> FALSE, buf |-> None, sent |-> {}]

Pending == [st |-> "pending", of |-> None]
NoProbe == [info |-> None, at |-> "none"]

\* Either netd has just started or the network has been probed and is live.
Init ==
    /\ call = [q \in Queries |-> [at |-> "idle", expired |-> FALSE, rsp |-> "pending", got |-> None,
                                  code |-> "none"]]
    /\ cmds = <<>> /\ held = None /\ spawned = {}
    /\ scene \in Scenes /\ clears = scene.clears
    /\ IF scene.live
       THEN LET info == scene.probes[1] IN
              /\ networks = 1
              /\ net = [[i \in Nets |-> NoNet] EXCEPT ![1] =
                          [NoNet EXCEPT !.handle = TRUE, !.info = info, !.status = "Live",
                                        !.at = "recv", !.conn = 1]]
              /\ conn = [[c \in Conns |-> NoConn] EXCEPT ![1] =
                           [NoConn EXCEPT !.info = info, !.tx = TRUE, !.val = "H3", !.news = TRUE,
                                          !.phase = "h3"]]
              /\ resp = [[j \in Jobs |-> Pending] EXCEPT ![1] = [st |-> "stream", of |-> 1]]
              /\ probe = [[p \in Probes |-> NoProbe] EXCEPT ![1] = [info |-> info, at |-> "valid"]]
       ELSE /\ networks = 0
            /\ net = [i \in Nets |-> NoNet]
            /\ conn = [c \in Conns |-> NoConn]
            /\ resp = [j \in Jobs |-> Pending]
            /\ probe = [p \in Probes |-> NoProbe]

----------------------------------------------------------------------------
(* The C callers: ffi.rs                                                    *)

\* Holding the dispatcher's mutex a caller waits for room in the channel.
send_cmd(cmd) ==
    /\ Len(cmds) < MAX_BUFFERED_CMD_COUNT
    /\ cmds' = Append(cmds, cmd)

callerVars == <<held, networks, net, conn, resp, spawned>>

doh_query(q) ==
    /\ call[q].at = "idle" /\ q \in scene.queries
    /\ \/ /\ send_cmd([op |-> "query", job |-> q])
          /\ call' = [call EXCEPT ![q].at = "waiting"]
       \/ /\ Len(cmds) = MAX_BUFFERED_CMD_COUNT
          /\ call' = [call EXCEPT ![q].at = "sending"] /\ UNCHANGED cmds
       \/ /\ call' = [call EXCEPT ![q] = [@ EXCEPT !.at = "done", !.code = "CAN_NOT_SEND"]]
          /\ UNCHANGED cmds
    /\ UNCHANGED <<callerVars, probe, clears, scene>>

doh_query_send(q) ==
    /\ call[q].at = "sending"
    /\ send_cmd([op |-> "query", job |-> q])
    /\ call' = [call EXCEPT ![q].at = "waiting"]
    /\ UNCHANGED <<callerVars, probe, clears, scene>>

\* Mutant: the caller waits for its answer without a timeout.
Expire_Unset(q) == FALSE /\ UNCHANGED vars

\* expired_time passes.
Expire(q) ==
    /\ call[q].at \in {"sending", "waiting"} /\ ~call[q].expired
    /\ call' = [call EXCEPT ![q].expired = TRUE]
    /\ UNCHANGED <<cmds, callerVars, probe, clears, scene>>

\* The result of timeout(t, resp_rx): a response, a dropped sender or the time is up.
doh_query_returns(q) ==
    /\ call[q].at = "waiting"
    /\ \/ /\ call[q].rsp # "pending"
          /\ \E code \in IF call[q].rsp = "Success" THEN {"answer", "INTERNAL_ERROR"}
                         ELSE {"CAN_NOT_SEND"} :
               call' = [call EXCEPT ![q] = [@ EXCEPT !.at = "done", !.code = code]]
       \/ /\ call[q].expired
          /\ call' = [call EXCEPT ![q] = [@ EXCEPT !.at = "done", !.code = "TIMEOUT"]]
    /\ UNCHANGED <<cmds, callerVars, probe, clears, scene>>

doh_net_new(p) ==
    /\ p <= Len(scene.probes) /\ probe[p].at = "none" /\ \A o \in 1..(p - 1) : probe[o].at # "none"
    /\ send_cmd([op |-> "probe", job |-> p])
    /\ probe' = [probe EXCEPT ![p] = [info |-> scene.probes[p], at |-> "asked"]]
    /\ UNCHANGED <<call, callerVars, clears, scene>>

doh_net_delete ==
    /\ clears > 0
    /\ send_cmd([op |-> "clear", job |-> None])
    /\ clears' = clears - 1
    /\ UNCHANGED <<call, callerVars, probe, scene>>

----------------------------------------------------------------------------
(* Connections and networks come and go                                     *)

\* The response senders of these queries are dropped, or sent an error.
Lost(cl, qs, rsp) ==
    [q \in Queries |-> IF q \in qs /\ cl[q].rsp = "pending" THEN [cl[q] EXCEPT !.rsp = rsp] ELSE cl[q]]

\* The stream senders of these requests are dropped.
Dropped(js) == [j \in Jobs |-> IF j \in js /\ resp[j] = Pending THEN [Pending EXCEPT !.st = "dropped"]
                            ELSE resp[j]]

NewConns == {c \in Conns : conn[c].phase = "none" /\ \A d \in 1..(c - 1) : conn[d].phase # "none"}

\* Connection::new(): its driver starts.
Connect(cn, c, info) == [cn EXCEPT ![c] = [NoConn EXCEPT !.info = info, !.tx = TRUE, !.phase = "quic"]]

\* What a connection driver still has.
Has(c) == (Range(conn[c].rq) \cup conn[c].sent \cup {conn[c].buf}) \ {None}

\* The Connection is dropped.  A driver that then has no request left only closes: its
\* remaining steps change nothing for anybody and are left out.
Buried == [NoConn EXCEPT !.phase = "gone"]
Disconnect(cn, c) == [cn EXCEPT ![c] = IF @.phase = "gone" \/ Has(c) = {} THEN Buried
                                       ELSE [@ EXCEPT !.tx = FALSE]]

\* The Network's driver returns: its queue and its connection go.
Ended(n) == [n EXCEPT !.at = "ended", !.q = <<>>, !.job = None]

\* The Network is removed from the map: its sender and status receiver are dropped.
Unregistered == IF networks = 0 THEN net ELSE [net EXCEPT ![networks].handle = FALSE]

----------------------------------------------------------------------------
(* dispatcher/driver.rs                                                     *)

\* The command at the head of the channel, when the driver is ready for it.
Command(op) == held = None /\ cmds # <<>> /\ Head(cmds).op = op
Job == Head(cmds).job
Taken == cmds' = Tail(cmds)

\* Mutant: a query goes to a network that has not been probed yet.
forwards_Unprobed(status) == status \in {"Live", "Unprobed"}

\* Network::query() hands the query to the driver only when the network is live.
forwards(status) == status = "Live"

Driver_query ==
    /\ Command("query") /\ Taken
    /\ IF networks = 0 \/ ~forwards(net[networks].status)
       THEN call' = Lost(call, {Job}, "Error") /\ UNCHANGED net
       ELSE IF Len(net[networks].q) < MAX_BUFFERED_COMMANDS
       THEN net' = [net EXCEPT ![networks].q = Append(@, Job)] /\ UNCHANGED call
       ELSE call' = Lost(call, {Job}, "Dropped") /\ UNCHANGED net
    /\ UNCHANGED <<held, networks, conn, resp, spawned, probe, clears, scene>>

Registered(info) == networks # 0 /\ net[networks].info = info
Room == Len(net[networks].q) < MAX_BUFFERED_COMMANDS

\* The network is there: the driver waits for room in its channel, and with it everybody.
Driver_probe_same ==
    /\ Command("probe") /\ Registered(probe[Job].info) /\ Taken
    /\ IF Room THEN net' = [net EXCEPT ![networks].q = Append(@, Job)] /\ UNCHANGED held
       ELSE held' = Job /\ UNCHANGED net
    /\ UNCHANGED <<call, networks, conn, resp, spawned, probe, clears, scene>>

Driver_probe_waited ==
    /\ held # None /\ Room
    /\ net' = [net EXCEPT ![networks].q = Append(@, held)]
    /\ held' = None
    /\ UNCHANGED <<call, cmds, networks, conn, resp, spawned, probe, clears, scene>>

\* No network, or one for another server: it is replaced; creating the new one may fail.
Driver_probe_new ==
    /\ Command("probe") /\ ~Registered(probe[Job].info) /\ Taken
    /\ LET info == probe[Job].info IN
       \/ /\ net' = Unregistered /\ networks' = 0
          /\ probe' = [probe EXCEPT ![Job].at = "unreported"]
          /\ UNCHANGED conn
       \/ \E i \in Nets, c \in NewConns :
            /\ net[i].at = "none" /\ \A k \in 1..(i - 1) : net[k].at # "none"
            /\ net' = [Unregistered EXCEPT ![i] = [NoNet EXCEPT !.handle = TRUE, !.info = info,
                                                   !.q = <<Job>>, !.at = "recv", !.conn = c]]
            /\ conn' = Connect(conn, c, info)
            /\ networks' = i
            /\ UNCHANGED probe
    /\ UNCHANGED <<call, held, resp, spawned, clears, scene>>

Driver_clear ==
    /\ Command("clear") /\ Taken
    /\ net' = Unregistered /\ networks' = 0
    /\ UNCHANGED <<call, held, conn, resp, spawned, probe, clears, scene>>

----------------------------------------------------------------------------
(* network/driver.rs                                                        *)

Unreported(ps) ==
    [p \in Probes |-> IF p \in ps /\ probe[p].at = "asked" THEN [probe[p] EXCEPT !.at = "unreported"]
                      ELSE probe[p]]

\* drive() returns: the network's handle is gone.
EndNet(i) ==
    LET left == Range(net[i].q) \cup {net[i].job} IN
    /\ net' = [net EXCEPT ![i] = Ended(@)]
    /\ conn' = Disconnect(conn, net[i].conn)
    /\ call' = Lost(call, left, "Dropped")
    /\ probe' = Unreported(left)

At(i, at) == net[i].at = at
Goto(i, at) == net' = [net EXCEPT ![i].at = at]
NetStep(i) == UNCHANGED <<cmds, held, networks, resp, clears, scene>>

\* What wait_for_live() finds first.
Look(c) == IF conn[c].val = "H3" THEN "q_send" ELSE IF conn[c].val = "Dead" THEN "reconnect" ELSE "wait1"

recv(i) ==
    /\ At(i, "recv") /\ net[i].q # <<>>
    /\ LET j == Head(net[i].q)
           n == [net[i] EXCEPT !.q = Tail(@), !.job = j]
       IN IF j \in Probes
          THEN /\ net' = [net EXCEPT ![i] = [n EXCEPT !.at =
                            IF n.status = "Failed" THEN "reconnect"
                            ELSE IF n.status = "Live" THEN "report" ELSE "p_query"]]
               /\ UNCHANGED call
          ELSE IF call[j].at = "done"
          THEN /\ net' = [net EXCEPT ![i] = [n EXCEPT !.job = None]]
               /\ call' = Lost(call, {j}, "Dropped")
          ELSE net' = [net EXCEPT ![i] = [n EXCEPT !.at = Look(n.conn)]] /\ UNCHANGED call
    /\ NetStep(i) /\ UNCHANGED <<conn, spawned, probe>>

recv_none(i) ==
    /\ At(i, "recv") /\ net[i].q = <<>> /\ ~net[i].handle
    /\ EndNet(i)
    /\ NetStep(i) /\ UNCHANGED spawned

\* drive() only logs an error of send_query() and goes on.
NextCommand(n) == [n EXCEPT !.at = "recv", !.job = None]

QueryFailed(i) ==
    /\ net' = [net EXCEPT ![i] = NextCommand(@)]
    /\ call' = Lost(call, {net[i].job}, "Dropped")
    /\ NetStep(i) /\ UNCHANGED <<conn, spawned, probe>>

\* build_connection() of probe() on a failed network, which is then unprobed again, or of
\* send_query().
reconnect(i) ==
    /\ At(i, "reconnect")
    /\ \E c \in NewConns :
         IF net[i].job \in Queries
         THEN /\ conn' = Connect(Disconnect(conn, net[i].conn), c, net[i].info)
              /\ net' = [net EXCEPT ![i] = [@ EXCEPT !.at = "q_send", !.conn = c]]
              /\ UNCHANGED <<call, probe>>
         ELSE IF net[i].handle
         THEN /\ conn' = Connect(Disconnect(conn, net[i].conn), c, net[i].info)
              /\ net' = [net EXCEPT ![i] = [@ EXCEPT !.at = "p_query", !.conn = c,
                                                    !.status = "Unprobed"]]
              /\ UNCHANGED <<call, probe>>
         ELSE EndNet(i)
    /\ NetStep(i) /\ UNCHANGED spawned

reconnect_fails(i) ==
    /\ At(i, "reconnect")
    /\ IF net[i].job \in Queries THEN QueryFailed(i)
       ELSE /\ IF net[i].handle
               THEN /\ net' = [net EXCEPT ![i] = [NextCommand(@) EXCEPT !.status = "Failed"]]
                    /\ probe' = Unreported({net[i].job})
                    /\ UNCHANGED <<call, conn>>
               ELSE EndNet(i)
            /\ NetStep(i) /\ UNCHANGED spawned

\* A send on status_tx, which fails when the handle is gone and then ends the driver.
Status(i, status, next) ==
    /\ IF net[i].handle
       THEN /\ net' = [net EXCEPT ![i] = [@ EXCEPT !.status = status, !.at = next]]
            /\ UNCHANGED <<call, conn, probe>>
       ELSE EndNet(i)
    /\ NetStep(i) /\ UNCHANGED spawned

\* Connection::query(): the request is queued, when there is room, unless the driver is gone.
Closed(c) == conn[c].closing \/ conn[c].phase = "gone"
Queued(i) ==
    LET c == net[i].conn IN
    /\ ~Closed(c) /\ Len(conn[c].rq) < MAX_PENDING_REQUESTS
    /\ conn' = [conn EXCEPT ![c].rq = Append(@, net[i].job)]

p_query(i) ==
    /\ At(i, "p_query")
    /\ \/ Closed(net[i].conn) /\ Status(i, "Failed", "report")
       \/ Queued(i) /\ Goto(i, "p_wait") /\ NetStep(i) /\ UNCHANGED <<call, spawned, probe>>

\* "if let Some(_stream) = rsp.await": any stream will do.
ProbeVerdict(r) == IF r = "dropped" THEN "Failed" ELSE "Live"

p_answered(i) ==
    /\ At(i, "p_wait") /\ resp[net[i].job] # Pending
    /\ Status(i, ProbeVerdict(resp[net[i].job].st), "report")

p_timeout(i) ==
    /\ net[i].at \in {"p_query", "p_wait"}
    /\ Status(i, "Failed", "report")

\* The validation callback.
report(i) ==
    /\ At(i, "report")
    /\ probe' = [probe EXCEPT ![net[i].job].at = IF net[i].status = "Live" THEN "valid" ELSE "invalid"]
    /\ net' = [net EXCEPT ![i] = [@ EXCEPT !.at = "recv", !.job = None]]
    /\ NetStep(i) /\ UNCHANGED <<call, conn, spawned>>

\* wait_for_live() while the connection is being set up: one change, and one more.
wait_for_live(i) ==
    /\ net[i].at \in {"wait1", "wait2"}
    /\ LET c == net[i].conn IN
       /\ conn[c].news \/ conn[c].phase = "gone"
       /\ conn' = [conn EXCEPT ![c].news = FALSE]
       /\ Goto(i, IF ~conn[c].news THEN "reconnect"
                  ELSE IF conn[c].val = "H3" THEN "q_send"
                  ELSE IF At(i, "wait1") THEN "wait2" ELSE "reconnect")
    /\ NetStep(i) /\ UNCHANGED <<call, spawned, probe>>

\* The request is sent and a task of its own waits for the stream.
q_send(i) ==
    /\ At(i, "q_send")
    /\ \/ Closed(net[i].conn) /\ QueryFailed(i)
       \/ /\ Queued(i)
          /\ spawned' = spawned \cup {net[i].job}
          /\ net' = [net EXCEPT ![i] = [@ EXCEPT !.at = "recv", !.job = None]]
          /\ NetStep(i) /\ UNCHANGED <<call, probe>>

\* The spawned task answers the caller.
Deliver(q) ==
    /\ q \in spawned /\ resp[q] # Pending
    /\ spawned' = spawned \ {q}
    /\ call' = IF resp[q].st # "stream" THEN Lost(call, {q}, "Error")
               ELSE [call EXCEPT ![q] = [@ EXCEPT !.rsp = "Success", !.got = resp[q].of]]
    /\ UNCHANGED <<cmds, held, networks, net, conn, resp, probe, clears, scene>>

NetDriver(i) ==
    \/ recv(i) \/ recv_none(i) \/ reconnect(i) \/ reconnect_fails(i)
    \/ p_query(i) \/ p_answered(i) \/ report(i) \/ wait_for_live(i) \/ q_send(i)

----------------------------------------------------------------------------
(* connection/driver.rs                                                     *)

ConnStep(c) == UNCHANGED <<call, cmds, held, networks, net, spawned, probe, clears, scene>>

InH3(c) == conn[c].phase = "h3"

\* The handshake is done, or early data may be sent: Driver becomes H3Driver.
Established(c) ==
    /\ conn[c].phase = "quic" /\ ~conn[c].closing
    /\ conn' = [conn EXCEPT ![c] = [@ EXCEPT !.phase = "h3", !.val = "H3", !.news = TRUE]]
    /\ ConnStep(c) /\ UNCHANGED resp

\* The driver returns and everything it still has is dropped with it.
Gone(c, val, news) ==
    /\ conn' = [conn EXCEPT ![c] = IF ~@.tx THEN Buried
                                  ELSE [Buried EXCEPT !.tx = TRUE, !.info = conn[c].info,
                                                      !.val = val, !.news = news]]
    /\ resp' = Dropped(Has(c))
    /\ ConnStep(c)

\* An error before HTTP/3: nobody is told, the status channel just closes.
Broken(c) == conn[c].phase = "quic" /\ Gone(c, conn[c].val, conn[c].news)

\* handle_closed(), or an error of H3Driver::drive_once().
handle_closed(c) == conn[c].phase \in {"quic", "h3"} /\ Gone(c, "Dead", TRUE)

\* Receives no more: the requests in the channel are dropped.
Close(c, val, news) ==
    /\ conn' = [conn EXCEPT ![c] = [@ EXCEPT !.closing = TRUE, !.rq = <<>>, !.val = val, !.news = news]]
    /\ resp' = Dropped(Range(conn[c].rq))
    /\ ConnStep(c)

handle_draining(c) ==
    /\ conn[c].phase \in {"quic", "h3"} /\ ~conn[c].closing
    /\ Close(c, "Dead", TRUE)

\* shutdown(): the server's GOAWAY, or the Connection has been dropped.
shutdown(c) == InH3(c) /\ Close(c, conn[c].val, conn[c].news)
shutdown_unowned(c) ==
    /\ ~conn[c].closing /\ conn[c].buf = None /\ conn[c].rq = <<>> /\ ~conn[c].tx
    /\ shutdown(c)

\* A probe nobody waits for any more has timed out.
Expired(j) ==
    IF j \in Queries THEN call[j].expired ELSE \A i \in Nets : net[i].job # j

\* What handle_request(j) makes of connection d.
handle_request(d, j) ==
    \/ /\ Expired(j)
       /\ conn' = d /\ resp' = Dropped({j})
    \/ /\ ~Expired(j) /\ UNCHANGED resp
       /\ \E c \in Conns :
            /\ d[c] # conn[c]
            /\ \/ conn' = [d EXCEPT ![c].sent = @ \cup {j}]
               \/ conn' = [d EXCEPT ![c].buf = j]

\* Mutant: a new request is taken although one is buffered.
ready_Buffered(c) == ~conn[c].closing

\* "if !self.driver.closing && self.buffered_request.is_none()"
ready(c) == ~conn[c].closing /\ conn[c].buf = None

H3_recv(c) ==
    /\ InH3(c) /\ ready(c) /\ conn[c].rq # <<>>
    /\ handle_request([conn EXCEPT ![c].rq = Tail(@)], Head(conn[c].rq))
    /\ ConnStep(c)

H3_resend(c) ==
    /\ InH3(c) /\ conn[c].buf # None
    /\ handle_request([conn EXCEPT ![c].buf = None], conn[c].buf)
    /\ ConnStep(c)

\* Mutant: the stream goes to whichever request is outstanding.
answers_Any(c, j) == conn[c].sent

\* The request a stream that ends belongs to.
answers(c, j) == {j}

\* process_h3_event() and respond(): a whole answer, a reset, or a reset before the headers.
respond(c, j) ==
    /\ InH3(c) /\ j \in conn[c].sent
    /\ \E to \in answers(c, j), st \in {"stream", "reset", "dropped"} :
         /\ resp' = [resp EXCEPT ![to] = [st |-> st, of |-> j]]
         /\ conn' = [conn EXCEPT ![c].sent = @ \ {to}]
    /\ ConnStep(c)

ConnDriver(c) ==
    \/ H3_recv(c) \/ H3_resend(c) \/ shutdown_unowned(c)

\* Timers: a handshake and a closing connection end.
Timers(c) == Established(c) \/ ((conn[c].phase = "quic" \/ conn[c].closing) /\ handle_closed(c))

Peer(c) ==
    \/ Established(c) \/ Broken(c) \/ handle_closed(c) \/ handle_draining(c) \/ shutdown(c)
    \/ \E j \in Jobs : respond(c, j)

----------------------------------------------------------------------------

Dispatch == Driver_query \/ Driver_probe_same \/ Driver_probe_waited \/ Driver_probe_new \/ Driver_clear

Next ==
    \/ \E q \in Queries : doh_query(q) \/ doh_query_send(q) \/ Expire(q) \/ doh_query_returns(q) \/ Deliver(q)
    \/ \E p \in Probes : doh_net_new(p)
    \/ doh_net_delete
    \/ Dispatch
    \/ \E i \in Nets : NetDriver(i) \/ p_timeout(i)
    \/ \E c \in Conns : ConnDriver(c) \/ Peer(c)

\* The runtime polls every task that is ready, callers run and clocks advance; nothing
\* is assumed of the server.
Fairness ==
    /\ WF_vars(Dispatch)
    /\ \A q \in Queries : /\ WF_vars(doh_query_send(q)) /\ WF_vars(doh_query_returns(q))
                           /\ WF_vars(Expire(q)) /\ WF_vars(Deliver(q))
    /\ \A i \in Nets : WF_vars(NetDriver(i)) /\ WF_vars(p_timeout(i))
    /\ \A c \in Conns : WF_vars(ConnDriver(c)) /\ WF_vars(Timers(c))

Spec == Init /\ [][Next]_vars /\ Fairness

----------------------------------------------------------------------------

Commands == [op: {"query"}, job: Queries] \cup [op: {"probe"}, job: Probes] \cup [op: {"clear"}, job: {None}]
CallType == [at: {"idle", "sending", "waiting", "done"}, expired: BOOLEAN,
             rsp: {"pending", "Success", "Error", "Dropped"}, got: Jobs \cup {None},
             code: {"none", "answer", "CAN_NOT_SEND", "INTERNAL_ERROR", "TIMEOUT"}]
NetType == [handle: BOOLEAN, info: Servers \cup {None}, status: {"Unprobed", "Live", "Failed"},
            q: Seq(Jobs), job: Jobs \cup {None}, conn: 0..MaxConns,
            at: {"none", "recv", "reconnect", "p_query", "p_wait", "report", "wait1", "wait2",
                 "q_send", "ended"}]
ConnType == [info: Servers \cup {None}, tx: BOOLEAN, val: {"QUIC", "H3", "Dead"}, news: BOOLEAN,
             phase: {"none", "quic", "h3", "gone"}, rq: Seq(Jobs), closing: BOOLEAN,
             buf: Jobs \cup {None}, sent: SUBSET Jobs]
RespType == [st: {"pending", "stream", "reset", "dropped"}, of: Jobs \cup {None}]
ProbeType == [info: Servers \cup {None}, at: {"none", "asked", "valid", "invalid", "unreported"}]

TypeOK ==
    /\ call \in [Queries -> CallType]
    /\ cmds \in Seq(Commands) /\ held \in Probes \cup {None} /\ networks \in 0..MaxNets
    /\ net \in [Nets -> NetType] /\ conn \in [Conns -> ConnType]
    /\ resp \in [Jobs -> RespType] /\ spawned \subseteq Queries
    /\ probe \in [Probes -> ProbeType]
    /\ clears \in Nat /\ scene \in Scenes

\* The dispatcher never sends to a task that has ended: as long as a network is
\* registered its driver runs, whatever failed on it (Driver::drive()).
NetworkServed == networks # 0 => net[networks].at \notin {"none", "ended"} /\ net[networks].handle

\* No channel grows past its capacity: a sender waits, or gives its message up.
ChannelsBounded ==
    /\ Len(cmds) <= MAX_BUFFERED_CMD_COUNT
    /\ \A i \in Nets : Len(net[i].q) <= MAX_BUFFERED_COMMANDS
    /\ \A c \in Conns : Len(conn[c].rq) <= MAX_PENDING_REQUESTS

\* A query is on the wire to a server only if a probe of that very server has been
\* answered, also after the network was replaced or its connection re-established
\* (Network::query(), Driver::probe()).
SentOnlyToValidated ==
    \A c \in Conns : conn[c].sent \cap Queries # {} =>
        \E p \in Probes : probe[p].info = conn[c].info /\ resp[p].st \in {"stream", "reset"}

\* A request that somebody waits for is somewhere: in a connection's channel, in its
\* buffer or on a stream ("requests being dropped on the floor under high load").
RequestTracked ==
    \A q \in spawned : resp[q] = Pending => \E c \in Conns : q \in Has(c)

\* A valid report means that this probe's request, or an earlier one of the same
\* server, was answered (force_probe(), and the short circuit of probe()).
ReportedIsProbed ==
    \A p \in Probes : probe[p].at = "valid" =>
        \E o \in 1..p : probe[o].info = probe[p].info /\ resp[o].st \in {"stream", "reset"}

Service == INSTANCE QueryService
    WITH NoAnswer <- None,
         code <- [q \in Queries |->
                    IF call[q].at = "idle" THEN "none" ELSE IF call[q].at # "done" THEN "pending"
                    ELSE IF call[q].code = "answer" THEN "success"
                    ELSE IF call[q].code = "CAN_NOT_SEND" /\ call[q].rsp = "pending" THEN "internal_error"
                    ELSE "network_error"],
         answer <- [q \in Queries |-> IF call[q].code = "answer" THEN call[q].got ELSE None]

\* To its callers DoH is the query service: one result per call, and an answer is the
\* answer to that very query (doh_query() down to respond()).
ImplementsService == Service!Spec

\* Every call of doh_query() returns, although it waits for room in the dispatcher's
\* channel outside of its timeout and the dispatcher waits for room in a network's.
EveryQueryReturns == Service!Resolved

\* Every probe is over in the end: reported, or given up because its network is gone or
\* could not be connected.
ProbesEnd == <>[](\A p \in Probes : probe[p].at # "asked")
============================================================================
