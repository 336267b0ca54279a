------------------------------ MODULE ResSend ------------------------------
(***************************************************************************)
(* One call of res_nsend() (res_send.cpp): mDNS, the cache, private DNS,    *)
(* and the servers asked in the clear over UDP and TCP.                     *)
(*                                                                         *)
(* The thread shares nothing here but the private DNS status, which may     *)
(* change while it runs, and the cache it has to tell.  The network is the  *)
(* other actor: datagrams arrive late or not at all, also on the sockets of *)
(* servers asked before.  What a system call does is a choice at the call.  *)
(* An answer is who gave it and its kind: its rcode, whether it is          *)
(* truncated and whether it repeats the question.                           *)
(***************************************************************************)
EXTENDS Naturals, FiniteSets, FiniteSetsExt

CONSTANTS
    NSERVERS,        \* nameservers configured
    retry_count,     \* params.retry_count
    MaxWaits,        \* bound: rounds of the wait for a validated server (42 in the code)
    Scenes           \* the calls made: flags, configuration and private DNS at the start

Servers == 1..NSERVERS

\* PrivateDnsStatus: the mode and whether there is a validated server of each kind.
PrivateStatuses ==
    [mode: {"OPPORTUNISTIC", "STRICT"}, doh: BOOLEAN, dot: BOOLEAN]
    \cup {[mode |-> "OFF", doh |-> FALSE, dot |-> FALSE]}

\* What a reply can be.  "old" has another id or question; "formerr_bare" repeats no
\* question; "short" is no DNS message; "icmp" is an error on the socket.
Kinds == {"answer", "nodata", "nxdomain", "servfail", "formerr", "formerr_bare", "truncated",
          "old", "short", "icmp"}

ASSUME ResSendAssumption ==
    /\ NSERVERS \in Nat \ {0} /\ retry_count \in Nat \ {0} /\ MaxWaits \in Nat
    /\ Scenes \subseteq [mdns: BOOLEAN, bypass: BOOLEAN, tryAll: BOOLEAN, noRetry: BOOLEAN,
                         local: BOOLEAN, large: BOOLEAN, keep: BOOLEAN, udpTcp: BOOLEAN,
                         edns: BOOLEAN, private: PrivateStatuses, replies: SUBSET Kinds]
    \* maybeFixupFlags()
    /\ \A s \in Scenes : ~(s.tryAll /\ s.noRetry)

VARIABLES
    scene,
    pc,         \* where the thread is
    l,          \* its local variables
    udp,        \* its UDP sockets, the queries unanswered and a datagram to read on each
    tcp,        \* the server tcp_nssock is connected to, 0 if none
    private,    \* the status PrivateDnsConfiguration holds
    told,       \* calls that ended the cache's pending request
    log         \* history: servers asked in the clear and over TCP, those whose reply ended
                \* a send, those credited for one, the private DNS modes there were

vars == <<scene, pc, l, udp, tcp, private, told, log>>

\* Over TCP and private DNS.
TcpKinds == {"answer", "nodata", "nxdomain", "servfail", "formerr"}

Rcode(kind) ==
    CASE kind \in {"answer", "nodata", "truncated"} -> "NOERROR"
      [] kind = "nxdomain"                          -> "NXDOMAIN"
      [] kind = "servfail"                          -> "SERVFAIL"
      [] OTHER                                      -> "FORMERR"

NoAnswer == [by |-> 0, via |-> "none", kind |-> "none"]
Reply(s, via, kind) == [by |-> s, via |-> via, kind |-> kind]

\* A socket that could be created but not bound is there and not connected.
Closed == [sock |-> [s \in Servers |-> "none"], unanswered |-> [s \in Servers |-> 0],
           inbox |-> [s \in Servers |-> "none"]]

\* ret: "none", "answer", or the error returned.
NoLocals ==
    [cache |-> "none", status |-> [mode |-> "OFF", doh |-> FALSE, dot |-> FALSE], waits |-> 0,
     fallback |-> FALSE, usable |-> {}, attempt |-> 0, ns |-> 1, useTcp |-> FALSE, got |-> FALSE,
     rec |-> FALSE, connreset |-> FALSE, edns0err |-> FALSE, terrno |-> "ETIME",
     rcode |-> "NOERROR", ans |-> NoAnswer, first |-> NoAnswer, ret |-> "none"]

Init ==
    /\ scene \in Scenes
    /\ pc = IF scene.mdns THEN "mdns" ELSE "cache"
    /\ l = NoLocals
    /\ udp = Closed /\ tcp = 0
    /\ private = scene.private
    /\ told = <<0, 0>>
    /\ log = [clear |-> {}, tcps |-> [s \in Servers |-> 0], read |-> {}, credits |-> {},
              modes |-> {scene.private.mode}]

----------------------------------------------------------------------------
(* Ends                                                                     *)

\* The cache is told an answer or a failure.  Its pending request was registered by a
\* lookup that missed; with the flags that bypass it, and of a packet it does not
\* support, it takes no notice.
Registered == l.cache = "NOTFOUND" /\ ~scene.bypass
resolv_cache_add == told' = IF l.cache = "NOTFOUND" THEN <<told[1] + 1, told[2]>> ELSE told
query_failed == told' = IF Registered THEN <<told[1], told[2] + 1>> ELSE told

Sockets == UNCHANGED <<udp, tcp>>

\* What the caller gets to see, and what the cache was found to be.
Return(m, ret) ==
    /\ pc' = "done"
    /\ l' = [NoLocals EXCEPT !.cache = m.cache, !.rcode = m.rcode, !.ans = m.ans, !.first = m.first,
                             !.edns0err = m.edns0err, !.ret = ret]

----------------------------------------------------------------------------
(* mDNS and the cache                                                       *)

\* send_mdns(): the first answer of the IPv6 and the IPv4 group, whatever its id; without
\* one the lookup goes on in unicast.
send_mdns ==
    /\ pc = "mdns"
    /\ \/ \E kind \in TcpKinds :
            LET a == Reply(0, "mdns", kind) IN
            Return([l EXCEPT !.ans = a, !.rcode = Rcode(kind)], "answer")
       \/ \E rcode \in {"INTERNAL", "TIMEOUT"} :
            pc' = "cache" /\ l' = [l EXCEPT !.rcode = rcode]
    /\ Sockets /\ UNCHANGED <<scene, private, told, log>>

CacheStatuses(bypass) == IF bypass THEN {"NOTFOUND", "SKIP"} ELSE {"FOUND", "NOTFOUND", "UNSUPPORTED"}

\* Mutant: without nameservers the lookup just returns.
no_nameserver_Untold == told' = told

\* "Tell the cache the query failed, or ... anyone else asking the same question will
\* block".
no_nameserver == query_failed

resolv_cache_lookup ==
    /\ pc = "cache"
    /\ \E status \in CacheStatuses(scene.bypass), kind \in {"answer", "nxdomain"} :
         LET a == Reply(0, "cache", kind) IN
         IF status = "FOUND"
         THEN Return([l EXCEPT !.cache = status, !.ans = a, !.rcode = Rcode(kind)], "answer")
         ELSE pc' = "servers" /\ l' = [l EXCEPT !.cache = status]
    /\ Sockets /\ UNCHANGED <<scene, private, told, log>>

\* resolv_populate_res_for_net() found servers, or none.
nameservers ==
    /\ pc = "servers"
    /\ \/ /\ pc' = IF scene.local THEN "stats" ELSE "status"
          /\ UNCHANGED <<l, told>>
       \/ Return(l, "ESRCH") /\ no_nameserver
    /\ Sockets /\ UNCHANGED <<scene, private, log>>

----------------------------------------------------------------------------
(* res_private_dns_send()                                                   *)

\* The validation threads and the framework change the status at any time.
ChangePrivate ==
    /\ pc \in {"status", "wait", "doh", "dot"}
    /\ private' \in PrivateStatuses
    /\ log' = [log EXCEPT !.modes = @ \cup {private'.mode}]
    /\ UNCHANGED <<scene, pc, l, udp, tcp, told>>

\* Mutant: a strict network may fall back when no server is validated.
mayFallBack_NoServer(status) == status.mode # "STRICT" \/ ~(status.doh \/ status.dot)

\* *fallback
mayFallBack(status) == status.mode # "STRICT"

\* The first getStatus() decides whether the lookup may fall back to cleartext.
getStatus ==
    /\ pc = "status"
    /\ l' = [l EXCEPT !.status = private, !.fallback = mayFallBack(private)]
    /\ pc' = IF private.mode = "OFF" THEN "stats"
             ELSE IF private.doh THEN "doh"
             ELSE IF private.mode = "STRICT" /\ ~private.dot THEN "wait" ELSE "dot"
    /\ Sockets /\ UNCHANGED <<scene, private, told, log>>

\* 42 times 100 ms for a server to be validated.
wait_validated ==
    /\ pc = "wait"
    /\ IF l.waits = MaxWaits THEN pc' = "dot" /\ UNCHANGED l
       ELSE /\ l' = [l EXCEPT !.waits = @ + 1, !.status = private]
            /\ pc' = IF private.doh THEN "doh" ELSE IF private.dot THEN "dot" ELSE "wait"
    /\ Sockets /\ UNCHANGED <<scene, private, told, log>>

\* The answer goes to the cache and to the caller.
PrivateAnswer(via) ==
    \E kind \in TcpKinds :
        /\ Return([l EXCEPT !.ans = Reply(0, via, kind), !.rcode = Rcode(kind)], "answer")
        /\ resolv_cache_add

\* No answer: cleartext, or the end.
PrivateFailed(rcode) ==
    IF l.fallback THEN pc' = "stats" /\ l' = [l EXCEPT !.rcode = rcode] /\ UNCHANGED told
    ELSE Return([l EXCEPT !.rcode = rcode], "ETIMEDOUT") /\ query_failed

\* res_doh_send(): DOH_RESULT_CAN_NOT_SEND leaves it to DoT or, in strict mode without a
\* validated DoT server, to another round of the wait.
res_doh_send ==
    /\ pc = "doh"
    /\ \/ PrivateAnswer("doh")
       \/ \E rcode \in {"INTERNAL", "TIMEOUT"} : PrivateFailed(rcode)
       \/ /\ pc' = IF ~l.fallback /\ ~l.status.dot THEN "wait" ELSE "dot"
          /\ UNCHANGED <<l, told>>
    /\ Sockets /\ UNCHANGED <<scene, private, log>>

res_tls_send ==
    /\ pc = "dot"
    /\ \/ l.status.dot /\ PrivateAnswer("dot")
       \/ l.status.dot /\ l.status.mode = "STRICT" /\ PrivateFailed("TIMEOUT")
       \/ PrivateFailed(l.rcode)
    /\ Sockets /\ UNCHANGED <<scene, private, log>>

----------------------------------------------------------------------------
(* Cleartext: the loops of res_nsend()                                      *)

\* Only the n-th usable server is left.
res_set_usable_server(usable, n) == {s \in usable : Cardinality({t \in usable : t <= s}) = n}

\* resolv_cache_get_resolver_stats() and the servers to ask: those the statistics leave, or
\* all with sort_nameservers, and one of them when the query may not be retried and the
\* statistics leave several.  The network may be gone.
get_resolver_stats ==
    /\ pc = "stats"
    /\ \/ \E good \in SUBSET Servers \ {{}}, sort \in BOOLEAN, n \in Servers :
            LET count  == Cardinality(good)
                all    == IF sort THEN Servers ELSE good
                usable == IF scene.noRetry /\ count > 1 THEN res_set_usable_server(all, n) ELSE all
            IN
            /\ n <= count
            /\ l' = [l EXCEPT !.usable = usable, !.useTcp = scene.large, !.ns = Min(usable)]
            /\ pc' = "ask" /\ UNCHANGED told
       \/ Return([l EXCEPT !.cache = "deleted"], "ESRCH") /\ UNCHANGED told
    /\ Sockets /\ UNCHANGED <<scene, private, log>>

retryTimes == IF scene.noRetry THEN 1 ELSE retry_count

\* isErrorOrNoDataAnswer()
isErrorOrNoData(kind) == kind # "answer"

\* The first error is copied back into the answer.
FirstError(m) == [m EXCEPT !.rcode = Rcode(m.first.kind), !.ans = m.first]

\* The loops are over without an answer.  The cache is told nothing when every server
\* gave an error.
Finish(m, u, t) ==
    IF m.first # NoAnswer /\ m.usable = {}
    THEN Return(FirstError(m), "answer") /\ udp' = u /\ tcp' = t /\ UNCHANGED told
    ELSE /\ Return(m, IF m.useTcp THEN m.terrno ELSE IF m.got THEN "ETIMEDOUT" ELSE "ECONNREFUSED")
         /\ udp' = Closed /\ tcp' = 0 /\ query_failed

\* On to the next usable server, to the next attempt, or the end.  Before another attempt
\* the caller may be found to have gone.
Continue(m, u, t) ==
    LET later == {s \in m.usable : s > m.ns} IN
    IF later # {}
    THEN /\ pc' = "ask" /\ l' = [m EXCEPT !.ns = Min(later)]
         /\ udp' = u /\ tcp' = t /\ UNCHANGED told
    ELSE \/ /\ m.attempt + 1 < retryTimes /\ m.usable # {}
            /\ pc' = "ask" /\ l' = [m EXCEPT !.attempt = @ + 1, !.ns = Min(m.usable)]
            /\ udp' = u /\ tcp' = t /\ UNCHANGED told
         \/ Finish(m, u, t)

\* What res_nsend() makes of a resplen of send_dg() or send_vc(): none, a fatal error, a
\* truncated answer to be fetched over TCP from the same server, or an answer.
After(m, u, t, resplen) ==
    CASE resplen = "zero" -> Continue(m, u, t)
      [] resplen = "tcp"  -> /\ pc' = "ask" /\ l' = [m EXCEPT !.useTcp = TRUE]
                             /\ udp' = u /\ tcp' = t /\ UNCHANGED told
      [] resplen = "fatal" -> Return(m, m.terrno) /\ udp' = Closed /\ tcp' = 0 /\ query_failed
      [] resplen = "answer" ->
           IF scene.tryAll /\ isErrorOrNoData(m.ans.kind)
           THEN Continue([m EXCEPT !.usable = @ \ {m.ns},
                                   !.first = IF @ = NoAnswer THEN m.ans ELSE @], u, t)
           ELSE Return(m, "answer") /\ udp' = Closed /\ tcp' = 0 /\ resolv_cache_add

\* A sample that speaks for server s is recorded.
Sample(m, s) == IF m.rec THEN {[of |-> s, rcode |-> m.rcode]} ELSE {}

\* "Only record stats the first time we try a query."
Begin == [l EXCEPT !.rcode = "INTERNAL", !.terrno = "ETIME", !.rec = (l.attempt = 0)]

\* *terrno = errno
Failed(m) == [m EXCEPT !.terrno = "errno"]

----------------------------------------------------------------------------
(* send_dg()                                                                *)

\* setupUdpSocket() fails: the family is not supported, bind() failed and the socket stays,
\* or the error is fatal.
setupUdpSocket_fails(s) ==
    \/ \E sock \in {"none", "raw"} :
         After(Failed(Begin), [udp EXCEPT !.sock[s] = sock], tcp, "zero")
    \/ After(Failed(Begin), udp, tcp, "fatal")

\* The socket of server ns, made and connected when it is not there, and the query.
dg_send ==
    /\ pc = "ask" /\ ~l.useTcp
    /\ LET s == l.ns IN
       \/ udp.sock[s] = "none" /\ setupUdpSocket_fails(s) /\ UNCHANGED log
       \/ After(Failed(Begin), Closed, 0, "zero") /\ UNCHANGED log
       \/ /\ udp.sock[s] # "raw"
          /\ pc' = "dg" /\ l' = Begin
          /\ udp' = [udp EXCEPT !.sock[s] = "open", !.unanswered[s] = @ + 1]
          /\ log' = [log EXCEPT !.clear = @ \cup {s}]
          /\ UNCHANGED <<tcp, told>>
    /\ UNCHANGED <<scene, private>>

\* A datagram reaches an open socket; a server replies to a query once.
Arrive ==
    /\ pc \in {"dg", "ask"}
    /\ \E s \in Servers, kind \in scene.replies :
         /\ udp.sock[s] = "open" /\ udp.unanswered[s] > 0 /\ udp.inbox[s] = "none"
         /\ udp' = [udp EXCEPT !.unanswered[s] = @ - 1, !.inbox[s] = kind]
    /\ UNCHANGED <<scene, pc, l, tcp, private, told, log>>

dg_timeout ==
    /\ pc = "dg"
    /\ After([l EXCEPT !.rcode = "TIMEOUT", !.terrno = "ETIMEDOUT", !.got = TRUE], udp, tcp, "zero")
    /\ UNCHANGED <<scene, private, log>>

\* poll() fails, or reports an error of the only socket it watches.
dg_poll_error ==
    /\ pc = "dg"
    /\ After(Failed(l), Closed, 0, "zero")
    /\ UNCHANGED <<scene, private, log>>

\* The sockets with something to read: with keep_listening_udp those of all servers.
Ready == {s \in Servers : /\ udp.inbox[s] # "none"
                          /\ scene.keep \/ (s = l.ns /\ udp.inbox[s] # "icmp")}

\* res_queriesmatch(): a reply without a question has another number of them.
OurQuestion(kind) == kind # "formerr_bare"

\* ignoreInvalidAnswer(): another id or server, or not this question.
Ignored(kind) == kind = "old" \/ ~OurQuestion(kind)

\* The replies that end send_dg().
Conclusive(kind) ==
    kind \in {"answer", "nodata", "nxdomain", "truncated"} \/ (kind = "formerr" /\ ~scene.edns)

\* Mutant: the sample is that of the server asked last.
actualNs_Asked(s) == l.ns

\* *ns = receivedFromNs
actualNs(s) == s

\* One datagram of each ready socket is read, in the order of the servers, up to the
\* first that ends the call; if there is none, the last one read decides whether to wait on.
dg_read ==
    /\ pc = "dg" /\ Ready # {}
    /\ LET ends == {s \in Ready : Conclusive(udp.inbox[s])}
           last == IF ends # {} THEN Min(ends) ELSE Max(Ready)
           seen == {s \in Ready : s <= last}
           kind == udp.inbox[last]
           u    == [udp EXCEPT !.inbox = [s \in Servers |-> IF s \in seen THEN "none" ELSE @[s]]]
           m    == [l EXCEPT
                      !.got = @ \/ \E s \in seen : udp.inbox[s] # "icmp",
                      !.edns0err = @ \/ \E s \in seen \ ends : udp.inbox[s] = "formerr",
                      !.rcode = IF \E s \in seen : udp.inbox[s] = "servfail" THEN "SERVFAIL" ELSE @,
                      !.terrno = IF \E s \in seen : udp.inbox[s] \in {"icmp", "short", "formerr"}
                                 THEN "errno" ELSE @]
           good == [m EXCEPT !.ans = Reply(last, "udp", kind), !.rcode = Rcode(kind), !.terrno = "0"]
       IN \/ /\ ends = {} /\ Ignored(kind)
             /\ udp' = u /\ l' = m
             /\ UNCHANGED <<pc, tcp, told, log>>
          \/ /\ ends = {} /\ ~Ignored(kind)
             /\ After(m, u, tcp, "zero") /\ UNCHANGED log
          \/ /\ ends # {} /\ kind = "truncated"
             /\ After(Failed(m), u, tcp, "tcp") /\ UNCHANGED log
          \/ /\ ends # {} /\ kind # "truncated"
             /\ After(good, u, tcp, "answer")
             /\ log' = [log EXCEPT !.read = @ \cup {good.ans},
                                   !.credits = @ \cup Sample(good, actualNs(last))]
    /\ UNCHANGED <<scene, private>>

----------------------------------------------------------------------------
(* send_vc()                                                                *)

\* A failed connection lets the next server be asked over UDP again, when it was TCP only
\* for a truncated answer and tc_mode says so.
VcFailed(m) == [m EXCEPT !.useTcp = ~(~scene.large /\ scene.udpTcp)]

\* "TCP; at most one attempt per server."
OneAttempt(m) == [m EXCEPT !.attempt = retryTimes]

\* "Are we still talking to whom we want to talk to?"
SamePeer(s) == tcp = s

\* A refused connection counts as a timeout, too.
connect_with_timeout_fails(m) == After([m EXCEPT !.rcode = "TIMEOUT"], Closed, 0, "zero")

\* The connection to server ns, the open one or a new one after all sockets are closed,
\* and the query; "again" is the second round after a reset.
vc_send ==
    /\ pc = "again" \/ (pc = "ask" /\ l.useTcp)
    /\ LET s == l.ns
           b == IF pc = "again" THEN l ELSE OneAttempt([Begin EXCEPT !.connreset = FALSE])
           u == IF tcp # 0 /\ ~SamePeer(s) THEN Closed ELSE udp
           f == VcFailed(Failed(b))
       IN \/ /\ ~SamePeer(s) /\ UNCHANGED log
             /\ \/ After(f, u, 0, "zero") \/ After(f, u, 0, "fatal")
                \/ connect_with_timeout_fails(f)
          \/ After(f, Closed, 0, "zero") /\ UNCHANGED log
          \/ /\ pc' = "vc" /\ l' = b /\ udp' = u
             /\ tcp' = IF SamePeer(s) THEN tcp ELSE s
             /\ log' = [log EXCEPT !.clear = @ \cup {s},
                                   !.tcps[s] = IF pc = "again" THEN @ ELSE @ + 1]
             /\ UNCHANGED told
    /\ UNCHANGED <<scene, private>>

\* Mutant: every reset is followed by another query.
mayRequery_Always == TRUE

\* "We only allow one reset per query to prevent looping."
mayRequery == ~l.connreset

\* The reply.  Messages with another id are read over; an answer too long for the buffer
\* is cut.
vc_read ==
    /\ pc = "vc"
    /\ \/ \E kind \in TcpKinds :
            LET m == [l EXCEPT !.ans = Reply(tcp, "tcp", kind), !.rcode = Rcode(kind), !.terrno = "0"] IN
            /\ After(m, udp, tcp, "answer")
            /\ log' = [log EXCEPT !.read = @ \cup {m.ans}, !.credits = @ \cup Sample(m, m.ns)]
       \/ After(VcFailed(Failed(l)), Closed, 0, "zero") /\ UNCHANGED log
       \/ /\ mayRequery
          /\ pc' = "again" /\ l' = [l EXCEPT !.connreset = TRUE]
          /\ udp' = Closed /\ tcp' = 0
          /\ UNCHANGED <<told, log>>
    /\ UNCHANGED <<scene, private>>

----------------------------------------------------------------------------

Thread ==
    \/ send_mdns \/ resolv_cache_lookup \/ nameservers
    \/ getStatus \/ wait_validated \/ res_doh_send \/ res_tls_send
    \/ get_resolver_stats \/ dg_send \/ dg_timeout \/ dg_poll_error \/ dg_read
    \/ vc_send \/ vc_read

Next == Thread \/ ChangePrivate \/ Arrive

\* The thread runs and its clocks advance.  Over TCP the server is assumed to answer, to
\* close or to be reset: the code reads without a timeout.
Spec == Init /\ [][Next]_vars /\ WF_vars(Thread)

----------------------------------------------------------------------------

Done == pc = "done"
Answered == Done /\ l.ret = "answer"

TypeOK ==
    /\ pc \in {"mdns", "cache", "servers", "status", "wait", "doh", "dot", "stats", "ask", "dg",
               "vc", "again", "done"}
    /\ private \in PrivateStatuses /\ tcp \in 0..NSERVERS
    /\ l.usable \subseteq Servers /\ l.ns \in Servers /\ l.attempt \in 0..retryTimes
    /\ l.ret \in {"none", "answer", "0", "errno", "ESRCH", "ETIME", "ETIMEDOUT", "ECONNREFUSED"}
    /\ udp.unanswered \in [Servers -> 0..retry_count]

\* A lookup that registered a pending request ends it exactly once, whichever way it
\* returns; the exceptions are the return of the first of several errors, and a network
\* whose cache has gone with its pending requests (resolv_cache_add() and
\* _resolv_cache_query_failed() in res_nsend()).
CacheTold ==
    /\ told[1] + told[2] <= 1
    /\ Done /\ Registered /\ l.first = NoAnswer => told = IF l.ret = "answer" THEN <<1, 0>> ELSE <<0, 1>>

\* While the network is in strict mode, no query is sent in the clear, whatever becomes
\* of its servers (res_private_dns_send(), *fallback).
StrictStaysPrivate == log.modes = {"STRICT"} /\ ~scene.local => log.clear = {}

\* What is returned is the answer in the buffer and its rcode: one that a server asked by
\* this call sent in reply to its question, and never a refused or truncated one over UDP.
AnswerIsReply ==
    Answered => /\ l.rcode = Rcode(l.ans.kind)
                /\ l.ans.via \in {"udp", "tcp"} =>
                     l.ans.by \in log.clear /\ l.ans \in log.read
                /\ l.ans.via = "udp" => l.ans.kind \in {"answer", "nodata", "nxdomain", "formerr"}
                /\ l.first # NoAnswer /\ isErrorOrNoData(l.ans.kind) => l.ans = l.first

\* A sample that counts for a server comes from a reply of that very server, although a
\* late reply may arrive while another server is being asked (receivedServerAddr).
CreditedToSender ==
    \A x \in log.credits : \E a \in log.read : a.by = x.of /\ Rcode(a.kind) = x.rcode

\* "TCP; at most one attempt per server."
OneTcpPerServer == \A s \in Servers : log.tcps[s] <= 1

\* The call ends: waits, retries, resets and unwanted datagrams are bounded.
Returns == <>Done
============================================================================
