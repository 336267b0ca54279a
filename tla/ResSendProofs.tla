--------------------------- MODULE ResSendProofs ---------------------------
(***************************************************************************)
(* For any servers, retries, options and configurations, and whatever the   *)
(* network and private DNS do meanwhile: res_nsend() ends its pending       *)
(* request once, asks nobody in the clear while the network is strict, and  *)
(* credits a reply to the server it came from.                              *)
(***************************************************************************)
EXTENDS ResSend, TLAPS

LocalFields == {"cache", "status", "waits", "fallback", "usable", "attempt", "ns", "useTcp", "got", "rec",
                "connreset", "edns0err", "terrno", "rcode", "ans", "first", "ret"}
LogFields == {"clear", "tcps", "read", "credits", "modes"}

Shape == DOMAIN l = LocalFields /\ DOMAIN log = LogFields

\* The cache is told at the return and not before; an error is not taken for an answer.
ToldInv ==
    /\ pc # "done" => told = <<0, 0>> /\ l.terrno # "answer"
    /\ pc \in {"mdns", "cache"} => l.cache = "none"
    /\ CacheTold

\* The network has been in another mode than strict since the call began.
Relaxed == \E mode \in log.modes : mode # "STRICT"

\* Cleartext is reached by a lookup that bypasses private DNS, or by the fallback that the
\* status read first allowed.
ClearInv ==
    /\ private.mode \in log.modes
    /\ l.fallback => Relaxed
    /\ pc \in {"stats", "ask", "dg", "vc", "again"} \/ log.clear # {} => scene.local \/ Relaxed

\* send_vc() reads from the server it has asked.
CreditInv ==
    /\ pc = "vc" => tcp = l.ns
    /\ CreditedToSender

SendInv == Shape /\ ToldInv /\ ClearInv /\ CreditInv

----------------------------------------------------------------------------
(* Returns and the cache.                                                   *)

\* What Return() leaves of the local variables.
LEMMA ReturnFacts ==
    ASSUME NEW m, NEW ret, Return(m, ret)
    PROVE  /\ pc' = "done" /\ DOMAIN l' = LocalFields /\ l'.fallback = FALSE
           /\ l'.cache = m.cache /\ l'.first = m.first /\ l'.ret = ret
  BY Zenon DEF Return, NoLocals, LocalFields

\* A return that tells the cache of an answer or of a failure, or that has nothing to
\* tell, leaves the cache told.
LEMMA ReturnTold ==
    ASSUME ToldInv, pc # "done", NEW m, NEW ret, Return(m, ret), scene' = scene,
           \/ m.cache = l.cache /\ ret # "answer" /\ query_failed
           \/ m.cache = l.cache /\ ret = "answer" /\ resolv_cache_add
           \/ m.cache # "NOTFOUND" /\ told' = told
           \/ m.first # NoAnswer /\ told' = told
    PROVE  ToldInv'
<1>1. /\ pc' = "done" /\ l'.cache = m.cache /\ l'.first = m.first /\ l'.ret = ret
  BY ReturnFacts, Zenon
<1>2. told = <<0, 0>>
  BY Zenon DEF ToldInv
<1>3. CASE m.cache = l.cache /\ ret # "answer" /\ query_failed
  BY <1>1, <1>2, <1>3 DEF ToldInv, CacheTold, Done, Registered, query_failed
<1>4. CASE m.cache = l.cache /\ ret = "answer" /\ resolv_cache_add
  BY <1>1, <1>2, <1>4 DEF ToldInv, CacheTold, Done, Registered, resolv_cache_add
<1>5. CASE told' = told /\ (m.cache # "NOTFOUND" \/ m.first # NoAnswer)
  BY <1>1, <1>2, <1>5, Zenon DEF ToldInv, CacheTold, Done, Registered
<1> QED
  BY <1>3, <1>4, <1>5, Zenon

\* Local variables m with which the call may go on.
Kept(m) ==
    DOMAIN m = LocalFields /\ m.cache = l.cache /\ m.fallback = l.fallback /\ m.terrno # "answer"

\* The variables set between two sends leave the cache status, the fallback and the error.
LEMMA KeptRecords ==
    /\ \A m : Kept(m) => Kept(Failed(m)) /\ Kept(VcFailed(m)) /\ Kept(OneAttempt(m))
    /\ \A m, n : Kept(m) => Kept([m EXCEPT !.ns = n])
    /\ \A m, n, a : Kept(m) => Kept([m EXCEPT !.attempt = a, !.ns = n])
    /\ \A m, b : Kept(m) => Kept([m EXCEPT !.useTcp = b]) /\ Kept([m EXCEPT !.connreset = b])
                           /\ Kept([m EXCEPT !.rcode = b])
    /\ \A m, x, y : Kept(m) => Kept([m EXCEPT !.usable = x, !.first = y])
<1> USE DEF Kept, LocalFields
<1>1. \A m : Kept(m) => Kept(Failed(m)) /\ Kept(VcFailed(m)) /\ Kept(OneAttempt(m))
  BY Zenon DEF Failed, VcFailed, OneAttempt
<1>2. /\ \A m, n : Kept(m) => Kept([m EXCEPT !.ns = n])
      /\ \A m, n, a : Kept(m) => Kept([m EXCEPT !.attempt = a, !.ns = n])
  BY Zenon
<1>3. \A m, b : Kept(m) => Kept([m EXCEPT !.useTcp = b]) /\ Kept([m EXCEPT !.connreset = b])
                          /\ Kept([m EXCEPT !.rcode = b])
  BY Zenon
<1>4. \A m, x, y : Kept(m) => Kept([m EXCEPT !.usable = x, !.first = y])
  BY Zenon
<1> HIDE DEF Kept, LocalFields
<1> QED
  BY <1>1, <1>2, <1>3, <1>4, Zenon

\* The call goes on with the same cache status and mode, or is over and the cache is told.
Onward == pc' # "done" /\ told' = told /\ Kept(l')
Over == pc' = "done" /\ DOMAIN l' = LocalFields /\ l'.fallback = FALSE /\ ToldInv'

\* The end of the loops: the first error, or a failure the cache is told of.
LEMMA FinishOver ==
    ASSUME ToldInv, pc # "done", scene' = scene, NEW m, NEW u, NEW t, Kept(m), Finish(m, u, t)
    PROVE  Over
<1>1. CASE m.first # NoAnswer /\ m.usable = {}
  <2>1. FirstError(m).first = m.first
    BY Zenon DEF FirstError, Kept, LocalFields
  <2>2. Return(FirstError(m), "answer") /\ told' = told
    BY <1>1, Zenon DEF Finish
  <2> QED
    BY <1>1, <2>1, <2>2, ReturnFacts, ReturnTold, Zenon DEF Over
<1>2. CASE ~(m.first # NoAnswer /\ m.usable = {})
  <2>1. PICK ret \in {m.terrno, "ETIMEDOUT", "ECONNREFUSED"} : Return(m, ret) /\ query_failed
    BY <1>2, Zenon DEF Finish
  <2> QED
    BY <2>1, ReturnFacts, ReturnTold, Zenon DEF Over, Kept
<1> QED
  BY <1>1, <1>2, Zenon

\* The next server, the next attempt, or the end.
LEMMA ContinueOnward ==
    ASSUME ToldInv, pc # "done", scene' = scene, NEW m, NEW u, NEW t, Kept(m), Continue(m, u, t)
    PROVE  (Onward /\ pc' = "ask") \/ Over
<1> DEFINE later == {s \in m.usable : s > m.ns}
<1>1. CASE Finish(m, u, t)
  BY <1>1, FinishOver, Zenon
<1>2. CASE pc' = "ask" /\ told' = told /\ l' = [m EXCEPT !.ns = Min(later)]
  <2>1. Kept([m EXCEPT !.ns = Min(later)])
    BY KeptRecords, Zenon
  <2> QED
    BY <1>2, <2>1, Zenon DEF Onward
<1>3. CASE /\ pc' = "ask" /\ told' = told
           /\ l' = [m EXCEPT !.attempt = m.attempt + 1, !.ns = Min(m.usable)]
  <2>1. Kept([m EXCEPT !.attempt = m.attempt + 1, !.ns = Min(m.usable)])
    BY KeptRecords, Zenon
  <2> QED
    BY <1>3, <2>1, Zenon DEF Onward
<1> QED
  BY <1>1, <1>2, <1>3, Zenon DEF Continue

\* What res_nsend() does after send_dg() or send_vc().
LEMMA AfterOnward ==
    ASSUME ToldInv, pc # "done", scene' = scene, NEW m, NEW u, NEW t, Kept(m),
           NEW resplen \in {"zero", "tcp", "fatal", "answer"}, After(m, u, t, resplen)
    PROVE  (Onward /\ pc' = "ask") \/ Over
<1>1. CASE resplen = "zero"
  <2>1. Continue(m, u, t)
    BY <1>1, Zenon DEF After
  <2> QED
    BY <2>1, ContinueOnward, Zenon
<1>2. CASE resplen = "tcp"
  <2>1. pc' = "ask" /\ told' = told /\ l' = [m EXCEPT !.useTcp = TRUE]
    BY <1>2, Zenon DEF After
  <2>2. Kept([m EXCEPT !.useTcp = TRUE])
    BY KeptRecords, Zenon
  <2> QED
    BY <2>1, <2>2, Zenon DEF Onward
<1>3. CASE resplen = "fatal"
  <2>1. Return(m, m.terrno) /\ query_failed
    BY <1>3, Zenon DEF After
  <2> QED
    BY <2>1, ReturnFacts, ReturnTold, Zenon DEF Over, Kept
<1>4. CASE resplen = "answer"
  <2>1. \/ \E x, y : Continue([m EXCEPT !.usable = x, !.first = y], u, t)
        \/ Return(m, "answer") /\ resolv_cache_add
    BY Zenon, <1>4 DEF After
  <2> QED
    <3>1. CASE \E n : Kept(n) /\ Continue(n, u, t)
      BY <3>1, ContinueOnward, Zenon
    <3>2. CASE Return(m, "answer") /\ resolv_cache_add
      BY <3>2, ReturnFacts, ReturnTold, Zenon DEF Over, Kept
    <3> QED
      BY <2>1, <3>1, <3>2, KeptRecords, Zenon
<1> QED
  BY <1>1, <1>2, <1>3, <1>4, Zenon

----------------------------------------------------------------------------
(* The steps before cleartext.                                              *)

\* A step that goes on leaves the cache to be told.
LEMMA OnwardTold ==
    ASSUME ToldInv, pc # "done", Onward, pc' \in {"mdns", "cache"} => l.cache = "none"
    PROVE  ToldInv'
<1>1. pc' # "done" /\ told' = <<0, 0>> /\ l'.terrno # "answer" /\ l'.cache = l.cache
  BY Zenon DEF Onward, ToldInv, Kept
<1> QED
  BY <1>1, Zenon DEF ToldInv, CacheTold, Done

\* A step that asks nobody keeps SendInv when it tells the cache what it has to and reaches
\* cleartext with leave.
LEMMA EarlyKeeps ==
    ASSUME SendInv, UNCHANGED <<scene, private, log>>, ToldInv',
           DOMAIN l' = LocalFields, l'.fallback => Relaxed, pc' # "vc",
           pc' \in {"stats", "ask", "dg", "vc", "again"} => scene.local \/ Relaxed
    PROVE  SendInv'
<1>1. Shape'
  BY Zenon DEF SendInv, Shape
<1>2. ClearInv'
  BY Zenon DEF SendInv, ClearInv, Relaxed
<1>3. CreditInv'
  BY Zenon DEF SendInv, CreditInv, CreditedToSender
<1> QED
  BY <1>1, <1>2, <1>3, Zenon DEF SendInv

\* The same of a step whose end is that of FinishOver, or that goes on.
LEMMA EarlyOnward ==
    ASSUME SendInv, pc # "done", UNCHANGED <<scene, private, log>>,
           Over \/ (Onward /\ pc' \notin {"mdns", "vc"} /\ (pc' = "cache" => l.cache = "none")),
           pc' \in {"stats", "ask", "dg", "vc", "again"} => scene.local \/ Relaxed
    PROVE  SendInv'
<1>1. CASE Over
  BY <1>1, EarlyKeeps, Zenon DEF Over
<1>2. CASE Onward /\ pc' \notin {"mdns", "vc"} /\ (pc' = "cache" => l.cache = "none")
  <2>1. ToldInv'
    BY <1>2, OnwardTold, Zenon DEF SendInv
  <2>2. DOMAIN l' = LocalFields /\ (l'.fallback => Relaxed)
    BY <1>2, Zenon DEF Onward, Kept, SendInv, ClearInv
  <2> QED
    BY <1>2, <2>1, <2>2, EarlyKeeps, Zenon
<1> QED
  BY <1>1, <1>2, Zenon

\* Before its return the thread's variables are those the call may go on with.
LEMMA KeptNow ==
    ASSUME SendInv, pc # "done"
    PROVE  Kept(l) /\ ToldInv
  BY Zenon DEF SendInv, Shape, ToldInv, Kept

\* Private DNS ends the call with an answer or a failure, or leaves it to cleartext.
LEMMA PrivateEnds ==
    ASSUME SendInv, pc # "done", UNCHANGED <<scene, private, log>>,
           \/ \E via \in {"doh", "dot"} : PrivateAnswer(via)
           \/ \E rcode : PrivateFailed(rcode)
    PROVE  SendInv'
<1>0. Kept(l) /\ ToldInv
  BY KeptNow, Zenon
<1>1. ASSUME NEW via \in {"doh", "dot"}, PrivateAnswer(via) PROVE SendInv'
  <2>1. PICK kind \in TcpKinds :
          /\ Return([l EXCEPT !.ans = Reply(0, via, kind), !.rcode = Rcode(kind)], "answer")
          /\ resolv_cache_add
    BY <1>1, Zenon DEF PrivateAnswer
  <2>2. [l EXCEPT !.ans = Reply(0, via, kind), !.rcode = Rcode(kind)].cache = l.cache
    BY <1>0, Zenon DEF Kept, LocalFields
  <2>3. Over
    BY Zenon, <1>0, <2>1, <2>2, ReturnFacts, ReturnTold DEF Over
  <2> QED
    BY Zenon, <2>3, EarlyOnward DEF Over
<1>2. ASSUME NEW rcode, PrivateFailed(rcode) PROVE SendInv'
  <2>1. Kept([l EXCEPT !.rcode = rcode])
    BY <1>0, KeptRecords, Zenon
  <2>2. CASE l.fallback
    <3>1. Onward /\ pc' = "stats"
      BY <1>2, <2>1, <2>2, Zenon DEF PrivateFailed, Onward
    <3>2. Relaxed
      BY <2>2, Zenon DEF SendInv, ClearInv
    <3> QED
      BY <3>1, <3>2, EarlyOnward, Zenon
  <2>3. CASE ~l.fallback
    <3>1. Return([l EXCEPT !.rcode = rcode], "ETIMEDOUT") /\ query_failed
      BY <1>2, <2>3, Zenon DEF PrivateFailed
    <3>2. [l EXCEPT !.rcode = rcode].cache = l.cache
      BY <2>1, Zenon DEF Kept
    <3>3. Over
      BY Zenon, <1>0, <3>1, <3>2, ReturnFacts, ReturnTold DEF Over
    <3> QED
      BY Zenon, <3>3, EarlyOnward DEF Over
  <2> QED
    BY <2>2, <2>3, Zenon
<1> QED
  BY <1>1, <1>2, Zenon

\* send_mdns(): the cache has not been looked at.
LEMMA MdnsStep ==
    ASSUME SendInv, send_mdns
    PROVE  SendInv'
<1>0. pc = "mdns" /\ pc # "done" /\ UNCHANGED <<scene, private, log, told>>
  BY Zenon DEF send_mdns
<1>1. Kept(l) /\ ToldInv /\ l.cache = "none"
  BY <1>0, KeptNow, Zenon DEF ToldInv
<1>2. ASSUME NEW kind \in TcpKinds,
             Return([l EXCEPT !.ans = Reply(0, "mdns", kind), !.rcode = Rcode(kind)], "answer")
      PROVE  SendInv'
  <2>1. [l EXCEPT !.ans = Reply(0, "mdns", kind), !.rcode = Rcode(kind)].cache # "NOTFOUND"
    BY <1>1, Zenon DEF Kept, LocalFields
  <2>2. Over
    BY Zenon, <1>0, <1>1, <1>2, <2>1, ReturnFacts, ReturnTold DEF Over
  <2> QED
    BY Zenon, <1>0, <2>2, EarlyOnward DEF Over
<1>3. ASSUME NEW rcode, pc' = "cache", l' = [l EXCEPT !.rcode = rcode]
      PROVE  SendInv'
  <2>1. Kept([l EXCEPT !.rcode = rcode])
    BY <1>1, KeptRecords, Zenon
  <2>2. Onward /\ pc' = "cache"
    BY <1>0, <1>3, <2>1, Zenon DEF Onward
  <2> QED
    BY <1>0, <1>1, <2>2, EarlyOnward, Zenon
<1> QED
  BY <1>2, <1>3, Zenon DEF send_mdns

\* _resolv_cache_lookup(): the answer found is returned, and nothing else is told.
LEMMA LookupStep ==
    ASSUME SendInv, resolv_cache_lookup
    PROVE  SendInv'
<1>0. pc # "done" /\ UNCHANGED <<scene, private, log, told>>
  BY Zenon DEF resolv_cache_lookup
<1>1. Kept(l) /\ ToldInv
  BY <1>0, KeptNow, Zenon
<1>2. ASSUME NEW kind,
             Return([l EXCEPT !.cache = "FOUND", !.ans = Reply(0, "cache", kind), !.rcode = Rcode(kind)],
                    "answer")
      PROVE  SendInv'
  <2>1. [l EXCEPT !.cache = "FOUND", !.ans = Reply(0, "cache", kind), !.rcode = Rcode(kind)].cache
            # "NOTFOUND"
    BY <1>1, Zenon DEF Kept, LocalFields
  <2>2. Over
    BY Zenon, <1>0, <1>1, <1>2, <2>1, ReturnFacts, ReturnTold DEF Over
  <2> QED
    BY Zenon, <1>0, <2>2, EarlyOnward DEF Over
<1>3. ASSUME NEW status, pc' = "servers", l' = [l EXCEPT !.cache = status]
      PROVE  SendInv'
  <2>1. DOMAIN l' = LocalFields /\ l'.fallback = l.fallback /\ l'.terrno = l.terrno
    BY <1>1, <1>3, Zenon DEF Kept, LocalFields
  <2>2. ToldInv'
    BY <1>0, <1>1, <1>3, <2>1, Zenon DEF ToldInv, CacheTold, Done
  <2>3. l'.fallback => Relaxed
    BY <2>1, Zenon DEF SendInv, ClearInv
  <2> QED
    BY <1>0, <1>3, <2>1, <2>2, <2>3, EarlyKeeps, Zenon
<1> QED
  BY <1>2, <1>3, Zenon DEF resolv_cache_lookup

\* resolv_populate_res_for_net(): without nameservers the cache is told of the failure.
LEMMA NameserversStep ==
    ASSUME SendInv, nameservers
    PROVE  SendInv'
<1>0. pc # "done" /\ UNCHANGED <<scene, private, log>>
  BY Zenon DEF nameservers
<1>1. Kept(l) /\ ToldInv
  BY <1>0, KeptNow, Zenon
<1>2. CASE pc' = (IF scene.local THEN "stats" ELSE "status") /\ UNCHANGED <<l, told>>
  <2>1. Onward
    BY <1>1, <1>2, Zenon DEF Onward
  <2> QED
    BY <1>0, <1>2, <2>1, EarlyOnward, Zenon
<1>3. CASE Return(l, "ESRCH") /\ no_nameserver
  <2>1. Over
    BY Zenon, <1>0, <1>1, <1>3, ReturnFacts, ReturnTold DEF Over, no_nameserver
  <2> QED
    BY Zenon, <1>0, <2>1, EarlyOnward DEF Over
<1> QED
  BY <1>2, <1>3, Zenon DEF nameservers

\* getStatus() and the wait for a validated server: *fallback is set by a mode there was.
LEMMA StatusStep ==
    ASSUME SendInv, getStatus \/ wait_validated
    PROVE  SendInv'
<1>0. /\ pc \in {"status", "wait"} /\ pc # "done" /\ UNCHANGED <<scene, private, log, told>>
      /\ private.mode \in log.modes /\ (l.fallback => Relaxed)
  BY Zenon DEF getStatus, wait_validated, SendInv, ClearInv
<1>1. Kept(l) /\ ToldInv
  BY <1>0, KeptNow, Zenon
<1>2. CASE getStatus
  <2>1. l' = [l EXCEPT !.status = private, !.fallback = mayFallBack(private)]
    BY <1>2, Zenon DEF getStatus
  <2>2. DOMAIN l' = LocalFields /\ l'.fallback = mayFallBack(private) /\ l'.terrno = l.terrno
    BY <1>1, <2>1, Zenon DEF Kept, LocalFields
  <2>3. mayFallBack(private) => Relaxed
    BY <1>0, Zenon DEF mayFallBack, Relaxed
  <2>4. /\ pc' \in {"stats", "doh", "wait", "dot"}
        /\ pc' = "stats" => mayFallBack(private)
    BY <1>2, Zenon DEF getStatus, mayFallBack
  <2>5. ToldInv'
    BY <1>0, <1>1, <2>2, <2>4, Zenon DEF ToldInv, CacheTold, Done
  <2> QED
    BY <1>0, <2>2, <2>3, <2>4, <2>5, EarlyKeeps, Zenon
<1>3. CASE wait_validated
  <2>1. pc' \in {"doh", "wait", "dot"}
    BY <1>3, Zenon DEF wait_validated
  <2>2. UNCHANGED l \/ l' = [l EXCEPT !.waits = l.waits + 1, !.status = private]
    BY <1>3, Zenon DEF wait_validated
  <2>3. Kept(l')
    BY <1>1, <2>2, Zenon DEF Kept, LocalFields
  <2>4. Onward
    BY <1>0, <2>1, <2>3, Zenon DEF Onward
  <2> QED
    BY <1>0, <2>1, <2>4, EarlyOnward, Zenon
<1> QED
  BY <1>2, <1>3, Zenon

\* res_doh_send() and res_tls_send().
LEMMA PrivateStep ==
    ASSUME SendInv, res_doh_send \/ res_tls_send
    PROVE  SendInv'
<1>0. pc # "done" /\ UNCHANGED <<scene, private, log>>
  BY Zenon DEF res_doh_send, res_tls_send
<1>1. \/ \E via \in {"doh", "dot"} : PrivateAnswer(via)
      \/ \E rcode : PrivateFailed(rcode)
      \/ pc' \in {"wait", "dot"} /\ UNCHANGED <<l, told>>
  BY Zenon DEF res_doh_send, res_tls_send
<1>2. CASE pc' \in {"wait", "dot"} /\ UNCHANGED <<l, told>>
  <2>1. Onward
    BY <1>0, <1>2, KeptNow, Zenon DEF Onward
  <2> QED
    BY <1>0, <1>2, <2>1, EarlyOnward, Zenon
<1> QED
  BY <1>0, <1>1, <1>2, PrivateEnds, Zenon

\* The framework and the validation threads change the status under a waiting lookup.
LEMMA ChangePrivateStep ==
    ASSUME SendInv, ChangePrivate
    PROVE  SendInv'
<1>1. /\ UNCHANGED <<scene, pc, l, tcp, told>>
      /\ pc \in {"status", "wait", "doh", "dot"}
      /\ log' = [log EXCEPT !.modes = log.modes \cup {private'.mode}]
  BY Zenon DEF ChangePrivate
<1>2. /\ DOMAIN log' = LogFields /\ log'.modes = log.modes \cup {private'.mode}
      /\ log'.clear = log.clear /\ log'.credits = log.credits /\ log'.read = log.read
  BY <1>1, Zenon DEF SendInv, Shape, LogFields
<1>3. Shape' /\ ToldInv'
  BY <1>1, <1>2, Zenon DEF SendInv, Shape, ToldInv, CacheTold, Done, Registered
<1>4. ClearInv'
  BY <1>1, <1>2, Zenon DEF SendInv, ClearInv, Relaxed
<1>5. CreditInv'
  BY <1>1, <1>2, Zenon DEF SendInv, CreditInv, CreditedToSender
<1> QED
  BY <1>3, <1>4, <1>5, Zenon DEF SendInv

\* resolv_cache_get_resolver_stats(): the network may be gone, and its pending requests.
LEMMA StatsStep ==
    ASSUME SendInv, get_resolver_stats
    PROVE  SendInv'
<1>0. pc = "stats" /\ pc # "done" /\ UNCHANGED <<scene, private, log, told>>
  BY Zenon DEF get_resolver_stats
<1>1. Kept(l) /\ ToldInv /\ (scene.local \/ Relaxed)
  BY <1>0, KeptNow, Zenon DEF SendInv, ClearInv
<1>2. ASSUME NEW usable, NEW n, l' = [l EXCEPT !.usable = usable, !.useTcp = scene.large, !.ns = n], pc' = "ask"
      PROVE  SendInv'
  <2>1. Kept(l')
    BY <1>1, <1>2, Zenon DEF Kept, LocalFields
  <2>2. Onward
    BY <1>0, <1>2, <2>1, Zenon DEF Onward
  <2> QED
    BY <1>0, <1>1, <1>2, <2>2, EarlyOnward, Zenon
<1>3. CASE Return([l EXCEPT !.cache = "deleted"], "ESRCH")
  <2>1. [l EXCEPT !.cache = "deleted"].cache # "NOTFOUND"
    BY <1>1, Zenon DEF Kept, LocalFields
  <2>2. Over
    BY <1>0, <1>1, <1>3, <2>1, ReturnFacts, ReturnTold, Zenon DEF Over
  <2> QED
    BY <1>0, <2>2, EarlyOnward, Zenon DEF Over
<1> QED
  BY <1>2, <1>3, Zenon DEF get_resolver_stats

----------------------------------------------------------------------------
(* Cleartext.                                                               *)

\* In cleartext only the servers asked and the replies credited are news to the history.
LEMMA ClearKeeps ==
    ASSUME SendInv, pc \in {"ask", "dg", "vc", "again"}, UNCHANGED <<scene, private>>,
           Over \/ (Onward /\ pc' \in {"ask", "dg", "vc", "again"}),
           DOMAIN log' = LogFields, log'.modes = log.modes, CreditInv'
    PROVE  SendInv'
<1>1. pc # "done" /\ ToldInv
  BY Zenon DEF SendInv
<1>2. ToldInv'
  BY <1>1, OnwardTold, Zenon DEF Over
<1>3. DOMAIN l' = LocalFields /\ (l'.fallback => l.fallback)
  BY Zenon DEF Over, Onward, Kept
<1>4. ClearInv'
  BY <1>3, Zenon DEF SendInv, ClearInv, Relaxed
<1> QED
  BY <1>2, <1>3, <1>4, Zenon DEF SendInv, Shape

\* A send that ends and credits nobody.
LEMMA QuietKeeps ==
    ASSUME SendInv, pc \in {"ask", "dg", "vc", "again"}, UNCHANGED <<scene, private, log>>,
           NEW m, NEW u, NEW t, Kept(m), NEW resplen \in {"zero", "tcp", "fatal"}, After(m, u, t, resplen)
    PROVE  SendInv'
<1>1. (Onward /\ pc' = "ask") \/ Over
  BY AfterOnward, Zenon DEF SendInv
<1>2. pc' # "vc"
  BY <1>1, Zenon DEF Over
<1>3. CreditInv' /\ DOMAIN log' = LogFields
  BY <1>2, Zenon DEF SendInv, CreditInv, CreditedToSender, Shape
<1> QED
  BY <1>1, <1>3, ClearKeeps, Zenon

\* A send that ends with a reply, and credits the server it is from.
LEMMA ReplyKeeps ==
    ASSUME SendInv, pc \in {"ask", "dg", "vc", "again"}, UNCHANGED <<scene, private>>,
           NEW m, NEW u, NEW t, NEW s, Kept(m), m.ans.by = s, Rcode(m.ans.kind) = m.rcode,
           After(m, u, t, "answer"),
           log' = [log EXCEPT !.read = log.read \cup {m.ans}, !.credits = log.credits \cup Sample(m, s)]
    PROVE  SendInv'
<1>1. (Onward /\ pc' = "ask") \/ Over
  BY AfterOnward, Zenon DEF SendInv
<1>2. pc' # "vc"
  BY <1>1, Zenon DEF Over
<1>3. /\ DOMAIN log' = LogFields /\ log'.modes = log.modes
      /\ log'.read = log.read \cup {m.ans} /\ log'.credits = log.credits \cup Sample(m, s)
  BY Zenon DEF SendInv, Shape, LogFields
<1>4. ASSUME NEW x \in Sample(m, s) PROVE m.ans.by = x.of /\ Rcode(m.ans.kind) = x.rcode
  BY <1>4 DEF Sample
<1>5. CreditedToSender'
  BY <1>3, <1>4, Zenon DEF SendInv, CreditInv, CreditedToSender
<1>6. CreditInv'
  BY <1>2, <1>5, Zenon DEF CreditInv
<1> QED
  BY <1>1, <1>3, <1>6, ClearKeeps, Zenon

\* A query is sent and its reply waited for: the servers asked in the clear grow.
LEMMA AskedKeeps ==
    ASSUME SendInv, pc \in {"ask", "again"}, UNCHANGED <<scene, private, told>>, Kept(l'),
           pc' \in {"dg", "vc"}, pc' = "vc" => tcp' = l'.ns,
           DOMAIN log' = LogFields, log'.modes = log.modes, log'.read = log.read,
           log'.credits = log.credits
    PROVE  SendInv'
<1>1. CreditInv'
  BY Zenon DEF SendInv, CreditInv, CreditedToSender
<1>2. Onward
  BY Zenon DEF Onward
<1> QED
  BY <1>1, <1>2, ClearKeeps, Zenon

\* What a send begins with, and what is left of it when it fails.
LEMMA KeptBegin ==
    ASSUME SendInv, pc # "done"
    PROVE  /\ Kept(l) /\ Kept(Failed(l)) /\ Kept(VcFailed(Failed(l)))
           /\ Kept(Begin) /\ Kept(Failed(Begin))
           /\ Kept(OneAttempt([Begin EXCEPT !.connreset = FALSE]))
           /\ OneAttempt([Begin EXCEPT !.connreset = FALSE]).ns = l.ns
<1>1. Kept(l)
  BY KeptNow, Zenon
<1>2. Kept(Begin) /\ Begin.ns = l.ns
  BY <1>1, Zenon DEF Begin, Kept, LocalFields
<1>3. Kept(OneAttempt([Begin EXCEPT !.connreset = FALSE]))
  BY <1>2, KeptRecords, Zenon
<1>4. OneAttempt([Begin EXCEPT !.connreset = FALSE]).ns = l.ns
  BY <1>2, Zenon DEF OneAttempt, Kept, LocalFields
<1> QED
  BY <1>1, <1>2, <1>3, <1>4, KeptRecords, Zenon

\* send_dg() until the query is sent.
LEMMA DgSendStep ==
    ASSUME SendInv, dg_send
    PROVE  SendInv'
<1>0. pc = "ask" /\ pc # "done" /\ UNCHANGED <<scene, private>>
  BY Zenon DEF dg_send
<1>1. CASE /\ UNCHANGED log
           /\ \E u, t, resplen : resplen \in {"zero", "fatal"} /\ After(Failed(Begin), u, t, resplen)
  BY <1>0, <1>1, KeptBegin, QuietKeeps, Zenon
<1>2. CASE /\ pc' = "dg" /\ l' = Begin /\ UNCHANGED told
           /\ log' = [log EXCEPT !.clear = log.clear \cup {l.ns}]
  <2>1. /\ DOMAIN log' = LogFields /\ log'.modes = log.modes
        /\ log'.read = log.read /\ log'.credits = log.credits
    BY <1>2, Zenon DEF SendInv, Shape, LogFields
  <2> QED
    BY <1>0, <1>2, <2>1, KeptBegin, AskedKeeps, Zenon
<1> QED
  BY <1>1, <1>2, Zenon DEF dg_send, setupUdpSocket_fails

\* send_dg() without a reply.
LEMMA DgFailStep ==
    ASSUME SendInv, dg_timeout \/ dg_poll_error
    PROVE  SendInv'
<1>0. pc = "dg" /\ pc # "done" /\ UNCHANGED <<scene, private, log>>
  BY Zenon DEF dg_timeout, dg_poll_error
<1> DEFINE m == [l EXCEPT !.rcode = "TIMEOUT", !.terrno = "ETIMEDOUT", !.got = TRUE]
<1>1. Kept(m) /\ Kept(Failed(l))
  <2>1. Kept(l)
    BY <1>0, KeptNow, Zenon
  <2>2. Kept(m)
    BY <2>1, Zenon DEF Kept, LocalFields
  <2> QED
    BY <1>0, <2>2, KeptBegin, Zenon
<1>2. \E x, u, t : Kept(x) /\ After(x, u, t, "zero")
  BY <1>1, Zenon DEF dg_timeout, dg_poll_error
<1> QED
  BY <1>0, <1>2, QuietKeeps, Zenon

\* send_vc() until the query is sent.
LEMMA VcSendStep ==
    ASSUME SendInv, vc_send
    PROVE  SendInv'
<1>0. pc \in {"ask", "again"} /\ pc # "done" /\ UNCHANGED <<scene, private>>
  BY Zenon DEF vc_send
<1> DEFINE b == IF pc = "again" THEN l ELSE OneAttempt([Begin EXCEPT !.connreset = FALSE])
           f == VcFailed(Failed(b))
<1>1. Kept(b) /\ b.ns = l.ns
  BY <1>0, KeptBegin, Zenon
<1>2. Kept(f) /\ Kept([f EXCEPT !.rcode = "TIMEOUT"])
  BY <1>1, KeptRecords, Zenon
<1> HIDE DEF f
<1>3. CASE /\ UNCHANGED log
           /\ \E x, u, t, resplen : Kept(x) /\ resplen \in {"zero", "fatal"} /\ After(x, u, t, resplen)
  BY <1>0, <1>3, QuietKeeps, Zenon
<1>4. CASE /\ pc' = "vc" /\ l' = b /\ tcp' = (IF SamePeer(l.ns) THEN tcp ELSE l.ns) /\ UNCHANGED told
           /\ \E n : log' = [log EXCEPT !.clear = log.clear \cup {l.ns}, !.tcps = n]
  <2>1. /\ DOMAIN log' = LogFields /\ log'.modes = log.modes
        /\ log'.read = log.read /\ log'.credits = log.credits
    BY <1>4, Zenon DEF SendInv, Shape, LogFields
  <2>2. tcp' = l'.ns /\ Kept(l')
    BY <1>1, <1>4, Zenon DEF SamePeer
  <2> QED
    BY <1>0, <1>4, <2>1, <2>2, AskedKeeps, Zenon
<1>5. \/ /\ UNCHANGED log
         /\ \E x, u, t, resplen : Kept(x) /\ resplen \in {"zero", "fatal"} /\ After(x, u, t, resplen)
      \/ /\ pc' = "vc" /\ l' = b /\ tcp' = (IF SamePeer(l.ns) THEN tcp ELSE l.ns) /\ UNCHANGED told
         /\ \E n : log' = [log EXCEPT !.clear = log.clear \cup {l.ns}, !.tcps = n]
  BY <1>2, Zenon DEF vc_send, connect_with_timeout_fails, f
<1> QED
  BY <1>3, <1>4, <1>5, Zenon

\* The datagrams read leave variables the call may go on with, and the reply that ends the
\* send comes from the server whose socket it was read from.
LEMMA DgReadStep ==
    ASSUME SendInv, dg_read
    PROVE  SendInv'
<1> DEFINE ends == {s \in Ready : Conclusive(udp.inbox[s])}
           last == IF ends # {} THEN Min(ends) ELSE Max(Ready)
           seen == {s \in Ready : s <= last}
           kind == udp.inbox[last]
           u    == [udp EXCEPT !.inbox = [s \in Servers |-> IF s \in seen THEN "none" ELSE @[s]]]
           g    == l.got \/ \E s \in seen : udp.inbox[s] # "icmp"
           e    == l.edns0err \/ \E s \in seen \ ends : udp.inbox[s] = "formerr"
           r    == IF \E s \in seen : udp.inbox[s] = "servfail" THEN "SERVFAIL" ELSE l.rcode
           te   == IF \E s \in seen : udp.inbox[s] \in {"icmp", "short", "formerr"}
                   THEN "errno" ELSE l.terrno
           m    == [l EXCEPT !.got = g, !.edns0err = e, !.rcode = r, !.terrno = te]
           good == [m EXCEPT !.ans = Reply(last, "udp", kind), !.rcode = Rcode(kind), !.terrno = "0"]
<1>0. pc = "dg" /\ pc # "done" /\ UNCHANGED <<scene, private>>
  BY Zenon DEF dg_read
<1>1. \/ UNCHANGED <<pc, told, log>> /\ l' = m
      \/ After(m, u, tcp, "zero") /\ UNCHANGED log
      \/ After(Failed(m), u, tcp, "tcp") /\ UNCHANGED log
      \/ /\ After(good, u, tcp, "answer")
         /\ log' = [log EXCEPT !.read = log.read \cup {good.ans},
                               !.credits = log.credits \cup Sample(good, last)]
  BY Zenon DEF dg_read, actualNs
<1>2. Kept(l) /\ te # "answer"
  BY <1>0, KeptNow, Zenon DEF Kept
<1> HIDE DEF te, g, e, r, kind, last
<1>3. /\ Kept(m) /\ Kept(good) /\ Kept(Failed(m))
      /\ good.ans.by = last /\ Rcode(good.ans.kind) = good.rcode
  <2>1. Kept(m)
    BY <1>2, Zenon DEF Kept, LocalFields
  <2> HIDE DEF m
  <2>2. Kept(good) /\ good.ans = Reply(last, "udp", kind) /\ good.rcode = Rcode(kind)
    BY <2>1, Zenon DEF Kept, LocalFields
  <2>3. Reply(last, "udp", kind).by = last /\ Reply(last, "udp", kind).kind = kind
    BY Zenon DEF Reply
  <2> QED
    BY <2>1, <2>2, <2>3, KeptRecords, Zenon
<1> HIDE DEF m, good, u
<1>4. CASE UNCHANGED <<pc, told, log>> /\ l' = m
  <2>1. Onward
    BY <1>0, <1>3, <1>4, Zenon DEF Onward
  <2>2. CreditInv' /\ DOMAIN log' = LogFields
    BY <1>0, <1>4, Zenon DEF SendInv, CreditInv, CreditedToSender, Shape
  <2> QED
    BY <1>0, <1>4, <2>1, <2>2, ClearKeeps, Zenon
<1>5. CASE After(m, u, tcp, "zero") /\ UNCHANGED log
  BY <1>0, <1>3, <1>5, QuietKeeps, Zenon
<1>6. CASE After(Failed(m), u, tcp, "tcp") /\ UNCHANGED log
  BY <1>0, <1>3, <1>6, QuietKeeps, Zenon
<1>7. CASE /\ After(good, u, tcp, "answer")
           /\ log' = [log EXCEPT !.read = log.read \cup {good.ans},
                                 !.credits = log.credits \cup Sample(good, last)]
  BY <1>0, <1>3, <1>7, ReplyKeeps, Zenon
<1> QED
  BY <1>1, <1>4, <1>5, <1>6, <1>7, Zenon

\* send_vc() reads the reply: it comes from the server connected to, the one asked.
LEMMA VcReadStep ==
    ASSUME SendInv, vc_read
    PROVE  SendInv'
<1>0. pc = "vc" /\ pc # "done" /\ tcp = l.ns /\ UNCHANGED <<scene, private>>
  BY Zenon DEF vc_read, SendInv, CreditInv
<1>1. Kept(l) /\ Kept(VcFailed(Failed(l))) /\ Kept([l EXCEPT !.connreset = TRUE])
  BY <1>0, KeptBegin, KeptRecords, Zenon
<1>2. ASSUME NEW kind,
             LET m == [l EXCEPT !.ans = Reply(tcp, "tcp", kind), !.rcode = Rcode(kind), !.terrno = "0"] IN
             /\ After(m, udp, tcp, "answer")
             /\ log' = [log EXCEPT !.read = log.read \cup {m.ans},
                                   !.credits = log.credits \cup Sample(m, m.ns)]
      PROVE  SendInv'
  <2> DEFINE m == [l EXCEPT !.ans = Reply(tcp, "tcp", kind), !.rcode = Rcode(kind), !.terrno = "0"]
  <2>1. Kept(m) /\ m.ns = tcp /\ m.ans.by = tcp /\ Rcode(m.ans.kind) = m.rcode
    BY <1>0, <1>1, Zenon DEF Kept, LocalFields, Reply
  <2>2. /\ After(m, udp, tcp, "answer")
        /\ log' = [log EXCEPT !.read = log.read \cup {m.ans}, !.credits = log.credits \cup Sample(m, m.ns)]
    BY <1>2, Zenon
  <2> HIDE DEF m
  <2> QED
    BY <1>0, <2>1, <2>2, ReplyKeeps, Zenon
<1>3. CASE After(VcFailed(Failed(l)), Closed, 0, "zero") /\ UNCHANGED log
  BY <1>0, <1>1, <1>3, QuietKeeps, Zenon
<1>4. CASE pc' = "again" /\ l' = [l EXCEPT !.connreset = TRUE] /\ UNCHANGED <<told, log>>
  <2>1. Onward
    BY <1>1, <1>4, Zenon DEF Onward
  <2>2. CreditInv' /\ DOMAIN log' = LogFields
    BY <1>4, Zenon DEF SendInv, CreditInv, CreditedToSender, Shape
  <2> QED
    BY <1>0, <1>4, <2>1, <2>2, ClearKeeps, Zenon
<1> QED
  BY <1>2, <1>3, <1>4, Zenon DEF vc_read

----------------------------------------------------------------------------
(* SendInv is inductive.                                                    *)

\* A call that has just begun.
LEMMA InitSend == Init => SendInv
<1> SUFFICES ASSUME Init PROVE SendInv
  BY Zenon
<1>1. /\ pc \in {"mdns", "cache"} /\ l = NoLocals /\ told = <<0, 0>> /\ private = scene.private
      /\ log = [clear |-> {}, tcps |-> [s \in Servers |-> 0], read |-> {}, credits |-> {},
                modes |-> {scene.private.mode}]
  BY Zenon DEF Init
<1>2. /\ DOMAIN l = LocalFields /\ l.cache = "none" /\ l.fallback = FALSE /\ l.terrno = "ETIME"
  BY <1>1, Zenon DEF NoLocals, LocalFields
<1>3. /\ DOMAIN log = LogFields /\ log.clear = {} /\ log.credits = {} /\ private.mode \in log.modes
  BY <1>1, Zenon DEF LogFields
<1>4. ToldInv
  BY <1>1, <1>2 DEF ToldInv, CacheTold, Done
<1>5. ClearInv /\ CreditInv
  BY <1>1, <1>2, <1>3, Zenon DEF ClearInv, CreditInv, CreditedToSender
<1> QED
  BY <1>2, <1>3, <1>4, <1>5, Zenon DEF SendInv, Shape

\* Every step of the thread, the network and private DNS keeps SendInv.
LEMMA NextSend == SendInv /\ [Next]_vars => SendInv'
<1> SUFFICES ASSUME SendInv, [Next]_vars PROVE SendInv'
  BY Zenon
<1>1. CASE Arrive \/ UNCHANGED vars
  <2>1. UNCHANGED <<scene, pc, l, tcp, private, told, log>>
    BY <1>1, Zenon DEF Arrive, vars
  <2> QED
    BY <2>1, Zenon DEF SendInv, Shape, ToldInv, CacheTold, Done, Registered, ClearInv, Relaxed, CreditInv,
                CreditedToSender
<1>2. CASE send_mdns \/ resolv_cache_lookup \/ nameservers
  BY <1>2, MdnsStep, LookupStep, NameserversStep, Zenon
<1>3. CASE getStatus \/ wait_validated \/ res_doh_send \/ res_tls_send \/ ChangePrivate
  BY <1>3, StatusStep, PrivateStep, ChangePrivateStep, Zenon
<1>4. CASE get_resolver_stats \/ dg_send \/ dg_timeout \/ dg_poll_error \/ dg_read
  BY <1>4, StatsStep, DgSendStep, DgFailStep, DgReadStep, Zenon
<1>5. CASE vc_send \/ vc_read
  BY <1>5, VcSendStep, VcReadStep, Zenon
<1> QED
  BY <1>1, <1>2, <1>3, <1>4, <1>5, Zenon DEF Next, Thread

\* SendInv holds throughout the call.
LEMMA SendHolds == Spec => []SendInv
  BY InitSend, NextSend, PTL DEF Spec

\* Whatever a lookup meets, and whichever way res_nsend() returns, it ends the pending
\* request it registered exactly once: with an answer or with a failure.
THEOREM CacheIsTold == Spec => []CacheTold
<1>1. SendInv => CacheTold
  BY Zenon DEF SendInv, ToldInv
<1> QED
  BY <1>1, SendHolds, PTL

\* While the network is strict no query of res_nsend() leaves it in the clear, however the
\* servers' validation changes during the wait and the sends.
THEOREM StrictNeverInClear == Spec => []StrictStaysPrivate
<1>1. SendInv => StrictStaysPrivate
  BY Zenon DEF SendInv, ClearInv, Relaxed, StrictStaysPrivate
<1> QED
  BY <1>1, SendHolds, PTL

\* A sample recorded for a server rests on a reply read from that server, with its rcode,
\* though sockets of servers asked before are read as well.
THEOREM SamplesCreditSender == Spec => []CreditedToSender
<1>1. SendInv => CreditedToSender
  BY Zenon DEF SendInv, CreditInv
<1> QED
  BY <1>1, SendHolds, PTL
============================================================================
