---------------------------- MODULE StubResolver ----------------------------
(***************************************************************************)
(* One call of the stub resolver: resolv_getaddrinfo() (getaddrinfo.cpp),   *)
(* resolv_gethostbyname(), resolv_gethostbyaddr() (gethnamaddr.cpp over     *)
(* res_query.cpp) or resolv_res_nsend() (res_send.cpp), with the nullroute  *)
(* hooks H1 to H5 in them, against a filter whose policy changes meanwhile. *)
(*                                                                         *)
(* What res_nsend() may do for one query is a set of outcomes, chosen from  *)
(* at each send (ResSend models how they come about). An outcome is         *)
(*   n         whether it returned a length or an error,                    *)
(*   rcode     its rcode argument,                                          *)
(*   buf       what it left in the caller's buffer, which a failed call may *)
(*             have written too (an ignored or truncated packet), or Kept,  *)
(*   errno     what errno it left behind: "kept", "refused" or "other",     *)
(*   edns0err  whether it set RES_F_EDNS0ERR.                               *)
(* A scene fixes the call, its name, the network's configuration and the    *)
(* outcomes that can happen in it.                                          *)
(***************************************************************************)
EXTENDS AddrSort, FiniteSets

CONSTANTS
    Scenes,     \* the calls
    MaxLinks,   \* NR_CNAME_MAX_LINKS
    MaxAddrs    \* MAXADDRS - 1

VARIABLES
    scene,      \* the call and its surroundings
    policy,     \* what the nullroute control page and index say
    ctl,        \* NrCname's mapping of the control page: "unmapped", "ready" or "dead"
    l,          \* the locals of the call
    ret,        \* what the call returned
    log         \* history: what the properties compare the result with

vars == <<scene, policy, ctl, l, ret, log>>

-----------------------------------------------------------------------------
\* Messages. A record is owner, type and data: an address, or the target of a CNAME or PTR.
\* "bad": its name does not expand; "cut": the message ends inside it.
Record(owner, type, data) == [owner |-> owner, type |-> type, data |-> data]
Message(rcode, ans) == [rcode |-> rcode, ans |-> ans]
Kept == [rcode |-> "kept", ans |-> <<>>]
Fresh == Message("NOERROR", <<>>)
Targets(ans) == {ans[i].data : i \in {j \in DOMAIN ans : ans[j].type = "CNAME"}}

\* The name that was asked: how many dots it has and where.
HasDot(name) == name # "single"
TrailingDot(name) == name \in {"single.", "multi."}
HasTwoLabels(name) == name \in {"multi", "multi."}
IsMdns(name) == name = "local"

IsGai == scene.call = "getaddrinfo"

-----------------------------------------------------------------------------
\* The nullroute surface.
PASS == "PASS"

\* evaluate(): what nr_canonicalize() refuses passes; a sinkhole is a redirect to 0.0.0.0.
AnyAddr == [af |-> "INET", range |-> "global", bits |-> 0]
evaluate(v) ==
    IF ~policy.enforce \/ v = PASS THEN [kind |-> PASS, addr |-> NoSource]
    ELSE IF v = "BLOCK" /\ policy.mode = "SINKHOLE" THEN [kind |-> "REDIRECT", addr |-> AnyAddr]
    ELSE IF v = "BLOCK" THEN [kind |-> "BLOCK", addr |-> NoSource]
    ELSE [kind |-> "REDIRECT", addr |-> policy.redirect]
hook == evaluate(IF HasTwoLabels(scene.name) THEN policy.asked ELSE PASS)

blockErrno == IF policy.mode = "NODATA" THEN "EAI_NODATA" ELSE "EAI_NONAME"

hostsLayerSuperseded == policy.enforce /\ HasTwoLabels(scene.name)

\* cnameControl(): the mapping may succeed, be too early or busy, or be denied for good.
cnameControl == IF ctl = "unmapped" THEN {"unmapped", "ready", "dead"} ELSE {ctl}

\* nr_cname_collect(): the first MaxLinks targets of a whole, successful answer.
nr_cname_collect(m) ==
    LET links == SelectSeq(m.ans, LAMBDA r : r.type = "CNAME")
    IN  IF m.rcode # "NOERROR" \/ \E i \in DOMAIN m.ans : m.ans[i].type \in {"bad", "cut"} THEN {}
        ELSE Targets(SubSeq(links, 1, Min({MaxLinks, Len(links)})))

\* Mutant: only the first link is judged.
cnameBlocked_FirstLink(c, n, m) ==
    /\ n > 0 /\ c = "ready" /\ policy.uncloak
    /\ Len(m.ans) > 0 /\ m.ans[1].type = "CNAME" /\ m.ans[1].data = "t"
    /\ evaluate(policy.target).kind # PASS

\* nr_cname_uncloak_blocked(): any verdict on any link drops the answer. Of the names in
\* answers, policy.target is the verdict on "t"; the others pass.
cnameBlocked(c, n, m) ==
    /\ n > 0 /\ c = "ready" /\ policy.uncloak
    /\ "t" \in nr_cname_collect(m)
    /\ evaluate(policy.target).kind # PASS

-----------------------------------------------------------------------------
\* Results. An entry is an address with its socket type, the owner of its record and the
\* links of the answer it came from.
Entry(addr, type, owner, links) == [addr |-> addr, type |-> type, owner |-> owner, links |-> links]

Families == CASE scene.family = "UNSPEC" -> {"INET", "INET6"} [] OTHER -> {scene.family}

\* get_port(): a service is refused for raw sockets.
get_port_fails(type) == scene.serv /\ type = "RAW"

\* explore_numeric(): a literal of this family, unless its service is refused.
explore_numeric(addr, type) ==
    IF get_port_fails(type) \/ addr.af \notin Families THEN <<>>
    ELSE <<Entry(addr, type, "literal", {})>>

\* android_getaddrinfofornetcontext() with AI_NUMERICHOST: one entry per socket type.
numeric_host(addr, types) ==
    LET list == FlattenSeq([i \in DOMAIN types |-> explore_numeric(addr, types[i])]) IN
    IF \A i \in DOMAIN types : get_port_fails(types[i]) THEN [err |-> "EAI_SERVICE", list |-> <<>>]
    ELSE [err |-> IF list = <<>> THEN "EAI_NONAME" ELSE "0", list |-> list]

getaddrinfo_numeric(addr) == numeric_host(addr, scene.types)

\* fillHostent()
fillHostent(addr) ==
    IF addr.af = scene.family THEN [err |-> "0", list |-> <<Entry(addr, "any", "literal", {})>>]
    ELSE [err |-> blockErrno, list |-> <<>>]

getHerrnoFromRcode(rcode) ==
    CASE rcode = "TIMEOUT"  -> "EXT_TIMEOUT"
      [] rcode = "NXDOMAIN" -> "HOST_NOT_FOUND"
      [] rcode = "SERVFAIL" -> "TRY_AGAIN"
      [] rcode = "NOERROR"  -> "NO_DATA"
      [] OTHER              -> "NO_RECOVERY"

herrnoToAiErrno(he) ==
    CASE he = "EXT_TIMEOUT"                      -> "NETD_RESOLV_TIMEOUT"
      [] he \in {"HOST_NOT_FOUND", "NO_DATA"}    -> "EAI_NODATA"
      [] he = "TRY_AGAIN"                        -> "EAI_AGAIN"
      [] he = "NETDB_INTERNAL"                   -> "EAI_MEMORY"
      [] he = "NETDB_SUCCESS"                    -> "0"
      [] OTHER                                   -> "EAI_FAIL"

-----------------------------------------------------------------------------
\* The two getanswer()s, as a fold over the records: canon is the name an address must be
\* owned by, used the space the hostent's buffer has lost to aliases and addresses.
Parse0 == [canon |-> "q", list |-> <<>>, used |-> 0, error |-> FALSE, cut |-> FALSE]

\* The owner has to be the question or the target of the last CNAME.
Owned(p, r) == r.owner = p.canon

AnswerRecord(p, r, type, m) ==
    CASE p.error \/ p.cut         -> p
      [] r.type = "cut"           -> [p EXCEPT !.cut = TRUE]
      [] r.type = "bad"           -> [p EXCEPT !.error = TRUE]
      [] r.type = "CNAME"         -> [p EXCEPT !.canon = r.data, !.used = @ + 1]
      [] r.type # type \/ ~Owned(p, r) -> p
      [] type = "PTR"             -> [p EXCEPT !.list = Append(@, Entry(scene.addr, "any", r.owner, Targets(m.ans)))]
      [] r.data.range = "mapped"  -> p
      [] ~IsGai /\ p.used = scene.space    -> [p EXCEPT !.error = TRUE]
      [] ~IsGai /\ Len(p.list) = MaxAddrs  -> p
      [] OTHER -> [p EXCEPT !.list = Append(@, Entry(r.data, l.type, r.owner, Targets(m.ans))), !.used = @ + 1]

ParseAnswer(m, type) == FoldLeft(LAMBDA p, r : AnswerRecord(p, r, type, m), Parse0, m.ans)

\* getanswer() of getaddrinfo.cpp
getanswer_gai(n, m, type) ==
    LET p == ParseAnswer(m, type) IN
    IF n < 0 \/ p.cut \/ p.list = <<>> THEN [he |-> "NO_RECOVERY", list |-> <<>>]
    ELSE [he |-> "NETDB_SUCCESS", list |-> p.list]

\* The slots that pad_v4v6_hostent() and the two pointer arrays take at the end.
PointerArrays == 2
PadSlots(p) == IF scene.family = "INET" THEN Len(p.list) ELSE 0

\* getanswer() of gethnamaddr.cpp: what no longer fits is EAI_MEMORY.
getanswer_hostent(m, type) ==
    LET p == ParseAnswer(m, type) IN
    IF p.cut \/ p.list = <<>> THEN [he |-> "NO_RECOVERY", list |-> <<>>]
    ELSE IF type # "PTR" /\ p.used + PadSlots(p) + PointerArrays > scene.space
    THEN [he |-> "NETDB_INTERNAL", list |-> <<>>]
    ELSE [he |-> "NETDB_SUCCESS", list |-> p.list]

-----------------------------------------------------------------------------
\* Locals at the start of a lookup of one socket type.
Idle == [pc |-> "idle", ex |-> 0, type |-> "any", cands |-> <<>>, queries |-> <<>>, bufs |-> <<>>,
         ns |-> <<>>, he |-> "HOST_NOT_FOUND", saved |-> "none", nodata |-> FALSE,
         servfail |-> FALSE, errno |-> "0", edns0err |-> FALSE, retried |-> FALSE, k |-> 1,
         list |-> <<>>, res |-> <<>>]

NoResult == [err |-> "none", list |-> <<>>]

StubInit ==
    /\ scene \in Scenes
    /\ policy = scene.policy
    /\ ctl = scene.ctl
    /\ l = [Idle EXCEPT !.pc = "hook"]
    /\ ret = NoResult
    /\ log = [verdict |-> "none", redirect |-> NoSource, sends |-> 0, tries |-> <<>>, he |-> "none",
              elems |-> <<>>, changed |-> FALSE]

Return(r) == ret' = r /\ l' = [Idle EXCEPT !.pc = "done"]
Fail(err) == Return([err |-> err, list |-> <<>>])

\* The next socket type of explore_options, with its search flags reset.
Explore(i, res) == [Idle EXCEPT !.pc = "files", !.ex = i, !.type = scene.types[i], !.res = res]

\* H1 and H2: the verdict comes before anything else of the call.
GaiHook(v) ==
    CASE v.kind = PASS    -> l' = Explore(1, <<>>) /\ UNCHANGED ret
      [] v.kind = "BLOCK" -> Fail(blockErrno)
      [] OTHER            -> Return(getaddrinfo_numeric(v.addr))

\* resolv_gethostbyname() past H2: a numeric name is its own answer.
resolv_gethostbyname ==
    CASE scene.name # "numeric"          -> l' = [Idle EXCEPT !.pc = "files"] /\ UNCHANGED ret
      [] scene.addr.af = scene.family    -> Return([err |-> "0", list |-> <<Entry(scene.addr, "any", "literal", {})>>])
      [] OTHER                           -> Fail("EAI_NODATA")

\* Mutant: a redirect for the other family is looked up after all.
HostHook_FallsThrough(v) ==
    CASE v.kind = PASS \/ (v.kind = "REDIRECT" /\ v.addr.af # scene.family)
                          -> resolv_gethostbyname
      [] v.kind = "BLOCK" -> Fail(blockErrno)
      [] OTHER            -> Return(fillHostent(v.addr))

HostHook(v) ==
    CASE v.kind = PASS    -> resolv_gethostbyname
      [] v.kind = "BLOCK" -> Fail(blockErrno)
      [] OTHER            -> Return(fillHostent(v.addr))

\* H3, the hook of resolv_res_nsend(): the reply is made up, or the packet goes out.
nr_resnsend_hook(v) ==
    CASE v.kind = PASS    -> l' = [Idle EXCEPT !.pc = "raw"] /\ UNCHANGED ret
      [] v.kind = "BLOCK" -> Fail(IF blockErrno = "EAI_NODATA" THEN "NOERROR" ELSE "NXDOMAIN")
      [] v.addr.af = scene.family -> Return([err |-> "NOERROR", list |-> <<Entry(v.addr, "any", "literal", {})>>])
      [] OTHER            -> Fail("NOERROR")

Hook ==
    /\ l.pc = "hook"
    /\ scene.call # "gethostbyaddr"
    /\ log' = [log EXCEPT !.verdict = hook.kind, !.redirect = hook.addr]
    /\ CASE IsGai                          -> GaiHook(hook)
         [] scene.call = "gethostbyname"   -> HostHook(hook)
         [] OTHER                          -> nr_resnsend_hook(hook)
    /\ UNCHANGED <<scene, policy, ctl>>

\* resolv_gethostbyaddr() has no hook; some addresses have no name to look for.
resolv_gethostbyaddr ==
    /\ l.pc = "hook"
    /\ scene.call = "gethostbyaddr"
    /\ IF scene.addr.range \in {"linklocal", "sitelocal"} /\ scene.addr.af = "INET6"
       THEN Fail("EAI_NODATA")
       ELSE l' = [Idle EXCEPT !.pc = "files"] /\ UNCHANGED ret
    /\ UNCHANGED <<scene, policy, ctl, log>>

\* resolv_res_nsend() past H3.
resolv_res_nsend ==
    /\ l.pc = "raw"
    /\ \E o \in scene.sends[scene.qtype] :
         Return([err |-> IF o.n > 0 THEN o.buf.rcode ELSE "failed",
                 list |-> IF o.n > 0 THEN getanswer_gai(o.n, o.buf, scene.qtype).list ELSE <<>>])
    /\ log' = [log EXCEPT !.sends = @ + 1]
    /\ UNCHANGED <<scene, policy, ctl>>

-----------------------------------------------------------------------------
\* The error of one explore_fqdn(), and the end of resolv_getaddrinfo()'s loop: the last error
\* is the call's only if every socket type failed.
Finish(err, list) ==
    LET res == l.res \o list IN
    IF ~IsGai THEN Return([err |-> err, list |-> list])
    ELSE IF l.ex < Len(scene.types) THEN l' = Explore(l.ex + 1, res) /\ UNCHANGED ret
    ELSE IF res # <<>> THEN Return([err |-> "0", list |-> res])
    ELSE Fail(IF err = "0" THEN "EAI_FAIL" ELSE err)

\* get_port() on every entry that was found.
FinishPorts(list) == IF get_port_fails(l.type) THEN Finish("EAI_SERVICE", <<>>) ELSE Finish("0", list)

\* netbsd_gethostent_r() and _gethtent() skip the lines of other families.
OfFamily(addrs) == SelectSeq(addrs, LAMBDA a : a.af \in Families)
Literals(addrs) == [i \in DOMAIN addrs |-> Entry(addrs[i], l.type, "literal", {})]

\* files_getaddrinfo(): H4, the hosts file, then the network's own table.
files_getaddrinfo == IF hostsLayerSuperseded THEN <<>>
                     ELSE OfFamily(scene.hosts) \o OfFamily(scene.custom)

\* _hf_gethtbyname2(): the hosts file only, up to MAXADDRS of it.
hf_gethtbyname2 == LET found == OfFamily(scene.hosts) IN SubSeq(found, 1, Min({Len(found), MaxAddrs + 1}))

\* resolv_gethostbyaddr() unmaps an IPv4 address.
Unmapped(a) == IF a.range = "mapped" THEN [a EXCEPT !.af = "INET", !.range = "global"] ELSE a

\* _hf_gethtbyaddr(): the line that has this address.
hf_gethtbyaddr == IF Unmapped(scene.addr) \in Range(scene.hosts) THEN <<scene.addr>> ELSE <<>>

FileHosts == CASE IsGai                          -> files_getaddrinfo
               [] scene.call = "gethostbyname"   -> hf_gethtbyname2
               [] OTHER                          -> hf_gethtbyaddr

\* The names a search tries: the name as it is (0) and the name in each search domain.
SearchDomains == IF TrailingDot(scene.name) \/ IsMdns(scene.name) THEN <<>>
                 ELSE [i \in 1..scene.domains |-> i]

\* Mutant: a name without a dot is not tried as it is.
Candidates_NeverAsIs == IF HasDot(scene.name) THEN <<0>> \o SearchDomains ELSE SearchDomains

\* The order in which res_searchN() and res_nsearch() try them.
Candidates ==
    IF scene.call = "gethostbyaddr" THEN <<0>>
    ELSE IF HasDot(scene.name) THEN <<0>> \o SearchDomains
    ELSE SearchDomains \o (IF ~IsGai /\ scene.root THEN <<>> ELSE <<0>>)

\* have_global_ipv6_connectivity(), have_local_ipv6_connectivity(), have_ipv4_connectivity()
Connectivity == SUBSET {"INET", "INET6"}

\* dns_getaddrinfo(): AI_ADDRCONFIG asks only for what there is connectivity for; a query per
\* type and, for mDNS, per interface.
QueryTypes(v6, v4) == (IF v6 THEN <<"AAAA">> ELSE <<>>) \o (IF v4 THEN <<"A">> ELSE <<>>)
GaiQueries(conn) ==
    LET probe == scene.addrconfig /\ scene.family = "UNSPEC"
        types == QueryTypes("INET6" \in (IF probe THEN conn ELSE Families),
                            "INET" \in (IF probe THEN conn ELSE Families))
    IN  IF IsMdns(scene.name) /\ scene.ifaces = 2 THEN types \o types ELSE types

\* files_getaddrinfo() or its siblings, and when they have nothing the start of the search.
Files ==
    /\ l.pc = "files"
    /\ IF IsGai /\ scene.family # "UNSPEC" /\ get_port_fails(l.type) THEN Finish("EAI_SERVICE", <<>>)
       ELSE IF FileHosts # <<>> THEN FinishPorts(Literals(FileHosts))
       ELSE \E conn \in Connectivity :
              LET qs == IF IsGai THEN GaiQueries(conn) ELSE <<scene.qtype>> IN
              IF qs = <<>> THEN Finish("EAI_NODATA", <<>>)
              ELSE /\ l' = [l EXCEPT !.pc = "search", !.queries = qs, !.cands = Candidates,
                                     !.bufs = [i \in DOMAIN qs |-> Fresh],
                                     !.ns = [i \in DOMAIN qs |-> 0]]
                   /\ UNCHANGED ret
    /\ log' = [log EXCEPT !.tries = <<>>, !.he = "none"]
    /\ UNCHANGED <<scene, policy, ctl>>

\* The error a search that found nothing reports.
Final(saved, nodata, servfail, he) ==
    CASE saved # "none" -> saved
      [] nodata         -> "NO_DATA"
      [] servfail       -> "TRY_AGAIN"
      [] OTHER          -> he

SearchFailed(he) == Finish(herrnoToAiErrno(he), <<>>)

\* What res_searchN() and res_nsearch() do with t, the outcome of one candidate: ok, he, bufs,
\* ns, errno, and for the history whether a message with answers was really received.
AfterCandidate(t) ==
    LET c        == Head(l.cands)
        rest     == Tail(l.cands)
        refused  == c > 0 /\ t.errno = "refused"
        saved    == IF c = 0 /\ HasDot(scene.name) THEN t.he ELSE l.saved
        nodata   == l.nodata \/ (c > 0 /\ t.he = "NO_DATA")
        servfail == l.servfail \/ (c > 0 /\ t.he = "TRY_AGAIN" /\ t.bufs[1].rcode = "SERVFAIL")
        he       == IF refused THEN "TRY_AGAIN"
                    ELSE IF scene.call = "gethostbyaddr" THEN t.he
                    ELSE Final(saved, nodata, servfail, t.he)
    IN  /\ log' = [log EXCEPT !.tries = Append(@, [cand |-> c, he |-> t.he, refused |-> refused, answered |-> t.answered]),
                              !.he = IF ~t.ok /\ (refused \/ rest = <<>>) THEN he ELSE @,
                              !.sends = @ + 1]
        /\ CASE t.ok -> /\ l' = [l EXCEPT !.pc = "answer", !.bufs = t.bufs, !.ns = t.ns, !.he = t.he]
                        /\ UNCHANGED ret
             [] ~t.ok /\ (refused \/ rest = <<>>) -> SearchFailed(he)
             [] OTHER -> /\ l' = [l EXCEPT !.cands = rest, !.bufs = t.bufs, !.ns = t.ns, !.errno = t.errno,
                                           !.he = t.he, !.saved = saved, !.nodata = nodata,
                                           !.servfail = servfail, !.retried = FALSE]
                         /\ UNCHANGED ret

\* A name that is too long or does not encode is not sent.
Unsendable == [ok |-> FALSE, he |-> "NO_RECOVERY", bufs |-> l.bufs, ns |-> l.ns, errno |-> l.errno,
               answered |-> FALSE]

Received(b, o) == IF o.buf = Kept THEN b ELSE o.buf

\* doQuery(): a failure is retried once without EDNS0 if that was what choked; the counts are
\* read from the buffer whatever res_nsend() returned.
doQuery(b, o, again) ==
    LET b1    == Received([b EXCEPT !.rcode = "NOERROR"], o)
        bad   == o.n < 0 \/ b1.rcode # "NOERROR" \/ b1.ans = <<>>
        retry == bad /\ scene.edns /\ o.edns0err
        b2    == IF retry THEN Received(b1, again) ELSE b1
        o2    == IF retry THEN again ELSE o
    IN  [n |-> o2.n, buf |-> b2, errno |-> o2.errno,
         rcode |-> IF ~bad \/ o2.rcode = "TIMEOUT" \/ retry THEN o2.rcode ELSE b1.rcode]

\* res_queryN_parallel(): every query is waited for; any answer is success, else the last
\* query's rcode is the error.
res_queryN_parallel(qs) ==
    LET last == qs[Len(qs)]
        ok   == \E i \in DOMAIN qs : qs[i].buf.ans # <<>>
    IN  [ok |-> ok,
         he |-> IF ok THEN l.he ELSE getHerrnoFromRcode(last.rcode),
         bufs |-> [i \in DOMAIN qs |-> qs[i].buf],
         ns |-> [i \in DOMAIN qs |-> qs[i].n],
         errno |-> IF last.errno = "kept" THEN "0" ELSE last.errno,
         answered |-> \E i \in DOMAIN qs : qs[i].n > 0 /\ qs[i].buf.ans # <<>>]

\* One outcome for each query.
Outcomes == {os \in [DOMAIN l.queries -> UNION {scene.sends[q] : q \in DOMAIN scene.sends}] :
               \A i \in DOMAIN os : os[i] \in scene.sends[l.queries[i]]}

\* res_searchN(): one candidate.
res_searchN ==
    /\ l.pc = "search" /\ IsGai
    /\ IF Head(l.cands) \in scene.unsendable THEN AfterCandidate(Unsendable)
       ELSE \E os \in Outcomes : \E again \in IF scene.edns THEN Outcomes ELSE {os} :
              AfterCandidate(res_queryN_parallel([i \in DOMAIN os |-> doQuery(l.bufs[i], os[i], again[i])]))
    /\ UNCHANGED <<scene, policy, ctl>>

Retry(b, errno) == l' = [l EXCEPT !.retried = TRUE, !.edns0err = TRUE, !.bufs = <<b>>, !.errno = errno]

\* res_nquery(): a failed send is retried once without EDNS0, here RES_F_EDNS0ERR stays set
\* from one candidate to the next; a received message is judged by its header.
res_nquery ==
    /\ l.pc = "search" /\ ~IsGai
    /\ IF Head(l.cands) \in scene.unsendable THEN AfterCandidate(Unsendable)
       ELSE \E o \in scene.sends[scene.qtype] :
              LET b     == Received([l.bufs[1] EXCEPT !.rcode = "NOERROR"], o)
                  errno == IF o.errno = "kept" THEN l.errno ELSE o.errno
                  ok    == o.n > 0 /\ b.rcode = "NOERROR" /\ b.ans # <<>>
                  he    == CASE o.n < 0 /\ o.rcode = "TIMEOUT" -> "EXT_TIMEOUT"
                             [] o.n < 0 -> "TRY_AGAIN"
                             [] OTHER   -> getHerrnoFromRcode(b.rcode)
              IN  IF o.n < 0 /\ scene.edns /\ (l.edns0err \/ o.edns0err) /\ ~l.retried
                  THEN /\ Retry(b, errno)
                       /\ UNCHANGED <<ret, log>>
                  ELSE AfterCandidate([ok |-> ok, he |-> IF ok THEN l.he ELSE he, bufs |-> <<b>>,
                                       ns |-> <<o.n>>, errno |-> errno, answered |-> ok])
    /\ UNCHANGED <<scene, policy, ctl>>

-----------------------------------------------------------------------------
\* dns_getaddrinfo()'s loop over the answers: H5, then getanswer().
JudgeAnswer ==
    /\ l.pc = "answer" /\ IsGai /\ l.k <= Len(l.queries)
    /\ \E c \in IF l.ns[l.k] > 0 THEN cnameControl ELSE {ctl} :
         LET m == l.bufs[l.k]
             a == getanswer_gai(l.ns[l.k], m, l.queries[l.k])
         IN  /\ ctl' = c
             /\ l' = IF cnameBlocked(c, l.ns[l.k], m) THEN [l EXCEPT !.k = @ + 1, !.he = "HOST_NOT_FOUND"]
                     ELSE [l EXCEPT !.k = @ + 1, !.he = a.he, !.list = @ \o a.list]
    /\ UNCHANGED <<scene, policy, ret, log>>

\* _find_src_addr() of each destination: a source of its family, or it is unreachable.
find_src_addr(list) == {src \in [DOMAIN list -> scene.sources \cup {NoSource}] :
                          \A i \in DOMAIN list : src[i].af \in {list[i].addr.af, "UNSPEC"}}

\* resolv_rfc6724_sort(): when a source cannot be asked for, the list stays as it is.
resolv_rfc6724_sort ==
    /\ l.pc = "answer" /\ IsGai /\ l.k > Len(l.queries)
    /\ IF l.list = <<>> THEN Finish(herrnoToAiErrno(l.he), <<>>) /\ UNCHANGED log
       ELSE \/ /\ FinishPorts(l.list)
               /\ UNCHANGED log
            \/ \E src \in find_src_addr(l.list) :
                 LET sorted == rfc6724_sort_array([i \in DOMAIN src |-> Elem(l.list[i].addr, src[i], i)])
                 IN     /\ FinishPorts([i \in DOMAIN sorted |-> l.list[sorted[i].order]])
                        /\ log' = [log EXCEPT !.elems = sorted]
    /\ UNCHANGED <<scene, policy, ctl>>

\* dns_gethtbyname() and dns_gethtbyaddr() after the search: no H5 here.
HostAnswer ==
    /\ l.pc = "answer" /\ ~IsGai
    /\ LET a == getanswer_hostent(l.bufs[1], scene.qtype)
       IN  Return([err |-> herrnoToAiErrno(a.he), list |-> a.list])
    /\ UNCHANGED <<scene, policy, ctl, log>>

\* The filter's owner changes the policy.
ChangePolicy ==
    /\ ~log.changed /\ l.pc # "done"
    /\ policy' \in scene.policies
    /\ log' = [log EXCEPT !.changed = TRUE]
    /\ UNCHANGED <<scene, ctl, l, ret>>

\* A step of the call.
CallStep ==
    \/ Hook \/ resolv_gethostbyaddr \/ resolv_res_nsend
    \/ Files \/ res_searchN \/ res_nquery
    \/ JudgeAnswer \/ resolv_rfc6724_sort \/ HostAnswer

StubNext == CallStep \/ ChangePolicy

\* The thread of the call keeps running; res_nsend() returns (see ResSend).
StubSpec == StubInit /\ [][StubNext]_vars /\ WF_vars(CallStep)

-----------------------------------------------------------------------------
Done == l.pc = "done"

\* Types: of the result and of the search's cursor.
TypeOK ==
    /\ policy \in scene.policies \cup {scene.policy}
    /\ ctl \in {"unmapped", "ready", "dead"}
    /\ l.pc \in {"idle", "hook", "raw", "files", "search", "answer", "done"}
    /\ l.pc = "search" => l.cands # <<>> /\ Range(l.cands) \subseteq 0..scene.domains
    /\ l.pc \in {"search", "answer"} => Len(l.bufs) = Len(l.queries) /\ Len(l.ns) = Len(l.queries)
    /\ \A i \in DOMAIN ret.list : ret.list[i].addr \in Addresses

\* A name the policy intercepts is not resolved: no query is sent, and the caller gets the
\* block's error or only the redirect's address, whatever the policy becomes meanwhile and even
\* if the redirect is for the other family (H1, H2 and H3).
InterceptedNeverResolves ==
    Done /\ log.verdict \in {"BLOCK", "REDIRECT"} =>
        /\ log.sends = 0
        /\ \A i \in DOMAIN ret.list : ret.list[i].addr = log.redirect
        /\ ret.err = "0" => ret.list # <<>>

\* With uncloaking on, its page mapped and a steady policy, getaddrinfo returns no address out of
\* an answer that shows a blocked name in its first MaxLinks links (H5), whichever query,
\* candidate or socket type it came from.
CloakHidden ==
    Done /\ IsGai /\ ~log.changed /\ scene.ctl = "ready" /\ policy.uncloak
    /\ evaluate(policy.target).kind # PASS =>
        \A i \in DOMAIN ret.list :
            LET e == ret.list[i] IN Cardinality(e.links) <= MaxLinks => "t" \notin e.links

\* An address that is returned belongs to the name that was asked, or to the target of an alias
\* in the same answer; records of other names in the packet are never taken (getanswer()).
AnswersVouched ==
    Done => \A i \in DOMAIN ret.list :
        LET e == ret.list[i] IN e.owner \in {"q", "literal"} \cup e.links

\* A search that finds nothing has tried the name in every search domain and as it is, unless
\* a refused connection ended it; one that finds something stopped there (res_searchN(),
\* res_nsearch()).
SearchComplete ==
    Done /\ log.he # "none" =>
        LET T == log.tries
            searchable == ~TrailingDot(scene.name) /\ ~IsMdns(scene.name) /\ scene.call # "gethostbyaddr"
        IN  /\ \A i \in DOMAIN T : ~T[i].answered \/ i = Len(T)
            /\ T[Len(T)].refused \/
               {T[i].cand : i \in DOMAIN T} =
                   (IF searchable THEN 1..scene.domains ELSE {}) \cup
                   (IF scene.root /\ ~IsGai /\ ~HasDot(scene.name) /\ searchable THEN {} ELSE {0})

\* The error of a failed search is that of the name as it was given if that was tried first;
\* else it is "no data" if some domain said so; else that of the last candidate, or "try again"
\* if some domain's server failed (the comment at the end of res_searchN()).
ErrorExplained ==
    log.he # "none" =>
        LET T == log.tries
            domains == {i \in DOMAIN T : T[i].cand > 0}
        IN  CASE T[Len(T)].refused -> log.he = "TRY_AGAIN"
              [] T[1].cand = 0 -> log.he = T[1].he
              [] \E i \in domains : T[i].he = "NO_DATA" -> log.he = "NO_DATA"
              [] OTHER -> \/ log.he = T[Len(T)].he
                          \/ log.he = "TRY_AGAIN" /\ \E i \in domains : T[i].he = "TRY_AGAIN"

\* The sorted list has every address once, and each comes before all that compare greater, not
\* only before its neighbour: the comparison is transitive on what getanswer() lets through.
SortedByRfc6724 ==
    LET s == log.elems IN
    /\ {s[i].order : i \in DOMAIN s} = DOMAIN s
    /\ \A i, j \in DOMAIN s : i < j => rfc6724_compare(s[i], s[j]) < 0

\* A lookup returns either an error or addresses, never success with an empty list.
ResultOrError ==
    Done /\ scene.call # "res_nsend" => (ret.err = "0" <=> ret.list # <<>>)

\* Every call returns, whatever its sends do.
Returns == <>Done
============================================================================
