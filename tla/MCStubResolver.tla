--------------------------- MODULE MCStubResolver ---------------------------
(***************************************************************************)
(* Scenes for StubResolver: small calls that between them meet every hook,  *)
(* every search order, every kind of answer and the sort.                   *)
(***************************************************************************)
EXTENDS StubResolver

A4(r, b) == [af |-> "INET", range |-> r, bits |-> b]
A6(r, b) == [af |-> "INET6", range |-> r, bits |-> b]
G4 == A4("global", 1)
G6 == A6("global", 1)

\* Messages: plain; behind one alias and two; one alias more than is walked; an owner nobody
\* vouched for; a v4-mapped address; broken; an alias only.
Plain(t, a)    == Message("NOERROR", <<Record("q", t, a)>>)
Cloaked(t, a)  == Message("NOERROR", <<Record("q", "CNAME", "t"), Record("t", t, a)>>)
Deep(t, a)     == Message("NOERROR", <<Record("q", "CNAME", "x"), Record("x", "CNAME", "t"), Record("t", t, a)>>)
Deeper(t, a)   == Message("NOERROR", <<Record("q", "CNAME", "x"), Record("x", "CNAME", "y"),
                                       Record("y", "CNAME", "t"), Record("t", t, a)>>)
Stranger(t, a) == Message("NOERROR", <<Record("o", t, a), Record("q", "CNAME", "x"), Record("x", t, a)>>)
Broken(t, a)   == Message("NOERROR", <<Record("q", t, a), Record("q", "bad", a), Record("q", t, a)>>)
CutShort(t, a) == Message("NOERROR", <<Record("q", t, a), Record("q", "cut", a)>>)
AliasOnly      == Message("NXDOMAIN", <<Record("q", "CNAME", "x")>>)
Many(t, s)     == Message("NOERROR", [i \in DOMAIN s |-> Record("q", t, s[i])])

\* Outcomes of res_nsend().
Got(m)            == [n |-> 1, rcode |-> m.rcode, buf |-> m, errno |-> "kept", edns0err |-> FALSE]
NxDomain          == Got(Message("NXDOMAIN", <<>>))
NoData            == Got(Message("NOERROR", <<>>))
TimedOut          == [n |-> -1, rcode |-> "TIMEOUT", buf |-> Kept, errno |-> "other", edns0err |-> FALSE]
ServFail          == [n |-> -1, rcode |-> "SERVFAIL", buf |-> Message("SERVFAIL", <<>>), errno |-> "other", edns0err |-> FALSE]
RefusedConn       == [n |-> -1, rcode |-> "INTERNAL_ERROR", buf |-> Kept, errno |-> "refused", edns0err |-> FALSE]
RefusedThenNx     == [NxDomain EXCEPT !.errno = "refused"]
\* A packet was written and then not accepted (truncated, or of another query).
Unaccepted(m)     == [n |-> -1, rcode |-> "TIMEOUT", buf |-> m, errno |-> "other", edns0err |-> FALSE]
Choked            == [n |-> -1, rcode |-> "INTERNAL_ERROR", buf |-> Message("FORMERR", <<>>), errno |-> "kept", edns0err |-> TRUE]

Failures == {NxDomain, NoData, TimedOut, ServFail}

Off     == [enforce |-> FALSE, mode |-> "NONAME", uncloak |-> FALSE, asked |-> "PASS", target |-> "PASS", redirect |-> G4]
Cloak   == [Off EXCEPT !.enforce = TRUE, !.uncloak = TRUE, !.target = "BLOCK"]
Policies == {[Off EXCEPT !.enforce = TRUE, !.mode = m, !.asked = v, !.redirect = a] :
                m \in {"NONAME", "NODATA", "SINKHOLE"}, v \in {"PASS", "BLOCK", "REDIRECT"}, a \in {G4, G6}}

Sends(a, aaaa) == [A |-> a, AAAA |-> aaaa, PTR |-> {}]

Base == [call |-> "getaddrinfo", name |-> "multi", family |-> "UNSPEC", qtype |-> "A", addr |-> G4,
         types |-> <<"STREAM">>, serv |-> FALSE, addrconfig |-> FALSE, ifaces |-> 1, domains |-> 1,
         root |-> FALSE, unsendable |-> {}, edns |-> FALSE, hosts |-> <<>>, custom |-> <<>>,
         sends |-> Sends({}, {}), sources |-> {}, space |-> 6, policy |-> Off, policies |-> {}, ctl |-> "unmapped"]

ByName == [Base EXCEPT !.call = "gethostbyname", !.family = "INET"]

\* Every policy at the hooks, changed on the way; the hosts file and the network's table.
HookScenes ==
    {[Base EXCEPT !.call = c, !.name = n, !.family = f, !.qtype = IF f = "INET6" THEN "AAAA" ELSE "A",
                  !.types = <<"STREAM", "RAW">>, !.serv = s,
                  !.policy = p, !.policies = {Off, Cloak}, !.hosts = h,
                  !.sends = Sends({Got(Plain("A", G4))}, {Got(Plain("AAAA", G6))})] :
        c \in {"getaddrinfo", "gethostbyname", "res_nsend"}, n \in {"multi", "single"},
        f \in {"INET", "INET6"}, s \in BOOLEAN, p \in Policies, h \in {<<>>, <<G6, G4>>}}

\* The search: every order of candidates, every failure.
SearchScenes ==
    {[Base EXCEPT !.call = c, !.name = n, !.family = "INET", !.domains = 2, !.unsendable = u, !.root = r,
                  !.sends = Sends(Failures \cup {RefusedConn, RefusedThenNx, Got(Plain("A", G4)), Got(AliasOnly)}, {})] :
        c \in {"getaddrinfo", "gethostbyname"}, n \in {"single", "single.", "multi", "multi.", "local"},
        u \in {{}, {1}}, r \in BOOLEAN}

\* Two queries, of which one or both fail, with and without connectivity.
PairScenes ==
    {[Base EXCEPT !.name = n, !.addrconfig = c, !.types = <<"STREAM", "RAW">>, !.serv = c,
                  !.sends = Sends({NxDomain, TimedOut, Got(Plain("A", G4))},
                                  {NoData, ServFail, Unaccepted(Plain("AAAA", G6)), Got(Plain("AAAA", G6))})] :
        n \in {"single", "multi."}, c \in BOOLEAN}

\* EDNS0.
EdnsScenes ==
    {[Base EXCEPT !.call = c, !.family = "INET", !.edns = TRUE,
                  !.sends = Sends({Choked, TimedOut, NxDomain, Got(Plain("A", G4))}, {})] :
        c \in {"getaddrinfo", "gethostbyname"}}

\* Answers, with H5 judging them.
Answers(t, a) == {Got(m) : m \in {Plain(t, a), Cloaked(t, a), Deep(t, a), Deeper(t, a), Stranger(t, a),
                                  Broken(t, a), CutShort(t, a), AliasOnly}}
AnswerScenes ==
    {[Base EXCEPT !.name = n, !.policy = p, !.policies = {Off, Cloak}, !.ctl = c,
                  !.sends = Sends(Answers("A", G4), Answers("AAAA", G6))] :
        n \in {"multi."}, p \in {Cloak, [Cloak EXCEPT !.target = "REDIRECT"], [Cloak EXCEPT !.uncloak = FALSE]},
        c \in {"unmapped", "ready"}}
    \cup {[ByName EXCEPT !.name = "multi.", !.space = s, !.family = f, !.qtype = IF f = "INET" THEN "A" ELSE "AAAA",
                  !.sends = Sends(Answers("A", G4) \cup {Got(Many("A", <<G4, G4, G4>>))},
                                  Answers("AAAA", G6) \cup {Got(Many("AAAA", <<G6, G6, G6>>))})] :
            s \in 1..7, f \in {"INET", "INET6"}}

\* Addresses to names.
AddrScenes ==
    {[Base EXCEPT !.call = "gethostbyaddr", !.qtype = "PTR", !.addr = a, !.family = a.af, !.hosts = h,
                  !.sends = [A |-> {}, AAAA |-> {}, PTR |-> Failures \cup {Got(Plain("PTR", "x")), Got(Cloaked("PTR", "x"))}]] :
        a \in {G4, G6, A6("linklocal", 0), A6("mapped", 1)}, h \in {<<>>, <<G4>>}}
    \cup {[ByName EXCEPT !.name = "numeric", !.addr = a, !.policies = {Off}] : a \in {G4, G6}}

\* The sort, over two interfaces so that families alternate.
SortScenes ==
    {[Base EXCEPT !.name = "local", !.ifaces = 2, !.family = "UNSPEC",
                  !.sources = {A6("global", 0), A6("ula", 0), A4("global", 0)},
                  !.sends = Sends({Got(Plain("A", G4))},
                                  {Got(Plain("AAAA", A6(r, b))) : r \in {"global", "ula", "mapped", "6to4"}, b \in {0, 2}})],
     [Base EXCEPT !.name = "multi.", !.family = "INET6",
                  !.sources = {A6("global", 0), A6("linklocal", 1)},
                  !.sends = Sends({}, {Got(Many("AAAA", <<A6("linklocal", 2), A6("global", 3), A6("global", 1), A6("loopback", 0)>>)),
                                       Got(Many("AAAA", <<A6("teredo", 0), A6("sitelocal", 1), A6("global", 0)>>))})]}

MCScenes == HookScenes \cup SearchScenes \cup PairScenes \cup EdnsScenes \cup AnswerScenes \cup AddrScenes \cup SortScenes

============================================================================
