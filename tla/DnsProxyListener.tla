-------------------------- MODULE DnsProxyListener --------------------------
(***************************************************************************)
(* DnsProxyListener: one handler thread per client command, the limit on    *)
(* the queries in progress (OperationLimiter), and DNS64 synthesis.         *)
(*                                                                         *)
(* The resolver functions the handlers call and the NAT64 prefix they read  *)
(* are inputs here: a lookup may return anything of the family asked for,   *)
(* and the prefix may come and go between two readings.                     *)
(***************************************************************************)
EXTENDS OperationLimiter, FiniteSets

CONSTANTS
    Requests,       \* client commands
    Issued,         \* per request: the commands it may be, and of which uid
    GlobalLimits    \* values of the flag "max_queries_global" while they run

ASSUME FlagAssumption == GlobalLimits \subseteq Nat
ASSUME RequestsAssumption == IsFiniteSet(Requests)

Commands == {"getaddrinfo", "gethostbyname", "gethostbyaddr", "resnsend"}

ASSUME IssuedAssumption == Issued \in [Requests -> SUBSET (Commands \X KeyType)]

VARIABLE handler    \* per request: how far it is, and what it has found

vars == <<mCounters, mGlobalCounter, handler>>

limiter == <<mCounters, mGlobalCounter>>

Families == {"AF_INET", "AF_INET6", "AF_UNSPEC"}

\* Kinds of addresses in a result: IPv4 that may be synthesized, IPv4 for special
\* use (loopback, link local, ...), IPv6, and synthesized IPv6.
Addresses == {"v4", "special", "v6", "nat64"}

\* The codes a handler distinguishes; SYSTEM and FAIL stand for the other errors.
Errors == {"EAI_NODATA", "EAI_FAIL", "EAI_SYSTEM", "EAI_MEMORY"}

\* "queued": the handler's thread was launched; "lookup" .. "finish": between
\* startQueryLimiter() and endQueryLimiter().
Places == {"new", "queued", "lookup", "synthesis", "finish", "reply", "done"}

\* res: the addresses found (none: a null pointer); sent: what the client got.
Handler == [at: Places, cmd: Commands, uid: KeyType, family: Families,
            rv: {"0"} \cup Errors, res: SUBSET Addresses,
            sent: {"nothing", "result", "failure"}]

TypeOK ==
    /\ LimiterTypeOK
    /\ handler \in [Requests -> Handler]

\* The families a command may ask for; a raw query has none, and its answer is
\* opaque: one family stands for it.
Asked(cmd) ==
    IF cmd = "getaddrinfo" THEN Families
    ELSE IF cmd = "resnsend" THEN {"AF_INET6"} ELSE {"AF_INET", "AF_INET6"}

Init ==
    /\ LimiterInit
    /\ handler \in [Requests -> {h \in Handler :
            /\ h.at = "new" /\ h.family \in Asked(h.cmd)
            /\ h.rv = "0" /\ h.res = {} /\ h.sent = "nothing"}]
    /\ \A r \in Requests : <<handler[r].cmd, handler[r].uid>> \in Issued[r]

\* Handler r goes to place l with code rv and addresses res.
Goes(r, l, rv, res) ==
    handler' = [handler EXCEPT ![r] = [@ EXCEPT !.at = l, !.rv = rv, !.res = res]]

Stays(r, l) == Goes(r, l, handler[r].rv, handler[r].res)

Sends(r, what) == handler' = [handler EXCEPT ![r] = [@ EXCEPT !.at = "done", !.sent = what]]

----------------------------------------------------------------------------
(* The resolver, as the handlers see it                                     *)

OfFamily(family) ==
    IF family = "AF_INET" THEN {"v4", "special"}
    ELSE IF family = "AF_INET6" THEN {"v6"} ELSE {"v4", "special", "v6"}

\* An error and no address, or addresses of the family.
LookupResults(family) ==
    {[rv |-> "0", res |-> a] : a \in (SUBSET OfFamily(family)) \ {{}}}
        \cup {[rv |-> e, res |-> {}] : e \in {"EAI_NODATA", "EAI_SYSTEM"}}

onlyIPv4Answers(res) == res \subseteq {"v4", "special"}

onlyNonSpecialUseIPv4Addresses(res) == res \subseteq {"v4"}

----------------------------------------------------------------------------
(* The listener's thread                                                    *)

\* Handler::spawn(): the thread is launched, or the client is told that it was not.
spawn(r) == Stays(r, "queued") \/ Sends(r, "failure")

\* Bad arguments and the shortcut for "localhost" are answered at once.
runCommand(r) ==
    /\ handler[r].at = "new"
    /\ \/ Sends(r, "failure")
       \/ /\ handler[r].cmd = "gethostbyname" /\ handler[r].family = "AF_INET"
          /\ handler' = [handler EXCEPT ![r] =
                [@ EXCEPT !.at = "done", !.res = {"special"}, !.sent = "result"]]
       \/ spawn(r)
    /\ UNCHANGED limiter

----------------------------------------------------------------------------
(* A handler's thread                                                       *)

\* A raw query that cannot be decoded or parsed is answered before anything else.
RejectQuery(r) ==
    /\ handler[r].at = "queued" /\ handler[r].cmd = "resnsend"
    /\ Sends(r, "failure")
    /\ UNCHANGED limiter

\* isUidNetworkingBlocked()
Blocked(r) ==
    /\ handler[r].at = "queued"
    /\ Goes(r, "reply", "EAI_FAIL", {})
    /\ UNCHANGED limiter

startQueryLimiter(r) ==
    /\ handler[r].at = "queued"
    /\ \E globalLimit \in GlobalLimits :
         \/ start(handler[r].uid, globalLimit) /\ Stays(r, "lookup")
         \/ refuse(handler[r].uid, globalLimit) /\ Goes(r, "reply", "EAI_MEMORY", {})

\* Whether doDns64Synthesis() or doDns64ReverseLookup() has something to do.
ipv6WantedButNoData(h) ==
    /\ h.cmd \in {"getaddrinfo", "gethostbyname"}
    /\ h.family = "AF_INET6" /\ h.rv = "EAI_NODATA"

unspecWantedButNoIPv6(h) ==
    h.cmd = "getaddrinfo" /\ h.family = "AF_UNSPEC" /\ h.rv = "0" /\ onlyIPv4Answers(h.res)

reverseWanted(h) == h.cmd = "gethostbyaddr" /\ h.family = "AF_INET6" /\ h.res = {}

\* evaluate_domain_name() refuses, or the lookup returns.
Lookup(r) ==
    /\ handler[r].at = "lookup"
    /\ \/ Goes(r, "finish", "EAI_SYSTEM", {})
       \/ \E found \in LookupResults(handler[r].family) :
            Goes(r, "synthesis", found.rv, found.res)
    /\ UNCHANGED limiter

\* synthesizeNat64PrefixWithARecord(): the addresses, or none when one of the IPv4
\* addresses is special.
Synthesized(res) == IF onlyNonSpecialUseIPv4Addresses(res) THEN {"nat64"} ELSE {}

\* Mutant: when nothing can be synthesized the IPv4 answers are returned.
afterIPv4_Kept(h, found) ==
    IF found.rv # "0" THEN [rv |-> "EAI_NODATA", res |-> {}]
    ELSE [rv |-> "0", res |-> Synthesized(found.res) \cup found.res]

\* What is returned after the second lookup, for IPv4.  gethostbyname forgets the
\* IPv4 answers it cannot use and keeps the code 0; getaddrinfo gives back the
\* original error.
afterIPv4(h, found) ==
    IF found.rv # "0" THEN [rv |-> "EAI_NODATA", res |-> {}]
    ELSE IF h.cmd = "getaddrinfo" /\ Synthesized(found.res) = {}
         THEN [rv |-> "EAI_NODATA", res |-> {}]
         ELSE [rv |-> "0", res |-> Synthesized(found.res)]

\* AF_UNSPEC: synthesized IPv6 addresses are added to the IPv4 ones.
WithIPv4(res) == res \cup Synthesized(res)

doDns64Synthesis(r) ==
    LET h == handler[r] IN
    /\ h.at = "synthesis"
    /\ UNCHANGED limiter
    /\ \/ Stays(r, "finish")          \* no prefix, or nothing to do
       \/ /\ ipv6WantedButNoData(h)
          /\ \E found \in LookupResults("AF_INET") :
               Goes(r, "finish", afterIPv4(h, found).rv, afterIPv4(h, found).res)
       \/ /\ unspecWantedButNoIPv6(h)
          /\ Goes(r, "finish", "0", WithIPv4(h.res))
       \/ /\ reverseWanted(h)         \* the code of the first lookup is kept
          /\ \E found \in LookupResults("AF_INET") :
               Goes(r, "finish", h.rv, IF found.res = {} THEN {} ELSE {"v6"})

\* Mutant: a handler whose name was refused forgets to finish.
endQueryLimiter_Forgets(r) ==
    /\ handler[r].at = "finish"
    /\ IF handler[r].rv = "EAI_SYSTEM" THEN UNCHANGED limiter ELSE finish(handler[r].uid)
    /\ Stays(r, "reply")

endQueryLimiter(r) ==
    /\ handler[r].at = "finish"
    /\ finish(handler[r].uid)
    /\ Stays(r, "reply")

\* getaddrinfo and resnsend go by the code, the others by the pointer.
Succeeded(h) == IF h.cmd \in {"getaddrinfo", "resnsend"} THEN h.rv = "0" ELSE h.res # {}

\* Mutant: the handler of a raw query returns without an answer when the limit is
\* reached.
Reply_Dropped(r) ==
    /\ handler[r].at = "reply"
    /\ IF handler[r].cmd = "resnsend" /\ handler[r].rv = "EAI_MEMORY" THEN Stays(r, "done")
       ELSE Sends(r, IF Succeeded(handler[r]) THEN "result" ELSE "failure")
    /\ UNCHANGED limiter

\* The whole answer is one step; a write to the client that fails ends the handler
\* in the same way.
Reply(r) ==
    /\ handler[r].at = "reply"
    /\ Sends(r, IF Succeeded(handler[r]) THEN "result" ELSE "failure")
    /\ UNCHANGED limiter

HandlerStep(r) ==
    \/ runCommand(r) \/ RejectQuery(r) \/ Blocked(r) \/ startQueryLimiter(r) \/ Lookup(r)
    \/ doDns64Synthesis(r) \/ endQueryLimiter(r) \/ Reply(r)

Done == (\A r \in Requests : handler[r].at = "done") /\ UNCHANGED vars

Next == (\E r \in Requests : HandlerStep(r)) \/ Done

Spec == Init /\ [][Next]_vars

\* Launched threads run and lookups return.
FairSpec == Spec /\ \A r \in Requests : WF_vars(HandlerStep(r))

----------------------------------------------------------------------------

Between(u) == {r \in Requests :
                 handler[r].uid = u /\ handler[r].at \in {"lookup", "synthesis", "finish"}}

\* The counter of a uid is the number of its handlers between startQueryLimiter()
\* and endQueryLimiter(), and the total counts them all: no path through a handler
\* leaks or returns a slot twice ("each successful start(key) must be matched by
\* exactly one call to finish(key)", OperationLimiter.h).
LimiterExact ==
    /\ \A u \in KeyType : mCounters[u] = Cardinality(Between(u))
    /\ mGlobalCounter = Cardinality(UNION {Between(u) : u \in KeyType})

\* Never more queries in progress than the largest limit in force allows, even
\* when the flag changes or is set below the limit per uid (OperationLimiter::start).
GlobalLimited ==
    \E g \in GlobalLimits : mGlobalCounter <= Effective(g)

\* A client that wants IPv6 addresses never gets IPv4 ones ("don't return the IPv4
\* answers"), and one that takes both gets IPv4 addresses whenever it gets
\* synthesized ones (doDns64Synthesis).
FamilyRespected ==
    \A r \in Requests :
        LET h == handler[r] IN
        h.sent = "result" /\ h.cmd \in {"getaddrinfo", "gethostbyname"} =>
            /\ h.family = "AF_INET6" => h.res # {} /\ h.res \subseteq {"v6", "nat64"}
            /\ h.family = "AF_INET"  => h.res # {} /\ h.res \subseteq {"v4", "special"}
            /\ h.family = "AF_UNSPEC" /\ "nat64" \in h.res => "v4" \in h.res

\* Every command is answered, whatever fails on the way (runCommand, run).
EveryRequestAnswered == <>(\A r \in Requests : handler[r].sent # "nothing")
============================================================================
