------------------------------ MODULE AddrSort ------------------------------
(***************************************************************************)
(* The destination address selection of getaddrinfo.cpp: RFC 6724 as        *)
(* _rfc6724_compare() implements it.                                        *)
(*                                                                         *)
(* An address is its family, the range it is in and, for the comparison of  *)
(* prefixes, the PrefixBits bits that follow the range's prefix.            *)
(***************************************************************************)
EXTENDS Integers, Sequences, SequencesExt

PrefixBits == 2

Ranges4 == {"loopback", "linklocal", "global"}
Ranges6 == {"loopback", "linklocal", "sitelocal", "mapped", "6to4", "teredo", "ula", "global"}

Addresses == [af: {"INET"}, range: Ranges4, bits: 0..2^PrefixBits - 1]
             \cup [af: {"INET6"}, range: Ranges6, bits: 0..2^PrefixBits - 1]

\* The sockaddr of calloc() when no source address was found.
NoSource == [af |-> "UNSPEC", range |-> "none", bits |-> 0]

\* IPV6_ADDR_SCOPE_*
get_scope(a) ==
    CASE a.af = "UNSPEC"                         -> 1
      [] a.range \in {"loopback", "linklocal"}   -> 2
      [] a.range = "sitelocal"                   -> 5
      [] OTHER                                   -> 14

get_precedence(a) ==
    CASE a.af = "INET"          -> 35
      [] a.range = "loopback"   -> 50
      [] a.range = "mapped"     -> 35
      [] a.range = "6to4"       -> 30
      [] a.range = "teredo"     -> 5
      [] a.range = "ula"        -> 3
      [] a.range = "sitelocal"  -> 1
      [] OTHER                  -> 40

resolv_getaddrlabel(a) ==
    CASE a.af = "INET"          -> 4
      [] a.range = "loopback"   -> 0
      [] a.range = "mapped"     -> 4
      [] a.range = "6to4"       -> 2
      [] a.range = "teredo"     -> 5
      [] a.range = "ula"        -> 13
      [] a.range = "sitelocal"  -> 11
      [] OTHER                  -> 1

\* The number of initial bits a and b share; those of the ranges' prefixes count as one.
common_prefix_len(a, b) ==
    IF a.range # b.range THEN 0
    ELSE 1 + Max({n \in 0..PrefixBits : a.bits \div 2^(PrefixBits - n) = b.bits \div 2^(PrefixBits - n)})

\* addrinfo_sort_elem: a destination, the source for it and its place in the list.
Elem(dst, src, order) == [dst |-> dst, src |-> src, order |-> order]
HasSource(e) == e.src # NoSource

One(b) == IF b THEN 1 ELSE 0

\* Rules 1, 2, 5, 6, 8, 9 and 10: the first that tells the two apart.
Rules(a, b) ==
    << One(HasSource(b)) - One(HasSource(a)),
       One(get_scope(b.src) = get_scope(b.dst)) - One(get_scope(a.src) = get_scope(a.dst)),
       One(resolv_getaddrlabel(b.src) = resolv_getaddrlabel(b.dst))
         - One(resolv_getaddrlabel(a.src) = resolv_getaddrlabel(a.dst)),
       get_precedence(b.dst) - get_precedence(a.dst),
       get_scope(a.dst) - get_scope(b.dst),
       IF HasSource(a) /\ HasSource(b) /\ a.dst.af = "INET6" /\ b.dst.af = "INET6"
       THEN common_prefix_len(b.src, b.dst) - common_prefix_len(a.src, a.dst) ELSE 0,
       a.order - b.order >>

FirstDifference(d) == IF \A i \in DOMAIN d : d[i] = 0 THEN 0
                      ELSE d[CHOOSE i \in DOMAIN d : d[i] # 0 /\ \A j \in 1..(i - 1) : d[j] = 0]

\* Mutant: equal elements are left to qsort().
rfc6724_compare_NoRule10(a, b) == FirstDifference(SubSeq(Rules(a, b), 1, 6))

\* Negative: a comes first.
rfc6724_compare(a, b) == FirstDifference(Rules(a, b))

\* rfc6724_sort_array()
rfc6724_sort_array(elems) == SortSeq(elems, LAMBDA a, b : rfc6724_compare(a, b) < 0)

============================================================================
