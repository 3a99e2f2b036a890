-------------------------- MODULE AddressRegistry ---------------------------
(***************************************************************************)
(* What AddressClasses promises, written without its code: the ranges that *)
(* docs/SAFETY.md denies and the IANA IPv6 Special-Purpose Address         *)
(* Registry that src/policy.rs cites, as blocks <<network, length>>.       *)
(***************************************************************************)
EXTENDS AddressClasses

InBlock(block, address) == ipv6_in_prefix(address, block[1], block[2])

\* Blocks whose addresses are globally reachable: global unicast space and the
\* registry's exceptions.
GlobalBlocks ==
    {<< <<\h2000>>, 3>>,
     << <<\h2001, 1, 0, 0, 0, 0, 0, 1>>, 128>>, << <<\h2001, 1, 0, 0, 0, 0, 0, 2>>, 128>>,
     << <<\h2001, 1, 0, 0, 0, 0, 0, 3>>, 128>>, << <<\h2001, 3>>, 32>>,
     << <<\h2001, 4, \h112>>, 48>>, << <<\h2001, \h20>>, 28>>, << <<\h2001, \h30>>, 28>>,
     << <<\h2620, \h4f, \h8000>>, 48>>}

\* Blocks whose addresses are not, or of which the registry does not say so.  The first
\* is everything: what IANA has not allocated is reserved.
LocalBlocks ==
    {<< <<0>>, 0>>,
     << <<0, 0, 0, 0, 0, 0, 0, 0>>, 128>>, << <<0, 0, 0, 0, 0, 0, 0, 1>>, 128>>,
     << <<\h64, \hff9b, 1>>, 48>>, << <<\h100, 0, 0, 0>>, 64>>, << <<\h100, 0, 0, 1>>, 64>>,
     << <<\h2001, 0>>, 23>>, << <<\h2001, 0>>, 32>>, << <<\h2001, 2, 0>>, 48>>,
     << <<\h2001, \h10>>, 28>>, << <<\h2001, \hdb8>>, 32>>, << <<\h2002>>, 16>>,
     << <<\h3fff, 0>>, 20>>, << <<\h5f00>>, 16>>, << <<\hfc00>>, 7>>, << <<\hfe80>>, 10>>,
     << <<\hfec0>>, 10>>, << <<\hff00>>, 8>>}

\* The most specific block that contains an address decides.
InGlobalBlock(a) ==
    \E g \in GlobalBlocks : /\ InBlock(g, a)
                            /\ \A l \in LocalBlocks : InBlock(l, a) => l[2] < g[2]

\* The IPv4 ranges of docs/SAFETY.md: unspecified, loopback, private, link-local, shared,
\* multicast, broadcast, documentation, benchmark and reserved.
Ipv4Denied(o) ==
    \/ o[1] \in {0, 10, 127} \cup 224 .. 255
    \/ o[1] = 100 /\ o[2] \div 64 = 1
    \/ o[1] = 169 /\ o[2] = 254
    \/ o[1] = 172 /\ o[2] \div 16 = 1
    \/ <<o[1], o[2]>> \in {<<192, 168>>, <<198, 18>>, <<198, 19>>}
    \/ <<o[1], o[2], o[3]>> \in {<<192, 0, 0>>, <<192, 0, 2>>, <<198, 51, 100>>, <<203, 0, 113>>}

\* An address that carries an IPv4 address, mapped or translated, reaches that one.
CarriesIpv4(a) ==
    is_ipv4_mapped(a) \/ ipv6_in_prefix(a, <<\h64, \hff9b, 0, 0, 0, 0>>, 96)

\* The IPv6 addresses the policy has no reason to deny, given what it does to IPv4.
Reachable6(a) ==
    IF CarriesIpv4(a) THEN classify_ipv4(embedded(a)) = "public" ELSE InGlobalBlock(a)

Reachable(address) ==
    IF address.family = "ipv4" THEN ~Ipv4Denied(address.parts)
    ELSE IF CarriesIpv4(address.parts) THEN ~Ipv4Denied(embedded(address.parts))
    ELSE InGlobalBlock(address.parts)
=============================================================================
