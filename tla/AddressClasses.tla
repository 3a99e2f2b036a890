--------------------------- MODULE AddressClasses ---------------------------
(***************************************************************************)
(* The address classes of src/policy.rs, as pure operators.                *)
(*                                                                         *)
(* An IPv4 address is its four octets and an IPv6 address its eight        *)
(* segments, as octets() and segments() of std::net return them; a u128    *)
(* under a mask is compared segment by segment.  What std's own predicates *)
(* (is_private, is_multicast, ...) say is spelled out where it is used.    *)
(***************************************************************************)
EXTENDS Integers, Sequences

Octet == 0 .. 255
Segment == 0 .. 65535

Ipv4Addr == [1 .. 4 -> Octet]
Ipv6Addr == [1 .. 8 -> Segment]
-----------------------------------------------------------------------------
(* IPv4                                                                    *)

documentation_or_benchmark(o) ==
    \/ o[1] = 192 /\ o[2] = 0 /\ o[3] <= 2
    \/ o[1] = 198 /\ o[2] \in {18, 19, 51}
    \/ o[1] = 203 /\ o[2] = 0 /\ o[3] = 113

is_private(o) ==
    \/ o[1] = 10
    \/ o[1] = 172 /\ o[2] \in 16 .. 31
    \/ o[1] = 192 /\ o[2] = 168

classify_ipv4(o) ==
    IF o = <<0, 0, 0, 0>> THEN "unspecified"
    ELSE IF o[1] = 127 THEN "loopback"
    ELSE IF is_private(o) THEN "private"
    ELSE IF o[1] = 169 /\ o[2] = 254 THEN "link_local"
    ELSE IF o[1] \in 224 .. 239 THEN "multicast"
    ELSE IF o = <<255, 255, 255, 255>> THEN "broadcast"
    ELSE IF o[1] = 100 /\ o[2] \in 64 .. 127 THEN "shared"
    ELSE IF documentation_or_benchmark(o) THEN "documentation_or_benchmark"
    ELSE IF o[1] = 0 \/ o[1] >= 240 THEN "reserved"
    ELSE "public"
-----------------------------------------------------------------------------
(* IPv6                                                                    *)

\* What a segment is divided by to leave its first 1, 2, ..., 16 bits.
Weight == <<32768, 16384, 8192, 4096, 2048, 1024, 512, 256, 128, 64, 32, 16, 8, 4, 2, 1>>

\* A network is given by the segments its prefix reaches; the others are zero.
ipv6_in_prefix(address, network, prefix_length) ==
    LET whole == prefix_length \div 16
        rest == prefix_length % 16
    IN  /\ \A i \in 1 .. whole : address[i] = network[i]
        /\ rest # 0 => address[whole + 1] \div Weight[rest] = network[whole + 1] \div Weight[rest]

\* The IPv4 address in the last 32 bits.
embedded(address) ==
    <<address[7] \div 256, address[7] % 256, address[8] \div 256, address[8] % 256>>

is_ipv4_mapped(address) == ipv6_in_prefix(address, <<0, 0, 0, 0, 0, \hffff>>, 96)

\* Mutant of is_globally_reachable_iana_special: the whole of 2001:4::/32.
is_globally_reachable_widened(address) ==
    \/ address \in {<<\h2001, 1, 0, 0, 0, 0, 0, n>> : n \in 1 .. 3}
    \/ ipv6_in_prefix(address, <<\h2001, 3>>, 32)
    \/ ipv6_in_prefix(address, <<\h2001, 4>>, 32)
    \/ ipv6_in_prefix(address, <<\h2001, \h20>>, 28)
    \/ ipv6_in_prefix(address, <<\h2001, \h30>>, 28)

is_globally_reachable_iana_special(address) ==
    \/ address \in {<<\h2001, 1, 0, 0, 0, 0, 0, n>> : n \in 1 .. 3}
    \/ ipv6_in_prefix(address, <<\h2001, 3>>, 32)
    \/ ipv6_in_prefix(address, <<\h2001, 4, \h112>>, 48)
    \/ ipv6_in_prefix(address, <<\h2001, \h20>>, 28)
    \/ ipv6_in_prefix(address, <<\h2001, \h30>>, 28)

\* The else-if chain of classify_ipv6: the first prefix that contains the address
\* decides, so the order of the branches is part of the policy.
classify_ipv6(a) ==
    IF is_ipv4_mapped(a) THEN classify_ipv4(embedded(a))
    ELSE IF a = <<0, 0, 0, 0, 0, 0, 0, 0>> THEN "unspecified"
    ELSE IF a = <<0, 0, 0, 0, 0, 0, 0, 1>> THEN "loopback"
    ELSE IF ipv6_in_prefix(a, <<\hff00>>, 8) THEN "multicast"
    ELSE IF ipv6_in_prefix(a, <<\hfc00>>, 7) THEN "unique_local"
    ELSE IF ipv6_in_prefix(a, <<\hfe80>>, 10) THEN "link_local"
    ELSE IF ipv6_in_prefix(a, <<\hfec0>>, 10) THEN "deprecated_site_local"
    ELSE IF ipv6_in_prefix(a, <<\h64, \hff9b, 1>>, 48) THEN "local_translation"
    ELSE IF ipv6_in_prefix(a, <<\h64, \hff9b, 0, 0, 0, 0>>, 96)
      THEN IF classify_ipv4(embedded(a)) = "public" THEN "public" ELSE "translation_non_public"
    ELSE IF ipv6_in_prefix(a, <<\h100, 0, 0, 0>>, 64) THEN "discard_only"
    ELSE IF ipv6_in_prefix(a, <<\h100, 0, 0, 1>>, 64) THEN "dummy"
    ELSE IF ipv6_in_prefix(a, <<\h2001, 2, 0>>, 48) THEN "benchmark"
    ELSE IF \/ ipv6_in_prefix(a, <<\h2001, \hdb8>>, 32)
            \/ ipv6_in_prefix(a, <<\h3fff, 0>>, 20) THEN "documentation"
    ELSE IF ipv6_in_prefix(a, <<\h5f00>>, 16) THEN "special_use"
    ELSE IF ipv6_in_prefix(a, <<\h2001, 0>>, 23)
      THEN IF is_globally_reachable_iana_special(a) THEN "public" ELSE "special_use"
    ELSE IF ipv6_in_prefix(a, <<\h2002>>, 16) THEN "transition"
    ELSE IF ipv6_in_prefix(a, <<\h2000>>, 3) THEN "public"
    ELSE "reserved"
-----------------------------------------------------------------------------
\* An IpAddr; the port of a socket address plays no part in the policy.
IpAddr == [family : {"ipv4"}, parts : Ipv4Addr] \cup [family : {"ipv6"}, parts : Ipv6Addr]

classify_ip(address) ==
    IF address.family = "ipv4" THEN classify_ipv4(address.parts) ELSE classify_ipv6(address.parts)

is_ip_permitted(address, allow_private) == allow_private \/ classify_ip(address) = "public"
=============================================================================
