---------------------------- MODULE AddressProofs ----------------------------
(***************************************************************************)
(* What classify_ipv4 and classify_ipv6 decide of every address, against   *)
(* the blocks of AddressRegistry.                                          *)
(***************************************************************************)
EXTENDS AddressRegistry, TLAPS

-----------------------------------------------------------------------------
(* A prefix of each length the policy uses, as comparisons of segments     *)

LEMMA Prefix0 ==
    ASSUME NEW a, NEW n
    PROVE  ipv6_in_prefix(a, n, 0)
<1>1. 0 \div 16 = 0 /\ 0 % 16 = 0
  OBVIOUS
<1>2. (\A i \in 1 .. 0 : a[i] = n[i])
  OBVIOUS
<1> QED
  BY <1>1, <1>2 DEF ipv6_in_prefix

LEMMA Prefix3 ==
    ASSUME NEW a, NEW n
    PROVE  ipv6_in_prefix(a, n, 3) <=> a[1] \div 8192 = n[1] \div 8192
<1>1. 3 \div 16 = 0 /\ 3 % 16 = 3
  OBVIOUS
<1>2. (\A i \in 1 .. 0 : a[i] = n[i])
  OBVIOUS
<1>3. Weight[3] = 8192
  BY DEF Weight
<1> QED
  BY <1>1, <1>2, <1>3 DEF ipv6_in_prefix

LEMMA Prefix7 ==
    ASSUME NEW a, NEW n
    PROVE  ipv6_in_prefix(a, n, 7) <=> a[1] \div 512 = n[1] \div 512
<1>1. 7 \div 16 = 0 /\ 7 % 16 = 7
  OBVIOUS
<1>2. (\A i \in 1 .. 0 : a[i] = n[i])
  OBVIOUS
<1>3. Weight[7] = 512
  BY DEF Weight
<1> QED
  BY <1>1, <1>2, <1>3 DEF ipv6_in_prefix

LEMMA Prefix8 ==
    ASSUME NEW a, NEW n
    PROVE  ipv6_in_prefix(a, n, 8) <=> a[1] \div 256 = n[1] \div 256
<1>1. 8 \div 16 = 0 /\ 8 % 16 = 8
  OBVIOUS
<1>2. (\A i \in 1 .. 0 : a[i] = n[i])
  OBVIOUS
<1>3. Weight[8] = 256
  BY DEF Weight
<1> QED
  BY <1>1, <1>2, <1>3 DEF ipv6_in_prefix

LEMMA Prefix10 ==
    ASSUME NEW a, NEW n
    PROVE  ipv6_in_prefix(a, n, 10) <=> a[1] \div 64 = n[1] \div 64
<1>1. 10 \div 16 = 0 /\ 10 % 16 = 10
  OBVIOUS
<1>2. (\A i \in 1 .. 0 : a[i] = n[i])
  OBVIOUS
<1>3. Weight[10] = 64
  BY DEF Weight
<1> QED
  BY <1>1, <1>2, <1>3 DEF ipv6_in_prefix

LEMMA Prefix16 ==
    ASSUME NEW a, NEW n
    PROVE  ipv6_in_prefix(a, n, 16) <=> a[1] = n[1]
<1>1. 16 \div 16 = 1 /\ 16 % 16 = 0
  OBVIOUS
<1>2. (\A i \in 1 .. 1 : a[i] = n[i]) <=> (a[1] = n[1])
  OBVIOUS
<1> QED
  BY <1>1, <1>2 DEF ipv6_in_prefix

LEMMA Prefix20 ==
    ASSUME NEW a, NEW n
    PROVE  ipv6_in_prefix(a, n, 20) <=> a[1] = n[1] /\ a[2] \div 4096 = n[2] \div 4096
<1>1. 20 \div 16 = 1 /\ 20 % 16 = 4
  OBVIOUS
<1>2. (\A i \in 1 .. 1 : a[i] = n[i]) <=> (a[1] = n[1])
  OBVIOUS
<1>3. Weight[4] = 4096
  BY DEF Weight
<1> QED
  BY <1>1, <1>2, <1>3 DEF ipv6_in_prefix

LEMMA Prefix23 ==
    ASSUME NEW a, NEW n
    PROVE  ipv6_in_prefix(a, n, 23) <=> a[1] = n[1] /\ a[2] \div 512 = n[2] \div 512
<1>1. 23 \div 16 = 1 /\ 23 % 16 = 7
  OBVIOUS
<1>2. (\A i \in 1 .. 1 : a[i] = n[i]) <=> (a[1] = n[1])
  OBVIOUS
<1>3. Weight[7] = 512
  BY DEF Weight
<1> QED
  BY <1>1, <1>2, <1>3 DEF ipv6_in_prefix

LEMMA Prefix28 ==
    ASSUME NEW a, NEW n
    PROVE  ipv6_in_prefix(a, n, 28) <=> a[1] = n[1] /\ a[2] \div 16 = n[2] \div 16
<1>1. 28 \div 16 = 1 /\ 28 % 16 = 12
  OBVIOUS
<1>2. (\A i \in 1 .. 1 : a[i] = n[i]) <=> (a[1] = n[1])
  OBVIOUS
<1>3. Weight[12] = 16
  BY DEF Weight
<1> QED
  BY <1>1, <1>2, <1>3 DEF ipv6_in_prefix

LEMMA Prefix32 ==
    ASSUME NEW a, NEW n
    PROVE  ipv6_in_prefix(a, n, 32) <=> a[1] = n[1] /\ a[2] = n[2]
<1>1. 32 \div 16 = 2 /\ 32 % 16 = 0
  OBVIOUS
<1>2. (\A i \in 1 .. 2 : a[i] = n[i]) <=> (a[1] = n[1] /\ a[2] = n[2])
  OBVIOUS
<1> QED
  BY <1>1, <1>2 DEF ipv6_in_prefix

LEMMA Prefix48 ==
    ASSUME NEW a, NEW n
    PROVE  ipv6_in_prefix(a, n, 48) <=> a[1] = n[1] /\ a[2] = n[2] /\ a[3] = n[3]
<1>1. 48 \div 16 = 3 /\ 48 % 16 = 0
  OBVIOUS
<1>2. (\A i \in 1 .. 3 : a[i] = n[i]) <=> (a[1] = n[1] /\ a[2] = n[2] /\ a[3] = n[3])
  OBVIOUS
<1> QED
  BY <1>1, <1>2 DEF ipv6_in_prefix

LEMMA Prefix64 ==
    ASSUME NEW a, NEW n
    PROVE  ipv6_in_prefix(a, n, 64) <=> \A i \in 1 .. 4 : a[i] = n[i]
<1>1. 64 \div 16 = 4 /\ 64 % 16 = 0
  OBVIOUS
<1> QED
  BY <1>1 DEF ipv6_in_prefix

LEMMA Prefix96 ==
    ASSUME NEW a, NEW n
    PROVE  ipv6_in_prefix(a, n, 96) <=> \A i \in 1 .. 6 : a[i] = n[i]
<1>1. 96 \div 16 = 6 /\ 96 % 16 = 0
  OBVIOUS
<1> QED
  BY <1>1 DEF ipv6_in_prefix

LEMMA Prefix128 ==
    ASSUME NEW a, NEW n
    PROVE  ipv6_in_prefix(a, n, 128) <=> \A i \in 1 .. 8 : a[i] = n[i]
<1>1. 128 \div 16 = 8 /\ 128 % 16 = 0
  OBVIOUS
<1> QED
  BY <1>1 DEF ipv6_in_prefix

LEMMA Segments ==
    ASSUME NEW a \in Ipv6Addr
    PROVE  \A i \in 1 .. 8 : a[i] \in Nat /\ a[i] <= 65535
<1>1. \A s \in Segment : s \in Nat /\ s <= 65535
  BY DEF Segment
<1>2. \A i \in 1 .. 8 : a[i] \in Segment
  BY DEF Ipv6Addr
<1> QED
  BY <1>1, <1>2

\* The networks that a range of first segments makes up.
LEMMA WideNetworks ==
    ASSUME NEW a, a[1] \in Nat, a[1] <= 65535
    PROVE  /\ ipv6_in_prefix(a, <<\h2000>>, 3) <=> 8192 <= a[1] /\ a[1] <= 16383
           /\ ipv6_in_prefix(a, <<\hfc00>>, 7) <=> 64512 <= a[1] /\ a[1] <= 65023
           /\ ipv6_in_prefix(a, <<\hff00>>, 8) <=> 65280 <= a[1]
           /\ ipv6_in_prefix(a, <<\hfe80>>, 10) <=> 65152 <= a[1] /\ a[1] <= 65215
           /\ ipv6_in_prefix(a, <<\hfec0>>, 10) <=> 65216 <= a[1] /\ a[1] <= 65279
<1>1. ipv6_in_prefix(a, <<\h2000>>, 3) <=> 8192 <= a[1] /\ a[1] <= 16383
  <2>1. (a[1] \div 8192 = 1) <=> 8192 <= a[1] /\ a[1] <= 16383
    OBVIOUS
  <2>2. <<\h2000>>[1] \div 8192 = 1
    OBVIOUS
  <2> QED
    BY <2>1, <2>2, Prefix3
<1>2. ipv6_in_prefix(a, <<\hfc00>>, 7) <=> 64512 <= a[1] /\ a[1] <= 65023
  <2>1. (a[1] \div 512 = 126) <=> 64512 <= a[1] /\ a[1] <= 65023
    OBVIOUS
  <2>2. <<\hfc00>>[1] \div 512 = 126
    OBVIOUS
  <2> QED
    BY <2>1, <2>2, Prefix7
<1>3. ipv6_in_prefix(a, <<\hff00>>, 8) <=> 65280 <= a[1]
  <2>1. (a[1] \div 256 = 255) <=> 65280 <= a[1]
    OBVIOUS
  <2>2. <<\hff00>>[1] \div 256 = 255
    OBVIOUS
  <2> QED
    BY <2>1, <2>2, Prefix8
<1>4. ipv6_in_prefix(a, <<\hfe80>>, 10) <=> 65152 <= a[1] /\ a[1] <= 65215
  <2>1. (a[1] \div 64 = 1018) <=> 65152 <= a[1] /\ a[1] <= 65215
    OBVIOUS
  <2>2. <<\hfe80>>[1] \div 64 = 1018
    OBVIOUS
  <2> QED
    BY <2>1, <2>2, Prefix10
<1>5. ipv6_in_prefix(a, <<\hfec0>>, 10) <=> 65216 <= a[1] /\ a[1] <= 65279
  <2>1. (a[1] \div 64 = 1019) <=> 65216 <= a[1] /\ a[1] <= 65279
    OBVIOUS
  <2>2. <<\hfec0>>[1] \div 64 = 1019
    OBVIOUS
  <2> QED
    BY <2>1, <2>2, Prefix10
<1> QED
  BY <1>1, <1>2, <1>3, <1>4, <1>5

\* The networks of the registry inside 2000::/3.
LEMMA RegistryNetworks ==
    ASSUME NEW a, a[2] \in Nat, a[2] <= 65535
    PROVE  /\ ipv6_in_prefix(a, <<\h2001, 0>>, 23) <=> a[1] = 8193 /\ a[2] < 512
           /\ ipv6_in_prefix(a, <<\h2001, \h10>>, 28) <=> a[1] = 8193 /\ 16 <= a[2] /\ a[2] <= 31
           /\ ipv6_in_prefix(a, <<\h2001, \h20>>, 28) <=> a[1] = 8193 /\ 32 <= a[2] /\ a[2] <= 47
           /\ ipv6_in_prefix(a, <<\h2001, \h30>>, 28) <=> a[1] = 8193 /\ 48 <= a[2] /\ a[2] <= 63
           /\ ipv6_in_prefix(a, <<\h2001, 0>>, 32) <=> a[1] = 8193 /\ a[2] = 0
           /\ ipv6_in_prefix(a, <<\h2001, 3>>, 32) <=> a[1] = 8193 /\ a[2] = 3
           /\ ipv6_in_prefix(a, <<\h2001, \hdb8>>, 32) <=> a[1] = 8193 /\ a[2] = 3512
           /\ ipv6_in_prefix(a, <<\h2001, 2, 0>>, 48) <=> a[1] = 8193 /\ a[2] = 2 /\ a[3] = 0
           /\ ipv6_in_prefix(a, <<\h2001, 4, \h112>>, 48) <=> a[1] = 8193 /\ a[2] = 4 /\ a[3] = 274
           /\ ipv6_in_prefix(a, <<\h2002>>, 16) <=> a[1] = 8194
           /\ ipv6_in_prefix(a, <<\h2620, \h4f, \h8000>>, 48) <=> a[1] = 9760 /\ a[2] = 79 /\ a[3] = 32768
           /\ ipv6_in_prefix(a, <<\h3fff, 0>>, 20) <=> a[1] = 16383 /\ a[2] < 4096
<1>1. ipv6_in_prefix(a, <<\h2001, 0>>, 23) <=> a[1] = 8193 /\ a[2] < 512
  BY Prefix23
<1>2. ipv6_in_prefix(a, <<\h2001, \h10>>, 28) <=> a[1] = 8193 /\ 16 <= a[2] /\ a[2] <= 31
  BY Prefix28
<1>3. ipv6_in_prefix(a, <<\h2001, \h20>>, 28) <=> a[1] = 8193 /\ 32 <= a[2] /\ a[2] <= 47
  BY Prefix28
<1>4. ipv6_in_prefix(a, <<\h2001, \h30>>, 28) <=> a[1] = 8193 /\ 48 <= a[2] /\ a[2] <= 63
  BY Prefix28
<1>5. ipv6_in_prefix(a, <<\h2001, 0>>, 32) <=> a[1] = 8193 /\ a[2] = 0
  BY Prefix32
<1>6. ipv6_in_prefix(a, <<\h2001, 3>>, 32) <=> a[1] = 8193 /\ a[2] = 3
  BY Prefix32
<1>7. ipv6_in_prefix(a, <<\h2001, \hdb8>>, 32) <=> a[1] = 8193 /\ a[2] = 3512
  BY Prefix32
<1>8. ipv6_in_prefix(a, <<\h2001, 2, 0>>, 48) <=> a[1] = 8193 /\ a[2] = 2 /\ a[3] = 0
  BY Prefix48
<1>9. ipv6_in_prefix(a, <<\h2001, 4, \h112>>, 48) <=> a[1] = 8193 /\ a[2] = 4 /\ a[3] = 274
  BY Prefix48
<1>10. ipv6_in_prefix(a, <<\h2002>>, 16) <=> a[1] = 8194
  BY Prefix16
<1>11. ipv6_in_prefix(a, <<\h2620, \h4f, \h8000>>, 48) <=> a[1] = 9760 /\ a[2] = 79 /\ a[3] = 32768
  BY Prefix48
<1>12. ipv6_in_prefix(a, <<\h3fff, 0>>, 20) <=> a[1] = 16383 /\ a[2] < 4096
  BY Prefix20
<1> QED
  BY <1>1, <1>2, <1>3, <1>4, <1>5, <1>6, <1>7, <1>8, <1>9, <1>10, <1>11, <1>12

\* Those outside it are told by their first segment.
LEMMA OtherNetworks ==
    ASSUME NEW a
    PROVE  /\ ipv6_in_prefix(a, <<0, 0, 0, 0, 0, \hffff>>, 96) => a[1] = 0
           /\ ipv6_in_prefix(a, <<\h64, \hff9b, 0, 0, 0, 0>>, 96) => a[1] = 100
           /\ ipv6_in_prefix(a, <<\h64, \hff9b, 1>>, 48) => a[1] = 100 /\ a[3] = 1
           /\ ipv6_in_prefix(a, <<\h64, \hff9b, 0, 0, 0, 0>>, 96) => a[3] = 0
           /\ ipv6_in_prefix(a, <<\h100, 0, 0, 0>>, 64) => a[1] = 256
           /\ ipv6_in_prefix(a, <<\h100, 0, 0, 1>>, 64) => a[1] = 256
           /\ ipv6_in_prefix(a, <<\h5f00>>, 16) => a[1] = 24320
<1>1. ipv6_in_prefix(a, <<0, 0, 0, 0, 0, \hffff>>, 96) => a[1] = 0
  BY Prefix96
<1>2. ipv6_in_prefix(a, <<\h64, \hff9b, 0, 0, 0, 0>>, 96) => a[1] = 100 /\ a[3] = 0
  BY Prefix96
<1>3. ipv6_in_prefix(a, <<\h64, \hff9b, 1>>, 48) => a[1] = 100 /\ a[3] = 1
  BY Prefix48
<1>4. ipv6_in_prefix(a, <<\h100, 0, 0, 0>>, 64) => a[1] = 256
  BY Prefix64
<1>5. ipv6_in_prefix(a, <<\h100, 0, 0, 1>>, 64) => a[1] = 256
  BY Prefix64
<1>6. ipv6_in_prefix(a, <<\h5f00>>, 16) => a[1] = 24320
  BY Prefix16
<1> QED
  BY <1>1, <1>2, <1>3, <1>4, <1>5, <1>6

\* A prefix of 128 bits is an address.
LEMMA WholeAddress ==
    ASSUME NEW a \in Ipv6Addr, NEW n \in 1 .. 3
    PROVE  ipv6_in_prefix(a, <<\h2001, 1, 0, 0, 0, 0, 0, n>>, 128) <=>
               a = <<\h2001, 1, 0, 0, 0, 0, 0, n>>
<1> DEFINE m == <<\h2001, 1, 0, 0, 0, 0, 0, n>>
<1>1. ipv6_in_prefix(a, m, 128) <=> \A i \in 1 .. 8 : a[i] = m[i]
  BY Prefix128
<1>2. m \in [1 .. 8 -> Nat] /\ a \in [1 .. 8 -> Segment]
  BY DEF Ipv6Addr
<1>3. (\A i \in 1 .. 8 : a[i] = m[i]) => a = m
  BY <1>2
<1> QED
  BY <1>1, <1>3

-----------------------------------------------------------------------------
(* The registry's decision, spelled out                                    *)

\* No block that is not globally reachable contains the address with a prefix of k bits or more.
Below(a, k) == \A l \in LocalBlocks : InBlock(l, a) => l[2] < k

LEMMA LocalBelow ==
    ASSUME NEW a, NEW k \in Nat
    PROVE  Below(a, k) <=>
             /\ ipv6_in_prefix(a, <<0>>, 0) => 0 < k
             /\ ipv6_in_prefix(a, <<0, 0, 0, 0, 0, 0, 0, 0>>, 128) => 128 < k
             /\ ipv6_in_prefix(a, <<0, 0, 0, 0, 0, 0, 0, 1>>, 128) => 128 < k
             /\ ipv6_in_prefix(a, <<\h64, \hff9b, 1>>, 48) => 48 < k
             /\ ipv6_in_prefix(a, <<\h100, 0, 0, 0>>, 64) => 64 < k
             /\ ipv6_in_prefix(a, <<\h100, 0, 0, 1>>, 64) => 64 < k
             /\ ipv6_in_prefix(a, <<\h2001, 0>>, 23) => 23 < k
             /\ ipv6_in_prefix(a, <<\h2001, 0>>, 32) => 32 < k
             /\ ipv6_in_prefix(a, <<\h2001, 2, 0>>, 48) => 48 < k
             /\ ipv6_in_prefix(a, <<\h2001, \h10>>, 28) => 28 < k
             /\ ipv6_in_prefix(a, <<\h2001, \hdb8>>, 32) => 32 < k
             /\ ipv6_in_prefix(a, <<\h2002>>, 16) => 16 < k
             /\ ipv6_in_prefix(a, <<\h3fff, 0>>, 20) => 20 < k
             /\ ipv6_in_prefix(a, <<\h5f00>>, 16) => 16 < k
             /\ ipv6_in_prefix(a, <<\hfc00>>, 7) => 7 < k
             /\ ipv6_in_prefix(a, <<\hfe80>>, 10) => 10 < k
             /\ ipv6_in_prefix(a, <<\hfec0>>, 10) => 10 < k
             /\ ipv6_in_prefix(a, <<\hff00>>, 8) => 8 < k
BY DEF Below, LocalBlocks, InBlock

LEMMA GlobalSome ==
    ASSUME NEW a
    PROVE  InGlobalBlock(a) <=>
             \/ ipv6_in_prefix(a, <<\h2000>>, 3) /\ Below(a, 3)
             \/ ipv6_in_prefix(a, <<\h2001, 1, 0, 0, 0, 0, 0, 1>>, 128) /\ Below(a, 128)
             \/ ipv6_in_prefix(a, <<\h2001, 1, 0, 0, 0, 0, 0, 2>>, 128) /\ Below(a, 128)
             \/ ipv6_in_prefix(a, <<\h2001, 1, 0, 0, 0, 0, 0, 3>>, 128) /\ Below(a, 128)
             \/ ipv6_in_prefix(a, <<\h2001, 3>>, 32) /\ Below(a, 32)
             \/ ipv6_in_prefix(a, <<\h2001, 4, \h112>>, 48) /\ Below(a, 48)
             \/ ipv6_in_prefix(a, <<\h2001, \h20>>, 28) /\ Below(a, 28)
             \/ ipv6_in_prefix(a, <<\h2001, \h30>>, 28) /\ Below(a, 28)
             \/ ipv6_in_prefix(a, <<\h2620, \h4f, \h8000>>, 48) /\ Below(a, 48)
BY DEF InGlobalBlock, GlobalBlocks, InBlock, Below

-----------------------------------------------------------------------------
(* The two decisions                                                       *)

\* Global unicast space, but for what the registry takes out of it.
Public6(a) ==
    /\ 8192 <= a[1] /\ a[1] <= 16383 /\ a[1] # 8194
    /\ ~(a[1] = 8193 /\ a[2] = 3512)
    /\ ~(a[1] = 16383 /\ a[2] < 4096)
    /\ (a[1] = 8193 /\ a[2] < 512) => is_globally_reachable_iana_special(a)

LEMMA SpecialNetworks ==
    ASSUME NEW a \in Ipv6Addr
    PROVE  is_globally_reachable_iana_special(a) <=>
             \/ \E n \in 1 .. 3 : a = <<\h2001, 1, 0, 0, 0, 0, 0, n>>
             \/ a[1] = 8193 /\ a[2] = 3
             \/ a[1] = 8193 /\ a[2] = 4 /\ a[3] = 274
             \/ a[1] = 8193 /\ 32 <= a[2] /\ a[2] <= 63
<1>1. a[2] \in Nat /\ a[2] <= 65535
  BY Segments
<1> QED
  BY <1>1, RegistryNetworks DEF is_globally_reachable_iana_special

LEMMA ClassifiedPublic ==
    ASSUME NEW a \in Ipv6Addr, ~CarriesIpv4(a)
    PROVE  classify_ipv6(a) = "public" <=> Public6(a)
<1>1. a[1] \in Nat /\ a[1] <= 65535 /\ a[2] \in Nat /\ a[2] <= 65535
  BY Segments
<1>2. CASE ~(8192 <= a[1] /\ a[1] <= 16383)
  <2>1. ~ipv6_in_prefix(a, <<\h2000>>, 3) /\ ~ipv6_in_prefix(a, <<\h2001, 0>>, 23)
    BY <1>1, <1>2, WideNetworks, RegistryNetworks
  <2> QED
    BY <1>2, <2>1 DEF classify_ipv6, Public6, CarriesIpv4
<1>3. CASE 8192 <= a[1] /\ a[1] <= 16383
  <2>1. a # <<0, 0, 0, 0, 0, 0, 0, 0>> /\ a # <<0, 0, 0, 0, 0, 0, 0, 1>>
    BY <1>1, <1>3
  <2>2. /\ ~ipv6_in_prefix(a, <<\hff00>>, 8) /\ ~ipv6_in_prefix(a, <<\hfc00>>, 7)
        /\ ~ipv6_in_prefix(a, <<\hfe80>>, 10) /\ ~ipv6_in_prefix(a, <<\hfec0>>, 10)
        /\ ipv6_in_prefix(a, <<\h2000>>, 3)
    BY <1>1, <1>3, WideNetworks
  <2>3. /\ ~ipv6_in_prefix(a, <<\h64, \hff9b, 1>>, 48)
        /\ ~ipv6_in_prefix(a, <<\h100, 0, 0, 0>>, 64) /\ ~ipv6_in_prefix(a, <<\h100, 0, 0, 1>>, 64)
        /\ ~ipv6_in_prefix(a, <<\h5f00>>, 16)
    BY <1>1, <1>3, OtherNetworks
  <2>4. /\ ipv6_in_prefix(a, <<\h2001, \hdb8>>, 32) <=> a[1] = 8193 /\ a[2] = 3512
        /\ ipv6_in_prefix(a, <<\h3fff, 0>>, 20) <=> a[1] = 16383 /\ a[2] < 4096
        /\ ipv6_in_prefix(a, <<\h2001, 0>>, 23) <=> a[1] = 8193 /\ a[2] < 512
        /\ ipv6_in_prefix(a, <<\h2002>>, 16) <=> a[1] = 8194
        /\ ipv6_in_prefix(a, <<\h2001, 2, 0>>, 48) => a[1] = 8193 /\ a[2] = 2
    BY <1>1, RegistryNetworks
  <2>5. a[1] = 8193 /\ a[2] = 2 => ~is_globally_reachable_iana_special(a)
    BY <1>1, SpecialNetworks
  <2> QED
    BY <1>1, <1>3, <2>1, <2>2, <2>3, <2>4, <2>5 DEF classify_ipv6, Public6, CarriesIpv4
<1> QED
  BY <1>2, <1>3

LEMMA RegisteredPublic ==
    ASSUME NEW a \in Ipv6Addr
    PROVE  InGlobalBlock(a) <=> Public6(a)
<1>1. a[1] \in Nat /\ a[1] <= 65535 /\ a[2] \in Nat /\ a[2] <= 65535
  BY Segments
<1>2. CASE ~(8192 <= a[1] /\ a[1] <= 16383)
  BY <1>1, <1>2, GlobalSome, WideNetworks, RegistryNetworks, Prefix128 DEF Public6
<1>3. CASE 8192 <= a[1] /\ a[1] <= 16383
  <2>1. \A k \in Nat : k > 0 =>
          (Below(a, k) <=>
             /\ a[1] = 8193 /\ a[2] < 512 => 23 < k
             /\ a[1] = 8193 /\ a[2] = 0 => 32 < k
             /\ a[1] = 8193 /\ a[2] = 2 /\ a[3] = 0 => 48 < k
             /\ a[1] = 8193 /\ 16 <= a[2] /\ a[2] <= 31 => 28 < k
             /\ a[1] = 8193 /\ a[2] = 3512 => 32 < k
             /\ a[1] = 8194 => 16 < k
             /\ a[1] = 16383 /\ a[2] < 4096 => 20 < k)
    <3>1. ~ipv6_in_prefix(a, <<0, 0, 0, 0, 0, 0, 0, 0>>, 128) /\ ~ipv6_in_prefix(a, <<0, 0, 0, 0, 0, 0, 0, 1>>, 128)
      BY <1>1, <1>3, Prefix128
    <3>2. /\ ~ipv6_in_prefix(a, <<\hff00>>, 8) /\ ~ipv6_in_prefix(a, <<\hfc00>>, 7)
          /\ ~ipv6_in_prefix(a, <<\hfe80>>, 10) /\ ~ipv6_in_prefix(a, <<\hfec0>>, 10)
      BY <1>1, <1>3, WideNetworks
    <3>3. /\ ~ipv6_in_prefix(a, <<\h64, \hff9b, 1>>, 48)
          /\ ~ipv6_in_prefix(a, <<\h100, 0, 0, 0>>, 64) /\ ~ipv6_in_prefix(a, <<\h100, 0, 0, 1>>, 64)
          /\ ~ipv6_in_prefix(a, <<\h5f00>>, 16)
      BY <1>1, <1>3, OtherNetworks
    <3> QED
      BY <1>1, <3>1, <3>2, <3>3, LocalBelow, RegistryNetworks
  <2>2. InGlobalBlock(a) <=>
          \/ Below(a, 3)
          \/ (\E n \in 1 .. 3 : a = <<\h2001, 1, 0, 0, 0, 0, 0, n>>) /\ Below(a, 128)
          \/ a[1] = 8193 /\ a[2] = 3 /\ Below(a, 32)
          \/ a[1] = 8193 /\ a[2] = 4 /\ a[3] = 274 /\ Below(a, 48)
          \/ a[1] = 8193 /\ 32 <= a[2] /\ a[2] <= 63 /\ Below(a, 28)
          \/ a[1] = 9760 /\ a[2] = 79 /\ a[3] = 32768 /\ Below(a, 48)
    <3>1. ipv6_in_prefix(a, <<\h2000>>, 3)
      BY <1>1, <1>3, WideNetworks
    <3>2. \A n \in 1 .. 3 : ipv6_in_prefix(a, <<\h2001, 1, 0, 0, 0, 0, 0, n>>, 128) <=>
                              a = <<\h2001, 1, 0, 0, 0, 0, 0, n>>
      BY WholeAddress
    <3> QED
      BY <1>1, <3>1, <3>2, GlobalSome, RegistryNetworks
  <2>3. \A n \in 1 .. 3 : a = <<\h2001, 1, 0, 0, 0, 0, 0, n>> => a[1] = 8193 /\ a[2] = 1
    OBVIOUS
  <2> QED
    BY <1>1, <1>3, <2>1, <2>2, <2>3, SpecialNetworks DEF Public6
<1> QED
  BY <1>2, <1>3

-----------------------------------------------------------------------------
(* The theorems                                                            *)

\* classify_ipv6 calls an address public exactly when the most specific block of the
\* registry that contains it is globally reachable or, if it carries an IPv4 address,
\* that one is public: no branch of the chain hides an exception of a later one.
THEOREM Ipv6Decided ==
    ASSUME NEW a \in Ipv6Addr
    PROVE  classify_ipv6(a) = "public" <=> Reachable6(a)
<1>1. CASE ~CarriesIpv4(a)
  BY <1>1, ClassifiedPublic, RegisteredPublic DEF Reachable6
<1>2. CASE is_ipv4_mapped(a)
  BY <1>2 DEF Reachable6, CarriesIpv4, classify_ipv6
<1>3. CASE ipv6_in_prefix(a, <<\h64, \hff9b, 0, 0, 0, 0>>, 96)
  <2>1. a[1] = 100 /\ a[3] = 0
    BY <1>3, OtherNetworks
  <2>2. a # <<0, 0, 0, 0, 0, 0, 0, 0>> /\ a # <<0, 0, 0, 0, 0, 0, 0, 1>>
    BY <2>1
  <2>3. /\ ~ipv6_in_prefix(a, <<\hff00>>, 8) /\ ~ipv6_in_prefix(a, <<\hfc00>>, 7)
        /\ ~ipv6_in_prefix(a, <<\hfe80>>, 10) /\ ~ipv6_in_prefix(a, <<\hfec0>>, 10)
    BY <2>1, WideNetworks
  <2>4. ~is_ipv4_mapped(a) /\ ~ipv6_in_prefix(a, <<\h64, \hff9b, 1>>, 48)
    BY <2>1, OtherNetworks DEF is_ipv4_mapped
  <2> QED
    BY <1>3, <2>2, <2>3, <2>4 DEF Reachable6, CarriesIpv4, classify_ipv6
<1> QED
  BY <1>1, <1>2, <1>3 DEF CarriesIpv4

\* No IPv4 address that docs/SAFETY.md says is denied is called public.
THEOREM Ipv4Sound ==
    ASSUME NEW o \in Ipv4Addr, classify_ipv4(o) = "public"
    PROVE  ~Ipv4Denied(o)
<1>1. \A i \in 1 .. 4 : o[i] \in Nat /\ o[i] <= 255
  <2>1. \A i \in 1 .. 4 : o[i] \in Octet
    BY DEF Ipv4Addr
  <2> QED
    BY <2>1 DEF Octet
<1>2. /\ o[1] # 127 /\ o[1] # 0 /\ o[1] < 240 /\ o[1] \notin 224 .. 239
      /\ ~is_private(o) /\ ~documentation_or_benchmark(o)
      /\ ~(o[1] = 169 /\ o[2] = 254) /\ ~(o[1] = 100 /\ o[2] \in 64 .. 127)
  BY <1>1 DEF classify_ipv4
<1> QED
  BY <1>1, <1>2 DEF Ipv4Denied, is_private, documentation_or_benchmark

LEMMA EmbeddedType ==
    ASSUME NEW a \in Ipv6Addr
    PROVE  embedded(a) \in Ipv4Addr
<1>1. a[7] \in Nat /\ a[7] <= 65535 /\ a[8] \in Nat /\ a[8] <= 65535
  BY Segments
<1>2. \A x \in Nat : x <= 65535 => x \div 256 \in Octet /\ x % 256 \in Octet
  BY DEF Octet
<1> QED
  BY <1>1, <1>2 DEF embedded, Ipv4Addr

\* Without allow_private, is_ip_permitted lets nothing through that the documented
\* policy denies.
THEOREM PermittedIsReachable ==
    ASSUME NEW address \in IpAddr, is_ip_permitted(address, FALSE)
    PROVE  Reachable(address)
<1>1. classify_ip(address) = "public"
  BY DEF is_ip_permitted
<1>2. CASE address.family = "ipv4"
  <2>1. address.parts \in Ipv4Addr
    BY <1>2 DEF IpAddr
  <2> QED
    BY <1>1, <1>2, <2>1, Ipv4Sound DEF classify_ip, Reachable
<1>3. CASE address.family # "ipv4"
  <2>1. address.parts \in Ipv6Addr
    BY <1>3 DEF IpAddr
  <2>2. Reachable6(address.parts)
    BY <1>1, <1>3, <2>1, Ipv6Decided DEF classify_ip
  <2> QED
    BY <1>3, <2>1, <2>2, EmbeddedType, Ipv4Sound DEF Reachable, Reachable6
<1> QED
  BY <1>2, <1>3
=============================================================================
