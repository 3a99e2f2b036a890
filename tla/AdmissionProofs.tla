--------------------------- MODULE AdmissionProofs ---------------------------
(***************************************************************************)
(* What holds of the policy decisions of every request, in any             *)
(* environment and for whatever a resolver answers.                        *)
(***************************************************************************)
EXTENDS AdmissionProperties, AddressProofs, SequenceTheorems, FiniteSetTheorems,
        WellFoundedInduction

\* What is known before each decision: an option is set only if it was asked for,
\* nothing is admitted before the options are known, and the resolver is asked for a
\* destination it may answer for.
Decision ==
    /\ request \in Requests
    /\ options.allow_private => Asked("allow_private")
    /\ pc = "overrides" => permitted = {}
    /\ pc = "resolve" => destination \in DOMAIN Answers

\* An address that may be contacted is one the policy permits.
Admitted == \A a \in permitted : a \in IpAddr /\ is_ip_permitted(a, options.allow_private)

AdmissionInv == Decision /\ Admitted

LEMMA SpecOption ==
    ASSUME NEW spec
    PROVE  options_of_spec(spec).allow_private =>
               "allow_private" \in DOMAIN spec /\ spec.allow_private
BY DEF options_of_spec, DefaultOptions

LEMMA MergedOption ==
    ASSUME NEW o, NEW f
    PROVE  apply_overrides(o, f).allow_private => o.allow_private \/ f.allow_private
BY DEF apply_overrides

LEMMA AdmissionInit == Init => AdmissionInv
<1> SUFFICES ASSUME Init PROVE AdmissionInv
  OBVIOUS
<1>1. options.allow_private => Asked("allow_private")
  BY SpecOption DEF Init, Asked
<1> QED
  BY <1>1 DEF Init, AdmissionInv, Decision, Admitted

\* Decisions that leave the options, the destination and the addresses alone.
LEMMA AdmissionKept ==
    ASSUME AdmissionInv, UNCHANGED <<request, options, destination, permitted>>,
           pc' \notin {"overrides", "resolve"}
    PROVE  AdmissionInv'
BY DEF AdmissionInv, Decision, Admitted, Asked

LEMMA AdmissionStep == AdmissionInv /\ [Next]_vars => AdmissionInv'
<1> SUFFICES ASSUME AdmissionInv, [Next]_vars PROVE AdmissionInv'
  OBVIOUS
<1>1. CASE RefuseBudget
  BY <1>1, AdmissionKept DEF RefuseBudget, Refuse
<1>2. CASE ApplyOverrides
  <2>1. options'.allow_private => Asked("allow_private")
    <3>1. options' = apply_overrides(options_of_spec(request.spec), request.flags)
      BY <1>2 DEF ApplyOverrides
    <3> QED
      BY <3>1, SpecOption, MergedOption DEF Asked
  <2> QED
    BY <1>2, <2>1 DEF ApplyOverrides, AdmissionInv, Decision, Admitted, Asked
<1>3. CASE RefuseOptions
  BY <1>3, AdmissionKept DEF RefuseOptions, Refuse
<1>4. CASE AcceptOptions
  BY <1>4, AdmissionKept DEF AcceptOptions
<1>5. CASE RefuseTarget
  BY <1>5, AdmissionKept DEF RefuseTarget, Refuse
<1>6. CASE AcceptTarget
  BY <1>6, AdmissionKept DEF AcceptTarget
<1>7. CASE SelectProxy
  <2>1. destination' \in DOMAIN Answers
    BY <1>7, AnswerAssumption DEF SelectProxy, AdmissionInv, Decision, target
  <2> QED
    BY <1>7, <2>1 DEF SelectProxy, AdmissionInv, Decision, Admitted, Asked
<1>8. CASE Resolve
  <2>1. PICK addresses \in Answers[destination] : permitted' = taken(addresses)
    BY <1>8 DEF Resolve
  <2>2. addresses \subseteq IpAddr
    BY <1>8, <2>1, AnswerAssumption DEF Resolve, AdmissionInv, Decision
  <2>3. Admitted'
    BY <1>8, <2>1, <2>2 DEF Resolve, Admitted, taken, allowed
  <2>4. Decision'
    BY <1>8 DEF Resolve, Refuse, AdmissionInv, Decision, Asked
  <2> QED
    BY <2>3, <2>4 DEF AdmissionInv
<1>9. CASE \E response \in HttpResponses : Respond(response)
  BY <1>9, AdmissionKept DEF Respond
<1>10. CASE UNCHANGED vars
  BY <1>10 DEF vars, AdmissionInv, Decision, Admitted, Asked
<1> QED
  BY <1>1, <1>2, <1>3, <1>4, <1>5, <1>6, <1>7, <1>8, <1>9, <1>10 DEF Next, Decided

\* Whatever is asked for, by whatever means, and whatever the resolver answers, an address
\* that may be contacted is one the documented policy does not deny, unless the user asked
\* for private addresses.
THEOREM AdmissionReachable == Spec => []AdmittedIsReachable
<1>1. AdmissionInv => AdmittedIsReachable
  <2> SUFFICES ASSUME AdmissionInv, NEW a \in permitted, ~Asked("allow_private")
               PROVE  Reachable(a)
    BY DEF AdmittedIsReachable
  <2>1. a \in IpAddr /\ is_ip_permitted(a, FALSE)
    BY DEF AdmissionInv, Decision, Admitted, is_ip_permitted
  <2> QED
    BY <2>1, PermittedIsReachable
<1> QED
  BY <1>1, AdmissionInit, AdmissionStep, PTL DEF Spec
-----------------------------------------------------------------------------
(* Refusals                                                                *)

\* A set of numbers that is not empty has a least one.
LEMMA LeastNatural ==
    ASSUME NEW T \in SUBSET Nat, T # {}
    PROVE  \E x \in T : \A y \in T : x <= y
<1>1. PICK x \in T : \A y \in T : ~ (<<y, x>> \in OpToRel(<, Nat))
  BY NatLessThanWellFounded, WFMin
<1>2. \A y \in T : ~ (y < x)
  BY <1>1 DEF OpToRel
<1> QED
  BY <1>2

\* The addresses of a set whose i-th part is least.
Least(S, i) == {a \in S : \A b \in S : a.parts[i] <= b.parts[i]}

\* There is a least part, and every address that has it is among them.
LEMMA LeastPart ==
    ASSUME NEW S, S # {}, NEW i, \A a \in S : a.parts[i] \in Nat
    PROVE  /\ Least(S, i) # {} /\ Least(S, i) \subseteq S
           /\ \A x \in Least(S, i), b \in S :
                 /\ ~(b.parts[i] < x.parts[i])
                 /\ b.parts[i] = x.parts[i] => b \in Least(S, i)
<1> DEFINE T == {a.parts[i] : a \in S}
<1>1. T \in SUBSET Nat /\ T # {}
  OBVIOUS
<1>2. PICK x \in T : \A y \in T : x <= y
  BY <1>1, LeastNatural
<1>3. PICK a \in S : a.parts[i] = x
  OBVIOUS
<1>4. a \in Least(S, i)
  BY <1>2, <1>3 DEF Least
<1> QED
  BY <1>4 DEF Least

\* An address before which there is none: that with the least first part, of those the
\* one with the least second part, and so on.
FirstOf(S) == \E a \in S : \A b \in S : ~Before(b, a)

LEMMA FirstIpv4 ==
    ASSUME NEW S \in SUBSET [family : {"ipv4"}, parts : Ipv4Addr], S # {}
    PROVE  FirstOf(S)
<1> DEFINE S1 == Least(S, 1)
           S2 == Least(S1, 2)
           S3 == Least(S2, 3)
           S4 == Least(S3, 4)
<1>1. \A a \in S : /\ a.family = "ipv4" /\ DOMAIN a.parts = 1 .. 4
                   /\ \A i \in 1 .. 4 : a.parts[i] \in Nat
  <2>1. \A a \in S : a.family = "ipv4" /\ a.parts \in Ipv4Addr
    OBVIOUS
  <2>2. \A f \in Ipv4Addr : DOMAIN f = 1 .. 4 /\ \A i \in 1 .. 4 : f[i] \in Octet
    BY DEF Ipv4Addr
  <2>3. Octet \subseteq Nat
    BY DEF Octet
  <2> QED
    BY <2>1, <2>2, <2>3
<1> HIDE DEF S1, S2, S3, S4
<1>2. S1 # {} /\ S1 \subseteq S /\ \A x \in S1, b \in S :
         ~(b.parts[1] < x.parts[1]) /\ (b.parts[1] = x.parts[1] => b \in S1)
  <2>1. \A a \in S : a.parts[1] \in Nat
    BY <1>1
  <2> QED
    BY <2>1, <1>1, LeastPart DEF S1
<1>3. S2 # {} /\ S2 \subseteq S1 /\ S2 \subseteq S /\ \A x \in S2, b \in S1 :
         ~(b.parts[2] < x.parts[2]) /\ (b.parts[2] = x.parts[2] => b \in S2)
  <2>1. \A a \in S1 : a.parts[2] \in Nat
    BY <1>1, <1>2
  <2> QED
    BY <2>1, <1>2, LeastPart DEF S2
<1>4. S3 # {} /\ S3 \subseteq S2 /\ S3 \subseteq S /\ \A x \in S3, b \in S2 :
         ~(b.parts[3] < x.parts[3]) /\ (b.parts[3] = x.parts[3] => b \in S3)
  <2>1. \A a \in S2 : a.parts[3] \in Nat
    BY <1>1, <1>3
  <2> QED
    BY <2>1, <1>3, LeastPart DEF S3
<1>5. S4 # {} /\ S4 \subseteq S3 /\ S4 \subseteq S /\ \A x \in S4, b \in S3 :
         ~(b.parts[4] < x.parts[4]) /\ (b.parts[4] = x.parts[4] => b \in S4)
  <2>1. \A a \in S3 : a.parts[4] \in Nat
    BY <1>1, <1>4
  <2> QED
    BY <2>1, <1>4, LeastPart DEF S4
<1>6. PICK x \in S4 : TRUE
  BY <1>5
<1>7. ASSUME NEW b \in S, Before(b, x) PROVE FALSE
  <2>1. PICK i \in 1 .. 4 : b.parts[i] < x.parts[i] /\ \A j \in 1 .. i - 1 : b.parts[j] = x.parts[j]
    BY <1>1, <1>2, <1>3, <1>4, <1>5, <1>7 DEF Before
  <2>2. i \in {1, 2, 3, 4}
    OBVIOUS
  <2>3. x \in S1 /\ x \in S2 /\ x \in S3
    BY <1>3, <1>4, <1>5
  <2>4. i # 1
    BY <2>1, <2>3, <1>2
  <2>5. b \in S1
    BY <2>1, <2>2, <2>3, <2>4, <1>2
  <2>6. i # 2
    BY <2>1, <2>3, <2>5, <1>3
  <2>7. b \in S2
    BY <2>1, <2>2, <2>3, <2>4, <2>5, <2>6, <1>3
  <2>8. i # 3
    BY <2>1, <2>3, <2>7, <1>4
  <2>9. b \in S3
    BY <2>1, <2>2, <2>3, <2>4, <2>6, <2>7, <2>8, <1>4
  <2> QED
    BY <2>1, <2>2, <2>4, <2>6, <2>8, <2>9, <1>5
<1> QED
  BY <1>2, <1>3, <1>4, <1>5, <1>7 DEF FirstOf

LEMMA FirstIpv6 ==
    ASSUME NEW S \in SUBSET [family : {"ipv6"}, parts : Ipv6Addr], S # {}
    PROVE  FirstOf(S)
<1> DEFINE S1 == Least(S, 1)
           S2 == Least(S1, 2)
           S3 == Least(S2, 3)
           S4 == Least(S3, 4)
           S5 == Least(S4, 5)
           S6 == Least(S5, 6)
           S7 == Least(S6, 7)
           S8 == Least(S7, 8)
<1>1. \A a \in S : /\ a.family = "ipv6" /\ DOMAIN a.parts = 1 .. 8
                   /\ \A i \in 1 .. 8 : a.parts[i] \in Nat
  <2>1. \A a \in S : a.family = "ipv6" /\ a.parts \in Ipv6Addr
    OBVIOUS
  <2>2. \A f \in Ipv6Addr : DOMAIN f = 1 .. 8 /\ \A i \in 1 .. 8 : f[i] \in Segment
    BY DEF Ipv6Addr
  <2>3. Segment \subseteq Nat
    BY DEF Segment
  <2> QED
    BY <2>1, <2>2, <2>3
<1> HIDE DEF S1, S2, S3, S4, S5, S6, S7, S8
<1>2. S1 # {} /\ S1 \subseteq S /\ \A x \in S1, b \in S :
         ~(b.parts[1] < x.parts[1]) /\ (b.parts[1] = x.parts[1] => b \in S1)
  <2>1. \A a \in S : a.parts[1] \in Nat
    BY <1>1
  <2> QED
    BY <2>1, <1>1, LeastPart DEF S1
<1>3. S2 # {} /\ S2 \subseteq S1 /\ S2 \subseteq S /\ \A x \in S2, b \in S1 :
         ~(b.parts[2] < x.parts[2]) /\ (b.parts[2] = x.parts[2] => b \in S2)
  <2>1. \A a \in S1 : a.parts[2] \in Nat
    BY <1>1, <1>2
  <2> QED
    BY <2>1, <1>2, LeastPart DEF S2
<1>4. S3 # {} /\ S3 \subseteq S2 /\ S3 \subseteq S /\ \A x \in S3, b \in S2 :
         ~(b.parts[3] < x.parts[3]) /\ (b.parts[3] = x.parts[3] => b \in S3)
  <2>1. \A a \in S2 : a.parts[3] \in Nat
    BY <1>1, <1>3
  <2> QED
    BY <2>1, <1>3, LeastPart DEF S3
<1>5. S4 # {} /\ S4 \subseteq S3 /\ S4 \subseteq S /\ \A x \in S4, b \in S3 :
         ~(b.parts[4] < x.parts[4]) /\ (b.parts[4] = x.parts[4] => b \in S4)
  <2>1. \A a \in S3 : a.parts[4] \in Nat
    BY <1>1, <1>4
  <2> QED
    BY <2>1, <1>4, LeastPart DEF S4
<1>6. S5 # {} /\ S5 \subseteq S4 /\ S5 \subseteq S /\ \A x \in S5, b \in S4 :
         ~(b.parts[5] < x.parts[5]) /\ (b.parts[5] = x.parts[5] => b \in S5)
  <2>1. \A a \in S4 : a.parts[5] \in Nat
    BY <1>1, <1>5
  <2> QED
    BY <2>1, <1>5, LeastPart DEF S5
<1>7. S6 # {} /\ S6 \subseteq S5 /\ S6 \subseteq S /\ \A x \in S6, b \in S5 :
         ~(b.parts[6] < x.parts[6]) /\ (b.parts[6] = x.parts[6] => b \in S6)
  <2>1. \A a \in S5 : a.parts[6] \in Nat
    BY <1>1, <1>6
  <2> QED
    BY <2>1, <1>6, LeastPart DEF S6
<1>8. S7 # {} /\ S7 \subseteq S6 /\ S7 \subseteq S /\ \A x \in S7, b \in S6 :
         ~(b.parts[7] < x.parts[7]) /\ (b.parts[7] = x.parts[7] => b \in S7)
  <2>1. \A a \in S6 : a.parts[7] \in Nat
    BY <1>1, <1>7
  <2> QED
    BY <2>1, <1>7, LeastPart DEF S7
<1>9. S8 # {} /\ S8 \subseteq S7 /\ S8 \subseteq S /\ \A x \in S8, b \in S7 :
         ~(b.parts[8] < x.parts[8]) /\ (b.parts[8] = x.parts[8] => b \in S8)
  <2>1. \A a \in S7 : a.parts[8] \in Nat
    BY <1>1, <1>8
  <2> QED
    BY <2>1, <1>8, LeastPart DEF S8
<1>10. PICK x \in S8 : TRUE
  BY <1>9
<1>11. ASSUME NEW b \in S, Before(b, x) PROVE FALSE
  <2>1. PICK i \in 1 .. 8 : b.parts[i] < x.parts[i] /\ \A j \in 1 .. i - 1 : b.parts[j] = x.parts[j]
    BY <1>1, <1>2, <1>3, <1>4, <1>5, <1>6, <1>7, <1>8, <1>9, <1>11 DEF Before
  <2>2. i \in {1, 2, 3, 4, 5, 6, 7, 8}
    OBVIOUS
  <2>3. x \in S1 /\ x \in S2 /\ x \in S3 /\ x \in S4 /\ x \in S5 /\ x \in S6 /\ x \in S7
    BY <1>3, <1>4, <1>5, <1>6, <1>7, <1>8, <1>9
  <2>4. i # 1
    BY <2>1, <2>3, <1>2
  <2>5. b \in S1
    BY <2>1, <2>2, <2>3, <2>4, <1>2
  <2>6. i # 2
    BY <2>1, <2>3, <2>5, <1>3
  <2>7. b \in S2
    BY <2>1, <2>2, <2>3, <2>5, <2>4, <2>6, <1>3
  <2>8. i # 3
    BY <2>1, <2>3, <2>7, <1>4
  <2>9. b \in S3
    BY <2>1, <2>2, <2>3, <2>7, <2>4, <2>6, <2>8, <1>4
  <2>10. i # 4
    BY <2>1, <2>3, <2>9, <1>5
  <2>11. b \in S4
    BY <2>1, <2>2, <2>3, <2>9, <2>4, <2>6, <2>8, <2>10, <1>5
  <2>12. i # 5
    BY <2>1, <2>3, <2>11, <1>6
  <2>13. b \in S5
    BY <2>1, <2>2, <2>3, <2>11, <2>4, <2>6, <2>8, <2>10, <2>12, <1>6
  <2>14. i # 6
    BY <2>1, <2>3, <2>13, <1>7
  <2>15. b \in S6
    BY <2>1, <2>2, <2>3, <2>13, <2>4, <2>6, <2>8, <2>10, <2>12, <2>14, <1>7
  <2>16. i # 7
    BY <2>1, <2>3, <2>15, <1>8
  <2>17. b \in S7
    BY <2>1, <2>2, <2>3, <2>15, <2>4, <2>6, <2>8, <2>10, <2>12, <2>14, <2>16, <1>8
  <2> QED
    BY <2>1, <2>2, <2>4, <2>6, <2>8, <2>10, <2>12, <2>14, <2>16, <2>17, <1>9
<1> QED
  BY <1>2, <1>3, <1>4, <1>5, <1>6, <1>7, <1>8, <1>9, <1>11 DEF FirstOf

\* The engine's order of the addresses of an answer has a first one.
LEMMA FirstAddress ==
    ASSUME NEW T \in SUBSET IpAddr, T # {}
    PROVE  FirstOf(T)
<1> DEFINE V4 == {a \in T : a.family = "ipv4"}
<1>1. V4 \in SUBSET [family : {"ipv4"}, parts : Ipv4Addr]
  BY DEF IpAddr
<1>2. CASE V4 # {}
  <2>1. PICK a \in V4 : \A b \in V4 : ~Before(b, a)
    BY <1>1, <1>2, FirstIpv4 DEF FirstOf
  <2>2. \A b \in T : b \notin V4 => ~Before(b, a)
    BY DEF Before
  <2> QED
    BY <2>1, <2>2 DEF FirstOf
<1>3. CASE V4 = {}
  <2>1. T \in SUBSET [family : {"ipv6"}, parts : Ipv6Addr]
    BY <1>3 DEF IpAddr
  <2> QED
    BY <2>1, FirstIpv6
<1> QED
  BY <1>2, <1>3

\* If none is taken, none is allowed: the limit turns no answer into an empty one.
LEMMA NoneTaken ==
    ASSUME NEW addresses \in SUBSET IpAddr, taken(addresses) = {},
           options.max_addresses \in Nat, options.max_addresses > 0
    PROVE  allowed(addresses) = {}
<1> SUFFICES ASSUME allowed(addresses) # {} PROVE FALSE
  OBVIOUS
<1>1. allowed(addresses) \in SUBSET IpAddr
  BY DEF allowed
<1>2. PICK a \in allowed(addresses) : \A b \in allowed(addresses) : ~Before(b, a)
  BY <1>1, FirstAddress DEF FirstOf
<1>3. {b \in allowed(addresses) : Before(b, a)} = {}
  BY <1>2
<1>4. Cardinality({b \in allowed(addresses) : Before(b, a)}) = 0
  BY <1>3, FS_EmptySet
<1>5. a \in taken(addresses)
  BY <1>4 DEF taken
<1> QED
  BY <1>5

\* Before the resolver is asked there is no answer, and by then the options are valid.
RefusalInv ==
    /\ pc \notin {"request", "done", "refused"} => answer = {}
    /\ pc \in {"target", "proxy", "resolve"} =>
           options.max_addresses \in Nat /\ options.max_addresses > 0
    /\ NothingReachableDenied

LEMMA RefusalKept ==
    ASSUME RefusalInv, UNCHANGED <<options, answer>>, pc \notin {"request", "done", "refused"},
           pc' \in {"target", "proxy", "resolve"} => pc \in {"target", "proxy", "resolve"}
    PROVE  RefusalInv'
BY DEF RefusalInv, NothingReachableDenied

LEMMA RefusalStep == AdmissionInv /\ RefusalInv /\ [Next]_vars => RefusalInv'
<1> SUFFICES ASSUME AdmissionInv, RefusalInv, [Next]_vars PROVE RefusalInv'
  OBVIOUS
<1>1. CASE RefuseBudget
  BY <1>1, RefusalKept DEF RefuseBudget, Refuse
<1>2. CASE ApplyOverrides
  BY <1>2 DEF ApplyOverrides, RefusalInv, NothingReachableDenied
<1>3. CASE RefuseOptions
  BY <1>3, RefusalKept DEF RefuseOptions, Refuse
<1>4. CASE AcceptOptions
  <2>1. options.max_addresses \in 1 .. AddressLimit /\ AddressLimit \in Nat
    BY <1>4, OptionLimitAssumption DEF AcceptOptions, validate_options
  <2> QED
    <3>1. options.max_addresses \in Nat /\ options.max_addresses > 0
      BY <2>1
    <3>2. answer = {}
      BY <1>4 DEF AcceptOptions, RefusalInv
    <3> QED
      BY <1>4, <3>1, <3>2 DEF AcceptOptions, RefusalInv, NothingReachableDenied
<1>5. CASE RefuseTarget
  BY <1>5, RefusalKept DEF RefuseTarget, Refuse
<1>6. CASE AcceptTarget
  BY <1>6, RefusalKept DEF AcceptTarget
<1>7. CASE SelectProxy
  BY <1>7, RefusalKept DEF SelectProxy
<1>8. CASE Resolve
  <2>1. PICK addresses \in Answers[destination] :
           answer' = addresses /\ (taken(addresses) # {} => pc' = "request")
    BY <1>8 DEF Resolve
  <2>2. addresses \in SUBSET IpAddr
    BY <1>8, <2>1, AnswerAssumption DEF Resolve, AdmissionInv, Decision
  <2>3. pc' \in {"request", "refused"}
    BY <1>8 DEF Resolve, Refuse
  <2>4. ASSUME pc' = "refused", NEW a \in addresses, a.family = "ipv6" PROVE ~Reachable6(a.parts)
    <3>1. allowed(addresses) = {}
      BY <1>8, <2>1, <2>2, <2>4, NoneTaken DEF Resolve, RefusalInv
    <3>2. classify_ip(a) # "public"
      BY <3>1, <2>4 DEF allowed, is_ip_permitted
    <3>3. a.parts \in Ipv6Addr
      BY <2>2, <2>4 DEF IpAddr
    <3> QED
      BY <2>4, <3>2, <3>3, Ipv6Decided DEF classify_ip
  <2> QED
    BY <2>1, <2>3, <2>4 DEF RefusalInv, NothingReachableDenied
<1>9. CASE \E response \in HttpResponses : Respond(response)
  BY <1>9 DEF Respond, RefusalInv, NothingReachableDenied
<1>10. CASE UNCHANGED vars
  BY <1>10 DEF vars, RefusalInv, NothingReachableDenied
<1> QED
  BY <1>1, <1>2, <1>3, <1>4, <1>5, <1>6, <1>7, <1>8, <1>9, <1>10 DEF Next, Decided

\* A request that is refused had no answer it could have been made to: whatever the
\* resolver returns, in whatever order and number, neither the classes of classify_ipv6
\* nor the address limit turn down every address although one is reachable.
THEOREM RefusalsAreDue == Spec => []NothingReachableDenied
<1>1. Init => RefusalInv
  BY DEF Init, RefusalInv, NothingReachableDenied
<1>2. RefusalInv => NothingReachableDenied
  BY DEF RefusalInv
<1> QED
  BY <1>1, <1>2, AdmissionInit, AdmissionStep, RefusalStep, PTL DEF Spec
-----------------------------------------------------------------------------
(* The order of the addresses                                              *)

\* How many parts an address has.
width(address) == IF address.family = "ipv4" THEN 4 ELSE 8

\* An address is its family and its parts, which are numbers.
LEMMA AddressParts ==
    ASSUME NEW a \in IpAddr
    PROVE  /\ a.family \in {"ipv4", "ipv6"} /\ a = [family |-> a.family, parts |-> a.parts]
           /\ DOMAIN a.parts = 1 .. width(a) /\ a.parts = [i \in 1 .. width(a) |-> a.parts[i]]
           /\ \A i \in 1 .. width(a) : a.parts[i] \in Nat
<1>1. Octet \subseteq Nat /\ Segment \subseteq Nat
  BY DEF Octet, Segment
<1>2. CASE a \in [family : {"ipv4"}, parts : Ipv4Addr]
  <2>1. a.family = "ipv4" /\ a.parts \in [1 .. 4 -> Octet] /\ a = [family |-> a.family, parts |-> a.parts]
    BY <1>2 DEF Ipv4Addr
  <2> QED
    BY <1>1, <2>1 DEF width
<1>3. CASE a \in [family : {"ipv6"}, parts : Ipv6Addr]
  <2>1. a.family = "ipv6" /\ a.parts \in [1 .. 8 -> Segment] /\ a = [family |-> a.family, parts |-> a.parts]
    BY <1>3 DEF Ipv6Addr
  <2> QED
    BY <1>1, <2>1 DEF width
<1> QED
  BY <1>2, <1>3 DEF IpAddr

\* No address comes before itself.
LEMMA BeforeIrreflexive ==
    ASSUME NEW a \in IpAddr
    PROVE  ~Before(a, a)
<1>1. \A i \in DOMAIN a.parts : a.parts[i] \in Nat
  BY AddressParts
<1> QED
  BY <1>1 DEF Before

LEMMA BeforeTransitive ==
    ASSUME NEW a \in IpAddr, NEW b \in IpAddr, NEW c \in IpAddr, Before(a, b), Before(b, c)
    PROVE  Before(a, c)
<1>1. a.family \in {"ipv4", "ipv6"} /\ b.family \in {"ipv4", "ipv6"} /\ c.family \in {"ipv4", "ipv6"}
  BY AddressParts
<1>2. CASE a.family # b.family \/ b.family # c.family
  BY <1>1, <1>2 DEF Before
<1>3. CASE a.family = b.family /\ b.family = c.family
  <2> DEFINE n == width(a)
  <2>1. n \in Nat /\ width(b) = n /\ width(c) = n
    BY <1>3 DEF width
  <2>2. /\ DOMAIN a.parts = 1 .. n /\ DOMAIN b.parts = 1 .. n
        /\ \A i \in 1 .. n : a.parts[i] \in Nat /\ b.parts[i] \in Nat /\ c.parts[i] \in Nat
    BY <2>1, AddressParts
  <2> HIDE DEF n
  <2>3. PICK i \in 1 .. n : a.parts[i] < b.parts[i] /\ \A k \in 1 .. i - 1 : a.parts[k] = b.parts[k]
    BY <1>3, <2>2 DEF Before
  <2>4. PICK j \in 1 .. n : b.parts[j] < c.parts[j] /\ \A k \in 1 .. j - 1 : b.parts[k] = c.parts[k]
    BY <1>3, <2>2 DEF Before
  <2>5. CASE i <= j
    <3>1. a.parts[i] < c.parts[i]
      <4>1. CASE i = j
        BY <2>2, <2>3, <2>4, <4>1
      <4>2. CASE i # j
        <5>1. i \in 1 .. j - 1
          BY <2>1, <2>5, <4>2
        <5> QED
          BY <2>3, <2>4, <5>1
      <4> QED
        BY <4>1, <4>2
    <3>2. \A k \in 1 .. i - 1 : a.parts[k] = c.parts[k]
      <4>1. \A k \in 1 .. i - 1 : k \in 1 .. j - 1
        BY <2>1, <2>5
      <4> QED
        BY <2>3, <2>4, <4>1
    <3> QED
      BY <1>3, <2>2, <3>1, <3>2 DEF Before
  <2>6. CASE ~(i <= j)
    <3>1. j \in 1 .. i - 1 /\ \A k \in 1 .. j - 1 : k \in 1 .. i - 1
      BY <2>1, <2>6
    <3>2. a.parts[j] < c.parts[j] /\ \A k \in 1 .. j - 1 : a.parts[k] = c.parts[k]
      BY <2>3, <2>4, <3>1
    <3> QED
      BY <1>3, <2>2, <3>2 DEF Before
  <2> QED
    BY <2>5, <2>6
<1> QED
  BY <1>2, <1>3

\* Of two addresses one comes before the other: at the first part in which they differ.
LEMMA BeforeTotal ==
    ASSUME NEW a \in IpAddr, NEW b \in IpAddr, a # b
    PROVE  Before(a, b) \/ Before(b, a)
<1>1. a.family \in {"ipv4", "ipv6"} /\ b.family \in {"ipv4", "ipv6"}
  BY AddressParts
<1>2. CASE a.family # b.family
  BY <1>1, <1>2 DEF Before
<1>3. CASE a.family = b.family
  <2> DEFINE n == width(a)
             T == {i \in 1 .. n : a.parts[i] # b.parts[i]}
  <2>1. n \in Nat /\ width(b) = n
    BY <1>3 DEF width
  <2>2. /\ a = [family |-> a.family, parts |-> a.parts] /\ a.parts = [i \in 1 .. n |-> a.parts[i]]
        /\ b = [family |-> b.family, parts |-> b.parts] /\ b.parts = [i \in 1 .. n |-> b.parts[i]]
        /\ DOMAIN a.parts = 1 .. n /\ DOMAIN b.parts = 1 .. n
        /\ \A i \in 1 .. n : a.parts[i] \in Nat /\ b.parts[i] \in Nat
    BY <2>1, AddressParts
  <2> HIDE DEF n
  <2>3. T # {}
    <3>1. SUFFICES ASSUME \A i \in 1 .. n : a.parts[i] = b.parts[i] PROVE FALSE
      OBVIOUS
    <3>2. a.parts = b.parts
      BY <2>2, <3>1
    <3> QED
      BY <1>3, <2>2, <3>2
  <2>4. T \in SUBSET Nat
    BY <2>1
  <2>5. PICK i \in T : \A k \in T : i <= k
    BY <2>3, <2>4, LeastNatural
  <2>6. \A k \in 1 .. i - 1 : a.parts[k] = b.parts[k] /\ b.parts[k] = a.parts[k]
    <3> SUFFICES ASSUME NEW k \in 1 .. i - 1 PROVE a.parts[k] = b.parts[k]
      OBVIOUS
    <3>1. k \in 1 .. n /\ ~(i <= k)
      BY <2>1
    <3> QED
      BY <2>5, <3>1
  <2>7. a.parts[i] < b.parts[i] \/ b.parts[i] < a.parts[i]
    BY <2>2
  <2> QED
    BY <1>3, <2>2, <2>6, <2>7 DEF Before
<1> QED
  BY <1>2, <1>3

\* The first n addresses of a finite set are at most n.
LEMMA TakenBound ==
    ASSUME NEW S \in SUBSET IpAddr, IsFiniteSet(S), NEW n \in Nat
    PROVE  Cardinality({a \in S : Cardinality({b \in S : Before(b, a)}) < n}) <= n
<1> DEFINE Earlier(a) == {b \in S : Before(b, a)}
           T == {a \in S : Cardinality(Earlier(a)) < n}
           rank == [a \in T |-> Cardinality(Earlier(a))]
<1>1. \A a \in S : IsFiniteSet(Earlier(a)) /\ Cardinality(Earlier(a)) \in Nat
  <2>1. \A a \in S : IsFiniteSet(Earlier(a))
    BY FS_Subset
  <2> QED
    BY <2>1, FS_CardinalityType
<1>2. IsFiniteSet(T)
  BY FS_Subset
<1>3. \A x, y \in S : Before(x, y) => Cardinality(Earlier(x)) < Cardinality(Earlier(y))
  <2> SUFFICES ASSUME NEW x \in S, NEW y \in S, Before(x, y)
               PROVE  Cardinality(Earlier(x)) < Cardinality(Earlier(y))
    OBVIOUS
  <2>1. x \notin Earlier(x) /\ Earlier(x) \cup {x} \subseteq Earlier(y)
    <3>1. \A b \in S : Before(b, x) => Before(b, y)
      BY BeforeTransitive
    <3>2. ~Before(x, x)
      BY BeforeIrreflexive
    <3> QED
      BY <3>1, <3>2
  <2>2. Cardinality(Earlier(x) \cup {x}) = Cardinality(Earlier(x)) + 1
    BY <1>1, <2>1, FS_AddElement
  <2>3. Cardinality(Earlier(x) \cup {x}) <= Cardinality(Earlier(y))
    BY <1>1, <2>1, FS_Subset
  <2>4. Cardinality(Earlier(x)) \in Nat /\ Cardinality(Earlier(y)) \in Nat
    BY <1>1
  <2> HIDE DEF Earlier, T, rank
  <2> QED
    BY <2>2, <2>3, <2>4
<1>4. rank \in [T -> 0 .. n - 1]
  <2>1. \A a \in T : Cardinality(Earlier(a)) \in Nat /\ Cardinality(Earlier(a)) < n
    BY <1>1
  <2>2. \A a \in T : Cardinality(Earlier(a)) \in 0 .. n - 1
    BY <2>1
  <2> HIDE DEF T, Earlier
  <2> QED
    BY <2>2
<1>5. \A x, y \in T : rank[x] = rank[y] => x = y
  <2> SUFFICES ASSUME NEW x \in T, NEW y \in T, x # y PROVE rank[x] # rank[y]
    OBVIOUS
  <2>1. x \in S /\ y \in S /\ (Before(x, y) \/ Before(y, x))
    BY BeforeTotal
  <2>2. rank[x] = Cardinality(Earlier(x)) /\ rank[y] = Cardinality(Earlier(y))
    OBVIOUS
  <2>3. Cardinality(Earlier(x)) \in Nat /\ Cardinality(Earlier(y)) \in Nat
    BY <1>1, <2>1
  <2>4. \/ Cardinality(Earlier(x)) < Cardinality(Earlier(y))
        \/ Cardinality(Earlier(y)) < Cardinality(Earlier(x))
    BY <1>3, <2>1
  <2> HIDE DEF rank, T, Earlier
  <2> QED
    BY <2>2, <2>3, <2>4
<1>6. IsFiniteSet(0 .. n - 1) /\ Cardinality(0 .. n - 1) = n
  BY FS_Interval
<1>7. Cardinality(T) \in Nat
  BY <1>2, FS_CardinalityType
<1>8. ~(n < Cardinality(T))
  <2> HIDE DEF T, rank
  <2> QED
    BY <1>2, <1>4, <1>5, <1>6, FS_PigeonHole
<1> QED
  BY <1>7, <1>8

\* Different addresses are shown differently, so a report has an observation for each.
LEMMA ObservationsDiffer ==
    ASSUME NEW addresses \in SUBSET IpAddr, IsFiniteSet(addresses)
    PROVE  Cardinality({observation(a) : a \in addresses}) = Cardinality(addresses)
<1> DEFINE T == {observation(a) : a \in addresses}
           f == [a \in addresses |-> observation(a)]
<1>1. \A a, b \in addresses : observation(a) = observation(b) => a = b
  <2> SUFFICES ASSUME NEW a \in addresses, NEW b \in addresses, observation(a) = observation(b)
               PROVE  a = b
    OBVIOUS
  <2>1. observation(a).address = observation(b).address
    OBVIOUS
  <2>2. address_for_report(a, options.show_addresses) = address_for_report(b, options.show_addresses)
    BY <2>1 DEF observation
  <2>3. CASE options.show_addresses
    <3>1. [shown |-> a] = [shown |-> b]
      BY <2>2, <2>3 DEF address_for_report
    <3>2. [shown |-> a].shown = [shown |-> b].shown
      BY <3>1
    <3> QED
      BY <3>2
  <2>4. CASE ~options.show_addresses
    <3>1. [family |-> a.family, digest |-> {a}] = [family |-> b.family, digest |-> {b}]
      BY <2>2, <2>4 DEF address_for_report
    <3>2. [family |-> a.family, digest |-> {a}].digest = [family |-> b.family, digest |-> {b}].digest
      BY <3>1
    <3> QED
      BY <3>2
  <2> QED
    BY <2>3, <2>4
<1>2. f \in Surjection(addresses, T) /\ f \in Injection(addresses, T)
  <2>1. f \in [addresses -> T]
    OBVIOUS
  <2>2. \A t \in T : \E a \in addresses : f[a] = t
    OBVIOUS
  <2>3. \A a, b \in addresses : f[a] = f[b] => a = b
    BY <1>1
  <2> HIDE DEF f, T
  <2> QED
    BY <2>1, <2>2, <2>3 DEF Surjection, Injection, IsInjective
<1> HIDE DEF f, T
<1>3. Cardinality(T) = Cardinality(addresses)
  BY <1>2, FS_Surjection
<1> QED
  BY <1>3 DEF T
-----------------------------------------------------------------------------
(* Types                                                                   *)

\* The options of a spec file have the types of the options.
LEMMA SpecTyped ==
    ASSUME NEW spec, is_spec(spec)
    PROVE  options_of_spec(spec) \in Options
<1> DEFINE o == options_of_spec(spec)
           names == {"budget_ms", "max_probes", "max_addresses", "max_redirects", "max_body_bytes",
                     "include_body_sample", "allow_private", "show_addresses",
                     "show_query_values", "disable_proxy"}
<1>1. DOMAIN DefaultOptions = names
  BY DEF DefaultOptions
<1>2. /\ \A n \in names \ Switches : DefaultOptions[n] \in Nat
      /\ \A n \in Switches : DefaultOptions[n] \in BOOLEAN
  BY DEF DefaultOptions, Switches
<1>3. o = [n \in names |-> IF n \in DOMAIN spec THEN spec[n] ELSE DefaultOptions[n]]
  BY <1>1 DEF options_of_spec
<1>4. \A n \in names \ Switches : o[n] \in Nat
  BY <1>2, <1>3 DEF is_spec
<1>5. \A n \in Switches : o[n] \in BOOLEAN
  <2>1. Switches \subseteq names
    BY DEF Switches
  <2> QED
    BY <1>2, <1>3, <2>1 DEF is_spec
<1>6. o = [budget_ms |-> o.budget_ms, max_probes |-> o.max_probes,
           max_addresses |-> o.max_addresses, max_redirects |-> o.max_redirects,
           max_body_bytes |-> o.max_body_bytes,
           include_body_sample |-> o.include_body_sample, allow_private |-> o.allow_private,
           show_addresses |-> o.show_addresses, show_query_values |-> o.show_query_values,
           disable_proxy |-> o.disable_proxy]
  BY <1>3
<1> HIDE DEF o
<1>7. /\ o.budget_ms \in Nat /\ o.max_probes \in Nat /\ o.max_addresses \in Nat
      /\ o.max_redirects \in Nat /\ o.max_body_bytes \in Nat
  BY <1>4 DEF Switches
<1>8. /\ o.include_body_sample \in BOOLEAN /\ o.allow_private \in BOOLEAN
      /\ o.show_addresses \in BOOLEAN /\ o.show_query_values \in BOOLEAN
      /\ o.disable_proxy \in BOOLEAN
  BY <1>5 DEF Switches
<1>9. o \in Options
  BY <1>6, <1>7, <1>8 DEF Options
<1> QED
  BY <1>9 DEF o

\* And so have those that the flags are merged into.
LEMMA MergedTyped ==
    ASSUME NEW o \in Options, NEW f \in Flags
    PROVE  apply_overrides(o, f) \in Options
<1>1. f.budget = Absent \/ budget_of(f.budget) \in Nat
  <2>1. f.budget \in Nat \cup {Absent}
    BY DEF Flags
  <2> QED
    BY <2>1 DEF budget_of, MicrosPerMilli
<1>2. \A n \in Nat \cup {Absent}, k \in Nat : OrKeep(n, k) \in Nat
  BY DEF OrKeep
<1>3. /\ OrKeep(f.max_probes, o.max_probes) \in Nat
      /\ OrKeep(f.max_addresses, o.max_addresses) \in Nat
      /\ OrKeep(f.max_redirects, o.max_redirects) \in Nat
      /\ OrKeep(f.max_body_bytes, o.max_body_bytes) \in Nat
  BY <1>2 DEF Flags, Options
<1>4. (IF f.budget = Absent THEN o.budget_ms ELSE budget_of(f.budget)) \in Nat
  BY <1>1 DEF Options
<1> QED
  BY <1>3, <1>4 DEF apply_overrides, Options

\* What is known at each decision: nothing of the answers before the resolver is asked,
\* and of the response before there is one.
TypeInv ==
    /\ TypeOK
    /\ pc \notin {"request", "done", "refused"} =>
           answer = {} /\ observations = {} /\ permitted = {}
    /\ pc # "done" => hop = <<>>

\* Decisions that leave what they do not decide alone.
LEMMA TypeKept ==
    ASSUME TypeInv, UNCHANGED <<options, error, answer, observations, permitted, hop>>,
           pc \notin {"overrides", "validate", "request", "done", "refused"},
           pc' \in {"target", "proxy", "resolve"}
    PROVE  TypeInv'
BY DEF TypeInv, TypeOK, Decisions

\* Refusals before the resolver is asked.
LEMMA TypeRefused ==
    ASSUME TypeInv, NEW code, code # "", Refuse(code),
           UNCHANGED <<options, answer, observations, permitted, hop>>, pc # "done"
    PROVE  TypeInv'
BY DEF TypeInv, TypeOK, Decisions, Refuse

LEMMA TypeInit == Init => TypeInv
<1> SUFFICES ASSUME Init PROVE TypeInv
  OBVIOUS
<1>1. options \in Options
  BY SpecTyped, RequestAssumption DEF Init
<1>2. Cardinality({}) = 0 /\ Len(<<>>) = 0
  BY FS_EmptySet
<1>3. Cardinality({}) <= options.max_addresses
  BY <1>1, <1>2 DEF Options
<1>4. /\ pc = "overrides" /\ error = "" /\ hop = <<>>
      /\ answer = {} /\ observations = {} /\ permitted = {}
  BY DEF Init
<1>5. Cardinality(observations) = Cardinality(answer) /\ Cardinality(permitted) <= options.max_addresses
  BY <1>3, <1>4
<1>6. Len(hop) <= 1
  <2>1. hop = <<>>
    BY DEF Init
  <2> QED
    BY <2>1
<1>7. (error # "") = (pc = "refused")
  BY <1>4
<1> QED
  BY <1>1, <1>4, <1>5, <1>6, <1>7 DEF TypeInv, TypeOK, Decisions

\* The reasons to refuse are none of them empty.
LEMMA ValidationCode ==
    ASSUME NEW o
    PROVE  validate_options(o) \in {"", "invalid_budget", "invalid_probe_limit",
               "invalid_address_limit", "invalid_redirect_limit", "invalid_body_limit"}
BY DEF validate_options

LEMMA TypeStep == AdmissionInv /\ TypeInv /\ [Next]_vars => TypeInv'
<1> SUFFICES ASSUME AdmissionInv, TypeInv, [Next]_vars PROVE TypeInv'
  OBVIOUS
<1>1. CASE RefuseBudget
  <2>1. Refuse("invalid_budget") /\ pc # "done"
    BY <1>1 DEF RefuseBudget
  <2> QED
    BY <1>1, <2>1, TypeRefused DEF RefuseBudget
<1>2. CASE ApplyOverrides
  <2>1. options' \in Options
    <3>1. request \in Requests
      BY DEF AdmissionInv, Decision
    <3> QED
      BY <1>2, <3>1, SpecTyped, MergedTyped, RequestAssumption DEF ApplyOverrides
  <2>2. Cardinality({}) <= options'.max_addresses
    BY <2>1, FS_EmptySet DEF Options
  <2>3. permitted' = {} /\ answer' = {} /\ observations' = {} /\ hop' = <<>> /\ Len(<<>>) = 0
    BY <1>2 DEF ApplyOverrides, TypeInv
  <2>4. pc' = "validate" /\ error' = ""
    BY <1>2 DEF ApplyOverrides, TypeInv, TypeOK
  <2>5. /\ Cardinality(observations') = Cardinality(answer')
        /\ Cardinality(permitted') <= options'.max_addresses
    BY <2>2, <2>3
  <2>6. Len(hop') <= 1
    BY <2>3
  <2>7. (error' # "") = (pc' = "refused")
    BY <2>4
  <2> QED
    BY <2>1, <2>3, <2>4, <2>5, <2>6, <2>7 DEF TypeInv, TypeOK, Decisions
<1>3. CASE RefuseOptions
  BY <1>3, TypeRefused DEF RefuseOptions
<1>4. CASE AcceptOptions
  BY <1>4 DEF AcceptOptions, TypeInv, TypeOK, Decisions
<1>5. CASE RefuseTarget
  BY <1>5, TypeRefused DEF RefuseTarget
<1>6. CASE AcceptTarget
  BY <1>6, TypeKept DEF AcceptTarget
<1>7. CASE SelectProxy
  BY <1>7, TypeKept DEF SelectProxy
<1>8. CASE Resolve
  <2>1. PICK addresses \in Answers[destination] :
           /\ answer' = addresses
           /\ observations' = {observation(a) : a \in addresses}
           /\ permitted' = taken(addresses)
           /\ \/ pc' = "request" /\ UNCHANGED error
              \/ pc' = "refused" /\ error' \in {"dns_empty_answer", "non_public_address_denied"}
    BY <1>8 DEF Resolve, Refuse
  <2>2. pc = "resolve" /\ UNCHANGED <<options, hop>>
    BY <1>8 DEF Resolve
  <2>3. addresses \in SUBSET IpAddr /\ IsFiniteSet(addresses)
    BY <2>1, <2>2, AnswerAssumption DEF AdmissionInv, Decision
  <2>4. Cardinality(observations') = Cardinality(answer')
    BY <2>1, <2>3, ObservationsDiffer
  <2>5. options.max_addresses \in Nat
    BY DEF TypeInv, TypeOK, Options
  <2>6. permitted' \subseteq answer' /\ Cardinality(permitted') <= options.max_addresses
    <3>1. allowed(addresses) \in SUBSET IpAddr /\ IsFiniteSet(allowed(addresses))
      BY <2>3, FS_Subset DEF allowed
    <3>2. Cardinality(taken(addresses)) <= options.max_addresses
      BY <2>5, <3>1, TakenBound DEF taken
    <3>3. taken(addresses) \subseteq addresses
      BY DEF taken, allowed
    <3> QED
      BY <2>1, <3>2, <3>3
  <2>7. (error' # "") = (pc' = "refused")
    BY <2>1, <2>2 DEF TypeInv, TypeOK
  <2> QED
    BY <2>1, <2>2, <2>3, <2>4, <2>6, <2>7 DEF TypeInv, TypeOK, Decisions
<1>9. CASE \E response \in HttpResponses : Respond(response)
  <2>1. Len(hop') <= 1
    <3>1. \A x : Len(<<x>>) = 1
      OBVIOUS
    <3> QED
      BY <1>9, <3>1 DEF Respond
  <2> QED
    BY <1>9, <2>1 DEF Respond, TypeInv, TypeOK, Decisions
<1>10. CASE UNCHANGED vars
  BY <1>10 DEF vars, TypeInv, TypeOK
<1> QED
  BY <1>1, <1>2, <1>3, <1>4, <1>5, <1>6, <1>7, <1>8, <1>9, <1>10 DEF Next, Decided

\* Every variable keeps its type for every request: options within their limits once they
\* are validated, an observation for each address answered, and no more addresses to
\* contact than max_addresses, whatever the resolver answers.
THEOREM AdmissionTypeCorrect == Spec => []TypeOK
<1>1. TypeInv => TypeOK
  BY DEF TypeInv
<1> QED
  BY <1>1, TypeInit, TypeStep, AdmissionInit, AdmissionStep, PTL DEF Spec
-----------------------------------------------------------------------------
(* Disclosure                                                              *)

\* A URL without the query values that were not asked for is shown as the URL is.
LEMMA MaskedUrlShown ==
    ASSUME NEW url \in Target, NEW show, show => Asked("show_query_values")
    PROVE  redact_url(masked_url(url), show) = redact_url(url, show)
<1> DEFINE q == url.query
           blank == [i \in 1 .. Len(q) |-> <<q[i][1], "">>]
           kept == IF Asked("show_query_values") THEN q ELSE blank
           shown(s) == IF show THEN s ELSE [i \in 1 .. Len(s) |-> <<s[i][1], "REDACTED">>]
           of(u, query) == [u EXCEPT !.userinfo = "", !.fragment = "", !.query = query]
<1>1. masked_url(url) = of(url, kept)
  BY DEF masked_url, Target
<1>2. \A u : redact_url(u, show) = of(u, shown(u.query))
  BY DEF redact_url
<1>3. shown(kept) = shown(q)
  <2>1. CASE Asked("show_query_values")
    BY <2>1
  <2>2. CASE ~Asked("show_query_values")
    <3>1. q \in Seq(STRING \X STRING)
      BY DEF Target
    <3>2. Len(q) \in Nat
      BY <3>1
    <3>3. Len(blank) = Len(q)
      BY <3>2
    <3>4. \A i \in 1 .. Len(q) : blank[i][1] = q[i][1]
      OBVIOUS
    <3>5. kept = blank /\ ~show
      BY <2>2
    <3> QED
      BY <3>3, <3>4, <3>5
  <2> QED
    BY <2>1, <2>2
<1> HIDE DEF kept, shown
<1>4. masked_url(url).query = kept
  BY <1>1 DEF Target
<1>5. \A k : of(of(url, kept), k) = of(url, k)
  BY DEF Target
<1> QED
  BY <1>1, <1>2, <1>3, <1>4, <1>5

\* A response without what was not asked for is shown as the response is, but for the
\* digest of its body.
LEMMA MaskedHopShown ==
    ASSUME NEW url \in Target, NEW response \in HttpResponses, NEW o,
           o.show_query_values => Asked("show_query_values"),
           o.include_body_sample => Asked("include_body_sample")
    PROVE  undigested(hop_shown(url, response, o)) =
               undigested(hop_shown(masked_url(url), masked_response(response), o))
<1> DEFINE m == masked_response(response)
           location(r) == IF r.redirection /\ r.location # <<>>
                            THEN <<redact_url(r.location[1], o.show_query_values)>> ELSE <<>>
           sample(r) == IF o.include_body_sample THEN <<r.body>> ELSE <<>>
           masked_headers == [n \in DOMAIN response.headers \cap SafeHeaders |-> response.headers[n]]
<1>1. /\ response = [redirection |-> response.redirection, location |-> response.location,
                     headers |-> response.headers, body |-> response.body]
      /\ response.location \in Seq(Target) /\ Len(response.location) <= 1
  BY ResponseAssumption
<1>2. /\ m.redirection = response.redirection
      /\ m.location = [i \in 1 .. Len(response.location) |-> masked_url(response.location[i])]
      /\ m.headers = masked_headers
      /\ m.body = IF Asked("include_body_sample") THEN response.body ELSE ""
  BY <1>1 DEF masked_response
<1> HIDE DEF m
<1>3. location(m) = location(response)
  <2>1. Len(response.location) \in Nat
    BY <1>1
  <2>2. CASE Len(response.location) = 0
    <3>1. response.location = <<>>
      BY <1>1, <2>2
    <3>2. 1 .. Len(response.location) = {}
      BY <2>2
    <3>3. m.location = <<>>
      <4>1. m.location = [i \in {} |-> masked_url(response.location[i])]
        BY <1>2, <3>2
      <4>2. m.location \in [1 .. 0 -> Target]
        BY <4>1
      <4>3. m.location \in Seq(Target)
        BY <4>2, SeqDef
      <4>4. Len(m.location) = 0
        BY <4>2, <4>3, LenProperties
      <4> QED
        BY <4>3, <4>4, EmptySeq
    <3> QED
      BY <1>2, <3>1, <3>3
  <2>3. CASE Len(response.location) = 1
    <3>1. response.location[1] \in Target /\ response.location # <<>>
      <4>1. response.location \in Seq(Target) /\ 1 \in 1 .. Len(response.location)
        BY <1>1, <2>3
      <4> QED
        BY <4>1, ElementOfSeq, EmptySeq
    <3>2. m.location = <<masked_url(response.location[1])>>
      <4> DEFINE u == masked_url(response.location[1])
      <4>1. m.location = [i \in 1 .. 1 |-> masked_url(response.location[i])]
        BY <1>2, <2>3
      <4>2. m.location \in [1 .. 1 -> {u}]
        BY <4>1
      <4>3. m.location \in Seq({u})
        BY <4>2, SeqDef
      <4>4. Len(m.location) = 1 /\ m.location[1] = u
        BY <4>2, <4>3, LenProperties
      <4>5. <<u>> \in Seq({u}) /\ Len(<<u>>) = 1 /\ <<u>>[1] = u
        OBVIOUS
      <4>6. \A i \in 1 .. Len(m.location) : m.location[i] = <<u>>[i]
        BY <4>4, <4>5
      <4>7. m.location = <<u>>
        <5> HIDE DEF u
        <5> QED
          BY <4>3, <4>4, <4>5, <4>6, SeqEqual
      <4> QED
        BY <4>7
    <3>3. m.location # <<>> /\ m.location[1] = masked_url(response.location[1])
      BY <3>2
    <3>4. redact_url(m.location[1], o.show_query_values) = redact_url(response.location[1], o.show_query_values)
      BY <3>1, <3>3, MaskedUrlShown
    <3> QED
      BY <1>2, <3>1, <3>3, <3>4
  <2> QED
    BY <1>1, <2>1, <2>2, <2>3
<1>4. safe_headers(m.headers) = safe_headers(response.headers)
  <2>1. safe_headers(masked_headers) = safe_headers(response.headers)
    BY DEF safe_headers
  <2> QED
    BY <1>2, <2>1
<1>5. sample(m) = sample(response)
  BY <1>2
<1>6. redact_url(masked_url(url), o.show_query_values) = redact_url(url, o.show_query_values)
  BY MaskedUrlShown
<1>7. \A u, r : undigested(hop_shown(u, r, o)) =
          [url                |-> redact_url(u, o.show_query_values),
           location           |-> location(r),
           headers            |-> safe_headers(r.headers),
           body_sample_sha256 |-> {},
           body_sample_base64 |-> sample(r)]
  <2>1. \A u, r : hop_shown(u, r, o) =
            [url                |-> redact_url(u, o.show_query_values),
             location           |-> location(r),
             headers            |-> safe_headers(r.headers),
             body_sample_sha256 |-> {r.body},
             body_sample_base64 |-> sample(r)]
    BY DEF hop_shown
  <2>2. \A a, b, c, d, e :
            [[url |-> a, location |-> b, headers |-> c, body_sample_sha256 |-> d,
              body_sample_base64 |-> e] EXCEPT !.body_sample_sha256 = {}] =
            [url |-> a, location |-> b, headers |-> c, body_sample_sha256 |-> {},
             body_sample_base64 |-> e]
    OBVIOUS
  <2> HIDE DEF location, sample
  <2> QED
    BY <2>1, <2>2 DEF undigested
<1> HIDE DEF location, sample
<1> QED
  BY <1>3, <1>4, <1>5, <1>6, <1>7 DEF m

\* What is shown was asked for, and is what the request and the response say.
ShownInv ==
    /\ request \in Requests
    /\ \A o \in {"show_query_values", "include_body_sample", "show_addresses"} :
           options[o] => Asked(o)
    /\ intended # <<>> =>
           intended = redact_url([target EXCEPT !.fragment = ""], options.show_query_values)
    /\ \/ hop = <<>>
       \/ \E response \in HttpResponses :
             hop = <<[response |-> response, shown |-> hop_shown(target, response, options)]>>
    /\ \A o \in observations : "shown" \in DOMAIN o.address => Asked("show_addresses")
    /\ pc \in {"overrides", "validate", "target"} => intended = <<>>
    /\ pc \in {"overrides", "validate", "target", "proxy", "resolve", "request"} => hop = <<>>

\* Decisions that show nothing.
LEMMA ShownKept ==
    ASSUME ShownInv, UNCHANGED <<request, options, intended, observations, hop>>,
           pc' \in {"overrides", "validate", "target"} => pc \in {"overrides", "validate", "target"},
           pc' \in {"overrides", "validate", "target", "proxy", "resolve", "request"} =>
               pc \in {"overrides", "validate", "target", "proxy", "resolve", "request"}
    PROVE  ShownInv'
BY DEF ShownInv, Asked, target

LEMMA ShownOptions ==
    ASSUME NEW spec, NEW f, NEW o \in {"show_query_values", "include_body_sample", "show_addresses"}
    PROVE  /\ options_of_spec(spec)[o] => o \in DOMAIN spec /\ spec[o]
           /\ apply_overrides(options_of_spec(spec), f)[o] => (o \in DOMAIN spec /\ spec[o]) \/ f[o]
<1>1. options_of_spec(spec)[o] => o \in DOMAIN spec /\ spec[o]
  BY DEF options_of_spec, DefaultOptions
<1>2. \A d : apply_overrides(d, f)[o] => d[o] \/ f[o]
  <2> SUFFICES ASSUME NEW d, apply_overrides(d, f)[o] PROVE d[o] \/ f[o]
    OBVIOUS
  <2>1. CASE o = "show_query_values"
    BY <2>1 DEF apply_overrides
  <2>2. CASE o = "include_body_sample"
    BY <2>2 DEF apply_overrides
  <2>3. CASE o = "show_addresses"
    BY <2>3 DEF apply_overrides
  <2> QED
    BY <2>1, <2>2, <2>3
<1> QED
  BY <1>1, <1>2

LEMMA ShownInit == Init => ShownInv
<1> SUFFICES ASSUME Init PROVE ShownInv
  OBVIOUS
<1>1. \A o \in {"show_query_values", "include_body_sample", "show_addresses"} :
          options[o] => Asked(o)
  BY ShownOptions DEF Init, Asked
<1> QED
  BY <1>1 DEF Init, ShownInv

LEMMA ShownStep == ShownInv /\ [Next]_vars => ShownInv'
<1> SUFFICES ASSUME ShownInv, [Next]_vars PROVE ShownInv'
  OBVIOUS
<1>1. CASE RefuseBudget
  BY <1>1, ShownKept DEF RefuseBudget, Refuse
<1>2. CASE ApplyOverrides
  <2>1. request' = request /\ intended = <<>> /\ hop = <<>> /\ UNCHANGED <<intended, observations, hop>>
    BY <1>2 DEF ApplyOverrides, ShownInv
  <2>2. \A o \in {"show_query_values", "include_body_sample", "show_addresses"} :
            options'[o] => Asked(o)
    <3>1. options' = apply_overrides(options_of_spec(request.spec), request.flags)
      BY <1>2 DEF ApplyOverrides
    <3> QED
      BY <3>1, ShownOptions DEF Asked
  <2> QED
    BY <2>1, <2>2 DEF ShownInv, Asked
<1>3. CASE RefuseOptions
  BY <1>3, ShownKept DEF RefuseOptions, Refuse
<1>4. CASE AcceptOptions
  BY <1>4, ShownKept DEF AcceptOptions
<1>5. CASE RefuseTarget
  BY <1>5, ShownKept DEF RefuseTarget, Refuse
<1>6. CASE AcceptTarget
  <2>1. /\ intended' = redact_url([target EXCEPT !.fragment = ""], options.show_query_values)
        /\ pc = "target" /\ pc' = "proxy" /\ UNCHANGED <<request, options, observations, hop>>
    BY <1>6 DEF AcceptTarget
  <2> QED
    BY <2>1 DEF ShownInv, Asked, target
<1>7. CASE SelectProxy
  BY <1>7, ShownKept DEF SelectProxy
<1>8. CASE Resolve
  <2>1. PICK addresses \in Answers[destination] : observations' = {observation(a) : a \in addresses}
    BY <1>8 DEF Resolve
  <2>2. pc = "resolve" /\ pc' \in {"request", "refused"} /\ UNCHANGED <<request, options, intended, hop>>
    BY <1>8 DEF Resolve, Refuse
  <2>3. ASSUME NEW a \in addresses, "shown" \in DOMAIN observation(a).address
        PROVE  Asked("show_addresses")
    <3>1. "shown" \in DOMAIN address_for_report(a, options.show_addresses)
      BY <2>3 DEF observation
    <3>2. options["show_addresses"]
      BY <3>1 DEF address_for_report
    <3> QED
      BY <3>2 DEF ShownInv
  <2>4. \A o \in observations' : "shown" \in DOMAIN o.address => Asked("show_addresses")
    BY <2>1, <2>3
  <2> QED
    BY <2>2, <2>4 DEF ShownInv, Asked, target
<1>9. CASE \E response \in HttpResponses : Respond(response)
  <2>1. PICK response \in HttpResponses :
            hop' = <<[response |-> response, shown |-> hop_shown(target, response, options)]>>
    BY <1>9 DEF Respond
  <2>2. pc' = "done" /\ UNCHANGED <<request, options, intended, observations>>
    BY <1>9 DEF Respond
  <2> QED
    BY <2>1, <2>2 DEF ShownInv, Asked, target
<1>10. CASE UNCHANGED vars
  BY <1>10, ShownKept DEF vars
<1> QED
  BY <1>1, <1>2, <1>3, <1>4, <1>5, <1>6, <1>7, <1>8, <1>9, <1>10 DEF Next, Decided

\* Whatever the URL, the response and the resolver's answer hold, a report tells nothing
\* of them that the spec or a flag did not ask to be shown, but for the body's digest.
THEOREM ReportsShowOnlyAsked == Spec => []OnlyAskedIsShown
<1>1. ShownInv => OnlyAskedIsShown
  <2> SUFFICES ASSUME ShownInv PROVE OnlyAskedIsShown
    OBVIOUS
  <2>1. target \in Target
    BY RequestAssumption DEF ShownInv, target
  <2>2. /\ options.show_query_values => Asked("show_query_values")
        /\ options.include_body_sample => Asked("include_body_sample")
    BY DEF ShownInv
  <2>3. intended # <<>> => intended = redact_url(masked_url(target), options.show_query_values)
    <3>1. redact_url([target EXCEPT !.fragment = ""], options.show_query_values) =
              redact_url(target, options.show_query_values)
      BY <2>1 DEF redact_url, Target
    <3> QED
      BY <2>1, <2>2, <3>1, MaskedUrlShown DEF ShownInv
  <2>4. ASSUME NEW i \in 1 .. Len(hop)
        PROVE  undigested(hop[i].shown) =
                   undigested(hop_shown(masked_url(target), masked_response(hop[i].response), options))
    <3>1. hop # <<>>
      BY <2>4
    <3>2. PICK response \in HttpResponses :
              hop = <<[response |-> response, shown |-> hop_shown(target, response, options)]>>
      BY <3>1 DEF ShownInv
    <3>3. i = 1
      BY <2>4, <3>2
    <3>4. hop[i].response = response /\ hop[i].shown = hop_shown(target, response, options)
      BY <3>2, <3>3
    <3> QED
      BY <2>1, <2>2, <3>4, MaskedHopShown
  <2> QED
    BY <2>3, <2>4 DEF OnlyAskedIsShown, ShownInv
<1> QED
  BY <1>1, ShownInit, ShownStep, PTL DEF Spec
-----------------------------------------------------------------------------
(* NO_PROXY                                                                *)

\* The tokens of hosts and entries.
Words == STRING \cup {".", ":"} \cup Numerals

\* What it means, token by token, that a text ends with another.
LEMMA SuffixAt ==
    ASSUME NEW s \in Seq(Words), NEW t \in Seq(Words)
    PROVE  IsSuffix(s, t) <=>
               /\ Len(s) <= Len(t)
               /\ \A j \in 1 .. Len(s) : s[j] = t[Len(t) - Len(s) + j]
<1> DEFINE rs == Reverse(s)
           rt == Reverse(t)
           n == Len(s)
           m == Len(t)
<1>1. n \in Nat /\ m \in Nat
  OBVIOUS
<1>2. /\ rs \in Seq(Words) /\ Len(rs) = n /\ \A j \in 1 .. n : rs[j] = s[n - j + 1]
      /\ rt \in Seq(Words) /\ Len(rt) = m /\ \A j \in 1 .. m : rt[j] = t[m - j + 1]
  <2>1. \A j \in 1 .. n : s[n - j + 1] \in Words
    <3>1. \A j \in 1 .. n : n - j + 1 \in 1 .. n
      BY <1>1
    <3> QED
      BY <3>1, ElementOfSeq
  <2>2. \A j \in 1 .. m : t[m - j + 1] \in Words
    <3>1. \A j \in 1 .. m : m - j + 1 \in 1 .. m
      BY <1>1
    <3> QED
      BY <3>1, ElementOfSeq
  <2> QED
    BY <1>1, <2>1, <2>2 DEF Reverse
<1> HIDE DEF rs, rt
<1>3. CASE n <= m
  <2>1. /\ SubSeq(rs, 1, n) \in Seq(Words) /\ Len(SubSeq(rs, 1, n)) = n
        /\ \A j \in 1 .. n : SubSeq(rs, 1, n)[j] = rs[j]
    BY <1>1, <1>2
  <2>2. /\ SubSeq(rt, 1, n) \in Seq(Words) /\ Len(SubSeq(rt, 1, n)) = n
        /\ \A j \in 1 .. n : SubSeq(rt, 1, n)[j] = rt[j]
    BY <1>1, <1>2, <1>3
  <2>3. SubSeq(rs, 1, n) = SubSeq(rt, 1, n) <=> \A j \in 1 .. n : rs[j] = rt[j]
    BY <2>1, <2>2, SeqEqual
  <2>4. (\A j \in 1 .. n : rs[j] = rt[j]) <=> \A j \in 1 .. n : s[j] = t[m - n + j]
    <3>1. \A j \in 1 .. n : n - j + 1 \in 1 .. n /\ n - (n - j + 1) + 1 = j /\ m - (n - j + 1) + 1 = m - n + j
      BY <1>1
    <3>2. \A j \in 1 .. n : rs[n - j + 1] = s[j] /\ rt[n - j + 1] = t[m - n + j]
      <4>1. \A j \in 1 .. n : j \in 1 .. m
        BY <1>1, <1>3
      <4> QED
        BY <1>1, <1>2, <1>3, <3>1, <4>1
    <3>3. ASSUME \A j \in 1 .. n : rs[j] = rt[j], NEW j \in 1 .. n PROVE s[j] = t[m - n + j]
      BY <3>1, <3>2, <3>3
    <3>4. ASSUME \A j \in 1 .. n : s[j] = t[m - n + j], NEW j \in 1 .. n PROVE rs[j] = rt[j]
      <4>1. n - j + 1 \in 1 .. n /\ n - (n - j + 1) + 1 = j
        BY <3>1
      <4>2. rs[n - (n - j + 1) + 1] = s[n - j + 1] /\ rt[n - (n - j + 1) + 1] = t[m - n + (n - j + 1)]
        BY <3>2, <4>1
      <4> QED
        BY <3>4, <4>1, <4>2
    <3> QED
      BY <3>3, <3>4
  <2> QED
    BY <1>2, <1>3, <2>3, <2>4 DEF IsSuffix, IsPrefix, rs, rt
<1>4. CASE ~(n <= m)
  BY <1>2, <1>4 DEF IsSuffix, IsPrefix, rs, rt
<1> QED
  BY <1>3, <1>4

\* Cutting the leading dots leaves what follows the first c tokens, for some c.
LEMMA Trimmed ==
    ASSUME NEW p \in Seq(Words)
    PROVE  \E c \in 0 .. Len(p) :
               /\ \A j \in 1 .. c : p[j] = "."
               /\ c < Len(p) => p[c + 1] # "."
               /\ trim_start_dots(p) \in Seq(Words) /\ Len(trim_start_dots(p)) = Len(p) - c
               /\ \A j \in 1 .. Len(p) - c : trim_start_dots(p)[j] = p[c + j]
<1> DEFINE kept == {j \in 1 .. Len(p) : p[j] # "."}
<1>0. Len(p) \in Nat
  OBVIOUS
<1>1. CASE kept = {}
  <2>1. trim_start_dots(p) = <<>>
    BY <1>1 DEF trim_start_dots
  <2>2. \A j \in 1 .. Len(p) : p[j] = "."
    BY <1>1
  <2>3. <<>> \in Seq(Words) /\ Len(<<>>) = 0
    OBVIOUS
  <2> WITNESS Len(p) \in 0 .. Len(p)
  <2> QED
    BY <1>0, <2>1, <2>2, <2>3
<1>2. CASE kept # {}
  <2>1. kept \in SUBSET Nat
    BY <1>0
  <2>2. PICK x \in kept : \A y \in kept : x <= y
    BY <1>2, <2>1, LeastNatural
  <2>3. Min(kept) \in kept /\ \A y \in kept : Min(kept) <= y
    BY <2>2 DEF Min
  <2> DEFINE d == Min(kept)
  <2>4. d \in 1 .. Len(p) /\ p[d] # "."
    BY <2>3
  <2>5. \A j \in 1 .. d - 1 : p[j] = "."
    <3> SUFFICES ASSUME NEW j \in 1 .. d - 1, p[j] # "." PROVE FALSE
      OBVIOUS
    <3>1. j \in kept /\ ~(d <= j)
      BY <1>0, <2>4
    <3> QED
      BY <2>3, <3>1
  <2>6. trim_start_dots(p) = SubSeq(p, d, Len(p))
    BY <1>2 DEF trim_start_dots
  <2> HIDE DEF d
  <2>7. /\ SubSeq(p, d, Len(p)) \in Seq(Words) /\ Len(SubSeq(p, d, Len(p))) = Len(p) - d + 1
        /\ \A j \in 1 .. Len(p) - d + 1 : SubSeq(p, d, Len(p))[j] = p[d + j - 1]
    <3>1. \A j \in d .. Len(p) : p[j] \in Words
      <4>1. \A j \in d .. Len(p) : j \in 1 .. Len(p)
        BY <1>0, <2>4
      <4> QED
        BY <4>1, ElementOfSeq
    <3>2. d \in Int /\ Len(p) \in Int /\ d <= Len(p)
      BY <1>0, <2>4
    <3> QED
      BY <3>1, <3>2, SubSeqProperties
  <2> d - 1 \in 0 .. Len(p)
    BY <1>0, <2>4
  <2> WITNESS d - 1 \in 0 .. Len(p)
  <2>8. \A j \in 1 .. Len(p) - (d - 1) : SubSeq(p, d, Len(p))[j] = p[d - 1 + j]
    <3>1. \A j \in 1 .. Len(p) - (d - 1) : j \in 1 .. Len(p) - d + 1 /\ d + j - 1 = d - 1 + j
      BY <1>0, <2>4
    <3> QED
      BY <2>7, <3>1
  <2>9. d - 1 + 1 = d /\ Len(p) - (d - 1) = Len(p) - d + 1
    BY <1>0, <2>4
  <2> QED
    BY <2>4, <2>5, <2>6, <2>7, <2>8, <2>9
<1> QED
  BY <1>1, <1>2

\* The tokens of an entry without the port it ends with.
LEMMA WithoutTokens ==
    ASSUME NEW entry \in Seq(Words), NEW port \in Seq(Words), Len(port) <= Len(entry)
    PROVE  /\ Without(entry, port) \in Seq(Words)
           /\ Len(Without(entry, port)) = Len(entry) - Len(port)
           /\ \A j \in 1 .. Len(entry) - Len(port) : Without(entry, port)[j] = entry[j]
<1> DEFINE m == Len(entry) - Len(port)
<1>1. m \in Nat /\ m <= Len(entry) /\ Len(entry) \in Nat
  OBVIOUS
<1>2. \A j \in 1 .. m : entry[j] \in Words
  <2>1. \A j \in 1 .. m : j \in 1 .. Len(entry)
    BY <1>1
  <2> QED
    BY <2>1, ElementOfSeq
<1>3. /\ SubSeq(entry, 1, m) \in Seq(Words)
      /\ Len(SubSeq(entry, 1, m)) = IF 1 <= m THEN m - 1 + 1 ELSE 0
      /\ \A j \in 1 .. m - 1 + 1 : SubSeq(entry, 1, m)[j] = entry[1 + j - 1]
  BY <1>1, <1>2, SubSeqProperties
<1>4. m - 1 + 1 = m /\ \A j \in 1 .. m : 1 + j - 1 = j
  BY <1>1
<1> QED
  BY <1>1, <1>3, <1>4 DEF Without

\* A suffix of two tokens, token by token.
LEMMA TwoTokens ==
    ASSUME NEW a \in Words, NEW b \in Words
    PROVE  <<a, b>> \in Seq(Words) /\ Len(<<a, b>>) = 2 /\ <<a, b>>[1] = a /\ <<a, b>>[2] = b
OBVIOUS

Dots(k) == [i \in 1 .. k |-> "."]

\* What the names of hosts have in common: they start with no dot and are not *, and if
\* they have a colon they end with a bracket.
Nameable(name) ==
    /\ name # <<>> /\ name[1] # "." /\ name[1] # "*"
    /\ \A j \in 1 .. Len(name) : name[j] = ":" => name[Len(name)] = "]"

\* A text after dots, token by token.
LEMMA AfterDots ==
    ASSUME NEW k \in Nat, NEW name \in Seq(Words)
    PROVE  /\ Dots(k) \in Seq(Words) /\ Dots(k) \o name \in Seq(Words)
           /\ Len(Dots(k) \o name) = k + Len(name)
           /\ \A j \in 1 .. k : (Dots(k) \o name)[j] = "."
           /\ \A j \in 1 .. Len(name) : (Dots(k) \o name)[k + j] = name[j]
<1>1. /\ Dots(k) \in Seq(Words) /\ Len(Dots(k)) = k
      /\ \A j \in 1 .. k : Dots(k)[j] = "."
  <2>1. "." \in Words
    BY DEF Words
  <2> HIDE DEF Words
  <2> QED
    BY <2>1 DEF Dots
<1> HIDE DEF Words
<1> DEFINE dots == Dots(k)
<1> HIDE DEF dots
<1>2. /\ dots \in Seq(Words) /\ Len(dots) = k /\ \A j \in 1 .. k : dots[j] = "."
  BY <1>1 DEF dots
<1>3. /\ dots \o name \in Seq(Words)
      /\ Len(dots \o name) = k + Len(name)
      /\ \A j \in 1 .. k : (dots \o name)[j] = "."
      /\ \A j \in 1 .. Len(name) : (dots \o name)[k + j] = name[j]
  BY <1>2
<1> QED
  BY <1>2, <1>3 DEF dots

\* The dots before a name are cut, and nothing else.
LEMMA DotsCut ==
    ASSUME NEW k \in Nat, NEW name \in Seq(Words), name # <<>>, name[1] # "."
    PROVE  trim_start_dots(Dots(k) \o name) = name
<1> DEFINE p == Dots(k) \o name
           t == trim_start_dots(p)
<1>1. /\ p \in Seq(Words) /\ Len(p) = k + Len(name)
      /\ \A j \in 1 .. k : p[j] = "."
      /\ \A j \in 1 .. Len(name) : p[k + j] = name[j]
  BY AfterDots
<1>2. Len(name) \in Nat /\ 1 <= Len(name)
  OBVIOUS
<1> HIDE DEF p, Words
<1>3. PICK c \in 0 .. Len(p) :
          /\ \A j \in 1 .. c : p[j] = "."
          /\ c < Len(p) => p[c + 1] # "."
          /\ t \in Seq(Words) /\ Len(t) = Len(p) - c
          /\ \A j \in 1 .. Len(p) - c : t[j] = p[c + j]
  BY <1>1, Trimmed
<1> HIDE DEF t
<1>4. ~(c < k)
  <2> SUFFICES ASSUME c < k PROVE FALSE
    OBVIOUS
  <2>1. c + 1 \in 1 .. k /\ c < Len(p)
    BY <1>1, <1>2
  <2> QED
    BY <1>1, <1>3, <2>1
<1>5. ~(k < c)
  <2> SUFFICES ASSUME k < c PROVE FALSE
    OBVIOUS
  <2>1. k + 1 \in 1 .. c /\ 1 \in 1 .. Len(name)
    BY <1>1, <1>2
  <2>2. p[k + 1] = "." /\ p[k + 1] = name[1]
    BY <1>1, <1>3, <2>1
  <2> QED
    BY <2>2
<1>6. c = k
  BY <1>4, <1>5
<1>7. Len(t) = Len(name) /\ \A j \in 1 .. Len(name) : t[j] = name[j]
  <2>1. Len(p) - c = Len(name)
    BY <1>1, <1>2, <1>6
  <2> QED
    BY <1>1, <1>3, <1>6, <2>1
<1>8. t = name
  BY <1>3, <1>7, SeqEqual
<1> QED
  BY <1>8 DEF t, p

\* The last two tokens of a text that ends with two.
LEMMA EndsWithTwo ==
    ASSUME NEW t \in Seq(Words), NEW a \in Words, NEW b \in Words
    PROVE  IsSuffix(<<a, b>>, t) <=>
               2 <= Len(t) /\ t[Len(t) - 1] = a /\ t[Len(t)] = b
<1> DEFINE s == <<a, b>>
           m == Len(t)
<1>1. s \in Seq(Words) /\ Len(s) = 2 /\ s[1] = a /\ s[2] = b
  BY TwoTokens
<1>2. m \in Nat
  OBVIOUS
<1> HIDE DEF s
<1>3. IsSuffix(s, t) <=> 2 <= m /\ \A j \in 1 .. 2 : s[j] = t[m - 2 + j]
  <2>1. IsSuffix(s, t) <=> Len(s) <= m /\ \A j \in 1 .. Len(s) : s[j] = t[m - Len(s) + j]
    BY <1>1, SuffixAt
  <2>2. Len(s) = 2
    BY <1>1
  <2> QED
    BY <2>1, <2>2
<1>4. (\A j \in 1 .. 2 : s[j] = t[m - 2 + j]) <=> s[1] = t[m - 1] /\ s[2] = t[m]
  <2>1. 1 \in 1 .. 2 /\ 2 \in 1 .. 2 /\ m - 2 + 1 = m - 1 /\ m - 2 + 2 = m
    BY <1>2
  <2>2. \A j \in 1 .. 2 : j = 1 \/ j = 2
    OBVIOUS
  <2>3. ASSUME \A j \in 1 .. 2 : s[j] = t[m - 2 + j] PROVE s[1] = t[m - 1] /\ s[2] = t[m]
    <3>1. s[1] = t[m - 2 + 1] /\ s[2] = t[m - 2 + 2]
      BY <2>1, <2>3
    <3> QED
      BY <2>1, <3>1
  <2>4. ASSUME s[1] = t[m - 1], s[2] = t[m], NEW j \in 1 .. 2 PROVE s[j] = t[m - 2 + j]
    BY <2>1, <2>2, <2>4
  <2> QED
    BY <2>3, <2>4
<1>5. IsSuffix(s, t) <=> 2 <= m /\ t[m - 1] = a /\ t[m] = b
  BY <1>1, <1>3, <1>4
<1> QED
  BY <1>5 DEF s

\* A name without a port does not end as if it had one.
LEMMA NoPort ==
    ASSUME NEW k \in Nat, NEW name \in Seq(Words), Nameable(name)
    PROVE  ~ends_in_number(Dots(k) \o name)
<1> SUFFICES ASSUME NEW number \in Numerals, IsSuffix(<<":", number>>, Dots(k) \o name)
             PROVE  FALSE
  BY DEF ends_in_number
<1> DEFINE p == Dots(k) \o name
           n == Len(name)
<1>1. /\ p \in Seq(Words) /\ Len(p) = k + n
      /\ \A j \in 1 .. k : p[j] = "."
      /\ \A j \in 1 .. n : p[k + j] = name[j]
  BY AfterDots
<1>2. n \in Nat /\ 1 <= n
  BY DEF Nameable
<1>3. ":" \in Words /\ number \in Words
  BY DEF Words
<1>4. IsSuffix(<<":", number>>, p)
  OBVIOUS
<1> HIDE DEF p, Words
<1>5. 2 <= Len(p) /\ p[Len(p) - 1] = ":" /\ p[Len(p)] = number
  BY <1>1, <1>3, <1>4, EndsWithTwo
<1>6. p[Len(p)] = name[n]
  <2>1. n \in 1 .. n
    BY <1>2
  <2> QED
    BY <1>1, <2>1
<1>7. number # "]"
  BY NumeralAssumption
<1>8. CASE n = 1
  <2>1. Len(p) - 1 \in 1 .. k
    BY <1>1, <1>2, <1>5, <1>8
  <2>2. p[Len(p) - 1] = "."
    BY <1>1, <2>1
  <2> QED
    BY <1>5, <2>2
<1>9. CASE n # 1
  <2>1. n - 1 \in 1 .. n /\ k + (n - 1) = Len(p) - 1
    <3>1. Len(p) = k + n
      BY <1>1
    <3> HIDE DEF n
    <3> QED
      BY <1>2, <1>9, <3>1
  <2>2. p[k + (n - 1)] = name[n - 1]
    BY <1>1, <2>1
  <2>3. name[n - 1] = ":"
    BY <1>5, <2>1, <2>2
  <2>4. name[n] = "]"
    BY <2>1, <2>3 DEF Nameable
  <2> QED
    BY <1>5, <1>6, <1>7, <2>4
<1> QED
  BY <1>8, <1>9

\* The end of a text with a port is that port, and the rest is the text without it.
LEMMA PortEnds ==
    ASSUME NEW t \in Seq(Words), NEW number \in Numerals, NEW q \in Numerals
    PROVE  /\ t \o <<":", number>> \in Seq(Words)
           /\ Len(t \o <<":", number>>) = Len(t) + 2
           /\ IsSuffix(<<":", q>>, t \o <<":", number>>) <=> q = number
           /\ Without(t \o <<":", number>>, <<":", number>>) = t
<1> DEFINE s == <<":", number>>
           e == t \o s
           n == Len(t)
<1>1. ":" \in Words /\ number \in Words /\ q \in Words
  BY DEF Words
<1> HIDE DEF Words
<1>2. s \in Seq(Words) /\ Len(s) = 2 /\ s[1] = ":" /\ s[2] = number
  BY <1>1, TwoTokens
<1>3. n \in Nat
  OBVIOUS
<1> HIDE DEF s
<1>4. /\ e \in Seq(Words) /\ Len(e) = n + 2
      /\ \A j \in 1 .. n : e[j] = t[j]
      /\ \A j \in 1 .. Len(s) : e[n + j] = s[j]
  <2>1. /\ e \in Seq(Words) /\ Len(e) = Len(t) + Len(s)
        /\ \A i \in 1 .. Len(t) + Len(s) :
               e[i] = IF i <= Len(t) THEN t[i] ELSE s[i - Len(t)]
    BY <1>2, ConcatProperties
  <2> HIDE DEF e
  <2>2. \A j \in 1 .. n : e[j] = t[j]
    <3>1. \A j \in 1 .. n : j \in 1 .. n + Len(s) /\ j <= n
      BY <1>2, <1>3
    <3> QED
      BY <2>1, <3>1
  <2>3. ASSUME NEW j \in 1 .. Len(s) PROVE e[n + j] = s[j]
    <3>1. n + j \in 1 .. n + Len(s) /\ ~(n + j <= n) /\ n + j - n = j
      BY <1>2, <1>3
    <3> QED
      BY <2>1, <3>1
  <2> QED
    BY <1>2, <2>1, <2>2, <2>3
<1> HIDE DEF e
<1>5. e[Len(e) - 1] = ":" /\ e[Len(e)] = number /\ 2 <= Len(e)
  <2>1. 1 \in 1 .. Len(s) /\ 2 \in 1 .. Len(s) /\ Len(e) - 1 = n + 1
    BY <1>2, <1>3, <1>4
  <2>2. e[n + 1] = s[1] /\ e[n + 2] = s[2]
    BY <1>4, <2>1
  <2> QED
    BY <1>2, <1>3, <1>4, <2>1, <2>2
<1>6. IsSuffix(<<":", q>>, e) <=> q = number
  <2>1. IsSuffix(<<":", q>>, e) <=> 2 <= Len(e) /\ e[Len(e) - 1] = ":" /\ e[Len(e)] = q
    BY <1>1, <1>4, EndsWithTwo
  <2> QED
    BY <1>5, <2>1
<1>7. Without(e, s) = t
  <2>1. Len(s) <= Len(e) /\ Len(e) - Len(s) = n
    BY <1>2, <1>3, <1>4
  <2> DEFINE w == Without(e, s)
  <2>2. /\ w \in Seq(Words) /\ Len(w) = Len(e) - Len(s)
        /\ \A j \in 1 .. Len(e) - Len(s) : w[j] = e[j]
    BY <1>2, <1>4, <2>1, WithoutTokens
  <2> HIDE DEF w
  <2>3. Len(w) = n /\ \A j \in 1 .. n : w[j] = t[j]
    BY <1>4, <2>1, <2>2
  <2>4. w = t
    BY <2>2, <2>3, SeqEqual
  <2> QED
    BY <2>4 DEF w
<1> QED
  BY <1>4, <1>6, <1>7 DEF e, s

\* An entry with a host is applied where the host is named, unless it has another port.
LEMMA HostMatches ==
    ASSUME NEW k \in Nat, NEW name \in Seq(Words), Nameable(name), NEW end,
           end \in {<<>>} \cup {<<":", number>> : number \in Numerals},
           NEW host \in Seq(Words), NEW port, ToString(port) \in Numerals
    PROVE  entry_matches(Dots(k) \o name \o end, host, port) <=>
               Names(name, host) /\ end \in {<<>>, port_suffix(port)}
<1> DEFINE p == Dots(k) \o name
           q == ToString(port)
<1>1. /\ p \in Seq(Words) /\ Len(p) = k + Len(name)
      /\ \A j \in 1 .. k : p[j] = "."
      /\ \A j \in 1 .. Len(name) : p[k + j] = name[j]
  BY AfterDots
<1>2. Len(name) \in Nat /\ 1 <= Len(name)
  BY DEF Nameable
<1>3. ~ends_in_number(p)
  BY NoPort
<1>4. trim_start_dots(p) = name
  BY DotsCut DEF Nameable
<1>5. p # <<"*">>
  <2> SUFFICES ASSUME p = <<"*">> PROVE FALSE
    OBVIOUS
  <2>1. Len(p) = 1 /\ p[1] = "*"
    OBVIOUS
  <2> HIDE DEF p
  <2>2. k = 0 /\ k + 1 = 1 /\ 1 \in 1 .. Len(name)
    BY <1>1, <1>2, <2>1
  <2>3. p[k + 1] = name[1]
    BY <1>1, <2>2
  <2> QED
    BY <2>1, <2>2, <2>3 DEF Nameable
<1>6. p # <<>>
  <2>1. Len(p) # 0
    BY <1>1, <1>2
  <2> HIDE DEF p
  <2> QED
    BY <2>1
<1>7. names_host(name, host) <=> Names(name, host)
  BY DEF names_host, Names
<1> HIDE DEF p
<1>8. CASE end = <<>>
  <2>1. p \o end = p
    BY <1>1, <1>8
  <2>2. ~IsSuffix(port_suffix(port), p)
    BY <1>3 DEF ends_in_number, port_suffix
  <2>3. entry_matches(p, host, port) <=> names_host(trim_start_dots(p), host)
    BY <1>3, <1>5, <1>6, <2>2 DEF entry_matches
  <2>4. end \in {<<>>, port_suffix(port)}
    BY <1>8
  <2> QED
    BY <1>4, <1>7, <2>1, <2>3, <2>4 DEF p
<1>9. CASE \E number \in Numerals : end = <<":", number>>
  <2>1. PICK number \in Numerals : end = <<":", number>>
    BY <1>9
  <2> DEFINE e == p \o <<":", number>>
  <2>2. /\ e \in Seq(Words) /\ Len(e) = Len(p) + 2
        /\ IsSuffix(<<":", q>>, e) <=> q = number
        /\ IsSuffix(<<":", number>>, e) <=> number = number
        /\ Without(e, <<":", number>>) = p
    BY <1>1, PortEnds
  <2>3. e # <<>> /\ e # <<"*">>
    <3>1. Len(e) # 0 /\ Len(e) # 1
      BY <1>1, <1>2, <2>2
    <3> HIDE DEF e
    <3>2. Len(<<"*">>) = 1
      OBVIOUS
    <3> QED
      BY <3>1, <3>2
  <2> HIDE DEF e
  <2>4. ends_in_number(e)
    BY <2>2 DEF ends_in_number
  <2>5. CASE q = number
    <3>1. port_suffix(port) = <<":", number>>
      BY <2>5 DEF port_suffix
    <3>2. entry_matches(e, host, port) <=> names_host(trim_start_dots(Without(e, <<":", number>>)), host)
      BY <2>2, <2>3, <3>1 DEF entry_matches
    <3>3. entry_matches(e, host, port) <=> Names(name, host)
      BY <1>4, <1>7, <2>2, <3>2
    <3> QED
      BY <2>1, <3>1, <3>3 DEF e, p
  <2>6. CASE q # number
    <3>1. ~IsSuffix(port_suffix(port), e)
      BY <2>2, <2>6 DEF port_suffix
    <3>2. ~entry_matches(e, host, port)
      BY <2>3, <2>4, <3>1 DEF entry_matches
    <3>3. end # <<>> /\ end # port_suffix(port)
      <4>1. end[2] = number /\ Len(end) = 2
        BY <2>1
      <4>2. port_suffix(port)[2] = q
        BY DEF port_suffix
      <4>3. end # <<>>
        BY <2>1
      <4>4. end # port_suffix(port)
        BY <2>6, <4>1, <4>2
      <4> QED
        BY <4>3, <4>4
    <3> QED
      BY <2>1, <3>2, <3>3 DEF e, p
  <2> QED
    BY <2>5, <2>6
<1> QED
  BY <1>8, <1>9

\* A pattern with a colon that does not end with a bracket names no host.
LEMMA ColonNamesNone ==
    ASSUME NEW p \in Seq(Words), NEW host \in Seq(Words),
           \A j \in 1 .. Len(host) : host[j] = ":" => host[Len(host)] = "]",
           NEW i \in 1 .. Len(p), p[i] = ":", p[Len(p)] # "]", p[1] # "."
    PROVE  ~names_host(trim_start_dots(p), host)
<1> DEFINE n == Len(p)
           h == Len(host)
           d == <<".">> \o p
<1>1. n \in Nat /\ h \in Nat /\ 1 <= n /\ n \in 1 .. n
  OBVIOUS
<1>2. trim_start_dots(p) = p
  <2>1. Dots(0) = <<>>
    BY DEF Dots
  <2>2. <<>> \o p = p
    OBVIOUS
  <2>3. p # <<>>
    BY <1>1
  <2> QED
    BY <2>1, <2>2, <2>3, DotsCut
<1>3. host # p
  BY <1>1
<1>4. ~IsSuffix(d, host)
  <2> SUFFICES ASSUME IsSuffix(d, host) PROVE FALSE
    OBVIOUS
  <2>1. "." \in Words
    BY DEF Words
  <2> HIDE DEF Words
  <2>2. /\ d \in Seq(Words) /\ Len(d) = n + 1
        /\ \A j \in 1 .. n : d[1 + j] = p[j]
    <3>1. <<".">> \in Seq(Words) /\ Len(<<".">>) = 1
      BY <2>1
    <3> QED
      BY <3>1
  <2> HIDE DEF d
  <2>3. n + 1 <= h /\ \A j \in 1 .. n + 1 : d[j] = host[h - (n + 1) + j]
    BY <2>2, SuffixAt
  <2>4. 1 + n \in 1 .. n + 1 /\ 1 + i \in 1 .. n + 1 /\ h - (n + 1) + (1 + n) = h
        /\ h - (n + 1) + (1 + i) \in 1 .. h
    BY <1>1, <2>3
  <2>5. d[1 + n] = p[n] /\ d[1 + i] = p[i]
    BY <1>1, <2>2
  <2>6. host[h - (n + 1) + (1 + n)] = p[n] /\ host[h - (n + 1) + (1 + i)] = ":"
    BY <2>3, <2>4, <2>5
  <2> QED
    BY <2>4, <2>6
<1> QED
  BY <1>2, <1>3, <1>4 DEF names_host

\* An IPv6 literal without brackets is never applied, whatever its tail is taken for.
LEMMA LiteralMatchesNone ==
    ASSUME NEW name \in Seq(Words), is_ipv6(name), NEW host \in Seq(Words), NEW port,
           \A j \in 1 .. Len(host) : host[j] = ":" => host[Len(host)] = "]",
           ToString(port) \in Numerals
    PROVE  ~entry_matches(name, host, port)
<1> DEFINE n == Len(name)
           q == ToString(port)
<1>1. n \in Nat /\ 1 <= n /\ name[1] # "."
  BY DEF is_ipv6
<1>2. \A j \in 1 .. n : name[j] # "]" /\ name[j] # "*"
  BY DEF is_ipv6, ToSet
<1>3. PICK i \in 1 .. n, j \in 1 .. n : i < j /\ name[i] = ":" /\ name[j] = ":"
  BY DEF is_ipv6
<1>4. name # <<"*">>
  <2> SUFFICES ASSUME name = <<"*">> PROVE FALSE
    OBVIOUS
  <2>1. n = 1
    OBVIOUS
  <2> QED
    BY <1>3, <2>1
<1>5. CASE IsSuffix(port_suffix(port), name)
  <2>1. ":" \in Words /\ q \in Words
    BY DEF Words
  <2> DEFINE s == <<":", q>>
             w == Without(name, s)
  <2>2. s \in Seq(Words) /\ Len(s) = 2
    BY <2>1, TwoTokens
  <2>3. 2 <= n /\ name[n] = q
    BY <1>5, <2>1, EndsWithTwo DEF port_suffix
  <2>4. q # ":"
    BY NumeralAssumption
  <2>5. j # n /\ i \in 1 .. n - 2
    BY <1>1, <1>3, <2>3, <2>4
  <2> HIDE DEF s, Words
  <2>6. /\ w \in Seq(Words) /\ Len(w) = n - 2 /\ \A x \in 1 .. n - 2 : w[x] = name[x]
    <3>1. Len(s) <= n
      BY <2>2, <2>3
    <3>2. /\ w \in Seq(Words) /\ Len(w) = n - Len(s) /\ \A x \in 1 .. n - Len(s) : w[x] = name[x]
      BY <2>2, <3>1, WithoutTokens
    <3>3. Len(s) = 2
      BY <2>2
    <3> QED
      BY <3>2, <3>3
  <2> HIDE DEF w
  <2>7. 1 \in 1 .. n - 2 /\ n - 2 \in 1 .. n - 2 /\ n - 2 \in 1 .. n
    BY <1>1, <2>5
  <2>8. i \in 1 .. Len(w) /\ w[i] = ":" /\ w[Len(w)] # "]" /\ w[1] # "."
    BY <1>1, <1>2, <1>3, <2>5, <2>6, <2>7
  <2>9. ~names_host(trim_start_dots(w), host)
    BY <2>6, <2>8, ColonNamesNone
  <2> QED
    BY <1>4, <1>5, <2>9 DEF entry_matches, w, s, port_suffix
<1>6. CASE ~IsSuffix(port_suffix(port), name)
  <2>1. name[n] # "]"
    BY <1>1, <1>2
  <2>2. ~names_host(trim_start_dots(name), host)
    BY <1>1, <1>3, <2>1, ColonNamesNone
  <2> QED
    BY <1>4, <1>6, <2>2 DEF entry_matches
<1> QED
  BY <1>5, <1>6

\* What is settled before the resolver is asked: whether the connection is to be direct is
\* read from options that were merged from the spec file and the flags.
BypassInv ==
    /\ request \in Requests
    /\ pc \notin {"overrides", "refused"} => (options.disable_proxy <=> Asked("disable_proxy"))
    /\ pc \in {"overrides", "validate", "target", "proxy"} => destination = <<>>
    /\ BypassAsAsked

\* The merged options of a request say to connect directly exactly when the spec file or
\* the flag does.
LEMMA DirectAsAsked ==
    ASSUME NEW r \in Requests
    PROVE  apply_overrides(options_of_spec(r.spec), r.flags).disable_proxy
               <=> ("disable_proxy" \in DOMAIN r.spec /\ r.spec["disable_proxy"])
                       \/ r.flags["disable_proxy"]
<1>1. \A d : apply_overrides(d, r.flags).disable_proxy
                 = (d.disable_proxy \/ r.flags.disable_proxy)
  BY DEF apply_overrides
<1>2. options_of_spec(r.spec).disable_proxy
          = IF "disable_proxy" \in DOMAIN r.spec THEN r.spec["disable_proxy"] ELSE FALSE
  <2>1. "disable_proxy" \in DOMAIN DefaultOptions /\ DefaultOptions["disable_proxy"] = FALSE
    BY DEF DefaultOptions
  <2>2. options_of_spec(r.spec)["disable_proxy"]
            = IF "disable_proxy" \in DOMAIN r.spec THEN r.spec["disable_proxy"]
              ELSE DefaultOptions["disable_proxy"]
    BY <2>1 DEF options_of_spec
  <2> QED
    BY <2>1, <2>2
<1> QED
  BY <1>1, <1>2

\* Sequences of strings are sequences of tokens.
LEMMA TokensOfText ==
    ASSUME NEW s \in Seq(STRING)
    PROVE  s \in Seq(Words)
<1>1. \A w \in STRING : w \in Words
  BY DEF Words
<1>2. Len(s) \in Nat /\ s \in [1 .. Len(s) -> STRING]
  BY LenProperties
<1>3. s \in [1 .. Len(s) -> Words]
  <2> HIDE DEF Words
  <2> QED
    BY <1>1, <1>2
<1> HIDE DEF Words
<1> QED
  BY <1>2, <1>3, SeqDef

\* The names of hosts are of the form their entries are read by.
LEMMA HostNameable ==
    ASSUME NEW name \in Seq(STRING), is_domain(name) \/ is_ipv4(name) \/ is_bracketed(name)
    PROVE  Nameable(name)
<1>1. Len(name) \in Nat
  OBVIOUS
<1>2. CASE is_domain(name)
  <2>1. \A j \in 1 .. Len(name) : name[j] # ":" /\ name[j] # "*"
    BY <1>2 DEF is_domain, ToSet
  <2>2. name # <<>> /\ name[1] # "."
    BY <1>2 DEF is_domain
  <2>3. 1 \in 1 .. Len(name)
    BY <1>1, <2>2
  <2> QED
    BY <2>1, <2>2, <2>3 DEF Nameable
<1>3. CASE is_ipv4(name)
  <2>1. Len(name) = 7 /\ name # <<>>
    <3>1. Len(name) = 7
      BY <1>3 DEF is_ipv4
    <3>2. name = <<>> => Len(name) = 0
      OBVIOUS
    <3> QED
      BY <3>1, <3>2
  <2>2. \A j \in 1 .. 7 : name[j] = "." \/ name[j] \in Numerals
    BY <1>3 DEF is_ipv4
  <2>3. \A j \in 1 .. 7 : name[j] # ":"
    BY <2>2, NumeralAssumption
  <2>4. name[1] \in Numerals
    <3>1. 1 \in 1 .. 7 /\ 1 % 2 # 0
      OBVIOUS
    <3> QED
      BY <1>3, <3>1 DEF is_ipv4
  <2>5. name[1] # "." /\ name[1] # "*"
    BY <2>4, NumeralAssumption
  <2> QED
    BY <2>1, <2>3, <2>5 DEF Nameable
<1>4. CASE is_bracketed(name)
  <2>1. Len(name) > 2 /\ name[1] = "[" /\ name[Len(name)] = "]"
    BY <1>4 DEF is_bracketed
  <2>2. name # <<>>
    BY <2>1
  <2> QED
    BY <2>1, <2>2 DEF Nameable
<1> QED
  BY <1>2, <1>3, <1>4

\* What the entries that a request may have do to its host: each is applied where it asks
\* to be, but for the IPv6 literals, which are applied nowhere.
LEMMA RequestMatches ==
    ASSUME NEW r \in Requests, NEW e \in r.no_proxy
    PROVE  entry_matches(text_of(e), r.target.host, r.target.port)
               <=> e.form # "literal" /\ AsksFor(e, r.target.host, r.target.port)
<1> DEFINE host == r.target.host
           port == r.target.port
<1>1. /\ is_entry(e) /\ host \in Seq(STRING) /\ ToString(port) \in Numerals
      /\ ":" \in ToSet(host) => host[Len(host)] = "]"
  BY RequestAssumption DEF Target
<1>2. host \in Seq(Words)
  BY <1>1, TokensOfText
<1>3. \A j \in 1 .. Len(host) : host[j] = ":" => host[Len(host)] = "]"
  BY <1>1 DEF ToSet
<1>4. e.name \in Seq(STRING) /\ e.form \in {"blank", "all", "host", "literal"}
  BY <1>1 DEF is_entry
<1>5. e.name \in Seq(Words)
  BY <1>4, TokensOfText
<1> HIDE DEF host, port
<1>6. CASE e.form = "blank"
  <2>1. text_of(e) = <<>> /\ ~AsksFor(e, host, port)
    BY <1>6 DEF text_of, AsksFor
  <2>2. <<>> # <<"*">>
    OBVIOUS
  <2>3. ~entry_matches(<<>>, host, port)
    BY <2>2 DEF entry_matches
  <2> QED
    BY <2>1, <2>3 DEF host, port
<1>7. CASE e.form = "all"
  <2>1. text_of(e) = <<"*">> /\ AsksFor(e, host, port)
    BY <1>7 DEF text_of, AsksFor
  <2>2. entry_matches(<<"*">>, host, port)
    BY DEF entry_matches
  <2> QED
    BY <1>7, <2>1, <2>2 DEF host, port
<1>8. CASE e.form = "literal"
  <2>1. text_of(e) = e.name
    BY <1>8 DEF text_of
  <2>2. is_ipv6(e.name)
    BY <1>1, <1>8 DEF is_entry
  <2>3. ~entry_matches(e.name, host, port)
    BY <1>1, <1>2, <1>3, <1>5, <2>2, LiteralMatchesNone
  <2> QED
    BY <1>8, <2>1, <2>3 DEF host, port
<1>9. CASE e.form = "host"
  <2>1. text_of(e) = Dots(e.dots) \o e.name \o e.port
    BY <1>9 DEF text_of, Dots
  <2>2. /\ e.dots \in Nat
        /\ e.port \in {<<>>} \cup {<<":", number>> : number \in Numerals}
        /\ is_domain(e.name) \/ is_ipv4(e.name) \/ is_bracketed(e.name)
    BY <1>1, <1>9 DEF is_entry
  <2>3. Nameable(e.name)
    BY <1>4, <2>2, HostNameable
  <2>4. entry_matches(Dots(e.dots) \o e.name \o e.port, host, port) <=>
            Names(e.name, host) /\ e.port \in {<<>>, port_suffix(port)}
    BY <1>1, <1>2, <1>5, <2>2, <2>3, HostMatches
  <2>5. AsksFor(e, host, port) <=> Names(e.name, host) /\ e.port \in {<<>>, port_suffix(port)}
    BY <1>9 DEF AsksFor
  <2> QED
    BY <1>9, <2>1, <2>4, <2>5 DEF host, port
<1> QED
  BY <1>4, <1>6, <1>7, <1>8, <1>9

LEMMA BypassInit == Init => BypassInv
<1> SUFFICES ASSUME Init PROVE BypassInv
  OBVIOUS
<1> QED
  BY DEF Init, BypassInv, BypassAsAsked

LEMMA BypassKept ==
    ASSUME BypassInv, UNCHANGED <<request, options, destination>>,
           pc' \in {"overrides", "validate", "target", "proxy"} =>
               pc \in {"overrides", "validate", "target", "proxy"},
           pc' \notin {"overrides", "refused"} => pc \notin {"overrides", "refused"}
    PROVE  BypassInv'
  BY DEF BypassInv, BypassAsAsked, Asked, target

LEMMA BypassStep == BypassInv /\ [Next]_vars => BypassInv'
<1> SUFFICES ASSUME BypassInv, [Next]_vars PROVE BypassInv'
  OBVIOUS
<1>1. CASE RefuseBudget
  BY <1>1, BypassKept DEF RefuseBudget, Refuse
<1>2. CASE ApplyOverrides
  <2>1. options' = apply_overrides(options_of_spec(request.spec), request.flags)
    BY <1>2 DEF ApplyOverrides
  <2>2. options'.disable_proxy <=> Asked("disable_proxy")
    BY <2>1, DirectAsAsked DEF BypassInv, Asked
  <2>3. /\ pc = "overrides" /\ pc' = "validate" /\ UNCHANGED <<request, destination>>
    BY <1>2 DEF ApplyOverrides
  <2>4. destination = <<>>
    BY <2>3 DEF BypassInv
  <2> QED
    BY <2>2, <2>3, <2>4 DEF BypassInv, BypassAsAsked, Asked
<1>3. CASE RefuseOptions
  BY <1>3, BypassKept DEF RefuseOptions, Refuse
<1>4. CASE AcceptOptions
  BY <1>4, BypassKept DEF AcceptOptions
<1>5. CASE RefuseTarget
  BY <1>5, BypassKept DEF RefuseTarget, Refuse
<1>6. CASE AcceptTarget
  BY <1>6, BypassKept DEF AcceptTarget
<1>7. CASE SelectProxy
  <2>1. /\ pc = "proxy" /\ pc' = "resolve" /\ UNCHANGED <<request, options>>
        /\ destination' =
               IF bypassed \/ ~request.proxied THEN socket_destination(target.host, target.port)
               ELSE socket_destination(ProxyHost, ProxyPort)
    BY <1>7 DEF SelectProxy
  <2>2. bypassed <=> \/ Asked("disable_proxy")
                     \/ \E e \in request.no_proxy :
                            e.form # "literal" /\ AsksFor(e, target.host, target.port)
    <3>1. options.disable_proxy <=> Asked("disable_proxy")
      BY <2>1 DEF BypassInv
    <3>2. \A e \in request.no_proxy :
              entry_matches(text_of(e), target.host, target.port)
                  <=> e.form # "literal" /\ AsksFor(e, target.host, target.port)
      BY RequestMatches DEF BypassInv, target
    <3>3. text_matches({text_of(e) : e \in request.no_proxy}, target.host, target.port)
              <=> \E e \in request.no_proxy :
                      entry_matches(text_of(e), target.host, target.port)
      BY DEF text_matches
    <3> QED
      BY <3>1, <3>2, <3>3 DEF bypassed
  <2>3. BypassAsAsked'
    <3> DEFINE mine   == socket_destination(target.host, target.port)
               theirs == socket_destination(ProxyHost, ProxyPort)
    <3>1. request.proxied =>
              /\ destination' = IF bypassed THEN mine ELSE theirs
      BY <2>1
    <3>2. target' = target /\ request' = request
      BY <2>1 DEF target
    <3> HIDE DEF mine, theirs
    <3> QED
      BY <2>2, <3>1, <3>2 DEF BypassAsAsked, Asked, target, mine, theirs
  <2> QED
    BY <2>1, <2>3 DEF BypassInv, Asked
<1>8. CASE Resolve
  BY <1>8, BypassKept DEF Resolve, Refuse
<1>9. CASE \E response \in HttpResponses : Respond(response)
  BY <1>9, BypassKept DEF Respond
<1>10. CASE UNCHANGED vars
  BY <1>10, BypassKept DEF vars
<1> QED
  BY <1>1, <1>2, <1>3, <1>4, <1>5, <1>6, <1>7, <1>8, <1>9, <1>10 DEF Next, Decided

\* Whatever the host, the port and the entries of NO_PROXY are, a proxy that is set is
\* passed by exactly when an option or an entry asks for it.
THEOREM ProxyBypassedAsAsked == Spec => []BypassAsAsked
<1>1. BypassInv => BypassAsAsked
  BY DEF BypassInv
<1> QED
  BY <1>1, BypassInit, BypassStep, PTL DEF Spec
=============================================================================
