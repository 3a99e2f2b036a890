--------------------------- MODULE EndpointProofs ---------------------------
(***************************************************************************)
(* Which endpoint a request goes to, when calls end, and how many there    *)
(* are: what holds of every inspection, whatever the resolver, the servers *)
(* and the clock do.                                                       *)
(***************************************************************************)
EXTENDS EngineProofs, FiniteSetTheorems

-----------------------------------------------------------------------------
(* The endpoint of a hop                                                   *)

\* The steps made for an endpoint once its proxy is selected, and those of them that
\* come after its lookup began.
AfterLookup == {"dns_wait", "tcp"} \cup UsesSelected
AfterProxy == {"dns", "dns_start"} \cup AfterLookup

\* What makes PinnedToThisHop inductive: the endpoint is the one the policy selects for
\* the current URL, the lookup was made for it, and the addresses still to be tried and
\* the one in use are answers of that lookup.
EndpointInv ==
    /\ pc \in {"begin", "proxy"} => current = target
    /\ pc \in {"proxy"} \cup AfterProxy => parse_target(current) = ""
    /\ pc \in AfterProxy => proxy = resolve_proxy(env, current, options)
    /\ pc \in AfterLookup => lookup.host = proxy.connect_host
    /\ pc \in {"tcp", "tcp_start", "tcp_cap", "tcp_dial", "tcp_wait"} => todo \subseteq lookup.answer
    /\ pc \in UsesSelected => selected \in lookup.answer

LEMMA EndpointStep == EndpointInv /\ [Next]_vars => EndpointInv'
<1> SUFFICES ASSUME EndpointInv, [Next]_vars PROVE EndpointInv'
  OBVIOUS
<1> USE DEF AfterProxy, AfterLookup, UsesSelected, Probing, Granted, Begun
<1>1. CASE RejectInput
  BY <1>1 DEF RejectInput, EndpointInv, inputVars, addrVars, hopVars
<1>2. CASE AcceptInput
  <2>1. parse_target(target) = ""
    BY <1>2 DEF AcceptInput, input_error
  <2> QED
    BY <1>2, <2>1 DEF AcceptInput, Push, EndpointInv, inputVars, addrVars, hopVars
<1>3. CASE RejectProxy
  BY <1>3 DEF RejectProxy, EndpointInv, inputVars, addrVars, hopVars
<1>4. CASE SelectProxy
  BY <1>4 DEF SelectProxy, Push, EndpointInv, inputVars, addrVars, hopVars
<1>5. CASE DnsBudget
  BY <1>5 DEF DnsBudget, ResolveFailed, FinishHttp, Fail, Push, EndpointInv, inputVars, addrVars, hopVars
<1>6. CASE DnsStart
  BY <1>6 DEF DnsStart, EndpointInv, inputVars, addrVars, hopVars
<1>7. CASE DnsError
  BY <1>7 DEF DnsError, ResolveFailed, FinishHttp, Fail, Push, EndpointInv, inputVars, addrVars, hopVars
<1>8. CASE TcpExhausted
  BY <1>8 DEF TcpExhausted, Fail, Push, EndpointInv, inputVars, addrVars, hopVars
<1>9. CASE TcpBudget
  BY <1>9 DEF TcpBudget, Fail, Push, EndpointInv, inputVars, addrVars, hopVars
<1>10. CASE TcpStart
  BY <1>10 DEF TcpStart, EndpointInv, inputVars, addrVars, hopVars
<1>11. CASE TcpLate
  BY <1>11 DEF TcpLate, Fail, Push, EndpointInv, inputVars, addrVars, hopVars
<1>12. CASE TcpDial
  BY <1>12 DEF TcpDial, EndpointInv, inputVars, addrVars, hopVars
<1>13. CASE TcpConnected
  BY <1>13 DEF TcpConnected, Push, EndpointInv, inputVars, addrVars, hopVars
<1>14. CASE TcpRefused
  BY <1>14 DEF TcpRefused, EndpointInv, inputVars, addrVars, hopVars
<1>15. CASE TlsSkipped
  BY <1>15 DEF TlsSkipped, Push, EndpointInv, inputVars, addrVars, hopVars
<1>16. CASE TlsNotObserved
  BY <1>16 DEF TlsNotObserved, Push, EndpointInv, inputVars, addrVars, hopVars
<1>17. CASE TlsBudget
  BY <1>17 DEF TlsBudget, Fail, Push, EndpointInv, inputVars, addrVars, hopVars
<1>18. CASE TlsStart
  BY <1>18 DEF TlsStart, EndpointInv, inputVars, addrVars, hopVars
<1>19. CASE TlsDial
  BY <1>19 DEF TlsDial, EndpointInv, inputVars, addrVars, hopVars
<1>20. CASE TlsLate
  BY <1>20 DEF TlsLate, Fail, Push, EndpointInv, inputVars, addrVars, hopVars
<1>21. CASE TlsUnusable
  BY <1>21 DEF TlsUnusable, Fail, Push, EndpointInv, inputVars, addrVars, hopVars
<1>22. CASE TlsConnected
  BY <1>22 DEF TlsConnected, EndpointInv, inputVars, addrVars, hopVars
<1>23. CASE TlsHandshake
  BY <1>23 DEF TlsHandshake, EndpointInv, inputVars, addrVars, hopVars
<1>24. CASE TlsFailed
  BY <1>24 DEF TlsFailed, Fail, Push, EndpointInv, inputVars, addrVars, hopVars
<1>25. CASE TlsValidated
  BY <1>25 DEF TlsValidated, Push, EndpointInv, inputVars, addrVars, hopVars
<1>26. CASE ReadProgress
  BY <1>26 DEF ReadProgress, EndpointInv, inputVars, addrVars, hopVars
<1>27. CASE HttpUnbuilt
  BY <1>27 DEF HttpUnbuilt, HttpFail, Fail, Push, EndpointInv, inputVars, addrVars, hopVars
<1>28. CASE HttpBuild
  BY <1>28 DEF HttpBuild, EndpointInv, inputVars, addrVars, hopVars
<1>29. CASE HttpBudget
  BY <1>29 DEF HttpBudget, HttpFail, Fail, Push, EndpointInv, inputVars, addrVars, hopVars
<1>30. CASE HttpSend
  BY <1>30 DEF HttpSend, EndpointInv, inputVars, addrVars, hopVars
<1>31. CASE HttpError
  BY <1>31 DEF HttpError, HttpFail, Fail, Push, EndpointInv, inputVars, addrVars, hopVars
<1>32. CASE BodyFailed
  BY <1>32 DEF BodyFailed, HttpFail, Fail, Push, EndpointInv, inputVars, addrVars, hopVars
<1>33. CASE BodyRead
  BY <1>33 DEF BodyRead, FinishHttp, EndpointInv, inputVars, addrVars, hopVars
<1>34. CASE HopDenied
  BY <1>34 DEF HopDenied, FinishHttp, EndpointInv, inputVars, addrVars, hopVars
<1>35. CASE HopAccepted
  <2>1. parse_target(current) = "" /\ pc' = "dns"
    BY <1>35 DEF HopAccepted, hop_error
  <2>2. proxy' = resolve_proxy(env, current, options)
    BY <1>35 DEF HopAccepted
  <2> QED
    BY <1>35, <2>1, <2>2 DEF HopAccepted, EndpointInv, inputVars, addrVars
<1>36. CASE Finalize
  BY <1>36 DEF Finalize, EndpointInv, inputVars, addrVars, hopVars
<1>37. CASE Tick
  BY <1>37 DEF Tick, EndpointInv, inputVars, addrVars, hopVars
<1>38. ASSUME NEW answer \in SUBSET Addresses, DnsAnswer(answer) PROVE EndpointInv'
  <2>1. permitted_addresses(answer, options) \subseteq answer
    BY PermittedAddresses
  <2>2. pc = "dns_wait" /\ lookup' = [lookup EXCEPT !.answer = answer]
    BY <1>38 DEF DnsAnswer
  <2>3. lookup'.host = lookup.host /\ lookup'.answer = answer
    BY <2>2
  <2>4. UNCHANGED <<target, options, env, current, proxy>>
    BY <1>38 DEF DnsAnswer, inputVars, hopVars
  <2>5. CASE pc' \in {"finalize"}
    BY <2>4, <2>5 DEF EndpointInv
  <2>6. CASE pc' = "tcp" /\ todo' = permitted_addresses(answer, options)
    BY <2>1, <2>2, <2>3, <2>4, <2>6 DEF EndpointInv
  <2>7. CASE pc' = "build" /\ selected' \in permitted_addresses(answer, options) /\ UNCHANGED todo
    BY <2>1, <2>2, <2>3, <2>4, <2>7 DEF EndpointInv
  <2> QED
    BY <1>38, <2>5, <2>6, <2>7 DEF DnsAnswer, ResolveFailed, FinishHttp, Fail, Push, IsLeast
<1>39. ASSUME NEW r \in Responses, HttpResponse(r) PROVE EndpointInv'
  BY <1>39 DEF HttpResponse, EndpointInv, inputVars, addrVars, hopVars
<1>40. CASE UNCHANGED vars
  BY <1>40 DEF vars, trackerVars, EndpointInv, inputVars, addrVars, hopVars
<1>41. CASE DnsGrant
  BY <1>41 DEF DnsGrant, EndpointInv, inputVars, addrVars, hopVars
<1>42. CASE TcpGrant
  BY <1>42 DEF TcpGrant, EndpointInv, inputVars, addrVars, hopVars
<1>43. CASE TcpMeasure
  BY <1>43 DEF TcpMeasure, EndpointInv, inputVars, addrVars, hopVars
<1>44. CASE TlsGrant
  BY <1>44 DEF TlsGrant, EndpointInv, inputVars, addrVars, hopVars
<1>45. CASE TlsMeasure
  BY <1>45 DEF TlsMeasure, EndpointInv, inputVars, addrVars, hopVars
<1>46. CASE HttpGrant
  BY <1>46 DEF HttpGrant, EndpointInv, inputVars, addrVars, hopVars
<1> QED
  BY
     <1>1, <1>2, <1>3, <1>4, <1>5, <1>6, <1>7, <1>8, <1>9, <1>10, <1>11, <1>12, <1>13, <1>14,
     <1>15, <1>16, <1>17, <1>18, <1>19, <1>20, <1>21, <1>22, <1>23, <1>24, <1>25, <1>26, <1>27,
     <1>28, <1>29, <1>30, <1>31, <1>32, <1>33, <1>34, <1>35, <1>36, <1>37, <1>38, <1>39, <1>40,
     <1>41, <1>42, <1>43, <1>44, <1>45, <1>46 DEF Next, Step, Terminated

\* A request, of whatever hop, is pinned to an address that was looked up for the endpoint
\* that the policy selects for the current URL, never to one of an earlier hop
\* (build_http_client, run_http).
THEOREM RequestsPinned == Spec => []PinnedToThisHop
<1>1. Init => EndpointInv
  BY DEF Init, EndpointInv, AfterProxy, AfterLookup, UsesSelected, Probing, Granted, Begun
<1>2. EndpointInv => PinnedToThisHop
  BY DEF EndpointInv, PinnedToThisHop, AfterProxy, AfterLookup, UsesSelected, Probing, Granted, Begun
<1> QED
  BY <1>1, <1>2, EndpointStep, PTL DEF Spec
-----------------------------------------------------------------------------
(* Deadlines                                                               *)

\* The steps that only a check of the budget leads to, made after the network action before
\* the coming one; those at which a timeout has been measured that is still to be spent;
\* and those at which a call is waited for by such a timeout.
Checked == Granted \cup {"tcp_cap", "tcp_dial", "tls_cap", "tls_dial"}
Capped == {"tcp_dial", "tls_dial", "http", "http_start"}
Awaiting == {"tcp_wait", "tls_connect", "http_wait"}

\* The network actions begun so far were begun before the deadline, and not in the future.
SentInTime == \A i \in 1 .. Len(wire) : wire[i].at < deadline
SentByNow == \A i \in 1 .. Len(wire) : wire[i].at <= now
AllButLastInTime == \A i \in 1 .. Len(wire) - 1 : wire[i].at < deadline

\* The timeout is a part of the budget that was left when it was measured.
SpanInBudget == op.span <= deadline - op.capped

\* What makes OverrunBounded inductive: when a check of the budget has succeeded, whatever
\* was begun before it was begun in time; and a call that is waited for ends by its timeout,
\* counted from its beginning.
CallsInv ==
    /\ SentByNow /\ AllButLastInTime
    /\ pc \in Checked => SentInTime
    /\ pc \in Capped \cup Awaiting => SpanInBudget
    /\ pc \in Awaiting => /\ wire # <<>> /\ now <= op.limit
                         /\ op.limit = wire[Len(wire)].at + op.span

\* A network action begins after a check of the budget.
LEMMA SendAfterCheck ==
    ASSUME wire \in Seq(NetworkAction), now \in Nat, SentInTime, SentByNow,
           NEW address, Send(address), UNCHANGED <<now, deadline>>
    PROVE  /\ SentByNow' /\ AllButLastInTime'
           /\ wire' # <<>> /\ wire'[Len(wire')].at = now
<1> DEFINE a == [kind |-> active'.kind, slot |-> active'.sequence, to |-> address, at |-> now]
<1>1. a.at = now
  OBVIOUS
<1>2. wire' = Append(wire, a)
  BY DEF Send
<1> HIDE DEF a
<1>3. /\ Len(wire') = Len(wire) + 1 /\ Len(wire) \in Nat
      /\ \A i \in 1 .. Len(wire) : wire'[i] = wire[i]
      /\ wire'[Len(wire) + 1] = a
  BY <1>2
<1>4. wire' # <<>> /\ wire'[Len(wire')].at = now
  BY <1>1, <1>3
<1>5. AllButLastInTime'
  BY <1>3 DEF AllButLastInTime, SentInTime
<1>6. SentByNow'
  BY <1>1, <1>3 DEF SentByNow
<1> QED
  BY <1>4, <1>5, <1>6

\* Network actions carry the instant at which they began.
LEMMA WireInstants ==
    ASSUME wire \in Seq(NetworkAction)
    PROVE  /\ \A i \in 1 .. Len(wire) : wire[i].at \in Nat
           /\ wire # <<>> => wire[Len(wire)].at \in Nat
<1>1. \A i \in 1 .. Len(wire) : wire[i] \in NetworkAction
  OBVIOUS
<1>2. \A a \in NetworkAction : a.at \in Nat
  BY DEF NetworkAction
<1>3. wire # <<>> => Len(wire) \in 1 .. Len(wire)
  OBVIOUS
<1> QED
  BY <1>1, <1>2, <1>3

\* What was begun by now was begun before a deadline that is still ahead.
LEMMA CheckedInTime ==
    ASSUME wire \in Seq(NetworkAction), now \in Nat, deadline \in Nat, now < deadline, SentByNow
    PROVE  SentInTime
<1>1. \A i \in 1 .. Len(wire) : wire[i].at \in Nat
  BY WireInstants
<1> QED
  BY <1>1 DEF SentInTime, SentByNow

\* A call waited for by a measured timeout.
LEMMA AwaitEnds ==
    ASSUME now \in Nat, op.span \in Nat, op'.span = op.span, op'.capped = op.capped,
           op'.limit = now + op.span, SpanInBudget, UNCHANGED <<now, deadline>>,
           wire'[Len(wire')].at = now
    PROVE  /\ SpanInBudget'
           /\ now' <= op'.limit /\ op'.limit = wire'[Len(wire')].at + op'.span
BY DEF SpanInBudget

LEMMA CallsStep == TypeInv /\ CallsInv /\ [Next]_vars => CallsInv'
<1> SUFFICES ASSUME TypeInv, CallsInv, [Next]_vars PROVE CallsInv'
  OBVIOUS
<1> USE DEF Checked, Capped, Awaiting, Granted
<1>0. /\ wire \in Seq(NetworkAction) /\ SentByNow /\ AllButLastInTime
      /\ TrackerTypes /\ InputTypes /\ ProgressTypes
      /\ now \in Nat /\ deadline \in Nat /\ op \in Call /\ op.span \in Nat
  BY BudgetType DEF TypeInv, TypeOK, ProgressTypes, TrackerTypes, CallsInv, Call
<1>00. CanStart => SentInTime
  <2>1. CanStart => now < deadline
    BY <1>0 DEF CanStart, HasTime, remaining
  <2> QED
    BY <1>0, <2>1, CheckedInTime
<1>1. CASE RejectInput
  <2>1. UNCHANGED <<wire, deadline, now>> /\ pc' \notin Checked \cup Capped \cup Awaiting
    BY <1>1 DEF RejectInput, trackerVars, inputVars
  <2> QED
    BY <1>0, <2>1 DEF CallsInv, SentInTime, SentByNow, AllButLastInTime
<1>2. CASE AcceptInput
  <2>1. UNCHANGED <<wire, deadline, now>> /\ pc' \notin Checked \cup Capped \cup Awaiting
    BY <1>2 DEF AcceptInput, Push, trackerVars, inputVars
  <2> QED
    BY <1>0, <2>1 DEF CallsInv, SentInTime, SentByNow, AllButLastInTime
<1>3. CASE RejectProxy
  <2>1. UNCHANGED <<wire, deadline, now>> /\ pc' \notin Checked \cup Capped \cup Awaiting
    BY <1>3 DEF RejectProxy, trackerVars, inputVars
  <2> QED
    BY <1>0, <2>1 DEF CallsInv, SentInTime, SentByNow, AllButLastInTime
<1>4. CASE SelectProxy
  <2>1. UNCHANGED <<wire, deadline, now>> /\ pc' \notin Checked \cup Capped \cup Awaiting
    BY <1>4 DEF SelectProxy, Push, trackerVars, inputVars
  <2> QED
    BY <1>0, <2>1 DEF CallsInv, SentInTime, SentByNow, AllButLastInTime
<1>5. CASE DnsBudget
  <2>1. UNCHANGED <<wire, deadline, now>> /\ pc' \notin Checked \cup Capped \cup Awaiting
    BY <1>5 DEF DnsBudget, ResolveFailed, FinishHttp, Fail, Push, trackerVars, inputVars
  <2> QED
    BY <1>0, <2>1 DEF CallsInv, SentInTime, SentByNow, AllButLastInTime
<1>6. CASE DnsError
  <2>1. UNCHANGED <<wire, deadline, now>> /\ pc' \notin Checked \cup Capped \cup Awaiting
    BY <1>6 DEF DnsError, ResolveFailed, FinishHttp, Fail, Push, trackerVars, inputVars
  <2> QED
    BY <1>0, <2>1 DEF CallsInv, SentInTime, SentByNow, AllButLastInTime
<1>7. CASE TcpExhausted
  <2>1. UNCHANGED <<wire, deadline, now>> /\ pc' \notin Checked \cup Capped \cup Awaiting
    BY <1>7 DEF TcpExhausted, Fail, Push, trackerVars, inputVars
  <2> QED
    BY <1>0, <2>1 DEF CallsInv, SentInTime, SentByNow, AllButLastInTime
<1>8. CASE TcpBudget
  <2>1. UNCHANGED <<wire, deadline, now>> /\ pc' \notin Checked \cup Capped \cup Awaiting
    BY <1>8 DEF TcpBudget, Fail, Push, trackerVars, inputVars
  <2> QED
    BY <1>0, <2>1 DEF CallsInv, SentInTime, SentByNow, AllButLastInTime
<1>9. CASE TcpStart
  <2>1. UNCHANGED <<wire, deadline, now>> /\ pc = "tcp_start" /\ pc' = "tcp_cap"
    BY <1>9 DEF TcpStart, trackerVars, inputVars
  <2> QED
    BY <1>0, <2>1 DEF CallsInv, SentInTime, SentByNow, AllButLastInTime
<1>10. CASE TcpLate
  <2>1. UNCHANGED <<wire, deadline, now>> /\ pc' \notin Checked \cup Capped \cup Awaiting
    BY <1>10 DEF TcpLate, Fail, Push, trackerVars, inputVars
  <2> QED
    BY <1>0, <2>1 DEF CallsInv, SentInTime, SentByNow, AllButLastInTime
<1>11. CASE TcpConnected
  <2>1. UNCHANGED <<wire, deadline, now>> /\ pc' \notin Checked \cup Capped \cup Awaiting
    BY <1>11 DEF TcpConnected, Push, trackerVars, inputVars
  <2> QED
    BY <1>0, <2>1 DEF CallsInv, SentInTime, SentByNow, AllButLastInTime
<1>12. CASE TcpRefused
  <2>1. UNCHANGED <<wire, deadline, now>> /\ pc' \notin Checked \cup Capped \cup Awaiting
    BY <1>12 DEF TcpRefused, trackerVars, inputVars
  <2> QED
    BY <1>0, <2>1 DEF CallsInv, SentInTime, SentByNow, AllButLastInTime
<1>13. CASE TlsSkipped
  <2>1. UNCHANGED <<wire, deadline, now>> /\ pc' \notin Checked \cup Capped \cup Awaiting
    BY <1>13 DEF TlsSkipped, Push, trackerVars, inputVars
  <2> QED
    BY <1>0, <2>1 DEF CallsInv, SentInTime, SentByNow, AllButLastInTime
<1>14. CASE TlsNotObserved
  <2>1. UNCHANGED <<wire, deadline, now>> /\ pc' \notin Checked \cup Capped \cup Awaiting
    BY <1>14 DEF TlsNotObserved, Push, trackerVars, inputVars
  <2> QED
    BY <1>0, <2>1 DEF CallsInv, SentInTime, SentByNow, AllButLastInTime
<1>15. CASE TlsBudget
  <2>1. UNCHANGED <<wire, deadline, now>> /\ pc' \notin Checked \cup Capped \cup Awaiting
    BY <1>15 DEF TlsBudget, Fail, Push, trackerVars, inputVars
  <2> QED
    BY <1>0, <2>1 DEF CallsInv, SentInTime, SentByNow, AllButLastInTime
<1>16. CASE TlsStart
  <2>1. UNCHANGED <<wire, deadline, now>> /\ pc = "tls_start" /\ pc' = "tls_cap"
    BY <1>16 DEF TlsStart, trackerVars, inputVars
  <2> QED
    BY <1>0, <2>1 DEF CallsInv, SentInTime, SentByNow, AllButLastInTime
<1>17. CASE TlsLate
  <2>1. UNCHANGED <<wire, deadline, now>> /\ pc' \notin Checked \cup Capped \cup Awaiting
    BY <1>17 DEF TlsLate, Fail, Push, trackerVars, inputVars
  <2> QED
    BY <1>0, <2>1 DEF CallsInv, SentInTime, SentByNow, AllButLastInTime
<1>18. CASE TlsUnusable
  <2>1. UNCHANGED <<wire, deadline, now>> /\ pc' \notin Checked \cup Capped \cup Awaiting
    BY <1>18 DEF TlsUnusable, Fail, Push, trackerVars, inputVars
  <2> QED
    BY <1>0, <2>1 DEF CallsInv, SentInTime, SentByNow, AllButLastInTime
<1>19. CASE TlsConnected
  <2>1. UNCHANGED <<wire, deadline, now>> /\ pc' \notin Checked \cup Capped \cup Awaiting
    BY <1>19 DEF TlsConnected, trackerVars, inputVars
  <2> QED
    BY <1>0, <2>1 DEF CallsInv, SentInTime, SentByNow, AllButLastInTime
<1>20. CASE TlsHandshake
  <2>1. UNCHANGED <<wire, deadline, now>> /\ pc' \notin Checked \cup Capped \cup Awaiting
    BY <1>20 DEF TlsHandshake, trackerVars, inputVars
  <2> QED
    BY <1>0, <2>1 DEF CallsInv, SentInTime, SentByNow, AllButLastInTime
<1>21. CASE TlsFailed
  <2>1. UNCHANGED <<wire, deadline, now>> /\ pc' \notin Checked \cup Capped \cup Awaiting
    BY <1>21 DEF TlsFailed, Fail, Push, trackerVars, inputVars
  <2> QED
    BY <1>0, <2>1 DEF CallsInv, SentInTime, SentByNow, AllButLastInTime
<1>22. CASE TlsValidated
  <2>1. UNCHANGED <<wire, deadline, now>> /\ pc' \notin Checked \cup Capped \cup Awaiting
    BY <1>22 DEF TlsValidated, Push, trackerVars, inputVars
  <2> QED
    BY <1>0, <2>1 DEF CallsInv, SentInTime, SentByNow, AllButLastInTime
<1>23. CASE ReadProgress
  <2>1. UNCHANGED <<wire, deadline, now>> /\ pc' \notin Checked \cup Capped \cup Awaiting
    BY <1>23 DEF ReadProgress, trackerVars, inputVars
  <2> QED
    BY <1>0, <2>1 DEF CallsInv, SentInTime, SentByNow, AllButLastInTime
<1>24. CASE HttpUnbuilt
  <2>1. UNCHANGED <<wire, deadline, now>> /\ pc' \notin Checked \cup Capped \cup Awaiting
    BY <1>24 DEF HttpUnbuilt, HttpFail, Fail, Push, trackerVars, inputVars
  <2> QED
    BY <1>0, <2>1 DEF CallsInv, SentInTime, SentByNow, AllButLastInTime
<1>25. CASE HttpBudget
  <2>1. UNCHANGED <<wire, deadline, now>> /\ pc' \notin Checked \cup Capped \cup Awaiting
    BY <1>25 DEF HttpBudget, HttpFail, Fail, Push, trackerVars, inputVars
  <2> QED
    BY <1>0, <2>1 DEF CallsInv, SentInTime, SentByNow, AllButLastInTime
<1>26. CASE HttpError
  <2>1. UNCHANGED <<wire, deadline, now>> /\ pc' \notin Checked \cup Capped \cup Awaiting
    BY <1>26 DEF HttpError, HttpFail, Fail, Push, trackerVars, inputVars
  <2> QED
    BY <1>0, <2>1 DEF CallsInv, SentInTime, SentByNow, AllButLastInTime
<1>27. CASE BodyFailed
  <2>1. UNCHANGED <<wire, deadline, now>> /\ pc' \notin Checked \cup Capped \cup Awaiting
    BY <1>27 DEF BodyFailed, HttpFail, Fail, Push, trackerVars, inputVars
  <2> QED
    BY <1>0, <2>1 DEF CallsInv, SentInTime, SentByNow, AllButLastInTime
<1>28. CASE BodyRead
  <2>1. UNCHANGED <<wire, deadline, now>> /\ pc' \notin Checked \cup Capped \cup Awaiting
    BY <1>28 DEF BodyRead, FinishHttp, trackerVars, inputVars
  <2> QED
    BY <1>0, <2>1 DEF CallsInv, SentInTime, SentByNow, AllButLastInTime
<1>29. CASE HopDenied
  <2>1. UNCHANGED <<wire, deadline, now>> /\ pc' \notin Checked \cup Capped \cup Awaiting
    BY <1>29 DEF HopDenied, FinishHttp, trackerVars, inputVars
  <2> QED
    BY <1>0, <2>1 DEF CallsInv, SentInTime, SentByNow, AllButLastInTime
<1>30. CASE HopAccepted
  <2>1. UNCHANGED <<wire, deadline, now>> /\ pc' \notin Checked \cup Capped \cup Awaiting
    BY <1>30 DEF HopAccepted, trackerVars, inputVars
  <2> QED
    BY <1>0, <2>1 DEF CallsInv, SentInTime, SentByNow, AllButLastInTime
<1>31. CASE Finalize
  <2>1. UNCHANGED <<wire, deadline, now>> /\ pc' \notin Checked \cup Capped \cup Awaiting
    BY <1>31 DEF Finalize, trackerVars, inputVars
  <2> QED
    BY <1>0, <2>1 DEF CallsInv, SentInTime, SentByNow, AllButLastInTime
<1>32. CASE DnsGrant
  <2>1. SentInTime /\ pc' = "dns_start" /\ UNCHANGED <<wire, deadline, now>>
    BY <1>00, <1>32 DEF DnsGrant, start_probe
  <2> QED
    BY <1>0, <2>1 DEF CallsInv, SentInTime, SentByNow, AllButLastInTime
<1>33. CASE TcpGrant
  <2>1. SentInTime /\ pc' = "tcp_start" /\ UNCHANGED <<wire, deadline, now>>
    BY <1>00, <1>33 DEF TcpGrant, start_probe
  <2> QED
    BY <1>0, <2>1 DEF CallsInv, SentInTime, SentByNow, AllButLastInTime
<1>34. CASE TlsGrant
  <2>1. SentInTime /\ pc' = "tls_start" /\ UNCHANGED <<wire, deadline, now>>
    BY <1>00, <1>34 DEF TlsGrant, start_probe
  <2> QED
    BY <1>0, <2>1 DEF CallsInv, SentInTime, SentByNow, AllButLastInTime
<1>35. CASE HttpGrant
  <2>1. /\ SentInTime /\ pc = "http" /\ pc' = "http_start"
        /\ UNCHANGED <<wire, deadline, now, op>>
    BY <1>00, <1>35 DEF HttpGrant, start_probe
  <2> QED
    BY <1>0, <2>1 DEF CallsInv, SentInTime, SentByNow, AllButLastInTime, SpanInBudget
<1>36. CASE TcpMeasure
  <2>1. op'.capped = now /\ op'.span <= deadline - now
    BY <1>0, <1>36, CapType, LimitAssumption DEF TcpMeasure
  <2>2. pc = "tcp_cap" /\ pc' = "tcp_dial" /\ UNCHANGED <<wire, deadline, now>>
    BY <1>36 DEF TcpMeasure, trackerVars
  <2> QED
    BY <1>0, <2>1, <2>2 DEF CallsInv, SentInTime, SentByNow, AllButLastInTime, SpanInBudget
<1>37. CASE TlsMeasure
  <2>1. op'.capped = now /\ op'.span <= deadline - now
    BY <1>0, <1>37, CapType, LimitAssumption DEF TlsMeasure
  <2>2. pc = "tls_cap" /\ pc' = "tls_dial" /\ UNCHANGED <<wire, deadline, now>>
    BY <1>37 DEF TlsMeasure, trackerVars
  <2> QED
    BY <1>0, <2>1, <2>2 DEF CallsInv, SentInTime, SentByNow, AllButLastInTime, SpanInBudget
<1>38. CASE HttpBuild
  <2>1. op'.capped = now /\ op'.span <= deadline - now
    BY <1>0, <1>38, CapType, LimitAssumption DEF HttpBuild
  <2>2. pc = "build" /\ pc' = "http" /\ UNCHANGED <<wire, deadline, now>>
    BY <1>38 DEF HttpBuild, trackerVars
  <2> QED
    BY <1>0, <2>1, <2>2 DEF CallsInv, SentInTime, SentByNow, AllButLastInTime, SpanInBudget
<1>39. CASE DnsStart
  <2>1. Send(NoAddress) /\ pc = "dns_start" /\ pc' = "dns_wait" /\ UNCHANGED <<now, deadline>>
    BY <1>39 DEF DnsStart
  <2>2. SentInTime
    BY <2>1 DEF CallsInv
  <2>3. SentByNow' /\ AllButLastInTime'
    BY <1>0, <2>1, <2>2, SendAfterCheck
  <2> QED
    BY <2>1, <2>3 DEF CallsInv
<1>40. CASE TcpDial
  <2>1. Send(selected) /\ pc = "tcp_dial" /\ pc' = "tcp_wait" /\ UNCHANGED <<now, deadline>>
    BY <1>40 DEF TcpDial
  <2>2. op'.span = op.span /\ op'.capped = op.capped /\ op'.limit = now + op.span
    BY <1>0, <1>40, BlockType DEF TcpDial
  <2>3. SentInTime /\ SpanInBudget
    BY <2>1 DEF CallsInv
  <2>4. SentByNow' /\ AllButLastInTime' /\ wire' # <<>> /\ wire'[Len(wire')].at = now
    BY <1>0, <2>1, <2>3, SendAfterCheck
  <2>5. /\ SpanInBudget'
        /\ now' <= op'.limit /\ op'.limit = wire'[Len(wire')].at + op'.span
    BY <1>0, <2>1, <2>2, <2>3, <2>4, AwaitEnds
  <2> QED
    BY <2>1, <2>4, <2>5 DEF CallsInv
<1>41. CASE TlsDial
  <2>1. Send(selected) /\ pc = "tls_dial" /\ pc' = "tls_connect" /\ UNCHANGED <<now, deadline>>
    BY <1>41 DEF TlsDial
  <2>2. op'.span = op.span /\ op'.capped = op.capped /\ op'.limit = now + op.span
    BY <1>0, <1>41, BlockType DEF TlsDial
  <2>3. SentInTime /\ SpanInBudget
    BY <2>1 DEF CallsInv
  <2>4. SentByNow' /\ AllButLastInTime' /\ wire' # <<>> /\ wire'[Len(wire')].at = now
    BY <1>0, <2>1, <2>3, SendAfterCheck
  <2>5. /\ SpanInBudget'
        /\ now' <= op'.limit /\ op'.limit = wire'[Len(wire')].at + op'.span
    BY <1>0, <2>1, <2>2, <2>3, <2>4, AwaitEnds
  <2> QED
    BY <2>1, <2>4, <2>5 DEF CallsInv
<1>42. CASE HttpSend
  <2>1. Send(selected) /\ pc = "http_start" /\ pc' = "http_wait" /\ UNCHANGED <<now, deadline>>
    BY <1>42 DEF HttpSend
  <2>2. op'.span = op.span /\ op'.capped = op.capped /\ op'.limit = now + op.span
    BY <1>0, <1>42 DEF HttpSend, Call
  <2>3. SentInTime /\ SpanInBudget
    BY <2>1 DEF CallsInv
  <2>4. SentByNow' /\ AllButLastInTime' /\ wire' # <<>> /\ wire'[Len(wire')].at = now
    BY <1>0, <2>1, <2>3, SendAfterCheck
  <2>5. /\ SpanInBudget'
        /\ now' <= op'.limit /\ op'.limit = wire'[Len(wire')].at + op'.span
    BY <1>0, <2>1, <2>2, <2>3, <2>4, AwaitEnds
  <2> QED
    BY <2>1, <2>4, <2>5 DEF CallsInv
<1>43. CASE Tick
  <2>1. now' = now + 1 /\ UNCHANGED <<wire, deadline, op, pc>>
    BY <1>43 DEF Tick
  <2>2. pc \in Awaiting => now + 1 <= op.limit
    BY <1>43, <1>0 DEF Tick, TimedCalls, Call
  <2>3. \A i \in 1 .. Len(wire) : wire[i].at \in Nat
    BY <1>0, WireInstants
  <2>4. SentByNow'
    BY <1>0, <2>1, <2>3 DEF SentByNow
  <2> QED
    BY <1>0, <2>1, <2>2, <2>4 DEF CallsInv, SentInTime, AllButLastInTime, SpanInBudget
<1>44. ASSUME NEW answer \in SUBSET Addresses, DnsAnswer(answer) PROVE CallsInv'
  <2>1. pc' \in {"finalize", "tcp", "build"} /\ UNCHANGED <<wire, deadline, now>>
    BY <1>44 DEF DnsAnswer, ResolveFailed, FinishHttp, Fail, Push
  <2> QED
    BY <1>0, <2>1 DEF CallsInv, SentInTime, SentByNow, AllButLastInTime
<1>45. ASSUME NEW r \in Responses, HttpResponse(r) PROVE CallsInv'
  <2>1. pc' = "body" /\ UNCHANGED <<wire, deadline, now>>
    BY <1>45 DEF HttpResponse, ResolveFailed, FinishHttp, Fail, Push
  <2> QED
    BY <1>0, <2>1 DEF CallsInv, SentInTime, SentByNow, AllButLastInTime
<1>46. CASE UNCHANGED vars
  BY <1>0, <1>46 DEF vars, trackerVars, CallsInv, SentInTime, SentByNow, AllButLastInTime, SpanInBudget
<1> QED
  BY <1>1, <1>2, <1>3, <1>4, <1>5, <1>6, <1>7, <1>8, <1>9, <1>10, <1>11, <1>12, <1>13,
     <1>14, <1>15, <1>16, <1>17, <1>18, <1>19, <1>20, <1>21, <1>22, <1>23, <1>24, <1>25,
     <1>26, <1>27, <1>28, <1>29, <1>30, <1>31, <1>32, <1>33, <1>34, <1>35, <1>36, <1>37,
     <1>38, <1>39, <1>40, <1>41, <1>42, <1>43, <1>44, <1>45, <1>46
     DEF Next, Step, Terminated

\* All that an inspection begins after its deadline is its last network action, and a
\* connection attempt or a request outlives the deadline by no more than the time that
\* passed between the measuring of its timeout and its beginning (Tracker::remaining,
\* connect_first, probe_tls, build_http_client).
THEOREM CallsBounded == Spec => []OverrunBounded
<1>1. Init => CallsInv
  <2> SUFFICES ASSUME Init PROVE CallsInv
    OBVIOUS
  <2>1. wire = <<>> /\ pc = "begin"
    BY DEF Init
  <2>2. /\ \A i \in 1 .. Len(wire) : FALSE
        /\ \A i \in 1 .. Len(wire) - 1 : FALSE
    BY <2>1
  <2> QED
    BY <2>1, <2>2
       DEF CallsInv, SentInTime, SentByNow, AllButLastInTime, Checked, Capped, Awaiting, Granted
<1>2. TypeInv /\ CallsInv => OverrunBounded
  <2> SUFFICES ASSUME TypeInv, CallsInv PROVE OverrunBounded
    OBVIOUS
  <2>1. now \in Nat /\ deadline \in Nat /\ op \in Call /\ wire \in Seq(NetworkAction)
    BY BudgetType DEF TypeInv, TypeOK, TrackerTypes, ProgressTypes
  <2>2. op.span \in Nat /\ op.capped \in Nat
    BY <2>1 DEF Call
  <2> DEFINE last == wire[Len(wire)].at
  <2>3. AllButLastInTime
    BY DEF CallsInv
  <2>4. ASSUME pc \in Awaiting PROVE now - deadline <= last - op.capped
    <3>1. now <= last + op.span /\ op.span <= deadline - op.capped /\ op.limit = last + op.span
      BY <2>4 DEF CallsInv, SpanInBudget
    <3>2. last \in Int
      <4>1. wire # <<>>
        BY <2>4 DEF CallsInv
      <4> QED
        BY <2>1, <4>1, WireInstants
    <3> HIDE DEF last
    <3> QED
      BY <2>1, <2>2, <3>1, <3>2
  <2> QED
    BY <2>3, <2>4 DEF OverrunBounded, AllButLastInTime, Awaiting
<1> QED
  BY <1>1, <1>2, CallsStep, TypeInvariant, PTL DEF Spec
-----------------------------------------------------------------------------
(* Counting                                                                *)

\* The first n numbers of a finite set are at most n.
LEMMA TakeBound ==
    ASSUME NEW S \in SUBSET Nat, IsFiniteSet(S), NEW n \in Nat
    PROVE  LET T == {a \in S : Cardinality({b \in S : b < a}) < n}
           IN  IsFiniteSet(T) /\ Cardinality(T) <= n
<1> DEFINE Smaller(a) == {b \in S : b < a}
           T == {a \in S : Cardinality(Smaller(a)) < n}
           rank == [a \in T |-> Cardinality(Smaller(a))]
<1>1. \A a \in S : IsFiniteSet(Smaller(a)) /\ Cardinality(Smaller(a)) \in Nat
  <2>1. \A a \in S : IsFiniteSet(Smaller(a))
    BY FS_Subset
  <2> QED
    BY <2>1, FS_CardinalityType
<1>2. IsFiniteSet(T)
  BY FS_Subset
<1>3. \A x, y \in S : x < y => Cardinality(Smaller(x)) < Cardinality(Smaller(y))
  <2> SUFFICES ASSUME NEW x \in S, NEW y \in S, x < y
               PROVE  Cardinality(Smaller(x)) < Cardinality(Smaller(y))
    OBVIOUS
  <2>0. S \subseteq Nat /\ x \in Nat /\ y \in Nat
    OBVIOUS
  <2>1. x \notin Smaller(x) /\ Smaller(x) \cup {x} \subseteq Smaller(y)
    <3>1. \A b \in S : b < x => b < y
      BY <2>0
    <3>2. ~(x < x)
      BY <2>0
    <3> QED
      BY <3>1, <3>2
  <2>2. Cardinality(Smaller(x) \cup {x}) = Cardinality(Smaller(x)) + 1
    BY <1>1, <2>1, FS_AddElement
  <2>3. Cardinality(Smaller(x) \cup {x}) <= Cardinality(Smaller(y))
    BY <1>1, <2>1, FS_Subset
  <2>4. Cardinality(Smaller(x)) \in Nat /\ Cardinality(Smaller(y)) \in Nat
    BY <1>1
  <2> HIDE DEF Smaller, T, rank
  <2> QED
    BY <2>2, <2>3, <2>4
<1>4. rank \in [T -> 0 .. n - 1]
  <2>1. \A a \in T : Cardinality(Smaller(a)) \in Nat /\ Cardinality(Smaller(a)) < n
    BY <1>1
  <2>2. \A a \in T : Cardinality(Smaller(a)) \in 0 .. n - 1
    BY <2>1
  <2> HIDE DEF T, Smaller
  <2> QED
    BY <2>2
<1>5. \A x, y \in T : rank[x] = rank[y] => x = y
  BY <1>1, <1>3
<1>6. IsFiniteSet(0 .. n - 1) /\ Cardinality(0 .. n - 1) = n
  BY FS_Interval
<1>7. Cardinality(T) \in Nat
  BY <1>2, FS_CardinalityType
<1>8. ~(n < Cardinality(T))
  <2> HIDE DEF T, rank
  <2> QED
    BY <1>2, <1>4, <1>5, <1>6, FS_PigeonHole
<1> QED
  BY <1>2, <1>7, <1>8

\* At most max_addresses addresses are tried.
LEMMA PermittedBound ==
    ASSUME NEW answer \in SUBSET Addresses, options \in Options
    PROVE  /\ IsFiniteSet(permitted_addresses(answer, options))
           /\ Cardinality(permitted_addresses(answer, options)) <= options.max_addresses
<1> DEFINE allowed == {a \in answer : is_ip_permitted(a, options)}
<1>1. allowed \in SUBSET Nat /\ options.max_addresses \in Nat
  BY AddressAssumption DEF Options
<1>2. IsFiniteSet(allowed)
  <2>1. IsFiniteSet(answer)
    BY FiniteAssumption, FS_Subset
  <2> QED
    BY <2>1, FS_Subset
<1> QED
  BY <1>1, <1>2, TakeBound DEF permitted_addresses
-----------------------------------------------------------------------------
(* Attempts                                                                *)

Requests == WireOf("http_request")
Connections == WireOf("tcp_connect")

\* The steps before an endpoint is tried for the first time.
Untried == {"begin", "proxy"}

\* The inspection has a verdict.
Over == {"finalize", "done", "rejected"}

\* What makes AttemptsBounded inductive: every hop had one request, and the last one may
\* be under way; every connection took one of the addresses there were to try.
AttemptsInv ==
    /\ Cardinality(Requests) <= options.max_redirects + 1
    /\ Cardinality(Connections) <= options.max_addresses
    /\ pc \in Untried => wire = <<>> /\ hops = <<>>
    /\ pc = "hop" => hops # <<>>
    /\ pc \in {"dns", "dns_start", "dns_wait"} /\ hops = <<>> => Connections = {}
    /\ pc \notin Over => Len(hops) <= options.max_redirects
    /\ pc \notin Over \cup {"http_wait", "body"} => Cardinality(Requests) <= Len(hops)
    /\ pc \in {"http_wait", "body"} => Cardinality(Requests) <= Len(hops) + 1
    /\ pc \in {"tcp", "tcp_wait"} => Cardinality(Connections) + Cardinality(todo) <= options.max_addresses
    /\ pc \in {"tcp_start", "tcp_cap", "tcp_dial"} =>
           Cardinality(Connections) + Cardinality(todo) < options.max_addresses
    /\ pc \in {"tcp_cap", "tcp_dial"} => active.kind = "tcp_connect"
    /\ pc \in {"tls_cap", "tls_dial"} => active.kind = "tls_handshake"

LEMMA WireOfType ==
    ASSUME wire \in Seq(NetworkAction), NEW kind
    PROVE  IsFiniteSet(WireOf(kind)) /\ Cardinality(WireOf(kind)) \in Nat
<1>1. Len(wire) \in Nat /\ WireOf(kind) \in SUBSET (1 .. Len(wire))
  BY DEF WireOf
<1>2. IsFiniteSet(1 .. Len(wire))
  BY <1>1, FS_Interval
<1>3. IsFiniteSet(WireOf(kind))
  BY <1>1, <1>2, FS_Subset
<1> QED
  BY <1>3, FS_CardinalityType

\* A network action counts for its kind alone.
LEMMA SendCounted ==
    ASSUME wire \in Seq(NetworkAction), NEW address, Send(address), NEW kind
    PROVE  /\ active'.kind # kind => WireOf(kind)' = WireOf(kind)
           /\ Cardinality(WireOf(kind)') \in Nat
           /\ Cardinality(WireOf(kind)') <= Cardinality(WireOf(kind)) + 1
<1> DEFINE a == [kind |-> active'.kind, slot |-> active'.sequence, to |-> address, at |-> now]
<1>1. a.kind = active'.kind
  OBVIOUS
<1>2. wire' = Append(wire, a)
  BY DEF Send
<1> HIDE DEF a
<1>3. /\ Len(wire') = Len(wire) + 1 /\ Len(wire) \in Nat
      /\ \A i \in 1 .. Len(wire) : wire'[i] = wire[i]
      /\ wire'[Len(wire) + 1] = a
  BY <1>2
<1>4. WireOf(kind)' = IF a.kind = kind THEN WireOf(kind) \cup {Len(wire) + 1} ELSE WireOf(kind)
  BY <1>3 DEF WireOf
<1>5. IsFiniteSet(WireOf(kind)) /\ Cardinality(WireOf(kind)) \in Nat
  BY WireOfType
<1>6. Len(wire) + 1 \notin WireOf(kind)
  BY <1>3 DEF WireOf
<1>7. Cardinality(WireOf(kind) \cup {Len(wire) + 1}) = Cardinality(WireOf(kind)) + 1
  BY <1>5, <1>6, FS_AddElement
<1>8. CASE a.kind = kind
  BY <1>1, <1>4, <1>5, <1>7, <1>8
<1>9. CASE a.kind # kind
  BY <1>1, <1>4, <1>5, <1>9
<1> QED
  BY <1>8, <1>9

\* Addresses may be tried in any number of steps: fewer remain after each.
LEMMA TodoType ==
    ASSUME todo \in SUBSET Addresses
    PROVE  /\ IsFiniteSet(todo) /\ Cardinality(todo) \in Nat
           /\ \A a \in todo : Cardinality(todo \ {a}) = Cardinality(todo) - 1
<1>1. IsFiniteSet(todo)
  BY FiniteAssumption, FS_Subset
<1> QED
  BY <1>1, FS_CardinalityType, FS_RemoveElement

\* Steps that begin nothing leave the counts alone.
LEMMA CountsKept ==
    ASSUME UNCHANGED wire
    PROVE  Requests' = Requests /\ Connections' = Connections
BY DEF Requests, Connections, WireOf

LEMMA AttemptsStep == TypeInv /\ AttemptsInv /\ [Next]_vars => AttemptsInv'
<1> SUFFICES ASSUME TypeInv, AttemptsInv, [Next]_vars PROVE AttemptsInv'
  OBVIOUS
<1> USE DEF Untried, Over, Granted
<1>0. /\ wire \in Seq(NetworkAction) /\ todo \in SUBSET Addresses /\ hops \in Seq(Hop)
      /\ options \in Options
      /\ options.max_redirects \in Nat /\ options.max_addresses \in Nat /\ Len(hops) \in Nat
  <2>1. wire \in Seq(NetworkAction) /\ todo \in SUBSET Addresses /\ hops \in Seq(Hop)
    BY DEF TypeInv, TypeOK, ProgressTypes, EndpointTypes, HopTypes
  <2>2. options \in Options
    BY DEF TypeInv, TypeOK, InputTypes
  <2> QED
    BY <2>1, <2>2 DEF Options
<1>00. Cardinality(Requests) \in Nat /\ Cardinality(Connections) \in Nat /\ Cardinality(todo) \in Nat
  BY <1>0, WireOfType, TodoType DEF Requests, Connections
<1>1. CASE RejectInput
  BY <1>1, CountsKept DEF RejectInput, AttemptsInv, inputVars, addrVars, hopVars
<1>2. CASE AcceptInput
  BY <1>2, CountsKept DEF AcceptInput, Push, AttemptsInv, inputVars, addrVars, hopVars
<1>3. CASE RejectProxy
  BY <1>3, CountsKept DEF RejectProxy, AttemptsInv, inputVars, addrVars, hopVars
<1>4. CASE SelectProxy
  <2>1. wire = <<>>
    BY <1>4 DEF SelectProxy, AttemptsInv
  <2>2. Connections = {}
    BY <2>1 DEF Connections, WireOf
  <2>3. Requests' = Requests /\ Connections' = Connections
    BY <1>4, CountsKept DEF SelectProxy
  <2> QED
    BY <1>4, <2>2, <2>3 DEF SelectProxy, Push, AttemptsInv, inputVars, addrVars, hopVars
<1>5. CASE DnsBudget
  BY <1>5, CountsKept DEF DnsBudget, ResolveFailed, FinishHttp, Fail, Push, AttemptsInv, inputVars, addrVars, hopVars
<1>6. CASE DnsStart
  <2>1. Send(NoAddress) /\ active'.kind = "dns_lookup"
    BY <1>6, StampType DEF DnsStart, Mark, TypeInv, TypeOK, Control
  <2>2. Requests' = Requests /\ Connections' = Connections
    BY <1>0, <2>1, SendCounted DEF Requests, Connections
  <2> QED
    BY <1>6, <2>2 DEF DnsStart, AttemptsInv, inputVars, hopVars
<1>7. CASE DnsError
  BY <1>7, CountsKept DEF DnsError, ResolveFailed, FinishHttp, Fail, Push, AttemptsInv, inputVars, addrVars, hopVars
<1>8. CASE TcpExhausted
  BY <1>8, CountsKept DEF TcpExhausted, Fail, Push, AttemptsInv, inputVars, addrVars, hopVars
<1>9. CASE TcpBudget
  BY <1>9, CountsKept DEF TcpBudget, Fail, Push, AttemptsInv, inputVars, addrVars, hopVars
<1>10. CASE TcpGrant
  <2>1. PICK a \in todo : todo' = todo \ {a}
    BY <1>10 DEF TcpGrant
  <2>2. Cardinality(todo') = Cardinality(todo) - 1
    BY <1>0, <2>1, TodoType
  <2>3. /\ pc = "tcp" /\ pc' = "tcp_start"
        /\ UNCHANGED <<options, hops, wire>>
    BY <1>10 DEF TcpGrant, inputVars, hopVars
  <2>4. Requests' = Requests /\ Connections' = Connections
    BY <2>3, CountsKept
  <2> QED
    BY <1>0, <1>00, <2>2, <2>3, <2>4 DEF AttemptsInv
<1>11. CASE TcpLate
  BY <1>11, CountsKept DEF TcpLate, Fail, Push, AttemptsInv, inputVars, addrVars, hopVars
<1>12. CASE TcpDial
  <2>1. Send(selected) /\ pc = "tcp_dial" /\ pc' = "tcp_wait" /\ UNCHANGED <<options, hops, todo, active>>
    BY <1>12 DEF TcpDial, inputVars, addrVars, hopVars
  <2>2. active'.kind = "tcp_connect"
    BY <2>1 DEF AttemptsInv
  <2>3. Requests' = Requests /\ Cardinality(Connections') <= Cardinality(Connections) + 1
    BY <1>0, <2>1, <2>2, SendCounted DEF Requests, Connections
  <2>4. Cardinality(Connections') \in Nat
    BY <1>0, <2>1, SendCounted DEF Connections
  <2> QED
    BY <1>0, <1>00, <2>1, <2>3, <2>4 DEF AttemptsInv
<1>13. CASE TcpConnected
  BY <1>13, CountsKept DEF TcpConnected, Push, AttemptsInv, inputVars, addrVars, hopVars
<1>14. CASE TcpRefused
  BY <1>14, CountsKept DEF TcpRefused, AttemptsInv, inputVars, addrVars, hopVars
<1>15. CASE TlsSkipped
  BY <1>15, CountsKept DEF TlsSkipped, Push, AttemptsInv, inputVars, addrVars, hopVars
<1>16. CASE TlsNotObserved
  BY <1>16, CountsKept DEF TlsNotObserved, Push, AttemptsInv, inputVars, addrVars, hopVars
<1>17. CASE TlsBudget
  BY <1>17, CountsKept DEF TlsBudget, Fail, Push, AttemptsInv, inputVars, addrVars, hopVars
<1>18. CASE TlsStart
  <2>1. active'.kind = "tls_handshake"
    BY <1>18, StampType DEF TlsStart, Mark, TypeInv, TypeOK, Control
  <2> QED
    BY <1>18, <2>1, CountsKept DEF TlsStart, AttemptsInv, inputVars, addrVars, hopVars
<1>19. CASE TlsDial
  <2>1. Send(selected) /\ active'.kind = "tls_handshake"
    BY <1>19 DEF TlsDial, AttemptsInv
  <2>2. Requests' = Requests /\ Connections' = Connections
    BY <1>0, <2>1, SendCounted DEF Requests, Connections
  <2> QED
    BY <1>19, <2>2 DEF TlsDial, AttemptsInv, inputVars, hopVars
<1>20. CASE TlsLate
  BY <1>20, CountsKept DEF TlsLate, Fail, Push, AttemptsInv, inputVars, addrVars, hopVars
<1>21. CASE TlsUnusable
  BY <1>21, CountsKept DEF TlsUnusable, Fail, Push, AttemptsInv, inputVars, addrVars, hopVars
<1>22. CASE TlsConnected
  BY <1>22, CountsKept DEF TlsConnected, AttemptsInv, inputVars, addrVars, hopVars
<1>23. CASE TlsHandshake
  BY <1>23, CountsKept DEF TlsHandshake, AttemptsInv, inputVars, addrVars, hopVars
<1>24. CASE TlsFailed
  BY <1>24, CountsKept DEF TlsFailed, Fail, Push, AttemptsInv, inputVars, addrVars, hopVars
<1>25. CASE TlsValidated
  BY <1>25, CountsKept DEF TlsValidated, Push, AttemptsInv, inputVars, addrVars, hopVars
<1>26. CASE ReadProgress
  BY <1>26, CountsKept DEF ReadProgress, AttemptsInv, inputVars, addrVars, hopVars
<1>27. CASE HttpUnbuilt
  BY <1>27, CountsKept DEF HttpUnbuilt, HttpFail, Fail, Push, AttemptsInv, inputVars, addrVars, hopVars
<1>28. CASE HttpBuild
  BY <1>28, CountsKept DEF HttpBuild, AttemptsInv, inputVars, addrVars, hopVars
<1>29. CASE HttpBudget
  BY <1>29, CountsKept DEF HttpBudget, HttpFail, Fail, Push, AttemptsInv, inputVars, addrVars, hopVars
<1>30. CASE HttpSend
  <2>1. Send(selected) /\ active'.kind = "http_request"
    BY <1>30, StampType DEF HttpSend, TypeInv, TypeOK, Control
  <2>2. /\ Connections' = Connections /\ Cardinality(Requests') \in Nat
        /\ Cardinality(Requests') <= Cardinality(Requests) + 1
    BY <1>0, <2>1, SendCounted DEF Requests, Connections
  <2> QED
    BY <1>30, <1>0, <1>00, <2>2 DEF HttpSend, AttemptsInv, inputVars, hopVars
<1>31. CASE HttpError
  BY <1>31, CountsKept DEF HttpError, HttpFail, Fail, Push, AttemptsInv, inputVars, addrVars, hopVars
<1>32. CASE BodyFailed
  BY <1>32, CountsKept DEF BodyFailed, HttpFail, Fail, Push, AttemptsInv, inputVars, addrVars, hopVars
<1>33. CASE BodyRead
  <2>1. Requests' = Requests /\ Connections' = Connections
    BY <1>33, CountsKept DEF BodyRead
  <2>2. Cardinality(Requests) <= Len(hops) + 1 /\ UNCHANGED options /\ pc = "body"
    BY <1>33 DEF BodyRead, AttemptsInv, inputVars
  <2>3. CASE pc' = "finalize"
    BY <2>1, <2>2, <2>3 DEF AttemptsInv
  <2>4. CASE pc' = "hop" /\ ~LastHop
    <3>1. hops' = Append(hops, response_to_hop(response))
      BY <1>33 DEF BodyRead
    <3> HIDE DEF LastHop
    <3>2. Len(hops') = Len(hops) + 1 /\ hops' # <<>>
      BY <1>0, <3>1
    <3>3. Len(hops) < options.max_redirects
      BY <1>0, <2>2, <2>4 DEF AttemptsInv, LastHop
    <3> QED
      BY <1>0, <1>00, <2>1, <2>2, <2>4, <3>2, <3>3 DEF AttemptsInv
  <2> QED
    BY <1>33, <2>3, <2>4 DEF BodyRead, FinishHttp
<1>34. CASE HopDenied
  BY <1>34, CountsKept DEF HopDenied, FinishHttp, AttemptsInv, inputVars, addrVars, hopVars
<1>35. CASE HopAccepted
  BY <1>35, CountsKept DEF HopAccepted, AttemptsInv, inputVars, addrVars, hopVars
<1>36. CASE Finalize
  BY <1>36, CountsKept DEF Finalize, AttemptsInv, inputVars, addrVars, hopVars
<1>37. CASE Tick
  BY <1>37, CountsKept DEF Tick, AttemptsInv, inputVars, addrVars, hopVars
<1>38. ASSUME NEW answer \in SUBSET Addresses, DnsAnswer(answer) PROVE AttemptsInv'
  <2>1. Requests' = Requests /\ Connections' = Connections
    BY <1>38, CountsKept DEF DnsAnswer
  <2>2. pc = "dns_wait" /\ UNCHANGED <<options, hops>>
    BY <1>38 DEF DnsAnswer, inputVars, hopVars
  <2>3. CASE pc' \in {"finalize", "build"}
    BY <2>1, <2>2, <2>3 DEF AttemptsInv
  <2>4. CASE pc' = "tcp" /\ hops = <<>> /\ todo' = permitted_addresses(answer, options)
    <3>1. Cardinality(Connections) = 0
      BY <2>2, <2>4, FS_EmptySet DEF AttemptsInv
    <3>2. Cardinality(todo') <= options.max_addresses /\ Cardinality(todo') \in Nat
      BY <1>0, <2>4, PermittedBound, FS_CardinalityType
    <3> QED
      BY <1>0, <2>1, <2>2, <2>4, <3>1, <3>2 DEF AttemptsInv
  <2> QED
    BY <1>38, <2>3, <2>4 DEF DnsAnswer, ResolveFailed, FinishHttp, Fail, Push
<1>39. ASSUME NEW r \in Responses, HttpResponse(r) PROVE AttemptsInv'
  BY <1>39, CountsKept DEF HttpResponse, AttemptsInv, inputVars, addrVars, hopVars
<1>40. CASE UNCHANGED vars
  BY <1>40, CountsKept DEF vars, trackerVars, AttemptsInv, inputVars, addrVars, hopVars
<1>41. CASE DnsGrant
  BY <1>41, CountsKept DEF DnsGrant, AttemptsInv, inputVars, addrVars, hopVars
<1>42. CASE TcpStart
  <2>1. active'.kind = "tcp_connect"
    BY <1>42, StampType DEF TcpStart, Mark, TypeInv, TypeOK, Control
  <2> QED
    BY <1>42, <2>1, CountsKept DEF TcpStart, AttemptsInv, inputVars, addrVars, hopVars
<1>43. CASE TcpMeasure
  BY <1>43, CountsKept DEF TcpMeasure, AttemptsInv, trackerVars, inputVars, addrVars, hopVars
<1>44. CASE TlsGrant
  BY <1>44, CountsKept DEF TlsGrant, AttemptsInv, inputVars, addrVars, hopVars
<1>45. CASE TlsMeasure
  BY <1>45, CountsKept DEF TlsMeasure, AttemptsInv, trackerVars, inputVars, addrVars, hopVars
<1>46. CASE HttpGrant
  BY <1>46, CountsKept DEF HttpGrant, AttemptsInv, inputVars, addrVars, hopVars
<1> QED
  BY
     <1>1, <1>2, <1>3, <1>4, <1>5, <1>6, <1>7, <1>8, <1>9, <1>10, <1>11, <1>12, <1>13, <1>14,
     <1>15, <1>16, <1>17, <1>18, <1>19, <1>20, <1>21, <1>22, <1>23, <1>24, <1>25, <1>26, <1>27,
     <1>28, <1>29, <1>30, <1>31, <1>32, <1>33, <1>34, <1>35, <1>36, <1>37, <1>38, <1>39, <1>40,
     <1>41, <1>42, <1>43, <1>44, <1>45, <1>46 DEF Next, Step, Terminated

LEMMA AttemptsInit == Init => AttemptsInv
<1> SUFFICES ASSUME Init PROVE AttemptsInv
  OBVIOUS
<1>1. wire = <<>> /\ hops = <<>> /\ pc = "begin" /\ options \in Options
  BY InputAssumption DEF Init
<1>2. Requests = {} /\ Connections = {} /\ Len(hops) = 0
  BY <1>1 DEF Requests, Connections, WireOf
<1>3. Cardinality(Requests) = 0 /\ Cardinality(Connections) = 0
  BY <1>2, FS_EmptySet
<1> QED
  BY <1>1, <1>2, <1>3 DEF AttemptsInv, Untried, Over, Options

\* The redirect budget bounds the requests of an inspection and the address budget its
\* connections, however the servers redirect and the resolver answers (run_http,
\* connect_first).
THEOREM AttemptsAreBounded == Spec => []AttemptsBounded
<1>1. AttemptsInv => AttemptsBounded
  BY DEF AttemptsInv, AttemptsBounded, Requests, Connections
<1> QED
  BY <1>1, AttemptsInit, AttemptsStep, TypeInvariant, PTL DEF Spec
-----------------------------------------------------------------------------
(* An inspection runs down                                                 *)

\* Steps that lead on without an answer of the resolver, a connection begun or a body read.
LeadsOn ==
    {<<"begin", "proxy">>, <<"proxy", "dns">>, <<"dns", "dns_start">>, <<"dns_start", "dns_wait">>,
     <<"tcp_start", "tcp_cap">>, <<"tcp_cap", "tcp_dial">>, <<"tcp_dial", "tcp_wait">>,
     <<"tcp_wait", "tcp">>, <<"tcp_wait", "tls">>, <<"tls", "build">>, <<"tls", "tls_start">>,
     <<"tls_start", "tls_cap">>, <<"tls_cap", "tls_dial">>, <<"tls_dial", "tls_connect">>,
     <<"tls_connect", "tls_loop">>, <<"tls_loop", "tls_io">>, <<"tls_io", "build">>,
     <<"build", "http">>, <<"http", "http_start">>, <<"http_start", "http_wait">>,
     <<"http_wait", "body">>, <<"hop", "dns">>}

\* Where a step leads, and what it does to the addresses and redirects left.
Moves ==
    /\ UNCHANGED options
    /\ \/ pc = "finalize" /\ pc' = "done"
       \/ pc \in Steps \ Over /\ pc' \in {"finalize", "rejected"}
       \/ <<pc, pc'>> \in LeadsOn /\ UNCHANGED <<hops, todo>>
       \/ /\ pc = "dns_wait" /\ pc' = "tcp" /\ hops = <<>> /\ UNCHANGED hops
          /\ \E answer \in SUBSET Addresses : todo' = permitted_addresses(answer, options)
       \/ pc = "dns_wait" /\ pc' = "build" /\ hops # <<>> /\ UNCHANGED hops
       \/ /\ pc = "tcp" /\ pc' = "tcp_start" /\ UNCHANGED hops
          /\ \E a \in todo : todo' = todo \ {a}
       \/ pc = "body" /\ pc' = "hop" /\ Len(hops') = Len(hops) + 1

LEMMA StepMoves == TypeInv /\ Step => Moves
<1> SUFFICES ASSUME TypeInv, Step PROVE Moves
  OBVIOUS
<1> USE DEF Over, Steps
<1>1. CASE RejectInput
  BY <1>1 DEF RejectInput, Moves, inputVars
<1>2. CASE RejectProxy
  BY <1>2 DEF RejectProxy, Moves, inputVars
<1>3. CASE DnsBudget
  BY <1>3 DEF DnsBudget, ResolveFailed, FinishHttp, Fail, Push, Moves, inputVars
<1>4. CASE DnsError
  BY <1>4 DEF DnsError, ResolveFailed, FinishHttp, Fail, Push, Moves, inputVars
<1>5. CASE TcpExhausted
  BY <1>5 DEF TcpExhausted, Fail, Push, Moves, inputVars
<1>6. CASE TcpBudget
  BY <1>6 DEF TcpBudget, Fail, Push, Moves, inputVars
<1>7. CASE TcpLate
  BY <1>7 DEF TcpLate, Fail, Push, Moves, inputVars
<1>8. CASE TlsBudget
  BY <1>8 DEF TlsBudget, Fail, Push, Moves, inputVars
<1>9. CASE TlsLate
  BY <1>9 DEF TlsLate, Fail, Push, Moves, inputVars
<1>10. CASE TlsUnusable
  BY <1>10 DEF TlsUnusable, Fail, Push, Moves, inputVars
<1>11. CASE TlsFailed
  BY <1>11 DEF TlsFailed, Fail, Push, Moves, inputVars
<1>12. CASE HttpUnbuilt
  BY <1>12 DEF HttpUnbuilt, HttpFail, Fail, Push, Moves, inputVars
<1>13. CASE HttpBudget
  BY <1>13 DEF HttpBudget, HttpFail, Fail, Push, Moves, inputVars
<1>14. CASE HttpError
  BY <1>14 DEF HttpError, HttpFail, Fail, Push, Moves, inputVars
<1>15. CASE BodyFailed
  BY <1>15 DEF BodyFailed, HttpFail, Fail, Push, Moves, inputVars
<1>16. CASE HopDenied
  BY <1>16 DEF HopDenied, FinishHttp, Moves, inputVars
<1>17. CASE AcceptInput
  BY <1>17 DEF AcceptInput, Push, Moves, LeadsOn, inputVars, addrVars, hopVars
<1>18. CASE SelectProxy
  BY <1>18 DEF SelectProxy, Push, Moves, LeadsOn, inputVars, addrVars, hopVars
<1>19. CASE DnsStart
  BY <1>19 DEF DnsStart, Moves, LeadsOn, inputVars, addrVars, hopVars
<1>20. CASE TcpDial
  BY <1>20 DEF TcpDial, Moves, LeadsOn, inputVars, addrVars, hopVars
<1>21. CASE TcpConnected
  BY <1>21 DEF TcpConnected, Push, Moves, LeadsOn, inputVars, addrVars, hopVars
<1>22. CASE TcpRefused
  BY <1>22 DEF TcpRefused, Moves, LeadsOn, inputVars, addrVars, hopVars
<1>23. CASE TlsSkipped
  BY <1>23 DEF TlsSkipped, Push, Moves, LeadsOn, inputVars, addrVars, hopVars
<1>24. CASE TlsNotObserved
  BY <1>24 DEF TlsNotObserved, Push, Moves, LeadsOn, inputVars, addrVars, hopVars
<1>25. CASE TlsStart
  BY <1>25 DEF TlsStart, Moves, LeadsOn, inputVars, addrVars, hopVars
<1>26. CASE TlsDial
  BY <1>26 DEF TlsDial, Moves, LeadsOn, inputVars, addrVars, hopVars
<1>27. CASE TlsConnected
  BY <1>27 DEF TlsConnected, Moves, LeadsOn, inputVars, addrVars, hopVars
<1>28. CASE TlsHandshake
  BY <1>28 DEF TlsHandshake, Moves, LeadsOn, inputVars, addrVars, hopVars
<1>29. CASE TlsValidated
  BY <1>29 DEF TlsValidated, Push, Moves, LeadsOn, inputVars, addrVars, hopVars
<1>30. CASE HttpBuild
  BY <1>30 DEF HttpBuild, Moves, LeadsOn, inputVars, addrVars, hopVars
<1>31. CASE HttpSend
  BY <1>31 DEF HttpSend, Moves, LeadsOn, inputVars, addrVars, hopVars
<1>32. CASE HopAccepted
  BY <1>32 DEF HopAccepted, Moves, LeadsOn, inputVars, addrVars, hopVars
<1>33. CASE Finalize
  BY <1>33 DEF Finalize, Moves, inputVars
<1>34. CASE TcpGrant
  BY <1>34 DEF TcpGrant, Moves, inputVars, hopVars
<1>35. ASSUME NEW answer \in SUBSET Addresses, DnsAnswer(answer) PROVE Moves
  BY <1>35 DEF DnsAnswer, ResolveFailed, FinishHttp, Fail, Push, Moves, inputVars, hopVars
<1>36. ASSUME NEW r \in Responses, HttpResponse(r) PROVE Moves
  BY <1>36 DEF HttpResponse, Moves, LeadsOn, inputVars, addrVars, hopVars
<1>37. CASE BodyRead
  <2>1. hops' = Append(hops, response_to_hop(response)) /\ hops \in Seq(Hop)
    BY <1>37 DEF BodyRead, TypeInv, TypeOK, HopTypes
  <2>2. Len(hops') = Len(hops) + 1
    BY <2>1
  <2>3. pc = "body" /\ pc' \in {"finalize", "hop"} /\ UNCHANGED options
    BY <1>37 DEF BodyRead, FinishHttp, inputVars
  <2> QED
    BY <2>2, <2>3 DEF Moves
<1>38. CASE DnsGrant
  BY <1>38 DEF DnsGrant, Moves, LeadsOn, trackerVars, inputVars, addrVars, hopVars
<1>39. CASE TcpStart
  BY <1>39 DEF TcpStart, Moves, LeadsOn, trackerVars, inputVars, addrVars, hopVars
<1>40. CASE TcpMeasure
  BY <1>40 DEF TcpMeasure, Moves, LeadsOn, trackerVars, inputVars, addrVars, hopVars
<1>41. CASE TlsGrant
  BY <1>41 DEF TlsGrant, Moves, LeadsOn, trackerVars, inputVars, addrVars, hopVars
<1>42. CASE TlsMeasure
  BY <1>42 DEF TlsMeasure, Moves, LeadsOn, trackerVars, inputVars, addrVars, hopVars
<1>43. CASE HttpGrant
  BY <1>43 DEF HttpGrant, Moves, LeadsOn, trackerVars, inputVars, addrVars, hopVars
<1> QED
  BY <1>1, <1>2, <1>3, <1>4, <1>5, <1>6, <1>7, <1>8, <1>9, <1>10, <1>11, <1>12, <1>13,
     <1>14, <1>15, <1>16, <1>17, <1>18, <1>19, <1>20, <1>21, <1>22, <1>23, <1>24, <1>25, <1>26, <1>27,
     <1>28, <1>29, <1>30, <1>31, <1>32, <1>33, <1>34, <1>35, <1>36, <1>37, <1>38,
     <1>39, <1>40, <1>41, <1>42, <1>43 DEF Step

\* What is left is never negative, and enough to come to an end.
LEMMA StepsAreNatural ==
    ASSUME NEW step \in Steps, NEW first, NEW r \in Int, NEW u \in Nat, NEW t \in Nat,
           step \notin Over => r \in Nat
    PROVE  /\ StepsFrom(step, first, r, u, t) \in Nat
           /\ step \notin Over => StepsFrom(step, first, r, u, t) >= 2
BY DEF StepsFrom, Steps, Over

\* A step that leads on uses one of the steps left.
LEMMA LeadsOnCounts ==
    ASSUME NEW a, NEW b, <<a, b>> \in LeadsOn, NEW first \in BOOLEAN,
           NEW r \in Nat, NEW u \in Nat, NEW t \in Nat,
           first => a # "hop", ~first => a \notin {"begin", "proxy"}
    PROVE  StepsFrom(b, first, r, u, t) < StepsFrom(a, first, r, u, t)
BY DEF StepsFrom, LeadsOn

\* So do a lookup that gives addresses to try, an address taken to be tried, and a body
\* that ends with a redirect.
LEMMA LoopsCount ==
    ASSUME NEW first, NEW r \in Nat, NEW u \in Nat, NEW t \in Nat, NEW v \in Nat
    PROVE  /\ t <= u => StepsFrom("tcp", TRUE, r, u, t) < StepsFrom("dns_wait", TRUE, r, u, v)
           /\ StepsFrom("build", FALSE, r, u, t) < StepsFrom("dns_wait", FALSE, r, u, v)
           /\ t < v => StepsFrom("tcp_start", first, r, u, t) < StepsFrom("tcp", first, r, u, v)
           /\ StepsFrom("hop", FALSE, r - 1, u, t) < StepsFrom("body", first, r, u, v)
BY DEF StepsFrom

LEMMA LeftIsNatural ==
    ASSUME TypeInv, AttemptsInv
    PROVE  StepsLeft \in Nat
<1>1. /\ pc \in Steps /\ todo \in SUBSET Addresses /\ hops \in Seq(Hop) /\ options \in Options
  BY DEF TypeInv, TypeOK, ProgressTypes, EndpointTypes, HopTypes, InputTypes
<1>2. /\ options.max_redirects \in Nat /\ options.max_addresses \in Nat
      /\ Len(hops) \in Nat /\ Cardinality(todo) \in Nat
  BY <1>1, TodoType DEF Options
<1>3. pc \notin Over => Len(hops) <= options.max_redirects
  BY DEF AttemptsInv
<1> DEFINE r == options.max_redirects - Len(hops)
<1>4. r \in Int /\ (pc \notin Over => r \in Nat)
  BY <1>2, <1>3
<1> HIDE DEF r
<1>5. StepsFrom(pc, hops = <<>>, r, options.max_addresses, Cardinality(todo)) \in Nat
  BY <1>1, <1>2, <1>4, StepsAreNatural
<1> QED
  BY <1>5 DEF StepsLeft, r

\* Every step of the program uses one of the steps left.
LEMMA MovesCount ==
    ASSUME TypeInv, AttemptsInv, TypeInv', AttemptsInv', Moves
    PROVE  StepsLeft' \in 0 .. StepsLeft - 1 /\ pc' # pc
<1> DEFINE f == hops = <<>>
           r == options.max_redirects - Len(hops)
           u == options.max_addresses
           t == Cardinality(todo)
           f1 == hops' = <<>>
           r1 == options.max_redirects - Len(hops')
           t1 == Cardinality(todo')
<1>1. /\ pc \in Steps /\ r \in Int /\ u \in Nat /\ t \in Nat /\ options \in Options
      /\ pc \notin Over => r \in Nat
      /\ todo \in SUBSET Addresses /\ hops \in Seq(Hop)
  <2>1. /\ pc \in Steps /\ todo \in SUBSET Addresses /\ hops \in Seq(Hop) /\ options \in Options
    BY DEF TypeInv, TypeOK, ProgressTypes, EndpointTypes, HopTypes, InputTypes
  <2>2. /\ options.max_redirects \in Nat /\ options.max_addresses \in Nat
        /\ Len(hops) \in Nat /\ Cardinality(todo) \in Nat
    BY <2>1, TodoType DEF Options
  <2>3. pc \notin Over => Len(hops) <= options.max_redirects
    BY DEF AttemptsInv
  <2> QED
    BY <2>1, <2>2, <2>3
<1>2. options' = options
  BY DEF Moves
<1>3. /\ pc' \in Steps /\ r1 \in Int /\ t1 \in Nat
      /\ pc' \notin Over => r1 \in Nat
  <2>1. /\ pc' \in Steps /\ todo' \in SUBSET Addresses /\ hops' \in Seq(Hop)
    BY DEF TypeInv, TypeOK, ProgressTypes, EndpointTypes, HopTypes
  <2>2. IsFiniteSet(todo')
    BY <2>1, FiniteAssumption, FS_Subset
  <2>3. Len(hops') \in Nat /\ Cardinality(todo') \in Nat
    BY <2>1, <2>2, FS_CardinalityType
  <2>4. options.max_redirects \in Nat
    BY <1>1 DEF Options
  <2>5. pc' \notin Over => Len(hops') <= options.max_redirects
    BY <1>2 DEF AttemptsInv
  <2> QED
    BY <2>1, <2>3, <2>4, <2>5
<1>4. StepsLeft = StepsFrom(pc, f, r, u, t) /\ StepsLeft' = StepsFrom(pc', f1, r1, u, t1)
  BY <1>2 DEF StepsLeft
<1>5. /\ f => pc # "hop"
      /\ ~f => pc \notin {"begin", "proxy"}
  BY DEF AttemptsInv, Untried
<1>6. UNCHANGED hops => f1 = f /\ r1 = r
  OBVIOUS
<1>7. UNCHANGED todo => t1 = t
  OBVIOUS
<1>8. pc = "tcp" /\ (\E a \in todo : todo' = todo \ {a}) => t1 < t
  BY <1>1, TodoType
<1>9. pc = "dns_wait" /\ (\E answer \in SUBSET Addresses : todo' = permitted_addresses(answer, options))
          => t1 <= u
  BY <1>1, PermittedBound
<1>10. Len(hops') = Len(hops) + 1 => r1 = r - 1 /\ ~f1
  <2>1. Len(hops') = Len(hops) + 1 => hops' # <<>>
    BY <1>1
  <2>2. options.max_redirects \in Nat /\ Len(hops) \in Nat
    BY <1>1 DEF Options
  <2> QED
    BY <2>1, <2>2
<1>11. StepsLeft \in Nat /\ StepsLeft' \in Nat /\ (pc \notin Over => StepsLeft >= 2)
  <2> HIDE DEF f, r, u, t, f1, r1, t1
  <2> QED
    BY <1>1, <1>3, <1>4, StepsAreNatural
<1>12. f \in BOOLEAN
  OBVIOUS
<1>13. Moves
  OBVIOUS
<1>14. StepsLeft' < StepsLeft /\ pc' # pc
  <2>1. CASE pc = "finalize" /\ pc' = "done"
    BY <1>4, <2>1 DEF StepsFrom
  <2>2. CASE pc \in Steps \ Over /\ pc' \in {"finalize", "rejected"}
    <3>1. StepsLeft' \in {0, 1}
      BY <1>4, <2>2 DEF StepsFrom
    <3> QED
      BY <1>11, <2>2, <3>1 DEF Over
  <2>3. CASE <<pc, pc'>> \in LeadsOn /\ UNCHANGED <<hops, todo>>
    <3>1. pc \notin Over /\ pc' # pc
      BY <2>3 DEF LeadsOn, Over
    <3>2. f1 = f /\ r1 = r /\ t1 = t
      BY <1>6, <1>7, <2>3
    <3> HIDE DEF f, r, u, t, f1, r1, t1
    <3>3. StepsFrom(pc', f, r, u, t) < StepsFrom(pc, f, r, u, t)
      BY <1>1, <1>5, <1>12, <2>3, <3>1, LeadsOnCounts
    <3> QED
      BY <1>4, <3>1, <3>2, <3>3
  <2>4. CASE /\ pc = "dns_wait" /\ pc' = "tcp" /\ hops = <<>> /\ UNCHANGED hops
             /\ \E answer \in SUBSET Addresses : todo' = permitted_addresses(answer, options)
    <3>1. pc \notin Over /\ f = TRUE /\ f1 = TRUE /\ r1 = r /\ t1 <= u
      BY <1>6, <1>9, <2>4 DEF Over
    <3> HIDE DEF f, r, u, t, f1, r1, t1
    <3> QED
      BY <1>1, <1>3, <1>4, <2>4, <3>1, LoopsCount
  <2>5. CASE pc = "dns_wait" /\ pc' = "build" /\ hops # <<>> /\ UNCHANGED hops
    <3>1. pc \notin Over /\ f = FALSE /\ f1 = FALSE /\ r1 = r
      BY <1>6, <2>5 DEF Over
    <3> HIDE DEF f, r, u, t, f1, r1, t1
    <3> QED
      BY <1>1, <1>3, <1>4, <2>5, <3>1, LoopsCount
  <2>6. CASE /\ pc = "tcp" /\ pc' = "tcp_start" /\ UNCHANGED hops
             /\ \E a \in todo : todo' = todo \ {a}
    <3>1. pc \notin Over /\ f1 = f /\ r1 = r /\ t1 < t
      BY <1>6, <1>8, <2>6 DEF Over
    <3> HIDE DEF f, r, u, t, f1, r1, t1
    <3> QED
      BY <1>1, <1>3, <1>4, <2>6, <3>1, LoopsCount
  <2>7. CASE pc = "body" /\ pc' = "hop" /\ Len(hops') = Len(hops) + 1
    <3>1. pc \notin Over /\ f1 = FALSE /\ r1 = r - 1
      BY <1>10, <2>7 DEF Over
    <3> HIDE DEF f, r, u, t, f1, r1, t1
    <3> QED
      BY <1>1, <1>3, <1>4, <2>7, <3>1, LoopsCount
  <2> QED
    BY <1>13, <2>1, <2>2, <2>3, <2>4, <2>5, <2>6, <2>7 DEF Moves
<1> QED
  BY <1>11, <1>14

LEMMA StepsCount ==
    ASSUME TypeInv, AttemptsInv, TypeInv', AttemptsInv', [Next]_vars
    PROVE  /\ StepsLeft' \in 0 .. (IF pc' = pc THEN StepsLeft ELSE StepsLeft - 1)
           /\ Step => StepsLeft' < StepsLeft
<1>1. StepsLeft \in Nat
  BY LeftIsNatural
<1>2. CASE Step
  <2>1. StepsLeft' \in 0 .. StepsLeft - 1 /\ pc' # pc
    BY <1>2, StepMoves, MovesCount
  <2> QED
    BY <1>1, <2>1
<1>3. CASE ~Step
  <2>1. UNCHANGED <<pc, options, hops, todo>>
    BY <1>3 DEF Next, ReadProgress, Tick, Terminated, vars, inputVars, addrVars, hopVars
  <2>2. StepsLeft' = StepsLeft
    BY <2>1 DEF StepsLeft
  <2> QED
    BY <1>1, <1>3, <2>1, <2>2
<1> QED
  BY <1>2, <1>3

\* An inspection takes no more steps of its own than 19, and 5 for each address and 9 for
\* each redirect that it was allowed, whatever it is told by resolver and servers and
\* however long it waits for them (inspect_with_backend, connect_first, run_http).
THEOREM InspectionRunsDown ==
    Spec => /\ StepsLeft = 19 + 5 * options.max_addresses + 9 * options.max_redirects
            /\ RunsDown
            /\ [][Step => StepsLeft' < StepsLeft]_vars
<1>1. Init => StepsLeft = 19 + 5 * options.max_addresses + 9 * options.max_redirects
  <2> SUFFICES ASSUME Init
               PROVE  StepsLeft = 19 + 5 * options.max_addresses + 9 * options.max_redirects
    OBVIOUS
  <2>1. pc = "begin" /\ hops = <<>> /\ Len(hops) = 0
    BY DEF Init
  <2>2. options.max_redirects \in Nat /\ options.max_addresses \in Nat
    BY InputAssumption DEF Init, Options
  <2> QED
    BY <2>1, <2>2 DEF StepsLeft, StepsFrom
<1> QED
  BY <1>1, AttemptsInit, AttemptsStep, TypeInvariant, StepsCount, PTL DEF Spec, RunsDown
=============================================================================
