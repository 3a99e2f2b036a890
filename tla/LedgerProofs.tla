---------------------------- MODULE LedgerProofs -----------------------------
(***************************************************************************)
(* The ledger, the network and the dry run: every network action is        *)
(* accounted for, the first request goes where its connection and its      *)
(* handshake went, an inspection keeps to its plan, and the bytes it read  *)
(* are those of its hops.                                                  *)
(***************************************************************************)
EXTENDS ReportProofs, EndpointProofs, WellFoundedInduction

-----------------------------------------------------------------------------
(* What a step does to the ledger and the network                          *)

\* The steps of a call whose network action has been sent, and the kind of probe that is
\* in progress at each step.
Sent == {"dns_wait", "tcp_wait", "tls_connect", "tls_loop", "tls_io", "http_wait"}
KindAt(step) ==
    IF step \in {"dns_start", "dns_wait"} THEN "dns_lookup"
    ELSE IF step \in {"tcp_start", "tcp_cap", "tcp_dial", "tcp_wait"} THEN "tcp_connect"
    ELSE IF step \in {"http_start", "http_wait"} THEN "http_request"
    ELSE "tls_handshake"

Handshaking == {"tls_connect", "tls_loop", "tls_io"}

\* Time passes, bytes arrive, or the handshake goes on.
Waits ==
    /\ pc' = pc \/ (pc \in Handshaking /\ pc' \in Handshaking)
    /\ UNCHANGED <<probes, active, wire, selected, phases, hops, proxy, error, report>>

\* The program goes on between two probes, or ends without one in progress.
Decides ==
    /\ UNCHANGED <<probes, wire>> /\ pc \notin Probing /\ pc' \notin Probing
    /\ \/ pc = "begin" /\ pc' = "proxy" /\ input_error = "" /\ UNCHANGED <<hops, error, report>>
       \/ pc = "begin" /\ pc' = "rejected" /\ input_error # "" /\ error' = input_error
          /\ UNCHANGED <<hops, phases, report>>
       \/ pc = "proxy" /\ pc' = "rejected" /\ resolve_proxy(env, target, options).error # ""
          /\ error' = resolve_proxy(env, target, options).error /\ UNCHANGED <<hops, phases, report>>
       \/ pc = "proxy" /\ pc' = "dns" /\ resolve_proxy(env, target, options).error = ""
          /\ proxy' = resolve_proxy(env, target, options) /\ UNCHANGED <<hops, report>>
       \/ pc = "tls" /\ pc' = "build" /\ ~ProbesTls /\ UNCHANGED <<hops, proxy, selected, report>>
       \/ pc = "build" /\ pc' = "http" /\ UNCHANGED <<hops, proxy, selected, phases, report>>
       \/ pc = "body" /\ pc' = "hop" /\ hops' # <<>> /\ UNCHANGED <<phases, report>>
       \/ pc = "hop" /\ pc' = "dns" /\ UNCHANGED <<hops, phases, report>>
       \/ pc \in {"dns", "tcp", "tls", "build", "http", "body", "hop"} /\ pc' = "finalize"
          /\ UNCHANGED report
       \/ SealCourse

\* A probe is granted.
Starts ==
    /\ UNCHANGED <<probes, wire, phases, hops, proxy, report>> /\ active'.kind = KindAt(pc')
    /\ \/ pc = "dns" /\ pc' = "dns_start" /\ UNCHANGED selected
       \/ pc = "tcp" /\ pc' = "tcp_start"
       \/ pc = "tls" /\ pc' = "tls_start" /\ ProbesTls /\ UNCHANGED selected
       \/ pc = "http" /\ pc' = "http_start" /\ UNCHANGED selected

\* The clock is read for it, before anything is sent.
Prepares ==
    /\ UNCHANGED <<probes, wire, phases, hops, proxy, selected, report>>
    /\ active'.kind = active.kind
    /\ \/ pc = "tcp_start" /\ pc' = "tcp_cap"
       \/ pc = "tcp_cap" /\ pc' = "tcp_dial"
       \/ pc = "tls_start" /\ pc' = "tls_cap"
       \/ pc = "tls_cap" /\ pc' = "tls_dial"

\* A network action is sent.
Sends ==
    /\ UNCHANGED <<probes, phases, hops, proxy, selected, report>>
    /\ active'.kind = active.kind
    /\ \/ pc = "tcp_dial" /\ pc' = "tcp_wait" /\ Send(selected)
       \/ pc = "tls_dial" /\ pc' = "tls_connect" /\ Send(selected)
       \/ pc = "dns_start" /\ pc' = "dns_wait" /\ Send(NoAddress)
       \/ pc = "http_start" /\ pc' = "http_wait" /\ Send(selected)

\* The call in progress ends, and its probe is finished.
Ends ==
    /\ pc \in Sent /\ UNCHANGED <<wire, report>>
    /\ \/ pc = "dns_wait" /\ pc' = "tcp" /\ UNCHANGED <<hops, proxy>>
       \/ pc = "dns_wait" /\ pc' = "build" /\ hops # <<>> /\ UNCHANGED <<phases, hops, proxy>>
       \/ pc = "tcp_wait" /\ pc' = "tcp" /\ UNCHANGED <<phases, hops, proxy>>
       \/ pc = "tcp_wait" /\ pc' = "tls" /\ UNCHANGED <<hops, proxy, selected>>
       \/ pc = "tls_io" /\ pc' = "build" /\ UNCHANGED <<hops, proxy, selected>>
       \/ pc = "http_wait" /\ pc' = "body" /\ UNCHANGED <<phases, hops, proxy>>
       \/ pc' = "finalize"
    /\ \E outcome \in Outcome :
           /\ finish_probe(op.started, outcome)
           /\ pc' = "tls" => outcome = "connected"
           /\ pc = "tls_io" /\ pc' = "build" => outcome = "validated"

\* The budget ends before the call does: the probe is dropped.
Drops ==
    /\ UNCHANGED <<probes, wire, hops, report>> /\ pc' = "finalize"
    /\ \/ pc = "tcp_cap"
       \/ pc \in {"tls_cap", "tls_loop"} /\ Fail("tls", "budget_exhausted")

Traffic ==
    UNCHANGED inputVars /\ (Waits \/ Decides \/ Starts \/ Prepares \/ Sends \/ Ends \/ Drops)

\* Each action of the engine is one of these.
LEMMA StepTraffic == TypeInv /\ [Next]_vars => Traffic
<1> SUFFICES ASSUME TypeInv, [Next]_vars PROVE Traffic
  OBVIOUS
<1> USE DEF Traffic, Probing, Granted, Begun, Sent, Handshaking
<1>0. ASSUME pc \in Granted, stamp_probe PROVE active'.kind = active.kind
  BY <1>0, StampType DEF TypeInv, TypeOK
<1>1. CASE RejectInput
  BY <1>1 DEF RejectInput, Decides, trackerVars, inputVars, addrVars, hopVars
<1>2. CASE AcceptInput
  BY <1>2 DEF AcceptInput, Decides, Push, trackerVars, inputVars, addrVars, hopVars
<1>3. CASE RejectProxy
  BY <1>3 DEF RejectProxy, Decides, trackerVars, inputVars, addrVars, hopVars
<1>4. CASE SelectProxy
  BY <1>4 DEF SelectProxy, Decides, Push, trackerVars, inputVars, addrVars, hopVars
<1>5. CASE DnsBudget
  BY <1>5 DEF DnsBudget, Decides, ResolveFailed, FinishHttp, Fail, Push, trackerVars, inputVars, addrVars, hopVars
<1>6. CASE DnsStart
  BY <1>0, <1>6 DEF DnsStart, Mark, Sends, trackerVars, inputVars, addrVars, hopVars
<1>7. CASE DnsError
  BY <1>7 DEF DnsError, Ends, Outcome, ResolveFailed, FinishHttp, Fail, Push, trackerVars, inputVars, addrVars, hopVars
<1>8. CASE TcpExhausted
  BY <1>8 DEF TcpExhausted, Decides, Fail, Push, trackerVars, inputVars, addrVars, hopVars
<1>9. CASE TcpBudget
  BY <1>9 DEF TcpBudget, Decides, Fail, Push, trackerVars, inputVars, addrVars, hopVars
<1>10. CASE TcpStart
  BY <1>0, <1>10 DEF TcpStart, Mark, Prepares, trackerVars, inputVars, addrVars, hopVars
<1>11. CASE TcpLate
  BY <1>11 DEF TcpLate, Drops, drop_probe, Fail, Push, trackerVars, inputVars, addrVars, hopVars
<1>12. CASE TcpDial
  BY <1>12 DEF TcpDial, Sends, trackerVars, inputVars, addrVars, hopVars
<1>13. CASE TcpConnected
  BY <1>13 DEF TcpConnected, Ends, Outcome, Push, trackerVars, inputVars, addrVars, hopVars
<1>14. CASE TcpRefused
  BY <1>14 DEF TcpRefused, Ends, Outcome, trackerVars, inputVars, addrVars, hopVars
<1>15. CASE TlsSkipped
  BY <1>15 DEF TlsSkipped, Decides, ProbesTls, Push, trackerVars, inputVars, addrVars, hopVars
<1>16. CASE TlsNotObserved
  BY <1>16 DEF TlsNotObserved, Decides, ProbesTls, Push, trackerVars, inputVars, addrVars, hopVars
<1>17. CASE TlsBudget
  BY <1>17 DEF TlsBudget, Decides, Fail, Push, trackerVars, inputVars, addrVars, hopVars
<1>18. CASE TlsStart
  BY <1>0, <1>18 DEF TlsStart, Mark, Prepares, trackerVars, inputVars, addrVars, hopVars
<1>19. CASE TlsDial
  BY <1>19 DEF TlsDial, Sends, trackerVars, inputVars, addrVars, hopVars
<1>20. CASE TlsLate
  BY <1>20 DEF TlsLate, Drops, drop_probe, Fail, Push, trackerVars, inputVars, addrVars, hopVars
<1>21. CASE TlsUnusable
  BY <1>21 DEF TlsUnusable, Ends, Outcome, Fail, Push, trackerVars, inputVars, addrVars, hopVars
<1>22. CASE TlsConnected
  BY <1>22 DEF TlsConnected, Waits, trackerVars, inputVars, addrVars, hopVars
<1>23. CASE TlsHandshake
  BY <1>23 DEF TlsHandshake, Waits, trackerVars, inputVars, addrVars, hopVars
<1>24. CASE TlsFailed
  BY <1>24 DEF TlsFailed, Ends, Outcome, Fail, Push, trackerVars, inputVars, addrVars, hopVars
<1>25. CASE TlsValidated
  BY <1>25 DEF TlsValidated, Ends, Outcome, Push, trackerVars, inputVars, addrVars, hopVars
<1>26. CASE ReadProgress
  BY <1>26 DEF ReadProgress, Waits, trackerVars, inputVars, addrVars, hopVars
<1>27. CASE HttpUnbuilt
  BY <1>27 DEF HttpUnbuilt, Decides, HttpFail, Fail, Push, trackerVars, inputVars, addrVars, hopVars
<1>28. CASE HttpBuild
  BY <1>28 DEF HttpBuild, Decides, trackerVars, inputVars, addrVars, hopVars
<1>29. CASE HttpBudget
  BY <1>29 DEF HttpBudget, Decides, HttpFail, Fail, Push, trackerVars, inputVars, addrVars, hopVars
<1>30. CASE HttpSend
  BY <1>0, <1>30 DEF HttpSend, Sends, trackerVars, inputVars, addrVars, hopVars
<1>31. CASE HttpError
  BY <1>31 DEF HttpError, Ends, Outcome, HttpFail, Fail, Push, trackerVars, inputVars, addrVars, hopVars
<1>32. CASE BodyFailed
  BY <1>32 DEF BodyFailed, Decides, HttpFail, Fail, Push, trackerVars, inputVars, addrVars, hopVars
<1>33. CASE BodyRead
  <2>1. hops' = Append(hops, response_to_hop(response)) /\ hops \in Seq(Hop)
    BY <1>33 DEF BodyRead, TypeInv, TypeOK, HopTypes
  <2>2. hops' # <<>>
    BY <2>1
  <2>3. /\ UNCHANGED <<probes, active, target, options, env, wire, report>> /\ pc = "body"
        /\ pc' = "finalize" \/ (pc' = "hop" /\ UNCHANGED phases)
    BY <1>33 DEF BodyRead, FinishHttp, inputVars
  <2> QED
    BY <2>2, <2>3 DEF Decides, inputVars
<1>34. CASE HopDenied
  BY <1>34 DEF HopDenied, Decides, FinishHttp, trackerVars, inputVars, addrVars, hopVars
<1>35. CASE HopAccepted
  BY <1>35 DEF HopAccepted, Decides, trackerVars, inputVars, addrVars, hopVars
<1>36. CASE Finalize
  BY <1>36 DEF Finalize, Decides, SealCourse, trackerVars, inputVars, addrVars, hopVars
<1>37. CASE Tick
  BY <1>37 DEF Tick, Waits, trackerVars, inputVars, addrVars, hopVars
<1>38. ASSUME NEW answer \in SUBSET Addresses, DnsAnswer(answer) PROVE Traffic
  BY <1>38 DEF DnsAnswer, Ends, Outcome, ResolveFailed, FinishHttp, Fail, Push, hopVars
<1>39. ASSUME NEW r \in Responses, HttpResponse(r) PROVE Traffic
  BY <1>39 DEF HttpResponse, Ends, Outcome
<1>40. CASE UNCHANGED vars
  BY <1>40 DEF vars, Waits, trackerVars, addrVars, hopVars
<1>41. CASE DnsGrant
  BY <1>41 DEF DnsGrant, Starts, start_probe, KindAt, trackerVars, inputVars, addrVars, hopVars
<1>42. CASE TcpGrant
  BY <1>42 DEF TcpGrant, Starts, start_probe, KindAt, trackerVars, inputVars, addrVars, hopVars
<1>43. CASE TcpMeasure
  BY <1>43 DEF TcpMeasure, Prepares, trackerVars, inputVars, addrVars, hopVars
<1>44. CASE TlsGrant
  BY <1>44 DEF TlsGrant, Starts, start_probe, KindAt, trackerVars, inputVars, addrVars, hopVars
<1>45. CASE TlsMeasure
  BY <1>45 DEF TlsMeasure, Prepares, trackerVars, inputVars, addrVars, hopVars
<1>46. CASE HttpGrant
  BY <1>46 DEF HttpGrant, Starts, start_probe, KindAt, trackerVars, inputVars, addrVars, hopVars
<1> QED
  BY
     <1>1, <1>2, <1>3, <1>4, <1>5, <1>6, <1>7, <1>8, <1>9, <1>10, <1>11, <1>12, <1>13, <1>14,
     <1>15, <1>16, <1>17, <1>18, <1>19, <1>20, <1>21, <1>22, <1>23, <1>24, <1>25, <1>26, <1>27,
     <1>28, <1>29, <1>30, <1>31, <1>32, <1>33, <1>34, <1>35, <1>36, <1>37, <1>38, <1>39, <1>40,
     <1>41, <1>42, <1>43, <1>44, <1>45, <1>46 DEF Next, Step, Terminated
-----------------------------------------------------------------------------
(* Sending and recording                                                   *)

\* What sending adds to the network actions.
LEMMA WireSent ==
    ASSUME wire \in Seq(NetworkAction), NEW address, Send(address)
    PROVE  /\ Len(wire) \in Nat /\ Len(wire') = Len(wire) + 1
           /\ wire'[Len(wire) + 1].kind = active'.kind
           /\ wire'[Len(wire) + 1].slot = active'.sequence
           /\ wire'[Len(wire) + 1].to = address
           /\ \A i \in 1 .. Len(wire) : wire'[i] = wire[i]
<1> DEFINE action == [kind |-> active'.kind, slot |-> active'.sequence, to |-> address, at |-> now]
<1>1. wire' = Append(wire, action)
  BY DEF Send
<1>2. /\ action.kind = active'.kind /\ action.slot = active'.sequence /\ action.to = address
  OBVIOUS
<1> HIDE DEF action
<1>3. /\ Len(wire) \in Nat /\ Len(wire') = Len(wire) + 1
      /\ wire'[Len(wire) + 1] = action
      /\ \A i \in 1 .. Len(wire) : wire'[i] = wire[i]
  BY <1>1
<1> QED
  BY <1>2, <1>3

\* What finish_probe adds to the ledger.
LEMMA ProbeRecorded ==
    ASSUME probes \in Seq(ProbeRecord), NEW outcome, finish_probe(op.started, outcome)
    PROVE  /\ Len(probes) \in Nat /\ Len(probes') = Len(probes) + 1
           /\ probes'[Len(probes) + 1].sequence = active.sequence
           /\ probes'[Len(probes) + 1].kind = active.kind
           /\ probes'[Len(probes) + 1].outcome = outcome
           /\ \A i \in 1 .. Len(probes) : probes'[i] = probes[i]
<1> DEFINE r == [sequence |-> active.sequence, kind |-> active.kind,
                 started_ms |-> active.started_ms, duration_ms |-> now - op.started,
                 outcome |-> outcome]
<1>1. probes' = Append(probes, r)
  BY DEF finish_probe, record
<1>2. r.sequence = active.sequence /\ r.kind = active.kind /\ r.outcome = outcome
  OBVIOUS
<1> HIDE DEF r
<1>3. /\ Len(probes) \in Nat /\ Len(probes') = Len(probes) + 1
      /\ probes'[Len(probes) + 1] = r
      /\ \A i \in 1 .. Len(probes) : probes'[i] = probes[i]
  BY <1>1
<1> QED
  BY <1>2, <1>3

\* What a finished probe adds to the ledger, and that the ledger forgets nothing.
LEMMA RecordGrows ==
    ASSUME probes \in Seq(ProbeRecord), NEW outcome, finish_probe(op.started, outcome)
    PROVE  /\ \A s : s = active.sequence => Recorded(s, outcome)'
           /\ \A s, o : Recorded(s, o) => Recorded(s, o)'
<1>1. /\ Len(probes) \in Nat /\ Len(probes') = Len(probes) + 1
      /\ probes'[Len(probes) + 1].sequence = active.sequence
      /\ probes'[Len(probes) + 1].outcome = outcome
      /\ \A i \in 1 .. Len(probes) : probes'[i] = probes[i]
  BY ProbeRecorded
<1>2. Len(probes) + 1 \in 1 .. Len(probes')
  BY <1>1
<1>3. \A i \in 1 .. Len(probes) : i \in 1 .. Len(probes')
  BY <1>1
<1> QED
  BY <1>1, <1>2, <1>3 DEF Recorded

\* A finished probe lists the action it was started for; the others stay listed.
LEMMA ListGrows ==
    ASSUME probes \in Seq(ProbeRecord), NEW outcome, finish_probe(op.started, outcome), UNCHANGED wire
    PROVE  \A i : Listed(i) \/ (wire[i].slot = active.sequence /\ wire[i].kind = active.kind) =>
                     Listed(i)'
<1>1. /\ Len(probes) \in Nat /\ Len(probes') = Len(probes) + 1
      /\ probes'[Len(probes) + 1].sequence = active.sequence
      /\ probes'[Len(probes) + 1].kind = active.kind
      /\ \A i \in 1 .. Len(probes) : probes'[i] = probes[i]
  BY ProbeRecorded
<1>2. Len(probes) + 1 \in 1 .. Len(probes')
  BY <1>1
<1>3. \A i \in 1 .. Len(probes) : i \in 1 .. Len(probes')
  BY <1>1
<1> QED
  BY <1>1, <1>2, <1>3 DEF Listed
-----------------------------------------------------------------------------
(* The ledger                                                              *)

\* The TLS phase ended because the budget did, with its connection made.
Dropped ==
    /\ pc \in {"finalize", "done"}
    /\ Len(phases) = 5 /\ phases[5] = failed_phase("tls", "budget_exhausted")
    /\ wire[Len(wire)].kind = "tls_handshake"

\* Every network action has its probe in the ledger, but for the last one while its call is
\* in progress or after it was dropped.
LedgerInv ==
    /\ pc \in Probing => active.kind = KindAt(pc)
    /\ pc \in Sent => /\ wire # <<>>
                      /\ wire[Len(wire)].slot = active.sequence
                      /\ wire[Len(wire)].kind = active.kind
    /\ \A i \in 1 .. Len(wire) : Listed(i) \/ (i = Len(wire) /\ (pc \in Sent \/ Dropped))
    /\ ListedOrDropped

\* The code of an inspection that stopped at its TLS phase.
LEMMA TlsVerdict ==
    ASSUME phases \in Seq(Phase), Climbed, Stopped, Len(phases) = 5
    PROVE  failed_at = "tls" /\ failure_code = phases[5].error
<1>1. Rung(1) # "tls" /\ Rung(2) # "tls" /\ Rung(3) # "tls" /\ Rung(4) # "tls" /\ Rung(5) = "tls"
  BY DEF Rung, Ladder!Rungs
<1>2. failed_at = "tls"
  BY <1>1, Verdict
<1>3. \A i \in 1 .. 5 : phases[i].name = Rung(i)
  BY DEF Climbed, Settles
<1>4. \A i \in 1 .. 5 : i = 1 \/ i = 2 \/ i = 3 \/ i = 4 \/ i = 5
  OBVIOUS
<1>5. \A i \in 1 .. 5 : phases[i].name = "tls" <=> i = 5
  BY <1>1, <1>3, <1>4
<1>6. (CHOOSE i \in 1 .. Len(phases) : phases[i].name = failed_at) = 5
  BY <1>2, <1>5
<1> QED
  BY <1>2, <1>6 DEF failure_code

LEMMA LedgerStep == TypeInv /\ LadderInv /\ LedgerInv /\ [Next]_vars => LedgerInv'
<1> SUFFICES ASSUME TypeInv, LadderInv, LedgerInv, [Next]_vars PROVE LedgerInv'
  OBVIOUS
<1>0. /\ probes \in Seq(ProbeRecord) /\ wire \in Seq(NetworkAction) /\ phases \in Seq(Phase)
      /\ Traffic
  BY StepTraffic DEF TypeInv, TypeOK, TrackerTypes, ProgressTypes
<1>1. UNCHANGED <<wire, probes>> => \A i : Listed(i)' <=> Listed(i)
  BY DEF Listed
<1>2. CASE Waits
  <2>1. UNCHANGED <<wire, probes, active, phases, report>>
    BY <1>2 DEF Waits
  <2>2. Dropped' <=> Dropped
    BY <1>2, <2>1 DEF Waits, Dropped, Handshaking
  <2>3. (pc' \in Sent <=> pc \in Sent) /\ (pc' \in Probing <=> pc \in Probing) /\ KindAt(pc') = KindAt(pc)
    BY <1>2 DEF Waits, Handshaking, Sent, Probing, Granted, Begun, KindAt
  <2>4. ListedOrDropped'
    BY <1>1, <1>2, <2>1 DEF Waits, Handshaking, LedgerInv, ListedOrDropped
  <2> QED
    BY <1>1, <2>1, <2>2, <2>3, <2>4 DEF LedgerInv
<1>3. CASE Decides
  <2>1. UNCHANGED <<wire, probes>> /\ pc \notin Sent /\ pc' \notin Probing /\ pc' \notin Sent
    BY <1>3 DEF Decides, Sent, Probing, Begun
  <2>2. CASE SealCourse
    <3>1. UNCHANGED phases /\ report' = finalize_report /\ pc = "finalize" /\ pc' = "done"
      BY <2>2 DEF SealCourse
    <3>2. Dropped' <=> Dropped
      BY <2>1, <3>1 DEF Dropped
    <3>3. Climbed /\ (Stopped \/ RanOn)
      BY <3>1 DEF LadderInv
    <3>4. Dropped => failed_at = "tls" /\ failure_code = "budget_exhausted"
      <4> SUFFICES ASSUME Dropped PROVE failed_at = "tls" /\ failure_code = "budget_exhausted"
        OBVIOUS
      <4>1. Stopped /\ Len(phases) = 5
        BY <3>3 DEF Dropped, RanOn
      <4>2. phases[5].error = "budget_exhausted"
        BY DEF Dropped, failed_phase
      <4> QED
        BY <1>0, <3>3, <4>1, <4>2, TlsVerdict
    <3>5. finalize_report.failed_at = failed_at /\ finalize_report.code = failure_code
      BY DEF finalize_report
    <3>6. ListedOrDropped'
      BY <1>1, <2>1, <3>1, <3>4, <3>5 DEF LedgerInv, ListedOrDropped, Dropped
    <3> QED
      BY <1>1, <2>1, <3>2, <3>6 DEF LedgerInv
  <2>3. CASE pc' # "done" /\ pc \notin {"finalize", "done"}
    BY <1>1, <2>1, <2>3 DEF LedgerInv, ListedOrDropped, Dropped
  <2> QED
    BY <1>3, <2>2, <2>3 DEF Decides
<1>4. CASE Starts \/ Prepares
  <2>1. /\ UNCHANGED <<wire, probes>> /\ pc' \notin Sent /\ pc' # "done"
        /\ pc \notin Sent /\ pc \notin {"finalize", "done"}
    BY <1>4 DEF Starts, Prepares, Sent
  <2>2. active'.kind = KindAt(pc')
    BY <1>4 DEF Starts, Prepares, LedgerInv, Probing, Granted, Begun, KindAt
  <2> QED
    BY <1>1, <2>1, <2>2 DEF LedgerInv, ListedOrDropped, Dropped
<1>5. CASE Sends
  <2>1. /\ UNCHANGED probes /\ \E address : Send(address)
        /\ pc' \in Sent /\ pc' # "done" /\ pc \notin Sent /\ pc \notin {"finalize", "done"}
    BY <1>5 DEF Sends, Sent
  <2>2. active'.kind = KindAt(pc')
    BY <1>5 DEF Sends, LedgerInv, Probing, Granted, Begun, KindAt
  <2>3. /\ Len(wire) \in Nat /\ Len(wire') = Len(wire) + 1
        /\ wire'[Len(wire) + 1].kind = active'.kind
        /\ wire'[Len(wire) + 1].slot = active'.sequence
        /\ \A i \in 1 .. Len(wire) : wire'[i] = wire[i]
    BY <1>0, <2>1, WireSent
  <2>4. wire' # <<>>
    BY <2>3
  <2>5. \A i \in 1 .. Len(wire) : Listed(i)'
    BY <2>1, <2>3 DEF LedgerInv, Dropped, Listed
  <2>6. \A i \in 1 .. Len(wire') : i \in 1 .. Len(wire) \/ i = Len(wire')
    BY <2>3
  <2> QED
    BY <2>1, <2>2, <2>3, <2>4, <2>5, <2>6 DEF LedgerInv, ListedOrDropped
<1>6. CASE Ends
  <2>1. /\ UNCHANGED wire /\ pc \in Sent /\ pc' # "done" /\ pc' \notin Probing
    BY <1>6 DEF Ends, Probing, Granted, Begun
  <2>2. \A i \in 1 .. Len(wire) : Listed(i)'
    <3>1. PICK outcome \in Outcome : finish_probe(op.started, outcome)
      BY <1>6 DEF Ends
    <3>2. \A i : Listed(i) \/ (wire[i].slot = active.sequence /\ wire[i].kind = active.kind) => Listed(i)'
      BY <1>0, <2>1, <3>1, ListGrows
    <3> QED
      BY <2>1, <3>2 DEF LedgerInv, Dropped, Sent, Probing, Granted, Begun
  <2> QED
    BY <2>1, <2>2 DEF LedgerInv, ListedOrDropped, Sent, Probing, Granted, Begun
<1>7. CASE Drops
  <2>1. /\ UNCHANGED <<wire, probes, report>> /\ pc' = "finalize" /\ pc \in {"tcp_cap", "tls_cap", "tls_loop"}
    BY <1>7 DEF Drops
  <2>2. pc' \notin Probing /\ pc' \notin Sent /\ ListedOrDropped'
    BY <2>1 DEF Probing, Granted, Begun, Sent, ListedOrDropped
  <2>3. CASE pc # "tls_loop"
    BY <1>1, <2>1, <2>2, <2>3 DEF LedgerInv, Sent, Dropped
  <2>4. CASE pc = "tls_loop"
    <3>1. Fail("tls", "budget_exhausted") /\ Len(phases) = 4
      BY <1>7, <2>4 DEF Drops, LadderInv, TlsSteps
    <3>2. Len(phases') = 5 /\ phases'[5] = failed_phase("tls", "budget_exhausted")
      BY <1>0, <3>1, Pushed DEF Fail
    <3>3. wire[Len(wire)].kind = "tls_handshake"
      BY <2>4 DEF LedgerInv, Sent, Probing, Begun, KindAt
    <3>4. Dropped'
      BY <2>1, <3>2, <3>3 DEF Dropped
    <3> QED
      BY <1>1, <2>1, <2>2, <3>4 DEF LedgerInv, Dropped
  <2> QED
    BY <2>1, <2>3, <2>4
<1> QED
  BY <1>0, <1>2, <1>3, <1>4, <1>5, <1>6, <1>7 DEF Traffic

\* Whatever the network does, a sealed report lists every network action of its inspection,
\* but for a TLS connection whose handshake the budget left no time to begin.
THEOREM ActionsAreListed == Spec => []ListedOrDropped
<1>1. Init => LedgerInv
  <2> SUFFICES ASSUME Init PROVE LedgerInv
    OBVIOUS
  <2>1. pc = "begin" /\ wire = <<>>
    BY DEF Init
  <2> QED
    BY <2>1 DEF LedgerInv, Probing, Granted, Begun, Sent, ListedOrDropped
<1>2. LedgerInv => ListedOrDropped
  BY DEF LedgerInv
<1> QED
  BY <1>1, <1>2, TypeInvariant, LadderStart, LadderStep, LedgerStep, PTL DEF Spec
-----------------------------------------------------------------------------
(* The endpoint of the first request                                       *)

\* An action of a kind went to an address and ended with an outcome.
Proven(kind, address, outcome) ==
    \E t \in WireOf(kind) : wire[t].to = address /\ Recorded(wire[t].slot, outcome)

\* The steps before the first request.
BeforeRequest ==
    \/ pc \in {"begin", "proxy"} \cup TcpSteps \cup TlsSteps
    \/ pc \in DnsSteps \cup {"build", "http", "http_start"} /\ hops = <<>>

\* Until there is a hop, the route is the one that a dry run would find.
Routed ==
    pc \notin {"begin", "proxy", "rejected", "finalize", "done"} /\ hops = <<>> =>
        proxy = resolve_proxy(env, target, options)

\* Before the first request the selected address has proven itself as far as the
\* inspection has come; afterwards there is a first request.
ProvenInv ==
    /\ BeforeRequest => WireOf("http_request") = {}
    /\ hops # <<>> \/ pc \in {"http_wait", "body"} => WireOf("http_request") # {}
    /\ pc \in Sent \ {"dns_wait"} => wire[Len(wire)].to = selected
    /\ pc \in TlsSteps => Proven("tcp_connect", selected, "connected")
    /\ pc \in {"build", "http", "http_start"} /\ hops = <<>> =>
           /\ Proven("tcp_connect", selected, "connected")
           /\ ProbesTls => Proven("tls_handshake", selected, "validated")
    /\ Routed
    /\ EndpointProvenFirst

\* What sending does to the actions of a kind.
LEMMA WireKept ==
    ASSUME UNCHANGED wire
    PROVE  \A kind : WireOf(kind)' = WireOf(kind)
BY DEF WireOf

LEMMA WireGrows ==
    ASSUME wire \in Seq(NetworkAction), NEW address, Send(address)
    PROVE  \A kind : WireOf(kind)' = WireOf(kind) \cup
                         (IF kind = active'.kind THEN {Len(wire) + 1} ELSE {})
<1>1. /\ Len(wire) \in Nat /\ Len(wire') = Len(wire) + 1
      /\ wire'[Len(wire) + 1].kind = active'.kind
      /\ \A i \in 1 .. Len(wire) : wire'[i] = wire[i]
  BY WireSent
<1>2. \A i : i \in 1 .. Len(wire') <=> i \in 1 .. Len(wire) \/ i = Len(wire) + 1
  BY <1>1
<1>3. \A i \in 1 .. Len(wire) : i # Len(wire) + 1
  BY <1>1
<1> QED
  BY <1>1, <1>2, <1>3 DEF WireOf

\* What was proven stays proven.
LEMMA ProvenKept ==
    ASSUME wire \in Seq(NetworkAction), probes \in Seq(ProbeRecord),
           \/ UNCHANGED <<wire, probes>>
           \/ UNCHANGED probes /\ \E address : Send(address)
           \/ UNCHANGED wire /\ \E outcome : finish_probe(op.started, outcome)
    PROVE  /\ \A kind, address, outcome :
                  Proven(kind, address, outcome) => Proven(kind, address, outcome)'
           /\ \A kind : WireOf(kind) \subseteq WireOf(kind)'
           /\ \A kind : \A t \in WireOf(kind) : wire'[t] = wire[t]
<1>1. /\ \A kind : WireOf(kind) \subseteq WireOf(kind)'
      /\ \A kind : \A t \in WireOf(kind) : wire'[t] = wire[t]
  <2>1. CASE UNCHANGED wire
    BY <2>1, WireKept
  <2>2. CASE \E address : Send(address)
    <3>1. \A i \in 1 .. Len(wire) : wire'[i] = wire[i]
      BY <2>2, WireSent
    <3> QED
      BY <2>2, <3>1, WireGrows DEF WireOf
  <2> QED
    BY <2>1, <2>2
<1>2. \A s, o : Recorded(s, o) => Recorded(s, o)'
  <2>1. CASE UNCHANGED probes
    BY <2>1 DEF Recorded
  <2>2. CASE \E outcome : finish_probe(op.started, outcome)
    BY <2>2, RecordGrows
  <2> QED
    BY <2>1, <2>2
<1> QED
  BY <1>1, <1>2 DEF Proven

\* The property of the first request, by what is proven of the address it goes to.
LEMMA FirstProven ==
    EndpointProvenFirst <=>
        \A h \in WireOf("http_request") :
            (\A g \in WireOf("http_request") : h <= g) =>
                /\ Proven("tcp_connect", wire[h].to, "connected")
                /\ (target.scheme = "https" /\ ~resolve_proxy(env, target, options).selected) =>
                       Proven("tls_handshake", wire[h].to, "validated")
BY DEF EndpointProvenFirst, Proven

\* A request after the first leaves the first one as it was.
LEMMA FirstKept ==
    ASSUME wire \in Seq(NetworkAction), probes \in Seq(ProbeRecord), EndpointProvenFirst,
           UNCHANGED inputVars,
           \/ UNCHANGED <<wire, probes>>
           \/ UNCHANGED probes /\ \E address : Send(address)
           \/ UNCHANGED wire /\ \E outcome : finish_probe(op.started, outcome),
           WireOf("http_request") = {} => WireOf("http_request")' = {}
    PROVE  EndpointProvenFirst'
<1>1. /\ \A kind, address, outcome :
             Proven(kind, address, outcome) => Proven(kind, address, outcome)'
      /\ \A t \in WireOf("http_request") : wire'[t] = wire[t]
  BY ProvenKept
<1>2. \A h \in WireOf("http_request")' :
         (\A g \in WireOf("http_request")' : h <= g) =>
             h \in WireOf("http_request") /\ (\A g \in WireOf("http_request") : h <= g)
  <2>1. CASE WireOf("http_request")' = WireOf("http_request")
    BY <2>1
  <2>2. CASE UNCHANGED wire
    BY <2>2, WireKept
  <2>3. CASE \E address : Send(address)
    <3>1. /\ Len(wire) \in Nat
          /\ \/ WireOf("http_request")' = WireOf("http_request")
             \/ WireOf("http_request")' = WireOf("http_request") \cup {Len(wire) + 1}
      <4>1. PICK address : Send(address)
        BY <2>3
      <4>2. Len(wire) \in Nat
        BY <4>1, WireSent
      <4>3. WireOf("http_request")' = WireOf("http_request") \cup
                (IF "http_request" = active'.kind THEN {Len(wire) + 1} ELSE {})
        BY <4>1, WireGrows
      <4> QED
        BY <4>2, <4>3
    <3>2. \A g \in WireOf("http_request") : g \in Nat /\ g <= Len(wire)
      BY <3>1 DEF WireOf
    <3>3. \A g \in WireOf("http_request") : ~(Len(wire) + 1 <= g)
      BY <3>1, <3>2
    <3> QED
      BY <2>1, <3>1, <3>3
  <2> QED
    BY <2>2, <2>3
<1>3. \A h \in WireOf("http_request")' :
         (\A g \in WireOf("http_request")' : h <= g) =>
             /\ Proven("tcp_connect", wire[h].to, "connected")
             /\ (target.scheme = "https" /\ ~resolve_proxy(env, target, options).selected) =>
                    Proven("tls_handshake", wire[h].to, "validated")
  BY <1>2, FirstProven
<1>4. \A h \in WireOf("http_request")' :
         (\A g \in WireOf("http_request")' : h <= g) =>
             /\ \A a : a = wire[h].to => Proven("tcp_connect", a, "connected")'
             /\ (target.scheme = "https" /\ ~resolve_proxy(env, target, options).selected) =>
                    \A a : a = wire[h].to => Proven("tls_handshake", a, "validated")'
  BY <1>1, <1>3
<1>5. \A h \in WireOf("http_request")' :
         (\A g \in WireOf("http_request")' : h <= g) => wire'[h] = wire[h]
  BY <1>1, <1>2
<1>6. UNCHANGED <<target, env, options>>
  BY DEF inputVars
<1> QED
  BY <1>4, <1>5, <1>6 DEF EndpointProvenFirst, Proven

\* A report that ran on to its end has hops.
HopsInv == Len(phases) = 8 => hops # <<>>

LEMMA HopsStep == TypeInv /\ LadderInv /\ HopsInv /\ [Next]_vars => HopsInv'
<1> SUFFICES ASSUME TypeInv, LadderInv, HopsInv, [Next]_vars, Len(phases') = 8 PROVE hops' # <<>>
  BY DEF HopsInv
<1>0. phases \in Seq(Phase) /\ hops \in Seq(Hop) /\ Course
  BY StepCourse DEF TypeInv, TypeOK, ProgressTypes, HopTypes
<1>1. pc \notin {"finalize", "done"} => Len(phases) # 8 /\ Len(phases) # 7
  BY LadderOpen
<1>2. pc \in {"finalize", "done"} => UNCHANGED <<phases, hops>>
  <2>1. ASSUME InputCourse \/ DnsCourse \/ TcpCourse \/ TlsCourse PROVE pc \notin {"finalize", "done"}
    BY <2>1 DEF InputCourse, DnsCourse, TcpCourse, TlsCourse, DnsSteps, TcpSteps, TlsSteps
  <2>2. ASSUME HttpCourse \/ BodyCourse \/ HopCourse PROVE pc \notin {"finalize", "done"}
    BY <2>2 DEF HttpCourse, BodyCourse, HopCourse, HttpSteps, DnsSteps
  <2> QED
    BY <1>0, <2>1, <2>2 DEF Course, SealCourse
<1>3. CASE pc \in {"finalize", "done"}
  BY <1>2, <1>3 DEF HopsInv
<1>4. CASE pc \notin {"finalize", "done"}
  <2>1. ASSUME NEW phase, NEW next PROVE ~Push(phase, next)
    <3> SUFFICES ASSUME Push(phase, next) PROVE FALSE
      OBVIOUS
    <3>1. Len(phases) \in Nat
      BY <1>0
    <3>2. Len(phases) + 1 = 8
      BY <1>0, Pushed
    <3>3. \A n \in Nat : n + 1 = 8 => n = 7
      OBVIOUS
    <3>4. Len(phases) = 7
      BY <3>1, <3>2, <3>3
    <3> QED
      BY <1>1, <1>4, <3>4
  <2>3. ~UNCHANGED phases /\ \A phase, next : ~Push(phase, next)
    BY <1>1, <1>4, <2>1
  <2>4. ~InputCourse /\ ~DnsCourse /\ ~TcpCourse /\ ~TlsCourse /\ ~HttpCourse /\ ~SealCourse
    BY <2>3 DEF InputCourse, DnsCourse, TcpCourse, TlsCourse, HttpCourse, SealCourse, Fails, Fail
  <2>5. CASE BodyCourse
    <3>1. hops' = Append(hops, response_to_hop(response))
      BY <2>3, <2>5 DEF BodyCourse, Fails, Fail
    <3> QED
      BY <1>0, <3>1
  <2>6. CASE HopCourse
    BY <2>6 DEF HopCourse, LadderInv
  <2> QED
    BY <1>0, <2>3, <2>4, <2>5, <2>6 DEF Course
<1> QED
  BY <1>3, <1>4

\* Hops are gained only from a body and lost only as a whole.
LEMMA HopsMove == TypeInv /\ [Next]_vars => UNCHANGED hops \/ hops' = <<>> \/ pc = "body"
BY StepCourse DEF Course, SealCourse, InputCourse, DnsCourse, TcpCourse, TlsCourse, HttpCourse,
       BodyCourse, HopCourse

\* The endpoint proves itself step by step: each action keeps ProvenInv.
LEMMA ProvenStep ==
    /\ TypeInv /\ LadderInv /\ LadderInv' /\ LedgerInv /\ LedgerInv' /\ ProvenInv
    /\ [Next]_vars
    => ProvenInv'
<1> SUFFICES ASSUME TypeInv, LadderInv, LadderInv', LedgerInv, LedgerInv', ProvenInv, [Next]_vars
             PROVE  ProvenInv'
  OBVIOUS
<1> USE DEF DnsSteps, TcpSteps, TlsSteps, Probing, Granted, Begun, Sent
<1>0. /\ probes \in Seq(ProbeRecord) /\ wire \in Seq(NetworkAction) /\ Traffic
      /\ UNCHANGED <<target, options, env>>
  BY StepTraffic DEF TypeInv, TypeOK, TrackerTypes, ProgressTypes, Traffic, inputVars
<1>1. UNCHANGED hops \/ hops' = <<>> \/ pc = "body"
  BY HopsMove
<1>2. ASSUME UNCHANGED <<wire, probes>>
      PROVE  /\ WireOf("http_request")' = WireOf("http_request")
             /\ \A kind, address, outcome :
                    Proven(kind, address, outcome) => Proven(kind, address, outcome)'
             /\ EndpointProvenFirst'
  BY <1>0, <1>2, WireKept, ProvenKept, FirstKept DEF ProvenInv, inputVars
<1>3. CASE Waits
  <2>1. UNCHANGED <<wire, probes, selected, hops, proxy>> /\ WireOf("http_request")' = WireOf("http_request")
    BY <1>2, <1>3 DEF Waits
  <2>2. ProbesTls' = ProbesTls /\ (BeforeRequest' <=> BeforeRequest)
    BY <1>0, <1>3, <2>1 DEF Waits, ProbesTls, BeforeRequest, Handshaking
  <2>3. Routed'
    BY <1>0, <1>3, <2>1 DEF Waits, Routed, ProvenInv, Handshaking
  <2> QED
    BY <1>2, <1>3, <2>1, <2>2, <2>3 DEF Waits, Handshaking, ProvenInv
<1>4. CASE Decides
  <2>1. UNCHANGED <<wire, probes>> /\ pc' \notin Sent
    BY <1>4 DEF Decides
  <2>2. EndpointProvenFirst' /\ WireOf("http_request")' = WireOf("http_request")
    BY <1>2, <2>1
  <2>3. CASE pc' \in {"proxy", "dns"} /\ UNCHANGED hops
    <3>1. Routed' /\ (BeforeRequest' => BeforeRequest) /\ pc' \notin {"http_wait", "body"}
      BY <1>0, <1>4, <2>3 DEF Decides, Routed, BeforeRequest, SealCourse, LadderInv
    <3> QED
      BY <2>1, <2>2, <2>3, <3>1 DEF ProvenInv
  <2>4. CASE pc = "tls" /\ pc' = "build" /\ ~ProbesTls /\ UNCHANGED <<hops, proxy, selected>>
    <3>1. Routed' /\ BeforeRequest /\ ~ProbesTls'
      BY <1>0, <2>4 DEF Routed, ProvenInv, BeforeRequest, ProbesTls
    <3>2. Proven("tcp_connect", selected, "connected")'
      BY <1>2, <2>1, <2>4 DEF ProvenInv
    <3> QED
      BY <2>1, <2>2, <2>4, <3>1, <3>2 DEF ProvenInv
  <2>5. CASE pc = "build" /\ pc' = "http" /\ UNCHANGED <<hops, proxy, selected>>
    <3>1. Routed' /\ (BeforeRequest' => BeforeRequest) /\ ProbesTls' = ProbesTls
      BY <1>0, <2>5 DEF Routed, ProvenInv, BeforeRequest, ProbesTls
    <3>2. hops = <<>> => /\ Proven("tcp_connect", selected, "connected")'
                         /\ ProbesTls => Proven("tls_handshake", selected, "validated")'
      BY <1>2, <2>1, <2>5 DEF ProvenInv
    <3> QED
      BY <2>1, <2>2, <2>5, <3>1, <3>2 DEF ProvenInv
  <2>6. CASE pc' \in {"hop", "rejected", "finalize", "done"}
    <3>1. Routed' /\ ~BeforeRequest'
      BY <1>4, <2>6 DEF Decides, Routed, BeforeRequest, SealCourse, LadderInv
    <3>2. hops' # <<>> => hops # <<>> \/ pc = "body"
      BY <1>1
    <3> QED
      BY <2>1, <2>2, <2>6, <3>1, <3>2 DEF ProvenInv
  <2>7. CASE pc = "hop" /\ pc' = "dns" /\ UNCHANGED hops
    BY <2>3, <2>7
  <2> QED
    BY <1>4, <2>3, <2>4, <2>5, <2>6, <2>7 DEF Decides, SealCourse
<1>5. CASE Starts \/ Prepares
  <2>1. /\ UNCHANGED <<wire, probes, hops, proxy>> /\ pc' \notin Sent
        /\ pc' \notin {"http_wait", "body", "build", "http"} /\ (BeforeRequest' <=> BeforeRequest)
    BY <1>5 DEF Starts, Prepares, BeforeRequest
  <2>2. Routed'
    BY <1>0, <1>5, <2>1 DEF Starts, Prepares, Routed, ProvenInv
  <2>3. pc' \in TlsSteps => Proven("tcp_connect", selected, "connected")'
    BY <1>2, <1>5, <2>1 DEF Starts, Prepares, ProvenInv
  <2>4. pc' = "http_start" => pc = "http" /\ UNCHANGED selected
    BY <1>5 DEF Starts, Prepares
  <2>5. ProbesTls' <=> ProbesTls
    BY <1>0, <2>1 DEF ProbesTls
  <2>6. pc' = "http_start" /\ hops = <<>> =>
            /\ Proven("tcp_connect", selected, "connected")'
            /\ ProbesTls => Proven("tls_handshake", selected, "validated")'
    BY <1>2, <2>1, <2>4 DEF ProvenInv
  <2> QED
    BY <1>2, <2>1, <2>2, <2>3, <2>5, <2>6 DEF ProvenInv
<1>6. CASE Sends
  <2>0. PICK address : Send(address)
    BY <1>6 DEF Sends
  <2>1. /\ UNCHANGED <<probes, hops, proxy, selected>>
        /\ Len(wire) \in Nat /\ Len(wire') = Len(wire) + 1
        /\ wire'[Len(wire) + 1].to = address
    BY <1>0, <1>6, <2>0, WireSent DEF Sends
  <2>2. \A kind : WireOf(kind)' = WireOf(kind) \cup (IF kind = active'.kind THEN {Len(wire) + 1} ELSE {})
    BY <1>0, <2>0, WireGrows
  <2>3. active'.kind = KindAt(pc') /\ pc' \in Sent
    BY <1>6 DEF Sends, LedgerInv
  <2>4. /\ \A kind, a, outcome : Proven(kind, a, outcome) => Proven(kind, a, outcome)'
        /\ \A t \in WireOf("http_request") : wire'[t] = wire[t]
    BY <1>0, <2>0, <2>1, ProvenKept
  <2>5. pc' # "dns_wait" => wire'[Len(wire')].to = selected'
    <3>1. pc' # "dns_wait" => Send(selected)
      BY <1>6 DEF Sends
    <3> QED
      BY <1>0, <2>1, <3>1, WireSent
  <2>6. CASE pc # "http_start"
    <3>1. pc' # "http_wait" /\ pc' # "body" /\ pc' \notin {"build", "http", "http_start"}
      BY <1>6, <2>6 DEF Sends
    <3>2. WireOf("http_request")' = WireOf("http_request")
      BY <2>2, <2>3, <3>1 DEF KindAt
    <3>3. EndpointProvenFirst'
      BY <1>0, <2>0, <2>1, <3>2, FirstKept DEF ProvenInv, inputVars
    <3>4. Routed' /\ (BeforeRequest' => BeforeRequest)
      BY <1>0, <1>6, <2>1, <2>6 DEF Sends, Routed, ProvenInv, BeforeRequest
    <3>5. pc' \in TlsSteps => Proven("tcp_connect", selected, "connected")'
      BY <1>6, <2>1, <2>4, <2>6 DEF Sends, ProvenInv
    <3> QED
      BY <2>1, <2>5, <3>1, <3>2, <3>3, <3>4, <3>5 DEF ProvenInv
  <2>7. CASE pc = "http_start"
    <3>1. pc' = "http_wait" /\ Send(selected)
      BY <1>6, <2>7 DEF Sends
    <3>2. WireOf("http_request")' = WireOf("http_request") \cup {Len(wire) + 1}
      BY <2>2, <2>3, <3>1 DEF KindAt
    <3>3. Routed' /\ ~BeforeRequest'
      BY <1>0, <2>1, <2>7, <3>1 DEF Routed, ProvenInv, BeforeRequest
    <3>4. CASE WireOf("http_request") # {}
      <4>1. EndpointProvenFirst'
        BY <1>0, <2>0, <2>1, <3>4, FirstKept DEF ProvenInv, inputVars
      <4> QED
        BY <2>5, <3>1, <3>2, <3>3, <4>1 DEF ProvenInv
    <3>5. CASE WireOf("http_request") = {}
      <4>1. hops = <<>> /\ proxy = resolve_proxy(env, target, options)
        BY <2>7, <3>5 DEF ProvenInv, Routed
      <4>2. /\ Proven("tcp_connect", selected, "connected")'
            /\ ProbesTls => Proven("tls_handshake", selected, "validated")'
        BY <2>1, <2>4, <2>7, <4>1 DEF ProvenInv
      <4>3. \A h \in WireOf("http_request")' : wire'[h].to = selected'
        BY <2>1, <2>5, <3>1, <3>2, <3>5
      <4>4. ProbesTls <=> target.scheme = "https" /\ ~resolve_proxy(env, target, options).selected
        BY <4>1 DEF ProbesTls
      <4>5. EndpointProvenFirst'
        BY <1>0, <4>2, <4>3, <4>4 DEF EndpointProvenFirst, Proven
      <4> QED
        BY <2>5, <3>1, <3>2, <3>3, <4>5 DEF ProvenInv
    <3> QED
      BY <3>4, <3>5
  <2> QED
    BY <2>6, <2>7
<1>7. CASE Ends
  <2>1. /\ UNCHANGED wire /\ pc \in Sent /\ pc' \notin Sent
        /\ pc' \in {"tcp", "tls", "build", "body", "finalize"}
    BY <1>7 DEF Ends
  <2>2. PICK outcome \in Outcome : /\ finish_probe(op.started, outcome)
                                   /\ pc' = "tls" => outcome = "connected"
                                   /\ pc = "tls_io" /\ pc' = "build" => outcome = "validated"
    BY <1>7 DEF Ends
  <2>3. /\ \A kind, address, o : Proven(kind, address, o) => Proven(kind, address, o)'
        /\ WireOf("http_request")' = WireOf("http_request")
        /\ \A s : s = active.sequence => Recorded(s, outcome)'
    BY <1>0, <2>1, <2>2, ProvenKept, RecordGrows, WireKept
  <2>4. EndpointProvenFirst'
    BY <1>0, <2>1, <2>2, <2>3, FirstKept DEF ProvenInv, inputVars
  <2>5. pc # "dns_wait" => \A k, a : k = KindAt(pc) /\ a = selected => Proven(k, a, outcome)'
    <3> SUFFICES ASSUME pc # "dns_wait", NEW k, k = KindAt(pc), NEW a, a = selected
                 PROVE  Proven(k, a, outcome)'
      OBVIOUS
    <3> DEFINE t == Len(wire)
    <3>1. Len(wire) \in Nat /\ wire # <<>>
      BY <1>0, <2>1 DEF LedgerInv
    <3>2. t \in 1 .. Len(wire)
      BY <1>0, <3>1
    <3>3. wire[t].slot = active.sequence /\ wire[t].kind = k /\ wire[t].to = a
      BY <2>1 DEF LedgerInv, ProvenInv
    <3>4. Recorded(wire[t].slot, outcome)'
      BY <2>1, <2>3, <3>3 DEF Recorded
    <3> QED
      BY <2>1, <3>2, <3>3, <3>4 DEF Proven, WireOf
  <2>6. Routed'
    BY <1>0, <1>7 DEF Ends, Routed, ProvenInv
  <2>7. BeforeRequest' => BeforeRequest
    BY <1>7, <2>1 DEF Ends, BeforeRequest, LadderInv
  <2>8. pc' \in TlsSteps => Proven("tcp_connect", selected, "connected")'
    <3> SUFFICES ASSUME pc' = "tls" PROVE Proven("tcp_connect", selected, "connected")'
      BY <2>1
    <3>1. pc = "tcp_wait" /\ UNCHANGED selected /\ outcome = "connected"
      BY <1>7, <2>2 DEF Ends
    <3>2. KindAt(pc) = "tcp_connect"
      BY <3>1 DEF KindAt
    <3> QED
      BY <2>5, <3>1, <3>2
  <2>9. pc' = "build" /\ hops' = <<>> =>
            /\ Proven("tcp_connect", selected, "connected")'
            /\ Proven("tls_handshake", selected, "validated")'
    <3> SUFFICES ASSUME pc' = "build", hops' = <<>>
                 PROVE  /\ Proven("tcp_connect", selected, "connected")'
                        /\ Proven("tls_handshake", selected, "validated")'
      OBVIOUS
    <3>1. pc = "tls_io" /\ UNCHANGED selected /\ outcome = "validated"
      BY <1>7, <2>2 DEF Ends
    <3>2. KindAt(pc) = "tls_handshake"
      BY <3>1 DEF KindAt
    <3>3. Proven("tcp_connect", selected, "connected")
      BY <3>1 DEF ProvenInv
    <3> QED
      BY <2>3, <2>5, <3>1, <3>2, <3>3
  <2>10. hops' # <<>> \/ pc' = "body" => hops # <<>> \/ pc \in {"http_wait", "body"}
    BY <1>1, <1>7 DEF Ends
  <2> QED
    BY <2>1, <2>3, <2>4, <2>6, <2>7, <2>8, <2>9, <2>10 DEF ProvenInv
<1>8. CASE Drops
  <2>1. UNCHANGED <<wire, probes, hops>> /\ pc' = "finalize"
    BY <1>8 DEF Drops
  <2>2. Routed' /\ ~BeforeRequest'
    BY <2>1 DEF Routed, BeforeRequest
  <2> QED
    BY <1>2, <2>1, <2>2 DEF ProvenInv
<1> QED
  BY <1>0, <1>3, <1>4, <1>5, <1>6, <1>7, <1>8 DEF Traffic

LEMMA LedgerStart == Init => LedgerInv /\ ProvenInv
<1> SUFFICES ASSUME Init PROVE LedgerInv /\ ProvenInv
  OBVIOUS
<1>1. pc = "begin" /\ wire = <<>> /\ hops = <<>>
  BY DEF Init
<1>2. \A kind : WireOf(kind) = {}
  BY <1>1 DEF WireOf
<1>3. LedgerInv
  BY <1>1 DEF LedgerInv, Probing, Granted, Begun, Sent, ListedOrDropped
<1> QED
  BY <1>1, <1>2, <1>3 DEF ProvenInv, Probing, Granted, Begun, Sent, TlsSteps, Routed, EndpointProvenFirst

\* TCP success, the validated handshake and the first request concern one address, in every
\* inspection.
THEOREM EndpointIsProvenFirst == Spec => []EndpointProvenFirst
<1>1. ProvenInv => EndpointProvenFirst
  BY DEF ProvenInv
<1> QED
  BY <1>1, TypeInvariant, LadderStart, LadderStep, LedgerStart, LedgerStep, ProvenStep, PTL DEF Spec
-----------------------------------------------------------------------------
(* The dry run                                                             *)

\* The handshake that a dry run promises.
PlansTls == target.scheme = "https" /\ ~resolve_proxy(env, target, options).selected

InputAccepted == input_error = ""
PlanAccepted == plan_error(env, target, options) = ""

\* What the plan of the same input says, as far as the inspection has come: the lookup comes
\* first, connections before handshakes, and both before requests.
PlanInv ==
    /\ pc = "proxy" => InputAccepted
    /\ pc = "rejected" => error = plan_error(env, target, options)
    /\ IF pc \in {"begin", "proxy", "rejected"} THEN wire = <<>> ELSE PlanAccepted
    /\ wire # <<>> => wire[1].kind = "dns_lookup"
    /\ pc \in {"dns_wait"} \cup TcpSteps => wire # <<>>
    /\ pc \in TlsSteps \ {"tls"} => ProbesTls
    /\ \A s \in WireOf("tls_handshake") : PlansTls /\ \E t \in WireOf("tcp_connect") : t < s
    /\ \A h \in WireOf("http_request") :
           /\ \E t \in WireOf("tcp_connect") : t < h
           /\ PlansTls => \E s \in WireOf("tls_handshake") : s < h
    /\ pc = "done" /\ report.failed_at \in {"none", "redirects"} => WireOf("http_request") # {}

\* The verdict of an inspection that has no hop.
LEMMA NoHopsVerdict ==
    ASSUME phases \in Seq(Phase), LadderInv, HopsInv, pc = "finalize",
           failed_at \in {"none", "redirects"}
    PROVE  hops # <<>>
<1>1. CASE Stopped
  <2>1. failed_at = Rung(Len(phases))
    BY <1>1, Verdict DEF LadderInv
  <2>2. /\ Rung(3) \notin {"none", "redirects"} /\ Rung(4) \notin {"none", "redirects"}
        /\ Rung(5) \notin {"none", "redirects"} /\ Rung(6) \notin {"none", "redirects"}
    BY DEF Rung, Ladder!Rungs
  <2>3. Len(phases) \in Nat /\ 3 <= Len(phases) /\ Len(phases) <= 6
    BY <1>1 DEF Stopped
  <2>4. \A n \in Nat : 3 <= n /\ n <= 6 => n = 3 \/ n = 4 \/ n = 5 \/ n = 6
    OBVIOUS
  <2>5. Len(phases) = 3 \/ Len(phases) = 4 \/ Len(phases) = 5 \/ Len(phases) = 6
    BY <2>3, <2>4
  <2> QED
    BY <2>1, <2>2, <2>5
<1>2. CASE RanOn
  BY <1>2 DEF RanOn, HopsInv
<1> QED
  BY <1>1, <1>2 DEF LadderInv

\* A step that sends nothing keeps to the plan if its place in the program does.
LEMMA PlanUnsent ==
    ASSUME PlanInv, UNCHANGED <<wire, target, options, env>>,
           pc' = "proxy" => InputAccepted,
           pc' = "rejected" => error' = plan_error(env, target, options),
           IF pc' \in {"begin", "proxy", "rejected"} THEN wire = <<>> ELSE PlanAccepted,
           pc' \in {"dns_wait"} \cup TcpSteps => wire # <<>>,
           pc' \in TlsSteps \ {"tls"} => ProbesTls',
           pc' = "done" /\ report'.failed_at \in {"none", "redirects"} => WireOf("http_request") # {}
    PROVE  PlanInv'
<1>1. /\ (PlansTls' <=> PlansTls) /\ plan_error(env, target, options)' = plan_error(env, target, options)
      /\ (InputAccepted' <=> InputAccepted) /\ (PlanAccepted' <=> PlanAccepted)
  BY DEF PlansTls, InputAccepted, input_error, PlanAccepted
<1>2. \A kind : WireOf(kind)' = WireOf(kind)
  BY WireKept
<1> HIDE DEF TcpSteps, TlsSteps
<1>3. /\ \A s \in WireOf("tls_handshake")' : PlansTls' /\ \E t \in WireOf("tcp_connect")' : t < s
      /\ \A h \in WireOf("http_request")' :
             /\ \E t \in WireOf("tcp_connect")' : t < h
             /\ PlansTls' => \E s \in WireOf("tls_handshake")' : s < h
      /\ wire' # <<>> => wire'[1].kind = "dns_lookup"
  BY <1>1, <1>2 DEF PlanInv
<1> QED
  BY <1>1, <1>2, <1>3 DEF PlanInv

LEMMA PlanStep ==
    /\ TypeInv /\ LadderInv /\ LedgerInv' /\ HopsInv /\ ProvenInv /\ PlanInv
    /\ [Next]_vars
    => PlanInv'
<1> SUFFICES ASSUME TypeInv, LadderInv, LedgerInv', HopsInv, ProvenInv, PlanInv, [Next]_vars
             PROVE  PlanInv'
  OBVIOUS
<1> USE DEF TcpSteps, TlsSteps, Probing, Granted, Begun, Sent, Handshaking
<1>0. /\ wire \in Seq(NetworkAction) /\ phases \in Seq(Phase) /\ Traffic
      /\ UNCHANGED <<target, options, env>>
  BY StepTraffic DEF TypeInv, TypeOK, ProgressTypes, Traffic, inputVars
<1>1. /\ (PlansTls' <=> PlansTls) /\ plan_error(env, target, options)' = plan_error(env, target, options)
      /\ PlanAccepted' <=> PlanAccepted
      /\ UNCHANGED proxy => (ProbesTls' <=> ProbesTls)
  BY <1>0 DEF PlansTls, PlanAccepted, ProbesTls
<1>3. CASE Waits
  <2>1. UNCHANGED <<wire, report, proxy, error>> /\ (pc' = pc \/ (pc \in Handshaking /\ pc' \in Handshaking))
    BY <1>3 DEF Waits
  <2> QED
    BY <1>0, <1>1, <2>1, PlanUnsent DEF PlanInv
<1>4. CASE Decides
  <2>1. UNCHANGED wire /\ pc' \notin Probing
    BY <1>4 DEF Decides
  <2>2. CASE pc = "begin" /\ pc' = "proxy" /\ InputAccepted
    BY <1>0, <2>1, <2>2, PlanUnsent DEF PlanInv
  <2>3. CASE pc = "begin" /\ pc' = "rejected" /\ input_error # "" /\ error' = input_error
    <3>1. plan_error(env, target, options) = input_error
      BY <2>3 DEF plan_error, input_error
    <3> QED
      BY <1>0, <2>1, <2>3, <3>1, PlanUnsent DEF PlanInv
  <2>4. CASE /\ pc = "proxy" /\ pc' = "rejected" /\ resolve_proxy(env, target, options).error # ""
             /\ error' = resolve_proxy(env, target, options).error
    <3>1. plan_error(env, target, options) = resolve_proxy(env, target, options).error
      BY <2>4 DEF plan_error, input_error, InputAccepted, PlanInv
    <3> QED
      BY <1>0, <2>1, <2>4, <3>1, PlanUnsent DEF PlanInv
  <2>5. CASE pc = "proxy" /\ pc' = "dns" /\ resolve_proxy(env, target, options).error = ""
    <3>1. PlanAccepted
      BY <2>5 DEF plan_error, input_error, InputAccepted, PlanAccepted, PlanInv
    <3> QED
      BY <1>0, <2>1, <2>5, <3>1, PlanUnsent
  <2>6. CASE SealCourse
    <3>1. pc = "finalize" /\ pc' = "done" /\ report'.failed_at = failed_at
      BY <2>6 DEF SealCourse, finalize_report
    <3>2. failed_at \in {"none", "redirects"} => WireOf("http_request") # {}
      BY <1>0, <3>1, NoHopsVerdict DEF ProvenInv
    <3> QED
      BY <1>0, <2>1, <3>1, <3>2, PlanUnsent DEF PlanInv
  <2>7. CASE /\ pc \in {"dns", "tcp", "tls", "build", "http", "body", "hop"}
             /\ pc' \in {"build", "http", "hop", "dns", "finalize"}
    BY <1>0, <2>1, <2>7, PlanUnsent DEF PlanInv
  <2> QED
    BY <1>4, <2>2, <2>3, <2>4, <2>5, <2>6, <2>7 DEF Decides, InputAccepted
<1>5. CASE Starts \/ Prepares
  <2>1. /\ UNCHANGED <<wire, proxy>>
        /\ pc' \notin {"proxy", "begin", "rejected", "done", "dns_wait"}
        /\ pc \notin {"proxy", "begin", "rejected", "done"}
    BY <1>5 DEF Starts, Prepares
  <2>2. pc' \in TcpSteps => pc \in TcpSteps
    BY <1>5 DEF Starts, Prepares
  <2>3. pc' \in TlsSteps => ProbesTls'
    BY <1>1, <1>5, <2>1 DEF Starts, Prepares, PlanInv
  <2> QED
    BY <1>0, <2>1, <2>2, <2>3, PlanUnsent DEF PlanInv
<1>6. CASE Sends
  <2>0. PICK address : Send(address)
    BY <1>6 DEF Sends
  <2>1. /\ UNCHANGED <<probes, hops, proxy, selected>>
        /\ Len(wire) \in Nat /\ Len(wire') = Len(wire) + 1
        /\ wire'[Len(wire) + 1].kind = active'.kind
        /\ \A i \in 1 .. Len(wire) : wire'[i] = wire[i]
    BY <1>0, <1>6, <2>0, WireSent DEF Sends
  <2>2. \A kind : WireOf(kind)' = WireOf(kind) \cup (IF kind = active'.kind THEN {Len(wire) + 1} ELSE {})
    BY <1>0, <2>0, WireGrows
  <2>3. active'.kind = KindAt(pc') /\ pc' \in Sent /\ wire' # <<>>
    BY <1>6 DEF Sends, LedgerInv
  <2>4. \A kind : \A i \in WireOf(kind) : i < Len(wire) + 1
    BY <2>1 DEF WireOf
  <2>5. pc \in {"tcp_dial", "tls_dial", "http_start"} => wire # <<>>
    <3>1. wire = <<>> => \A kind : WireOf(kind) = {}
      BY DEF WireOf
    <3>2. pc = "tcp_dial" => wire # <<>>
      BY DEF PlanInv
    <3>3. pc \in {"tls_dial", "http_start"} => \E kind : WireOf(kind) # {}
      BY DEF ProvenInv, Proven
    <3> QED
      BY <3>1, <3>2, <3>3
  <2>6. wire'[1].kind = "dns_lookup"
    <3>1. CASE wire = <<>>
      <4>1. Len(wire) = 0 /\ pc' = "dns_wait"
        BY <1>6, <2>5, <3>1 DEF Sends
      <4> QED
        BY <2>1, <2>3, <4>1 DEF KindAt
    <3>2. CASE wire # <<>>
      <4>1. 1 \in 1 .. Len(wire)
        BY <1>0, <3>2
      <4> QED
        BY <2>1, <3>2, <4>1 DEF PlanInv
    <3> QED
      BY <3>1, <3>2
  <2>7. \A s \in WireOf("tls_handshake")' : PlansTls /\ \E t \in WireOf("tcp_connect")' : t < s
    <3>1. CASE active'.kind # "tls_handshake"
      BY <2>2, <3>1 DEF PlanInv
    <3>2. CASE active'.kind = "tls_handshake"
      <4>1. pc = "tls_dial"
        BY <1>6, <2>3, <3>2 DEF Sends, KindAt
      <4>2. ProbesTls /\ hops = <<>> /\ proxy = resolve_proxy(env, target, options)
        BY <4>1 DEF PlanInv, LadderInv, ProvenInv, Routed
      <4>3. PlansTls
        BY <4>2 DEF PlansTls, ProbesTls
      <4>4. WireOf("tcp_connect") # {}
        BY <4>1 DEF ProvenInv, Proven
      <4>5. \A s \in WireOf("tls_handshake")' : s \in WireOf("tls_handshake") \/ s = Len(wire) + 1
        BY <2>2
      <4> QED
        BY <2>2, <2>4, <4>3, <4>4, <4>5 DEF PlanInv
    <3> QED
      BY <3>1, <3>2
  <2>8. \A h \in WireOf("http_request")' :
            /\ \E t \in WireOf("tcp_connect")' : t < h
            /\ PlansTls => \E s \in WireOf("tls_handshake")' : s < h
    <3>1. CASE active'.kind # "http_request"
      BY <2>2, <3>1 DEF PlanInv
    <3>2. CASE active'.kind = "http_request"
      <4>1. pc = "http_start"
        BY <1>6, <2>3, <3>2 DEF Sends, KindAt
      <4>2. \A h \in WireOf("http_request")' : h \in WireOf("http_request") \/ h = Len(wire) + 1
        BY <2>2
      <4>3. /\ WireOf("tcp_connect") # {}
            /\ PlansTls => WireOf("tls_handshake") # {}
        <5>1. CASE hops = <<>>
          <6>1. ProbesTls <=> PlansTls
            BY <4>1, <5>1 DEF ProvenInv, Routed, ProbesTls, PlansTls
          <6> QED
            BY <4>1, <5>1, <6>1 DEF ProvenInv, Proven
        <5>2. CASE hops # <<>>
          <6>1. WireOf("http_request") # {}
            BY <5>2 DEF ProvenInv
          <6> QED
            BY <6>1 DEF PlanInv
        <5> QED
          BY <5>1, <5>2
      <4> QED
        BY <2>2, <2>4, <4>2, <4>3 DEF PlanInv
    <3> QED
      BY <3>1, <3>2
  <2>9. PlanAccepted
    BY <1>6 DEF Sends, PlanInv
  <2>10. pc' \in TlsSteps => ProbesTls'
    BY <1>1, <1>6, <2>1 DEF Sends, PlanInv
  <2>11. pc' \notin {"begin", "proxy", "rejected", "done"}
    BY <2>3
  <2> QED
    BY <1>1, <2>3, <2>6, <2>7, <2>8, <2>9, <2>10, <2>11 DEF PlanInv
<1>7. CASE Ends
  <2>1. UNCHANGED wire /\ pc \in Sent /\ pc' \in {"tcp", "tls", "build", "body", "finalize"}
    BY <1>7 DEF Ends
  <2>2. pc' = "tcp" => wire # <<>>
    BY <1>7 DEF Ends, PlanInv
  <2> QED
    BY <1>0, <2>1, <2>2, PlanUnsent DEF PlanInv
<1>8. CASE Drops
  <2>1. UNCHANGED wire /\ pc \in Probing /\ pc' = "finalize"
    BY <1>8 DEF Drops
  <2> QED
    BY <1>0, <2>1, PlanUnsent DEF PlanInv
<1> QED
  BY <1>0, <1>3, <1>4, <1>5, <1>6, <1>7, <1>8 DEF Traffic

\* The probes a dry run lists.
LEMMA PlanIs ==
    LET plan == planned_probes(env, target, options) IN
    /\ Len(plan) = 5
    /\ plan[1].kind = "dns_lookup" /\ plan[2].kind = "tcp_connect" /\ plan[3].kind = "tls_handshake"
    /\ plan[4].kind = "http_request"
    /\ ~plan[1].conditional /\ ~plan[2].conditional /\ (~plan[3].conditional <=> PlansTls)
    /\ ~plan[4].conditional /\ plan[5].conditional
<1> DEFINE kinds == << <<"dns_lookup", FALSE>>, <<"tcp_connect", FALSE>>,
                       <<"tls_handshake", target.scheme # "https"
                                             \/ resolve_proxy(env, target, options).selected>>,
                       <<"http_request", FALSE>>, <<"http_request", TRUE>> >>
<1>1. /\ Len(kinds) = 5
      /\ kinds[1][1] = "dns_lookup" /\ kinds[2][1] = "tcp_connect"
      /\ kinds[3][1] = "tls_handshake" /\ kinds[4][1] = "http_request"
      /\ ~kinds[1][2] /\ ~kinds[2][2] /\ (~kinds[3][2] <=> PlansTls) /\ ~kinds[4][2] /\ kinds[5][2]
  BY DEF PlansTls
<1>2. planned_probes(env, target, options) = planned(kinds)
  BY DEF planned_probes
<1> HIDE DEF kinds
<1>3. /\ Len(planned(kinds)) = 5
      /\ \A i \in 1 .. 5 : /\ planned(kinds)[i].kind = kinds[i][1]
                          /\ planned(kinds)[i].conditional = kinds[i][2]
  BY <1>1 DEF planned
<1> QED
  BY <1>1, <1>2, <1>3

\* Keeping to the plan so far is keeping to it.
LEMMA PlanFollowed == TypeInv /\ PlanInv => PlanKept
<1> SUFFICES ASSUME TypeInv, PlanInv PROVE PlanKept
  OBVIOUS
<1> DEFINE plan == planned_probes(env, target, options)
           Promised == {i \in 1 .. Len(plan) : ~plan[i].conditional}
<1>1. /\ Len(plan) = 5
      /\ plan[1].kind = "dns_lookup" /\ plan[2].kind = "tcp_connect" /\ plan[3].kind = "tls_handshake"
      /\ plan[4].kind = "http_request"
      /\ ~plan[1].conditional /\ ~plan[2].conditional /\ (~plan[3].conditional <=> PlansTls)
      /\ ~plan[4].conditional /\ plan[5].conditional
  BY PlanIs
<1> HIDE DEF plan
<1>2. /\ 1 \in Promised /\ 2 \in Promised /\ 4 \in Promised /\ (3 \in Promised <=> PlansTls)
      /\ \A p \in Promised : p = 1 \/ p = 2 \/ p = 3 \/ p = 4
  BY <1>1
<1> HIDE DEF Promised
<1>3. wire \in Seq(NetworkAction) /\ Len(wire) \in Nat
  <2>1. wire \in Seq(NetworkAction)
    BY DEF TypeInv, TypeOK, ProgressTypes
  <2> QED
    BY <2>1
<1>4. \A i \in 1 .. Len(wire) : \E p \in Promised : plan[p].kind = wire[i].kind
  <2> SUFFICES ASSUME NEW i \in 1 .. Len(wire) PROVE \E p \in Promised : plan[p].kind = wire[i].kind
    OBVIOUS
  <2>1. wire[i].kind \in ProbeKind
    <3>1. wire[i] \in NetworkAction
      BY <1>3
    <3> QED
      BY <3>1 DEF NetworkAction
  <2>2. wire[i].kind = "tls_handshake" => PlansTls
    BY DEF PlanInv, WireOf
  <2> QED
    BY <1>1, <1>2, <2>1, <2>2 DEF ProbeKind
<1>5. ASSUME pc = "done", report.failed_at \in {"none", "redirects"},
             NEW p \in Promised, NEW q \in Promised, p < q
      PROVE  \E i, j \in 1 .. Len(wire) :
                 i < j /\ wire[i].kind = plan[p].kind /\ wire[j].kind = plan[q].kind
  <2>1. PICK h \in WireOf("http_request") : TRUE
    BY <1>5 DEF PlanInv
  <2>2. PICK t \in WireOf("tcp_connect") : t < h
    BY DEF PlanInv
  <2>3. /\ h \in 1 .. Len(wire) /\ wire[h].kind = "http_request"
        /\ t \in 1 .. Len(wire) /\ wire[t].kind = "tcp_connect"
    BY DEF WireOf
  <2>4. 1 \in 1 .. Len(wire) /\ wire[1].kind = "dns_lookup"
    BY <1>3, <2>3 DEF PlanInv
  <2>5. 1 < t /\ 1 < h
    BY <1>3, <2>3, <2>4
  <2>6. CASE p # 3 /\ q # 3
    BY <1>1, <1>2, <1>5, <2>2, <2>3, <2>4, <2>5, <2>6
  <2>7. CASE p = 3 \/ q = 3
    <3>1. PlansTls
      BY <1>2, <2>7
    <3>2. PICK s \in WireOf("tls_handshake") : s < h
      BY <3>1 DEF PlanInv
    <3>3. PICK u \in WireOf("tcp_connect") : u < s
      BY DEF PlanInv
    <3>4. /\ s \in 1 .. Len(wire) /\ wire[s].kind = "tls_handshake"
          /\ u \in 1 .. Len(wire) /\ wire[u].kind = "tcp_connect"
      BY DEF WireOf
    <3>5. 1 < s
      BY <1>3, <2>4, <3>4
    <3> QED
      BY <1>1, <1>2, <1>5, <2>3, <2>4, <2>7, <3>2, <3>3, <3>4, <3>5
  <2> QED
    BY <2>6, <2>7
<1> USE DEF plan, Promised
<1>6. pc = "rejected" => error = plan_error(env, target, options)
  BY DEF PlanInv
<1>7. wire # <<>> => plan_error(env, target, options) = ""
  BY DEF PlanInv, PlanAccepted
<1> QED
  BY <1>4, <1>5, <1>6, <1>7 DEF PlanKept

\* The inspection keeps to its dry run, whatever the options, the environment and the network.
THEOREM PlanIsKept == Spec => []PlanKept
<1>1. Init => LedgerInv /\ ProvenInv /\ PlanInv /\ HopsInv
  <2> SUFFICES ASSUME Init PROVE LedgerInv /\ ProvenInv /\ PlanInv /\ HopsInv
    OBVIOUS
  <2>1. pc = "begin" /\ wire = <<>> /\ phases = <<>>
    BY DEF Init
  <2>2. \A kind : WireOf(kind) = {}
    BY <2>1 DEF WireOf
  <2>3. LedgerInv /\ ProvenInv
    BY LedgerStart
  <2>4. PlanInv
    BY <2>1, <2>2 DEF PlanInv, TcpSteps, TlsSteps
  <2>5. HopsInv
    BY <2>1 DEF HopsInv
  <2> QED
    BY <2>3, <2>4, <2>5
<1> QED
  BY <1>1, TypeInvariant, LadderStart, LadderStep, LedgerStep, HopsStep, ProvenStep, PlanStep,
     PlanFollowed, PTL DEF Spec
-----------------------------------------------------------------------------
(* The bytes                                                               *)

\* The sums of the first numbers of b, up to the n-th.
SumsTo(F, b, n) == F = [k \in 0 .. n |-> IF k = 0 THEN 0 ELSE F[k - 1] + b[k]]

\* Induction over the numbers: a set of them that is not empty has a least one.
LEMMA LeastNat ==
    ASSUME NEW T \in SUBSET Nat, T # {}
    PROVE  \E n \in T : \A k \in T : n <= k
<1>1. \E n \in T : \A k \in T : ~(<<k, n>> \in OpToRel(<, Nat))
  BY NatLessThanWellFounded, WFMin
<1>2. \A k, n \in Nat : <<k, n>> \in OpToRel(<, Nat) <=> k < n
  BY DEF OpToRel
<1>3. PICK n \in T : \A k \in T : ~(<<k, n>> \in OpToRel(<, Nat))
  BY <1>1
<1>4. \A k \in T : ~(k < n)
  BY <1>2, <1>3
<1>5. \A k \in T : n <= k
  BY <1>4
<1> QED
  BY <1>5

\* Sums up to any number exist, and agree where both are defined.
LEMMA SumsExist ==
    ASSUME NEW b
    PROVE  \A n \in Nat : \E F : SumsTo(F, b, n)
<1> DEFINE T == {n \in Nat : ~\E F : SumsTo(F, b, n)}
<1> SUFFICES ASSUME T # {} PROVE FALSE
  OBVIOUS
<1>1. PICK n \in T : \A k \in T : n <= k
  BY LeastNat
<1>2. CASE n = 0
  <2>1. SumsTo([k \in 0 .. 0 |-> 0], b, 0)
    BY DEF SumsTo
  <2> QED
    BY <1>2, <2>1
<1>3. CASE n # 0
  <2>1. n - 1 \in Nat /\ n - 1 \notin T
    BY <1>1, <1>3
  <2>2. PICK F : SumsTo(F, b, n - 1)
    BY <2>1
  <2> DEFINE G == [k \in 0 .. n |-> IF k = n THEN F[n - 1] + b[n] ELSE F[k]]
  <2>3. \A k \in 0 .. n : G[k] = IF k = 0 THEN 0 ELSE G[k - 1] + b[k]
    <3> SUFFICES ASSUME NEW k \in 0 .. n PROVE G[k] = IF k = 0 THEN 0 ELSE G[k - 1] + b[k]
      OBVIOUS
    <3>1. CASE k = n
      BY <1>3, <3>1
    <3>2. CASE k # n
      <4>1. k \in 0 .. n - 1 /\ (k # 0 => k - 1 \in 0 .. n /\ k - 1 # n)
        BY <3>2
      <4>2. F[k] = IF k = 0 THEN 0 ELSE F[k - 1] + b[k]
        BY <2>2, <4>1 DEF SumsTo
      <4> QED
        BY <3>2, <4>1, <4>2
    <3> QED
      BY <3>1, <3>2
  <2>4. SumsTo(G, b, n)
    <3> HIDE DEF G
    <3>1. G = [k \in 0 .. n |-> G[k]]
      BY DEF G
    <3> QED
      BY <2>3, <3>1 DEF SumsTo
  <2> QED
    BY <2>4
<1> QED
  BY <1>2, <1>3

LEMMA SumsAgree ==
    ASSUME NEW b, NEW F, NEW G, NEW m \in Nat, NEW n \in Nat, m <= n, SumsTo(F, b, m), SumsTo(G, b, n)
    PROVE  \A k \in 0 .. m : F[k] = G[k]
<1> DEFINE T == {k \in 0 .. m : F[k] # G[k]}
<1> SUFFICES ASSUME T # {} PROVE FALSE
  OBVIOUS
<1>1. PICK k \in T : \A j \in T : k <= j
  <2>1. T \in SUBSET Nat
    OBVIOUS
  <2> HIDE DEF T
  <2> QED
    BY <2>1, LeastNat
<1>2. /\ F[k] = IF k = 0 THEN 0 ELSE F[k - 1] + b[k]
      /\ G[k] = IF k = 0 THEN 0 ELSE G[k - 1] + b[k]
  BY DEF SumsTo
<1>3. k # 0 => k - 1 \in 0 .. m /\ k - 1 \notin T
  BY <1>1
<1>4. k # 0 => F[k - 1] = G[k - 1]
  BY <1>3
<1> QED
  BY <1>2, <1>4

\* The sums of the bytes of the hops are defined, from the first hop on.
BytesAdd ==
    /\ BytesOf[0] = 0
    /\ \A n \in Nat : BytesOf[n + 1] = BytesOf[n] + hops[n + 1].returned_body_bytes

LEMMA BytesUnfold == BytesAdd
<1> DEFINE b == [n \in Nat |-> hops[n].returned_body_bytes]
           Sums(n) == CHOOSE F : SumsTo(F, b, n)
           S == [n \in Nat |-> Sums(n)[n]]
           R(F) == [n \in Nat |-> IF n = 0 THEN 0 ELSE F[n - 1] + hops[n].returned_body_bytes]
<1>1. \A n \in Nat : SumsTo(Sums(n), b, n)
  <2> HIDE DEF b
  <2> QED
    BY SumsExist
<1>2. \A n \in Nat : n # 0 => Sums(n - 1)[n - 1] = Sums(n)[n - 1]
  <2> HIDE DEF b, Sums
  <2> TAKE n \in Nat
  <2> HAVE n # 0
  <2>1. n - 1 \in Nat /\ n - 1 <= n /\ n - 1 \in 0 .. n - 1
    OBVIOUS
  <2> QED
    BY <1>1, <2>1, SumsAgree
<1>3. \A n \in Nat : Sums(n)[n] = IF n = 0 THEN 0 ELSE Sums(n)[n - 1] + b[n]
  <2> HIDE DEF b, Sums
  <2> TAKE n \in Nat
  <2>1. n \in 0 .. n /\ SumsTo(Sums(n), b, n)
    BY <1>1
  <2> QED
    BY <2>1 DEF SumsTo
<1>4. S = R(S)
  <2> HIDE DEF Sums
  <2>1. \A n \in Nat : S[n] = IF n = 0 THEN 0 ELSE S[n - 1] + hops[n].returned_body_bytes
    <3> TAKE n \in Nat
    <3>1. n # 0 => n - 1 \in Nat
      OBVIOUS
    <3> QED
      BY <1>2, <1>3, <3>1
  <2>2. S = [n \in Nat |-> S[n]]
    OBVIOUS
  <2> HIDE DEF S
  <2> QED
    BY <2>1, <2>2
<1> HIDE DEF S
<1>5. BytesOf = R(BytesOf)
  BY <1>4 DEF BytesOf
<1> HIDE DEF b, Sums
<1>6. \A n \in Nat : BytesOf[n] = IF n = 0 THEN 0 ELSE BytesOf[n - 1] + hops[n].returned_body_bytes
  BY <1>5
<1> QED
  <2>1. \A n \in Nat : n + 1 \in Nat /\ n + 1 # 0 /\ (n + 1) - 1 = n
    OBVIOUS
  <2> QED
    BY <1>6, <2>1 DEF BytesAdd

\* A hop more leaves the sums of the hops before it alone.
LEMMA BytesKept ==
    ASSUME hops \in Seq(Hop), NEW hop, hops' = Append(hops, hop)
    PROVE  /\ BytesOf'[Len(hops)] = BytesOf[Len(hops)]
           /\ BytesOf'[Len(hops) + 1] = BytesOf[Len(hops)] + hop.returned_body_bytes
<1>1. /\ Len(hops) \in Nat /\ hops'[Len(hops) + 1] = hop
      /\ \A i \in 1 .. Len(hops) : hops'[i] = hops[i]
  OBVIOUS
<1>2. /\ BytesOf[0] = 0
      /\ \A n \in Nat : BytesOf[n + 1] = BytesOf[n] + hops[n + 1].returned_body_bytes
  BY BytesUnfold DEF BytesAdd
<1>3. /\ BytesOf'[0] = 0
      /\ \A n \in Nat : BytesOf'[n + 1] = BytesOf'[n] + hops'[n + 1].returned_body_bytes
  <2>1. BytesAdd'
    BY BytesUnfold, PTL
  <2> QED
    BY <2>1 DEF BytesAdd
<1> DEFINE T == {n \in 0 .. Len(hops) : BytesOf'[n] # BytesOf[n]}
<1>4. T = {}
  <2> SUFFICES ASSUME T # {} PROVE FALSE
    OBVIOUS
  <2>1. PICK n \in T : \A k \in T : n <= k
    <3>1. T \in SUBSET Nat
      BY <1>1
    <3> HIDE DEF T
    <3> QED
      BY <3>1, LeastNat
  <2>2. n # 0
    BY <1>2, <1>3
  <2>3. /\ n - 1 \in Nat /\ n - 1 \in 0 .. Len(hops) /\ n - 1 \notin T /\ (n - 1) + 1 = n
        /\ n \in 1 .. Len(hops)
    BY <1>1, <2>1, <2>2
  <2>4. BytesOf'[n - 1] = BytesOf[n - 1] /\ hops'[n] = hops[n]
    BY <1>1, <2>3
  <2>5. BytesOf'[n] = BytesOf'[n - 1] + hops'[n].returned_body_bytes
    BY <1>3, <2>3
  <2>6. BytesOf[n] = BytesOf[n - 1] + hops[n].returned_body_bytes
    BY <1>2, <2>3
  <2> QED
    BY <2>4, <2>5, <2>6
<1> QED
  BY <1>1, <1>3, <1>4

\* The bytes read are those of the hops so far; a failed request loses its hops, not its bytes.
BytesInv ==
    /\ response_bytes_read <= (options.max_redirects + 1) * options.max_body_bytes
    /\ pc \notin {"finalize", "done"} =>
           /\ response_bytes_read = BytesOf[Len(hops)]
           /\ response_bytes_read <= Len(hops) * options.max_body_bytes
    /\ pc \in {"finalize", "done"} => Len(phases) = 6 \/ response_bytes_read = BytesOf[Len(hops)]
    /\ pc = "done" => /\ report.response_bytes_read = response_bytes_read
                      /\ Len(phases) = 6 => report.failed_at = "http"

\* A hop accounts for no more than the sample that is kept of its body.
LEMMA HopBytes ==
    ASSUME TypeInv, pc = "body"
    PROVE  /\ response_to_hop(response).returned_body_bytes \in Nat
           /\ response_to_hop(response).returned_body_bytes <= options.max_body_bytes
<1>1. response \in Responses /\ options.max_body_bytes \in Nat
  BY DEF TypeInv, TypeOK, InputTypes, Options, Control
<1>2. response.length \in Nat
  BY <1>1, InputAssumption DEF Response
<1> QED
  BY <1>1, <1>2 DEF response_to_hop, min

\* The arithmetic of one more hop within its limit.
LEMMA Times ==
    /\ \A m, l, x, k \in Nat : x <= l * m /\ l <= k => x <= (k + 1) * m
    /\ \A m, l, x, y \in Nat : x <= l * m /\ y <= m => x + y <= (l + 1) * m
    /\ \A m, l, x, y, k \in Nat : x <= l * m /\ y <= m /\ l <= k => x + y <= (k + 1) * m
<1>1. \A m, l, k \in Nat : l <= k => l * m <= k * m
  <2> SUFFICES ASSUME NEW m \in Nat, NEW l \in Nat, NEW k \in Nat, l <= k PROVE l * m <= k * m
    OBVIOUS
  <2>1. (k - l) \in Nat /\ (k - l) * m \in Nat
    OBVIOUS
  <2>2. k * m = l * m + (k - l) * m
    OBVIOUS
  <2> QED
    BY <2>1, <2>2
<1>2. \A m, k \in Nat : (k + 1) * m = k * m + m /\ k * m \in Nat
  OBVIOUS
<1> QED
  BY <1>1, <1>2

\* Only a body adds to the bytes, and only a failed request loses hops.
LEMMA BytesMove ==
    [Next]_vars =>
        \/ BodyRead
        \/ /\ UNCHANGED response_bytes_read
           /\ UNCHANGED hops \/ (Fails("http") /\ pc \in HttpSteps \cup {"body"})
<1> DEFINE Keeps == UNCHANGED <<response_bytes_read, hops>>
           Loses == UNCHANGED response_bytes_read /\ Fails("http") /\ pc \in HttpSteps \cup {"body"}
<1> SUFFICES ASSUME [Next]_vars PROVE BodyRead \/ Keeps \/ Loses
  OBVIOUS
<1>1. ASSUME \/ RejectInput \/ AcceptInput \/ RejectProxy \/ SelectProxy
             \/ DnsBudget \/ DnsGrant \/ DnsStart \/ DnsError
      PROVE  Keeps
  BY <1>1 DEF RejectInput, AcceptInput, RejectProxy, SelectProxy, DnsBudget, DnsGrant, DnsStart,
              DnsError, trackerVars, hopVars
<1>2. ASSUME \/ TcpExhausted \/ TcpBudget \/ TcpGrant \/ TcpStart \/ TcpLate \/ TcpMeasure
             \/ TcpDial \/ TcpConnected \/ TcpRefused \/ TlsSkipped \/ TlsNotObserved
      PROVE  Keeps
  BY <1>2 DEF TcpExhausted, TcpBudget, TcpGrant, TcpMeasure, TcpStart, TcpLate, TcpDial, TcpConnected, TcpRefused,
              TlsSkipped, TlsNotObserved, trackerVars, hopVars
<1>3. ASSUME \/ TlsBudget \/ TlsGrant \/ TlsStart \/ TlsMeasure \/ TlsDial \/ TlsLate \/ TlsUnusable \/ TlsConnected
             \/ TlsHandshake \/ TlsFailed \/ TlsValidated \/ ReadProgress
      PROVE  Keeps
  BY <1>3 DEF TlsBudget, TlsGrant, TlsMeasure, TlsStart, TlsDial, TlsLate, TlsUnusable, TlsConnected, TlsHandshake,
              TlsFailed, TlsValidated, ReadProgress, trackerVars, hopVars
<1>4. ASSUME HttpUnbuilt \/ HttpBudget \/ HttpError \/ BodyFailed
      PROVE  Loses
  BY <1>4 DEF HttpUnbuilt, HttpBudget, HttpError, BodyFailed, HttpFail, Fails, HttpSteps, trackerVars
<1>5. ASSUME HttpBuild \/ HttpGrant \/ HttpSend \/ HopDenied \/ HopAccepted \/ Finalize \/ Tick \/ UNCHANGED vars
      PROVE  Keeps
  BY <1>5 DEF HttpBuild, HttpGrant, HttpSend, HopDenied, HopAccepted, Finalize, Tick, vars, trackerVars, hopVars
<1>6. ASSUME NEW answer \in SUBSET Addresses, DnsAnswer(answer) PROVE Keeps
  BY <1>6 DEF DnsAnswer, hopVars
<1>7. ASSUME NEW r \in Responses, HttpResponse(r) PROVE Keeps
  BY <1>7 DEF HttpResponse
<1> QED
  BY <1>1, <1>2, <1>3, <1>4, <1>5, <1>6, <1>7 DEF Next, Step, Terminated

\* An inspection that is over is sealed, once, and left alone.
LEMMA FinalStays ==
    ASSUME Course, pc \in {"finalize", "done"} \/ pc' = "done"
    PROVE  SealCourse \/ (UNCHANGED <<pc, phases, probes, hops, report>> /\ pc \in {"finalize", "done"})
<1>1. ASSUME InputCourse \/ DnsCourse \/ TcpCourse \/ TlsCourse
      PROVE  pc \notin {"finalize", "done"} /\ pc' # "done"
  BY <1>1 DEF InputCourse, DnsCourse, TcpCourse, TlsCourse, DnsSteps, TcpSteps, TlsSteps, Push, Fails, Fail
<1>2. ASSUME HttpCourse \/ BodyCourse \/ HopCourse
      PROVE  pc \notin {"finalize", "done"} /\ pc' # "done"
  BY <1>2 DEF HttpCourse, BodyCourse, HopCourse, HttpSteps, DnsSteps, Push, Fails, Fail,
              RedirectsFail, Finished
<1> QED
  BY <1>1, <1>2 DEF Course

LEMMA BytesInvStep ==
    /\ TypeInv /\ TypeInv' /\ LadderInv /\ AttemptsInv /\ BytesInv
    /\ [Next]_vars
    => BytesInv'
<1> SUFFICES ASSUME TypeInv, TypeInv', LadderInv, AttemptsInv, BytesInv, [Next]_vars PROVE BytesInv'
  OBVIOUS
<1> DEFINE m == options.max_body_bytes
           k == options.max_redirects
<1>0. /\ phases \in Seq(Phase) /\ hops \in Seq(Hop) /\ Course /\ Traffic
      /\ response_bytes_read \in Nat /\ UNCHANGED options
  BY StepCourse, StepTraffic DEF TypeInv, TypeOK, ProgressTypes, HopTypes, TrackerTypes, Traffic, inputVars
<1>1. m \in Nat /\ k \in Nat
  BY DEF TypeInv, TypeOK, InputTypes, Options
<1>2. Len(hops) \in Nat
  BY <1>0
<1>3. pc \notin {"finalize", "done", "rejected"} => Len(hops) <= k
  BY DEF AttemptsInv, Over
<1>4. CASE BodyRead
  <2> DEFINE b == response_to_hop(response).returned_body_bytes
  <2>1. /\ pc = "body" /\ hops' = Append(hops, response_to_hop(response))
        /\ response_bytes_read' = response_bytes_read + b
        /\ pc' \in {"finalize", "hop"}
    BY <1>4 DEF BodyRead, total_bytes, FinishHttp
  <2>2. b \in Nat /\ b <= m
    BY <2>1, HopBytes
  <2>3. Len(hops') = Len(hops) + 1
    BY <1>0, <2>1
  <2>4. BytesOf'[Len(hops) + 1] = BytesOf[Len(hops)] + b
    BY <1>0, <2>1, BytesKept
  <2> HIDE DEF b
  <2>5. response_bytes_read = BytesOf[Len(hops)] /\ response_bytes_read <= Len(hops) * m
    BY <2>1 DEF BytesInv
  <2>6. /\ response_bytes_read' <= (Len(hops) + 1) * m
        /\ response_bytes_read' <= (k + 1) * m
    BY <1>0, <1>1, <1>2, <1>3, <2>1, <2>2, <2>5, Times
  <2>7. response_bytes_read' = BytesOf'[Len(hops')]
    BY <2>1, <2>3, <2>4, <2>5
  <2> QED
    BY <1>0, <2>1, <2>3, <2>6, <2>7 DEF BytesInv
<1>5. CASE UNCHANGED response_bytes_read /\ UNCHANGED hops
  <2>1. BytesOf' = BytesOf
    BY <1>5 DEF BytesOf
  <2>2. CASE pc' \notin {"finalize", "done"}
    <3>1. pc \notin {"finalize", "done"}
      BY <1>0, <2>2, FinalStays DEF SealCourse
    <3> QED
      BY <1>0, <1>5, <2>1, <2>2, <3>1 DEF BytesInv
  <2>3. CASE pc' = "finalize" /\ pc # "finalize"
    <3>1. pc \notin {"finalize", "done"}
      BY <1>0, <2>3, FinalStays DEF SealCourse
    <3> QED
      BY <1>0, <1>5, <2>1, <2>3, <3>1 DEF BytesInv
  <2>4. CASE UNCHANGED <<pc, phases, report>> /\ pc \in {"finalize", "done"}
    BY <1>0, <1>5, <2>1, <2>4 DEF BytesInv
  <2>5. CASE SealCourse
    <3>1. /\ pc = "finalize" /\ pc' = "done" /\ UNCHANGED phases
          /\ report'.response_bytes_read = response_bytes_read /\ report'.failed_at = failed_at
      BY <2>5 DEF SealCourse, finalize_report
    <3>2. Len(phases) = 6 => failed_at = "http"
      <4> SUFFICES ASSUME Len(phases) = 6 PROVE failed_at = "http"
        OBVIOUS
      <4>1. Climbed /\ Stopped
        BY <3>1 DEF LadderInv, RanOn
      <4>2. Rung(6) = "http"
        BY DEF Rung, Ladder!Rungs
      <4> QED
        BY <1>0, <4>1, <4>2, Verdict
    <3> QED
      BY <1>0, <1>5, <2>1, <3>1, <3>2 DEF BytesInv
  <2> QED
    BY <1>0, <2>2, <2>3, <2>4, <2>5, FinalStays
<1>6. CASE UNCHANGED response_bytes_read /\ Fails("http") /\ pc \in HttpSteps \cup {"body"}
  <2>1. Len(phases) = 5
    BY <1>6 DEF LadderInv
  <2>2. Len(phases') = 6 /\ pc' = "finalize"
    BY <1>0, <1>6, <2>1, Pushed DEF Fails, Fail
  <2> QED
    BY <1>0, <1>6, <2>2 DEF BytesInv
<1> QED
  BY <1>4, <1>5, <1>6, BytesMove

\* The bytes of an inspection stay within its budget, and in a report they are those of its hops.
THEOREM BytesAreAccounted == Spec => []BytesAccounted
<1>1. Init => BytesInv
  <2> SUFFICES ASSUME Init PROVE BytesInv
    OBVIOUS
  <2>1. /\ pc = "begin" /\ Len(hops) = 0 /\ response_bytes_read = 0
        /\ options.max_body_bytes \in Nat /\ options.max_redirects \in Nat
    <3>1. TypeInv /\ hops = <<>>
      BY TypeInit DEF Init
    <3> QED
      BY <3>1 DEF Init, new_tracker, TypeInv, TypeOK, InputTypes, Options
  <2>2. BytesOf[0] = 0
    BY BytesUnfold DEF BytesAdd
  <2>3. \A m, k \in Nat : 0 <= (k + 1) * m /\ 0 <= 0 * m
    BY Times
  <2> QED
    BY <2>1, <2>2, <2>3 DEF BytesInv
<1>2. BytesInv => BytesAccounted
  BY DEF BytesInv, BytesAccounted
<1>3. Init => AttemptsInv
  BY AttemptsInit
<1> QED
  BY <1>1, <1>2, <1>3, TypeInvariant, LadderStart, LadderStep, AttemptsStep, BytesInvStep, PTL DEF Spec
=============================================================================
