---------------------------- MODULE ReportProofs -----------------------------
(***************************************************************************)
(* What a sealed report says, against what the inspection did: its phases, *)
(* its conclusions and its redirect chain.                                 *)
(***************************************************************************)
EXTENDS EngineProofs, SequenceTheorems

-----------------------------------------------------------------------------
(* The course of an inspection: what a step does to phases, outcomes and   *)
(* hops, by the phase it is taken in.                                      *)

Gains(outcome) == Outcomes' = Outcomes \cup {outcome}

Fails(name) == \E code : Fail(name, code)

\* The http phase passed, the redirects phase ends as it does.
Finished(redirects) ==
    /\ phases' = phases \o <<passed_phase("http"), redirects, skipped_phase("assertions")>>
    /\ pc' = "finalize"

RedirectsFail == \E code : Finished(failed_phase("redirects", code))

InputCourse ==
    /\ UNCHANGED <<probes, hops>>
    /\ \/ pc = "begin" /\ Push(passed_phase("input"), "proxy")
       \/ pc = "proxy" /\ Push(passed_phase("proxy"), "dns")
       \/ pc \in {"begin", "proxy"} /\ pc' = "rejected" /\ UNCHANGED phases

DnsSteps == {"dns", "dns_start", "dns_wait"}

DnsCourse ==
    /\ pc \in DnsSteps /\ hops = <<>> /\ UNCHANGED hops
    /\ \/ pc' \in DnsSteps /\ UNCHANGED <<phases, probes>>
       \/ Push(passed_phase("dns"), "tcp") /\ Gains("resolved")
       \/ Fails("dns") /\ (UNCHANGED probes \/ Gains("resolved") \/ Gains("failed"))

TcpSteps == {"tcp", "tcp_start", "tcp_cap", "tcp_dial", "tcp_wait"}

TcpCourse ==
    /\ pc \in TcpSteps /\ UNCHANGED hops
    /\ \/ pc' \in TcpSteps /\ UNCHANGED phases /\ (UNCHANGED probes \/ Gains("failed"))
       \/ Push(passed_phase("tcp"), "tls") /\ Gains("connected")
       \/ Fails("tcp") /\ UNCHANGED probes

TlsSteps == {"tls", "tls_start", "tls_cap", "tls_dial", "tls_connect", "tls_loop", "tls_io"}

TlsCourse ==
    /\ pc \in TlsSteps /\ UNCHANGED hops
    /\ \/ pc' \in TlsSteps /\ UNCHANGED <<phases, probes>>
       \/ Push(skipped_phase("tls"), "build") /\ UNCHANGED probes
       \/ Push(not_observed_phase("tls"), "build") /\ UNCHANGED probes
       \/ Push(passed_phase("tls"), "build") /\ Gains("validated")
       \/ Fails("tls") /\ (UNCHANGED probes \/ \E o : o # "validated" /\ Gains(o))

HttpSteps == {"build", "http", "http_start", "http_wait"}

HttpCourse ==
    /\ pc \in HttpSteps
    /\ \/ pc' \in HttpSteps /\ UNCHANGED <<phases, probes, hops>>
       \/ pc' = "body" /\ UNCHANGED <<phases, hops>> /\ Gains("response_received")
       \/ Fails("http") /\ hops' = <<>> /\ (UNCHANGED probes \/ Gains("request_failed"))

BodyCourse ==
    /\ pc = "body" /\ UNCHANGED probes
    /\ \/ Fails("http") /\ hops' = <<>>
       \/ /\ hops' = Append(hops, response_to_hop(response))
          /\ \/ RedirectsFail /\ response.redirection
             \/ /\ ~has_next(response)
                /\ Finished(passed_phase("redirects")) \/ Finished(skipped_phase("redirects"))
             \/ has_next(response) /\ pc' = "hop" /\ UNCHANGED phases

HopCourse ==
    /\ UNCHANGED hops
    /\ \/ pc = "hop" /\ UNCHANGED probes
       \/ /\ pc \in DnsSteps /\ hops # <<>>
          /\ UNCHANGED probes \/ Gains("resolved") \/ Gains("failed")
    /\ \/ RedirectsFail
       \/ pc' \in DnsSteps \cup {"build"} /\ UNCHANGED phases

SealCourse ==
    /\ pc = "finalize" /\ pc' = "done"
    /\ report' = finalize_report
    /\ UNCHANGED <<now, response_bytes_read, probes, phases, hops>>

Course ==
    \/ SealCourse
    \/ /\ UNCHANGED report
       /\ \/ InputCourse \/ DnsCourse \/ TcpCourse \/ TlsCourse
          \/ HttpCourse \/ BodyCourse \/ HopCourse
          \/ UNCHANGED <<pc, phases, probes, hops>>

LEMMA FinishGains ==
    ASSUME probes \in Seq(ProbeRecord), NEW outcome, finish_probe(op.started, outcome)
    PROVE  Gains(outcome)
<1> DEFINE r == [sequence |-> active.sequence, kind |-> active.kind,
                 started_ms |-> active.started_ms, duration_ms |-> now - op.started,
                 outcome |-> outcome]
<1>1. r.outcome = outcome /\ probes' = Append(probes, r)
  BY DEF finish_probe, record
<1> HIDE DEF r
<1>2. /\ Len(probes') = Len(probes) + 1 /\ Len(probes) \in Nat
      /\ \A i \in 1 .. Len(probes) : probes'[i] = probes[i]
      /\ probes'[Len(probes) + 1] = r
  BY <1>1
<1> QED
  BY <1>1, <1>2 DEF Gains, Outcomes

\* A resolver error ends the dns phase or the redirects phase.
LEMMA ResolveFailedCourse ==
    ASSUME NEW code, code # "", ResolveFailed(code), UNCHANGED hops
    PROVE  IF hops = <<>> THEN Fails("dns") ELSE RedirectsFail
BY DEF ResolveFailed, Fails, RedirectsFail, FinishHttp, Finished, redirects_phase

LEMMA StepCourse == TypeInv /\ [Next]_vars => Course
<1> SUFFICES ASSUME TypeInv, [Next]_vars PROVE Course
  OBVIOUS
<1>0. probes \in Seq(ProbeRecord)
  BY DEF TypeInv, TypeOK, TrackerTypes
<1> USE DEF Course, DnsSteps, TcpSteps, TlsSteps, HttpSteps
<1>1. CASE RejectInput
  BY <1>1 DEF RejectInput, InputCourse, trackerVars, inputVars, addrVars, hopVars
<1>2. CASE AcceptInput
  BY <1>2 DEF AcceptInput, InputCourse, trackerVars, inputVars, addrVars, hopVars
<1>3. CASE RejectProxy
  BY <1>3 DEF RejectProxy, InputCourse, trackerVars, inputVars, addrVars, hopVars
<1>4. CASE SelectProxy
  BY <1>4 DEF SelectProxy, InputCourse, trackerVars, inputVars, addrVars, hopVars
<1>5. CASE DnsBudget
  <2>1. ResolveFailed("budget_exhausted") /\ UNCHANGED <<hops, probes, report>> /\ pc = "dns"
    BY <1>5 DEF DnsBudget, trackerVars, hopVars
  <2> QED
    BY <2>1, ResolveFailedCourse DEF DnsCourse, HopCourse
<1>6. CASE DnsStart
  BY <1>6 DEF DnsStart, DnsCourse, HopCourse, hopVars
<1>7. CASE DnsError
  <2>1. ResolveFailed("dns_resolution_failed") /\ UNCHANGED <<hops, report>> /\ pc = "dns_wait"
    BY <1>7 DEF DnsError, hopVars
  <2>2. Gains("failed")
    BY <1>7, <1>0, FinishGains DEF DnsError
  <2> QED
    BY <2>1, <2>2, ResolveFailedCourse DEF DnsCourse, HopCourse
<1>8. CASE TcpExhausted
  BY <1>8 DEF TcpExhausted, TcpCourse, Fails, Fail, drop_probe, trackerVars, inputVars, addrVars, hopVars
<1>9. CASE TcpBudget
  BY <1>9 DEF TcpBudget, TcpCourse, Fails, Fail, drop_probe, trackerVars, inputVars, addrVars, hopVars
<1>10. CASE TcpStart
  BY <1>10 DEF TcpStart, TcpCourse, trackerVars, inputVars, addrVars, hopVars
<1>11. CASE TcpLate
  BY <1>11 DEF TcpLate, TcpCourse, Fails, Fail, drop_probe, trackerVars, inputVars, addrVars, hopVars
<1>12. CASE TcpDial
  BY <1>12 DEF TcpDial, TcpCourse, trackerVars, inputVars, addrVars, hopVars
<1>13. CASE TcpConnected
  <2>1. Gains("connected")
    BY <1>13, <1>0, FinishGains DEF TcpConnected
  <2> QED
    BY <1>13, <2>1 DEF TcpConnected, TcpCourse, trackerVars, inputVars, addrVars, hopVars
<1>14. CASE TcpRefused
  <2>1. Gains("failed")
    BY <1>14, <1>0, FinishGains DEF TcpRefused
  <2> QED
    BY <1>14, <2>1 DEF TcpRefused, TcpCourse, trackerVars, inputVars, addrVars, hopVars
<1>15. CASE TlsSkipped
  BY <1>15 DEF TlsSkipped, TlsCourse, trackerVars, inputVars, addrVars, hopVars
<1>16. CASE TlsNotObserved
  BY <1>16 DEF TlsNotObserved, TlsCourse, trackerVars, inputVars, addrVars, hopVars
<1>17. CASE TlsBudget
  BY <1>17 DEF TlsBudget, TlsCourse, Fails, Fail, drop_probe, trackerVars, inputVars, addrVars, hopVars
<1>18. CASE TlsStart
  BY <1>18 DEF TlsStart, TlsCourse, trackerVars, inputVars, addrVars, hopVars
<1>19. CASE TlsDial
  BY <1>19 DEF TlsDial, TlsCourse, trackerVars, inputVars, addrVars, hopVars
<1>20. CASE TlsLate
  BY <1>20 DEF TlsLate, TlsCourse, Fails, Fail, drop_probe, trackerVars, inputVars, addrVars, hopVars
<1>21. CASE TlsUnusable
  <2>1. PICK o \in {"tcp_failed", "invalid_server_name", "configuration_failed"} :
           finish_probe(op.started, o)
    BY <1>21 DEF TlsUnusable
  <2>2. Gains(o)
    BY <1>0, <2>1, FinishGains
  <2> QED
    BY <1>21, <2>2 DEF TlsUnusable, TlsCourse, Fails, trackerVars, inputVars, addrVars, hopVars
<1>22. CASE TlsConnected
  BY <1>22 DEF TlsConnected, TlsCourse, trackerVars, inputVars, addrVars, hopVars
<1>23. CASE TlsHandshake
  BY <1>23 DEF TlsHandshake, TlsCourse, trackerVars, inputVars, addrVars, hopVars
<1>24. CASE TlsFailed
  <2>1. Gains("handshake_failed")
    BY <1>24, <1>0, FinishGains DEF TlsFailed
  <2> QED
    BY <1>24, <2>1 DEF TlsFailed, TlsCourse, Fails, trackerVars, inputVars, addrVars, hopVars
<1>25. CASE TlsValidated
  <2>1. Gains("validated")
    BY <1>25, <1>0, FinishGains DEF TlsValidated
  <2> QED
    BY <1>25, <2>1 DEF TlsValidated, TlsCourse, trackerVars, inputVars, addrVars, hopVars
<1>26. CASE ReadProgress
  BY <1>26 DEF ReadProgress, trackerVars, inputVars, addrVars, hopVars
<1>27. CASE HttpUnbuilt
  BY <1>27 DEF HttpUnbuilt, HttpCourse, HttpFail, Fails, trackerVars, inputVars, addrVars, hopVars
<1>28. CASE HttpBuild
  BY <1>28 DEF HttpBuild, HttpCourse, trackerVars, inputVars, addrVars, hopVars
<1>29. CASE HttpBudget
  BY <1>29 DEF HttpBudget, HttpCourse, HttpFail, Fails, trackerVars, inputVars, addrVars, hopVars
<1>30. CASE HttpSend
  BY <1>30 DEF HttpSend, HttpCourse, trackerVars, inputVars, addrVars, hopVars
<1>31. CASE HttpError
  <2>1. Gains("request_failed")
    BY <1>31, <1>0, FinishGains DEF HttpError
  <2> QED
    BY <1>31, <2>1 DEF HttpError, HttpCourse, HttpFail, Fails, trackerVars, inputVars, addrVars, hopVars
<1>32. CASE BodyFailed
  BY <1>32 DEF BodyFailed, BodyCourse, HttpFail, Fails, trackerVars, inputVars, addrVars, hopVars
<1>33. CASE BodyRead
  <2>1. /\ pc = "body" /\ UNCHANGED <<probes, report>>
        /\ hops' = Append(hops, response_to_hop(response))
    BY <1>33 DEF BodyRead
  <2>2. CASE redirect_error(response) # "" /\ FinishHttp(redirect_error(response), Len(hops) + 1)
    <3>1. response.redirection
      BY <2>2 DEF redirect_error
    <3> QED
      BY <2>1, <2>2, <3>1 DEF BodyCourse, FinishHttp, redirects_phase, RedirectsFail, Finished
  <2>3. CASE ~has_next(response) /\ FinishHttp("", Len(hops) + 1)
    BY <2>1, <2>3 DEF BodyCourse, FinishHttp, redirects_phase, Finished
  <2>4. CASE has_next(response) /\ FinishHttp("redirect_limit_reached", Len(hops) + 1)
    <3>1. response.redirection
      BY <2>4 DEF has_next
    <3> QED
      BY <2>1, <2>4, <3>1 DEF BodyCourse, FinishHttp, redirects_phase, RedirectsFail, Finished
  <2>5. CASE has_next(response) /\ pc' = "hop" /\ UNCHANGED phases
    BY <2>1, <2>5 DEF BodyCourse
  <2> QED
    BY <1>33, <2>2, <2>3, <2>4, <2>5 DEF BodyRead
<1>34. CASE HopDenied
  BY <1>34 DEF HopDenied, HopCourse, FinishHttp, redirects_phase, RedirectsFail, Finished, trackerVars, inputVars, addrVars, hopVars
<1>35. CASE HopAccepted
  BY <1>35 DEF HopAccepted, HopCourse, trackerVars, inputVars, addrVars, hopVars
<1>36. CASE Finalize
  BY <1>36 DEF Finalize, SealCourse, trackerVars, inputVars, addrVars, hopVars
<1>37. CASE Tick
  BY <1>37 DEF Tick, trackerVars, inputVars, addrVars, hopVars
<1>38. ASSUME NEW answer \in SUBSET Addresses, DnsAnswer(answer) PROVE Course
  <2>1. Gains("resolved") /\ pc = "dns_wait" /\ UNCHANGED <<hops, report>>
    BY <1>38, <1>0, FinishGains DEF DnsAnswer, hopVars
  <2>2. CASE \E code : code # "" /\ ResolveFailed(code)
    BY <2>1, <2>2, ResolveFailedCourse DEF DnsCourse, HopCourse
  <2>3. CASE hops = <<>> /\ Push(passed_phase("dns"), "tcp")
    BY <2>1, <2>3 DEF DnsCourse
  <2>4. CASE hops # <<>> /\ pc' = "build" /\ UNCHANGED phases
    BY <2>1, <2>4 DEF HopCourse
  <2> QED
    BY <1>38, <2>2, <2>3, <2>4 DEF DnsAnswer
<1>39. ASSUME NEW r \in Responses, HttpResponse(r) PROVE Course
  <2>1. Gains("response_received")
    BY <1>39, <1>0, FinishGains DEF HttpResponse
  <2> QED
    BY <1>39, <2>1 DEF HttpResponse, HttpCourse, trackerVars, inputVars, addrVars, hopVars
<1>40. CASE UNCHANGED vars
  BY <1>40 DEF vars, trackerVars, trackerVars, inputVars, addrVars, hopVars
<1>41. CASE DnsGrant
  BY <1>41 DEF DnsGrant, DnsCourse, HopCourse, trackerVars, inputVars, addrVars, hopVars
<1>42. CASE TcpGrant
  BY <1>42 DEF TcpGrant, TcpCourse, trackerVars, inputVars, addrVars, hopVars
<1>43. CASE TcpMeasure
  BY <1>43 DEF TcpMeasure, TcpCourse, trackerVars, inputVars, addrVars, hopVars
<1>44. CASE TlsGrant
  BY <1>44 DEF TlsGrant, TlsCourse, trackerVars, inputVars, addrVars, hopVars
<1>45. CASE TlsMeasure
  BY <1>45 DEF TlsMeasure, TlsCourse, trackerVars, inputVars, addrVars, hopVars
<1>46. CASE HttpGrant
  BY <1>46 DEF HttpGrant, HttpCourse, trackerVars, inputVars, addrVars, hopVars
<1> QED
  BY
     <1>1, <1>2, <1>3, <1>4, <1>5, <1>6, <1>7, <1>8, <1>9, <1>10, <1>11, <1>12, <1>13, <1>14,
     <1>15, <1>16, <1>17, <1>18, <1>19, <1>20, <1>21, <1>22, <1>23, <1>24, <1>25, <1>26, <1>27,
     <1>28, <1>29, <1>30, <1>31, <1>32, <1>33, <1>34, <1>35, <1>36, <1>37, <1>38, <1>39, <1>40,
     <1>41, <1>42, <1>43, <1>44, <1>45, <1>46 DEF Next, Step, Terminated
-----------------------------------------------------------------------------
(* The phases climb their ladder                                           *)

Rung(i) == Ladder!Rungs[i]

\* A phase that may be the i-th, passed without an error if it passed.
Settles(i, phase) ==
    /\ phase.name = Rung(i) /\ phase.status \in Ladder!Statuses[i]
    /\ phase.status = "passed" => phase = passed_phase(Rung(i))

Climbed == Len(phases) <= 8 /\ \A i \in 1 .. Len(phases) : Settles(i, phases[i])

Failed(i) == phases[i].status = "failed"

NoneFailed == \A i \in 1 .. Len(phases) : ~Failed(i)

\* The inspection stopped at its last phase, or it got to the end.
Stopped ==
    /\ 3 <= Len(phases) /\ Len(phases) <= 6
    /\ \A i \in 1 .. Len(phases) : Failed(i) <=> i = Len(phases)
RanOn == Len(phases) = 8 /\ \A i \in 1 .. Len(phases) : Failed(i) => i = 7

\* How many phases are settled at each step.
LadderInv ==
    /\ Climbed
    /\ pc \in {"begin"} \cup {"proxy"} \cup TcpSteps \cup TlsSteps => hops = <<>>
    /\ pc = "hop" => hops # <<>>
    /\ pc = "begin" => Len(phases) = 0
    /\ pc = "proxy" => Len(phases) = 1
    /\ pc \in DnsSteps => Len(phases) = (IF hops = <<>> THEN 2 ELSE 5)
    /\ pc \in TcpSteps => Len(phases) = 3
    /\ pc \in TlsSteps => Len(phases) = 4
    /\ pc \in HttpSteps \cup {"body", "hop"} => Len(phases) = 5
    /\ pc = "rejected" => Len(phases) < 2
    /\ IF pc \in {"finalize", "done"} THEN Stopped \/ RanOn ELSE NoneFailed

LEMMA Pushed ==
    ASSUME phases \in Seq(Phase), NEW phase, NEW next, Push(phase, next)
    PROVE  /\ pc' = next
           /\ Len(phases') = Len(phases) + 1 /\ phases'[Len(phases) + 1] = phase
           /\ \A i \in 1 .. Len(phases) : phases'[i] = phases[i]
BY DEF Push

LEMMA FinishedWith ==
    ASSUME phases \in Seq(Phase), NEW redirects, Finished(redirects)
    PROVE  /\ pc' = "finalize"
           /\ Len(phases') = Len(phases) + 3
           /\ phases'[Len(phases) + 1] = passed_phase("http")
           /\ phases'[Len(phases) + 2] = redirects
           /\ phases'[Len(phases) + 3] = skipped_phase("assertions")
           /\ \A i \in 1 .. Len(phases) : phases'[i] = phases[i]
<1> DEFINE a == passed_phase("http")
           c == skipped_phase("assertions")
           tail == <<a, redirects, c>>
           S == Phase \cup {a, redirects, c}
<1>1. phases' = phases \o tail /\ pc' = "finalize"
  BY DEF Finished
<1> HIDE DEF a, c
<1>2. Len(tail) = 3 /\ tail[1] = a /\ tail[2] = redirects /\ tail[3] = c
  OBVIOUS
<1>3. a \in S /\ redirects \in S /\ c \in S /\ Phase \subseteq S
  OBVIOUS
<1> HIDE DEF S
<1>4. phases \in Seq(S) /\ tail \in Seq(S)
  BY <1>3
<1> HIDE DEF tail
<1>5. /\ Len(phases \o tail) = Len(phases) + Len(tail)
      /\ \A i \in 1 .. Len(phases) + Len(tail) :
            (phases \o tail)[i] = IF i <= Len(phases) THEN phases[i] ELSE tail[i - Len(phases)]
  BY <1>4, ConcatProperties
<1>6. Len(phases) \in Nat
  BY <1>4
<1>7. \A i \in 1 .. Len(phases) + 3 :
         phases'[i] = IF i <= Len(phases) THEN phases[i] ELSE tail[i - Len(phases)]
  BY <1>1, <1>2, <1>5
<1> QED
  BY <1>1, <1>2, <1>5, <1>6, <1>7 DEF a, c

\* Each phase as the code builds it is the one of its rung.
LEMMA Rungs ==
    /\ Settles(1, passed_phase("input")) /\ Settles(2, passed_phase("proxy"))
    /\ Settles(3, passed_phase("dns")) /\ Settles(4, passed_phase("tcp"))
    /\ Settles(5, passed_phase("tls")) /\ Settles(5, skipped_phase("tls"))
    /\ Settles(5, not_observed_phase("tls")) /\ Settles(6, passed_phase("http"))
    /\ Settles(7, passed_phase("redirects")) /\ Settles(7, skipped_phase("redirects"))
    /\ Settles(8, skipped_phase("assertions"))
    /\ \A code : /\ Settles(3, failed_phase("dns", code)) /\ Settles(4, failed_phase("tcp", code))
                 /\ Settles(5, failed_phase("tls", code)) /\ Settles(6, failed_phase("http", code))
                 /\ Settles(7, failed_phase("redirects", code))
BY DEF Settles, Rung, Ladder!Rungs, Ladder!Statuses, passed_phase, failed_phase, skipped_phase,
       not_observed_phase

LEMMA ClimbPush ==
    ASSUME phases \in Seq(Phase), Climbed, NoneFailed, NEW phase, NEW next, Push(phase, next),
           Len(phases) < 8, Settles(Len(phases) + 1, phase)
    PROVE  /\ Climbed' /\ Len(phases') = Len(phases) + 1 /\ pc' = next
           /\ phase.status # "failed" => NoneFailed'
           /\ phase.status = "failed" /\ 2 <= Len(phases) /\ Len(phases) <= 5 => Stopped'
<1>1. /\ pc' = next /\ Len(phases) \in Nat
      /\ Len(phases') = Len(phases) + 1 /\ phases'[Len(phases) + 1] = phase
      /\ \A i \in 1 .. Len(phases) : phases'[i] = phases[i]
  BY Pushed
<1>2. \A i \in 1 .. Len(phases') : i \in 1 .. Len(phases) \/ i = Len(phases) + 1
  BY <1>1
<1>3. Climbed'
  BY <1>1, <1>2 DEF Climbed, Settles
<1>4. \A i \in 1 .. Len(phases) : phases'[i].status # "failed"
  BY <1>1 DEF NoneFailed, Failed
<1>5. phase.status # "failed" => NoneFailed'
  BY <1>1, <1>2, <1>4 DEF NoneFailed, Failed
<1>6. phase.status = "failed" /\ 2 <= Len(phases) /\ Len(phases) <= 5 => Stopped'
  <2> SUFFICES ASSUME phase.status = "failed", 2 <= Len(phases), Len(phases) <= 5 PROVE Stopped'
    OBVIOUS
  <2>1. 3 <= Len(phases') /\ Len(phases') <= 6
    BY <1>1
  <2>2. \A i \in 1 .. Len(phases') : phases'[i].status = "failed" <=> i = Len(phases')
    BY <1>1, <1>2, <1>4
  <2> QED
    BY <2>1, <2>2 DEF Stopped, Failed
<1> QED
  BY <1>1, <1>3, <1>5, <1>6

LEMMA ClimbFinish ==
    ASSUME phases \in Seq(Phase), Climbed, NoneFailed, Len(phases) = 5, NEW redirects,
           Finished(redirects), Settles(7, redirects)
    PROVE  /\ Climbed' /\ RanOn' /\ pc' = "finalize"
           /\ phases'[6] = passed_phase("http") /\ phases'[7] = redirects
           /\ \A i \in 1 .. 5 : phases'[i] = phases[i]
<1>1. /\ pc' = "finalize" /\ Len(phases') = 8
      /\ phases'[6] = passed_phase("http") /\ phases'[7] = redirects
      /\ phases'[8] = skipped_phase("assertions")
      /\ \A i \in 1 .. 5 : phases'[i] = phases[i]
  BY FinishedWith
<1>2. \A i \in 1 .. Len(phases') : i \in 1 .. 5 \/ i = 6 \/ i = 7 \/ i = 8
  BY <1>1
<1>3. Settles(6, phases'[6]) /\ Settles(7, phases'[7]) /\ Settles(8, phases'[8])
  BY <1>1, Rungs
<1>4. Climbed'
  BY <1>1, <1>2, <1>3 DEF Climbed, Settles
<1>5. phases'[6].status # "failed" /\ phases'[8].status # "failed"
  <2>1. passed_phase("http").status # "failed" /\ skipped_phase("assertions").status # "failed"
    BY DEF passed_phase, skipped_phase
  <2> QED
    BY <1>1, <2>1
<1>6. RanOn'
  BY <1>1, <1>2, <1>5 DEF RanOn, NoneFailed, Failed
<1> QED
  BY <1>1, <1>4, <1>6

\* What a step does to the ladder, by its course.
LEMMA LadderKept ==
    ASSUME UNCHANGED <<phases, hops>>, LadderInv,
           \/ pc' = pc
           \/ pc \in DnsSteps /\ pc' \in DnsSteps
           \/ pc \in TcpSteps /\ pc' \in TcpSteps
           \/ pc \in TlsSteps /\ pc' \in TlsSteps
           \/ pc \in HttpSteps /\ pc' \in HttpSteps \cup {"body"}
           \/ pc = "finalize" /\ pc' = "done"
           \/ pc \in {"begin", "proxy"} /\ pc' = "rejected"
    PROVE  LadderInv'
BY DEF LadderInv, Climbed, NoneFailed, Failed, Stopped, RanOn, DnsSteps, TcpSteps, TlsSteps, HttpSteps

LEMMA LadderPassed ==
    ASSUME phases \in Seq(Phase), LadderInv, pc \notin {"finalize", "done"},
           NEW phase, NEW next, Push(phase, next), Settles(Len(phases) + 1, phase),
           Len(phases) < 5, UNCHANGED hops, phase.status # "failed",
           \/ Len(phases) = 0 /\ next = "proxy" /\ hops = <<>>
           \/ Len(phases) = 1 /\ next = "dns" /\ hops = <<>>
           \/ Len(phases) = 2 /\ next = "tcp" /\ hops = <<>>
           \/ Len(phases) = 3 /\ next = "tls" /\ hops = <<>>
           \/ Len(phases) = 4 /\ next = "build" /\ hops = <<>>
    PROVE  LadderInv'
<1>1. Climbed' /\ Len(phases') = Len(phases) + 1 /\ pc' = next /\ NoneFailed'
  BY ClimbPush DEF LadderInv
<1>2. hops' = <<>> /\ Len(phases) \in Nat
  BY <1>1
<1> USE DEF LadderInv, DnsSteps, TcpSteps, TlsSteps, HttpSteps
<1>3. CASE Len(phases) = 0
  BY <1>1, <1>2, <1>3
<1>4. CASE Len(phases) = 1
  BY <1>1, <1>2, <1>4
<1>5. CASE Len(phases) = 2
  BY <1>1, <1>2, <1>5
<1>6. CASE Len(phases) = 3
  BY <1>1, <1>2, <1>6
<1>7. CASE Len(phases) = 4
  BY <1>1, <1>2, <1>7
<1> QED
  BY <1>3, <1>4, <1>5, <1>6, <1>7

LEMMA LadderFailed ==
    ASSUME phases \in Seq(Phase), LadderInv, pc \notin {"finalize", "done"},
           NEW name, Fails(name), 2 <= Len(phases), Len(phases) <= 5,
           \A code : Settles(Len(phases) + 1, failed_phase(name, code))
    PROVE  LadderInv'
<1>1. PICK code : Push(failed_phase(name, code), "finalize")
  BY DEF Fails, Fail
<1>2. failed_phase(name, code).status = "failed"
  BY DEF failed_phase
<1>3. Climbed /\ NoneFailed
  BY DEF LadderInv
<1>4. Settles(Len(phases) + 1, failed_phase(name, code))
  OBVIOUS
<1>5. Climbed' /\ pc' = "finalize" /\ Stopped'
  BY <1>1, <1>2, <1>3, <1>4, ClimbPush
<1> QED
  BY <1>5 DEF LadderInv, DnsSteps, TcpSteps, TlsSteps, HttpSteps

LEMMA LadderFinished ==
    ASSUME phases \in Seq(Phase), LadderInv, pc \notin {"finalize", "done"}, Len(phases) = 5,
           \/ RedirectsFail
           \/ Finished(passed_phase("redirects"))
           \/ Finished(skipped_phase("redirects"))
    PROVE  LadderInv'
<1>1. PICK redirects : Finished(redirects) /\ Settles(7, redirects)
  BY Rungs DEF RedirectsFail
<1>2. Climbed' /\ pc' = "finalize" /\ RanOn'
  BY <1>1, ClimbFinish DEF LadderInv
<1> QED
  BY <1>2 DEF LadderInv, DnsSteps, TcpSteps, TlsSteps, HttpSteps

LEMMA LadderStep == TypeInv /\ LadderInv /\ [Next]_vars => LadderInv'
<1> SUFFICES ASSUME TypeInv, LadderInv, [Next]_vars PROVE LadderInv'
  OBVIOUS
<1>0. phases \in Seq(Phase) /\ Course /\ hops \in Seq(Hop)
  BY StepCourse DEF TypeInv, TypeOK, ProgressTypes, HopTypes
<1>1. CASE SealCourse
  BY <1>1, LadderKept DEF SealCourse
<1>2. CASE InputCourse
  <2>1. CASE pc = "begin" /\ Push(passed_phase("input"), "proxy")
    <3>1. Len(phases) = 0 /\ hops = <<>>
      BY <2>1 DEF LadderInv
    <3>2. passed_phase("input").status # "failed"
      BY DEF passed_phase
    <3> QED
      BY <1>0, <1>2, <2>1, <3>1, <3>2, LadderPassed, Rungs DEF InputCourse
  <2>2. CASE pc = "proxy" /\ Push(passed_phase("proxy"), "dns")
    <3>1. Len(phases) = 1 /\ hops = <<>>
      BY <2>2 DEF LadderInv
    <3>2. passed_phase("proxy").status # "failed"
      BY DEF passed_phase
    <3> QED
      BY <1>0, <1>2, <2>2, <3>1, <3>2, LadderPassed, Rungs DEF InputCourse
  <2>3. CASE pc \in {"begin", "proxy"} /\ pc' = "rejected" /\ UNCHANGED phases
    BY <1>2, <2>3, LadderKept DEF InputCourse
  <2> QED
    BY <1>2, <2>1, <2>2, <2>3 DEF InputCourse
<1>3. CASE DnsCourse
  <2>1. Len(phases) = 2 /\ hops = <<>> /\ pc \in DnsSteps /\ UNCHANGED hops
        /\ pc \notin {"finalize", "done"}
    BY <1>3 DEF DnsCourse, DnsSteps, LadderInv
  <2>2. CASE pc' \in DnsSteps /\ UNCHANGED <<phases, probes>>
    BY <2>1, <2>2, LadderKept
  <2>3. CASE Push(passed_phase("dns"), "tcp")
    <3>2. passed_phase("dns").status # "failed"
      BY DEF passed_phase
    <3> QED
      BY <1>0, <2>1, <2>3, <3>2, LadderPassed, Rungs
  <2>4. CASE Fails("dns")
    BY <1>0, <2>1, <2>4, LadderFailed, Rungs
  <2> QED
    BY <1>3, <2>2, <2>3, <2>4 DEF DnsCourse
<1>4. CASE TcpCourse
  <2>1. Len(phases) = 3 /\ hops = <<>> /\ pc \in TcpSteps /\ UNCHANGED hops
        /\ pc \notin {"finalize", "done"}
    BY <1>4 DEF TcpCourse, TcpSteps, LadderInv
  <2>2. CASE pc' \in TcpSteps /\ UNCHANGED phases
    BY <2>1, <2>2, LadderKept
  <2>3. CASE Push(passed_phase("tcp"), "tls")
    <3>2. passed_phase("tcp").status # "failed"
      BY DEF passed_phase
    <3> QED
      BY <1>0, <2>1, <2>3, <3>2, LadderPassed, Rungs
  <2>4. CASE Fails("tcp")
    BY <1>0, <2>1, <2>4, LadderFailed, Rungs
  <2> QED
    BY <1>4, <2>2, <2>3, <2>4 DEF TcpCourse
<1>5. CASE TlsCourse
  <2>1. Len(phases) = 4 /\ hops = <<>> /\ pc \in TlsSteps /\ UNCHANGED hops
        /\ pc \notin {"finalize", "done"}
    BY <1>5 DEF TlsCourse, TlsSteps, LadderInv
  <2>2. CASE pc' \in TlsSteps /\ UNCHANGED <<phases, probes>>
    BY <2>1, <2>2, LadderKept
  <2>3. CASE Push(skipped_phase("tls"), "build")
    <3>2. skipped_phase("tls").status # "failed"
      BY DEF skipped_phase
    <3> QED
      BY <1>0, <2>1, <2>3, <3>2, LadderPassed, Rungs
  <2>4. CASE Push(not_observed_phase("tls"), "build")
    <3>2. not_observed_phase("tls").status # "failed"
      BY DEF not_observed_phase
    <3> QED
      BY <1>0, <2>1, <2>4, <3>2, LadderPassed, Rungs
  <2>5. CASE Push(passed_phase("tls"), "build")
    <3>2. passed_phase("tls").status # "failed"
      BY DEF passed_phase
    <3> QED
      BY <1>0, <2>1, <2>5, <3>2, LadderPassed, Rungs
  <2>6. CASE Fails("tls")
    BY <1>0, <2>1, <2>6, LadderFailed, Rungs
  <2> QED
    BY <1>5, <2>2, <2>3, <2>4, <2>5, <2>6 DEF TlsCourse
<1>6. CASE HttpCourse
  <2>1. Len(phases) = 5 /\ pc \in HttpSteps /\ pc \notin {"finalize", "done"}
    BY <1>6 DEF HttpCourse, HttpSteps, LadderInv
  <2>2. CASE pc' \in HttpSteps \cup {"body"} /\ UNCHANGED <<phases, hops>>
    BY <2>1, <2>2, LadderKept
  <2>3. CASE Fails("http")
    BY <1>0, <2>1, <2>3, LadderFailed, Rungs
  <2> QED
    BY <1>6, <2>2, <2>3 DEF HttpCourse
<1>7. CASE BodyCourse
  <2>1. Len(phases) = 5 /\ pc = "body"
    BY <1>7 DEF BodyCourse, LadderInv
  <2>2. CASE Fails("http")
    BY <1>0, <2>1, <2>2, LadderFailed, Rungs
  <2>3. CASE RedirectsFail \/ Finished(passed_phase("redirects")) \/ Finished(skipped_phase("redirects"))
    BY <1>0, <2>1, <2>3, LadderFinished
  <2>4. CASE hops' = Append(hops, response_to_hop(response)) /\ pc' = "hop" /\ UNCHANGED phases
    <3>1. hops' # <<>>
      BY <1>0, <2>4
    <3> QED
      BY <2>1, <2>4, <3>1 DEF LadderInv, Climbed, NoneFailed, Failed, DnsSteps, TcpSteps, TlsSteps, HttpSteps
  <2> QED
    BY <1>7, <2>2, <2>3, <2>4 DEF BodyCourse
<1>8. CASE HopCourse
  <2>1. /\ Len(phases) = 5 /\ hops # <<>> /\ pc \in {"hop"} \cup DnsSteps /\ UNCHANGED hops
        /\ pc \notin {"finalize", "done"}
    BY <1>8 DEF HopCourse, DnsSteps, LadderInv
  <2>2. CASE RedirectsFail
    BY <1>0, <2>1, <2>2, LadderFinished
  <2>3. CASE pc' \in DnsSteps \cup {"build"} /\ UNCHANGED phases
    BY <2>1, <2>3 DEF LadderInv, Climbed, NoneFailed, Failed, DnsSteps, TcpSteps, TlsSteps, HttpSteps
  <2> QED
    BY <1>8, <2>2, <2>3 DEF HopCourse
<1>9. CASE UNCHANGED <<pc, phases, probes, hops>>
  BY <1>9, LadderKept
<1> QED
  BY <1>0, <1>1, <1>2, <1>3, <1>4, <1>5, <1>6, <1>7, <1>8, <1>9 DEF Course

LEMMA LadderStart == Init => LadderInv
<1> SUFFICES ASSUME Init PROVE LadderInv
  OBVIOUS
<1>1. pc = "begin" /\ phases = <<>> /\ hops = <<>>
  BY DEF Init
<1>2. Len(phases) = 0
  BY <1>1
<1>3. Climbed /\ NoneFailed
  BY <1>2 DEF Climbed, NoneFailed
<1> QED
  BY <1>1, <1>2, <1>3 DEF LadderInv, DnsSteps, TcpSteps, TlsSteps, HttpSteps

\* No two rungs have one name.
LEMMA RungsDiffer ==
    ASSUME NEW i \in 1 .. 8, NEW j \in 1 .. 8, Rung(i) = Rung(j)
    PROVE  i = j /\ Rung(i) # "none"
BY DEF Rung, Ladder!Rungs

\* The inspection failed at its k-th phase, with its code.
Settled(k) == Failed(k) /\ phases[k].name = failed_at /\ phases[k].error = failure_code

\* The verdict of an inspection that is over.
LEMMA Verdict ==
    ASSUME phases \in Seq(Phase), Climbed, Stopped \/ RanOn
    PROVE  /\ Stopped => failed_at = Rung(Len(phases)) /\ Settled(Len(phases))
           /\ RanOn /\ Failed(7) => failed_at = "redirects" /\ Settled(7)
           /\ RanOn /\ ~Failed(7) => failed_at = "none"
<1> DEFINE failed == {i \in 1 .. Len(phases) : phases[i].status = "failed"}
<1>1. \A k \in 1 .. Len(phases) : failed = {k} => failed_at = Rung(k) /\ Settled(k)
  <2> SUFFICES ASSUME NEW k \in 1 .. Len(phases), failed = {k}
               PROVE  failed_at = Rung(k) /\ Settled(k)
    OBVIOUS
  <2>1. (CHOOSE i \in failed : \A j \in failed : i <= j) = k
    OBVIOUS
  <2>2. failed_at = phases[k].name
    BY <2>1 DEF failed_at
  <2>3. phases[k].name = Rung(k) /\ Failed(k) /\ k \in 1 .. 8
    BY DEF Climbed, Settles, Failed
  <2>4. \A i \in 1 .. Len(phases) : phases[i].name = Rung(i) /\ i \in 1 .. 8
    BY DEF Climbed, Settles
  <2>5. \A i \in 1 .. Len(phases) : phases[i].name = failed_at => i = k
    BY <2>2, <2>3, <2>4, RungsDiffer
  <2>6. (CHOOSE i \in 1 .. Len(phases) : phases[i].name = failed_at) = k
    BY <2>2, <2>5
  <2>7. failed_at # "none"
    BY <2>2, <2>3, RungsDiffer
  <2>8. failure_code = phases[k].error
    BY <2>6, <2>7 DEF failure_code
  <2> QED
    BY <2>2, <2>3, <2>8 DEF Settled
<1>2. failed = {} => failed_at = "none"
  BY DEF failed_at
<1>3. Stopped => failed = {Len(phases)} /\ Len(phases) \in 1 .. Len(phases)
  BY DEF Stopped, Failed
<1>4. RanOn /\ Failed(7) => failed = {7} /\ 7 \in 1 .. Len(phases)
  BY DEF RanOn, Failed
<1>5. RanOn /\ ~Failed(7) => failed = {}
  BY DEF RanOn, Failed
<1>6. Rung(7) = "redirects"
  BY DEF Rung, Ladder!Rungs
<1> HIDE DEF failed
<1> QED
  BY <1>1, <1>2, <1>3, <1>4, <1>5, <1>6
-----------------------------------------------------------------------------
(* Redirects                                                               *)

\* Every hop but the last named the next one.
Chain ==
    \A i \in 1 .. Len(hops) :
        hops[i].sequence = i - 1 /\ (i < Len(hops) => has_next(hops[i].response))

\* The last hop names another one.
Open == hops # <<>> /\ has_next(hops[Len(hops)].response)

\* Between hops the chain is open, and it ends open only in a failure of the redirects,
\* which only a response that asks for a redirect brings about.
RedirectsInv ==
    /\ Chain
    /\ pc \notin {"finalize", "done", "rejected"} /\ hops # <<>> => Open
    /\ pc = "finalize" /\ Open => Len(phases) = 8 /\ Failed(7)
    /\ pc = "finalize" /\ hops # <<>> /\ Len(phases) = 8 /\ Failed(7) =>
           hops[Len(hops)].response.redirection
    /\ RedirectsAccounted

LEMMA RedirectsKept ==
    ASSUME RedirectsInv, UNCHANGED <<hops, report>>, pc' # "done",
           pc' = "finalize" => hops = <<>> \/ (Len(phases') = 8 /\ phases'[7].status = "failed"),
           pc \notin {"finalize", "done", "rejected"}
    PROVE  RedirectsInv'
BY DEF RedirectsInv, Chain, Open, has_next, Failed, RedirectsAccounted

LEMMA RedirectsStep == TypeInv /\ LadderInv /\ RedirectsInv /\ [Next]_vars => RedirectsInv'
<1> SUFFICES ASSUME TypeInv, LadderInv, RedirectsInv, [Next]_vars PROVE RedirectsInv'
  OBVIOUS
<1>0. phases \in Seq(Phase) /\ Course /\ hops \in Seq(Hop)
  BY StepCourse DEF TypeInv, TypeOK, ProgressTypes, HopTypes
<1>a. ASSUME RedirectsFail, Len(phases) = 5
      PROVE  pc' = "finalize" /\ Len(phases') = 8 /\ phases'[7].status = "failed"
  <2>1. PICK code : Finished(failed_phase("redirects", code))
    BY <1>a DEF RedirectsFail
  <2>2. pc' = "finalize" /\ Len(phases') = 8 /\ phases'[7] = failed_phase("redirects", code)
    BY <1>0, <1>a, <2>1, FinishedWith
  <2>3. failed_phase("redirects", code).status = "failed"
    BY DEF failed_phase
  <2> QED
    BY <2>2, <2>3
<1>1. CASE SealCourse
  <2>1. /\ report'.http = hops /\ report'.failed_at = failed_at /\ pc' = "done" /\ pc = "finalize"
        /\ UNCHANGED <<phases, hops>>
    BY <1>1 DEF SealCourse, finalize_report
  <2>2. Open => failed_at = "redirects"
    <3> SUFFICES ASSUME Open PROVE failed_at = "redirects"
      OBVIOUS
    <3>1. Len(phases) = 8 /\ Failed(7)
      BY <2>1 DEF RedirectsInv
    <3>2. ~Stopped
      BY <3>1 DEF Stopped
    <3> QED
      BY <1>0, <2>1, <3>1, <3>2, Verdict DEF LadderInv
  <2> QED
    BY <2>1, <2>2 DEF RedirectsInv, Chain, Open, RedirectsAccounted
<1>2. CASE InputCourse /\ UNCHANGED report
  BY <1>2, RedirectsKept DEF InputCourse, Push, RedirectsInv, Chain, Open, RedirectsAccounted
<1>3. CASE DnsCourse /\ UNCHANGED report
  BY <1>3, RedirectsKept DEF DnsCourse, DnsSteps, Push, Fails, Fail
<1>4. CASE TcpCourse /\ UNCHANGED report
  <2>1. hops = <<>> /\ pc \notin {"finalize", "done", "rejected"} /\ UNCHANGED hops
    BY <1>4 DEF TcpCourse, TcpSteps, LadderInv
  <2>2. pc' # "done"
    BY <1>4 DEF TcpCourse, TcpSteps, Push, Fails, Fail
  <2> QED
    BY <1>4, <2>1, <2>2, RedirectsKept
<1>5. CASE TlsCourse /\ UNCHANGED report
  <2>1. hops = <<>> /\ pc \notin {"finalize", "done", "rejected"} /\ UNCHANGED hops
    BY <1>5 DEF TlsCourse, TlsSteps, LadderInv
  <2>2. pc' # "done"
    BY <1>5 DEF TlsCourse, TlsSteps, Push, Fails, Fail
  <2> QED
    BY <1>5, <2>1, <2>2, RedirectsKept
<1>6. CASE HttpCourse /\ UNCHANGED report
  <2>1. CASE UNCHANGED hops /\ pc' \in HttpSteps \cup {"body"}
    BY <1>6, <2>1, RedirectsKept DEF HttpCourse, HttpSteps
  <2>2. CASE Fails("http") /\ hops' = <<>>
    BY <1>6, <2>2 DEF Fails, Fail, Push, RedirectsInv, Chain, Open, RedirectsAccounted
  <2> QED
    BY <1>6, <2>1, <2>2 DEF HttpCourse
<1>7. CASE BodyCourse /\ UNCHANGED report
  <2>0. pc = "body" /\ Len(phases) = 5
    BY <1>7 DEF BodyCourse, LadderInv
  <2>1. CASE Fails("http") /\ hops' = <<>>
    BY <1>7, <2>1 DEF Fails, Fail, Push, RedirectsInv, Chain, Open, RedirectsAccounted
  <2>2. CASE hops' = Append(hops, response_to_hop(response))
    <3> DEFINE h == response_to_hop(response)
    <3>1. h.sequence = Len(hops) /\ h.response = response
      BY DEF response_to_hop
    <3> HIDE DEF h
    <3>2. /\ Len(hops) \in Nat /\ Len(hops') = Len(hops) + 1 /\ hops'[Len(hops) + 1] = h
          /\ \A i \in 1 .. Len(hops) : hops'[i] = hops[i]
      BY <1>0, <2>2 DEF h
    <3>3. hops # <<>> => has_next(hops[Len(hops)].response)
      BY <2>0 DEF RedirectsInv, Open
    <3>4. hops = <<>> => Len(hops) = 0
      OBVIOUS
    <3>5. \A i \in 1 .. Len(hops') : i = Len(hops) + 1 \/ (i \in 1 .. Len(hops) /\ hops # <<>>)
      BY <3>2, <3>4
    <3>6. Chain'
      BY <3>1, <3>2, <3>3, <3>5 DEF Chain, RedirectsInv
    <3>7. Open' <=> has_next(response)
      BY <3>1, <3>2, <1>0 DEF Open
    <3>9. ASSUME NEW phase, phase.status # "failed", Finished(phase)
          PROVE  pc' = "finalize" /\ phases'[7].status # "failed"
      <4>1. pc' = "finalize" /\ phases'[7] = phase
        BY <1>0, <2>0, <3>9, FinishedWith
      <4> QED
        BY <3>9, <4>1
    <3>10. passed_phase("redirects").status # "failed" /\ skipped_phase("redirects").status # "failed"
      BY DEF passed_phase, skipped_phase
    <3>8. \/ pc' = "hop" /\ has_next(response)
          \/ pc' = "finalize" /\ ~has_next(response) /\ phases'[7].status # "failed"
          \/ /\ pc' = "finalize" /\ response.redirection
             /\ Len(phases') = 8 /\ phases'[7].status = "failed"
          \/ pc' = "finalize" /\ hops' = <<>>
      BY <1>7, <1>a, <2>0, <2>2, <3>9, <3>10 DEF BodyCourse, Fails, Fail, Push
    <3>11. hops' # <<>> /\ hops'[Len(hops')].response = response
      BY <3>1, <3>2, <1>0
    <3> QED
      BY <3>6, <3>7, <3>8, <3>11 DEF RedirectsInv, RedirectsAccounted, Failed
  <2> QED
    BY <1>7, <2>1, <2>2 DEF BodyCourse
<1>8. CASE HopCourse /\ UNCHANGED report
  <2>1. Len(phases) = 5 /\ hops # <<>> /\ pc \in {"hop"} \cup DnsSteps /\ UNCHANGED hops
    BY <1>8 DEF HopCourse, DnsSteps, LadderInv
  <2>2. CASE RedirectsFail
    BY <1>8, <1>a, <2>1, <2>2, RedirectsKept DEF DnsSteps
  <2>3. CASE pc' \in DnsSteps \cup {"build"}
    BY <1>8, <2>1, <2>3, RedirectsKept DEF DnsSteps
  <2> QED
    BY <1>8, <2>2, <2>3 DEF HopCourse
<1>9. CASE UNCHANGED <<pc, phases, probes, hops, report>>
  BY <1>9 DEF RedirectsInv, Chain, Open, Failed, RedirectsAccounted
<1> QED
  BY <1>0, <1>1, <1>2, <1>3, <1>4, <1>5, <1>6, <1>7, <1>8, <1>9 DEF Course

LEMMA RedirectsStart == Init => RedirectsInv
<1> SUFFICES ASSUME Init PROVE RedirectsInv
  OBVIOUS
<1>1. pc = "begin" /\ hops = <<>> /\ Len(hops) = 0
  BY DEF Init
<1> QED
  BY <1>1 DEF RedirectsInv, Chain, Open, RedirectsAccounted

\* A redirect is followed or accounted for, in every inspection: a report whose last hop
\* names a next URL says that the redirects failed, and all hops before it were redirects.
THEOREM RedirectsAreAccounted == Spec => []RedirectsAccounted
<1>1. Init => RedirectsInv
  BY RedirectsStart
<1>2. RedirectsInv => RedirectsAccounted
  BY DEF RedirectsInv
<1> QED
  BY <1>1, <1>2, TypeInvariant, LadderStart, LadderStep, RedirectsStep, PTL DEF Spec
-----------------------------------------------------------------------------
(* Conclusions                                                             *)

\* What the ledger holds of a phase that is settled, and does not hold of one that is not.
Borne ==
    /\ Len(phases) < 3 => Outcomes = {}
    /\ Len(phases) = 3 => Outcomes \subseteq {"failed", "resolved"}
    /\ Len(phases) > 3 \/ (Len(phases) = 3 /\ ~Failed(3)) => "resolved" \in Outcomes
    /\ Len(phases) = 4 /\ Failed(4) => "connected" \notin Outcomes
    /\ Len(phases) > 4 \/ (Len(phases) = 4 /\ ~Failed(4)) => "connected" \in Outcomes
    /\ Len(phases) = 4 => "validated" \notin Outcomes
    /\ Len(phases) = 5 /\ Failed(5) => "validated" \notin Outcomes
    /\ Len(phases) >= 5 /\ phases[5].status = "passed" => "validated" \in Outcomes
    /\ hops # <<>> \/ pc = "body" \/ Len(phases) = 8 => "response_received" \in Outcomes
    /\ Len(phases) = 8 /\ Failed(7) => hops # <<>>

ConclusionsInv == Borne /\ ConclusionsSound

LEMMA BorneStep == TypeInv /\ LadderInv /\ Borne /\ [Next]_vars => Borne'
<1> SUFFICES ASSUME TypeInv, LadderInv, Borne, [Next]_vars PROVE Borne'
  OBVIOUS
<1>0. phases \in Seq(Phase) /\ Course /\ hops \in Seq(Hop)
  BY StepCourse DEF TypeInv, TypeOK, ProgressTypes, HopTypes
<1>n. Len(phases) \in Nat
  BY <1>0
<1>o. UNCHANGED probes => UNCHANGED Outcomes
  BY DEF Outcomes
<1>f. \A name, code : failed_phase(name, code).status = "failed"
  BY DEF failed_phase
<1>p. \A name : passed_phase(name).status = "passed"
  BY DEF passed_phase
<1>k. ASSUME UNCHANGED <<phases, hops>>, pc' = "body" => pc = "body" \/ "response_received" \in Outcomes',
             UNCHANGED probes PROVE Borne'
  BY <1>k, <1>o DEF Borne, Failed
<1>1. CASE SealCourse
  BY <1>1, <1>k DEF SealCourse
<1>2. CASE InputCourse
  <2>0. pc \in {"begin", "proxy"} /\ UNCHANGED <<probes, hops>>
    BY <1>2 DEF InputCourse, Push
  <2>1. Len(phases) < 2 /\ hops = <<>>
    <3>1. pc = "begin" => Len(phases) = 0
      BY DEF LadderInv
    <3>2. pc = "proxy" => Len(phases) = 1
      BY DEF LadderInv
    <3>3. hops = <<>>
      BY <2>0 DEF LadderInv
    <3>4. Len(phases) = 0 \/ Len(phases) = 1
      BY <2>0, <3>1, <3>2
    <3>5. CASE Len(phases) = 0
      BY <3>3, <3>5
    <3>6. CASE Len(phases) = 1
      BY <3>3, <3>6
    <3> QED
      BY <3>4, <3>5, <3>6
  <2>2. Outcomes = {} /\ Outcomes' = {}
    BY <1>o, <1>n, <2>0, <2>1 DEF Borne
  <2>3. UNCHANGED phases \/ Len(phases') = Len(phases) + 1
    BY <1>0, <1>2, Pushed DEF InputCourse
  <2>4. Len(phases') \in Nat /\ Len(phases') <= 2
    BY <1>n, <2>1, <2>3
  <2>6. \A n \in Nat : n <= 2 => n # 3 /\ n # 4 /\ n # 5 /\ n # 8 /\ ~(n > 4)
    OBVIOUS
  <2>5. pc' # "body"
    BY <1>2 DEF InputCourse, Push
  <2> QED
    <3>1. hops' = <<>> /\ Outcomes' = {} /\ pc' # "body"
      BY <2>0, <2>1, <2>2, <2>5
    <3>2. Len(phases') < 3 /\ ~(Len(phases') > 3) /\ ~(Len(phases') >= 5)
      BY <2>4
    <3>3. /\ Len(phases') # 3 /\ Len(phases') # 4 /\ Len(phases') # 5 /\ Len(phases') # 8
          /\ ~(Len(phases') > 4)
      BY <2>4, <2>6
    <3> QED
      BY <3>1, <3>2, <3>3 DEF Borne
<1>3. CASE DnsCourse
  <2>0. Len(phases) = 2 /\ hops = <<>> /\ pc \in DnsSteps /\ UNCHANGED hops /\ Outcomes = {}
    <3>1. hops = <<>> /\ pc \in DnsSteps /\ UNCHANGED hops
      BY <1>3 DEF DnsCourse
    <3>2. Len(phases) = 2
      BY <3>1 DEF LadderInv
    <3> QED
      BY <3>1, <3>2 DEF Borne
  <2>1. CASE pc' \in DnsSteps /\ UNCHANGED <<phases, probes>>
    BY <2>0, <2>1, <1>k DEF DnsSteps
  <2>2. CASE Push(passed_phase("dns"), "tcp") /\ Gains("resolved")
    <3>1. Len(phases') = 3 /\ phases'[3].status = "passed" /\ pc' = "tcp" /\ Outcomes' = {"resolved"}
      BY <1>0, <1>p, <2>0, <2>2, Pushed DEF Gains
    <3> QED
      BY <2>0, <3>1 DEF Borne, Failed
  <2>3. CASE Fails("dns") /\ (UNCHANGED probes \/ Gains("resolved") \/ Gains("failed"))
    <3>1. PICK code : Push(failed_phase("dns", code), "finalize")
      BY <2>3 DEF Fails, Fail
    <3>2. Len(phases') = 3 /\ phases'[3].status = "failed" /\ pc' = "finalize"
      BY <1>0, <1>f, <2>0, <3>1, Pushed
    <3>3. Outcomes' \subseteq {"failed", "resolved"}
      BY <2>0, <2>3, <1>o DEF Gains
    <3> QED
      BY <2>0, <3>2, <3>3 DEF Borne, Failed
  <2> QED
    BY <1>3, <2>1, <2>2, <2>3 DEF DnsCourse
<1>4. CASE TcpCourse
  <2>0. /\ Len(phases) = 3 /\ hops = <<>> /\ pc \in TcpSteps /\ UNCHANGED hops
        /\ Outcomes \subseteq {"failed", "resolved"} /\ "resolved" \in Outcomes
    BY <1>4 DEF TcpCourse, TcpSteps, LadderInv, Borne, NoneFailed
  <2>1. CASE pc' \in TcpSteps /\ UNCHANGED phases /\ (UNCHANGED probes \/ Gains("failed"))
    <3>1. Outcomes' \subseteq {"failed", "resolved"} /\ "resolved" \in Outcomes'
      BY <2>0, <2>1, <1>o DEF Gains
    <3> QED
      BY <2>0, <2>1, <3>1 DEF Borne, Failed, TcpSteps
  <2>2. CASE Push(passed_phase("tcp"), "tls") /\ Gains("connected")
    <3>1. /\ Len(phases') = 4 /\ phases'[4].status = "passed" /\ pc' = "tls"
          /\ Outcomes' = Outcomes \cup {"connected"}
      BY <1>0, <1>p, <2>0, <2>2, Pushed DEF Gains
    <3> QED
      BY <2>0, <3>1 DEF Borne, Failed
  <2>3. CASE Fails("tcp") /\ UNCHANGED probes
    <3>1. PICK code : Push(failed_phase("tcp", code), "finalize")
      BY <2>3 DEF Fails, Fail
    <3>2. Len(phases') = 4 /\ phases'[4].status = "failed" /\ pc' = "finalize" /\ Outcomes' = Outcomes
      BY <1>0, <1>f, <1>o, <2>0, <2>3, <3>1, Pushed
    <3> QED
      BY <2>0, <3>2 DEF Borne, Failed
  <2> QED
    BY <1>4, <2>1, <2>2, <2>3 DEF TcpCourse
<1>5. CASE TlsCourse
  <2>0. /\ Len(phases) = 4 /\ hops = <<>> /\ pc \in TlsSteps /\ UNCHANGED hops
        /\ {"resolved", "connected"} \subseteq Outcomes /\ "validated" \notin Outcomes
    <3>1. pc \in TlsSteps /\ UNCHANGED hops /\ pc \notin {"finalize", "done"}
      BY <1>5 DEF TlsCourse, TlsSteps
    <3>2. Len(phases) = 4 /\ hops = <<>> /\ NoneFailed
      BY <3>1 DEF LadderInv
    <3>3. ~Failed(4)
      BY <3>2 DEF NoneFailed
    <3> QED
      BY <3>1, <3>2, <3>3 DEF Borne
  <2>a. ASSUME NEW phase, NEW next, Push(phase, next), next \notin {"body"},
               {"resolved", "connected"} \subseteq Outcomes',
               phase.status = "failed" => "validated" \notin Outcomes',
               phase.status = "passed" => "validated" \in Outcomes'
        PROVE  Borne'
    <3>1. Len(phases') = 5 /\ phases'[5] = phase /\ pc' = next
      BY <1>0, <2>0, <2>a, Pushed
    <3> QED
      BY <2>0, <2>a, <3>1 DEF Borne, Failed
  <2>1. CASE pc' \in TlsSteps /\ UNCHANGED <<phases, probes>>
    BY <2>0, <2>1, <1>k DEF TlsSteps
  <2>2. CASE Push(skipped_phase("tls"), "build") /\ UNCHANGED probes
    <3>1. skipped_phase("tls").status \notin {"passed", "failed"}
      BY DEF skipped_phase
    <3> QED
      BY <1>o, <2>0, <2>2, <2>a, <3>1
  <2>3. CASE Push(not_observed_phase("tls"), "build") /\ UNCHANGED probes
    <3>1. not_observed_phase("tls").status \notin {"passed", "failed"}
      BY DEF not_observed_phase
    <3> QED
      BY <1>o, <2>0, <2>3, <2>a, <3>1
  <2>4. CASE Push(passed_phase("tls"), "build") /\ Gains("validated")
    <3>1. passed_phase("tls").status = "passed"
      BY <1>p
    <3>2. Outcomes' = Outcomes \cup {"validated"}
      BY <2>4 DEF Gains
    <3> QED
      BY <2>0, <2>4, <2>a, <3>1, <3>2
  <2>5. CASE Fails("tls") /\ (UNCHANGED probes \/ \E o : o # "validated" /\ Gains(o))
    <3>1. PICK code : Push(failed_phase("tls", code), "finalize")
      BY <2>5 DEF Fails, Fail
    <3>2. {"resolved", "connected"} \subseteq Outcomes' /\ "validated" \notin Outcomes'
      BY <1>o, <2>0, <2>5 DEF Gains
    <3>3. failed_phase("tls", code).status = "failed"
      BY <1>f
    <3> QED
      BY <2>0, <2>a, <3>1, <3>2, <3>3
  <2> QED
    BY <1>5, <2>1, <2>2, <2>3, <2>4, <2>5 DEF TlsCourse
<1>6. ASSUME Len(phases) = 5, NoneFailed, Outcomes \subseteq Outcomes',
             "response_received" \in Outcomes' \/ (hops' = <<>> /\ pc' # "body" /\ Len(phases') # 8),
             \/ UNCHANGED phases
             \/ Fails("http")
             \/ (\E redirects : Finished(redirects)) /\ hops' # <<>>
      PROVE  Borne'
  <2>0. /\ {"resolved", "connected"} \subseteq Outcomes'
        /\ phases[5].status = "passed" => "validated" \in Outcomes'
    BY <1>6 DEF Borne
  <2>1. CASE UNCHANGED phases
    <3>1. phases'[5].status # "failed" /\ Len(phases') = 5 /\ phases'[5] = phases[5]
      BY <1>6, <2>1 DEF NoneFailed, Failed
    <3> QED
      BY <1>6, <2>0, <3>1 DEF Borne, Failed
  <2>2. ASSUME Len(phases') = 6 \/ Len(phases') = 8, phases'[5] = phases[5],
               hops' # <<>> \/ Len(phases') = 6
        PROVE  Borne'
    <3>1. CASE Len(phases') = 6
      BY <1>6, <2>0, <2>2, <3>1 DEF Borne
    <3>2. CASE Len(phases') = 8 /\ hops' # <<>>
      BY <1>6, <2>0, <2>2, <3>2 DEF Borne
    <3> QED
      BY <2>2, <3>1, <3>2
  <2>3. CASE Fails("http")
    <3>1. PICK code : Push(failed_phase("http", code), "finalize")
      BY <2>3 DEF Fails, Fail
    <3> QED
      BY <1>0, <1>6, <2>2, <3>1, Pushed
  <2>4. CASE (\E redirects : Finished(redirects)) /\ hops' # <<>>
    <3>1. PICK redirects : Finished(redirects)
      BY <2>4
    <3> QED
      BY <1>0, <1>6, <2>2, <2>4, <3>1, FinishedWith
  <2> QED
    BY <1>6, <2>1, <2>3, <2>4
<1>7. CASE HttpCourse
  <2>0. Len(phases) = 5 /\ pc \in HttpSteps /\ NoneFailed
    BY <1>7 DEF HttpCourse, HttpSteps, LadderInv
  <2>1. CASE pc' \in HttpSteps /\ UNCHANGED <<phases, probes, hops>>
    BY <2>0, <2>1, <1>k DEF HttpSteps
  <2>2. CASE pc' = "body" /\ UNCHANGED <<phases, hops>> /\ Gains("response_received")
    BY <1>6, <2>0, <2>2 DEF Gains
  <2>3. CASE Fails("http") /\ hops' = <<>> /\ (UNCHANGED probes \/ Gains("request_failed"))
    <3>1. Outcomes \subseteq Outcomes'
      BY <1>o, <2>3 DEF Gains
    <3>2. pc' = "finalize" /\ Len(phases') = 6
      BY <1>0, <2>0, <2>3, Pushed DEF Fails, Fail
    <3> QED
      BY <1>6, <2>0, <2>3, <3>1, <3>2
  <2> QED
    BY <1>7, <2>1, <2>2, <2>3 DEF HttpCourse
<1>8. CASE BodyCourse
  <2>0. /\ Len(phases) = 5 /\ pc = "body" /\ NoneFailed /\ Outcomes' = Outcomes
        /\ "response_received" \in Outcomes
    BY <1>8, <1>o DEF BodyCourse, LadderInv, Borne
  <2>1. CASE Fails("http")
    BY <1>6, <2>0, <2>1
  <2>2. CASE hops' = Append(hops, response_to_hop(response))
    <3>1. hops' # <<>>
      BY <1>0, <2>2
    <3>2. UNCHANGED phases \/ Fails("http") \/ \E redirects : Finished(redirects)
      BY <1>8 DEF BodyCourse, RedirectsFail
    <3> QED
      BY <1>6, <2>0, <3>1, <3>2
  <2> QED
    BY <1>8, <2>1, <2>2 DEF BodyCourse
<1>9. CASE HopCourse
  <2>0. /\ Len(phases) = 5 /\ hops # <<>> /\ pc \in {"hop"} \cup DnsSteps /\ UNCHANGED hops
        /\ NoneFailed /\ "response_received" \in Outcomes
    BY <1>9 DEF HopCourse, DnsSteps, LadderInv, Borne
  <2>1. Outcomes \subseteq Outcomes'
    BY <1>9, <1>o DEF HopCourse, Gains
  <2>2. UNCHANGED phases \/ \E redirects : Finished(redirects)
    BY <1>9 DEF HopCourse, RedirectsFail
  <2> QED
    BY <1>6, <2>0, <2>1, <2>2
<1>10. CASE UNCHANGED <<pc, phases, probes, hops>>
  BY <1>10, <1>k
<1> QED
  BY <1>0, <1>1, <1>2, <1>3, <1>4, <1>5, <1>7, <1>8, <1>9, <1>10 DEF Course

\* The claim that goes with each verdict.
LEMMA Claims ==
    /\ statement_for("none").claim = "response_observed"
    /\ statement_for("dns").claim = "stopped_resolving"
    /\ statement_for("tcp").claim = "no_tcp_connection"
    /\ statement_for("tls").claim = "tcp_but_no_tls"
    /\ statement_for("http").claim = "no_http_response"
    /\ statement_for("redirects").claim = "redirect_policy_or_budget"
BY DEF statement_for

\* A phase that passed is the one of its rung, and did not fail.
LEMMA PassedAt ==
    ASSUME Climbed, NEW name, Passed(name)
    PROVE  /\ name = "dns" => Len(phases) >= 3 /\ ~Failed(3)
           /\ name = "tcp" => Len(phases) >= 4 /\ ~Failed(4)
           /\ name = "tls" => Len(phases) >= 5 /\ phases[5].status = "passed"
           /\ name = "http" => Len(phases) >= 6 /\ ~Failed(6)
<1>1. PICK i \in 1 .. Len(phases) : phases[i] = passed_phase(name)
  BY DEF Passed
<1>2. phases[i].name = name /\ phases[i].status = "passed"
  <2>1. passed_phase(name).name = name /\ passed_phase(name).status = "passed"
    BY DEF passed_phase
  <2> QED
    BY <1>1, <2>1
<1>3. Rung(i) = name /\ Len(phases) <= 8
  BY <1>2 DEF Climbed, Settles
<1>4. i \in 1 .. 8
  BY <1>3
<1>5. /\ name = "dns" => i = 3
      /\ name = "tcp" => i = 4
      /\ name = "tls" => i = 5
      /\ name = "http" => i = 6
  BY <1>3, <1>4 DEF Rung, Ladder!Rungs
<1> QED
  BY <1>2, <1>5 DEF Failed

\* A phase that did not fail has passed, unless it may be left out.
LEMMA PassedIf ==
    ASSUME Climbed, RanOn
    PROVE  Passed("dns") /\ Passed("tcp") /\ Passed("http")
<1>1. \A i \in {3, 4, 6} : i \in 1 .. Len(phases) /\ ~Failed(i) /\ Settles(i, phases[i])
  BY DEF RanOn, Climbed
<1>2. \A i \in {3, 4, 6} : phases[i].status = "passed"
  BY <1>1 DEF Settles, Failed, Ladder!Statuses
<1>3. \A i \in {3, 4, 6} : phases[i] = passed_phase(Rung(i))
  BY <1>1, <1>2 DEF Settles
<1>4. Rung(3) = "dns" /\ Rung(4) = "tcp" /\ Rung(6) = "http"
  BY DEF Rung, Ladder!Rungs
<1> QED
  BY <1>1, <1>3, <1>4 DEF Passed

LEMMA SealSound ==
    ASSUME phases \in Seq(Phase), LadderInv, Borne, RedirectsInv, pc = "finalize", SealCourse
    PROVE  ConclusionsSound'
<1>0. /\ report' = finalize_report /\ UNCHANGED <<probes, phases>> /\ Outcomes' = Outcomes
  BY DEF SealCourse, Outcomes
<1>n. Len(phases) \in Nat /\ Climbed /\ (Stopped \/ RanOn)
  BY DEF LadderInv
<1>l. /\ Len(phases) >= 3 => Len(phases) = 3 \/ Len(phases) > 3
      /\ Len(phases) >= 4 => Len(phases) = 4 \/ Len(phases) > 4
      /\ 3 <= Len(phases) /\ Len(phases) <= 6 =>
            Len(phases) = 3 \/ Len(phases) = 4 \/ Len(phases) = 5 \/ Len(phases) = 6
  <2>1. \A n \in Nat : /\ n >= 3 => n = 3 \/ n > 3
                       /\ n >= 4 => n = 4 \/ n > 4
                       /\ 3 <= n /\ n <= 6 => n = 3 \/ n = 4 \/ n = 5 \/ n = 6
    OBVIOUS
  <2> QED
    BY <1>n, <2>1
<1>r. /\ report'.failed_at = failed_at
      /\ report'.hypothesis.claim = statement_for(failed_at).claim
      /\ report'.evidence_phases = evidence_for(failed_at)
      /\ report'.ruled_out = ruled_out_for(failed_at)
      /\ report'.http = hops /\ report'.code = failure_code
  BY <1>0 DEF finalize_report
<1>s. ASSUME NEW k \in 1 .. Len(phases), Settled(k)
      PROVE  failed_at # "none" => \A p \in report'.evidence_phases : Cited(p)'
  <2> SUFFICES ASSUME failed_at # "none", NEW p \in report'.evidence_phases PROVE Cited(p)'
    OBVIOUS
  <2>1. p = failed_at /\ report'.failed_at # "none" /\ report'.code = failure_code
    BY <1>r DEF evidence_for
  <2>2. phases' = phases
    BY <1>0
  <2>3. phases[k].status = "failed" /\ phases[k].name = p /\ phases[k].error = report'.code
    BY <1>s, <2>1 DEF Settled, Failed
  <2> QED
    BY <2>1, <2>2, <2>3 DEF Cited
<1>1. \A p : p \in report'.ruled_out => Passed(p)
  BY <1>r DEF ruled_out_for
<1>2. /\ "dns" \in report'.ruled_out => "resolved" \in Outcomes
      /\ "tcp" \in report'.ruled_out => "connected" \in Outcomes
      /\ "tls" \in report'.ruled_out => "validated" \in Outcomes
      /\ "http" \in report'.ruled_out => "response_received" \in Outcomes
  <2>1. "dns" \in report'.ruled_out => "resolved" \in Outcomes
    <3> SUFFICES ASSUME Passed("dns") PROVE "resolved" \in Outcomes
      BY <1>1
    <3>1. Len(phases) >= 3 /\ ~Failed(3)
      BY <1>n, PassedAt
    <3>2. CASE Len(phases) > 3
      BY <3>2 DEF Borne
    <3>3. CASE Len(phases) = 3
      BY <3>1, <3>3 DEF Borne
    <3>4. Len(phases) > 3 \/ Len(phases) = 3
      BY <1>l, <3>1
    <3> QED
      BY <3>2, <3>3, <3>4
  <2>2. "tcp" \in report'.ruled_out => "connected" \in Outcomes
    <3> SUFFICES ASSUME Passed("tcp") PROVE "connected" \in Outcomes
      BY <1>1
    <3>1. Len(phases) >= 4 /\ ~Failed(4)
      BY <1>n, PassedAt
    <3>2. CASE Len(phases) > 4
      BY <3>2 DEF Borne
    <3>3. CASE Len(phases) = 4
      BY <3>1, <3>3 DEF Borne
    <3>4. Len(phases) > 4 \/ Len(phases) = 4
      BY <1>l, <3>1
    <3> QED
      BY <3>2, <3>3, <3>4
  <2>3. "tls" \in report'.ruled_out => "validated" \in Outcomes
    BY <1>n, <1>1, PassedAt DEF Borne
  <2>4. "http" \in report'.ruled_out => "response_received" \in Outcomes
    <3> SUFFICES ASSUME Len(phases) >= 6, ~Failed(6) PROVE Len(phases) = 8
      BY <1>1, PassedAt, <1>n DEF Borne
    <3>1. CASE Stopped
      <4>1. Len(phases) = 6
        BY <1>n, <3>1 DEF Stopped
      <4> QED
        BY <3>1, <4>1 DEF Stopped
    <3>2. CASE RanOn
      BY <3>2 DEF RanOn
    <3> QED
      BY <1>n, <3>1, <3>2
  <2> QED
    BY <2>1, <2>2, <2>3, <2>4
<1>3. CASE RanOn /\ ~Failed(7)
  <2>1. failed_at = "none"
    BY <1>n, <1>3, Verdict
  <2>2. report'.hypothesis.claim = "response_observed" /\ report'.evidence_phases = {"dns", "tcp", "http"}
    BY <1>r, <2>1, Claims DEF evidence_for
  <2>3. "response_received" \in Outcomes
    BY <1>3 DEF RanOn, Borne
  <2>4. \A p \in report'.evidence_phases : Passed(p)
    BY <1>3, <1>n, <2>2, PassedIf
  <2>5. \A name : passed_phase(name).name = name /\ passed_phase(name).status = "passed"
    BY DEF passed_phase
  <2>6. \A p \in report'.evidence_phases : Cited(p)'
    BY <1>0, <1>r, <2>1, <2>4, <2>5 DEF Cited, Passed
  <2> QED
    BY <1>0, <1>2, <2>2, <2>3, <2>6 DEF ConclusionsSound
<1>4. CASE RanOn /\ Failed(7)
  <2>1. failed_at = "redirects" /\ report'.failed_at = failed_at
    BY <1>n, <1>4, <1>r, Verdict
  <2>2. report'.hypothesis.claim = "redirect_policy_or_budget"
    BY <1>r, <2>1, Claims
  <2>3. report'.http # <<>>
    BY <1>4, <1>r DEF RanOn, Borne
  <2>4. report'.http[Len(report'.http)].response.redirection
    BY <1>4, <1>r, <2>3 DEF RanOn, RedirectsInv
  <2>5. 7 \in 1 .. Len(phases) /\ Settled(7)
    BY <1>n, <1>4, Verdict DEF RanOn
  <2>6. \A p \in report'.evidence_phases : Cited(p)'
    BY <1>s, <2>1, <2>5
  <2> QED
    BY <1>0, <1>2, <2>2, <2>3, <2>4, <2>6 DEF ConclusionsSound
<1>5. CASE Stopped
  <2>a. Failed(Len(phases))
    BY <1>n, <1>5 DEF Stopped
  <2>b. failed_at = Rung(Len(phases))
    BY <1>n, <1>5, Verdict
  <2>1. failed_at = Rung(Len(phases)) /\ Failed(Len(phases)) /\ report'.failed_at = failed_at
    BY <1>r, <2>a, <2>b
  <2>2. \/ Len(phases) = 3 \/ Len(phases) = 4 \/ Len(phases) = 5 \/ Len(phases) = 6
    <3>1. 3 <= Len(phases) /\ Len(phases) <= 6
      BY <1>5 DEF Stopped
    <3> QED
      BY <1>l, <3>1
  <2>3. Rung(3) = "dns" /\ Rung(4) = "tcp" /\ Rung(5) = "tls" /\ Rung(6) = "http"
    BY DEF Rung, Ladder!Rungs
  <2>c. \A p \in report'.evidence_phases : Cited(p)'
    <3>1. Settled(Len(phases)) /\ Len(phases) \in 1 .. Len(phases)
      BY <1>n, <1>5, Verdict DEF Stopped
    <3>2. failed_at # "none"
      BY <2>1, <2>2, <2>3
    <3> QED
      BY <1>s, <3>1, <3>2
  <2>4. CASE Len(phases) = 3
    <3>1. report'.failed_at = "dns" /\ report'.hypothesis.claim = "stopped_resolving"
      BY <1>r, <2>1, <2>3, <2>4, Claims
    <3>2. Outcomes \subseteq {"failed", "resolved"}
      BY <2>4 DEF Borne
    <3> QED
      BY <1>0, <1>2, <2>c, <3>1, <3>2 DEF ConclusionsSound
  <2>5. CASE Len(phases) = 4
    <3>1. report'.failed_at = "tcp" /\ report'.hypothesis.claim = "no_tcp_connection"
      BY <1>r, <2>1, <2>3, <2>5, Claims
    <3>2. "resolved" \in Outcomes /\ "connected" \notin Outcomes
      BY <2>1, <2>5 DEF Borne
    <3> QED
      BY <1>0, <1>2, <2>c, <3>1, <3>2 DEF ConclusionsSound
  <2>6. CASE Len(phases) = 5
    <3>1. report'.failed_at = "tls" /\ report'.hypothesis.claim = "tcp_but_no_tls"
      BY <1>r, <2>1, <2>3, <2>6, Claims
    <3>2. "connected" \in Outcomes /\ "validated" \notin Outcomes
      BY <2>1, <2>6 DEF Borne
    <3> QED
      BY <1>0, <1>2, <2>c, <3>1, <3>2 DEF ConclusionsSound
  <2>7. CASE Len(phases) = 6
    <3>1. report'.failed_at = "http" /\ report'.hypothesis.claim = "no_http_response"
      BY <1>r, <2>1, <2>3, <2>7, Claims
    <3>2. "connected" \in Outcomes
      BY <2>7 DEF Borne
    <3> QED
      BY <1>0, <1>2, <2>c, <3>1, <3>2 DEF ConclusionsSound
  <2> QED
    BY <2>2, <2>4, <2>5, <2>6, <2>7
<1> QED
  BY <1>n, <1>3, <1>4, <1>5

LEMMA ConclusionsStep ==
    TypeInv /\ LadderInv /\ RedirectsInv /\ ConclusionsInv /\ [Next]_vars => ConclusionsInv'
<1> SUFFICES ASSUME TypeInv, LadderInv, RedirectsInv, ConclusionsInv, [Next]_vars
             PROVE  ConclusionsInv'
  OBVIOUS
<1>0. phases \in Seq(Phase) /\ Course
  BY StepCourse DEF TypeInv, TypeOK, ProgressTypes
<1>1. Borne'
  BY BorneStep DEF ConclusionsInv
<1>2. SealCourse => ConclusionsSound'
  <2> SUFFICES ASSUME SealCourse PROVE ConclusionsSound'
    OBVIOUS
  <2>1. pc = "finalize"
    BY DEF SealCourse
  <2>2. Borne
    BY DEF ConclusionsInv
  <2> QED
    BY <1>0, <2>1, <2>2, SealSound
<1>3. pc' # "done" => ConclusionsSound'
  BY DEF ConclusionsSound
<1>4. UNCHANGED <<pc, phases, probes, hops, report>> => ConclusionsSound'
  <2> SUFFICES ASSUME UNCHANGED <<pc, phases, probes, hops, report>> PROVE ConclusionsSound'
    OBVIOUS
  <2>1. Outcomes' = Outcomes /\ \A name : Cited(name)' <=> Cited(name)
    BY DEF Outcomes, Cited
  <2>2. ConclusionsSound
    BY DEF ConclusionsInv
  <2> QED
    BY <2>1, <2>2 DEF ConclusionsSound
<1>5. pc' # "done" \/ SealCourse \/ UNCHANGED <<pc, phases, probes, hops, report>>
  <2>1. ASSUME InputCourse \/ DnsCourse \/ TcpCourse \/ TlsCourse PROVE pc' # "done"
    BY <2>1 DEF InputCourse, DnsCourse, TcpCourse, TlsCourse, DnsSteps, TcpSteps, TlsSteps, Push, Fails, Fail
  <2>2. ASSUME HttpCourse \/ BodyCourse \/ HopCourse PROVE pc' # "done"
    BY <2>2 DEF HttpCourse, BodyCourse, HopCourse, DnsSteps, HttpSteps, Push, Fails, Fail, RedirectsFail, Finished
  <2> QED
    BY <1>0, <2>1, <2>2 DEF Course
<1> QED
  BY <1>1, <1>2, <1>3, <1>4, <1>5 DEF ConclusionsInv

\* Of every inspection: the phases that a report cites ended as it cites them, with the code
\* it gives; its claim on resolving, connecting, handshaking or a response agrees with its own
\* ledger, of Http and of Redirects as far as ConclusionsSound goes; and each phase that it
\* rules out has a probe in the ledger that succeeded (hypotheses_for, ruled_out_for).
THEOREM ConclusionsAreSound == Spec => []ConclusionsSound
<1>1. Init => ConclusionsInv
  <2> SUFFICES ASSUME Init PROVE ConclusionsInv
    OBVIOUS
  <2>1. pc = "begin" /\ hops = <<>> /\ phases = <<>> /\ probes = <<>>
    BY DEF Init, new_tracker
  <2>2. Len(phases) = 0 /\ Outcomes = {}
    BY <2>1 DEF Outcomes
  <2> QED
    BY <2>1, <2>2 DEF ConclusionsInv, Borne, ConclusionsSound
<1>2. ConclusionsInv => ConclusionsSound
  BY DEF ConclusionsInv
<1> QED
  BY <1>1, <1>2, TypeInvariant, LadderStart, LadderStep, RedirectsStart, RedirectsStep,
     ConclusionsStep, PTL DEF Spec
-----------------------------------------------------------------------------
(* The refinement: an inspection climbs PhaseLadder                        *)

SettledPhases ==
    [i \in 1 .. Len(phases) |-> [name |-> phases[i].name, status |-> phases[i].status]]

LadderVerdict ==
    IF pc = "rejected" THEN "rejected" ELSE IF pc = "done" THEN report.failed_at ELSE "open"

Longer ==
    /\ Len(phases') > Len(phases)
    /\ \A i \in 1 .. Len(phases) : phases'[i] = phases[i]

LEMMA SettledAre ==
    ASSUME phases \in Seq(Phase)
    PROVE  /\ Len(SettledPhases) = Len(phases)
           /\ \A i \in 1 .. Len(phases) :
                 /\ SettledPhases[i].name = phases[i].name
                 /\ SettledPhases[i].status = phases[i].status
<1>1. Len(phases) \in Nat
  OBVIOUS
<1>2. DOMAIN SettledPhases = 1 .. Len(phases)
  BY DEF SettledPhases
<1>3. Len(SettledPhases) = Len(phases)
  BY <1>1 DEF SettledPhases
<1>4. \A i \in 1 .. Len(phases) :
         SettledPhases[i] = [name |-> phases[i].name, status |-> phases[i].status]
  BY DEF SettledPhases
<1>5. ASSUME NEW i \in 1 .. Len(phases)
      PROVE  SettledPhases[i].name = phases[i].name /\ SettledPhases[i].status = phases[i].status
  <2> DEFINE r == [name |-> phases[i].name, status |-> phases[i].status]
  <2>1. r.name = phases[i].name /\ r.status = phases[i].status
    OBVIOUS
  <2>2. SettledPhases[i] = r
    BY <1>4
  <2> HIDE DEF r
  <2> QED
    BY <2>1, <2>2
<1> QED
  BY <1>3, <1>5

LEMMA LadderOpen ==
    ASSUME TypeInv, LadderInv, pc \notin {"finalize", "done"}
    PROVE  Len(phases) # 8 /\ Len(phases) # 7
<1>1. pc \in Steps
  BY DEF TypeInv, TypeOK, ProgressTypes
<1>2. pc \in {"begin", "proxy", "hop", "body", "rejected"} \cup DnsSteps
        \cup TcpSteps \cup TlsSteps \cup HttpSteps
  BY <1>1 DEF Steps, DnsSteps, TcpSteps, TlsSteps, HttpSteps
<1>3. pc = "begin" => Len(phases) = 0
  BY DEF LadderInv
<1>4. pc = "proxy" => Len(phases) = 1
  BY DEF LadderInv
<1>5. pc = "rejected" => Len(phases) # 8 /\ Len(phases) # 7
  <2>1. pc = "rejected" => Len(phases) < 2
    BY DEF LadderInv
  <2>2. \A n \in Nat : n < 2 => n # 8 /\ n # 7
    OBVIOUS
  <2>3. phases \in Seq(Phase)
    BY DEF TypeInv, TypeOK, ProgressTypes
  <2>4. Len(phases) \in Nat
    BY <2>3
  <2> QED
    BY <2>1, <2>2, <2>4
<1>6. pc \in DnsSteps => Len(phases) = 2 \/ Len(phases) = 5
  BY DEF LadderInv
<1>7. pc \in TcpSteps => Len(phases) = 3
  BY DEF LadderInv
<1>8. pc \in TlsSteps => Len(phases) = 4
  BY DEF LadderInv
<1>9. pc \in HttpSteps \cup {"body", "hop"} => Len(phases) = 5
  BY DEF LadderInv
<1>10. /\ pc \in TcpSteps => Len(phases) # 8 /\ Len(phases) # 7
       /\ pc \in TlsSteps => Len(phases) # 8 /\ Len(phases) # 7
       /\ pc \in HttpSteps => Len(phases) # 8 /\ Len(phases) # 7
  BY <1>7, <1>8, <1>9
<1>11. ASSUME pc \in {"begin", "proxy", "hop", "body", "rejected"} \cup DnsSteps
       PROVE  Len(phases) # 8 /\ Len(phases) # 7
  <2>1. CASE pc = "begin"
    BY <1>3, <2>1
  <2>2. CASE pc = "proxy"
    BY <1>4, <2>2
  <2>3. CASE pc \in DnsSteps
    BY <1>6, <2>3
  <2>4. CASE pc \in {"hop", "body"}
    BY <1>9, <2>4
  <2> QED
    BY <1>5, <1>11, <2>1, <2>2, <2>3, <2>4
<1> QED
  BY <1>2, <1>10, <1>11

\* Where an inspection may go on, no phase failed; where it is over, one did or all are settled.
LEMMA LadderStates ==
    ASSUME TypeInv, LadderInv
    PROVE  /\ Ladder!WellFormed(SettledPhases)
           /\ pc \notin {"finalize", "done"} => ~Ladder!Complete(SettledPhases)
           /\ pc = "finalize" => /\ Ladder!Complete(SettledPhases)
                                 /\ Ladder!VerdictOf(SettledPhases) = failed_at
<1> DEFINE s == SettledPhases
<1>t. phases \in Seq(Phase)
  BY DEF TypeInv, TypeOK, ProgressTypes
<1>0. phases \in Seq(Phase) /\ Len(phases) \in Nat /\ Len(phases) <= 8 /\ Climbed
  BY <1>t DEF LadderInv, Climbed
<1>1. /\ Len(s) = Len(phases)
      /\ \A i \in 1 .. Len(phases) : s[i].name = phases[i].name /\ s[i].status = phases[i].status
  BY <1>t, SettledAre
<1> HIDE DEF s
<1>2. \A i \in 1 .. Len(s) : s[i].name = Ladder!Rungs[i] /\ s[i].status \in Ladder!Statuses[i]
  BY <1>0, <1>1 DEF Climbed, Settles, Rung
<1>3. Ladder!Failures(s) = {i \in 1 .. Len(phases) : Failed(i)}
  BY <1>1 DEF Ladder!Failures, Failed
<1>4. CASE pc \notin {"finalize", "done"}
  <2>1. NoneFailed
    BY <1>4 DEF LadderInv
  <2>2. Ladder!Failures(s) = {}
    BY <1>3, <2>1 DEF NoneFailed
  <2>3. Len(s) # 8
    BY <1>1, <1>4, LadderOpen
  <2> QED
    BY <1>0, <1>1, <1>2, <1>4, <2>2, <2>3 DEF s, Ladder!WellFormed, Ladder!Complete
<1>5. CASE pc \in {"finalize", "done"} /\ Stopped
  <2>1. 3 <= Len(phases) /\ Len(phases) <= 6 /\ Len(phases) \in 1 .. Len(phases)
    BY <1>0, <1>5 DEF Stopped
  <2>2. Ladder!Failures(s) = {Len(phases)}
    BY <1>3, <1>5, <2>1 DEF Stopped
  <2>3. failed_at = Rung(Len(phases))
    BY <1>0, <1>5, Verdict
  <2>4. Ladder!VerdictOf(s) = Rung(Len(phases))
    BY <2>2 DEF Ladder!VerdictOf, Rung
  <2> QED
    BY <1>0, <1>1, <1>2, <1>5, <2>2, <2>3, <2>4 DEF s, Ladder!WellFormed, Ladder!Complete
<1>6. CASE pc \in {"finalize", "done"} /\ RanOn /\ Failed(7)
  <2>1. Len(phases) = 8 /\ 7 \in 1 .. Len(phases)
    BY <1>6 DEF RanOn
  <2>2. Ladder!Failures(s) = {7}
    BY <1>3, <1>6, <2>1 DEF RanOn
  <2>3. failed_at = "redirects"
    BY <1>0, <1>6, Verdict
  <2>4. Ladder!VerdictOf(s) = "redirects"
    BY <2>2 DEF Ladder!VerdictOf, Ladder!Rungs
  <2> QED
    BY <1>0, <1>1, <1>2, <1>6, <2>1, <2>2, <2>3, <2>4 DEF s, Ladder!WellFormed, Ladder!Complete
<1>7. CASE pc \in {"finalize", "done"} /\ RanOn /\ ~Failed(7)
  <2>1. Len(phases) = 8
    BY <1>7 DEF RanOn
  <2>2. Ladder!Failures(s) = {}
    BY <1>3, <1>7 DEF RanOn
  <2>3. failed_at = "none"
    BY <1>0, <1>7, Verdict
  <2>4. Ladder!VerdictOf(s) = "none"
    BY <2>2 DEF Ladder!VerdictOf
  <2> QED
    BY <1>0, <1>1, <1>2, <1>7, <2>1, <2>2, <2>3, <2>4 DEF s, Ladder!WellFormed, Ladder!Complete
<1> QED
  BY <1>4, <1>5, <1>6, <1>7 DEF LadderInv

\* A step leaves the ladder alone, climbs it, turns the request down or seals the report.
LEMMA LadderMoves ==
    ASSUME phases \in Seq(Phase), LadderInv, Course
    PROVE  \/ SealCourse
           \/ UNCHANGED <<pc, phases, report>>
           \/ /\ UNCHANGED <<phases, report>> /\ pc \in {"begin", "proxy"} /\ pc' = "rejected"
           \/ /\ pc \notin {"finalize", "done", "rejected"} /\ pc' \notin {"done", "rejected"}
              /\ UNCHANGED phases \/ Longer
<1>0. Len(phases) \in Nat
  OBVIOUS
<1>a. ASSUME NEW phase, NEW next, Push(phase, next) PROVE pc' = next /\ Longer
  BY <1>0, <1>a, Pushed DEF Longer
<1>b. ASSUME NEW redirects, Finished(redirects) PROVE pc' = "finalize" /\ Longer
  BY <1>0, <1>b, FinishedWith DEF Longer
<1>c. ASSUME NEW name, Fails(name) PROVE pc' = "finalize" /\ Longer
  BY <1>a, <1>c DEF Fails, Fail
<1>d. RedirectsFail => pc' = "finalize" /\ Longer
  BY <1>b DEF RedirectsFail
<1>1. CASE InputCourse /\ UNCHANGED report
  BY <1>1, <1>a DEF InputCourse
<1>2. CASE DnsCourse
  BY <1>2, <1>a, <1>c DEF DnsCourse, DnsSteps
<1>3. CASE TcpCourse
  BY <1>3, <1>a, <1>c DEF TcpCourse, TcpSteps
<1>4. CASE TlsCourse
  BY <1>4, <1>a, <1>c DEF TlsCourse, TlsSteps
<1>5. CASE HttpCourse
  BY <1>5, <1>c DEF HttpCourse, HttpSteps
<1>6. CASE BodyCourse
  BY <1>6, <1>b, <1>c, <1>d DEF BodyCourse
<1>7. CASE HopCourse
  BY <1>7, <1>d DEF HopCourse, DnsSteps
<1>8. CASE UNCHANGED <<pc, phases, report>>
  BY <1>8
<1> QED
  BY <1>1, <1>2, <1>3, <1>4, <1>5, <1>6, <1>7, <1>8 DEF Course

LEMMA LadderRefined ==
    TypeInv /\ TypeInv' /\ LadderInv /\ LadderInv' /\ [Next]_vars =>
        [Ladder!Settle \/ Ladder!TurnDown \/ Ladder!Seal]_(Ladder!ladderVars)
<1> SUFFICES ASSUME TypeInv, TypeInv', LadderInv, LadderInv', [Next]_vars
             PROVE  \/ Ladder!Settle \/ Ladder!TurnDown \/ Ladder!Seal
                    \/ UNCHANGED <<SettledPhases, LadderVerdict>>
  BY DEF Ladder!ladderVars, SettledPhases, LadderVerdict
<1>0. phases \in Seq(Phase) /\ (phases \in Seq(Phase))' /\ Course
  BY StepCourse DEF TypeInv, TypeOK, ProgressTypes
<1>k. UNCHANGED phases => UNCHANGED SettledPhases
  BY DEF SettledPhases
<1>1. CASE SealCourse
  <2>1. /\ pc = "finalize" /\ pc' = "done" /\ UNCHANGED phases /\ report'.failed_at = failed_at
    BY <1>1 DEF SealCourse, finalize_report
  <2>2. Ladder!Complete(SettledPhases) /\ Ladder!VerdictOf(SettledPhases) = failed_at
    BY <1>0, <2>1, LadderStates
  <2>3. LadderVerdict = "open" /\ LadderVerdict' = Ladder!VerdictOf(SettledPhases)
    BY <2>1, <2>2 DEF LadderVerdict
  <2>4. UNCHANGED SettledPhases
    BY <1>k, <2>1
  <2>5. Ladder!Seal
    BY <2>2, <2>3, <2>4 DEF Ladder!Seal, SettledPhases, LadderVerdict
  <2> QED
    BY <2>5
<1>2. CASE UNCHANGED <<pc, phases, report>>
  BY <1>2, <1>k DEF LadderVerdict
<1>3. CASE UNCHANGED <<phases, report>> /\ pc \in {"begin", "proxy"} /\ pc' = "rejected"
  <2>1. Len(phases) = 0 \/ Len(phases) = 1
    BY <1>3 DEF LadderInv
  <2>2. Len(SettledPhases) < 2
    BY <1>0, <2>1, SettledAre
  <2>3. LadderVerdict = "open" /\ LadderVerdict' = "rejected" /\ UNCHANGED SettledPhases
    BY <1>3, <1>k DEF LadderVerdict
  <2>4. Ladder!TurnDown
    BY <2>2, <2>3 DEF Ladder!TurnDown, SettledPhases, LadderVerdict
  <2> QED
    BY <2>4
<1>4. CASE /\ pc \notin {"finalize", "done", "rejected"} /\ pc' \notin {"done", "rejected"}
           /\ UNCHANGED phases \/ Longer
  <2>1. LadderVerdict = "open" /\ LadderVerdict' = "open"
    BY <1>4 DEF LadderVerdict
  <2>2. CASE UNCHANGED phases
    BY <1>k, <2>1, <2>2
  <2>3. CASE Longer
    <3>1. ~Ladder!Complete(SettledPhases)
      BY <1>0, <1>4, LadderStates
    <3>2. Ladder!WellFormed(SettledPhases')
      <4>1. (TypeInv /\ LadderInv => Ladder!WellFormed(SettledPhases))'
        BY LadderStates, PTL
      <4> QED
        BY <1>0, <4>1
    <3>3. Len(SettledPhases') = Len(phases') /\ Len(SettledPhases) = Len(phases)
      BY <1>0, SettledAre DEF SettledPhases
    <3>4. \A i \in 1 .. Len(phases) : SettledPhases'[i] = SettledPhases[i]
      BY <1>0, <2>3 DEF Longer, SettledPhases
    <3>5. Ladder!Settle
      BY <2>1, <2>3, <3>1, <3>2, <3>3, <3>4 DEF Longer, Ladder!Settle, SettledPhases, LadderVerdict
    <3> QED
      BY <3>5
  <2> QED
    BY <1>4, <2>2, <2>3
<1> QED
  BY <1>0, <1>1, <1>2, <1>3, <1>4, LadderMoves DEF LadderInv

\* Every inspection implements PhaseLadder: it settles its phases in their order and without
\* gaps, goes on after none that failed, and its report names the one that failed.
THEOREM InspectionClimbs == Spec => ClimbsLadder
<1>1. Init => Ladder!LadderInit
  <2> SUFFICES ASSUME Init PROVE Ladder!LadderInit
    OBVIOUS
  <2>1. pc = "begin" /\ phases = <<>> /\ Len(phases) = 0
    BY DEF Init
  <2>2. LadderVerdict = "open"
    BY <2>1 DEF LadderVerdict
  <2>3. SettledPhases = <<>>
    BY <2>1 DEF SettledPhases
  <2> QED
    BY <2>2, <2>3 DEF Ladder!LadderInit, SettledPhases, LadderVerdict
<1> QED
  BY <1>1, TypeInvariant, LadderStart, LadderStep, LadderRefined, PTL DEF Spec, ClimbsLadder, Ladder!LadderSpec
=============================================================================
