---------------------------- MODULE EngineProofs ----------------------------
(***************************************************************************)
(* What holds of every inspection, whatever its options, its environment,  *)
(* the resolver's answers, the servers' responses and the clock.           *)
(***************************************************************************)
EXTENDS EngineProperties, TrackerProofs

-----------------------------------------------------------------------------
(* Lemmas on the operators the steps are built from                        *)

LEMMA PhaseType ==
    ASSUME NEW name \in PhaseName, NEW code \in ErrorCode
    PROVE  /\ passed_phase(name) \in Phase /\ failed_phase(name, code) \in Phase
           /\ skipped_phase(name) \in Phase /\ not_observed_phase(name) \in Phase
BY DEF Phase, PhaseStatus, passed_phase, failed_phase, skipped_phase, not_observed_phase

\* Pushing a phase.
LEMMA PushType ==
    ASSUME phases \in Seq(Phase), NEW name \in PhaseName, NEW next
    PROVE  /\ Push(passed_phase(name), next) => phases' \in Seq(Phase) /\ pc' = next
           /\ Push(skipped_phase(name), next) => phases' \in Seq(Phase) /\ pc' = next
           /\ Push(not_observed_phase(name), next) => phases' \in Seq(Phase) /\ pc' = next
<1>1. "budget_exhausted" \in ErrorCode
  BY DEF ErrorCode
<1>2. passed_phase(name) \in Phase /\ skipped_phase(name) \in Phase /\ not_observed_phase(name) \in Phase
  BY <1>1, PhaseType
<1>3. QED
  BY <1>2 DEF Push

LEMMA FailType ==
    ASSUME phases \in Seq(Phase), NEW name \in PhaseName, NEW code \in ErrorCode, Fail(name, code)
    PROVE  phases' \in Seq(Phase) /\ pc' = "finalize"
BY PhaseType DEF Fail, Push

LEMMA AppendThree ==
    ASSUME NEW S, NEW s \in Seq(S), NEW a \in S, NEW b \in S, NEW c \in S
    PROVE  s \o <<a, b, c>> \in Seq(S)
OBVIOUS

\* The three phases pushed when run_http returned Ok.
LEMMA FinishHttpType ==
    ASSUME phases \in Seq(Phase), NEW code \in ErrorCode \cup {""}, NEW count,
           FinishHttp(code, count)
    PROVE  phases' \in Seq(Phase) /\ pc' = "finalize"
<1>0. "budget_exhausted" \in ErrorCode
  BY DEF ErrorCode
<1>1. redirects_phase(code, count) \in Phase
  BY <1>0, PhaseType DEF redirects_phase, PhaseName
<1>2. passed_phase("http") \in Phase /\ skipped_phase("assertions") \in Phase
  BY <1>0, PhaseType DEF PhaseName
<1>3. QED
  BY <1>1, <1>2, AppendThree DEF FinishHttp

LEMMA ResolveFailedType ==
    ASSUME phases \in Seq(Phase), NEW code \in ErrorCode, ResolveFailed(code)
    PROVE  phases' \in Seq(Phase) /\ pc' = "finalize"
BY FailType, FinishHttpType DEF ResolveFailed, PhaseName

\* run_http returned Err.
LEMMA HttpFailType ==
    ASSUME phases \in Seq(Phase), NEW code \in ErrorCode, HttpFail(code)
    PROVE  phases' \in Seq(Phase) /\ pc' = "finalize" /\ hops' \in Seq(Hop)
BY FailType DEF HttpFail, PhaseName

\* The tracker's budget is a pair of numbers.
LEMMA BudgetType ==
    ASSUME InputTypes
    PROVE  deadline \in Nat /\ max_probes \in Nat
BY DEF InputTypes, Options

\* A granted probe.
LEMMA StartType ==
    ASSUME TrackerTypes, InputTypes, NEW kind \in ProbeKind, start_probe(kind)
    PROVE  /\ active' \in ActiveProbe /\ active'.started_ms = now /\ active'.kind = kind
           /\ now < deadline
<1>1. now \in Nat /\ deadline \in Nat /\ Len(probes) \in Nat
  BY BudgetType DEF TrackerTypes
<1>2. active' = [sequence |-> Len(probes) + 1, kind |-> kind, started_ms |-> now]
  BY DEF start_probe
<1>3. now < deadline
  BY <1>1 DEF start_probe, CanStart, HasTime, remaining
<1>4. QED
  BY <1>1, <1>2, <1>3 DEF ActiveProbe

\* The clock is read for a granted probe.
LEMMA StampType ==
    ASSUME TrackerTypes, Control, pc \in Granted, stamp_probe
    PROVE  /\ active' \in ActiveProbe /\ active'.started_ms = now
           /\ active'.kind = active.kind /\ active'.sequence = active.sequence
<1>1. now \in Nat /\ active \in ActiveProbe
  BY DEF TrackerTypes, Control, Probing
<1>2. QED
  BY <1>1 DEF stamp_probe, ActiveProbe

LEMMA SendType ==
    ASSUME wire \in Seq(NetworkAction), now \in Nat, active' \in ActiveProbe,
           NEW address \in Nat, Send(address)
    PROVE  wire' \in Seq(NetworkAction)
<1> DEFINE a == [kind |-> active'.kind, slot |-> active'.sequence, to |-> address, at |-> now]
<1>1. a \in NetworkAction
  BY DEF ActiveProbe, NetworkAction
<1>2. wire' = Append(wire, a)
  BY DEF Send
<1> HIDE DEF a
<1>3. QED
  BY <1>1, <1>2

\* A finished probe.
LEMMA FinishType ==
    ASSUME TrackerTypes, Control, pc \in Begun, NEW outcome \in Outcome,
           finish_probe(op.started, outcome)
    PROVE  probes' \in Seq(ProbeRecord) /\ active' = NoProbe
<1> DEFINE r == [sequence |-> active.sequence, kind |-> active.kind,
                 started_ms |-> active.started_ms, duration_ms |-> now - op.started,
                 outcome |-> outcome]
<1>1. op.started \in Nat /\ now \in Nat /\ op.started <= now /\ active \in ActiveProbe
  BY DEF TrackerTypes, Control, Probing, Call
<1>2. r \in ProbeRecord
  BY <1>1 DEF ActiveProbe, ProbeRecord
<1>3. probes' = Append(probes, r) /\ probes \in Seq(ProbeRecord) /\ active' = NoProbe
  BY DEF finish_probe, record, TrackerTypes
<1> HIDE DEF r
<1>4. QED
  BY <1>2, <1>3

\* The timers.
LEMMA MarkType ==
    ASSUME TrackerTypes, Mark
    PROVE  /\ op' \in Call /\ op'.started = now /\ op'.span = op.span
           /\ stamp_probe
BY DEF TrackerTypes, Mark, Call

LEMMA BlockType ==
    ASSUME TrackerTypes, Block
    PROVE  /\ op' \in Call /\ op'.started = op.started /\ op'.span = op.span
           /\ op'.capped = op.capped /\ op'.limit = now + op.span
<1>1. op \in Call /\ now \in Nat
  BY DEF TrackerTypes
<1>2. now + op.span \in Nat
  BY <1>1 DEF Call
<1>3. op' = [started |-> op.started, span |-> op.span, capped |-> op.capped,
             limit |-> now + op.span]
  BY <1>1 DEF Block, Call
<1>4. QED
  BY <1>1, <1>2, <1>3 DEF Call

LEMMA MinType ==
    ASSUME NEW a \in Nat, NEW b \in Nat
    PROVE  min(a, b) \in Nat /\ min(a, b) <= a /\ min(a, b) <= b
BY DEF min

\* resolve_proxy always names a host to connect to.
LEMMA ProxyType ==
    ASSUME NEW e \in Environment, NEW url \in Url, NEW o \in Options
    PROVE  resolve_proxy(e, url, o) \in ResolvedProxy
<1>1. scheme_proxy(e, url) \in EnvironmentValue
  BY DEF Environment, EnvironmentKeys, scheme_proxy, first_environment_value, OrElse
<1>2. url.host \in Hosts /\ scheme_proxy(e, url).host \in Hosts
  BY <1>1 DEF Url, EnvironmentValue
<1>3. QED
  BY <1>2 DEF resolve_proxy, direct_proxy_summary, proxy_rejected, ResolvedProxy,
                  PolicyError

LEMMA PermittedAddresses ==
    ASSUME NEW answer \in SUBSET Addresses, NEW o
    PROVE  /\ permitted_addresses(answer, o) \subseteq answer
           /\ \A a \in permitted_addresses(answer, o) : is_ip_permitted(a, o)
BY DEF permitted_addresses

\* The codes the steps fail with.
LEMMA CodeType ==
    ASSUME TypeOK
    PROVE  /\ input_error \in ErrorCode \cup {""} /\ hop_error \in ErrorCode \cup {""}
           /\ \A r : redirect_error(r) \in ErrorCode \cup {""}
           /\ http_error_codes \subseteq ErrorCode
<1>1. \A u : parse_target(u) \in ErrorCode \cup {""}
  BY DEF parse_target, ErrorCode, PolicyError
<1>2. resolve_proxy(env, current, options).error \in ErrorCode \cup {""}
  BY ProxyType DEF TypeOK, InputTypes, HopTypes, ResolvedProxy, ErrorCode
<1>3. validate_options(options) \in ErrorCode \cup {""}
  BY DEF validate_options, ErrorCode
<1>4. http_error_codes \subseteq ErrorCode /\ \A r : redirect_error(r) \in ErrorCode \cup {""}
  BY DEF http_error_codes, redirect_error, ErrorCode
<1>5. QED
  BY <1>1, <1>2, <1>3, <1>4 DEF input_error, hop_error
-----------------------------------------------------------------------------
(* Type correctness                                                        *)

\* The timeout of a call is measured while there is time left, and is at most that.
LEMMA CapType ==
    ASSUME TrackerTypes, InputTypes, HasTime, NEW cap \in Nat, Cap(cap)
    PROVE  /\ op' \in Call /\ op'.started = op.started
           /\ op'.capped = now /\ op'.span <= deadline - now /\ now < deadline
<1>1. remaining \in Nat /\ remaining = deadline - now /\ now < deadline /\ now \in Nat
  BY BudgetType DEF TrackerTypes, HasTime, remaining
<1>2. min(remaining, cap) \in Nat /\ min(remaining, cap) <= remaining
  BY <1>1, MinType
<1>3. op \in Call
  BY DEF TrackerTypes
<1> DEFINE m == min(remaining, cap)
<1>4. op' = [op EXCEPT !.span = m, !.capped = now]
  BY DEF Cap
<1>5. m \in Nat /\ m <= deadline - now
  BY <1>1, <1>2
<1> HIDE DEF m
<1>6. op' = [started |-> op.started, span |-> m, capped |-> now, limit |-> op.limit]
  BY <1>3, <1>4 DEF Call
<1>7. QED
  BY <1>1, <1>3, <1>5, <1>6 DEF Call

\* A step that leaves no probe in progress, and nothing changed but the ledger, the phases
\* and the hops, keeps the types.
LEMMA SettledType ==
    ASSUME TypeInv, probes' \in Seq(ProbeRecord), active' = NoProbe, phases' \in Seq(Phase),
           pc' \in Steps, pc' \notin Probing, pc' # "body", hops' \in Seq(Hop),
           UNCHANGED <<now, deadline, max_probes, response_bytes_read, inputVars, error,
                       addrVars, current, proxy, response, op, wire>>
    PROVE  TypeInv'
<1> USE DEF inputVars, addrVars
<1>1. TrackerTypes'
  BY DEF TypeInv, TypeOK, TrackerTypes
<1>2. InputTypes'
  BY DEF TypeInv, TypeOK, InputTypes
<1>3. ProgressTypes'
  BY DEF TypeInv, TypeOK, ProgressTypes
<1>4. EndpointTypes'
  BY DEF TypeInv, TypeOK, EndpointTypes
<1>5. HopTypes'
  BY DEF TypeInv, TypeOK, HopTypes
<1>6. Control'
  BY DEF Control, Probing, Granted, Begun
<1>7. QED
  BY <1>1, <1>2, <1>3, <1>4, <1>5, <1>6 DEF TypeInv, TypeOK

LEMMA TypeStep == TypeInv /\ [Next]_vars => TypeInv'
<1> SUFFICES ASSUME TypeInv, [Next]_vars PROVE TypeInv'
  OBVIOUS
<1> USE DEF Steps, Probing, Granted, Begun
<1>0. /\ TypeOK /\ TrackerTypes /\ InputTypes /\ ProgressTypes /\ EndpointTypes /\ HopTypes
      /\ Control
  BY DEF TypeInv, TypeOK
<1>1. ASSUME RejectInput PROVE TypeInv'
  BY <1>0, <1>1, CodeType
     DEF RejectInput, TypeInv, TypeOK, Control, TrackerTypes, InputTypes, ProgressTypes, EndpointTypes, HopTypes,
         trackerVars, inputVars, addrVars, hopVars
<1>2. ASSUME AcceptInput PROVE TypeInv'
  <2>1. phases' \in Seq(Phase) /\ pc' \in Steps
    BY <1>0, <1>2, <1>0, PushType DEF AcceptInput, PhaseName, ProgressTypes
  <2> USE DEF trackerVars, inputVars, addrVars, hopVars
  <2>2. TrackerTypes'
    BY <1>0, <1>2, <2>1 DEF AcceptInput, Push, TrackerTypes
  <2>3. InputTypes'
    BY <1>0, <1>2, <2>1 DEF AcceptInput, Push, InputTypes
  <2>4. ProgressTypes'
    BY <1>0, <1>2, <2>1 DEF AcceptInput, Push, ProgressTypes
  <2>5. EndpointTypes'
    BY <1>0, <1>2, <2>1 DEF AcceptInput, Push, EndpointTypes
  <2>6. HopTypes'
    BY <1>0, <1>2, <2>1 DEF AcceptInput, Push, HopTypes
  <2>7. Control'
    BY <1>0, <1>2, <2>1 DEF AcceptInput, Push, Control, TrackerTypes
  <2>8. QED
    BY <2>2, <2>3, <2>4, <2>5, <2>6, <2>7 DEF TypeInv, TypeOK
<1>3. ASSUME RejectProxy PROVE TypeInv'
  BY <1>0, <1>3, ProxyType
     DEF RejectProxy, ResolvedProxy, ErrorCode, TypeInv, TypeOK, Control, TrackerTypes, InputTypes, ProgressTypes, EndpointTypes, HopTypes,
         trackerVars, inputVars, addrVars, hopVars
<1>4. ASSUME SelectProxy PROVE TypeInv'
  <2>1. phases' \in Seq(Phase) /\ pc' \in Steps
    BY <1>0, <1>4, <1>0, PushType DEF SelectProxy, PhaseName, ProgressTypes
  <2>2. proxy' \in ResolvedProxy
    BY <1>0, <1>4, ProxyType DEF SelectProxy, InputTypes
  <2> USE DEF trackerVars, inputVars, addrVars, hopVars
  <2>3. TrackerTypes'
    BY <1>0, <1>4, <2>1, <2>2 DEF SelectProxy, Push, TrackerTypes
  <2>4. InputTypes'
    BY <1>0, <1>4, <2>1, <2>2 DEF SelectProxy, Push, InputTypes
  <2>5. ProgressTypes'
    BY <1>0, <1>4, <2>1, <2>2 DEF SelectProxy, Push, ProgressTypes
  <2>6. EndpointTypes'
    BY <1>0, <1>4, <2>1, <2>2 DEF SelectProxy, Push, EndpointTypes
  <2>7. HopTypes'
    BY <1>0, <1>4, <2>1, <2>2 DEF SelectProxy, Push, HopTypes
  <2>8. Control'
    BY <1>0, <1>4, <2>1, <2>2 DEF SelectProxy, Push, Control, TrackerTypes
  <2>9. QED
    BY <2>3, <2>4, <2>5, <2>6, <2>7, <2>8 DEF TypeInv, TypeOK
<1>5. ASSUME DnsBudget PROVE TypeInv'
  <2>1. phases' \in Seq(Phase) /\ pc' = "finalize"
    BY <1>0, <1>5, ResolveFailedType DEF DnsBudget, ProgressTypes, ErrorCode
  <2> USE DEF trackerVars, inputVars, addrVars, hopVars
  <2>2. TrackerTypes'
    BY <1>0, <1>5, <2>1 DEF DnsBudget, TrackerTypes
  <2>3. InputTypes'
    BY <1>0, <1>5, <2>1 DEF DnsBudget, InputTypes
  <2>4. ProgressTypes'
    BY <1>0, <1>5, <2>1 DEF DnsBudget, ProgressTypes
  <2>5. EndpointTypes'
    BY <1>0, <1>5, <2>1 DEF DnsBudget, EndpointTypes
  <2>6. HopTypes'
    BY <1>0, <1>5, <2>1 DEF DnsBudget, HopTypes
  <2>7. /\ active' = active /\ pc' \notin Probing /\ pc' # "body"
        /\ active = NoProbe
    BY <1>0, <1>5, <2>1 DEF DnsBudget, Control
  <2>8. Control'
    BY <2>1, <2>7 DEF Control
  <2>9. QED
    BY <2>2, <2>3, <2>4, <2>5, <2>6, <2>8 DEF TypeInv, TypeOK
<1>6. ASSUME DnsStart PROVE TypeInv'
  <2>1. op' \in Call /\ op'.started = now /\ stamp_probe
    BY <1>0, <1>6, MarkType DEF DnsStart
  <2>2. active' \in ActiveProbe /\ active'.started_ms = now
    BY <1>0, <1>6, <2>1, StampType DEF DnsStart
  <2>3. wire' \in Seq(NetworkAction)
    BY <1>0, <1>6, <2>2, SendType DEF DnsStart, TrackerTypes, ProgressTypes, NoAddress
  <2> USE DEF trackerVars, inputVars, addrVars, hopVars
  <2>4. TrackerTypes'
    BY <1>0, <1>6, <2>1, <2>2, <2>3 DEF DnsStart, ResolvedProxy, TrackerTypes
  <2>5. InputTypes'
    BY <1>0, <1>6, <2>1, <2>2, <2>3 DEF DnsStart, ResolvedProxy, InputTypes
  <2>6. ProgressTypes'
    BY <1>0, <1>6, <2>1, <2>2, <2>3 DEF DnsStart, ResolvedProxy, ProgressTypes
  <2>7. EndpointTypes'
    <3>1. proxy.connect_host \in Hosts
      BY <1>0 DEF HopTypes, ResolvedProxy
    <3>2. lookup' \in [host : Hosts, answer : SUBSET Addresses]
      BY <1>6, <3>1 DEF DnsStart
    <3>3. QED
      BY <1>0, <1>6, <3>2 DEF DnsStart, EndpointTypes
  <2>8. HopTypes'
    BY <1>0, <1>6, <2>1, <2>2, <2>3 DEF DnsStart, ResolvedProxy, HopTypes
  <2>9. Control'
    BY <1>0, <1>6, <2>1, <2>2, <2>3 DEF DnsStart, ResolvedProxy, Control, TrackerTypes, Call
  <2>10. QED
    BY <2>4, <2>5, <2>6, <2>7, <2>8, <2>9 DEF TypeInv, TypeOK
<1>7. ASSUME DnsError PROVE TypeInv'
  <2>1. probes' \in Seq(ProbeRecord) /\ active' = NoProbe
    BY <1>0, <1>7, FinishType DEF DnsError, Outcome
  <2>2. phases' \in Seq(Phase) /\ pc' = "finalize"
    BY <1>0, <1>7, ResolveFailedType DEF DnsError, ErrorCode, ProgressTypes
  <2>3. UNCHANGED <<now, deadline, max_probes, response_bytes_read, inputVars, error,
                    addrVars, current, proxy, response, op, wire, hops>>
    BY <1>7 DEF DnsError, trackerVars, hopVars
  <2>4. hops' \in Seq(Hop)
    BY <1>0, <2>3 DEF HopTypes
  <2>5. QED
    BY <2>1, <2>2, <2>3, <2>4, SettledType
<1>8. ASSUME TcpExhausted PROVE TypeInv'
  <2>1. probes' \in Seq(ProbeRecord) /\ active' = NoProbe
    BY <1>0, <1>8 DEF TcpExhausted, drop_probe, trackerVars, TrackerTypes, Control
  <2>2. phases' \in Seq(Phase) /\ pc' = "finalize"
    BY <1>0, <1>8, FailType DEF TcpExhausted, ErrorCode, PhaseName, ProgressTypes
  <2>3. UNCHANGED <<now, deadline, max_probes, response_bytes_read, inputVars, error,
                    addrVars, current, proxy, response, op, wire, hops>>
    BY <1>8 DEF TcpExhausted, trackerVars, hopVars
  <2>4. hops' \in Seq(Hop)
    BY <1>0, <2>3 DEF HopTypes
  <2>5. QED
    BY <2>1, <2>2, <2>3, <2>4, SettledType
<1>9. ASSUME TcpBudget PROVE TypeInv'
  <2>1. probes' \in Seq(ProbeRecord) /\ active' = NoProbe
    BY <1>0, <1>9 DEF TcpBudget, drop_probe, trackerVars, TrackerTypes, Control
  <2>2. phases' \in Seq(Phase) /\ pc' = "finalize"
    BY <1>0, <1>9, FailType DEF TcpBudget, ErrorCode, PhaseName, ProgressTypes
  <2>3. UNCHANGED <<now, deadline, max_probes, response_bytes_read, inputVars, error,
                    addrVars, current, proxy, response, op, wire, hops>>
    BY <1>9 DEF TcpBudget, trackerVars, hopVars
  <2>4. hops' \in Seq(Hop)
    BY <1>0, <2>3 DEF HopTypes
  <2>5. QED
    BY <2>1, <2>2, <2>3, <2>4, SettledType
<1>10. ASSUME TcpStart PROVE TypeInv'
  <2>1. op' \in Call /\ op'.started = now /\ stamp_probe
    BY <1>0, <1>10, MarkType DEF TcpStart
  <2>2. active' \in ActiveProbe /\ active'.started_ms = now
    BY <1>0, <1>10, <2>1, StampType DEF TcpStart
  <2> USE DEF trackerVars, inputVars, addrVars, hopVars
  <2>3. TrackerTypes'
    BY <1>0, <1>10, <2>1, <2>2 DEF TcpStart, TrackerTypes
  <2>4. InputTypes'
    BY <1>0, <1>10, <2>1, <2>2 DEF TcpStart, InputTypes
  <2>5. ProgressTypes'
    BY <1>0, <1>10, <2>1, <2>2 DEF TcpStart, ProgressTypes
  <2>6. EndpointTypes'
    BY <1>0, <1>10, <2>1, <2>2 DEF TcpStart, EndpointTypes
  <2>7. HopTypes'
    BY <1>0, <1>10, <2>1, <2>2 DEF TcpStart, HopTypes
  <2>8. Control'
    BY <1>0, <1>10, <2>1, <2>2 DEF TcpStart, Control, TrackerTypes, Call
  <2>9. QED
    BY <2>3, <2>4, <2>5, <2>6, <2>7, <2>8 DEF TypeInv, TypeOK
<1>11. ASSUME TcpLate PROVE TypeInv'
  <2>1. probes' \in Seq(ProbeRecord) /\ active' = NoProbe
    BY <1>0, <1>11 DEF TcpLate, drop_probe, trackerVars, TrackerTypes, Control
  <2>2. phases' \in Seq(Phase) /\ pc' = "finalize"
    BY <1>0, <1>11, FailType DEF TcpLate, ErrorCode, PhaseName, ProgressTypes
  <2>3. UNCHANGED <<now, deadline, max_probes, response_bytes_read, inputVars, error,
                    addrVars, current, proxy, response, op, wire, hops>>
    BY <1>11 DEF TcpLate, trackerVars, hopVars
  <2>4. hops' \in Seq(Hop)
    BY <1>0, <2>3 DEF HopTypes
  <2>5. QED
    BY <2>1, <2>2, <2>3, <2>4, SettledType
<1>12. ASSUME TcpDial PROVE TypeInv'
  <2>1. op' \in Call /\ op'.started = op.started
    BY <1>0, <1>12, BlockType DEF TcpDial
  <2>2. active' = active /\ active \in ActiveProbe
    BY <1>0, <1>12, Zenon DEF TcpDial, Control
  <2>3. selected \in Nat
    BY <1>0, <1>12, AddressAssumption DEF EndpointTypes, NoAddress
  <2>4. wire' \in Seq(NetworkAction)
    BY <1>0, <1>12, <2>2, <2>3, SendType DEF TcpDial, TrackerTypes, ProgressTypes
  <2> USE DEF trackerVars, inputVars, addrVars, hopVars
  <2>5. TrackerTypes'
    BY <1>0, <1>12, <2>1, <2>2, <2>3, <2>4 DEF TcpDial, TrackerTypes
  <2>6. InputTypes'
    BY <1>0, <1>12, <2>1, <2>2, <2>3, <2>4 DEF TcpDial, InputTypes
  <2>7. ProgressTypes'
    BY <1>0, <1>12, <2>1, <2>2, <2>3, <2>4 DEF TcpDial, ProgressTypes
  <2>8. EndpointTypes'
    BY <1>0, <1>12, <2>1, <2>2, <2>3, <2>4 DEF TcpDial, EndpointTypes
  <2>9. HopTypes'
    BY <1>0, <1>12, <2>1, <2>2, <2>3, <2>4 DEF TcpDial, HopTypes
  <2>10. Control'
    BY <1>0, <1>12, <2>1, <2>2, <2>3, <2>4 DEF TcpDial, Control, TrackerTypes, Call
  <2>11. QED
    BY <2>5, <2>6, <2>7, <2>8, <2>9, <2>10 DEF TypeInv, TypeOK
<1>13. ASSUME TcpConnected PROVE TypeInv'
  <2>1. phases' \in Seq(Phase) /\ pc' \in Steps
    BY <1>0, <1>13, <1>0, PushType DEF TcpConnected, PhaseName, ProgressTypes
  <2>2. probes' \in Seq(ProbeRecord) /\ active' = NoProbe
    BY <1>0, <1>13, FinishType DEF TcpConnected, Outcome
  <2> USE DEF trackerVars, inputVars, addrVars, hopVars
  <2>3. TrackerTypes'
    BY <1>0, <1>13, <2>1, <2>2 DEF TcpConnected, Push, TrackerTypes
  <2>4. InputTypes'
    BY <1>0, <1>13, <2>1, <2>2 DEF TcpConnected, Push, InputTypes
  <2>5. ProgressTypes'
    BY <1>0, <1>13, <2>1, <2>2 DEF TcpConnected, Push, ProgressTypes
  <2>6. EndpointTypes'
    BY <1>0, <1>13, <2>1, <2>2 DEF TcpConnected, Push, EndpointTypes
  <2>7. HopTypes'
    BY <1>0, <1>13, <2>1, <2>2 DEF TcpConnected, Push, HopTypes
  <2>8. Control'
    BY <1>0, <1>13, <2>1, <2>2 DEF TcpConnected, Push, Control, TrackerTypes
  <2>9. QED
    BY <2>3, <2>4, <2>5, <2>6, <2>7, <2>8 DEF TypeInv, TypeOK
<1>14. ASSUME TcpRefused PROVE TypeInv'
  <2>1. probes' \in Seq(ProbeRecord) /\ active' = NoProbe
    BY <1>0, <1>14, FinishType DEF TcpRefused, Outcome
  <2>2. phases' \in Seq(Phase) /\ pc' = "tcp"
    BY <1>0, <1>14 DEF TcpRefused, ProgressTypes
  <2>3. UNCHANGED <<now, deadline, max_probes, response_bytes_read, inputVars, error,
                    addrVars, current, proxy, response, op, wire, hops>>
    BY <1>14 DEF TcpRefused, trackerVars, hopVars
  <2>4. hops' \in Seq(Hop)
    BY <1>0, <2>3 DEF HopTypes
  <2>5. QED
    BY <2>1, <2>2, <2>3, <2>4, SettledType
<1>15. ASSUME TlsSkipped PROVE TypeInv'
  <2>1. phases' \in Seq(Phase) /\ pc' \in Steps
    BY <1>0, <1>15, <1>0, PushType DEF TlsSkipped, PhaseName, ProgressTypes
  <2> USE DEF trackerVars, inputVars, addrVars, hopVars
  <2>2. TrackerTypes'
    BY <1>0, <1>15, <2>1 DEF TlsSkipped, Push, TrackerTypes
  <2>3. InputTypes'
    BY <1>0, <1>15, <2>1 DEF TlsSkipped, Push, InputTypes
  <2>4. ProgressTypes'
    BY <1>0, <1>15, <2>1 DEF TlsSkipped, Push, ProgressTypes
  <2>5. EndpointTypes'
    BY <1>0, <1>15, <2>1 DEF TlsSkipped, Push, EndpointTypes
  <2>6. HopTypes'
    BY <1>0, <1>15, <2>1 DEF TlsSkipped, Push, HopTypes
  <2>7. Control'
    BY <1>0, <1>15, <2>1 DEF TlsSkipped, Push, Control, TrackerTypes
  <2>8. QED
    BY <2>2, <2>3, <2>4, <2>5, <2>6, <2>7 DEF TypeInv, TypeOK
<1>16. ASSUME TlsNotObserved PROVE TypeInv'
  <2>1. phases' \in Seq(Phase) /\ pc' \in Steps
    BY <1>0, <1>16, <1>0, PushType DEF TlsNotObserved, PhaseName, ProgressTypes
  <2> USE DEF trackerVars, inputVars, addrVars, hopVars
  <2>2. TrackerTypes'
    BY <1>0, <1>16, <2>1 DEF TlsNotObserved, Push, TrackerTypes
  <2>3. InputTypes'
    BY <1>0, <1>16, <2>1 DEF TlsNotObserved, Push, InputTypes
  <2>4. ProgressTypes'
    BY <1>0, <1>16, <2>1 DEF TlsNotObserved, Push, ProgressTypes
  <2>5. EndpointTypes'
    BY <1>0, <1>16, <2>1 DEF TlsNotObserved, Push, EndpointTypes
  <2>6. HopTypes'
    BY <1>0, <1>16, <2>1 DEF TlsNotObserved, Push, HopTypes
  <2>7. Control'
    BY <1>0, <1>16, <2>1 DEF TlsNotObserved, Push, Control, TrackerTypes
  <2>8. QED
    BY <2>2, <2>3, <2>4, <2>5, <2>6, <2>7 DEF TypeInv, TypeOK
<1>17. ASSUME TlsBudget PROVE TypeInv'
  <2>1. phases' \in Seq(Phase) /\ pc' = "finalize"
    BY <1>0, <1>17, FailType DEF TlsBudget, ProgressTypes, ErrorCode, PhaseName
  <2> USE DEF trackerVars, inputVars, addrVars, hopVars
  <2>2. TrackerTypes'
    BY <1>0, <1>17, <2>1 DEF TlsBudget, TrackerTypes
  <2>3. InputTypes'
    BY <1>0, <1>17, <2>1 DEF TlsBudget, InputTypes
  <2>4. ProgressTypes'
    BY <1>0, <1>17, <2>1 DEF TlsBudget, ProgressTypes
  <2>5. EndpointTypes'
    BY <1>0, <1>17, <2>1 DEF TlsBudget, EndpointTypes
  <2>6. HopTypes'
    BY <1>0, <1>17, <2>1 DEF TlsBudget, HopTypes
  <2>7. /\ active' = active /\ pc' \notin Probing /\ pc' # "body"
        /\ active = NoProbe
    BY <1>0, <1>17, <2>1 DEF TlsBudget, Control
  <2>8. Control'
    BY <2>1, <2>7 DEF Control
  <2>9. QED
    BY <2>2, <2>3, <2>4, <2>5, <2>6, <2>8 DEF TypeInv, TypeOK
<1>18. ASSUME TlsStart PROVE TypeInv'
  <2>1. op' \in Call /\ op'.started = now /\ stamp_probe
    BY <1>0, <1>18, MarkType DEF TlsStart
  <2>2. active' \in ActiveProbe /\ active'.started_ms = now
    BY <1>0, <1>18, <2>1, StampType DEF TlsStart
  <2> USE DEF trackerVars, inputVars, addrVars, hopVars
  <2>3. TrackerTypes'
    BY <1>0, <1>18, <2>1, <2>2 DEF TlsStart, TrackerTypes
  <2>4. InputTypes'
    BY <1>0, <1>18, <2>1, <2>2 DEF TlsStart, InputTypes
  <2>5. ProgressTypes'
    BY <1>0, <1>18, <2>1, <2>2 DEF TlsStart, ProgressTypes
  <2>6. EndpointTypes'
    BY <1>0, <1>18, <2>1, <2>2 DEF TlsStart, EndpointTypes
  <2>7. HopTypes'
    BY <1>0, <1>18, <2>1, <2>2 DEF TlsStart, HopTypes
  <2>8. Control'
    BY <1>0, <1>18, <2>1, <2>2 DEF TlsStart, Control, TrackerTypes, Call
  <2>9. QED
    BY <2>3, <2>4, <2>5, <2>6, <2>7, <2>8 DEF TypeInv, TypeOK
<1>19. ASSUME TlsDial PROVE TypeInv'
  <2>1. op' \in Call /\ op'.started = op.started
    BY <1>0, <1>19, BlockType DEF TlsDial
  <2>2. active' = active /\ active \in ActiveProbe
    BY <1>0, <1>19, Zenon DEF TlsDial, Control
  <2>3. selected \in Nat
    BY <1>0, <1>19, AddressAssumption DEF EndpointTypes, NoAddress
  <2>4. wire' \in Seq(NetworkAction)
    BY <1>0, <1>19, <2>2, <2>3, SendType DEF TlsDial, TrackerTypes, ProgressTypes
  <2> USE DEF trackerVars, inputVars, addrVars, hopVars
  <2>5. TrackerTypes'
    BY <1>0, <1>19, <2>1, <2>2, <2>3, <2>4 DEF TlsDial, TrackerTypes
  <2>6. InputTypes'
    BY <1>0, <1>19, <2>1, <2>2, <2>3, <2>4 DEF TlsDial, InputTypes
  <2>7. ProgressTypes'
    BY <1>0, <1>19, <2>1, <2>2, <2>3, <2>4 DEF TlsDial, ProgressTypes
  <2>8. EndpointTypes'
    BY <1>0, <1>19, <2>1, <2>2, <2>3, <2>4 DEF TlsDial, EndpointTypes
  <2>9. HopTypes'
    BY <1>0, <1>19, <2>1, <2>2, <2>3, <2>4 DEF TlsDial, HopTypes
  <2>10. Control'
    BY <1>0, <1>19, <2>1, <2>2, <2>3, <2>4 DEF TlsDial, Control, TrackerTypes, Call
  <2>11. QED
    BY <2>5, <2>6, <2>7, <2>8, <2>9, <2>10 DEF TypeInv, TypeOK
<1>20. ASSUME TlsLate PROVE TypeInv'
  <2>1. probes' \in Seq(ProbeRecord) /\ active' = NoProbe
    BY <1>0, <1>20 DEF TlsLate, drop_probe, trackerVars, TrackerTypes, Control
  <2>2. phases' \in Seq(Phase) /\ pc' = "finalize"
    BY <1>0, <1>20, FailType DEF TlsLate, ErrorCode, PhaseName, ProgressTypes
  <2>3. UNCHANGED <<now, deadline, max_probes, response_bytes_read, inputVars, error,
                    addrVars, current, proxy, response, op, wire, hops>>
    BY <1>20 DEF TlsLate, trackerVars, hopVars
  <2>4. hops' \in Seq(Hop)
    BY <1>0, <2>3 DEF HopTypes
  <2>5. QED
    BY <2>1, <2>2, <2>3, <2>4, SettledType
<1>21. ASSUME TlsUnusable PROVE TypeInv'
  <2>1. probes' \in Seq(ProbeRecord) /\ active' = NoProbe
    BY <1>0, <1>21, FinishType DEF TlsUnusable, Outcome
  <2>2. phases' \in Seq(Phase) /\ pc' = "finalize"
    BY <1>0, <1>21, FailType DEF TlsUnusable, ErrorCode, PhaseName, ProgressTypes
  <2>3. UNCHANGED <<now, deadline, max_probes, response_bytes_read, inputVars, error,
                    addrVars, current, proxy, response, op, wire, hops>>
    BY <1>21 DEF TlsUnusable, trackerVars, hopVars
  <2>4. hops' \in Seq(Hop)
    BY <1>0, <2>3 DEF HopTypes
  <2>5. QED
    BY <2>1, <2>2, <2>3, <2>4, SettledType
<1>22. ASSUME TlsConnected PROVE TypeInv'
  BY <1>0, <1>22
     DEF TlsConnected, TypeInv, TypeOK, Control, TrackerTypes, InputTypes, ProgressTypes, EndpointTypes, HopTypes,
         trackerVars, inputVars, addrVars, hopVars
<1>23. ASSUME TlsHandshake PROVE TypeInv'
  <2>1. op.span \in Nat
    BY <1>0, <1>23, SMT DEF TrackerTypes, Call
  <2>2. op' \in Call /\ op'.started = op.started
    BY <1>0, <1>23, <2>1, BlockType DEF TlsHandshake
  <2> USE DEF trackerVars, inputVars, addrVars, hopVars
  <2>3. TrackerTypes'
    BY <1>0, <1>23, <2>1, <2>2 DEF TlsHandshake, TrackerTypes
  <2>4. InputTypes'
    BY <1>0, <1>23, <2>1, <2>2 DEF TlsHandshake, InputTypes
  <2>5. ProgressTypes'
    BY <1>0, <1>23, <2>1, <2>2 DEF TlsHandshake, ProgressTypes
  <2>6. EndpointTypes'
    BY <1>0, <1>23, <2>1, <2>2 DEF TlsHandshake, EndpointTypes
  <2>7. HopTypes'
    BY <1>0, <1>23, <2>1, <2>2 DEF TlsHandshake, HopTypes
  <2>8. Control'
    BY <1>0, <1>23, <2>1, <2>2 DEF TlsHandshake, Control, TrackerTypes, Call
  <2>9. QED
    BY <2>3, <2>4, <2>5, <2>6, <2>7, <2>8 DEF TypeInv, TypeOK
<1>24. ASSUME TlsFailed PROVE TypeInv'
  <2>1. probes' \in Seq(ProbeRecord) /\ active' = NoProbe
    BY <1>0, <1>24, FinishType DEF TlsFailed, Outcome
  <2>2. phases' \in Seq(Phase) /\ pc' = "finalize"
    BY <1>0, <1>24, FailType DEF TlsFailed, ErrorCode, PhaseName, ProgressTypes
  <2>3. UNCHANGED <<now, deadline, max_probes, response_bytes_read, inputVars, error,
                    addrVars, current, proxy, response, op, wire, hops>>
    BY <1>24 DEF TlsFailed, trackerVars, hopVars
  <2>4. hops' \in Seq(Hop)
    BY <1>0, <2>3 DEF HopTypes
  <2>5. QED
    BY <2>1, <2>2, <2>3, <2>4, SettledType
<1>25. ASSUME TlsValidated PROVE TypeInv'
  <2>1. phases' \in Seq(Phase) /\ pc' \in Steps
    BY <1>0, <1>25, <1>0, PushType DEF TlsValidated, PhaseName, ProgressTypes
  <2>2. probes' \in Seq(ProbeRecord) /\ active' = NoProbe
    BY <1>0, <1>25, FinishType DEF TlsValidated, Outcome
  <2> USE DEF trackerVars, inputVars, addrVars, hopVars
  <2>3. TrackerTypes'
    BY <1>0, <1>25, <2>1, <2>2 DEF TlsValidated, Push, TrackerTypes
  <2>4. InputTypes'
    BY <1>0, <1>25, <2>1, <2>2 DEF TlsValidated, Push, InputTypes
  <2>5. ProgressTypes'
    BY <1>0, <1>25, <2>1, <2>2 DEF TlsValidated, Push, ProgressTypes
  <2>6. EndpointTypes'
    BY <1>0, <1>25, <2>1, <2>2 DEF TlsValidated, Push, EndpointTypes
  <2>7. HopTypes'
    BY <1>0, <1>25, <2>1, <2>2 DEF TlsValidated, Push, HopTypes
  <2>8. Control'
    BY <1>0, <1>25, <2>1, <2>2 DEF TlsValidated, Push, Control, TrackerTypes
  <2>9. QED
    BY <2>3, <2>4, <2>5, <2>6, <2>7, <2>8 DEF TypeInv, TypeOK
<1>26. ASSUME ReadProgress PROVE TypeInv'
  <2>1. op.span \in Nat
    BY <1>0, <1>26, SMT DEF TrackerTypes, Call
  <2>2. op' \in Call /\ op'.started = op.started
    BY <1>0, <1>26, <2>1, BlockType DEF ReadProgress
  <2> USE DEF trackerVars, inputVars, addrVars, hopVars
  <2>3. TrackerTypes'
    BY <1>0, <1>26, <2>1, <2>2 DEF ReadProgress, TrackerTypes
  <2>4. InputTypes'
    BY <1>0, <1>26, <2>1, <2>2 DEF ReadProgress, InputTypes
  <2>5. ProgressTypes'
    BY <1>0, <1>26, <2>1, <2>2 DEF ReadProgress, ProgressTypes
  <2>6. EndpointTypes'
    BY <1>0, <1>26, <2>1, <2>2 DEF ReadProgress, EndpointTypes
  <2>7. HopTypes'
    BY <1>0, <1>26, <2>1, <2>2 DEF ReadProgress, HopTypes
  <2>8. Control'
    BY <1>0, <1>26, <2>1, <2>2 DEF ReadProgress, Control, TrackerTypes, Call
  <2>9. QED
    BY <2>3, <2>4, <2>5, <2>6, <2>7, <2>8 DEF TypeInv, TypeOK
<1>27. ASSUME HttpUnbuilt PROVE TypeInv'
  <2>1. phases' \in Seq(Phase) /\ pc' = "finalize" /\ hops' \in Seq(Hop)
    BY <1>0, <1>27, HttpFailType DEF HttpUnbuilt, ProgressTypes, ErrorCode
  <2> USE DEF trackerVars, inputVars, addrVars, hopVars
  <2>2. TrackerTypes'
    BY <1>0, <1>27, <2>1 DEF HttpUnbuilt, TrackerTypes
  <2>3. InputTypes'
    BY <1>0, <1>27, <2>1 DEF HttpUnbuilt, InputTypes
  <2>4. ProgressTypes'
    BY <1>0, <1>27, <2>1 DEF HttpUnbuilt, ProgressTypes
  <2>5. EndpointTypes'
    BY <1>0, <1>27, <2>1 DEF HttpUnbuilt, EndpointTypes
  <2>6. HopTypes'
    BY <1>0, <1>27, <2>1 DEF HttpUnbuilt, HopTypes
  <2>7. /\ active' = active /\ pc' \notin Probing /\ pc' # "body"
        /\ active = NoProbe
    BY <1>0, <1>27, <2>1 DEF HttpUnbuilt, Control
  <2>8. Control'
    BY <2>1, <2>7 DEF Control
  <2>9. QED
    BY <2>2, <2>3, <2>4, <2>5, <2>6, <2>8 DEF TypeInv, TypeOK
<1>28. ASSUME HttpBuild PROVE TypeInv'
  <2>1. op' \in Call /\ op'.started = op.started
    BY <1>0, <1>28, CapType, LimitAssumption DEF HttpBuild
  <2> USE DEF trackerVars, inputVars, addrVars, hopVars
  <2>2. TrackerTypes'
    BY <1>0, <1>28, <2>1 DEF HttpBuild, TrackerTypes
  <2>3. InputTypes'
    BY <1>0, <1>28, <2>1 DEF HttpBuild, InputTypes
  <2>4. ProgressTypes'
    BY <1>0, <1>28, <2>1 DEF HttpBuild, ProgressTypes
  <2>5. EndpointTypes'
    BY <1>0, <1>28, <2>1 DEF HttpBuild, EndpointTypes
  <2>6. HopTypes'
    BY <1>0, <1>28, <2>1 DEF HttpBuild, HopTypes
  <2>7. Control'
    BY <1>0, <1>28, <2>1 DEF HttpBuild, Control, TrackerTypes, Call
  <2>8. QED
    BY <2>2, <2>3, <2>4, <2>5, <2>6, <2>7 DEF TypeInv, TypeOK
<1>29. ASSUME HttpBudget PROVE TypeInv'
  <2>1. phases' \in Seq(Phase) /\ pc' = "finalize" /\ hops' \in Seq(Hop)
    BY <1>0, <1>29, HttpFailType DEF HttpBudget, ProgressTypes, ErrorCode
  <2> USE DEF trackerVars, inputVars, addrVars, hopVars
  <2>2. TrackerTypes'
    BY <1>0, <1>29, <2>1 DEF HttpBudget, TrackerTypes
  <2>3. InputTypes'
    BY <1>0, <1>29, <2>1 DEF HttpBudget, InputTypes
  <2>4. ProgressTypes'
    BY <1>0, <1>29, <2>1 DEF HttpBudget, ProgressTypes
  <2>5. EndpointTypes'
    BY <1>0, <1>29, <2>1 DEF HttpBudget, EndpointTypes
  <2>6. HopTypes'
    BY <1>0, <1>29, <2>1 DEF HttpBudget, HopTypes
  <2>7. /\ active' = active /\ pc' \notin Probing /\ pc' # "body"
        /\ active = NoProbe
    BY <1>0, <1>29, <2>1 DEF HttpBudget, Control
  <2>8. Control'
    BY <2>1, <2>7 DEF Control
  <2>9. QED
    BY <2>2, <2>3, <2>4, <2>5, <2>6, <2>8 DEF TypeInv, TypeOK
<1>30. ASSUME HttpSend PROVE TypeInv'
  <2>1. active' \in ActiveProbe /\ active'.started_ms = now
    BY <1>0, <1>30, StampType DEF HttpSend
  <2>2. selected \in Nat
    BY <1>0, <1>30, AddressAssumption DEF EndpointTypes, NoAddress
  <2>3. wire' \in Seq(NetworkAction)
    BY <1>0, <1>30, <2>1, <2>2, SendType DEF HttpSend, TrackerTypes, ProgressTypes
  <2>4. now \in Nat /\ op.span \in Nat /\ now + op.span \in Nat
    BY <1>0, <1>30, SMT DEF TrackerTypes, Call
  <2>5. op' = [started |-> now, span |-> op.span, capped |-> op.capped, limit |-> now + op.span]
    <3>1. op' = [op EXCEPT !.started = now, !.limit = now + op.span]
      BY <1>30 DEF HttpSend
    <3>2. op \in Call
      BY <1>0 DEF TrackerTypes
    <3>3. QED
      BY <3>1, <3>2 DEF Call
  <2>6. op' \in Call /\ op'.started = now
    BY <1>0, <1>30, <2>4, <2>5 DEF Call, TrackerTypes
  <2> USE DEF trackerVars, inputVars, addrVars, hopVars
  <2>7. TrackerTypes'
    BY <1>0, <1>30, <2>1, <2>2, <2>3, <2>4, <2>5, <2>6 DEF HttpSend, TrackerTypes
  <2>8. InputTypes'
    BY <1>0, <1>30, <2>1, <2>2, <2>3, <2>4, <2>5, <2>6 DEF HttpSend, InputTypes
  <2>9. ProgressTypes'
    BY <1>0, <1>30, <2>1, <2>2, <2>3, <2>4, <2>5, <2>6 DEF HttpSend, ProgressTypes
  <2>10. EndpointTypes'
    BY <1>0, <1>30, <2>1, <2>2, <2>3, <2>4, <2>5, <2>6 DEF HttpSend, EndpointTypes
  <2>11. HopTypes'
    BY <1>0, <1>30, <2>1, <2>2, <2>3, <2>4, <2>5, <2>6 DEF HttpSend, HopTypes
  <2>12. Control'
    BY <1>0, <1>30, <2>1, <2>2, <2>3, <2>4, <2>5, <2>6 DEF HttpSend, Control, TrackerTypes, Call
  <2>13. QED
    BY <2>7, <2>8, <2>9, <2>10, <2>11, <2>12 DEF TypeInv, TypeOK
<1>31. ASSUME HttpError PROVE TypeInv'
  <2>1. probes' \in Seq(ProbeRecord) /\ active' = NoProbe
    BY <1>0, <1>31, FinishType DEF HttpError, Outcome
  <2>2. phases' \in Seq(Phase) /\ pc' = "finalize" /\ hops' \in Seq(Hop)
    BY <1>0, <1>31, HttpFailType, CodeType DEF HttpError, ProgressTypes
  <2>3. UNCHANGED <<now, deadline, max_probes, response_bytes_read, inputVars, error,
                    addrVars, current, proxy, response, op, wire>>
    BY <1>31 DEF HttpError, trackerVars, hopVars
  <2>4. QED
    BY <2>1, <2>2, <2>3, SettledType
<1>32. ASSUME BodyFailed PROVE TypeInv'
  <2>1. probes' \in Seq(ProbeRecord) /\ active' = NoProbe
    BY <1>0, <1>32 DEF BodyFailed, drop_probe, trackerVars, TrackerTypes, Control
  <2>2. phases' \in Seq(Phase) /\ pc' = "finalize" /\ hops' \in Seq(Hop)
    BY <1>0, <1>32, HttpFailType DEF BodyFailed, ErrorCode, ProgressTypes
  <2>3. UNCHANGED <<now, deadline, max_probes, response_bytes_read, inputVars, error,
                    addrVars, current, proxy, response, op, wire>>
    BY <1>32 DEF BodyFailed, trackerVars, hopVars
  <2>4. QED
    BY <2>1, <2>2, <2>3, SettledType
<1>33. ASSUME HopDenied PROVE TypeInv'
  BY <1>0, <1>33, FinishHttpType, CodeType
     DEF HopDenied, TypeInv, TypeOK, Control, TrackerTypes, InputTypes, ProgressTypes, EndpointTypes, HopTypes,
         trackerVars, inputVars, addrVars, hopVars
<1>34. ASSUME HopAccepted PROVE TypeInv'
  BY <1>0, <1>34, ProxyType
     DEF HopAccepted, TypeInv, TypeOK, Control, TrackerTypes, InputTypes, ProgressTypes, EndpointTypes, HopTypes,
         trackerVars, inputVars, addrVars, hopVars
<1>35. ASSUME Finalize PROVE TypeInv'
  BY <1>0, <1>35
     DEF Finalize, TypeInv, TypeOK, Control, TrackerTypes, InputTypes, ProgressTypes, EndpointTypes, HopTypes,
         trackerVars, inputVars, addrVars, hopVars
<1>36. ASSUME Tick PROVE TypeInv'
  <2>1. now \in Nat /\ now' = now + 1 /\ now' \in Nat
    BY <1>0, <1>36, SMT DEF Tick, TrackerTypes
  <2> USE DEF trackerVars, inputVars, addrVars, hopVars
  <2>2. TrackerTypes'
    BY <1>0, <1>36, <2>1 DEF Tick, TrackerTypes
  <2>3. InputTypes'
    BY <1>0, <1>36, <2>1 DEF Tick, InputTypes
  <2>4. ProgressTypes'
    BY <1>0, <1>36, <2>1 DEF Tick, ProgressTypes
  <2>5. EndpointTypes'
    BY <1>0, <1>36, <2>1 DEF Tick, EndpointTypes
  <2>6. HopTypes'
    BY <1>0, <1>36, <2>1 DEF Tick, HopTypes
  <2>7. Control'
    <3>1. active \in ActiveProbe => active.started_ms \in Nat
      BY DEF ActiveProbe
    <3>2. op.started \in Nat
      BY <1>0 DEF TrackerTypes, Call
    <3>3. UNCHANGED <<pc, active, op, response>>
      BY <1>36 DEF Tick
    <3>4. /\ pc \in Probing => active' \in ActiveProbe /\ active'.started_ms <= now'
          /\ pc \notin Probing => active' = NoProbe
      BY <1>0, <2>1, <3>1, <3>3 DEF Control
    <3>5. pc' \in Begun => active'.started_ms <= op'.started /\ op'.started <= now'
      BY <1>0, <2>1, <3>2, <3>3 DEF Control
    <3>6. /\ pc' = "dns_start" => active'.kind = "dns_lookup"
          /\ pc' = "tcp_start" => active'.kind = "tcp_connect"
          /\ pc' = "tls_start" => active'.kind = "tls_handshake"
          /\ pc' = "http_start" => active'.kind = "http_request"
          /\ pc' = "body" => response' \in Responses
      BY <1>0, <3>3 DEF Control
    <3>7. QED
      BY <3>3, <3>4, <3>5, <3>6 DEF Control
  <2>8. QED
    BY <2>2, <2>3, <2>4, <2>5, <2>6, <2>7 DEF TypeInv, TypeOK
<1>37. ASSUME Terminated PROVE TypeInv'
  BY <1>0, <1>37
     DEF Terminated, vars, TypeInv, TypeOK, Control, TrackerTypes, InputTypes, ProgressTypes, EndpointTypes, HopTypes,
         trackerVars, inputVars, addrVars, hopVars
<1>38. ASSUME NEW answer \in SUBSET Addresses, DnsAnswer(answer) PROVE TypeInv'
  <2> DEFINE permitted == permitted_addresses(answer, options)
  <2>1. permitted \subseteq Addresses
    BY PermittedAddresses
  <2>2. probes' \in Seq(ProbeRecord) /\ active' = NoProbe
    BY <1>0, <1>38, FinishType DEF DnsAnswer, Outcome
  <2>3. lookup' \in [host : Hosts, answer : SUBSET Addresses]
    BY <1>0, <1>38 DEF DnsAnswer, EndpointTypes
  <2> HIDE DEF permitted
  <2> DEFINE Settled == /\ phases' \in Seq(Phase) /\ pc' \in {"finalize", "tcp", "build"}
                        /\ todo' \in SUBSET Addresses
                        /\ selected' \in Addresses \cup {NoAddress}
  <2>4. Settled
    <3>1. ASSUME NEW code \in {"dns_empty_answer", "non_public_address_denied",
                               "redirect_target_denied"},
                 ResolveFailed(code), UNCHANGED <<todo, selected>>
          PROVE  Settled
      BY <1>0, <3>1, ResolveFailedType DEF ErrorCode, ProgressTypes, EndpointTypes
    <3>2. ASSUME todo' = permitted, Push(passed_phase("dns"), "tcp"), UNCHANGED selected
          PROVE  Settled
      BY <1>0, <2>1, <3>2, PushType DEF PhaseName, ProgressTypes, EndpointTypes
    <3>3. ASSUME NEW a \in permitted, selected' = a, pc' = "build", UNCHANGED <<phases, todo>>
          PROVE  Settled
      BY <1>0, <2>1, <3>3 DEF ProgressTypes, EndpointTypes
    <3>4. QED
      BY <1>38, <3>1, <3>2, <3>3 DEF DnsAnswer, IsLeast, permitted
  <2>5. UNCHANGED <<now, deadline, max_probes, response_bytes_read, inputVars, error,
                    hopVars, op, wire>>
    BY <1>38 DEF DnsAnswer
  <2>6. QED
    BY <1>0, <2>2, <2>3, <2>4, <2>5
       DEF TypeInv, TypeOK, Control, TrackerTypes, InputTypes, ProgressTypes, EndpointTypes,
           HopTypes, inputVars, hopVars
<1>39. ASSUME NEW r \in Responses, HttpResponse(r) PROVE TypeInv'
  <2>1. probes' \in Seq(ProbeRecord) /\ active' = NoProbe
    BY <1>0, <1>39, FinishType DEF HttpResponse, Outcome
  <2>2. op.span \in Nat
    BY <1>0 DEF TrackerTypes, Call
  <2>3. op' \in Call
    BY <1>0, <1>39, <2>2, BlockType DEF HttpResponse
  <2>4. QED
    BY <1>0, <1>39, <2>1, <2>3
       DEF HttpResponse, TypeInv, TypeOK, Control, TrackerTypes, InputTypes, ProgressTypes,
           EndpointTypes, HopTypes, inputVars, addrVars
<1>40. ASSUME BodyRead PROVE TypeInv'
  <2> DEFINE hop == response_to_hop(response)
  <2>1. response \in Responses /\ response \in Response /\ options.max_body_bytes \in Nat
    BY <1>0, <1>40, InputAssumption DEF BodyRead, Control, InputTypes, Options
  <2>2. response.length \in Nat /\ response.url \in Url /\ Len(hops) \in Nat
    BY <1>0, <2>1 DEF Response, HopTypes
  <2>3. min(response.length, options.max_body_bytes) \in Nat
    BY <2>1, <2>2, MinType
  <2>4. hop \in Hop
    BY <2>1, <2>2, <2>3 DEF response_to_hop, Hop
  <2>5. total_bytes(hop) \in Nat
    BY <1>0, <2>4 DEF total_bytes, Hop, TrackerTypes
  <2> HIDE DEF hop
  <2>6. hops' = Append(hops, hop) /\ response_bytes_read' = total_bytes(hop)
    BY <1>40 DEF BodyRead, hop
  <2>7. hops' \in Seq(Hop)
    BY <1>0, <2>4, <2>6 DEF HopTypes
  <2>8. phases' \in Seq(Phase) /\ pc' \in {"finalize", "hop"} /\ current' \in Url
    <3>1. ASSUME NEW code \in ErrorCode \cup {""}, NEW count, FinishHttp(code, count),
                 UNCHANGED current
          PROVE  phases' \in Seq(Phase) /\ pc' \in {"finalize", "hop"} /\ current' \in Url
      <4>1. phases' \in Seq(Phase) /\ pc' = "finalize"
        <5>1. phases \in Seq(Phase)
          BY <1>0 DEF ProgressTypes
        <5>2. QED
          BY <3>1, <5>1, FinishHttpType
      <4>2. QED
        BY <1>0, <3>1, <4>1 DEF HopTypes
    <3>2. ASSUME current' = response.url, pc' = "hop", UNCHANGED phases
          PROVE  phases' \in Seq(Phase) /\ pc' \in {"finalize", "hop"} /\ current' \in Url
      BY <1>0, <2>2, <3>2 DEF ProgressTypes
    <3>3. redirect_error(response) \in ErrorCode \cup {""} /\ "redirect_limit_reached" \in ErrorCode
      BY <1>0, CodeType DEF ErrorCode
    <3>4. QED
      BY <1>40, <3>1, <3>2, <3>3 DEF BodyRead
  <2>9. UNCHANGED <<now, deadline, max_probes, probes, active, inputVars, error, addrVars,
                    proxy, response, op, wire>> /\ pc = "body"
    BY <1>40 DEF BodyRead
  <2>10. QED
    BY <1>0, <2>5, <2>6, <2>7, <2>8, <2>9
       DEF TypeInv, TypeOK, Control, TrackerTypes, InputTypes, ProgressTypes, EndpointTypes,
           HopTypes, inputVars, addrVars
<1>41. CASE UNCHANGED vars
  <2> USE DEF vars, trackerVars, inputVars, addrVars, hopVars
  <2>1. TrackerTypes' /\ InputTypes'
    BY <1>0, <1>41 DEF TrackerTypes, InputTypes
  <2>2. ProgressTypes' /\ EndpointTypes' /\ HopTypes'
    BY <1>0, <1>41 DEF ProgressTypes, EndpointTypes, HopTypes
  <2>3. UNCHANGED <<pc, active, now, op, response>>
    BY <1>41
  <2>4. Control'
    BY <1>0, <2>3 DEF Control
  <2>5. QED
    BY <2>1, <2>2, <2>4 DEF TypeInv, TypeOK
<1>43. ASSUME DnsGrant PROVE TypeInv'
  <2>1. active' \in ActiveProbe /\ active'.started_ms = now
    BY <1>0, <1>43, StartType DEF DnsGrant, ProbeKind
  <2>2. active'.kind = "dns_lookup"
    BY <1>0, <1>43, StartType DEF DnsGrant, ProbeKind
  <2> USE DEF trackerVars, inputVars, addrVars, hopVars
  <2>3. TrackerTypes'
    BY <1>0, <1>43, <2>1, <2>2 DEF DnsGrant, TrackerTypes
  <2>4. InputTypes'
    BY <1>0, <1>43, <2>1, <2>2 DEF DnsGrant, InputTypes
  <2>5. ProgressTypes'
    BY <1>0, <1>43, <2>1, <2>2 DEF DnsGrant, ProgressTypes
  <2>6. EndpointTypes'
    BY <1>0, <1>43, <2>1, <2>2 DEF DnsGrant, EndpointTypes
  <2>7. HopTypes'
    BY <1>0, <1>43, <2>1, <2>2 DEF DnsGrant, HopTypes
  <2>8. Control'
    BY <1>0, <1>43, <2>1, <2>2 DEF DnsGrant, Control, TrackerTypes, Call
  <2>9. QED
    BY <2>3, <2>4, <2>5, <2>6, <2>7, <2>8 DEF TypeInv, TypeOK
<1>45. ASSUME TlsGrant PROVE TypeInv'
  <2>1. active' \in ActiveProbe /\ active'.started_ms = now
    BY <1>0, <1>45, StartType DEF TlsGrant, ProbeKind
  <2>2. active'.kind = "tls_handshake"
    BY <1>0, <1>45, StartType DEF TlsGrant, ProbeKind
  <2> USE DEF trackerVars, inputVars, addrVars, hopVars
  <2>3. TrackerTypes'
    BY <1>0, <1>45, <2>1, <2>2 DEF TlsGrant, TrackerTypes
  <2>4. InputTypes'
    BY <1>0, <1>45, <2>1, <2>2 DEF TlsGrant, InputTypes
  <2>5. ProgressTypes'
    BY <1>0, <1>45, <2>1, <2>2 DEF TlsGrant, ProgressTypes
  <2>6. EndpointTypes'
    BY <1>0, <1>45, <2>1, <2>2 DEF TlsGrant, EndpointTypes
  <2>7. HopTypes'
    BY <1>0, <1>45, <2>1, <2>2 DEF TlsGrant, HopTypes
  <2>8. Control'
    BY <1>0, <1>45, <2>1, <2>2 DEF TlsGrant, Control, TrackerTypes, Call
  <2>9. QED
    BY <2>3, <2>4, <2>5, <2>6, <2>7, <2>8 DEF TypeInv, TypeOK
<1>46. ASSUME HttpGrant PROVE TypeInv'
  <2>1. active' \in ActiveProbe /\ active'.started_ms = now
    BY <1>0, <1>46, StartType DEF HttpGrant, ProbeKind
  <2>2. active'.kind = "http_request"
    BY <1>0, <1>46, StartType DEF HttpGrant, ProbeKind
  <2> USE DEF trackerVars, inputVars, addrVars, hopVars
  <2>3. TrackerTypes'
    BY <1>0, <1>46, <2>1, <2>2 DEF HttpGrant, TrackerTypes
  <2>4. InputTypes'
    BY <1>0, <1>46, <2>1, <2>2 DEF HttpGrant, InputTypes
  <2>5. ProgressTypes'
    BY <1>0, <1>46, <2>1, <2>2 DEF HttpGrant, ProgressTypes
  <2>6. EndpointTypes'
    BY <1>0, <1>46, <2>1, <2>2 DEF HttpGrant, EndpointTypes
  <2>7. HopTypes'
    BY <1>0, <1>46, <2>1, <2>2 DEF HttpGrant, HopTypes
  <2>8. Control'
    BY <1>0, <1>46, <2>1, <2>2 DEF HttpGrant, Control, TrackerTypes, Call
  <2>9. QED
    BY <2>3, <2>4, <2>5, <2>6, <2>7, <2>8 DEF TypeInv, TypeOK
<1>44. ASSUME TcpGrant PROVE TypeInv'
  <2>1. active' \in ActiveProbe /\ active'.started_ms = now
    BY <1>0, <1>44, StartType DEF TcpGrant, ProbeKind
  <2>2. active'.kind = "tcp_connect"
    BY <1>0, <1>44, StartType DEF TcpGrant, ProbeKind
  <2>3. selected' \in Addresses /\ todo' \in SUBSET Addresses /\ lookup' = lookup
    BY <1>0, <1>44, SMT DEF TcpGrant, EndpointTypes
  <2> USE DEF trackerVars, inputVars, addrVars, hopVars
  <2>4. TrackerTypes'
    BY <1>0, <1>44, <2>1, <2>2, <2>3 DEF TcpGrant, TrackerTypes
  <2>5. InputTypes'
    BY <1>0, <1>44, <2>1, <2>2, <2>3 DEF TcpGrant, InputTypes
  <2>6. ProgressTypes'
    BY <1>0, <1>44, <2>1, <2>2, <2>3 DEF TcpGrant, ProgressTypes
  <2>7. EndpointTypes'
    BY <1>0, <1>44, <2>1, <2>2, <2>3 DEF TcpGrant, EndpointTypes
  <2>8. HopTypes'
    BY <1>0, <1>44, <2>1, <2>2, <2>3 DEF TcpGrant, HopTypes
  <2>9. Control'
    BY <1>0, <1>44, <2>1, <2>2, <2>3 DEF TcpGrant, Control, TrackerTypes, Call
  <2>10. QED
    BY <2>4, <2>5, <2>6, <2>7, <2>8, <2>9 DEF TypeInv, TypeOK
<1>47. ASSUME TcpMeasure PROVE TypeInv'
  <2>1. op' \in Call /\ op'.started = op.started
    BY <1>0, <1>47, CapType, LimitAssumption DEF TcpMeasure
  <2> USE DEF trackerVars, inputVars, addrVars, hopVars
  <2>2. TrackerTypes'
    BY <1>0, <1>47, <2>1 DEF TcpMeasure, TrackerTypes
  <2>3. InputTypes'
    BY <1>0, <1>47, <2>1 DEF TcpMeasure, InputTypes
  <2>4. ProgressTypes'
    BY <1>0, <1>47, <2>1 DEF TcpMeasure, ProgressTypes
  <2>5. EndpointTypes'
    BY <1>0, <1>47, <2>1 DEF TcpMeasure, EndpointTypes
  <2>6. HopTypes'
    BY <1>0, <1>47, <2>1 DEF TcpMeasure, HopTypes
  <2>7. Control'
    BY <1>0, <1>47, <2>1 DEF TcpMeasure, Control, TrackerTypes, Call
  <2>8. QED
    BY <2>2, <2>3, <2>4, <2>5, <2>6, <2>7 DEF TypeInv, TypeOK
<1>48. ASSUME TlsMeasure PROVE TypeInv'
  <2>1. op' \in Call /\ op'.started = op.started
    BY <1>0, <1>48, CapType, LimitAssumption DEF TlsMeasure
  <2> USE DEF trackerVars, inputVars, addrVars, hopVars
  <2>2. TrackerTypes'
    BY <1>0, <1>48, <2>1 DEF TlsMeasure, TrackerTypes
  <2>3. InputTypes'
    BY <1>0, <1>48, <2>1 DEF TlsMeasure, InputTypes
  <2>4. ProgressTypes'
    BY <1>0, <1>48, <2>1 DEF TlsMeasure, ProgressTypes
  <2>5. EndpointTypes'
    BY <1>0, <1>48, <2>1 DEF TlsMeasure, EndpointTypes
  <2>6. HopTypes'
    BY <1>0, <1>48, <2>1 DEF TlsMeasure, HopTypes
  <2>7. Control'
    BY <1>0, <1>48, <2>1 DEF TlsMeasure, Control, TrackerTypes, Call
  <2>8. QED
    BY <2>2, <2>3, <2>4, <2>5, <2>6, <2>7 DEF TypeInv, TypeOK
<1>42. QED
  BY <1>1, <1>2, <1>3, <1>4, <1>5, <1>6, <1>7, <1>8, <1>9, <1>10, <1>11, <1>12, <1>13,
     <1>14, <1>15, <1>16, <1>17, <1>18, <1>19, <1>20, <1>21, <1>22, <1>23, <1>24, <1>25,
     <1>26, <1>27, <1>28, <1>29, <1>30, <1>31, <1>32, <1>33, <1>34, <1>35, <1>36, <1>37,
     <1>38, <1>39, <1>40, <1>41, <1>43, <1>44, <1>45, <1>46, <1>47, <1>48
     DEF Next, Step

LEMMA TypeInit == Init => TypeInv
<1> SUFFICES ASSUME Init PROVE TypeInv
  OBVIOUS
<1>1. target \in Url /\ options \in Options /\ env \in Environment
  BY InputAssumption DEF Init
<1>2. target.host \in Hosts /\ options.budget_ms \in Nat /\ options.max_probes \in Nat
  BY <1>1 DEF Url, Options
<1>3. TrackerTypes /\ InputTypes
  <2>1. /\ now = 0 /\ probes = <<>> /\ active = NoProbe /\ response_bytes_read = 0
        /\ op = [started |-> 0, span |-> 0, capped |-> 0, limit |-> 0]
    BY DEF Init, new_tracker
  <2>2. TrackerTypes
    BY <2>1 DEF TrackerTypes, Call
  <2>3. InputTypes
    BY <1>1 DEF Init, new_tracker, InputTypes
  <2>4. QED
    BY <2>2, <2>3
<1>4. ProgressTypes /\ EndpointTypes
  <2>1. pc = "begin" /\ error = "" /\ phases = <<>> /\ wire = <<>>
    BY DEF Init
  <2>2. ProgressTypes
    <3>1. <<>> \in Seq(Phase) /\ <<>> \in Seq(NetworkAction)
      OBVIOUS
    <3>2. pc \in Steps /\ error \in ErrorCode \cup {""}
      BY <2>1 DEF Steps
    <3>3. QED
      BY <2>1, <3>1, <3>2 DEF ProgressTypes
  <2>3. lookup \in [host : Hosts, answer : SUBSET Addresses]
    BY <1>2 DEF Init
  <2>4. todo = {} /\ selected = NoAddress
    BY DEF Init
  <2>5. QED
    BY <2>2, <2>3, <2>4 DEF EndpointTypes
<1>5. HopTypes
  <2>1. proxy \in ResolvedProxy
    BY <1>2 DEF Init, direct_proxy_summary, ResolvedProxy
  <2>2. current = target /\ response = NoResponse /\ hops = <<>>
    BY DEF Init
  <2>3. QED
    BY <1>1, <2>1, <2>2 DEF HopTypes
<1>6. Control
  BY DEF Init, new_tracker, Control, Probing, Granted, Begun
<1>7. QED
  BY <1>3, <1>4, <1>5, <1>6 DEF TypeInv, TypeOK

\* The invariant the other proofs start from.
LEMMA TypeInvariant == Spec => []TypeInv
BY TypeInit, TypeStep, PTL DEF Spec

\* Type correctness of every inspection (the structs of model.rs and the locals of
\* inspect_with_backend and run_http).
THEOREM TypeCorrect == Spec => []TypeOK
<1>1. TypeInv => TypeOK
  BY DEF TypeInv
<1>2. QED
  BY <1>1, TypeInvariant, PTL
-----------------------------------------------------------------------------
(* The tracker                                                             *)

\* The four ways in which a step uses the tracker.
LEMMA StartIsTrackerStep ==
    ASSUME TypeInv, pc \notin Probing, NEW kind \in ProbeKind, start_probe(kind),
           UNCHANGED <<now, deadline, max_probes, probes, response_bytes_read>>
    PROVE  TrackerNext
BY DEF TypeInv, Control, TrackerNext

LEMMA StampIsTrackerStep ==
    ASSUME TypeInv, pc \in Granted, stamp_probe,
           UNCHANGED <<now, deadline, max_probes, probes, response_bytes_read>>
    PROVE  TrackerNext
<1>1. active # NoProbe
  BY DEF TypeInv, Control, Probing, ActiveProbe, NoProbe, ProbeKind
<1>2. QED
  BY <1>1 DEF TrackerNext

LEMMA FinishIsTrackerStep ==
    ASSUME TypeInv, pc \in Begun, NEW outcome \in Outcome,
           finish_probe(op.started, outcome),
           UNCHANGED <<now, deadline, max_probes, response_bytes_read>>
    PROVE  TrackerNext
<1>1. active \in ActiveProbe /\ active.started_ms <= op.started /\ op.started <= now
  BY DEF TypeInv, Control, Probing
<1>2. active.started_ms \in Nat /\ op.started \in Nat /\ now \in Nat
  BY <1>1 DEF TypeInv, TypeOK, TrackerTypes, ActiveProbe, Call
<1>3. active # NoProbe
  BY <1>1 DEF ActiveProbe, NoProbe, ProbeKind
<1>4. op.started \in active.started_ms .. now
  BY <1>1, <1>2
<1>5. QED
  BY <1>3, <1>4 DEF TrackerNext

LEMMA DropIsTrackerStep ==
    ASSUME TypeInv, pc \in Probing, drop_probe,
           UNCHANGED <<now, deadline, max_probes, response_bytes_read>>
    PROVE  TrackerNext
<1>1. active # NoProbe
  BY DEF TypeInv, Control, ActiveProbe, NoProbe, ProbeKind
<1>2. QED
  BY <1>1 DEF TrackerNext

\* Every step of an inspection is a step of the tracker or leaves it alone.
LEMMA TrackerStepSimulation == TypeInv /\ [Next]_vars => [TrackerNext]_trackerVars
<1> SUFFICES ASSUME TypeInv, [Next]_vars PROVE [TrackerNext]_trackerVars
  OBVIOUS
<1> USE DEF Probing, Granted, Begun
<1>1. CASE RejectInput
  BY <1>1 DEF RejectInput, trackerVars
<1>2. CASE AcceptInput
  BY <1>2 DEF AcceptInput, trackerVars
<1>3. CASE RejectProxy
  BY <1>3 DEF RejectProxy, trackerVars
<1>4. CASE SelectProxy
  BY <1>4 DEF SelectProxy, trackerVars
<1>5. CASE DnsBudget
  BY <1>5 DEF DnsBudget, trackerVars
<1>6. CASE TcpExhausted
  BY <1>6 DEF TcpExhausted, trackerVars
<1>7. CASE TcpBudget
  BY <1>7 DEF TcpBudget, trackerVars
<1>8. CASE TlsSkipped
  BY <1>8 DEF TlsSkipped, trackerVars
<1>9. CASE TlsNotObserved
  BY <1>9 DEF TlsNotObserved, trackerVars
<1>10. CASE TlsBudget
  BY <1>10 DEF TlsBudget, trackerVars
<1>11. CASE TlsConnected
  BY <1>11 DEF TlsConnected, trackerVars
<1>12. CASE TlsHandshake
  BY <1>12 DEF TlsHandshake, trackerVars
<1>13. CASE ReadProgress
  BY <1>13 DEF ReadProgress, trackerVars
<1>14. CASE HttpUnbuilt
  BY <1>14 DEF HttpUnbuilt, trackerVars
<1>15. CASE HttpBuild
  BY <1>15 DEF HttpBuild, trackerVars
<1>16. CASE HttpBudget
  BY <1>16 DEF HttpBudget, trackerVars
<1>17. CASE BodyFailed
  BY <1>17 DEF BodyFailed, trackerVars
<1>18. CASE HopDenied
  BY <1>18 DEF HopDenied, trackerVars
<1>19. CASE HopAccepted
  BY <1>19 DEF HopAccepted, trackerVars
<1>20. CASE Finalize
  BY <1>20 DEF Finalize, trackerVars
<1>21. CASE Terminated
  BY <1>21 DEF Terminated, trackerVars, vars
<1>22. CASE TcpDial
  BY <1>22 DEF TcpDial, trackerVars
<1>23. CASE TlsDial
  BY <1>23 DEF TlsDial, trackerVars
<1>24. CASE DnsStart
  BY <1>24, StampIsTrackerStep DEF DnsStart, Mark
<1>25. CASE TcpStart
  BY <1>25, StampIsTrackerStep DEF TcpStart, Mark
<1>26. CASE TlsStart
  BY <1>26, StampIsTrackerStep DEF TlsStart, Mark
<1>27. CASE HttpSend
  BY <1>27, StampIsTrackerStep DEF HttpSend
<1>28. CASE DnsError
  BY <1>28, FinishIsTrackerStep DEF DnsError, Outcome
<1>29. CASE TcpConnected
  BY <1>29, FinishIsTrackerStep DEF TcpConnected, Outcome
<1>30. CASE TcpRefused
  BY <1>30, FinishIsTrackerStep DEF TcpRefused, Outcome
<1>31. CASE TlsUnusable
  BY <1>31, FinishIsTrackerStep DEF TlsUnusable, Outcome
<1>32. CASE TlsFailed
  BY <1>32, FinishIsTrackerStep DEF TlsFailed, Outcome
<1>33. CASE TlsValidated
  BY <1>33, FinishIsTrackerStep DEF TlsValidated, Outcome
<1>34. CASE HttpError
  BY <1>34, FinishIsTrackerStep DEF HttpError, Outcome
<1>35. ASSUME NEW answer \in SUBSET Addresses, DnsAnswer(answer) PROVE TrackerNext
  BY <1>35, FinishIsTrackerStep DEF DnsAnswer, Outcome
<1>36. ASSUME NEW r \in Responses, HttpResponse(r) PROVE TrackerNext
  BY <1>36, FinishIsTrackerStep DEF HttpResponse, Outcome
<1>37. CASE TcpLate
  BY <1>37, DropIsTrackerStep DEF TcpLate
<1>38. CASE TlsLate
  BY <1>38, DropIsTrackerStep DEF TlsLate
<1>39. CASE BodyRead
  <2>1. response \in Responses /\ response \in Response /\ options.max_body_bytes \in Nat
    BY <1>39, InputAssumption DEF BodyRead, TypeInv, TypeOK, Control, InputTypes, Options
  <2>2. min(response.length, options.max_body_bytes) \in Nat
    BY <2>1, MinType DEF Response
  <2>3. response_bytes_read \in Nat
    BY DEF TypeInv, TypeOK, TrackerTypes
  <2>4. response_bytes_read' = response_bytes_read + min(response.length, options.max_body_bytes)
    BY <1>39 DEF BodyRead, total_bytes, response_to_hop
  <2>5. response_bytes_read' \in Nat /\ response_bytes_read' >= response_bytes_read
    BY <2>2, <2>3, <2>4
  <2>6. QED
    BY <1>39, <2>5 DEF BodyRead, TrackerNext
<1>40. CASE Tick
  BY <1>40 DEF Tick, TrackerNext
<1>41. CASE UNCHANGED vars
  BY <1>41 DEF vars, trackerVars
<1>43. CASE DnsGrant
  BY <1>43, StartIsTrackerStep DEF DnsGrant, ProbeKind
<1>44. CASE TcpGrant
  BY <1>44, StartIsTrackerStep DEF TcpGrant, ProbeKind
<1>45. CASE TlsGrant
  BY <1>45, StartIsTrackerStep DEF TlsGrant, ProbeKind
<1>46. CASE HttpGrant
  BY <1>46, StartIsTrackerStep DEF HttpGrant, ProbeKind
<1>47. CASE TcpMeasure
  BY <1>47 DEF TcpMeasure, trackerVars
<1>48. CASE TlsMeasure
  BY <1>48 DEF TlsMeasure, trackerVars
<1>42. QED
  BY <1>1, <1>2, <1>3, <1>4, <1>5, <1>6, <1>7, <1>8, <1>9, <1>10, <1>11, <1>12,
     <1>13, <1>14, <1>15, <1>16, <1>17, <1>18, <1>19, <1>20, <1>21, <1>22, <1>23,
     <1>24, <1>25, <1>26, <1>27, <1>28, <1>29, <1>30, <1>31, <1>32, <1>33, <1>34,
     <1>35, <1>36, <1>37, <1>38, <1>39, <1>40, <1>41, <1>43, <1>44, <1>45, <1>46, <1>47, <1>48
     DEF Next, Step

\* The engine implements the tracker's specification: it uses the budget tracker only
\* through new, remaining, start_probe and finish_probe, so a probe is recorded once,
\* after it was granted, and the ledger is never rewritten.
THEOREM EngineDrivesTracker == Spec => DrivesTracker
<1>1. Init => TrackerInit
  BY InputAssumption DEF Init, new_tracker, TrackerInit, Options
<1>2. QED
  BY <1>1, TypeInvariant, TrackerStepSimulation, PTL DEF Spec, DrivesTracker, TrackerSpec

\* Every inspection keeps within its probe budget, with a gapless ledger of probes that did
\* not overlap and of which only the last may have passed the deadline
\* (Tracker::start_probe).
THEOREM EngineKeepsBudget == Spec => []LedgerInBudget
BY EngineDrivesTracker, TrackerKeepsBudget, PTL DEF DrivesTracker
-----------------------------------------------------------------------------
(* Addresses                                                               *)

\* What makes ContactsPermitted inductive: the addresses still to be tried and the
\* address in use have passed the policy.
ContactsInv ==
    /\ ContactsPermitted
    /\ \A a \in todo : is_ip_permitted(a, options)
    /\ pc \in UsesSelected => is_ip_permitted(selected, options)

\* A network action to a permitted address, or to the resolver.
LEMMA SendPermitted ==
    ASSUME wire \in Seq(NetworkAction), ContactsPermitted, NEW address, Send(address),
           UNCHANGED options,
           active'.kind = "dns_lookup" \/ is_ip_permitted(address, options)
    PROVE  ContactsPermitted'
<1> DEFINE a == [kind |-> active'.kind, slot |-> active'.sequence, to |-> address, at |-> now]
<1>1. a.kind = active'.kind /\ a.to = address
  OBVIOUS
<1>2. wire' = Append(wire, a)
  BY DEF Send
<1> HIDE DEF a
<1>3. /\ Len(wire') = Len(wire) + 1 /\ Len(wire) \in Nat
      /\ \A i \in 1 .. Len(wire) : wire'[i] = wire[i]
      /\ wire'[Len(wire) + 1] = a
  BY <1>2
<1>4. options' = options
  OBVIOUS
<1>5. QED
  BY <1>1, <1>3, <1>4 DEF ContactsPermitted

LEMMA ContactsStep == TypeInv /\ ContactsInv /\ [Next]_vars => ContactsInv'
<1> SUFFICES ASSUME TypeInv, ContactsInv, [Next]_vars PROVE ContactsInv'
  OBVIOUS
<1> USE DEF UsesSelected, Probing, Granted, Begun
<1>0. /\ wire \in Seq(NetworkAction) /\ todo \subseteq Addresses
      /\ ContactsPermitted
  BY DEF TypeInv, TypeOK, ProgressTypes, EndpointTypes, ContactsInv
<1>1. CASE RejectInput
  BY <1>1 DEF RejectInput, ContactsInv, ContactsPermitted, inputVars, addrVars
<1>2. CASE AcceptInput
  BY <1>2 DEF AcceptInput, Push, ContactsInv, ContactsPermitted, inputVars, addrVars
<1>3. CASE RejectProxy
  BY <1>3 DEF RejectProxy, ContactsInv, ContactsPermitted, inputVars, addrVars
<1>4. CASE SelectProxy
  BY <1>4 DEF SelectProxy, Push, ContactsInv, ContactsPermitted, inputVars, addrVars
<1>5. CASE DnsBudget
  BY <1>5 DEF DnsBudget, ResolveFailed, FinishHttp, Fail, Push, ContactsInv, ContactsPermitted, inputVars, addrVars
<1>6. CASE DnsError
  BY <1>6 DEF DnsError, ResolveFailed, FinishHttp, Fail, Push, ContactsInv, ContactsPermitted, inputVars, addrVars
<1>7. CASE TcpExhausted
  BY <1>7 DEF TcpExhausted, Fail, Push, ContactsInv, ContactsPermitted, inputVars, addrVars
<1>8. CASE TcpBudget
  BY <1>8 DEF TcpBudget, Fail, Push, ContactsInv, ContactsPermitted, inputVars, addrVars
<1>9. CASE TcpLate
  BY <1>9 DEF TcpLate, Fail, Push, ContactsInv, ContactsPermitted, inputVars, addrVars
<1>10. CASE TcpConnected
  BY <1>10 DEF TcpConnected, Push, ContactsInv, ContactsPermitted, inputVars, addrVars
<1>11. CASE TcpRefused
  BY <1>11 DEF TcpRefused, ContactsInv, ContactsPermitted, inputVars, addrVars
<1>12. CASE TlsSkipped
  BY <1>12 DEF TlsSkipped, Push, ContactsInv, ContactsPermitted, inputVars, addrVars
<1>13. CASE TlsNotObserved
  BY <1>13 DEF TlsNotObserved, Push, ContactsInv, ContactsPermitted, inputVars, addrVars
<1>14. CASE TlsBudget
  BY <1>14 DEF TlsBudget, Fail, Push, ContactsInv, ContactsPermitted, inputVars, addrVars
<1>15. CASE TlsStart
  BY <1>15 DEF TlsStart, ContactsInv, ContactsPermitted, inputVars, addrVars
<1>16. CASE TlsLate
  BY <1>16 DEF TlsLate, Fail, Push, ContactsInv, ContactsPermitted, inputVars, addrVars
<1>17. CASE TlsUnusable
  BY <1>17 DEF TlsUnusable, Fail, Push, ContactsInv, ContactsPermitted, inputVars, addrVars
<1>18. CASE TlsConnected
  BY <1>18 DEF TlsConnected, ContactsInv, ContactsPermitted, inputVars, addrVars
<1>19. CASE TlsHandshake
  BY <1>19 DEF TlsHandshake, ContactsInv, ContactsPermitted, inputVars, addrVars
<1>20. CASE TlsFailed
  BY <1>20 DEF TlsFailed, Fail, Push, ContactsInv, ContactsPermitted, inputVars, addrVars
<1>21. CASE TlsValidated
  BY <1>21 DEF TlsValidated, Push, ContactsInv, ContactsPermitted, inputVars, addrVars
<1>22. CASE ReadProgress
  BY <1>22 DEF ReadProgress, ContactsInv, ContactsPermitted, inputVars, addrVars
<1>23. CASE HttpUnbuilt
  BY <1>23 DEF HttpUnbuilt, HttpFail, Fail, Push, ContactsInv, ContactsPermitted, inputVars, addrVars
<1>24. CASE HttpBuild
  BY <1>24 DEF HttpBuild, HttpFail, Fail, Push, ContactsInv, ContactsPermitted, inputVars, addrVars
<1>25. CASE HttpBudget
  BY <1>25 DEF HttpBudget, HttpFail, Fail, Push, ContactsInv, ContactsPermitted, inputVars, addrVars
<1>26. CASE HttpError
  BY <1>26 DEF HttpError, HttpFail, Fail, Push, ContactsInv, ContactsPermitted, inputVars, addrVars
<1>27. CASE BodyFailed
  BY <1>27 DEF BodyFailed, HttpFail, Fail, Push, ContactsInv, ContactsPermitted, inputVars, addrVars
<1>28. CASE BodyRead
  BY <1>28 DEF BodyRead, FinishHttp, ContactsInv, ContactsPermitted, inputVars, addrVars
<1>29. CASE HopDenied
  BY <1>29 DEF HopDenied, FinishHttp, ContactsInv, ContactsPermitted, inputVars, addrVars
<1>30. CASE HopAccepted
  BY <1>30 DEF HopAccepted, ContactsInv, ContactsPermitted, inputVars, addrVars
<1>31. CASE Finalize
  BY <1>31 DEF Finalize, ContactsInv, ContactsPermitted, inputVars, addrVars
<1>32. CASE Tick
  BY <1>32 DEF Tick, ContactsInv, ContactsPermitted, inputVars, addrVars
<1>33. CASE DnsStart
  <2>1. active'.kind = "dns_lookup"
    BY <1>33, StampType DEF DnsStart, Mark, TypeInv, TypeOK, Control
  <2>2. ContactsPermitted'
    BY <1>0, <1>33, <2>1, SendPermitted DEF DnsStart, inputVars
  <2>3. QED
    BY <1>33, <2>2 DEF DnsStart, ContactsInv, inputVars
<1>34. CASE TcpGrant
  <2>1. \A a \in todo' \cup {selected'} : is_ip_permitted(a, options)
    BY <1>34 DEF TcpGrant, ContactsInv
  <2>2. QED
    BY <1>34, <2>1 DEF TcpGrant, ContactsInv, ContactsPermitted, inputVars
<1>35. CASE TcpDial
  <2>1. is_ip_permitted(selected, options)
    BY <1>35 DEF TcpDial, ContactsInv
  <2>2. ContactsPermitted'
    BY <1>0, <1>35, <2>1, SendPermitted DEF TcpDial, inputVars
  <2>3. QED
    BY <1>35, <2>1, <2>2 DEF TcpDial, ContactsInv, inputVars, addrVars
<1>36. CASE TlsDial
  <2>1. is_ip_permitted(selected, options)
    BY <1>36 DEF TlsDial, ContactsInv
  <2>2. ContactsPermitted'
    BY <1>0, <1>36, <2>1, SendPermitted DEF TlsDial, inputVars
  <2>3. QED
    BY <1>36, <2>1, <2>2 DEF TlsDial, ContactsInv, inputVars, addrVars
<1>37. CASE HttpSend
  <2>1. is_ip_permitted(selected, options)
    BY <1>37 DEF HttpSend, ContactsInv
  <2>2. ContactsPermitted'
    BY <1>0, <1>37, <2>1, SendPermitted DEF HttpSend, inputVars
  <2>3. QED
    BY <1>37, <2>1, <2>2 DEF HttpSend, ContactsInv, inputVars, addrVars
<1>38. ASSUME NEW answer \in SUBSET Addresses, DnsAnswer(answer) PROVE ContactsInv'
  <2>1. \A a \in permitted_addresses(answer, options) : is_ip_permitted(a, options)
    BY PermittedAddresses
  <2>2. /\ \A a \in todo' : is_ip_permitted(a, options)
        /\ pc' \in UsesSelected => is_ip_permitted(selected', options)
    BY <1>38, <2>1
       DEF DnsAnswer, ContactsInv, ResolveFailed, FinishHttp, Fail, Push, IsLeast
  <2>3. options' = options /\ wire' = wire
    BY <1>38 DEF DnsAnswer, inputVars
  <2>4. QED
    BY <1>0, <2>2, <2>3 DEF ContactsInv, ContactsPermitted
<1>39. ASSUME NEW r \in Responses, HttpResponse(r) PROVE ContactsInv'
  BY <1>39 DEF HttpResponse, ContactsInv, ContactsPermitted, inputVars, addrVars
<1>40. CASE UNCHANGED vars
  BY <1>40 DEF vars, ContactsInv, ContactsPermitted, inputVars, addrVars
<1>41. CASE Terminated
  BY <1>41 DEF Terminated, vars, ContactsInv, ContactsPermitted, inputVars, addrVars
<1>43. CASE DnsGrant
  BY <1>43 DEF DnsGrant, ContactsInv, ContactsPermitted, inputVars, addrVars
<1>44. CASE TcpStart
  BY <1>44 DEF TcpStart, ContactsInv, ContactsPermitted, inputVars, addrVars
<1>45. CASE TlsGrant
  BY <1>45 DEF TlsGrant, ContactsInv, ContactsPermitted, inputVars, addrVars
<1>46. CASE HttpGrant
  BY <1>46 DEF HttpGrant, ContactsInv, ContactsPermitted, inputVars, addrVars
<1>47. CASE TcpMeasure
  BY <1>47 DEF TcpMeasure, ContactsInv, ContactsPermitted, inputVars, addrVars
<1>48. CASE TlsMeasure
  BY <1>48 DEF TlsMeasure, ContactsInv, ContactsPermitted, inputVars, addrVars
<1>42. QED
  BY <1>1, <1>2, <1>3, <1>4, <1>5, <1>6, <1>7, <1>8, <1>9, <1>10, <1>11, <1>12,
     <1>13, <1>14, <1>15, <1>16, <1>17, <1>18, <1>19, <1>20, <1>21, <1>22, <1>23,
     <1>24, <1>25, <1>26, <1>27, <1>28, <1>29, <1>30, <1>31, <1>32, <1>33, <1>34,
     <1>35, <1>36, <1>37, <1>38, <1>39, <1>40, <1>41, <1>43, <1>44, <1>45, <1>46, <1>47, <1>48
     DEF Next, Step

\* Whatever a resolver answers, initially or for a redirect, no connection and no
\* request of any inspection goes to an address the policy denies (resolve_addresses,
\* connect_first, run_http).
THEOREM NoDeniedContact == Spec => []ContactsPermitted
<1>1. Init => ContactsInv
  <2>1. SUFFICES ASSUME Init PROVE ContactsInv
    OBVIOUS
  <2>2. wire = <<>> /\ todo = {} /\ pc = "begin"
    BY <2>1 DEF Init
  <2>3. ContactsPermitted
    <3>1. \A i \in 1 .. Len(wire) : FALSE
      BY <2>2
    <3>2. QED
      BY <3>1 DEF ContactsPermitted
  <2>4. pc \notin UsesSelected
    BY <2>2 DEF UsesSelected, Probing, Granted, Begun
  <2>5. QED
    BY <2>2, <2>3, <2>4 DEF ContactsInv
<1>2. ContactsInv => ContactsPermitted
  BY DEF ContactsInv
<1>3. QED
  BY <1>1, <1>2, ContactsStep, TypeInvariant, PTL DEF Spec
=============================================================================
