------------------------------- MODULE Engine -------------------------------
(***************************************************************************)
(* One inspection: inspect_with_backend driving the live backend           *)
(* (src/engine.rs), from the validated input to the sealed report.         *)
(*                                                                         *)
(* The program is sequential; what it meets is not under its control.  The *)
(* clock may advance between any two of its steps, the resolver may answer *)
(* differently at every lookup, a connection, handshake, request or body   *)
(* read may succeed, fail or time out, and the server chooses every        *)
(* response.  "pc" names the step the program is about to take; a step     *)
(* whose name ends in _wait, _io or body is a call that is in progress.    *)
(***************************************************************************)
EXTENDS Policy, Tracker, Options

CONSTANTS Inputs,          \* the [target, options] an inspection may be asked for
          Environments,    \* the process environments it may run in
          Responses,       \* the HTTP responses servers may give
          ConnectCap,      \* per-operation timeout caps: TCP connect (5 s),
          TlsCap,          \*   TLS handshake (7 s),
          HttpCap,         \*   HTTP client (10 s)
          MaxNow           \* bound on the clock

\* What a server may answer: a 3xx status or not, the Location header it sends
\* (absent, not text, not a URL reference, or resolving to a URL) and the body.
Response == [redirection : BOOLEAN,
             header : {"absent", "undecodable", "invalid", "url"},
             url : Url, length : Nat]

ASSUME InputAssumption ==
    /\ Inputs \subseteq [target : Url, options : Options]
    /\ Environments \subseteq Environment
    /\ Responses \subseteq Response
    /\ \A r \in Responses : r.url.scheme # "unparsable"

ASSUME LimitAssumption ==
    /\ {ConnectCap, TlsCap, HttpCap} \subseteq Nat \ {0}
    /\ MaxNow \in Nat

VARIABLES target, options, env,   \* the input: never changed
          pc,                     \* the next step of the program
          error,                  \* the AppError inspect returned instead of a report
          phases,                 \* the phases pushed so far
          lookup,                 \* the latest lookup: host asked for, addresses answered
          todo,                   \* addresses connect_first has still to try
          selected,               \* selected_address
          current,                \* the URL of the current hop
          proxy,                  \* its ResolvedProxy
          response,               \* the response whose body is being read
          hops,                   \* the hops recorded so far
          op,                     \* the call in progress: start, timeout and the instant
                                  \*   at which it was measured, latest end
          wire,                   \* history: every network action the program began
          report                  \* the sealed report

inputVars == <<target, options, env>>
hopVars == <<current, proxy, response, hops>>
addrVars == <<lookup, todo, selected>>
vars == <<trackerVars, inputVars, pc, error, phases, addrVars, hopVars, op, wire, report>>

PhaseName == {"input", "proxy", "dns", "tcp", "tls", "http", "redirects", "assertions"}

\* The codes an AppError may carry.
ErrorCode == PolicyError \cup
    {"invalid_budget", "invalid_probe_limit", "invalid_address_limit",
     "invalid_redirect_limit", "invalid_body_limit", "budget_exhausted",
     "dns_resolution_failed", "dns_empty_answer", "non_public_address_denied",
     "redirect_target_denied", "tcp_connect_failed", "tls_transport_failed",
     "invalid_tls_server_name", "tls_configuration_failed", "tls_handshake_failed",
     "proxy_configuration_rejected", "http_client_initialization_failed",
     "http_timeout", "http_tls_or_connect_failed", "http_connect_failed",
     "http_request_failed", "response_body_read_failed", "invalid_redirect_location",
     "redirect_limit_reached"}

PhaseStatus == {"passed", "failed", "skipped", "not_observed"}

Phase == [name : PhaseName, status : PhaseStatus,
          error : ErrorCode \cup {""}]

NoResponse == [redirection |-> FALSE, header |-> "none"]
NoReport == [failed_at |-> "unsealed"]

min(a, b) == IF a <= b THEN a ELSE b
-----------------------------------------------------------------------------
(* Phases and the report                                                   *)

passed_phase(name) == [name |-> name, status |-> "passed", error |-> ""]
failed_phase(name, code) == [name |-> name, status |-> "failed", error |-> code]
skipped_phase(name) == [name |-> name, status |-> "skipped", error |-> ""]
not_observed_phase(name) == [name |-> name, status |-> "not_observed", error |-> ""]

Passed(name) == \E i \in 1 .. Len(phases) : phases[i] = passed_phase(name)

\* The name of the first failed phase.
failed_at ==
    LET failed == {i \in 1 .. Len(phases) : phases[i].status = "failed"}
    IN  IF failed = {} THEN "none"
        ELSE phases[CHOOSE i \in failed : \A j \in failed : i <= j].name

\* The error code of that phase.
failure_code ==
    IF failed_at = "none" THEN "request_path_observed"
    ELSE phases[CHOOSE i \in 1 .. Len(phases) : phases[i].name = failed_at].error

\* The claim a hypothesis makes, by the phase that failed, with its confidence in percent.
statement_for(phase) ==
    CASE phase = "none"      -> [claim |-> "response_observed", confidence |-> 100]
      [] phase = "dns"       -> [claim |-> "stopped_resolving", confidence |-> 95]
      [] phase = "tcp"       -> [claim |-> "no_tcp_connection", confidence |-> 90]
      [] phase = "tls"       -> [claim |-> "tcp_but_no_tls", confidence |-> 95]
      [] phase = "http"      -> [claim |-> "no_http_response", confidence |-> 80]
      [] phase = "redirects" -> [claim |-> "redirect_policy_or_budget", confidence |-> 100]
      [] OTHER               -> [claim |-> "rejected_before_probing", confidence |-> 100]

evidence_for(phase) == IF phase = "none" THEN {"dns", "tcp", "http"} ELSE {phase}

\* Mutant of ruled_out_for: a failed phase is ruled out like a passed one.
ruled_out_if_settled(phase) ==
    IF phase = "none" THEN {}
    ELSE {p \in {"dns", "tcp", "tls", "http"} : \E i \in 1 .. Len(phases) : phases[i].name = p}

ruled_out_for(phase) ==
    IF phase = "none" THEN {} ELSE {p \in {"dns", "tcp", "tls", "http"} : Passed(p)}

finalize_report ==
    [failed_at           |-> failed_at,
     code                |-> failure_code,
     hypothesis          |-> statement_for(failed_at),
     evidence_phases     |-> evidence_for(failed_at),
     ruled_out           |-> ruled_out_for(failed_at),
     http                |-> hops,
     elapsed_ms          |-> now,
     probes_used         |-> Len(probes),
     response_bytes_read |-> response_bytes_read]
-----------------------------------------------------------------------------
(* Control helpers                                                         *)

\* Moving on, with the phase just settled pushed.
Push(phase, next) == phases' = Append(phases, phase) /\ pc' = next

\* A phase failed: it is pushed and the report finalized.
Fail(name, code) == Push(failed_phase(name, code), "finalize")

\* A network action begins: to an address, or to the resolver (NoAddress).
Send(address) ==
    wire' = Append(wire, [kind |-> active'.kind, slot |-> active'.sequence,
                          to |-> address, at |-> now])

\* The probe was granted: start_probe reads the clock for started_ms, its caller reads
\* it again, next, for "started".
Mark == stamp_probe /\ op' = [op EXCEPT !.started = now]

\* The timeout of a call is measured before the call begins.
Cap(cap) == op' = [op EXCEPT !.span = min(remaining, cap), !.capped = now]

\* A blocking call begins: it ends by "limit" at the latest.
Block == op' = [op EXCEPT !.limit = now + op.span]

\* The calls whose duration is bounded by a timeout.  to_socket_addrs has none.
TimedCalls == {"tcp_wait", "tls_connect", "tls_io", "http_wait", "body"}

\* Mutant of redirects_phase: a chain with several hops passes before its error is seen.
redirects_phase_by_count(code, count) ==
    IF count > 1 THEN passed_phase("redirects")
    ELSE IF code # "" THEN failed_phase("redirects", code) ELSE skipped_phase("redirects")

\* The Redirects phase after run_http returned Ok: by its error, then by its hops.
redirects_phase(code, count) ==
    IF code # "" THEN failed_phase("redirects", code)
    ELSE IF count > 1 THEN passed_phase("redirects") ELSE skipped_phase("redirects")

\* Mutant of FinishHttp: Redirects is pushed before Http.
FinishHttpSwapped(code, count) ==
    /\ phases' = phases \o <<redirects_phase(code, count), passed_phase("http"),
                             skipped_phase("assertions")>>
    /\ pc' = "finalize"

\* run_http returned Ok((hops, redirect_failure)).
FinishHttp(code, count) ==
    /\ phases' = phases \o <<passed_phase("http"), redirects_phase(code, count),
                             skipped_phase("assertions")>>
    /\ pc' = "finalize"

\* What resolve_addresses' caller does with its error: in the initial lookup the
\* Dns phase fails; in run_http the hops so far are kept and Redirects fails.
ResolveFailed(code) ==
    IF hops = <<>> THEN Fail("dns", code) ELSE FinishHttp(code, Len(hops))

\* run_http returned Err: the hops recorded so far are lost with it.
HttpFail(code) == Fail("http", code) /\ hops' = <<>>

IsLeast(a, S) == a \in S /\ \A b \in S : a <= b
-----------------------------------------------------------------------------
(* Input and proxy                                                         *)

input_error ==
    IF validate_options(options) # "" THEN validate_options(options)
    ELSE parse_target(target)

RejectInput ==
    /\ pc = "begin" /\ input_error # ""
    /\ error' = input_error /\ pc' = "rejected"
    /\ UNCHANGED <<trackerVars, inputVars, phases, addrVars, hopVars, op, wire, report>>

AcceptInput ==
    /\ pc = "begin" /\ input_error = ""
    /\ Push(passed_phase("input"), "proxy")
    /\ UNCHANGED <<trackerVars, inputVars, error, addrVars, hopVars, op, wire, report>>

RejectProxy ==
    /\ pc = "proxy" /\ resolve_proxy(env, target, options).error # ""
    /\ error' = resolve_proxy(env, target, options).error /\ pc' = "rejected"
    /\ UNCHANGED <<trackerVars, inputVars, phases, addrVars, hopVars, op, wire, report>>

SelectProxy ==
    /\ pc = "proxy" /\ resolve_proxy(env, target, options).error = ""
    /\ proxy' = resolve_proxy(env, target, options)
    /\ Push(passed_phase("proxy"), "dns")
    /\ UNCHANGED <<trackerVars, inputVars, error, addrVars, current, response, hops,
                   op, wire, report>>
-----------------------------------------------------------------------------
(* resolve_addresses, for the initial endpoint and for every redirect      *)

DnsBudget ==
    /\ pc = "dns" /\ ~CanStart
    /\ ResolveFailed("budget_exhausted")
    /\ UNCHANGED <<trackerVars, inputVars, error, addrVars, hopVars, op, wire, report>>

DnsGrant ==
    /\ pc = "dns" /\ start_probe("dns_lookup") /\ pc' = "dns_start"
    /\ UNCHANGED <<now, deadline, max_probes, probes, response_bytes_read, inputVars,
                   error, phases, addrVars, hopVars, op, wire, report>>

DnsStart ==
    /\ pc = "dns_start"
    /\ Mark /\ Send(NoAddress)
    /\ lookup' = [host |-> proxy.connect_host, answer |-> {}]
    /\ pc' = "dns_wait"
    /\ UNCHANGED <<now, deadline, max_probes, probes, response_bytes_read, inputVars,
                   error, phases, todo, selected, hopVars, report>>

DnsError ==
    /\ pc = "dns_wait" /\ finish_probe(op.started, "failed")
    /\ ResolveFailed("dns_resolution_failed")
    /\ UNCHANGED <<now, deadline, max_probes, response_bytes_read, inputVars, error,
                   addrVars, hopVars, op, wire, report>>

\* The answer may be empty, may hold no permitted address, or may be usable: the
\* initial lookup then has its addresses tried in order, a redirect takes the first.
DnsAnswer(answer) ==
    LET permitted == permitted_addresses(answer, options) IN
    /\ pc = "dns_wait" /\ finish_probe(op.started, "resolved")
    /\ lookup' = [lookup EXCEPT !.answer = answer]
    /\ \/ /\ answer = {} /\ ResolveFailed("dns_empty_answer")
          /\ UNCHANGED <<todo, selected>>
       \/ /\ answer # {} /\ permitted = {}
          /\ ResolveFailed(IF hops = <<>> THEN "non_public_address_denied"
                                          ELSE "redirect_target_denied")
          /\ UNCHANGED <<todo, selected>>
       \/ /\ hops = <<>> /\ permitted # {}
          /\ todo' = permitted /\ Push(passed_phase("dns"), "tcp")
          /\ UNCHANGED selected
       \/ /\ hops # <<>>
          /\ \E a \in permitted : IsLeast(a, permitted) /\ selected' = a
          /\ pc' = "build"
          /\ UNCHANGED <<phases, todo>>
    /\ UNCHANGED <<now, deadline, max_probes, response_bytes_read, inputVars, error,
                   hopVars, op, wire, report>>
-----------------------------------------------------------------------------
(* connect_first                                                           *)

TcpExhausted ==
    /\ pc = "tcp" /\ todo = {}
    /\ Fail("tcp", "tcp_connect_failed")
    /\ UNCHANGED <<trackerVars, inputVars, error, addrVars, hopVars, op, wire, report>>

TcpBudget ==
    /\ pc = "tcp" /\ todo # {} /\ ~CanStart
    /\ Fail("tcp", "budget_exhausted")
    /\ UNCHANGED <<trackerVars, inputVars, error, addrVars, hopVars, op, wire, report>>

TcpGrant ==
    /\ pc = "tcp" /\ start_probe("tcp_connect") /\ pc' = "tcp_start"
    /\ \E a \in todo : IsLeast(a, todo) /\ selected' = a /\ todo' = todo \ {a}
    /\ UNCHANGED <<now, deadline, max_probes, probes, response_bytes_read, inputVars,
                   error, phases, lookup, hopVars, op, wire, report>>

TcpStart ==
    /\ pc = "tcp_start" /\ Mark /\ pc' = "tcp_cap"
    /\ UNCHANGED <<now, deadline, max_probes, probes, response_bytes_read, inputVars,
                   error, phases, addrVars, hopVars, wire, report>>

\* remaining() is read a second time, after start_probe: the budget may be gone.
TcpLate ==
    /\ pc = "tcp_cap" /\ ~HasTime /\ drop_probe
    /\ Fail("tcp", "budget_exhausted")
    /\ UNCHANGED <<now, deadline, max_probes, response_bytes_read, inputVars, error,
                   addrVars, hopVars, op, wire, report>>

\* Mutant of TcpMeasure: the timeout is not capped by the time left.
TcpUncapped ==
    /\ pc = "tcp_cap" /\ HasTime /\ pc' = "tcp_dial"
    /\ op' = [op EXCEPT !.span = ConnectCap, !.capped = now]
    /\ UNCHANGED <<trackerVars, inputVars, error, phases, addrVars, hopVars, wire, report>>

TcpMeasure ==
    /\ pc = "tcp_cap" /\ HasTime /\ Cap(ConnectCap) /\ pc' = "tcp_dial"
    /\ UNCHANGED <<trackerVars, inputVars, error, phases, addrVars, hopVars, wire, report>>

\* The connection is begun with the timeout measured before: time may have passed.
TcpDial ==
    /\ pc = "tcp_dial" /\ Block
    /\ UNCHANGED active /\ Send(selected) /\ pc' = "tcp_wait"
    /\ UNCHANGED <<now, deadline, max_probes, probes, response_bytes_read, inputVars,
                   error, phases, addrVars, hopVars, report>>

TcpConnected ==
    /\ pc = "tcp_wait" /\ finish_probe(op.started, "connected")
    /\ Push(passed_phase("tcp"), "tls")
    /\ UNCHANGED <<now, deadline, max_probes, response_bytes_read, inputVars, error,
                   addrVars, hopVars, op, wire, report>>

TcpRefused ==
    /\ pc = "tcp_wait" /\ finish_probe(op.started, "failed")
    /\ pc' = "tcp"
    /\ UNCHANGED <<now, deadline, max_probes, response_bytes_read, inputVars, error,
                   phases, addrVars, hopVars, op, wire, report>>
-----------------------------------------------------------------------------
(* probe_tls                                                               *)

TlsSkipped ==
    /\ pc = "tls" /\ target.scheme # "https"
    /\ Push(skipped_phase("tls"), "build")
    /\ UNCHANGED <<trackerVars, inputVars, error, addrVars, hopVars, op, wire, report>>

TlsNotObserved ==
    /\ pc = "tls" /\ target.scheme = "https" /\ proxy.selected
    /\ Push(not_observed_phase("tls"), "build")
    /\ UNCHANGED <<trackerVars, inputVars, error, addrVars, hopVars, op, wire, report>>

ProbesTls == target.scheme = "https" /\ ~proxy.selected

TlsBudget ==
    /\ pc = "tls" /\ ProbesTls /\ ~CanStart
    /\ Fail("tls", "budget_exhausted")
    /\ UNCHANGED <<trackerVars, inputVars, error, addrVars, hopVars, op, wire, report>>

TlsGrant ==
    /\ pc = "tls" /\ ProbesTls /\ start_probe("tls_handshake") /\ pc' = "tls_start"
    /\ UNCHANGED <<now, deadline, max_probes, probes, response_bytes_read, inputVars,
                   error, phases, addrVars, hopVars, op, wire, report>>

TlsStart ==
    /\ pc = "tls_start" /\ Mark /\ pc' = "tls_cap"
    /\ UNCHANGED <<now, deadline, max_probes, probes, response_bytes_read, inputVars,
                   error, phases, addrVars, hopVars, wire, report>>

TlsMeasure ==
    /\ pc = "tls_cap" /\ HasTime /\ Cap(TlsCap) /\ pc' = "tls_dial"
    /\ UNCHANGED <<trackerVars, inputVars, error, phases, addrVars, hopVars, wire, report>>

TlsDial ==
    /\ pc = "tls_dial" /\ Block
    /\ UNCHANGED active /\ Send(selected) /\ pc' = "tls_connect"
    /\ UNCHANGED <<now, deadline, max_probes, probes, response_bytes_read, inputVars,
                   error, phases, addrVars, hopVars, report>>

\* Mutant of TlsLate: the handshake loop does not leave when the budget is gone.
TlsLateBeforeDial ==
    /\ pc = "tls_cap" /\ ~HasTime /\ drop_probe
    /\ Fail("tls", "budget_exhausted")
    /\ UNCHANGED <<now, deadline, max_probes, response_bytes_read, inputVars, error,
                   addrVars, hopVars, op, wire, report>>

\* remaining() is read again before the connection and before every round of the
\* handshake; its "?" returns without finish_probe.
TlsLate ==
    /\ pc \in {"tls_cap", "tls_loop"} /\ ~HasTime /\ drop_probe
    /\ Fail("tls", "budget_exhausted")
    /\ UNCHANGED <<now, deadline, max_probes, response_bytes_read, inputVars, error,
                   addrVars, hopVars, op, wire, report>>

\* The fresh connection fails, or the TLS client cannot be set up on it.
TlsUnusable ==
    /\ pc = "tls_connect"
    /\ \/ finish_probe(op.started, "tcp_failed") /\ Fail("tls", "tls_transport_failed")
       \/ finish_probe(op.started, "invalid_server_name") /\ Fail("tls", "invalid_tls_server_name")
       \/ finish_probe(op.started, "configuration_failed") /\ Fail("tls", "tls_configuration_failed")
    /\ UNCHANGED <<now, deadline, max_probes, response_bytes_read, inputVars, error,
                   addrVars, hopVars, op, wire, report>>

TlsConnected ==
    /\ pc = "tls_connect" /\ pc' = "tls_loop"
    /\ UNCHANGED <<trackerVars, inputVars, error, phases, addrVars, hopVars, op, wire, report>>

\* complete_io runs the handshake.  Every read on the socket may take the timeout
\* computed before the connection was made.
TlsHandshake ==
    /\ pc = "tls_loop" /\ HasTime
    /\ Block /\ pc' = "tls_io"
    /\ UNCHANGED <<trackerVars, inputVars, error, phases, addrVars, hopVars, wire, report>>

\* Mutant of TlsFailed: a failed handshake does not end the inspection.
TlsFailedGoesOn ==
    /\ pc = "tls_io" /\ finish_probe(op.started, "handshake_failed")
    /\ Push(not_observed_phase("tls"), "build")
    /\ UNCHANGED <<now, deadline, max_probes, response_bytes_read, inputVars, error,
                   addrVars, hopVars, op, wire, report>>

TlsFailed ==
    /\ pc = "tls_io" /\ finish_probe(op.started, "handshake_failed")
    /\ Fail("tls", "tls_handshake_failed")
    /\ UNCHANGED <<now, deadline, max_probes, response_bytes_read, inputVars, error,
                   addrVars, hopVars, op, wire, report>>

TlsValidated ==
    /\ pc = "tls_io" /\ finish_probe(op.started, "validated")
    /\ Push(passed_phase("tls"), "build")
    /\ UNCHANGED <<now, deadline, max_probes, response_bytes_read, inputVars, error,
                   addrVars, hopVars, op, wire, report>>

\* Bytes arrived: the next read has the whole timeout again, here and while a body
\* is read.
ReadProgress ==
    /\ pc \in {"tls_io", "body"} /\ Block
    /\ UNCHANGED <<trackerVars, inputVars, pc, error, phases, addrVars, hopVars, wire, report>>
-----------------------------------------------------------------------------
(* run_http                                                                *)

\* build_http_client finds the budget spent, or the client cannot be built.
HttpUnbuilt ==
    /\ pc = "build"
    /\ \/ ~HasTime /\ HttpFail("budget_exhausted")
       \/ HasTime /\ proxy.selected /\ HttpFail("proxy_configuration_rejected")
       \/ HasTime /\ HttpFail("http_client_initialization_failed")
    /\ UNCHANGED <<trackerVars, inputVars, error, addrVars, current, proxy, response,
                   op, wire, report>>

\* The client's timeout is fixed here; it is spent later.
HttpBuild ==
    /\ pc = "build" /\ HasTime
    /\ Cap(HttpCap) /\ pc' = "http"
    /\ UNCHANGED <<trackerVars, inputVars, error, phases, addrVars, hopVars, wire, report>>

HttpBudget ==
    /\ pc = "http" /\ ~CanStart
    /\ HttpFail("budget_exhausted")
    /\ UNCHANGED <<trackerVars, inputVars, error, addrVars, current, proxy, response,
                   op, wire, report>>

HttpGrant ==
    /\ pc = "http" /\ start_probe("http_request") /\ pc' = "http_start"
    /\ UNCHANGED <<now, deadline, max_probes, probes, response_bytes_read, inputVars,
                   error, phases, addrVars, hopVars, op, wire, report>>

HttpSend ==
    /\ pc = "http_start" /\ stamp_probe
    /\ op' = [op EXCEPT !.started = now, !.limit = now + op.span]
    /\ Send(selected) /\ pc' = "http_wait"
    /\ UNCHANGED <<now, deadline, max_probes, probes, response_bytes_read, inputVars,
                   error, phases, addrVars, hopVars, report>>

\* classify_http_error
http_error_codes ==
    {"http_timeout", "http_request_failed",
     IF current.scheme = "https" THEN "http_tls_or_connect_failed" ELSE "http_connect_failed"}

HttpError ==
    /\ pc = "http_wait" /\ finish_probe(op.started, "request_failed")
    /\ \E code \in http_error_codes : HttpFail(code)
    /\ UNCHANGED <<now, deadline, max_probes, response_bytes_read, inputVars, error,
                   addrVars, current, proxy, response, op, wire, report>>

HttpResponse(r) ==
    /\ pc = "http_wait" /\ finish_probe(op.started, "response_received")
    /\ response' = r /\ Block /\ pc' = "body"
    /\ UNCHANGED <<now, deadline, max_probes, response_bytes_read, inputVars, error,
                   phases, addrVars, current, proxy, hops, wire, report>>

\* A Location that is not text is read as no Location at all.
has_next(r) == r.redirection /\ r.header = "url"
redirect_error(r) ==
    IF r.redirection /\ r.header = "invalid" THEN "invalid_redirect_location" ELSE ""

\* Mutant of response_to_hop: the sample is not cut.
response_to_hop_whole(r) ==
    [sequence            |-> Len(hops),
     response            |-> r,
     returned_body_bytes |-> r.length,
     body_truncated      |-> r.length > options.max_body_bytes]

\* response_to_hop: the sample is cut to max_body_bytes.
response_to_hop(r) ==
    [sequence            |-> Len(hops),
     response            |-> r,
     returned_body_bytes |-> min(r.length, options.max_body_bytes),
     body_truncated      |-> r.length > options.max_body_bytes]

BodyFailed ==
    /\ pc = "body" /\ HttpFail("response_body_read_failed")
    /\ UNCHANGED <<trackerVars, inputVars, error, addrVars, current, proxy, response,
                   op, wire, report>>

\* Mutant of total_bytes: the count is overwritten, not added to.
total_bytes_overwritten(hop) == hop.returned_body_bytes

total_bytes(hop) == response_bytes_read + hop.returned_body_bytes

\* Mutant of LastHop: off by one.
LastHopLate == Len(hops) > options.max_redirects

\* The loop index of run_http is the number of hops recorded before this one.
LastHop == Len(hops) = options.max_redirects

BodyRead ==
    LET hop == response_to_hop(response) IN
    /\ pc = "body"
    /\ hops' = Append(hops, hop)
    /\ response_bytes_read' = total_bytes(hop)
    /\ \/ /\ redirect_error(response) # ""
          /\ FinishHttp(redirect_error(response), Len(hops) + 1)
          /\ UNCHANGED current
       \/ /\ redirect_error(response) = "" /\ ~has_next(response)
          /\ FinishHttp("", Len(hops) + 1)
          /\ UNCHANGED current
       \/ /\ has_next(response) /\ LastHop
          /\ FinishHttp("redirect_limit_reached", Len(hops) + 1)
          /\ UNCHANGED current
       \/ /\ has_next(response) /\ ~LastHop
          /\ current' = response.url /\ pc' = "hop"
          /\ UNCHANGED phases
    /\ UNCHANGED <<now, deadline, max_probes, probes, active, inputVars, error, addrVars,
                   proxy, response, op, wire, report>>

\* The top of the loop for a redirect: target and proxy policy are applied anew.
hop_error ==
    IF parse_target(current) # "" THEN parse_target(current)
    ELSE resolve_proxy(env, current, options).error

HopDenied ==
    /\ pc = "hop" /\ hop_error # ""
    /\ FinishHttp(hop_error, Len(hops))
    /\ UNCHANGED <<trackerVars, inputVars, error, addrVars, hopVars, op, wire, report>>

\* Mutant of HopAccepted: the endpoint of the previous hop is kept.
HopAcceptedStale ==
    /\ pc = "hop" /\ hop_error = "" /\ pc' = "dns"
    /\ UNCHANGED <<trackerVars, inputVars, error, phases, addrVars, hopVars, op, wire, report>>

HopAccepted ==
    /\ pc = "hop" /\ hop_error = ""
    /\ proxy' = resolve_proxy(env, current, options) /\ pc' = "dns"
    /\ UNCHANGED <<trackerVars, inputVars, error, phases, addrVars, current, response,
                   hops, op, wire, report>>
-----------------------------------------------------------------------------
Finalize ==
    /\ pc = "finalize"
    /\ report' = finalize_report /\ pc' = "done"
    /\ UNCHANGED <<trackerVars, inputVars, error, phases, addrVars, hopVars, op, wire>>

\* Time passes at any point after Tracker::new, but never beyond the timeout of a
\* call that has one.
Tick ==
    /\ pc \notin {"begin", "done", "rejected"}
    /\ now < MaxNow
    /\ pc \in TimedCalls => now < op.limit
    /\ now' = now + 1
    /\ UNCHANGED <<deadline, max_probes, probes, active, response_bytes_read, inputVars,
                   pc, error, phases, addrVars, hopVars, op, wire, report>>

Terminated == pc \in {"done", "rejected"} /\ UNCHANGED vars

Init ==
    /\ \E i \in Inputs : target = i.target /\ options = i.options
    /\ env \in Environments
    /\ new_tracker(options)
    /\ pc = "begin" /\ error = "" /\ phases = <<>>
    /\ lookup = [host |-> target.host, answer |-> {}]
    /\ todo = {} /\ selected = NoAddress
    /\ current = target /\ proxy = direct_proxy_summary(target.host)
    /\ response = NoResponse /\ hops = <<>>
    /\ op = [started |-> 0, span |-> 0, capped |-> 0, limit |-> 0]
    /\ wire = <<>> /\ report = NoReport

\* The steps of the program and the ends of the calls it waits for.
Step ==
    \/ RejectInput \/ AcceptInput \/ RejectProxy \/ SelectProxy
    \/ DnsBudget \/ DnsGrant \/ DnsStart \/ DnsError \/ (\E answer \in SUBSET Addresses : DnsAnswer(answer))
    \/ TcpExhausted \/ TcpBudget \/ TcpGrant \/ TcpStart \/ TcpLate \/ TcpMeasure \/ TcpDial
    \/ TcpConnected \/ TcpRefused
    \/ TlsSkipped \/ TlsNotObserved \/ TlsBudget \/ TlsGrant \/ TlsStart \/ TlsMeasure
    \/ TlsDial \/ TlsLate \/ TlsUnusable \/ TlsConnected \/ TlsHandshake \/ TlsFailed \/ TlsValidated
    \/ HttpUnbuilt \/ HttpBuild \/ HttpBudget \/ HttpGrant \/ HttpSend \/ HttpError
    \/ (\E r \in Responses : HttpResponse(r)) \/ BodyFailed \/ BodyRead
    \/ HopDenied \/ HopAccepted \/ Finalize

Next == Step \/ ReadProgress \/ Tick \/ Terminated

Spec == Init /\ [][Next]_vars

\* The program keeps running, and every call it waits for returns: a connection, a
\* request and each read by their timeouts, a handshake and a body because they are
\* finite, the system resolver because the platform gives up eventually.
FairSpec == Spec /\ WF_vars(Step)
=============================================================================
