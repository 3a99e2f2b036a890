-------------------------- MODULE EngineProperties --------------------------
(***************************************************************************)
(* What makes an inspection correct: the invariants, refinements and the   *)
(* termination property of Engine, and the sentences of the repository     *)
(* that its code does not live up to.                                      *)
(***************************************************************************)
EXTENDS Engine, Plan

Steps == {"begin", "rejected", "proxy", "dns", "dns_start", "dns_wait", "tcp", "tcp_start",
          "tcp_cap", "tcp_dial", "tcp_wait", "tls", "tls_start", "tls_cap", "tls_dial",
          "tls_connect", "tls_loop", "tls_io", "build", "http", "http_start", "http_wait",
          "body", "hop", "finalize", "done"}

Hop == [sequence : Nat, response : Responses, returned_body_bytes : Nat,
        body_truncated : BOOLEAN]

NetworkAction == [kind : ProbeKind, slot : Nat, to : Nat, at : Nat]

Call == [started : Nat, span : Nat, capped : Nat, limit : Nat]

TrackerTypes ==
    /\ now \in Nat /\ probes \in Seq(ProbeRecord) /\ active \in ActiveProbe \cup {NoProbe}
    /\ response_bytes_read \in Nat /\ op \in Call

InputTypes ==
    /\ target \in Url /\ options \in Options /\ env \in Environment
    /\ deadline = options.budget_ms /\ max_probes = options.max_probes

ProgressTypes ==
    /\ pc \in Steps /\ error \in ErrorCode \cup {""}
    /\ phases \in Seq(Phase) /\ wire \in Seq(NetworkAction)

EndpointTypes ==
    /\ lookup \in [host : Hosts, answer : SUBSET Addresses]
    /\ todo \in SUBSET Addresses /\ selected \in Addresses \cup {NoAddress}

HopTypes ==
    /\ current \in Url /\ proxy \in ResolvedProxy
    /\ response \in Responses \cup {NoResponse} /\ hops \in Seq(Hop)

\* Every variable holds a value of the program's types (the structs of model.rs and
\* the locals of inspect_with_backend and run_http).
TypeOK == TrackerTypes /\ InputTypes /\ ProgressTypes /\ EndpointTypes /\ HopTypes

\* The steps between the check of start_probe and its reading of the clock, and those
\* from there to finish_probe.
Granted == {"dns_start", "tcp_start", "tls_start", "http_start"}
Begun == {"dns_wait", "tcp_cap", "tcp_dial", "tcp_wait", "tls_cap", "tls_dial",
          "tls_connect", "tls_loop", "tls_io", "http_wait"}
Probing == Granted \cup Begun

\* What makes TypeOK inductive: a probe is in progress exactly at the steps between
\* start_probe and finish_probe, it is of the kind asked for, the instants read for it are
\* in order and not in the future, and a body is read only from a response.
Control ==
    /\ IF pc \in Probing
         THEN active \in ActiveProbe /\ active.started_ms <= now
         ELSE active = NoProbe
    /\ pc \in Begun => active.started_ms <= op.started /\ op.started <= now
    /\ pc = "dns_start" => active.kind = "dns_lookup"
    /\ pc = "tcp_start" => active.kind = "tcp_connect"
    /\ pc = "tls_start" => active.kind = "tls_handshake"
    /\ pc = "http_start" => active.kind = "http_request"
    /\ pc = "body" => response \in Responses

TypeInv == TypeOK /\ Control

\* The steps at which selected_address is in use.
UsesSelected == (Probing \ {"dns_start", "dns_wait"}) \cup {"tls", "build", "http", "body"}

\* No connection and no request ever goes to an address the policy denies, whatever
\* the resolver answers at each lookup of the initial endpoint and of every redirect
\* (resolve_addresses, connect_first, run_http).
ContactsPermitted ==
    \A i \in 1 .. Len(wire) :
        wire[i].kind # "dns_lookup" => is_ip_permitted(wire[i].to, options)

\* A request is pinned to an address of the lookup made for this very hop: the
\* endpoint of the current URL after proxy selection, never the one of an earlier
\* hop (build_http_client's resolve()).
PinnedToThisHop ==
    pc \in {"http_wait", "body"} =>
        /\ selected \in lookup.answer
        /\ lookup.host = proxy.connect_host
        /\ proxy = resolve_proxy(env, current, options)
        /\ parse_target(current) = ""

\* The network actions of a kind, and whether a slot was recorded with an outcome.
WireOf(kind) == {i \in 1 .. Len(wire) : wire[i].kind = kind}
Recorded(slot, outcome) ==
    \E i \in 1 .. Len(probes) : probes[i].sequence = slot /\ probes[i].outcome = outcome

\* TCP success, the validated TLS handshake and the first request concern one and
\* the same address: no request is sent before the address it goes to accepted a
\* connection, nor to a direct HTTPS target before its TLS identity was validated
\* there (the hand-over of selected_address in inspect_with_backend).
EndpointProvenFirst ==
    \A h \in WireOf("http_request") :
        (\A g \in WireOf("http_request") : h <= g) =>
            /\ \E t \in WireOf("tcp_connect") :
                   wire[t].to = wire[h].to /\ Recorded(wire[t].slot, "connected")
            /\ (target.scheme = "https" /\ ~resolve_proxy(env, target, options).selected) =>
                   \E t \in WireOf("tls_handshake") :
                       wire[t].to = wire[h].to /\ Recorded(wire[t].slot, "validated")

\* The redirect budget: at most max_redirects + 1 requests are sent, and the address
\* budget: at most max_addresses connections are attempted.
AttemptsBounded ==
    /\ Cardinality(WireOf("http_request")) <= options.max_redirects + 1
    /\ Cardinality(WireOf("tcp_connect")) <= options.max_addresses

\* How far an inspection outlives its budget, although the clock moves between every
\* check of it and the call the check is for: at most one network action is begun at or
\* after the deadline, and it is the last; and a connection attempt, of connect_first or
\* of probe_tls, or a request that is still waited for after the deadline was held up
\* for at least as long between the measuring of its timeout and its beginning
\* (start_probe, remaining, build_http_client).
OverrunBounded ==
    /\ \A i \in 1 .. Len(wire) - 1 : wire[i].at < deadline
    /\ pc \in {"tcp_wait", "tls_connect", "http_wait"} =>
           now - deadline <= wire[Len(wire)].at - op.capped

\* The body bytes the first n hops account for.
BytesOf[n \in Nat] ==
    IF n = 0 THEN 0 ELSE BytesOf[n - 1] + hops[n].returned_body_bytes

\* Body sampling: the total never exceeds the per-hop limit times the requests the
\* redirect budget allows, and in a report that kept its hops it is exactly what the
\* hops account for (response_to_hop, finalize_report).
BytesAccounted ==
    /\ response_bytes_read <= (options.max_redirects + 1) * options.max_body_bytes
    /\ (pc = "done" /\ report.failed_at # "http") =>
           report.response_bytes_read = BytesOf[Len(hops)]

\* A network action has its probe in the ledger.
Listed(i) ==
    \E j \in 1 .. Len(probes) : probes[j].sequence = wire[i].slot /\ probes[j].kind = wire[i].kind

\* In a sealed report every network action appears as a probe, but for one: a TLS
\* connection that was made and then dropped because the budget ran out before the
\* handshake could begin (the "?" in the loop of probe_tls).
ListedOrDropped ==
    pc = "done" =>
        \A i \in 1 .. Len(wire) :
            Listed(i) \/ ( /\ wire[i].kind = "tls_handshake" /\ i = Len(wire)
                           /\ report.failed_at = "tls" /\ report.code = "budget_exhausted")

\* A dry run foretells the inspection made in the same environment: it refuses what that
\* refuses, with the same code; the kinds of network action it listed without condition
\* are the only ones there are, and each is begun, in its order, unless a phase fails first
\* (plan against inspect_with_backend, probe_tls and run_http).
PlanKept ==
    LET plan == planned_probes(env, target, options)
        Promised == {i \in 1 .. Len(plan) : ~plan[i].conditional}
    IN  /\ pc = "rejected" => error = plan_error(env, target, options)
        /\ wire # <<>> => plan_error(env, target, options) = ""
        /\ \A i \in 1 .. Len(wire) : \E p \in Promised : plan[p].kind = wire[i].kind
        /\ (pc = "done" /\ report.failed_at \in {"none", "redirects"}) =>
               \A p, q \in Promised : p < q =>
                   \E i, j \in 1 .. Len(wire) :
                      /\ i < j /\ wire[i].kind = plan[p].kind /\ wire[j].kind = plan[q].kind

Outcomes == {probes[i].outcome : i \in 1 .. Len(probes)}

\* The report cites phase p for what happened: it passed, or it failed with the code that
\* the hypothesis carries.
Cited(p) ==
    \E i \in 1 .. Len(phases) :
        /\ phases[i].name = p
        /\ IF report.failed_at = "none" THEN phases[i].status = "passed"
           ELSE phases[i].status = "failed" /\ phases[i].error = report.code

\* What a report says of the phases that were reached is borne out by its own ledger: each
\* phase it cites ended as cited; a response that it claims was received; a lookup that it
\* calls the end led to no connection; a connection that it denies was never made, though
\* an address was resolved; a handshake that it denies never succeeded, though a connection
\* was made; and everything that it rules out is refuted by a recorded probe.  When it
\* blames Http, earlier phases did progress, and when it blames Redirects, a response did
\* ask for one: of these two hypotheses no more is asked, since the rest of each claim is
\* what NoResponseClaimSound and RedirectClaimSound say, which do not hold
\* (hypotheses_for, ruled_out_for).
ConclusionsSound ==
    pc = "done" =>
        /\ \A p \in report.evidence_phases : Cited(p)
        /\ report.hypothesis.claim = "response_observed" => "response_received" \in Outcomes
        /\ report.hypothesis.claim = "stopped_resolving" => Outcomes \subseteq {"failed", "resolved"}
        /\ report.hypothesis.claim = "no_tcp_connection" =>
               "resolved" \in Outcomes /\ "connected" \notin Outcomes
        /\ report.hypothesis.claim = "tcp_but_no_tls" =>
               "connected" \in Outcomes /\ "validated" \notin Outcomes
        /\ report.hypothesis.claim = "no_http_response" => "connected" \in Outcomes
        /\ report.hypothesis.claim = "redirect_policy_or_budget" =>
               report.http # <<>> /\ report.http[Len(report.http)].response.redirection
        /\ "dns" \in report.ruled_out => "resolved" \in Outcomes
        /\ "tcp" \in report.ruled_out => "connected" \in Outcomes
        /\ "tls" \in report.ruled_out => "validated" \in Outcomes
        /\ "http" \in report.ruled_out => "response_received" \in Outcomes

\* A redirect is followed or accounted for: when the last recorded hop names a next
\* URL, the report says that the redirect chain failed; in a report without a failure
\* every hop but the last is a redirect and the last is not (run_http).
RedirectsAccounted ==
    pc = "done" =>
        LET http == report.http IN
        /\ \A i \in 1 .. Len(http) :
               http[i].sequence = i - 1 /\ (i < Len(http) => has_next(http[i].response))
        /\ (http # <<>> /\ has_next(http[Len(http)].response)) =>
               report.failed_at = "redirects"

\* The phases of an inspection climb the ladder of PhaseLadder.
Ladder == INSTANCE PhaseLadder WITH
    settled <- [i \in 1 .. Len(phases) |-> [name |-> phases[i].name, status |-> phases[i].status]],
    verdict <- IF pc = "rejected" THEN "rejected"
               ELSE IF pc = "done" THEN report.failed_at ELSE "open"

\* Refinement: every step of an inspection is a step of PhaseLadder or leaves its
\* phases and verdict alone.
ClimbsLadder == Ladder!LadderSpec

\* Refinement: the engine drives its tracker only through the tracker's methods; in
\* particular the ledger only grows, by one finished probe at a time.
DrivesTracker == TrackerSpec

\* The most steps that an inspection may still take of its own: nine for each redirect
\* left, from the top of the loop to the body; before the first request, five for each
\* address that may be tried, and those of the handshake.
StepsFrom(step, first, redirects, untried, tried) ==
    IF step \in {"done", "rejected"} THEN 0
    ELSE IF step = "finalize" THEN 1
    ELSE 9 * redirects +
         CASE step = "body"        -> 2
           [] step = "http_wait"   -> 3
           [] step = "http_start"  -> 4
           [] step = "http"        -> 5
           [] step = "build"       -> 6
           [] step = "tls_io"      -> 7
           [] step = "tls_loop"    -> 8
           [] step = "tls_connect" -> 9
           [] step = "tls_dial"    -> 10
           [] step = "tls_cap"     -> 11
           [] step = "tls_start"   -> 12
           [] step = "tls"         -> 13
           [] step = "tcp"         -> 14 + 5 * tried
           [] step = "tcp_wait"    -> 15 + 5 * tried
           [] step = "tcp_dial"    -> 16 + 5 * tried
           [] step = "tcp_cap"     -> 17 + 5 * tried
           [] step = "tcp_start"   -> 18 + 5 * tried
           [] step = "dns_wait"    -> IF first THEN 15 + 5 * untried ELSE 7
           [] step = "dns_start"   -> IF first THEN 16 + 5 * untried ELSE 8
           [] step = "dns"         -> IF first THEN 17 + 5 * untried ELSE 9
           [] step = "hop"         -> 10
           [] step = "proxy"       -> 18 + 5 * untried
           [] step = "begin"       -> 19 + 5 * untried

StepsLeft ==
    StepsFrom(pc, hops = <<>>, options.max_redirects - Len(hops), options.max_addresses,
              Cardinality(todo))

\* No inspection goes round in circles: each step of the program uses up one of the steps
\* left, whatever the resolver answers and the servers redirect to, and nothing that
\* happens in between gives one back.  An inspection takes no more than 19 steps, and 5 for
\* each address and 9 for each redirect that its options allow (connect_first, run_http).
RunsDown ==
    [][StepsLeft' \in 0 .. (IF pc' = pc THEN StepsLeft ELSE StepsLeft - 1)]_vars

\* An inspection ends, with a report or with an error, whatever the network does.
Terminates == <>(pc \in {"done", "rejected"})
-----------------------------------------------------------------------------
(* What the repository says of an inspection and the code does not do      *)

\* CONCEPT.md: every network action is listed before or after execution.
EveryActionListed == pc = "done" => \A i \in 1 .. Len(wire) : Listed(i)

\* hypotheses_for on a failed Http phase: the client received no response.
NoResponseClaimSound ==
    (pc = "done" /\ report.hypothesis.claim = "no_http_response") =>
        "response_received" \notin Outcomes

\* docs/ARCHITECTURE.md: per-operation timeouts are capped by the remaining deadline.  So
\* a lookup begun in time would be over by it (to_socket_addrs).
LookupEndsByDeadline ==
    pc = "dns_wait" /\ op.started < deadline => now <= deadline

\* By the same sentence a handshake, and the reading of a body, would be over by the
\* deadline when no time was lost between the measuring of their timeout and the beginning
\* of the connection or request (set_read_timeout, read_to_end).
ReadsEndByDeadline ==
    (pc \in {"tls_io", "body"} /\ wire[Len(wire)].at = op.capped) => now <= deadline

\* hypotheses_for on a failed Redirects phase, with confidence 1.0: the redirect chain
\* violated policy or budget.
RedirectClaimSound ==
    (pc = "done" /\ report.hypothesis.claim = "redirect_policy_or_budget") =>
        report.code \notin {"dns_resolution_failed", "dns_empty_answer"}

\* The limitation written on a skipped Redirects phase: the response did not request a
\* redirect.
SkippedRedirectSound ==
    (pc = "done" /\ skipped_phase("redirects") \in {phases[i] : i \in 1 .. Len(phases)}) =>
        LET r == report.http[Len(report.http)].response
        IN  ~(r.redirection /\ r.header # "absent")
=============================================================================
