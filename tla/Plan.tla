-------------------------------- MODULE Plan --------------------------------
(***************************************************************************)
(* The dry run: the probe classes that "plan" lists for a spec, without    *)
(* any network activity (src/engine.rs).                                   *)
(***************************************************************************)
EXTENDS Policy, Options, Sequences

\* The checks of plan, in their order.
plan_error(env, target, options) ==
    IF validate_options(options) # "" THEN validate_options(options)
    ELSE IF parse_target(target) # "" THEN parse_target(target)
    ELSE resolve_proxy(env, target, options).error

planned(kinds) ==
    [i \in 1 .. Len(kinds) |-> [sequence |-> i, kind |-> kinds[i][1], conditional |-> kinds[i][2]]]

\* Mutant of planned_probes: the handshake is promised whenever there is no proxy.
planned_probes_any_scheme(env, target, options) ==
    planned(<< <<"dns_lookup", FALSE>>, <<"tcp_connect", FALSE>>,
               <<"tls_handshake", resolve_proxy(env, target, options).selected>>,
               <<"http_request", FALSE>>, <<"http_request", TRUE>> >>)

\* Mutant of planned_probes: the handshake is promised for every HTTPS target.
planned_probes_any_route(env, target, options) ==
    planned(<< <<"dns_lookup", FALSE>>, <<"tcp_connect", FALSE>>,
               <<"tls_handshake", target.scheme # "https">>,
               <<"http_request", FALSE>>, <<"http_request", TRUE>> >>)

planned_probes(env, target, options) ==
    planned(<< <<"dns_lookup", FALSE>>, <<"tcp_connect", FALSE>>,
               <<"tls_handshake", target.scheme # "https"
                                     \/ resolve_proxy(env, target, options).selected>>,
               <<"http_request", FALSE>>, <<"http_request", TRUE>> >>)
=============================================================================
