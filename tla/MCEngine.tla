------------------------------ MODULE MCEngine ------------------------------
(***************************************************************************)
(* Small instances of Engine for TLC.                                      *)
(*                                                                         *)
(* Three addresses, the first of them private; a direct target host, a     *)
(* redirect host that is a subdomain of it, and a proxy.                   *)
(***************************************************************************)
EXTENDS EngineProperties

MCAddresses == 1 .. 3
MCPublic == {2, 3}
MCHosts == {"a", "b", "p"}
MCSubdomains == {<<"b", "a">>}

url(scheme, host, port, userinfo) ==
    [scheme |-> scheme, host |-> host, port |-> port, userinfo |-> userinfo]

HttpsA == url("https", "a", 443, FALSE)
HttpsB == url("https", "b", 443, FALSE)
HttpB == url("http", "b", 80, FALSE)

Base == [budget_ms |-> 2, max_probes |-> 6, max_addresses |-> 2, max_redirects |-> 1,
         max_body_bytes |-> 1, include_body_sample |-> FALSE, allow_private |-> FALSE,
         show_addresses |-> FALSE, show_query_values |-> FALSE, disable_proxy |-> FALSE]

in(t, o) == [target |-> t, options |-> o]

blank == [kind |-> "blank", host |-> "p", list |-> {}]
proxied(kind) == [kind |-> kind, host |-> "p", list |-> {}]
bypass(patterns) == [kind |-> "list", host |-> "p", list |-> patterns]
NoEnv == [k \in EnvironmentKeys |-> blank]
Env(k, v) == [NoEnv EXCEPT ![k] = v]

answer(redirection, header, to, length) ==
    [redirection |-> redirection, header |-> header, url |-> to, length |-> length]
-----------------------------------------------------------------------------
(* Direct requests: every path through the four kinds of probe.            *)

DirectInputs ==
    {in(HttpsA, Base),
     in(HttpB, [Base EXCEPT !.max_addresses = 1, !.allow_private = TRUE, !.max_redirects = 0]),
     in(HttpsA, [Base EXCEPT !.max_probes = 3, !.max_redirects = 2])}

DirectEnvironments == {NoEnv}

DirectResponses ==
    {answer(FALSE, "absent", HttpsA, 2), answer(TRUE, "url", HttpsB, 1),
     answer(TRUE, "invalid", HttpsA, 0)}
-----------------------------------------------------------------------------
(* Rejected inputs, proxies and redirects that policy turns down.          *)

PolicyInputs ==
    {in(HttpsA, [Base EXCEPT !.budget_ms = 1, !.max_redirects = 2, !.max_probes = 8]),
     in(HttpsA, [Base EXCEPT !.budget_ms = 1, !.disable_proxy = TRUE]),
     in(HttpsA, [Base EXCEPT !.budget_ms = 4]),
     in(HttpsA, [Base EXCEPT !.max_probes = 9]),
     in(HttpsA, [Base EXCEPT !.max_addresses = 0]),
     in(HttpsA, [Base EXCEPT !.max_redirects = 3]),
     in(HttpsA, [Base EXCEPT !.max_body_bytes = 3]),
     in(url("unparsable", "a", 0, FALSE), Base),
     in(url("other", "a", 21, FALSE), Base),
     in(url("https", "a", 443, TRUE), Base)}

PolicyEnvironments ==
    {Env("https_proxy", proxied("proxy")),
     Env("HTTP_PROXY", proxied("invalid")),
     [Env("ALL_PROXY", proxied("proxy")) EXCEPT
         !["NO_PROXY"] = bypass({[domain |-> "a", port |-> 443]}),
         !["http_proxy"] = proxied("other_scheme")],
     Env("HTTPS_PROXY", proxied("other_scheme"))}

PolicyResponses ==
    {answer(FALSE, "absent", HttpsA, 0), answer(TRUE, "url", HttpsB, 2),
     answer(TRUE, "url", HttpB, 0), answer(TRUE, "undecodable", HttpsA, 0),
     answer(TRUE, "url", url("https", "b", 443, TRUE), 1),
     answer(TRUE, "url", url("other", "b", 21, FALSE), 1)}

TwoAddresses == 1 .. 2
=============================================================================
