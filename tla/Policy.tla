------------------------------- MODULE Policy -------------------------------
(***************************************************************************)
(* Target, proxy and address policy (src/policy.rs) as pure operators.     *)
(*                                                                         *)
(* A URL is a record of the parts the policy looks at; an environment is a *)
(* function from variable names to values, a value being a proxy setting   *)
(* or a NO_PROXY list; a socket address is a positive number, its rank in  *)
(* the order in which the engine sorts what the resolver returned.  An     *)
(* operation that may fail returns its error code, "" standing for Ok.     *)
(***************************************************************************)
EXTENDS Integers, FiniteSets

CONSTANTS Addresses,    \* socket addresses a resolver may return
          Public,       \* the ones whose IP classify_ip calls "public"
          Hosts,        \* host names of targets and proxies
          Subdomains    \* pairs <<h, d>>: host h ends in "." followed by d

ASSUME AddressAssumption == Addresses \subseteq Nat \ {0} /\ Public \subseteq Addresses

\* Of IP addresses and ports there are finitely many.
ASSUME FiniteAssumption == IsFiniteSet(Addresses)

NoAddress == 0
NoPort == 0

\* Everything a raw target or a Location can denote, as far as the policy can
\* tell it apart.  "other" is any scheme that is not HTTP(S); "unparsable" is
\* text the URL parser rejects.
Url == [scheme : {"http", "https", "other", "unparsable"},
        host : Hosts, port : Nat, userinfo : BOOLEAN]

Pattern == [domain : Hosts \cup {"*"}, port : Nat]

EnvironmentValue == [kind : {"blank", "proxy", "other_scheme", "invalid", "list"},
                     host : Hosts, list : SUBSET Pattern]

EnvironmentKeys == {"no_proxy", "NO_PROXY", "http_proxy", "HTTP_PROXY",
                    "https_proxy", "HTTPS_PROXY", "all_proxy", "ALL_PROXY"}

Environment == {e \in [EnvironmentKeys -> EnvironmentValue] :
                   \A k \in EnvironmentKeys :
                       e[k].kind = "list" => k \in {"no_proxy", "NO_PROXY"}}

PolicyError == {"invalid_target", "unsupported_scheme", "embedded_credentials_denied",
                "invalid_proxy_url", "unsupported_proxy_scheme"}

ResolvedProxy == [error : PolicyError \cup {""}, selected : BOOLEAN, connect_host : Hosts]
-----------------------------------------------------------------------------
(* Targets                                                                 *)

\* The early returns of parse_target, in their order.  An HTTP(S) URL that the
\* URL parser accepts always has a host and a known default port.
parse_target(url) ==
    IF url.scheme = "unparsable" THEN "invalid_target"
    ELSE IF url.scheme \notin {"http", "https"} THEN "unsupported_scheme"
    ELSE IF url.userinfo THEN "embedded_credentials_denied"
    ELSE ""
-----------------------------------------------------------------------------
(* Proxy selection                                                         *)

OrElse(value, fallback) == IF value.kind # "blank" THEN value ELSE fallback

first_environment_value(env, upper, lower) == OrElse(env[lower], env[upper])

no_proxy_matches(list, host, port) ==
    \E p \in list :
        \/ p.domain = "*" /\ p.port = NoPort
        \/ /\ p.port \in {NoPort, port}
           /\ host = p.domain \/ <<host, p.domain>> \in Subdomains

direct_proxy_summary(host) ==
    [error |-> "", selected |-> FALSE, connect_host |-> host]

proxy_rejected(code, host) ==
    [error |-> code, selected |-> FALSE, connect_host |-> host]

\* The value that selects the proxy of a URL: its scheme's variable, then ALL_PROXY.
scheme_proxy(env, url) ==
    OrElse(IF url.scheme = "https"
             THEN first_environment_value(env, "HTTPS_PROXY", "https_proxy")
             ELSE first_environment_value(env, "HTTP_PROXY", "http_proxy"),
           first_environment_value(env, "ALL_PROXY", "all_proxy"))

bypassed(env, url, options) ==
    \/ options.disable_proxy
    \/ no_proxy_matches(first_environment_value(env, "NO_PROXY", "no_proxy").list,
                        url.host, url.port)

resolve_proxy(env, url, options) ==
    LET value == scheme_proxy(env, url) IN
    IF bypassed(env, url, options) \/ value.kind = "blank"
      THEN direct_proxy_summary(url.host)
    ELSE IF value.kind = "invalid"
      THEN proxy_rejected("invalid_proxy_url", url.host)
    ELSE IF value.kind = "other_scheme"
      THEN proxy_rejected("unsupported_proxy_scheme", url.host)
    ELSE [error |-> "", selected |-> TRUE, connect_host |-> value.host]
-----------------------------------------------------------------------------
(* Addresses                                                               *)

is_ip_permitted(address, options) == options.allow_private \/ address \in Public

\* Mutant of permitted_addresses: the policy filter is lost.
first_addresses(answer, options) ==
    {a \in answer : Cardinality({b \in answer : b < a}) < options.max_addresses}

\* The first max_addresses permitted addresses of an answer, in sorted order.
permitted_addresses(answer, options) ==
    LET allowed == {a \in answer : is_ip_permitted(a, options)}
    IN  {a \in allowed : Cardinality({b \in allowed : b < a}) < options.max_addresses}
=============================================================================
