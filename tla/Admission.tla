----------------------------- MODULE Admission ------------------------------
(***************************************************************************)
(* The policy decisions of one hop, from the command line to the report:   *)
(* apply_overrides, validate_options, parse_target, resolve_proxy,         *)
(* resolve_addresses and the hop that run_http records.                    *)
(*                                                                         *)
(* Engine decides the same questions over abstract hosts, patterns and     *)
(* addresses, among all that may go wrong in between; here they are        *)
(* decided over the texts and numbers the program has, and nothing fails   *)
(* but the policy.                                                         *)
(***************************************************************************)
EXTENDS Options, NoProxyText, AddressClasses, Disclosure, FiniteSets

CONSTANTS Requests,      \* what a user may ask for, in which environment
          Answers,       \* the sets of addresses the resolver may return for a host
          HttpResponses, \* the responses a server may give
          ProxyHost, ProxyPort,
          MaxMillis      \* the largest budget_ms there is (u64::MAX)

Target == [scheme : STRING, host : Seq(STRING), port : Nat, path : STRING,
           userinfo : STRING, query : Seq(STRING \X STRING), fragment : STRING]

\* The URL parser writes an IPv6 host in brackets, and a port is a number.
ASSUME RequestAssumption ==
    \A r \in Requests :
        /\ r.target \in Target /\ is_spec(r.spec) /\ r.flags \in Flags
        /\ \A e \in r.no_proxy : is_entry(e)
        /\ ":" \in ToSet(r.target.host) => r.target.host[Len(r.target.host)] = "]"
        /\ ToString(r.target.port) \in Numerals

\* The resolver is asked for the targets and for the proxy, and returns addresses.
ASSUME AnswerAssumption ==
    /\ \A d \in DOMAIN Answers :
           Answers[d] \subseteq SUBSET IpAddr /\ \A addresses \in Answers[d] : IsFiniteSet(addresses)
    /\ socket_destination(ProxyHost, ProxyPort) \in DOMAIN Answers
    /\ \A r \in Requests : socket_destination(r.target.host, r.target.port) \in DOMAIN Answers

\* A response has at most one Location that is a URL; its headers are of any names.
ASSUME ResponseAssumption ==
    \A r \in HttpResponses :
        /\ r = [redirection |-> r.redirection, location |-> r.location,
                headers |-> r.headers, body |-> r.body]
        /\ r.location \in Seq(Target) /\ Len(r.location) <= 1

VARIABLES request,       \* never changed
          pc,            \* the next decision
          options,       \* the merged options
          error,         \* the code the request is refused with
          intended,      \* the target as the report shows it
          destination,   \* what the resolver is asked for
          answer,        \* what it answers
          observations,  \* what the report shows of that
          permitted,     \* the addresses that may be contacted
          hop            \* what the report shows of the response

vars == <<request, pc, options, error, intended, destination, answer, observations,
          permitted, hop>>

Refuse(code) == error' = code /\ pc' = "refused"
-----------------------------------------------------------------------------
(* The command line                                                        *)

\* u64::try_from(duration.as_millis())
budget_error(micros) == budget_of(micros) > MaxMillis

RefuseBudget ==
    /\ pc = "overrides" /\ budget_error(request.flags.budget)
    /\ Refuse("invalid_budget")
    /\ UNCHANGED <<request, options, intended, destination, answer, observations, permitted, hop>>

ApplyOverrides ==
    /\ pc = "overrides" /\ ~budget_error(request.flags.budget)
    /\ options' = apply_overrides(options_of_spec(request.spec), request.flags)
    /\ pc' = "validate"
    /\ UNCHANGED <<request, error, intended, destination, answer, observations, permitted, hop>>
-----------------------------------------------------------------------------
(* The engine                                                              *)

RefuseOptions ==
    /\ pc = "validate" /\ validate_options(options) # ""
    /\ Refuse(validate_options(options))
    /\ UNCHANGED <<request, options, intended, destination, answer, observations, permitted, hop>>

AcceptOptions ==
    /\ pc = "validate" /\ validate_options(options) = ""
    /\ pc' = "target"
    /\ UNCHANGED <<request, options, error, intended, destination, answer, observations,
                   permitted, hop>>

target == request.target

target_error ==
    IF target.scheme \notin {"http", "https"} THEN "unsupported_scheme"
    ELSE IF target.userinfo # "" THEN "embedded_credentials_denied"
    ELSE ""

RefuseTarget ==
    /\ pc = "target" /\ target_error # ""
    /\ Refuse(target_error)
    /\ UNCHANGED <<request, options, intended, destination, answer, observations, permitted, hop>>

AcceptTarget ==
    /\ pc = "target" /\ target_error = ""
    /\ intended' = redact_url([target EXCEPT !.fragment = ""], options.show_query_values)
    /\ pc' = "proxy"
    /\ UNCHANGED <<request, options, error, destination, answer, observations, permitted, hop>>

\* Whether NO_PROXY or an option makes the connection direct.
bypassed ==
    \/ options.disable_proxy
    \/ text_matches({text_of(e) : e \in request.no_proxy}, target.host, target.port)

SelectProxy ==
    /\ pc = "proxy"
    /\ destination' =
           IF bypassed \/ ~request.proxied THEN socket_destination(target.host, target.port)
           ELSE socket_destination(ProxyHost, ProxyPort)
    /\ pc' = "resolve"
    /\ UNCHANGED <<request, options, error, intended, answer, observations, permitted, hop>>

\* addresses.sort_by_key: IPv4 first, then by the address.
Before(a, b) ==
    IF a.family # b.family THEN a.family = "ipv4"
    ELSE \E i \in DOMAIN a.parts : /\ a.parts[i] < b.parts[i]
                                   /\ \A j \in 1 .. i - 1 : a.parts[j] = b.parts[j]

observation(address) ==
    [address        |-> address_for_report(address, options.show_addresses),
     permitted      |-> is_ip_permitted(address, options.allow_private),
     classification |-> classify_ip(address)]

allowed(addresses) == {a \in addresses : is_ip_permitted(a, options.allow_private)}

\* Mutant of taken: the limit is applied before the filter.
taken_then_filtered(addresses) ==
    {a \in allowed(addresses) :
        Cardinality({b \in addresses : Before(b, a)}) < options.max_addresses}

\* Mutant of taken: no limit.
taken_all(addresses) == allowed(addresses)

\* The first max_addresses of the allowed addresses.
taken(addresses) ==
    {a \in allowed(addresses) :
        Cardinality({b \in allowed(addresses) : Before(b, a)}) < options.max_addresses}

Resolve ==
    /\ pc = "resolve"
    /\ \E addresses \in Answers[destination] :
           /\ answer' = addresses
           /\ observations' = {observation(a) : a \in addresses}
           /\ permitted' = taken(addresses)
           /\ IF taken(addresses) # {} THEN pc' = "request" /\ UNCHANGED error
              ELSE Refuse(IF addresses = {} THEN "dns_empty_answer" ELSE "non_public_address_denied")
    /\ UNCHANGED <<request, options, intended, destination, hop>>

Respond(response) ==
    /\ pc = "request"
    /\ hop' = <<[response |-> response, shown |-> hop_shown(target, response, options)]>>
    /\ pc' = "done"
    /\ UNCHANGED <<request, options, error, intended, destination, answer, observations, permitted>>

Decided == pc \in {"refused", "done"} /\ UNCHANGED vars

Init ==
    /\ request \in Requests
    /\ pc = "overrides" /\ options = options_of_spec(request.spec)
    /\ error = "" /\ intended = <<>> /\ destination = <<>> /\ answer = {}
    /\ observations = {} /\ permitted = {} /\ hop = <<>>

Next ==
    \/ RefuseBudget \/ ApplyOverrides \/ RefuseOptions \/ AcceptOptions
    \/ RefuseTarget \/ AcceptTarget \/ SelectProxy
    \/ Resolve \/ (\E response \in HttpResponses : Respond(response))
    \/ Decided

Spec == Init /\ [][Next]_vars
=============================================================================
