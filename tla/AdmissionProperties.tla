------------------------ MODULE AdmissionProperties -------------------------
(***************************************************************************)
(* What makes the policy decisions of a hop correct.                       *)
(***************************************************************************)
EXTENDS Admission, AddressRegistry

Decisions == {"overrides", "validate", "target", "proxy", "resolve", "request", "done", "refused"}

\* Every variable holds a value of the program's types, and what is known of a hop
\* grows with the decisions made: options within their limits once validated, at most
\* max_addresses addresses, all of them answered.
TypeOK ==
    /\ pc \in Decisions
    /\ options \in Options
    /\ pc \notin {"overrides", "validate", "refused"} => validate_options(options) = ""
    /\ (error # "") = (pc = "refused")
    /\ answer \subseteq IpAddr
    /\ Cardinality(observations) = Cardinality(answer)
    /\ permitted \subseteq answer /\ Cardinality(permitted) <= options.max_addresses
    /\ Len(hop) <= 1

\* An option that widens what may be contacted or shown was asked for, by the spec file
\* or by a flag.
Asked(option) ==
    (option \in DOMAIN request.spec /\ request.spec[option]) \/ request.flags[option]

\* No address is handed to connect_first or pinned for a request that the documented
\* policy denies, unless the user asked for private addresses: every class of
\* docs/SAFETY.md and of the IANA registry is recognised, whichever branch of
\* classify_ipv4 and classify_ipv6 it takes, also inside a mapped or translated address.
AdmittedIsReachable ==
    \A a \in permitted : Reachable(a) \/ Asked("allow_private")

\* Failing closed does not go too far: no IPv6 answer is turned down because an earlier,
\* wider branch of classify_ipv6 hides the exception it belongs to (the Port Control,
\* TURN, AMT, AS112, ORCHID and drone blocks inside 2001::/23, public IPv4 translated).
NothingReachableDenied ==
    pc = "refused" =>
        \A a \in answer : a.family = "ipv6" => ~Reachable6(a.parts)

\* A host is named by its own name and by that of a domain it lies in.
Names(name, host) == name = host \/ IsSuffix(<<".">> \o name, host)

\* What an entry of NO_PROXY means to who wrote it.  It says nothing of how the program
\* cuts the text of the entry.
AsksFor(entry, host, port) ==
    \/ entry.form = "all"
    \/ /\ entry.form = "host" /\ Names(entry.name, host)
       /\ entry.port \in {<<>>, port_suffix(port)}
    \/ entry.form = "literal" /\ host = <<"[">> \o entry.name \o <<"]">>

\* Cutting dots and ports off the text of an entry does not change what the entry is
\* taken to ask for (no_proxy_matches).  A proxy that is set is passed by only if an option
\* or an entry asks for it, so that no tail of a name or of an IPv6 literal that is taken
\* for a port makes a connection direct; and it is passed by when an option, * or an entry
\* with a host asks for it, whatever port and dots the entry has.  The second half leaves
\* out IPv6 literals without brackets: the program never applies them.
BypassAsAsked ==
    LET host   == target.host
        port   == target.port
        mine   == socket_destination(host, port)
        theirs == socket_destination(ProxyHost, ProxyPort)
        direct == destination = mine
    IN  (destination # <<>> /\ request.proxied /\ mine # theirs) =>
            /\ direct \/ destination = theirs
            /\ direct => \/ Asked("disable_proxy")
                         \/ \E e \in request.no_proxy : AsksFor(e, host, port)
            /\ (\/ Asked("disable_proxy")
                \/ \E e \in request.no_proxy : e.form # "literal" /\ AsksFor(e, host, port))
                   => direct

\* A URL and a response without what the user did not ask to be shown: credentials,
\* fragments, query values, headers other than the allowed ones, the body.
masked_url(url) ==
    [url EXCEPT !.userinfo = "", !.fragment = "",
                !.query = IF Asked("show_query_values") THEN @
                          ELSE [i \in 1 .. Len(@) |-> <<@[i][1], "">>]]

masked_response(response) ==
    [response EXCEPT
        !.location = [i \in 1 .. Len(@) |-> masked_url(@[i])],
        !.headers = [n \in DOMAIN @ \cap SafeHeaders |-> @[n]],
        !.body = IF Asked("include_body_sample") THEN @ ELSE ""]

undigested(shown) == [shown EXCEPT !.body_sample_sha256 = {}]

\* A report tells nothing that was not asked to be shown: it is the same report that the
\* masked URL and the masked response would have given, but for the digest of the body,
\* and its addresses are digests (redact_url, address_for_report, response_to_hop).
OnlyAskedIsShown ==
    /\ intended # <<>> =>
           intended = redact_url(masked_url(target), options.show_query_values)
    /\ \A i \in 1 .. Len(hop) :
           undigested(hop[i].shown) =
               undigested(hop_shown(masked_url(target), masked_response(hop[i].response), options))
    /\ \A o \in observations : "shown" \in DOMAIN o.address => Asked("show_addresses")
=============================================================================
