----------------------------- MODULE Disclosure -----------------------------
(***************************************************************************)
(* What a report shows of URLs, addresses and responses (src/policy.rs,    *)
(* response_to_hop of src/engine.rs).                                      *)
(*                                                                         *)
(* A URL is a record of its parts, its query the sequence of its           *)
(* <<key, value>> pairs.  A digest is the singleton of what it digests.    *)
(***************************************************************************)
EXTENDS Integers, Sequences

CONSTANT HeaderLimit   \* the characters of a header value that are kept (512)

\* Mutant of redact_url: a query of one pair is left as it is.
redact_url_long_queries(url, show_query_values) ==
    [url EXCEPT !.userinfo = "", !.fragment = "",
                !.query = IF show_query_values \/ Len(@) <= 1 THEN @
                          ELSE [i \in 1 .. Len(@) |-> <<@[i][1], "REDACTED">>]]

redact_url(url, show_query_values) ==
    [url EXCEPT !.userinfo = "", !.fragment = "",
                !.query = IF show_query_values THEN @
                          ELSE [i \in 1 .. Len(@) |-> <<@[i][1], "REDACTED">>]]

address_for_report(address, show_addresses) ==
    IF show_addresses THEN [shown |-> address]
    ELSE [family |-> address.family, digest |-> {address}]

SafeHeaders == {"content-type", "content-length", "cache-control", "date", "retry-after"}

\* The first 512 characters of a value; one that is text holds no control character.
sanitize_header_value(value) ==
    [text |-> value.text, length |-> IF value.length < HeaderLimit THEN value.length ELSE HeaderLimit]

\* The allowed headers a response has, those whose value is text.
safe_headers(headers) ==
    [name \in {n \in SafeHeaders \cap DOMAIN headers : headers[n].is_text} |->
        sanitize_header_value(headers[name])]

\* The hop a report records of a response to a request for "url".
hop_shown(url, response, options) ==
    [url                |-> redact_url(url, options.show_query_values),
     location           |-> IF response.redirection /\ response.location # <<>>
                              THEN <<redact_url(response.location[1], options.show_query_values)>>
                              ELSE <<>>,
     headers            |-> safe_headers(response.headers),
     body_sample_sha256 |-> {response.body},
     body_sample_base64 |-> IF options.include_body_sample THEN <<response.body>> ELSE <<>>]
=============================================================================
