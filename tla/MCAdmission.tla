---------------------------- MODULE MCAdmission -----------------------------
(***************************************************************************)
(* An instance of Admission for TLC.  Requests that vary the options, the  *)
(* NO_PROXY list or what there is to disclose; and one host whose answers  *)
(* range over the addresses at the edges of every block.                   *)
(***************************************************************************)
EXTENDS AdmissionProperties

NoFlags ==
    [budget |-> Absent, max_probes |-> Absent, max_addresses |-> Absent,
     max_redirects |-> Absent, max_body_bytes |-> Absent,
     include_body_sample |-> FALSE, allow_private |-> FALSE, show_addresses |-> FALSE,
     show_query_values |-> FALSE, disable_proxy |-> FALSE]

NoSpec == [o \in {} |-> FALSE]

MCNumerals == {"0", "1", "10", "21", "80", "443", "8443"}

Plain == <<"api", ".", "example", ".", "test">>
Rooted == <<"example", ".", "test", ".">>
Anywhere4 == <<"anywhere4">>
Anywhere6 == <<"anywhere6">>
DottedQuad == <<"10", ".", "0", ".", "0", ".", "1">>
Literal == <<"[", "fd00", ":", ":", "443", "]">>

url(scheme, host, port, userinfo, query, fragment) ==
    [scheme |-> scheme, host |-> host, port |-> port, path |-> "/p",
     userinfo |-> userinfo, query |-> query, fragment |-> fragment]

to(host, port) == url("https", host, port, "", <<>>, "")

Request == [spec |-> NoSpec, flags |-> NoFlags, target |-> to(Plain, 443),
            no_proxy |-> {}, proxied |-> FALSE]
-----------------------------------------------------------------------------
(* Options: defaults, a spec, flags, and every limit crossed.              *)

OptionRequests ==
    {[Request EXCEPT !.flags.budget = b] :
        b \in {99999, 100000, 100999, 120000999, 120001000, 150000999, 150101000}}
    \cup {[Request EXCEPT !.flags = [NoFlags EXCEPT ![f] = n]] :
        f \in {"max_probes", "max_addresses"}, n \in {0, 1, 16, 17, 64, 65}}
    \cup {[Request EXCEPT !.flags = [NoFlags EXCEPT ![f] = n]] :
        f \in {"max_redirects", "max_body_bytes"}, n \in {0, 10, 11, 1048576, 1048577}}
    \cup {[Request EXCEPT !.spec = s, !.flags.allow_private = p] :
        s \in {[allow_private |-> TRUE], [budget_ms |-> 100, max_addresses |-> 1],
               [max_body_bytes |-> 0, show_addresses |-> TRUE]}, p \in BOOLEAN}
-----------------------------------------------------------------------------
(* NO_PROXY: names, ports, dots, literals with and without brackets.       *)

HostNames == {<<"test">>, <<"example", ".", "test">>, Plain, <<"other", ".", "test">>, Rooted,
              DottedQuad, Literal, <<"[", ":", ":", "1", "]">>}
Literals == {<<"fd00", ":", ":", "443">>, <<"fd00", ":", ":">>, <<":", ":", "443">>,
             <<":", ":", "1">>, <<"fd00", ":", ":", "1", ":", "443">>}

no_entry == [form |-> "blank", dots |-> 0, name |-> <<>>, port |-> <<>>]
host_entry(dots, name, port) == [form |-> "host", dots |-> dots, name |-> name, port |-> port]

Entries ==
    {no_entry, [no_entry EXCEPT !.form = "all"]}
    \cup {[no_entry EXCEPT !.form = "literal", !.name = name] : name \in Literals}
    \cup {host_entry(dots, name, port) :
              dots \in 0 .. 2, name \in HostNames,
              port \in {<<>>, <<":", "443">>, <<":", "8443">>, <<":", "80">>}}

ProxyRequests ==
    {[Request EXCEPT !.target = to(host, port), !.proxied = TRUE, !.no_proxy = {entry}] :
        host \in {Plain, Rooted, DottedQuad, Literal}, port \in {443, 8443}, entry \in Entries}
    \cup {[Request EXCEPT !.proxied = TRUE, !.no_proxy = list,
                          !.flags.disable_proxy = d] :
        list \in {{}, {host_entry(0, <<"test">>, <<":", "80">>), host_entry(1, <<"test">>, <<>>)}},
        d \in BOOLEAN}
-----------------------------------------------------------------------------
(* Disclosure: what is secret in a target, a Location or a response.       *)

SecretUrls ==
    {url("https", Plain, 443, "", q, f) :
        q \in {<<>>, << <<"key", "secret">> >>, << <<"key", "secret">>, <<"flag", "">> >>},
        f \in {"", "secret"}}
    \cup {url("https", Plain, 443, "user", <<>>, ""), url("ftp", Plain, 21, "", <<>>, "")}

ShownRequests ==
    {[Request EXCEPT !.target = u, !.flags.show_query_values = q, !.flags.show_addresses = a,
                     !.spec = s] :
        u \in SecretUrls, q \in BOOLEAN, a \in BOOLEAN,
        s \in {NoSpec, [include_body_sample |-> TRUE], [show_query_values |-> TRUE]}}

value(text, is_text, length) == [text |-> text, is_text |-> is_text, length |-> length]

MCHttpResponses ==
    {[redirection |-> r, location |-> l, body |-> "secret",
      headers |-> [n \in {"set-cookie", "date", "retry-after"} |->
                      value("secret", n # "retry-after", 600)]] :
        r \in BOOLEAN,
        l \in {<<>>, <<url("https", Plain, 443, "user", << <<"key", "secret">> >>, "secret")>>}}
-----------------------------------------------------------------------------
(* Addresses: the edges of every block, of the registry's and of the code's. *)

Ipv4Edges ==
    {<<a, b, c, d>> : a \in {0, 1, 9, 10, 11, 100, 126, 127, 128, 169, 172, 192, 198, 203,
                             223, 224, 239, 240, 255},
                      b \in {0, 1, 15, 16, 17, 18, 19, 20, 31, 32, 51, 63, 64, 127, 128,
                             167, 168, 169, 253, 254, 255},
                      c \in {0, 1, 2, 3, 99, 100, 113, 114, 255}, d \in {0, 255}}

Ipv6Heads ==
    {<<a, b, c>> : a \in {0, \h64, \h100, \h1fff, \h2000, \h2001, \h2002, \h2620, \h3ffe, \h3fff,
                          \h4000, \h5eff, \h5f00, \hfbff, \hfc00, \hfdff, \hfe00, \hfe80,
                          \hfebf, \hfec0, \hfeff, \hff00, \hffff},
                   b \in {0, 1, 2, 3, 4, \hf, \h10, \h1f, \h20, \h2f, \h30, \h3f, \h40, \h4f,
                          \h1ff, \h200, \hdb7, \hdb8, \hfff, \h1000, \hff9b},
                   c \in {0, 1, \h112, \h8000, \hffff}}

Ipv6Edges ==
    {h \o t : h \in Ipv6Heads,
              t \in {<<0, 0, 0, 0, 0>>, <<0, 0, 0, 0, 1>>, <<0, 0, 0, 0, 3>>, <<0, 0, 0, 0, 4>>,
                     <<1, 0, 0, 0, 1>>, <<\hffff, \hffff, \hffff, \hffff, \hffff>>}}
    \cup {head \o <<16 * 256 * 4 + b, c>> :
              head \in {<<0, 0, 0, 0, 0, \hffff>>, <<\h64, \hff9b, 0, 0, 0, 0>>,
                        <<\h64, \hff9b, 0, 0, 0, 1>>},
              b \in {0, 1, 255}, c \in {0, 256, 65535}}
    \cup {head \o <<b, c>> :
              head \in {<<0, 0, 0, 0, 0, \hffff>>, <<\h64, \hff9b, 0, 0, 0, 0>>},
              b \in {\h0, \ha00, \h7f00, \h6440, \ha9fe, \hac1f, \hc0a8, \hc000, \hc612, \hcb00,
                     \h808, \he000, \hf000, \hffff},
              c \in {0, 1, \h200, \h7100, \hffff}}

v4(o) == [family |-> "ipv4", parts |-> o]
v6(s) == [family |-> "ipv6", parts |-> s]

Mixed == {v4(<<10, 0, 0, 1>>), v4(<<8, 8, 8, 8>>), v6(<<\h2606, \h4700, 0, 0, 0, 0, 0, 1>>),
          v6(<<\hfe80, 0, 0, 0, 0, 0, 0, 1>>)}

MCProxyHost == <<"proxy">>
MCProxyPort == 8080

MCRequests ==
    OptionRequests \cup ProxyRequests \cup ShownRequests
    \cup {[Request EXCEPT !.target = to(host, 443)] : host \in {Anywhere4, Anywhere6}}

MCAnswers ==
    [d \in {socket_destination(r.target.host, r.target.port) : r \in MCRequests}
               \cup {socket_destination(MCProxyHost, MCProxyPort)} |->
        IF d = socket_destination(Anywhere4, 443) THEN {{v4(o)} : o \in Ipv4Edges}
        ELSE IF d = socket_destination(Anywhere6, 443) THEN {{v6(s)} : s \in Ipv6Edges}
        ELSE IF d = socket_destination(Plain, 443) THEN SUBSET Mixed
        ELSE {Mixed}]

MCBudgetRange == 100 .. 120000
=============================================================================
