---------------------------- MODULE NoProxyText -----------------------------
(***************************************************************************)
(* The entries of a NO_PROXY list as the text they are (no_proxy_matches   *)
(* of src/policy.rs).  A text is a sequence of tokens: ".", ":", brackets  *)
(* and the words between them, case folded.  The list is already split at  *)
(* its commas and its entries trimmed.                                     *)
(***************************************************************************)
EXTENDS Integers, SequencesExt

CONSTANT Numerals   \* the words that consist of ASCII digits

ASSUME NumeralAssumption == {".", ":", "[", "]", "*"} \cap Numerals = {}

-----------------------------------------------------------------------------
(* What a user writes.  A host, a domain or an IPv6 literal in brackets,   *)
(* after any dots and with or without a port; an IPv6 literal as it is; *;  *)
(* or nothing between two commas.                                          *)

\* A domain, whose last label is no number.
is_domain(name) ==
    /\ name # <<>> /\ name[1] # "."
    /\ ToSet(name) \cap {":", "[", "]", "*"} = {}
    /\ name[Len(name)] \notin Numerals

is_ipv4(name) ==
    /\ Len(name) = 7
    /\ \A i \in 1 .. 7 : IF i % 2 = 0 THEN name[i] = "." ELSE name[i] \in Numerals

is_ipv6(name) ==
    /\ name # <<>> /\ name[1] # "."
    /\ ToSet(name) \cap {"[", "]", "*"} = {}
    /\ \E i, j \in 1 .. Len(name) : i < j /\ name[i] = ":" /\ name[j] = ":"

is_bracketed(name) ==
    /\ Len(name) > 2 /\ name[1] = "[" /\ name[Len(name)] = "]"
    /\ is_ipv6(SubSeq(name, 2, Len(name) - 1))

is_entry(entry) ==
    /\ entry.form \in {"blank", "all", "host", "literal"}
    /\ entry.name \in Seq(STRING)
    /\ entry.dots \in Nat
    /\ entry.port \in {<<>>} \cup {<<":", number>> : number \in Numerals}
    /\ entry.form = "host" =>
           is_domain(entry.name) \/ is_ipv4(entry.name) \/ is_bracketed(entry.name)
    /\ entry.form = "literal" => is_ipv6(entry.name)

\* The entry as the text that the program is given.
text_of(entry) ==
    CASE entry.form = "blank"   -> <<>>
      [] entry.form = "all"     -> <<"*">>
      [] entry.form = "literal" -> entry.name
      [] entry.form = "host"    -> [i \in 1 .. entry.dots |-> "."] \o entry.name \o entry.port
-----------------------------------------------------------------------------
(* What the program reads.                                                 *)

\* format!(":{port}")
port_suffix(port) == <<":", ToString(port)>>

\* What follows the last colon is a number.
ends_in_number(pattern) ==
    \E number \in Numerals : IsSuffix(<<":", number>>, pattern)

Without(text, suffix) == SubSeq(text, 1, Len(text) - Len(suffix))

\* pattern.trim_start_matches('.')
trim_start_dots(pattern) ==
    LET kept == {i \in 1 .. Len(pattern) : pattern[i] # "."}
    IN  IF kept = {} THEN <<>> ELSE SubSeq(pattern, Min(kept), Len(pattern))

\* A pattern without its port names a host exactly, or as a parent domain.
names_host(pattern, host) == host = pattern \/ IsSuffix(<<".">> \o pattern, host)

\* Mutant of entry_matches: whatever number ends an entry is taken for the port.
entry_matches_any_port(entry, host, port) ==
    \/ entry = <<"*">>
    \/ /\ entry # <<>>
       /\ names_host(trim_start_dots(IF ends_in_number(entry) THEN SubSeq(entry, 1, Len(entry) - 2)
                                                              ELSE entry), host)

\* One entry of the list: cut at the port asked for, passed over if it ends in another
\* number, and otherwise taken as a domain.
entry_matches(entry, host, port) ==
    \/ entry = <<"*">>
    \/ /\ entry # <<>>
       /\ IF IsSuffix(port_suffix(port), entry)
            THEN names_host(trim_start_dots(Without(entry, port_suffix(port))), host)
            ELSE ~ends_in_number(entry) /\ names_host(trim_start_dots(entry), host)

text_matches(entries, host, port) == \E entry \in entries : entry_matches(entry, host, port)

\* socket_destination: brackets for a host that has colons and no brackets yet.
socket_destination(host, port) ==
    (IF ":" \in ToSet(host) /\ host[1] # "[" THEN <<"[">> \o host \o <<"]">> ELSE host)
        \o port_suffix(port)
=============================================================================
