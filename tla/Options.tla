------------------------------ MODULE Options -------------------------------
(***************************************************************************)
(* InspectionOptions (src/model.rs): their defaults, what a spec file says *)
(* of them, what the flags of the command line add (src/cli.rs) and the    *)
(* limits the engine holds them to (src/engine.rs).  The request method is *)
(* left out: nothing depends on it.                                        *)
(***************************************************************************)
EXTENDS Integers

CONSTANTS BudgetRange,     \* validate_options: the budget_ms accepted (100..120000),
          ProbeLimit,      \*   the largest max_probes (64),
          AddressLimit,    \*   the largest max_addresses (16),
          RedirectLimit,   \*   the largest max_redirects (10),
          BodyLimit        \*   the largest max_body_bytes (1 MiB)

ASSUME OptionLimitAssumption ==
    /\ BudgetRange \subseteq Nat \ {0}
    /\ {ProbeLimit, AddressLimit, RedirectLimit, BodyLimit} \subseteq Nat

Options == [budget_ms : Nat, max_probes : Nat, max_addresses : Nat,
            max_redirects : Nat, max_body_bytes : Nat,
            include_body_sample : BOOLEAN, allow_private : BOOLEAN,
            show_addresses : BOOLEAN, show_query_values : BOOLEAN,
            disable_proxy : BOOLEAN]

DefaultOptions ==
    [budget_ms |-> 15000, max_probes |-> 12, max_addresses |-> 4, max_redirects |-> 5,
     max_body_bytes |-> 4096, include_body_sample |-> FALSE, allow_private |-> FALSE,
     show_addresses |-> FALSE, show_query_values |-> FALSE, disable_proxy |-> FALSE]

\* What a spec file may be: it may leave any option out, and has no others.
Switches == {"include_body_sample", "allow_private", "show_addresses", "show_query_values",
             "disable_proxy"}

is_spec(spec) ==
    \A o \in DOMAIN spec : /\ o \in DOMAIN DefaultOptions
                          /\ spec[o] \in IF o \in Switches THEN BOOLEAN ELSE Nat

options_of_spec(spec) ==
    [o \in DOMAIN DefaultOptions |->
        IF o \in DOMAIN spec THEN spec[o] ELSE DefaultOptions[o]]
-----------------------------------------------------------------------------
(* The flags: as options, but that numbers may be absent and that --budget *)
(* is a duration, here in microseconds.                                    *)

Absent == -1
MicrosPerMilli == 1000

Flags == [budget : Nat \cup {Absent}, max_probes : Nat \cup {Absent},
          max_addresses : Nat \cup {Absent}, max_redirects : Nat \cup {Absent},
          max_body_bytes : Nat \cup {Absent},
          include_body_sample : BOOLEAN, allow_private : BOOLEAN,
          show_addresses : BOOLEAN, show_query_values : BOOLEAN,
          disable_proxy : BOOLEAN]

OrKeep(flag, option) == IF flag = Absent THEN option ELSE flag

\* Duration::as_millis.
budget_of(micros) == micros \div MicrosPerMilli

apply_overrides(o, f) ==
    [budget_ms           |-> IF f.budget = Absent THEN o.budget_ms ELSE budget_of(f.budget),
     max_probes          |-> OrKeep(f.max_probes, o.max_probes),
     max_addresses       |-> OrKeep(f.max_addresses, o.max_addresses),
     max_redirects       |-> OrKeep(f.max_redirects, o.max_redirects),
     max_body_bytes      |-> OrKeep(f.max_body_bytes, o.max_body_bytes),
     include_body_sample |-> o.include_body_sample \/ f.include_body_sample,
     allow_private       |-> o.allow_private \/ f.allow_private,
     show_addresses      |-> o.show_addresses \/ f.show_addresses,
     show_query_values   |-> o.show_query_values \/ f.show_query_values,
     disable_proxy       |-> o.disable_proxy \/ f.disable_proxy]
-----------------------------------------------------------------------------
\* The checks of validate_options, in their order.
validate_options(o) ==
    IF o.budget_ms \notin BudgetRange THEN "invalid_budget"
    ELSE IF o.max_probes \notin 1 .. ProbeLimit THEN "invalid_probe_limit"
    ELSE IF o.max_addresses \notin 1 .. AddressLimit THEN "invalid_address_limit"
    ELSE IF o.max_redirects > RedirectLimit THEN "invalid_redirect_limit"
    ELSE IF o.max_body_bytes > BodyLimit THEN "invalid_body_limit"
    ELSE ""
=============================================================================
