------------------------------ MODULE Tracker -------------------------------
(***************************************************************************)
(* The budget tracker every probe goes through (struct Tracker and its     *)
(* methods in src/engine.rs), with the clock it reads.                     *)
(*                                                                         *)
(* Time is counted from Tracker::new, so "now" is the elapsed time and     *)
(* "deadline" the duration budget.  "active" is the ActiveProbe a caller   *)
(* holds between start_probe and finish_probe.  A caller that returns      *)
(* early through "?" drops it: the slot it held is then free again.        *)
(***************************************************************************)
EXTENDS Integers, Sequences

VARIABLES now,                  \* Instant::now() - started
          deadline,             \* the wall-clock budget
          max_probes,           \* the probe budget
          probes,               \* the ledger of finished probes
          active,               \* the probe in progress, or NoProbe
          response_bytes_read   \* body bytes sampled so far

trackerVars == <<now, deadline, max_probes, probes, active, response_bytes_read>>

ProbeKind == {"dns_lookup", "tcp_connect", "tls_handshake", "http_request"}

Outcome == {"resolved", "connected", "failed", "validated", "tcp_failed",
            "invalid_server_name", "configuration_failed", "handshake_failed",
            "response_received", "request_failed"}

NoProbe == [sequence |-> 0, kind |-> "none", started_ms |-> 0]

ActiveProbe == [sequence : Nat, kind : ProbeKind, started_ms : Nat]

ProbeRecord == [sequence : Nat, kind : ProbeKind, started_ms : Nat,
                duration_ms : Nat, outcome : Outcome]
-----------------------------------------------------------------------------
\* Tracker::new
new_tracker(options) ==
    /\ now = 0
    /\ deadline = options.budget_ms
    /\ max_probes = options.max_probes
    /\ probes = <<>>
    /\ active = NoProbe
    /\ response_bytes_read = 0

\* Time left; the code's remaining() is an error unless it is positive.
remaining == deadline - now

HasTime == remaining > 0

\* Mutant of CanStart: one probe too many.
CanStartOneMore == HasTime /\ Len(probes) <= max_probes

\* The early returns of start_probe.
CanStart == HasTime /\ Len(probes) < max_probes

\* start_probe as far as its checks: the probe has the next slot.
start_probe(kind) ==
    /\ CanStart
    /\ active' = [sequence |-> Len(probes) + 1, kind |-> kind, started_ms |-> now]

\* The rest of start_probe: elapsed_ms() reads the clock again, and time may have passed
\* since the check.  Until then started_ms holds the instant of the check.
stamp_probe == active' = [active EXCEPT !.started_ms = now]

record(duration, outcome) ==
    Append(probes, [sequence |-> active.sequence, kind |-> active.kind,
                    started_ms |-> active.started_ms, duration_ms |-> duration,
                    outcome |-> outcome])

\* Mutants of finish_probe: the instants are subtracted the wrong way round; a
\* failed probe is not recorded.
finish_probe_backwards(started, outcome) ==
    probes' = record(started - now, outcome) /\ active' = NoProbe
finish_probe_successes(started, outcome) ==
    /\ probes' = IF outcome = "failed" THEN probes ELSE record(now - started, outcome)
    /\ active' = NoProbe

finish_probe(started, outcome) ==
    probes' = record(now - started, outcome) /\ active' = NoProbe

\* A caller returns through "?" before finish_probe: the ActiveProbe is dropped.
drop_probe == active' = NoProbe /\ UNCHANGED probes
-----------------------------------------------------------------------------
(* The tracker on its own: what any caller of its methods can do to it.    *)

TrackerInit ==
    /\ now = 0 /\ deadline \in Nat /\ max_probes \in Nat
    /\ probes = <<>> /\ active = NoProbe /\ response_bytes_read = 0

TrackerNext ==
    /\ UNCHANGED <<deadline, max_probes>>
    /\ \/ /\ active = NoProbe
          /\ \E kind \in ProbeKind : start_probe(kind)
          /\ UNCHANGED <<now, probes, response_bytes_read>>
       \/ /\ active # NoProbe
          /\ \E started \in active.started_ms .. now, outcome \in Outcome :
                 finish_probe(started, outcome)
          /\ UNCHANGED <<now, response_bytes_read>>
       \/ /\ active # NoProbe
          /\ stamp_probe
          /\ UNCHANGED <<now, probes, response_bytes_read>>
       \/ /\ active # NoProbe
          /\ drop_probe
          /\ UNCHANGED <<now, response_bytes_read>>
       \/ /\ response_bytes_read' \in Nat /\ response_bytes_read' >= response_bytes_read
          /\ UNCHANGED <<now, probes, active>>
       \/ /\ now' = now + 1
          /\ UNCHANGED <<probes, active, response_bytes_read>>

TrackerSpec == TrackerInit /\ [][TrackerNext]_trackerVars
-----------------------------------------------------------------------------
Ended(probe) == probe.started_ms + probe.duration_ms

\* The budget in the ledger: at most max_probes probes are ever recorded, numbered from 1
\* without gaps although a dropped probe gives its slot back; none began before the one
\* before it had ended; and only the last one may have ended, or even begun, when the
\* deadline was past, since the check that granted each probe was made after the end of
\* the one before it, while the clock it is stamped with is read after the check
\* (Tracker::start_probe, Tracker::finish_probe).
LedgerInBudget ==
    /\ Len(probes) <= max_probes
    /\ \A i \in 1 .. Len(probes) : probes[i].sequence = i
    /\ \A i \in 2 .. Len(probes) :
           /\ Ended(probes[i - 1]) <= probes[i].started_ms
           /\ Ended(probes[i - 1]) < deadline

\* What makes LedgerInBudget inductive: the probe in progress holds the next slot,
\* whatever was recorded before it ended in time, and neither it nor the clock lies
\* before the end of the last finished probe.
TrackerInv ==
    /\ now \in Nat /\ deadline \in Nat /\ max_probes \in Nat
    /\ response_bytes_read \in Nat
    /\ probes \in Seq(ProbeRecord) /\ active \in ActiveProbe \cup {NoProbe}
    /\ LedgerInBudget
    /\ Len(probes) > 0 => Ended(probes[Len(probes)]) <= now
    /\ active # NoProbe =>
           /\ active.sequence = Len(probes) + 1 /\ Len(probes) < max_probes
           /\ active.started_ms <= now
           /\ Len(probes) > 0 => /\ Ended(probes[Len(probes)]) <= active.started_ms
                                 /\ Ended(probes[Len(probes)]) < deadline
=============================================================================
