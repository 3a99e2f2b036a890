---------------------------- MODULE PhaseLadder -----------------------------
(***************************************************************************)
(* What an inspection promises about its phases, without how they come     *)
(* about: the phases are settled in their fixed order and without gaps;    *)
(* the first one that fails is the last one probed (only the Assertions    *)
(* phase, which is never probed, may still be recorded as skipped after    *)
(* it); the verdict names it, or names none when every phase was settled;  *)
(* and a request is turned down without a report only before anything is   *)
(* probed.  A sealed report never changes.                                 *)
(***************************************************************************)
EXTENDS Integers, Sequences

VARIABLES settled,   \* the phases settled so far, as [name, status]
          verdict    \* "open", "rejected", "none" or the name of the failed phase

ladderVars == <<settled, verdict>>

Rungs == <<"input", "proxy", "dns", "tcp", "tls", "http", "redirects", "assertions">>

Statuses ==
    <<{"passed"}, {"passed"}, {"passed", "failed"}, {"passed", "failed"},
      {"passed", "failed", "skipped", "not_observed"}, {"passed", "failed"},
      {"passed", "failed", "skipped"}, {"skipped"}>>

Failures(s) == {i \in 1 .. Len(s) : s[i].status = "failed"}

WellFormed(s) ==
    /\ Len(s) <= 8
    /\ \A i \in 1 .. Len(s) : s[i].name = Rungs[i] /\ s[i].status \in Statuses[i]
    /\ \A i \in Failures(s) : i = Len(s) \/ (i = 7 /\ Len(s) = 8)

Complete(s) == Failures(s) # {} \/ Len(s) = 8

VerdictOf(s) ==
    IF Failures(s) = {} THEN "none" ELSE Rungs[CHOOSE i \in Failures(s) : TRUE]

LadderInit == settled = <<>> /\ verdict = "open"

Settle ==
    /\ verdict = "open" /\ ~Complete(settled)
    /\ WellFormed(settled') /\ Len(settled') > Len(settled)
    /\ \A i \in 1 .. Len(settled) : settled'[i] = settled[i]
    /\ UNCHANGED verdict

TurnDown ==
    /\ verdict = "open" /\ Len(settled) < 2
    /\ verdict' = "rejected" /\ UNCHANGED settled

Seal ==
    /\ verdict = "open" /\ Complete(settled)
    /\ verdict' = VerdictOf(settled) /\ UNCHANGED settled

LadderSpec == LadderInit /\ [][Settle \/ TurnDown \/ Seal]_ladderVars
=============================================================================
