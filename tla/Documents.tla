----------------------------- MODULE Documents ------------------------------
(***************************************************************************)
(* Reports as files: the text of a report, its seal, and what compare and  *)
(* replay compute from verified reports (src/offline.rs).                  *)
(*                                                                         *)
(* A text is two pieces, as they lie in the file: the head holds what the  *)
(* serialized report says first (schema, target, hops), the tail the rest  *)
(* (phases, failed_at, seal).  The two may stem from different documents:  *)
(* a file can be rewritten while it is read.  SHA-256 is taken to be       *)
(* injective, so a digest is the content it was computed from; "sha" is    *)
(* {} for a report without report_sha256.  An error is its code, "none" Ok. *)
(***************************************************************************)
EXTENDS Integers, Sequences, FiniteSets

CONSTANTS Sealed,      \* reports as inspections sealed them
          Altered,     \* reports that were edited after they were sealed
          MaxReport,   \* MAX_REPORT_BYTES (8 MiB)
          MaxSpec      \* MAX_SPEC_BYTES (1 MiB)

Ladder == INSTANCE PhaseLadder WITH settled <- <<>>, verdict <- "open"

digest_report(r) == [r EXCEPT !.sha = {}]

Documents == Sealed \cup Altered

\* The report made of what is in the head of one document and in the tail of another.
report_of(head, tail) ==
    [schema    |-> head.schema,
     target    |-> head.target,
     hops      |-> head.hops,
     phases    |-> tail.phases,
     failed_at |-> tail.failed_at,
     sha       |-> tail.sha]

\* What finalize_report seals; whoever edits a report does not recompute the seal.
PhaseRecord == [name : STRING, status : STRING, error : STRING]
HopRecord == [status : Nat, url : STRING]

ASSUME SealAssumption ==
    /\ \A r \in Documents : r = report_of(r, r)
    /\ \A r \in Sealed :
           /\ r.schema = "v1" /\ r.sha = {digest_report(r)}
           /\ r.phases \in Seq(PhaseRecord) /\ r.hops \in Seq(HopRecord)
           /\ Ladder!WellFormed(r.phases) /\ Ladder!Complete(r.phases)
           /\ r.failed_at = Ladder!VerdictOf(r.phases)
    /\ \A r \in Altered : r.sha = {} \/ \E s \in Sealed : r.sha = s.sha

ASSUME SizeAssumption == MaxReport \in Nat /\ MaxSpec \in Nat

\* A piece of a file: of a report, of a spec, or of neither.
Piece == [text : {"report"}, doc : Documents, size : Nat]
             \cup [text : {"spec", "other"}, size : Nat]

Text == [head : Piece, tail : Piece]

size_of(t) == t.head.size + t.tail.size

is_json(t, what) == t.head.text = what /\ t.tail.text = what

\* serde_json::from_slice of a report's text.
report_in(t) == report_of(t.head.doc, t.tail.doc)

\* Mutant of verify_report: the seal is not compared.
verify_schema_only(r) ==
    IF r.schema # "v1" THEN "unsupported_report_schema"
    ELSE IF r.sha = {} THEN "missing_report_digest" ELSE "none"

verify_report(r) ==
    IF r.schema # "v1" THEN "unsupported_report_schema"
    ELSE IF r.sha = {} THEN "missing_report_digest"
    ELSE IF r.sha # {digest_report(r)} THEN "report_integrity_mismatch"
    ELSE "none"

parse_report_document(t) ==
    IF size_of(t) > MaxReport THEN "report_too_large"
    ELSE IF ~is_json(t, "report") THEN "invalid_report_json"
    ELSE verify_report(report_in(t))
-----------------------------------------------------------------------------
\* Phases collected into a map, a later one of the same name replacing an earlier one.
phase_statuses(r) ==
    [n \in {r.phases[i].name : i \in 1 .. Len(r.phases)} |->
        r.phases[CHOOSE i \in 1 .. Len(r.phases) :
                     /\ r.phases[i].name = n
                     /\ \A j \in i + 1 .. Len(r.phases) : r.phases[j].name # n].status]

\* The status of a phase as an option: {} when the report has none.
status_of(statuses, n) == IF n \in DOMAIN statuses THEN {statuses[n]} ELSE {}

phase_differences(l, r) ==
    {n \in DOMAIN l \cup DOMAIN r : status_of(l, n) # status_of(r, n)}

\* The HTTP status sequence: nothing else of a hop is compared.
http_statuses(r) == [i \in 1 .. Len(r.hops) |-> r.hops[i].status]

\* Mutant of compare: differing response statuses do not enter the summary.
compare_without_statuses(left, right) ==
    LET differences == phase_differences(phase_statuses(left), phase_statuses(right))
    IN  [same_intended_target |-> left.target = right.target,
         same_failed_phase    |-> left.failed_at = right.failed_at,
         phase_differences    |-> differences,
         same_statuses        |-> http_statuses(left) = http_statuses(right),
         no_difference        |-> /\ left.target = right.target
                                  /\ left.failed_at = right.failed_at
                                  /\ differences = {}]

compare(left, right) ==
    LET differences == phase_differences(phase_statuses(left), phase_statuses(right))
    IN  [same_intended_target |-> left.target = right.target,
         same_failed_phase    |-> left.failed_at = right.failed_at,
         phase_differences    |-> differences,
         same_statuses        |-> http_statuses(left) = http_statuses(right),
         no_difference        |-> /\ left.target = right.target
                                  /\ left.failed_at = right.failed_at
                                  /\ differences = {}
                                  /\ http_statuses(left) = http_statuses(right)]
=============================================================================
