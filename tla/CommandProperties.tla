------------------------- MODULE CommandProperties --------------------------
(***************************************************************************)
(* What makes a run of the command correct, and what the repository says   *)
(* of it and the code does not do.                                         *)
(***************************************************************************)
EXTENDS Command

Stages == {"start", "metadata", "read", "read_rest", "parse", "overrides", "execute",
           "print", "newline", "failed", "exited"}

\* Every variable holds a value of the command's types; the pieces read belong to the
\* step they are used at (the locals of load_spec and load_report).
CommandTypeOK ==
    /\ invocation \in Invocations /\ pc \in Stages
    /\ files \in [Paths -> File] /\ edits \in 0 .. MaxEdits
    /\ bytes \in Seq(Piece) /\ Len(bytes) <= 2
    /\ pc = "read_rest" => Len(bytes) = 1
    /\ pc = "parse" => Len(bytes) = 2
    /\ loaded \in Seq(Text) /\ Len(loaded) <= Len(invocation.paths)
    /\ output.document \in {"none", "report", "compare", "replay", "plan", "static"}
    /\ error \in DOMAIN class_of \cup {"none"} /\ (pc = "failed" => error # "none")
    /\ reader \in {"open", "closed"} /\ stalled \subseteq {"stdout", "stderr"}
    /\ stdout \in {"empty", "part", "text", "complete"}
    /\ stderr \in {"empty", "human", "json", "ndjson"}
    /\ exit \in -1 .. 5

\* However a file is rewritten while it is read, compare and replay work only with
\* reports that an inspection sealed as they are, within the size limit: never with a
\* mixture of two reports or an edited one (load_report, verify_report).
LoadedWasSealed ==
    what = "report" =>
        \A i \in 1 .. Len(loaded) :
            report_in(loaded[i]) \in Sealed /\ size_of(loaded[i]) <= MaxReport

\* The exit code tells what became of the output: zero means that the whole document
\* was written or that its reader went away, unless it was only help; any other code is
\* the class of an error that is explained on standard error, and the document is then
\* not complete (write_stdout, write_error, main).
ExitAgrees ==
    pc = "exited" =>
        IF exit = 0
          THEN \/ stdout = "complete" \/ reader = "closed"
               \/ invocation.parse = "display"
          ELSE /\ stdout # "complete" /\ stderr # "empty"
               /\ exit = exit_code[class_of[error]]

\* The names and statuses of the phases of a report, in their order.
course(r) == [i \in 1 .. Len(r.phases) |-> <<r.phases[i].name, r.phases[i].status>>]

\* A comparison finds no difference exactly between reports of the same intended target
\* whose phases have the same statuses in the same order and whose hops have the same
\* HTTP statuses, although it puts the phases into maps first; and where the earliest
\* failed phases differ it also lists one of them.  Nothing else is compared: not the
\* error codes of the phases, nor the URLs of the hops (compare; README.md: "Comparison
\* reports target, earliest-failed-phase, phase status, and HTTP status sequence
\* differences").
ComparisonExact ==
    output.document = "compare" =>
        LET l == report_in(loaded[1])  r == report_in(loaded[2])  c == output.result IN
        /\ c.no_difference <=> /\ l.target = r.target /\ course(l) = course(r)
                               /\ http_statuses(l) = http_statuses(r)
        /\ ~c.same_failed_phase =>
               \E n \in c.phase_differences : n \in {l.failed_at, r.failed_at}

\* A run of the command ends if from some time on others do not hold it up.  It need not
\* end otherwise: write_all and writeln wait for a reader that keeps its end open and does
\* not read, and fs::read waits for a writer when a FIFO took the place of the regular file
\* whose metadata was checked (load_spec, load_report, write_stdout, write_error).
CommandEnds == <>[]~Blocked => <>(pc = "exited")
-----------------------------------------------------------------------------
(* What the repository says of the command and the code does not do        *)

\* docs/SAFETY.md: spec input is limited to 1 MiB.
SpecInputBounded ==
    what = "spec" => \A i \in 1 .. Len(loaded) : size_of(loaded[i]) <= MaxSpec

\* docs/CONTRACT.md: machine errors use hopwhy.error.v1.
MachineErrors == pc = "exited" /\ stderr # "empty" => stderr = invocation.format
=============================================================================
