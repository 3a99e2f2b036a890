------------------------------ MODULE Command -------------------------------
(***************************************************************************)
(* One run of the hopwhy command (src/main.rs, src/cli.rs, src/offline.rs, *)
(* src/error.rs): from its arguments to its exit code.                     *)
(*                                                                         *)
(* The files it reads belong to others, who may rewrite or replace them    *)
(* between any two of its steps; whoever reads its output may close the    *)
(* pipe at any time, or keep it open and stop reading.  "pc" names the     *)
(* step the command is about to take.                                      *)
(***************************************************************************)
EXTENDS Documents

CONSTANTS Invocations,   \* the command lines
          Paths,         \* the files they name
          InitialFiles,  \* the files there may be when the command starts
          Pieces,        \* the pieces others may write
          MaxEdits       \* bound on what they do

\* Mutant of exit_code: contract errors exit as data errors do in sysexits.h.
exit_code_of_sysexits == [io |-> 1, usage |-> 2, policy |-> 3, budget |-> 4, contract |-> 65]

exit_code == [io |-> 1, usage |-> 2, policy |-> 3, budget |-> 4, contract |-> 5]

class_of ==
    [report_metadata_failed    |-> "io",       spec_metadata_failed     |-> "io",
     report_not_regular_file   |-> "io",       spec_not_regular_file    |-> "io",
     report_too_large          |-> "budget",   spec_too_large           |-> "budget",
     report_read_failed        |-> "io",       spec_read_failed         |-> "io",
     invalid_report_json       |-> "contract", invalid_spec             |-> "usage",
     unsupported_report_schema |-> "contract", missing_report_digest    |-> "contract",
     report_integrity_mismatch |-> "contract", ambiguous_inspect_input  |-> "usage",
     missing_inspect_input     |-> "usage",    invalid_budget           |-> "usage",
     unsupported_scheme        |-> "policy",   stdout_broken_pipe       |-> "io",
     stdout_write_failed       |-> "io",       cli_usage                |-> "usage"]

File == [kind : {"absent", "directory", "fifo", "file"}, text : Text]

\* A command line: whether clap accepts it, how --format is given, the command, the
\* target and files it names, and whether --budget can be parsed.
Invocation ==
    [parse    : {"ok", "display", "usage"},
     format   : {"human", "json", "ndjson"},
     joined   : BOOLEAN,            \* written --format=json, as one argument
     command  : {"inspect", "plan", "compare", "replay", "static"},
     target   : BOOLEAN,
     paths    : UNION {[1 .. n -> Paths] : n \in 0 .. 2},
     budget   : {"absent", "parsable", "unparsable"}]

ASSUME CommandAssumption ==
    /\ Invocations \subseteq Invocation /\ Pieces \subseteq Piece /\ MaxEdits \in Nat
    /\ InitialFiles \subseteq [Paths -> File]
    /\ \A i \in Invocations :
           /\ i.command = "compare" => Len(i.paths) = 2
           /\ i.command \in {"inspect", "plan", "replay"} => Len(i.paths) <= 1
           /\ i.command = "replay" => Len(i.paths) = 1
           /\ i.command = "static" => Len(i.paths) = 0

VARIABLES invocation,  \* the command line: never changed
          pc,          \* the next step of the command
          files,       \* the files it may read
          edits,       \* how often others touched them
          bytes,       \* the pieces read of the current file
          loaded,      \* the texts read and accepted
          output,      \* the document to print, or NoOutput
          error,       \* the code of the AppError that ends the command
          reader,      \* the other end of standard output
          stalled,     \* the streams whose reader neither reads nor goes away
          stdout, stderr, exit

world == <<files, edits, reader, stalled>>
vars == <<invocation, pc, world, bytes, loaded, output, error, stdout, stderr, exit>>

NoOutput == [document |-> "none"]

\* The spec of inspect, or the reports of compare and replay.
what == IF invocation.command \in {"inspect", "plan"} THEN "spec" ELSE "report"

path == invocation.paths[Len(loaded) + 1]

limit == IF what = "spec" THEN MaxSpec ELSE MaxReport

Fail(code) == error' = code /\ pc' = "failed"

\* The next file, or the work itself when there is none.
Proceed(count) == IF count < Len(invocation.paths) THEN "metadata" ELSE "overrides"
-----------------------------------------------------------------------------
(* Arguments                                                               *)

\* main's reading of --format for the errors of the parser itself.
requested_format == IF invocation.joined THEN "human" ELSE invocation.format

\* clap prints help or the version itself, and nobody looks at what becomes of it.
Display ==
    /\ pc = "start" /\ invocation.parse = "display" /\ "stdout" \notin stalled
    /\ \/ reader = "open" /\ stdout' = "complete"
       \/ stdout' = "part"
    /\ exit' = 0 /\ pc' = "exited"
    /\ UNCHANGED <<invocation, world, bytes, loaded, output, error, stderr>>

UsageError ==
    /\ pc = "start" /\ invocation.parse = "usage" /\ "stderr" \notin stalled
    /\ error' = "cli_usage" /\ stderr' = requested_format
    /\ exit' = 2 /\ pc' = "exited"
    /\ UNCHANGED <<invocation, world, bytes, loaded, output, stdout>>

\* resolve_spec's refusals.
input_error ==
    IF invocation.command \notin {"inspect", "plan"} THEN "none"
    ELSE IF invocation.target /\ invocation.paths # <<>> THEN "ambiguous_inspect_input"
    ELSE IF ~invocation.target /\ invocation.paths = <<>> THEN "missing_inspect_input"
    ELSE "none"

RefuseInput ==
    /\ pc = "start" /\ invocation.parse = "ok" /\ input_error # "none"
    /\ Fail(input_error)
    /\ UNCHANGED <<invocation, world, bytes, loaded, output, stdout, stderr, exit>>

Begin ==
    /\ pc = "start" /\ invocation.parse = "ok" /\ input_error = "none"
    /\ pc' = Proceed(0)
    /\ UNCHANGED <<invocation, world, bytes, loaded, output, error, stdout, stderr, exit>>
-----------------------------------------------------------------------------
(* load_spec and load_report                                               *)

\* The checks made on the metadata of a file.
metadata_error(f) ==
    IF f.kind = "absent"
      THEN IF what = "spec" THEN "spec_metadata_failed" ELSE "report_metadata_failed"
    ELSE IF f.kind # "file"
      THEN IF what = "spec" THEN "spec_not_regular_file" ELSE "report_not_regular_file"
    ELSE IF size_of(f.text) > limit
      THEN IF what = "spec" THEN "spec_too_large" ELSE "report_too_large"
    ELSE "none"

\* Mutant of MetadataRefused: it waits for the file to become acceptable.
MetadataAwaited ==
    /\ pc = "metadata" /\ metadata_error(files[path]) # "none"
    /\ UNCHANGED vars

MetadataRefused ==
    /\ pc = "metadata" /\ metadata_error(files[path]) # "none"
    /\ Fail(metadata_error(files[path]))
    /\ UNCHANGED <<invocation, world, bytes, loaded, output, stdout, stderr, exit>>

MetadataAccepted ==
    /\ pc = "metadata" /\ metadata_error(files[path]) = "none"
    /\ bytes' = <<>> /\ pc' = "read"
    /\ UNCHANGED <<invocation, world, loaded, output, error, stdout, stderr, exit>>

\* fs::read opens the path anew, and may fail at that or later.
ReadFailed ==
    /\ pc \in {"read", "read_rest"}
    /\ Fail(IF what = "spec" THEN "spec_read_failed" ELSE "report_read_failed")
    /\ UNCHANGED <<invocation, world, bytes, loaded, output, stdout, stderr, exit>>

\* It reads what there is when it gets there: the head first, the tail later.
ReadHead ==
    /\ pc = "read" /\ files[path].kind = "file"
    /\ bytes' = <<files[path].text.head>> /\ pc' = "read_rest"
    /\ UNCHANGED <<invocation, world, loaded, output, error, stdout, stderr, exit>>

ReadTail ==
    /\ pc = "read_rest"
    /\ bytes' = <<bytes[1], files[path].text.tail>> /\ pc' = "parse"
    /\ UNCHANGED <<invocation, world, loaded, output, error, stdout, stderr, exit>>

\* What has become a FIFO since its metadata was checked gives what others write into it,
\* when they do.
ReadPipe ==
    /\ pc = "read" /\ files[path].kind = "fifo"
    /\ \E head, tail \in Pieces : bytes' = <<head, tail>>
    /\ pc' = "parse"
    /\ UNCHANGED <<invocation, world, loaded, output, error, stdout, stderr, exit>>

read_text == [head |-> bytes[1], tail |-> bytes[2]]

\* A spec is only parsed; a report is measured again, parsed and verified.
parse_error ==
    IF what = "report" THEN parse_report_document(read_text)
    ELSE IF is_json(read_text, "spec") THEN "none" ELSE "invalid_spec"

ParseRefused ==
    /\ pc = "parse" /\ parse_error # "none"
    /\ Fail(parse_error)
    /\ UNCHANGED <<invocation, world, bytes, loaded, output, stdout, stderr, exit>>

ParseAccepted ==
    /\ pc = "parse" /\ parse_error = "none"
    /\ loaded' = Append(loaded, read_text) /\ pc' = Proceed(Len(loaded) + 1)
    /\ UNCHANGED <<invocation, world, bytes, output, error, stdout, stderr, exit>>
-----------------------------------------------------------------------------
(* The command itself                                                      *)

\* apply_overrides, for inspect; the merged options are an input of Engine.
OverridesRefused ==
    /\ pc = "overrides" /\ what = "spec" /\ invocation.budget = "unparsable"
    /\ Fail("invalid_budget")
    /\ UNCHANGED <<invocation, world, bytes, loaded, output, stdout, stderr, exit>>

OverridesApplied ==
    /\ pc = "overrides" /\ ~(what = "spec" /\ invocation.budget = "unparsable")
    /\ pc' = "execute"
    /\ UNCHANGED <<invocation, world, bytes, loaded, output, error, stdout, stderr, exit>>

Emit(document) == output' = document /\ pc' = "print"

\* The engine turns the input down before it probes anything, for inspect and its
\* dry run alike (RejectInput and RejectProxy of Engine; one code of each class).
EngineRejects ==
    /\ pc = "execute" /\ what = "spec"
    /\ \E code \in {"invalid_budget", "unsupported_scheme"} : Fail(code)
    /\ UNCHANGED <<invocation, world, bytes, loaded, output, stdout, stderr, exit>>

Inspect ==
    /\ pc = "execute" /\ invocation.command = "inspect"
    /\ \E r \in Sealed : Emit([document |-> "report", report |-> r])
    /\ UNCHANGED <<invocation, world, bytes, loaded, error, stdout, stderr, exit>>

\* The reports are verified once more; that cannot fail a second time.
Compare ==
    /\ pc = "execute" /\ invocation.command = "compare"
    /\ Emit([document |-> "compare",
              result   |-> compare(report_in(loaded[1]), report_in(loaded[2]))])
    /\ UNCHANGED <<invocation, world, bytes, loaded, error, stdout, stderr, exit>>

Replay ==
    /\ pc = "execute" /\ invocation.command = "replay"
    /\ LET r == report_in(loaded[1])
       IN  Emit([document |-> "replay", failed_at |-> r.failed_at,
                  phase_statuses |-> phase_statuses(r)])
    /\ UNCHANGED <<invocation, world, bytes, loaded, error, stdout, stderr, exit>>

\* A plan, or capabilities, a schema or a completion script.
Describe ==
    /\ pc = "execute" /\ invocation.command \in {"plan", "static"}
    /\ Emit([document |-> invocation.command])
    /\ UNCHANGED <<invocation, world, bytes, loaded, error, stdout, stderr, exit>>
-----------------------------------------------------------------------------
(* write_stdout, write_error and the exit code                             *)

\* Whether the text ends its last line: JSON does not and a document for people does;
\* of capabilities, schemas and completion scripts some do.
ends_line ==
    IF invocation.command = "static" THEN BOOLEAN ELSE {invocation.format = "human"}

\* write_all waits while the pipe is full.
WriteText ==
    /\ pc = "print" /\ reader = "open" /\ "stdout" \notin stalled
    /\ \/ TRUE \in ends_line /\ stdout' = "complete" /\ exit' = 0 /\ pc' = "exited"
       \/ FALSE \in ends_line /\ stdout' = "text" /\ pc' = "newline" /\ UNCHANGED exit
    /\ UNCHANGED <<invocation, world, bytes, loaded, output, error, stderr>>

WriteNewline ==
    /\ pc = "newline" /\ reader = "open" /\ "stdout" \notin stalled
    /\ stdout' = "complete" /\ exit' = 0 /\ pc' = "exited"
    /\ UNCHANGED <<invocation, world, bytes, loaded, output, error, stderr>>

\* stdout_write_error: the pipe is closed, or the write fails for another reason; a
\* part of the text may have been written.
WriteFailed ==
    /\ pc \in {"print", "newline"} /\ "stdout" \notin stalled
    /\ Fail(IF reader = "closed" THEN "stdout_broken_pipe" ELSE "stdout_write_failed")
    /\ \/ UNCHANGED stdout
       \/ pc = "print" /\ stdout' = "part"
    /\ UNCHANGED <<invocation, world, bytes, loaded, output, stderr, exit>>

\* Mutant of forgiven: every failure to write is taken for a closed pipe.
forgiven_writes(code) == code \in {"stdout_broken_pipe", "stdout_write_failed"}

forgiven(code) == code = "stdout_broken_pipe"

Exit ==
    /\ pc = "failed" /\ (forgiven(error) \/ "stderr" \notin stalled)
    /\ IF forgiven(error) THEN exit' = 0 /\ UNCHANGED stderr
       ELSE exit' = exit_code[class_of[error]] /\ stderr' = invocation.format
    /\ pc' = "exited"
    /\ UNCHANGED <<invocation, world, bytes, loaded, output, error, stdout>>
-----------------------------------------------------------------------------
(* The others                                                              *)

\* Somebody rewrites a file in place, piece by piece, removes it or puts a FIFO in its
\* place.  What becomes of the files after the last read does not matter to the command.
Edit(p) ==
    /\ edits < MaxEdits /\ files[p].kind = "file"
    /\ pc \in {"start", "metadata", "read", "read_rest", "parse"}
    /\ \/ \E piece \in Pieces : files' = [files EXCEPT ![p].text.head = piece]
       \/ \E piece \in Pieces : files' = [files EXCEPT ![p].text.tail = piece]
       \/ \E kind \in {"absent", "fifo"} : files' = [files EXCEPT ![p].kind = kind]
    /\ edits' = edits + 1
    /\ UNCHANGED <<invocation, pc, bytes, loaded, output, error, reader, stalled, stdout,
                   stderr, exit>>

CloseReader ==
    /\ reader = "open" /\ pc # "exited"
    /\ reader' = "closed" /\ stalled' = stalled \ {"stdout"}
    /\ UNCHANGED <<invocation, pc, files, edits, bytes, loaded, output, error, stdout,
                   stderr, exit>>

\* The stream the command is about to write to.
Writes ==
    CASE pc = "start" /\ invocation.parse = "display" -> "stdout"
      [] pc = "start" /\ invocation.parse = "usage"   -> "stderr"
      [] pc \in {"print", "newline"}                  -> "stdout"
      [] pc = "failed" /\ ~forgiven(error)            -> "stderr"
      [] OTHER                                        -> "none"

\* The pipe the command is about to write to is full, and nobody reads from it.
Stall ==
    /\ Writes # "none" /\ Writes \notin stalled
    /\ Writes = "stdout" => reader = "open"
    /\ stalled' = stalled \cup {Writes}
    /\ UNCHANGED <<invocation, pc, files, edits, reader, bytes, loaded, output, error, stdout,
                   stderr, exit>>

\* Somebody reads again.
Resume ==
    /\ pc # "exited"
    /\ \E stream \in stalled : stalled' = stalled \ {stream}
    /\ UNCHANGED <<invocation, pc, files, edits, reader, bytes, loaded, output, error, stdout,
                   stderr, exit>>

\* What others hold up: a write nobody reads, a FIFO nobody writes.
Blocked ==
    \/ Writes \in stalled
    \/ pc = "read" /\ files[path].kind = "fifo"

Exited == pc = "exited" /\ UNCHANGED vars

Init ==
    /\ invocation \in Invocations /\ files \in InitialFiles
    /\ pc = "start" /\ edits = 0 /\ bytes = <<>> /\ loaded = <<>>
    /\ output = NoOutput /\ error = "none" /\ reader = "open"
    /\ stalled = {} /\ stdout = "empty" /\ stderr = "empty" /\ exit = -1

Step ==
    \/ Display \/ UsageError \/ RefuseInput \/ Begin
    \/ MetadataRefused \/ MetadataAccepted \/ ReadFailed \/ ReadHead \/ ReadTail
    \/ ParseRefused \/ ParseAccepted \/ OverridesRefused \/ OverridesApplied
    \/ EngineRejects \/ Inspect \/ Compare \/ Replay \/ Describe
    \/ WriteText \/ WriteNewline \/ WriteFailed \/ Exit

Next == Step \/ ReadPipe \/ (\E p \in Paths : Edit(p)) \/ CloseReader \/ Stall \/ Resume \/ Exited

Spec == Init /\ [][Next]_vars

\* The command keeps running while others do not hold it up.  Nothing is assumed of them.
FairSpec == Spec /\ WF_vars(~Blocked /\ Step)
=============================================================================
