--------------------------- MODULE CommandProofs ----------------------------
(***************************************************************************)
(* Proofs about Command: its types, what compare and replay work with, and *)
(* the exit code, for all command lines, files and edits.                  *)
(***************************************************************************)
EXTENDS CommandProperties, SequenceTheorems, TLAPS

\* Every class of error has an exit code from 1 to 5.
LEMMA ExitCodes ==
    ASSUME NEW code \in DOMAIN class_of
    PROVE  exit_code[class_of[code]] \in 1 .. 5
  BY DEF class_of, exit_code

\* What a piece of a file is made of.
LEMMA PieceFields ==
    ASSUME NEW p \in Piece
    PROVE  p.size \in Nat /\ (p.text = "report" => p.doc \in Documents)
<1>1. CASE p \in [text : {"report"}, doc : Documents, size : Nat]  BY <1>1
<1>2. CASE p \in [text : {"spec", "other"}, size : Nat]  BY <1>2
<1> QED  BY <1>1, <1>2 DEF Piece

\* A text whose seal verifies is a report as it was sealed, even if its two pieces stem
\* from different documents: whoever edits a report does not recompute the seal.
LEMMA VerifiedIsSealed ==
    ASSUME NEW t \in Text, parse_report_document(t) = "none"
    PROVE  report_in(t) \in Sealed /\ size_of(t) <= MaxReport
<1> DEFINE r == report_in(t)
<1>1. size_of(t) <= MaxReport /\ is_json(t, "report") /\ verify_report(r) = "none"
  <2>1. size_of(t) \in Int /\ MaxReport \in Int
    <3>1. t.head \in Piece /\ t.tail \in Piece  BY DEF Text
    <3>2. t.head.size \in Nat /\ t.tail.size \in Nat  BY <3>1, PieceFields
    <3> QED  BY <3>2, SizeAssumption DEF size_of
  <2>2. ~(size_of(t) > MaxReport)  BY DEF parse_report_document
  <2>3. is_json(t, "report")  BY <2>2 DEF parse_report_document
  <2>4. verify_report(r) = "none"  BY <2>2, <2>3 DEF parse_report_document
  <2> QED  BY <2>1, <2>2, <2>3, <2>4
<1>2. t.head.doc \in Documents /\ t.tail.doc \in Documents
  <2>1. t.head \in Piece /\ t.tail \in Piece  BY DEF Text
  <2> QED  BY <1>1, <2>1, PieceFields DEF is_json
<1>3. r.sha # {} /\ r.sha = {digest_report(r)} /\ r.sha = t.tail.doc.sha
  BY <1>1 DEF verify_report, report_in, report_of
<1>4. PICK s \in Sealed : r.sha = s.sha
  <2>1. \A d \in Altered : d.sha = {} \/ \E s \in Sealed : d.sha = s.sha
    BY SealAssumption
  <2>2. \A d \in Documents : d.sha = {} \/ \E s \in Sealed : d.sha = s.sha
    BY <2>1 DEF Documents
  <2> QED  BY <1>2, <1>3, <2>2
<1>5. s = report_of(s, s) /\ s.sha = {digest_report(s)}
  BY SealAssumption DEF Documents
<1>6. digest_report(r) = digest_report(s)
  BY <1>3, <1>4, <1>5
<1>7. r = s
  <2>1. r = report_of(t.head.doc, t.tail.doc)  BY DEF report_in
  <2>2. [r EXCEPT !.sha = {}] = [s EXCEPT !.sha = {}]  BY <1>6 DEF digest_report
  <2>3. /\ r.schema = s.schema /\ r.target = s.target /\ r.hops = s.hops
        /\ r.phases = s.phases /\ r.failed_at = s.failed_at
    BY <2>1, <2>2, <1>5 DEF report_of
  <2>4. r = report_of(r, r)  BY <2>1 DEF report_of
  <2> QED  BY <2>3, <2>4, <1>4, <1>5 DEF report_of
<1> QED  BY <1>1, <1>4, <1>7
-----------------------------------------------------------------------------
(* Types                                                                   *)

\* A command that starts has read no file; one that is reading has a file left to read.
CommandInv ==
    /\ CommandTypeOK
    /\ pc = "start" => Len(loaded) = 0
    /\ pc \in {"metadata", "read", "read_rest", "parse"} => Len(loaded) < Len(invocation.paths)

\* The files of a command line are a sequence of at most two.
LEMMA PathsOf ==
    ASSUME NEW i \in Invocations
    PROVE  i.paths \in Seq(Paths) /\ Len(i.paths) \in 0 .. 2
<1>1. i.paths \in UNION {[1 .. n -> Paths] : n \in 0 .. 2}
  BY CommandAssumption DEF Invocation
<1>2. PICK n \in 0 .. 2 : i.paths \in [1 .. n -> Paths]  BY <1>1
<1>3. i.paths \in Seq(Paths)
  BY <1>2, SeqDef
<1>4. Len(i.paths) = n
  <2>1. DOMAIN i.paths = 1 .. n  BY <1>2
  <2> QED  BY <2>1, <1>2, <1>3, LenProperties
<1> QED  BY <1>2, <1>3, <1>4

\* The errors that are found in arguments, metadata and texts are among those listed.
LEMMA ErrorCodes ==
    ASSUME NEW f
    PROVE  /\ input_error \in DOMAIN class_of \cup {"none"}
           /\ metadata_error(f) \in DOMAIN class_of \cup {"none"}
           /\ parse_error \in DOMAIN class_of \cup {"none"}
<1>1. input_error \in DOMAIN class_of \cup {"none"}
  BY DEF input_error, class_of
<1>2. metadata_error(f) \in DOMAIN class_of \cup {"none"}
  BY DEF metadata_error, class_of
<1>3. verify_report(report_in(read_text)) \in DOMAIN class_of \cup {"none"}
  BY DEF verify_report, class_of
<1>4. parse_report_document(read_text) \in DOMAIN class_of \cup {"none"}
  <2>1. {"report_too_large", "invalid_report_json"} \subseteq DOMAIN class_of  BY DEF class_of
  <2> QED  BY <2>1, <1>3 DEF parse_report_document
<1>5. "invalid_spec" \in DOMAIN class_of  BY DEF class_of
<1>6. parse_error \in DOMAIN class_of \cup {"none"}
  BY <1>4, <1>5 DEF parse_error
<1> QED  BY <1>1, <1>2, <1>6

\* The pieces of a file that is read are pieces, and the two that were read are a text.
LEMMA ReadPieces ==
    ASSUME CommandInv
    PROVE  /\ pc \in {"read", "read_rest"} =>
                  files[path].text.head \in Piece /\ files[path].text.tail \in Piece
           /\ pc = "read_rest" => bytes[1] \in Piece
           /\ pc = "parse" => read_text \in Text
<1>1. ASSUME pc \in {"read", "read_rest"}
      PROVE  files[path].text.head \in Piece /\ files[path].text.tail \in Piece
  <2>1. Len(loaded) + 1 \in 1 .. Len(invocation.paths)
    BY <1>1, PathsOf DEF CommandInv, CommandTypeOK
  <2>2. path \in Paths
    BY <2>1, PathsOf, ElementOfSeq DEF CommandInv, CommandTypeOK, path
  <2>3. files[path] \in File  BY <2>2 DEF CommandInv, CommandTypeOK
  <2> QED  BY <2>3 DEF File, Text
<1>2. ASSUME pc = "parse" PROVE read_text \in Text
  <2>1. bytes \in Seq(Piece) /\ Len(bytes) = 2  BY <1>2 DEF CommandInv, CommandTypeOK
  <2>2. bytes[1] \in Piece /\ bytes[2] \in Piece  BY <2>1
  <2> QED  BY <2>2 DEF read_text, Text
<1>3. ASSUME pc = "read_rest" PROVE bytes[1] \in Piece
  <2>1. bytes \in Seq(Piece) /\ Len(bytes) = 1  BY <1>3 DEF CommandInv, CommandTypeOK
  <2> QED  BY <2>1
<1> QED  BY <1>1, <1>2, <1>3

\* The initial states are of their types.
LEMMA InitTyped == Init => CommandInv
<1> SUFFICES ASSUME Init PROVE CommandInv  OBVIOUS
<1>1. Len(invocation.paths) \in 0 .. 2  BY PathsOf DEF Init
<1>2. files \in [Paths -> File]  BY CommandAssumption DEF Init
<1>3. bytes \in Seq(Piece) /\ Len(bytes) = 0 /\ loaded \in Seq(Text) /\ Len(loaded) = 0
  BY DEF Init
<1> QED
  BY <1>1, <1>2, <1>3, CommandAssumption
  DEF Init, CommandInv, CommandTypeOK, Stages, NoOutput

\* A rewritten file is still a file.
LEMMA EditedFile ==
    ASSUME NEW f \in File, NEW piece \in Piece
    PROVE  /\ [f EXCEPT !.text.head = piece] \in File
           /\ [f EXCEPT !.text.tail = piece] \in File
<1>1. [f.text EXCEPT !.head = piece] \in Text /\ [f.text EXCEPT !.tail = piece] \in Text
  BY DEF File, Text
<1> QED  BY <1>1 DEF File

\* Every step keeps the types.
LEMMA StepTyped == CommandInv /\ [Next]_vars => CommandInv'
<1> SUFFICES ASSUME CommandInv, [Next]_vars PROVE CommandInv'  OBVIOUS
<1> USE DEF CommandInv, CommandTypeOK, world
<1>a. Len(invocation.paths) \in 0 .. 2 /\ Len(loaded) \in Nat  BY PathsOf
<1>1. CASE Display  BY <1>1 DEF Display, Stages
<1>2. CASE UsageError
  <2>1. requested_format \in {"human", "json", "ndjson"}
    BY CommandAssumption DEF requested_format, Invocation
  <2>2. "cli_usage" \in DOMAIN class_of  BY DEF class_of
  <2> QED  BY <1>2, <2>1, <2>2 DEF UsageError, Stages
<1>3. CASE RefuseInput  BY <1>3, ErrorCodes DEF RefuseInput, Fail, Stages
<1>4. CASE Begin  BY <1>4, <1>a DEF Begin, Proceed, Stages
<1>5. CASE MetadataRefused
  BY <1>5, ErrorCodes DEF MetadataRefused, Fail, Stages
<1>6. CASE MetadataAccepted
  <2>1. bytes' \in Seq(Piece) /\ Len(bytes') = 0  BY <1>6 DEF MetadataAccepted
  <2> QED  BY <1>6, <2>1 DEF MetadataAccepted, Stages
<1>7. CASE ReadFailed
  <2>1. {"spec_read_failed", "report_read_failed"} \subseteq DOMAIN class_of  BY DEF class_of
  <2> QED  BY <1>7, <2>1 DEF ReadFailed, Fail, Stages
<1>8. CASE ReadHead
  <2>1. bytes' \in Seq(Piece) /\ Len(bytes') = 1  BY <1>8, ReadPieces DEF ReadHead
  <2> QED  BY <1>8, <2>1 DEF ReadHead, Stages
<1>9. CASE ReadTail
  <2>1. bytes[1] \in Piece  BY <1>9, ReadPieces DEF ReadTail
  <2>2. bytes' \in Seq(Piece) /\ Len(bytes') = 2  BY <1>9, <2>1, ReadPieces DEF ReadTail
  <2> QED  BY <1>9, <2>2 DEF ReadTail, Stages
<1>10. CASE ParseRefused  BY <1>10, ErrorCodes DEF ParseRefused, Fail, Stages
<1>11. CASE ParseAccepted
  <2>1. loaded' \in Seq(Text) /\ Len(loaded') = Len(loaded) + 1
    BY <1>11, ReadPieces DEF ParseAccepted
  <2>2. Len(loaded') <= Len(invocation.paths)  BY <1>11, <2>1, <1>a DEF ParseAccepted
  <2> QED  BY <1>11, <2>1, <2>2, <1>a DEF ParseAccepted, Proceed, Stages
<1>12. CASE OverridesRefused
  <2>1. "invalid_budget" \in DOMAIN class_of  BY DEF class_of
  <2> QED  BY <1>12, <2>1 DEF OverridesRefused, Fail, Stages
<1>13. CASE OverridesApplied  BY <1>13 DEF OverridesApplied, Stages
<1>14. CASE EngineRejects
  <2>1. {"invalid_budget", "unsupported_scheme"} \subseteq DOMAIN class_of  BY DEF class_of
  <2> QED  BY <1>14, <2>1 DEF EngineRejects, Fail, Stages
<1>15. CASE Inspect  BY <1>15 DEF Inspect, Emit, Stages
<1>16. CASE Compare  BY <1>16 DEF Compare, Emit, Stages
<1>17. CASE Replay  BY <1>17 DEF Replay, Emit, Stages
<1>18. CASE Describe  BY <1>18 DEF Describe, Emit, Stages
<1>19. CASE WriteText
  <2>1. stdout' \in {"complete", "text"} /\ exit' \in {0, exit} /\ pc' \in {"exited", "newline"}
    BY <1>19 DEF WriteText
  <2> QED  BY <1>19, <2>1 DEF WriteText, Stages
<1>20. CASE WriteNewline  BY <1>20 DEF WriteNewline, Stages
<1>21. CASE WriteFailed
  <2>1. {"stdout_broken_pipe", "stdout_write_failed"} \subseteq DOMAIN class_of  BY DEF class_of
  <2> QED  BY <1>21, <2>1 DEF WriteFailed, Fail, Stages
<1>22. CASE Exit
  <2>1. error \in DOMAIN class_of  BY <1>22 DEF Exit
  <2>2. exit' \in -1 .. 5
    <3>1. CASE forgiven(error)  BY <1>22, <3>1 DEF Exit
    <3>2. CASE ~forgiven(error)  BY <1>22, <2>1, <3>2, ExitCodes DEF Exit
    <3> QED  BY <3>1, <3>2
  <2>3. stderr' \in {"empty", "human", "json", "ndjson"}
    BY <1>22, CommandAssumption DEF Exit, Invocation
  <2> QED  BY <1>22, <2>2, <2>3 DEF Exit, Stages
<1>23. ASSUME NEW p \in Paths, Edit(p) PROVE CommandInv'
  <2>1. files' \in [Paths -> File]
    <3>1. files[p] \in File  OBVIOUS
    <3>2. CASE \E piece \in Pieces : files' = [files EXCEPT ![p].text.head = piece]
      <4>1. PICK piece \in Piece : files' = [files EXCEPT ![p].text.head = piece]
        BY <3>2, CommandAssumption
      <4>2. [files[p] EXCEPT !.text.head = piece] \in File  BY <3>1, EditedFile
      <4> QED  BY <4>1, <4>2
    <3>3. CASE \E piece \in Pieces : files' = [files EXCEPT ![p].text.tail = piece]
      <4>1. PICK piece \in Piece : files' = [files EXCEPT ![p].text.tail = piece]
        BY <3>3, CommandAssumption
      <4>2. [files[p] EXCEPT !.text.tail = piece] \in File  BY <3>1, EditedFile
      <4> QED  BY <4>1, <4>2
    <3>4. CASE \E kind \in {"absent", "fifo"} : files' = [files EXCEPT ![p].kind = kind]
      <4>1. PICK kind \in {"absent", "fifo"} : files' = [files EXCEPT ![p].kind = kind]
        BY <3>4
      <4>2. [files[p] EXCEPT !.kind = kind] \in File  BY <3>1 DEF File
      <4> QED  BY <4>1, <4>2
    <3> QED  BY <1>23, <3>2, <3>3, <3>4 DEF Edit
  <2>2. edits' \in 0 .. MaxEdits  BY <1>23, CommandAssumption DEF Edit
  <2> QED  BY <1>23, <2>1, <2>2 DEF Edit
<1>24. CASE CloseReader  BY <1>24 DEF CloseReader
<1>25. CASE UNCHANGED vars  BY <1>25 DEF vars
<1>26. CASE ReadPipe
  <2>1. bytes' \in Seq(Piece) /\ Len(bytes') = 2  BY <1>26, CommandAssumption DEF ReadPipe
  <2> QED  BY <1>26, <2>1 DEF ReadPipe, Stages
<1>27. CASE Stall  BY <1>27 DEF Stall, Writes
<1>28. CASE Resume  BY <1>28 DEF Resume
<1> QED
  BY <1>1, <1>2, <1>3, <1>4, <1>5, <1>6, <1>7, <1>8, <1>9, <1>10, <1>11, <1>12, <1>13,
     <1>14, <1>15, <1>16, <1>17, <1>18, <1>19, <1>20, <1>21, <1>22, <1>23, <1>24, <1>25,
     <1>26, <1>27, <1>28
  DEF Next, Step, Exited

\* Every variable of a run of the command keeps its type.
THEOREM CommandTypeCorrect == Spec => []CommandTypeOK
<1>1. CommandInv => CommandTypeOK  BY DEF CommandInv
<1> QED  BY InitTyped, StepTyped, <1>1, PTL DEF Spec
-----------------------------------------------------------------------------
(* What compare and replay work with                                       *)

LoadedInv == CommandInv /\ LoadedWasSealed

\* Only an accepted text is added to those loaded, and an accepted report verifies.
LEMMA StepSealed == LoadedInv /\ [Next]_vars => LoadedWasSealed'
<1> SUFFICES ASSUME LoadedInv, [Next]_vars PROVE LoadedWasSealed'  OBVIOUS
<1>1. CASE ParseAccepted
  <2>1. what' = what  BY <1>1 DEF ParseAccepted, what
  <2>2. pc = "parse" /\ loaded' = Append(loaded, read_text) /\ parse_error = "none"
    BY <1>1 DEF ParseAccepted
  <2>3. read_text \in Text  BY <2>2, ReadPieces DEF LoadedInv
  <2>4. loaded \in Seq(Text)  BY DEF LoadedInv, CommandInv, CommandTypeOK
  <2>5. ASSUME what = "report", NEW i \in 1 .. Len(loaded')
        PROVE  report_in(loaded'[i]) \in Sealed /\ size_of(loaded'[i]) <= MaxReport
    <3>1. CASE i \in 1 .. Len(loaded)
      <4>1. loaded'[i] = loaded[i]  BY <2>2, <2>3, <2>4, <3>1
      <4> QED  BY <2>5, <3>1, <4>1 DEF LoadedInv, LoadedWasSealed
    <3>2. CASE i = Len(loaded) + 1
      <4>1. loaded'[i] = read_text  BY <2>2, <2>3, <2>4, <3>2
      <4>2. parse_report_document(read_text) = "none"  BY <2>2, <2>5 DEF parse_error
      <4> QED  BY <2>3, <4>1, <4>2, VerifiedIsSealed
    <3>3. Len(loaded') = Len(loaded) + 1  BY <2>2, <2>3, <2>4
    <3> QED  BY <2>4, <3>1, <3>2, <3>3
  <2> QED  BY <2>1, <2>5 DEF LoadedWasSealed
<1>2. CASE UNCHANGED <<invocation, loaded>>
  BY <1>2 DEF LoadedInv, LoadedWasSealed, what
<1>3. ParseAccepted \/ UNCHANGED <<invocation, loaded>>
  BY DEF Next, Step, Display, UsageError, RefuseInput, Begin, MetadataRefused,
         MetadataAccepted, ReadFailed, ReadHead, ReadTail, ParseRefused,
         OverridesRefused, OverridesApplied, EngineRejects, Inspect, Compare, Replay,
         Describe, WriteText, WriteNewline, WriteFailed, Exit, ReadPipe, Edit, CloseReader,
         Stall, Resume, Exited, world, vars
<1> QED  BY <1>1, <1>2, <1>3

\* However files are rewritten while they are read, compare and replay work only with
\* reports as an inspection sealed them, within the size limit.
THEOREM LoadedAreSealed == Spec => []LoadedWasSealed
<1>1. Init => LoadedInv
  <2>1. Init => LoadedWasSealed  BY DEF Init, LoadedWasSealed
  <2> QED  BY <2>1, InitTyped DEF LoadedInv
<1>2. LoadedInv /\ [Next]_vars => LoadedInv'  BY StepTyped, StepSealed DEF LoadedInv
<1>3. LoadedInv => LoadedWasSealed  BY DEF LoadedInv
<1> QED  BY <1>1, <1>2, <1>3, PTL DEF Spec
-----------------------------------------------------------------------------
(* What a comparison finds                                                 *)

\* A sequence of phases that is well formed, with what its elements are.
Climbed(s) == s \in Seq(PhaseRecord) /\ Ladder!WellFormed(s)

\* The phases of a well-formed report are named by their rungs, and no two rungs are
\* named alike.
LEMMA ClimbedPhases ==
    ASSUME NEW s, Climbed(s)
    PROVE  /\ Len(s) \in Nat /\ Len(s) <= 8
           /\ \A i \in 1 .. Len(s) : s[i].name = Ladder!Rungs[i]
           /\ \A i, j \in 1 .. 8 : Ladder!Rungs[i] = Ladder!Rungs[j] => i = j
<1>1. Len(s) \in Nat
  <2>1. s \in Seq(PhaseRecord)  BY DEF Climbed
  <2> QED  BY <2>1
<1>2. Len(s) <= 8 /\ \A i \in 1 .. Len(s) : s[i].name = Ladder!Rungs[i]
  BY DEF Climbed, Ladder!WellFormed
<1>3. \A i, j \in 1 .. 8 : Ladder!Rungs[i] = Ladder!Rungs[j] => i = j
  BY DEF Ladder!Rungs
<1> QED  BY <1>1, <1>2, <1>3

\* The map of a well-formed report's phases has, at each rung the report reached, the
\* status recorded there, and nothing at the others.
LEMMA StatusAtRung ==
    ASSUME NEW r, Climbed(r.phases), NEW i \in 1 .. 8
    PROVE  status_of(phase_statuses(r), Ladder!Rungs[i]) =
               IF i <= Len(r.phases) THEN {r.phases[i].status} ELSE {}
<1> DEFINE s == r.phases
           n == Ladder!Rungs[i]
           names == {s[k].name : k \in 1 .. Len(s)}
           at(k) == s[k].name = n /\ \A j \in k + 1 .. Len(s) : s[j].name # n
<1>1. DOMAIN phase_statuses(r) = names  BY DEF phase_statuses
<1>2. CASE i <= Len(s)
  <2>1. i \in 1 .. Len(s) /\ s[i].name = n  BY <1>2, ClimbedPhases
  <2>2. \A k \in 1 .. Len(s) : s[k].name = n => k = i
    <3> SUFFICES ASSUME NEW k \in 1 .. Len(s), s[k].name = n PROVE k = i  OBVIOUS
    <3>1. k \in 1 .. 8 /\ Ladder!Rungs[k] = Ladder!Rungs[i]  BY ClimbedPhases
    <3> QED  BY <3>1, ClimbedPhases
  <2>3. at(i)
    BY <2>1, <2>2, ClimbedPhases
  <2>4. \A k \in 1 .. Len(s) : at(k) => k = i  BY <2>2
  <2> HIDE DEF at
  <2>5. (CHOOSE k \in 1 .. Len(s) : at(k)) = i  BY <2>1, <2>3, <2>4
  <2> USE DEF at
  <2>6. n \in names  BY <2>1
  <2>7. phase_statuses(r)[n] = s[CHOOSE k \in 1 .. Len(s) : at(k)].status
    BY <2>6 DEF phase_statuses
  <2>8. phase_statuses(r)[n] = s[i].status  BY <2>5, <2>7
  <2> QED  BY <1>1, <1>2, <2>6, <2>8 DEF status_of
<1>3. CASE ~(i <= Len(s))
  <2>1. n \notin names
    <3> SUFFICES ASSUME NEW k \in 1 .. Len(s), s[k].name = n PROVE FALSE  OBVIOUS
    <3>1. k \in 1 .. 8 /\ Ladder!Rungs[k] = Ladder!Rungs[i]  BY ClimbedPhases
    <3>2. k = i  BY <3>1, ClimbedPhases
    <3> QED  BY <1>3, <3>2, ClimbedPhases
  <2> QED  BY <1>1, <1>3, <2>1 DEF status_of
<1> QED  BY <1>2, <1>3

\* Every phase of a well-formed report is in its map.
LEMMA RungInMap ==
    ASSUME NEW r, Climbed(r.phases), NEW i \in 1 .. Len(r.phases)
    PROVE  i \in 1 .. 8 /\ Ladder!Rungs[i] \in DOMAIN phase_statuses(r)
<1>1. r.phases[i].name = Ladder!Rungs[i] /\ i \in 1 .. 8  BY ClimbedPhases
<1>2. DOMAIN phase_statuses(r) = {r.phases[k].name : k \in 1 .. Len(r.phases)}
  BY DEF phase_statuses
<1> QED  BY <1>1, <1>2

\* The differences of two well-formed reports are where their maps differ.
LEMMA DifferenceAtRung ==
    ASSUME NEW l, NEW r, Climbed(l.phases), Climbed(r.phases),
           NEW i \in 1 .. Len(l.phases),
           ~(i <= Len(r.phases)) \/ l.phases[i].status # r.phases[i].status
    PROVE  /\ Ladder!Rungs[i] \in phase_differences(phase_statuses(l), phase_statuses(r))
           /\ Ladder!Rungs[i] \in phase_differences(phase_statuses(r), phase_statuses(l))
<1>1. i \in 1 .. 8 /\ Ladder!Rungs[i] \in DOMAIN phase_statuses(l)  BY RungInMap
<1>2. i <= Len(l.phases)  BY ClimbedPhases
<1>3. status_of(phase_statuses(l), Ladder!Rungs[i]) = {l.phases[i].status}
  BY <1>1, <1>2, StatusAtRung
<1>4. status_of(phase_statuses(r), Ladder!Rungs[i]) # {l.phases[i].status}
  BY <1>1, StatusAtRung
<1> QED  BY <1>1, <1>3, <1>4 DEF phase_differences

\* The courses of two well-formed reports are the same exactly when the statuses are.
LEMMA CoursesAgree ==
    ASSUME NEW l, NEW r, Climbed(l.phases), Climbed(r.phases)
    PROVE  course(l) = course(r) <=>
               /\ Len(l.phases) = Len(r.phases)
               /\ \A i \in 1 .. Len(l.phases) : l.phases[i].status = r.phases[i].status
<1>1. Len(l.phases) \in Nat /\ Len(r.phases) \in Nat
  BY ClimbedPhases
<1>2. ASSUME course(l) = course(r)
      PROVE  /\ Len(l.phases) = Len(r.phases)
             /\ \A i \in 1 .. Len(l.phases) : l.phases[i].status = r.phases[i].status
  <2>1. DOMAIN course(l) = 1 .. Len(l.phases) /\ DOMAIN course(r) = 1 .. Len(r.phases)
    BY DEF course
  <2>2. Len(l.phases) = Len(r.phases)
    <3>1. 1 .. Len(l.phases) = 1 .. Len(r.phases)  BY <1>2, <2>1
    <3>2. \A m, n \in Nat : 1 .. m = 1 .. n => m = n
      <4> SUFFICES ASSUME NEW m \in Nat, NEW n \in Nat, 1 .. m = 1 .. n PROVE m = n
        OBVIOUS
      <4>1. m > 0 => m \in 1 .. n  OBVIOUS
      <4>2. n > 0 => n \in 1 .. m  OBVIOUS
      <4> QED  BY <4>1, <4>2
    <3> QED  BY <1>1, <3>1, <3>2
  <2>3. ASSUME NEW i \in 1 .. Len(l.phases) PROVE l.phases[i].status = r.phases[i].status
    <3>1. i \in 1 .. Len(r.phases)  BY <2>2
    <3>2. /\ course(l)[i] = <<l.phases[i].name, l.phases[i].status>>
          /\ course(r)[i] = <<r.phases[i].name, r.phases[i].status>>
      BY <3>1 DEF course
    <3> QED  BY <1>2, <3>2
  <2> QED  BY <2>2, <2>3
<1>3. ASSUME Len(l.phases) = Len(r.phases),
             \A i \in 1 .. Len(l.phases) : l.phases[i].status = r.phases[i].status
      PROVE  course(l) = course(r)
  <2>1. \A i \in 1 .. Len(l.phases) : l.phases[i].name = r.phases[i].name
    BY <1>3, ClimbedPhases
  <2> QED  BY <1>3, <2>1 DEF course
<1> QED  BY <1>2, <1>3

\* A comparison lists no phase exactly when the courses are the same.
LEMMA NoneDiffer ==
    ASSUME NEW l, NEW r, Climbed(l.phases), Climbed(r.phases)
    PROVE  phase_differences(phase_statuses(l), phase_statuses(r)) = {}
               <=> course(l) = course(r)
<1>0. Len(l.phases) \in Nat /\ Len(r.phases) \in Nat  BY ClimbedPhases
<1>1. ASSUME phase_differences(phase_statuses(l), phase_statuses(r)) = {}
      PROVE  course(l) = course(r)
  <2>1. \A i \in 1 .. Len(l.phases) :
            i <= Len(r.phases) /\ l.phases[i].status = r.phases[i].status
    BY <1>1, DifferenceAtRung
  <2>2. \A i \in 1 .. Len(r.phases) : i <= Len(l.phases)
    BY <1>1, DifferenceAtRung
  <2>3. Len(l.phases) = Len(r.phases)  BY <1>0, <2>1, <2>2
  <2> QED  BY <2>1, <2>3, CoursesAgree
<1>2. ASSUME course(l) = course(r)
      PROVE  phase_differences(phase_statuses(l), phase_statuses(r)) = {}
  <2>1. /\ Len(l.phases) = Len(r.phases)
        /\ \A i \in 1 .. Len(l.phases) : l.phases[i].status = r.phases[i].status
    BY <1>2, CoursesAgree
  <2>2. ASSUME NEW i \in 1 .. 8
        PROVE  status_of(phase_statuses(l), Ladder!Rungs[i])
                   = status_of(phase_statuses(r), Ladder!Rungs[i])
    <3>1. status_of(phase_statuses(l), Ladder!Rungs[i]) =
              IF i <= Len(l.phases) THEN {l.phases[i].status} ELSE {}
      BY StatusAtRung
    <3>2. status_of(phase_statuses(r), Ladder!Rungs[i]) =
              IF i <= Len(r.phases) THEN {r.phases[i].status} ELSE {}
      BY StatusAtRung
    <3>3. i <= Len(l.phases) => i \in 1 .. Len(l.phases)  BY <1>0
    <3> QED  BY <2>1, <3>1, <3>2, <3>3
  <2>3. \A n \in DOMAIN phase_statuses(l) \cup DOMAIN phase_statuses(r) :
            \E i \in 1 .. 8 : n = Ladder!Rungs[i]
    <3>1. /\ DOMAIN phase_statuses(l) = {l.phases[k].name : k \in 1 .. Len(l.phases)}
          /\ DOMAIN phase_statuses(r) = {r.phases[k].name : k \in 1 .. Len(r.phases)}
      BY DEF phase_statuses
    <3>2. /\ \A k \in 1 .. Len(l.phases) : k \in 1 .. 8 /\ l.phases[k].name = Ladder!Rungs[k]
          /\ \A k \in 1 .. Len(r.phases) : k \in 1 .. 8 /\ r.phases[k].name = Ladder!Rungs[k]
      BY ClimbedPhases
    <3> QED  BY <3>1, <3>2
  <2> QED  BY <2>2, <2>3 DEF phase_differences
<1> QED  BY <1>1, <1>2

\* At most one phase of a well-formed report failed.
LEMMA OneFailure ==
    ASSUME NEW s, Climbed(s), NEW i \in Ladder!Failures(s), NEW j \in Ladder!Failures(s)
    PROVE  i = j
<1>1. /\ i \in 1 .. Len(s) /\ s[i].status = "failed"
      /\ j \in 1 .. Len(s) /\ s[j].status = "failed"
  BY DEF Ladder!Failures
<1>2. Len(s) = 8 => s[8].status = "skipped"
  BY ClimbedPhases DEF Climbed, Ladder!WellFormed, Ladder!Statuses
<1>3. \A k \in Ladder!Failures(s) : k = Len(s) \/ (k = 7 /\ Len(s) = 8)
  BY DEF Climbed, Ladder!WellFormed
<1> QED  BY <1>1, <1>2, <1>3

\* The verdict of a report in which a phase failed is that phase.
LEMMA VerdictIsFailure ==
    ASSUME NEW s, Climbed(s), NEW i \in Ladder!Failures(s)
    PROVE  Ladder!VerdictOf(s) = Ladder!Rungs[i]
<1>1. (CHOOSE k \in Ladder!Failures(s) : TRUE) \in Ladder!Failures(s)  OBVIOUS
<1>2. (CHOOSE k \in Ladder!Failures(s) : TRUE) = i  BY <1>1, OneFailure
<1>3. Ladder!Failures(s) # {}  OBVIOUS
<1> QED  BY <1>2, <1>3 DEF Ladder!VerdictOf

\* A failed phase of one report is a difference when the verdict of the other is another.
LEMMA FailureDiffers ==
    ASSUME NEW l, NEW r, Climbed(l.phases), Climbed(r.phases),
           NEW i \in Ladder!Failures(l.phases),
           Ladder!VerdictOf(l.phases) # Ladder!VerdictOf(r.phases)
    PROVE  /\ Ladder!VerdictOf(l.phases)
                  \in phase_differences(phase_statuses(l), phase_statuses(r))
           /\ Ladder!VerdictOf(l.phases)
                  \in phase_differences(phase_statuses(r), phase_statuses(l))
<1>1. i \in 1 .. Len(l.phases) /\ l.phases[i].status = "failed"  BY DEF Ladder!Failures
<1>2. Ladder!VerdictOf(l.phases) = Ladder!Rungs[i]  BY VerdictIsFailure
<1>3. ~(i <= Len(r.phases)) \/ r.phases[i].status # "failed"
  <2>1. SUFFICES ASSUME i <= Len(r.phases), r.phases[i].status = "failed"
                 PROVE  FALSE
    OBVIOUS
  <2>2. i \in Ladder!Failures(r.phases)
    BY <1>1, <2>1, ClimbedPhases DEF Ladder!Failures
  <2>3. Ladder!VerdictOf(r.phases) = Ladder!Rungs[i]  BY <2>2, VerdictIsFailure
  <2> QED  BY <1>2, <2>3
<1> QED  BY <1>1, <1>2, <1>3, DifferenceAtRung

\* Where the verdicts of two well-formed reports differ, one of them is a difference.
LEMMA VerdictsDiffer ==
    ASSUME NEW l, NEW r, Climbed(l.phases), Climbed(r.phases),
           Ladder!VerdictOf(l.phases) # Ladder!VerdictOf(r.phases)
    PROVE  \E n \in phase_differences(phase_statuses(l), phase_statuses(r)) :
               n \in {Ladder!VerdictOf(l.phases), Ladder!VerdictOf(r.phases)}
<1>1. CASE Ladder!Failures(l.phases) # {}
  <2>1. PICK i \in Ladder!Failures(l.phases) : TRUE  BY <1>1
  <2> QED  BY <2>1, FailureDiffers
<1>2. CASE Ladder!Failures(r.phases) # {}
  <2>1. PICK i \in Ladder!Failures(r.phases) : TRUE  BY <1>2
  <2>2. Ladder!VerdictOf(r.phases) # Ladder!VerdictOf(l.phases)  OBVIOUS
  <2> QED  BY <2>1, <2>2, FailureDiffers
<1>3. CASE Ladder!Failures(l.phases) = {} /\ Ladder!Failures(r.phases) = {}
  BY <1>3 DEF Ladder!VerdictOf
<1> QED  BY <1>1, <1>2, <1>3

\* The verdicts of reports of the same course are the same.
LEMMA SameCourseSameVerdict ==
    ASSUME NEW l, NEW r, Climbed(l.phases), Climbed(r.phases), course(l) = course(r)
    PROVE  Ladder!VerdictOf(l.phases) = Ladder!VerdictOf(r.phases)
<1>1. /\ Len(l.phases) = Len(r.phases)
      /\ \A i \in 1 .. Len(l.phases) : l.phases[i].status = r.phases[i].status
  BY CoursesAgree
<1>2. Ladder!Failures(l.phases) = Ladder!Failures(r.phases)
  BY <1>1 DEF Ladder!Failures
<1> QED  BY <1>2 DEF Ladder!VerdictOf

\* What ComparisonExact says of a comparison, for two sealed reports.
LEMMA CompareExact ==
    ASSUME NEW l \in Sealed, NEW r \in Sealed
    PROVE  /\ compare(l, r).no_difference <=>
                  /\ l.target = r.target /\ course(l) = course(r)
                  /\ http_statuses(l) = http_statuses(r)
           /\ ~compare(l, r).same_failed_phase =>
                  \E n \in compare(l, r).phase_differences : n \in {l.failed_at, r.failed_at}
<1>1. \A s \in Sealed : Climbed(s.phases) /\ s.failed_at = Ladder!VerdictOf(s.phases)
  BY SealAssumption DEF Climbed
<1> DEFINE d == phase_differences(phase_statuses(l), phase_statuses(r))
<1>2. /\ compare(l, r).same_failed_phase = (l.failed_at = r.failed_at)
      /\ compare(l, r).phase_differences = d
      /\ compare(l, r).no_difference =
             /\ l.target = r.target
             /\ l.failed_at = r.failed_at
             /\ d = {}
             /\ http_statuses(l) = http_statuses(r)
  BY DEF compare
<1>3. d = {} <=> course(l) = course(r)  BY <1>1, NoneDiffer
<1>4. course(l) = course(r) => l.failed_at = r.failed_at
  BY <1>1, SameCourseSameVerdict
<1>5. l.failed_at # r.failed_at => \E n \in d : n \in {l.failed_at, r.failed_at}
  BY <1>1, VerdictsDiffer
<1> QED  BY <1>2, <1>3, <1>4, <1>5

\* Nothing is printed before the command ran, and it runs on all its files; a printed
\* comparison is of the two reports that were loaded.
ComparedInv ==
    /\ LoadedInv
    /\ pc \in {"overrides", "execute"} => Len(loaded) = Len(invocation.paths)
    /\ pc \in {"start", "metadata", "read", "read_rest", "parse", "overrides", "execute"} =>
           output.document = "none"
    /\ output.document = "compare" =>
           /\ invocation.command = "compare" /\ Len(loaded) = 2
           /\ output.result = compare(report_in(loaded[1]), report_in(loaded[2]))

\* Every step keeps it.
LEMMA StepCompared == ComparedInv /\ [Next]_vars => ComparedInv'
<1> SUFFICES ASSUME ComparedInv, [Next]_vars PROVE ComparedInv'  OBVIOUS
<1>a. LoadedInv'  BY StepTyped, StepSealed DEF ComparedInv, LoadedInv
<1>b. Len(invocation.paths) \in 0 .. 2 /\ Len(loaded) \in Nat
  BY PathsOf DEF ComparedInv, LoadedInv, CommandInv, CommandTypeOK
<1>c. invocation \in Invocations
  BY DEF ComparedInv, LoadedInv, CommandInv, CommandTypeOK
<1>1. CASE Begin
  <2>1. Len(loaded) = 0 /\ output.document = "none"
    BY <1>1 DEF Begin, ComparedInv, LoadedInv, CommandInv
  <2>2. UNCHANGED <<invocation, loaded, output>> /\ pc' = Proceed(0)  BY <1>1 DEF Begin
  <2> QED  BY <1>a, <1>b, <2>1, <2>2 DEF ComparedInv, Proceed
<1>2. CASE ParseAccepted
  <2>1. output.document = "none" /\ Len(loaded) < Len(invocation.paths)
    BY <1>2 DEF ParseAccepted, ComparedInv, LoadedInv, CommandInv
  <2>2. UNCHANGED <<invocation, output>> /\ pc' = Proceed(Len(loaded) + 1)
    BY <1>2 DEF ParseAccepted
  <2>3. Len(loaded') = Len(loaded) + 1
    <3>1. loaded \in Seq(Text) /\ read_text \in Text
      BY <1>2, ReadPieces DEF ParseAccepted, ComparedInv, LoadedInv, CommandInv, CommandTypeOK
    <3> QED  BY <1>2, <3>1 DEF ParseAccepted
  <2> QED  BY <1>a, <1>b, <2>1, <2>2, <2>3 DEF ComparedInv, Proceed
<1>3. CASE Inspect  BY <1>3, <1>a DEF Inspect, Emit, ComparedInv
<1>4. CASE Compare
  <2>1. invocation.command = "compare" /\ Len(loaded) = 2
    BY <1>4, <1>c, CommandAssumption DEF Compare, ComparedInv
  <2>2. output'.result = compare(report_in(loaded[1]), report_in(loaded[2])) /\ pc' = "print"
    BY <1>4 DEF Compare, Emit
  <2>3. UNCHANGED <<invocation, loaded>>  BY <1>4 DEF Compare
  <2> QED  BY <1>a, <2>1, <2>2, <2>3 DEF ComparedInv
<1>5. CASE Replay  BY <1>5, <1>a DEF Replay, Emit, ComparedInv
<1>6. CASE Describe
  <2>1. output'.document \in {"plan", "static"} /\ pc' = "print"
    BY <1>6 DEF Describe, Emit
  <2> QED  BY <1>a, <2>1 DEF ComparedInv
<1>7. CASE OverridesApplied
  BY <1>7, <1>a DEF OverridesApplied, ComparedInv
<1>8. CASE /\ UNCHANGED <<invocation, loaded, output>>
           /\ \/ pc' = pc
              \/ pc' \in {"print", "newline", "failed", "exited"}
              \/ pc \in {"metadata", "read", "read_rest"} /\ pc' \in {"read", "read_rest", "parse"}
  BY <1>8, <1>a DEF ComparedInv
<1>9. \/ Begin \/ ParseAccepted \/ Inspect \/ Compare \/ Replay \/ Describe
      \/ OverridesApplied
      \/ /\ UNCHANGED <<invocation, loaded, output>>
         /\ \/ pc' = pc
            \/ pc' \in {"print", "newline", "failed", "exited"}
            \/ pc \in {"metadata", "read", "read_rest"} /\ pc' \in {"read", "read_rest", "parse"}
  BY DEF Next, Step, Display, UsageError, RefuseInput, MetadataRefused,
         MetadataAccepted, ReadFailed, ReadHead, ReadTail, ParseRefused,
         OverridesRefused, EngineRejects, WriteText, WriteNewline, WriteFailed, Exit, Edit,
         ReadPipe, CloseReader, Stall, Resume, Exited, Fail, world, vars
<1> QED  BY <1>1, <1>2, <1>3, <1>4, <1>5, <1>6, <1>7, <1>8, <1>9

\* Whatever the reports are, and however the files change meanwhile, a comparison finds no
\* difference exactly between reports that agree on what is documented to be compared, and
\* one whose failed phases differ lists a failed phase whose status differs.
THEOREM ComparisonsAreExact == Spec => []ComparisonExact
<1>1. Init => ComparedInv
  <2>1. Init => LoadedWasSealed  BY DEF Init, LoadedWasSealed
  <2>2. Init => pc = "start" /\ output.document = "none"  BY DEF Init, NoOutput
  <2> QED  BY <2>1, <2>2, InitTyped DEF LoadedInv, ComparedInv
<1>2. ComparedInv => ComparisonExact
  <2> SUFFICES ASSUME ComparedInv, output.document = "compare" PROVE ComparisonExact
    BY DEF ComparisonExact
  <2>1. what = "report"  BY DEF ComparedInv, what
  <2>2. report_in(loaded[1]) \in Sealed /\ report_in(loaded[2]) \in Sealed
    BY <2>1 DEF ComparedInv, LoadedInv, LoadedWasSealed
  <2>3. output.result = compare(report_in(loaded[1]), report_in(loaded[2]))
    BY DEF ComparedInv
  <2> QED  BY <2>2, <2>3, CompareExact DEF ComparisonExact
<1> QED  BY <1>1, <1>2, StepCompared, PTL DEF Spec
-----------------------------------------------------------------------------
(* The exit code                                                           *)

\* A command that has not ended has not written everything, and a broken pipe means that
\* the reader went away.
ExitInv ==
    /\ CommandInv
    /\ pc # "exited" => stdout # "complete"
    /\ error = "stdout_broken_pipe" => reader = "closed"
    /\ ExitAgrees

\* No check of arguments, metadata or texts reports a broken pipe.
LEMMA NotThePipe ==
    ASSUME NEW f
    PROVE  /\ input_error # "stdout_broken_pipe"
           /\ metadata_error(f) # "stdout_broken_pipe"
           /\ parse_error # "stdout_broken_pipe"
<1>1. input_error # "stdout_broken_pipe"  BY DEF input_error
<1>2. metadata_error(f) # "stdout_broken_pipe"  BY DEF metadata_error
<1>3. verify_report(report_in(read_text)) # "stdout_broken_pipe"  BY DEF verify_report
<1>4. parse_report_document(read_text) # "stdout_broken_pipe"
  BY <1>3 DEF parse_report_document
<1>5. parse_error # "stdout_broken_pipe"  BY <1>4 DEF parse_error
<1> QED  BY <1>1, <1>2, <1>5

\* Every step keeps what the exit code says.
LEMMA StepExit == ExitInv /\ [Next]_vars => ExitInv'
<1> SUFFICES ASSUME ExitInv, [Next]_vars PROVE ExitInv'  OBVIOUS
<1>a. CommandInv'  BY StepTyped DEF ExitInv
<1> USE DEF ExitInv, ExitAgrees, world
<1>1. CASE Display  BY <1>1, <1>a DEF Display
<1>2. CASE UsageError
  <2>1. requested_format # "empty"
    BY CommandAssumption DEF requested_format, Invocation, CommandInv, CommandTypeOK
  <2>2. exit_code[class_of["cli_usage"]] = 2  BY DEF exit_code, class_of
  <2>3. error' = "cli_usage" /\ exit' = 2 /\ pc' = "exited" /\ stdout' # "complete"
        /\ stderr' = requested_format /\ reader' = reader
    BY <1>2 DEF UsageError
  <2> QED  BY <1>a, <2>1, <2>2, <2>3
<1>3. CASE RefuseInput  BY <1>3, <1>a, NotThePipe DEF RefuseInput, Fail
<1>4. CASE Begin  BY <1>4, <1>a DEF Begin, Proceed
<1>5. CASE MetadataRefused  BY <1>5, <1>a, NotThePipe DEF MetadataRefused, Fail
<1>6. CASE MetadataAccepted  BY <1>6, <1>a DEF MetadataAccepted
<1>7. CASE ReadFailed  BY <1>7, <1>a DEF ReadFailed, Fail
<1>8. CASE ReadHead  BY <1>8, <1>a DEF ReadHead
<1>9. CASE ReadTail  BY <1>9, <1>a DEF ReadTail
<1>10. CASE ParseRefused  BY <1>10, <1>a, NotThePipe DEF ParseRefused, Fail
<1>11. CASE ParseAccepted  BY <1>11, <1>a DEF ParseAccepted, Proceed
<1>12. CASE OverridesRefused  BY <1>12, <1>a DEF OverridesRefused, Fail
<1>13. CASE OverridesApplied  BY <1>13, <1>a DEF OverridesApplied
<1>14. CASE EngineRejects  BY <1>14, <1>a DEF EngineRejects, Fail
<1>15. CASE Inspect  BY <1>15, <1>a DEF Inspect, Emit
<1>16. CASE Compare  BY <1>16, <1>a DEF Compare, Emit
<1>17. CASE Replay  BY <1>17, <1>a DEF Replay, Emit
<1>18. CASE Describe  BY <1>18, <1>a DEF Describe, Emit
<1>19. CASE WriteText  BY <1>19, <1>a DEF WriteText
<1>20. CASE WriteNewline  BY <1>20, <1>a DEF WriteNewline
<1>21. CASE WriteFailed  BY <1>21, <1>a DEF WriteFailed, Fail
<1>22. CASE Exit
  <2>1. error \in DOMAIN class_of  BY <1>22 DEF Exit, CommandInv, CommandTypeOK
  <2>2. pc = "failed" /\ pc' = "exited" /\ error' = error /\ stdout' = stdout
        /\ reader' = reader
    BY <1>22 DEF Exit
  <2>3. CASE forgiven(error)
    <3>1. exit' = 0 /\ reader = "closed"  BY <1>22, <2>3 DEF Exit, forgiven
    <3> QED  BY <1>a, <2>2, <3>1
  <2>4. CASE ~forgiven(error)
    <3>1. exit' = exit_code[class_of[error]] /\ stderr' = invocation.format
      BY <1>22, <2>4 DEF Exit
    <3>2. exit' # 0  BY <2>1, <3>1, ExitCodes
    <3>3. stderr' # "empty"
      BY <3>1, CommandAssumption DEF Invocation, CommandInv, CommandTypeOK
    <3> QED  BY <1>a, <2>2, <3>1, <3>2, <3>3
  <2> QED  BY <2>3, <2>4
<1>23. ASSUME NEW p \in Paths, Edit(p) PROVE ExitInv'  BY <1>23, <1>a DEF Edit
<1>24. CASE CloseReader  BY <1>24, <1>a DEF CloseReader
<1>25. CASE UNCHANGED vars  BY <1>25, <1>a DEF vars
<1>26. CASE ReadPipe  BY <1>26, <1>a DEF ReadPipe
<1>27. CASE Stall  BY <1>27, <1>a DEF Stall
<1>28. CASE Resume  BY <1>28, <1>a DEF Resume
<1> QED
  BY <1>1, <1>2, <1>3, <1>4, <1>5, <1>6, <1>7, <1>8, <1>9, <1>10, <1>11, <1>12, <1>13,
     <1>14, <1>15, <1>16, <1>17, <1>18, <1>19, <1>20, <1>21, <1>22, <1>23, <1>24, <1>25,
     <1>26, <1>27, <1>28
  DEF Next, Step, Exited

\* The exit code of the command agrees with what became of its output.
THEOREM ExitCodeAgrees == Spec => []ExitAgrees
<1>1. Init => ExitInv
  <2>1. Init => pc = "start" /\ stdout = "empty" /\ error = "none"  BY DEF Init
  <2> QED  BY <2>1, InitTyped DEF ExitInv, ExitAgrees
<1>2. ExitInv => ExitAgrees  BY DEF ExitInv
<1> QED  BY <1>1, <1>2, StepExit, PTL DEF Spec
=============================================================================
