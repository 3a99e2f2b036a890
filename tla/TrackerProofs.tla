--------------------------- MODULE TrackerProofs ----------------------------
(***************************************************************************)
(* The budget tracker keeps its ledger within the budget, whatever its     *)
(* callers do with its methods and however the clock advances.             *)
(***************************************************************************)
EXTENDS Tracker, TLAPS

\* An ActiveProbe is told apart from NoProbe by its kind.
LEMMA ActiveIsProbe ==
    ASSUME active \in ActiveProbe \cup {NoProbe}, active # NoProbe
    PROVE  active \in ActiveProbe
OBVIOUS

\* Every record of the ledger has the type of one.
LEMMA RecordFields ==
    ASSUME probes \in Seq(ProbeRecord), NEW i \in 1 .. Len(probes)
    PROVE  /\ probes[i].started_ms \in Nat /\ probes[i].duration_ms \in Nat
           /\ probes[i].sequence \in Nat /\ probes[i].kind \in ProbeKind
           /\ probes[i].outcome \in Outcome
<1>1. probes[i] \in ProbeRecord
  OBVIOUS
<1>2. QED
  BY <1>1 DEF ProbeRecord

\* A finished probe fits the type of the ledger.
LEMMA RecordType ==
    ASSUME probes \in Seq(ProbeRecord), active \in ActiveProbe,
           NEW duration \in Nat, NEW outcome \in Outcome
    PROVE  /\ record(duration, outcome) \in Seq(ProbeRecord)
           /\ Len(record(duration, outcome)) = Len(probes) + 1
           /\ \A i \in 1 .. Len(probes) : record(duration, outcome)[i] = probes[i]
           /\ record(duration, outcome)[Len(probes) + 1] =
                  [sequence |-> active.sequence, kind |-> active.kind,
                   started_ms |-> active.started_ms, duration_ms |-> duration,
                   outcome |-> outcome]
<1> DEFINE r == [sequence |-> active.sequence, kind |-> active.kind,
                 started_ms |-> active.started_ms, duration_ms |-> duration,
                 outcome |-> outcome]
<1>1. r \in ProbeRecord
  BY DEF ActiveProbe, ProbeRecord
<1>2. record(duration, outcome) = Append(probes, r)
  BY DEF record
<1> HIDE DEF r
<1>3. QED
  BY <1>1, <1>2 DEF r

\* finish_probe preserves the invariant: the probe in progress becomes the last record.
LEMMA FinishKeepsInv ==
    ASSUME TrackerInv, active # NoProbe,
           NEW started \in active.started_ms .. now, NEW outcome \in Outcome,
           finish_probe(started, outcome),
           UNCHANGED <<now, deadline, max_probes, response_bytes_read>>
    PROVE  TrackerInv'
<1>1. active \in ActiveProbe
  BY ActiveIsProbe DEF TrackerInv
<1>2. active.started_ms \in Nat /\ now \in Nat /\ active.sequence \in Nat
  BY <1>1 DEF TrackerInv, ActiveProbe
<1>3. now - started \in Nat /\ started >= active.started_ms
  BY <1>2
<1>4. probes \in Seq(ProbeRecord) /\ probes' = record(now - started, outcome) /\ active' = NoProbe
  BY DEF TrackerInv, finish_probe
<1> DEFINE r == [sequence |-> active.sequence, kind |-> active.kind,
                 started_ms |-> active.started_ms, duration_ms |-> now - started,
                 outcome |-> outcome]
<1>5. /\ probes' \in Seq(ProbeRecord) /\ Len(probes') = Len(probes) + 1
      /\ \A i \in 1 .. Len(probes) : probes'[i] = probes[i]
      /\ probes'[Len(probes) + 1] = r
  BY <1>1, <1>3, <1>4, RecordType
<1>6. Len(probes) \in Nat /\ \A i \in 1 .. Len(probes) :
          probes[i].started_ms \in Nat /\ probes[i].duration_ms \in Nat
  BY <1>4, RecordFields
<1>7. /\ r.sequence = Len(probes) + 1 /\ r.started_ms = active.started_ms
      /\ r.duration_ms = now - started
      /\ Len(probes) < max_probes
      /\ Len(probes) > 0 => /\ Ended(probes[Len(probes)]) <= active.started_ms
                            /\ Ended(probes[Len(probes)]) < deadline
  BY DEF TrackerInv
<1> HIDE DEF r
<1>8. LedgerInBudget'
  <2>1. Len(probes') <= max_probes'
    BY <1>5, <1>6, <1>7 DEF TrackerInv
  <2>2. \A i \in 1 .. Len(probes') : probes'[i].sequence = i
    <3>1. \A i \in 1 .. Len(probes) : probes[i].sequence = i
      BY DEF TrackerInv, LedgerInBudget
    <3>2. r.sequence = Len(probes) + 1
      BY <1>7
    <3>3. QED
      BY <1>5, <1>6, <3>1, <3>2
  <2>3. \A i \in 2 .. Len(probes') :
            /\ Ended(probes'[i - 1]) <= probes'[i].started_ms
            /\ Ended(probes'[i - 1]) < deadline'
    <3> SUFFICES ASSUME NEW i \in 2 .. Len(probes')
                 PROVE  /\ Ended(probes'[i - 1]) <= probes'[i].started_ms
                        /\ Ended(probes'[i - 1]) < deadline
      OBVIOUS
    <3>1. CASE i \in 2 .. Len(probes)
      <4>1. probes'[i] = probes[i] /\ probes'[i - 1] = probes[i - 1]
        BY <1>5, <1>6, <3>1
      <4>2. QED
        BY <3>1, <4>1 DEF TrackerInv, LedgerInBudget
    <3>2. CASE i = Len(probes) + 1
      <4>1. probes'[i] = r /\ probes'[i - 1] = probes[Len(probes)] /\ Len(probes) > 0
        BY <1>5, <1>6, <3>2
      <4>2. QED
        BY <1>7, <4>1
    <3>3. QED
      BY <1>5, <1>6, <3>1, <3>2
  <2>4. QED
    BY <2>1, <2>2, <2>3 DEF LedgerInBudget, Ended
<1>9. Ended(r) <= now
  BY <1>2, <1>3, <1>7 DEF Ended
<1>10. QED
  BY <1>4, <1>5, <1>6, <1>8, <1>9 DEF TrackerInv, Ended
  
\* Every step of a caller of the tracker preserves the invariant.
LEMMA TrackerStep == TrackerInv /\ [TrackerNext]_trackerVars => TrackerInv'
<1> SUFFICES ASSUME TrackerInv, [TrackerNext]_trackerVars PROVE TrackerInv'
  OBVIOUS
<1>0. active # NoProbe => active \in ActiveProbe
  BY ActiveIsProbe DEF TrackerInv
<1>1. ASSUME NEW kind \in ProbeKind, active = NoProbe, start_probe(kind),
             UNCHANGED <<now, deadline, max_probes, probes, response_bytes_read>>
      PROVE  TrackerInv'
  <2>1. active' = [sequence |-> Len(probes) + 1, kind |-> kind, started_ms |-> now]
    BY <1>1 DEF start_probe
  <2>2. now < deadline /\ Len(probes) < max_probes /\ Len(probes) \in Nat
    BY <1>1 DEF start_probe, CanStart, HasTime, remaining, TrackerInv
  <2>3. active' \in ActiveProbe
    BY <1>1, <2>1, <2>2 DEF ActiveProbe, TrackerInv
  <2>4. Len(probes) > 0 => Ended(probes[Len(probes)]) \in Nat
    BY RecordFields DEF TrackerInv, Ended
  <2>5. Len(probes) > 0 => Ended(probes[Len(probes)]) <= now /\ Ended(probes[Len(probes)]) < deadline
    BY <2>2, <2>4 DEF TrackerInv
  <2>6. QED
    BY <1>1, <2>1, <2>2, <2>3, <2>5 DEF TrackerInv, LedgerInBudget, Ended
<1>2. ASSUME active # NoProbe, drop_probe,
             UNCHANGED <<now, deadline, max_probes, response_bytes_read>>
      PROVE  TrackerInv'
  BY <1>2 DEF TrackerInv, LedgerInBudget, drop_probe
<1>3. ASSUME response_bytes_read' \in Nat,
             UNCHANGED <<now, deadline, max_probes, probes, active>>
      PROVE  TrackerInv'
  BY <1>3 DEF TrackerInv, LedgerInBudget
<1>4. ASSUME now' = now + 1,
             UNCHANGED <<deadline, max_probes, probes, active, response_bytes_read>>
      PROVE  TrackerInv'
  <2>1. Len(probes) > 0 => Ended(probes[Len(probes)]) \in Nat
    BY RecordFields DEF TrackerInv, Ended
  <2>2. active # NoProbe => active.started_ms \in Nat
    BY <1>0 DEF ActiveProbe
  <2>3. now \in Nat /\ now' \in Nat
    BY <1>4 DEF TrackerInv
  <2>4. LedgerInBudget'
    BY <1>4 DEF TrackerInv, LedgerInBudget
  <2>5. Len(probes') > 0 => Ended(probes'[Len(probes')]) <= now'
    BY <1>4, <2>1, <2>3 DEF TrackerInv
  <2>6. QED
    BY <1>4, <2>2, <2>3, <2>4, <2>5 DEF TrackerInv
<1>7. ASSUME active # NoProbe, stamp_probe,
             UNCHANGED <<now, deadline, max_probes, probes, response_bytes_read>>
      PROVE  TrackerInv'
  <2>1. active \in ActiveProbe /\ now \in Nat
    BY <1>0, <1>7 DEF TrackerInv
  <2>2. active' \in ActiveProbe /\ active'.started_ms = now /\ active'.sequence = active.sequence
    BY <1>7, <2>1 DEF stamp_probe, ActiveProbe
  <2>3. QED
    BY <1>7, <2>1, <2>2 DEF TrackerInv, LedgerInBudget, Ended
<1>5. CASE UNCHANGED trackerVars
  BY <1>5 DEF TrackerInv, LedgerInBudget, trackerVars
<1>6. QED
  BY <1>1, <1>2, <1>3, <1>4, <1>5, <1>7, FinishKeepsInv DEF TrackerNext

\* The tracker's promise, for every budget and every sequence of calls: at most
\* max_probes probes, numbered without gaps, each begun after the end of the one before it,
\* and all but the last over before the deadline (Tracker::start_probe,
\* Tracker::finish_probe).
THEOREM TrackerKeepsBudget == TrackerSpec => []LedgerInBudget
<1>1. TrackerInit => TrackerInv
  BY DEF TrackerInit, TrackerInv, LedgerInBudget
<1>2. TrackerInv => LedgerInBudget
  BY DEF TrackerInv
<1>3. QED
  BY <1>1, <1>2, TrackerStep, PTL DEF TrackerSpec
=============================================================================
