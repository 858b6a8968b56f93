------------------------------- MODULE Contests ----------------------------
(***************************************************************************)
(* The three sweeps of contenders, and what their rows promise.  A process *)
(* runs one of them.                                                       *)
(***************************************************************************)
EXTENDS WriterSweep, PvecSweep, Engines

Init == InitW \/ InitP \/ InitE

\* wait_for_quiet(), before every repetition of the writer and pvec sweeps.
Gate == sweep # "engines" /\ \E r \in Readings : Sleep(r) \/ Start(r)

Next == NextW \/ NextP \/ NextE \/ Gate

\* A sleep returns and the clock goes on, so the gate's loop is scheduled; for
\* a child nobody sets a deadline, so nothing is assumed of it.
Spec == Init /\ [][Next]_cvars /\ WF_cvars(Gate)

-----------------------------------------------------------------------------
\* Every declared repetition is accounted for: an ok row of a time has them all,
\* one of a figure that a child may lack has them all or is of low confidence;
\* a skipped row has none, and any other says that some are missing.
RowsAccountForRepetitions ==
  \A row \in rows : sweep # "engines" =>
    CASE row.outcome = "ok" ->
           \/ Len(row.samples) = Reps
           \/ /\ row.metric \notin {"wall", "throughput"}
              /\ Len(row.samples) < Reps /\ row.confidence = "low"
      [] row.outcome = "skipped" -> row.samples = <<>>
      [] OTHER -> Len(row.samples) < Reps

\* Two engines wrote the same grid and counted the same tiles, every repetition
\* of both.
SamePyramid(r, s) ==
  \A i \in DOMAIN r.samples, j \in DOMAIN s.samples :
    /\ r.samples[i].left.walked /\ s.samples[j].left.walked
    /\ r.samples[i].left = s.samples[j].left

\* An attested row is of the contender it names, and what that left behind was
\* complete and, where it was compared, right.
AttestedIsMeasured ==
  \A row \in {r \in rows : r.attested = TRUE} :
    CASE sweep = "writer" ->
           \A i \in DOMAIN row.samples :
             /\ row.samples[i].by = SubjectW(row.backend)
             /\ row.samples[i].left.lost = 0 /\ row.samples[i].left.wrong # "sampled"
      [] sweep = "pvec" ->
           \A i \in DOMAIN row.samples :
             /\ row.samples[i].by = row.backend /\ row.samples[i].left.lost = 0
             /\ row.backend \notin Tools => row.samples[i].left.wrong # "sampled"
      [] sweep = "engines" ->
           \E other \in rows :
             other.backend # row.backend /\ other.metric = "wall"
               /\ \A own \in rows : own.backend = row.backend /\ own.metric = "wall"
                                      => SamePyramid(own, other)

\* A row of high confidence was measured on a machine that no reading, before
\* or after any of its repetitions, found contended; and there was a reading.
HighMeansQuiet ==
  \A row \in rows : row.confidence = "high" =>
    LET saw == UNION {accs[row.from].reps[i].saw : i \in DOMAIN accs[row.from].reps}
    IN  saw \subseteq {0, 1, Null} /\ saw # {Null}

\* On a quiet host, with children that are in order, nothing is refused: every
\* row is whole and only its samples' values can cast doubt on it, or it is of a
\* tool that is not installed.
HealthyIsWhole ==
  faults = 0 =>
    \A row \in rows :
      \/ row.outcome = "ok" /\ row.attested = TRUE /\ row.reasons \subseteq {"cov", "timer"}
      \/ row.outcome = "skipped" /\ row.from \notin DOMAIN accs

\* The gate never holds a repetition back for ever.
GateEnds == (stage = "gate" /\ sweep # "engines") ~> (stage # "gate")
=============================================================================
