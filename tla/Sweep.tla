------------------------------- MODULE Sweep -------------------------------
(***************************************************************************)
(* run_sweep() of src/storage/mod.rs: for every cell, write one artefact   *)
(* per backend and attest them; for every scenario of the walk and every   *)
(* backend, run the scenario in child processes, fold what the children    *)
(* report into one wire run and turn that into rows of the document.       *)
(*                                                                         *)
(* A child that dies, does not spawn or prints something unparseable says  *)
(* nothing (NoWire).  A sample is represented by the metric the child      *)
(* measured, so that a sample filed under another metric's label is        *)
(* visible, and a repetition's invariants by one element of Fact.  Rows    *)
(* are the current cell's: the document only gathers them.                 *)
(*                                                                         *)
(* An artefact is what reading it back shows: whether it opens, how many   *)
(* entries its root directory has and how many of them point at a leaf,    *)
(* and the bytes of the seeded sample of its tiles ("error" when one of    *)
(* them cannot be read).  Nobody looks at the tiles outside the sample.    *)
(***************************************************************************)
EXTENDS Naturals, Sequences, FiniteSets, SequencesExt

CONSTANTS
  Cells,      \* the profile's cells: how many tiles each one's plan holds
  Outputs,    \* cell -> what writing its pyramids may leave: backend -> artefact
  ReadSamples,            \* how many lookups a pass of the profile performs
  RootOnlyMaxEntries,     \* ROOT_ONLY_MAX_ENTRIES: from here on the writer spills
  MinEquivalenceSample,   \* MIN_EQUIVALENCE_SAMPLE
  Scenarios,  \* the walk: a sequence of scenarios, see Scenario
  Metric,     \* names of series
  Fact,       \* values of a repetition's invariants
  Null        \* an invariant, a verdict or an artefact that is None

Backends == <<"pmtiles", "directory">>

Backend == {"pmtiles", "directory"}

\* What reading a pyramid back shows.
Artefact ==
  [opens: BOOLEAN, entries: Nat, leaves: Nat, sample: {"same", "other", "error"}]

\* A scenario: whether each repetition owns a process, whether it reads the
\* artefact, how often it repeats, the metric it is named for, and the sequences of
\* metrics a repetition may publish.
Scenario ==
  [perRep: BOOLEAN, needsArtefact: BOOLEAN, reps: Nat \ {0}, primary: Metric,
   offers: SUBSET Seq(Metric)]

ASSUME SweepAssumption ==
  /\ Cells \in Seq(Nat)
  /\ Outputs \in [DOMAIN Cells -> SUBSET [Backend -> Artefact \cup {Null}]]
  /\ ReadSamples \in Nat /\ RootOnlyMaxEntries \in Nat
  /\ MinEquivalenceSample \in Nat \ {0}
  /\ Scenarios \in Seq(Scenario) /\ Scenarios # <<>>
  /\ \A i \in DOMAIN Scenarios : \A offer \in Scenarios[i].offers : IsInjective(offer) /\ offer # <<>>
  /\ Null \notin Fact \cup BOOLEAN /\ Null \notin {"root", "leaf"}

VARIABLES
  cell,       \* the cell being swept; one past the last when the sweep is over
  scen,       \* index into Scenarios, 0 before the cell's artefacts exist
  turn,       \* position in the order the backends take for this scenario
  rep,        \* repetitions already spawned for this scenario and backend
  merged,     \* the wire run folded so far, or NoWire
  artefact,   \* backend -> this cell's artefact, Null if unwritten
  verdict,    \* backend -> the attestation of this cell, Null if no artefact
  rows,       \* the rows of this cell
  said        \* scenario, backend -> what its children reported (history)

vars == <<cell, scen, turn, rep, merged, artefact, verdict, rows, said>>

Key == (DOMAIN Scenarios) \X Backend

-----------------------------------------------------------------------------
(* What a child prints. *)

NoWire == [outcome |-> "none", reason |-> {}, series |-> <<>>, facts |-> <<>>]

SkipWire(outcome) ==
  [outcome |-> outcome, reason |-> {"skip"}, series |-> <<>>, facts |-> <<>>]

\* A run of n repetitions that published `offer` and saw `facts`.
RunWire(n, offer, facts) ==
  [outcome |-> "ok", reason |-> {},
   series |-> [i \in DOMAIN offer |->
                [metric |-> offer[i],
                 samples |-> [k \in 1..n |-> offer[i]]]],
   facts |-> facts]

\* Every answer to a spawn of n repetitions of a scenario.
Replies(scenario, n) ==
  {NoWire}
    \cup {SkipWire(o) : o \in {"skipped", "failed"}}
    \cup {RunWire(n, offer, facts) : offer \in scenario.offers, facts \in [1..n -> Fact]}

-----------------------------------------------------------------------------
(* Folding children and building rows. *)

MetricsOf(series) == {series[i].metric : i \in DOMAIN series}

\* The samples of the first series of that name.
SamplesOf(series, metric) ==
  LET found == {i \in DOMAIN series : series[i].metric = metric}
  IN  IF found = {} THEN <<>> ELSE series[CHOOSE i \in found : \A j \in found : i <= j].samples

\* The series of `one` under names `acc` does not have; in which order they follow
\* makes no difference to the rows.
Unseen(acc, one) ==
  LET new == {i \in DOMAIN one : one[i].metric \notin MetricsOf(acc)}
  IN  [n \in 1..Cardinality(new) |-> one[SetToSeq(new)[n]]]

\* Mutant of FoldSeries: series are paired by position.
FoldSeries_ByPosition(acc, one) ==
  [i \in DOMAIN acc |-> [acc[i] EXCEPT !.samples =
     IF i \in DOMAIN one THEN @ \o one[i].samples ELSE @]]

\* Series by metric name: a metric seen before is extended, one not seen
\* before is carried through.
FoldSeries(acc, one) ==
  [i \in DOMAIN acc |-> [acc[i] EXCEPT !.samples =
     @ \o SamplesOf(one, acc[i].metric)]]
    \o Unseen(acc, one)

\* Mutant of Merge: the last child decides the outcome.
Merge_LastWins(acc, one) ==
  IF acc = NoWire THEN one
  ELSE [one EXCEPT !.series = FoldSeries(acc.series, one.series),
                   !.facts = acc.facts \o @]

\* Fold one more child in; a series that was not there before is noted, and a
\* child that is not ok overrides outcome and reason.
Merge(acc, one) ==
  IF acc = NoWire THEN one
  ELSE [acc EXCEPT
    !.series = FoldSeries(@, one.series),
    !.facts = @ \o one.facts,
    !.outcome = IF one.outcome # "ok" THEN one.outcome ELSE @,
    !.reason = IF one.outcome # "ok" THEN one.reason
               ELSE IF Unseen(acc.series, one.series) = <<>> THEN @ ELSE @ \cup {"unmatched"}]

\* agreed(): every repetition saw the same invariants.
Agreed(facts) == \A i, j \in DOMAIN facts : facts[i] = facts[j]

AgreedFact(facts) ==
  IF facts # <<>> /\ Agreed(facts) THEN facts[1] ELSE Null

\* Mutant of OutcomeOf: a disagreement between repetitions is not an outcome.
OutcomeOf_Averages(wire) == IF wire.outcome = "ok" THEN "ok" ELSE "failed"

\* The outcome of the rows a wire run earns.
OutcomeOf(wire) ==
  IF wire.outcome # "ok" THEN "failed"
  ELSE IF Agreed(wire.facts) THEN "ok" ELSE "refused"

ReasonOf(wire) ==
  IF wire.reason # {} THEN wire.reason
  ELSE IF Agreed(wire.facts) THEN {} ELSE {"disagree"}

\* from_report()'s verdict on the sample count (machine load and dispersion,
\* its other grounds for "low", are left out).
Confidence(scenario, samples) ==
  IF Len(samples) < scenario.reps THEN "low" ELSE "high"

Row(at, scenario, wire, metric, samples) ==
  [at |-> at, metric |-> metric, samples |-> samples,
   outcome |-> OutcomeOf(wire), reason |-> ReasonOf(wire),
   reps |-> scenario.reps, minReps |-> scenario.reps,
   confidence |-> Confidence(scenario, samples),
   invariant |-> AgreedFact(wire.facts), attested |-> verdict[at[2]]]

\* rows_from_wire(): one row per series, or one empty row of the primary
\* metric; each carries the attestation of its backend's artefact.
RowsOf(at, scenario, wire) ==
  IF wire.series = <<>> THEN {Row(at, scenario, wire, scenario.primary, <<>>)}
  ELSE {Row(at, scenario, wire, wire.series[i].metric, wire.series[i].samples) :
          i \in DOMAIN wire.series}

-----------------------------------------------------------------------------
(* Attestation: what the artefacts are seen to be, never what the cell says. *)

\* The writer's own rule, applied to the cell's plan.
Predicted(c) == IF Cells[c] < RootOnlyMaxEntries THEN "root" ELSE "leaf"

\* The root directory that is held against the prediction: the archive's as
\* archive_shape() counts it, an empty one if it does not open; a directory
\* tree has none and is given the one predicted.
Observed(c, b, written) ==
  IF b = "directory"
  THEN [entries |-> 1, leaves |-> IF Predicted(c) = "leaf" THEN 1 ELSE 0]
  ELSE IF written[b].opens
       THEN [entries |-> written[b].entries, leaves |-> written[b].leaves]
       ELSE [entries |-> 0, leaves |-> 0]

\* observed_regime(): an archive nobody managed to read is in none.
RegimeOf(root) ==
  IF root.entries = 0 THEN Null ELSE IF root.leaves > 0 THEN "leaf" ELSE "root"

Readers(written) == {b \in Backend : written[b] # Null /\ written[b].opens}

\* How many coordinates byte_equivalence() compares: the first of the shuffled
\* walk, or none when there are not two readers.
Sampled(c, written) ==
  IF Readers(written) # Backend THEN 0
  ELSE Min({MinEquivalenceSample, ReadSamples, Cells[c]})

\* Every coordinate compared was read from each of them and had the same bytes.
AllMatched(written) ==
  \A b, c \in Readers(written) :
    written[b].sample = written[c].sample /\ written[b].sample # "error"

\* attest(): no reason to refuse is left.
IsAttested(c, b, written) ==
  LET root == Observed(c, b, written)
  IN  /\ RegimeOf(root) = Predicted(c)
      /\ (RegimeOf(root) = "leaf") = (root.leaves > 0)
      /\ Sampled(c, written) >= MinEquivalenceSample
      /\ AllMatched(written)

\* attest_artefacts(): a verdict for each artefact that was written.
Attest(c, written) ==
  [b \in Backend |-> IF written[b] = Null THEN Null ELSE IsAttested(c, b, written)]

-----------------------------------------------------------------------------
(* The sweep. *)

\* The lead alternates from scenario to scenario.
Order(s) == IF s % 2 = 1 THEN Backends ELSE Reverse(Backends)

Here == <<scen, Order(scen)[turn]>>

Init ==
  /\ cell = 1 /\ scen = 0 /\ turn = 1 /\ rep = 0
  /\ merged = NoWire
  /\ artefact = [b \in Backend |-> Null]
  /\ verdict = [b \in Backend |-> Null]
  /\ rows = {}
  /\ said = [k \in Key |-> <<>>]

\* On to the next backend, scenario or cell.
Advance ==
  /\ rep' = 0 /\ merged' = NoWire
  /\ turn' = (turn % Len(Backends)) + 1
  /\ LET scenDone == turn = Len(Backends)
         cellDone == scenDone /\ scen = Len(Scenarios)
     IN  /\ cell' = IF cellDone THEN cell + 1 ELSE cell
         /\ scen' = IF cellDone THEN 0 ELSE IF scenDone THEN scen + 1 ELSE scen
  /\ UNCHANGED <<artefact, verdict>>

\* Mutant of Artefacts: a verdict, once true, is kept for the next cell.
Artefacts_StaleVerdict ==
  /\ cell \in DOMAIN Cells /\ scen = 0
  /\ \E written \in Outputs[cell] :
       /\ artefact' = written
       /\ verdict' = [b \in Backend |-> IF verdict[b] = TRUE THEN TRUE
                                        ELSE Attest(cell, written)[b]]
  /\ scen' = 1
  /\ rows' = {} /\ said' = [k \in Key |-> <<>>]
  /\ UNCHANGED <<cell, turn, rep, merged>>

\* A cell begins: one artefact per backend, any of which may fail to be
\* written, and their attestation.
Artefacts ==
  /\ cell \in DOMAIN Cells /\ scen = 0
  /\ \E written \in Outputs[cell] :
       /\ artefact' = written
       /\ verdict' = Attest(cell, written)
  /\ scen' = 1
  /\ rows' = {} /\ said' = [k \in Key |-> <<>>]
  /\ UNCHANGED <<cell, turn, rep, merged>>

Walking == cell \in DOMAIN Cells /\ scen > 0

Missing == Scenarios[scen].needsArtefact /\ artefact[Here[2]] = Null

\* `continue`: the scenario needs an artefact this backend does not have.
SkipMissing ==
  /\ Walking
  /\ Missing
  /\ Advance
  /\ UNCHANGED <<rows, said>>

Hear(reply) == said' = [said EXCEPT ![Here] = Append(@, reply)]

\* Rows for a wire run; nothing but a line on stderr for none.
Emit(wire) ==
  rows' = IF wire = NoWire THEN rows
          ELSE rows \cup RowsOf(Here, Scenarios[scen], wire)

\* ProcessPerScenario: one child runs every repetition.
RunScenario ==
  /\ Walking
  /\ ~Missing /\ ~Scenarios[scen].perRep
  /\ \E reply \in Replies(Scenarios[scen], Scenarios[scen].reps) : Hear(reply) /\ Emit(reply)
  /\ Advance

\* ProcessPerRep: one more child of one repetition; one that says nothing is
\* left out of the fold.
RunRep ==
  /\ Walking
  /\ ~Missing /\ Scenarios[scen].perRep
  /\ rep < Scenarios[scen].reps
  /\ \E reply \in Replies(Scenarios[scen], 1) :
       /\ Hear(reply)
       /\ merged' = IF reply = NoWire THEN merged ELSE Merge(merged, reply)
  /\ rep' = rep + 1
  /\ UNCHANGED <<cell, scen, turn, artefact, verdict, rows>>

\* The last repetition is in: the fold becomes rows.
EmitReps ==
  /\ Walking
  /\ ~Missing /\ Scenarios[scen].perRep
  /\ rep = Scenarios[scen].reps
  /\ Emit(merged)
  /\ Advance
  /\ UNCHANGED said

Next == Artefacts \/ SkipMissing \/ RunScenario \/ RunRep \/ EmitReps

Spec == Init /\ [][Next]_vars
-----------------------------------------------------------------------------
\* The children of a key that said something.
Heard(k) == {i \in DOMAIN said[k] : said[k][i] # NoWire}

\* Whatever order the repetitions' series come in and whichever of them are
\* missing, no sample of one metric ends up in another metric's row.
SamplesKeepTheirMetric ==
  \A r \in rows : \A k \in DOMAIN r.samples : r.samples[k] = r.metric

\* Every sample a repetition reported is in its row, once: a row of a metric
\* has one sample for each repetition that published the metric.
NoSampleLost ==
  \A r \in rows : r.outcome = "ok" =>
    Len(r.samples) =
      IF Scenarios[r.at[1]].perRep
      THEN Cardinality({i \in Heard(r.at) : r.metric \in MetricsOf(said[r.at][i].series)})
      ELSE r.reps

\* A row has the samples its children reported for its metric, and no others.
RowsAreWhole == SamplesKeepTheirMetric /\ NoSampleLost

\* Two repetitions of one commit that disagree about an invariant are never
\* published as an ok row, and an invariant on a row is one they all saw.
DisagreementIsRefused ==
  \A r \in rows :
    \A i \in Heard(r.at) : \A k \in DOMAIN said[r.at][i].facts :
      /\ r.outcome = "ok" => said[r.at][i].facts[k] = r.invariant
      /\ r.invariant # Null => said[r.at][i].facts[k] = r.invariant

\* One repetition that failed, whichever, makes every row of its scenario and
\* backend a failed one.
FailureIsNeverHidden ==
  \A r \in rows :
    (\E i \in Heard(r.at) : said[r.at][i].outcome # "ok") => r.outcome = "failed"

\* A row of a scenario some repetition of which said nothing is published at
\* low confidence.
SilenceLowersConfidence ==
  \A r \in rows :
    (Scenarios[r.at[1]].perRep /\ Heard(r.at) # DOMAIN said[r.at]) => r.confidence = "low"

\* A child that failed or said nothing shows in every row it should have been in.
FailuresShow == FailureIsNeverHidden /\ SilenceLowersConfidence

\* What an attested row of backend b stands beside in cell c: two artefacts that
\* were both read back, over no fewer coordinates than the floor and to the same
\* bytes; and, for the archive, a root that spilled where the writer's rule says.
Observation(c, b, written) ==
  /\ \A x \in Backend :
       /\ written[x] # Null
       /\ written[x].opens
       /\ written[x].sample # "error" /\ written[x].sample = written[b].sample
  /\ Sampled(c, written) >= MinEquivalenceSample
  /\ b = "pmtiles" => written[b].entries > 0
                      /\ (written[b].leaves > 0 <=> Cells[c] >= RootOnlyMaxEntries)

\* A row is attested only by what was seen of the artefacts of its own cell,
\* never by its label and never by an earlier cell's.
AttestationIsOfTheCell ==
  [][\A r \in rows' \ rows :
       r.attested = TRUE => Observation(cell, r.at[2], artefact)]_vars
=============================================================================
