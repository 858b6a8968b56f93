------------------------------ MODULE Scenario -----------------------------
(***************************************************************************)
(* One scenario of the storage family in its own child process             *)
(* (src/storage/scenarios/): what it walks, how often, and what it answers.*)
(* Reading, Opening and Writing extend this module with the scenarios      *)
(* themselves.                                                             *)
(*                                                                         *)
(* A sample is a record of what was done while the clock ran, so that a    *)
(* property can say what a number is a number of.                          *)
(***************************************************************************)
EXTENDS Integers, Sequences, FiniteSets, SequencesExt, FiniteSetsExt

CONSTANTS
  Null,
  Plan,        \* the tiles of the cell in plan order: level, then row, then column
  TileId,      \* tile -> its id on the Hilbert curve of its level
  LeafOf,      \* tile -> the leaf directory that addresses it, Null for the root
  ReadSamples, \* how many tiles the profile reads
  Reps,        \* repetitions of a profile
  Ncpus,       \* the core counts of hosts
  P99Min,      \* P99_MIN_SAMPLES: the fewest latencies with a p99
  MaxFaults    \* bound: things that go wrong

ASSUME ScenarioAssumption ==
  /\ Plan \in Seq(ToSet(Plan)) \ {<<>>} /\ IsInjective(Plan)
  /\ TileId \in [ToSet(Plan) -> Nat] /\ IsInjective(TileId)
  /\ ToSet(Plan) \subseteq DOMAIN LeafOf
  /\ {ReadSamples, Reps, P99Min} \subseteq Nat \ {0}
  /\ Ncpus \subseteq Nat \ {0} /\ MaxFaults \in Nat

VARIABLES
  job,       \* [scenario, backend, threads, ncpu, leaf]
  coords,    \* the tiles in the three orders
  stage,     \* what the child does next
  left,      \* passes or repetitions still to be made
  kept,      \* the samples so far
  discarded, \* the samples of the warm-up
  run,       \* what the child answers, or Null: its outcome and its series
  faults     \* what went wrong so far (bound)
svars == <<job, coords, stage, left, kept, discarded, run, faults>>

-----------------------------------------------------------------------------
\* The registry and the declarations of the scenarios.
Writes == {"generate", "generate_ingest", "generate_finalize"}
Walks == {"read_plan_order", "read_tileid_order", "read_random", "read_concurrent"}
Registry == Writes \cup Walks \cup {"open", "first_lookup", "decode_root", "requests"}

\* Two more that the tests of the study drive without a sweep.
Studies == {"split_pass", "first_lookup_children"}

ProcessPerRep == Writes \cup {"open", "first_lookup"}

Warmup(scenario) == IF scenario \in Walks \cup {"decode_root"} THEN 1 ELSE 0

\* A process of its own for each repetition makes one; the walk of requests is
\* counted, not timed, and made once.
RepsHere(scenario) == IF scenario \in ProcessPerRep \cup {"requests"} THEN 1 ELSE Reps

-----------------------------------------------------------------------------
\* plan_order::coordinates() and tileid_order::coordinates(): the tiles the
\* profile reads are cut off the plan, and then put into the other order.
PlanOrder == SubSeq(Plan, 1, Min({ReadSamples, Len(Plan)}))

\* The tiles along the curve, from id to greater id.
AlongTheCurve(tiles) ==
  {s \in SetToSeqs(tiles) : \A i, j \in DOMAIN s : i < j => TileId[s[i]] < TileId[s[j]]}

\* Mutant of TileIdOrder: the plan is put in order and then cut.
TileIdOrder_CutLast == {SubSeq(s, 1, Len(PlanOrder)) : s \in AlongTheCurve(ToSet(Plan))}

\* There is one such order, since no two tiles have one id.
TileIdOrder == AlongTheCurve(ToSet(PlanOrder))

\* coordinate_sets(): the random order is a seeded shuffle of the plan order.
CoordinateSets ==
  {[plan |-> PlanOrder, tileid |-> t, random |-> r] :
     t \in TileIdOrder, r \in SetToSeqs(ToSet(PlanOrder))}

\* What a scenario walks; the concurrent one walks the random order.
Walk ==
  CASE job.scenario = "read_plan_order" -> coords.plan
    [] job.scenario = "read_tileid_order" -> coords.tileid
    [] OTHER -> coords.random

\* The tile the root directory addresses for certain: the first of the plan.
RootAddressed == Head(coords.plan)

-----------------------------------------------------------------------------
Fault == faults < MaxFaults /\ faults' = faults + 1

NoSeries == [m \in {} |-> <<>>]

\* ScenarioRun, or Skip: a child that declines or fails has no series.
Answer(outcome, series) ==
  stage' = "done" /\ run' = [outcome |-> outcome, series |-> series]

Failed == Answer("failed", NoSeries) /\ UNCHANGED <<left, kept, discarded>>
Skipped == Answer("skipped", NoSeries) /\ UNCHANGED <<left, kept, discarded, faults>>

\* A sample knows the pass it is of.
Numbered(sample, n) ==
  [field \in DOMAIN sample \cup {"nth"} |-> IF field = "nth" THEN n ELSE sample[field]]

Keep(sample) == kept' = Append(kept, Numbered(sample, Len(discarded) + Len(kept) + 1))

Start(scenarios) == stage = "start" /\ job.scenario \in scenarios

InitScenario ==
  /\ coords \in CoordinateSets
  /\ stage = "start" /\ left = Warmup(job.scenario) + RepsHere(job.scenario)
  /\ kept = <<>> /\ discarded = <<>> /\ run = Null /\ faults = 0
=============================================================================
