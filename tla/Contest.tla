------------------------------ MODULE Contest ------------------------------
(***************************************************************************)
(* What the sweeps that put contenders beside one another have in common:  *)
(* src/storage/writer_sweep.rs, src/storage/pvec_sweep.rs and              *)
(* src/engines/mod.rs.  Per cell a schedule of repetitions is walked; each *)
(* repetition waits for a quiet machine, runs in a child process, and is   *)
(* filed under its contender as a result or as a failure; at the end of    *)
(* the cell every contender's account is turned into rows.                 *)
(*                                                                         *)
(* The nested loops over repetitions and contenders run to the end of a    *)
(* cell without a branch that depends on a result, so they are a sequence  *)
(* of jobs.  A job is [who, acc]: a contender and the account its result   *)
(* goes to.  A sample is what was measured, not its value: the contender   *)
(* the child really ran, the field it reported and what it left on disk.   *)
(***************************************************************************)
EXTENDS Integers, Sequences, FiniteSets, SequencesExt, FiniteSetsExt, Sifting

CONSTANTS
  Reps,       \* repetitions of the profile
  Budget,     \* polls of the quiet gate before it gives up
  Readings,   \* [cpu, io]: what the host may say of its load.  cpu 0 is calm for the
              \* gate, 1 is not but still quiet for a row, 2 is contended; io 0 is calm
  MaxFaults,  \* bound: deviations of a sweep from a quiet host and healthy children
  Doubts,     \* per sweep, what the values of a cell's samples may turn out to be: sets
              \* of <<contender, scenario, metric, reason>> with reason "cov" or "timer"
  Null        \* None

ASSUME ContestAssumption ==
  /\ Reps \in Nat \ {0} /\ Budget \in Nat
  /\ MaxFaults \in [{"writer", "pvec", "engines"} -> Nat]
  /\ \A s \in {"writer", "pvec", "engines"} : Doubts[s] # {}
  /\ Null \notin Nat
  /\ \A r \in Readings : r.cpu \in {0, 1, 2, Null} /\ r.io \in Nat \cup {Null}

VARIABLES
  sweep,   \* which sweep runs: "writer", "pvec" or "engines"
  tools,   \* the external tools that were located when the sweep began
  cell,    \* index of the cell being swept
  stage,   \* "prepare", "gate", "child", "rows" or "done"
  inputs,  \* tool -> its input for this cell exists
  jobs,    \* the repetitions of this cell that are still to run
  accs,    \* account -> [reps, failures], in the order they were filed
  waited,  \* polls the quiet gate has slept for this repetition
  under,   \* the load this repetition started under
  rows,    \* the rows of this cell
  faults   \* deviations so far (bound)

cvars == <<sweep, tools, cell, stage, inputs, jobs, accs, waited, under, rows, faults>>

Empty == [reps |-> <<>>, failures |-> <<>>]

Spend(n) == faults + n <= MaxFaults[sweep] /\ faults' = faults + n

-----------------------------------------------------------------------------
(* Loads. *)

\* A machine whose load is unknown is never calm; one without pressure
\* information is not gated on it.
Calm(r) == r.cpu # Null /\ r.cpu < 1 /\ (r.io # Null => r.io < 1)

\* Mutant of Worse: the reading the repetition started under.
Worse_Started(a, b) == a

Worse(a, b) == IF b # Null /\ (a = Null \/ b > a) THEN b ELSE a

WorstLoad(loads) ==
  LET known == loads \ {Null} IN IF known = {} THEN Null ELSE Max(known)

-----------------------------------------------------------------------------
(* The schedule: the starting contender rotates with the repetition. *)

Rotated(who, rep) == [k \in DOMAIN who |-> who[((k - 1 + rep) % Len(who)) + 1]]

\* jobsOf: contender -> the jobs of one of its turns.
Walk(who, jobsOf) ==
  FlattenSeq([rep \in 1..Reps |->
    LET order == Rotated(who, rep - 1)
    IN  FlattenSeq([k \in DOMAIN order |-> jobsOf[order[k]]])])

Begin(schedule) ==
  /\ jobs' = schedule
  /\ accs' = [a \in {schedule[i].acc : i \in DOMAIN schedule} |-> Empty]
  /\ stage' = IF schedule = <<>> THEN "rows" ELSE "gate"

-----------------------------------------------------------------------------
(* The quiet gate. *)

\* Mutant of GaveUp: the gate waits for as long as the machine is busy.
GaveUp_Never(r) == FALSE

GaveUp(r) == ~Calm(r) /\ waited >= Budget

Sleep(r) ==
  /\ stage = "gate" /\ ~Calm(r) /\ ~GaveUp(r)
  /\ waited' = IF waited <= Budget THEN waited + 1 ELSE Budget  \* past it, not told apart
  /\ UNCHANGED <<sweep, tools, cell, stage, inputs, jobs, accs, under, rows, faults>>

Start(r) ==
  /\ stage = "gate" /\ (Calm(r) \/ GaveUp(r))
  /\ Spend(IF Calm(r) THEN 0 ELSE 1)
  /\ stage' = "child" /\ under' = r.cpu /\ waited' = 0
  /\ UNCHANGED <<sweep, tools, cell, inputs, jobs, accs, rows>>

-----------------------------------------------------------------------------
(* What a child answers. *)

\* The figures of an answer: those every child has, and of the groups of those
\* it may be unable to take any.  There is no peak RSS off Linux, no heap without
\* the counting allocator, and no size if the artefact cannot be listed.
Figures(always, optional) == {always \cup UNION got : got \in SUBSET optional}

\* A child that is in order.
InOrder(reply) ==
  reply.verdict = "ok" /\ reply.whole /\ reply.out.fact = "same"
    /\ reply.archive.lost = 0 /\ reply.archive.wrong = "no"

-----------------------------------------------------------------------------
(* A child's answer is filed.  out is what it measured; verdict is "ok",   *)
(* "ran" (the child failed) or "attest" (its artefact did not read back).  *)

\* Mutant of Filed: a repetition that failed is taken for one not run.
Filed_OnlyResults(acc, verdict, out, after) ==
  IF verdict = "ok"
  THEN [acc EXCEPT !.reps = Append(@,
          [out |-> out, load |-> Worse(under, after), saw |-> {under, after}])]
  ELSE acc

Filed(acc, verdict, out, after) ==
  IF verdict = "ok"
  THEN [acc EXCEPT !.reps = Append(@,
          [out |-> out, load |-> Worse(under, after), saw |-> {under, after}])]
  ELSE [acc EXCEPT !.failures = Append(@, verdict)]

Report(verdict, out, after) ==
  /\ stage = "child"
  /\ accs' = [accs EXCEPT ![Head(jobs).acc] = Filed(@, verdict, out, after)]
  /\ jobs' = Tail(jobs)
  /\ stage' = IF Tail(jobs) = <<>> THEN "rows" ELSE "gate"
  /\ UNCHANGED <<sweep, tools, cell, inputs, waited, under, rows>>

-----------------------------------------------------------------------------
(* Rows. *)

\* The value every repetition agreed on, or None.
Agreed(values) ==
  IF values # <<>> /\ \A i \in DOMAIN values : values[i] = values[1]
  THEN values[1] ELSE Null

\* A repetition whose artefact did not read back is refused, which is not the
\* same as a child that crashed.
OutcomeOf(acc, skipped) ==
  CASE skipped -> "skipped"
    [] ~skipped /\ acc.failures = <<>> -> "ok"
    [] ~skipped /\ acc.failures # <<>> ->
         IF Range(acc.failures) = {"attest"} THEN "refused" ELSE "failed"

\* The samples of a field: every repetition that has it.
Series(acc, field) ==
  LET having == Sifted(acc.reps, {r \in Range(acc.reps) : field \in r.out.has})
  IN  [i \in DOMAIN having |->
         [by |-> having[i].out.by, field |-> field, left |-> having[i].out.left]]

\* from_report(): why a row is not to be relied on: fewer samples than the floor,
\* a load that is not known to be quiet, samples that lie far apart, or a median
\* too short for the clock.  The last two are of the samples' values.
Reasons(name, samples, load, doubts) ==
  (IF Len(samples) < Reps THEN {"reps"} ELSE {})
    \cup (IF load = Null \/ load >= 2 THEN {"load"} ELSE {})
    \cup (IF Len(samples) > 1 /\ name \o <<"cov">> \in doubts THEN {"cov"} ELSE {})
    \cup (IF samples # <<>> /\ name[3] = "wall" /\ name \o <<"timer">> \in doubts
          THEN {"timer"} ELSE {})

Confidence(reasons) == IF reasons = {} THEN "high" ELSE "low"

\* A row of an account: what its repetitions measured and how they fared.
RowOf(who, column, a, skipped, doubts) ==
  LET acc == IF a \in DOMAIN accs THEN accs[a] ELSE Empty
      samples == Series(acc, column.field)
      load == WorstLoad({acc.reps[i].load : i \in DOMAIN acc.reps})
      outcome == OutcomeOf(acc, skipped)
      reasons == Reasons(<<who, column.scenario, column.metric>>, samples, load, doubts)
  IN  [backend |-> who, scenario |-> column.scenario, metric |-> column.metric,
       from |-> a, samples |-> samples, outcome |-> outcome, load |-> load,
       fact |-> IF skipped THEN Null ELSE Agreed([i \in DOMAIN acc.reps |-> acc.reps[i].out.fact]),
       attested |-> CASE outcome = "ok" -> TRUE [] outcome = "skipped" -> Null
                      [] OTHER -> FALSE,
       reasons |-> reasons, confidence |-> Confidence(reasons)]

\* The cell's rows are pushed and the next cell begins.
Publish(published, cells) ==
  /\ stage = "rows"
  /\ rows' = published
  /\ cell' = cell + 1
  /\ stage' = IF cell < cells THEN "prepare" ELSE "done"
  /\ UNCHANGED <<sweep, tools, inputs, jobs, accs, waited, under, faults>>
=============================================================================
