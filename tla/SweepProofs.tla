----------------------------- MODULE SweepProofs ----------------------------
(***************************************************************************)
(* A row is attested by what was observed of the artefacts of its own      *)
(* cell, and says what its children reported, for any cells, any artefacts,*)
(* any walk of scenarios, and any number of repetitions.                   *)
(***************************************************************************)
EXTENDS Sweep, FiniteSetTheorems, SequenceTheorems, TLAPS

\* From the moment the cell has artefacts, the verdicts at hand are theirs; and
\* the backend whose turn it is, is one.
VerdictInv ==
  /\ turn \in 1..2
  /\ artefact \in [Backend -> Artefact \cup {Null}]
  /\ scen > 0 => verdict = Attest(cell, artefact)

-----------------------------------------------------------------------------
\* Whoever leads.
LEMMA HereIsABackend ==
  ASSUME turn \in 1..2
  PROVE  Here[2] \in Backend
<1>1. turn = 1 \/ turn = 2
  OBVIOUS
<1>2. Len(Backends) = 2 /\ Backends[1] \in Backend /\ Backends[2] \in Backend
  BY DEF Backends, Backend
<1>3. Reverse(Backends) = [i \in 1..2 |-> Backends[2 - i + 1]]
  BY <1>2 DEF Reverse
<1>4. Order(scen)[turn] \in Backend
  BY <1>1, <1>2, <1>3 DEF Order
<1> QED BY <1>4 DEF Here

\* A row carries the verdict on its backend.
LEMMA RowsCarryTheVerdict ==
  ASSUME NEW at, NEW scenario, NEW wire, NEW r \in RowsOf(at, scenario, wire)
  PROVE  r.at = at /\ r.attested = verdict[at[2]]
BY DEF RowsOf, Row

\* The turn goes round, and verdicts stay with their artefacts; on to the next
\* cell there are none.
LEMMA Advances == ASSUME VerdictInv, Walking, Advance PROVE VerdictInv'
<1>1. Len(Backends) = 2
  BY DEF Backends
<1>2. UNCHANGED <<artefact, verdict>> /\ turn' \in 1..2
  BY <1>1 DEF Advance, VerdictInv
<1>3. scen' > 0 => cell' = cell
  BY DEF Advance
<1>4. scen' > 0 => verdict' = Attest(cell', artefact')
  BY <1>2, <1>3 DEF VerdictInv, Walking
<1> QED BY <1>2, <1>4 DEF VerdictInv

\* No cell was attested yet.
LEMMA VerdictInit == SweepAssumption /\ Init => VerdictInv
BY DEF SweepAssumption, Init, VerdictInv

\* Every step of the walk keeps verdicts with their cell.
LEMMA VerdictNext == SweepAssumption /\ VerdictInv /\ [Next]_vars => VerdictInv'
<1> SUFFICES ASSUME SweepAssumption, VerdictInv, [Next]_vars PROVE VerdictInv'
  OBVIOUS
<1>1. CASE UNCHANGED vars
  BY <1>1 DEF vars, VerdictInv
<1>2. CASE Artefacts
  <2>1. PICK written \in Outputs[cell] : artefact' = written /\ verdict' = Attest(cell, written)
    BY <1>2, Zenon DEF Artefacts
  <2>2. written \in [Backend -> Artefact \cup {Null}]
    BY <1>2, <2>1, Zenon DEF Artefacts, SweepAssumption
  <2>3. UNCHANGED <<cell, turn>>
    BY <1>2 DEF Artefacts
  <2>4. verdict' = Attest(cell', artefact')
    BY <2>1, <2>3
  <2> QED BY <2>1, <2>2, <2>3, <2>4 DEF VerdictInv
<1>3. CASE SkipMissing \/ RunScenario \/ EmitReps
  BY <1>3, Advances DEF SkipMissing, RunScenario, EmitReps
<1>4. CASE RunRep
  BY <1>4 DEF RunRep, VerdictInv
<1> QED BY <1>1, <1>2, <1>3, <1>4 DEF Next

\* attest() is true of nothing that was not observed.
LEMMA AttestedIsObserved ==
  ASSUME SweepAssumption, NEW c \in DOMAIN Cells, NEW b \in Backend,
         NEW written \in [Backend -> Artefact \cup {Null}],
         written[b] # Null, IsAttested(c, b, written)
  PROVE  Observation(c, b, written)
<1>1. Sampled(c, written) >= MinEquivalenceSample /\ AllMatched(written)
  BY DEF IsAttested
<1>2. Readers(written) = Backend
  <2>1. ~(0 >= MinEquivalenceSample)
    BY DEF SweepAssumption
  <2> QED BY <1>1, <2>1 DEF Sampled
<1>3. ASSUME NEW x \in Backend
      PROVE  /\ written[x] # Null /\ written[x].opens
             /\ written[x].sample # "error" /\ written[x].sample = written[b].sample
  BY <1>1, <1>2 DEF AllMatched, Readers
<1>4. ASSUME b = "pmtiles"
      PROVE  written[b].entries > 0
             /\ (written[b].leaves > 0 <=> Cells[c] >= RootOnlyMaxEntries)
  <2>1. written[b].entries \in Nat /\ written[b].leaves \in Nat
    BY DEF Artefact
  <2>2. Cells[c] \in Nat /\ RootOnlyMaxEntries \in Nat
    BY DEF SweepAssumption
  <2>3. Null # "root" /\ Null # "leaf"
    BY DEF SweepAssumption
  <2>4. Observed(c, b, written) = [entries |-> written[b].entries, leaves |-> written[b].leaves]
    BY <1>3, <1>4 DEF Observed
  <2>5. RegimeOf(Observed(c, b, written)) = Predicted(c)
    BY DEF IsAttested
  <2> QED BY <2>1, <2>2, <2>3, <2>4, <2>5 DEF RegimeOf, Predicted
<1> QED BY <1>1, <1>3, <1>4 DEF Observation

\* Emitting an attested row means that this cell's artefacts were observed.
LEMMA EmittedIsAttested ==
  ASSUME SweepAssumption, VerdictInv, Walking, NEW wire, Emit(wire),
         NEW r \in rows' \ rows, r.attested = TRUE
  PROVE  Observation(cell, r.at[2], artefact)
<1>1. r \in RowsOf(Here, Scenarios[scen], wire)
  BY DEF Emit
<1>2. r.at = Here /\ verdict[Here[2]] = TRUE
  BY <1>1, RowsCarryTheVerdict
<1>3. Here[2] \in Backend
  BY HereIsABackend DEF VerdictInv
<1>4. verdict[Here[2]] = IF artefact[Here[2]] = Null THEN Null
                         ELSE IsAttested(cell, Here[2], artefact)
  BY <1>3 DEF VerdictInv, Walking, Attest
<1>5. Null # TRUE
  BY DEF SweepAssumption
<1>6. artefact[Here[2]] # Null /\ IsAttested(cell, Here[2], artefact)
  BY <1>2, <1>4, <1>5, Zenon
<1> QED BY <1>2, <1>3, <1>6, AttestedIsObserved DEF VerdictInv, Walking

\* attest() and rows_from_wire(): for every profile, walk and way of writing the
\* pyramids, a row is attested only by what was observed of its own cell.
THEOREM AttestedByItsCell == Spec => AttestationIsOfTheCell
<1> DEFINE A == \A r \in rows' \ rows :
             r.attested = TRUE => Observation(cell, r.at[2], artefact)
<1>1. ASSUME SweepAssumption, VerdictInv, [Next]_vars PROVE [A]_vars
  <2>1. CASE UNCHANGED vars \/ Artefacts \/ SkipMissing \/ RunRep
    BY <2>1 DEF vars, Artefacts, SkipMissing, RunRep
  <2>2. CASE RunScenario \/ EmitReps
    <3>1. Walking /\ \E wire : Emit(wire)
      BY <2>2, Zenon DEF RunScenario, EmitReps
    <3> QED BY <1>1, <3>1, EmittedIsAttested
  <2> QED BY <1>1, <2>1, <2>2 DEF Next
<1> HIDE DEF A
<1>2. Init => VerdictInv
  BY VerdictInit, SweepAssumption
<1>3. VerdictInv /\ [Next]_vars => VerdictInv' /\ [A]_vars
  BY <1>1, VerdictNext, SweepAssumption
<1>4. Spec => [][A]_vars
  BY <1>2, <1>3, PTL DEF Spec
<1> QED BY <1>4 DEF AttestationIsOfTheCell, A

-----------------------------------------------------------------------------
(* What a fold keeps. *)

Series == [metric : Metric, samples : Seq(Metric)]

Wire ==
  [outcome : {"none", "ok", "skipped", "failed"}, reason : SUBSET {"skip", "unmatched"},
   series : Seq(Series), facts : Seq(Fact)]

\* One series for a name, and under it samples of that name.
Sound(series) ==
  /\ series \in Seq(Series)
  /\ \A i, j \in DOMAIN series : series[i].metric = series[j].metric => i = j
  /\ \A i \in DOMAIN series : \A k \in DOMAIN series[i].samples :
       series[i].samples[k] = series[i].metric

Said(w) == w \in Wire /\ Sound(w.series) /\ (w.outcome = "none" => w = NoWire)

\* How many of the replies published a metric.
Count(replies, m) == Cardinality({i \in DOMAIN replies : m \in MetricsOf(replies[i].series)})

\* w is what the replies come to: silent if all of them were, not ok if one of
\* them was not, with the invariants of each of them.
Told(w, replies) ==
  /\ Said(w)
  /\ w = NoWire <=> \A i \in DOMAIN replies : replies[i] = NoWire
  /\ \A i \in DOMAIN replies :
       (replies[i] # NoWire /\ replies[i].outcome # "ok") => w.outcome # "ok"
  /\ \A i \in DOMAIN replies : \A k \in DOMAIN replies[i].facts :
       \E j \in DOMAIN w.facts : w.facts[j] = replies[i].facts[k]

\* And with one sample of a metric for each of them that published it.
Counted(w, replies) == \A m \in Metric : Len(SamplesOf(w.series, m)) = Count(replies, m)

\* Nothing was said and folded.
LEMMA NothingSaid ==
  /\ NoWire \in Wire /\ Said(NoWire) /\ Told(NoWire, <<>>) /\ Counted(NoWire, <<>>)
  /\ MetricsOf(NoWire.series) = {}
<1>1. NoWire \in Wire /\ NoWire.series = <<>> /\ NoWire.facts = <<>>
  BY DEF NoWire, Wire
<1>2. Sound(<<>>)
  BY DEF Sound
<1>3. MetricsOf(<<>>) = {}
  BY DEF MetricsOf
<1>4. \A m : SamplesOf(<<>>, m) = <<>> /\ Count(<<>>, m) = 0
  BY FS_EmptySet DEF SamplesOf, Count
<1>5. Said(NoWire) /\ Told(NoWire, <<>>)
  BY <1>1, <1>2 DEF Said, Told
<1>6. Counted(NoWire, <<>>)
  BY <1>1, <1>4 DEF Counted
<1> QED BY <1>1, <1>3, <1>5, <1>6

\* The samples filed under a name are those of the series of that name.
LEMMA SamplesByName ==
  ASSUME NEW series, Sound(series)
  PROVE  /\ \A i \in DOMAIN series : SamplesOf(series, series[i].metric) = series[i].samples
         /\ \A m : m \notin MetricsOf(series) => SamplesOf(series, m) = <<>>
         /\ \A m \in Metric : SamplesOf(series, m) \in Seq(Metric)
<1>1. series \in Seq(Series) /\ DOMAIN series = 1..Len(series)
  BY DEF Sound
<1>2. ASSUME NEW i \in DOMAIN series
      PROVE  SamplesOf(series, series[i].metric) = series[i].samples
  <2> DEFINE found == {j \in DOMAIN series : series[j].metric = series[i].metric}
  <2>1. found = {i}
    BY DEF Sound
  <2>2. (CHOOSE j \in found : \A k \in found : j <= k) = i
    BY <1>1, <2>1
  <2> QED BY <2>1, <2>2 DEF SamplesOf
<1>3. ASSUME NEW m, m \notin MetricsOf(series)
      PROVE  SamplesOf(series, m) = <<>>
  BY <1>3 DEF SamplesOf, MetricsOf
<1>4. ASSUME NEW m \in Metric
      PROVE  SamplesOf(series, m) \in Seq(Metric)
  <2>1. CASE m \in MetricsOf(series)
    <3>1. PICK i \in DOMAIN series : series[i].metric = m
      BY <2>1 DEF MetricsOf
    <3>2. series[i] \in Series
      BY <1>1
    <3> QED BY <1>2, <3>1, <3>2 DEF Series
  <2>2. CASE m \notin MetricsOf(series)
    BY <1>3, <2>2, EmptySeq
  <2> QED BY <2>1, <2>2
<1> QED BY <1>2, <1>3, <1>4

\* Every element of a finite set has one place in its sequence.
LEMMA InSequence ==
  ASSUME NEW S, IsFiniteSet(S)
  PROVE  /\ Cardinality(S) \in Nat
         /\ SetToSeq(S) \in [1..Cardinality(S) -> S]
         /\ \A a, b \in 1..Cardinality(S) : SetToSeq(S)[a] = SetToSeq(S)[b] => a = b
         /\ \A x \in S : \E n \in 1..Cardinality(S) : SetToSeq(S)[n] = x
<1> DEFINE N == 1..Cardinality(S)
<1>1. Cardinality(S) \in Nat /\ ExistsBijection(N, S)
  BY FS_CardinalityType
<1>2. PICK f : f \in [N -> S] /\ IsInjective(f)
  BY <1>1 DEF ExistsBijection, Bijection, Injection
<1>3. SetToSeq(S) \in [N -> S] /\ IsInjective(SetToSeq(S))
  BY <1>2 DEF SetToSeq
<1>4. SetToSeq(S) \in Injection(N, S)
  BY <1>3 DEF Injection
<1>5. IsFiniteSet(N) /\ Cardinality(N) = Cardinality(S)
  BY <1>1, FS_Interval
<1>6. SetToSeq(S) \in Surjection(N, S)
  BY <1>4, <1>5, FS_Injection
<1> QED BY <1>1, <1>3, <1>6 DEF IsInjective, Surjection

\* What is carried through are the series under new names, each once.
LEMMA UnseenAreNew ==
  ASSUME NEW acc, NEW one, Sound(acc), Sound(one)
  PROVE  LET u == Unseen(acc, one)
         IN  /\ Sound(u)
             /\ MetricsOf(u) = MetricsOf(one) \ MetricsOf(acc)
             /\ \A n \in DOMAIN u : \E i \in DOMAIN one : u[n] = one[i]
<1> DEFINE new == {i \in DOMAIN one : one[i].metric \notin MetricsOf(acc)}
           q == SetToSeq(new)
           u == Unseen(acc, one)
<1>1. one \in Seq(Series) /\ DOMAIN one = 1..Len(one) /\ Len(one) \in Nat
  BY DEF Sound
<1>2. IsFiniteSet(new)
  <2>1. IsFiniteSet(1..Len(one))
    BY <1>1, FS_Interval
  <2> QED BY <1>1, <2>1, FS_Subset
<1>3. /\ Cardinality(new) \in Nat /\ q \in [1..Cardinality(new) -> new]
      /\ \A a, b \in 1..Cardinality(new) : q[a] = q[b] => a = b
      /\ \A x \in new : \E n \in 1..Cardinality(new) : q[n] = x
  <2> HIDE DEF new
  <2> QED BY <1>2, InSequence
<1>4. u = [n \in 1..Cardinality(new) |-> one[q[n]]]
  BY DEF Unseen
<1> HIDE DEF q, u
<1>5. \A n \in 1..Cardinality(new) : q[n] \in DOMAIN one /\ one[q[n]].metric \notin MetricsOf(acc)
  BY <1>3
<1>6. \A i \in DOMAIN one : one[i] \in Series
  BY <1>1
<1>7. u \in Seq(Series) /\ DOMAIN u = 1..Cardinality(new)
  <2>1. \A n \in 1..Cardinality(new) : u[n] \in Series
    BY <1>4, <1>5, <1>6
  <2> HIDE DEF new
  <2>2. u \in [1..Cardinality(new) -> Series]
    BY <1>4, <2>1
  <2> QED BY <1>3, <2>2, SeqDef
<1>8. \A i, j \in DOMAIN u : u[i].metric = u[j].metric => i = j
  <2> SUFFICES ASSUME NEW i \in DOMAIN u, NEW j \in DOMAIN u, u[i].metric = u[j].metric
               PROVE  i = j
    OBVIOUS
  <2>1. q[i] = q[j]
    BY <1>4, <1>5, <1>7 DEF Sound
  <2> QED BY <1>3, <1>7, <2>1
<1>9. \A i \in DOMAIN u : \A k \in DOMAIN u[i].samples : u[i].samples[k] = u[i].metric
  BY <1>4, <1>5, <1>7 DEF Sound
<1>10. MetricsOf(u) = MetricsOf(one) \ MetricsOf(acc)
  <2>1. ASSUME NEW m \in MetricsOf(u) PROVE m \in MetricsOf(one) \ MetricsOf(acc)
    BY <1>4, <1>5, <1>7 DEF MetricsOf
  <2>2. ASSUME NEW m \in MetricsOf(one), m \notin MetricsOf(acc) PROVE m \in MetricsOf(u)
    <3>1. PICK i \in DOMAIN one : one[i].metric = m
      BY DEF MetricsOf
    <3>2. i \in new
      BY <2>2, <3>1
    <3>3. PICK n \in 1..Cardinality(new) : q[n] = i
      BY <1>3, <3>2
    <3>4. n \in DOMAIN u /\ u[n].metric = m
      BY <1>4, <1>7, <3>1, <3>3
    <3> QED BY <3>4 DEF MetricsOf
  <2> QED BY <2>1, <2>2
<1>11. \A n \in DOMAIN u : \E i \in DOMAIN one : u[n] = one[i]
  BY <1>4, <1>5, <1>7
<1>12. Sound(u)
  BY <1>7, <1>8, <1>9 DEF Sound
<1> QED BY <1>10, <1>11, <1>12 DEF u

\* A fold of two wires has, under every name, the samples of both.
LEMMA FoldKeepsSamples ==
  ASSUME NEW acc, NEW one, Sound(acc), Sound(one)
  PROVE  LET f == FoldSeries(acc, one)
         IN  /\ Sound(f)
             /\ \A m \in Metric :
                  Len(SamplesOf(f, m)) = Len(SamplesOf(acc, m)) + Len(SamplesOf(one, m))
<1> DEFINE u == Unseen(acc, one)
           g == [i \in DOMAIN acc |-> [acc[i] EXCEPT !.samples = @ \o SamplesOf(one, acc[i].metric)]]
           f == FoldSeries(acc, one)
<1>1. /\ acc \in Seq(Series) /\ DOMAIN acc = 1..Len(acc) /\ Len(acc) \in Nat
      /\ \A i \in DOMAIN acc : acc[i] \in Series
  BY DEF Sound
<1>2. /\ Sound(u) /\ MetricsOf(u) = MetricsOf(one) \ MetricsOf(acc)
      /\ \A n \in DOMAIN u : \E i \in DOMAIN one : u[n] = one[i]
  BY UnseenAreNew
<1>3. f = g \o u
  BY DEF FoldSeries
<1> HIDE DEF u, f
<1>4. ASSUME NEW i \in DOMAIN acc
      PROVE  /\ g[i] \in Series /\ g[i].metric = acc[i].metric
             /\ g[i].samples = acc[i].samples \o SamplesOf(one, acc[i].metric)
             /\ \A k \in DOMAIN g[i].samples : g[i].samples[k] = g[i].metric
  <2> DEFINE a == acc[i].samples
             b == SamplesOf(one, acc[i].metric)
  <2>1. acc[i].metric \in Metric /\ a \in Seq(Metric) /\ acc[i] \in Series
    BY <1>1 DEF Series
  <2>2. b \in Seq(Metric)
    BY <2>1, SamplesByName
  <2>3. g[i] = [metric |-> acc[i].metric, samples |-> a \o b]
    BY <2>1 DEF Series
  <2>4. \A k \in DOMAIN a : a[k] = acc[i].metric
    BY DEF Sound
  <2>5. \A k \in DOMAIN b : b[k] = acc[i].metric
    <3>1. CASE acc[i].metric \in MetricsOf(one)
      <4>1. PICK j \in DOMAIN one : one[j].metric = acc[i].metric
        BY <3>1 DEF MetricsOf
      <4>2. b = one[j].samples
        BY <4>1, SamplesByName
      <4> QED BY <4>1, <4>2 DEF Sound
    <3>2. CASE acc[i].metric \notin MetricsOf(one)
      <4>1. b = <<>>
        BY <3>2, SamplesByName
      <4> QED BY <4>1
    <3> QED BY <3>1, <3>2
  <2> HIDE DEF a, b
  <2>6. a \o b \in Seq(Metric) /\ \A k \in DOMAIN (a \o b) : (a \o b)[k] = acc[i].metric
    BY <2>1, <2>2, <2>4, <2>5
  <2> QED BY <2>1, <2>3, <2>6 DEF Series, a, b
<1>5. g \in Seq(Series) /\ DOMAIN g = DOMAIN acc /\ Len(g) = Len(acc)
  <2>1. g \in [1..Len(acc) -> Series]
    BY <1>1, <1>4
  <2> HIDE DEF g
  <2> QED BY <1>1, <2>1, SeqDef
<1> HIDE DEF g
<1>6. u \in Seq(Series) /\ DOMAIN u = 1..Len(u) /\ Len(u) \in Nat
  BY <1>2 DEF Sound
<1>7. /\ f \in Seq(Series) /\ DOMAIN f = 1..(Len(acc) + Len(u))
      /\ \A i \in 1..Len(acc) : f[i] = g[i]
      /\ \A i \in 1..Len(u) : f[Len(acc) + i] = u[i]
  <2>1. Len(g) = Len(acc) /\ g \in Seq(Series) /\ u \in Seq(Series)
    BY <1>5, <1>6
  <2>2. /\ f \in Seq(Series) /\ Len(f) = Len(acc) + Len(u)
        /\ \A i \in 1..(Len(acc) + Len(u)) :
             f[i] = IF i <= Len(acc) THEN g[i] ELSE u[i - Len(acc)]
    <3>1. /\ g \o u \in Seq(Series) /\ Len(g \o u) = Len(g) + Len(u)
          /\ \A i \in 1..(Len(g) + Len(u)) :
               (g \o u)[i] = IF i <= Len(g) THEN g[i] ELSE u[i - Len(g)]
      BY <2>1, ConcatProperties, Zenon
    <3> QED BY <1>3, <2>1, <3>1, Zenon
  <2>3. DOMAIN f = 1..(Len(acc) + Len(u))
    BY <2>2, LenProperties
  <2>4. \A i \in 1..Len(acc) : f[i] = g[i]
    BY <1>1, <1>6, <2>2
  <2>5. \A i \in 1..Len(u) : f[Len(acc) + i] = u[i]
    BY <1>1, <1>6, <2>2
  <2> QED BY <2>2, <2>3, <2>4, <2>5
<1>8. \A i \in DOMAIN f : i \in DOMAIN acc \/ \E n \in DOMAIN u : i = Len(acc) + n /\ f[i] = u[n]
  <2> SUFFICES ASSUME NEW i \in DOMAIN f, i \notin 1..Len(acc)
               PROVE  \E n \in 1..Len(u) : i = Len(acc) + n /\ f[i] = u[n]
    BY <1>1, <1>6
  <2>1. i - Len(acc) \in 1..Len(u) /\ i = Len(acc) + (i - Len(acc))
    BY <1>1, <1>6, <1>7
  <2> QED BY <1>7, <2>1
<1>9. \A i \in DOMAIN u : u[i].metric \notin MetricsOf(acc) /\ u[i].metric \in MetricsOf(u)
  BY <1>2 DEF MetricsOf
<1>10. \A i \in DOMAIN acc : f[i] = g[i] /\ f[i].metric = acc[i].metric /\ f[i].metric \in MetricsOf(acc)
  BY <1>1, <1>4, <1>7 DEF MetricsOf
<1>11. \A i, j \in DOMAIN f : f[i].metric = f[j].metric => i = j
  <2> SUFFICES ASSUME NEW i \in DOMAIN f, NEW j \in DOMAIN f, f[i].metric = f[j].metric
               PROVE  i = j
    OBVIOUS
  <2>1. CASE i \in DOMAIN acc /\ j \in DOMAIN acc
    BY <1>10, <2>1 DEF Sound
  <2>2. CASE i \in DOMAIN acc /\ j \notin DOMAIN acc
    BY <1>8, <1>9, <1>10, <2>2
  <2>3. CASE i \notin DOMAIN acc /\ j \in DOMAIN acc
    BY <1>8, <1>9, <1>10, <2>3
  <2>4. CASE i \notin DOMAIN acc /\ j \notin DOMAIN acc
    <3>1. PICK n \in DOMAIN u : i = Len(acc) + n /\ f[i] = u[n]
      BY <1>8, <2>4
    <3>2. PICK k \in DOMAIN u : j = Len(acc) + k /\ f[j] = u[k]
      BY <1>8, <2>4
    <3>3. n = k
      BY <1>2, <3>1, <3>2 DEF Sound
    <3> QED BY <3>1, <3>2, <3>3
  <2> QED BY <2>1, <2>2, <2>3, <2>4
<1>12. \A i \in DOMAIN f : \A k \in DOMAIN f[i].samples : f[i].samples[k] = f[i].metric
  <2> SUFFICES ASSUME NEW i \in DOMAIN f
               PROVE  \A k \in DOMAIN f[i].samples : f[i].samples[k] = f[i].metric
    OBVIOUS
  <2>1. CASE i \in DOMAIN acc
    BY <1>4, <1>10, <2>1
  <2>2. CASE i \notin DOMAIN acc
    BY <1>2, <1>8, <2>2 DEF Sound
  <2> QED BY <2>1, <2>2
<1>13. Sound(f)
  BY <1>7, <1>11, <1>12 DEF Sound
<1>14. ASSUME NEW m \in Metric
       PROVE  Len(SamplesOf(f, m)) = Len(SamplesOf(acc, m)) + Len(SamplesOf(one, m))
  <2>1. CASE m \in MetricsOf(acc)
    <3>1. PICK i \in DOMAIN acc : acc[i].metric = m
      BY <2>1 DEF MetricsOf
    <3>2. SamplesOf(acc, m) = acc[i].samples /\ SamplesOf(f, m) = f[i].samples
      <4>1. i \in DOMAIN f /\ f[i].metric = m
        BY <1>1, <1>6, <1>7, <1>10, <3>1
      <4> QED BY <1>13, <3>1, <4>1, SamplesByName
    <3>3. f[i].samples = acc[i].samples \o SamplesOf(one, m)
      BY <1>4, <1>10, <3>1
    <3>4. acc[i].samples \in Seq(Metric) /\ SamplesOf(one, m) \in Seq(Metric)
      BY <1>1, SamplesByName DEF Series
    <3> QED BY <3>2, <3>3, <3>4, ConcatProperties
  <2>2. CASE m \notin MetricsOf(acc) /\ m \in MetricsOf(one)
    <3>1. SamplesOf(acc, m) = <<>>
      BY <2>2, SamplesByName
    <3>2. PICK n \in DOMAIN u : u[n].metric = m
      <4>1. m \in MetricsOf(u)
        BY <1>2, <2>2
      <4> QED BY <4>1 DEF MetricsOf
    <3>3. PICK i \in DOMAIN one : u[n] = one[i]
      BY <1>2
    <3>4. SamplesOf(one, m) = u[n].samples
      BY <3>2, <3>3, SamplesByName
    <3>5. Len(acc) + n \in DOMAIN f /\ f[Len(acc) + n] = u[n]
      BY <1>1, <1>6, <1>7
    <3>6. SamplesOf(f, m) = u[n].samples
      BY <1>13, <3>2, <3>5, SamplesByName
    <3>7. Len(SamplesOf(one, m)) \in Nat
      BY SamplesByName, LenProperties
    <3> QED BY <3>1, <3>4, <3>6, <3>7
  <2>3. CASE m \notin MetricsOf(acc) /\ m \notin MetricsOf(one)
    <3>1. m \notin MetricsOf(f)
      <4> SUFFICES ASSUME NEW i \in DOMAIN f, f[i].metric = m PROVE FALSE
        BY DEF MetricsOf
      <4>1. CASE i \in DOMAIN acc
        BY <1>10, <2>3, <4>1
      <4>2. CASE i \notin DOMAIN acc
        BY <1>2, <1>8, <1>9, <2>3, <4>2
      <4> QED BY <4>1, <4>2
    <3>2. SamplesOf(f, m) = <<>> /\ SamplesOf(acc, m) = <<>> /\ SamplesOf(one, m) = <<>>
      BY <1>13, <2>3, <3>1, SamplesByName
    <3> QED BY <3>2
  <2> QED BY <2>1, <2>2, <2>3
<1> QED BY <1>13, <1>14 DEF f

\* One more child is folded in.
LEMMA MergeKeeps ==
  ASSUME NEW acc, NEW one, Said(acc), Said(one), one # NoWire
  PROVE  LET w == Merge(acc, one)
         IN  /\ Said(w) /\ w # NoWire
             /\ (acc.outcome \notin {"ok", "none"} \/ one.outcome # "ok") => w.outcome # "ok"
             /\ w.outcome # "none"
             /\ w.facts = IF acc = NoWire THEN one.facts ELSE acc.facts \o one.facts
             /\ \A m \in Metric :
                  Len(SamplesOf(w.series, m)) = Len(SamplesOf(acc.series, m)) + Len(SamplesOf(one.series, m))
<1> DEFINE w == Merge(acc, one)
<1>1. one.outcome # "none" /\ NoWire.outcome = "none"
  BY DEF Said, NoWire
<1>2. CASE acc = NoWire
  <2>1. w = one
    BY <1>2 DEF Merge
  <2>2. acc.outcome = "none" /\ acc.series = <<>>
    BY <1>2 DEF NoWire
  <2>3. \A m : SamplesOf(acc.series, m) = <<>>
    BY <2>2 DEF SamplesOf
  <2>4. \A m \in Metric : Len(SamplesOf(one.series, m)) \in Nat
    BY SamplesByName, LenProperties DEF Said
  <2>5. \A m \in Metric : Len(SamplesOf(w.series, m)) = Len(SamplesOf(acc.series, m)) + Len(SamplesOf(one.series, m))
    BY <2>1, <2>3, <2>4
  <2> HIDE DEF w
  <2> QED BY <1>1, <1>2, <2>1, <2>2, <2>5, Zenon DEF w
<1>3. CASE acc # NoWire
  <2> DEFINE f == FoldSeries(acc.series, one.series)
             o == IF one.outcome # "ok" THEN one.outcome ELSE acc.outcome
             q == IF one.outcome # "ok" THEN one.reason
                  ELSE IF Unseen(acc.series, one.series) = <<>> THEN acc.reason
                  ELSE acc.reason \cup {"unmatched"}
  <2>1. acc \in Wire /\ one \in Wire /\ Sound(acc.series) /\ Sound(one.series)
    BY DEF Said
  <2>2. /\ Sound(f)
        /\ \A m \in Metric : Len(SamplesOf(f, m)) = Len(SamplesOf(acc.series, m)) + Len(SamplesOf(one.series, m))
    BY <2>1, FoldKeepsSamples
  <2>3. o \in {"none", "ok", "skipped", "failed"} /\ q \in SUBSET {"skip", "unmatched"}
    BY <2>1 DEF Wire
  <2>4. acc.facts \o one.facts \in Seq(Fact)
    BY <2>1, ConcatProperties DEF Wire
  <2>5. w = [outcome |-> o, reason |-> q, series |-> f, facts |-> acc.facts \o one.facts]
    <3>1. w = [acc EXCEPT !.series = f, !.facts = acc.facts \o one.facts, !.outcome = o, !.reason = q]
      BY <1>3, Zenon DEF Merge
    <3> HIDE DEF f, o, q, w
    <3> QED BY <2>1, <3>1 DEF Wire
  <2>6. f \in Seq(Series)
    BY <2>2 DEF Sound
  <2>7. acc.outcome # "none" /\ o # "none"
    BY <1>1, <1>3 DEF Said
  <2>8. (acc.outcome \notin {"ok", "none"} \/ one.outcome # "ok") => o # "ok"
    OBVIOUS
  <2> HIDE DEF f, o, q, w
  <2>9. w.outcome = o /\ w.series = f /\ w.facts = acc.facts \o one.facts /\ w \in Wire
    BY <2>3, <2>4, <2>5, <2>6 DEF Wire
  <2>10. w # NoWire /\ Said(w)
    BY <1>1, <2>2, <2>7, <2>9 DEF Said
  <2> QED BY <1>3, <2>2, <2>7, <2>8, <2>9, <2>10, Zenon DEF w
<1> QED BY <1>2, <1>3

\* How the replies add up.
LEMMA CountOneMore ==
  ASSUME NEW replies \in Seq(Wire), NEW one \in Wire, NEW m
  PROVE  /\ Count(replies, m) \in Nat
         /\ Count(Append(replies, one), m) =
              Count(replies, m) + (IF m \in MetricsOf(one.series) THEN 1 ELSE 0)
<1> DEFINE n == Len(replies)
           more == Append(replies, one)
           Of(s) == {i \in DOMAIN s : m \in MetricsOf(s[i].series)}
<1>1. n \in Nat /\ DOMAIN replies = 1..n /\ DOMAIN more = 1..(n + 1)
      /\ (\A i \in 1..n : more[i] = replies[i]) /\ more[n + 1] = one
  BY LenProperties, AppendProperties
<1> HIDE DEF n, more
<1>2. IsFiniteSet(Of(replies)) /\ n + 1 \notin Of(replies)
  <2>1. IsFiniteSet(1..n)
    BY <1>1, FS_Interval
  <2>2. Of(replies) \subseteq 1..n
    BY <1>1
  <2> QED BY <1>1, <2>1, <2>2, FS_Subset
<1>3. Cardinality(Of(replies)) \in Nat
  BY <1>2, FS_CardinalityType
<1>4. Of(more) = Of(replies) \cup (IF m \in MetricsOf(one.series) THEN {n + 1} ELSE {})
  BY <1>1
<1>5. Cardinality(Of(more)) = Cardinality(Of(replies)) + (IF m \in MetricsOf(one.series) THEN 1 ELSE 0)
  <2>1. CASE m \in MetricsOf(one.series)
    BY <1>2, <1>4, <2>1, FS_AddElement
  <2>2. CASE m \notin MetricsOf(one.series)
    <3>1. Of(more) = Of(replies)
      BY <1>4, <2>2
    <3> HIDE DEF Of
    <3> QED BY <1>3, <2>2, <3>1
  <2> QED BY <2>1, <2>2
<1> QED BY <1>3, <1>5 DEF Count, more

\* A child that ran n repetitions has n samples of what it publishes.
LEMMA RepliesAreSaid ==
  ASSUME NEW scenario \in Scenario, NEW n \in Nat \ {0},
         \A offer \in scenario.offers : IsInjective(offer) /\ offer # <<>>,
         NEW w \in Replies(scenario, n)
  PROVE  /\ Said(w)
         /\ (w.outcome = "ok" <=> w.series # <<>>)
         /\ \A m \in Metric :
              Len(SamplesOf(w.series, m)) = IF m \in MetricsOf(w.series) THEN n ELSE 0
<1>1. CASE w = NoWire
  <2>1. w.series = <<>> /\ w.outcome = "none"
    BY <1>1 DEF NoWire
  <2>2. \A m : SamplesOf(<<>>, m) = <<>> /\ m \notin MetricsOf(<<>>)
    BY DEF SamplesOf, MetricsOf
  <2> QED BY <1>1, <2>1, <2>2, NothingSaid
<1>2. CASE \E o \in {"skipped", "failed"} : w = SkipWire(o)
  <2>1. PICK o \in {"skipped", "failed"} : w = SkipWire(o)
    BY <1>2
  <2>2. w.series = <<>> /\ w.outcome = o /\ w \in Wire
    BY <2>1 DEF SkipWire, Wire
  <2>3. Sound(<<>>)
    BY DEF Sound
  <2>4. \A m : SamplesOf(<<>>, m) = <<>> /\ m \notin MetricsOf(<<>>)
    BY DEF SamplesOf, MetricsOf
  <2> QED BY <2>2, <2>3, <2>4 DEF Said
<1>3. CASE \E offer \in scenario.offers : \E facts \in [1..n -> Fact] : w = RunWire(n, offer, facts)
  <2>1. PICK offer \in scenario.offers : \E facts \in [1..n -> Fact] : w = RunWire(n, offer, facts)
    BY <1>3
  <2>2. PICK facts \in [1..n -> Fact] : w = RunWire(n, offer, facts)
    BY <2>1
  <2>3. offer \in Seq(Metric) /\ IsInjective(offer) /\ offer # <<>>
    BY DEF Scenario
  <2> DEFINE Times(x) == [k \in 1..n |-> x]
             series == [i \in DOMAIN offer |-> [metric |-> offer[i], samples |-> Times(offer[i])]]
  <2>4. w = [outcome |-> "ok", reason |-> {}, series |-> series, facts |-> facts]
    BY <2>2, Zenon DEF RunWire
  <2>5. ASSUME NEW x \in Metric
        PROVE  /\ Times(x) \in Seq(Metric) /\ Len(Times(x)) = n
               /\ \A k \in DOMAIN Times(x) : Times(x)[k] = x
    <3>1. Times(x) \in [1..n -> Metric]
      OBVIOUS
    <3>2. Times(x) \in Seq(Metric)
      BY <3>1, SeqDef
    <3> QED BY <3>1, <3>2, LenProperties
  <2>6. DOMAIN offer = 1..Len(offer) /\ Len(offer) \in Nat /\ \A i \in DOMAIN offer : offer[i] \in Metric
    BY <2>3
  <2> HIDE DEF Times
  <2>7. /\ DOMAIN series = DOMAIN offer
        /\ \A i \in DOMAIN series : series[i] \in Series /\ series[i].metric = offer[i]
                                    /\ series[i].samples = Times(offer[i])
    BY <2>5, <2>6 DEF Series
  <2>8. series \in Seq(Series)
    <3>1. series \in [1..Len(offer) -> Series]
      BY <2>6, <2>7
    <3> HIDE DEF series
    <3> QED BY <2>6, <3>1, SeqDef
  <2> HIDE DEF series
  <2>9. facts \in Seq(Fact)
    BY SeqDef
  <2>10. Sound(series)
    BY <2>3, <2>5, <2>6, <2>7, <2>8 DEF Sound, IsInjective
  <2>11. w \in Wire /\ w.series = series /\ w.outcome = "ok" /\ series # <<>>
    <3>1. DOMAIN series # {}
      BY <2>3, <2>6, <2>7
    <3> QED BY <2>4, <2>8, <2>9, <3>1 DEF Wire
  <2>12. ASSUME NEW m \in Metric
         PROVE  Len(SamplesOf(series, m)) = IF m \in MetricsOf(series) THEN n ELSE 0
    <3>1. CASE m \in MetricsOf(series)
      <4>1. PICK i \in DOMAIN series : series[i].metric = m
        BY <3>1 DEF MetricsOf
      <4>2. SamplesOf(series, m) = series[i].samples
        BY <2>10, <4>1, SamplesByName
      <4>3. series[i].samples = Times(offer[i]) /\ offer[i] \in Metric
        BY <2>6, <2>7, <4>1
      <4> QED BY <2>5, <3>1, <4>2, <4>3
    <3>2. CASE m \notin MetricsOf(series)
      <4>1. SamplesOf(series, m) = <<>>
        BY <2>10, <3>2, SamplesByName
      <4> QED BY <3>2, <4>1
    <3> QED BY <3>1, <3>2
  <2> QED BY <2>2, <2>10, <2>11, <2>12 DEF Said
<1> QED BY <1>1, <1>2, <1>3 DEF Replies

\* The fold of the replies so far, and of one more.
LEMMA ToldOneMore ==
  ASSUME NEW acc, NEW replies \in Seq(Wire), Told(acc, replies), Counted(acc, replies),
         NEW one, Said(one),
         \A m \in Metric : Len(SamplesOf(one.series, m)) = IF m \in MetricsOf(one.series) THEN 1 ELSE 0
  PROVE  LET w == IF one = NoWire THEN acc ELSE Merge(acc, one)
         IN  Told(w, Append(replies, one)) /\ Counted(w, Append(replies, one))
<1> DEFINE n == Len(replies)
           more == Append(replies, one)
           w == IF one = NoWire THEN acc ELSE Merge(acc, one)
<1>1. n \in Nat /\ DOMAIN replies = 1..n /\ DOMAIN more = 1..(n + 1)
      /\ (\A i \in 1..n : more[i] = replies[i]) /\ more[n + 1] = one
  BY LenProperties, AppendProperties DEF Said
<1>2. \A i \in DOMAIN more : (i \in DOMAIN replies /\ more[i] = replies[i]) \/ more[i] = one
  BY <1>1
<1>3. \A i \in DOMAIN replies : i \in DOMAIN more /\ more[i] = replies[i]
  BY <1>1
<1>4. n + 1 \in DOMAIN more
  BY <1>1
<1>5. \A m : Count(more, m) = Count(replies, m) + (IF m \in MetricsOf(one.series) THEN 1 ELSE 0)
             /\ Count(replies, m) \in Nat
  BY CountOneMore DEF Said
<1> HIDE DEF more, n
<1>6. CASE one = NoWire
  <2>1. w = acc
    BY <1>6
  <2>2. NoWire.facts = <<>> /\ MetricsOf(one.series) = {}
    BY <1>6, NothingSaid DEF NoWire
  <2>3. Told(acc, more)
    <3>1. acc = NoWire <=> \A i \in DOMAIN more : more[i] = NoWire
      BY <1>2, <1>3, <1>6 DEF Told
    <3>2. ASSUME NEW i \in DOMAIN more, more[i] # NoWire /\ more[i].outcome # "ok" PROVE acc.outcome # "ok"
      BY <1>2, <1>6, <3>2 DEF Told
    <3>3. ASSUME NEW i \in DOMAIN more, NEW k \in DOMAIN more[i].facts
          PROVE  \E j \in DOMAIN acc.facts : acc.facts[j] = more[i].facts[k]
      BY <1>2, <1>6, <2>2 DEF Told
    <3> QED BY <3>1, <3>2, <3>3 DEF Told
  <2>4. Counted(acc, more)
    BY <1>5, <2>2 DEF Counted
  <2> QED BY <2>1, <2>3, <2>4 DEF more, w
<1>7. CASE one # NoWire
  <2>1. w = Merge(acc, one)
    BY <1>7
  <2> HIDE DEF w
  <2>2. /\ Said(w) /\ w # NoWire /\ w.outcome # "none"
        /\ (acc.outcome \notin {"ok", "none"} \/ one.outcome # "ok") => w.outcome # "ok"
        /\ w.facts = IF acc = NoWire THEN one.facts ELSE acc.facts \o one.facts
        /\ \A m \in Metric :
             Len(SamplesOf(w.series, m)) = Len(SamplesOf(acc.series, m)) + Len(SamplesOf(one.series, m))
    BY <1>7, <2>1, MergeKeeps DEF Told
  <2>3. ASSUME NEW i \in DOMAIN more, more[i] # NoWire /\ more[i].outcome # "ok" PROVE w.outcome # "ok"
    <3>1. CASE more[i] = one
      BY <2>2, <2>3, <3>1
    <3>2. CASE i \in DOMAIN replies /\ more[i] = replies[i]
      <4>1. acc # NoWire /\ acc.outcome # "ok"
        BY <2>3, <3>2 DEF Told
      <4>2. acc.outcome # "none"
        BY <4>1 DEF Told, Said
      <4> QED BY <2>2, <4>1, <4>2
    <3> QED BY <1>2, <3>1, <3>2
  <2>4. acc \in Wire /\ one \in Wire /\ acc.facts \in Seq(Fact) /\ one.facts \in Seq(Fact)
    BY DEF Told, Said, Wire
  <2>5. /\ \A k \in DOMAIN one.facts : \E j \in DOMAIN w.facts : w.facts[j] = one.facts[k]
        /\ \A k \in DOMAIN acc.facts : \E j \in DOMAIN w.facts : w.facts[j] = acc.facts[k]
    <3>1. CASE acc = NoWire
      BY <2>2, <3>1 DEF NoWire
    <3>2. CASE acc # NoWire
      <4> DEFINE a == acc.facts
                 b == one.facts
      <4>1. w.facts = a \o b /\ a \in Seq(Fact) /\ b \in Seq(Fact)
        BY <2>2, <2>4, <3>2
      <4> HIDE DEF a, b
      <4>2. \A k \in DOMAIN a : k \in DOMAIN (a \o b) /\ (a \o b)[k] = a[k]
        BY <4>1
      <4>3. \A k \in DOMAIN b : Len(a) + k \in DOMAIN (a \o b) /\ (a \o b)[Len(a) + k] = b[k]
        BY <4>1
      <4> QED BY <4>1, <4>2, <4>3, Zenon DEF a, b
    <3> QED BY <3>1, <3>2
  <2>6. ASSUME NEW i \in DOMAIN more, NEW k \in DOMAIN more[i].facts
        PROVE  \E j \in DOMAIN w.facts : w.facts[j] = more[i].facts[k]
    <3>1. CASE more[i] = one
      BY <2>5, <3>1
    <3>2. CASE i \in DOMAIN replies /\ more[i] = replies[i]
      <4>1. PICK j \in DOMAIN acc.facts : acc.facts[j] = replies[i].facts[k]
        BY <3>2 DEF Told
      <4> QED BY <2>5, <3>2, <4>1
    <3> QED BY <1>2, <3>1, <3>2
  <2>7. w = NoWire <=> \A i \in DOMAIN more : more[i] = NoWire
    BY <1>1, <1>4, <1>7, <2>2 DEF more, n
  <2>8. Told(w, more)
    BY <2>2, <2>3, <2>6, <2>7 DEF Told
  <2>9. Counted(w, more)
    BY <1>5, <2>2 DEF Counted
  <2> QED BY <2>8, <2>9 DEF w, more
<1> QED BY <1>6, <1>7

-----------------------------------------------------------------------------
(* What a row says of the replies of its key. *)

FitsTo(r, replies) ==
  LET heard == {i \in DOMAIN replies : replies[i] # NoWire}
  IN  /\ \A k \in DOMAIN r.samples : r.samples[k] = r.metric
      /\ r.outcome = "ok" =>
           Len(r.samples) =
             IF Scenarios[r.at[1]].perRep
             THEN Cardinality({i \in heard : r.metric \in MetricsOf(replies[i].series)})
             ELSE r.reps
      /\ \A i \in heard : \A k \in DOMAIN replies[i].facts :
           /\ r.outcome = "ok" => replies[i].facts[k] = r.invariant
           /\ r.invariant # Null => replies[i].facts[k] = r.invariant
      /\ (\E i \in heard : replies[i].outcome # "ok") => r.outcome = "failed"
      /\ (Scenarios[r.at[1]].perRep /\ heard # DOMAIN replies) => r.confidence = "low"

Fits == \A r \in rows : FitsTo(r, said[r.at])

\* The three invariants of the runs say no more than that.
LEMMA FitsIsEnough == Fits => RowsAreWhole /\ DisagreementIsRefused /\ FailuresShow
BY DEF Fits, FitsTo, Heard, RowsAreWhole, SamplesKeepTheirMetric, NoSampleLost,
       DisagreementIsRefused, FailuresShow, FailureIsNeverHidden, SilenceLowersConfidence

\* A row has the series of its wire, or is the empty row of the primary metric.
LEMMA RowsOfWire ==
  ASSUME NEW at, NEW scenario \in Scenario, NEW w, Said(w), NEW r \in RowsOf(at, scenario, w)
  PROVE  /\ r.at = at /\ r.metric \in Metric /\ r.reps = scenario.reps
         /\ r.samples = SamplesOf(w.series, r.metric)
         /\ w.series # <<>> => r.metric \in MetricsOf(w.series)
         /\ r.outcome = OutcomeOf(w) /\ r.invariant = AgreedFact(w.facts)
         /\ r.confidence = Confidence(scenario, r.samples)
<1>1. CASE w.series = <<>>
  <2>1. r = Row(at, scenario, w, scenario.primary, <<>>)
    BY <1>1 DEF RowsOf
  <2>2. SamplesOf(w.series, scenario.primary) = <<>>
    BY <1>1 DEF SamplesOf
  <2>3. scenario.primary \in Metric
    BY DEF Scenario
  <2> QED BY <1>1, <2>1, <2>2, <2>3 DEF Row
<1>2. CASE w.series # <<>>
  <2>1. PICK i \in DOMAIN w.series :
          r = Row(at, scenario, w, w.series[i].metric, w.series[i].samples)
    BY <1>2 DEF RowsOf
  <2>2. SamplesOf(w.series, w.series[i].metric) = w.series[i].samples
    BY SamplesByName DEF Said
  <2>3. w.series[i].metric \in Metric /\ w.series[i].metric \in MetricsOf(w.series)
    <3>1. w.series[i] \in Series
      BY DEF Said, Sound
    <3> QED BY <3>1 DEF Series, MetricsOf
  <2> QED BY <2>1, <2>2, <2>3 DEF Row
<1> QED BY <1>1, <1>2

\* A row agrees with the replies, whatever its number of samples.
Tells(r, replies) ==
  /\ \A k \in DOMAIN r.samples : r.samples[k] = r.metric
  /\ \A i \in DOMAIN replies : \A k \in DOMAIN replies[i].facts :
       /\ r.outcome = "ok" => replies[i].facts[k] = r.invariant
       /\ r.invariant # Null => replies[i].facts[k] = r.invariant
  /\ (\E i \in DOMAIN replies : replies[i] # NoWire /\ replies[i].outcome # "ok")
       => r.outcome = "failed"

\* So do the rows of a wire with those it was folded from.
LEMMA RowsTellAll ==
  ASSUME NEW at, NEW scenario \in Scenario, NEW w, NEW replies \in Seq(Wire),
         Told(w, replies), w # NoWire, NEW r \in RowsOf(at, scenario, w)
  PROVE  Tells(r, replies)
<1>1. /\ r.metric \in Metric /\ r.samples = SamplesOf(w.series, r.metric)
      /\ r.outcome = OutcomeOf(w) /\ r.invariant = AgreedFact(w.facts)
  BY RowsOfWire DEF Told
<1>2. \A k \in DOMAIN r.samples : r.samples[k] = r.metric
  <2>1. Sound(w.series)
    BY DEF Told, Said
  <2>2. CASE r.metric \in MetricsOf(w.series)
    <3>1. PICK i \in DOMAIN w.series : w.series[i].metric = r.metric
      BY <2>2 DEF MetricsOf
    <3>2. r.samples = w.series[i].samples
      BY <1>1, <2>1, <3>1, SamplesByName
    <3> QED BY <2>1, <3>1, <3>2 DEF Sound
  <2>3. CASE r.metric \notin MetricsOf(w.series)
    <3>1. r.samples = <<>>
      BY <1>1, <2>1, <2>3, SamplesByName
    <3> QED BY <3>1
  <2> QED BY <2>2, <2>3
<1>3. ASSUME NEW i \in DOMAIN replies, NEW k \in DOMAIN replies[i].facts
      PROVE  /\ r.outcome = "ok" => replies[i].facts[k] = r.invariant
             /\ r.invariant # Null => replies[i].facts[k] = r.invariant
  <2>1. PICK j \in DOMAIN w.facts : w.facts[j] = replies[i].facts[k]
    BY DEF Told
  <2>2. w.facts \in Seq(Fact)
    BY DEF Told, Said, Wire
  <2>3. w.facts # <<>> /\ 1 \in DOMAIN w.facts
    BY <2>1, <2>2
  <2>4. r.outcome = "ok" => Agreed(w.facts)
    BY <1>1 DEF OutcomeOf
  <2>5. r.invariant # Null => Agreed(w.facts)
    BY <1>1 DEF AgreedFact
  <2>6. Agreed(w.facts) => r.invariant = w.facts[j]
    BY <1>1, <2>3 DEF AgreedFact, Agreed
  <2> QED BY <2>1, <2>4, <2>5, <2>6
<1>4. (\E i \in DOMAIN replies : replies[i] # NoWire /\ replies[i].outcome # "ok")
        => r.outcome = "failed"
  BY <1>1 DEF Told, OutcomeOf
<1> QED BY <1>2, <1>3, <1>4, Zenon DEF Tells

\* A process per repetition: the fold of all of them makes rows that fit.
LEMMA RepsFit ==
  ASSUME NEW at, NEW scenario \in Scenario, scenario = Scenarios[at[1]], scenario.perRep,
         NEW w, NEW replies \in Seq(Wire),
         Told(w, replies), Counted(w, replies), w # NoWire, Len(replies) = scenario.reps,
         NEW r \in RowsOf(at, scenario, w)
  PROVE  FitsTo(r, replies)
<1> DEFINE heard == {i \in DOMAIN replies : replies[i] # NoWire}
           published == {i \in DOMAIN replies : r.metric \in MetricsOf(replies[i].series)}
<1>1. /\ r.at = at /\ r.metric \in Metric /\ r.samples = SamplesOf(w.series, r.metric)
      /\ r.confidence = Confidence(scenario, r.samples)
  BY RowsOfWire DEF Told
<1>2. Len(r.samples) = Cardinality(published)
  BY <1>1 DEF Counted, Count
<1>3. \A i \in published : replies[i] # NoWire
  BY NothingSaid
<1>4. published = {i \in heard : r.metric \in MetricsOf(replies[i].series)}
  BY <1>3
<1>5. heard # DOMAIN replies => r.confidence = "low"
  <2> SUFFICES ASSUME heard # DOMAIN replies PROVE r.confidence = "low"
    OBVIOUS
  <2>1. PICK i \in DOMAIN replies : replies[i] = NoWire
    OBVIOUS
  <2>2. DOMAIN replies = 1..Len(replies) /\ Len(replies) \in Nat
    BY LenProperties
  <2>3. IsFiniteSet(1..Len(replies)) /\ Cardinality(1..Len(replies)) = Len(replies)
    <3> DEFINE n == Len(replies)
    <3>1. n \in Nat
      BY <2>2
    <3> HIDE DEF n
    <3>2. IsFiniteSet(1..n) /\ Cardinality(1..n) = n
      BY <3>1, FS_Interval
    <3> QED BY <3>2 DEF n
  <2>4. published \subseteq DOMAIN replies /\ published # DOMAIN replies
    BY <1>3, <2>1
  <2> HIDE DEF published
  <2>5. Cardinality(published) \in Nat /\ Cardinality(published) < Len(replies)
    BY <2>2, <2>3, <2>4, FS_Subset, FS_CardinalityType
  <2> QED BY <1>1, <1>2, <2>5 DEF Confidence
<1>6. Tells(r, replies)
  BY RowsTellAll, Zenon
<1> HIDE DEF published
<1>7. Scenarios[r.at[1]].perRep
  BY <1>1, Zenon
<1> QED BY <1>2, <1>4, <1>5, <1>6, <1>7, Zenon DEF FitsTo, Tells

\* One process for all of them: so do the rows of its wire.
LEMMA RunFits ==
  ASSUME NEW at, NEW scenario \in Scenario, scenario = Scenarios[at[1]], ~scenario.perRep,
         \A offer \in scenario.offers : IsInjective(offer) /\ offer # <<>>,
         NEW w \in Replies(scenario, scenario.reps), w # NoWire,
         NEW r \in RowsOf(at, scenario, w)
  PROVE  FitsTo(r, <<w>>)
<1> DEFINE reps == scenario.reps
<1>1. reps \in Nat \ {0}
  BY DEF Scenario
<1> HIDE DEF reps
<1>2. /\ Said(w)
      /\ (w.outcome = "ok" <=> w.series # <<>>)
      /\ \A m \in Metric : Len(SamplesOf(w.series, m)) = IF m \in MetricsOf(w.series) THEN reps ELSE 0
  BY <1>1, RepliesAreSaid, Zenon DEF reps
<1> DEFINE replies == <<w>>
<1>3. replies \in Seq(Wire) /\ DOMAIN replies = {1} /\ replies[1] = w
  <2>1. w \in Wire
    BY <1>2 DEF Said
  <2> QED BY <2>1
<1> HIDE DEF replies
<1>4. Told(w, replies)
  BY <1>2, <1>3, Zenon DEF Told
<1>5. /\ r.at = at /\ r.metric \in Metric /\ r.samples = SamplesOf(w.series, r.metric)
      /\ r.reps = reps /\ r.outcome = OutcomeOf(w)
      /\ w.series # <<>> => r.metric \in MetricsOf(w.series)
  BY <1>2, RowsOfWire DEF reps
<1>6. r.outcome = "ok" => Len(r.samples) = r.reps
  BY <1>2, <1>5 DEF OutcomeOf
<1>7. Tells(r, replies)
  BY <1>3, <1>4, RowsTellAll, Zenon
<1>8. ~Scenarios[r.at[1]].perRep
  BY <1>5, Zenon
<1>9. FitsTo(r, replies)
  BY <1>6, <1>7, <1>8, Zenon DEF FitsTo, Tells
<1> QED BY <1>9 DEF replies
-----------------------------------------------------------------------------
(* The walk of a cell. *)

\* The keys of this cell whose children are yet to run, or are running.
Ahead == {k \in Key : k[1] > scen \/ (k[1] = scen /\ (turn = 1 \/ k = Here))}

\* Where the walk stands: nothing was said and no row written for what is ahead,
\* and what is folded is what the children of this key said.
Place ==
  /\ \A k \in Ahead : k # Here => said[k] = <<>>
  /\ \A r \in rows : r.at \notin Ahead
  /\ Len(said[Here]) = rep
  /\ ~Scenarios[scen].perRep => rep = 0
  /\ Told(merged, said[Here]) /\ Counted(merged, said[Here])

WalkInv ==
  /\ turn \in 1..2 /\ rep \in Nat /\ scen \in 0..Len(Scenarios)
  /\ said \in [Key -> Seq(Wire)]
  /\ \A r \in rows : r.at \in Key
  /\ Fits
  /\ scen = 0 => rep = 0 /\ merged = NoWire
  /\ scen > 0 => Place

\* Whatever the order, the two turns are two backends.
LEMMA TurnsAreBackends ==
  ASSUME NEW s
  PROVE  /\ Order(s)[1] \in Backend /\ Order(s)[2] \in Backend
         /\ Order(s)[1] # Order(s)[2]
<1>1. Len(Backends) = 2 /\ Backends[1] = "pmtiles" /\ Backends[2] = "directory"
  BY DEF Backends
<1>2. Reverse(Backends) = [i \in 1..2 |-> Backends[2 - i + 1]]
  BY <1>1 DEF Reverse
<1>3. Reverse(Backends)[1] = "directory" /\ Reverse(Backends)[2] = "pmtiles"
  BY <1>1, <1>2
<1> QED BY <1>1, <1>3 DEF Order, Backend

\* The walk stands at a key that is ahead, and moves on to another one that is.
LEMMA OnToTheNext ==
  ASSUME SweepAssumption, turn \in 1..2, scen \in 1..Len(Scenarios)
  PROVE  /\ Here \in Key /\ Here \in Ahead
         /\ Advance =>
              /\ turn' \in 1..2 /\ scen' \in 0..Len(Scenarios) /\ rep' = 0 /\ merged' = NoWire
              /\ scen' > 0 => Here' \in Ahead /\ Here' # Here /\ Ahead' \subseteq Ahead \ {Here}
<1>1. Len(Backends) = 2
  BY DEF Backends
<1>2. Len(Scenarios) \in Nat /\ DOMAIN Scenarios = 1..Len(Scenarios)
  BY DEF SweepAssumption
<1>3. /\ \A s : Order(s)[1] \in Backend /\ Order(s)[2] \in Backend /\ Order(s)[1] # Order(s)[2]
  BY TurnsAreBackends
<1>4. Here \in Key /\ Here \in Ahead
  BY <1>2, <1>3 DEF Here, Key, Ahead
<1>5. ASSUME Advance
      PROVE  /\ turn' \in 1..2 /\ scen' \in 0..Len(Scenarios) /\ rep' = 0 /\ merged' = NoWire
             /\ scen' > 0 => Here' \in Ahead /\ Here' # Here /\ Ahead' \subseteq Ahead \ {Here}
  <2>1. CASE turn = 1
    <3>1. turn' = 2 /\ scen' = scen /\ rep' = 0 /\ merged' = NoWire
      BY <1>1, <1>5, <2>1 DEF Advance
    <3>2. Here = <<scen, Order(scen)[1]>> /\ Here' = <<scen, Order(scen)[2]>>
      BY <2>1, <3>1 DEF Here
    <3>3. Here' \in Ahead /\ Here' # Here
      BY <1>2, <1>3, <2>1, <3>2 DEF Key, Ahead
    <3>4. ASSUME NEW k \in Ahead' PROVE k \in Ahead /\ k # Here
      BY <2>1, <3>1, <3>2, <3>3 DEF Key, Ahead
    <3> QED BY <3>1, <3>3, <3>4
  <2>2. CASE turn = 2
    <3>1. turn' = 1 /\ rep' = 0 /\ merged' = NoWire
          /\ scen' = IF scen = Len(Scenarios) THEN 0 ELSE scen + 1
      BY <1>1, <1>5, <2>2 DEF Advance
    <3>2. ASSUME scen' > 0
          PROVE  Here' \in Ahead /\ Here' # Here /\ Ahead' \subseteq Ahead \ {Here}
      <4>1. scen' = scen + 1 /\ scen' \in DOMAIN Scenarios
        <5>1. scen # Len(Scenarios) /\ scen' = scen + 1
          BY <3>1, <3>2
        <5> DEFINE n == Len(Scenarios)
        <5>2. n \in Nat /\ DOMAIN Scenarios = 1..n /\ scen \in 1..n
          BY <1>2
        <5> HIDE DEF n
        <5>3. scen # n
          BY <5>1 DEF n
        <5>4. scen + 1 \in 1..n
          BY <5>2, <5>3
        <5> QED BY <5>1, <5>2, <5>4
      <4>2. Here' = <<scen + 1, Order(scen + 1)[1]>> /\ Here[1] = scen
        BY <3>1, <4>1 DEF Here
      <4>3. Here' \in Ahead /\ Here' # Here
        BY <1>3, <4>1, <4>2 DEF Key, Ahead
      <4>4. ASSUME NEW k \in Ahead' PROVE k \in Ahead /\ k # Here
        <5>1. k \in Key /\ k[1] \in Nat /\ (k[1] > scen + 1 \/ k[1] = scen + 1)
          BY <1>2, <4>1 DEF Key, Ahead
        <5> QED BY <4>2, <5>1 DEF Ahead
      <4> QED BY <4>3, <4>4
    <3>3. scen' \in 0..Len(Scenarios)
      <4>1. CASE scen = Len(Scenarios)
        BY <1>2, <3>1, <4>1
      <4>2. CASE scen # Len(Scenarios)
        <5> DEFINE n == Len(Scenarios)
        <5>1. scen' = scen + 1 /\ scen # n
          BY <3>1, <4>2
        <5>2. n \in Nat /\ scen \in 1..n
          BY <1>2
        <5> HIDE DEF n
        <5>3. scen' \in 0..n
          BY <5>1, <5>2
        <5> QED BY <5>3 DEF n
      <4> QED BY <4>1, <4>2
    <3> QED BY <3>1, <3>2, <3>3
  <2> QED BY <2>1, <2>2
<1> QED BY <1>4, <1>5

\* A key is left: its rows, if it has any, fit what its children said.
LEMMA LeavesAKey ==
  ASSUME SweepAssumption, WalkInv, scen > 0, Advance,
         said' \in [Key -> Seq(Wire)], \A k \in Key : k # Here => said'[k] = said[k],
         \A r \in rows' : r \in rows \/ (r.at = Here /\ FitsTo(r, said'[Here]))
  PROVE  WalkInv'
<1>1. turn \in 1..2 /\ scen \in 1..Len(Scenarios) /\ Place
  BY DEF WalkInv
<1>2. /\ Here \in Key /\ Here \in Ahead
      /\ turn' \in 1..2 /\ scen' \in 0..Len(Scenarios) /\ rep' = 0 /\ merged' = NoWire
      /\ scen' > 0 => Here' \in Ahead /\ Here' # Here /\ Ahead' \subseteq Ahead \ {Here}
  BY <1>1, OnToTheNext
<1>3. ASSUME NEW r \in rows'
      PROVE  r.at \in Key /\ FitsTo(r, said'[r.at]) /\ (r.at \in Ahead => r.at = Here)
  <2>1. CASE r \in rows
    <3>1. r.at \in Key /\ r.at # Here /\ r.at \notin Ahead /\ FitsTo(r, said[r.at])
      BY <1>1, <1>2, <2>1 DEF WalkInv, Place, Fits
    <3> QED BY <3>1
  <2>2. CASE r.at = Here /\ FitsTo(r, said'[Here])
    BY <1>2, <2>2
  <2> QED BY <2>1, <2>2
<1>4. Fits'
  BY <1>3, Zenon DEF Fits, FitsTo
<1>5. ASSUME scen' > 0 PROVE Place'
  <2>1. \A k \in Ahead' : k \in Key /\ said'[k] = <<>>
    BY <1>1, <1>2, <1>5 DEF Place, Ahead
  <2>2. \A r \in rows' : r.at \notin Ahead'
    BY <1>2, <1>3, <1>5
  <2>3. said'[Here'] = <<>>
    BY <1>1, <1>2, <1>5 DEF Place, Ahead
  <2>4. Told(merged', said'[Here']) /\ Counted(merged', said'[Here'])
    BY <1>2, <2>3, NothingSaid
  <2> QED BY <1>2, <2>1, <2>2, <2>3, <2>4 DEF Place
<1> QED BY <1>2, <1>3, <1>4, <1>5 DEF WalkInv

\* Nothing has been said.
LEMMA WalkInit == SweepAssumption /\ Init => WalkInv
<1> SUFFICES ASSUME SweepAssumption, Init PROVE WalkInv
  OBVIOUS
<1>1. Len(Scenarios) \in Nat
  BY DEF SweepAssumption
<1>2. said \in [Key -> Seq(Wire)]
  BY EmptySeq DEF Init
<1> QED BY <1>1, <1>2 DEF Init, WalkInv, Fits

\* The walk keeps the invariant: one step per action.
LEMMA WalkNext == SweepAssumption /\ WalkInv /\ [Next]_vars => WalkInv'
<1> SUFFICES ASSUME SweepAssumption, WalkInv, [Next]_vars PROVE WalkInv'
  OBVIOUS
<1>1. /\ Len(Scenarios) \in Nat /\ DOMAIN Scenarios = 1..Len(Scenarios) /\ Len(Scenarios) > 0
      /\ \A i \in DOMAIN Scenarios :
           /\ Scenarios[i] \in Scenario
           /\ \A offer \in Scenarios[i].offers : IsInjective(offer) /\ offer # <<>>
  BY DEF SweepAssumption
<1>2. ASSUME Walking
      PROVE  /\ scen > 0 /\ scen \in DOMAIN Scenarios /\ Place
             /\ Here \in Key /\ Here \in Ahead /\ Here[1] = scen /\ said[Here] \in Seq(Wire)
  <2>1. turn \in 1..2 /\ scen \in 1..Len(Scenarios)
    BY <1>1, <1>2 DEF WalkInv, Walking
  <2>2. Here \in Key /\ Here \in Ahead
    BY <2>1, OnToTheNext
  <2> QED BY <1>1, <2>1, <2>2 DEF WalkInv, Here
<1>3. CASE UNCHANGED vars
  <2>1. UNCHANGED <<scen, turn, rep, merged, rows, said>> /\ Here' = Here /\ Ahead' = Ahead
    BY <1>3 DEF vars, Here, Ahead
  <2>2. Fits'
    <3>1. \A r \in rows : FitsTo(r, said[r.at])
      BY DEF WalkInv, Fits
    <3>2. \A r \in rows' : FitsTo(r, said'[r.at])
      BY <2>1, <3>1
    <3> QED BY <3>2, Zenon DEF Fits, FitsTo
  <2>3. scen > 0 => Place'
    BY <2>1 DEF WalkInv, Place
  <2> QED BY <2>1, <2>2, <2>3 DEF WalkInv
<1>4. CASE Artefacts
  <2>1. /\ scen = 0 /\ scen' = 1 /\ rows' = {} /\ said' = [k \in Key |-> <<>>]
        /\ turn' = turn /\ rep' = 0 /\ merged' = NoWire
    BY <1>4 DEF Artefacts, WalkInv
  <2>2. said' \in [Key -> Seq(Wire)]
    BY <2>1, EmptySeq
  <2>3. turn' \in 1..2 /\ scen' \in 1..Len(Scenarios)
    BY <1>1, <2>1 DEF WalkInv
  <2>4. Here' \in Key
    BY <1>1, <2>1, <2>3, TurnsAreBackends DEF Here, Key
  <2>5. said'[Here'] = <<>>
    BY <2>1, <2>4
  <2>6. Place'
    BY <2>1, <2>5, NothingSaid DEF Place, Ahead
  <2>7. Fits'
    BY <2>1 DEF Fits
  <2> QED BY <2>1, <2>2, <2>3, <2>6, <2>7 DEF WalkInv
<1>5. CASE SkipMissing
  BY <1>2, <1>5, LeavesAKey DEF SkipMissing, WalkInv
<1>6. CASE RunScenario
  <2> DEFINE scenario == Scenarios[scen]
  <2>1. Walking /\ ~scenario.perRep /\ Advance
    BY <1>6 DEF RunScenario
  <2>2. PICK reply \in Replies(scenario, scenario.reps) : Hear(reply) /\ Emit(reply)
    BY <1>6 DEF RunScenario
  <2>3. scenario \in Scenario /\ scenario.reps \in Nat \ {0}
        /\ \A offer \in scenario.offers : IsInjective(offer) /\ offer # <<>>
    BY <1>1, <1>2, <2>1 DEF Scenario
  <2>4. said[Here] = <<>>
    BY <1>2, <2>1 DEF Place
  <2>5. reply \in Wire
    BY <2>3, RepliesAreSaid DEF Said
  <2>6. said'[Here] = <<reply>> /\ said' \in [Key -> Seq(Wire)]
        /\ \A k \in Key : k # Here => said'[k] = said[k]
    BY <1>2, <2>1, <2>2, <2>4, <2>5 DEF Hear, WalkInv
  <2>7. ASSUME NEW r \in rows', r \notin rows
        PROVE  r.at = Here /\ FitsTo(r, said'[Here])
    <3>1. reply # NoWire /\ r \in RowsOf(Here, scenario, reply)
      BY <2>2, <2>7 DEF Emit
    <3>2. r.at = Here
      BY <3>1, RowsCarryTheVerdict
    <3>3. scenario = Scenarios[Here[1]]
      BY <1>2, <2>1
    <3> HIDE DEF scenario
    <3>4. FitsTo(r, <<reply>>)
      BY <2>1, <2>3, <3>1, <3>3, RunFits
    <3> QED BY <2>6, <3>2, <3>4
  <2> QED BY <1>2, <2>1, <2>6, <2>7, LeavesAKey
<1>7. CASE RunRep
  <2> DEFINE scenario == Scenarios[scen]
  <2>1. Walking /\ scenario.perRep /\ rep' = rep + 1
        /\ UNCHANGED <<cell, scen, turn, artefact, verdict, rows>>
    BY <1>7 DEF RunRep
  <2>2. PICK reply \in Replies(scenario, 1) :
          Hear(reply) /\ merged' = IF reply = NoWire THEN merged ELSE Merge(merged, reply)
    BY <1>7 DEF RunRep
  <2>3. scenario \in Scenario
        /\ \A offer \in scenario.offers : IsInjective(offer) /\ offer # <<>>
    BY <1>1, <1>2, <2>1
  <2> HIDE DEF scenario
  <2>4. /\ Said(reply)
        /\ \A m \in Metric :
             Len(SamplesOf(reply.series, m)) = IF m \in MetricsOf(reply.series) THEN 1 ELSE 0
    BY <2>3, RepliesAreSaid
  <2> DEFINE replies == said[Here]
  <2>5. replies \in Seq(Wire) /\ Len(replies) = rep
        /\ Told(merged, replies) /\ Counted(merged, replies)
    BY <1>2, <2>1 DEF Place
  <2>6. reply \in Wire
    BY <2>4 DEF Said
  <2>7. /\ said'[Here] = Append(replies, reply) /\ said' \in [Key -> Seq(Wire)]
        /\ \A k \in Key : k # Here => said'[k] = said[k]
    BY <1>2, <2>1, <2>2, <2>5, <2>6 DEF Hear, WalkInv
  <2> HIDE DEF replies
  <2>8. Told(merged', said'[Here]) /\ Counted(merged', said'[Here])
    BY <2>2, <2>4, <2>5, <2>7, ToldOneMore
  <2>9. Len(said'[Here]) = rep'
    BY <2>1, <2>5, <2>6, <2>7
  <2>10. Here' = Here /\ Ahead' = Ahead /\ rows' = rows
    BY <2>1 DEF Here, Ahead
  <2>11. ASSUME NEW r \in rows PROVE r.at \in Key /\ r.at \notin Ahead /\ said'[r.at] = said[r.at]
    <3>1. r.at \in Key /\ r.at \notin Ahead
      BY <1>2, <2>1 DEF WalkInv, Place
    <3> QED BY <1>2, <2>1, <2>7, <3>1
  <2>12. Fits'
    <3>1. \A r \in rows : FitsTo(r, said[r.at])
      BY DEF WalkInv, Fits
    <3>2. \A r \in rows : FitsTo(r, said'[r.at])
      BY <2>11, <3>1
    <3> QED BY <2>10, <3>2, Zenon DEF Fits, FitsTo
  <2>13. \A k \in Ahead' : k # Here' => said'[k] = <<>>
    BY <1>2, <2>1, <2>7, <2>10 DEF Place, Ahead
  <2>14. Place'
    BY <2>1, <2>8, <2>9, <2>10, <2>11, <2>13 DEF Place, scenario
  <2> QED BY <1>2, <2>1, <2>7, <2>10, <2>11, <2>12, <2>14 DEF WalkInv
<1>8. CASE EmitReps
  <2> DEFINE scenario == Scenarios[scen]
  <2>1. Walking /\ scenario.perRep /\ rep = scenario.reps /\ Emit(merged) /\ Advance
        /\ said' = said
    BY <1>8 DEF EmitReps
  <2>2. scenario \in Scenario /\ scenario = Scenarios[Here[1]]
    BY <1>1, <1>2, <2>1
  <2>3. said[Here] \in Seq(Wire) /\ Len(said[Here]) = scenario.reps
        /\ Told(merged, said[Here]) /\ Counted(merged, said[Here])
    BY <1>2, <2>1 DEF Place
  <2>4. ASSUME NEW r \in rows', r \notin rows
        PROVE  r.at = Here /\ FitsTo(r, said'[Here])
    <3>1. merged # NoWire /\ r \in RowsOf(Here, scenario, merged)
      BY <2>1, <2>4 DEF Emit
    <3>2. r.at = Here
      BY <3>1, RowsCarryTheVerdict
    <3> HIDE DEF scenario
    <3>3. FitsTo(r, said[Here])
      BY <2>1, <2>2, <2>3, <3>1, RepsFit
    <3> QED BY <2>1, <3>2, <3>3
  <2>5. said' \in [Key -> Seq(Wire)]
    BY <2>1 DEF WalkInv
  <2> QED BY <1>2, <2>1, <2>4, <2>5, LeavesAKey
<1> QED BY <1>3, <1>4, <1>5, <1>6, <1>7, <1>8 DEF Next

\* Throughout the walk, what is folded and what is published is what was said.
LEMMA WalkIsTold == Spec => []WalkInv
<1>1. Init => WalkInv
  BY WalkInit, SweepAssumption
<1>2. WalkInv /\ [Next]_vars => WalkInv'
  BY WalkNext, SweepAssumption
<1> QED BY <1>1, <1>2, PTL DEF Spec

\* merge_wire() and rows_from_wire(): for every walk, a row has each sample its
\* children reported for its metric, once, and no sample of another metric.
THEOREM RowsAreTheirChildren == Spec => []RowsAreWhole
<1>1. WalkInv => RowsAreWhole
  BY FitsIsEnough DEF WalkInv
<1> QED BY <1>1, WalkIsTold, PTL

\* agreed(): whatever the number of repetitions, an ok row and a published
\* invariant are what every child that said something saw.
THEOREM DisagreementIsSeen == Spec => []DisagreementIsRefused
<1>1. WalkInv => DisagreementIsRefused
  BY FitsIsEnough DEF WalkInv
<1> QED BY <1>1, WalkIsTold, PTL

\* A failed child makes its rows failed ones, and a silent one lowers their
\* confidence, whichever of the repetitions it is.
THEOREM FailuresAreSeen == Spec => []FailuresShow
<1>1. WalkInv => FailuresShow
  BY FitsIsEnough DEF WalkInv
<1> QED BY <1>1, WalkIsTold, PTL
=============================================================================
