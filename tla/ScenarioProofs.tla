--------------------------- MODULE ScenarioProofs ---------------------------
(***************************************************************************)
(* For every plan, number of repetitions and number of faults: the two     *)
(* phases of a write are measured apart (SplitInv), and what a scenario    *)
(* answers is whole (ChildInv, one part for each kind of scenario).  The   *)
(* lemmas in between are about sequences: numbered indices, pieces that    *)
(* make a whole, and the chunks of a walk.                                 *)
(***************************************************************************)
EXTENDS Scenarios, SequenceProofs

\* A sink is what it holds and who finished it.
IsSink(s) == s = [tiles |-> s.tiles, finishes |-> s.finishes]

\* A sample of a repetition that finished once, when everything was there.
IsApart(sample) == sample.finishes = <<[tiles |-> Tiles, clock |-> "finalize"]>>

AllApart(samples) ==
  /\ \E S : samples \in Seq(S)
  /\ \A i \in DOMAIN samples : IsApart(samples[i])

\* While the engine writes, nobody has finished the sink; between its return and
\* the finalize, neither, and the tiles are all there.
SplitInv ==
  job.scenario \in Split =>
    /\ stage \in {"start", "write", "finalize", "written", "done"}
    /\ IsSink(sink)
    /\ stage \in {"write", "finalize"} => sink.finishes = <<>>
    /\ stage = "finalize" => sink.tiles = Tiles /\ clock = "finalize"
    /\ AllApart(kept)

-----------------------------------------------------------------------------
\* One more such sample.
LEMMA KeepApart ==
  ASSUME NEW s, AllApart(s), NEW e, IsApart(e)
  PROVE  AllApart(Append(s, e))
<1>1. PICK S : s \in Seq(S)
  BY DEF AllApart
<1> DEFINE T == S \cup {e}
           g == Append(s, e)
<1>2. s \in Seq(T) /\ e \in T
  <2>1. Len(s) \in Nat /\ DOMAIN s = 1..Len(s) /\ s \in [1..Len(s) -> S]
    BY <1>1, LenProperties
  <2>2. s \in [1..Len(s) -> T]
    BY <2>1
  <2> QED BY <2>1, <2>2, SeqDef
<1>3. /\ g \in Seq(T) /\ DOMAIN g = 1..(Len(s) + 1) /\ Len(s) \in Nat /\ DOMAIN s = 1..Len(s)
      /\ \A i \in 1..Len(s) : g[i] = s[i]
      /\ g[Len(s) + 1] = e
  BY <1>2, AppendProperties, LenProperties
<1> HIDE DEF g, T
<1>4. \A i \in DOMAIN g : IsApart(g[i])
  <2>1. \A i \in 1..(Len(s) + 1) : i \in 1..Len(s) \/ i = Len(s) + 1
    BY <1>3, SMT
  <2>2. \A i \in 1..Len(s) : IsApart(g[i])
    BY <1>3 DEF AllApart
  <2> QED BY <1>3, <2>1, <2>2
<1>5. AllApart(g)
  BY <1>3, <1>4, Zenon DEF AllApart
<1> QED BY <1>5 DEF g

\* What a split scenario's child does is writing.
LEMMA OnlyWriting ==
  ASSUME SplitInv, job.scenario \in Split, Next PROVE Writing
<1>1. /\ job.scenario \notin Walks
      /\ job.scenario \notin {"open", "first_lookup", "first_lookup_children", "split_pass",
                              "decode_root", "requests"}
      /\ stage \notin {"pass", "counted", "root_lookup", "leaf_lookup_cold", "leaf_lookup_warm",
                       "random_walk"}
  BY SMT DEF SplitInv, Split, Walks
<1>2. ~Reading
  BY <1>1, Zenon DEF Reading, BeginWalk, Start, StartPass, EndOfWalk, Unwind, Join
<1>3. ~Opening
  <2>1. stage \notin DOMAIN Operations
    BY <1>1 DEF Operations
  <2> QED BY <1>1, <2>1, SMT DEF Opening, Open, FirstLookup, SpawnChild, SplitOne, DecodeRoot,
            FreshCounting, Counted, DeclareDirectory, AnswerRequests, Start
<1> QED BY <1>2, <1>3 DEF Next

\* Nothing was kept yet.
LEMMA SplitInit == Init => SplitInv
<1> SUFFICES ASSUME Init PROVE SplitInv
  OBVIOUS
<1>1. kept = <<>> /\ stage = "start" /\ sink = [tiles |-> 0, finishes |-> <<>>]
  BY DEF Init, InitScenario, InitWriting, Unwritten
<1>2. AllApart(kept)
  BY <1>1 DEF AllApart
<1>3. IsSink(sink)
  BY <1>1 DEF IsSink
<1> QED BY <1>1, <1>2, <1>3 DEF SplitInv

\* The steps that keep no sample.
LEMMA SplitWrites ==
  ASSUME SplitInv, job.scenario \in Split, BeginWrite \/ WriteTile \/ EngineFinishes \/ EndOfWrites
  PROVE  SplitInv'
<1>1. kept' = kept /\ job' = job
  BY DEF BeginWrite, WriteTile, EngineFinishes, EndOfWrites, Failed, Answer
<1>2. AllApart(kept')
  BY <1>1 DEF SplitInv
<1>3. stage' \in {"write", "written", "done"}
  BY DEF BeginWrite, WriteTile, EngineFinishes, EndOfWrites, Failed, Answer
<1>4. IsSink(sink') /\ (stage' = "write" => sink'.finishes = <<>>)
  <2>1. CASE BeginWrite
    BY <2>1 DEF BeginWrite, Unwritten, SplitInv, IsSink, Failed, Answer
  <2>2. CASE WriteTile
    BY <2>2 DEF WriteTile, SplitInv, IsSink, Failed, Answer
  <2>3. CASE EngineFinishes \/ EndOfWrites
    <3>1. sink' = sink
      BY <2>3 DEF EngineFinishes, Finish, EndOfWrites
    <3>2. stage' = "write" => stage = "write"
      BY <2>3 DEF EngineFinishes, EndOfWrites, Answer
    <3> QED BY <3>1, <3>2 DEF SplitInv
  <2> QED BY <2>1, <2>2, <2>3
<1> QED BY <1>1, <1>2, <1>3, <1>4 DEF SplitInv

\* DeferFinish did not pass the finish on, so the clock of the ingest stops over a
\* sink nobody has finished.
LEMMA SplitReturns ==
  ASSUME SplitInv, job.scenario \in Split, EngineReturns PROVE SplitInv'
<1>1. kept' = kept /\ job' = job /\ sink' = sink /\ stage = "write"
  BY DEF EngineReturns, Failed, Answer, Split
<1>2. AllApart(kept')
  BY <1>1 DEF SplitInv
<1>3. \/ stage' = "finalize" /\ clock' = "finalize" /\ sink.tiles = Tiles
      \/ stage' = "done"
  BY DEF EngineReturns, Failed, Answer, Split
<1>4. IsSink(sink') /\ sink'.finishes = <<>>
  BY <1>1 DEF SplitInv
<1> QED BY <1>1, <1>2, <1>3, <1>4 DEF SplitInv

\* The one finish is the one by hand.
LEMMA SplitFinalizes ==
  ASSUME SplitInv, job.scenario \in Split, Finalize PROVE SplitInv'
<1>1. job' = job /\ stage = "finalize" /\ stage' \in {"written", "done"}
  BY DEF Finalize, Failed, Answer
<1>2. CASE kept' = kept /\ sink' = sink
  BY <1>1, <1>2 DEF SplitInv
<1>3. CASE sink' = [sink EXCEPT !.finishes = Finished] /\ Keep(sink')
  <2>1. Finished = <<[tiles |-> Tiles, clock |-> "finalize"]>>
    <3>1. sink.finishes = <<>> /\ sink.tiles = Tiles /\ clock = "finalize"
      BY <1>1 DEF SplitInv
    <3>2. Finished = Append(<<>>, [tiles |-> Tiles, clock |-> "finalize"])
      BY <3>1, Zenon DEF Finished
    <3>3. \A e : Append(<<>>, e) = <<e>>
      OBVIOUS
    <3> QED BY <3>2, <3>3
  <2>2. IsSink(sink') /\ sink'.finishes = Finished
    BY <1>1, <1>3 DEF SplitInv, IsSink
  <2>3. PICK n : kept' = Append(kept, Numbered(sink', n))
    BY <1>3, Zenon DEF Keep
  <2>4. IsApart(Numbered(sink', n))
    <3>1. "finishes" \in DOMAIN sink'
      BY <2>2 DEF IsSink
    <3>2. Numbered(sink', n).finishes = sink'.finishes
      BY <3>1 DEF Numbered
    <3> QED BY <2>1, <2>2, <3>2 DEF IsApart
  <2>5. AllApart(kept')
    BY <1>1, <2>3, <2>4, KeepApart DEF SplitInv
  <2> QED BY <1>1, <2>2, <2>5 DEF SplitInv
<1> QED BY <1>2, <1>3 DEF Finalize, Failed, Answer

\* Every step of every scenario, and every stutter, keeps the invariant.
LEMMA SplitNext == SplitInv /\ [Next]_vars => SplitInv'
<1> SUFFICES ASSUME SplitInv, [Next]_vars PROVE SplitInv'
  OBVIOUS
<1>1. job' = job
  <2>1. CASE UNCHANGED vars
    BY <2>1 DEF vars, svars
  <2>2. CASE Reading
    BY <2>2, Zenon DEF Reading, BeginWalk, StartPass, EndOfWalk, Unwind, Lookup, Break, Join, svars
  <2>3. CASE Opening
    BY <2>3, Zenon DEF Opening, Open, FirstLookup, SpawnChild, SplitOne, DecodeRoot,
            FreshCounting, Counted, DeclareDirectory, AnswerRequests
  <2>4. CASE Writing
    BY <2>4, Zenon DEF Writing, BeginWrite, WriteTile, EngineFinishes, EngineReturns, Finalize,
            EndOfWrites
  <2> QED BY <2>1, <2>2, <2>3, <2>4 DEF Next
<1>2. CASE job.scenario \notin Split
  BY <1>1, <1>2 DEF SplitInv
<1>3. CASE job.scenario \in Split /\ UNCHANGED vars
  BY <1>3 DEF vars, svars, SplitInv
<1>4. CASE job.scenario \in Split /\ Next
  BY <1>4, OnlyWriting, SplitWrites, SplitReturns, SplitFinalizes DEF Writing
<1> QED BY <1>2, <1>3, <1>4

-----------------------------------------------------------------------------
\* DeferFinish and run() of write_split.rs: in a repetition the split keeps,
\* whatever went wrong in those before it, the sink was finished once, with every
\* tile there, on the clock of the finalize, and never on that of the ingest.
THEOREM PhasesAreApart == Spec => []FinalizeIsApart
<1>1. SplitInv => FinalizeIsApart
  BY DEF SplitInv, AllApart, IsApart, FinalizeIsApart
<1> QED BY <1>1, SplitInit, SplitNext, PTL DEF Spec

-----------------------------------------------------------------------------
(* What each scenario is at, and what it has.                               *)

IsASequence(s) == \E S : s \in Seq(S)

Operating == {"root_lookup", "leaf_lookup_cold", "leaf_lookup_warm", "random_walk"}

\* The stages a scenario goes through.
Staged ==
  /\ job.scenario \in Walks => stage \in {"start", "between", "pass", "done"}
  /\ job.scenario \in Writes => stage \in {"start", "write", "finalize", "written", "done"}
  /\ job.scenario \in {"open", "first_lookup"} => stage \in {"start", "done"}
  /\ job.scenario = "decode_root" => stage \in {"start", "decode", "done"}
  /\ job.scenario = "requests" => stage \in Operating \cup {"start", "counted", "done"}
  /\ job.scenario = "first_lookup_children" => stage \in {"start", "children", "done"}
  /\ job.scenario = "split_pass" => stage \in {"start", "split", "done"}

\* A sample of the n-th pass that was kept.
OfTheWalk(sample, n) ==
  /\ sample.nth = 1 + n
  /\ Len(sample.looked) = Len(PlanOrder)
  /\ ToSet(sample.looked) = ToSet(PlanOrder)

\* What a thread has done and what it has to do are its chunk.
AtItsChunk(t) ==
  LET thread == threads[t]
  IN  /\ thread = [todo |-> thread.todo, looked |-> thread.looked, stands |-> thread.stands]
      /\ thread.todo \in Seq(ToSet(PlanOrder)) /\ thread.looked \in Seq(ToSet(PlanOrder))
      /\ thread.looked \o thread.todo = Chunks(Walk, job.threads)[t]
      /\ thread.stands = "through" => thread.todo = <<>>

\* The pass of the warm-up is discarded, the others are kept.
Passes ==
  /\ left \in Nat /\ left <= 1 + Reps
  /\ IsASequence(discarded) /\ Len(discarded) = (IF left = 1 + Reps THEN 0 ELSE 1)
  /\ IsASequence(kept) /\ Len(kept) = (IF left = 1 + Reps THEN 0 ELSE Reps - left)
  /\ \A i \in DOMAIN kept : OfTheWalk(kept[i], i)

Walked ==
  /\ stage # "done" => Passes
  /\ stage = "pass" =>
       left > 0 /\ DOMAIN threads = 1..job.threads /\ \A t \in 1..job.threads : AtItsChunk(t)

\* A write is one repetition in a process of its own.
Wrote ==
  /\ stage \in {"start", "write", "finalize"} => left = 1 /\ kept = <<>>
  /\ stage = "written" => left = 0 /\ Len(kept) = 1

Decoded ==
  /\ stage = "start" => left = 1 + Reps
  /\ stage = "decode" => left = Reps

\* What was counted before each operation.
CountedBefore(op) ==
  CASE op = "root_lookup" -> {"open"}
    [] op = "leaf_lookup_cold" -> {"open", "root_lookup"}
    [] op = "leaf_lookup_warm" -> {"open", "root_lookup", "leaf_lookup_cold"}
    [] op = "random_walk" -> {"open", "root_lookup", "leaf_lookup_cold", "leaf_lookup_warm"}
    [] OTHER -> {"open"} \cup Operating

CountedAll ==
  /\ stage # "done" => kept = <<>>
  /\ stage \in Operating => job.backend = "pmtiles"
  /\ stage \in Operating \cup {"counted"} /\ job.backend = "pmtiles" =>
       /\ IsASequence(served)
       /\ DOMAIN counts \subseteq CountedBefore(stage)
       /\ \A op \in DOMAIN counts : counts[op] \in Nat
       /\ Total = Len(served)

SplitAlike ==
  /\ IsASequence(kept)
  /\ \A i \in DOMAIN kept : kept[i].split = kept[i].combined

ChildInv ==
  /\ job \in Jobs /\ coords \in CoordinateSets /\ Staged
  /\ job.scenario \in Walks => Walked
  /\ job.scenario \in Writes => Wrote
  /\ job.scenario = "decode_root" => Decoded
  /\ job.scenario = "requests" => CountedAll
  /\ job.scenario = "split_pass" => SplitAlike
  /\ SamplesAreOfTheWalk

\* The scenario a step is of.
LEMMA WhoseStep ==
  ASSUME ChildInv, Next
  PROVE  \/ job.scenario \in Walks /\ Reading /\ stage # "done"
         \/ job.scenario \in Writes /\ Writing /\ stage # "done"
         \/ job.scenario \in {"open", "first_lookup"} /\ (Open \/ FirstLookup)
         \/ job.scenario = "decode_root" /\ DecodeRoot
         \/ job.scenario = "requests" /\ (FreshCounting \/ Counted \/ DeclareDirectory \/ AnswerRequests)
         \/ job.scenario \in Studies /\ (SpawnChild \/ SplitOne)
<1>1. job.scenario \in Registry \cup Studies /\ Staged
  BY DEF ChildInv, Jobs
<1>2. CASE Reading
  <2>1. job.scenario \in Walks /\ stage # "done"
    <3>1. CASE stage = "pass"
      BY <1>1, <3>1, SMT DEF Staged, Walks, Writes, Registry, Studies, Operating
    <3>2. CASE stage # "pass"
      <4>1. BeginWalk \/ StartPass \/ EndOfWalk
        BY <1>2, <3>2, Zenon DEF Reading, Unwind, Join
      <4>2. job.scenario \in Walks /\ stage \in {"start", "between"}
        BY <4>1, Zenon DEF BeginWalk, Start, StartPass, EndOfWalk
      <4> QED BY <4>2
    <3> QED BY <3>1, <3>2
  <2> QED BY <1>2, <2>1
<1>3. CASE Writing
  <2>1. job.scenario \in Writes /\ stage # "done"
    <3>1. CASE stage \in {"write", "finalize", "written"}
      BY <1>1, <3>1, SMT DEF Staged, Walks, Writes, Registry, Studies, Operating
    <3>2. CASE stage \notin {"write", "finalize", "written"}
      BY <1>3, <3>2, SMT DEF Writing, BeginWrite, WriteTile, EngineFinishes, EngineReturns, Finalize, EndOfWrites
    <3> QED BY <3>1, <3>2
  <2> QED BY <1>3, <2>1
<1>4. CASE Open \/ FirstLookup
  BY <1>4, Zenon DEF Open, FirstLookup, Start
<1>5. CASE DecodeRoot
  BY <1>5 DEF DecodeRoot
<1>6. CASE FreshCounting \/ Counted \/ DeclareDirectory \/ AnswerRequests
  <2>1. job.scenario = "requests"
    <3>1. CASE Counted \/ AnswerRequests
      <4>1. stage \in Operating \cup {"counted"}
        BY <3>1 DEF Counted, AnswerRequests, Operations, Operating
      <4> QED BY <1>1, <4>1, SMT DEF Staged, Walks, Writes, Registry, Studies, Operating
    <3>2. CASE FreshCounting \/ DeclareDirectory
      BY <3>2 DEF FreshCounting, DeclareDirectory, Start
    <3> QED BY <1>6, <3>1, <3>2
  <2> QED BY <1>6, <2>1
<1>7. CASE SpawnChild \/ SplitOne
  BY <1>7 DEF SpawnChild, SplitOne, Studies
<1> QED BY <1>2, <1>3, <1>4, <1>5, <1>6, <1>7, Zenon DEF Next, Opening

\* A step of a scenario of one kind needs to be looked at for that kind only.
LEMMA JobStays == ASSUME [Next]_vars PROVE job' = job /\ coords' = coords
<1>1. CASE UNCHANGED vars
  BY <1>1 DEF vars, svars
<1>2. CASE Reading
  BY <1>2, Zenon DEF Reading, BeginWalk, StartPass, EndOfWalk, Unwind, Lookup, Break, Join, svars
<1>3. CASE Opening
  BY <1>3, Zenon DEF Opening, Open, FirstLookup, SpawnChild, SplitOne, DecodeRoot,
          FreshCounting, Counted, DeclareDirectory, AnswerRequests
<1>4. CASE Writing
  BY <1>4, Zenon DEF Writing, BeginWrite, WriteTile, EngineFinishes, EngineReturns, Finalize, EndOfWrites
<1> QED BY <1>1, <1>2, <1>3, <1>4 DEF Next

\* An answer that has no series.
LEMMA NoneIsWhole ==
  ASSUME NEW outcome, outcome # "ok", job' = job, Answer(outcome, NoSeries)
  PROVE  SamplesAreOfTheWalk' /\ stage' = "done"
<1>1. run' = [outcome |-> outcome, series |-> NoSeries] /\ stage' = "done"
  BY DEF Answer
<1>2. DOMAIN run'.series = {} /\ run'.outcome # "ok"
  BY <1>1 DEF NoSeries
<1> QED BY <1>1, <1>2 DEF SamplesAreOfTheWalk

-----------------------------------------------------------------------------
(* Walks and their chunks.                                                  *)

\* A lookup takes the next tile of a chunk from what is to do to what was done.
LEMMA OneFurther ==
  ASSUME NEW S, NEW looked \in Seq(S), NEW todo \in Seq(S), todo # <<>>
  PROVE  Append(looked, Head(todo)) \o Tail(todo) = looked \o todo
<1> DEFINE h == Head(todo)
           r == Tail(todo)
<1>1. h \in S /\ r \in Seq(S)
  BY HeadTailProperties
<1>2. todo = <<h>> \o r
  <2>1. Len(todo) \in Nat \ {0}
    BY EmptySeq
  <2>2. todo = SubSeq(todo, 1, Len(todo))
    BY SubSeqFull
  <2>3. SubSeq(todo, 1, Len(todo)) = <<todo[1]>> \o SubSeq(todo, 2, Len(todo))
    <3>1. 1 \in 1..Len(todo) /\ Len(todo) \in 1..Len(todo) /\ 1 + 1 = 2
      BY <2>1
    <3> QED BY <3>1, SubSeqRecursiveFirst
  <2>4. r = SubSeq(todo, 2, Len(todo)) /\ h = todo[1]
    BY <2>1, TailIsSubSeq
  <2> QED BY <2>2, <2>3, <2>4
<1> HIDE DEF h, r
<1>3. <<h>> \in Seq(S) /\ Append(looked, h) = looked \o <<h>>
  BY <1>1, AppendIsConcat
<1>4. (looked \o <<h>>) \o r = looked \o (<<h>> \o r)
  BY <1>1, <1>3, ConcatAssociative
<1> QED BY <1>2, <1>3, <1>4 DEF h, r

LEMMA MinOfTwo ==
  ASSUME NEW a \in Int, NEW b \in Int
  PROVE  /\ Min({a, b}) = IF a <= b THEN a ELSE b
         /\ Min({a, b}) <= b
         /\ a \in Nat /\ b \in Nat => Min({a, b}) \in Nat
<1>1. Min({a, b}) = IF a <= b THEN a ELSE b
  BY DEF Min
<1> DEFINE m == Min({a, b})
<1>2. m = IF a <= b THEN a ELSE b
  BY <1>1
<1> HIDE DEF m
<1>3. m <= b /\ (a \in Nat /\ b \in Nat => m \in Nat)
  BY <1>2
<1> QED BY <1>1, <1>3 DEF m

\* The plan order is the first tiles of the plan.
LEMMA PlanOrderIs ==
  ASSUME ScenarioAssumption
  PROVE  /\ PlanOrder \in Seq(ToSet(Plan)) /\ IsInjective(PlanOrder)
         /\ Len(PlanOrder) = Min({ReadSamples, Len(Plan)})
         /\ PlanOrder = SubSeq(Plan, 1, Len(PlanOrder))
         /\ IsFiniteSet(ToSet(PlanOrder)) /\ Cardinality(ToSet(PlanOrder)) = Len(PlanOrder)
<1> DEFINE L == Len(Plan)
           m == Min({ReadSamples, L})
<1>1. L \in Nat /\ DOMAIN Plan = 1..L /\ Plan \in Seq(ToSet(Plan)) /\ IsInjective(Plan)
  BY LenProperties DEF ScenarioAssumption
<1>2. m \in Nat /\ m <= L
  <2>1. ReadSamples \in Int /\ L \in Int /\ ReadSamples \in Nat
    BY <1>1 DEF ScenarioAssumption
  <2> HIDE DEF L
  <2>2. /\ Min({ReadSamples, L}) <= L
        /\ ReadSamples \in Nat /\ L \in Nat => Min({ReadSamples, L}) \in Nat
    BY <2>1, MinOfTwo, Zenon
  <2> QED BY <1>1, <2>1, <2>2, Zenon
<1> DEFINE s == SubSeq(Plan, 1, m)
<1>3. PlanOrder = s
  BY DEF PlanOrder
<1> HIDE DEF m, L
<1>4. /\ s \in Seq(ToSet(Plan)) /\ Len(s) = m
      /\ \A i \in 1..m : s[i] = Plan[i]
  <2>1. \A i \in 1..m : Plan[i] \in ToSet(Plan)
    BY <1>1, <1>2 DEF ToSet
  <2>2. m - 1 + 1 = m
    BY <1>2
  <2>3. /\ SubSeq(Plan, 1, m) \in Seq(ToSet(Plan))
        /\ Len(SubSeq(Plan, 1, m)) = IF 1 <= m THEN m - 1 + 1 ELSE 0
        /\ \A i \in 1..(m - 1 + 1) : SubSeq(Plan, 1, m)[i] = Plan[1 + i - 1]
    BY <1>2, <2>1, SubSeqProperties
  <2>4. \A i \in 1..m : 1 + i - 1 = i
    BY <1>2
  <2>5. Len(s) = m
    BY <1>2, <2>3
  <2> QED BY <2>2, <2>3, <2>4, <2>5
<1>5. DOMAIN s = 1..m
  BY <1>4, LenProperties
<1> HIDE DEF s
<1>6. IsInjective(s)
  <2>1. ASSUME NEW i \in 1..m, NEW j \in 1..m, s[i] = s[j] PROVE i = j
    <3>1. i \in DOMAIN Plan /\ j \in DOMAIN Plan /\ Plan[i] = Plan[j]
      BY <1>1, <1>2, <1>4, <2>1
    <3> QED BY <1>1, <3>1 DEF IsInjective
  <2> QED BY <1>5, <2>1 DEF IsInjective
<1>7. IsFiniteSet(ToSet(s)) /\ Cardinality(ToSet(s)) = Len(s)
  BY <1>4, <1>6, AsManyAsLong
<1>8. s = SubSeq(Plan, 1, Len(s))
  BY <1>4 DEF s
<1>9. Len(s) = Min({ReadSamples, Len(Plan)})
  BY <1>4 DEF m, L
<1> QED BY <1>3, <1>4, <1>6, <1>7, <1>8, <1>9

\* Whatever is walked is the tiles of the plan order.
LEMMA WalkIsThePlans ==
  ASSUME ScenarioAssumption, coords \in CoordinateSets
  PROVE  /\ Walk \in Seq(ToSet(PlanOrder)) /\ Len(Walk) = Len(PlanOrder)
         /\ ToSet(Walk) = ToSet(PlanOrder)
<1> DEFINE A == ToSet(PlanOrder)
<1>1. /\ PlanOrder \in Seq(ToSet(Plan)) /\ IsFiniteSet(A) /\ Cardinality(A) = Len(PlanOrder)
  BY PlanOrderIs
<1>2. PlanOrder \in Seq(A)
  <2>1. PlanOrder \in Seq(Range(PlanOrder))
    BY <1>1, SeqOfRange
  <2>2. Range(PlanOrder) = A
    BY DEF Range, ToSet
  <2> QED BY <2>1, <2>2
<1>3. PICK t \in TileIdOrder, r \in SetToSeqs(A) :
        coords = [plan |-> PlanOrder, tileid |-> t, random |-> r]
  BY DEF CoordinateSets
<1>4. t \in SetToSeqs(A)
  BY <1>3 DEF TileIdOrder, AlongTheCurve
<1>5. Walk = PlanOrder \/ Walk = t \/ Walk = r
  BY <1>3 DEF Walk
<1> HIDE DEF A
<1>6. \A s \in SetToSeqs(A) : s \in Seq(A) /\ Len(s) = Cardinality(A) /\ ToSet(s) = A
  BY <1>1, OrdersOfASet
<1>7. CASE Walk = PlanOrder
  BY <1>2, <1>7 DEF A
<1>8. CASE Walk # PlanOrder
  <2>1. Walk \in SetToSeqs(A)
    BY <1>3, <1>4, <1>5, <1>8
  <2>2. Walk \in Seq(A) /\ Len(Walk) = Cardinality(A) /\ ToSet(Walk) = A
    BY <1>6, <2>1
  <2> QED BY <1>1, <2>2 DEF A
<1> QED BY <1>7, <1>8

\* Where the pieces of a walk end.
Cut(L, n, i) == i * (L \div n) + (IF i <= L % n THEN i ELSE L % n)

LEMMA Cuts ==
  ASSUME NEW L \in Nat, NEW n \in ThreadLadder
  PROVE  /\ n \in Nat \ {0} /\ Cut(L, n, 0) = 0 /\ Cut(L, n, n) = L
         /\ \A i \in 0..n : Cut(L, n, i) \in 0..L
         /\ \A i \in 1..n : Cut(L, n, i - 1) <= Cut(L, n, i)
<1> DEFINE b == L \div n
           r == L % n
<1>1. n \in Nat \ {0} /\ b \in Nat /\ r \in 0..(n - 1) /\ L = n * b + r
  <2>1. n = 1 \/ n = 2 \/ n = 4 \/ n = 8
    BY DEF ThreadLadder
  <2> QED BY <2>1
<1>2. \A i : Cut(L, n, i) = i * b + (IF i <= r THEN i ELSE r)
  BY DEF Cut
<1> HIDE DEF b, r
<1>3. Cut(L, n, 0) = 0 /\ Cut(L, n, n) = L
  BY <1>1, <1>2
<1>4. ASSUME NEW i \in 0..n PROVE Cut(L, n, i) \in 0..L
  <2>1. i * b \in Nat /\ (n - i) * b \in Nat /\ n * b = i * b + (n - i) * b
    BY <1>1
  <2> DEFINE x == i * b
             y == (n - i) * b
             z == n * b
  <2>2. x \in Nat /\ y \in Nat /\ z = x + y /\ L = z + r
    BY <1>1, <2>1
  <2>3. Cut(L, n, i) = x + (IF i <= r THEN i ELSE r)
    BY <1>2
  <2> HIDE DEF x, y, z
  <2> QED BY <1>1, <2>2, <2>3
<1>5. ASSUME NEW i \in 1..n PROVE Cut(L, n, i - 1) <= Cut(L, n, i)
  <2>1. (i - 1) * b \in Nat /\ i * b = (i - 1) * b + b
    BY <1>1
  <2> DEFINE x == (i - 1) * b
             z == i * b
  <2>2. x \in Nat /\ z = x + b
    BY <2>1
  <2>3. /\ Cut(L, n, i) = z + (IF i <= r THEN i ELSE r)
        /\ Cut(L, n, i - 1) = x + (IF i - 1 <= r THEN i - 1 ELSE r)
    BY <1>2
  <2> HIDE DEF x, z
  <2> QED BY <1>1, <2>2, <2>3
<1> QED BY <1>1, <1>3, <1>4, <1>5

\* The chunks of the threads are the walk, one behind the other.
LEMMA ChunksMakeTheWalk ==
  ASSUME NEW S, NEW w \in Seq(S), NEW n \in ThreadLadder
  PROVE  /\ \A t \in 1..n : Chunks(w, n)[t] \in Seq(S)
         /\ \A f : DOMAIN f = 1..n /\ (\A t \in 1..n : f[t] = Chunks(w, n)[t]) =>
              FlattenSeq([t \in 1..n |-> f[t]]) = w
<1> DEFINE L == Len(w)
<1>1. L \in Nat
  BY LenProperties
<1> HIDE DEF L
<1>2. /\ n \in Nat \ {0} /\ Cut(L, n, 0) = 0 /\ Cut(L, n, n) = L
      /\ \A i \in 0..n : Cut(L, n, i) \in 0..L
      /\ \A i \in 1..n : Cut(L, n, i - 1) <= Cut(L, n, i)
  BY <1>1, Cuts
<1>3. ASSUME NEW t \in 1..n
      PROVE  Chunks(w, n)[t] = SubSeq(w, Cut(L, n, t - 1) + 1, Cut(L, n, t))
  <2> DEFINE before(k) == (k - 1) * (L \div n) + Min({k - 1, L % n})
  <2>1. Chunks(w, n)[t] = SubSeq(w, before(t) + 1, before(t + 1))
    BY DEF Chunks, L
  <2>2. L % n \in Int /\ t - 1 \in Int /\ t \in Int /\ (t + 1) - 1 = t
    BY <1>1, <1>2
  <2>3. before(t) = Cut(L, n, t - 1)
    BY <2>2, MinOfTwo DEF Cut
  <2>4. before(t + 1) = Cut(L, n, t)
    BY <2>2, MinOfTwo DEF Cut
  <2> QED BY <2>1, <2>3, <2>4
<1>4. \A t \in 1..n : Chunks(w, n)[t] \in Seq(S)
  <2> TAKE t \in 1..n
  <2> DEFINE a == Cut(L, n, t - 1) + 1
             z == Cut(L, n, t)
  <2>1. t - 1 \in 0..n /\ t \in 0..n
    BY <1>2
  <2>2. a \in 1..(L + 1) /\ z \in 0..L
    BY <1>1, <1>2, <2>1
  <2>3. Chunks(w, n)[t] = SubSeq(w, a, z)
    BY <1>3
  <2> HIDE DEF a, z
  <2>4. \A i \in a..z : w[i] \in S
    <3>1. \A i \in a..z : i \in 1..L
      BY <1>1, <2>2
    <3> QED BY <3>1, ElementOfSeq DEF L
  <2>5. SubSeq(w, a, z) \in Seq(S)
    BY <2>2, <2>4, SubSeqProperties
  <2> QED BY <2>3, <2>5
<1>5. ASSUME NEW f, DOMAIN f = 1..n, \A t \in 1..n : f[t] = Chunks(w, n)[t]
      PROVE  FlattenSeq([t \in 1..n |-> f[t]]) = w
  <2> DEFINE seqs == [t \in 1..n |-> f[t]]
             cut == [i \in 0..n |-> Cut(L, n, i)]
  <2>1. Len(seqs) = n /\ \A t \in 1..n : seqs[t] = f[t]
    BY <1>2
  <2>2. cut \in [0..n -> 0..L] /\ cut[0] = 0 /\ cut[n] = L
    BY <1>2
  <2>3. ASSUME NEW i \in 1..n
        PROVE  cut[i - 1] <= cut[i] /\ seqs[i] = SubSeq(w, cut[i - 1] + 1, cut[i])
    <3>1. i - 1 \in 0..n /\ i \in 0..n
      BY <1>2
    <3>2. cut[i - 1] = Cut(L, n, i - 1) /\ cut[i] = Cut(L, n, i)
      BY <3>1
    <3> QED BY <1>2, <1>3, <1>5, <2>1, <3>2
  <2> HIDE DEF seqs, cut
  <2>4. FlattenSeq(seqs) = SubSeq(w, 1, cut[n])
    BY <1>2, <2>1, <2>2, <2>3, PiecesMakeTheWhole DEF L
  <2>5. SubSeq(w, 1, cut[n]) = w
    BY <2>2, SubSeqFull DEF L
  <2> QED BY <2>4, <2>5 DEF seqs
<1> QED BY <1>4, <1>5

-----------------------------------------------------------------------------
(* The scenarios that walk.                                                 *)

LEMMA WalksRepeat ==
  ASSUME ScenarioAssumption, job.scenario \in Walks
  PROVE  Warmup(job.scenario) = 1 /\ RepsHere(job.scenario) = Reps /\ Reps \in Nat \ {0}
<1>1. job.scenario \notin ProcessPerRep \cup {"requests"}
  BY DEF Walks, ProcessPerRep, Writes
<1> QED BY <1>1 DEF Warmup, RepsHere, ScenarioAssumption

\* An answer given stands.
LEMMA AnswerStands ==
  ASSUME SamplesAreOfTheWalk, job' = job, run' = run PROVE SamplesAreOfTheWalk'
BY DEF SamplesAreOfTheWalk

LEMMA WalkGoesOn ==
  ASSUME ChildInv, job.scenario \in Walks, job' = job, coords' = coords,
         stage' \in {"between", "pass", "done"}, Walked', SamplesAreOfTheWalk'
  PROVE  ChildInv'
<1>1. /\ job.scenario \notin Writes
      /\ job.scenario \notin {"open", "first_lookup", "first_lookup_children", "split_pass", "decode_root", "requests"}
  BY DEF Walks, Writes
<1>2. Staged'
  BY <1>1, SMT DEF Staged
<1>3. job' \in Jobs /\ coords' \in CoordinateSets
  <2>1. Jobs' = Jobs
    BY DEF Jobs
  <2>2. CoordinateSets' = CoordinateSets
    BY DEF CoordinateSets
  <2> QED BY DEF ChildInv
<1> QED BY <1>1, <1>2, <1>3, SMT DEF ChildInv

\* A child that failed or declined has nothing left to be said of it.
LEMMA WalkFails ==
  ASSUME ChildInv, job.scenario \in Walks, job' = job, coords' = coords, NEW outcome, outcome # "ok",
         Answer(outcome, NoSeries)
  PROVE  ChildInv'
<1>1. SamplesAreOfTheWalk' /\ stage' = "done"
  BY NoneIsWhole
<1>2. Walked'
  BY <1>1 DEF Walked
<1> QED BY <1>1, <1>2, WalkGoesOn

LEMMA BeginWalkKeeps == ASSUME ChildInv, job.scenario \in Walks, BeginWalk PROVE ChildInv'
<1>1. job' = job /\ coords' = coords
  BY DEF BeginWalk
<1>2. CASE Skipped \/ Failed
  BY <1>1, <1>2, WalkFails DEF Skipped, Failed
<1>3. CASE stage' = "between" /\ UNCHANGED <<left, kept, discarded, run, faults>>
  <2>1. Passes
    BY DEF ChildInv, Walked, BeginWalk, Start
  <2>2. Passes'
    BY <1>1, <1>3, <2>1, Zenon DEF Passes, OfTheWalk, PlanOrder
  <2>3. Walked'
    BY <1>3, <2>2 DEF Walked
  <2>4. SamplesAreOfTheWalk'
    BY <1>1, <1>3, AnswerStands DEF ChildInv
  <2> QED BY <1>1, <1>3, <2>3, <2>4, WalkGoesOn
<1> QED BY <1>2, <1>3, Zenon DEF BeginWalk

\* Each thread is given its chunk.
LEMMA StartPassKeeps ==
  ASSUME ScenarioAssumption, ChildInv, job.scenario \in Walks, StartPass PROVE ChildInv'
<1>1. /\ job' = job /\ coords' = coords /\ stage = "between" /\ stage' = "pass" /\ left > 0
      /\ UNCHANGED <<left, kept, discarded, run>>
      /\ threads' = [t \in 1..job.threads |->
                       [todo |-> Chunks(Walk, job.threads)[t], looked |-> <<>>, stands |-> "walking"]]
  BY DEF StartPass
<1>2. Passes
  BY <1>1 DEF ChildInv, Walked
<1>3. Passes'
  BY <1>1, <1>2, Zenon DEF Passes, OfTheWalk, PlanOrder
<1>4. Walk' = Walk
  BY <1>1 DEF Walk
<1>5. job.threads \in ThreadLadder /\ Walk \in Seq(ToSet(PlanOrder))
  BY WalkIsThePlans DEF ChildInv, Jobs
<1>6. ASSUME NEW t \in 1..job.threads PROVE AtItsChunk(t)'
  <2> DEFINE chunk == Chunks(Walk, job.threads)[t]
  <2>1. chunk \in Seq(ToSet(PlanOrder))
    BY <1>5, ChunksMakeTheWalk
  <2>2. threads'[t] = [todo |-> chunk, looked |-> <<>>, stands |-> "walking"]
    BY <1>1
  <2>3. <<>> \in Seq(ToSet(PlanOrder)) /\ <<>> \o chunk = chunk
    BY <2>1, EmptySeq, ConcatEmptySeq
  <2>4. chunk = Chunks(Walk', job'.threads)[t] /\ PlanOrder' = PlanOrder
    BY <1>1, <1>4 DEF PlanOrder
  <2> HIDE DEF chunk
  <2>5. Chunks(Walk, job.threads)' = Chunks(Walk', job'.threads)
    BY DEF Chunks
  <2> QED BY <2>1, <2>2, <2>3, <2>4, <2>5 DEF AtItsChunk
<1>7. DOMAIN threads' = 1..job'.threads
  BY <1>1
<1>8. Walked'
  BY <1>1, <1>3, <1>6, <1>7 DEF Walked
<1>9. SamplesAreOfTheWalk'
  BY <1>1, AnswerStands DEF ChildInv
<1> QED BY <1>1, <1>8, <1>9, WalkGoesOn

\* A lookup moves a tile from what is to be done to what was done.
LEMMA LookupKeeps ==
  ASSUME ScenarioAssumption, ChildInv, job.scenario \in Walks, stage = "pass", NEW t \in DOMAIN threads,
         Lookup(t) \/ Break(t)
  PROVE  ChildInv'
<1>1. /\ UNCHANGED <<job, coords, stage, left, kept, discarded, run>>
      /\ threads[t].stands = "walking"
  BY DEF Lookup, Break, svars
<1>2. Passes /\ left > 0 /\ DOMAIN threads = 1..job.threads /\ \A s \in 1..job.threads : AtItsChunk(s)
  BY DEF ChildInv, Walked
<1>3. Passes'
  BY <1>1, <1>2, Zenon DEF Passes, OfTheWalk, PlanOrder
<1>4. Chunks(Walk, job.threads)' = Chunks(Walk, job.threads) /\ PlanOrder' = PlanOrder
  <2>1. Walk' = Walk
    BY <1>1 DEF Walk
  <2> QED BY <1>1, <2>1 DEF Chunks, PlanOrder
<1>5. /\ DOMAIN threads' = DOMAIN threads
      /\ \A s \in DOMAIN threads : s # t => threads'[s] = threads[s]
  BY DEF Lookup, Break
<1>6. ASSUME NEW s \in 1..job.threads, s # t PROVE AtItsChunk(s)'
  BY <1>2, <1>4, <1>5, <1>6 DEF AtItsChunk
<1> DEFINE a == threads[t]
           S == ToSet(PlanOrder)
<1>7. /\ a = [todo |-> a.todo, looked |-> a.looked, stands |-> a.stands]
      /\ a.todo \in Seq(S) /\ a.looked \in Seq(S)
      /\ a.looked \o a.todo = Chunks(Walk, job.threads)[t]
  BY <1>2 DEF AtItsChunk
<1>8. AtItsChunk(t)'
  <2>1. CASE Lookup(t) /\ a.todo = <<>>
    <3>1. threads'[t] = [a EXCEPT !.stands = "through"]
      BY <2>1 DEF Lookup
    <3> HIDE DEF a
    <3>2. threads'[t] = [todo |-> a.todo, looked |-> a.looked, stands |-> "through"]
      BY <1>7, <3>1
    <3> QED BY <1>4, <1>7, <2>1, <3>2 DEF AtItsChunk
  <2>2. CASE Lookup(t) /\ a.todo # <<>>
    <3>1. threads'[t] = [a EXCEPT !.looked = Append(@, Head(a.todo)), !.todo = Tail(@)]
      BY <2>2 DEF Lookup
    <3> HIDE DEF a
    <3>2. threads'[t] = [todo |-> Tail(a.todo), looked |-> Append(a.looked, Head(a.todo)), stands |-> a.stands]
      BY <1>7, <3>1
    <3>3. a.stands = "walking"
      BY <1>1 DEF a
    <3> HIDE DEF S
    <3>4. Head(a.todo) \in S /\ Tail(a.todo) \in Seq(S)
      BY <1>7, <2>2, HeadTailProperties
    <3>5. Append(a.looked, Head(a.todo)) \in Seq(S)
      BY <1>7, <3>4, AppendProperties
    <3>6. Append(a.looked, Head(a.todo)) \o Tail(a.todo) = a.looked \o a.todo
      BY <1>7, <2>2, OneFurther
    <3>7. PICK todo, looked :
            /\ threads'[t] = [todo |-> todo, looked |-> looked, stands |-> "walking"]
            /\ todo \in Seq(S) /\ looked \in Seq(S)
            /\ looked \o todo = Chunks(Walk, job.threads)[t]
      BY <1>7, <3>2, <3>3, <3>4, <3>5, <3>6, Zenon
    <3> QED BY <1>4, <3>7 DEF AtItsChunk, S
  <2>3. CASE Break(t)
    <3>1. threads'[t] = [a EXCEPT !.stands = "failed"]
      BY <2>3 DEF Break
    <3> HIDE DEF a
    <3>2. threads'[t] = [todo |-> a.todo, looked |-> a.looked, stands |-> "failed"]
      BY <1>7, <3>1
    <3> QED BY <1>4, <1>7, <3>2 DEF AtItsChunk
  <2> QED BY <2>1, <2>2, <2>3
<1>9. Walked'
  <2>1. \A s \in 1..job'.threads : AtItsChunk(s)'
    BY <1>1, <1>6, <1>8
  <2> QED BY <1>1, <1>2, <1>3, <1>5, <2>1 DEF Walked
<1>10. SamplesAreOfTheWalk'
  BY <1>1, AnswerStands DEF ChildInv
<1>11. stage' = "pass"
  BY <1>1
<1> QED BY <1>1, <1>9, <1>10, <1>11, WalkGoesOn

LEMMA UnwindKeeps == ASSUME ChildInv, job.scenario \in Walks, Unwind PROVE ChildInv'
BY WalkFails DEF Unwind, Failed

\* Every thread is through with its chunk, so the pass is the whole walk.
LEMMA PassIsWhole ==
  ASSUME ScenarioAssumption, ChildInv, job.scenario \in Walks, stage = "pass",
         \A t \in DOMAIN threads : threads[t].stands = "through"
  PROVE  FlattenSeq([t \in DOMAIN threads |-> threads[t].looked]) = Walk
<1> DEFINE n == job.threads
           S == ToSet(PlanOrder)
<1>1. DOMAIN threads = 1..n /\ \A t \in 1..n : AtItsChunk(t)
  BY DEF ChildInv, Walked
<1>2. n \in ThreadLadder /\ Walk \in Seq(S)
  BY WalkIsThePlans DEF ChildInv, Jobs
<1>3. ASSUME NEW t \in 1..n PROVE threads[t].looked = Chunks(Walk, n)[t]
  <2>1. /\ threads[t].todo = <<>> /\ threads[t].looked \in Seq(S)
        /\ threads[t].looked \o threads[t].todo = Chunks(Walk, n)[t]
    BY <1>1 DEF AtItsChunk
  <2>2. threads[t].looked \o <<>> = threads[t].looked
    BY <2>1, ConcatEmptySeq
  <2> QED BY <2>1, <2>2
<1> DEFINE f == [t \in 1..n |-> threads[t].looked]
<1>4. DOMAIN f = 1..n /\ \A t \in 1..n : f[t] = Chunks(Walk, n)[t]
  BY <1>3
<1>5. [t \in DOMAIN threads |-> threads[t].looked] = f /\ [t \in 1..n |-> f[t]] = f
  BY <1>1
<1> HIDE DEF f, n, S
<1>6. FlattenSeq([t \in 1..n |-> f[t]]) = Walk
  BY <1>2, <1>4, ChunksMakeTheWalk, Zenon
<1> QED BY <1>5, <1>6

\* One sample more at the end.
LEMMA OneMore ==
  ASSUME NEW s, IsASequence(s), NEW e
  PROVE  LET g == Append(s, e)
         IN  /\ IsASequence(g) /\ Len(s) \in Nat /\ Len(g) = Len(s) + 1
             /\ DOMAIN s = 1..Len(s) /\ DOMAIN g = 1..(Len(s) + 1)
             /\ \A i \in 1..Len(s) : g[i] = s[i]
             /\ g[Len(s) + 1] = e
<1>1. PICK S : s \in Seq(S)
  BY DEF IsASequence
<1> DEFINE T == S \cup {e}
           g == Append(s, e)
<1>2. s \in Seq(T) /\ e \in T
  <2>1. Len(s) \in Nat /\ DOMAIN s = 1..Len(s) /\ s \in [1..Len(s) -> S]
    BY <1>1, LenProperties
  <2>2. s \in [1..Len(s) -> T]
    BY <2>1
  <2> QED BY <2>1, <2>2, SeqDef
<1>3. /\ g \in Seq(T) /\ DOMAIN g = 1..(Len(s) + 1) /\ Len(s) \in Nat /\ DOMAIN s = 1..Len(s)
      /\ Len(g) = Len(s) + 1
      /\ \A i \in 1..Len(s) : g[i] = s[i]
      /\ g[Len(s) + 1] = e
  BY <1>2, AppendProperties, LenProperties
<1> HIDE DEF g, T
<1>4. IsASequence(g)
  BY <1>3 DEF IsASequence
<1>5. /\ IsASequence(g) /\ Len(s) \in Nat /\ Len(g) = Len(s) + 1
      /\ DOMAIN s = 1..Len(s) /\ DOMAIN g = 1..(Len(s) + 1)
      /\ \A i \in 1..Len(s) : g[i] = s[i]
      /\ g[Len(s) + 1] = e
  BY <1>3, <1>4
<1> QED BY <1>5, Zenon DEF g

\* A sample that is kept is what was done, and knows its number.
LEMMA Kept ==
  ASSUME NEW sample, NEW field \in DOMAIN sample, field # "nth", NEW n
  PROVE  Numbered(sample, n)[field] = sample[field] /\ Numbered(sample, n).nth = n
BY DEF Numbered

\* The pass that ended counts, or the child has failed.
LEMMA JoinKeeps ==
  ASSUME ScenarioAssumption, ChildInv, job.scenario \in Walks, NEW quick \in BOOLEAN, Join(quick)
  PROVE  ChildInv'
<1> DEFINE looked == FlattenSeq([t \in DOMAIN threads |-> threads[t].looked])
           pass == [looked |-> looked, quick |-> quick]
<1>1. job' = job /\ coords' = coords /\ stage = "pass"
  BY DEF Join
<1>2. CASE Failed
  BY <1>1, <1>2, WalkFails DEF Failed
<1>3. CASE ~Failed
  <2>1. /\ \A t \in DOMAIN threads : threads[t].stands = "through"
        /\ left' = left - 1 /\ stage' = "between" /\ run' = run
        /\ IF left > RepsHere(job.scenario)
           THEN discarded' = Append(discarded, pass) /\ kept' = kept
           ELSE Keep(pass) /\ discarded' = discarded
    BY <1>3, Zenon DEF Join
  <2>2. looked = Walk
    BY <1>1, <2>1, PassIsWhole
  <2>3. RepsHere(job.scenario) = Reps /\ Reps \in Nat \ {0}
    BY WalksRepeat
  <2>4. Passes /\ left > 0
    BY <1>1 DEF ChildInv, Walked
  <2>5. Len(Walk) = Len(PlanOrder) /\ ToSet(Walk) = ToSet(PlanOrder)
    BY WalkIsThePlans DEF ChildInv
  <2>6. \A s, n : OfTheWalk(s, n)' <=> OfTheWalk(s, n)
    BY DEF OfTheWalk, PlanOrder
  <2> DEFINE K == Len(kept)
             D == Len(discarded)
  <2> HIDE DEF looked, pass
  <2>7. Passes'
    <3>1. CASE left > Reps
      <4>1. left = 1 + Reps /\ D = 0 /\ K = 0 /\ left \in Nat
        BY <2>3, <2>4, <3>1 DEF Passes
      <4>2. discarded' = Append(discarded, pass) /\ kept' = kept /\ left' = Reps
        BY <2>1, <2>3, <3>1, <4>1
      <4>3. IsASequence(discarded') /\ Len(discarded') = 1
        <5>1. IsASequence(Append(discarded, pass)) /\ Len(Append(discarded, pass)) = D + 1
          BY <2>4, OneMore DEF Passes
        <5> QED BY <4>1, <4>2, <5>1
      <4>4. IsASequence(kept') /\ Len(kept') = 0 /\ \A i \in DOMAIN kept' : OfTheWalk(kept'[i], i)
        BY <2>4, <4>1, <4>2 DEF Passes
      <4>5. Reps' = Reps /\ left' \in Nat /\ left' <= 1 + Reps /\ left' # 1 + Reps /\ Reps - left' = 0
        BY <2>3, <4>2
      <4> QED BY <2>6, <4>3, <4>4, <4>5 DEF Passes
    <3>2. CASE ~(left > Reps)
      <4>1. /\ left \in Nat /\ left # 1 + Reps /\ D = 1 /\ K = Reps - left
            /\ IsASequence(kept) /\ IsASequence(discarded)
            /\ \A i \in DOMAIN kept : OfTheWalk(kept[i], i)
        BY <2>3, <2>4, <3>2 DEF Passes
      <4> DEFINE sample == Numbered(pass, D + K + 1)
      <4>2. kept' = Append(kept, sample) /\ discarded' = discarded /\ left' = left - 1
        BY <2>1, <2>3, <3>2 DEF Keep
      <4>3. OfTheWalk(sample, K + 1)
        <5>1. DOMAIN pass = {"looked", "quick"} /\ pass.looked = Walk
          BY <2>2 DEF pass
        <5>2. sample.looked = Walk /\ sample.nth = D + K + 1
          BY <5>1, Kept, "looked" # "nth"
        <5>3. K \in Nat /\ D + K + 1 = 1 + (K + 1)
          BY <2>3, <2>4, <4>1, OneMore
        <5> HIDE DEF K, sample
        <5> QED BY <2>5, <5>2, <5>3 DEF OfTheWalk
      <4> HIDE DEF sample
      <4>4. /\ IsASequence(kept') /\ K \in Nat /\ Len(kept') = K + 1
            /\ DOMAIN kept = 1..K /\ DOMAIN kept' = 1..(K + 1)
            /\ \A i \in 1..K : kept'[i] = kept[i]
            /\ kept'[K + 1] = sample
        BY <4>1, <4>2, OneMore
      <4> HIDE DEF K, D
      <4>5. \A i \in DOMAIN kept' : OfTheWalk(kept'[i], i)
        <5>1. \A i \in 1..(K + 1) : i \in 1..K \/ i = K + 1
          BY <4>4
        <5> QED BY <4>1, <4>3, <4>4, <5>1
      <4>6. left' \in Nat /\ left' <= 1 + Reps /\ left' # 1 + Reps /\ K + 1 = Reps - left'
        BY <2>3, <2>4, <4>1, <4>2, <3>2
      <4>7. Len(discarded') = 1 /\ IsASequence(discarded')
        BY <4>1, <4>2 DEF D
      <4> QED BY <2>6, <4>4, <4>5, <4>6, <4>7 DEF Passes
    <3> QED BY <3>1, <3>2
  <2>8. Walked'
    BY <2>1, <2>7 DEF Walked
  <2>9. SamplesAreOfTheWalk'
    BY <1>1, <2>1, AnswerStands DEF ChildInv
  <2> QED BY <1>1, <2>1, <2>8, <2>9, WalkGoesOn
<1> QED BY <1>2, <1>3

\* At the end every pass but the warm-up's was kept.
LEMMA EndOfWalkKeeps ==
  ASSUME ScenarioAssumption, ChildInv, job.scenario \in Walks, EndOfWalk PROVE ChildInv'
<1>1. /\ job' = job /\ coords' = coords /\ stage = "between" /\ left = 0 /\ stage' = "done"
  BY DEF EndOfWalk, Answer
<1>2. PICK metrics : metrics # {} /\ run' = [outcome |-> "ok", series |-> [m \in metrics |-> kept]]
  <2> DEFINE always == IF job.scenario = "read_concurrent" THEN {"lookups_per_s", "p50"} ELSE {"p50", TailMetric}
             rates == IF \E i \in DOMAIN kept : kept[i].quick THEN {} ELSE {"lookups_per_s"}
  <2>1. Answer("ok", [m \in always \cup rates |-> kept])
    BY DEF EndOfWalk
  <2>2. always \cup rates # {}
    BY DEF TailMetric
  <2> HIDE DEF always, rates
  <2> QED BY <2>1, <2>2 DEF Answer
<1>3. Warmup(job.scenario) = 1 /\ RepsHere(job.scenario) = Reps /\ Reps \in Nat \ {0}
  BY WalksRepeat
<1>4. Len(kept) = Reps /\ \A i \in DOMAIN kept : OfTheWalk(kept[i], i)
  <2>1. Passes
    BY <1>1 DEF ChildInv, Walked
  <2> QED BY <1>1, <1>3, <2>1 DEF Passes
<1>5. /\ Len(PlanOrder) = Min({ReadSamples, Len(Plan)})
      /\ PlanOrder = SubSeq(Plan, 1, Len(PlanOrder))
  BY PlanOrderIs
<1> DEFINE W(sample, i) ==
      /\ sample.nth = Warmup(job.scenario) + i
      /\ Len(sample.looked) = Min({ReadSamples, Len(Plan)})
      /\ ToSet(sample.looked) = ToSet(SubSeq(Plan, 1, Len(sample.looked)))
<1>6. \A i \in DOMAIN kept : W(kept[i], i)
  BY <1>3, <1>4, <1>5 DEF OfTheWalk
<1> HIDE DEF W
<1>7. /\ run'.outcome = "ok" /\ DOMAIN run'.series = metrics
      /\ \A m \in metrics : run'.series[m] = kept
  BY <1>2
<1>8. \A m \in DOMAIN run'.series :
        /\ Len(run'.series[m]) = RepsHere(job'.scenario)
        /\ \A i \in DOMAIN run'.series[m] : W(run'.series[m][i], i)
  BY <1>1, <1>3, <1>4, <1>6, <1>7
<1>9. (run'.outcome = "ok") = (DOMAIN run'.series # {})
  BY <1>2, <1>7
<1>10. SamplesAreOfTheWalk'
  <2>1. \A m \in DOMAIN run'.series : \A i \in DOMAIN run'.series[m] :
          LET sample == run'.series[m][i]
          IN  /\ sample.nth = Warmup(job'.scenario) + i
              /\ Len(sample.looked) = Min({ReadSamples, Len(Plan)})
              /\ ToSet(sample.looked) = ToSet(SubSeq(Plan, 1, Len(sample.looked)))
    BY <1>1, <1>8, Zenon DEF W
  <2> QED BY <1>1, <1>8, <1>9, <2>1, Zenon DEF SamplesAreOfTheWalk, RepsHere, ProcessPerRep, Writes
<1>11. Walked'
  BY <1>1 DEF Walked
<1> QED BY <1>1, <1>10, <1>11, WalkGoesOn

LEMMA WalkStep == ASSUME ScenarioAssumption, ChildInv, job.scenario \in Walks, Reading PROVE ChildInv'
BY BeginWalkKeeps, StartPassKeeps, LookupKeeps, UnwindKeeps, JoinKeeps, EndOfWalkKeeps, Zenon DEF Reading

-----------------------------------------------------------------------------
(* The other scenarios.                                                     *)

\* What a step has to keep, whatever the scenario.
LEMMA OthersGoOn ==
  ASSUME ChildInv, job.scenario \notin Walks, job' = job, coords' = coords, Staged',
         job.scenario \in Writes => Wrote',
         job.scenario = "decode_root" => Decoded',
         job.scenario = "requests" => CountedAll',
         job.scenario = "split_pass" => SplitAlike',
         SamplesAreOfTheWalk'
  PROVE  ChildInv'
<1>1. job' \in Jobs /\ coords' \in CoordinateSets
  <2>1. Jobs' = Jobs
    BY DEF Jobs
  <2>2. CoordinateSets' = CoordinateSets
    BY DEF CoordinateSets
  <2> QED BY DEF ChildInv
<1> QED BY <1>1, SMT DEF ChildInv

\* An answer of one sample a metric, of a scenario that is run once.
LEMMA OneSample ==
  ASSUME job' = job, job.scenario \notin Walks, NEW s, Len(s) = RepsHere(job.scenario),
         NEW metrics, metrics # {}, Answer("ok", [m \in metrics |-> s])
  PROVE  SamplesAreOfTheWalk' /\ stage' = "done"
<1>1. run' = [outcome |-> "ok", series |-> [m \in metrics |-> s]] /\ stage' = "done"
  BY DEF Answer
<1>2. /\ run'.outcome = "ok" /\ DOMAIN run'.series = metrics
      /\ \A m \in metrics : run'.series[m] = s
  BY <1>1
<1>3. (run'.outcome = "ok") = (DOMAIN run'.series # {})
  BY <1>2
<1>4. \A m \in DOMAIN run'.series : Len(run'.series[m]) = RepsHere(job'.scenario)
  BY <1>2
<1> QED BY <1>1, <1>3, <1>4, Zenon DEF SamplesAreOfTheWalk

\* A child that failed or declined.
LEMMA OtherFails ==
  ASSUME ChildInv, job.scenario \in (Registry \cup Studies) \ Walks, job' = job, coords' = coords,
         NEW outcome, outcome # "ok", Answer(outcome, NoSeries),
         job.scenario = "split_pass" => kept' = kept
  PROVE  ChildInv'
<1>1. SamplesAreOfTheWalk' /\ stage' = "done"
  BY NoneIsWhole
<1>2. Staged' /\ Wrote' /\ Decoded'
  BY <1>1, SMT DEF Staged, Wrote, Decoded
<1>3. CountedAll'
  BY <1>1, SMT DEF CountedAll, Operating
<1>4. job.scenario = "split_pass" => SplitAlike'
  BY DEF ChildInv, SplitAlike
<1> QED BY <1>1, <1>2, <1>3, <1>4, OthersGoOn

\* A write: one repetition, one sample.
LEMMA WriteStep ==
  ASSUME ScenarioAssumption, ChildInv, job.scenario \in Writes, Writing PROVE ChildInv'
<1>1. /\ job.scenario \in (Registry \cup Studies) \ Walks
      /\ job.scenario \notin {"open", "first_lookup", "first_lookup_children", "split_pass", "decode_root", "requests"}
      /\ RepsHere(job.scenario) = 1
  BY DEF Registry, Walks, Writes, RepsHere, ProcessPerRep
<1>2. job' = job /\ coords' = coords
  BY Zenon DEF Writing, BeginWrite, WriteTile, EngineFinishes, EngineReturns, Finalize, EndOfWrites
<1>3. CASE Failed
  BY <1>1, <1>2, <1>3, OtherFails DEF Failed
<1>4. Wrote /\ Staged
  BY DEF ChildInv
<1>5. ASSUME run' = run, stage' \in {"start", "write", "finalize", "written"}, Wrote' PROVE ChildInv'
  <2>1. Staged'
    BY <1>1, <1>2, <1>5, SMT DEF Staged
  <2>2. SamplesAreOfTheWalk'
    BY <1>2, <1>5, AnswerStands DEF ChildInv
  <2> QED BY <1>1, <1>2, <1>5, <2>1, <2>2, OthersGoOn
<1>6. ASSUME NEW sample, NEW n, kept = <<>>, left = 1, run' = run,
             kept' = Append(kept, Numbered(sample, n)), left' = left - 1, stage' = "written"
      PROVE  ChildInv'
  <2>1. Len(Append(<<>>, Numbered(sample, n))) = 1
    <3>1. \A e : Len(Append(<<>>, e)) = 1
      OBVIOUS
    <3> QED BY <3>1
  <2>2. left' = 0 /\ Len(kept') = 1
    BY <1>6, <2>1
  <2>3. Wrote'
    BY <1>6, <2>2, SMT DEF Wrote
  <2> QED BY <1>5, <1>6, <2>3
<1>7. CASE BeginWrite /\ ~Failed
  <2>1. stage' = "write" /\ UNCHANGED <<left, kept, run>> /\ left > 0 /\ stage \in {"start", "written"}
    BY <1>7 DEF BeginWrite
  <2>2. stage = "start"
    BY <1>4, <2>1 DEF Wrote
  <2>3. Wrote'
    BY <1>4, <2>1, <2>2 DEF Wrote
  <2> QED BY <1>5, <2>1, <2>3
<1>8. CASE (WriteTile \/ EngineFinishes) /\ ~Failed
  <2>1. stage = "write" /\ stage' = "write" /\ UNCHANGED <<left, kept, run>>
    BY <1>8 DEF WriteTile, EngineFinishes
  <2>2. Wrote'
    BY <1>4, <2>1 DEF Wrote
  <2> QED BY <1>5, <2>1, <2>2
<1>9. CASE EngineReturns /\ ~Failed
  <2>1. CASE stage' = "finalize" /\ UNCHANGED <<left, kept, run>>
    <3>1. stage = "write"
      BY <1>9 DEF EngineReturns
    <3>2. Wrote'
      BY <1>4, <2>1, <3>1 DEF Wrote
    <3> QED BY <1>5, <2>1, <3>2
  <2>2. CASE Keep(sink) /\ stage' = "written" /\ left' = left - 1 /\ run' = run
    <3>1. kept = <<>> /\ left = 1
      BY <1>4, <1>9 DEF EngineReturns, Wrote
    <3> QED BY <1>6, <2>2, <3>1 DEF Keep
  <2> QED BY <1>9, <2>1, <2>2, Zenon DEF EngineReturns
<1>10. CASE Finalize /\ ~Failed
  <2>1. Keep(sink') /\ stage' = "written" /\ left' = left - 1 /\ run' = run /\ stage = "finalize"
    BY <1>10, Zenon DEF Finalize
  <2>2. kept = <<>> /\ left = 1
    BY <1>4, <2>1 DEF Wrote
  <2> QED BY <1>6, <2>1, <2>2 DEF Keep
<1>11. CASE EndOfWrites
  <2>1. PICK rates : Answer("ok", [m \in {"wall"} \cup rates |-> kept])
    BY <1>11 DEF EndOfWrites
  <2>2. Len(kept) = RepsHere(job.scenario) /\ {"wall"} \cup rates # {}
    BY <1>1, <1>4, <1>11 DEF EndOfWrites, Wrote
  <2>3. SamplesAreOfTheWalk' /\ stage' = "done"
    BY <1>1, <1>2, <2>1, <2>2, OneSample
  <2>4. Staged' /\ Wrote'
    BY <1>1, <1>2, <2>3, SMT DEF Staged, Wrote
  <2> QED BY <1>1, <1>2, <2>3, <2>4, OthersGoOn
<1> QED BY <1>3, <1>7, <1>8, <1>9, <1>10, <1>11, Zenon DEF Writing

\* A cold open, alone or with a lookup: one repetition in the process.
LEMMA OpenStep ==
  ASSUME ScenarioAssumption, ChildInv, job.scenario \in {"open", "first_lookup"}, Open \/ FirstLookup
  PROVE  ChildInv'
<1>1. /\ job.scenario \in (Registry \cup Studies) \ Walks /\ job.scenario \notin Writes
      /\ RepsHere(job.scenario) = 1
  BY DEF Registry, Walks, Writes, RepsHere, ProcessPerRep
<1>2. job' = job /\ coords' = coords
  BY DEF Open, FirstLookup
<1>3. CASE Failed
  BY <1>1, <1>2, <1>3, OtherFails DEF Failed
<1>4. ASSUME NEW sample, Answer("ok", [m \in {"p50"} |-> <<sample>>]) PROVE ChildInv'
  <2>1. Len(<<sample>>) = 1 /\ {"p50"} # {}
    OBVIOUS
  <2>2. SamplesAreOfTheWalk' /\ stage' = "done"
    BY <1>1, <1>2, <1>4, <2>1, OneSample
  <2>3. Staged'
    BY <1>1, <1>2, <2>2, SMT DEF Staged
  <2> QED BY <1>1, <1>2, <2>2, <2>3, OthersGoOn
<1>5. CASE Open /\ ~Failed
  <2>1. PICK seen : Answer("ok", [m \in {"p50"} |-> <<[ranges |-> seen]>>])
    BY <1>5, Zenon DEF Open
  <2> QED BY <1>4, <2>1
<1>6. CASE FirstLookup /\ ~Failed
  <2>1. Answer("ok", [m \in {"p50"} |-> <<[ranges |-> Opened \o Fetch(<<RootAddressed>>, Fresh).ranges]>>])
    BY <1>6, Zenon DEF FirstLookup
  <2> QED BY <1>4, <2>1
<1> QED BY <1>3, <1>5, <1>6

\* decode_root: one that is discarded, and the repetitions.
LEMMA DecodeStep ==
  ASSUME ScenarioAssumption, ChildInv, job.scenario = "decode_root", DecodeRoot PROVE ChildInv'
<1>1. /\ job.scenario \in (Registry \cup Studies) \ Walks /\ job.scenario \notin Writes
      /\ RepsHere(job.scenario) = Reps /\ Reps \in Nat \ {0}
  BY DEF Registry, Walks, Writes, RepsHere, ProcessPerRep, ScenarioAssumption
<1>2. job' = job /\ coords' = coords
  BY DEF DecodeRoot
<1>3. CASE Failed \/ Skipped
  BY <1>1, <1>2, <1>3, OtherFails DEF Failed, Skipped
<1>4. Decoded
  BY DEF ChildInv
<1>5. CASE stage = "start" /\ left' = left - 1 /\ stage' = "decode" /\ run' = run
  <2>1. Decoded'
    BY <1>1, <1>4, <1>5, SMT DEF Decoded
  <2>2. Staged'
    BY <1>1, <1>2, <1>5, SMT DEF Staged
  <2>3. SamplesAreOfTheWalk'
    BY <1>2, <1>5, AnswerStands DEF ChildInv
  <2> QED BY <1>1, <1>2, <2>1, <2>2, <2>3, OthersGoOn
<1>6. CASE /\ stage = "decode" /\ kept' = [i \in 1..left |-> [nth |-> Len(discarded) + i]]
           /\ \E entries \in {{"p50"}, {"p50", "ns_per_entry"}} : Answer("ok", [m \in entries |-> kept'])
  <2>1. left = Reps
    BY <1>4, <1>6 DEF Decoded
  <2>2. Len(kept') = Reps
    BY <1>1, <1>6, <2>1
  <2>3. PICK entries \in {{"p50"}, {"p50", "ns_per_entry"}} : Answer("ok", [m \in entries |-> kept'])
    BY <1>6
  <2>4. entries # {}
    BY <2>3
  <2>5. SamplesAreOfTheWalk' /\ stage' = "done"
    BY <1>1, <1>2, <2>2, <2>3, <2>4, OneSample
  <2>6. Staged' /\ Decoded'
    BY <1>1, <1>2, <2>5, SMT DEF Staged, Decoded
  <2> QED BY <1>1, <1>2, <2>5, <2>6, OthersGoOn
<1> QED BY <1>3, <1>5, <1>6, Zenon DEF DecodeRoot

\* The studies: the phases of an open and the whole of it are of readers that
\* have nothing yet.
LEMMA StudyStep ==
  ASSUME ScenarioAssumption, ChildInv, job.scenario \in Studies, SpawnChild \/ SplitOne
  PROVE  ChildInv'
<1>1. job.scenario \in (Registry \cup Studies) \ Walks /\ job.scenario \notin Writes
  BY DEF Studies, Walks, Writes
<1>2. job' = job /\ coords' = coords
  BY DEF SpawnChild, SplitOne
<1>3. CASE Failed
  BY <1>1, <1>2, <1>3, OtherFails DEF Failed
<1>4. SamplesAreOfTheWalk'
  BY <1>1, <1>2 DEF SamplesAreOfTheWalk
<1>5. CASE SpawnChild /\ ~Failed
  <2>1. job.scenario = "first_lookup_children" /\ stage' \in {"children", "done"}
    BY <1>5, Zenon DEF SpawnChild, Answer
  <2>2. Staged'
    BY <1>1, <1>2, <2>1, SMT DEF Staged
  <2> QED BY <1>1, <1>2, <1>4, <2>1, <2>2, OthersGoOn
<1>6. CASE SplitOne /\ ~Failed
  <2>1. job.scenario = "split_pass" /\ stage' \in {"split", "done"}
    BY <1>6, Zenon DEF SplitOne, Answer
  <2>2. Staged'
    BY <1>1, <1>2, <2>1, SMT DEF Staged
  <2>3. PICK both, n : kept' = Append(kept, Numbered([split |-> both, combined |-> both], n))
    BY <1>6, Zenon DEF SplitOne, Keep, OwnReader, Fresh
  <2> DEFINE phases == [split |-> both, combined |-> both]
             sample == Numbered(phases, n)
  <2>4. sample.split = sample.combined
    <3>1. DOMAIN phases = {"split", "combined"} /\ phases.split = both /\ phases.combined = both
      OBVIOUS
    <3> HIDE DEF phases
    <3>2. sample.split = both /\ sample.combined = both
      BY <3>1, Kept, "split" # "nth", "combined" # "nth"
    <3> QED BY <3>2
  <2>5. SplitAlike'
    <3>1. SplitAlike
      BY <2>1 DEF ChildInv
    <3> DEFINE K == Len(kept)
    <3> HIDE DEF sample
    <3>2. /\ IsASequence(kept') /\ K \in Nat
          /\ DOMAIN kept = 1..K /\ DOMAIN kept' = 1..(K + 1)
          /\ \A i \in 1..K : kept'[i] = kept[i]
          /\ kept'[K + 1] = sample
      BY <2>3, <3>1, OneMore DEF SplitAlike, sample
    <3> HIDE DEF K
    <3>3. \A i \in 1..(K + 1) : i \in 1..K \/ i = K + 1
      BY <3>2
    <3> QED BY <2>4, <3>1, <3>2, <3>3 DEF SplitAlike
  <2> QED BY <1>1, <1>2, <1>4, <2>1, <2>2, <2>5, OthersGoOn
<1> QED BY <1>3, <1>5, <1>6

\* What the lookups of a walk fetch is a sequence of ranges.
LEMMA FetchIsSeq ==
  ASSUME NEW walk, Len(walk) \in Nat, NEW has PROVE IsASequence(Fetch(walk, has).ranges)
<1> DEFINE n == Len(walk)
           S == {walk[i] : i \in 1..n} \cup {LeafOf[walk[i]] : i \in 1..n}
           seqs == [i \in 1..n |-> Ranges(walk, i, has)]
<1>1. Len(seqs) = n /\ (n = 0 => seqs = <<>>)
  OBVIOUS
<1>2. ASSUME NEW i \in 1..n PROVE seqs[i] \in Seq(S)
  <2>1. walk[i] \in S /\ LeafOf[walk[i]] \in S
    OBVIOUS
  <2>2. seqs[i] = <<walk[i]>> \/ seqs[i] = <<LeafOf[walk[i]], walk[i]>>
    BY DEF Ranges
  <2>3. ASSUME NEW T, NEW a \in T, NEW b \in T PROVE <<a>> \in Seq(T) /\ <<b, a>> \in Seq(T)
    OBVIOUS
  <2> HIDE DEF S, seqs
  <2>4. <<walk[i]>> \in Seq(S) /\ <<LeafOf[walk[i]], walk[i]>> \in Seq(S)
    BY <2>1, <2>3
  <2> QED BY <2>2, <2>4
<1>3. Fetch(walk, has).ranges = FlattenSeq(seqs)
  BY DEF Fetch
<1> HIDE DEF S, seqs
<1>4. FlattenSeq(seqs) \in Seq(S)
  BY <1>1, <1>2, FlatIsSeq
<1> QED BY <1>3, <1>4 DEF IsASequence

\* Two sequences put together are as long as both.
LEMMA BothAreLong ==
  ASSUME NEW s, NEW t, IsASequence(s), IsASequence(t)
  PROVE  /\ IsASequence(s \o t) /\ Len(s \o t) = Len(s) + Len(t)
         /\ Len(s) \in Nat /\ Len(t) \in Nat /\ <<>> \o t = t
<1>1. PICK S : s \in Seq(S)
  BY DEF IsASequence
<1>2. PICK T : t \in Seq(T)
  BY DEF IsASequence
<1> DEFINE U == S \cup T
<1>3. s \in Seq(U) /\ t \in Seq(U)
  <2>1. S \subseteq U /\ T \subseteq U
    OBVIOUS
  <2> HIDE DEF U
  <2> QED BY <1>1, <1>2, <2>1, SeqMonotonic
<1> HIDE DEF U
<1>4. s \o t \in Seq(U) /\ Len(s \o t) = Len(s) + Len(t)
  BY <1>3, ConcatProperties
<1>5. Len(s) \in Nat /\ Len(t) \in Nat
  BY <1>3, LenProperties
<1>6. <<>> \o t = t
  BY <1>3, ConcatEmptySeq
<1> QED BY <1>4, <1>5, <1>6 DEF IsASequence

\* A count of one operation more.
LEMMA OneCountMore ==
  ASSUME NEW op \in Operating, NEW n \in Nat, op \notin DOMAIN counts,
         \A o \in DOMAIN counts : counts[o] \in Nat,
         counts' = [o \in DOMAIN counts \cup {op} |-> IF o = op THEN n ELSE counts[o]]
  PROVE  /\ DOMAIN counts' = DOMAIN counts \cup {op}
         /\ \A o \in DOMAIN counts' : counts'[o] \in Nat
         /\ Total' = Total + n
<1>1. /\ DOMAIN counts' = DOMAIN counts \cup {op}
      /\ \A o \in DOMAIN counts : counts'[o] = counts[o]
      /\ counts'[op] = n
  OBVIOUS
<1> DEFINE of(o) == IF o \in DOMAIN counts THEN counts[o] ELSE 0
           after(o) == IF o \in DOMAIN counts' THEN counts'[o] ELSE 0
<1>2. \A o : of(o) \in Nat /\ after(o) = IF o = op THEN n ELSE of(o)
  BY <1>1
<1>3. of(op) = 0
  OBVIOUS
<1>4. Total = of("open") + of("root_lookup") + of("leaf_lookup_cold") + of("leaf_lookup_warm") + of("random_walk")
  BY DEF Total
<1>5. Total' = after("open") + after("root_lookup") + after("leaf_lookup_cold") + after("leaf_lookup_warm")
                 + after("random_walk")
  BY DEF Total
<1> HIDE DEF of, after
<1>6. Total' = Total + n
  <2>1. op = "root_lookup" \/ op = "leaf_lookup_cold" \/ op = "leaf_lookup_warm" \/ op = "random_walk"
    BY DEF Operating
  <2> QED BY <1>2, <1>3, <1>4, <1>5, <2>1, SMT
<1> QED BY <1>1, <1>6

\* requests: the operations count the ranges since the last one, and there is
\* none between.
LEMMA RequestsStep ==
  ASSUME ScenarioAssumption, ChildInv, job.scenario = "requests",
         FreshCounting \/ Counted \/ DeclareDirectory \/ AnswerRequests
  PROVE  ChildInv'
<1>1. /\ job.scenario \in (Registry \cup Studies) \ Walks /\ job.scenario \notin Writes
      /\ RepsHere(job.scenario) = 1
  BY DEF Registry, Walks, Writes, RepsHere, ProcessPerRep
<1>2. job' = job /\ coords' = coords
  BY DEF FreshCounting, Counted, DeclareDirectory, AnswerRequests
<1>3. CASE Failed
  BY <1>1, <1>2, <1>3, OtherFails DEF Failed
<1>4. CountedAll
  BY DEF ChildInv
<1>5. ASSUME run' = run, stage' \in Operating \cup {"counted"}, CountedAll' PROVE ChildInv'
  <2>1. Staged'
    BY <1>1, <1>2, <1>5, SMT DEF Staged
  <2>2. SamplesAreOfTheWalk'
    BY <1>2, <1>5, AnswerStands DEF ChildInv
  <2> QED BY <1>1, <1>2, <1>5, <2>1, <2>2, OthersGoOn
<1>6. CASE FreshCounting /\ ~Failed
  <2>1. /\ served' = Opened /\ counts' = [op \in {"open"} |-> Len(Opened)]
        /\ stage' = "root_lookup" /\ kept' = kept /\ run' = run
        /\ stage = "start" /\ job.backend = "pmtiles"
    BY <1>6, Zenon DEF FreshCounting, Start
  <2>2. Len(Opened) = 2 /\ IsASequence(Opened)
    <3>1. Opened \in Seq({"header", "root"}) /\ Len(Opened) = 2
      BY DEF Opened
    <3> QED BY <3>1 DEF IsASequence
  <2>3. DOMAIN counts' = {"open"} /\ counts'["open"] = 2
    BY <2>1, <2>2
  <2>4. Total' = 2
    BY <2>3, SMT DEF Total
  <2>5. CountedAll'
    <3>1. kept' = <<>> /\ stage' \in Operating /\ job'.backend = "pmtiles"
      BY <1>2, <1>4, <2>1, SMT DEF CountedAll, Operating
    <3>2. DOMAIN counts' \subseteq CountedBefore(stage') /\ \A op \in DOMAIN counts' : counts'[op] \in Nat
      BY <2>1, <2>3, SMT DEF CountedBefore
    <3> QED BY <2>1, <2>2, <2>4, <3>1, <3>2 DEF CountedAll
  <2>6. stage' \in Operating
    BY <2>1 DEF Operating
  <2> QED BY <1>5, <2>1, <2>5, <2>6
<1>7. CASE Counted /\ ~Failed
  <2> DEFINE op == Operations[stage]
             ranges == Fetch(op.walk, cache).ranges
             n == Len(ranges)
  <2>1. /\ stage \in Operating
        /\ counter' = Forget \o ranges /\ served' = served \o ranges
        /\ counts' = [o \in DOMAIN counts \cup {stage} |-> IF o = stage THEN Len(counter') ELSE counts[o]]
        /\ stage' = op.next /\ kept' = kept /\ run' = run
    <3>1. stage \in Operating
      <4>1. stage \in DOMAIN Operations
        BY <1>7, Zenon DEF Counted
      <4>2. DOMAIN Operations = Operating
        BY DEF Operations, Operating
      <4> QED BY <4>1, <4>2
    <3> QED BY <1>7, <3>1, Zenon DEF Counted
  <2>2. Len(op.walk) \in Nat
    <3>1. Walk \in Seq(ToSet(PlanOrder))
      BY WalkIsThePlans DEF ChildInv
    <3>2. Len(Walk) \in Nat
      BY <3>1, LenProperties
    <3>3. Len(<<RootAddressed>>) \in Nat /\ Len(<<job.leaf>>) \in Nat
      OBVIOUS
    <3>4. op.walk \in {<<RootAddressed>>, <<job.leaf>>, Walk}
      <4>1. stage = "root_lookup" => op.walk = <<RootAddressed>>
        BY DEF Operations
      <4>2. stage = "leaf_lookup_cold" => op.walk = <<job.leaf>>
        BY DEF Operations
      <4>3. stage = "leaf_lookup_warm" => op.walk = <<job.leaf>>
        BY DEF Operations
      <4>4. stage = "random_walk" => op.walk = Walk
        BY DEF Operations
      <4> HIDE DEF op
      <4> QED BY <2>1, <4>1, <4>2, <4>3, <4>4 DEF Operating
    <3> HIDE DEF op
    <3> QED BY <3>2, <3>3, <3>4
  <2>3. IsASequence(ranges)
    BY <2>2, FetchIsSeq
  <2>4. /\ job.backend = "pmtiles" /\ IsASequence(served) /\ kept = <<>>
        /\ DOMAIN counts \subseteq CountedBefore(stage)
        /\ \A o \in DOMAIN counts : counts[o] \in Nat
        /\ Total = Len(served)
    BY <1>4, <2>1, SMT DEF CountedAll, Operating
  <2>5. /\ stage \notin CountedBefore(stage)
        /\ op.next \in Operating \cup {"counted"}
        /\ CountedBefore(stage) \cup {stage} \subseteq CountedBefore(op.next)
    <3>1. CASE stage = "root_lookup"
      BY <3>1, SMT DEF Operations, Operating, CountedBefore
    <3>2. CASE stage = "leaf_lookup_cold"
      BY <3>2, SMT DEF Operations, Operating, CountedBefore
    <3>3. CASE stage = "leaf_lookup_warm"
      BY <3>3, SMT DEF Operations, Operating, CountedBefore
    <3>4. CASE stage = "random_walk"
      BY <3>4, SMT DEF Operations, Operating, CountedBefore
    <3> QED BY <2>1, <3>1, <3>2, <3>3, <3>4 DEF Operating
  <2> HIDE DEF op, ranges
  <2>6. /\ IsASequence(served') /\ Len(served') = Len(served) + n
        /\ n \in Nat /\ Len(counter') = n
    BY <2>1, <2>3, <2>4, BothAreLong DEF Forget
  <2>7. /\ DOMAIN counts' = DOMAIN counts \cup {stage}
        /\ \A o \in DOMAIN counts' : counts'[o] \in Nat
        /\ Total' = Total + n
    <3>1. stage \notin DOMAIN counts
      BY <2>4, <2>5
    <3>2. counts' = [o \in DOMAIN counts \cup {stage} |-> IF o = stage THEN n ELSE counts[o]]
      BY <2>1, <2>6
    <3> HIDE DEF n
    <3> QED BY <2>1, <2>4, <2>6, <3>1, <3>2, OneCountMore
  <2>8. CountedAll'
    <3>1. DOMAIN counts' \subseteq CountedBefore(stage')
      BY <2>1, <2>4, <2>5, <2>7
    <3>2. Total' = Len(served') /\ kept' = <<>> /\ job'.backend = "pmtiles"
      BY <1>2, <2>1, <2>4, <2>6, <2>7
    <3> QED BY <2>6, <2>7, <3>1, <3>2 DEF CountedAll
  <2>9. stage' \in Operating \cup {"counted"}
    BY <2>1, <2>5
  <2> QED BY <1>5, <2>1, <2>8, <2>9
<1>8. CASE DeclareDirectory
  <2>1. /\ stage' = "counted" /\ kept' = kept /\ run' = run /\ stage = "start"
        /\ job.backend = "directory"
    BY <1>8 DEF DeclareDirectory, Start
  <2>2. CountedAll'
    BY <1>2, <1>4, <2>1, SMT DEF CountedAll, Operating
  <2> QED BY <1>5, <2>1, <2>2
<1>9. CASE AnswerRequests
  <2> DEFINE metrics == IF job.backend = "pmtiles" THEN {"requests", "request_bytes"}
                        ELSE {"requests_declared", "request_bytes_declared"}
  <2>1. /\ stage = "counted" /\ Keep([requests |-> Total]) /\ Answer("ok", [m \in metrics |-> kept'])
    BY <1>9 DEF AnswerRequests
  <2>2. kept = <<>>
    BY <1>4, <2>1, SMT DEF CountedAll
  <2>3. PICK e : kept' = Append(<<>>, e)
    BY <2>1, <2>2 DEF Keep
  <2>4. Len(kept') = 1 /\ metrics # {}
    <3>1. \A x : Len(Append(<<>>, x)) = 1
      OBVIOUS
    <3>2. Len(kept') = 1
      BY <2>3, <3>1
    <3>3. metrics # {}
      OBVIOUS
    <3> QED BY <3>2, <3>3
  <2> HIDE DEF metrics
  <2>5. SamplesAreOfTheWalk' /\ stage' = "done"
    BY <1>1, <1>2, <2>1, <2>4, OneSample
  <2>6. Staged' /\ CountedAll'
    BY <1>1, <1>2, <2>5, SMT DEF Staged, CountedAll, Operating
  <2> QED BY <1>1, <1>2, <2>5, <2>6, OthersGoOn
<1> QED BY <1>3, <1>6, <1>7, <1>8, <1>9

-----------------------------------------------------------------------------
LEMMA ChildInit == ASSUME ScenarioAssumption, Init PROVE ChildInv
<1>1. /\ job \in Jobs /\ coords \in CoordinateSets /\ stage = "start"
      /\ left = Warmup(job.scenario) + RepsHere(job.scenario)
      /\ kept = <<>> /\ discarded = <<>> /\ run = Null
  BY DEF Init, InitScenario
<1>2. Staged
  BY <1>1, SMT DEF Staged
<1>3. IsASequence(kept) /\ IsASequence(discarded) /\ Len(kept) = 0 /\ Len(discarded) = 0 /\ DOMAIN kept = {}
  <2>1. <<>> \in Seq({}) /\ Len(<<>>) = 0 /\ DOMAIN <<>> = {}
    OBVIOUS
  <2> QED BY <1>1, <2>1 DEF IsASequence
<1>4. ASSUME job.scenario \in Walks PROVE Walked
  <2>1. left = 1 + Reps /\ Reps \in Nat
    BY <1>1, <1>4, WalksRepeat
  <2>2. Passes
    BY <1>3, <2>1 DEF Passes
  <2> QED BY <1>1, <2>2 DEF Walked
<1>5. ASSUME job.scenario \in Writes PROVE Wrote
  <2>1. Warmup(job.scenario) = 0 /\ RepsHere(job.scenario) = 1
    BY <1>5 DEF Warmup, Writes, Walks, RepsHere, ProcessPerRep
  <2> QED BY <1>1, <2>1 DEF Wrote
<1>6. ASSUME job.scenario = "decode_root" PROVE Decoded
  <2>1. Warmup(job.scenario) = 1 /\ RepsHere(job.scenario) = Reps
    BY <1>6 DEF Warmup, Writes, Walks, RepsHere, ProcessPerRep
  <2> QED BY <1>1, <2>1 DEF Decoded
<1>7. CountedAll
  BY <1>1, SMT DEF CountedAll, Operating
<1>8. SplitAlike
  BY <1>3 DEF SplitAlike
<1>9. SamplesAreOfTheWalk
  BY <1>1 DEF SamplesAreOfTheWalk
<1> QED BY <1>1, <1>2, <1>4, <1>5, <1>6, <1>7, <1>8, <1>9 DEF ChildInv

LEMMA ChildNext == ASSUME ScenarioAssumption, ChildInv, [Next]_vars PROVE ChildInv'
<1>1. CASE UNCHANGED vars
  <2>1. UNCHANGED <<job, coords, stage, left, kept, discarded, run, threads, served, counts>>
    BY <1>1 DEF vars, svars
  <2>2. ChildInv' = ChildInv
    BY <2>1 DEF ChildInv, Jobs, CoordinateSets, Staged, Walked, Passes, OfTheWalk, AtItsChunk, Walk, Wrote,
                Decoded, CountedAll, Total, SplitAlike, SamplesAreOfTheWalk
  <2> QED BY <2>2
<1>2. CASE Next
  BY <1>2, WhoseStep, WalkStep, WriteStep, OpenStep, DecodeStep, RequestsStep, StudyStep
<1> QED BY <1>1, <1>2

LEMMA Children == Spec => []ChildInv
<1>1. Init => ChildInv
  BY ScenarioAssumption, ChildInit
<1>2. ChildInv /\ [Next]_vars => ChildInv'
  BY ScenarioAssumption, ChildNext
<1> QED BY <1>1, <1>2, PTL DEF Spec

\* ReadPass::run(), run_arm() and the repetitions of every other scenario: an
\* answer has one sample for each repetition asked for and none of the warm-up's,
\* and a sample of a walk is of a pass that looked every tile up once, in
\* whichever order and by however many threads, whatever failed before.
THEOREM AnswersAreWhole == Spec => []SamplesAreOfTheWalk
<1>1. ChildInv => SamplesAreOfTheWalk
  BY DEF ChildInv
<1> QED BY <1>1, Children, PTL

\* CountingReader::counted() and split_pass(): the requests of the operations
\* are those the file served, each counted for one operation, and the phases of a
\* split open fetch what the whole does.
THEOREM EveryRequestIsCounted == Spec => []RequestsAddUp
<1>1. ChildInv => RequestsAddUp
  <2> SUFFICES ASSUME ChildInv PROVE RequestsAddUp
    OBVIOUS
  <2>1. ASSUME stage = "counted", job.backend = "pmtiles" PROVE Total = Len(served)
    <3>1. job.scenario \in Registry \cup Studies /\ Staged
      BY DEF ChildInv, Jobs
    <3>2. job.scenario = "requests"
      BY <2>1, <3>1, SMT DEF Staged, Registry, Studies, Walks, Writes
    <3> QED BY <2>1, <3>2 DEF ChildInv, CountedAll
  <2>2. job.scenario = "split_pass" => \A i \in DOMAIN kept : kept[i].split = kept[i].combined
    BY DEF ChildInv, SplitAlike
  <2> QED BY <2>1, <2>2 DEF RequestsAddUp
<1> QED BY <1>1, Children, PTL
=============================================================================
