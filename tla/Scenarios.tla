------------------------------ MODULE Scenarios ----------------------------
(***************************************************************************)
(* The child process of a scenario, whichever it is, and what its answer   *)
(* promises.                                                               *)
(***************************************************************************)
EXTENDS Reading, Opening, Writing

vars == <<svars, threads, cache, counter, served, counts, pids, sink, asked, clock>>

\* The jobs: a rung only for the concurrent curve; the sweep names no tile of a
\* leaf, the study does, if there is one.
Jobs ==
  {j \in [scenario : Registry \cup Studies, backend : {"pmtiles", "directory"}, threads : ThreadLadder,
          ncpu : Ncpus, leaf : {Null} \cup {t \in ToSet(Plan) : LeafOf[t] # Null}] :
     /\ j.scenario # "read_concurrent" => j.threads = 1 /\ j.ncpu = Max(Ncpus)
     /\ j.scenario # "requests" => j.leaf = Null
     /\ j.scenario \in Studies => j.backend = "pmtiles"}

Init == job \in Jobs /\ InitScenario /\ threads = <<>> /\ InitOpening /\ InitWriting

Next ==
  \/ Reading /\ UNCHANGED <<cache, counter, served, counts, pids, sink, asked, clock>>
  \/ Opening /\ UNCHANGED <<threads, sink, asked, clock>>
  \/ Writing /\ UNCHANGED <<threads, cache, counter, served, counts, pids>>

Spec == Init /\ [][Next]_vars /\ ThreadsRun

-----------------------------------------------------------------------------
\* An answer is whole or it is none: every series has one sample for each
\* repetition asked for and none of the warm-up's, and each sample of a walk is
\* of a pass that looked every tile the profile reads up once, in whichever
\* order and by however many threads.
SamplesAreOfTheWalk ==
  run # Null /\ job.scenario \notin Studies =>
    /\ (run.outcome = "ok") = (DOMAIN run.series # {})
    /\ \A m \in DOMAIN run.series :
         /\ Len(run.series[m]) = RepsHere(job.scenario)
         /\ job.scenario \in Walks =>
              \A i \in DOMAIN run.series[m] :
                LET sample == run.series[m][i]
                IN  /\ sample.nth = Warmup(job.scenario) + i
                    /\ Len(sample.looked) = Min({ReadSamples, Len(Plan)})
                    /\ ToSet(sample.looked) = ToSet(SubSeq(Plan, 1, Len(sample.looked)))

\* The requests of the operations are those the file served, each counted for
\* one operation; and the phases of a split open, timed apart, fetch what the
\* whole does.
RequestsAddUp ==
  /\ stage = "counted" /\ job.backend = "pmtiles" => Total = Len(served)
  /\ job.scenario = "split_pass" =>
       \A i \in DOMAIN kept : kept[i].split = kept[i].combined

\* In a repetition the split accepts, the sink is finished once, when all its
\* tiles are there, and on the clock of the finalize.
FinalizeIsApart ==
  job.scenario \in Split =>
    \A i \in DOMAIN kept : kept[i].finishes = <<[tiles |-> Tiles, clock |-> "finalize"]>>

\* A pass ends whatever becomes of its threads.
PassEnds == (stage = "pass") ~> (stage # "pass")
=============================================================================
