------------------------------ MODULE MCContests ---------------------------
(***************************************************************************)
(* Instances of the contests: four variants and go-pmtiles on a real and a *)
(* synthetic cell; four sinks and tools on three scans whose last levels   *)
(* differ; three engines.                                                  *)
(***************************************************************************)
EXTENDS Contests

Budgets == <<262144>>
WriterProfile == << <<"real", 5>>, <<"synthetic", 2>> >>
ScanProfile == << <<19, 13>>, <<9, 4>>, <<2, 1>> >>
EngineOrder == <<"monolithic", "streaming", "mapreduce">>
EngineProfile == <<6>>
ReadingsAll ==
  {[cpu |-> 0, io |-> Null], [cpu |-> 1, io |-> 0], [cpu |-> 2, io |-> 0], [cpu |-> 0, io |-> 1], [cpu |-> Null, io |-> 0]}

\* The samples of a cell cast no doubt, those of one contender's times lie apart,
\* or everything that can be said against them is.
Casts(backend, backends, scenarios, metrics) ==
  {{}, {<<backend, s, "wall", "cov">> : s \in scenarios},
   backends \X scenarios \X metrics \X {"cov", "timer"}}
DoubtsCast ==
  [s \in {"writer", "pvec", "engines"} |->
    CASE s = "writer" -> Casts(ContendersW[1], Range(ContendersW),
           {"write_ingest", "write_finalize", "write_output", "build_from_tiles"},
           {"wall", "heap_peak", "output_bytes", "peak_rss"})
      [] s = "pvec" -> Casts("pvec", Range(ALL), {"generate_scan"},
           {"wall", "throughput", "heap_peak", "output_bytes", "peak_rss"})
      [] s = "engines" -> Casts("streaming", Range(ENGINES), {"pyramid"}, METRICS)]

Deviations == [s \in {"writer", "pvec", "engines"} |-> IF s = "engines" THEN 2 ELSE 1]
=============================================================================
