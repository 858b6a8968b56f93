------------------------------ MODULE PvecSweep ----------------------------
(***************************************************************************)
(* src/storage/pvec_sweep.rs: one scan generated by two sinks of the core  *)
(* and by two external tools, each repetition in a process of its own.     *)
(***************************************************************************)
EXTENDS Contest

CONSTANTS
  TILE_EDGE,  \* the edge of a tile, even
  ScanCells   \* the scans of the profile: <<width, height>>

ASSUME PvecAssumption ==
  /\ TILE_EDGE \in Nat \ {0} /\ TILE_EDGE % 2 = 0
  /\ ScanCells \in Seq((Nat \ {0}) \X (Nat \ {0})) \ {<<>>}

ALL == <<"pmtiles", "pvec", "gdal-cog", "libvips-zip">>
Tools == {"gdal-cog", "libvips-zip"}

DivCeil(a, b) == (a + b - 1) \div b

\* Level k of a scan, counted from the full one: both sides halved k times.
Side(c, k) == [x \in 1..2 |-> DivCeil(c[x], 2 ^ k)]
Longer(c, k) == IF Side(c, k)[1] >= Side(c, k)[2] THEN Side(c, k)[1] ELSE Side(c, k)[2]
TilesAt(c, k) == DivCeil(Side(c, k)[1], TILE_EDGE) * DivCeil(Side(c, k)[2], TILE_EDGE)

\* Bound: the levels looked at.
MaxLevel == 16

\* A scan is within half a tile by then.  (Of a power of two the provers know
\* that it is an integer, not that it is positive or what it is twice of.)
ASSUME ScanAssumption ==
  /\ \A k \in 0..MaxLevel : 2 ^ k \in Nat \ {0} /\ 2 ^ (k + 1) = 2 * 2 ^ k
  /\ \A i \in DOMAIN ScanCells :
       /\ Longer(ScanCells[i], MaxLevel) <= TILE_EDGE \div 2
       /\ \A k \in 0..MaxLevel :
            Longer(ScanCells[i], k) \in Nat /\ TilesAt(ScanCells[i], k) \in Nat \ {0}

\* The first level of which no side is longer than `edge`.
FirstWithin(c, edge) == Min({k \in 0..MaxLevel : Longer(c, k) <= edge})

TilesTo(c, last) ==
  LET upto[k \in 0..MaxLevel] == TilesAt(c, k) + (IF k = 0 THEN 0 ELSE upto[k - 1])
  IN  upto[last]

\* The core's planner stops at the first level of one tile.
Levels(c) == FirstWithin(c, TILE_EDGE) + 1
ScanTiles(c) == TilesTo(c, Levels(c) - 1)

\* Mutant of VipsTiles: the same pyramid as ours.
VipsTiles_Ours(c) == ScanTiles(c)

\* vips_tiles(): halved until the longer side is half a tile.
VipsTiles(c) == TilesTo(c, FirstWithin(c, TILE_EDGE \div 2))

\* What libvips was seen to cut: our pyramid, and one tile more if our last
\* level is longer than half a tile.
DzSave(c) ==
  ScanTiles(c) + (IF Longer(c, Levels(c) - 1) > TILE_EDGE \div 2 THEN 1 ELSE 0)

-----------------------------------------------------------------------------
(* One repetition, in a child. *)

\* What the artefact has of what it is counted by: grid tiles of ours,
\* overviews of a COG, PNG entries of a zip.
Holds(who, c) ==
  CASE who \in {"pmtiles", "pvec"} -> ScanTiles(c)
    [] who = "gdal-cog" -> Levels(c) - 1
    [] who = "libvips-zip" -> DzSave(c)

ArtefactsP(n) ==
  [fed : {n}, lost : {0, 1}, wrong : {"no", "sampled", "unsampled", "size"}]

\* What a child may be unable to measure: ours report their heap, a tool does not.
OptionalP(who) ==
  {{"output_bytes"}, {"peak_rss"}} \cup (IF who \in Tools THEN {} ELSE {{"heap_peak"}})

\* one_rep().
OneRepP(who, c) ==
  {[verdict |-> "ok", archive |-> a, whole |-> has = {"build_ms"} \cup UNION OptionalP(who),
    out |-> [by |-> who, fact |-> f, left |-> a, has |-> has]] :
     a \in ArtefactsP(Holds(who, c)), f \in {"same", "other"},
     has \in Figures({"build_ms"}, OptionalP(who))}

\* run_child() and run_child_process(): any error, exit or silence is one.
RunChildP(who, c) ==
  {[verdict |-> "ran", out |-> Null, archive |-> [fed |-> 0, lost |-> 0, wrong |-> "no"]]}
    \cup OneRepP(who, c)

\* Mutant of Attest: a COG is believed if it has the scan's size.
Attest_SizeOnly(who, c, a, lister) ==
  CASE who = "pmtiles" -> a.fed - a.lost = ScanTiles(c) /\ a.wrong # "sampled"
    [] who = "pvec" -> a.wrong # "size" /\ a.fed - a.lost = ScanTiles(c) /\ a.wrong # "sampled"
    [] who = "gdal-cog" -> lister /\ a.wrong # "size"
    [] who = "libvips-zip" -> lister /\ a.fed - a.lost = VipsTiles(c)

\* The artefact is read back: ours tile by tile and a sample of them as PNG,
\* a tool's by its size and its count, with a program that may not run.
Attest(who, c, a, lister) ==
  CASE who = "pmtiles" -> a.fed - a.lost = ScanTiles(c) /\ a.wrong # "sampled"
    [] who = "pvec" -> a.wrong # "size" /\ a.fed - a.lost = ScanTiles(c) /\ a.wrong # "sampled"
    [] who = "gdal-cog" -> lister /\ a.wrong # "size" /\ a.fed - a.lost = Levels(c) - 1
    [] who = "libvips-zip" -> lister /\ a.fed - a.lost = VipsTiles(c)

-----------------------------------------------------------------------------
(* The sweep. *)

\* The scan is written for the tools, once and untimed, if there is a tool.
PrepareP ==
  /\ sweep = "pvec" /\ stage = "prepare"
  /\ \E written \in {w \in BOOLEAN : w => tools # {}} :
       /\ Spend(IF written \/ tools = {} THEN 0 ELSE 1)
       /\ inputs' = IF written THEN tools ELSE {}
       /\ Begin(Walk(ALL, [who \in Range(ALL) |->
            IF who \in Tools \ inputs' THEN <<>> ELSE <<[who |-> who, acc |-> <<who, "scan">>]>>]))
  /\ rows' = {}
  /\ UNCHANGED <<sweep, tools, cell, waited, under>>

\* child_rep(): run the child, then read what it left.
RepetitionP ==
  /\ sweep = "pvec" /\ stage = "child"
  /\ LET who == Head(jobs).who
         c == ScanCells[cell]
     IN  \E reply \in RunChildP(who, c), r \in Readings, lister \in BOOLEAN :
           /\ lister \/ who \in Tools
           /\ Spend((IF InOrder(reply) THEN 0 ELSE 1)
                    + (IF lister THEN 0 ELSE 1) + (IF r.cpu = 0 THEN 0 ELSE 1))
           /\ Report(IF reply.verdict = "ran" THEN "ran"
                     ELSE IF Attest(who, c, reply.archive, lister) THEN "ok" ELSE "attest",
                     reply.out, r.cpu)

ColumnsP(who) ==
  {[scenario |-> "generate_scan", metric |-> m[1], field |-> m[2]] :
     m \in {<<"wall", "build_ms">>, <<"throughput", "build_ms">>,
            <<"peak_rss", "peak_rss">>, <<"output_bytes", "output_bytes">>}
           \cup (IF who \in Tools THEN {} ELSE {<<"heap_peak", "heap_peak">>})}

RowsP(doubts) ==
  UNION {{RowOf(who, col, <<who, "scan">>, who \in Tools \ inputs, doubts) : col \in ColumnsP(who)} :
           who \in Range(ALL)}

FinishP ==
  /\ sweep = "pvec"
  /\ \E doubts \in Doubts["pvec"] : Publish(RowsP(doubts), Len(ScanCells))

InitP ==
  /\ sweep = "pvec" /\ tools \in SUBSET Tools
  /\ cell = 1 /\ stage = "prepare" /\ inputs = {} /\ jobs = <<>> /\ accs = <<>>
  /\ waited = 0 /\ under = Null /\ rows = {} /\ faults = 0

NextP == PrepareP \/ RepetitionP \/ FinishP
=============================================================================
