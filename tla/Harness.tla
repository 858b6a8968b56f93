------------------------------ MODULE Harness ------------------------------
(***************************************************************************)
(* src/harness.rs, the engines it measures (src/lib.rs) and the report     *)
(* that publishes them (src/report.rs).  For every size a reference        *)
(* pyramid is built, for every concurrency the engines take turns in       *)
(* children of their own, and every row is scored against the reference by *)
(* a sample of the tiles its engine makes.                                 *)
(*                                                                         *)
(* A pyramid is the sequence of its levels, the smallest first; a level is *)
(* a function from tile positions to what the file there is: "right",      *)
(* "wrong" (it decodes to other pixels), "corrupt" or "absent".            *)
(***************************************************************************)
EXTENDS Integers, Sequences, FiniteSets, SequencesExt, FiniteSetsExt, Sifting

CONSTANTS
  Families,        \* the families that are compiled in
  Plans,           \* per size the columns and rows of each planned level
  Concurrency,     \* the concurrency levels
  Iters, WarmUps,  \* repetitions of a cell, timed and discarded
  MAX_SPOT_TILES,  \* tiles of a level that are compared
  MaxFaults,       \* bound: deviations from a run in which all is well
  Null             \* None

ASSUME HarnessAssumption ==
  /\ Families \subseteq {"engines", "vips"} /\ WarmUps \in Nat
  /\ Iters \in Nat \ {0} /\ MAX_SPOT_TILES \in Nat \ {0} /\ MaxFaults \in Nat
  /\ Plans \in Seq(Seq((Nat \ {0}) \X (Nat \ {0})) \ {<<>>}) \ {<<>>}

VARIABLES
  phase,      \* "reference", "children", "scores", "report" or "exit"
  size, conc, \* indices into Plans and Concurrency
  family,     \* the family that is measured
  vips,       \* the vips command is installed
  turns,      \* the children still to run for this configuration
  samples,    \* engine -> the metrics of its timed repetitions
  reference,  \* [by, pyramid], or Null
  toScore,    \* the rows of this configuration that are still to be scored
  rows,       \* the rows of the configurations that are over
  warned,     \* engines the equivalence gate spoke of in this configuration
  tmp,        \* what is in the scratch directory, as tuples
  orphans,    \* what children that were killed left there (history)
  files,      \* what this run has written to the report directory
  code,       \* the report's exit code, or Null
  faults      \* deviations so far (bound)

suiteVars == <<phase, size, conc, family, vips, turns, samples, reference, toScore, rows,
               warned, tmp, orphans, files, code, faults>>

host == <<family, vips>>

LIBVIPRS_ENGINES == <<"monolithic", "streaming", "mapreduce">>

Engines == LIBVIPRS_ENGINES \o (IF family = "vips" THEN <<"libvips">> ELSE <<>>)

Spend(n) == faults + n <= MaxFaults /\ faults' = faults + n

When(deviates) == IF deviates THEN 1 ELSE 0

-----------------------------------------------------------------------------
(* Pyramids. *)

Level(cols, rws, what) == [p \in (0..(cols - 1)) \X (0..(rws - 1)) |-> what]

Planned == [k \in DOMAIN Plans[size] |-> Level(Plans[size][k][1], Plans[size][k][2], "right")]

\* The levels that can be there.
Side(s, k) == <<0..(Plans[s][k][1] - 1), 0..(Plans[s][k][2] - 1)>>
Tile == {"right", "wrong", "corrupt", "absent"}
AnyLevel ==
  [{<<0, 0>>} -> Tile] \cup
  UNION {UNION {[Side(s, k)[1] \X Side(s, k)[2] -> Tile] : k \in DOMAIN Plans[s]} : s \in DOMAIN Plans}

\* None is no number, no verdict and no reference.
ASSUME NullAssumption ==
  /\ Null \notin Nat \cup {"pass"}
  /\ Null \notin [by : {"libvips", "monolithic"}, pyramid : Seq(AnyLevel)]

\* What an engine writes: its plan, but a tile may have come out otherwise.
But(whole, k, p, what) == [whole EXCEPT ![k][p] = what]

Written(whole) ==
  {whole} \cup UNION {{But(whole, k, p, what) : p \in DOMAIN whole[k], what \in Tile \ {"right"}} :
                        k \in DOMAIN whole}

\* libvips goes on to a level of one pixel.
FromVips == <<Level(1, 1, "right")>> \o Planned

\* read_level_grids(): the extent of the files that are there.
Grid(level) ==
  LET there == {p \in DOMAIN level : level[p] # "absent"}
  IN  <<Max({0} \cup {p[1] + 1 : p \in there}), Max({0} \cup {p[2] + 1 : p \in there})>>

\* per_level_png_tiles()
Counts(pyramid) ==
  [k \in DOMAIN pyramid |-> Cardinality({p \in DOMAIN pyramid[k] : pyramid[k][p] # "absent"})]

-----------------------------------------------------------------------------
(* spot_check_tile_psnr(). *)

\* Mutant of Down: the levels are counted from the smallest.
Down_FromTop(pyramid, k) == pyramid[k + 1]

\* The k-th level below full resolution.
Down(pyramid, k) == pyramid[Len(pyramid) - k]

\* The levels both have, under the full one, on which they agree.
Shared(ref, cand) ==
  {k \in 1..(Min({Len(ref), Len(cand)}) - 1) : Grid(Down(ref, k)) = Grid(Down(cand, k))}

\* The median level of several tiles; failing that, the first one below.
MidLevel(ref, cand) ==
  LET many == {k \in Shared(ref, cand) : Grid(Down(cand, k))[1] * Grid(Down(cand, k))[2] > 1}
      mids == IF many # {} THEN many
              ELSE IF Shared(ref, cand) = {} THEN {} ELSE {Min(Shared(ref, cand))}
  IN  IF mids = {} THEN Null
      ELSE CHOOSE k \in mids : Cardinality({j \in mids : j < k}) = Cardinality(mids) \div 2

\* Up to MAX_SPOT_TILES positions, spread over the level row by row.
SampleOf(grid) ==
  LET total == grid[1] * grid[2]
      stride == Max({1, (total + MAX_SPOT_TILES - 1) \div MAX_SPOT_TILES})
  IN  {p \in (0..(grid[1] - 1)) \X (0..(grid[2] - 1)) : (p[2] * grid[1] + p[1]) % stride = 0}

\* Mutant of Compared: a tile that does not decode is passed over.
Compared_Decoded(a, b) == a \notin {"absent", "corrupt"} /\ b \notin {"absent", "corrupt"}

\* A tile that one of the two did not write is passed over.
Compared(a, b) == a # "absent" /\ b # "absent"

\* The minimum PSNR, as what it says of the 40 dB: "pass", "fail" or nothing.
SpotCheck(ref, cand) ==
  LET k == MidLevel(ref, cand)
      pairs == {<<Down(ref, k)[p], Down(cand, k)[p]>> : p \in SampleOf(Grid(Down(cand, k)))}
      compared == {ab \in pairs : Compared(ab[1], ab[2])}
  IN  IF k = Null \/ compared = {} THEN Null
      ELSE IF \A ab \in compared : ab[1] = ab[2] /\ ab[1] # "corrupt" THEN "pass" ELSE "fail"

-----------------------------------------------------------------------------
(* The reference of a size. *)

\* Mutant of Turns: each engine has all its passes before the next one.
Turns_PerEngine ==
  FlattenSeq([e \in DOMAIN Engines |->
    [i \in 1..(WarmUps + Iters) |-> [engine |-> Engines[e], timed |-> i > WarmUps]]])

\* The walk of a configuration: every engine's discarded passes, then the
\* timed ones, the engines taking turns in both.
Turns ==
  FlattenSeq([i \in 1..(WarmUps + Iters) |->
    [e \in DOMAIN Engines |-> [engine |-> Engines[e], timed |-> i > WarmUps]]])

NoReference(left) ==
  /\ reference' = Null /\ tmp' = left

UnderRoot(t) == t[1] \in {"equiv", "cand"}

\* Mutant of RootGone: only what the engines wrote is removed.
RootGone_Candidates == {t \in tmp : t[1] # "cand"}

\* remove_dir_all(root)
RootGone == {t \in tmp : ~UnderRoot(t)}

\* EquivalenceReference::build: vips makes the reference from a staged PNG.
VipsReference ==
  \/ ~vips /\ Spend(0) /\ NoReference(tmp)
  \/ vips /\ Spend(1) /\ NoReference(RootGone)
  \/ /\ vips
     /\ \E pyramid \in Written(FromVips) :
          Spend(When(pyramid # FromVips)) /\ reference' = [by |-> "libvips", pyramid |-> pyramid]
     /\ tmp' = RootGone \cup {<<"equiv">>}

\* EquivalenceReference::build_monolithic: without vips, an engine's own is.
OwnReference ==
  \/ Spend(1) /\ NoReference(RootGone)
  \/ /\ \E pyramid \in Written(Planned) :
          Spend(When(pyramid # Planned)) /\ reference' = [by |-> "monolithic", pyramid |-> pyramid]
     /\ tmp' = RootGone \cup {<<"equiv">>}

BuildReference ==
  /\ phase = "reference"
  /\ IF "libvips" \in Range(Engines) THEN VipsReference ELSE OwnReference
  /\ phase' = "children" /\ turns' = Turns
  /\ samples' = [e \in Range(Engines) |-> <<>>]
  /\ UNCHANGED <<size, conc, host, toScore, rows, warned, orphans, files, code>>

-----------------------------------------------------------------------------
(* A child. *)

\* A run that succeeds says how long it took, the RSS the process saw of itself
\* and how many tiles each level has.
Ran(e, path, grid) ==
  {[by |-> e, wall |-> w, rss |-> "own", path |-> path, grid |-> g] :
     w \in {1, 2}, g \in {grid, Counts(FromVips), Tail(Counts(Planned)), [Counts(FromVips) EXCEPT ![1] = 4]}}

BenchMonolithic == Ran("monolithic", "engine", Counts(Planned))
BenchStreaming == Ran("streaming", "engine", Counts(Planned))
BenchMapreduce == Ran("mapreduce", "engine", Counts(Planned))
BenchLibvipsInprocess == Ran("libvips", "ffi", Counts(FromVips))
BenchLibvips == Ran("libvips", "cli", Counts(FromVips))

\* What run_single_cell() returns: an engine that fails has no metrics; libvips
\* is called in the process, and by its command when that failed.
RunSingleCell(e) ==
  {Null} \cup CASE e = "monolithic" -> BenchMonolithic
               [] e = "streaming" -> BenchStreaming
               [] e = "mapreduce" -> BenchMapreduce
               [] e = "libvips" -> BenchLibvipsInprocess \cup BenchLibvips

Amiss(e, m) ==
  IF m = Null THEN 1
  ELSE When(m.wall # 1) + When(m.path = "cli")
         + When(m.grid # Counts(IF e = "libvips" THEN FromVips ELSE Planned))

\* What a child keeps in the scratch directory while it runs: the directory of
\* its sink, and the PNG that the command reads.
Scratch(e, m) ==
  {<<"sink", e>>} \cup (IF e = "libvips" /\ (m = Null \/ m.path = "cli") THEN {<<"png">>} ELSE {})

\* The sink's directory goes when its guard is dropped, on every path; the
\* PNG is named for its size only, and the next command writes it again.
ChildLeaves(e, m, killed) ==
  IF killed THEN tmp \cup Scratch(e, m) ELSE tmp \ {t \in Scratch(e, m) : t = <<"png">>}

\* spawn_single_cell(): the parent's reading of the RSS is preferred, and the
\* child's exit status is not looked at.
SpawnSingleCell ==
  /\ phase = "children" /\ turns # <<>>
  /\ \E killed \in BOOLEAN, reaped \in BOOLEAN :
     \E m \in RunSingleCell(Head(turns).engine) :
       LET e == Head(turns).engine
           answer == IF m = Null \/ ~reaped THEN m ELSE [m EXCEPT !.rss = "parent"]
       IN  /\ Spend(Amiss(e, m) + When(killed) + When(~reaped))
           /\ tmp' = ChildLeaves(e, m, killed)
           /\ orphans' = IF killed THEN orphans \cup Scratch(e, m) ELSE orphans \cap tmp'
           /\ samples' = IF Head(turns).timed /\ answer # Null
                         THEN [samples EXCEPT ![e] = Append(@, answer)] ELSE samples
  /\ turns' = Tail(turns)
  /\ UNCHANGED <<phase, size, conc, host, reference, toScore, rows, warned, files, code>>

-----------------------------------------------------------------------------
(* aggregate() and the gate. *)

\* The k-th shortest wall time.
Wall(s, k) ==
  CHOOSE w \in {s[i].wall : i \in DOMAIN s} :
    /\ Cardinality({i \in DOMAIN s : s[i].wall < w}) < k
    /\ Cardinality({i \in DOMAIN s : s[i].wall <= w}) >= k

\* Twice the median wall time.
Median2(s) == Wall(s, (Len(s) + 1) \div 2) + Wall(s, (Len(s) \div 2) + 1)

Off(m, s) == IF 2 * m.wall >= Median2(s) THEN 2 * m.wall - Median2(s) ELSE Median2(s) - 2 * m.wall

\* The first sample whose wall time is nearest the median stands for the row.
Representative(s) ==
  s[CHOOSE i \in DOMAIN s : \A j \in DOMAIN s :
      Off(s[i], s) < Off(s[j], s) \/ (Off(s[i], s) = Off(s[j], s) /\ i <= j)]

Aggregate(e) ==
  [engine |-> e, size |-> size, conc |-> Concurrency[conc], n |-> Len(samples[e]),
   rep |-> Representative(samples[e]), psnr |-> Null, from |-> <<>>, against |-> <<>>]

Aggregated ==
  LET heard == Sifted(Engines, {e \in Range(Engines) : samples[e] # <<>>})
  IN  [i \in DOMAIN heard |-> Aggregate(heard[i])]

\* Mutant of IsApexExtended: any one level more is taken for the apex.
IsApexExtended_AnyLevel(ref, extended) == Len(extended) = Len(ref) + 1

IsApexExtended(ref, extended) ==
  Len(extended) = Len(ref) + 1 /\ extended[1] = 1 /\ Tail(extended) = ref

\* check_output_equivalence(): the engines whose tiles are not the reference's,
\* which is the first of the crate's own engines.
Unequal(cell) ==
  LET gridded == Sifted(cell, {r \in Range(cell) : r.rep.grid # <<>>})
      own == Sifted(gridded, {r \in Range(gridded) : r.engine # "libvips"})
      ref == IF own # <<>> THEN own[1].rep.grid ELSE gridded[1].rep.grid
  IN  IF gridded = <<>> THEN {}
      ELSE {r.engine : r \in {g \in Range(gridded) :
              /\ g.rep.grid # ref
              /\ ~(g.engine = "libvips" /\ IsApexExtended(ref, g.rep.grid))}}

EndOfTurns ==
  /\ phase = "children" /\ turns = <<>>
  /\ warned' = Unequal(Aggregated)
  /\ toScore' = Aggregated
  /\ phase' = "scores"
  /\ UNCHANGED <<size, conc, host, turns, samples, reference, rows, tmp, orphans, files, code, faults>>

-----------------------------------------------------------------------------
(* EquivalenceReference::spot_check, row by row. *)

Scored(row) == reference # Null /\ row.engine # "libvips" /\ row.engine # reference.by

Done(row) ==
  /\ toScore' = Tail(toScore) /\ rows' = Append(rows, row)
  /\ UNCHANGED <<phase, size, conc, host, turns, samples, reference, warned, orphans, files, code>>

Unscored ==
  /\ phase = "scores" /\ toScore # <<>> /\ ~Scored(Head(toScore))
  /\ Done(Head(toScore)) /\ UNCHANGED <<tmp, faults>>

\* The row's engine builds a pyramid again, at the row's concurrency.  One that
\* could not be built is left in the reference's root.
Score ==
  /\ phase = "scores" /\ toScore # <<>> /\ Scored(Head(toScore))
  /\ LET row == Head(toScore)
         dir == <<"cand", row.engine, row.conc>>
     IN  \/ Spend(1) /\ Done(row) /\ tmp' = tmp \cup {dir}
         \/ \E cand \in Written(Planned) :
              /\ Spend(When(cand # Planned))
              /\ Done([row EXCEPT !.psnr = SpotCheck(reference.pyramid, cand),
                                  !.from = cand, !.against = reference.pyramid])
              /\ tmp' = tmp \ {dir}

\* The next concurrency of the size; or the size is over and its reference is
\* dropped, with its root.
NextConfiguration ==
  /\ phase = "scores" /\ toScore = <<>>
  /\ IF conc < Len(Concurrency)
     THEN /\ phase' = "children" /\ conc' = conc + 1 /\ turns' = Turns
          /\ samples' = [e \in Range(Engines) |-> <<>>]
          /\ UNCHANGED <<size, reference, tmp>>
     ELSE /\ conc' = 1 /\ turns' = <<>> /\ samples' = <<>> /\ reference' = Null
          /\ tmp' = IF reference = Null THEN tmp ELSE RootGone
          /\ IF size < Len(Plans) THEN phase' = "reference" /\ size' = size + 1
             ELSE phase' = "report" /\ UNCHANGED size
  /\ warned' = {}
  /\ UNCHANGED <<host, toScore, rows, orphans, files, code, faults>>

-----------------------------------------------------------------------------
(* The report. *)

Outputs == <<"verdict_table.txt", "benchmark_results.json", "comparison_table.txt">>

\* Each output is written in turn; one that cannot be is a panic.
WriteOutput ==
  /\ phase = "report" /\ Len(files) < Len(Outputs)
  /\ \/ files' = Append(files, Outputs[Len(files) + 1]) /\ UNCHANGED <<phase, code, faults>>
     \/ Spend(1) /\ phase' = "exit" /\ code' = 101 /\ UNCHANGED files
  /\ UNCHANGED <<size, conc, host, turns, samples, reference, toScore, rows, warned, tmp, orphans>>

\* The snapshot is appended, unless the history cannot be read or written, or
\* refuses it because it is of another family.
AppendHistory ==
  /\ phase = "report" /\ Len(files) = Len(Outputs)
  /\ phase' = "exit"
  /\ \/ files' = Append(files, "benchmark_history.json") /\ code' = 0 /\ UNCHANGED faults
     \/ Spend(1) /\ code' \in {0, 3} /\ UNCHANGED files
  /\ UNCHANGED <<size, conc, host, turns, samples, reference, toScore, rows, warned, tmp, orphans>>

SuiteInit ==
  /\ phase = "reference" /\ size = 1 /\ conc = 1 /\ family \in Families /\ vips \in BOOLEAN
  /\ turns = <<>> /\ samples = <<>> /\ reference = Null /\ toScore = <<>> /\ rows = <<>>
  /\ warned = {} /\ tmp = {} /\ orphans = {} /\ files = <<>> /\ code = Null /\ faults = 0

SuiteNext ==
  \/ BuildReference \/ SpawnSingleCell \/ EndOfTurns \/ Unscored \/ Score
  \/ NextConfiguration \/ WriteOutput \/ AppendHistory

SuiteSpec == SuiteInit /\ [][SuiteNext]_suiteVars

-----------------------------------------------------------------------------
\* Tiles of a level's sample that both have decode to the same pixels.
SampleAgrees(ref, cand) ==
  /\ \E p \in SampleOf(Grid(cand)) : "absent" \notin {cand[p], ref[p]}
  /\ \A p \in SampleOf(Grid(cand)) :
       {cand[p], ref[p]} \in {{"right"}, {"wrong"}} \/ "absent" \in {cand[p], ref[p]}

\* A row that passes was compared at a level below full resolution, of the same
\* grid and as far down on both sides, of several tiles unless none is, and its
\* sample agrees.  When all is well every row that is to be compared passes.
ScoresAreTrue ==
  \A i \in DOMAIN rows :
    LET cand(k) == rows[i].from[Len(rows[i].from) - k]
        ref(k) == rows[i].against[Len(rows[i].against) - k]
        below == {k \in 1..(Len(rows[i].from) - 1) :
                    k < Len(rows[i].against) /\ Grid(cand(k)) = Grid(ref(k))}
        several == {k \in below : Grid(cand(k))[1] * Grid(cand(k))[2] > 1}
    IN  /\ rows[i].psnr = "pass" =>
             \E k \in IF several # {} THEN several ELSE below : SampleAgrees(ref(k), cand(k))
        /\ faults = 0 /\ Len(rows[i].from) > 1 => rows[i].psnr = "pass"

\* A configuration the gate is silent of did the same work: engines that left
\* tiles left as many on each level, but for libvips' apex of one tile.
GateIsSound ==
  phase = "scores" /\ warned = {} =>
    \A r \in Range(Aggregated), s \in Range(Aggregated) :
      LET gr == r.rep.grid
          gs == s.rep.grid
      IN  gr # <<>> /\ gs # <<>> =>
            \/ gr = gs
            \/ r.engine = "libvips" /\ gr = <<1>> \o gs
            \/ s.engine = "libvips" /\ gs = <<1>> \o gr

\* Between two sizes, and in the end, nothing is left of the pyramids that
\* were built to be measured or compared but what killed children left.
NothingLeft == phase \in {"reference", "report", "exit"} => tmp = orphans

\* No engine is ever more than a turn ahead of another, and what is filed was
\* timed: a drift of the machine meets all of them alike.
TurnsAlternate ==
  phase = "children" =>
    LET left(e) == Cardinality({i \in DOMAIN turns : turns[i].engine = e})
        timed(e) == Cardinality({i \in DOMAIN turns : turns[i].engine = e /\ turns[i].timed})
    IN  \A e \in Range(Engines), f \in Range(Engines) :
          left(e) - left(f) <= 1 /\ Len(samples[e]) + timed(e) <= Iters
=============================================================================
