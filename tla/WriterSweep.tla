----------------------------- MODULE WriterSweep ---------------------------
(***************************************************************************)
(* src/storage/writer_sweep.rs: every variant of the PMTiles writer, and   *)
(* go-pmtiles, on the cells of a profile.  A variant is measured by the    *)
(* engine that builds a pyramid into it (real cells only) and by feeding   *)
(* it a tile set; go-pmtiles converts the same tile set.  The parent reads *)
(* every archive back before it believes a child.                          *)
(***************************************************************************)
EXTENDS Contest

CONSTANTS
  Knobs,         \* the measured core has the writer knobs
  BUDGETS_BYTES, \* the dedupe budgets of the matrix, a sequence
  WriterCells    \* cells of the profile: <<"real", tiles>> or <<"synthetic", zoom>>

ASSUME WriterAssumption ==
  /\ Knobs \in BOOLEAN
  /\ BUDGETS_BYTES \in Seq(Nat) /\ IsInjective(BUDGETS_BYTES)
  /\ WriterCells \in Seq({"real", "synthetic"} \X Nat) \ {<<>>}

GO == "go-pmtiles"
KiB == 1024
Multiplier == 31153  \* 0x9E3779B1 in its low 16 bits: zooms up to 8
Seed == 1            \* SEED in its low 16 bits

-----------------------------------------------------------------------------
(* Variants, and the labels a child is told them by. *)

\* The variants the measured core can express.
Matrix ==
  IF Knobs
  THEN FlattenSeq([m \in 1..4 |-> [b \in DOMAIN BUDGETS_BYTES |->
         [layout |-> IF m % 2 = 1 THEN "tile-id" ELSE "arrival",
          ordered |-> m > 2, budget |-> BUDGETS_BYTES[b]]]])
  ELSE <<[layout |-> "tile-id", ordered |-> FALSE, budget |-> Null]>>

\* Mutant of Label: a budget that is not whole MiB is rounded down to them.
Label_InMiB(v) ==
  <<v.layout, v.ordered>> \o
  IF v.budget = Null THEN <<"unbounded", 0>> ELSE <<"MiB", v.budget \div (KiB * KiB)>>

\* <layout>[+ordered]@<budget>, in the largest unit that divides it.
Label(v) ==
  <<v.layout, v.ordered>> \o
  CASE v.budget = Null -> <<"unbounded", 0>>
    [] v.budget # Null /\ v.budget % (KiB * KiB) = 0 -> <<"MiB", v.budget \div (KiB * KiB)>>
    [] v.budget # Null /\ v.budget % (KiB * KiB) # 0 /\ v.budget % KiB = 0 ->
         <<"KiB", v.budget \div KiB>>
    [] OTHER -> <<"B", v.budget>>

ParseVariant(label) ==
  IF label[1] \notin {"tile-id", "arrival"} THEN Null
  ELSE [layout |-> label[1], ordered |-> label[2],
        budget |-> CASE label[3] = "unbounded" -> Null
                     [] label[3] = "MiB" -> label[4] * KiB * KiB
                     [] label[3] = "KiB" -> label[4] * KiB
                     [] OTHER -> label[4]]

\* What the core is told of a variant: it has no knobs but the new one's.
Options(v) ==
  IF Knobs THEN v ELSE [v EXCEPT !.layout = "tile-id", !.budget = Null]

-----------------------------------------------------------------------------
(* Cells. *)

IsReal(c) == c[1] = "real"

Tiles(c) == IF IsReal(c) THEN c[2] ELSE 2 ^ (2 * c[2])

\* (Of a power of two the provers know that it is an integer, not that it is
\* positive or what it is twice of.)
ASSUME TilesAssumption ==
  \A i \in DOMAIN WriterCells :
    /\ Tiles(WriterCells[i]) \in Nat
    /\ ~IsReal(WriterCells[i]) =>
         2 ^ 0 = 1 /\ \A k \in 0..(2 * WriterCells[i][2]) : 2 ^ (k + 1) = 2 * 2 ^ k

\* A synthetic cell is known by its zoom, up to 12.
ParseCell(spec) == IF IsReal(spec) \/ spec[2] <= 12 THEN spec ELSE Null

\* Mutant of Address: the multiplier has a factor in common with the tiles.
Address_Even(v, z, i) ==
  LET n == 2 ^ (2 * z)
      j == (i * (Multiplier - 1) + (Seed % n)) % n
  IN  <<j % (2 ^ z), j \div (2 ^ z)>>

\* The tile a synthetic build feeds at step i: in tile id order, or scattered
\* over the zoom level without a list of addresses.  Which tile an id names is
\* the core's matter; it names one.
Address(v, z, i) ==
  LET n == 2 ^ (2 * z)
      j == IF v.ordered THEN i ELSE (i * Multiplier + (Seed % n)) % n
  IN  <<j % (2 ^ z), j \div (2 ^ z)>>

Fed(v, c) ==
  IF IsReal(c) THEN Tiles(c)
  ELSE Cardinality({Address(v, c[2], i) : i \in 0..(Tiles(c) - 1)})

-----------------------------------------------------------------------------
(* One repetition, in a child.  A reply is what the parent makes of the    *)
(* child's exit and stdout, with the archive the child leaves.             *)

NoArchive == [fed |-> 0, lost |-> 0, wrong |-> "no"]

\* Not spawned, killed, exited non-zero, printed no reply or an error.
Dead == [verdict |-> "ran", out |-> Null, archive |-> NoArchive]

\* An archive may have lost a tile it was fed, or hold wrong bytes.
Archives(fed) ==
  [fed : {fed}, lost : {0, 1}, wrong : {"no", "sampled", "unsampled"}]

Answer(by, has, whole, archive, fact) ==
  [verdict |-> "ok", archive |-> archive, whole |-> whole,
   out |-> [by |-> by, has |-> has, fact |-> fact, left |-> archive]]

\* A time is always taken; any other figure may be missing.
Answers(by, always, optional, fed) ==
  {Answer(by, has, has = always \cup UNION optional, a, f) :
     has \in Figures(always, optional), a \in Archives(fed), f \in {"same", "other"}}

EngineRep(v, c) ==
  Answers(Options(v), {"ingest_ms", "finalize_ms"},
    {{"ingest_heap", "finalize_heap"}, {"output_bytes"}, {"peak_rss"}}, Tiles(c))

\* A real cell is built from the tile set, a synthetic one from addresses.
BuildRep(v, c, root) ==
  IF IsReal(c) /\ ~root THEN {}
  ELSE Answers(Options(v), {"build_ms"},
         {{"heap_peak"}, {"output_bytes"}, {"peak_rss"}}, Fed(v, c))

\* go-pmtiles has one way to write.
GoPmtiles == [layout |-> GO, ordered |-> FALSE, budget |-> Null]

GoChild(c) ==
  Answers(GoPmtiles, {"build_ms"}, {{"output_bytes"}, {"peak_rss"}}, Tiles(c))

\* one_rep(): which body a mode, a cell and a variant select.  An empty set is
\* an error reply.
OneRep(mode, c, v, root) ==
  CASE mode = "go" -> GoChild(c)
    [] mode = "engine" /\ v # Null /\ IsReal(c) -> EngineRep(v, c)
    [] mode = "build" /\ v # Null -> BuildRep(v, c, root)
    [] OTHER -> {}

\* run_child(): the arguments are parsed again on the other side.
RunChild(label, spec, mode, root) ==
  LET v == IF mode = "go" THEN Null ELSE ParseVariant(label)
      c == ParseCell(spec)
  IN  IF c = Null \/ (v = Null /\ mode # "go") THEN {Dead}
      ELSE {Dead} \cup OneRep(mode, c, v, root)

\* Mutant of AttestArchive: the count the header reports is not looked at.
AttestArchive_Sample(archive, c) == archive.wrong # "sampled"

\* The parent counts the tiles and reads a sample of them back.
AttestArchive(archive, c) ==
  archive.fed - archive.lost = Tiles(c) /\ archive.wrong # "sampled"

\* child_rep() and go_rep(): run the child, then read what it left.
Verdict(reply, c) ==
  IF reply.verdict = "ran" THEN "ran"
  ELSE IF AttestArchive(reply.archive, c) THEN "ok" ELSE "attest"

-----------------------------------------------------------------------------
(* The walk of a cell. *)

ContendersW == [i \in DOMAIN Matrix |-> Label(Matrix[i])] \o << <<GO>> >>

\* The jobs of one turn: the engine's build of a real cell and the writer's,
\* or go-pmtiles' conversion if there is something to convert.
JobsW(c, go) ==
  Walk(ContendersW, [who \in Range(ContendersW) |->
    IF who = <<GO>>
    THEN IF go THEN <<[who |-> who, acc |-> <<who, "go">>]>> ELSE <<>>
    ELSE (IF IsReal(c) THEN <<[who |-> who, acc |-> <<who, "engine">>]>> ELSE <<>>)
           \o <<[who |-> who, acc |-> <<who, "build">>]>>])

\* The tile set of a real cell cannot be written: the cell is not measured.
NoTileset ==
  /\ sweep = "writer" /\ stage = "prepare" /\ IsReal(WriterCells[cell])
  /\ Spend(1)
  /\ rows' = {} /\ cell' = cell + 1
  /\ stage' = IF cell < Len(WriterCells) THEN "prepare" ELSE "done"
  /\ UNCHANGED <<sweep, tools, inputs, jobs, accs, waited, under>>

\* The tile set is written, and converted for go-pmtiles if it is there.
PrepareW ==
  /\ sweep = "writer" /\ stage = "prepare"
  /\ \E go \in {t \in BOOLEAN : t => GO \in tools} :
       /\ Spend(IF go \/ GO \notin tools THEN 0 ELSE 1)
       /\ inputs' = IF go THEN {GO} ELSE {}
       /\ Begin(JobsW(WriterCells[cell], go))
  /\ rows' = {}
  /\ UNCHANGED <<sweep, tools, cell, waited, under>>

RepetitionW ==
  /\ sweep = "writer" /\ stage = "child"
  /\ LET job == Head(jobs)
         c == WriterCells[cell]
     IN  \E reply \in RunChild(job.who, c, job.acc[2], IsReal(c)), r \in Readings :
           /\ Spend((IF InOrder(reply) THEN 0 ELSE 1) + (IF r.cpu = 0 THEN 0 ELSE 1))
           /\ Report(Verdict(reply, c), reply.out, r.cpu)

Column(scenario, metric, field) == [scenario |-> scenario, metric |-> metric, field |-> field]

EngineColumns ==
  {Column("write_ingest", "wall", "ingest_ms"),
   Column("write_ingest", "heap_peak", "ingest_heap"),
   Column("write_finalize", "wall", "finalize_ms"),
   Column("write_finalize", "heap_peak", "finalize_heap"),
   Column("write_output", "output_bytes", "output_bytes"),
   Column("write_output", "peak_rss", "peak_rss")}

BuildColumns(ours) ==
  {Column("build_from_tiles", "wall", "build_ms"),
   Column("build_from_tiles", "output_bytes", "output_bytes"),
   Column("build_from_tiles", "peak_rss", "peak_rss")}
    \cup (IF ours THEN {Column("build_from_tiles", "heap_peak", "heap_peak")} ELSE {})

\* Mutant of RowsW: go-pmtiles is only skipped when it was not located.
RowsW_Located(c, doubts) ==
  LET ours == Range(ContendersW) \ {<<GO>>}
  IN  {RowOf(w, col, <<w, "build">>, FALSE, doubts) : w \in ours, col \in BuildColumns(TRUE)}
        \cup {RowOf(<<GO>>, col, << <<GO>>, "go">>, GO \notin tools, doubts) :
                col \in BuildColumns(FALSE)}

RowsW(c, doubts) ==
  LET ours == Range(ContendersW) \ {<<GO>>}
  IN  (IF IsReal(c)
       THEN UNION {{RowOf(w, col, <<w, "engine">>, FALSE, doubts) : col \in EngineColumns} :
                     w \in ours}
       ELSE {})
        \cup (UNION {{RowOf(w, col, <<w, "build">>, FALSE, doubts) : col \in BuildColumns(TRUE)} :
                      w \in ours})
        \cup {RowOf(<<GO>>, col, << <<GO>>, "go">>, GO \notin inputs, doubts) :
                col \in BuildColumns(FALSE)}

FinishW ==
  /\ sweep = "writer"
  /\ \E doubts \in Doubts["writer"] : Publish(RowsW(WriterCells[cell], doubts), Len(WriterCells))

\* go-pmtiles is located once, before the first cell.
InitW ==
  /\ sweep = "writer" /\ tools \in SUBSET {GO}
  /\ cell = 1 /\ stage = "prepare" /\ inputs = {} /\ jobs = <<>> /\ accs = <<>>
  /\ waited = 0 /\ under = Null /\ rows = {} /\ faults = 0

NextW == NoTileset \/ PrepareW \/ RepetitionW \/ FinishW

\* What a contender's rows are of.
SubjectW(who) ==
  IF who = <<GO>> THEN GoPmtiles
  ELSE Matrix[CHOOSE i \in DOMAIN Matrix : Label(Matrix[i]) = who]
=============================================================================
