------------------------------- MODULE Engines -----------------------------
(***************************************************************************)
(* src/engines/: every engine on every canvas, one discarded pass and then *)
(* the timed repetitions, each in a child of its own.  The engines of a    *)
(* cell are attested against one another.  There is no quiet gate, the     *)
(* load is read once per cell, and a child without metrics leaves nothing. *)
(***************************************************************************)
EXTENDS Contest

CONSTANTS
  ENGINES,      \* the engines, in order
  WarmUps,      \* discarded passes per cell
  EngineCells   \* cells of the profile that plan: their number of tiles

\* There are three engines, and none can be left out: an engine alone would have
\* nobody to be attested against.
ASSUME EnginesAssumption ==
  /\ ENGINES \in Seq(Range(ENGINES)) /\ IsInjective(ENGINES) /\ Len(ENGINES) > 1
  /\ WarmUps \in Nat
  /\ EngineCells \in Seq(Nat \ {0}) \ {<<>>}
  /\ Null \notin {"planned", "same"} \cup [tiles : Nat, bytes : {"same"}]

\* The order of one cell: the warm-up passes, then the rotated repetitions.
JobsE ==
  FlattenSeq([w \in 1..WarmUps |->
     [k \in DOMAIN ENGINES |-> [who |-> ENGINES[k], acc |-> <<ENGINES[k], "discarded">>]]])
    \o Walk(ENGINES, [e \in Range(ENGINES) |-> <<[who |-> e, acc |-> <<e, "timed">>]>>])

\* RepColumns::of(): a ratio whose denominator is zero is no sample.
Columns(zero) ==
  {"wall", "peak_rss_mb", "tracked_memory_mb"}
    \cup (IF "secs" \in zero THEN {} ELSE {"tiles_per_second"})
    \cup (IF zero \cap {"secs", "rss"} # {} THEN {} ELSE {"tiles_per_second_per_mb"})
    \cup (IF zero \cap {"tiles", "rss"} # {} THEN {} ELSE {"resource_cost"})

\* What one child reports: the tiles it counted, the pyramid that was walked
\* afterwards, if one was, and what the sink directory holds.
Metrics(e, tiles) ==
  {[by |-> e, has |-> Columns((IF n = 0 THEN {"tiles"} ELSE {}) \cup zero),
    fact |-> [tiles |-> n, bytes |-> b],
    left |-> [tiles |-> n, grid |-> g, walked |-> g # "none" /\ b # Null]] :
     n \in {0, tiles - 1, tiles}, g \in {"planned", "other", "none"},
     b \in {"same", "other", Null}, zero \in {{}, {"secs"}, {"rss"}}}

\* In how many respects a child is not in order.
Amiss(m, tiles) ==
  Cardinality({d \in 1..4 :
    CASE d = 1 -> m.left.grid # "planned"
      [] d = 2 -> m.fact.tiles # tiles
      [] d = 3 -> m.fact.bytes # "same"
      [] d = 4 -> m.has # Columns(IF m.fact.tiles = 0 THEN {"tiles"} ELSE {})})

PrepareE ==
  /\ sweep = "engines" /\ stage = "prepare"
  /\ \E r \in Readings :
       /\ Spend(IF r.cpu = 0 THEN 0 ELSE 1) /\ under' = r.cpu
  /\ Begin(JobsE)
  /\ rows' = {}
  /\ UNCHANGED <<sweep, tools, cell, inputs, waited>>

\* A child that printed no metrics is mentioned on stderr and nowhere else.
NoMetrics ==
  /\ sweep = "engines" /\ stage = "gate"
  /\ Spend(1)
  /\ jobs' = Tail(jobs)
  /\ stage' = IF Tail(jobs) = <<>> THEN "rows" ELSE "gate"
  /\ UNCHANGED <<sweep, tools, cell, inputs, accs, waited, under, rows>>

RepetitionE ==
  /\ sweep = "engines" /\ stage = "gate"
  /\ \E m \in Metrics(Head(jobs).who, EngineCells[cell]) :
       /\ Spend(Amiss(m, EngineCells[cell]))
       /\ accs' = [accs EXCEPT ![Head(jobs).acc] = Filed(@, "ok", m, under)]
  /\ jobs' = Tail(jobs)
  /\ stage' = IF Tail(jobs) = <<>> THEN "rows" ELSE "gate"
  /\ UNCHANGED <<sweep, tools, cell, inputs, waited, under, rows>>

-----------------------------------------------------------------------------
(* attest_group(). *)

Left(e) == [i \in DOMAIN accs[<<e, "timed">>].reps |-> accs[<<e, "timed">>].reps[i].out.left]

Walked(e) == Left(e) # <<>> /\ \A i \in DOMAIN Left(e) : Left(e)[i].walked
Grid(e) == Agreed([i \in DOMAIN Left(e) |-> IF Left(e)[i].grid = "none" THEN Null ELSE Left(e)[i].grid])
TilesOf(e) == Agreed([i \in DOMAIN Left(e) |-> Left(e)[i].tiles])

Reproduced(e) == Grid(e) # Null /\ TilesOf(e) # Null

Measured ==
  {e \in Range(ENGINES) : <<e, "timed">> \in DOMAIN accs /\ accs[<<e, "timed">>].reps # <<>>}

\* Mutant of Sibling: an engine agrees with itself.
Sibling_Itself(e) ==
  \E other \in Measured : Walked(other) /\ Grid(other) = Grid(e) /\ TilesOf(other) = TilesOf(e)

\* Another engine of the cell wrote the same grid and counted the same tiles.
Sibling(e) ==
  \E other \in Measured \ {e} :
    /\ Walked(other) /\ Grid(other) # Null
    /\ Grid(other) = Grid(e) /\ TilesOf(other) = TilesOf(e)

IsAttested(e) == Walked(e) /\ Reproduced(e) /\ Grid(e) # Null /\ Sibling(e)

-----------------------------------------------------------------------------
(* rows_for(): an engine without a result has no row at all. *)

METRICS == Columns({})

RowE(e, metric, doubts) ==
  LET acc == accs[<<e, "timed">>]
      samples == Series(acc, metric)
      facts == [i \in DOMAIN acc.reps |-> acc.reps[i].out.fact]
      reasons == Reasons(<<e, "pyramid", metric>>, samples, under, doubts)
  IN  [backend |-> e, scenario |-> "pyramid", metric |-> metric, from |-> <<e, "timed">>,
       samples |-> samples, load |-> under, fact |-> Agreed(facts),
       outcome |-> IF Agreed(facts) = Null THEN "refused" ELSE "ok",
       attested |-> IsAttested(e), reasons |-> reasons, confidence |-> Confidence(reasons)]

RowsE(doubts) == {RowE(e, metric, doubts) : e \in Measured, metric \in METRICS}

FinishE ==
  /\ sweep = "engines"
  /\ \E doubts \in Doubts["engines"] : Publish(RowsE(doubts), Len(EngineCells))

InitE ==
  /\ sweep = "engines" /\ tools = {}
  /\ cell = 1 /\ stage = "prepare" /\ inputs = {} /\ jobs = <<>> /\ accs = <<>>
  /\ waited = 0 /\ under = Null /\ rows = {} /\ faults = 0

NextE == PrepareE \/ NoMetrics \/ RepetitionE \/ FinishE
=============================================================================
