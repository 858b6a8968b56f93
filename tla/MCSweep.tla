------------------------------ MODULE MCSweep ------------------------------
(***************************************************************************)
(* An instance of Sweep: two backends, a write scenario whose repetitions  *)
(* each own a process and a read scenario that needs the artefact.         *)
(***************************************************************************)
EXTENDS Sweep

\* The brink cell and the cell on the far side of the cliff.
Planned == <<16369, 21851>>

Pair(archive, tree) == [b \in Backend |-> IF b = "pmtiles" THEN archive ELSE tree]

Archive(entries, leaves, sample) ==
  [opens |-> TRUE, entries |-> entries, leaves |-> leaves, sample |-> sample]

Tree(sample) == Archive(0, 0, sample)

Closed == [opens |-> FALSE, entries |-> 0, leaves |-> 0, sample |-> "error"]

Flat == Archive(16369, 0, "same")
Spilled == Archive(6, 6, "same")

\* On the brink everything that can go wrong does; beyond the cliff the archive
\* spills, collapses to a root of one entry a level, or is not there.
Written ==
  << {Pair(Flat, Tree("same")), Pair(Flat, Tree("other")), Pair(Flat, Tree("error")),
      Pair(Flat, Null), Pair(Flat, Closed), Pair(Null, Tree("same")),
      Pair(Closed, Tree("same")), Pair(Spilled, Tree("same"))},
     {Pair(Spilled, Tree("same")), Pair(Archive(12, 0, "same"), Tree("same")),
      Pair(Null, Tree("same"))} >>

\* A repetition may publish a second series, ahead of the first.
Repeated ==
  [perRep |-> TRUE, needsArtefact |-> FALSE, reps |-> 2, primary |-> "a",
   offers |-> {<<"a">>, <<"b", "a">>}]

Shared ==
  [perRep |-> FALSE, needsArtefact |-> TRUE, reps |-> 2, primary |-> "a",
   offers |-> {<<"a">>}]

Walk == <<Repeated, Shared>>
=============================================================================
