----------------------------- MODULE MCCapture -----------------------------
(***************************************************************************)
(* Instances of Capture: two families, two captures, runs of one tree.     *)
(***************************************************************************)
EXTENDS Capture

Both == <<"storage", "engines">>

\* A run's one invariant, named for the family that measures it.
Run(family, id, at, bytes, faults) ==
  [family |-> family, id |-> id, digest |-> id, at |-> at, tree |-> "t1",
   fs |-> "ext4", inv |-> [key \in {family} |-> bytes], faults |-> faults]

\* s1, s4, e1 and e3 are clean; s2 moved an invariant of s1 and s4, the importer
\* refuses e2 for itself, and the archive does not admit s3.
Runs ==
  {Run("storage", "s1", 1, 1, {}), Run("engines", "e1", 2, 1, {}),
   Run("storage", "s2", 3, 2, {}), Run("engines", "e2", 4, 1, {"import"}),
   Run("storage", "s3", 3, 1, {"check"}), Run("engines", "e3", 5, 1, {}),
   Run("storage", "s4", 6, 1, {})}

Clean == {d \in Runs : d.id \in {"s1", "e1", "s4", "e3"}}
=============================================================================
