------------------------------ MODULE MCImport ------------------------------
(***************************************************************************)
(* Instances of Import: runs of one tree that agree, that moved an exact   *)
(* invariant, or that moved a filesystem-dependent one.                    *)
(***************************************************************************)
EXTENDS Import

Run(family, id, at, tree, fs, bytes, alloc) ==
  [family |-> family, id |-> id, digest |-> id, at |-> at, tree |-> tree, fs |-> fs,
   inv |-> [key \in {"bytes", "alloc"} |-> IF key = "bytes" THEN bytes ELSE alloc],
   faults |-> {}]

First == Run("storage", "r1", 2, "t1", "ext4", 1, 1)

\* On another filesystem, where only the exact invariant is comparable.
Second == Run("storage", "r2", 3, "t1", "xfs", 1, 2)

\* The exact invariant moved against Second and Spread.  It is of the other
\* family and was started in the second First was, so that it has its run id.
Shifted == Run("engines", "r1", 4, "t1", "ext4", 2, 1)

\* The filesystem-dependent one moved against First, not against Second.
Spread == Run("storage", "r4", 4, "t1", "ext4", 1, 3)

\* An older run, of another tree.
Older == Run("storage", "r5", 1, "t0", "ext4", 5, 5)

\* First with a number edited and resealed.
Edited == [First EXCEPT !.digest = "edited"]

Runs == {First, Second, Shifted, Spread, Older, Edited}
=============================================================================
