----------------------------- MODULE MCScenarios ---------------------------
(***************************************************************************)
(* An instance of Scenarios: a plan of four tiles of which the profile     *)
(* reads three, with a tile of the root, two of one leaf and one of        *)
(* another; the curve of the plan is not its rows.                         *)
(***************************************************************************)
EXTENDS Scenarios

CONSTANTS t1, t2, t3, t4, leaf1, leaf2

PlanOf == <<t1, t2, t3, t4>>
TileIdOf == (t1 :> 0) @@ (t2 :> 1) @@ (t3 :> 4) @@ (t4 :> 2)
LeafOfTile == (t1 :> Null) @@ (t2 :> leaf1) @@ (t3 :> leaf1) @@ (t4 :> leaf2)
=============================================================================
