------------------------------ MODULE MCHarness ----------------------------
(***************************************************************************)
(* Instances of Harness: an image of three levels, of which the middle one *)
(* has more tiles than are compared, and one of two levels.                *)
(***************************************************************************)
EXTENDS Harness

TwoPlans == << <<<<1, 1>>, <<3, 1>>, <<5, 2>>>>, <<<<1, 1>>, <<2, 1>>>> >>
Levels == <<0, 4>>
AllFamilies == {"engines", "vips"}
=============================================================================
