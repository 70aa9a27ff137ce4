--------------------------- MODULE MCPageRegions ----------------------------
(* Facts are interchangeable, and so are the pages of the plan.            *)
EXTENDS PageRegions, TLC

Symmetry == Permutations(Facts) \cup Permutations(PlanPages)
=============================================================================
