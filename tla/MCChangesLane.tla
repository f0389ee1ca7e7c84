---------------------------- MODULE MCChangesLane ----------------------------
(* Instances of ChangesLane.                                                *)
EXTENDS ChangesLane

CONSTANTS a, b, r1, r2

Symmetry == Permutations(Ids) \cup Permutations(Runs)
=============================================================================
