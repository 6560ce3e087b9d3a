-------------------------- MODULE MCDataGenerations --------------------------
(* Small instances of the data generations.                                 *)
EXTENDS DataGenerations, TLC

CONSTANTS catalogue, vault, covers

LeafSymmetry == Permutations(Leaves)
=============================================================================
