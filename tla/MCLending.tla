------------------------------ MODULE MCLending ------------------------------
(* Small instances of lending.                                              *)
EXTENDS Lending, TLC

CONSTANTS book1, book2

ItemSymmetry == Permutations(Items)
=============================================================================
