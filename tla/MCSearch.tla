------------------------------ MODULE MCSearch ------------------------------
(* Few blocks, of which two are enough to make the index anew.             *)
EXTENDS Search, TLC

Symmetry == Permutations(Blocks) \cup Permutations(Words)
=============================================================================
