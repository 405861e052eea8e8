---------------------------- MODULE MCOwnedValues ----------------------------
(* A small instance: threads and objects are interchangeable.               *)
EXTENDS OwnedValues, TLC

Symmetry == Permutations(Threads) \cup Permutations(Objects)
=============================================================================
