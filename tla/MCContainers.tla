---------------------------- MODULE MCContainers ----------------------------
(* Instances of Containers for TLC.                                          *)
EXTENDS Containers, TLC

Symmetry == Permutations(Boxes) \cup Permutations(Creators)
=============================================================================
