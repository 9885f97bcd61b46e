------------------------------ MODULE MCKeyer ------------------------------
(* Instances of Keyer for TLC.                                             *)
EXTENDS Keyer, TLC

\* Threads of one kind are interchangeable.
Symmetry == Permutations(Sources) \cup Permutations(Workers)
=============================================================================
