---------------------------- MODULE MCTermStore ----------------------------
(* Model checking of TermStore on a small set of propositions.            *)
EXTENDS TermStore, TLC
Symmetry == Permutations(Triple)
=============================================================================
