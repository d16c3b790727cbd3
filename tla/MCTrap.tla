------------------------------- MODULE MCTrap -------------------------------
(* Trap for TLC.  Pages and environments are interchangeable.              *)
EXTENDS Trap, TLC

Symmetry == Permutations(Page) \cup Permutations(AS)
=============================================================================
