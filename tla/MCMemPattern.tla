---------------------------- MODULE MCMemPattern ----------------------------
(* MemPatternPlanner on interchangeable values.                            *)
EXTENDS MemPatternPlanner

Symmetry == Permutations(Values)
=============================================================================
