-------------------------- MODULE MCProgressJournal --------------------------
(* ProgressJournal for two items and a file of at most three writes.         *)
EXTENDS ProgressJournal, TLC

Symmetry == Permutations(Items)
==============================================================================
