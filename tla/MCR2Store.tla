------------------------------ MODULE MCR2Store ------------------------------
(* R2Store with its constants given in MCR2Store.cfg: writers racing for    *)
(* keys with different, and with equal, contents.                           *)
EXTENDS R2Store, TLC

Symmetry == Permutations(Writers) \cup Permutations(Keys) \cup Permutations(Contents)
==============================================================================
