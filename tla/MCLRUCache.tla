----------------------------- MODULE MCLRUCache -----------------------------
(* LRUCache with a few keys; the call counter goes past INT_MAX. *)
EXTENDS LRUCache, TLC

Symmetry == Permutations(Keys) \cup Permutations(Values)
=============================================================================
