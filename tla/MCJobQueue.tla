----------------------------- MODULE MCJobQueue -----------------------------
(* JobQueue with a few addresses. *)
EXTENDS JobQueue, TLC

Symmetry == Permutations(Jobs)
=============================================================================
