------------------------------ MODULE MCJobWorker ------------------------------
(* Small instances of JobWorker for TLC. *)
EXTENDS JobWorker, TLC

Symmetry == Permutations(Job)
==============================================================================
