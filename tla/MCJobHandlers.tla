----------------------------- MODULE MCJobHandlers -----------------------------
(* Small instances of JobHandlers for TLC. *)
EXTENDS JobHandlers, TLC

\* A document whose versions have two, one and no chunks.
TwoOneNone == <<2, 1, 0>>
Symmetry == Permutations(Job)
==============================================================================
