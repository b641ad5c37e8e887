----------------------------- MODULE MCTaskStart ----------------------------
(***************************************************************************)
(* Model-checking instances of TaskStart.                                  *)
(***************************************************************************)
EXTENDS TaskStart, TLC

\* Start calls, keys and payloads are interchangeable.
Symmetry == Permutations(Starters) \cup Permutations(Payloads)
=============================================================================
