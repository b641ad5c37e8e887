--------------------------- MODULE MCFailureEvidence ---------------------------
(* Instances of FailureEvidence for TLC. *)
EXTENDS FailureEvidence, TLC

CONSTANTS m1,
          MaxSteps  \* states of the turn and reads of it, together

Symmetry == Permutations(Calls)

\* Many changes with few reads, or many reads of few changes.
Bounded == Len(history) + clock <= MaxSteps
=============================================================================
