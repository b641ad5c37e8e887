------------------------- MODULE MCOperationJournal -------------------------
(***************************************************************************)
(* Model-checking instance of OperationJournal.                            *)
(***************************************************************************)
EXTENDS OperationJournal

\* The bound: task records are patched with two of the seven stages, and ids
\* are those a start with these minters would store.
Bounded ==
  \A k \in Keys :
    /\ candidate.tasks[k].stage \in {"none", "prepared", "rejected", "run_accepted"}
    /\ candidate.tasks[k].thread \in {NoId, candidate.ops[k]["create"].by}
    /\ candidate.tasks[k].run \in {NoId, candidate.ops[k]["turn"].by}
    /\ candidate.tasks[k].baseline \in {"none", "early"}
    /\ \A d \in Kinds : candidate.ops[k][d].thread \in {NoId, candidate.ops[k]["create"].by}
=============================================================================
