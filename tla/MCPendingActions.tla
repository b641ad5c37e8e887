--------------------------- MODULE MCPendingActions ---------------------------
(* A small instance of PendingActions. *)
EXTENDS PendingActions, TLC

CONSTANT MaxUnderWay  \* calls under way at once after a crash or a change of protocol

Symmetry == Permutations(Responders) \cup Permutations(Payloads)

Bounded ==
  crashes + switches > 0 =>
    Cardinality({c \in Calls : pc[c] \notin {"idle", "done"}}) <= MaxUnderWay
=============================================================================
