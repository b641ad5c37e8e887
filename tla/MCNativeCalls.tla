---------------------------- MODULE MCNativeCalls ---------------------------
(***************************************************************************)
(* Model-checking instances of NativeCalls.                                *)
(***************************************************************************)
EXTENDS NativeCalls, TLC

\* Nothing tells one token from another: begin with one, whichever.
InitFromOneToken == Init /\ credential = (CHOOSE token \in Tokens : TRUE)

SpecFromOneToken == InitFromOneToken /\ [][Next]_vars /\ Fairness
=============================================================================
