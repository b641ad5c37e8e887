--------------------------- MODULE MCNativeCatalog --------------------------
(***************************************************************************)
(* Model-checking instances of NativeCatalog.                              *)
(***************************************************************************)
EXTENDS NativeCatalog, TLC

\* Nothing tells one token from another: begin with one, whichever.
InitFromOneToken == ClientInit /\ credential = (CHOOSE token \in Tokens : TRUE)

ClientSpecFromOneToken == InitFromOneToken /\ [][ClientNext]_allVars /\ ClientFairness
=============================================================================
