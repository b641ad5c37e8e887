----------------------------- MODULE MCCredentials -----------------------------
(* A small instance of Credentials. *)
EXTENDS Credentials, TLC

Symmetry == Permutations(Logins) \cup Permutations(Inodes)
===============================================================================
