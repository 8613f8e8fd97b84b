------------------------------ MODULE MCCheckRun ------------------------------
(* CheckRun for TLC.  Every run uses the constants of its .cfg; domains and  *)
(* request threads are interchangeable.                                      *)
EXTENDS CheckRun, TLC

Symmetry == Permutations(Domains) \cup Permutations(Requests)
===============================================================================
