------------------------------- MODULE MCJobs -------------------------------
(***************************************************************************)
(* Finite instances of Jobs.  Jobs and workers are interchangeable in the  *)
(* runs that check no liveness.                                            *)
(***************************************************************************)
EXTENDS Jobs, TLC

Symmetry == Permutations(Job) \cup Permutations(Worker)
============================================================================
