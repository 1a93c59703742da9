------------------------------ MODULE MCWorker ------------------------------
(***************************************************************************)
(* Worker and its refinement for TLC.                                      *)
(***************************************************************************)
EXTENDS WorkerRefinement

=============================================================================
