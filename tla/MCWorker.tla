------------------------------ MODULE MCWorker ------------------------------
(***************************************************************************)
(* An instance of Worker for TLC: one job, and runs of job 0.            *)
(***************************************************************************)
EXTENDS Worker

CONSTANT j1
=============================================================================
