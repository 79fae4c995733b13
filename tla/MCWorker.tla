------------------------------ MODULE MCWorker ------------------------------
(***************************************************************************)
(* Instances of Worker for TLC: the constants are in worker*.cfg.          *)
(***************************************************************************)
EXTENDS Worker, TLC

\* Workers are interchangeable; only the runs without liveness use it.
WorkerSymmetry == Permutations(Workers)
=============================================================================
