---------------------------- MODULE MCWorkerLoop ----------------------------
(* WorkerLoop on small instances.                                             *)
EXTENDS WorkerLoop
=============================================================================
