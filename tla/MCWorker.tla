------------------------------ MODULE MCWorker ------------------------------
(***************************************************************************)
(* A worker with two tasks.                                                *)
(***************************************************************************)
EXTENDS WorkerProps
=============================================================================
