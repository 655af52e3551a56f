---------------------------- MODULE MCWorkerRun ----------------------------
(***************************************************************************)
(* A small instance of WorkerRun.                                           *)
(***************************************************************************)
EXTENDS WorkerRun
=============================================================================
