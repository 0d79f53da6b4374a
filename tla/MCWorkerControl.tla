-------------------------- MODULE MCWorkerControl --------------------------
(* Values for the constants of WorkerControl. *)
EXTENDS WorkerControl

CONSTANTS b1, b2, b3
=============================================================================
