------------------------------ MODULE MCWorker ------------------------------
(***************************************************************************)
(* Worker for TLC: short queues, so that they fill up.                     *)
(***************************************************************************)
EXTENDS Worker
=============================================================================
