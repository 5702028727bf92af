------------------------------ MODULE MCScheduler ------------------------------
(***************************************************************************)
(* Small programs for Scheduler.                                           *)
(***************************************************************************)
EXTENDS Scheduler

AllOps == OpType
===============================================================================
