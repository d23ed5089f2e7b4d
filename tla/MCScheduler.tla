---------------------------- MODULE MCScheduler ----------------------------
(***************************************************************************)
(* Instances of Scheduler for TLC: a mount and a disk.                     *)
(***************************************************************************)
EXTENDS Scheduler

CONSTANTS mount1, disk1, metric1
=============================================================================
