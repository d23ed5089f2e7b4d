---------------------------- MODULE MCAnalysers ----------------------------
(***************************************************************************)
(* Instances of Analysers for TLC: one device with a serial number and one *)
(* without, on one driver; one source of every other kind.                 *)
(***************************************************************************)
EXTENDS Analysers

CONSTANTS serial1, anonymous1, driver1, dead, stalled
=============================================================================
