-------------------------- MODULE MCCpuGovernor --------------------------
(***************************************************************************)
(* CpuGovernor for TLC: the sentinel of a service and that of an           *)
(* application, which ask for a level below the logger's.                  *)
(***************************************************************************)
EXTENDS CpuGovernor

CONSTANTS eink, app
=============================================================================
