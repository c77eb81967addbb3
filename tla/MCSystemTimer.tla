--------------------------- MODULE MCSystemTimer ---------------------------
(***************************************************************************)
(* SystemTimer for TLC: a single-shot and a periodic timer.                *)
(***************************************************************************)
EXTENDS SystemTimer

CONSTANTS single, periodic
=============================================================================
