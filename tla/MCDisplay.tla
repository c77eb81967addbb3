----------------------------- MODULE MCDisplay -----------------------------
(***************************************************************************)
(* Display for TLC: two contexts, as in the code, and two frames.          *)
(***************************************************************************)
EXTENDS Display

CONSTANTS f, g
=============================================================================
