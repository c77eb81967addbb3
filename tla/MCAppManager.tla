---------------------------- MODULE MCAppManager ----------------------------
(***************************************************************************)
(* AppManager for TLC: the home screen and two applications, of which one  *)
(* may have callbacks to await and the other takes actions in the          *)
(* background.                                                             *)
(***************************************************************************)
EXTENDS AppManager

CONSTANTS home, calls, music, none
=============================================================================
