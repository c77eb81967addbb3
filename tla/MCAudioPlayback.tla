-------------------------- MODULE MCAudioPlayback --------------------------
(***************************************************************************)
(* AudioPlayback for TLC.                                                  *)
(***************************************************************************)
EXTENDS AudioPlayback
=============================================================================
