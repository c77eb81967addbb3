---------------------------- MODULE MCServiceBus ----------------------------
(***************************************************************************)
(* Instance of ServiceBus for TLC.                                         *)
(***************************************************************************)
EXTENDS ServiceBus

CONSTANTS mgr, a, b, none

MCServices == {mgr, a, b}
MCSubscribers == {a, b}
MCStarted == {a}
=============================================================================
