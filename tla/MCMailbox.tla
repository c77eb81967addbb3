----------------------------- MODULE MCMailbox -----------------------------
(***************************************************************************)
(* Mailbox for TLC: the service and other threads that push.               *)
(***************************************************************************)
EXTENDS Mailbox

CONSTANTS service, t1, t2
=============================================================================
