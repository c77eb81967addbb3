-------------------------- MODULE MCSystemManager --------------------------
(***************************************************************************)
(* SystemManager for TLC.  The constants are in the configurations; here   *)
(* is the order of creation, dependencies first.                           *)
(***************************************************************************)
EXTENDS SystemManager

CONSTANTS evtmgr, db, appmgr, desktop

PureServices == <<evtmgr, db, desktop, appmgr>>
FewServices  == <<evtmgr, db, appmgr>>
=============================================================================
