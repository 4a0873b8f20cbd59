---------------------------- MODULE MC_EventLoop ----------------------------
(***************************************************************************)
(* Small instances of EventLoop.                                           *)
(***************************************************************************)
EXTENDS EventLoop
=============================================================================
