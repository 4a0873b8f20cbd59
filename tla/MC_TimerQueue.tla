---------------------------- MODULE MC_TimerQueue ----------------------------
(***************************************************************************)
(* Small instances of TimerQueue.                                          *)
(***************************************************************************)
EXTENDS TimerQueue
=============================================================================
