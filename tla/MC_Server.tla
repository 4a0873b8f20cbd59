------------------------------ MODULE MC_Server ------------------------------
(***************************************************************************)
(* A small instance of Server.                                             *)
(***************************************************************************)
EXTENDS Server

CONSTANT N    \* the size of every pool

MCNums == [s \in Servers |-> N]
=============================================================================
