---------------------------- MODULE MC_TcpServer ----------------------------
(***************************************************************************)
(* Small instances of TcpServer.                                           *)
(***************************************************************************)
EXTENDS TcpServer, TLC

\* The connection objects are interchangeable, and so are the descriptors.
Symmetry == Permutations(Conns) \cup Permutations(Fds)
=============================================================================
