------------------------------ MODULE ConnLife ------------------------------
(***************************************************************************)
(* What a TcpServer promises of its connections, and TcpServer implements: *)
(* a connection is accepted on a descriptor that no other one holds, goes  *)
(* through its stages one by one and never back, and holds the descriptor  *)
(* until it is destructed.  The map finds it by that descriptor from when  *)
(* it is inserted until it is erased, which is while it is closing.        *)
(***************************************************************************)
CONSTANTS Conns, Fds, None

VARIABLES
    stage,   \* unborn, accepted, open, closing, closed, gone
    holder,  \* the connection that holds each descriptor
    map      \* what the map finds for each descriptor

vars == <<stage, holder, map>>

Init ==
    /\ stage = [c \in Conns |-> "unborn"]
    /\ holder = [f \in Fds |-> None] /\ map = [f \in Fds |-> None]

Accept(c, f) ==
    /\ stage[c] = "unborn" /\ holder[f] = None
    /\ stage' = [stage EXCEPT ![c] = "accepted"]
    /\ holder' = [holder EXCEPT ![f] = c]
    /\ UNCHANGED map

Insert(c, f) ==
    /\ stage[c] = "accepted" /\ holder[f] = c /\ map[f] = None
    /\ map' = [map EXCEPT ![f] = c]
    /\ UNCHANGED <<stage, holder>>

\* It takes events only once the map has it.
Establish(c, f) ==
    /\ stage[c] = "accepted" /\ map[f] = c
    /\ stage' = [stage EXCEPT ![c] = "open"]
    /\ UNCHANGED <<holder, map>>

Close(c) ==
    /\ stage[c] = "open"
    /\ stage' = [stage EXCEPT ![c] = "closing"]
    /\ UNCHANGED <<holder, map>>

Erase(c, f) ==
    /\ stage[c] = "closing" /\ map[f] = c
    /\ map' = [map EXCEPT ![f] = None]
    /\ UNCHANGED <<stage, holder>>

Destroy(c) ==
    /\ stage[c] = "closing" /\ \A f \in Fds : map[f] # c
    /\ stage' = [stage EXCEPT ![c] = "closed"]
    /\ UNCHANGED <<holder, map>>

\* Connections whose last reference goes give their descriptors back.
Free(C) ==
    /\ \A c \in C : stage[c] = "closed"
    /\ stage' = [c \in Conns |-> IF c \in C THEN "gone" ELSE stage[c]]
    /\ holder' = [f \in Fds |-> IF holder[f] \in C THEN None ELSE holder[f]]
    /\ UNCHANGED map

Next ==
    \/ \E c \in Conns, f \in Fds : Accept(c, f) \/ Insert(c, f) \/ Establish(c, f)
                                     \/ Erase(c, f)
    \/ \E c \in Conns : Close(c) \/ Destroy(c)
    \/ \E C \in SUBSET Conns : Free(C)

Spec == Init /\ [][Next]_vars
=============================================================================
