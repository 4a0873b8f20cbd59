--------------------------- MODULE SerialExecutor ---------------------------
(***************************************************************************)
(* What an event loop promises to the threads that give it work: a serial  *)
(* executor.  Tasks are accepted in some order, run one at a time in that  *)
(* order, each at most once, and after the executor has stopped none is    *)
(* run any more.  EventLoop implements it; nothing here is about wakeups,  *)
(* batches or flags.                                                       *)
(***************************************************************************)
EXTENDS Sequences, Functions

CONSTANT Tasks    \* the tasks (closures) that may be handed to the executor

VARIABLES queue,    \* tasks accepted and not yet begun, oldest first
          ran,      \* tasks begun, in the order in which they were begun
          stopped   \* TRUE once the executor will begin no more tasks

seVars == <<queue, ran, stopped>>

SEInit == queue = <<>> /\ ran = <<>> /\ stopped = FALSE

\* A thread hands over a task.  A stopped executor still accepts it (and
\* never runs it).
Submit(k) ==
    /\ k \notin Range(queue) \cup Range(ran)
    /\ queue' = Append(queue, k)
    /\ UNCHANGED <<ran, stopped>>

\* The oldest accepted task is begun.
Execute ==
    /\ ~stopped
    /\ queue # <<>>
    /\ ran' = Append(ran, Head(queue))
    /\ queue' = Tail(queue)
    /\ UNCHANGED stopped

Stop ==
    /\ ~stopped
    /\ stopped' = TRUE
    /\ UNCHANGED <<queue, ran>>

SENext == (\E k \in Tasks : Submit(k)) \/ Execute \/ Stop

SESpec == SEInit /\ [][SENext]_seVars

(***************************************************************************)
(* The liveness half of the promise: an accepted task is begun, unless the *)
(* executor stops.                                                         *)
(***************************************************************************)
AcceptedIsRun ==
    \A k \in Tasks : (k \in Range(queue)) ~> (k \in Range(ran) \/ stopped)
=============================================================================
