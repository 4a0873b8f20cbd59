------------------------------ MODULE ThreadPool ------------------------------
(***************************************************************************)
(* base/ThreadPool.cpp: a bounded queue of tasks between the threads that  *)
(* call AddTask and the workers, with one mutex and two condition          *)
(* variables.  isEmpty, on which workers wait, is signalled only when the  *)
(* queue gets its first task; isFull, on which AddTask waits, only when    *)
(* the queue leaves its limit.                                             *)
(*                                                                         *)
(* A critical section is one step, except where it waits: pthread_cond_wait *)
(* gives the mutex up and takes it again.  Stop keeps the mutex while it   *)
(* joins the workers.                                                      *)
(***************************************************************************)
EXTENDS Integers, Sequences, Functions, FiniteSets

CONSTANTS Workers, Producers,   \* threads
          qSize,
          Tasks,                \* each is added at most once (bound)
          None

ASSUME ThreadsAssumption ==
    Workers # {} /\ Workers \cap Producers = {} /\ IsFiniteSet(Workers)
ASSUME SizeAssumption == qSize \in Nat \ {0}
ASSUME TasksAssumption == None \notin Tasks

VARIABLES
    mTasks, isRunning,
    stop,     \* the owner of the pool: new, started, joining (in Stop, with
              \* the mutex), stopped
    pc,       \* of each producer and worker; asleep: in pthread_cond_wait
    job,      \* what a producer is adding, what a worker is running
    added, taken, done   \* history

vars == <<mTasks, isRunning, stop, pc, job, added, taken, done>>

TypeOK ==
    /\ mTasks \in Seq(Tasks) /\ added \in Seq(Tasks) /\ taken \in Seq(Tasks)
    /\ isRunning \in BOOLEAN
    /\ stop \in {"new", "started", "joining", "stopped"}
    /\ pc \in [Producers \cup Workers ->
               {"new", "idle", "adding", "check", "take", "asleep", "run", "exited"}]
    /\ \A p \in Producers : /\ pc[p] \in {"idle", "adding", "asleep"}
                            /\ (job[p] = None) = (pc[p] = "idle")
    /\ \A w \in Workers : /\ pc[w] \in {"new", "check", "take", "asleep", "run", "exited"}
                          /\ (job[w] = None) = (pc[w] # "run")
    /\ job \in [Producers \cup Workers -> Tasks \cup {None}]
    /\ done \subseteq Tasks

Init ==
    /\ mTasks = <<>> /\ added = <<>> /\ taken = <<>> /\ done = {}
    /\ isRunning = FALSE /\ stop = "new"
    /\ pc = [t \in Producers \cup Workers |-> IF t \in Workers THEN "new" ELSE "idle"]
    /\ job = [t \in Producers \cup Workers |-> None]

MutexFree == stop # "joining"

Asleep(S) == {t \in S : pc[t] = "asleep"}

\* Faults: the limit passed by one, a signal for the second task, a signal at
\* the limit and not below it.
Fault_Full == Len(mTasks) > qSize
Fault_Waiting(q) == IF Len(q) = 2 THEN Asleep(Workers) ELSE {}
Fault_Blocked(q) == IF Len(q) = qSize THEN Asleep(Producers) ELSE {}

Full == Len(mTasks) >= qSize

\* The threads one of which AddTask, leaving the queue as q, wakes with
\* isEmpty, and those one of which take wakes with isFull.
Waiting(q) == IF Len(q) = 1 THEN Asleep(Workers) ELSE {}
Blocked(q) == IF Len(q) = qSize - 1 THEN Asleep(Producers) ELSE {}

\* What becomes of the program counters when t goes on to "to" and one of the
\* threads of S, if there is one, to "next".
Signal(S, next, t, to) ==
    IF S # {}
    THEN \E u \in S : pc' = [pc EXCEPT ![t] = to, ![u] = next]
    ELSE pc' = [pc EXCEPT ![t] = to]

-----------------------------------------------------------------------------
(* Producers.                                                              *)

BeginAdd(p, k) ==
    /\ pc[p] = "idle"
    /\ k \notin Range(added) \cup Range(job)
    /\ pc' = [pc EXCEPT ![p] = "adding"]
    /\ job' = [job EXCEPT ![p] = k]
    /\ UNCHANGED <<mTasks, isRunning, stop, added, taken, done>>

\* The critical section of AddTask, or its loop around wait.
AddTask(p) ==
    /\ pc[p] = "adding" /\ MutexFree
    /\ \/ /\ Full
          /\ pc' = [pc EXCEPT ![p] = "asleep"]
          /\ UNCHANGED <<mTasks, job, added>>
       \/ /\ ~Full
          /\ mTasks' = Append(mTasks, job[p])
          /\ added' = Append(added, job[p])
          /\ job' = [job EXCEPT ![p] = None]
          /\ Signal(Waiting(mTasks'), "take", p, "idle")
    /\ UNCHANGED <<isRunning, stop, taken, done>>

-----------------------------------------------------------------------------
(* Workers.                                                                *)

\* The loop of runInThread reads isRunning without the mutex.
CheckRunning(w) ==
    /\ pc[w] = "check"
    /\ pc' = [pc EXCEPT ![w] = IF isRunning THEN "take" ELSE "exited"]
    /\ UNCHANGED <<mTasks, isRunning, stop, job, added, taken, done>>

\* take: wait while there is nothing; then a task, or none when stopping.
take(w) ==
    /\ pc[w] = "take" /\ MutexFree
    /\ \/ /\ mTasks = <<>>
          /\ pc' = [pc EXCEPT ![w] = "asleep"]
          /\ UNCHANGED <<mTasks, job, taken>>
       \/ /\ mTasks # <<>> /\ isRunning
          /\ mTasks' = Tail(mTasks)
          /\ taken' = Append(taken, Head(mTasks))
          /\ job' = [job EXCEPT ![w] = Head(mTasks)]
          /\ Signal(Blocked(mTasks'), "adding", w, "run")
       \/ /\ mTasks # <<>> /\ ~isRunning
          /\ Signal(Blocked(mTasks), "adding", w, "check")
          /\ UNCHANGED <<mTasks, job, taken>>
    /\ UNCHANGED <<isRunning, stop, added, done>>

EndTask(w) ==
    /\ pc[w] = "run"
    /\ pc' = [pc EXCEPT ![w] = "check"]
    /\ done' = done \cup {job[w]}
    /\ job' = [job EXCEPT ![w] = None]
    /\ UNCHANGED <<mTasks, isRunning, stop, added, taken>>

\* pthread_cond_wait may return without a signal.
SpuriousWakeup(t) ==
    /\ pc[t] = "asleep"
    /\ pc' = [pc EXCEPT ![t] = IF t \in Workers THEN "take" ELSE "adding"]
    /\ UNCHANGED <<mTasks, isRunning, stop, job, added, taken, done>>

-----------------------------------------------------------------------------
(* The owner of the pool.                                                  *)

Start ==
    /\ stop = "new"
    /\ isRunning' = TRUE /\ stop' = "started"
    /\ UNCHANGED <<mTasks, pc, job, added, taken, done>>

\* Start creates the threads after it has set isRunning.
StartWorker(w) ==
    /\ stop = "started" /\ pc[w] = "new"
    /\ pc' = [pc EXCEPT ![w] = "check"]
    /\ UNCHANGED <<mTasks, isRunning, stop, job, added, taken, done>>

\* Stop, up to the joins: everyone asleep is woken, and now waits for the
\* mutex.
Stop ==
    /\ stop = "started" /\ \A w \in Workers : pc[w] # "new"
    /\ isRunning' = FALSE /\ stop' = "joining"
    /\ pc' = [t \in Producers \cup Workers |->
                IF pc[t] # "asleep" THEN pc[t]
                ELSE IF t \in Workers THEN "take" ELSE "adding"]
    /\ UNCHANGED <<mTasks, job, added, taken, done>>

Joined ==
    /\ stop = "joining" /\ \A w \in Workers : pc[w] = "exited"
    /\ stop' = "stopped"
    /\ UNCHANGED <<mTasks, isRunning, pc, job, added, taken, done>>

-----------------------------------------------------------------------------
WorkerStep(w) == CheckRunning(w) \/ take(w) \/ EndTask(w)

OwnerStep == Start \/ Stop \/ Joined \/ \E w \in Workers : StartWorker(w)

Next ==
    \/ \E p \in Producers : AddTask(p) \/ \E k \in Tasks : BeginAdd(p, k)
    \/ \E w \in Workers : WorkerStep(w)
    \/ \E t \in Producers \cup Workers : SpuriousWakeup(t)
    \/ OwnerStep

Spec == Init /\ [][Next]_vars

\* The threads are scheduled and the tasks return.  Nobody has to call Stop,
\* and condition variables need not wake anyone without a signal.
FairSpec ==
    /\ Spec
    /\ \A p \in Producers : WF_vars(AddTask(p))
    /\ \A w \in Workers : WF_vars(WorkerStep(w)) /\ WF_vars(StartWorker(w))
    /\ WF_vars(Start) /\ WF_vars(Joined)

-----------------------------------------------------------------------------
(* Properties.                                                             *)

\* ThreadPool.cpp:53-85: over all producers and workers, tasks leave in the
\* order they came, each once, and the limit of the queue is kept although
\* waiters are woken by signals, broadcasts and for no reason.
QueueOrder == added = taken \o mTasks /\ Len(mTasks) <= qSize

\* ThreadPool.cpp:61-63: signalling only for the first task is enough that
\* the workers are never all asleep with a task in the queue.
NoStrandedTask == mTasks # <<>> => Asleep(Workers) # Workers

\* ThreadPool.cpp:81-83: signalling only when the queue leaves its limit is
\* enough for one producer: it is not asleep while there is room.
NoStrandedProducer ==
    \A p \in Producers : Producers = {p} /\ pc[p] = "asleep" => Full

\* ThreadPool.cpp:53-85: the three together are inductive, for any number of
\* threads and any limit.
IInv == TypeOK /\ QueueOrder /\ NoStrandedTask /\ NoStrandedProducer

\* A task that is added is run, unless the pool is stopped.
AddedIsDone == \A k \in Tasks :
    (k \in Range(added)) ~> (k \in done \/ stop \in {"joining", "stopped"})

\* AddTask of a sole producer returns, unless the pool is stopped.
AddTaskReturns == \A p \in Producers :
    (Producers = {p} /\ pc[p] = "adding")
      ~> (pc[p] = "idle" \/ stop \in {"joining", "stopped"})

\* ThreadPool.cpp:45: Stop wakes the blocked threads, and returns once they
\* have been joined.
StopReturns == (stop = "joining") ~> (stop = "stopped")
=============================================================================
