-------------------------- MODULE ThreadPool_proofs --------------------------
(***************************************************************************)
(* Proofs about ThreadPool.                                                *)
(***************************************************************************)
EXTENDS ThreadPool, TLAPS

PCs == {"new", "idle", "adding", "check", "take", "asleep", "run", "exited"}

\* The empty pool satisfies the invariant.
LEMMA InitIInv == Init => IInv
  <1> SUFFICES ASSUME Init PROVE IInv
    OBVIOUS
  <1> USE ThreadsAssumption, SizeAssumption DEF Init
  <1>1. TypeOK
    <2>1. <<>> \in Seq(Tasks) /\ {} \subseteq Tasks
      OBVIOUS
    <2>2. \A t \in Producers \cup Workers :
            pc[t] = (IF t \in Workers THEN "new" ELSE "idle") /\ job[t] = None
      OBVIOUS
    <2>3. pc \in [Producers \cup Workers -> PCs]
      BY DEF PCs
    <2> QED BY <2>1, <2>2, <2>3 DEF TypeOK, PCs
  <1>2. QueueOrder /\ NoStrandedTask
    BY DEF QueueOrder, NoStrandedTask
  <1>3. NoStrandedProducer
    BY DEF NoStrandedProducer
  <1> QED BY <1>1, <1>2, <1>3 DEF IInv

\* A step of AddTask, which waits for room or appends and may wake a worker.
LEMMA AddTaskStep == ASSUME IInv, NEW p \in Producers, AddTask(p) PROVE IInv'
  <1> USE ThreadsAssumption, SizeAssumption, TasksAssumption
      DEF IInv, MutexFree, Full
  <1>1. CASE /\ Full /\ pc[p] = "adding" /\ pc' = [pc EXCEPT ![p] = "asleep"]
             /\ UNCHANGED <<mTasks, job, added, isRunning, stop, taken, done>>
    <2>1. TypeOK'
      BY <1>1 DEF TypeOK
    <2>2. QueueOrder'
      BY <1>1 DEF QueueOrder
    <2>3. NoStrandedTask'
      BY <1>1 DEF NoStrandedTask, Asleep, TypeOK
    <2>4. NoStrandedProducer'
      BY <1>1 DEF NoStrandedProducer, TypeOK
    <2> QED BY <2>1, <2>2, <2>3, <2>4
  <1>2. CASE /\ ~Full /\ pc[p] = "adding"
             /\ mTasks' = Append(mTasks, job[p]) /\ added' = Append(added, job[p])
             /\ job' = [job EXCEPT ![p] = None]
             /\ Signal(Waiting(mTasks'), "take", p, "idle")
             /\ UNCHANGED <<isRunning, stop, taken, done>>
    <2>0. job[p] \in Tasks
      BY <1>2 DEF TypeOK
    <2>1. /\ pc' \in [Producers \cup Workers -> PCs] /\ pc'[p] = "idle"
          /\ \A u \in Producers \cup Workers : u # p =>
               pc'[u] = pc[u] \/ (u \in Asleep(Workers) /\ pc'[u] = "take")
          /\ Waiting(mTasks') # {} => \E u \in Workers : pc'[u] = "take"
      <3>0. pc \in [Producers \cup Workers -> PCs] /\ pc[p] # "asleep"
        BY <1>2 DEF TypeOK, PCs
      <3>1. CASE Waiting(mTasks') # {}
        <4>1. PICK u \in Waiting(mTasks') : pc' = [pc EXCEPT ![p] = "idle", ![u] = "take"]
          BY <1>2, <3>1 DEF Signal
        <4>2. u \in Workers /\ u \in Asleep(Workers) /\ pc[u] = "asleep"
          BY <4>1 DEF Waiting, Asleep
        <4> QED BY <3>0, <4>1, <4>2 DEF PCs
      <3>2. CASE Waiting(mTasks') = {}
        <4>1. pc' = [pc EXCEPT ![p] = "idle"]
          BY <1>2, <3>2 DEF Signal
        <4> QED BY <3>0, <3>2, <4>1 DEF PCs
      <3> QED BY <3>1, <3>2
    <2>2. TypeOK'
      BY <1>2, <2>0, <2>1 DEF TypeOK, PCs, Asleep
    <2>3. QueueOrder'
      BY <1>2, <2>0 DEF QueueOrder, TypeOK
    <2>4. NoStrandedTask'
      <3>1. CASE mTasks = <<>>
        <4>1. Waiting(mTasks') = Asleep(Workers)
          BY <1>2, <2>0, <3>1 DEF Waiting
        <4> QED BY <2>1, <4>1 DEF NoStrandedTask, Asleep
      <3>2. CASE mTasks # <<>>
        BY <2>1, <3>2 DEF NoStrandedTask, Asleep
      <3> QED BY <3>1, <3>2
    <2>5. NoStrandedProducer'
      BY <2>1 DEF NoStrandedProducer, Asleep
    <2> QED BY <2>2, <2>3, <2>4, <2>5
  <1> QED BY <1>1, <1>2 DEF AddTask

\* A step of take, which waits for a task, or removes one, or (when stopping)
\* leaves it, and may wake a producer.
LEMMA TakeStep == ASSUME IInv, NEW w \in Workers, take(w) PROVE IInv'
  <1> USE ThreadsAssumption, SizeAssumption, TasksAssumption
      DEF IInv, MutexFree, Full
  <1>0. pc[w] = "take"
    BY DEF take
  <1>1. CASE /\ mTasks = <<>> /\ pc' = [pc EXCEPT ![w] = "asleep"]
             /\ UNCHANGED <<mTasks, job, taken, isRunning, stop, added, done>>
    <2>1. TypeOK'
      BY <1>0, <1>1 DEF TypeOK
    <2>2. QueueOrder' /\ NoStrandedTask'
      BY <1>1 DEF QueueOrder, NoStrandedTask
    <2>3. NoStrandedProducer'
      BY <1>1 DEF NoStrandedProducer, TypeOK
    <2> QED BY <2>1, <2>2, <2>3
  <1>2. CASE /\ mTasks # <<>> /\ isRunning
             /\ mTasks' = Tail(mTasks) /\ taken' = Append(taken, Head(mTasks))
             /\ job' = [job EXCEPT ![w] = Head(mTasks)]
             /\ Signal(Blocked(mTasks'), "adding", w, "run")
             /\ UNCHANGED <<isRunning, stop, added, done>>
    <2>0. /\ Head(mTasks) \in Tasks /\ Tail(mTasks) \in Seq(Tasks)
          /\ Len(Tail(mTasks)) = Len(mTasks) - 1 /\ Len(mTasks) \in Nat
      BY <1>2 DEF TypeOK
    <2>1. /\ pc' \in [Producers \cup Workers -> PCs] /\ pc'[w] = "run"
          /\ \A u \in Producers \cup Workers : u # w =>
               pc'[u] = pc[u] \/ (u \in Asleep(Producers) /\ pc'[u] = "adding")
          /\ Blocked(mTasks') # {} => \E u \in Producers : pc'[u] = "adding"
      <3>0. pc \in [Producers \cup Workers -> PCs] /\ pc[w] # "asleep"
        BY <1>2, <1>0 DEF TypeOK, PCs
      <3>1. CASE Blocked(mTasks') # {}
        <4>1. PICK u \in Blocked(mTasks') : pc' = [pc EXCEPT ![w] = "run", ![u] = "adding"]
          BY <1>2, <3>1 DEF Signal
        <4>2. u \in Producers /\ u \in Asleep(Producers) /\ pc[u] = "asleep"
          BY <4>1 DEF Blocked, Asleep
        <4> QED BY <3>0, <4>1, <4>2 DEF PCs
      <3>2. CASE Blocked(mTasks') = {}
        <4>1. pc' = [pc EXCEPT ![w] = "run"]
          BY <1>2, <3>2 DEF Signal
        <4> QED BY <3>0, <3>2, <4>1 DEF PCs
      <3> QED BY <3>1, <3>2
    <2>2. TypeOK'
      BY <1>2, <2>0, <2>1 DEF TypeOK, PCs, Asleep
    <2>3. QueueOrder'
      <3>1. taken \o mTasks = Append(taken, Head(mTasks)) \o Tail(mTasks)
        BY <1>2 DEF TypeOK
      <3> QED BY <1>2, <2>0, <3>1 DEF QueueOrder
    <2>4. NoStrandedTask'
      BY <2>1 DEF NoStrandedTask, Asleep
    <2>5. NoStrandedProducer'
      <3> SUFFICES ASSUME NEW p \in Producers, Producers = {p}, pc'[p] = "asleep"
                   PROVE  FALSE
        BY DEF NoStrandedProducer
      <3>1. pc[p] = "asleep"
        BY <2>1 DEF Asleep
      <3>2. Len(mTasks) = qSize
        <4>1. Len(mTasks) >= qSize
          BY <3>1 DEF NoStrandedProducer
        <4>2. Len(mTasks) <= qSize
          BY DEF QueueOrder
        <4>3. Len(mTasks) \in Nat /\ qSize \in Nat
          BY <2>0
        <4> QED BY <4>1, <4>2, <4>3
      <3>3. Blocked(mTasks') # {}
        BY <3>1, <3>2, <1>2, <2>0 DEF Blocked, Asleep
      <3> QED BY <2>1, <3>3
    <2> QED BY <2>2, <2>3, <2>4, <2>5
  <1>3. CASE /\ mTasks # <<>> /\ ~isRunning
             /\ Signal(Blocked(mTasks), "adding", w, "check")
             /\ UNCHANGED <<mTasks, job, taken, isRunning, stop, added, done>>
    <2>1. /\ pc' \in [Producers \cup Workers -> PCs] /\ pc'[w] = "check"
          /\ \A u \in Producers \cup Workers : u # w =>
               pc'[u] = pc[u] \/ (u \in Asleep(Producers) /\ pc'[u] = "adding")
          /\ Blocked(mTasks) # {} => \E u \in Producers : pc'[u] = "adding"
      <3>0. pc \in [Producers \cup Workers -> PCs] /\ pc[w] # "asleep"
        BY <1>3, <1>0 DEF TypeOK, PCs
      <3>1. CASE Blocked(mTasks) # {}
        <4>1. PICK u \in Blocked(mTasks) : pc' = [pc EXCEPT ![w] = "check", ![u] = "adding"]
          BY <1>3, <3>1 DEF Signal
        <4>2. u \in Producers /\ u \in Asleep(Producers) /\ pc[u] = "asleep"
          BY <4>1 DEF Blocked, Asleep
        <4> QED BY <3>0, <4>1, <4>2 DEF PCs
      <3>2. CASE Blocked(mTasks) = {}
        <4>1. pc' = [pc EXCEPT ![w] = "check"]
          BY <1>3, <3>2 DEF Signal
        <4> QED BY <3>0, <3>2, <4>1 DEF PCs
      <3> QED BY <3>1, <3>2
    <2>2. TypeOK'
      BY <1>0, <1>3, <2>1 DEF TypeOK, PCs, Asleep
    <2>3. QueueOrder'
      BY <1>3 DEF QueueOrder
    <2>4. NoStrandedTask'
      BY <2>1 DEF NoStrandedTask, Asleep
    <2>5. NoStrandedProducer'
      BY <1>3, <2>1 DEF NoStrandedProducer, Asleep
    <2> QED BY <2>2, <2>3, <2>4, <2>5
  <1> QED BY <1>1, <1>2, <1>3 DEF take

\* No step of any thread leaves the invariant.
LEMMA IInvStep == IInv /\ [Next]_vars => IInv'
  <1> SUFFICES ASSUME IInv, [Next]_vars PROVE IInv'
    OBVIOUS
  <1> USE ThreadsAssumption, SizeAssumption, TasksAssumption
      DEF IInv, QueueOrder, NoStrandedTask, NoStrandedProducer, Asleep, Full
  <1>1. ASSUME NEW p \in Producers, NEW k \in Tasks, BeginAdd(p, k) PROVE IInv'
    BY <1>1 DEF BeginAdd, TypeOK
  <1>2. ASSUME NEW p \in Producers, AddTask(p) PROVE IInv'
    BY <1>2, AddTaskStep
  <1>3. ASSUME NEW w \in Workers, CheckRunning(w) PROVE IInv'
    BY <1>3 DEF CheckRunning, TypeOK
  <1>4. ASSUME NEW w \in Workers, take(w) PROVE IInv'
    BY <1>4, TakeStep
  <1>5. ASSUME NEW w \in Workers, EndTask(w) PROVE IInv'
    BY <1>5 DEF EndTask, TypeOK
  <1>6. ASSUME NEW t \in Producers \cup Workers, SpuriousWakeup(t) PROVE IInv'
    BY <1>6 DEF SpuriousWakeup, TypeOK
  <1>7. ASSUME Start PROVE IInv'
    BY <1>7 DEF Start, TypeOK
  <1>8. ASSUME NEW w \in Workers, StartWorker(w) PROVE IInv'
    BY <1>8 DEF StartWorker, TypeOK
  <1>9. ASSUME Stop PROVE IInv'
    BY <1>9 DEF Stop, TypeOK
  <1>10. ASSUME Joined PROVE IInv'
    BY <1>10 DEF Joined, TypeOK
  <1>11. ASSUME UNCHANGED vars PROVE IInv'
    BY <1>11 DEF vars, TypeOK
  <1> QED
    BY <1>1, <1>2, <1>3, <1>4, <1>5, <1>6, <1>7, <1>8, <1>9, <1>10, <1>11
    DEF Next, WorkerStep, OwnerStep

\* The invariant of the pool (ThreadPool.cpp:53-85) holds for every number of
\* threads, every limit and every set of tasks.
THEOREM Inductive == Spec => []IInv
  BY InitIInv, IInvStep, PTL DEF Spec

\* ThreadPool.cpp:53-85: tasks leave the queue in the order they came, each
\* once, and the limit is kept.
THEOREM TasksLeaveInOrder == Spec => []QueueOrder
  <1>1. IInv => QueueOrder
    BY DEF IInv
  <1> QED BY <1>1, Inductive, PTL

\* ThreadPool.cpp:61-63: the workers are never all asleep with a task queued.
THEOREM WorkersAreWoken == Spec => []NoStrandedTask
  <1>1. IInv => NoStrandedTask
    BY DEF IInv
  <1> QED BY <1>1, Inductive, PTL

\* ThreadPool.cpp:81-83: a sole producer is not asleep while there is room.
THEOREM SoleProducerIsWoken == Spec => []NoStrandedProducer
  <1>1. IInv => NoStrandedProducer
    BY DEF IInv
  <1> QED BY <1>1, Inductive, PTL
=============================================================================
