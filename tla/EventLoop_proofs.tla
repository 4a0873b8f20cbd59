-------------------------- MODULE EventLoop_proofs --------------------------
(***************************************************************************)
(* Theorems about EventLoop, for any number of threads and tasks, with and *)
(* without delayed stores.                                                 *)
(***************************************************************************)
EXTENDS EventLoop, SequenceTheorems, TLAPS

(***************************************************************************)
(* Lemmas about sequences.                                                 *)
(***************************************************************************)

\* Appending to the last of three pieces appends to the whole.
LEMMA AppendConcat3 ==
    ASSUME NEW S, NEW a \in Seq(S), NEW b \in Seq(S), NEW c \in Seq(S),
           NEW k \in S
    PROVE  (a \o b) \o Append(c, k) = Append((a \o b) \o c, k)
<1> DEFINE ab == a \o b
<1>1. ab \in Seq(S) /\ ab \o c \in Seq(S) /\ <<k>> \in Seq(S)
  BY ConcatProperties
<1>2. Append(c, k) = c \o <<k>> /\ Append(ab \o c, k) = (ab \o c) \o <<k>>
  BY <1>1, AppendIsConcat
<1>3. QED BY <1>1, <1>2, ConcatAssociative

\* Moving the head of the second piece to the end of the first changes
\* nothing of the whole.
LEMMA MoveHead ==
    ASSUME NEW S, NEW a \in Seq(S), NEW b \in Seq(S), b # <<>>
    PROVE  Append(a, Head(b)) \o Tail(b) = a \o b
<1>1. Head(b) \in S /\ Tail(b) \in Seq(S) BY HeadTailProperties
<1>2. <<Head(b)>> \in Seq(S) BY <1>1
<1>3. Append(a, Head(b)) = a \o <<Head(b)>> BY <1>1, AppendIsConcat
<1>4. b = <<Head(b)>> \o Tail(b)
  BY <1>1, <1>2, ConcatProperties, HeadTailProperties
<1>5. (a \o <<Head(b)>>) \o Tail(b) = a \o (<<Head(b)>> \o Tail(b))
  BY <1>1, <1>2, ConcatAssociative
<1>6. QED BY <1>3, <1>4, <1>5

\* The first element of a concatenation, and the rest of it.
LEMMA HeadTailOfConcat ==
    ASSUME NEW S, NEW a \in Seq(S), NEW b \in Seq(S), a # <<>>
    PROVE  /\ a \o b # <<>>
           /\ Head(a \o b) = Head(a)
           /\ Tail(a \o b) = Tail(a) \o b
<1>1. Head(a) \in S /\ Tail(a) \in Seq(S) BY HeadTailProperties
<1>2. <<Head(a)>> \in Seq(S) BY <1>1, SMT
<1>3. a = <<Head(a)>> \o Tail(a)
  BY <1>1, <1>2, ConcatProperties, HeadTailProperties, SMT
<1>4. a \o b = <<Head(a)>> \o (Tail(a) \o b)
  BY <1>1, <1>2, <1>3, ConcatAssociative
<1>5. Tail(a) \o b \in Seq(S) BY <1>1, ConcatProperties
<1>6. QED
  BY <1>1, <1>2, <1>4, <1>5, ConcatProperties, HeadTailProperties, SMT

(***************************************************************************)
(* Type correctness.                                                       *)
(***************************************************************************)

\* Every initial state is well typed.
LEMMA TypeInit == Init => TypeOK
<1> SUFFICES ASSUME Init PROVE TypeOK
  OBVIOUS
<1>1. <<>> \in Seq(Tasks) BY EmptySeq
<1>2. /\ isWakeup \in BOOLEAN /\ mQuit \in BOOLEAN
      /\ counter \in BOOLEAN /\ edge \in BOOLEAN /\ ioReady \in BOOLEAN
  BY Zenon DEF Init
<1>3. pc \in [Callers -> {"idle", "pushed", "waking"}]
  BY DEF Init
<1>4. QED BY <1>1, <1>2, <1>3 DEF Init, TypeOK

\* Every step of a caller, of the loop or of the environment keeps the types.
LEMMA TypeStep ==
    ASSUME TypeOK, [Next]_vars
    PROVE  TypeOK'
<1> USE DEF TypeOK, Callers
<1>1. ASSUME NEW t \in Callers, NEW k \in Tasks, QueueInLoop(t, k)
      PROVE  TypeOK'
  BY <1>1, AppendProperties DEF QueueInLoop, kernel
<1>2. ASSUME NEW k \in Tasks, RunInline(k) PROVE TypeOK'
  BY <1>2 DEF RunInline, memory, kernel
<1>3. ASSUME NEW t \in Callers, Quit(t) PROVE TypeOK'
  BY <1>3, LenProperties DEF Quit, kernel
<1>4. ASSUME NEW t \in Callers, CallerStep(t) PROVE TypeOK'
  BY <1>4 DEF CallerStep, Drain, ReadIsWakeup, wakeup, memory, kernel,
                   history
<1>5. CASE CheckQuit \/ Poll \/ PollInterrupted \/ IoEvent
  BY <1>5 DEF CheckQuit, Poll, Ready, PollInterrupted, IoEvent, memory,
                   kernel, history
<1>6. CASE MarkWakeup \/ wakeupRead \/ BeginCallback \/ EndCallback
  BY <1>6 DEF MarkWakeup, wakeupRead, BeginCallback, EndCallback,
                   memory, kernel, history
<1>7. CASE SwapTasks \/ ClearWakeup \/ EndTask \/ EndBatch
  <2>1. <<>> \in Seq(Tasks) BY EmptySeq
  <2>2. QED
    BY <1>7, <2>1 DEF SwapTasks, ClearWakeup, EndTask, EndBatch, memory,
                      kernel, history
<1>8. CASE RunTask
  BY <1>8, HeadTailProperties, AppendProperties
     DEF RunTask, memory, kernel
<1>9. CASE UNCHANGED vars
  BY <1>9 DEF vars, memory, kernel, history
<1>10. QED
  BY <1>1, <1>2, <1>3, <1>4, <1>5, <1>6, <1>7, <1>8, <1>9
     DEF Next, RunInLoop, LoopStep

\* EventLoop.cpp:51-158: whatever the threads call and whenever, every
\* variable keeps its type.
THEOREM TypeCorrect == Spec => []TypeOK
<1>1. QED BY TypeInit, TypeStep, PTL DEF Spec

(***************************************************************************)
(* The wakeup protocol.                                                    *)
(***************************************************************************)

\* At the start nothing is queued and nobody is about to write the eventfd.
LEMMA WakeInit == Init => WakeInv
BY Zenon DEF Init, WakeInv, AfterSwap, NoLostEdge

\* The step from one state to the next keeps WakeInv.  The heart of it: a
\* thread that reads isWakeup AfterSwap finds it down and goes on to write
\* the eventfd, and only a thread between its push and that write, or the
\* edge of a write, is needed to wake the loop.
LEMMA WakeStep ==
    ASSUME TypeOK, WakeInv, [Next]_vars
    PROVE  WakeInv'
<1> USE DEF WakeInv, AfterSwap, WakePending, NoLostEdge, TypeOK, Callers
<1>1. ASSUME NEW t \in Callers, NEW k \in Tasks, QueueInLoop(t, k)
      PROVE  WakeInv'
  BY <1>1 DEF QueueInLoop, kernel
<1>2. ASSUME NEW k \in Tasks, RunInline(k) PROVE WakeInv'
  BY <1>2 DEF RunInline, memory, kernel
<1>3. ASSUME NEW t \in Callers, Quit(t) PROVE WakeInv'
  BY <1>3 DEF Quit, CanCall, kernel
<1>4. ASSUME NEW t \in Callers, Drain(t) PROVE WakeInv'
  BY <1>4 DEF Drain, kernel, history
<1>5. ASSUME NEW t \in Callers, ReadIsWakeup(t) PROVE WakeInv'
  BY <1>5 DEF ReadIsWakeup, SeenWakeup, memory, kernel, history
<1>6. ASSUME NEW t \in Callers, wakeup(t) PROVE WakeInv'
  BY <1>6 DEF wakeup, memory, history
<1>7. CASE CheckQuit \/ PollInterrupted \/ IoEvent
  <2>1. CASE CheckQuit
    <3>1. lpc = "check" /\ lpc' \in {"exited", "poll"}
      BY <2>1 DEF CheckQuit
    <3>2. QED BY <2>1, <3>1 DEF CheckQuit, memory, kernel, history
  <2>2. CASE PollInterrupted
    BY <2>2 DEF PollInterrupted, memory, kernel, history
  <2>3. CASE IoEvent
    BY <2>3 DEF IoEvent, memory, history
  <2>4. QED BY <1>7, <2>1, <2>2, <2>3
<1>8. CASE Poll
  BY <1>8 DEF Poll, Ready, memory, kernel, history
<1>9. CASE MarkWakeup \/ wakeupRead
  BY <1>9 DEF MarkWakeup, wakeupRead, memory, kernel, history
<1>10. CASE BeginCallback \/ EndCallback
  BY <1>10 DEF BeginCallback, EndCallback, memory, kernel, history
<1>11. CASE SwapTasks
  BY <1>11 DEF SwapTasks, kernel, history
<1>12. CASE ClearWakeup
  BY <1>12 DEF ClearWakeup, kernel, history
<1>13. CASE RunTask \/ EndTask \/ EndBatch
  <2>1. CASE RunTask
    BY <2>1 DEF RunTask, memory, kernel
  <2>2. CASE EndTask
    BY <2>2 DEF EndTask, memory, kernel, history
  <2>3. CASE EndBatch
    BY <2>3 DEF EndBatch, memory, kernel, history
  <2>4. QED BY <1>13, <2>1, <2>2, <2>3
<1>14. CASE UNCHANGED vars
  BY <1>14 DEF vars, memory, kernel, history
<1>15. QED
  BY <1>1, <1>2, <1>3, <1>4, <1>5, <1>6, <1>7, <1>8, <1>9, <1>10, <1>11,
     <1>12, <1>13, <1>14
     DEF Next, RunInLoop, CallerStep, LoopStep

(***************************************************************************)
(* The order of the tasks.                                                 *)
(***************************************************************************)

\* At the start nothing has been queued and nothing has been run.
LEMMA OrderInit == Init => OrderInv
<1>1. <<>> \in Seq(Tasks) BY EmptySeq
<1>2. <<>> \o <<>> = <<>> BY <1>1, ConcatEmptySeq
<1>3. QED BY <1>2 DEF Init, OrderInv, QueueOrder

\* Only a push, the swap and the start of a task move tasks, and none of
\* them reorders, loses or repeats one.
LEMMA OrderStep ==
    ASSUME TypeOK, OrderInv, [Next]_vars
    PROVE  OrderInv'
<1> USE DEF OrderInv, QueueOrder
<1>0. /\ ran \in Seq(Tasks) /\ batch \in Seq(Tasks) /\ mTasks \in Seq(Tasks)
      /\ <<>> \in Seq(Tasks)
  BY EmptySeq DEF TypeOK
<1>1. ASSUME NEW t \in Callers, NEW k \in Tasks, QueueInLoop(t, k)
      PROVE  OrderInv'
  <2>1. (ran \o batch) \o Append(mTasks, k) = Append((ran \o batch) \o mTasks, k)
    BY <1>0, AppendConcat3
  <2>2. QED BY <1>1, <2>1 DEF QueueInLoop, kernel
<1>2. CASE SwapTasks
  <2>1. batch = <<>> BY <1>2 DEF SwapTasks
  <2>2. (ran \o <<>>) \o mTasks = (ran \o mTasks) \o <<>>
    BY <1>0, ConcatEmptySeq, ConcatProperties
  <2>3. QED BY <1>2, <2>1, <2>2 DEF SwapTasks, history
<1>3. CASE RunTask
  <2>1. Append(ran, Head(batch)) \o Tail(batch) = ran \o batch
    BY <1>0, <1>3, MoveHead DEF RunTask
  <2>2. QED BY <1>3, <2>1 DEF RunTask, memory
<1>4. CASE EndBatch
  BY <1>4 DEF EndBatch, memory, history
<1>5. CASE UNCHANGED <<mTasks, batch, posted, ran>>
           /\ (lpc \notin {"swapped", "run", "task"}
                 \/ lpc' \in {"swapped", "run", "task"})
  BY <1>5
<1>6. ASSUME NEW k \in Tasks, RunInline(k) PROVE OrderInv'
  BY <1>6, <1>5 DEF RunInline, memory
<1>7. ASSUME NEW t \in Callers, Quit(t) \/ CallerStep(t) PROVE OrderInv'
  BY <1>7, <1>5 DEF Quit, CallerStep, Drain, ReadIsWakeup, wakeup, memory,
                    history
<1>8. CASE CheckQuit \/ Poll \/ MarkWakeup \/ wakeupRead \/ PollInterrupted
  BY <1>8, <1>5 DEF CheckQuit, Poll, MarkWakeup, wakeupRead, PollInterrupted,
                    memory, history
<1>9. CASE BeginCallback \/ EndCallback \/ ClearWakeup \/ EndTask \/ IoEvent
  BY <1>9, <1>5 DEF BeginCallback, EndCallback, ClearWakeup, EndTask, IoEvent,
                    memory, history
<1>10. CASE UNCHANGED vars
  BY <1>10, <1>5 DEF vars, memory, history
<1>11. QED
  BY <1>1, <1>2, <1>3, <1>4, <1>6, <1>7, <1>8, <1>9, <1>10
     DEF Next, RunInLoop, LoopStep

(***************************************************************************)
(* Quit.                                                                   *)
(***************************************************************************)

\* At the start nobody has called Quit.
LEMMA QuitInit == Init => QuitInv
BY Zenon DEF Init, QuitInv, NoLostQuit

\* mQuit is set in memory by a store that is not delayed, after which the
\* thread finds isWakeup down if the loop is in poll; or by a delayed store,
\* and then a thread in Delaying has quit.
LEMMA QuitStep ==
    ASSUME TypeOK, WakeInv, QuitInv, [Next]_vars
    PROVE  QuitInv'
<1> USE DEF QuitInv, NoLostQuit, WakePending, TypeOK, Callers
<1>1. ASSUME NEW t \in Callers, NEW k \in Tasks, QueueInLoop(t, k)
      PROVE  QuitInv'
  BY <1>1 DEF QueueInLoop, kernel
<1>2. ASSUME NEW k \in Tasks, RunInline(k) PROVE QuitInv'
  BY <1>2 DEF RunInline, memory, kernel
<1>3. ASSUME NEW t \in Callers, Quit(t) PROVE QuitInv'
  BY <1>3 DEF Quit, kernel
<1>4. ASSUME NEW t \in Callers, Drain(t) PROVE QuitInv'
  BY <1>4 DEF Drain, kernel, history
<1>5. ASSUME NEW t \in Callers, ReadIsWakeup(t) PROVE QuitInv'
  BY <1>5 DEF ReadIsWakeup, SeenWakeup, WakeInv, AfterSwap, memory, kernel,
              history
<1>6. ASSUME NEW t \in Callers, wakeup(t) PROVE QuitInv'
  BY <1>6 DEF wakeup, memory, history
<1>7. CASE CheckQuit
  <2>1. stores' = stores /\ quitters' = quitters /\ mQuit' = mQuit
    BY <1>7 DEF CheckQuit, memory, history
  <2>2. lpc' = "poll" => ~mQuit
    BY <1>7 DEF CheckQuit
  <2>3. QED BY <2>1, <2>2
<1>8. CASE PollInterrupted \/ Poll
  BY <1>8 DEF PollInterrupted, Poll, memory, kernel, history
<1>9. CASE IoEvent
  BY <1>9 DEF IoEvent, memory, history
<1>10. CASE MarkWakeup \/ wakeupRead
  BY <1>10 DEF MarkWakeup, wakeupRead, memory, kernel, history
<1>11. CASE BeginCallback \/ EndCallback
  BY <1>11 DEF BeginCallback, EndCallback, memory, kernel, history
<1>12. CASE SwapTasks \/ ClearWakeup
  BY <1>12 DEF SwapTasks, ClearWakeup, kernel, history
<1>13. CASE RunTask
  BY <1>13 DEF RunTask, memory, kernel
<1>14. CASE EndTask \/ EndBatch
  BY <1>14 DEF EndTask, EndBatch, memory, kernel, history
<1>15. CASE UNCHANGED vars
  BY <1>15 DEF vars, memory, kernel, history
<1>16. QED
  BY <1>1, <1>2, <1>3, <1>4, <1>5, <1>6, <1>7, <1>8, <1>9, <1>10, <1>11,
     <1>12, <1>13, <1>14, <1>15
     DEF Next, RunInLoop, CallerStep, LoopStep

(***************************************************************************)
(* The invariant, and what follows from it.                                *)
(***************************************************************************)

\* The inductive invariant holds in every reachable state.
THEOREM Inductive == Spec => []IInv
<1>1. Init => IInv
  BY TypeInit, WakeInit, OrderInit, QuitInit DEF IInv
<1>2. IInv /\ [Next]_vars => IInv'
  BY TypeStep, WakeStep, OrderStep, QuitStep DEF IInv
<1>3. QED BY <1>1, <1>2, PTL DEF Spec

\* EventLoop.cpp:108-117 against 54-61 and 147-153: the loop never sleeps on
\* a queued task, for all interleavings of any number of posters.
THEOREM NoTaskIsLost == Spec => []NoLostTask
<1>1. IInv => NoLostTask
  BY DEF IInv, WakeInv, AfterSwap, NoLostTask
<1>2. QED BY <1>1, Inductive, PTL

\* EventLoop.cpp:119-125: nor on a Quit whose store is not delayed.
THEOREM NoQuitIsLost == Spec => []NoLostQuit
<1>1. IInv => NoLostQuit
  BY DEF IInv, QuitInv
<1>2. QED BY <1>1, Inductive, PTL

\* EventLoop.cpp:127-145: no write of the eventfd is swallowed by
\* edge-triggered polling.
THEOREM NoEdgeIsLost == Spec => []NoLostEdge
<1>1. IInv => NoLostEdge
  BY DEF IInv, WakeInv
<1>2. QED BY <1>1, Inductive, PTL

\* EventLoop.cpp:147-158: tasks run in the order they were queued, each once.
THEOREM TasksRunInOrder == Spec => []QueueOrder
<1>1. IInv => QueueOrder
  BY DEF IInv, OrderInv
<1>2. QED BY <1>1, Inductive, PTL

(***************************************************************************)
(* Refinement.                                                             *)
(***************************************************************************)

\* The loop starts as an executor with an empty queue that has not stopped.
LEMMA SEInitial == Init => SE!SEInit
<1>1. <<>> \in Seq(Tasks) BY EmptySeq
<1>2. <<>> \o <<>> = <<>> BY <1>1, ConcatEmptySeq
<1>3. QED BY <1>2 DEF Init, SE!SEInit

\* A push is Submit, the start of a task is Execute, leaving Loop() is Stop;
\* every other step leaves the executor alone.
LEMMA SEStep ==
    ASSUME IInv, [Next]_vars
    PROVE  [SE!SENext]_(SE!seVars)
<1> USE DEF SE!seVars
<1>0. /\ ran \in Seq(Tasks) /\ batch \in Seq(Tasks) /\ mTasks \in Seq(Tasks)
      /\ batch \o mTasks \in Seq(Tasks) /\ <<>> \in Seq(Tasks)
  BY EmptySeq, ConcatProperties DEF IInv, TypeOK
<1>1. ASSUME NEW t \in Callers, NEW k \in Tasks, QueueInLoop(t, k)
      PROVE  SE!Submit(k)
  <2>1. posted = ran \o (batch \o mTasks)
    BY <1>0, ConcatAssociative DEF IInv, OrderInv, QueueOrder
  <2>2. Range(posted) = Range(ran) \cup Range(batch \o mTasks)
    <3>1. \A q \in Seq(Tasks) : Range(ran \o q) = Range(ran) \cup Range(q)
      BY <1>0, RangeConcatenation
    <3>2. QED BY <1>0, <2>1, <3>1
  <2>3. k \notin Range(batch \o mTasks) \cup Range(ran)
    BY <1>1, <2>2 DEF QueueInLoop, Fresh
  <2>4. batch \o Append(mTasks, k) = Append(batch \o mTasks, k)
    <3>1. <<k>> \in Seq(Tasks) BY SMT
    <3>2. /\ Append(mTasks, k) = mTasks \o <<k>>
          /\ Append(batch \o mTasks, k) = (batch \o mTasks) \o <<k>>
      BY <1>0, AppendIsConcat
    <3>3. QED BY <1>0, <3>1, <3>2, ConcatAssociative
  <2>5. QED BY <1>1, <2>3, <2>4 DEF QueueInLoop, SE!Submit, SE!Range, Range
<1>2. CASE RunTask
  <2>1. /\ batch \o mTasks # <<>>
        /\ Head(batch \o mTasks) = Head(batch)
        /\ Tail(batch \o mTasks) = Tail(batch) \o mTasks
    BY <1>0, <1>2, HeadTailOfConcat DEF RunTask
  <2>2. QED BY <1>2, <2>1 DEF RunTask, memory, SE!Execute, SE!SENext
<1>3. CASE SwapTasks
  <2>1. batch = <<>> BY <1>3 DEF IInv, OrderInv, SwapTasks
  <2>2. <<>> \o mTasks = mTasks /\ mTasks \o <<>> = mTasks
    BY <1>0, ConcatEmptySeq
  <2>3. QED BY <1>3, <2>1, <2>2 DEF SwapTasks, history
<1>4. CASE CheckQuit
  <2>1. CASE mQuit
    BY <1>4, <2>1 DEF CheckQuit, memory, history, SE!Stop, SE!SENext
  <2>2. CASE ~mQuit
    BY <1>4, <2>2 DEF CheckQuit, memory, history
  <2>3. QED BY <2>1, <2>2
<1>5. CASE UNCHANGED <<mTasks, batch, ran>>
           /\ (lpc = "exited" <=> lpc' = "exited")
  BY <1>5
<1>6. ASSUME NEW k \in Tasks, RunInline(k) PROVE UNCHANGED SE!seVars
  BY <1>6, <1>5 DEF RunInline, memory
<1>7. ASSUME NEW t \in Callers, Quit(t) \/ CallerStep(t)
      PROVE  UNCHANGED SE!seVars
  BY <1>7, <1>5 DEF Quit, CallerStep, Drain, ReadIsWakeup, wakeup, memory,
                    history
<1>8. CASE Poll \/ MarkWakeup \/ wakeupRead \/ PollInterrupted \/ IoEvent
  BY <1>8, <1>5 DEF Poll, MarkWakeup, wakeupRead, PollInterrupted, IoEvent,
                    memory, history
<1>9. CASE BeginCallback \/ EndCallback \/ ClearWakeup \/ EndTask \/ EndBatch
  BY <1>9, <1>5 DEF BeginCallback, EndCallback, ClearWakeup, EndTask, EndBatch,
                    memory, history
<1>10. CASE UNCHANGED vars
  BY <1>10, <1>5 DEF vars, memory, history
<1>11. QED
  BY <1>1, <1>2, <1>3, <1>4, <1>6, <1>7, <1>8, <1>9, <1>10
     DEF Next, RunInLoop, LoopStep, SE!SENext

\* The loop with its wakeups, batches and unlocked flags implements the
\* serial executor.
THEOREM Refinement == Spec => ImplementsSerialExecutor
<1>1. Init => SE!SEInit BY SEInitial
<1>2. IInv /\ [Next]_vars => [SE!SENext]_(SE!seVars) BY SEStep
<1>3. QED
  BY <1>1, <1>2, Inductive, PTL DEF Spec, ImplementsSerialExecutor, SE!SESpec
=============================================================================
