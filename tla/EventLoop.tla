------------------------------ MODULE EventLoop ------------------------------
(***************************************************************************)
(* event/EventLoop.cpp: one thread polls, dispatches the ready channels,   *)
(* and runs the tasks other threads have queued.  A poster pushes under    *)
(* mMutex and then decides, from an unlocked read of isWakeup, whether to  *)
(* write the eventfd that makes poll return.  The loop raises isWakeup     *)
(* after poll and lowers it, under mMutex, when it takes the queue.        *)
(*                                                                         *)
(* The flags isWakeup and mQuit are plain bools shared without a lock.     *)
(* A store to one of them by a thread in Delaying may stay in that         *)
(* thread's store buffer (it is in "stores") while the thread goes on;     *)
(* locking a mutex and the eventfd write flush the buffer.  This is what   *)
(* an x86 build of the code can do; Delaying = {} is the sequentially      *)
(* consistent reading.                                                     *)
(***************************************************************************)
EXTENDS Naturals, Sequences, Functions

CONSTANTS Threads,        \* the threads that use the loop from outside
          Loop,           \* the loop's own thread
          Tasks,          \* closures; each is queued at most once (bound)
          Delaying        \* threads whose stores to the flags may be delayed

ASSUME LoopAssumption == Loop \notin Threads
ASSUME DelayingAssumption == Delaying \subseteq Threads \cup {Loop}

VARIABLES
    mTasks,     \* the queue, guarded by mMutex
    isWakeup,   \* the flag as seen in memory
    mQuit,      \* the flag as seen in memory
    stores,     \* threads with a store to a flag still in their buffer
    counter,    \* is the eventfd's counter non-zero?
    edge,       \* is the eventfd on epoll's ready list? (edge-triggered)
    ioReady,    \* is another descriptor (socket, timerfd) on that list?
    active,     \* the channels poll returned and not handled yet
    batch,      \* doTask's local vector: the tasks not yet begun
    lpc,        \* where the loop thread is
    pc,         \* where each thread is inside QueueInLoop or Quit
    \* History: what was asked of the loop and what it did.
    posted, ran, inlined, quitters

memory == <<mTasks, isWakeup, mQuit, stores>>
kernel == <<counter, edge, ioReady>>
history == <<posted, ran, inlined, quitters>>
vars == <<memory, kernel, active, batch, lpc, pc, history>>

Callers == Threads \cup {Loop}

TypeOK ==
    /\ mTasks \in Seq(Tasks) /\ batch \in Seq(Tasks)
    /\ posted \in Seq(Tasks) /\ ran \in Seq(Tasks)
    /\ isWakeup \in BOOLEAN /\ mQuit \in BOOLEAN
    /\ counter \in BOOLEAN /\ edge \in BOOLEAN /\ ioReady \in BOOLEAN
    /\ stores \subseteq Callers /\ quitters \subseteq Callers
    /\ active \subseteq {"wakeup", "io"}
    /\ inlined \subseteq Tasks
    /\ lpc \in {"check", "poll", "mark", "handle", "callback", "swapped",
                "run", "task", "exited"}
    /\ pc \in [Callers -> {"idle", "pushed", "waking"}]

Init ==
    /\ mTasks = <<>> /\ batch = <<>> /\ posted = <<>> /\ ran = <<>>
    /\ isWakeup = FALSE /\ mQuit = FALSE /\ stores = {}
    /\ counter = FALSE /\ edge = FALSE /\ ioReady = FALSE
    /\ active = {} /\ inlined = {} /\ quitters = {}
    /\ lpc = "check"
    /\ pc = [t \in Callers |-> "idle"]

-----------------------------------------------------------------------------
\* A call can start in a thread that is in none; in the loop thread it is
\* the running callback or task that makes it.
CanCall(t) == pc[t] = "idle" /\ (t = Loop => lpc \in {"callback", "task"})

Fresh(k) == k \notin Range(posted) \cup inlined

\* The loop thread sees its own delayed store.
SeenWakeup(t) == isWakeup \/ (t = Loop /\ Loop \in stores)

\* What epoll_wait would return now.
Ready == (IF counter /\ edge THEN {"wakeup"} ELSE {})
           \cup (IF ioReady THEN {"io"} ELSE {})

-----------------------------------------------------------------------------
(* Faulty variants of actions below, for testing the properties: each is   *)
(* what a plausible mistake in the code would do.                          *)

\* The queue is copied instead of swapped.
Fault_CopyTasks ==
    /\ lpc = "handle" /\ active = {} /\ Loop \notin stores
    /\ batch' = mTasks /\ UNCHANGED mTasks
    /\ lpc' = "swapped"
    /\ UNCHANGED <<isWakeup, mQuit, stores, kernel, active, pc, history>>

\* doTask forgets to lower the flag.
Fault_KeepWakeup ==
    /\ lpc = "swapped"
    /\ lpc' = "run"
    /\ UNCHANGED <<memory, kernel, active, batch, pc, history>>

\* The batch is abandoned as soon as mQuit is seen.
Fault_AbandonBatch ==
    /\ lpc = "run" /\ (batch = <<>> \/ mQuit)
    /\ batch' = <<>>
    /\ lpc' = "check"
    /\ UNCHANGED <<memory, kernel, active, pc, history>>

-----------------------------------------------------------------------------
(* Calls: by any thread, or by the code a callback or a task runs.         *)

\* The push; mMutex must be free (the loop holds it while "swapped") and
\* taking it flushes the caller's store buffer.
QueueInLoop(t, k) ==
    /\ CanCall(t) /\ Fresh(k)
    /\ lpc # "swapped" /\ t \notin stores
    /\ mTasks' = Append(mTasks, k)
    /\ posted' = Append(posted, k)
    /\ pc' = [pc EXCEPT ![t] = "pushed"]
    /\ UNCHANGED <<isWakeup, mQuit, stores, kernel, active, batch, lpc,
                   ran, inlined, quitters>>

\* In the loop thread RunInLoop runs the task at once, ahead of the queue.
RunInline(k) ==
    /\ CanCall(Loop) /\ Fresh(k)
    /\ inlined' = inlined \cup {k}
    /\ UNCHANGED <<memory, kernel, active, batch, lpc, pc,
                   posted, ran, quitters>>

RunInLoop(t, k) == IF t = Loop THEN RunInline(k) ELSE QueueInLoop(t, k)

\* Each thread calls Quit at most once (bound).
Quit(t) ==
    /\ CanCall(t) /\ t \notin stores \cup quitters
    /\ \/ mQuit' = TRUE /\ UNCHANGED stores
       \/ /\ t \in Delaying \ {Loop}
          /\ stores' = stores \cup {t} /\ UNCHANGED mQuit
    /\ pc' = [pc EXCEPT ![t] = "pushed"]
    /\ quitters' = quitters \cup {t}
    /\ UNCHANGED <<mTasks, isWakeup, kernel, active, batch, lpc,
                   posted, ran, inlined>>

\* A delayed store reaches memory.
Drain(t) ==
    /\ t \in stores
    /\ stores' = stores \ {t}
    /\ IF t = Loop THEN isWakeup' = TRUE /\ UNCHANGED mQuit
                   ELSE mQuit' = TRUE /\ UNCHANGED isWakeup
    /\ UNCHANGED <<mTasks, kernel, active, batch, lpc, pc, history>>

\* The unlocked "if(isWakeup == false)" after the push, or after mQuit.
ReadIsWakeup(t) ==
    /\ pc[t] = "pushed"
    /\ pc' = [pc EXCEPT ![t] = IF SeenWakeup(t) THEN "idle" ELSE "waking"]
    /\ UNCHANGED <<memory, kernel, active, batch, lpc, history>>

\* The write to the eventfd: it becomes readable and gets a new edge.
wakeup(t) ==
    /\ pc[t] = "waking" /\ t \notin stores
    /\ counter' = TRUE /\ edge' = TRUE
    /\ pc' = [pc EXCEPT ![t] = "idle"]
    /\ UNCHANGED <<memory, ioReady, active, batch, lpc, history>>

-----------------------------------------------------------------------------
(* The loop thread.                                                        *)

CheckQuit ==
    /\ lpc = "check"
    /\ lpc' = IF mQuit THEN "exited" ELSE "poll"
    /\ UNCHANGED <<memory, kernel, active, batch, pc, history>>

\* epoll_wait returns: every channel on the ready list is taken off it.
Poll ==
    /\ lpc = "poll" /\ Ready # {}
    /\ active' = Ready
    /\ edge' = FALSE /\ ioReady' = FALSE
    /\ lpc' = "mark"
    /\ UNCHANGED <<memory, counter, batch, pc, history>>

\* epoll_wait is interrupted by a signal: Poller::poll only logs it.
PollInterrupted ==
    /\ lpc = "poll"
    /\ lpc' = "mark"
    /\ UNCHANGED <<memory, kernel, active, batch, pc, history>>

MarkWakeup ==
    /\ lpc = "mark"
    /\ \/ isWakeup' = TRUE /\ UNCHANGED stores
       \/ Loop \in Delaying /\ stores' = stores \cup {Loop} /\ UNCHANGED isWakeup
    /\ lpc' = "handle"
    /\ UNCHANGED <<mTasks, mQuit, kernel, active, batch, pc, history>>

\* The wakeup channel's read callback empties the counter.
wakeupRead ==
    /\ lpc = "handle" /\ "wakeup" \in active
    /\ counter' = FALSE
    /\ active' = active \ {"wakeup"}
    /\ UNCHANGED <<memory, edge, ioReady, batch, lpc, pc, history>>

\* Another channel's callback: user code, which may call the loop.
BeginCallback ==
    /\ lpc = "handle" /\ "io" \in active
    /\ active' = active \ {"io"}
    /\ lpc' = "callback"
    /\ UNCHANGED <<memory, kernel, batch, pc, history>>

EndCallback ==
    /\ lpc = "callback" /\ pc[Loop] = "idle"
    /\ lpc' = "handle"
    /\ UNCHANGED <<memory, kernel, active, batch, pc, history>>

\* doTask, under mMutex: first the swap, then the flag.
SwapTasks ==
    /\ lpc = "handle" /\ active = {} /\ Loop \notin stores
    /\ batch' = mTasks /\ mTasks' = <<>>
    /\ lpc' = "swapped"
    /\ UNCHANGED <<isWakeup, mQuit, stores, kernel, active, pc, history>>

ClearWakeup ==
    /\ lpc = "swapped"
    /\ isWakeup' = FALSE
    /\ lpc' = "run"
    /\ UNCHANGED <<mTasks, mQuit, stores, kernel, active, batch, pc, history>>

RunTask ==
    /\ lpc = "run" /\ batch # <<>>
    /\ ran' = Append(ran, Head(batch))
    /\ batch' = Tail(batch)
    /\ lpc' = "task"
    /\ UNCHANGED <<memory, kernel, active, pc,
                   posted, inlined, quitters>>

EndTask ==
    /\ lpc = "task" /\ pc[Loop] = "idle"
    /\ lpc' = "run"
    /\ UNCHANGED <<memory, kernel, active, batch, pc, history>>

EndBatch ==
    /\ lpc = "run" /\ batch = <<>>
    /\ lpc' = "check"
    /\ UNCHANGED <<memory, kernel, active, batch, pc, history>>

-----------------------------------------------------------------------------
\* The environment: data arrives, a timer expires.
IoEvent ==
    /\ ~ioReady
    /\ ioReady' = TRUE
    /\ UNCHANGED <<memory, counter, edge, active, batch, lpc, pc, history>>

CallerStep(t) == Drain(t) \/ ReadIsWakeup(t) \/ wakeup(t)

LoopStep ==
    \/ CheckQuit \/ Poll \/ MarkWakeup \/ wakeupRead
    \/ BeginCallback \/ EndCallback
    \/ SwapTasks \/ ClearWakeup \/ RunTask \/ EndTask \/ EndBatch

Next ==
    \/ \E t \in Callers, k \in Tasks : QueueInLoop(t, k) \/ RunInLoop(t, k)
    \/ \E t \in Callers : Quit(t) \/ CallerStep(t)
    \/ LoopStep \/ PollInterrupted \/ IoEvent

Spec == Init /\ [][Next]_vars

(***************************************************************************)
(* Every started call proceeds and the loop thread is scheduled; callbacks *)
(* and tasks return.  Nothing is assumed of the calls themselves, of       *)
(* signals or of other descriptors.                                        *)
(***************************************************************************)
Fairness ==
    /\ WF_vars(LoopStep)
    /\ \A t \in Callers : WF_vars(Drain(t)) /\ WF_vars(CallerStep(t))

FairSpec == Spec /\ Fairness

-----------------------------------------------------------------------------
(* Properties.                                                             *)

\* Something will make the next epoll_wait return.
WakePending == (counter /\ edge) \/ \E t \in Callers : pc[t] \in {"pushed", "waking"}

\* The loop is never asleep in poll with work queued and no wakeup on its
\* way, although isWakeup is read without the lock (EventLoop.cpp:114).
NoLostTask == lpc = "poll" /\ mTasks # <<>> => WakePending

\* The same of Quit (EventLoop.cpp:121-124): the loop is not asleep in poll
\* once mQuit is set and visible, if no thread that quits delays its store.
NoLostQuit == lpc = "poll" /\ mQuit /\ quitters \cap Delaying = {} => WakePending

\* A write to the eventfd is never lost to edge-triggered polling: while the
\* counter is non-zero, it is on the ready list or about to be read.
NoLostEdge == counter => edge \/ "wakeup" \in active

\* Over all posters, doTask runs what was queued in the order in which it
\* was queued, each task once (EventLoop.cpp:147-158).
QueueOrder == posted = ran \o batch \o mTasks

(***************************************************************************)
(* The inductive invariant behind the four properties above.  Once the     *)
(* loop has taken the queue, isWakeup stays down until poll returns, so a  *)
(* thread that has pushed since then is certain to write the eventfd.      *)
(***************************************************************************)
AfterSwap == lpc \in {"run", "task", "check", "poll", "exited"}

WakeInv ==
    /\ lpc = "swapped" => mTasks = <<>> /\ Loop \notin stores
    /\ AfterSwap => ~isWakeup /\ Loop \notin stores
    /\ AfterSwap /\ mTasks # <<>> => WakePending
    /\ lpc \notin {"mark", "handle", "callback"} => active = {}
    /\ NoLostEdge

OrderInv ==
    /\ lpc \notin {"swapped", "run", "task"} => batch = <<>>
    /\ QueueOrder

\* A delayed store of mQuit is that of a thread that has called Quit.
QuitInv ==
    /\ stores \ {Loop} \subseteq quitters \cap Delaying
    /\ NoLostQuit

IInv == TypeOK /\ WakeInv /\ OrderInv /\ QuitInv

\* Quit ends the loop, if the store of mQuit is seen before isWakeup is read.
QuitEventuallyExits == (quitters \ Delaying # {}) ~> (lpc = "exited")

\* The loop is a serial executor: the tasks still to be begun are the rest
\* of the batch, then the queue; it has stopped when Loop() has returned.
SE == INSTANCE SerialExecutor WITH queue <- batch \o mTasks,
                                   stopped <- (lpc = "exited")

\* Every step of the loop and its callers is a step of the serial executor.
ImplementsSerialExecutor == SE!SESpec

\* A task that was queued is begun, unless the loop ends.
AcceptedIsRun == SE!AcceptedIsRun
=============================================================================
