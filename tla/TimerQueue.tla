------------------------------ MODULE TimerQueue ------------------------------
(***************************************************************************)
(* event/TimerQueue.cpp and Timer.cpp: the timers of an event loop.  The   *)
(* set ordered by expiration and the map by id hold the same timers; one   *)
(* timerfd is to expire no later than the first of them.  Timers are       *)
(* allocated by AddTimer and freed when they have fired or been removed,   *)
(* through raw pointers.                                                   *)
(*                                                                         *)
(* Time is counted in units of the 100 microseconds below which a timerfd  *)
(* is never set.  What other threads ask for is run by the loop between    *)
(* two polls, in order (module EventLoop); a functor that calls the queue  *)
(* on the loop's own thread is one of the calls in the loop.               *)
(***************************************************************************)
EXTENDS Integers, Sequences, FiniteSets, FiniteSetsExt

CONSTANTS Timers, Repeating,   \* timers, named by their ids
          Threads,             \* the threads that are not the loop's
          Interval,            \* of a repeating timer
          Null,                \* a null pointer
          None,                \* no pointer, no key
          Horizon, MaxTasks    \* bounds: on the clock, on the calls under way

ASSUME RepeatingAssumption == Repeating \subseteq Timers
ASSUME IntervalAssumption == Interval \in Nat \ {0}
ASSUME HorizonAssumption == Horizon \in Nat /\ MaxTasks \in Nat
ASSUME NoneAssumption ==
    Null \notin Timers /\ None \notin Timers \cup Nat /\ Null # None

VARIABLES
    now,
    heap,         \* of each timer: fresh, live, freed
    mExpired,     \* of each timer, while it is live
    mTimerSet,    \* pairs <<expiration, timer>>
    mTimerIdMap,  \* of each id: None without a key, else the pointer stored
    alarm,        \* when the timerfd expires, or None
    ready,        \* the timerfd has expired and epoll_wait will say so
    pc,           \* of the loop: idle, event (returned by epoll_wait), firing
    expiredTimer, \* in handleRead, the pairs still to be run
    running,      \* the timer whose callback is running, or None
    mTasks,       \* what the other threads have queued in the loop
    caller,       \* of each other thread: the call it is inside of
    failed        \* an assertion, a null or a dangling pointer: the end

vars == <<now, heap, mExpired, mTimerSet, mTimerIdMap, alarm, ready, pc,
          expiredTimer, running, mTasks, caller, failed>>
queue == <<heap, mExpired, mTimerSet, mTimerIdMap, alarm, ready>>
loop == <<pc, expiredTimer, running>>

Times == 0 .. Horizon + Interval + 1
Idle == [op |-> "idle"]
Task == [op : {"insert", "delete"}, timer : Timers \cup {Null}]
          \cup [op : {"reset"}, timer : Timers, ts : Times]

TypeOK ==
    /\ now \in 0 .. Horizon + 1 /\ alarm \in Times \cup {None}
    /\ heap \in [Timers -> {"fresh", "live", "freed"}]
    /\ mExpired \in [Timers -> Times]
    /\ mTimerSet \subseteq Times \X Timers /\ expiredTimer \subseteq Times \X Timers
    /\ mTimerIdMap \in [Timers -> Timers \cup {Null, None}]
    /\ ready \in BOOLEAN /\ failed \in BOOLEAN
    /\ pc \in {"idle", "event", "firing"}
    /\ running \in Timers \cup {None}
    /\ mTasks \in Seq(Task)
    /\ caller \in [Threads -> {Idle} \cup [op : {"adding", "removing"}, timer : Timers]]

Init ==
    /\ now = 0 /\ alarm = None /\ ready = FALSE
    /\ heap = [t \in Timers |-> "fresh"] /\ mExpired = [t \in Timers |-> 0]
    /\ mTimerSet = {} /\ mTimerIdMap = [t \in Timers |-> None]
    /\ pc = "idle" /\ expiredTimer = {} /\ running = None
    /\ mTasks = <<>> /\ caller = [th \in Threads |-> Idle]
    /\ failed = FALSE

-----------------------------------------------------------------------------
(* Helpers.                                                                *)

\* The pairs that may come first: those of one expiration are ordered by the
\* addresses of their timers.
Firsts(S) == {e \in S : \A f \in S : e[1] <= f[1]}

\* The expiration at the head of the set.  Of an empty set the code reads
\* what follows the tree's header, its size: 0.
Earliest(S) == IF S = {} THEN 0 ELSE Min({e[1] : e \in S})

\* Faults: a pair is looked up under the present time; operator[] adds no key;
\* a timer is not freed; a timerfd set to the past is disarmed.
Fault_Pair(t) == <<now, t>>
Fault_Stored(t) == mTimerIdMap[t]
Fault_Free(t) == UNCHANGED heap
Fault_resetTimerfd(ts) ==
    alarm' = (IF ts > now THEN ts ELSE None) /\ ready' = FALSE

\* What the set holds of a timer, and operator[] of the map.
Pair(t) == <<mExpired[t], t>>
Stored(t) == IF mTimerIdMap[t] = None THEN Null ELSE mTimerIdMap[t]

Free(t) == heap' = [heap EXCEPT ![t] = "freed"]

\* resetTimerfd: never less than a unit from now; an expiration that was not
\* seen yet is forgotten.
resetTimerfd(ts) ==
    /\ alarm' = IF ts > now THEN ts ELSE now + 1
    /\ ready' = FALSE

SameTimerfd == UNCHANGED <<alarm, ready>>

\* Fault: the head is looked at before the set changes.
Fault_AdjustTimerfd(S, t, ts) ==
    IF \E e \in Firsts(mTimerSet) : e[2] = t THEN resetTimerfd(ts) ELSE SameTimerfd

\* If the timer t may be the head of the set, the timerfd is set to ts.
AdjustTimerfd(S, t, ts) ==
    \E e \in Firsts(S) : IF e[2] = t THEN resetTimerfd(ts) ELSE SameTimerfd

\* The assertions: an id is not in the map yet; the set and the map have the
\* same size.
Assert(b) == failed' = ~b
Absent(t) == mTimerIdMap[t] = None
SameSizes == Cardinality(mTimerSet') = Cardinality({t \in Timers : mTimerIdMap'[t] # None})

Crash == failed' = TRUE /\ UNCHANGED queue

insert(t, ts) ==
    LET S == mTimerSet \cup {<<ts, t>>} IN
    /\ mTimerSet' = S
    /\ mTimerIdMap' = [mTimerIdMap EXCEPT ![t] = t]
    /\ AdjustTimerfd(S, t, ts)
    /\ Assert(Absent(t) /\ SameSizes)

Usable(p) == p \in Timers /\ heap[p] = "live"

deleteTimer(p) ==
    \/ Usable(p)
       /\ LET S == mTimerSet \ {Pair(p)} IN
          /\ mTimerSet' = S
          /\ AdjustTimerfd(mTimerSet, p, Earliest(S))
       /\ mTimerIdMap' = [mTimerIdMap EXCEPT ![p] = None]
       /\ Free(p)
       /\ Assert(SameSizes)
       /\ UNCHANGED mExpired
    \/ ~Usable(p) /\ Crash

resetTimer(t, ts) ==
    \/ mTimerIdMap[t] = None /\ UNCHANGED <<queue, failed>>
    \/ mTimerIdMap[t] = Null /\ Crash
    \/ /\ mTimerIdMap[t] = t
       /\ LET S == (mTimerSet \ {Pair(t)}) \cup {<<ts, t>>} IN
          /\ mTimerSet' = S
          /\ AdjustTimerfd(S, t, ts)
       /\ mExpired' = [mExpired EXCEPT ![t] = ts]
       /\ UNCHANGED <<heap, mTimerIdMap>>
       /\ Assert(SameSizes)

-----------------------------------------------------------------------------
(* Calls on the loop's thread: in a timer's callback, in another channel's *)
(* handler, in a functor.                                                  *)

Open == now < Horizon    \* bound: no call is made after that

InLoop == Open /\ (pc = "firing" => running # None)

\* AddTimer has returned the id.
Known(t) ==
    heap[t] # "fresh" /\ \A th \in Threads : caller[th] # [op |-> "adding", timer |-> t]

Allocate(t, ts) ==
    /\ heap[t] = "fresh"
    /\ heap' = [heap EXCEPT ![t] = "live"]
    /\ mExpired' = [mExpired EXCEPT ![t] = ts]

AddTimer(t, ts) ==
    /\ InLoop
    /\ Allocate(t, ts) /\ insert(t, ts)
    /\ UNCHANGED <<now, loop, mTasks, caller>>

Remove(t) ==
    /\ InLoop /\ Known(t)
    /\ \/ mTimerIdMap[t] = None /\ UNCHANGED <<queue, failed>>
       \/ mTimerIdMap[t] # None /\ deleteTimer(mTimerIdMap[t])
    /\ UNCHANGED <<now, loop, mTasks, caller>>

ResetTimer(t, ts) ==
    /\ InLoop /\ Known(t)
    /\ resetTimer(t, ts)
    /\ UNCHANGED <<now, loop, mTasks, caller>>

-----------------------------------------------------------------------------
(* Calls on another thread.                                                *)

CanCall(th) == Open /\ caller[th] = Idle /\ Len(mTasks) < MaxTasks

Post(task) == mTasks' = Append(mTasks, task)

ThreadAddTimer(th, t, ts) ==
    /\ CanCall(th)
    /\ Allocate(t, ts)
    /\ Post([op |-> "insert", timer |-> t])
    /\ caller' = [caller EXCEPT ![th] = [op |-> "adding", timer |-> t]]
    /\ UNCHANGED <<now, mTimerSet, mTimerIdMap, alarm, ready, loop, failed>>

\* AddTimer ends with a read of the timer it no longer owns.
ThreadGetTimerId(th) ==
    /\ caller[th].op = "adding"
    /\ caller' = [caller EXCEPT ![th] = Idle]
    /\ failed' = (heap[caller[th].timer] # "live")
    /\ UNCHANGED <<now, queue, loop, mTasks>>

\* Remove looks the id up in the map of the loop...
ThreadFind(th, t) ==
    /\ CanCall(th) /\ Known(t) /\ mTimerIdMap[t] # None
    /\ caller' = [caller EXCEPT ![th] = [op |-> "removing", timer |-> t]]
    /\ UNCHANGED <<now, queue, loop, mTasks, failed>>

\* ...and then once more, with operator[], which adds a missing key.
ThreadRemove(th) ==
    /\ caller[th].op = "removing"
    /\ LET t == caller[th].timer IN
       /\ mTimerIdMap' = [mTimerIdMap EXCEPT ![t] = Stored(t)]
       /\ Post([op |-> "delete", timer |-> Stored(t)])
    /\ caller' = [caller EXCEPT ![th] = Idle]
    /\ UNCHANGED <<now, heap, mExpired, mTimerSet, alarm, ready, loop, failed>>

ThreadResetTimer(th, t, ts) ==
    /\ CanCall(th) /\ Known(t)
    /\ Post([op |-> "reset", timer |-> t, ts |-> ts])
    /\ UNCHANGED <<now, queue, loop, caller, failed>>

-----------------------------------------------------------------------------
(* The loop.                                                               *)

RunTask ==
    /\ pc = "idle" /\ mTasks # <<>>
    /\ mTasks' = Tail(mTasks)
    /\ LET task == Head(mTasks) IN
       \/ /\ task.op = "insert"
          /\ insert(task.timer, mExpired[task.timer])
          /\ UNCHANGED <<heap, mExpired>>
       \/ task.op = "delete" /\ deleteTimer(task.timer)
       \/ task.op = "reset" /\ resetTimer(task.timer, task.ts)
    /\ UNCHANGED <<now, loop, caller>>

Poll ==
    /\ pc = "idle" /\ ready
    /\ pc' = "event" /\ ready' = FALSE
    /\ UNCHANGED <<now, heap, mExpired, mTimerSet, mTimerIdMap, alarm,
                   expiredTimer, running, mTasks, caller, failed>>

\* Fault: the bound of the search is one too late.
Fault_Due == {e \in mTimerSet : e[1] <= now + 1}

Due == {e \in mTimerSet : e[1] <= now}

findExpiredTimer ==
    /\ pc = "event"
    /\ expiredTimer' = Due
    /\ mTimerSet' = mTimerSet \ Due
    /\ mTimerIdMap' = [t \in Timers |->
                         IF \E e \in Due : e[2] = t THEN None ELSE mTimerIdMap[t]]
    /\ Assert(SameSizes)
    /\ pc' = "firing"
    /\ UNCHANGED <<now, heap, mExpired, alarm, ready, running, mTasks, caller>>

RunTimer ==
    /\ pc = "firing" /\ running = None
    /\ \E e \in Firsts(expiredTimer) :
         /\ expiredTimer' = expiredTimer \ {e}
         /\ running' = e[2]
    /\ UNCHANGED <<now, queue, pc, mTasks, caller, failed>>

\* The callback has returned: a repeating timer starts over, another is freed.
EndTimer ==
    /\ running # None
    /\ running' = None
    /\ LET ts == now + Interval IN
       \/ /\ running \in Repeating
          /\ mExpired' = [mExpired EXCEPT ![running] = ts]
          /\ mTimerSet' = mTimerSet \cup {<<ts, running>>}
          /\ mTimerIdMap' = [mTimerIdMap EXCEPT ![running] = running]
          /\ UNCHANGED heap
       \/ /\ running \notin Repeating
          /\ Free(running)
          /\ UNCHANGED <<mExpired, mTimerSet, mTimerIdMap>>
    /\ UNCHANGED <<now, alarm, ready, pc, expiredTimer, mTasks, caller, failed>>

EndHandleRead ==
    /\ pc = "firing" /\ running = None /\ expiredTimer = {}
    /\ pc' = "idle"
    /\ resetTimerfd(Earliest(mTimerSet))
    /\ UNCHANGED <<now, heap, mExpired, mTimerSet, mTimerIdMap, expiredTimer,
                   running, mTasks, caller>>
    /\ Assert(SameSizes)

\* Bound: at the horizon the clock waits for all that is under way.
Quiet ==
    pc = "idle" /\ ~ready /\ mTasks = <<>> /\ \A th \in Threads : caller[th] = Idle

Tick ==
    /\ now <= Horizon /\ (now = Horizon => Quiet)
    /\ now' = now + 1
    /\ ready' = (ready \/ alarm = now + 1)
    /\ alarm' = IF alarm = now + 1 THEN None ELSE alarm
    /\ UNCHANGED <<heap, mExpired, mTimerSet, mTimerIdMap, loop, mTasks, caller,
                   failed>>

-----------------------------------------------------------------------------
Calls ==
    \E t \in Timers :
      \/ Remove(t)
      \/ \E ts \in 0 .. Horizon : AddTimer(t, ts) \/ ResetTimer(t, ts)
      \/ \E th \in Threads :
           \/ ThreadFind(th, t)
           \/ \E ts \in 0 .. Horizon :
                ThreadAddTimer(th, t, ts) \/ ThreadResetTimer(th, t, ts)

ThreadStep(th) == ThreadGetTimerId(th) \/ ThreadRemove(th)

LoopStep ==
    RunTask \/ Poll \/ findExpiredTimer \/ RunTimer \/ EndTimer \/ EndHandleRead

Next ==
    /\ ~failed
    /\ Calls \/ (\E th \in Threads : ThreadStep(th)) \/ LoopStep \/ Tick

Spec == Init /\ [][Next]_vars

\* Time passes, threads are scheduled, callbacks return, and the loop goes
\* on polling.  Nobody has to call the queue.
FairSpec ==
    /\ Spec
    /\ WF_vars(~failed /\ Tick)
    /\ WF_vars(~failed /\ Poll)
    /\ WF_vars(~failed /\ (RunTask \/ findExpiredTimer \/ RunTimer \/ EndTimer \/ EndHandleRead))
    /\ \A th \in Threads : WF_vars(~failed /\ ThreadStep(th))

-----------------------------------------------------------------------------
(* Properties.                                                             *)

Queued == {e[2] : e \in mTimerSet}
Expired == {e[2] : e \in expiredTimer} \cup ({running} \ {None})
Inserting == {mTasks[i].timer : i \in {j \in DOMAIN mTasks : mTasks[j].op = "insert"}}

\* TimerQueue.h:65-67 and the assertions of TimerQueue.cpp: the set and the
\* map hold the same timers, each once, under its own expiration, although
\* timers are added, removed and reset in the middle of handleRead.
SetAndMapAgree ==
    /\ \A e \in mTimerSet : e = Pair(e[2])
    /\ Queued = {t \in Timers : mTimerIdMap[t] = t}

\* TimerQueue.h:25-26: every timer allocated is owned by exactly one of the
\* set, handleRead, or a functor on its way to insert it, and none of these has
\* a freed timer: none leaks, and none is freed by one of them while another
\* has it.  What a stale pointer of another thread frees twice ends in failed.
OneOwner ==
    /\ {t \in Timers : heap[t] = "live"} = Queued \cup Expired \cup Inserting
    /\ Queued \cap Expired = {} /\ Queued \cap Inserting = {}
    /\ Expired \cap Inserting = {}

\* handleRead runs no timer before its time, even one reset in a callback of
\* the same batch.
NeverEarly == \A t \in Expired : mExpired[t] <= now

\* TimerQueue.cpp:80-82, 115-118, 134-137, 154-156: between two events the
\* timerfd expires in time for every timer, although it is set only when the
\* head of the set changes, and setting it forgets what was pending.
ArmedInTime ==
    pc = "idle" /\ ~ready =>
      \A e \in mTimerSet : alarm # None /\ (alarm <= e[1] \/ alarm = now + 1)

(***************************************************************************)
(* The inductive invariant behind all of these.  A timer on its way to     *)
(* the set is on it once, and neither the map nor a queued or begun Remove *)
(* knows it yet; handleRead has each of its timers once; no pointer of the *)
(* map is to another timer; and the timerfd expires in the future.         *)
(***************************************************************************)
TaskInv ==
    \A i \in DOMAIN mTasks : LET task == mTasks[i] IN
        /\ task.op = "insert" =>
              /\ task.timer \in Timers
              /\ \A j \in DOMAIN mTasks :
                    mTasks[j].op = "insert" /\ mTasks[j].timer = task.timer => i = j
        /\ task.op = "delete" /\ task.timer # Null =>
              heap[task.timer] # "fresh" /\ task.timer \notin Inserting

NewInv ==
    /\ \A t \in Timers : heap[t] = "fresh" \/ t \in Inserting => Absent(t)
    /\ \A th \in Threads : caller[th].op = "removing" =>
          heap[caller[th].timer] # "fresh" /\ caller[th].timer \notin Inserting

BatchInv ==
    /\ pc # "firing" => expiredTimer = {} /\ running = None
    /\ \A e \in expiredTimer : e = Pair(e[2]) /\ e[2] # running

MapInv == \A t \in Timers : mTimerIdMap[t] \in {t, Null, None}

AlarmInv == alarm # None => alarm > now

IInv ==
    /\ TypeOK /\ TaskInv /\ NewInv /\ BatchInv /\ MapInv /\ AlarmInv
    /\ SetAndMapAgree /\ OneOwner /\ NeverEarly /\ ArmedInTime

\* A timer leaves the queue at its time: it is run, or removed or reset first.
EveryTimerExpires ==
    \A t \in Timers : \A ts \in 0 .. Horizon :
      (<<ts, t>> \in mTimerSet) ~> (<<ts, t>> \notin mTimerSet \/ failed)
=============================================================================
