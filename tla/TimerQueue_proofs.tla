--------------------------- MODULE TimerQueue_proofs ---------------------------
(***************************************************************************)
(* Proofs about TimerQueue: types, the agreement of the set and the map,   *)
(* the ownership of timers, and the timerfd, for any timers, threads,      *)
(* interval and bounds.                                                    *)
(***************************************************************************)
EXTENDS TimerQueue, WellFoundedInduction, FiniteSetTheorems, TLAPS

Pairs == Times \X Timers

(***************************************************************************)
(* Helpers.                                                                *)
(***************************************************************************)

\* A set of pairs that is not empty has a first one, whose expiration is that
\* at the head.
LEMMA HeadOfSet ==
    ASSUME NEW S \in SUBSET Pairs
    PROVE /\ Earliest(S) \in Times
          /\ \A f \in S : Earliest(S) <= f[1]
<1>1. CASE S = {}
  BY <1>1, HorizonAssumption, IntervalAssumption DEF Earliest, Times
<1>2. CASE S # {}
  <2> DEFINE T == {e[1] : e \in S}
  <2>1. T # {} /\ T \subseteq Times /\ Times \subseteq Nat
    BY <1>2 DEF Pairs, Times
  <2>2. PICK x \in T : \A y \in T : x <= y
    <3> DEFINE R == {ss \in Nat \X Nat : ss[1] < ss[2]}
    <3>1. IsWellFoundedOn(R, Nat) BY NatLessThanWellFounded DEF OpToRel
    <3>2. \A x \in Nat, y \in Nat : <<y, x>> \notin R => x <= y OBVIOUS
    <3> HIDE DEF T, R
    <3>3. PICK x \in T : \A y \in T : <<y, x>> \notin R
      BY <2>1, <3>1, WFMin
    <3> QED BY <2>1, <3>2, <3>3
  <2>4. Min(T) \in T /\ \A y \in T : Min(T) <= y
    <3> HIDE DEF T
    <3> QED BY <2>2 DEF Min
  <2>5. Earliest(S) = Min(T) BY <1>2 DEF Earliest
  <2> QED BY <2>1, <2>4, <2>5
<1> QED BY <1>1, <1>2

\* Queueing a task, and taking the oldest.
LEMMA PostedTask ==
    ASSUME mTasks \in Seq(Task), NEW task \in Task, Post(task)
    PROVE /\ mTasks' \in Seq(Task) /\ Len(mTasks') = Len(mTasks) + 1
          /\ DOMAIN mTasks' = DOMAIN mTasks \cup {Len(mTasks) + 1}
          /\ \A i \in DOMAIN mTasks : mTasks'[i] = mTasks[i]
          /\ mTasks'[Len(mTasks) + 1] = task
          /\ Inserting' = Inserting \cup (IF task.op = "insert" THEN {task.timer} ELSE {})
<1>1. /\ mTasks' \in Seq(Task) /\ Len(mTasks') = Len(mTasks) + 1
      /\ DOMAIN mTasks' = DOMAIN mTasks \cup {Len(mTasks) + 1}
      /\ \A i \in DOMAIN mTasks : mTasks'[i] = mTasks[i]
      /\ mTasks'[Len(mTasks) + 1] = task
  BY DEF Post
<1>2. Inserting' = Inserting \cup (IF task.op = "insert" THEN {task.timer} ELSE {})
  BY <1>1 DEF Inserting
<1> QED BY <1>1, <1>2

\* Taking the oldest task leaves the others, in their order.
LEMMA TakenTask ==
    ASSUME mTasks \in Seq(Task), mTasks # <<>>, mTasks' = Tail(mTasks), TaskInv
    PROVE /\ Head(mTasks) \in Task /\ mTasks' \in Seq(Task)
          /\ Head(mTasks) = mTasks[1] /\ 1 \in DOMAIN mTasks
          /\ \A i \in DOMAIN mTasks' : i + 1 \in DOMAIN mTasks /\ i + 1 # 1
                                        /\ mTasks'[i] = mTasks[i + 1]
          /\ Inserting' = IF mTasks[1].op = "insert" THEN Inserting \ {mTasks[1].timer}
                                                     ELSE Inserting
<1>1. /\ Head(mTasks) \in Task /\ mTasks' \in Seq(Task)
      /\ Head(mTasks) = mTasks[1] /\ 1 \in DOMAIN mTasks
      /\ \A i \in DOMAIN mTasks' : i + 1 \in DOMAIN mTasks /\ i + 1 # 1
                                    /\ mTasks'[i] = mTasks[i + 1]
      /\ \A i \in DOMAIN mTasks : i # 1 => i - 1 \in DOMAIN mTasks' /\ (i - 1) + 1 = i
  OBVIOUS
<1>2. ASSUME NEW t PROVE t \in Inserting' <=>
          \E i \in DOMAIN mTasks : i # 1 /\ mTasks[i].op = "insert" /\ mTasks[i].timer = t
  BY <1>1 DEF Inserting
<1>3. ASSUME NEW t PROVE t \in Inserting <=>
          \E i \in DOMAIN mTasks : mTasks[i].op = "insert" /\ mTasks[i].timer = t
  BY DEF Inserting
<1>4. \A i \in DOMAIN mTasks :
         mTasks[i].op = "insert" /\ mTasks[1].op = "insert"
         /\ mTasks[i].timer = mTasks[1].timer => i = 1
  BY <1>1 DEF TaskInv
<1>5. \A t : t \in Inserting' <=>
          t \in Inserting /\ ~(mTasks[1].op = "insert" /\ mTasks[1].timer = t)
  BY <1>1, <1>2, <1>3, <1>4
<1>6. Inserting' = IF mTasks[1].op = "insert" THEN Inserting \ {mTasks[1].timer}
                                              ELSE Inserting
  BY <1>5
<1> QED BY <1>1, <1>6

-----------------------------------------------------------------------------
(* The timerfd.                                                            *)

\* Times are natural numbers, and what the queue adds to the clock stays a time.
LEMMA TimesAreNumbers ==
    /\ Times \subseteq Nat /\ None \notin Times
    /\ \A n \in Times : n <= Horizon + 1 => n + 1 \in Times /\ n + Interval \in Times
    /\ 0 .. Horizon \subseteq Times
BY HorizonAssumption, IntervalAssumption, NoneAssumption DEF Times

\* A timerfd that is set expires in the future, and in time for all that is
\* due at ts or later.
LEMMA TimerfdIsSet ==
    ASSUME now \in 0 .. Horizon + 1, NEW ts \in Times, resetTimerfd(ts), now' = now
    PROVE /\ alarm' \in Times \cup {None} /\ ready' = FALSE /\ AlarmInv'
          /\ alarm' # None
          /\ \A x \in Times : ts <= x => alarm' <= x \/ alarm' = now' + 1
BY TimesAreNumbers, HorizonAssumption, IntervalAssumption DEF resetTimerfd, AlarmInv, Times

\* To look at the head of S only is enough for a set R whose pairs are not
\* before that head.
LEMMA HeadIsEnough ==
    ASSUME TypeOK, AlarmInv, ArmedInTime, UNCHANGED <<now, pc>>,
           NEW S \in SUBSET Pairs, NEW R \in SUBSET Pairs, NEW t, NEW ts \in Times,
           mTimerSet' = R, AdjustTimerfd(S, t, ts),
           \A e \in Firsts(S) : e[2] = t => \A f \in R : ts <= f[1],
           \A e \in Firsts(S) : e[2] # t =>
              e \in mTimerSet /\ \A f \in R : e[1] <= f[1]
    PROVE /\ alarm' \in Times \cup {None} /\ ready' \in BOOLEAN
          /\ AlarmInv' /\ ArmedInTime'
<1>1. PICK e \in Firsts(S) : IF e[2] = t THEN resetTimerfd(ts) ELSE SameTimerfd
  BY DEF AdjustTimerfd
<1>2. e \in Pairs /\ now \in 0 .. Horizon + 1 BY <1>1 DEF Firsts, TypeOK
<1>3. CASE e[2] = t
  <2>1. resetTimerfd(ts) /\ \A f \in R : ts <= f[1] /\ f[1] \in Times
    BY <1>1, <1>3 DEF Pairs
  <2> QED BY <1>2, <2>1, TimerfdIsSet DEF ArmedInTime
<1>4. CASE e[2] # t
  <2>1. UNCHANGED <<alarm, ready>> BY <1>1, <1>4 DEF SameTimerfd
  <2>2. \A f \in R : e[1] <= f[1] /\ f[1] \in Nat
    BY <1>1, <1>4, TimesAreNumbers DEF Pairs
  <2>3. ASSUME pc' = "idle", ~ready', NEW f \in R
        PROVE alarm' # None /\ (alarm' <= f[1] \/ alarm' = now' + 1)
    <3>1. alarm # None /\ (alarm <= e[1] \/ alarm = now + 1)
      BY <1>1, <1>4, <2>1, <2>3 DEF ArmedInTime
    <3>2. alarm \in Nat /\ e[1] \in Nat
      BY <3>1, <1>2, TimesAreNumbers DEF TypeOK, Pairs
    <3> QED BY <2>1, <2>2, <3>1, <3>2
  <2>4. alarm \in Times \cup {None} /\ ready \in BOOLEAN BY DEF TypeOK
  <2> QED BY <2>1, <2>3, <2>4 DEF ArmedInTime, AlarmInv
<1> QED BY <1>3, <1>4

-----------------------------------------------------------------------------
(* insert, deleteTimer and resetTimer.                                     *)

\* insert of a timer that is not in the set puts it into both containers and
\* leaves the timerfd in time.
LEMMA InsertTimer ==
    ASSUME TypeOK, AlarmInv, ArmedInTime, UNCHANGED <<now, pc>>,
           NEW t \in Timers, NEW ts \in Times, t \notin Queued, insert(t, ts)
    PROVE /\ mTimerSet' = mTimerSet \cup {<<ts, t>>} /\ mTimerSet' \in SUBSET Pairs
          /\ Queued' = Queued \cup {t}
          /\ mTimerIdMap' = [mTimerIdMap EXCEPT ![t] = t]
          /\ failed' \in BOOLEAN
          /\ alarm' \in Times \cup {None} /\ ready' \in BOOLEAN
          /\ AlarmInv' /\ ArmedInTime'
<1> DEFINE S == mTimerSet \cup {<<ts, t>>}
<1>1. S \in SUBSET Pairs BY DEF TypeOK, Pairs
<1>2. mTimerSet' = S /\ AdjustTimerfd(S, t, ts) BY DEF insert
<1>3. \A e \in S : IF e[2] = t THEN e[1] = ts ELSE e \in mTimerSet
  BY DEF Queued
<1>4. \A e \in Firsts(S) : e \in S /\ \A f \in S : e[1] <= f[1] BY DEF Firsts
<1>5. alarm' \in Times \cup {None} /\ ready' \in BOOLEAN /\ AlarmInv' /\ ArmedInTime'
  <2> HIDE DEF S
  <2> QED BY <1>1, <1>2, <1>3, <1>4, HeadIsEnough
<1>6. Queued' = Queued \cup {t}
  <2>1. Queued' = {e[2] : e \in S} BY <1>2 DEF Queued
  <2>2. ASSUME NEW u PROVE u \in {e[2] : e \in S} <=> u \in Queued \/ u = t
    <3>1. <<ts, t>> \in S /\ <<ts, t>>[2] = t OBVIOUS
    <3>2. \A e \in S : e \in mTimerSet \/ e[2] = t OBVIOUS
    <3> QED BY <3>1, <3>2 DEF Queued
  <2> QED BY <2>1, <2>2
<1> QED BY <1>1, <1>2, <1>5, <1>6 DEF insert, Assert

\* deleteTimer of a timer in the set takes it from both containers, frees it and
\* leaves the timerfd in time.
LEMMA DeleteTimer ==
    ASSUME TypeOK, AlarmInv, ArmedInTime, SetAndMapAgree, UNCHANGED <<now, pc>>,
           NEW p \in Timers, Usable(p), p \in Queued, deleteTimer(p)
    PROVE /\ mTimerSet' = mTimerSet \ {Pair(p)} /\ mTimerSet' \in SUBSET Pairs
          /\ Queued' = Queued \ {p}
          /\ mTimerIdMap' = [mTimerIdMap EXCEPT ![p] = None]
          /\ heap' = [heap EXCEPT ![p] = "freed"] /\ mExpired' = mExpired
          /\ failed' \in BOOLEAN
          /\ alarm' \in Times \cup {None} /\ ready' \in BOOLEAN
          /\ AlarmInv' /\ ArmedInTime'
<1> DEFINE S == mTimerSet \ {Pair(p)}
<1>1. mTimerSet \in SUBSET Pairs /\ S \in SUBSET Pairs BY DEF TypeOK, Pairs
<1>2. /\ mTimerSet' = S /\ AdjustTimerfd(mTimerSet, p, Earliest(S))
      /\ mTimerIdMap' = [mTimerIdMap EXCEPT ![p] = None]
      /\ heap' = [heap EXCEPT ![p] = "freed"] /\ mExpired' = mExpired
      /\ failed' \in BOOLEAN
  BY DEF deleteTimer, Free, Assert
<1>3. Earliest(S) \in Times /\ \A f \in S : Earliest(S) <= f[1]
  BY <1>1, HeadOfSet
<1>4. \A e \in Firsts(mTimerSet) : e \in mTimerSet /\ \A f \in S : e[1] <= f[1]
  BY DEF Firsts
<1>5. alarm' \in Times \cup {None} /\ ready' \in BOOLEAN /\ AlarmInv' /\ ArmedInTime'
  <2> HIDE DEF S
  <2> QED BY <1>1, <1>2, <1>3, <1>4, HeadIsEnough
<1>6. Queued' = Queued \ {p}
  BY <1>2 DEF Queued, SetAndMapAgree, Pair
<1> QED BY <1>1, <1>2, <1>5, <1>6

\* resetTimer of a timer in the map moves it in the set, leaves the map and the
\* heap alone and the timerfd in time.
LEMMA MoveTimer ==
    ASSUME TypeOK, AlarmInv, ArmedInTime, SetAndMapAgree, UNCHANGED <<now, pc>>,
           NEW t \in Timers, NEW ts \in Times, mTimerIdMap[t] = t, resetTimer(t, ts)
    PROVE /\ mTimerSet' = (mTimerSet \ {Pair(t)}) \cup {<<ts, t>>}
          /\ mTimerSet' \in SUBSET Pairs
          /\ t \in Queued /\ Queued' = Queued
          /\ UNCHANGED <<heap, mTimerIdMap>>
          /\ mExpired' = [mExpired EXCEPT ![t] = ts]
          /\ failed' \in BOOLEAN
          /\ alarm' \in Times \cup {None} /\ ready' \in BOOLEAN
          /\ AlarmInv' /\ ArmedInTime'
<1> DEFINE S == (mTimerSet \ {Pair(t)}) \cup {<<ts, t>>}
<1>1. S \in SUBSET Pairs BY DEF TypeOK, Pairs
<1>2. /\ mTimerSet' = S /\ AdjustTimerfd(S, t, ts)
      /\ UNCHANGED <<heap, mTimerIdMap>>
      /\ mExpired' = [mExpired EXCEPT ![t] = ts]
      /\ failed' \in BOOLEAN
  BY NoneAssumption DEF resetTimer, Assert
<1>3. \A e \in S : IF e[2] = t THEN e[1] = ts ELSE e \in mTimerSet
  BY DEF SetAndMapAgree
<1>4. \A e \in Firsts(S) : e \in S /\ \A f \in S : e[1] <= f[1] BY DEF Firsts
<1>5. alarm' \in Times \cup {None} /\ ready' \in BOOLEAN /\ AlarmInv' /\ ArmedInTime'
  <2>1. \A e \in Firsts(S) : e[2] = t => \A f \in S : ts <= f[1]
    BY <1>3, <1>4
  <2>2. \A e \in Firsts(S) : e[2] # t => e \in mTimerSet /\ \A f \in S : e[1] <= f[1]
    BY <1>3, <1>4
  <2> HIDE DEF S
  <2> QED BY <1>1, <1>2, <2>1, <2>2, HeadIsEnough
<1>6. t \in Queued BY DEF SetAndMapAgree
<1>7. Queued' = Queued
  <2>1. Queued' = {e[2] : e \in S} BY <1>2 DEF Queued
  <2>2. ASSUME NEW u PROVE u \in {e[2] : e \in S} <=> u \in Queued
    <3>1. CASE u = t
      <4>1. <<ts, t>> \in S /\ <<ts, t>>[2] = t OBVIOUS
      <4> QED BY <1>6, <3>1, <4>1
    <3>2. CASE u # t BY <3>2 DEF Queued, Pair
    <3> QED BY <3>1, <3>2
  <2> QED BY <2>1, <2>2
<1> QED BY <1>1, <1>2, <1>5, <1>6, <1>7

-----------------------------------------------------------------------------
(* The invariant.                                                          *)

\* The invariant holds of an empty queue.
LEMMA InitIInv == Init => IInv
<1> SUFFICES ASSUME Init PROVE IInv OBVIOUS
<1> USE DEF Init
<1>1. Inserting = {} /\ Queued = {} /\ Expired = {}
  <2>1. DOMAIN mTasks = {} OBVIOUS
  <2> QED BY <2>1 DEF Inserting, Queued, Expired
<1>2. TypeOK
  <2>1. 0 \in Times /\ 0 \in 0 .. Horizon + 1
    BY HorizonAssumption, IntervalAssumption DEF Times
  <2>2. mExpired \in [Timers -> Times] /\ mTasks \in Seq(Task) BY <2>1
  <2> QED BY <2>1, <2>2 DEF TypeOK
<1>3. TaskInv /\ NewInv /\ BatchInv /\ MapInv /\ AlarmInv
  BY <1>1 DEF TaskInv, NewInv, BatchInv, MapInv, AlarmInv, Absent, Idle
<1>4. SetAndMapAgree /\ OneOwner /\ NeverEarly /\ ArmedInTime
  BY <1>1, NoneAssumption DEF SetAndMapAgree, OneOwner, NeverEarly, ArmedInTime
<1> QED BY <1>2, <1>3, <1>4 DEF IInv

\* Where a timer is, told from the parts of the invariant.
LEMMA Places ==
    ASSUME IInv
    PROVE /\ Queued \subseteq Timers /\ Expired \subseteq Timers
          /\ Inserting \subseteq Timers
          /\ \A t \in Queued : heap[t] = "live" /\ mTimerIdMap[t] = t
          /\ \A t \in Expired : heap[t] = "live" /\ mTimerIdMap[t] \in {Null, None}
          /\ \A t \in Inserting : heap[t] = "live" /\ mTimerIdMap[t] = None
          /\ \A t \in Timers : heap[t] = "fresh" => mTimerIdMap[t] = None
          /\ \A e \in expiredTimer : e[2] \in Expired
          /\ running # None => running \in Expired
<1>1. \A t \in Queued \cup Expired \cup Inserting : t \in Timers /\ heap[t] = "live"
  BY DEF IInv, OneOwner
<1>2. \A t \in Queued : mTimerIdMap[t] = t BY DEF IInv, SetAndMapAgree
<1>3. \A t \in Expired : mTimerIdMap[t] \in {Null, None}
  BY <1>1 DEF IInv, SetAndMapAgree, OneOwner, MapInv
<1>4. \A t \in Inserting : mTimerIdMap[t] = None
  BY <1>1 DEF IInv, NewInv, Absent
<1>5. \A t \in Timers : heap[t] = "fresh" => mTimerIdMap[t] = None
  BY DEF IInv, NewInv, Absent
<1>6. /\ \A e \in expiredTimer : e[2] \in Expired
      /\ running # None => running \in Expired
  BY DEF Expired
<1> QED BY <1>1, <1>2, <1>3, <1>4, <1>5, <1>6

\* AddTimer in the loop keeps the invariant: the new timer is in neither
\* container and no task names it.
LEMMA AddTimerStep ==
    ASSUME IInv, NEW t \in Timers, NEW ts \in 0 .. Horizon, AddTimer(t, ts)
    PROVE IInv'
<1>1. /\ UNCHANGED <<now, pc, expiredTimer, running, mTasks, caller>>
      /\ heap[t] = "fresh" /\ heap' = [heap EXCEPT ![t] = "live"]
      /\ mExpired' = [mExpired EXCEPT ![t] = ts]
      /\ insert(t, ts)
  BY DEF AddTimer, Allocate, loop
<1>2. /\ t \notin Queued /\ t \notin Expired /\ t \notin Inserting
      /\ ts \in Times
  BY <1>1, Places, TimesAreNumbers
<1>3. /\ mTimerSet' = mTimerSet \cup {<<ts, t>>} /\ mTimerSet' \in SUBSET Pairs
      /\ Queued' = Queued \cup {t}
      /\ mTimerIdMap' = [mTimerIdMap EXCEPT ![t] = t]
      /\ failed' \in BOOLEAN
      /\ alarm' \in Times \cup {None} /\ ready' \in BOOLEAN
      /\ AlarmInv' /\ ArmedInTime'
  BY <1>1, <1>2, InsertTimer DEF IInv
<1>4. Inserting' = Inserting /\ Expired' = Expired
  BY <1>1 DEF Inserting, Expired
<1>5. TypeOK'
  BY <1>1, <1>2, <1>3 DEF IInv, TypeOK, Pairs
<1>6. TaskInv' BY <1>1, <1>2, <1>4 DEF IInv, TypeOK, TaskInv
<1>7. NewInv' BY <1>1, <1>2, <1>3, <1>4 DEF IInv, TypeOK, NewInv, Absent
<1>8. BatchInv'
  BY <1>1, <1>2, Places DEF IInv, TypeOK, BatchInv, Pair
<1>9. MapInv' BY <1>3 DEF IInv, TypeOK, MapInv
<1>10. SetAndMapAgree'
  <2>1. \A e \in mTimerSet : e[2] \in Timers /\ e[2] # t /\ e = <<mExpired[e[2]], e[2]>>
    BY <1>2 DEF IInv, TypeOK, SetAndMapAgree, Pair, Queued
  <2>2. ASSUME NEW e \in mTimerSet' PROVE e = Pair(e[2])'
    <3>1. CASE e \in mTimerSet BY <1>1, <2>1, <3>1 DEF IInv, TypeOK, Pair
    <3>2. CASE e = <<ts, t>> BY <1>1, <3>2 DEF IInv, TypeOK, Pair
    <3> QED BY <1>3, <2>2, <3>1, <3>2
  <2>3. Queued' = {u \in Timers : mTimerIdMap'[u] = u}
    BY <1>3 DEF IInv, TypeOK, SetAndMapAgree
  <2> QED BY <2>2, <2>3 DEF SetAndMapAgree
<1>11. OneOwner'
  BY <1>1, <1>2, <1>3, <1>4 DEF IInv, TypeOK, OneOwner
<1>12. NeverEarly'
  BY <1>1, <1>2, <1>4, Places DEF IInv, TypeOK, NeverEarly
<1> QED BY <1>3, <1>5, <1>6, <1>7, <1>8, <1>9, <1>10, <1>11, <1>12 DEF IInv

\* The tasks are as they were, but that the oldest may be gone.
TasksShrink ==
    mTasks' = mTasks \/ (mTasks # <<>> /\ mTasks' = Tail(mTasks))

\* A task taken from the queue breaks nothing that is known of the others.
LEMMA TasksKept ==
    ASSUME IInv, TasksShrink, \A t \in Timers : heap'[t] = "fresh" => heap[t] = "fresh"
    PROVE /\ TaskInv' /\ mTasks' \in Seq(Task) /\ Inserting' \subseteq Inserting
          /\ (mTasks' = mTasks \/ mTasks[1].op # "insert") => Inserting' = Inserting
<1>1. /\ mTasks \in Seq(Task) /\ TaskInv /\ heap \in [Timers -> {"fresh", "live", "freed"}]
      /\ \A task \in Task : task.timer \in Timers \cup {Null}
  BY DEF IInv, TypeOK, Task
<1>2. CASE mTasks' = mTasks
  <2>1. Inserting' = Inserting BY <1>2 DEF Inserting
  <2> QED BY <1>1, <1>2, <2>1 DEF TaskInv
<1>3. CASE mTasks # <<>> /\ mTasks' = Tail(mTasks)
  <2>1. /\ mTasks' \in Seq(Task) /\ Inserting' \subseteq Inserting
        /\ mTasks[1].op # "insert" => Inserting' = Inserting
        /\ \A i \in DOMAIN mTasks' : i + 1 \in DOMAIN mTasks /\ mTasks'[i] = mTasks[i + 1]
    BY <1>1, <1>3, TakenTask
  <2>2. DOMAIN mTasks' \subseteq Nat BY <2>1
  <2>3. TaskInv'
    <3>1. ASSUME NEW i \in DOMAIN mTasks'
          PROVE LET task == mTasks'[i] IN
            /\ task.op = "insert" =>
                  /\ task.timer \in Timers
                  /\ \A j \in DOMAIN mTasks' :
                        mTasks'[j].op = "insert" /\ mTasks'[j].timer = task.timer => i = j
            /\ task.op = "delete" /\ task.timer # Null =>
                  heap'[task.timer] # "fresh" /\ task.timer \notin Inserting'
      <4>1. mTasks'[i] \in Task /\ mTasks'[i].timer \in Timers \cup {Null}
        BY <1>1, <2>1
      <4> QED BY <1>1, <2>1, <2>2, <3>1, <4>1 DEF TaskInv
    <3> QED BY <3>1 DEF TaskInv
  <2> QED BY <2>1, <2>3, <1>1, <1>3
<1> QED BY <1>2, <1>3 DEF TasksShrink

\* Nothing happens to the queue itself.
LEMMA QueueKept ==
    ASSUME IInv, TasksShrink, mTasks' = mTasks \/ mTasks[1].op # "insert",
           UNCHANGED queue, failed' \in BOOLEAN,
           UNCHANGED <<now, pc, expiredTimer, running, caller>>
    PROVE IInv'
<1> USE DEF queue
<1>1. TaskInv' /\ mTasks' \in Seq(Task) /\ Inserting' = Inserting
  BY TasksKept
<1>2. Queued' = Queued /\ Expired' = Expired BY DEF Queued, Expired
<1>3. TypeOK' BY <1>1 DEF IInv, TypeOK
<1>4. NewInv' /\ BatchInv' /\ MapInv' /\ AlarmInv'
  BY <1>1 DEF IInv, NewInv, BatchInv, MapInv, AlarmInv, Absent, Pair
<1>5. SetAndMapAgree' /\ OneOwner' /\ NeverEarly' /\ ArmedInTime'
  BY <1>1, <1>2 DEF IInv, SetAndMapAgree, OneOwner, NeverEarly, ArmedInTime, Pair
<1> QED BY <1>1, <1>3, <1>4, <1>5 DEF IInv

\* Remove in the loop keeps the invariant, with or without taking a task.
LEMMA DeleteKeeps ==
    ASSUME IInv, NEW p \in Timers \cup {Null}, deleteTimer(p), Usable(p) => p \in Queued,
           TasksShrink, mTasks' = mTasks \/ mTasks[1].op # "insert",
           UNCHANGED <<now, pc, expiredTimer, running, caller>>
    PROVE IInv'
<1>1. CASE Usable(p)
  <2>0. p \in Timers /\ p \in Queued BY <1>1 DEF Usable
  <2>1. /\ mTimerSet' = mTimerSet \ {Pair(p)} /\ mTimerSet' \in SUBSET Pairs
        /\ Queued' = Queued \ {p}
        /\ mTimerIdMap' = [mTimerIdMap EXCEPT ![p] = None]
        /\ heap' = [heap EXCEPT ![p] = "freed"] /\ mExpired' = mExpired
        /\ failed' \in BOOLEAN
        /\ alarm' \in Times \cup {None} /\ ready' \in BOOLEAN
        /\ AlarmInv' /\ ArmedInTime'
    BY <1>1, <2>0, DeleteTimer DEF IInv
  <2>2. \A t \in Timers : heap'[t] = "fresh" => heap[t] = "fresh"
    BY <2>1 DEF IInv, TypeOK
  <2>3. TaskInv' /\ mTasks' \in Seq(Task) /\ Inserting' = Inserting
    BY <2>2, TasksKept
  <2>4. Expired' = Expired BY DEF Expired
  <2>5. p \notin Expired /\ p \notin Inserting /\ p # Null /\ p # None
    BY <2>0, NoneAssumption DEF IInv, OneOwner
  <2>6. TypeOK' BY <2>0, <2>1, <2>3 DEF IInv, TypeOK, Pairs
  <2>7. NewInv'
    <3>1. ASSUME NEW th \in Threads, caller[th].op = "removing"
          PROVE heap'[caller[th].timer] # "fresh" /\ caller[th].timer \notin Inserting'
      <4>1. caller[th].timer \in Timers BY <3>1 DEF IInv, TypeOK, Idle
      <4> QED BY <2>2, <2>3, <3>1, <4>1 DEF IInv, NewInv
    <3>2. \A t \in Timers : heap'[t] = "fresh" \/ t \in Inserting' => Absent(t)'
      BY <2>1, <2>2, <2>3, <2>5 DEF IInv, NewInv, TypeOK, Absent
    <3> QED BY <3>1, <3>2 DEF NewInv
  <2>8. BatchInv' BY <2>1 DEF IInv, BatchInv, Pair
  <2>9. MapInv' BY <2>0, <2>1 DEF IInv, TypeOK, MapInv
  <2>10. SetAndMapAgree'
    BY <2>0, <2>1, <2>5 DEF IInv, TypeOK, SetAndMapAgree, Pair
  <2>11. OneOwner'
    BY <2>0, <2>1, <2>3, <2>4, <2>5 DEF IInv, TypeOK, OneOwner
  <2>12. NeverEarly' BY <2>1, <2>4 DEF IInv, NeverEarly
  <2> QED BY <2>1, <2>3, <2>6, <2>7, <2>8, <2>9, <2>10, <2>11, <2>12 DEF IInv
<1>2. CASE ~Usable(p)
  <2>1. UNCHANGED queue /\ failed' = TRUE BY <1>2 DEF deleteTimer, Crash
  <2> QED BY <2>1, QueueKept
<1> QED BY <1>1, <1>2

\* ResetTimer in the loop keeps the invariant, with or without taking a task.
LEMMA ResetKeeps ==
    ASSUME IInv, NEW t \in Timers, NEW ts \in Times, resetTimer(t, ts),
           TasksShrink, mTasks' = mTasks \/ mTasks[1].op # "insert",
           UNCHANGED <<now, pc, expiredTimer, running, caller>>
    PROVE IInv'
<1>1. CASE mTimerIdMap[t] # t
  <2>1. UNCHANGED queue /\ failed' \in BOOLEAN
    BY <1>1 DEF resetTimer, Crash, IInv, TypeOK
  <2> QED BY <2>1, QueueKept
<1>2. CASE mTimerIdMap[t] = t
  <2>1. /\ mTimerSet' = (mTimerSet \ {Pair(t)}) \cup {<<ts, t>>}
        /\ mTimerSet' \in SUBSET Pairs
        /\ t \in Queued /\ Queued' = Queued
        /\ UNCHANGED <<heap, mTimerIdMap>>
        /\ mExpired' = [mExpired EXCEPT ![t] = ts]
        /\ failed' \in BOOLEAN
        /\ alarm' \in Times \cup {None} /\ ready' \in BOOLEAN
        /\ AlarmInv' /\ ArmedInTime'
    BY <1>2, MoveTimer DEF IInv
  <2>2. TaskInv' /\ mTasks' \in Seq(Task) /\ Inserting' = Inserting
    BY <2>1, TasksKept
  <2>3. Expired' = Expired /\ t \notin Expired
    BY <2>1 DEF IInv, OneOwner, Expired
  <2>4. TypeOK' BY <2>1, <2>2 DEF IInv, TypeOK, Pairs
  <2>5. NewInv' /\ MapInv' BY <2>1, <2>2 DEF IInv, NewInv, MapInv, Absent
  <2>6. BatchInv'
    <3>1. \A e \in expiredTimer : e[2] \in Expired /\ e[2] \in Timers
      BY DEF Expired, IInv, TypeOK
    <3> QED BY <2>1, <2>3, <3>1 DEF IInv, TypeOK, BatchInv, Pair
  <2>7. SetAndMapAgree'
    <3>1. ASSUME NEW e \in mTimerSet' PROVE e = Pair(e[2])'
      <4>1. CASE e \in mTimerSet /\ e # Pair(t)
        <5>1. e[2] \in Timers /\ e[2] # t /\ e = Pair(e[2])
          BY <4>1 DEF IInv, TypeOK, SetAndMapAgree
        <5> QED BY <2>1, <5>1 DEF IInv, TypeOK, Pair
      <4>2. CASE e = <<ts, t>> BY <2>1, <4>2 DEF IInv, TypeOK, Pair
      <4> QED BY <2>1, <3>1, <4>1, <4>2
    <3>2. Queued' = {u \in Timers : mTimerIdMap'[u] = u}
      BY <2>1 DEF IInv, SetAndMapAgree
    <3> QED BY <3>1, <3>2 DEF SetAndMapAgree
  <2>8. OneOwner' BY <2>1, <2>2, <2>3 DEF IInv, OneOwner
  <2>9. NeverEarly'
    <3>1. \A u \in Expired : u \in Timers BY Places
    <3> QED BY <2>1, <2>3, <3>1 DEF IInv, TypeOK, NeverEarly
  <2> QED BY <2>1, <2>2, <2>4, <2>5, <2>6, <2>7, <2>8, <2>9 DEF IInv
<1> QED BY <1>1, <1>2

\* A timer that another thread has added comes to the set.
LEMMA InsertTask ==
    ASSUME IInv, mTasks # <<>>, mTasks' = Tail(mTasks), mTasks[1].op = "insert",
           insert(mTasks[1].timer, mExpired[mTasks[1].timer]),
           UNCHANGED <<heap, mExpired, now, pc, expiredTimer, running, caller>>
    PROVE IInv'
<1> DEFINE t == mTasks[1].timer
<1>1. t \in Timers /\ t \in Inserting /\ mExpired[t] \in Times
  <2>1. 1 \in DOMAIN mTasks BY DEF IInv, TypeOK
  <2> QED BY <2>1 DEF IInv, TypeOK, TaskInv, Inserting
<1>2. t \notin Queued /\ t \notin Expired BY <1>1 DEF IInv, OneOwner
<1> HIDE DEF t
<1>3. /\ mTimerSet' = mTimerSet \cup {<<mExpired[t], t>>} /\ mTimerSet' \in SUBSET Pairs
      /\ Queued' = Queued \cup {t}
      /\ mTimerIdMap' = [mTimerIdMap EXCEPT ![t] = t]
      /\ failed' \in BOOLEAN
      /\ alarm' \in Times \cup {None} /\ ready' \in BOOLEAN
      /\ AlarmInv' /\ ArmedInTime'
  <2>1. insert(t, mExpired[t]) BY DEF t
  <2> QED BY <1>1, <1>2, <2>1, InsertTimer DEF IInv
<1>4. TaskInv' /\ mTasks' \in Seq(Task) /\ Inserting' = Inserting \ {t}
  <2>1. Inserting' = Inserting \ {t}
    BY TakenTask DEF IInv, TypeOK, t
  <2> QED BY <2>1, TasksKept DEF TasksShrink
<1>5. Expired' = Expired BY DEF Expired
<1>6. TypeOK' BY <1>1, <1>3, <1>4 DEF IInv, TypeOK, Pairs
<1>7. NewInv'
  <2>1. heap[t] = "live" BY <1>1, Places
  <2>2. \A th \in Threads : caller[th].op = "removing" =>
           heap[caller[th].timer] # "fresh" /\ caller[th].timer \notin Inserting'
    BY <1>4 DEF IInv, NewInv
  <2>3. \A u \in Timers : heap'[u] = "fresh" \/ u \in Inserting' => Absent(u)'
    BY <1>3, <1>4, <2>1 DEF IInv, NewInv, TypeOK, Absent
  <2> QED BY <2>2, <2>3 DEF NewInv
<1>8. BatchInv' BY DEF IInv, BatchInv, Pair
<1>9. MapInv' BY <1>3 DEF IInv, TypeOK, MapInv
<1>10. SetAndMapAgree'
  <2>1. \A e \in mTimerSet' : e = Pair(e[2])'
    BY <1>3 DEF IInv, SetAndMapAgree, Pair
  <2>2. Queued' = {u \in Timers : mTimerIdMap'[u] = u}
    BY <1>1, <1>3 DEF IInv, TypeOK, SetAndMapAgree
  <2> QED BY <2>1, <2>2 DEF SetAndMapAgree
<1>11. OneOwner' BY <1>1, <1>2, <1>3, <1>4, <1>5 DEF IInv, OneOwner
<1>12. NeverEarly' BY <1>5 DEF IInv, NeverEarly
<1> QED BY <1>3, <1>4, <1>6, <1>7, <1>8, <1>9, <1>10, <1>11, <1>12 DEF IInv

-----------------------------------------------------------------------------
(* The actions.                                                            *)

\* Remove of the loop's own callbacks keeps the invariant.
LEMMA RemoveStep ==
    ASSUME IInv, NEW t \in Timers, Remove(t)
    PROVE IInv'
<1>1. /\ UNCHANGED <<now, pc, expiredTimer, running, mTasks, caller>>
      /\ TasksShrink
  BY DEF Remove, loop, TasksShrink
<1>2. CASE mTimerIdMap[t] = None
  <2>1. UNCHANGED queue /\ failed' \in BOOLEAN
    BY <1>2 DEF Remove, IInv, TypeOK
  <2> QED BY <1>1, <2>1, QueueKept
<1>3. CASE mTimerIdMap[t] # None
  <2>1. deleteTimer(mTimerIdMap[t]) BY <1>3 DEF Remove
  <2>2. mTimerIdMap[t] \in Timers \cup {Null} BY <1>3 DEF IInv, MapInv
  <2>3. Usable(mTimerIdMap[t]) => mTimerIdMap[t] \in Queued
    BY <1>3, NoneAssumption DEF IInv, MapInv, SetAndMapAgree, Usable
  <2> QED BY <1>1, <2>1, <2>2, <2>3, DeleteKeeps
<1> QED BY <1>2, <1>3

\* ResetTimer of the loop's own callbacks keeps the invariant.
LEMMA ResetStep ==
    ASSUME IInv, NEW t \in Timers, NEW ts \in 0 .. Horizon, ResetTimer(t, ts)
    PROVE IInv'
<1>1. /\ UNCHANGED <<now, pc, expiredTimer, running, mTasks, caller>>
      /\ TasksShrink /\ resetTimer(t, ts) /\ ts \in Times
  BY TimesAreNumbers DEF ResetTimer, loop, TasksShrink
<1> QED BY <1>1, ResetKeeps

\* Each kind of task keeps the invariant.
LEMMA RunTaskStep ==
    ASSUME IInv, RunTask
    PROVE IInv'
<1> DEFINE task == mTasks[1]
<1>1. /\ pc = "idle" /\ mTasks # <<>> /\ mTasks' = Tail(mTasks) /\ TasksShrink
      /\ UNCHANGED <<now, pc, expiredTimer, running, caller>>
  BY DEF RunTask, loop, TasksShrink
<1>2. Head(mTasks) = task /\ task \in Task /\ 1 \in DOMAIN mTasks
  BY <1>1, TakenTask DEF IInv, TypeOK
<1>3. \/ /\ task.op = "insert"
         /\ insert(task.timer, mExpired[task.timer]) /\ UNCHANGED <<heap, mExpired>>
      \/ task.op = "delete" /\ deleteTimer(task.timer)
      \/ task.op = "reset" /\ resetTimer(task.timer, task.ts)
  BY <1>2 DEF RunTask
<1>4. CASE task.op = "insert" BY <1>1, <1>3, <1>4, InsertTask
<1>5. CASE task.op = "delete"
  <2>1. deleteTimer(task.timer) /\ task.timer \in Timers \cup {Null}
    BY <1>2, <1>3, <1>5 DEF Task
  <2>2. Usable(task.timer) => task.timer \in Queued
    <3>1. Expired = {} BY <1>1 DEF IInv, BatchInv, Expired
    <3>2. task.timer # Null => task.timer \notin Inserting
      BY <1>2, <1>5 DEF IInv, TaskInv
    <3> QED BY <3>1, <3>2, NoneAssumption DEF IInv, OneOwner, Usable
  <2> QED BY <1>1, <1>5, <2>1, <2>2, DeleteKeeps
<1>6. CASE task.op = "reset"
  <2>1. resetTimer(task.timer, task.ts) /\ task.timer \in Timers /\ task.ts \in Times
    BY <1>2, <1>3, <1>6 DEF Task
  <2> QED BY <1>1, <1>6, <2>1, ResetKeeps
<1> QED BY <1>3, <1>4, <1>5, <1>6

\* A post of another thread that is no insertion changes nothing but the
\* tasks; its timer is known.
LEMMA PostKeeps ==
    ASSUME IInv, NEW task \in Task, Post(task), task.op # "insert",
           task.op = "delete" /\ task.timer # Null =>
              heap[task.timer] # "fresh" /\ task.timer \notin Inserting,
           UNCHANGED heap
    PROVE TaskInv' /\ mTasks' \in Seq(Task) /\ Inserting' = Inserting
<1>1. /\ mTasks' \in Seq(Task)
      /\ DOMAIN mTasks' = DOMAIN mTasks \cup {Len(mTasks) + 1}
      /\ \A i \in DOMAIN mTasks : mTasks'[i] = mTasks[i]
      /\ mTasks'[Len(mTasks) + 1] = task
      /\ Inserting' = Inserting
  BY PostedTask DEF IInv, TypeOK
<1>2. TaskInv' BY <1>1 DEF IInv, TaskInv
<1> QED BY <1>1, <1>2

\* AddTimer on another thread keeps the invariant: its timer is on its way.
LEMMA ThreadAddTimerStep ==
    ASSUME IInv, NEW th \in Threads, NEW t \in Timers, NEW ts \in 0 .. Horizon,
           ThreadAddTimer(th, t, ts)
    PROVE IInv'
<1> DEFINE task == [op |-> "insert", timer |-> t]
<1>1. /\ UNCHANGED <<now, mTimerSet, mTimerIdMap, alarm, ready, pc, expiredTimer,
                     running, failed>>
      /\ heap[t] = "fresh" /\ heap' = [heap EXCEPT ![t] = "live"]
      /\ mExpired' = [mExpired EXCEPT ![t] = ts]
      /\ Post(task) /\ task \in Task
      /\ caller' = [caller EXCEPT ![th] = [op |-> "adding", timer |-> t]]
  BY DEF ThreadAddTimer, Allocate, loop, Task
<1>2. /\ t \notin Queued /\ t \notin Expired /\ t \notin Inserting
      /\ ts \in Times /\ mTimerIdMap[t] = None
  BY <1>1, Places, TimesAreNumbers
<1>3. /\ mTasks' \in Seq(Task)
      /\ DOMAIN mTasks' = DOMAIN mTasks \cup {Len(mTasks) + 1}
      /\ \A i \in DOMAIN mTasks : mTasks'[i] = mTasks[i]
      /\ mTasks'[Len(mTasks) + 1] = task
      /\ Inserting' = Inserting \cup {t}
  BY <1>1, PostedTask DEF IInv, TypeOK
<1>4. Queued' = Queued /\ Expired' = Expired BY <1>1 DEF Queued, Expired
<1>5. TypeOK' BY <1>1, <1>2, <1>3 DEF IInv, TypeOK
<1>6. TaskInv'
  <2>1. \A i \in DOMAIN mTasks : mTasks[i].op = "insert" => mTasks[i].timer # t
    BY <1>2 DEF Inserting
  <2>2. \A i \in DOMAIN mTasks : mTasks[i] \in Task
    BY DEF IInv, TypeOK
  <2>3. ASSUME NEW i \in DOMAIN mTasks, mTasks[i].op = "delete", mTasks[i].timer # Null
        PROVE heap'[mTasks[i].timer] # "fresh" /\ mTasks[i].timer \notin Inserting'
    <3>1. mTasks[i].timer \in Timers BY <2>2, <2>3 DEF Task
    <3>2. heap[mTasks[i].timer] # "fresh" /\ mTasks[i].timer \notin Inserting
      BY <2>3 DEF IInv, TaskInv
    <3> QED BY <1>1, <1>3, <3>1, <3>2 DEF IInv, TypeOK
  <2>4. \A i \in DOMAIN mTasks : mTasks[i].op = "insert" =>
           /\ mTasks[i].timer \in Timers
           /\ \A j \in DOMAIN mTasks :
                mTasks[j].op = "insert" /\ mTasks[j].timer = mTasks[i].timer => i = j
    BY DEF IInv, TaskInv
  <2> QED BY <1>3, <2>1, <2>3, <2>4 DEF TaskInv
<1>7. NewInv'
  <2>1. ASSUME NEW o \in Threads, caller'[o].op = "removing"
        PROVE heap'[caller'[o].timer] # "fresh" /\ caller'[o].timer \notin Inserting'
    <3>1. o # th /\ caller'[o] = caller[o]
      BY <1>1, <2>1 DEF IInv, TypeOK
    <3>2. caller[o].timer \in Timers BY <2>1, <3>1 DEF IInv, TypeOK, Idle
    <3>3. heap[caller[o].timer] # "fresh" /\ caller[o].timer \notin Inserting
      BY <2>1, <3>1 DEF IInv, NewInv
    <3> QED BY <1>1, <1>3, <3>1, <3>2, <3>3 DEF IInv, TypeOK
  <2>2. \A u \in Timers : heap'[u] = "fresh" \/ u \in Inserting' => Absent(u)'
    BY <1>1, <1>2, <1>3 DEF IInv, TypeOK, NewInv, Absent
  <2> QED BY <2>1, <2>2 DEF NewInv
<1>8. BatchInv' BY <1>1, <1>2, Places DEF IInv, TypeOK, BatchInv, Pair
<1>9. MapInv' /\ AlarmInv' /\ ArmedInTime'
  BY <1>1 DEF IInv, MapInv, AlarmInv, ArmedInTime
<1>10. SetAndMapAgree'
  <2>1. \A e \in mTimerSet : e[2] \in Timers /\ e[2] # t /\ e = <<mExpired[e[2]], e[2]>>
    BY <1>2 DEF IInv, TypeOK, SetAndMapAgree, Pair, Queued
  <2>2. \A e \in mTimerSet' : e = Pair(e[2])'
    BY <1>1, <2>1 DEF IInv, TypeOK, Pair
  <2> QED BY <1>1, <1>4, <2>2 DEF IInv, SetAndMapAgree
<1>11. OneOwner' BY <1>1, <1>2, <1>3, <1>4 DEF IInv, TypeOK, OneOwner
<1>12. NeverEarly'
  BY <1>1, <1>2, <1>4, Places DEF IInv, TypeOK, NeverEarly
<1> QED BY <1>5, <1>6, <1>7, <1>8, <1>9, <1>10, <1>11, <1>12 DEF IInv

\* The later steps of a call on another thread keep the invariant.
LEMMA ThreadStepKeeps ==
    ASSUME IInv, NEW th \in Threads, ThreadStep(th)
    PROVE IInv'
<1>1. CASE ThreadGetTimerId(th)
  <2>1. /\ UNCHANGED <<now, queue, pc, expiredTimer, running, mTasks>>
        /\ caller' = [caller EXCEPT ![th] = Idle] /\ failed' \in BOOLEAN
    BY <1>1 DEF ThreadGetTimerId, loop
  <2>2. \A o \in Threads : caller'[o].op = "removing" => caller'[o] = caller[o]
    BY <2>1 DEF IInv, TypeOK, Idle
  <2>3. Inserting' = Inserting /\ Queued' = Queued /\ Expired' = Expired
    BY <2>1 DEF Inserting, Queued, Expired, queue
  <2>4. TypeOK' BY <2>1 DEF IInv, TypeOK, queue
  <2>5. TaskInv' /\ NewInv' /\ BatchInv' /\ MapInv' /\ AlarmInv'
    BY <2>1, <2>2, <2>3
       DEF IInv, TaskInv, NewInv, BatchInv, MapInv, AlarmInv, Absent, Pair, queue
  <2>6. SetAndMapAgree' /\ OneOwner' /\ NeverEarly' /\ ArmedInTime'
    BY <2>1, <2>3 DEF IInv, SetAndMapAgree, OneOwner, NeverEarly, ArmedInTime, Pair, queue
  <2> QED BY <2>4, <2>5, <2>6 DEF IInv
<1>2. CASE ThreadRemove(th)
  <2> DEFINE t == caller[th].timer
             task == [op |-> "delete", timer |-> Stored(t)]
  <2>1. /\ UNCHANGED <<now, heap, mExpired, mTimerSet, alarm, ready, pc,
                       expiredTimer, running, failed>>
        /\ mTimerIdMap' = [mTimerIdMap EXCEPT ![t] = Stored(t)]
        /\ Post(task) /\ caller' = [caller EXCEPT ![th] = Idle]
        /\ caller[th].op = "removing"
    BY <1>2 DEF ThreadRemove, loop
  <2>2. t \in Timers /\ heap[t] # "fresh" /\ t \notin Inserting
    BY <2>1 DEF IInv, TypeOK, NewInv, Idle
  <2> HIDE DEF t
  <2>3. /\ Stored(t) \in {t, Null} /\ task \in Task
        /\ mTimerIdMap[t] = t <=> Stored(t) = t
    BY <2>2, NoneAssumption DEF IInv, MapInv, Stored, Task
  <2>4. TaskInv' /\ mTasks' \in Seq(Task) /\ Inserting' = Inserting
    BY <2>1, <2>2, <2>3, PostKeeps
  <2>5. Queued' = Queued /\ Expired' = Expired BY <2>1 DEF Queued, Expired
  <2>6. \A o \in Threads : caller'[o].op = "removing" => caller'[o] = caller[o]
    BY <2>1 DEF IInv, TypeOK, Idle
  <2>7. TypeOK' BY <2>1, <2>2, <2>3, <2>4 DEF IInv, TypeOK
  <2>8. NewInv'
    BY <2>1, <2>2, <2>4, <2>6 DEF IInv, TypeOK, NewInv, Absent
  <2>9. BatchInv' /\ AlarmInv' BY <2>1 DEF IInv, BatchInv, AlarmInv, Pair
  <2>10. MapInv' BY <2>1, <2>2, <2>3 DEF IInv, TypeOK, MapInv
  <2>11. SetAndMapAgree'
    BY <2>1, <2>2, <2>3, <2>5 DEF IInv, TypeOK, SetAndMapAgree, Pair
  <2>12. OneOwner' /\ NeverEarly' /\ ArmedInTime'
    BY <2>1, <2>4, <2>5 DEF IInv, OneOwner, NeverEarly, ArmedInTime
  <2> QED BY <2>4, <2>7, <2>8, <2>9, <2>10, <2>11, <2>12 DEF IInv
<1> QED BY <1>1, <1>2 DEF ThreadStep

\* The first look of Remove at the map keeps the invariant.
LEMMA ThreadFindStep ==
    ASSUME IInv, NEW th \in Threads, NEW t \in Timers, ThreadFind(th, t)
    PROVE IInv'
<1>1. /\ UNCHANGED <<now, queue, pc, expiredTimer, running, mTasks, failed>>
      /\ caller' = [caller EXCEPT ![th] = [op |-> "removing", timer |-> t]]
      /\ mTimerIdMap[t] # None
  BY DEF ThreadFind, loop
<1>2. heap[t] # "fresh" /\ t \notin Inserting BY <1>1, Places
<1>3. Inserting' = Inserting /\ Queued' = Queued /\ Expired' = Expired
  BY <1>1 DEF Inserting, Queued, Expired, queue
<1>4. TypeOK' BY <1>1 DEF IInv, TypeOK, queue
<1>5. NewInv'
  <2>1. ASSUME NEW o \in Threads, caller'[o].op = "removing"
        PROVE heap'[caller'[o].timer] # "fresh" /\ caller'[o].timer \notin Inserting'
    <3>1. CASE o = th BY <1>1, <1>2, <1>3, <3>1 DEF IInv, TypeOK, queue
    <3>2. CASE o # th BY <1>1, <1>3, <2>1, <3>2 DEF IInv, TypeOK, NewInv, queue
    <3> QED BY <3>1, <3>2
  <2> QED BY <1>1, <1>3, <2>1 DEF IInv, NewInv, Absent, queue
<1>6. TaskInv' /\ BatchInv' /\ MapInv' /\ AlarmInv'
  BY <1>1, <1>3 DEF IInv, TaskInv, BatchInv, MapInv, AlarmInv, Pair, queue
<1>7. SetAndMapAgree' /\ OneOwner' /\ NeverEarly' /\ ArmedInTime'
  BY <1>1, <1>3 DEF IInv, SetAndMapAgree, OneOwner, NeverEarly, ArmedInTime, Pair, queue
<1> QED BY <1>4, <1>5, <1>6, <1>7 DEF IInv

\* ResetTimer on another thread keeps the invariant.
LEMMA ThreadResetStep ==
    ASSUME IInv, NEW th \in Threads, NEW t \in Timers, NEW ts \in 0 .. Horizon,
           ThreadResetTimer(th, t, ts)
    PROVE IInv'
<1> DEFINE task == [op |-> "reset", timer |-> t, ts |-> ts]
<1>1. /\ UNCHANGED <<now, queue, pc, expiredTimer, running, caller, failed>>
      /\ Post(task) /\ task \in Task
  BY TimesAreNumbers DEF ThreadResetTimer, loop, Task
<1>2. TaskInv' /\ mTasks' \in Seq(Task) /\ Inserting' = Inserting
  BY <1>1, PostKeeps DEF queue
<1>3. Queued' = Queued /\ Expired' = Expired BY <1>1 DEF Queued, Expired, queue
<1>4. TypeOK' BY <1>1, <1>2 DEF IInv, TypeOK, queue
<1>5. NewInv' /\ BatchInv' /\ MapInv' /\ AlarmInv'
  BY <1>1, <1>2 DEF IInv, NewInv, BatchInv, MapInv, AlarmInv, Absent, Pair, queue
<1>6. SetAndMapAgree' /\ OneOwner' /\ NeverEarly' /\ ArmedInTime'
  BY <1>1, <1>2, <1>3
     DEF IInv, SetAndMapAgree, OneOwner, NeverEarly, ArmedInTime, Pair, queue
<1> QED BY <1>2, <1>4, <1>5, <1>6 DEF IInv

\* The loop finds the timerfd expired.
LEMMA PollStep ==
    ASSUME IInv, Poll
    PROVE IInv'
<1>1. /\ UNCHANGED <<now, heap, mExpired, mTimerSet, mTimerIdMap, alarm,
                     expiredTimer, running, mTasks, caller, failed>>
      /\ pc = "idle" /\ pc' = "event" /\ ready' = FALSE
  BY DEF Poll
<1>2. Inserting' = Inserting /\ Queued' = Queued /\ Expired' = Expired
  BY <1>1 DEF Inserting, Queued, Expired
<1>3. TypeOK' BY <1>1 DEF IInv, TypeOK
<1>4. TaskInv' /\ NewInv' /\ BatchInv' /\ MapInv' /\ AlarmInv'
  BY <1>1, <1>2 DEF IInv, TaskInv, NewInv, BatchInv, MapInv, AlarmInv, Absent, Pair
<1>5. SetAndMapAgree' /\ OneOwner' /\ NeverEarly' /\ ArmedInTime'
  BY <1>1, <1>2 DEF IInv, SetAndMapAgree, OneOwner, NeverEarly, ArmedInTime, Pair
<1> QED BY <1>3, <1>4, <1>5 DEF IInv

\* findExpiredTimer moves what is due from both containers to the batch.
LEMMA FindStep ==
    ASSUME IInv, findExpiredTimer
    PROVE IInv'
<1> DEFINE DueTimers == {e[2] : e \in Due}
<1>1. /\ UNCHANGED <<now, heap, mExpired, alarm, ready, running, mTasks, caller>>
      /\ pc = "event" /\ pc' = "firing"
      /\ expiredTimer' = Due /\ mTimerSet' = mTimerSet \ Due
      /\ mTimerIdMap' = [t \in Timers |->
                           IF \E e \in Due : e[2] = t THEN None ELSE mTimerIdMap[t]]
      /\ failed' \in BOOLEAN
  BY DEF findExpiredTimer, Assert
<1>2. expiredTimer = {} /\ running = None /\ Expired = {}
  BY <1>1 DEF IInv, BatchInv, Expired
<1>3. Due \subseteq mTimerSet /\ \A e \in Due : e[1] <= now BY DEF Due
<1>4. \A e \in mTimerSet : e = Pair(e[2]) /\ e[2] \in Timers /\ e[1] \in Times
  BY DEF IInv, SetAndMapAgree, TypeOK
<1>5. Expired' = DueTimers BY <1>1, <1>2 DEF Expired
<1>6. Queued' = Queued \ DueTimers
  <2>1. ASSUME NEW e \in mTimerSet PROVE e \in Due <=> e[2] \in DueTimers
    BY <1>3, <1>4
  <2> HIDE DEF DueTimers
  <2> QED BY <1>1, <2>1 DEF Queued
<1>7. DueTimers \subseteq Queued BY <1>3 DEF Queued
<1>8. Inserting' = Inserting BY <1>1 DEF Inserting
<1>9. TypeOK' BY <1>1, <1>3 DEF IInv, TypeOK
<1>10. TaskInv' /\ AlarmInv' /\ ArmedInTime'
  BY <1>1, <1>8 DEF IInv, TaskInv, AlarmInv, ArmedInTime
<1>11. NewInv' /\ MapInv'
  BY <1>1, <1>8 DEF IInv, NewInv, MapInv, Absent
<1>12. BatchInv'
  BY <1>1, <1>2, <1>3, <1>4, NoneAssumption DEF BatchInv, Pair
<1>13. SetAndMapAgree'
  <2>1. \A e \in mTimerSet' : e = Pair(e[2])' BY <1>1, <1>4 DEF Pair
  <2>2. \A t \in Timers : t \in DueTimers <=> \E e \in Due : e[2] = t OBVIOUS
  <2> HIDE DEF DueTimers
  <2>3. Queued' = {t \in Timers : mTimerIdMap'[t] = t}
    BY <1>1, <1>6, <2>2, NoneAssumption DEF IInv, SetAndMapAgree
  <2> QED BY <2>1, <2>3 DEF SetAndMapAgree
<1>14. OneOwner'
  <2> HIDE DEF DueTimers
  <2> QED BY <1>1, <1>2, <1>5, <1>6, <1>7, <1>8 DEF IInv, OneOwner
<1>15. NeverEarly'
  BY <1>1, <1>3, <1>4, <1>5 DEF NeverEarly, Pair
<1> QED BY <1>9, <1>10, <1>11, <1>12, <1>13, <1>14, <1>15 DEF IInv

\* The callback of the next timer of the batch begins.
LEMMA RunTimerStep ==
    ASSUME IInv, RunTimer
    PROVE IInv'
<1>1. PICK e \in Firsts(expiredTimer) :
         expiredTimer' = expiredTimer \ {e} /\ running' = e[2]
  BY DEF RunTimer
<1>2. /\ UNCHANGED <<now, heap, mExpired, mTimerSet, mTimerIdMap, alarm, ready,
                     pc, mTasks, caller, failed>>
      /\ pc = "firing" /\ running = None
  BY DEF RunTimer, queue
<1>3. e \in expiredTimer /\ e[2] \in Timers /\ e[2] # None
  BY <1>1, NoneAssumption DEF Firsts, IInv, TypeOK
<1>4. Expired' = Expired
  <2>1. Expired = {f[2] : f \in expiredTimer} BY <1>2 DEF Expired
  <2>2. Expired' = {f[2] : f \in expiredTimer \ {e}} \cup {e[2]}
    BY <1>1, <1>3 DEF Expired
  <2>3. {f[2] : f \in expiredTimer \ {e}} \cup {e[2]} = {f[2] : f \in expiredTimer}
    BY <1>3
  <2> QED BY <2>1, <2>2, <2>3
<1>5. Inserting' = Inserting /\ Queued' = Queued
  BY <1>2 DEF Inserting, Queued
<1>6. TypeOK' BY <1>1, <1>2, <1>3 DEF IInv, TypeOK
<1>7. BatchInv'
  <2>1. \A f \in expiredTimer : f = Pair(f[2]) BY DEF IInv, BatchInv
  <2>2. \A f \in expiredTimer' : f[2] # e[2] BY <1>1, <1>3, <2>1
  <2> QED BY <1>1, <1>2, <2>1, <2>2 DEF BatchInv, Pair
<1>8. TaskInv' /\ NewInv' /\ MapInv' /\ AlarmInv'
  BY <1>2, <1>5 DEF IInv, TaskInv, NewInv, MapInv, AlarmInv, Absent
<1>9. SetAndMapAgree' /\ OneOwner' /\ NeverEarly' /\ ArmedInTime'
  BY <1>2, <1>4, <1>5 DEF IInv, SetAndMapAgree, OneOwner, NeverEarly, ArmedInTime, Pair
<1> QED BY <1>6, <1>7, <1>8, <1>9 DEF IInv

\* A callback ends: a repeating timer is inserted again, another one freed.
LEMMA EndTimerStep ==
    ASSUME IInv, EndTimer
    PROVE IInv'
<1> DEFINE t == running  ts == now + Interval
<1>1. /\ UNCHANGED <<now, alarm, ready, pc, expiredTimer, mTasks, caller, failed>>
      /\ t # None /\ running' = None
      /\ \/ /\ mExpired' = [mExpired EXCEPT ![t] = ts]
            /\ mTimerSet' = mTimerSet \cup {<<ts, t>>}
            /\ mTimerIdMap' = [mTimerIdMap EXCEPT ![t] = t]
            /\ UNCHANGED heap
         \/ /\ heap' = [heap EXCEPT ![t] = "freed"]
            /\ UNCHANGED <<mExpired, mTimerSet, mTimerIdMap>>
  BY DEF EndTimer, Free
<1>2. /\ t \in Timers /\ t \in Expired /\ t \notin Queued /\ t \notin Inserting
      /\ pc = "firing" /\ heap[t] = "live"
  BY <1>1, Places DEF IInv, OneOwner, BatchInv, TypeOK
<1>3. ts \in Times
  BY IntervalAssumption, HorizonAssumption DEF IInv, TypeOK, Times
<1>4. \A e \in expiredTimer : e[2] # t /\ e[2] \in Timers
  BY DEF IInv, BatchInv, TypeOK
<1>5. Expired' = Expired \ {t}
  BY <1>1, <1>4 DEF Expired
<1>6. Inserting' = Inserting BY <1>1 DEF Inserting
<1> HIDE DEF ts
<1>7. CASE /\ mExpired' = [mExpired EXCEPT ![t] = ts]
           /\ mTimerSet' = mTimerSet \cup {<<ts, t>>}
           /\ mTimerIdMap' = [mTimerIdMap EXCEPT ![t] = t]
           /\ UNCHANGED heap
  <2>1. Queued' = Queued \cup {t}
    <3>1. ASSUME NEW u PROVE u \in Queued' <=> u \in Queued \/ u = t
      <4>1. <<ts, t>> \in mTimerSet' /\ <<ts, t>>[2] = t BY <1>7
      <4>2. \A e \in mTimerSet' : e \in mTimerSet \/ e[2] = t BY <1>7
      <4> QED BY <1>7, <4>1, <4>2 DEF Queued
    <3> QED BY <3>1
  <2>2. TypeOK' BY <1>1, <1>2, <1>3, <1>7 DEF IInv, TypeOK
  <2>3. TaskInv' /\ AlarmInv' /\ ArmedInTime'
    BY <1>1, <1>2, <1>6, <1>7 DEF IInv, TaskInv, AlarmInv, ArmedInTime
  <2>4. NewInv' /\ MapInv'
    BY <1>1, <1>2, <1>6, <1>7 DEF IInv, TypeOK, NewInv, MapInv, Absent
  <2>5. BatchInv'
    BY <1>1, <1>2, <1>4, <1>7, NoneAssumption DEF IInv, TypeOK, BatchInv, Pair
  <2>6. SetAndMapAgree'
    <3>1. \A e \in mTimerSet : e[2] \in Timers /\ e[2] # t /\ e = <<mExpired[e[2]], e[2]>>
      BY <1>2 DEF IInv, TypeOK, SetAndMapAgree, Pair, Queued
    <3>2. ASSUME NEW e \in mTimerSet' PROVE e = Pair(e[2])'
      <4>1. CASE e \in mTimerSet BY <1>7, <3>1, <4>1 DEF IInv, TypeOK, Pair
      <4>2. CASE e = <<ts, t>> BY <1>2, <1>7, <4>2 DEF IInv, TypeOK, Pair
      <4> QED BY <1>7, <3>2, <4>1, <4>2
    <3>3. Queued' = {u \in Timers : mTimerIdMap'[u] = u}
      BY <1>2, <1>7, <2>1 DEF IInv, TypeOK, SetAndMapAgree
    <3> QED BY <3>2, <3>3 DEF SetAndMapAgree
  <2>7. OneOwner'
    BY <1>2, <1>5, <1>6, <1>7, <2>1 DEF IInv, OneOwner
  <2>8. NeverEarly'
    <3>1. \A u \in Expired : u \in Timers BY Places
    <3> QED BY <1>1, <1>5, <1>7, <3>1 DEF IInv, TypeOK, NeverEarly
  <2> QED BY <2>2, <2>3, <2>4, <2>5, <2>6, <2>7, <2>8 DEF IInv
<1>8. CASE /\ heap' = [heap EXCEPT ![t] = "freed"]
           /\ UNCHANGED <<mExpired, mTimerSet, mTimerIdMap>>
  <2>1. Queued' = Queued BY <1>8 DEF Queued
  <2>2. \A u \in Timers : heap'[u] = "fresh" => heap[u] = "fresh"
    BY <1>8 DEF IInv, TypeOK
  <2>3. TaskInv' BY <1>1, <2>2, TasksKept DEF TasksShrink
  <2>4. TypeOK' BY <1>1, <1>2, <1>8 DEF IInv, TypeOK
  <2>5. NewInv'
    <3>1. ASSUME NEW th \in Threads, caller[th].op = "removing"
          PROVE heap'[caller[th].timer] # "fresh" /\ caller[th].timer \notin Inserting'
      <4>1. caller[th].timer \in Timers BY <3>1 DEF IInv, TypeOK, Idle
      <4> QED BY <1>6, <2>2, <3>1, <4>1 DEF IInv, NewInv
    <3>2. \A u \in Timers : heap'[u] = "fresh" \/ u \in Inserting' => Absent(u)'
      BY <1>6, <1>8, <2>2 DEF IInv, NewInv, Absent
    <3> QED BY <1>1, <3>1, <3>2 DEF NewInv
  <2>6. BatchInv'
    BY <1>1, <1>2, <1>4, <1>8, NoneAssumption DEF IInv, BatchInv, Pair
  <2>7. MapInv' /\ AlarmInv' /\ SetAndMapAgree' /\ ArmedInTime'
    BY <1>1, <1>8, <2>1 DEF IInv, MapInv, AlarmInv, SetAndMapAgree, ArmedInTime, Pair
  <2>8. OneOwner'
    BY <1>2, <1>5, <1>6, <1>8, <2>1 DEF IInv, TypeOK, OneOwner
  <2>9. NeverEarly' BY <1>1, <1>5, <1>8 DEF IInv, NeverEarly
  <2> QED BY <2>3, <2>4, <2>5, <2>6, <2>7, <2>8, <2>9 DEF IInv
<1> QED BY <1>1, <1>7, <1>8

\* handleRead ends and sets the timerfd for the head of the set.
LEMMA EndHandleReadStep ==
    ASSUME IInv, EndHandleRead
    PROVE IInv'
<1>1. /\ UNCHANGED <<now, heap, mExpired, mTimerSet, mTimerIdMap, expiredTimer,
                     running, mTasks, caller>>
      /\ running = None /\ expiredTimer = {}
      /\ pc' = "idle" /\ resetTimerfd(Earliest(mTimerSet)) /\ failed' \in BOOLEAN
  BY DEF EndHandleRead, Assert
<1>2. /\ Earliest(mTimerSet) \in Times
      /\ \A f \in mTimerSet : Earliest(mTimerSet) <= f[1] /\ f[1] \in Times
  BY HeadOfSet DEF IInv, TypeOK, Pairs
<1>3. /\ alarm' \in Times \cup {None} /\ ready' = FALSE /\ AlarmInv'
      /\ alarm' # None
      /\ \A x \in Times : Earliest(mTimerSet) <= x => alarm' <= x \/ alarm' = now' + 1
  BY <1>1, <1>2, TimerfdIsSet DEF IInv, TypeOK
<1>4. ArmedInTime' BY <1>1, <1>2, <1>3 DEF ArmedInTime
<1>5. Inserting' = Inserting /\ Queued' = Queued /\ Expired' = Expired
  BY <1>1 DEF Inserting, Queued, Expired
<1>6. TypeOK' BY <1>1, <1>3 DEF IInv, TypeOK
<1>7. TaskInv' /\ NewInv' /\ BatchInv' /\ MapInv'
  BY <1>1, <1>5 DEF IInv, TaskInv, NewInv, BatchInv, MapInv, Absent
<1>8. SetAndMapAgree' /\ OneOwner' /\ NeverEarly'
  BY <1>1, <1>5 DEF IInv, SetAndMapAgree, OneOwner, NeverEarly, Pair
<1> QED BY <1>3, <1>4, <1>6, <1>7, <1>8 DEF IInv

\* Time passes.
LEMMA TickStep ==
    ASSUME IInv, Tick
    PROVE IInv'
<1>1. /\ UNCHANGED <<heap, mExpired, mTimerSet, mTimerIdMap, pc, expiredTimer,
                     running, mTasks, caller, failed>>
      /\ now <= Horizon /\ now' = now + 1
      /\ ready' = (ready \/ alarm = now + 1)
      /\ alarm' = IF alarm = now + 1 THEN None ELSE alarm
  BY DEF Tick, loop
<1>2. now \in Nat /\ now' \in 0 .. Horizon + 1
  BY <1>1, HorizonAssumption DEF IInv, TypeOK
<1>3. Inserting' = Inserting /\ Queued' = Queued /\ Expired' = Expired
  BY <1>1 DEF Inserting, Queued, Expired
<1>4. TypeOK' BY <1>1, <1>2 DEF IInv, TypeOK
<1>5. AlarmInv'
  BY <1>1, <1>2, TimesAreNumbers DEF IInv, TypeOK, AlarmInv
<1>6. ArmedInTime'
  <2>1. ASSUME pc = "idle", ~ready', NEW e \in mTimerSet
        PROVE alarm' # None /\ (alarm' <= e[1] \/ alarm' = now' + 1)
    <3>1. ~ready /\ alarm # now + 1 /\ alarm' = alarm BY <1>1, <2>1 DEF IInv, TypeOK
    <3> QED BY <2>1, <3>1 DEF IInv, ArmedInTime
  <2> QED BY <1>1, <2>1 DEF ArmedInTime
<1>7. NeverEarly'
  <2>1. \A t \in Expired : mExpired[t] \in Nat /\ mExpired[t] <= now
    BY Places, TimesAreNumbers DEF IInv, TypeOK, NeverEarly
  <2> QED BY <1>1, <1>2, <1>3, <2>1 DEF NeverEarly
<1>8. TaskInv' /\ NewInv' /\ BatchInv' /\ MapInv'
  BY <1>1, <1>3 DEF IInv, TaskInv, NewInv, BatchInv, MapInv, Absent, Pair
<1>9. SetAndMapAgree' /\ OneOwner'
  BY <1>1, <1>3 DEF IInv, SetAndMapAgree, OneOwner, Pair
<1> QED BY <1>4, <1>5, <1>6, <1>7, <1>8, <1>9 DEF IInv

\* Every step keeps the invariant.
LEMMA NextIInv == IInv /\ [Next]_vars => IInv'
<1> SUFFICES ASSUME IInv, [Next]_vars PROVE IInv' OBVIOUS
<1>1. CASE UNCHANGED vars
  <2>1. UNCHANGED queue /\ failed' \in BOOLEAN /\ TasksShrink
    BY <1>1 DEF vars, queue, TasksShrink, IInv, TypeOK
  <2> QED BY <1>1, <2>1, QueueKept DEF vars
<1>2. CASE Calls
  BY <1>2, RemoveStep, AddTimerStep, ResetStep, ThreadFindStep, ThreadAddTimerStep,
     ThreadResetStep DEF Calls
<1>3. CASE \E th \in Threads : ThreadStep(th) BY <1>3, ThreadStepKeeps
<1>4. CASE LoopStep
  BY <1>4, RunTaskStep, PollStep, FindStep, RunTimerStep, EndTimerStep,
     EndHandleReadStep DEF LoopStep
<1>5. CASE Tick BY <1>5, TickStep
<1> QED BY <1>1, <1>2, <1>3, <1>4, <1>5 DEF Next

-----------------------------------------------------------------------------
(* The queue without other threads.                                        *)

\* Without other threads nothing fails, and the map has no null.
LoopInv ==
    /\ ~failed /\ mTasks = <<>> /\ IsFiniteSet(mTimerSet)
    /\ \A t \in Timers : mTimerIdMap[t] # Null

\* A set with one pair for each timer of T has as many members as T.
LEMMA OnePairEach ==
    ASSUME NEW S, NEW T, IsFiniteSet(S), T = {e[2] : e \in S},
           \A d, e \in S : d[2] = e[2] => d = e
    PROVE Cardinality(S) = Cardinality(T)
<1> DEFINE f == [e \in S |-> e[2]]
<1>1. f \in [S -> T] /\ \A d, e \in S : f[d] = f[e] => d = e OBVIOUS
<1>2. \A t \in T : \E e \in S : f[e] = t OBVIOUS
<1>3. f \in Bijection(S, T)
  <2> HIDE DEF f
  <2> QED BY <1>1, <1>2 DEF Bijection, Injection, Surjection, IsInjective
<1>4. ExistsBijection(S, T) BY <1>3 DEF ExistsBijection
<1> QED BY <1>4, FS_Bijection

\* The assertion that the two containers have the same size.
LEMMA SizesAgree ==
    ASSUME IInv', IsFiniteSet(mTimerSet'), \A t \in Timers : mTimerIdMap'[t] # Null
    PROVE SameSizes
<1> DEFINE S == mTimerSet'  T == {t \in Timers : mTimerIdMap'[t] # None}
<1>1. \A e \in S : e = <<mExpired'[e[2]], e[2]>> BY DEF IInv, SetAndMapAgree, Pair
<1>2. T = {t \in Timers : mTimerIdMap'[t] = t}
  BY NoneAssumption DEF IInv, MapInv
<1>3. T = {e[2] : e \in S} BY <1>2 DEF IInv, SetAndMapAgree, Queued
<1>4. \A d, e \in S : d[2] = e[2] => d = e BY <1>1
<1>5. IsFiniteSet(S) OBVIOUS
<1>6. Cardinality(S) = Cardinality(T)
  <2> HIDE DEF S, T
  <2> QED BY <1>3, <1>4, <1>5, OnePairEach
<1> QED BY <1>6 DEF SameSizes

\* deleteTimer is given a timer that is in the queue.
LEMMA LoopRemove ==
    ASSUME IInv, IInv', LoopInv, NEW t \in Timers, mTimerIdMap[t] # None,
           deleteTimer(mTimerIdMap[t]), mTasks' = mTasks
    PROVE LoopInv'
<1>1. mTimerIdMap[t] = t /\ t \in Queued /\ heap[t] = "live"
  BY Places DEF IInv, MapInv, SetAndMapAgree, LoopInv
<1>2. Usable(t) BY <1>1 DEF Usable
<1>3. /\ mTimerSet' = mTimerSet \ {Pair(t)}
      /\ mTimerIdMap' = [mTimerIdMap EXCEPT ![t] = None]
      /\ failed' = ~SameSizes
  BY <1>1, <1>2 DEF deleteTimer, Assert
<1>4. IsFiniteSet(mTimerSet') BY <1>3, FS_RemoveElement DEF LoopInv
<1>5. \A u \in Timers : mTimerIdMap'[u] # Null
  BY <1>3, NoneAssumption DEF LoopInv, IInv, TypeOK
<1>6. SameSizes BY <1>4, <1>5, SizesAgree
<1> QED BY <1>3, <1>4, <1>5, <1>6 DEF LoopInv

\* AddTimer is given a timer that the map does not know.
LEMMA LoopAdd ==
    ASSUME IInv, IInv', LoopInv, NEW t \in Timers, NEW ts, AddTimer(t, ts)
    PROVE LoopInv'
<1>1. /\ mTimerSet' = mTimerSet \cup {<<ts, t>>} /\ mTasks' = mTasks
      /\ mTimerIdMap' = [mTimerIdMap EXCEPT ![t] = t]
      /\ failed' = ~(Absent(t) /\ SameSizes) /\ heap[t] = "fresh"
  BY DEF AddTimer, Allocate, insert, Assert
<1>2. IsFiniteSet(mTimerSet') BY <1>1, FS_AddElement DEF LoopInv
<1>3. \A u \in Timers : mTimerIdMap'[u] # Null
  BY <1>1, NoneAssumption DEF LoopInv, IInv, TypeOK
<1>4. SameSizes BY <1>2, <1>3, SizesAgree
<1>5. Absent(t) BY <1>1 DEF IInv, NewInv
<1> QED BY <1>1, <1>2, <1>3, <1>4, <1>5 DEF LoopInv

\* ResetTimer never meets a null.
LEMMA LoopReset ==
    ASSUME IInv, IInv', LoopInv, NEW t \in Timers, NEW ts, ResetTimer(t, ts)
    PROVE LoopInv'
<1>1. resetTimer(t, ts) /\ mTasks' = mTasks BY DEF ResetTimer
<1>2. CASE UNCHANGED <<queue, failed>> BY <1>1, <1>2 DEF LoopInv, queue
<1>3. CASE mTimerIdMap[t] = Null BY <1>3 DEF LoopInv
<1>4. CASE /\ mTimerSet' = (mTimerSet \ {Pair(t)}) \cup {<<ts, t>>}
           /\ UNCHANGED mTimerIdMap /\ failed' = ~SameSizes
  <2>1. IsFiniteSet(mTimerSet')
    BY <1>4, FS_RemoveElement, FS_AddElement DEF LoopInv
  <2>2. SameSizes BY <1>4, <2>1, SizesAgree DEF LoopInv
  <2> QED BY <1>1, <1>4, <2>1, <2>2 DEF LoopInv
<1> QED BY <1>1, <1>2, <1>3, <1>4 DEF resetTimer, Assert

\* The steps of handleRead.
LEMMA LoopHandles ==
    ASSUME IInv, IInv', LoopInv, findExpiredTimer \/ EndTimer \/ EndHandleRead
    PROVE LoopInv'
<1>1. CASE findExpiredTimer
  <2>1. /\ mTimerSet' = mTimerSet \ Due /\ mTasks' = mTasks
        /\ \A t \in Timers : mTimerIdMap'[t] \in {None, mTimerIdMap[t]}
        /\ failed' = ~SameSizes
    BY <1>1 DEF findExpiredTimer, Assert
  <2>2. IsFiniteSet(mTimerSet') BY <2>1, FS_Difference DEF LoopInv
  <2>3. \A t \in Timers : mTimerIdMap'[t] # Null
    BY <2>1, NoneAssumption DEF LoopInv
  <2>4. SameSizes BY <2>2, <2>3, SizesAgree
  <2> QED BY <2>1, <2>2, <2>3, <2>4 DEF LoopInv
<1>2. CASE EndTimer
  <2>1. running \in Timers /\ UNCHANGED <<mTasks, failed>>
    BY <1>2 DEF EndTimer, IInv, TypeOK
  <2>2. \/ /\ mTimerSet' = mTimerSet \cup {<<now + Interval, running>>}
           /\ mTimerIdMap' = [mTimerIdMap EXCEPT ![running] = running]
        \/ UNCHANGED <<mTimerSet, mTimerIdMap>>
    BY <1>2 DEF EndTimer
  <2>3. IsFiniteSet(mTimerSet') BY <2>2, FS_AddElement DEF LoopInv
  <2>4. \A t \in Timers : mTimerIdMap'[t] # Null
    BY <2>1, <2>2, NoneAssumption DEF LoopInv, IInv, TypeOK
  <2> QED BY <2>1, <2>3, <2>4 DEF LoopInv
<1>3. CASE EndHandleRead
  <2>1. UNCHANGED <<mTimerSet, mTimerIdMap, mTasks>> /\ failed' = ~SameSizes
    BY <1>3 DEF EndHandleRead, Assert
  <2>2. SameSizes BY <2>1, SizesAgree DEF LoopInv
  <2> QED BY <2>1, <2>2 DEF LoopInv
<1> QED BY <1>1, <1>2, <1>3

LEMMA InitLoopInv == Init => LoopInv
BY NoneAssumption, FS_EmptySet DEF Init, LoopInv

LEMMA NextLoopInv ==
    ASSUME Threads = {}
    PROVE IInv /\ IInv' /\ LoopInv /\ [Next]_vars => LoopInv'
<1> SUFFICES ASSUME IInv, IInv', LoopInv, [Next]_vars PROVE LoopInv' OBVIOUS
<1>1. CASE UNCHANGED vars BY <1>1 DEF vars, LoopInv
<1>2. CASE Calls
  <2>1. PICK t \in Timers :
           Remove(t) \/ \E ts \in 0 .. Horizon : AddTimer(t, ts) \/ ResetTimer(t, ts)
    BY <1>2 DEF Calls
  <2>2. CASE Remove(t)
    <3>1. CASE mTimerIdMap[t] = None
      BY <2>2, <3>1 DEF Remove, LoopInv, queue
    <3>2. CASE mTimerIdMap[t] # None BY <2>2, <3>2, LoopRemove DEF Remove
    <3> QED BY <3>1, <3>2
  <2> QED BY <2>1, <2>2, LoopAdd, LoopReset
<1>3. CASE \E th \in Threads : ThreadStep(th) BY <1>3
<1>4. CASE LoopStep
  <2>1. CASE RunTask BY <2>1 DEF RunTask, LoopInv
  <2>2. CASE Poll \/ RunTimer BY <2>2 DEF Poll, RunTimer, LoopInv, queue
  <2> QED BY <1>4, <2>1, <2>2, LoopHandles DEF LoopStep
<1>5. CASE Tick BY <1>5 DEF Tick, LoopInv
<1> QED BY <1>1, <1>2, <1>3, <1>4, <1>5 DEF Next

-----------------------------------------------------------------------------
(* Theorems.                                                               *)

\* The invariant is inductive: it holds of every state of the queue.
THEOREM Inductive == Spec => []IInv
BY InitIInv, NextIInv, PTL DEF Spec

\* The set and the map hold the same timers, whatever callbacks and other
\* threads do to the queue (TimerQueue.h:65-67).
THEOREM SetAndMapHoldTheSame == Spec => []SetAndMapAgree
<1>1. IInv => SetAndMapAgree BY DEF IInv
<1> QED BY <1>1, Inductive, PTL

\* Every timer allocated has exactly one owner (TimerQueue.h:25-26), until a
\* wrong pointer is used: none leaks, and the loop frees none that is owned
\* elsewhere.  Two Removes of other threads may still free one twice.
THEOREM TimersHaveOneOwner == Spec => []OneOwner
<1>1. IInv => OneOwner BY DEF IInv
<1> QED BY <1>1, Inductive, PTL

\* No timer is run before its time (TimerQueue::handleRead).
THEOREM NoTimerIsEarly == Spec => []NeverEarly
<1>1. IInv => NeverEarly BY DEF IInv
<1> QED BY <1>1, Inductive, PTL

\* Between two events the timerfd expires in time for every timer, although
\* it is set only when the head of the set changes (TimerQueue.cpp:115-118).
THEOREM TimerfdIsInTime == Spec => []ArmedInTime
<1>1. IInv => ArmedInTime BY DEF IInv
<1> QED BY <1>1, Inductive, PTL

\* A timer that another thread has added is not in the map when it comes to
\* the set: the first assertion of insert (TimerQueue.cpp:112) never fails.
THEOREM InsertedOnce == Spec => [](\A t \in Inserting : Absent(t))
<1>1. IInv => \A t \in Inserting : Absent(t) BY Places DEF Absent
<1> QED BY <1>1, Inductive, PTL

\* Used in its own loop only, callbacks included, the queue never fails: no
\* timer is freed twice or used when it is gone, no null is met, and all the
\* assertions on the sizes hold.
THEOREM LoopAloneNeverFails == ASSUME Threads = {} PROVE Spec => []~failed
<1>1. LoopInv => ~failed BY DEF LoopInv
<1>2. IInv /\ IInv' /\ LoopInv /\ [Next]_vars => LoopInv' BY NextLoopInv
<1> QED BY <1>1, <1>2, InitLoopInv, Inductive, PTL DEF Spec
=============================================================================
