------------------------------ MODULE TcpServer ------------------------------
(***************************************************************************)
(* The life of the connections of a net::TcpServer: the acceptor and the   *)
(* map of connections live in the main loop's thread, each connection      *)
(* belongs to one of the N io loops, and the loops reach one another only  *)
(* by queueing tasks.  A connection is accepted, established in its io     *)
(* loop, closed there, taken off the map in the main loop, and destroyed   *)
(* in its io loop; its descriptor is closed when the last shared_ptr goes. *)
(*                                                                         *)
(* A loop is what EventLoop promises: a FIFO of tasks, taken as a batch.   *)
(* The closures of a batch, and the references they hold, live until the   *)
(* batch has ended.  Which events epoll reports, what a read or a write of *)
(* a socket returns, and what the user's callbacks do with the calls in    *)
(* Usage is left open.  A failed assertion or the use of a freed           *)
(* connection ends the program: "failed" names it.                         *)
(***************************************************************************)
EXTENDS Naturals, Sequences, Functions, FiniteSets

CONSTANTS N,         \* number of io loops (LoopThreadPool)
          Conns,     \* the TcpConnection objects that may be made (bound)
          Fds,       \* the descriptors the kernel may hand out (bound)
          None,
          Usage      \* what the user's code does, see UsageAssumption

Open == {"CONNECTING", "CONNECTED"}
States == Open \cup {"CLOSING", "CLOSED"}
Updates == [op : {"insert", "erase"}, conn : Conns]   \* of connMap

ASSUME NAssumption == N \in Nat \ {0}
ASSUME NoneAssumption == None \notin Conns \cup Fds \cup States \cup Updates
ASSUME UsageAssumption ==
    Usage \subseteq {"sendInMessage",     \* onMessage calls conn->Send()
                     "closeOnComplete",   \* onWriteComplete: server.Close(conn)
                     "sendInConnect",     \* onConnect calls conn->Send()
                     "sendFromThread",    \* another thread: conn->Send()
                     "closeFromThread",   \* another thread: conn->Close()
                     "destroyServer"}     \* main ends with connections open

Main == 0
Io == 1 .. N
Loops == 0 .. N

VARIABLES
    fd, loop,     \* mSocket and mLoop of each connection; None: not made yet
    state,        \* mState
    interest,     \* mEvent of its channel: in and out carry EPOLLET, et is
                  \* EPOLLET alone, none is 0 (idle)
    freed,        \* connections whose destructor has run
    connMap,      \* TcpServer::connMap, by descriptor
    writing,      \* the main thread inside an update of connMap
    lookup,       \* an io loop inside TcpServer::Close
    channelMap,   \* Poller::channelMap of each loop, by descriptor
    index,        \* LoopThreadPool::getNextLoop
    phase,        \* poll -> events -> tasks -> poll of each loop; main: gone
    active,       \* harvested events still to be handled
    queue,        \* mTasks of each loop
    batch, held,  \* doTask's vector: tasks to run; connections of those run
    user,         \* another thread's use of each connection (once, bound):
                  \* none, holds a shared_ptr, done
    failed

connVars == <<fd, loop>>
mapVars == <<connMap, writing, lookup, index>>
loopVars == <<phase, active, batch, held>>
vars == <<connVars, state, interest, freed, mapVars, channelMap, loopVars,
          queue, user, failed>>

Task == [op : {"Established", "sendInLoop", "closeInLoop", "writeComplete",
               "handleClose", "removeInLoop", "Destroy"},
         conn : Conns]

\* Send and Close of another thread bind the bare this; every other closure
\* binds a shared_ptr (TcpConnection.cpp:45,52).
Bare == {"sendInLoop", "closeInLoop"}

Made == {c \in Conns : fd[c] # None}

TypeOK ==
    /\ fd \in [Conns -> Fds \cup {None}]
    /\ loop \in [Conns -> Io \cup {None}]
    /\ state \in [Conns -> States \cup {None}]
    /\ interest \in [Conns -> {"none", "in", "out", "et"}]
    /\ freed \subseteq Made /\ user \in [Conns -> {"none", "holds", "done"}]
    /\ connMap \in [Fds -> Conns \cup {None}]
    /\ writing \in Updates \cup {None}
    /\ lookup \in [Io -> [conn : Conns, found : BOOLEAN] \cup {None}]
    /\ channelMap \in [Io -> [Fds -> Conns \cup {None}]]
    /\ index \in Io
    /\ phase \in [Loops -> {"poll", "events", "tasks", "gone"}]
    /\ active \in [Io -> SUBSET [conn : Conns, kind : {"read", "write", "hup"}]]
    /\ queue \in [Loops -> Seq(Task)] /\ batch \in [Loops -> Seq(Task)]
    /\ held \in [Loops -> SUBSET Conns]
    /\ failed \in {"no", "Add", "Mod", "Delete", "isIdle", "erase",
                   "~Channel", "use after free"}

Init ==
    /\ fd = [c \in Conns |-> None] /\ loop = [c \in Conns |-> None]
    /\ state = [c \in Conns |-> None]
    /\ interest = [c \in Conns |-> "none"]
    /\ freed = {} /\ user = [c \in Conns |-> "none"]
    /\ connMap = [f \in Fds |-> None] /\ writing = None
    /\ lookup = [l \in Io |-> None]
    /\ channelMap = [l \in Io |-> [f \in Fds |-> None]]
    /\ index = 1
    /\ phase = [l \in Loops |-> "poll"]
    /\ active = [l \in Io |-> {}]
    /\ queue = [l \in Loops |-> <<>>] /\ batch = [l \in Loops |-> <<>>]
    /\ held = [l \in Loops |-> {}]
    /\ failed = "no"

-----------------------------------------------------------------------------
(* Building blocks.  A handler changes state, interest, queue, channelMap  *)
(* and failed, the last of which an abort names.                           *)

\* A failed assertion ends the program.
Running == failed = "no"

At(l, p) == Running /\ phase[l] = p

Registered(c) == channelMap[loop[c]][fd[c]] # None

Enqueue(l, op, c) ==
    queue' = [queue EXCEPT ![l] = Append(@, [op |-> op, conn |-> c])]

Abort(why) == failed' = why /\ UNCHANGED <<state, interest, queue, channelMap>>

\* Poller::Add, Mod and Delete.  The assertion of Mod is that the descriptor
\* is known; Established and Destroy have those of the others.
Put(c, d) == channelMap' = [channelMap EXCEPT ![loop[c]][fd[c]] = d]

Add(c) == Put(c, c)

Mod(c) ==
    \/ Registered(c) /\ Put(c, c) /\ UNCHANGED failed
    \/ ~Registered(c) /\ failed' = "Mod" /\ UNCHANGED channelMap

Delete(c) == Put(c, None)

\* Channel::Enable..., Disable...: set mEvent, then Mod.
SetInterest(c, i) ==
    /\ interest' = [interest EXCEPT ![c] = i]
    /\ Mod(c)

SetState(c, s) == state' = [state EXCEPT ![c] = s]

\* What a shared_ptr refers to after a step: the map, the closures queued and
\* those of the batches, the connection being inserted, another thread's.
Referenced ==
    LET tasks == UNION {Range(queue'[l]) \cup Range(batch'[l]) : l \in Loops} IN
    {t.conn : t \in {u \in tasks : u.op \notin Bare}}
      \cup (UNION {held'[l] : l \in Loops})
      \cup Range(connMap')
      \cup (IF writing = None THEN {} ELSE {writing.conn})
      \cup {c \in Conns : user'[c] = "holds"}

\* A connection nothing refers to any more is destructed in the step that
\* drops the last reference: its descriptor is closed, and ~Channel asserts
\* that it was removed from its loop.
Release ==
    LET gone == (Made \ freed) \ Referenced IN
    /\ freed' = freed \cup gone
    /\ failed' = IF \E c \in gone : state[c] # "CLOSED" THEN "~Channel"
                                                       ELSE failed

-----------------------------------------------------------------------------
(* Faulty variants of definitions below, for testing the properties: each  *)
(* is what a plausible mistake in the code would do.                       *)

\* handleClose does not look at mState.
Fault_CloseUnguarded(c) ==
    /\ SetState(c, "CLOSING")
    /\ SetInterest(c, "none")
    /\ Enqueue(Main, "removeInLoop", c)

\* handleClose does not call closeCallback.
Fault_CloseSilent(c) ==
    \/ /\ state[c] \in Open
       /\ SetState(c, "CLOSING")
       /\ SetInterest(c, "none")
       /\ UNCHANGED queue
    \/ /\ state[c] \notin Open
       /\ UNCHANGED <<state, interest, queue, channelMap, failed>>

\* Destroy forgets Channel::Remove.
Fault_DestroyKeepsChannel(c) ==
    \/ interest[c] # "none" /\ Abort("isIdle")
    \/ /\ interest[c] = "none"
       /\ SetState(c, "CLOSED")
       /\ UNCHANGED <<interest, queue, channelMap, failed>>

\* removeInLoop erases nothing.
Fault_Erased(f) == connMap

-----------------------------------------------------------------------------
(* TcpConnection, in the thread of its io loop.                            *)

handleClose(c) ==
    \/ /\ state[c] \in Open
       /\ SetState(c, "CLOSING")
       /\ SetInterest(c, "none")
       /\ Enqueue(Main, "removeInLoop", c)
    \/ /\ state[c] \notin Open
       /\ UNCHANGED <<state, interest, queue, channelMap, failed>>

\* sendMessage wrote everything, filled the socket's buffer, or failed.
sendInLoop(c) ==
    \/ /\ Enqueue(loop[c], "writeComplete", c)
       /\ UNCHANGED <<state, interest, channelMap, failed>>
    \/ SetInterest(c, "out") /\ UNCHANGED <<state, queue>>
    \/ handleClose(c)

\* End of file or error; or data, which the user consumes and may answer.
handleRead(c) ==
    \/ handleClose(c)
    \/ UNCHANGED <<state, interest, queue, channelMap, failed>>
    \/ "sendInMessage" \in Usage /\ sendInLoop(c)

\* DisableWrite clears EPOLLOUT and leaves the rest of mEvent as it is.
handleWrite(c) ==
    \/ /\ Enqueue(loop[c], "writeComplete", c)
       /\ SetInterest(c, IF interest[c] = "out" THEN "et" ELSE interest[c])
       /\ UNCHANGED state
    \/ UNCHANGED <<state, interest, queue, channelMap, failed>>
    \/ handleClose(c)

\* The channel is added, EnableRead, the user's onConnect, and mState at the end,
\* whatever onConnect has done to it.
Established(c) ==
    \/ Registered(c) /\ Abort("Add")
    \/ /\ ~Registered(c)
       /\ Add(c)
       /\ SetState(c, "CONNECTED")
       /\ UNCHANGED failed
       /\ \/ /\ interest' = [interest EXCEPT ![c] = "in"]
             /\ UNCHANGED queue
          \/ /\ "sendInConnect" \in Usage
             /\ \/ /\ interest' = [interest EXCEPT ![c] = "in"]
                   /\ Enqueue(loop[c], "writeComplete", c)
                \/ /\ interest' = [interest EXCEPT ![c] = "out"]
                   /\ UNCHANGED queue
                \/ /\ state[c] \in Open
                   /\ interest' = [interest EXCEPT ![c] = "none"]
                   /\ Enqueue(Main, "removeInLoop", c)

\* The two assertions before the channel leaves the poller.
Destroy(c) ==
    \/ interest[c] # "none" /\ Abort("isIdle")
    \/ interest[c] = "none" /\ ~Registered(c) /\ Abort("Delete")
    \/ /\ interest[c] = "none" /\ Registered(c)
       /\ Delete(c)
       /\ SetState(c, "CLOSED")
       /\ UNCHANGED <<interest, queue, failed>>

-----------------------------------------------------------------------------
(* The io loops.                                                           *)

\* What epoll may report of a registered channel.  EPOLLHUP comes whatever
\* the mask; a closed descriptor has left the epoll set.
Events(l) ==
    {e \in [conn : Range(channelMap[l]) \ ({None} \cup freed),
            kind : {"read", "write", "hup"}] :
        \/ e.kind = "hup"
        \/ e.kind = "read" /\ interest[e.conn] = "in"
        \/ e.kind = "write" /\ interest[e.conn] = "out"}

\* Poller::poll returns with any of them, or with none (a wakeup, a signal).
Poll(l) ==
    /\ At(l, "poll")
    /\ phase' = [phase EXCEPT ![l] = "events"]
    /\ IF l = Main THEN UNCHANGED active
       ELSE \E S \in SUBSET Events(l) :
              /\ \A d, e \in S : d.conn = e.conn => d = e
              /\ active' = [active EXCEPT ![l] = S]
    /\ UNCHANGED <<connVars, state, interest, freed, mapVars, channelMap,
                   batch, held, queue, user, failed>>

\* Channel::HandleEvent on the bare Channel* that epoll returned.
HandleEvent(l) ==
    /\ At(l, "events")
    /\ \E e \in active[l] :
          /\ active' = [active EXCEPT ![l] = @ \ {e}]
          /\ \/ e.conn \in freed /\ Abort("use after free")
             \/ /\ e.conn \notin freed
                /\ \/ e.kind = "read" /\ handleRead(e.conn)
                   \/ e.kind = "write" /\ handleWrite(e.conn)
                   \/ e.kind = "hup" /\ handleClose(e.conn)
    /\ UNCHANGED <<connVars, freed, mapVars, phase, batch, held, user>>

\* EventLoop::doTask takes the queue.
SwapTasks(l) ==
    /\ At(l, "events")
    /\ l \in Io => active[l] = {}
    /\ l = Main => writing = None
    /\ batch' = [batch EXCEPT ![l] = queue[l]]
    /\ queue' = [queue EXCEPT ![l] = <<>>]
    /\ phase' = [phase EXCEPT ![l] = "tasks"]
    /\ UNCHANGED <<connVars, state, interest, freed, mapVars, channelMap,
                   active, held, user, failed>>

\* Take the next task of the batch; its closure keeps its references.
NextTask(l, t) ==
    /\ At(l, "tasks") /\ batch[l] # <<>> /\ t = Head(batch[l])
    /\ batch' = [batch EXCEPT ![l] = Tail(@)]
    /\ held' = [held EXCEPT ![l] = IF t.op \in Bare THEN @ ELSE @ \cup {t.conn}]

RunTask(l) ==
    /\ lookup[l] = None
    /\ \E t \in Range(batch[l]) :
          /\ NextTask(l, t)
          /\ \/ t.conn \in freed /\ Abort("use after free")
             \/ /\ t.conn \notin freed
                /\ \/ t.op = "Established" /\ Established(t.conn)
                   \/ t.op = "sendInLoop" /\ sendInLoop(t.conn)
                   \/ t.op = "handleClose" /\ handleClose(t.conn)
                   \/ t.op = "Destroy" /\ Destroy(t.conn)
                   \* shutdown of the socket, or a callback that does nothing
                   \/ /\ t.op \in {"closeInLoop", "writeComplete"}
                      /\ UNCHANGED <<state, interest, queue, channelMap, failed>>
    /\ UNCHANGED <<connVars, freed, mapVars, phase, active, user>>

\* onWriteComplete calls TcpServer::Close: find in connMap, from this thread.
\* While the main thread updates the map, the search may go either way.
BeginClose(l) ==
    /\ "closeOnComplete" \in Usage /\ lookup[l] = None
    /\ \E t \in Range(batch[l]) :
          /\ NextTask(l, t) /\ t.op = "writeComplete"
          /\ \E b \in BOOLEAN :
                /\ writing = None => b = (connMap[fd[t.conn]] # None)
                /\ lookup' = [lookup EXCEPT ![l] = [conn |-> t.conn, found |-> b]]
    /\ UNCHANGED <<connVars, state, interest, freed, connMap, writing, index,
                   channelMap, phase, active, queue, user, failed>>

\* The rest of TcpServer::Close: handleClose is queued if it was found.
EndClose(l) ==
    /\ Running /\ lookup[l] # None
    /\ IF lookup[l].found THEN Enqueue(loop[lookup[l].conn], "handleClose",
                                       lookup[l].conn)
                          ELSE UNCHANGED queue
    /\ lookup' = [lookup EXCEPT ![l] = None]
    /\ UNCHANGED <<connVars, state, interest, freed, connMap, writing, index,
                   channelMap, loopVars, user, failed>>

\* The end of doTask: the closures of the batch are destroyed.
EndBatch(l) ==
    /\ At(l, "tasks") /\ batch[l] = <<>>
    /\ IF l = Main THEN writing = None ELSE lookup[l] = None
    /\ phase' = [phase EXCEPT ![l] = "poll"]
    /\ held' = [held EXCEPT ![l] = {}]
    /\ UNCHANGED <<connVars, state, interest, mapVars, channelMap, active,
                   batch, queue, user>>
    /\ Release

-----------------------------------------------------------------------------
(* The main loop: Acceptor, newConnection, removeInLoop.                   *)

\* The loops take turns; the index is that of the next one.
getNextLoop == (index % N) + 1

Erased(f) == [connMap EXCEPT ![f] = None]

\* Acceptor::handlerRead accepts on a free descriptor; newConnection picks
\* the io loop and starts to insert into connMap.
newConnection(c, f) ==
    /\ At(Main, "events") /\ writing = None
    /\ c \notin Made /\ f \notin {fd[d] : d \in Made \ freed}
    /\ fd' = [fd EXCEPT ![c] = f]
    /\ loop' = [loop EXCEPT ![c] = index]
    /\ index' = getNextLoop
    /\ writing' = [op |-> "insert", conn |-> c]
    /\ UNCHANGED <<state, interest, freed, connMap, lookup, channelMap,
                   loopVars, queue, user, failed>>

EndInsert ==
    /\ Running /\ writing # None /\ writing.op = "insert"
    /\ LET c == writing.conn IN
       /\ connMap' = [connMap EXCEPT ![fd[c]] = c]
       /\ SetState(c, "CONNECTING")
       /\ Enqueue(loop[c], "Established", c)
    /\ writing' = None
    /\ UNCHANGED <<connVars, interest, freed, lookup, index, channelMap,
                   loopVars, user, failed>>

\* removeInLoop: erase by descriptor, assert that something was erased, then
\* queue Destroy in the io loop.
removeInLoop ==
    /\ writing = None
    /\ \E t \in Range(batch[Main]) :
          /\ NextTask(Main, t) /\ t.op = "removeInLoop"
          /\ writing' = [op |-> "erase", conn |-> t.conn]
    /\ UNCHANGED <<connVars, state, interest, freed, connMap, lookup, index,
                   channelMap, phase, active, queue, user, failed>>

EndErase ==
    /\ Running /\ writing # None /\ writing.op = "erase"
    /\ LET c == writing.conn IN
       /\ connMap' = Erased(fd[c])
       /\ failed' = IF connMap[fd[c]] = None THEN "erase" ELSE failed
       /\ Enqueue(loop[c], "Destroy", c)
    /\ writing' = None
    /\ UNCHANGED <<connVars, state, interest, freed, lookup, index, channelMap,
                   loopVars, user>>

\* ~TcpServer after the main loop has returned: Established, again, for each
\* connection of the map, and then the map is gone.
DestroyServer ==
    /\ "destroyServer" \in Usage
    /\ At(Main, "poll")
    /\ phase' = [phase EXCEPT ![Main] = "gone"]
    /\ \E order \in {s \in [1 .. Cardinality(Range(connMap) \ {None}) ->
                               Range(connMap) \ {None}] : IsInjective(s)} :
          queue' = [l \in Loops |-> queue[l] \o
                      LET mine(c) == loop[c] = l IN
                      [i \in DOMAIN SelectSeq(order, mine) |->
                         [op |-> "Established",
                          conn |-> SelectSeq(order, mine)[i]]]]
    /\ connMap' = [f \in Fds |-> None]
    /\ UNCHANGED <<connVars, state, interest, freed, writing, lookup, index,
                   channelMap, active, batch, held, user, failed>>

-----------------------------------------------------------------------------
(* Another thread: a callback of the connection hands it a shared_ptr; it  *)
(* calls Send or Close, and lets go of the pointer.                        *)

Share(c) ==
    /\ Usage \cap {"sendFromThread", "closeFromThread"} # {}
    /\ Running /\ user[c] = "none" /\ c \in Made \ freed
    /\ [conn |-> c, kind |-> "read"] \in active[loop[c]]
    /\ user' = [user EXCEPT ![c] = "holds"]
    /\ UNCHANGED <<connVars, state, interest, freed, mapVars, channelMap,
                   loopVars, queue, failed>>

CallAndDrop(c) ==
    /\ Running /\ user[c] = "holds"
    /\ \/ "sendFromThread" \in Usage /\ Enqueue(loop[c], "sendInLoop", c)
       \/ "closeFromThread" \in Usage /\ Enqueue(loop[c], "closeInLoop", c)
    /\ user' = [user EXCEPT ![c] = "done"]
    /\ UNCHANGED <<connVars, state, interest, mapVars, channelMap, loopVars>>
    /\ Release

-----------------------------------------------------------------------------
IoStep(l) ==
    \/ Poll(l) \/ HandleEvent(l) \/ SwapTasks(l) \/ RunTask(l)
    \/ BeginClose(l) \/ EndClose(l) \/ EndBatch(l)

MainStep ==
    \/ Poll(Main) \/ SwapTasks(Main) \/ EndBatch(Main)
    \/ EndInsert \/ removeInLoop \/ EndErase

\* A failed assertion has ended the program.
Aborted == ~Running /\ UNCHANGED vars

Next ==
    \/ \E l \in Io : IoStep(l)
    \/ MainStep \/ DestroyServer \/ Aborted
    \/ \E c \in Conns, f \in Fds : newConnection(c, f)
    \/ \E c \in Conns : Share(c) \/ CallAndDrop(c)

Spec == Init /\ [][Next]_vars

\* Every loop's thread is scheduled; nothing is assumed of the peers.
FairSpec ==
    /\ Spec
    /\ \A l \in Io : WF_vars(IoStep(l))
    /\ WF_vars(MainStep)

-----------------------------------------------------------------------------
(* Properties.                                                             *)

\* No assertion fails and no freed connection is used: Poller.cpp:49, 62, 76
\* and 77, TcpConnection.cpp:151, TcpServer.cpp:84, Channel.cpp:30.
NoFailure == failed = "no"

\* TcpConnection.cpp:39, 可以被其他线程调用: another thread may call Send.  No
\* task runs and no event is handled on a connection that was destructed.
NoUseAfterFree == failed # "use after free"

\* No poller keeps the Channel* of a destructed connection, and what it
\* keeps for a descriptor is the connection of its own loop that has it.
NoDanglingChannel ==
    \A l \in Io, f \in Fds : LET c == channelMap[l][f] IN
        c # None => c \notin freed /\ loop[c] = l /\ fd[c] = f

\* The tasks that carry c from handleClose to its destruction.
Pending(c) ==
    UNION {{l} \X {i \in DOMAIN (batch[l] \o queue[l]) :
                     LET t == (batch[l] \o queue[l])[i]
                     IN t.conn = c /\ t.op \in {"removeInLoop", "Destroy"}} : l \in Loops}

\* One hand-over at a time: a connection that is closing is on its way to
\* being erased or destroyed exactly once, one that is not is on none.
RemovedOnce ==
    \A c \in Made :
        Cardinality(Pending(c))
          + (IF writing = [op |-> "erase", conn |-> c] THEN 1 ELSE 0)
          = (IF state[c] = "CLOSING" THEN 1 ELSE 0)

\* connMap, read by TcpServer::Close and written in the main loop, agrees
\* with the life of the connections: an open one can be found by its
\* descriptor, and none that is found has been destroyed.
MapIsAccurate ==
    /\ \A f \in Fds : connMap[f] # None =>
          fd[connMap[f]] = f /\ state[connMap[f]] \in Open \cup {"CLOSING"}
    /\ \A c \in Made : state[c] \in Open => connMap[fd[c]] = c

\* TcpServer implements ConnLife: over io loop, main loop and io loop again a
\* connection passes its stages once and in order (TcpConnection.h:29-34), it
\* is in the map before it takes events and erased before it is destroyed,
\* and its descriptor is not handed out again before it is destructed.
Stage(c) ==
    CASE fd[c] = None -> "unborn"
      [] c \in freed -> "gone"
      [] fd[c] # None /\ state[c] \in {None, "CONNECTING"} -> "accepted"
      [] state[c] = "CONNECTED" -> "open"
      [] state[c] = "CLOSING" -> "closing"
      [] state[c] = "CLOSED" /\ c \notin freed -> "closed"

Holder(f) ==
    IF \E c \in Made \ freed : fd[c] = f THEN CHOOSE c \in Made \ freed : fd[c] = f
                                        ELSE None

Life == INSTANCE ConnLife WITH stage <- [c \in Conns |-> Stage(c)],
                               holder <- [f \in Fds |-> Holder(f)],
                               map <- connMap

ImplementsConnLife == Life!Spec

\* TcpServer.cpp:57,80: the checks of the thread keep connMap free of
\* concurrent use.
ConnMapExclusive == ~(writing # None /\ \E l \in Io : lookup[l] # None)

\* A connection that begins to close is destructed, its descriptor closed.
ClosingIsFreed == \A c \in Conns : (state[c] = "CLOSING") ~> (c \in freed)

-----------------------------------------------------------------------------
(* The inductive invariant, of the calls that HttpServer makes.            *)

HttpUsage == Usage \subseteq {"sendInMessage", "closeOnComplete"}

\* What each loop is still to run, this turn and later.
All == [l \in Loops |-> batch[l] \o queue[l]]

\* F has no task of c among ops; it has one, op in loop l.
NoTask(F, c, ops) ==
    \A l \in Loops : \A i \in DOMAIN F[l] : F[l][i].conn = c => F[l][i].op \notin ops

OneTask(F, c, ops, l, op) ==
    \E i \in DOMAIN F[l] :
      /\ F[l][i] = [op |-> op, conn |-> c]
      /\ \A k \in Loops : \A j \in DOMAIN F[k] :
            F[k][j].conn = c /\ F[k][j].op \in ops => k = l /\ j = i

Ops == {"Established", "writeComplete", "handleClose", "removeInLoop", "Destroy"}
Steps == {"Established", "removeInLoop", "Destroy"}

\* A task t of loop l is of a living connection, in the loop it belongs to.
Fits(l, t) ==
    /\ t.conn \in Made \ freed
    /\ IF l = Main THEN t.op = "removeInLoop"
                   ELSE loop[t.conn] = l /\ t.op \in Ops \ {"removeInLoop"}

TaskInv ==
    \A l \in Loops :
      /\ \A i \in DOMAIN All[l] : Fits(l, All[l][i])
      /\ held[l] \subseteq Made \ freed

PhaseInv ==
    /\ \A l \in Loops :
          /\ phase[l] # "gone"
          /\ phase[l] # "tasks" => batch[l] = <<>> /\ held[l] = {}
    /\ \A l \in Io :
          /\ phase[l] # "events" => active[l] = {}
          /\ lookup[l] # None => LET c == lookup[l].conn IN
                /\ phase[l] = "tasks" /\ c \in held[l] /\ loop[c] = l
                /\ state[c] \notin {None, "CONNECTING"}
    /\ writing # None =>
          /\ writing.conn \in Made
          /\ writing.op = "insert" => phase[Main] = "events" /\ state[writing.conn] = None
          /\ writing.op = "erase" => phase[Main] = "tasks" /\ state[writing.conn] = "CLOSING"
    /\ \A c \in Conns : user[c] = "none"

\* An event harvested is of a connection that is still registered.
EventInv ==
    \A l \in Io : \A e \in active[l] :
      /\ fd[e.conn] \in Fds /\ channelMap[l][fd[e.conn]] = e.conn
      /\ e.kind = "read" => interest[e.conn] = "in"
      /\ e.kind = "write" => interest[e.conn] = "out"
      /\ \A d \in active[l] : d.conn = e.conn => d = e

\* A descriptor has one holder; the map finds connections by theirs.
HolderInv ==
    /\ \A c, d \in Made \ freed : fd[c] = fd[d] => c = d
    /\ \A f \in Fds : connMap[f] # None => fd[connMap[f]] = f
    /\ \A c \in Made : loop[c] \in Io
    /\ \A c \in Conns \ Made : state[c] = None /\ interest[c] = "none"

\* The stages of a connection: what is known of it in each, and the one task,
\* or the step of the main thread, that takes it to the next.
LifeInv(c) ==
    LET found == connMap[fd[c]] = c
        added == channelMap[loop[c]][fd[c]] = c
        erasing == writing = [op |-> "erase", conn |-> c] IN
    /\ c \in freed => state[c] = "CLOSED"
    /\ added <=> state[c] \in {"CONNECTED", "CLOSING"}
    /\ interest[c] = "none" <=> state[c] # "CONNECTED"
    /\ state[c] = None =>
          writing = [op |-> "insert", conn |-> c] /\ ~found /\ NoTask(All, c, Ops)
    /\ state[c] = "CONNECTING" =>
          found /\ OneTask(All, c, Ops, loop[c], "Established")
    /\ state[c] = "CONNECTED" => found /\ NoTask(All, c, Steps)
    /\ state[c] = "CLOSING" =>
          \/ found /\ ~erasing /\ OneTask(All, c, Steps, Main, "removeInLoop")
          \/ found /\ erasing /\ NoTask(All, c, Steps)
          \/ ~found /\ ~erasing /\ OneTask(All, c, Steps, loop[c], "Destroy")
    /\ state[c] = "CLOSED" => ~found /\ NoTask(All, c, Steps)

IInv ==
    /\ TypeOK /\ NoFailure /\ TaskInv /\ PhaseInv /\ EventInv /\ HolderInv
    /\ NoDanglingChannel /\ \A c \in Made : LifeInv(c)
=============================================================================
