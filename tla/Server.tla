-------------------------------- MODULE Server --------------------------------
(***************************************************************************)
(* The threads of the TcpServers of a process, from construction to        *)
(* destruction.  The main thread builds each server (a LoopThreadPool and  *)
(* an Acceptor), starts it, runs the main loop, in which the acceptors     *)
(* accept clients and hand each to the next loop of the server's pool, and *)
(* when the loop has been quit destroys the servers.  Each LoopThread      *)
(* builds an EventLoop on its own stack and publishes its address in mLoop *)
(* when it comes to run; nothing waits for that.                           *)
(*                                                                         *)
(* The listening sockets are watched edge-triggered: a handler that leaves *)
(* clients in the backlog gets no other event for them.  A loop is what    *)
(* SerialExecutor promises of it.  A connection that has been accepted     *)
(* holds a descriptor until its client leaves; its life in between is in   *)
(* TcpServer.  A failed assertion or a bad pointer ends the program:       *)
(* "failed" names it.                                                      *)
(***************************************************************************)
EXTENDS Naturals, Sequences, Functions, FiniteSets

CONSTANTS Servers,   \* the TcpServer objects
          Nums,      \* the size of each server's pool
          Clients,   \* each connects at most once (bound)
          MaxFds,    \* connections the descriptor table has room for
          None

ASSUME NumsAssumption == Nums \in [Servers -> Nat \ {0}]   \* LoopThreadPool.cpp:12
ASSUME MaxFdsAssumption == MaxFds \in Nat \ {0}
ASSUME NoneAssumption == None \notin Servers

VARIABLES
    at, srv, slot,  \* the main thread: where it is, in which server's
                    \* function, at which element of mLoopList
    life,           \* of each server: none, built, listening, closed, gone
    active,         \* acceptors whose channel poll returned
    mainQuit,       \* mQuit of the main loop
    thread,         \* of each LoopThread: none, created, looping, ended
    mLoop,          \* has it published its loop?
    mQuit, mTasks,  \* the flag and the queue of its loop
    index,          \* the static variable of getNextLoop: one for all pools
    backlog,        \* the kernel's queue of clients of each listening socket
    reading, edge,  \* interest in reading; on epoll's ready list?
    client,         \* none, waiting, queued (to a loop), served, gone
    connMap,        \* the clients each server has a connection of
    \* History: did the last accept of a server fail for want of a
    \* descriptor; how many clients the loops at each place have been given.
    starved, given,
    failed

mainVars == <<at, srv, slot, life, active>>
threadVars == <<thread, mLoop>>
loopVars == <<mQuit, mTasks>>
socketVars == <<backlog, reading, edge>>
clientVars == <<client, connMap, starved, given>>
vars == <<mainVars, mainQuit, threadVars, loopVars, index, socketVars, clientVars,
          failed>>

Slots(s) == 0 .. Nums[s] - 1
Places == UNION {Slots(s) : s \in Servers}
PerLoop(v) == [s \in Servers |-> [i \in Places |-> v]]

TypeOK ==
    /\ at \in {"user", "create", "listen", "poll", "handle", "accept",
               "after", "stop", "join", "drop"}
    /\ srv \in Servers \cup {None} /\ slot \in Nat
    /\ srv # None => slot <= Nums[srv]
    /\ index \in Nat /\ (index = 0 \/ \E s \in Servers : index <= Nums[s])
    /\ life \in [Servers -> {"none", "built", "listening", "closed", "gone"}]
    /\ active \subseteq Servers /\ mainQuit \in BOOLEAN
    /\ thread \in [Servers -> [Places -> {"none", "created", "looping", "ended"}]]
    /\ mLoop \in [Servers -> [Places -> BOOLEAN]]
    /\ mQuit \in [Servers -> [Places -> BOOLEAN]]
    /\ mTasks \in [Servers -> [Places -> Seq(Clients)]]
    /\ backlog \in [Servers -> Seq(Clients)]
    /\ reading \in [Servers -> BOOLEAN] /\ edge \in [Servers -> BOOLEAN]
    /\ client \in [Clients -> {"none", "waiting", "queued", "served", "gone"}]
    /\ connMap \in [Servers -> SUBSET Clients]
    /\ starved \in [Servers -> BOOLEAN] /\ given \in [Places -> Nat]
    /\ failed \in {"no", "null loop", "mLoopList", "dead loop"}

Init ==
    /\ at = "user" /\ srv = None /\ slot = 0
    /\ life = [s \in Servers |-> "none"]
    /\ active = {} /\ mainQuit = FALSE
    /\ thread = PerLoop("none") /\ mLoop = PerLoop(FALSE)
    /\ mQuit = PerLoop(FALSE) /\ mTasks = PerLoop(<<>>)
    /\ index = 0
    /\ backlog = [s \in Servers |-> <<>>]
    /\ reading = [s \in Servers |-> FALSE] /\ edge = [s \in Servers |-> FALSE]
    /\ client = [c \in Clients |-> "none"]
    /\ connMap = [s \in Servers |-> {}]
    /\ starved = [s \in Servers |-> FALSE] /\ given = [i \in Places |-> 0]
    /\ failed = "no"

-----------------------------------------------------------------------------
Running == failed = "no"
At(p) == Running /\ at = p
InMainLoop == at \in {"poll", "handle", "accept"}

\* The main thread goes to p in the functions of server s, element i.
GoTo(p, s, i) == at' = p /\ srv' = s /\ slot' = i

\* Can accept4 get a descriptor?  The kernel looks before it looks at the
\* backlog.
FdFree == Cardinality(UNION Range(connMap)) < MaxFds

-----------------------------------------------------------------------------
(* Faulty variants of definitions below, for testing the properties: each  *)
(* is what a plausible mistake in the code would do.                       *)

\* The wrap-around is off by one.
Fault_Turn(s) == IF index > Nums[s] THEN 0 ELSE index

\* The element getNextLoop takes; index is left behind it.
Turn(s) == IF index >= Nums[s] THEN 0 ELSE index

\* handlerRead accepts one client per event, as a level-triggered one may.
Fault_GoOn == "handle"

\* Stop does not quit the loop before it joins the thread.
Fault_QuitLoop == UNCHANGED mQuit

-----------------------------------------------------------------------------
(* Construction, in the main thread before it enters its loop.             *)

\* TcpServer::TcpServer: first the pool.
NewPool(s) ==
    /\ At("user") /\ life[s] = "none"
    /\ GoTo("create", s, 0)
    /\ UNCHANGED <<life, active, mainQuit, threadVars, loopVars, index,
                   socketVars, clientVars, failed>>

\* The constructor of LoopThread starts the thread.
NewLoopThread ==
    /\ At("create") /\ slot \in Slots(srv)
    /\ thread' = [thread EXCEPT ![srv][slot] = "created"]
    /\ GoTo("create", srv, slot + 1)
    /\ UNCHANGED <<life, active, mainQuit, mLoop, loopVars, index,
                   socketVars, clientVars, failed>>

\* Then the acceptor: socket, bind, and a channel without interest.
NewAcceptor ==
    /\ At("create") /\ slot \notin Slots(srv)
    /\ life' = [life EXCEPT ![srv] = "built"]
    /\ GoTo("user", None, 0)
    /\ UNCHANGED <<active, mainQuit, threadVars, loopVars, index,
                   socketVars, clientVars, failed>>

\* TcpServer::Start runs Acceptor::Listen at once: first listen() ...
Listen(s) ==
    /\ At("user") /\ life[s] = "built"
    /\ life' = [life EXCEPT ![s] = "listening"]
    /\ GoTo("listen", s, 0)
    /\ UNCHANGED <<active, mainQuit, threadVars, loopVars, index,
                   socketVars, clientVars, failed>>

\* ... then EnableRead; EPOLL_CTL_MOD reports clients that have come between.
EnableRead ==
    /\ At("listen")
    /\ reading' = [reading EXCEPT ![srv] = TRUE]
    /\ edge' = [edge EXCEPT ![srv] = backlog[srv] # <<>>]
    /\ GoTo("user", None, 0)
    /\ UNCHANGED <<life, active, mainQuit, threadVars, loopVars, index,
                   backlog, clientVars, failed>>

EnterLoop ==
    /\ At("user") /\ \E s \in Servers : life[s] = "listening"
    /\ GoTo("poll", None, 0)
    /\ UNCHANGED <<life, active, mainQuit, threadVars, loopVars, index,
                   socketVars, clientVars, failed>>

-----------------------------------------------------------------------------
(* The main loop.                                                          *)

\* Poller::poll returns what is on the ready list, or with nothing of the
\* acceptors (a wakeup, a timer, a signal).
Poll ==
    /\ At("poll")
    /\ active' = {s \in Servers : edge[s]}
    /\ edge' = [s \in Servers |-> FALSE]
    /\ GoTo("handle", None, 0)
    /\ UNCHANGED <<life, mainQuit, threadVars, loopVars, index, backlog,
                   reading, clientVars, failed>>

\* Acceptor::handlerRead is called for the channel of s.
handlerRead(s) ==
    /\ At("handle") /\ s \in active
    /\ active' = active \ {s}
    /\ GoTo("accept", s, 0)
    /\ UNCHANGED <<life, mainQuit, threadVars, loopVars, index, socketVars,
                   clientVars, failed>>

\* After an accept the handler tries again, until accept4 says EAGAIN.
GoOn == "accept"

\* accept4 returns a client; newConnection asks the pool for a loop, makes
\* the connection (the constructor of Channel asserts that there is a loop)
\* and queues Established there.
Accept ==
    /\ At("accept") /\ FdFree /\ backlog[srv] # <<>>
    /\ backlog' = [backlog EXCEPT ![srv] = Tail(@)]
    /\ index' = Turn(srv) + 1
    /\ GoTo(GoOn, srv, 0)
    /\ LET c == Head(backlog[srv])  i == Turn(srv) IN
       IF i \in Slots(srv) /\ mLoop[srv][i]
       THEN /\ mTasks' = [mTasks EXCEPT ![srv][i] = Append(@, c)]
            /\ client' = [client EXCEPT ![c] = "queued"]
            /\ connMap' = [connMap EXCEPT ![srv] = @ \cup {c}]
            /\ given' = [given EXCEPT ![i] = @ + 1]
            /\ UNCHANGED failed
       ELSE /\ failed' = IF i \in Slots(srv) THEN "null loop" ELSE "mLoopList"
            /\ UNCHANGED <<mTasks, client, connMap, given>>
    /\ UNCHANGED <<life, active, mainQuit, threadVars, mQuit, reading, edge,
                   starved>>

\* EAGAIN, or EMFILE whatever waits: the handler returns in both cases.
AcceptFails ==
    /\ At("accept") /\ (FdFree => backlog[srv] = <<>>)
    /\ starved' = [starved EXCEPT ![srv] = ~FdFree]
    /\ GoTo("handle", None, 0)
    /\ UNCHANGED <<life, active, mainQuit, threadVars, loopVars, index,
                   socketVars, client, connMap, given, failed>>

\* The end of a turn of the loop, and the test of mQuit.
EndEvents ==
    /\ At("handle") /\ active = {}
    /\ GoTo(IF mainQuit THEN "after" ELSE "poll", None, 0)
    /\ UNCHANGED <<life, active, mainQuit, threadVars, loopVars, index,
                   socketVars, clientVars, failed>>

-----------------------------------------------------------------------------
(* Destruction, in the main thread after its loop.                         *)

\* ~TcpServer of a server without connections (TcpServer.tla has what it
\* does to those there are); the acceptor goes first, and its backlog.
DestroyServer(s) ==
    /\ At("after") /\ life[s] \in {"built", "listening"}
    /\ connMap[s] = {}
    /\ life' = [life EXCEPT ![s] = "closed"]
    /\ client' = [c \in Clients |->
                    IF c \in Range(backlog[s]) THEN "gone" ELSE client[c]]
    /\ backlog' = [backlog EXCEPT ![s] = <<>>]
    /\ reading' = [reading EXCEPT ![s] = FALSE]
    /\ edge' = [edge EXCEPT ![s] = FALSE]
    /\ GoTo("stop", s, 0)
    /\ UNCHANGED <<active, mainQuit, threadVars, loopVars, index, connMap,
                   starved, given, failed>>

\* EventLoop::Quit of the loop of this element.
QuitLoop == mQuit' = [mQuit EXCEPT ![srv][slot] = TRUE]

\* LoopThread::Stop: Quit through mLoop, which may be null, then join.
Stop ==
    /\ At("stop") /\ slot \in Slots(srv)
    /\ IF mLoop[srv][slot] THEN QuitLoop /\ UNCHANGED failed
                           ELSE failed' = "null loop" /\ UNCHANGED mQuit
    /\ GoTo("join", srv, slot)
    /\ UNCHANGED <<life, active, mainQuit, threadVars, mTasks, index,
                   socketVars, clientVars>>

Join ==
    /\ At("join") /\ thread[srv][slot] = "ended"
    /\ GoTo("stop", srv, slot + 1)
    /\ UNCHANGED <<life, active, mainQuit, threadVars, loopVars, index,
                   socketVars, clientVars, failed>>

EndStop ==
    /\ At("stop") /\ slot \notin Slots(srv)
    /\ GoTo("drop", srv, 0)
    /\ UNCHANGED <<life, active, mainQuit, threadVars, loopVars, index,
                   socketVars, clientVars, failed>>

\* ~LoopThread calls mLoop->Quit() again: the loop was on the stack of the
\* thread that has been joined.  If the memory is still there and the number
\* of the eventfd is free nothing comes of it.
DropLoopThread ==
    /\ At("drop") /\ slot \in Slots(srv)
    /\ failed' \in {"no", "dead loop"}
    /\ GoTo("drop", srv, slot + 1)
    /\ UNCHANGED <<life, active, mainQuit, threadVars, loopVars, index,
                   socketVars, clientVars>>

EndDestroy ==
    /\ At("drop") /\ slot \notin Slots(srv)
    /\ life' = [life EXCEPT ![srv] = "gone"]
    /\ GoTo("after", None, 0)
    /\ UNCHANGED <<active, mainQuit, threadVars, loopVars, index,
                   socketVars, clientVars, failed>>

-----------------------------------------------------------------------------
(* The LoopThreads.                                                        *)

\* threadFunc: the loop is built, its address stored, Loop() entered.
threadFunc(s, i) ==
    /\ Running /\ thread[s][i] = "created"
    /\ thread' = [thread EXCEPT ![s][i] = "looping"]
    /\ mLoop' = [mLoop EXCEPT ![s][i] = TRUE]
    /\ UNCHANGED <<mainVars, mainQuit, loopVars, index, socketVars,
                   clientVars, failed>>

\* The loop runs the oldest task: Established.
Execute(s, i) ==
    /\ Running /\ thread[s][i] = "looping" /\ mTasks[s][i] # <<>>
    /\ mTasks' = [mTasks EXCEPT ![s][i] = Tail(@)]
    /\ client' = [client EXCEPT ![Head(mTasks[s][i])] = "served"]
    /\ UNCHANGED <<mainVars, mainQuit, threadVars, mQuit, index, socketVars,
                   connMap, starved, given, failed>>

\* Loop() returns, the loop is destructed and the thread ends.
EndThread(s, i) ==
    /\ Running /\ thread[s][i] = "looping" /\ mQuit[s][i]
    /\ thread' = [thread EXCEPT ![s][i] = "ended"]
    /\ UNCHANGED <<mainVars, mainQuit, mLoop, loopVars, index, socketVars,
                   clientVars, failed>>

-----------------------------------------------------------------------------
(* The environment.                                                        *)

\* A client's connection is complete: it enters the backlog with a new edge.
Connect(c, s) ==
    /\ Running /\ client[c] = "none" /\ life[s] = "listening"
    /\ client' = [client EXCEPT ![c] = "waiting"]
    /\ backlog' = [backlog EXCEPT ![s] = Append(@, c)]
    /\ edge' = [edge EXCEPT ![s] = @ \/ reading[s]]
    /\ UNCHANGED <<mainVars, mainQuit, threadVars, loopVars, index, reading,
                   connMap, starved, given, failed>>

\* The connection of a client that leaves is closed, its descriptor too; its
\* removal goes through the main loop.
Leave(c, s) ==
    /\ Running /\ client[c] = "served" /\ c \in connMap[s] /\ InMainLoop
    /\ client' = [client EXCEPT ![c] = "gone"]
    /\ connMap' = [connMap EXCEPT ![s] = @ \ {c}]
    /\ UNCHANGED <<mainVars, mainQuit, threadVars, loopVars, index,
                   socketVars, starved, given, failed>>

\* The user's code quits the main loop.  Nothing reads mQuit before the end
\* of the turn: to set it there or during poll is the same.
QuitMain ==
    /\ At("poll") /\ ~mainQuit
    /\ mainQuit' = TRUE
    /\ UNCHANGED <<mainVars, threadVars, loopVars, index, socketVars,
                   clientVars, failed>>

-----------------------------------------------------------------------------
BuildStep ==
    \/ \E s \in Servers : NewPool(s) \/ Listen(s)
    \/ NewLoopThread \/ NewAcceptor \/ EnableRead \/ EnterLoop

MainLoopStep ==
    \/ Poll \/ Accept \/ AcceptFails \/ EndEvents
    \/ \E s \in Servers : handlerRead(s)

DestroyStep ==
    \/ \E s \in Servers : DestroyServer(s)
    \/ Stop \/ Join \/ EndStop \/ DropLoopThread \/ EndDestroy

ThreadStep(s, i) == threadFunc(s, i) \/ Execute(s, i) \/ EndThread(s, i)

Next ==
    \/ BuildStep \/ MainLoopStep \/ DestroyStep
    \/ \E s \in Servers : \E i \in Slots(s) : ThreadStep(s, i)
    \/ \E c \in Clients, s \in Servers : Connect(c, s) \/ Leave(c, s)
    \/ QuitMain

Spec == Init /\ [][Next]_vars

\* Every thread is scheduled; nothing is assumed of the clients, nor that
\* the main loop is quit.
FairSpec ==
    /\ Spec
    /\ WF_vars(BuildStep \/ MainLoopStep \/ DestroyStep)
    /\ \A s \in Servers : \A i \in Slots(s) : WF_vars(ThreadStep(s, i))

-----------------------------------------------------------------------------
(* Properties.                                                             *)

\* The acceptor leaves nobody waiting: when the main loop is about to sleep
\* and a client is in the backlog, there is an edge for it, or the last
\* accept failed for want of a descriptor (Acceptor.cpp:42-62, and the order
\* of listen and EnableRead at Acceptor.cpp:38-39).
NoLostClient ==
    \A s \in Servers :
        at = "poll" /\ reading[s] /\ backlog[s] # <<>> => edge[s] \/ starved[s]

SamePools == \A s, t \in Servers : Nums[s] = Nums[t]

\* getNextLoop takes turns (LoopThreadPool.cpp:27-34).  Its index is static:
\* it stays within each list, and with pools of one size the loops at two
\* places are given equally many clients, over all pools together.
TakeTurns ==
    /\ failed # "mLoopList"
    /\ SamePools =>
          \A i, j \in Places : given[i] <= given[j] + 1

(***************************************************************************)
(* The inductive invariant behind TypeOK, NoLostClient and TakeTurns:      *)
(* where the main thread is tells whose function it is in; a listening     *)
(* socket without an edge is about to be looked at until its backlog is    *)
(* empty; and over all pools the loops before the index are one client     *)
(* ahead of the others.                                                    *)
(***************************************************************************)
PlaceInv ==
    /\ at \in {"create", "listen", "accept", "stop", "join", "drop"} => srv \in Servers
    /\ at = "join" => slot \in Slots(srv)
    /\ at \notin {"handle", "accept"} => active = {}

EdgeInv ==
    \A s \in Servers :
        reading[s] /\ backlog[s] # <<>> =>
            edge[s] \/ starved[s] \/ s \in active \/ (at = "accept" /\ srv = s)

Even ==
    \A i, j \in Places :
        /\ (i < index <=> j < index) => given[i] = given[j]
        /\ i < index /\ j >= index => given[i] = given[j] + 1

TurnInv == TakeTurns /\ (Running /\ SamePools => Even)

IInv == TypeOK /\ PlaceInv /\ EdgeInv /\ TurnInv

\* A client that waits is given to a loop, which runs its Established, unless
\* descriptors run out, the main loop is quit or the program fails.
ClientIsServed ==
    \A c \in Clients :
        client[c] = "waiting"
           ~> \/ client[c] \in {"served", "gone"}
              \/ mainQuit \/ ~Running \/ \E s \in Servers : starved[s]

\* Destroying a server ends: each thread is quit and joined
\* (LoopThreadPool.cpp:20-25), unless the program fails.
DestroyEnds == \A s \in Servers : life[s] = "closed" ~> life[s] = "gone" \/ ~Running
=============================================================================
