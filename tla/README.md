# A verification of knpnl

knpnl is a small multi-threaded network library in C++: an epoll event loop with
timers and cross-thread tasks, a TCP server with one acceptor thread and several
io threads, an HTTP/1.1 server on top, and a thread pool beside them. This
directory holds TLA+ models of its parts, the TLC configurations that check them
on small instances, and proofs about them for instances of any size.

    tlc -workers 2 -config eventloop.cfg MC_EventLoop     # a run
    tlapm EventLoop_proofs.tla                            # the proofs of a module

`PROJECT.json` lists, for every definition that models code, the lines it stands
for; for every run its properties; for every property a mutant of the code that
breaks it; and the hazards and findings.

## The system

| component | state | operations | depends on |
|---|---|---|---|
| `event/EventLoop` | `mTasks` under `mMutex`; `isWakeup`, `mQuit` without a lock; the eventfd | `Loop`, `RunInLoop`, `QueueInLoop`, `Quit`, `doTask` | Poller, Channel, TimerQueue |
| `event/Poller`, `event/Channel` | `channelMap` by descriptor; `mEvent`, `rEvent`, callbacks | `Add`, `Mod`, `Delete`, `poll`; `Enable...`, `Disable...`, `HandleEvent` | epoll (edge-triggered) |
| `event/TimerQueue`, `event/Timer` | a set by expiration, a map by id, a timerfd; timers through raw pointers | `AddTimer`, `Remove`, `ResetTimer`, `handleRead` | EventLoop for other threads' calls |
| `event/LoopThread(Pool)` | a thread with a loop on its stack, `mLoop`; the list of a pool; one static `index` for all pools | `GetLoop`, `Stop`, `getNextLoop` | EventLoop, Thread |
| `net/Acceptor`, `net/Socket` | a listening socket, its Channel | `Listen`, `handlerRead` | main loop |
| `net/TcpServer` | `connMap` by descriptor | `handlerRead`, `newConnection`, `removeInLoop`, `Close`, `~TcpServer` | main loop, LoopThreadPool |
| `net/TcpConnection` | `mState`, `mAlive`, two buffers, an iovec, its Channel | `Established`, `handleRead`, `handleWrite`, `handleClose`, `Send`, `Close`, `Destroy` | its io loop, TcpServer's callbacks |
| `net/http` | per connection a request (parser state) and a response | `onMessageCallback`, `processRead`, `appendToBuffer`, `WriteCompleteCallback` | TcpConnection, TcpServer::Close, FileSystem |
| `base/Buffer` | four pointers into an array | `append`, `add`, `readFd`, `readPtrMove` | |
| `base/Logger`, `base/LogStream` | the level; a buffer per statement | the `LOG_` macros, `operator<<` | Buffer, stdio |
| `base/ThreadPool` | a bounded queue, `isRunning`, two conditions | `AddTask`, `take`, `Start`, `Stop` | Mutex, Condition, Thread |
| `base/` rest | time stamps, strings, files, wrappers of pthreads | | |

Threads meet in few places: `EventLoop::mTasks` (everything else is meant to be
reached through it), the two flags beside it, `connMap`, the timer map when
`Remove` is called from outside, and the thread pool's queue. A connection's life
crosses them: accepted in the main loop, established in an io loop, closed there,
erased in the main loop, destroyed in the io loop, destructed wherever the last
`shared_ptr` goes.

What is hard, and what each part has to get right:

* *EventLoop*: deciding from an unlocked flag whether to write the eventfd. No
  wakeup may be lost, and tasks run once and in order.
* *TcpServer and TcpConnection*: several causes to close one connection; bare
  pointers in epoll and in closures; descriptors reused by the kernel. Each
  connection is removed exactly once and freed in the end, and no event or task
  reaches a freed one.
* *HTTP over a connection*: a request cut anywhere, a write that stops anywhere,
  edges that come once. The parse depends on the bytes only, output is complete
  and in order, and what can be answered is.
* *TimerQueue*: callbacks that change the queue in the middle of `handleRead`. The
  two containers agree, every timer has one owner, the timerfd is never too late.
* *ThreadPool*: signals that are sent only at the edges of the queue. Nobody
  sleeps on work, the limit is kept.
* *Acceptor and the loop threads*: an edge for a backlog comes once, descriptors
  run out, an address is published by a thread nobody waits for, a static index is
  shared by pools. No client is left behind, the loops take turns, the servers end.
* *Logger*: buffers that are too small, lines of several threads. An operand is in a
  line whole or not at all, nothing is written past a buffer, lines do not mix.

## Modules

| module | models |
|---|---|
| `SerialExecutor` | abstract: what a loop promises to those who queue tasks |
| `EventLoop` | `event/EventLoop.cpp`, with what it uses of Poller and Channel; refines `SerialExecutor` |
| `ConnLife` | abstract: the life of connections, their descriptors and the map |
| `TcpServer` | `net/TcpServer.cpp`, the life of `net/TcpConnection.cpp`, accept, the pollers' tables, `getNextLoop`; refines `ConnLife` |
| `Server` | the threads: `event/LoopThread.cpp`, `LoopThreadPool.cpp`, `base/Thread.cpp`, `net/Acceptor.cpp`, construction and destruction of the `TcpServer`s of a process |
| `FixedBuffer` | operators: `base/Buffer` |
| `HttpConn` | the bytes of one connection: `TcpConnection`, `net/http`, `base/FileSystem.h`; extends `FixedBuffer` |
| `Logger` | `base/Logger`, `base/LogStream`; extends `FixedBuffer` |
| `ThreadPool` | `base/ThreadPool.cpp` |
| `TimerQueue` | `event/TimerQueue.cpp`, `Timer.cpp` |
| `EventLoop_proofs`, `TcpServer_proofs`, `Server_proofs`, `ThreadPool_proofs`, `TimerQueue_proofs`, `HttpConn_proofs`, `Logger_proofs`, `FixedBuffer_proofs` | theorems |
| `MC_*` | instances for TLC |

Composition is by promise: `TcpServer`, `Server`, `TimerQueue` and `HttpConn` take from the
loop what `SerialExecutor` states, a FIFO of tasks that are all run (as a batch,
between two polls), and `EventLoop` is shown to keep it. `HttpConn` has one
connection in full and leaves its removal to `TcpServer`, which has many and
leaves their bytes out. `Server` has several servers from the first thread to the
last join; a connection there is a client that is queued to a loop, served and
gone, which is what `TcpServer` makes of it, whose servers are up and whose io
loops exist.

### EventLoop

The loop thread's `lpc` follows `Loop()` statement by statement: test `mQuit`,
`epoll_wait`, raise `isWakeup`, handle each active channel, swap the queue, lower
the flag, run the tasks. A caller's `pc` is idle, between the push and the read
of `isWakeup`, or between that and the write. The lock shows as `lpc = "swapped"`,
during which nobody can push. Callbacks and tasks are user code that may call the
loop itself, so `Loop` is one of the `Callers`. The eventfd is two bits: is its
count non-zero, is it on epoll's ready list.

The flags are plain `bool`s. A thread in `Delaying` may keep a store to one of
them in its store buffer (`stores`) while it goes on; mutexes and system calls
flush the buffer. That is what x86 adds to sequential consistency (a compiler
could do more; no one can say what).

### TcpServer

The main loop is 0, the io loops 1..N. Each loop has a `phase` (poll, events,
tasks), the events harvested, the queue, and the batch. References are counted by
`Referenced`: the map, closures queued or in a batch (a `std::bind` with a
`shared_ptr` keeps the connection until the batch has ended; one with a bare
`this` does not), the main thread's local variable and another thread's pointer.
`Release` destructs what is left without one. An update of `connMap` and the
search in `TcpServer::Close` are a beginning and an end, so that two threads can
be seen inside at once. A failed assertion or a use after free sets `failed` and
ends the behaviour. What the user's code does is the constant `Usage`.

`ConnLife` says what all this is for, in seven actions without loops, tasks or
references: a descriptor has one holder from accept to destruction, a stage
follows the one before it, the map finds a connection only between. `Stage`,
`Holder` and `connMap` are the refinement mapping; a step of `TcpServer` may free
several connections (a batch that ends drops its closures), so `Free` takes a set.

### Server

The main thread is `at` a place in the function of the server `srv`, at element
`slot` of its pool's list. Building a server creates the threads one by one;
`threadFunc` of each may come at any later time, and until then `mLoop` is null.
`Poll`, `handlerRead`, `Accept`, `AcceptFails` and `EndEvents` are the turns of the main
loop as the acceptors see them. `edge` is whether epoll has the listening socket
on its ready list: a completed connection puts it there, `Poll` takes it off,
`EPOLL_CTL_MOD` looks. `accept4` fails with EMFILE before it looks at the backlog, and
the handler returns as on EAGAIN (`starved` remembers it). `index` is one variable for
all pools, as the static in `getNextLoop` is.

`DestroyServer` to `EndDestroy` are `~TcpServer` in its order: the map, the acceptor, the
pool, which quits and joins each thread and then destructs the LoopThreads, whose
second `Quit` goes to a loop that has left with its thread's stack. Whether that is
noticed is nondeterministic. It destroys servers without connections, since
`TcpServer` has the others.

### HttpConn and FixedBuffer

A cell stands for the text of a line, a CR, a LF, a body byte or a NUL that the
parser wrote, so that every cut between two bytes that matters is there, and no
characters are. `handleRead` is one step (one `readFd` until EAGAIN, the end, or
a full buffer); each turn of `processRead`'s loop is a step; each `writev` is a
step that takes any number of cells the socket has room for. The descriptor is on
epoll's ready list when something has changed that the interest covers;
`DisableWrite` leaves `EPOLLET` alone as the interest, `et`. `consumed` and
`answers` are history. `Open`, `FileOf` and `StatusOf` are what a path turns into: a
file that is there, is missing, may not be read or is a directory, the status
that `openFile` leaves, and whether the second iovec has anything. Of several headers
of a kind the last counts: `Connection` with any value but `keep-isAlive` takes back what an
earlier one said. A Content-length may be negative; `body.assign` then throws
`length_error` (`HttpRequest.cpp:199`), nothing catches it and the process ends: `pc` is
`terminated`. The buffer is a sequence and an offset: the four pointers
are determined by them, except what `readPtrMove` does with a bad length, which
no caller passes.

The definitions after `FairSpec` (`LineEnds` to `Complete`) are a second, flat
definition of what a request is, on the whole of what has arrived; `ParserAgrees`
and `AnswerIsDue` compare the incremental parser with it. `EveryRequestIsAnswered` is of
streams that fit the buffer: a right request that is complete, with no line break
behind its head, gets all of its answer, and one that is wrong up to the end of its head
(or anywhere, if the head has no end) gets a 400. `ClosedInTime` is that a
connection is not closed before its answer is out (`NotCutShort`) nor without a reason
(`KeptOpen`).

### ThreadPool

A critical section is one step unless it waits. `pc = "asleep"` is being inside
`pthread_cond_wait`; a wakeup puts the thread back to take the mutex and test
again. `Signal` wakes one of those asleep, whichever; spurious wakeups are an
action. `stop = "joining"` is `Stop` holding the mutex.

### Logger

A statement is a list of operands: those of the head that the constructor writes,
then the user's, then the newline of the destructor; `todo` is what is left of it.
Each `<<` is a step, so threads interleave anywhere; `fwrite` is the one thing they
share. A line that has been given to it is kept in `lines` with its thread, the number of
its statement there, and what each operand has added. `put` has the two rules for the end of the buffer (a text fits or is left
out, a number needs `kMaxNumericSize` whatever its length). `convert` produces the digits
as the code does, from the last to the first with a signed remainder, `convertHex` likewise; `Reads` and
`ReadsHex` check them by Horner's rule.

### TimerQueue

Time counts in units of the 100 microseconds that `howMuchTimeFromNow` never goes
below. `mTimerIdMap` keeps the difference between no key, a null that `operator[]`
inserted, and a pointer. `heap` says whether a timer is allocated. A call on
another thread is split where its reads of the map and its post are apart. Two
timers of equal expiration are ordered by address: either may be first. `begin()`
of an empty set is undefined; the library's tree has its size, 0, there, so the
timerfd is set to the least delay. A null or dangling `Timer*`, or a failed
assertion, sets `failed` and ends the behaviour.

## Runs

| run | instance | states | shows |
|---|---|---|---|
| `eventloop` | 2 threads, 2 tasks, one thread and the loop delay stores | 97,000 | no wakeup is lost (`NoLostTask`, `NoLostQuit`), refinement (`ImplementsSerialExecutor`), liveness (`AcceptedIsRun`, `QuitEventuallyExits`); `IInv` is the inductive invariant, with the order of the tasks |
| `tcpserver` | 1 io loop, 3 connections, 2 descriptors, HttpServer's calls | 260,000 | `NoFailure`, `RemovedOnce`, `MapIsAccurate`, `ImplementsConnLife`, `ClosingIsFreed`; `IInv`, with `NoDanglingChannel` |
| `tcpserver_misuse` | 2 io loops, 2 connections, other threads' calls, Send in onConnect, `~TcpServer` | 984,000 | `NoDanglingChannel`, up to the failed assertion |
| `tcpserver_race` | 2 io loops, 2 connections | | violated: `ConnMapExclusive` |
| `tcpserver_send` | 1 io loop, 2 connections, another thread sends | | violated: `NoUseAfterFree` |
| `server` | 2 servers with pools of 2, 3 clients, 2 descriptors | 229,000 | `NoLostClient`, `TakeTurns`, `ClientIsServed`, `DestroyEnds`; `IInv` |
| `threadpool` | 2 workers, 1 producer, limit 2, 4 tasks | 18,000 | `NoStrandedTask`, `NoStrandedProducer`, `AddedIsDone`, `AddTaskReturns`; `IInv`, with the order and the limit |
| `threadpool_stop` | same, 2 tasks | | violated: `StopReturns` |
| `timerqueue` | 2 timers (one repeats), 1 other thread, clock to 2 (plus what is under way) | 109,000 | `SetAndMapAgree`, `OneOwner`, `NeverEarly`, `ArmedInTime`, `EveryTimerExpires`; `IInv` |
| `http` | 13 streams, 4 replies, a buffer of 12, a socket of 2 | 157,000 | `InputIntact`, `ParserAgrees`, `AnswerIsDue`, `OutputIntact`, `ClosedInTime`, `EveryRequestIsAnswered`, `ClosedWhenDone`; `IInv` |
| `http_fin` | same | | violated: `FinCloses` |
| `logger` | 2 threads of 2 lines, 5 statements, buffers of 24, numbers up to 5 cells | 342,000 | `LinesAreWhole`, `OutputInOrder`; `IInv` |

Bounds, and why they are enough to meet the cases:

* EventLoop: each task is queued once and each caller quits once. Two tasks and
  two threads, with the loop's own callbacks as a third caller, have a push in
  every place of the loop against another push, a quit and a wakeup; the proofs
  have no bound.
* TcpServer: three connections on two descriptors are two at once and one that
  must reuse a descriptor while traces of its former holder are still queued;
  the runs with one io loop have the whole hand-over, those with two have
  connections in different loops and concurrent searches. Each connection is used by another
  thread once.
* Server: two pools of two share the index in every interleaving of two acceptors;
  three clients and room for two connections have a client that meets EMFILE, and
  one that comes in the middle of the accept loop. The proofs have no bound.
* ThreadPool: four tasks and a limit of two fill and empty the queue with both
  workers asleep or busy. The proofs have no bound.
* TimerQueue: calls end at the horizon, the clock goes on until nothing is under
  way; two timers are what reordering, equal expirations and one batch need.
* HttpConn: the buffer of 12 has streams that fit, fill it and overflow it; the
  socket of 2 makes every response stop in the buffer and in the file. The proofs have
  no bound on either, nor on the streams.
* Logger: integers of 8 bits and their extremes; the statements leave room, have
  none for a text, for a number, and for the newline. The proofs have no bound.

`CHECK_DEADLOCK FALSE` stands where the system may stop or wait for ever: a loop
that has exited, a stopped pool, a process that has ended, threads that log no
more, a peer that does nothing more, a timer queue at its horizon.

### Findings

* `tcpserver_race`: `TcpServer::Close` reads `connMap` in an io loop; the comments
  of `TcpServer.cpp:57,80` take the map to be used in one thread.
* `tcpserver_send`: `Send`, which other threads may call (`TcpConnection.cpp:39`),
  queues a bare `this`: when the last pointer is gone the task runs on a destructed
  connection. `NoFailure` is violated there as well, and sooner: a `Send` that is run on a
  closing connection asks for `EPOLLOUT` again (`TcpConnection.cpp:65`), and `Destroy` then
  finds the channel not idle (`TcpConnection.cpp:151`), or a `Send` run after `Destroy` finds
  it in no poller (`Poller.cpp:62`).
* `threadpool_stop`: `Stop` joins with the mutex held.
* `http_fin`: after a response that had to wait for `EPOLLOUT` a kept-alive
  connection no longer hears its peer.

Met while modelling, without a run of their own. In the models:

* `EventLoop`: a loop may exit with tasks that were queued before `Quit`
  (`LoopThread.h:29-30` says that it is made to finish them).
* `TimerQueue`: `Remove` in a callback does not see a timer of the same batch, which
  `findExpiredTimer` has taken from the map (`TimerQueue.cpp:41`). Two `Remove`s of other
  threads may post the same timer twice, which is then freed twice. One `Remove` reads the map
  twice (`TimerQueue.cpp:41,47`); the second read adds a null if the timer has fired in between,
  and `deleteTimer` asserts that it gets none. With no timer left the timerfd is set to the
  least delay again and again.
* `Server`: `getNextLoop` and `Stop` may meet a loop that is not published yet, and
  `~LoopThread` calls `Quit` on a loop that is gone. An accept that fails for want of a
  descriptor uses up the edge: those in the backlog wait for another client. Pools
  share one index.
* `TcpServer`: connections that are open when the main loop has been quit are never
  erased; `~TcpServer` queues `Established` for them again, and the assertion of `Poller::Add`
  fails. `Established` sets `CONNECTED` after onConnect, also when a failed `Send` there (of a
  file given by `setFile`) has closed the connection; epoll reports the hangup whatever the
  interest, so it is closed and erased again, and `assert(sz==1)` (`TcpServer.cpp:84`) fails.
* `HttpConn`: a FIN that arrives with data makes `readFd` return -1, and the data is
  never given to `onMessage` (against `TcpConnection.h:54`); a full buffer counts as an
  end of the stream; a body with line ends may wait for ever; a second request on
  a kept-alive connection is never answered, because `HttpRequest::Init` does not
  reset `mCheckState`; a reset is ignored while the interest is in reading; a negative
  Content-length ends the process; a closing begun by `TcpServer::Close` does not shut the
  write side first (`TcpConnection.h:56`);
  `openFile` leaves the status 400 whatever kept it from opening
  (`HttpResponse.cpp:61`). `Answerable`, `ParserAgrees` and `NotCutShort` name the cases they
  leave out.
* `Logger`: a name without a slash is logged as `(null)`; what does not fit is left
  out silently, the newline too.

Beside the models: `Socket.cpp:54` shuts the read side where the comments say the write
side; `setReusePort` sets `SO_REUSEADDR`; a request with an absolute URL is always
refused; the length of an earlier file may stay in a later 400; a trace in
`TcpConnection.cpp:91` logs a buffer that has no NUL at its end; `mFlush` is never called,
so an abort may lose the log; `buffer_unittest.cpp:36` expects 501 of 500 characters; a
`LoopThread` outside a pool detaches its thread instead of joining it; the static index
is unprotected if pools are used by several threads; `Timestamp::now` is the wall clock
and the timerfd is monotonic, so that a change of the clock moves expirations.

## Fairness

* EventLoop: weak fairness of the loop thread's steps (it is scheduled, callbacks
  return) and of each call that has begun, and of stores reaching memory. Not of
  signals, other descriptors, or of anyone calling anything.
* TcpServer: weak fairness of each loop's thread. Nothing of peers or users.
* Server: weak fairness of the main thread and of each LoopThread. Nothing of the
  clients, nor that anyone quits the main loop.
* Logger: none; it has safety only.
* ThreadPool: weak fairness of each thread and of the owner's `Start` and joins; not
  of `Stop`, not of spurious wakeups. Weak fairness of `AddTask(p)` and
  `WorkerStep(w)` suffices since the mutex is never contended for ever in the
  model: a critical section is a step.
* TimerQueue: time passes, threads are scheduled, callbacks return, and the loop
  goes on polling.
* HttpConn: the loop runs; the peer takes what arrives and sends on what it has
  begun. FIN and RST are never promised; `EveryRequestIsAnswered` is of peers
  that send neither.

## Proofs

`EventLoop_proofs`. From `LoopAssumption` and `DelayingAssumption` only. `NoLostTask` is not
inductive: that `QueueInLoop` may skip the write depends on what `isWakeup` is
when it is read. The strengthening, `WakeInv`, is that from the swap until
the next return of `epoll_wait` the flag is down in memory and the loop has no
store in its buffer, so a thread that pushes then is certain to write; and that a
non-empty queue in that stretch has a `WakePending`. `NoLostEdge` is part of it,
since a pending write is only worth something while its edge is. `OrderInv` and
`QuitInv` do the same for the order and for `Quit`. `TypeStep`, the steps of the three
invariants and the step simulation are lemmas; `IInv` is their conjunction.
`Refinement` maps the queue to `batch \o mTasks` and shows every step to be a step of
`SerialExecutor` or a stutter; it uses `IInv` for the order.

`TcpServer_proofs`. For any loops, connections and descriptors, under `HttpUsage`: the user
makes the calls that `HttpServer` makes (Send in onMessage, `TcpServer::Close` in
onWriteComplete). With others' calls the theorems are false, as `tcpserver_misuse` and
`tcpserver_send` show. `RemovedOnce` counts tasks but does not say which; `LifeInv` gives each
state the tasks a connection then has: before it is established everything that is
queued for it is `Established`, while it is open none of `Established`, `removeInLoop` and
`Destroy`, while it closes `removeInLoop` in the main loop, the erasing itself, or `Destroy`
in its io loop, and exactly one of them. Batch and queue count together (`All`), so taking
the queue changes nothing. `HolderInv` gives a descriptor one holder, so that an entry of the
map or of a poller cannot be taken for another connection's; `EventInv` says that what epoll
has reported stays registered until it is handled, and `PhaseInv` that a search and an update
of the map hold their connection. A handler is reduced to four effects (`Served`, `Shut`,
`Opened`, `Ended`), and what these keep is shown once. `Referred` is the lemma on lifetimes:
what nothing refers to has been destroyed, so `Release` never meets a registered channel.
`Implements` maps each step to one of `ConnLife` or to a stutter.

`ThreadPool_proofs`. `IInv` (types, `QueueOrder`, `NoStrandedTask`,
`NoStrandedProducer`) is inductive as it stands, for any threads and any limit: when a
worker takes the last step to sleep it has seen the queue empty; when the queue
gets its first task with all asleep, one is signalled. `NoStrandedProducer` is of a
sole producer: with two, one that waits can be passed over, since the queue leaves
its limit once for both.

`Server_proofs`. For any servers, pools, clients and number of descriptors. `NoLostClient`
alone is not inductive: while the handler runs, the edge has been used up and the
backlog is not empty. `EdgeInv` adds that the main thread is then inside
`handlerRead` of that server or has it still among `active`; `PlaceInv`, which says in
whose function the main thread is and that `active` is empty outside of the
handlers, turns it into `NoLostClient` when the thread comes to `poll`. `TakeTurns` needs to
know where the index is: `Even` says that the loops at places before it have been
given one client more than the rest, over all pools of one size together. `TypeOK` bounds
the index by the longest list.

`TimerQueue_proofs`. For any timers, threads, interval and clock, and with calls of other
threads. The four properties are not inductive without `TaskInv` and `NewInv`: a queued
task names its timer by a pointer, and `deleteTimer` frees what the pointer names, so
a timer that is posted but not inserted yet must be on its way once only, unknown to
the map and to every `Remove` that has begun. `BatchInv` says that the pairs of the
batch carry the expirations of their timers, which is what lets the end of
`handleRead` insert a repeating timer again; `AlarmInv` that a timerfd is set to the
future. `ArmedInTime` follows although `insert`, `deleteTimer` and `resetTimer` look at
the head only (`HeadIsEnough`); that a set of pairs has a head comes from the well-founded
order of the numbers. `InsertedOnce` is about the assertion of `TimerQueue.cpp:112`. As in the
run, all of it is of the time before a wrong pointer is used (`failed`): `OneOwner` does not
say that two `Remove`s of other threads cannot free a timer twice, and they can.
`LoopAloneNeverFails` says that other threads are needed for it: in its own loop, callbacks
included, the queue never fails. It follows from `IInv` with `LoopInv`, by which the map has
no null, so that the containers, which hold the same timers, have the same size
(`OnePairEach`).

`HttpConn_proofs`. For any streams, replies, sizes of the buffer and of the socket's room.
`IInv` is the conjunction of the properties with four parts that say why they hold.
`ControlInv`: the loop reads only while nothing is left to be written. `ScanInv`: the
scan has found no line end so far, and the NULs in the buffer stand where the parser
blanked the CR LF of the line it is about to judge. `HeadInv`: the lines that have been
taken off are the head of the request so far, and give the parser's state. `AnswerInv`
says when an answer has been given and what for, `CloseInv` that a close that is queued
leaves nothing behind but, at most, the 400 of `NotCutShort`. With these the incremental
parser is compared with the flat definition (`ParserIsRight`): the first line end in what
has arrived is where the scan finds it, however often it was interrupted
(`NextLine`), the line taken off is the last that can decide the length and the Connection
(`NextHead`), and a head that is whole stays what it is when more arrives
(`HeadersKept`); a negative length never gets as far as an answer; a line
that is refused is refused again at every later read. `OutputStaysIntact` follows the
cells through partial writes from the buffer to the file, and `ClosesInTime` needs all of
it. The buffer's bounds come from `FixedBuffer_proofs`.

`Logger_proofs`. For any threads, statements and size of the buffer. `Agree` and
`Recursion` unfold a function that is defined by recursion on a range of numbers, and
`Unwinding` one that goes on to a smaller place until it stops; both rest on `Induction`, over
the set of the numbers that have a property, which comes from the well-founded order
of the numbers. `IntegersReadRight` and `PointersReadRight`: `convert` and `convertHex` give the
usual text of every number, the least integer too, whose sign `convert` never turns;
by induction on its size, since a digit behind the numeral of the quotient makes the
numeral of the number. `NumbersFit` has the sizes of 64-bit numbers, which is
`NumericAssumption` for the 32 bytes of the code. `LineInv` is that the buffer of a thread is
what has been added of its line, no more than its operands need, and that what is
left of the line is still to come; `PutHolds` that `put` keeps this and stays within the buffer.
`OutputInOrder` is inductive with it: a thread whose line is not finished has given
stdout no line of that statement.

`FixedBuffer_proofs`. For any size: `append` and `Receive` keep `_buf <= mReadPtr <=
mWritePtr <= _end` (Buffer.h:97), `append` is all or nothing wherever the content lies,
`readPtrMove` within what is used keeps the order.

Only model-checked: liveness (with fairness), TcpServer under other calls than
HttpServer's. Every invariant of a passing run is proved. No RECURSIVE operator is
declared; the digits of a number, the value of a text and the length of a line are
recursive functions, sequence operators come from the community modules.

## Not modelled

* `Timestamp` (arithmetic on microseconds; `TimerQueue` counts units), `StringPiece`,
  `Singleton`, `Copyable`: nothing that changes over time.
* The text inside a request line or a header, and what `snprintf` makes of a double or
  `strftime` of a time: a line is right or wrong, a text is a cell or two.
* Socket options, and calls that fail at the start of a server: an assertion ends
  the program.
* The copy constructor, `operator=` and `clear` of `FixedBuffer`: nothing uses them.
* `isReset`, which `ResetTimer` sets for its caller (`TimerQueue.cpp:52-61`; on another thread
  `std::bind` has copied it, so that the caller never learns), and which nothing reads.
* `memcpy` between places that overlap (`Buffer.cpp:19,62`): taken to move the content
  rightly, as the usual libraries do when moving towards lower addresses.
* `~TimerQueue`, which frees the set; a file that changes while it is mapped.
* What a compiler may do with an unprotected `bool` beyond delaying its store.
* The examples and unit tests, which were read for how the library is used.

## Plan

Done: `SerialExecutor`, `EventLoop`, `ConnLife`, `TcpServer`, `Server`, `ThreadPool`, `TimerQueue`,
`FixedBuffer`, `HttpConn` with its files, `Logger`, each with its proofs.

Next, in this order:

1. The text of a request line (`parseRequest`) as an operator on small tokens, with
   a reference definition.
