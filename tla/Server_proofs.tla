---------------------------- MODULE Server_proofs ----------------------------
(***************************************************************************)
(* Proofs about Server: its types, that the edge-triggered acceptor leaves *)
(* nobody waiting, and that getNextLoop takes turns, for any servers,      *)
(* pools, clients and number of descriptors.                               *)
(***************************************************************************)
EXTENDS Server, SequenceTheorems, TLAPS

\* Every slot is a place, and each list has one at least.
LEMMA SlotsArePlaces ==
    ASSUME NEW s \in Servers
    PROVE /\ Slots(s) \subseteq Places /\ Places \subseteq Nat
          /\ 0 \in Slots(s) /\ Nums[s] \in Nat \ {0}
          /\ SamePools => Places = Slots(s)
<1>1. \A t \in Servers : Nums[t] \in Nat \ {0} BY NumsAssumption
<1>2. \A t \in Servers : Slots(t) \subseteq Nat BY <1>1 DEF Slots
<1>3. 0 \in Slots(s) BY <1>1 DEF Slots
<1>4. SamePools => \A t \in Servers : Slots(t) = Slots(s) BY DEF SamePools, Slots
<1> QED BY <1>1, <1>2, <1>3, <1>4 DEF Places

LEMMA SlotBound ==
    ASSUME NEW s \in Servers, NEW i \in Slots(s)
    PROVE i \in Places /\ i + 1 \in Nat /\ i + 1 <= Nums[s]
<1>1. Nums[s] \in Nat \ {0} /\ i \in Places BY SlotsArePlaces
<1> QED BY <1>1 DEF Slots

LEMMA InitIInv == Init => IInv
<1> SUFFICES ASSUME Init PROVE IInv OBVIOUS
<1>1. TypeOK
  <2>1. /\ thread \in [Servers -> [Places -> {"none", "created", "looping", "ended"}]]
        /\ mLoop \in [Servers -> [Places -> BOOLEAN]]
        /\ mQuit \in [Servers -> [Places -> BOOLEAN]]
        /\ mTasks \in [Servers -> [Places -> Seq(Clients)]]
    BY DEF Init, PerLoop
  <2>2. /\ backlog \in [Servers -> Seq(Clients)]
        /\ connMap \in [Servers -> SUBSET Clients] /\ given \in [Places -> Nat]
    BY DEF Init
  <2> QED BY <2>1, <2>2 DEF Init, TypeOK
<1>2. PlaceInv BY DEF Init, PlaceInv
<1>3. EdgeInv BY DEF Init, EdgeInv
<1>4. TurnInv
  <2>1. Places \subseteq Nat BY SlotsArePlaces DEF Places
  <2> QED BY <2>1 DEF Init, TurnInv, TakeTurns, Even
<1> QED BY <1>1, <1>2, <1>3, <1>4 DEF IInv

(***************************************************************************)
(* Turn is an element of the list, and index stays within it.              *)
(***************************************************************************)
LEMMA TurnInList ==
    ASSUME index \in Nat, NEW s \in Servers
    PROVE /\ Turn(s) \in Slots(s) /\ Turn(s) + 1 \in Nat /\ Turn(s) + 1 <= Nums[s]
          /\ 0 <= Nums[s]
BY SlotsArePlaces DEF Turn, Slots

USE DEF vars, mainVars, threadVars, loopVars, socketVars, clientVars, GoTo, At, Running

LEMMA TypeStep == TypeOK /\ PlaceInv /\ [Next]_vars => TypeOK'
<1> SUFFICES ASSUME TypeOK, PlaceInv, [Next]_vars PROVE TypeOK' OBVIOUS
<1> USE DEF TypeOK
<1>0. Places \subseteq Nat BY SlotsArePlaces DEF Places
<1>1. ASSUME NEW s \in Servers, NewPool(s) PROVE TypeOK'
  BY <1>1, SlotsArePlaces DEF NewPool
<1>2. CASE NewLoopThread
  <2>1. srv \in Servers /\ slot \in Places /\ slot + 1 <= Nums[srv]
    BY <1>2, SlotBound DEF NewLoopThread, PlaceInv
  <2> QED BY <1>2, <2>1 DEF NewLoopThread
<1>3. CASE NewAcceptor BY <1>3 DEF NewAcceptor, PlaceInv
<1>4. ASSUME NEW s \in Servers, Listen(s) PROVE TypeOK'
  BY <1>4, SlotsArePlaces DEF Listen
<1>5. CASE EnableRead BY <1>5 DEF EnableRead, PlaceInv
<1>6. CASE EnterLoop BY <1>6 DEF EnterLoop
<1>7. CASE Poll BY <1>7 DEF Poll
<1>8. ASSUME NEW s \in Servers, handlerRead(s) PROVE TypeOK'
  BY <1>8, SlotsArePlaces DEF handlerRead
<1>9. CASE Accept
  <2>1. srv \in Servers BY <1>9 DEF Accept, PlaceInv
  <2>2. /\ Turn(srv) \in Places /\ Turn(srv) \in Slots(srv)
        /\ index' \in Nat /\ index' <= Nums[srv]
    BY <1>9, <2>1, TurnInList, SlotsArePlaces DEF Accept
  <2> DEFINE c == Head(backlog[srv])
  <2>3. c \in Clients /\ Tail(backlog[srv]) \in Seq(Clients)
    <3>1. backlog[srv] \in Seq(Clients) /\ backlog[srv] # <<>>
      BY <1>9, <2>1 DEF Accept
    <3> QED BY <3>1, HeadTailProperties
  <2>4. backlog' \in [Servers -> Seq(Clients)]
    BY <1>9, <2>1, <2>3 DEF Accept
  <2>5. /\ mTasks' \in [Servers -> [Places -> Seq(Clients)]]
        /\ client' \in [Clients -> {"none", "waiting", "queued", "served", "gone"}]
        /\ connMap' \in [Servers -> SUBSET Clients] /\ given' \in [Places -> Nat]
        /\ failed' \in {"no", "null loop", "mLoopList", "dead loop"}
    <3>1. CASE mLoop[srv][Turn(srv)]
      <4>1. /\ mTasks' = [mTasks EXCEPT ![srv][Turn(srv)] = Append(@, c)]
            /\ client' = [client EXCEPT ![c] = "queued"]
            /\ connMap' = [connMap EXCEPT ![srv] = @ \cup {c}]
            /\ given' = [given EXCEPT ![Turn(srv)] = @ + 1] /\ failed' = failed
        BY <1>9, <2>2, <3>1 DEF Accept
      <4>2. Append(mTasks[srv][Turn(srv)], c) \in Seq(Clients)
        <5>1. mTasks[srv][Turn(srv)] \in Seq(Clients) BY <2>1, <2>2
        <5> HIDE DEF c
        <5> QED BY <5>1, <2>3, AppendProperties
      <4> HIDE DEF c
      <4>3. mTasks' \in [Servers -> [Places -> Seq(Clients)]]
        BY <2>1, <2>2, <4>1, <4>2
      <4>4. client' \in [Clients -> {"none", "waiting", "queued", "served", "gone"}]
        BY <2>3, <4>1
      <4>5. connMap' \in [Servers -> SUBSET Clients]
        BY <2>1, <2>3, <4>1
      <4>6. given' \in [Places -> Nat]
        <5>1. given[Turn(srv)] + 1 \in Nat
          <6>1. given[Turn(srv)] \in Nat BY <2>2
          <6> HIDE DEF TypeOK
          <6> QED BY <6>1
        <5> QED BY <2>2, <4>1, <5>1
      <4> QED BY <4>1, <4>3, <4>4, <4>5, <4>6
    <3>2. CASE ~mLoop[srv][Turn(srv)] BY <1>9, <2>2, <3>2 DEF Accept
    <3> QED BY <3>1, <3>2
  <2>7. 0 <= Nums[srv] BY <2>1, TurnInList
  <2>6. /\ at' = "accept" /\ srv' = srv /\ slot' = 0
        /\ UNCHANGED <<life, active, mainQuit, threadVars, mQuit, reading, edge, starved>>
    BY <1>9 DEF Accept, GoOn
  <2> QED BY <2>1, <2>2, <2>4, <2>5, <2>6, <2>7
<1>10. CASE AcceptFails BY <1>10 DEF AcceptFails, PlaceInv
<1>11. CASE EndEvents BY <1>11 DEF EndEvents
<1>12. ASSUME NEW s \in Servers, DestroyServer(s) PROVE TypeOK'
  BY <1>12, SlotsArePlaces DEF DestroyServer
<1>13. CASE Stop
  <2>1. srv \in Servers /\ slot \in Places
    BY <1>13, SlotsArePlaces DEF Stop, PlaceInv
  <2>2. slot <= Nums[srv] BY <2>1, NoneAssumption
  <2>3. mQuit' \in [Servers -> [Places -> BOOLEAN]] /\ failed' \in {"no", "null loop"}
    <3>1. CASE mLoop[srv][slot] 
      <4>1. mQuit' = [mQuit EXCEPT ![srv][slot] = TRUE] /\ failed' = failed
        BY <1>13, <3>1 DEF Stop, QuitLoop
      <4>2. failed' = "no" BY <1>13, <4>1 DEF Stop
      <4> QED BY <2>1, <4>1, <4>2
    <3>2. CASE ~mLoop[srv][slot] BY <1>13, <2>1, <3>2 DEF Stop
    <3> QED BY <3>1, <3>2
  <2> QED BY <1>13, <2>1, <2>2, <2>3 DEF Stop
<1>14. CASE Join
  <2>1. slot + 1 <= Nums[srv]
    BY <1>14, SlotsArePlaces DEF Join, PlaceInv, Slots
  <2> QED BY <1>14, <2>1 DEF Join
<1>15. CASE EndStop BY <1>15, SlotsArePlaces DEF EndStop, PlaceInv
<1>16. CASE DropLoopThread
  <2>1. slot + 1 <= Nums[srv]
    BY <1>16, SlotBound DEF DropLoopThread, PlaceInv
  <2>2. slot + 1 \in Nat /\ failed' \in {"no", "null loop", "mLoopList", "dead loop"}
    <3>1. failed' = "no" \/ failed' = "dead loop" BY <1>16 DEF DropLoopThread
    <3>2. slot + 1 \in Nat
      <4>1. slot \in Nat OBVIOUS
      <4> HIDE DEF TypeOK
      <4> QED BY <4>1
    <3> QED BY <3>1, <3>2
  <2>3. at' = "drop" /\ srv' = srv /\ slot' = slot + 1
    BY <1>16 DEF DropLoopThread
  <2>4. UNCHANGED <<life, active, mainQuit, threadVars, loopVars, index,
                    socketVars, clientVars>>
    BY <1>16 DEF DropLoopThread
  <2> QED BY <2>1, <2>2, <2>3, <2>4
<1>17. CASE EndDestroy BY <1>17 DEF EndDestroy, PlaceInv
<1>18. ASSUME NEW s \in Servers, NEW i \in Slots(s), ThreadStep(s, i) PROVE TypeOK'
  <2>1. i \in Places BY SlotsArePlaces
  <2>2. CASE threadFunc(s, i) BY <2>1, <2>2 DEF threadFunc
  <2>3. CASE Execute(s, i)
    <3>1. Head(mTasks[s][i]) \in Clients /\ Tail(mTasks[s][i]) \in Seq(Clients)
      BY <2>1, <2>3 DEF Execute
    <3> QED BY <2>1, <2>3, <3>1 DEF Execute
  <2>4. CASE EndThread(s, i) BY <2>1, <2>4 DEF EndThread
  <2> QED BY <1>18, <2>2, <2>3, <2>4 DEF ThreadStep
<1>19. ASSUME NEW c \in Clients, NEW s \in Servers, Connect(c, s) PROVE TypeOK'
  BY <1>19 DEF Connect
<1>20. ASSUME NEW c \in Clients, NEW s \in Servers, Leave(c, s) PROVE TypeOK'
  BY <1>20 DEF Leave
<1>21. CASE QuitMain BY <1>21 DEF QuitMain
<1>22. CASE UNCHANGED vars BY <1>22
<1> QED BY <1>1, <1>2, <1>3, <1>4, <1>5, <1>6, <1>7, <1>8, <1>9, <1>10, <1>11,
          <1>12, <1>13, <1>14, <1>15, <1>16, <1>17, <1>18, <1>19, <1>20, <1>21,
          <1>22 DEF Next, BuildStep, MainLoopStep, DestroyStep

LEMMA PlaceStep == PlaceInv /\ [Next]_vars => PlaceInv'
<1> SUFFICES ASSUME PlaceInv, [Next]_vars PROVE PlaceInv' OBVIOUS
<1> USE DEF PlaceInv
<1>1. CASE BuildStep
  BY <1>1 DEF BuildStep, NewPool, NewLoopThread, NewAcceptor, Listen, EnableRead,
              EnterLoop
<1>2. CASE Poll \/ Accept \/ AcceptFails \/ EndEvents
  BY <1>2 DEF Poll, Accept, GoOn, AcceptFails, EndEvents
<1>3. ASSUME NEW s \in Servers, handlerRead(s) PROVE PlaceInv'
  BY <1>3 DEF handlerRead
<1>4. ASSUME NEW s \in Servers, DestroyServer(s) PROVE PlaceInv'
  BY <1>4 DEF DestroyServer
<1>5. CASE Stop \/ Join \/ EndStop \/ DropLoopThread \/ EndDestroy
  BY <1>5 DEF Stop, Join, EndStop, DropLoopThread, EndDestroy, Slots
<1>6. ASSUME NEW s \in Servers, NEW i \in Slots(s), ThreadStep(s, i) PROVE PlaceInv'
  BY <1>6 DEF ThreadStep, threadFunc, Execute, EndThread, Slots
<1>7. ASSUME NEW c \in Clients, NEW s \in Servers, Connect(c, s) \/ Leave(c, s)
      PROVE PlaceInv'
  BY <1>7 DEF Connect, Leave, Slots
<1>8. CASE QuitMain \/ UNCHANGED vars BY <1>8 DEF QuitMain, Slots
<1> QED BY <1>1, <1>2, <1>3, <1>4, <1>5, <1>6, <1>7, <1>8
        DEF Next, MainLoopStep, DestroyStep

(***************************************************************************)
(* A client in the backlog of a socket that is read has an edge, or the    *)
(* handler is about to look, or the last accept had no descriptor.  Only   *)
(* AcceptFails ends a handler, and it has then seen an empty backlog.      *)
(***************************************************************************)
LEMMA EdgeStep == TypeOK /\ PlaceInv /\ EdgeInv /\ [Next]_vars => EdgeInv'
<1> SUFFICES ASSUME TypeOK, PlaceInv, EdgeInv, [Next]_vars PROVE EdgeInv' OBVIOUS
<1>0. /\ backlog \in [Servers -> Seq(Clients)] /\ active \subseteq Servers
      /\ reading \in [Servers -> BOOLEAN] /\ edge \in [Servers -> BOOLEAN]
      /\ starved \in [Servers -> BOOLEAN]
  BY DEF TypeOK
<1> USE <1>0 DEF EdgeInv
<1>1. ASSUME NEW s \in Servers, NewPool(s) \/ Listen(s) PROVE EdgeInv'
  BY <1>1 DEF NewPool, Listen
<1>2. CASE NewLoopThread \/ NewAcceptor \/ EnterLoop
  BY <1>2 DEF NewLoopThread, NewAcceptor, EnterLoop
<1>3. CASE EnableRead BY <1>3 DEF EnableRead
<1>4. CASE Poll BY <1>4 DEF Poll, PlaceInv
<1>5. ASSUME NEW s \in Servers, handlerRead(s) PROVE EdgeInv'
  BY <1>5 DEF handlerRead
<1>6. CASE Accept BY <1>6 DEF Accept, GoOn
<1>7. CASE AcceptFails BY <1>7 DEF AcceptFails
<1>8. CASE EndEvents BY <1>8 DEF EndEvents
<1>9. ASSUME NEW s \in Servers, DestroyServer(s) PROVE EdgeInv'
  BY <1>9 DEF DestroyServer
<1>10. CASE Stop \/ Join \/ EndStop \/ DropLoopThread \/ EndDestroy
  BY <1>10 DEF Stop, Join, EndStop, DropLoopThread, EndDestroy
<1>11. ASSUME NEW s \in Servers, NEW i \in Slots(s), ThreadStep(s, i) PROVE EdgeInv'
  BY <1>11 DEF ThreadStep, threadFunc, Execute, EndThread
<1>12. ASSUME NEW c \in Clients, NEW s \in Servers, Connect(c, s) PROVE EdgeInv'
  BY <1>12 DEF Connect
<1>13. ASSUME NEW c \in Clients, NEW s \in Servers, Leave(c, s) PROVE EdgeInv'
  BY <1>13 DEF Leave
<1>14. CASE QuitMain \/ UNCHANGED vars BY <1>14 DEF QuitMain
<1> QED BY <1>1, <1>2, <1>3, <1>4, <1>5, <1>6, <1>7, <1>8, <1>9, <1>10, <1>11,
           <1>12, <1>13, <1>14 DEF Next, BuildStep, MainLoopStep, DestroyStep

(***************************************************************************)
(* Only Accept gives a client to a loop and moves index: to the next one,  *)
(* or from the end of the list, when all loops are even, to the first.     *)
(***************************************************************************)
LEMMA TurnStep == TypeOK /\ PlaceInv /\ TurnInv /\ [Next]_vars => TurnInv'
<1> SUFFICES ASSUME TypeOK, PlaceInv, TurnInv, [Next]_vars PROVE TurnInv' OBVIOUS
<1>1. CASE UNCHANGED <<index, given>>
           /\ (failed' = failed \/ (Running /\ failed' \in {"null loop", "dead loop"}))
  BY <1>1 DEF TurnInv, TakeTurns, Even, SamePools, Places, Slots
<1>2. CASE Accept
  <2>0. /\ srv \in Servers /\ index \in Nat /\ given \in [Places -> Nat]
        /\ failed = "no"
    BY <1>2 DEF Accept, PlaceInv, TypeOK
  <2> DEFINE i == Turn(srv)
  <2>1. i \in Slots(srv) /\ i \in Places /\ index' = i + 1
    BY <1>2, <2>0, TurnInList, SlotsArePlaces DEF Accept
  <2>2. CASE ~mLoop[srv][i]
    <3>1. failed' = "null loop" /\ given' = given
      BY <1>2, <2>1, <2>2 DEF Accept
    <3> QED BY <3>1 DEF TurnInv, TakeTurns, SamePools, Places, Slots
  <2>3. CASE mLoop[srv][i]
    <3>1. failed' = "no" /\ given' = [given EXCEPT ![i] = @ + 1]
      BY <1>2, <2>0, <2>1, <2>3 DEF Accept
    <3>2. SamePools' = SamePools /\ Places' = Places
      BY DEF SamePools, Places, Slots
    <3>3. ASSUME SamePools PROVE Even' /\ \A p, q \in Places : given'[p] <= given'[q] + 1
      <4>1. Even BY <2>0, <3>3 DEF TurnInv
      <4>2. Places = 0 .. Nums[srv] - 1 /\ Nums[srv] \in Nat \ {0}
        BY <2>0, <3>3, SlotsArePlaces DEF Slots
      <4>3. i = IF index >= Nums[srv] THEN 0 ELSE index
        BY DEF Turn
      <4>4. /\ \A p \in Places : given'[p] = IF p = i THEN given[p] + 1 ELSE given[p]
            /\ \A p \in Places : given[p] \in Nat
        BY <2>0, <3>1
      <4> HIDE DEF i
      <4>5. \A p, q \in Places :
              /\ (p < i <=> q < i) => given[p] = given[q]
              /\ p < i /\ q >= i => given[p] = given[q] + 1
        BY <2>0, <2>1, <4>1, <4>2, <4>3 DEF Even
      <4>6. \A p, q \in Places :
              /\ (p < i + 1 <=> q < i + 1) => given'[p] = given'[q]
              /\ p < i + 1 /\ q >= i + 1 => given'[p] = given'[q] + 1
        BY <2>1, <4>2, <4>4, <4>5
      <4>7. Even' BY <2>1, <3>2, <4>6 DEF Even
      <4> QED BY <2>1, <4>2, <4>4, <4>5, <4>6, <4>7
    <3> QED BY <3>1, <3>2, <3>3 DEF TurnInv, TakeTurns
  <2> QED BY <2>2, <2>3
<1>3. ASSUME NEW s \in Servers,
             NewPool(s) \/ Listen(s) \/ handlerRead(s) \/ DestroyServer(s)
      PROVE TurnInv'
  BY <1>1, <1>3 DEF NewPool, Listen, handlerRead, DestroyServer
<1>4. CASE NewLoopThread \/ NewAcceptor \/ EnterLoop \/ EnableRead \/ Poll
           \/ AcceptFails \/ EndEvents \/ Join \/ EndStop \/ EndDestroy \/ QuitMain
           \/ UNCHANGED vars
  BY <1>1, <1>4 DEF NewLoopThread, NewAcceptor, EnterLoop, EnableRead, Poll,
       AcceptFails, EndEvents, Join, EndStop, EndDestroy, QuitMain
<1>5. CASE Stop \/ DropLoopThread BY <1>1, <1>5 DEF Stop, DropLoopThread
<1>6. ASSUME NEW s \in Servers, NEW i \in Slots(s), ThreadStep(s, i) PROVE TurnInv'
  BY <1>1, <1>6 DEF ThreadStep, threadFunc, Execute, EndThread
<1>7. ASSUME NEW c \in Clients, NEW s \in Servers, Connect(c, s) \/ Leave(c, s)
      PROVE TurnInv'
  BY <1>1, <1>7 DEF Connect, Leave
<1> QED BY <1>2, <1>3, <1>4, <1>5, <1>6, <1>7
        DEF Next, BuildStep, MainLoopStep, DestroyStep

-----------------------------------------------------------------------------
\* The inductive invariant holds in every state.
THEOREM Inductive == Spec => []IInv
<1>1. IInv /\ [Next]_vars => IInv'
  BY TypeStep, PlaceStep, EdgeStep, TurnStep DEF IInv
<1> QED BY InitIInv, <1>1, PTL DEF Spec

\* The main loop never sleeps on a client in a backlog without an edge, unless
\* the last accept had no descriptor (Acceptor.cpp:42-62).
THEOREM NobodyIsLost == Spec => []NoLostClient
<1>1. IInv => NoLostClient BY DEF IInv, PlaceInv, EdgeInv, NoLostClient
<1> QED BY Inductive, <1>1, PTL

\* getNextLoop stays in its list and gives all loops their turn, whatever the
\* number of servers that share the static index (LoopThreadPool.cpp:27-34).
THEOREM TurnsAreTaken == Spec => []TakeTurns
<1>1. IInv => TakeTurns BY DEF IInv, TurnInv
<1> QED BY Inductive, <1>1, PTL
=============================================================================
