--------------------------- MODULE TcpServer_proofs ---------------------------
(***************************************************************************)
(* Proofs about TcpServer, as HttpServer uses it: for any io loops,        *)
(* connections and descriptors no assertion fails, no freed connection is  *)
(* used, each connection is removed once, and ConnLife is implemented.     *)
(***************************************************************************)
EXTENDS TcpServer, SequenceTheorems, FiniteSetTheorems, TLAPS

\* A list of tasks for each loop, such as All.
Lists == [Loops -> Seq(Task)]

\* The oldest task of a loop is taken; a task is added.
Taken(F, l) == [F EXCEPT ![l] = Tail(@)]
Added(F, l, t) == [F EXCEPT ![l] = Append(@, t)]

\* From F to G nothing is lost or gained of what c has among ops.
Keeps(F, G, c, ops) ==
    /\ NoTask(F, c, ops) => NoTask(G, c, ops)
    /\ \A l \in Loops, op \in Steps :
          OneTask(F, c, ops, l, op) => OneTask(G, c, ops, l, op)

-----------------------------------------------------------------------------
(* Lists of tasks.                                                         *)

\* Taking and adding give lists of tasks.
LEMMA ListsStay ==
    ASSUME NEW F \in Lists, NEW l \in Loops
    PROVE /\ F[l] # <<>> => Taken(F, l) \in Lists
          /\ \A t \in Task : Added(F, l, t) \in Lists
BY DEF Lists, Taken, Added

\* Where the tasks are after one has been taken.
LEMMA TakenPlaces ==
    ASSUME NEW F \in Lists, NEW l \in Loops, F[l] # <<>>
    PROVE /\ \A k \in Loops : k # l => Taken(F, l)[k] = F[k]
          /\ Len(F[l]) \in Nat \ {0} /\ 1 \in DOMAIN F[l] /\ F[l][1] = Head(F[l])
          /\ DOMAIN Taken(F, l)[l] = 1 .. Len(F[l]) - 1 /\ DOMAIN F[l] = 1 .. Len(F[l])
          /\ \A i \in 1 .. Len(F[l]) - 1 : Taken(F, l)[l][i] = F[l][i + 1]
          /\ \A k \in Loops : \A j \in DOMAIN Taken(F, l)[k] :
                LET i == IF k = l THEN j + 1 ELSE j IN
                i \in DOMAIN F[k] /\ Taken(F, l)[k][j] = F[k][i]
<1>1. F[l] \in Seq(Task) BY DEF Lists
<1>2. Taken(F, l)[l] = Tail(F[l]) /\ \A k \in Loops : k # l => Taken(F, l)[k] = F[k]
  BY DEF Lists, Taken
<1>3. /\ Len(F[l]) \in Nat \ {0} /\ 1 \in DOMAIN F[l] /\ F[l][1] = Head(F[l])
      /\ DOMAIN Taken(F, l)[l] = 1 .. Len(F[l]) - 1 /\ DOMAIN F[l] = 1 .. Len(F[l])
      /\ \A i \in 1 .. Len(F[l]) - 1 : Taken(F, l)[l][i] = F[l][i + 1]
  BY <1>1, <1>2
<1>4. \A j \in 1 .. Len(F[l]) - 1 : j + 1 \in 1 .. Len(F[l]) BY <1>3
<1> HIDE DEF Taken
<1> QED BY <1>2, <1>3, <1>4

\* Where the tasks are after one has been added.
LEMMA AddedPlaces ==
    ASSUME NEW F \in Lists, NEW l \in Loops, NEW t \in Task
    PROVE /\ \A k \in Loops : k # l => Added(F, l, t)[k] = F[k]
          /\ Len(F[l]) \in Nat
          /\ DOMAIN Added(F, l, t)[l] = 1 .. Len(F[l]) + 1 /\ DOMAIN F[l] = 1 .. Len(F[l])
          /\ \A i \in 1 .. Len(F[l]) : Added(F, l, t)[l][i] = F[l][i]
          /\ Added(F, l, t)[l][Len(F[l]) + 1] = t
          /\ \A k \in Loops : \A j \in DOMAIN Added(F, l, t)[k] :
                \/ j \in DOMAIN F[k] /\ Added(F, l, t)[k][j] = F[k][j]
                \/ k = l /\ j = Len(F[l]) + 1 /\ Added(F, l, t)[k][j] = t
<1>1. F[l] \in Seq(Task) BY DEF Lists
<1>2. Added(F, l, t)[l] = Append(F[l], t) /\ \A k \in Loops : k # l => Added(F, l, t)[k] = F[k]
  BY DEF Lists, Added
<1>3. /\ Len(F[l]) \in Nat
      /\ DOMAIN Added(F, l, t)[l] = 1 .. Len(F[l]) + 1 /\ DOMAIN F[l] = 1 .. Len(F[l])
      /\ \A i \in 1 .. Len(F[l]) : Added(F, l, t)[l][i] = F[l][i]
      /\ Added(F, l, t)[l][Len(F[l]) + 1] = t
  BY <1>1, <1>2
<1>4. \A j \in 1 .. Len(F[l]) + 1 : j \in 1 .. Len(F[l]) \/ j = Len(F[l]) + 1
  BY <1>3
<1> HIDE DEF Added
<1> QED BY <1>2, <1>3, <1>4

\* Taking a task that is not c's among the steps of its life keeps what c has.
LEMMA TakenKeeps ==
    ASSUME NEW F \in Lists, NEW l \in Loops, F[l] # <<>>, NEW c, NEW ops,
           ~(Head(F[l]).conn = c /\ Head(F[l]).op \in Steps)
    PROVE Keeps(F, Taken(F, l), c, ops)
<1> DEFINE G == Taken(F, l)
<1>0. \A k \in Loops : \A j \in DOMAIN G[k] :
        LET i == IF k = l THEN j + 1 ELSE j IN
        i \in DOMAIN F[k] /\ G[k][j] = F[k][i]
  BY TakenPlaces
<1>1. NoTask(F, c, ops) => NoTask(G, c, ops)
  <2> HIDE DEF G
  <2> QED BY <1>0 DEF NoTask
<1>2. ASSUME NEW k \in Loops, NEW op \in Steps, OneTask(F, c, ops, k, op)
      PROVE OneTask(G, c, ops, k, op)
  <2>1. PICK i \in DOMAIN F[k] :
          /\ F[k][i] = [op |-> op, conn |-> c]
          /\ \A k1 \in Loops : \A j \in DOMAIN F[k1] :
                F[k1][j].conn = c /\ F[k1][j].op \in ops => k1 = k /\ j = i
    BY <1>2 DEF OneTask
  <2>2. CASE k = l
    <3>1. i # 1 BY <2>1, <2>2, TakenPlaces
    <3>2. i - 1 \in DOMAIN G[k] /\ G[k][i - 1] = F[k][i]
      BY <2>1, <2>2, <3>1, TakenPlaces
    <3>3. ASSUME NEW k1 \in Loops, NEW j \in DOMAIN G[k1], G[k1][j].conn = c, G[k1][j].op \in ops
          PROVE k1 = k /\ j = i - 1
      <4>1. IF k1 = l THEN k1 = k /\ j + 1 = i ELSE k1 = k /\ j = i
        <5> HIDE DEF G
        <5> QED BY <1>0, <2>1, <3>3
      <4>2. j \in Nat /\ i \in Nat
        BY <2>2, <4>1, TakenPlaces
      <4> QED BY <2>2, <4>1, <4>2
    <3> QED BY <2>1, <3>2, <3>3 DEF OneTask
  <2>3. CASE k # l
    <3>1. i \in DOMAIN G[k] /\ G[k][i] = F[k][i] BY <2>1, <2>3, TakenPlaces
    <3>2. ASSUME NEW k1 \in Loops, NEW j \in DOMAIN G[k1], G[k1][j].conn = c, G[k1][j].op \in ops
          PROVE k1 = k /\ j = i
      <4>1. IF k1 = l THEN k1 = k /\ j + 1 = i ELSE k1 = k /\ j = i
        <5> HIDE DEF G
        <5> QED BY <1>0, <2>1, <3>2
      <4> QED BY <2>3, <4>1
    <3> QED BY <2>1, <3>1, <3>2 DEF OneTask
  <2> QED BY <2>2, <2>3
<1> QED BY <1>1, <1>2 DEF Keeps

\* If the one task is taken there is none.
LEMMA TakenLast ==
    ASSUME NEW F \in Lists, NEW l \in Loops, F[l] # <<>>, NEW c, NEW ops,
           NEW op \in ops, NEW k \in Loops, OneTask(F, c, ops, k, op),
           Head(F[l]).conn = c, Head(F[l]).op \in ops
    PROVE k = l /\ Head(F[l]).op = op /\ NoTask(Taken(F, l), c, ops)
<1>1. PICK i \in DOMAIN F[k] :
        /\ F[k][i] = [op |-> op, conn |-> c]
        /\ \A k1 \in Loops : \A j \in DOMAIN F[k1] :
              F[k1][j].conn = c /\ F[k1][j].op \in ops => k1 = k /\ j = i
  BY DEF OneTask
<1>2. k = l /\ i = 1 BY <1>1, TakenPlaces
<1>3. NoTask(Taken(F, l), c, ops)
  BY <1>1, <1>2, TakenPlaces DEF NoTask
<1> QED BY <1>1, <1>2, <1>3, TakenPlaces

\* Adding what is not c's, or not among ops, keeps what c has.
LEMMA AddedKeeps ==
    ASSUME NEW F \in Lists, NEW l \in Loops, NEW t \in Task, NEW c, NEW ops,
           t.conn = c => t.op \notin ops
    PROVE Keeps(F, Added(F, l, t), c, ops)
<1> DEFINE G == Added(F, l, t)
<1>0. \A k \in Loops : \A j \in DOMAIN G[k] :
        G[k][j].conn = c /\ G[k][j].op \in ops => j \in DOMAIN F[k] /\ G[k][j] = F[k][j]
  BY AddedPlaces
<1>1. NoTask(F, c, ops) => NoTask(G, c, ops)
  BY <1>0 DEF NoTask
<1>2. ASSUME NEW k \in Loops, NEW op \in Steps, OneTask(F, c, ops, k, op)
      PROVE OneTask(G, c, ops, k, op)
  <2>1. PICK i \in DOMAIN F[k] :
          /\ F[k][i] = [op |-> op, conn |-> c]
          /\ \A k1 \in Loops : \A j \in DOMAIN F[k1] :
                F[k1][j].conn = c /\ F[k1][j].op \in ops => k1 = k /\ j = i
    BY <1>2 DEF OneTask
  <2>2. i \in DOMAIN G[k] /\ G[k][i] = F[k][i] BY <2>1, AddedPlaces
  <2>3. ASSUME NEW k1 \in Loops, NEW j \in DOMAIN G[k1], G[k1][j].conn = c, G[k1][j].op \in ops
        PROVE k1 = k /\ j = i
    BY <1>0, <2>1, <2>3
  <2> QED BY <2>1, <2>2, <2>3 DEF OneTask
<1> QED BY <1>1, <1>2 DEF Keeps

\* Adding the first of c's among ops makes it the one.
LEMMA AddedFirst ==
    ASSUME NEW F \in Lists, NEW l \in Loops, NEW c, NEW ops, NEW op \in ops,
           [op |-> op, conn |-> c] \in Task, NoTask(F, c, ops)
    PROVE OneTask(Added(F, l, [op |-> op, conn |-> c]), c, ops, l, op)
<1> DEFINE t == [op |-> op, conn |-> c]
           G == Added(F, l, t)
<1>1. t \in Task OBVIOUS
<1> HIDE DEF t
<1>2. Len(F[l]) + 1 \in DOMAIN G[l] /\ G[l][Len(F[l]) + 1] = t BY <1>1, AddedPlaces
<1>3. ASSUME NEW k \in Loops, NEW j \in DOMAIN G[k], G[k][j].conn = c, G[k][j].op \in ops
      PROVE k = l /\ j = Len(F[l]) + 1
  BY <1>1, <1>3, AddedPlaces DEF NoTask
<1> QED BY <1>2, <1>3 DEF OneTask, t

\* The head of a concatenation is that of its first part, the end of it that of
\* the second.
LEMMA EndsOfConcat ==
    ASSUME NEW a \in Seq(Task), NEW b \in Seq(Task)
    PROVE /\ a # <<>> => /\ a \o b # <<>> /\ Head(a \o b) = Head(a)
                        /\ Tail(a \o b) = Tail(a) \o b
          /\ \A t \in Task : a \o Append(b, t) = Append(a \o b, t)
<1>1. ASSUME a # <<>>
      PROVE a \o b # <<>> /\ Head(a \o b) = Head(a) /\ Tail(a \o b) = Tail(a) \o b
  <2>1. Head(a) \in Task /\ Tail(a) \in Seq(Task) BY <1>1, HeadTailProperties
  <2> DEFINE h == <<Head(a)>>
  <2>2. h \in Seq(Task) BY <2>1
  <2>3. a = h \o Tail(a) BY <1>1, <2>1, <2>2, ConcatProperties, HeadTailProperties, SMT
  <2>4. a \o b = h \o (Tail(a) \o b) BY <2>1, <2>2, <2>3, ConcatAssociative
  <2>5. Tail(a) \o b \in Seq(Task) BY <2>1, ConcatProperties
  <2> QED BY <2>1, <2>2, <2>4, <2>5, ConcatProperties, HeadTailProperties, SMT
<1>2. ASSUME NEW t \in Task PROVE a \o Append(b, t) = Append(a \o b, t)
  <2>1. a \o b \in Seq(Task) /\ <<t>> \in Seq(Task) BY ConcatProperties
  <2>2. Append(b, t) = b \o <<t>> /\ Append(a \o b, t) = (a \o b) \o <<t>>
    BY <2>1, AppendIsConcat
  <2> QED BY <2>1, <2>2, ConcatAssociative
<1> QED BY <1>1, <1>2

-----------------------------------------------------------------------------
(* What a step does to All.                                                *)

\* q has a list of tasks for each loop.
LoopsHave(q) == q \in [Loops -> Seq(Task)]

\* All is made of lists of tasks.
LEMMA AllLists ==
    ASSUME LoopsHave(batch), LoopsHave(queue)
    PROVE All \in Lists /\ \A l \in Loops : All[l] = batch[l] \o queue[l]
<1>1. ASSUME NEW l \in Loops PROVE batch[l] \o queue[l] \in Seq(Task)
  <2>1. batch[l] \in Seq(Task) /\ queue[l] \in Seq(Task) BY DEF LoopsHave
  <2> QED BY <2>1
<1> QED BY <1>1 DEF All, Lists

\* A task that is queued is added to All.
LEMMA Queueing ==
    ASSUME LoopsHave(batch), LoopsHave(queue), LoopsHave(batch'),
           NEW l \in Loops, NEW t \in Task, queue' = [queue EXCEPT ![l] = Append(@, t)]
    PROVE LoopsHave(queue') /\ All' = Added([k \in Loops |-> batch'[k] \o queue[k]], l, t)
<1> DEFINE M == [k \in Loops |-> batch'[k] \o queue[k]]
<1>1. LoopsHave(queue')
  <2>1. queue \in [Loops -> Seq(Task)] BY DEF LoopsHave
  <2>2. Append(queue[l], t) \in Seq(Task) BY <2>1
  <2>3. queue' \in [Loops -> Seq(Task)] BY <2>1, <2>2
  <2> QED BY <2>3 DEF LoopsHave
<1>2. ASSUME NEW k \in Loops PROVE batch'[k] \o queue'[k] = Added(M, l, t)[k]
  <2>1. batch'[k] \in Seq(Task) /\ queue[k] \in Seq(Task) BY DEF LoopsHave
  <2>2. CASE k = l
    <3>1. queue'[k] = Append(queue[k], t) BY <2>2 DEF LoopsHave
    <3>2. Added(M, l, t)[k] = Append(batch'[k] \o queue[k], t) BY <2>2 DEF Added
    <3>3. batch'[k] \o Append(queue[k], t) = Append(batch'[k] \o queue[k], t)
      BY <2>1, EndsOfConcat
    <3> HIDE DEF M
    <3> QED BY <3>1, <3>2, <3>3
  <2>3. CASE k # l
    BY <2>3 DEF LoopsHave, Added
  <2> QED BY <2>2, <2>3
<1>3. All' = [k \in Loops |-> batch'[k] \o queue'[k]] BY DEF All
<1>4. Added(M, l, t) = [k \in Loops |-> Added(M, l, t)[k]] BY DEF Added
<1>5. All' = Added(M, l, t)
  <2> HIDE DEF M
  <2> QED BY <1>2, <1>3, <1>4
<1> QED BY <1>1, <1>5

\* The oldest task of a batch is the oldest of All.
LEMMA Taking ==
    ASSUME LoopsHave(batch), LoopsHave(queue), NEW l \in Loops, NEW t, NextTask(l, t)
    PROVE /\ All[l] # <<>> /\ Head(All[l]) = t /\ t = All[l][1] /\ 1 \in DOMAIN All[l]
          /\ t \in Task /\ LoopsHave(batch')
          /\ [k \in Loops |-> batch'[k] \o queue[k]] = Taken(All, l)
<1>1. batch[l] \in Seq(Task) /\ queue[l] \in Seq(Task) BY DEF LoopsHave
<1>2. batch[l] # <<>> /\ t = Head(batch[l]) /\ batch' = [batch EXCEPT ![l] = Tail(@)]
  BY DEF NextTask
<1>3. All[l] = batch[l] \o queue[l] BY AllLists
<1>4. /\ All[l] # <<>> /\ Head(All[l]) = t /\ t = All[l][1] /\ 1 \in DOMAIN All[l]
      /\ t \in Task /\ Tail(batch[l]) \in Seq(Task)
  <2>1. All[l] # <<>> /\ Head(All[l]) = Head(batch[l])
    BY <1>1, <1>2, <1>3, EndsOfConcat
  <2>2. All[l] \in Seq(Task) BY AllLists DEF Lists
  <2>3. Head(batch[l]) \in Task /\ Tail(batch[l]) \in Seq(Task) BY <1>1, <1>2
  <2> QED BY <1>2, <2>1, <2>2, <2>3
<1>5. LoopsHave(batch') BY <1>2, <1>4 DEF LoopsHave
<1>6. ASSUME NEW k \in Loops PROVE batch'[k] \o queue[k] = Taken(All, l)[k]
  <2>1. CASE k = l
    <3>1. batch'[k] = Tail(batch[k]) BY <1>2, <2>1 DEF LoopsHave
    <3>2. Taken(All, l)[k] = Tail(batch[k] \o queue[k]) BY <1>3, <2>1 DEF Taken, All
    <3>3. Tail(batch[k] \o queue[k]) = Tail(batch[k]) \o queue[k]
      BY <1>1, <1>2, <2>1, EndsOfConcat
    <3> QED BY <3>1, <3>2, <3>3
  <2>2. CASE k # l
    BY <1>2, <2>2 DEF LoopsHave, Taken, All
  <2> QED BY <2>1, <2>2
<1>7. Taken(All, l) = [k \in Loops |-> Taken(All, l)[k]] BY DEF Taken, All
<1> QED BY <1>4, <1>5, <1>6, <1>7

-----------------------------------------------------------------------------
(* One connection.                                                         *)

\* Nothing that LifeInv says of c is disturbed.
LEMMA Bystander ==
    ASSUME NEW c, LifeInv(c), state'[c] = state[c],
           interest'[c] = "none" <=> interest[c] = "none",
           (channelMap[loop[c]][fd[c]] = c)' <=> channelMap[loop[c]][fd[c]] = c,
           (connMap[fd[c]] = c)' <=> connMap[fd[c]] = c,
           writing' = [op |-> "erase", conn |-> c] <=> writing = [op |-> "erase", conn |-> c],
           writing = [op |-> "insert", conn |-> c] => writing' = writing,
           c \in freed' => c \in freed, loop'[c] = loop[c],
           Keeps(All, All', c, Steps),
           state[c] \in {None, "CONNECTING"} => Keeps(All, All', c, Ops),
           loop[c] \in Loops
    PROVE LifeInv(c)'
<1>1. "Established" \in Steps /\ "removeInLoop" \in Steps /\ "Destroy" \in Steps /\ Main \in Loops
  BY NAssumption DEF Steps, Main, Loops
<1>2. state[c] = None => (NoTask(All, c, Ops) => NoTask(All', c, Ops))
  BY DEF Keeps
<1>3. state[c] = "CONNECTING" =>
        (OneTask(All, c, Ops, loop[c], "Established")
           => OneTask(All', c, Ops, loop[c], "Established"))
  BY <1>1 DEF Keeps
<1>4. NoTask(All, c, Steps) => NoTask(All', c, Steps) BY DEF Keeps
<1>5. OneTask(All, c, Steps, Main, "removeInLoop") => OneTask(All', c, Steps, Main, "removeInLoop")
  BY <1>1 DEF Keeps
<1>6. OneTask(All, c, Steps, loop[c], "Destroy") => OneTask(All', c, Steps, loop[c], "Destroy")
  BY <1>1 DEF Keeps
<1> QED BY <1>2, <1>3, <1>4, <1>5, <1>6 DEF LifeInv

\* Where the loops are numbers.
LEMMA LoopFacts == Io \subseteq Loops /\ Main \in Loops /\ Main \notin Io
BY NAssumption DEF Io, Loops, Main

\* None is nothing else.
LEMMA NoneIsNone ==
    /\ None \notin Conns /\ None \notin Fds /\ None \notin Updates
    /\ None # "CONNECTING" /\ None # "CONNECTED" /\ None # "CLOSING" /\ None # "CLOSED"
    /\ States = {"CONNECTING", "CONNECTED", "CLOSING", "CLOSED"}
BY NoneAssumption DEF States, Open

\* What the invariant says of a connection that has been made.
LEMMA ConnFacts ==
    ASSUME IInv, NEW c \in Made
    PROVE /\ c \in Conns /\ fd[c] \in Fds /\ loop[c] \in Io /\ loop[c] \in Loops
          /\ state[c] \in States \cup {None} /\ LifeInv(c) /\ loop[c] # Main
          /\ interest[c] \in {"none", "in", "out", "et"}
          /\ c # None /\ None \notin Fds
<1>1. /\ fd \in [Conns -> Fds \cup {None}] /\ state \in [Conns -> States \cup {None}]
      /\ interest \in [Conns -> {"none", "in", "out", "et"}]
  BY DEF IInv, TypeOK
<1>2. c \in Conns /\ fd[c] # None BY DEF Made
<1>3. loop[c] \in Io /\ LifeInv(c) BY DEF IInv, HolderInv
<1> QED BY <1>1, <1>2, <1>3, LoopFacts, NoneIsNone

\* All that the loops are to do fits.
LEMMA TaskFacts ==
    ASSUME IInv
    PROVE /\ LoopsHave(batch) /\ LoopsHave(queue) /\ All \in Lists
          /\ \A l \in Loops : \A i \in DOMAIN All[l] : Fits(l, All[l][i])
BY AllLists DEF IInv, TypeOK, LoopsHave, TaskInv

\* A descriptor of one connection is not where another one is registered or
\* found.
LEMMA Apart ==
    ASSUME IInv, NEW c \in Made \ freed, NEW d \in Made, d # c,
           channelMap[loop[d]][fd[d]] = d \/ connMap[fd[d]] = d
    PROVE d \notin freed /\ fd[d] # fd[c]
<1>1. LifeInv(d) /\ state[d] \in States \cup {None} BY ConnFacts
<1>2. state[d] # "CLOSED" BY <1>1 DEF LifeInv
<1>3. d \notin freed BY <1>1, <1>2 DEF LifeInv
<1>4. \A c1, d1 \in Made \ freed : fd[c1] = fd[d1] => c1 = d1 BY DEF IInv, HolderInv
<1> QED BY <1>3, <1>4

\* Lists that fit, after a task has been taken or one that fits been added.
LEMMA StillFits ==
    ASSUME NEW F \in Lists, \A l \in Loops : \A i \in DOMAIN F[l] : Fits(l, F[l][i]),
           NEW k \in Loops
    PROVE /\ F[k] # <<>> =>
                \A l \in Loops : \A i \in DOMAIN Taken(F, k)[l] : Fits(l, Taken(F, k)[l][i])
          /\ \A t \in Task : Fits(k, t) =>
                \A l \in Loops : \A i \in DOMAIN Added(F, k, t)[l] :
                   Fits(l, Added(F, k, t)[l][i])
<1>1. ASSUME F[k] # <<>>, NEW l \in Loops, NEW i \in DOMAIN Taken(F, k)[l]
      PROVE Fits(l, Taken(F, k)[l][i])
  <2>1. PICK j \in DOMAIN F[l] : Taken(F, k)[l][i] = F[l][j]
    BY <1>1, TakenPlaces
  <2> QED BY <2>1
<1>2. ASSUME NEW t \in Task, Fits(k, t), NEW l \in Loops, NEW i \in DOMAIN Added(F, k, t)[l]
      PROVE Fits(l, Added(F, k, t)[l][i])
  BY <1>2, AddedPlaces
<1> QED BY <1>1, <1>2

-----------------------------------------------------------------------------
(* The handlers, as what they do to a connection c.                        *)

\* Read, written, or nothing: it stays what it is.
Served(c) ==
    /\ UNCHANGED <<state, channelMap, failed>>
    /\ \/ UNCHANGED interest
       \/ /\ state[c] = "CONNECTED"
          /\ \E i \in {"in", "out", "et"} : interest' = [interest EXCEPT ![c] = i]
    /\ UNCHANGED queue \/ Enqueue(loop[c], "writeComplete", c)

\* It begins to close.
Shut(c) ==
    /\ state[c] = "CONNECTED" /\ state' = [state EXCEPT ![c] = "CLOSING"]
    /\ interest' = [interest EXCEPT ![c] = "none"]
    /\ Enqueue(Main, "removeInLoop", c)
    /\ UNCHANGED <<channelMap, failed>>

\* Established and Destroy without a failure.
Opened(c) ==
    /\ state[c] = "CONNECTING" /\ state' = [state EXCEPT ![c] = "CONNECTED"]
    /\ interest' = [interest EXCEPT ![c] = "in"]
    /\ Add(c)
    /\ UNCHANGED <<queue, failed>>

Ended(c) ==
    /\ state[c] = "CLOSING" /\ state' = [state EXCEPT ![c] = "CLOSED"]
    /\ connMap[fd[c]] # c /\ writing # [op |-> "erase", conn |-> c]
    /\ Delete(c)
    /\ UNCHANGED <<interest, queue, failed>>

\* Mod finds a connection that is connected or closing, and changes nothing in
\* the table.
LEMMA ModFinds ==
    ASSUME IInv, NEW c \in Made, state[c] \in {"CONNECTED", "CLOSING"}, Mod(c)
    PROVE UNCHANGED <<channelMap, failed>>
<1>1. /\ channelMap[loop[c]][fd[c]] = c /\ c # None /\ loop[c] \in Io /\ fd[c] \in Fds
  BY ConnFacts DEF LifeInv
<1>2. channelMap \in [Io -> [Fds -> Conns \cup {None}]] BY DEF IInv, TypeOK
<1>3. Registered(c) /\ Put(c, c) /\ UNCHANGED failed BY <1>1 DEF Mod, Registered
<1>4. channelMap' = channelMap BY <1>1, <1>2, <1>3 DEF Put
<1> QED BY <1>3, <1>4

\* handleClose of a connection that has been established closes it once.
LEMMA CloseEffect ==
    ASSUME IInv, NEW c \in Made, state[c] \notin {None, "CONNECTING"}, handleClose(c)
    PROVE Served(c) \/ Shut(c)
<1>1. state[c] \in States BY ConnFacts
<1>2. CASE state[c] \in Open
  <2>1. state[c] = "CONNECTED" BY <1>1, <1>2 DEF Open
  <2>2. UNCHANGED <<channelMap, failed>>
    BY <1>2, <2>1, ModFinds DEF handleClose, SetInterest
  <2> QED BY <1>2, <2>1, <2>2 DEF handleClose, SetInterest, SetState, Shut
<1>3. CASE state[c] \notin Open BY <1>3 DEF handleClose, Served
<1> QED BY <1>2, <1>3

\* sendInLoop, handleRead and handleWrite of an open connection: Mod finds its
\* channel, so that none of them aborts.
LEMMA SendEffect ==
    ASSUME IInv, NEW c \in Made, state[c] = "CONNECTED", sendInLoop(c)
    PROVE Served(c) \/ Shut(c)
<1>1. CASE handleClose(c) BY <1>1, CloseEffect, NoneIsNone
<1>2. CASE SetInterest(c, "out") /\ UNCHANGED <<state, queue>>
  BY <1>2, ModFinds DEF SetInterest, Served
<1>3. CASE Enqueue(loop[c], "writeComplete", c) /\ UNCHANGED <<state, interest, channelMap, failed>>
  BY <1>3 DEF Served
<1> QED BY <1>1, <1>2, <1>3 DEF sendInLoop

\* handleRead, which may send or close.
LEMMA ReadEffect ==
    ASSUME IInv, NEW c \in Made, state[c] = "CONNECTED", handleRead(c)
    PROVE Served(c) \/ Shut(c)
<1>1. CASE handleClose(c) BY <1>1, CloseEffect, NoneIsNone
<1>2. CASE UNCHANGED <<state, interest, queue, channelMap, failed>> BY <1>2 DEF Served
<1>3. CASE sendInLoop(c) BY <1>3, SendEffect
<1> QED BY <1>1, <1>2, <1>3 DEF handleRead

\* handleWrite, which leaves some interest unless it closes.
LEMMA WriteEffect ==
    ASSUME IInv, NEW c \in Made, state[c] = "CONNECTED", handleWrite(c)
    PROVE Served(c) \/ Shut(c)
<1>1. CASE handleClose(c) BY <1>1, CloseEffect, NoneIsNone
<1>2. CASE UNCHANGED <<state, interest, queue, channelMap, failed>> BY <1>2 DEF Served
<1>3. CASE /\ Enqueue(loop[c], "writeComplete", c)
           /\ SetInterest(c, IF interest[c] = "out" THEN "et" ELSE interest[c])
           /\ UNCHANGED state
  <2> DEFINE i == IF interest[c] = "out" THEN "et" ELSE interest[c]
  <2>1. UNCHANGED <<channelMap, failed>> BY <1>3, ModFinds DEF SetInterest
  <2>2. interest[c] # "none" /\ interest[c] \in {"none", "in", "out", "et"}
    BY ConnFacts DEF LifeInv
  <2>3. i \in {"in", "out", "et"} BY <2>2
  <2>4. interest' = [interest EXCEPT ![c] = i] BY <1>3 DEF SetInterest
  <2> HIDE DEF i
  <2> QED BY <1>3, <2>1, <2>3, <2>4 DEF Served
<1> QED BY <1>1, <1>2, <1>3 DEF handleWrite

\* An event is of a living connection of the loop that is registered.
LEMMA EventFacts ==
    ASSUME IInv, NEW l \in Io, NEW e \in active[l]
    PROVE /\ e.conn \in Made \ freed /\ loop[e.conn] = l
          /\ state[e.conn] \in {"CONNECTED", "CLOSING"}
          /\ e.kind \in {"read", "write"} => state[e.conn] = "CONNECTED"
<1> DEFINE c == e.conn
<1>1. e \in [conn : Conns, kind : {"read", "write", "hup"}] BY DEF IInv, TypeOK
<1>2. /\ fd[c] \in Fds /\ channelMap[l][fd[c]] = c
      /\ e.kind = "read" => interest[c] = "in"
      /\ e.kind = "write" => interest[c] = "out"
  BY DEF IInv, EventInv
<1>3. c \in Conns /\ c # None BY <1>1, NoneIsNone
<1>4. c \notin freed /\ loop[c] = l BY <1>2, <1>3 DEF IInv, NoDanglingChannel
<1>5. c \in Made BY <1>2, <1>3, NoneIsNone DEF Made
<1>6. LifeInv(c) BY <1>5, ConnFacts
<1> HIDE DEF c
<1>7. state[c] \in {"CONNECTED", "CLOSING"} BY <1>2, <1>4, <1>6 DEF LifeInv
<1>8. interest[c] # "none" => state[c] = "CONNECTED" BY <1>6 DEF LifeInv
<1> QED BY <1>2, <1>4, <1>5, <1>7, <1>8 DEF c

\* What HandleEvent does: the connection is not a freed one.
LEMMA EventEffect ==
    ASSUME IInv, NEW l \in Io, HandleEvent(l)
    PROVE \E e \in active[l] :
             /\ active' = [active EXCEPT ![l] = @ \ {e}]
             /\ Served(e.conn) \/ Shut(e.conn)
<1>1. PICK e \in active[l] :
        /\ active' = [active EXCEPT ![l] = @ \ {e}]
        /\ \/ e.conn \in freed /\ Abort("use after free")
           \/ /\ e.conn \notin freed
              /\ \/ e.kind = "read" /\ handleRead(e.conn)
                 \/ e.kind = "write" /\ handleWrite(e.conn)
                 \/ e.kind = "hup" /\ handleClose(e.conn)
  BY DEF HandleEvent
<1> DEFINE c == e.conn
<1>2. /\ c \in Made \ freed /\ state[c] \in {"CONNECTED", "CLOSING"}
      /\ e.kind \in {"read", "write"} => state[c] = "CONNECTED"
  BY EventFacts
<1> HIDE DEF c
<1>3. ASSUME e.kind = "read" /\ handleRead(c) PROVE Served(c) \/ Shut(c)
  BY <1>2, <1>3, ReadEffect
<1>4. ASSUME e.kind = "write" /\ handleWrite(c) PROVE Served(c) \/ Shut(c)
  BY <1>2, <1>4, WriteEffect
<1>5. ASSUME e.kind = "hup" /\ handleClose(c) PROVE Served(c) \/ Shut(c)
  BY <1>2, <1>5, CloseEffect, NoneIsNone
<1>6. Served(c) \/ Shut(c) BY <1>1, <1>2, <1>3, <1>4, <1>5 DEF c
<1> QED BY <1>1, <1>6 DEF c

\* The oldest task of a loop tells the stage of its connection.
LEMMA HeadFacts ==
    ASSUME IInv, NEW l \in Loops, All[l] # <<>>, NEW c, c = Head(All[l]).conn
    PROVE LET op == Head(All[l]).op IN
          /\ Fits(l, Head(All[l])) /\ c \in Made \ freed
          /\ op = "Established" => state[c] = "CONNECTING" /\ NoTask(Taken(All, l), c, Steps)
          /\ op # "Established" => state[c] \notin {None, "CONNECTING"}
          /\ op = "removeInLoop" =>
                /\ state[c] = "CLOSING" /\ connMap[fd[c]] = c
                /\ writing # [op |-> "erase", conn |-> c]
                /\ NoTask(Taken(All, l), c, Steps)
          /\ op = "Destroy" =>
                /\ state[c] = "CLOSING" /\ connMap[fd[c]] # c
                /\ writing # [op |-> "erase", conn |-> c]
                /\ NoTask(Taken(All, l), c, Steps)
<1> DEFINE t == Head(All[l])
           G == Taken(All, l)
<1>1. All \in Lists /\ 1 \in DOMAIN All[l] /\ t = All[l][1] BY TaskFacts, TakenPlaces
<1>2. Fits(l, t) BY <1>1, TaskFacts
<1>3. c \in Made \ freed /\ t.op \in Ops
  BY <1>2 DEF Fits, Ops
<1>4. LifeInv(c) /\ state[c] \in States \cup {None} /\ loop[c] \in Io /\ loop[c] # Main
      /\ loop[c] \in Loops /\ Main \in Loops
  BY <1>3, ConnFacts, LoopFacts
<1>5. ~NoTask(All, c, Ops) /\ (t.op \in Steps => ~NoTask(All, c, Steps))
  BY <1>1, <1>3 DEF NoTask
<1>6. ASSUME NEW k \in Loops, NEW op \in Ops, OneTask(All, c, Ops, k, op)
      PROVE k = l /\ t.op = op /\ NoTask(G, c, Ops)
  BY <1>1, <1>3, <1>6, TakenLast
<1>7. ASSUME NEW k \in Loops, NEW op \in Steps, OneTask(All, c, Steps, k, op), t.op \in Steps
      PROVE k = l /\ t.op = op /\ NoTask(G, c, Steps)
  BY <1>1, <1>3, <1>7, TakenLast
<1>8. NoTask(G, c, Ops) => NoTask(G, c, Steps) BY DEF NoTask, Ops, Steps
<1>9. t.op \in Steps <=> t.op \in {"Established", "removeInLoop", "Destroy"} BY DEF Steps
<1>10. state[c] # None BY <1>4, <1>5 DEF LifeInv
<1>11. CASE state[c] = "CONNECTING"
  <2>1. OneTask(All, c, Ops, loop[c], "Established") BY <1>4, <1>11 DEF LifeInv
  <2>2. "Established" \in Ops BY DEF Ops
  <2>3. t.op = "Established" /\ NoTask(G, c, Ops) BY <1>4, <1>6, <2>1, <2>2
  <2> QED BY <1>2, <1>3, <1>8, <1>11, <2>3
<1>12. CASE state[c] \in {"CONNECTED", "CLOSED"}
  <2>1. NoTask(All, c, Steps) BY <1>4, <1>12 DEF LifeInv
  <2> QED BY <1>2, <1>3, <1>5, <1>9, <1>12, <2>1, NoneIsNone
<1>13. CASE state[c] = "CLOSING"
  <2>1. \/ /\ connMap[fd[c]] = c /\ writing # [op |-> "erase", conn |-> c]
           /\ OneTask(All, c, Steps, Main, "removeInLoop")
        \/ NoTask(All, c, Steps)
        \/ /\ connMap[fd[c]] # c /\ writing # [op |-> "erase", conn |-> c]
           /\ OneTask(All, c, Steps, loop[c], "Destroy")
    BY <1>4, <1>13 DEF LifeInv
  <2>2. "removeInLoop" \in Steps /\ "Destroy" \in Steps BY DEF Steps
  <2>3. CASE t.op \notin Steps BY <1>2, <1>3, <1>9, <1>13, <2>3, NoneIsNone
  <2>4. CASE t.op \in Steps
    <3>1. CASE /\ connMap[fd[c]] = c /\ writing # [op |-> "erase", conn |-> c]
               /\ OneTask(All, c, Steps, Main, "removeInLoop")
      <4>1. t.op = "removeInLoop" /\ NoTask(G, c, Steps) BY <1>4, <1>7, <2>2, <2>4, <3>1
      <4> QED BY <1>2, <1>3, <1>13, <3>1, <4>1, NoneIsNone
    <3>2. CASE /\ connMap[fd[c]] # c /\ writing # [op |-> "erase", conn |-> c]
               /\ OneTask(All, c, Steps, loop[c], "Destroy")
      <4>1. t.op = "Destroy" /\ NoTask(G, c, Steps) BY <1>4, <1>7, <2>2, <2>4, <3>2
      <4> QED BY <1>2, <1>3, <1>13, <3>2, <4>1, NoneIsNone
    <3> QED BY <1>5, <2>1, <2>4, <3>1, <3>2
  <2> QED BY <2>3, <2>4
<1> QED BY <1>4, <1>10, <1>11, <1>12, <1>13, NoneIsNone

\* What a connection's slot in the table holds is itself or nothing.
LEMMA SlotFacts ==
    ASSUME IInv, NEW c \in Made \ freed
    PROVE Registered(c) <=> channelMap[loop[c]][fd[c]] = c
<1> DEFINE d == channelMap[loop[c]][fd[c]]
<1>1. loop[c] \in Io /\ fd[c] \in Fds /\ c # None BY ConnFacts
<1>2. d \in Conns \cup {None}
  <2>1. channelMap \in [Io -> [Fds -> Conns \cup {None}]] BY DEF IInv, TypeOK
  <2> QED BY <1>1, <2>1
<1>3. d # None => d \notin freed /\ loop[d] = loop[c] /\ fd[d] = fd[c]
  BY <1>1 DEF IInv, NoDanglingChannel
<1>4. d # None => d \in Made BY <1>1, <1>2, <1>3, NoneIsNone DEF Made
<1>5. \A c1, d1 \in Made \ freed : fd[c1] = fd[d1] => c1 = d1 BY DEF IInv, HolderInv
<1>6. d # None => d = c BY <1>3, <1>4, <1>5
<1> QED BY <1>1, <1>6 DEF Registered

\* What RunTask does: the assertions of Established and Destroy hold.
LEMMA TaskEffect ==
    ASSUME IInv, HttpUsage, NEW l \in Io, RunTask(l)
    PROVE \E t \in Task :
             /\ NextTask(l, t) /\ t.conn \in Made \ freed /\ loop[t.conn] = l
             /\ \/ /\ t.op \notin Steps /\ state[t.conn] \notin {None, "CONNECTING"}
                   /\ Served(t.conn) \/ Shut(t.conn)
                \/ /\ NoTask(Taken(All, l), t.conn, Steps)
                   /\ Opened(t.conn) \/ Ended(t.conn)
<1>1. PICK t : /\ NextTask(l, t)
               /\ \/ t.conn \in freed /\ Abort("use after free")
                  \/ /\ t.conn \notin freed
                     /\ \/ t.op = "Established" /\ Established(t.conn)
                        \/ t.op = "sendInLoop" /\ sendInLoop(t.conn)
                        \/ t.op = "handleClose" /\ handleClose(t.conn)
                        \/ t.op = "Destroy" /\ Destroy(t.conn)
                        \/ /\ t.op \in {"closeInLoop", "writeComplete"}
                           /\ UNCHANGED <<state, interest, queue, channelMap, failed>>
  BY DEF RunTask
<1> DEFINE c == t.conn
<1>2. l \in Loops /\ l # Main BY LoopFacts
<1>3. All[l] # <<>> /\ t = Head(All[l]) /\ t \in Task BY <1>1, <1>2, Taking, TaskFacts
<1>4. Fits(l, t) BY <1>2, <1>3, HeadFacts
<1>5. c \in Made \ freed /\ loop[c] = l /\ t.op \in Ops \ {"removeInLoop"}
  BY <1>2, <1>4 DEF Fits
<1>6. /\ t.op = "Established" => state[c] = "CONNECTING" /\ NoTask(Taken(All, l), c, Steps)
      /\ t.op # "Established" => state[c] \notin {None, "CONNECTING"}
      /\ t.op = "Destroy" => /\ state[c] = "CLOSING" /\ connMap[fd[c]] # c
                             /\ writing # [op |-> "erase", conn |-> c]
                             /\ NoTask(Taken(All, l), c, Steps)
  BY <1>2, <1>3, HeadFacts
<1>7. LifeInv(c) BY <1>5, ConnFacts
<1>8. Registered(c) <=> channelMap[loop[c]][fd[c]] = c BY <1>5, SlotFacts
<1> HIDE DEF c
<1>9. ASSUME t.op = "Established", Established(c) PROVE Opened(c)
  <2>1. state[c] = "CONNECTING" /\ ~Registered(c) BY <1>6, <1>7, <1>8, <1>9 DEF LifeInv
  <2>2. "sendInConnect" \notin Usage BY DEF HttpUsage
  <2> QED BY <1>9, <2>1, <2>2 DEF Established, Opened, SetState
<1>10. ASSUME t.op = "Destroy", Destroy(c) PROVE Ended(c)
  <2>1. state[c] = "CLOSING" /\ interest[c] = "none" /\ Registered(c)
    BY <1>6, <1>7, <1>8, <1>10 DEF LifeInv
  <2> QED BY <1>6, <1>10, <2>1 DEF Destroy, Ended, SetState
<1>11. ASSUME t.op = "handleClose", handleClose(c) PROVE Served(c) \/ Shut(c)
  BY <1>5, <1>6, <1>11, CloseEffect
<1>12. ASSUME UNCHANGED <<state, interest, queue, channelMap, failed>> PROVE Served(c)
  BY <1>12 DEF Served
<1>13. t.op \in {"handleClose", "writeComplete"} => t.op \notin Steps BY DEF Steps
<1>14. \/ t.op = "Established" /\ Opened(c)
       \/ t.op = "Destroy" /\ Ended(c)
       \/ t.op \in {"handleClose", "writeComplete"} /\ (Served(c) \/ Shut(c))
  BY <1>1, <1>5, <1>9, <1>10, <1>11, <1>12 DEF c, Ops
<1>15. \/ /\ t.op \notin Steps /\ state[c] \notin {None, "CONNECTING"}
          /\ Served(c) \/ Shut(c)
       \/ /\ NoTask(Taken(All, l), c, Steps)
          /\ Opened(c) \/ Ended(c)
  BY <1>6, <1>13, <1>14
<1> QED BY <1>1, <1>3, <1>5, <1>15 DEF c

-----------------------------------------------------------------------------
(* What the effects keep.                                                  *)

\* The lists when a handler of c starts: All, or All without a task of c.
Ready(c, M) ==
    /\ LoopsHave(batch') /\ M = [l \in Loops |-> batch'[l] \o queue[l]]
    /\ M \in Lists /\ \A l \in Loops : \A i \in DOMAIN M[l] : Fits(l, M[l][i])
    /\ \A d \in Made, ops \in {Ops, Steps} : d # c => Keeps(All, M, d, ops)
    /\ \/ /\ Keeps(All, M, c, Steps) /\ state[c] \notin {None, "CONNECTING"}
          /\ Served(c) \/ Shut(c)
       \/ NoTask(M, c, Steps) /\ (Opened(c) \/ Ended(c))
    /\ UNCHANGED <<fd, loop, freed, connMap, writing>>

\* Two steps that keep what d has keep it together.
LEMMA KeepsTwice ==
    ASSUME NEW F, NEW G, NEW H, NEW d, NEW ops, Keeps(F, G, d, ops), Keeps(G, H, d, ops)
    PROVE Keeps(F, H, d, ops)
BY DEF Keeps

\* No change keeps everything.
LEMMA SameKeeps == \A F, d, ops : Keeps(F, F, d, ops)
BY DEF Keeps

\* All after the handler.
LEMMA ReadyAll ==
    ASSUME IInv, NEW c \in Made \ freed, NEW M, Ready(c, M)
    PROVE /\ LoopsHave(queue')
          /\ \A l \in Loops : \A i \in DOMAIN All'[l] : Fits(l, All'[l][i])
          /\ \A d \in Made, ops \in {Ops, Steps} : d # c => Keeps(All, All', d, ops)
          /\ Served(c) => Keeps(All, All', c, Steps)
          /\ Shut(c) => OneTask(All', c, Steps, Main, "removeInLoop")
          /\ Opened(c) \/ Ended(c) => NoTask(All', c, Steps)
<1>0. /\ LoopsHave(batch) /\ LoopsHave(queue) /\ LoopsHave(batch') /\ c \in Conns
      /\ loop[c] \in Loops /\ loop[c] # Main /\ Main \in Loops /\ LifeInv(c) /\ M \in Lists
  BY TaskFacts, ConnFacts, LoopFacts DEF Ready
<1>1. ASSUME UNCHANGED queue PROVE All' = M /\ LoopsHave(queue')
  BY <1>0, <1>1 DEF Ready, All, LoopsHave
<1>2. ASSUME NEW k \in Loops, NEW x \in Task, queue' = [queue EXCEPT ![k] = Append(@, x)]
      PROVE All' = Added(M, k, x) /\ LoopsHave(queue')
  BY <1>0, <1>2, Queueing DEF Ready
<1>3. CASE UNCHANGED queue
  <2>1. All' = M BY <1>1, <1>3
  <2>2. ~Shut(c)
    <3>1. ASSUME Shut(c) PROVE FALSE
      <4>1. PICK x \in Task : queue' = [queue EXCEPT ![Main] = Append(@, x)]
        BY <1>0, <3>1 DEF Shut, Enqueue, Task
      <4>2. queue'[Main] = Append(queue[Main], x) /\ queue[Main] \in Seq(Task)
        BY <1>0, <4>1 DEF LoopsHave
      <4>3. Len(queue'[Main]) # Len(queue[Main]) BY <4>2
      <4> QED BY <1>3, <4>3
    <3> QED BY <3>1
  <2>3. Served(c) => ~(Opened(c) \/ Ended(c))
    BY ConnFacts, <1>0 DEF Served, Opened, Ended, IInv, TypeOK
  <2> QED BY <1>1, <1>3, <2>1, <2>2, <2>3 DEF Ready
<1>4. CASE ~UNCHANGED queue
  <2>1. PICK k \in Loops, op \in {"writeComplete", "removeInLoop"} :
          /\ queue' = [queue EXCEPT ![k] = Append(@, [op |-> op, conn |-> c])]
          /\ k = Main <=> op = "removeInLoop"
          /\ k # Main => k = loop[c]
          /\ Shut(c) <=> op = "removeInLoop"
    <3>1. CASE Served(c)
      <4>1. Enqueue(loop[c], "writeComplete", c) BY <1>4, <3>1 DEF Served
      <4>2. ~Shut(c) BY <3>1, <1>0 DEF Served, Shut, IInv, TypeOK
      <4> QED BY <1>0, <4>1, <4>2 DEF Enqueue
    <3>2. CASE Shut(c) BY <1>0, <3>2 DEF Shut, Enqueue
    <3> QED BY <1>4, <3>1, <3>2 DEF Ready, Opened, Ended
  <2> DEFINE x == [op |-> op, conn |-> c]
  <2>2. x \in Task BY <1>0 DEF Task
  <2>3. Fits(k, x) BY <1>0, <2>1 DEF Fits, Ops
  <2>4. All' = Added(M, k, x) /\ LoopsHave(queue') BY <1>2, <2>1, <2>2
  <2>5. ~(Opened(c) \/ Ended(c)) BY <1>4 DEF Opened, Ended
  <2>6. \A l \in Loops : \A i \in DOMAIN All'[l] : Fits(l, All'[l][i])
    BY <1>0, <2>2, <2>3, <2>4, StillFits DEF Ready
  <2>7. ASSUME NEW d \in Made, NEW ops \in {Ops, Steps}, d # c PROVE Keeps(All, All', d, ops)
    <3>1. Keeps(M, All', d, ops) BY <1>0, <2>2, <2>4, <2>7, AddedKeeps
    <3> QED BY <2>7, <3>1, KeepsTwice DEF Ready
  <2>8. ASSUME Served(c), ~Shut(c) PROVE Keeps(All, All', c, Steps)
    <3>1. op \notin Steps BY <2>1, <2>8 DEF Steps
    <3>2. Keeps(M, All', c, Steps) BY <1>0, <2>2, <2>4, <3>1, AddedKeeps
    <3>3. Keeps(All, M, c, Steps) BY <2>5 DEF Ready
    <3> QED BY <3>2, <3>3, KeepsTwice
  <2>9. ASSUME Shut(c) PROVE OneTask(All', c, Steps, Main, "removeInLoop") /\ ~Served(c)
    <3>1. NoTask(All, c, Steps) BY <1>0, <2>9 DEF Shut, LifeInv
    <3>2. NoTask(M, c, Steps) BY <2>5, <3>1 DEF Ready, Keeps
    <3>3. k = Main /\ op = "removeInLoop" /\ op \in Steps BY <2>1, <2>9 DEF Steps
    <3>4. OneTask(All', c, Steps, Main, "removeInLoop")
      BY <1>0, <2>2, <2>4, <3>2, <3>3, AddedFirst
    <3>5. ~Served(c) BY <2>9, <1>0 DEF Served, Shut, IInv, TypeOK
    <3> QED BY <3>4, <3>5
  <2> QED BY <2>4, <2>5, <2>6, <2>7, <2>8, <2>9
<1> QED BY <1>3, <1>4

\* The state, the interest and the slot of c after the handler go together.
LEMMA ReadyStage ==
    ASSUME IInv, NEW c \in Made \ freed, NEW M, Ready(c, M)
    PROVE \E st \in States, i \in {"none", "in", "out", "et"}, v \in {c, None} :
            /\ state' = [state EXCEPT ![c] = st] /\ interest' = [interest EXCEPT ![c] = i]
            /\ channelMap' = [channelMap EXCEPT ![loop[c]] = [@ EXCEPT ![fd[c]] = v]]
            /\ v = c <=> st \in {"CONNECTED", "CLOSING"}
            /\ i = "none" <=> st # "CONNECTED"
            /\ st # "CONNECTING" /\ failed' = "no"
            /\ \/ Served(c) /\ st = state[c]
               \/ Shut(c) /\ st = "CLOSING" /\ state[c] = "CONNECTED"
               \/ Opened(c) /\ st = "CONNECTED" /\ state[c] = "CONNECTING"
               \/ /\ Ended(c) /\ st = "CLOSED" /\ state[c] = "CLOSING"
                  /\ connMap[fd[c]] # c /\ writing # [op |-> "erase", conn |-> c]
<1>1. /\ loop[c] \in Io /\ fd[c] \in Fds /\ c \in Conns /\ c # None /\ LifeInv(c)
      /\ state[c] \in States \cup {None} /\ interest[c] \in {"none", "in", "out", "et"}
  BY ConnFacts
<1>2. /\ state \in [Conns -> States \cup {None}]
      /\ interest \in [Conns -> {"none", "in", "out", "et"}]
      /\ channelMap \in [Io -> [Fds -> Conns \cup {None}]]
      /\ failed = "no"
  BY DEF IInv, TypeOK, NoFailure
<1> DEFINE v0 == channelMap[loop[c]][fd[c]]
<1>3. channelMap = [channelMap EXCEPT ![loop[c]] = [@ EXCEPT ![fd[c]] = v0]]
  <2>1. channelMap[loop[c]] \in [Fds -> Conns \cup {None}] BY <1>1, <1>2
  <2>2. channelMap[loop[c]] = [channelMap[loop[c]] EXCEPT ![fd[c]] = v0] BY <2>1
  <2> QED BY <1>1, <1>2, <2>2
<1>4. state = [state EXCEPT ![c] = state[c]] /\ interest = [interest EXCEPT ![c] = interest[c]]
  BY <1>1, <1>2
<1>5. /\ v0 \in {c, None} /\ (v0 = c <=> state[c] \in {"CONNECTED", "CLOSING"})
      /\ interest[c] = "none" <=> state[c] # "CONNECTED"
  BY <1>1, SlotFacts DEF LifeInv, Registered
<1> HIDE DEF v0
<1>6. ASSUME state[c] \notin {None, "CONNECTING"}, Served(c)
      PROVE \E i \in {"none", "in", "out", "et"} :
              /\ interest' = [interest EXCEPT ![c] = i]
              /\ i = "none" <=> state[c] # "CONNECTED"
  BY <1>1, <1>4, <1>5, <1>6 DEF Served
<1>7. CASE state[c] \notin {None, "CONNECTING"} /\ Served(c)
  BY <1>1, <1>2, <1>3, <1>4, <1>5, <1>6, <1>7 DEF Served
<1>8. CASE Shut(c)
  BY <1>1, <1>2, <1>3, <1>5, <1>8, NoneIsNone DEF Shut
<1>9. CASE Opened(c)
  BY <1>1, <1>2, <1>9, NoneIsNone DEF Opened, Add, Put
<1>10. CASE Ended(c)
  BY <1>1, <1>2, <1>5, <1>10, NoneIsNone DEF Ended, Delete, Put
<1> QED BY <1>7, <1>8, <1>9, <1>10 DEF Ready

\* The table after c's slot has been set.
LEMMA SlotSet ==
    ASSUME IInv, NEW c \in Made \ freed, NEW v \in {c, None},
           channelMap' = [channelMap EXCEPT ![loop[c]] = [@ EXCEPT ![fd[c]] = v]]
    PROVE /\ channelMap' \in [Io -> [Fds -> Conns \cup {None}]]
          /\ channelMap'[loop[c]][fd[c]] = v
          /\ \A l \in Io, f \in Fds :
                l # loop[c] \/ f # fd[c] => channelMap'[l][f] = channelMap[l][f]
          /\ \A d \in Made : d # c =>
                (channelMap'[loop[d]][fd[d]] = d <=> channelMap[loop[d]][fd[d]] = d)
<1>1. loop[c] \in Io /\ fd[c] \in Fds /\ c \in Conns /\ c # None BY ConnFacts
<1>2. channelMap \in [Io -> [Fds -> Conns \cup {None}]] BY DEF IInv, TypeOK
<1> DEFINE row == [channelMap[loop[c]] EXCEPT ![fd[c]] = v]
<1>3. /\ row \in [Fds -> Conns \cup {None}] /\ row[fd[c]] = v
      /\ \A f \in Fds : f # fd[c] => row[f] = channelMap[loop[c]][f]
  <2>1. channelMap[loop[c]] \in [Fds -> Conns \cup {None}] BY <1>1, <1>2
  <2> QED BY <1>1, <2>1
<1>4. channelMap' = [channelMap EXCEPT ![loop[c]] = row] OBVIOUS
<1> HIDE DEF row
<1>5. /\ channelMap' \in [Io -> [Fds -> Conns \cup {None}]]
      /\ channelMap'[loop[c]] = row
      /\ \A l \in Io : l # loop[c] => channelMap'[l] = channelMap[l]
  BY <1>1, <1>2, <1>3, <1>4
<1>6. \A l \in Io, f \in Fds :
        l # loop[c] \/ f # fd[c] => channelMap'[l][f] = channelMap[l][f]
  BY <1>3, <1>5
<1>7. ASSUME NEW d \in Made, d # c
      PROVE channelMap'[loop[d]][fd[d]] = d <=> channelMap[loop[d]][fd[d]] = d
  <2>1. loop[d] \in Io /\ fd[d] \in Fds /\ d # None BY ConnFacts
  <2>2. CASE loop[d] # loop[c] \/ fd[d] # fd[c] BY <1>6, <2>1, <2>2
  <2>3. CASE loop[d] = loop[c] /\ fd[d] = fd[c]
    <3>1. channelMap[loop[d]][fd[d]] # d BY <1>7, <2>3, Apart
    <3>2. channelMap'[loop[d]][fd[d]] = v BY <1>3, <1>5, <2>3
    <3> QED BY <1>7, <2>1, <3>1, <3>2
  <2> QED BY <2>2, <2>3
<1> QED BY <1>3, <1>5, <1>6, <1>7

\* What a handler leaves of the invariant, beside the phases and the events.
LEMMA EffectKeeps ==
    ASSUME IInv, NEW c \in Made \ freed, NEW M, Ready(c, M)
    PROVE /\ state' \in [Conns -> States \cup {None}]
          /\ interest' \in [Conns -> {"none", "in", "out", "et"}]
          /\ channelMap' \in [Io -> [Fds -> Conns \cup {None}]]
          /\ LoopsHave(queue') /\ failed' = "no" /\ Made' = Made
          /\ \A l \in Loops : \A i \in DOMAIN All'[l] : Fits(l, All[l][i])'
          /\ \A d \in Made : LifeInv(d)'
          /\ NoDanglingChannel' /\ HolderInv'
          /\ \A d \in Conns : d # c => state'[d] = state[d] /\ interest'[d] = interest[d]
          /\ \A l \in Io, f \in Fds :
                l # loop[c] \/ f # fd[c] => channelMap'[l][f] = channelMap[l][f]
          /\ state[c] # None /\ state'[c] \notin {None, "CONNECTING"}
          /\ writing = [op |-> "erase", conn |-> c] /\ state[c] = "CLOSING" => state'[c] = "CLOSING"
<1>1. PICK st \in States, i \in {"none", "in", "out", "et"}, v \in {c, None} :
        /\ state' = [state EXCEPT ![c] = st] /\ interest' = [interest EXCEPT ![c] = i]
        /\ channelMap' = [channelMap EXCEPT ![loop[c]] = [@ EXCEPT ![fd[c]] = v]]
        /\ v = c <=> st \in {"CONNECTED", "CLOSING"}
        /\ i = "none" <=> st # "CONNECTED"
        /\ st # "CONNECTING" /\ failed' = "no"
        /\ \/ Served(c) /\ st = state[c]
           \/ Shut(c) /\ st = "CLOSING" /\ state[c] = "CONNECTED"
           \/ Opened(c) /\ st = "CONNECTED" /\ state[c] = "CONNECTING"
           \/ /\ Ended(c) /\ st = "CLOSED" /\ state[c] = "CLOSING"
              /\ connMap[fd[c]] # c /\ writing # [op |-> "erase", conn |-> c]
  BY ReadyStage
<1>2. /\ loop[c] \in Io /\ fd[c] \in Fds /\ c \in Conns /\ c # None /\ LifeInv(c)
      /\ loop[c] \in Loops /\ c \in Made /\ c \notin freed
  BY ConnFacts
<1>3. /\ state \in [Conns -> States \cup {None}]
      /\ interest \in [Conns -> {"none", "in", "out", "et"}]
  BY DEF IInv, TypeOK
<1>4. /\ channelMap' \in [Io -> [Fds -> Conns \cup {None}]]
      /\ channelMap'[loop[c]][fd[c]] = v
      /\ \A l \in Io, f \in Fds :
            l # loop[c] \/ f # fd[c] => channelMap'[l][f] = channelMap[l][f]
      /\ \A d \in Made : d # c =>
            (channelMap'[loop[d]][fd[d]] = d <=> channelMap[loop[d]][fd[d]] = d)
  BY <1>1, SlotSet
<1>5. fd' = fd /\ loop' = loop /\ freed' = freed /\ connMap' = connMap /\ writing' = writing
      /\ Made' = Made
  BY DEF Ready, Made
<1>6. /\ state'[c] = st /\ interest'[c] = i
      /\ \A d \in Conns : d # c => state'[d] = state[d] /\ interest'[d] = interest[d]
      /\ state' \in [Conns -> States \cup {None}]
      /\ interest' \in [Conns -> {"none", "in", "out", "et"}]
  BY <1>1, <1>2, <1>3
<1>7. /\ LoopsHave(queue')
      /\ \A l \in Loops : \A j \in DOMAIN All'[l] : Fits(l, All'[l][j])
      /\ \A d \in Made, ops \in {Ops, Steps} : d # c => Keeps(All, All', d, ops)
      /\ Served(c) => Keeps(All, All', c, Steps)
      /\ Shut(c) => OneTask(All', c, Steps, Main, "removeInLoop")
      /\ Opened(c) \/ Ended(c) => NoTask(All', c, Steps)
  BY ReadyAll
<1>8. \A l \in Loops : \A j \in DOMAIN All'[l] : Fits(l, All[l][j])'
  BY <1>5, <1>7 DEF Fits
<1>9. ASSUME NEW d \in Made, d # c PROVE LifeInv(d)'
  <2>1. LifeInv(d) /\ d \in Conns /\ loop[d] \in Loops BY ConnFacts
  <2>2. Keeps(All, All', d, Steps) /\ Keeps(All, All', d, Ops) BY <1>7, <1>9
  <2> QED BY <1>4, <1>5, <1>6, <1>9, <2>1, <2>2, Bystander
<1>10. LifeInv(c)'
  <2>1. (channelMap[loop[c]][fd[c]] = c)' <=> state'[c] \in {"CONNECTED", "CLOSING"}
    BY <1>1, <1>2, <1>4, <1>5, <1>6
  <2>2. CASE Served(c) /\ st = state[c]
    <3>1. Keeps(All, All', c, Steps) BY <1>7, <2>2
    <3>2. state[c] \notin {None, "CONNECTING"} BY <1>1, <2>2, NoneIsNone
    <3>3. channelMap[loop[c]][fd[c]] = c <=> state[c] \in {"CONNECTED", "CLOSING"}
      BY <1>2 DEF LifeInv
    <3>4. interest[c] = "none" <=> state[c] # "CONNECTED" BY <1>2 DEF LifeInv
    <3> QED BY <1>1, <1>2, <1>5, <1>6, <2>1, <2>2, <3>1, <3>2, <3>3, <3>4, Bystander
  <2>3. CASE Shut(c) /\ st = "CLOSING" /\ state[c] = "CONNECTED"
    <3>1. connMap[fd[c]] = c BY <1>2, <2>3 DEF LifeInv
    <3>2. writing # [op |-> "erase", conn |-> c]
      <4>1. [op |-> "erase", conn |-> c] # None BY <1>2, NoneIsNone DEF Updates
      <4> QED BY <2>3, <4>1 DEF IInv, PhaseInv
    <3> QED BY <1>1, <1>2, <1>5, <1>6, <1>7, <2>1, <2>3, <3>1, <3>2, NoneIsNone DEF LifeInv
  <2>4. CASE Opened(c) /\ st = "CONNECTED" /\ state[c] = "CONNECTING"
    <3>1. connMap[fd[c]] = c BY <1>2, <2>4 DEF LifeInv
    <3> QED BY <1>1, <1>2, <1>5, <1>6, <1>7, <2>1, <2>4, <3>1, NoneIsNone DEF LifeInv
  <2>5. CASE /\ Ended(c) /\ st = "CLOSED" /\ state[c] = "CLOSING"
             /\ connMap[fd[c]] # c /\ writing # [op |-> "erase", conn |-> c]
    BY <1>1, <1>2, <1>5, <1>6, <1>7, <2>1, <2>5, NoneIsNone DEF LifeInv
  <2> QED BY <1>1, <2>2, <2>3, <2>4, <2>5
<1>11. NoDanglingChannel'
  <2>1. ASSUME NEW l \in Io, NEW f \in Fds, channelMap'[l][f] # None
        PROVE LET d == channelMap'[l][f] IN d \notin freed /\ loop[d] = l /\ fd[d] = f
    <3>1. CASE l # loop[c] \/ f # fd[c]
      BY <1>4, <2>1, <3>1 DEF IInv, NoDanglingChannel
    <3>2. CASE l = loop[c] /\ f = fd[c] BY <1>2, <1>4, <2>1, <3>2
    <3> QED BY <3>1, <3>2
  <2> QED BY <1>5, <2>1 DEF NoDanglingChannel
<1>12. HolderInv'
  BY <1>2, <1>5, <1>6 DEF IInv, HolderInv
<1>13. state[c] # None /\ state'[c] \notin {None, "CONNECTING"}
  BY <1>1, <1>6, NoneIsNone
<1>14. writing = [op |-> "erase", conn |-> c] /\ state[c] = "CLOSING" => state'[c] = "CLOSING"
  BY <1>1, <1>6
<1> QED BY <1>1, <1>4, <1>5, <1>6, <1>7, <1>8, <1>9, <1>10, <1>11, <1>12, <1>13, <1>14

\* The events still to be handled are of other connections, and as before.
LEMMA EventsKept ==
    ASSUME IInv, NEW c \in Made \ freed, NEW M, Ready(c, M),
           \A k \in Io : active'[k] \subseteq active[k] /\ \A e \in active'[k] : e.conn # c
    PROVE EventInv'
<1> SUFFICES ASSUME NEW k \in Io, NEW e \in active'[k]
             PROVE /\ fd'[e.conn] \in Fds /\ channelMap'[k][fd'[e.conn]] = e.conn
                   /\ e.kind = "read" => interest'[e.conn] = "in"
                   /\ e.kind = "write" => interest'[e.conn] = "out"
                   /\ \A d \in active'[k] : d.conn = e.conn => d = e
  BY DEF EventInv
<1> DEFINE d == e.conn
<1>1. e \in active[k] /\ d # c /\ active'[k] \subseteq active[k] OBVIOUS
<1>2. /\ fd[d] \in Fds /\ channelMap[k][fd[d]] = d
      /\ e.kind = "read" => interest[d] = "in"
      /\ e.kind = "write" => interest[d] = "out"
      /\ \A g \in active[k] : g.conn = d => g = e
  BY <1>1 DEF IInv, EventInv
<1>3. d \in Made \ freed /\ loop[d] = k BY <1>1, EventFacts
<1> HIDE DEF d
<1>4. k # loop[c] \/ fd[d] # fd[c] BY <1>1, <1>3 DEF IInv, HolderInv
<1>5. fd' = fd BY DEF Ready
<1>6. channelMap'[k][fd[d]] = channelMap[k][fd[d]] /\ interest'[d] = interest[d]
  BY <1>1, <1>2, <1>3, <1>4, EffectKeeps, ConnFacts
<1> QED BY <1>1, <1>2, <1>5, <1>6 DEF d

\* The searches and the update of the map go on.
LEMMA PhasesKept ==
    ASSUME IInv, NEW c \in Made \ freed, NEW M, Ready(c, M),
           UNCHANGED <<phase, lookup, user>>,
           \A l \in Loops : phase[l] # "tasks" => batch'[l] = <<>> /\ held'[l] = {},
           \A l \in Io : phase[l] # "events" => active'[l] = {},
           \A l \in Loops : held[l] \subseteq held'[l]
    PROVE PhaseInv'
<1>1. fd' = fd /\ loop' = loop /\ freed' = freed /\ connMap' = connMap /\ writing' = writing
      /\ Made' = Made /\ phase' = phase /\ lookup' = lookup /\ user' = user
  BY DEF Ready, Made
<1>2. /\ \A d \in Conns : d # c => state'[d] = state[d]
      /\ state[c] # None /\ state'[c] \notin {None, "CONNECTING"}
      /\ writing = [op |-> "erase", conn |-> c] /\ state[c] = "CLOSING" => state'[c] = "CLOSING"
  BY EffectKeeps
<1>3. ASSUME NEW l \in Io, lookup[l] # None
      PROVE LET d == lookup[l].conn IN
            /\ phase[l] = "tasks" /\ d \in held'[l] /\ loop[d] = l
            /\ state'[d] \notin {None, "CONNECTING"}
  <2> DEFINE d == lookup[l].conn
  <2>1. phase[l] = "tasks" /\ d \in held[l] /\ loop[d] = l /\ state[d] \notin {None, "CONNECTING"}
    BY <1>3 DEF IInv, PhaseInv
  <2>2. d \in Conns /\ l \in Loops
    <3>1. l \in Loops BY LoopFacts
    <3>2. held[l] \subseteq Made BY <3>1 DEF IInv, TaskInv
    <3> QED BY <2>1, <3>1, <3>2 DEF Made
  <2> QED BY <1>2, <2>1, <2>2
<1>4. ASSUME writing # None
      PROVE /\ writing.conn \in Made
            /\ writing.op = "insert" => phase[Main] = "events" /\ state'[writing.conn] = None
            /\ writing.op = "erase" => phase[Main] = "tasks" /\ state'[writing.conn] = "CLOSING"
  <2>1. /\ writing.conn \in Made
        /\ writing.op = "insert" => phase[Main] = "events" /\ state[writing.conn] = None
        /\ writing.op = "erase" => phase[Main] = "tasks" /\ state[writing.conn] = "CLOSING"
    BY <1>4 DEF IInv, PhaseInv
  <2>2. writing \in Updates BY <1>4 DEF IInv, TypeOK
  <2>3. writing.op = "erase" /\ writing.conn = c => writing = [op |-> "erase", conn |-> c]
    BY <2>2 DEF Updates
  <2>4. writing.conn \in Conns BY <2>1 DEF Made
  <2> QED BY <1>2, <2>1, <2>3, <2>4
<1>5. \A d \in Conns : user[d] = "none" BY DEF IInv, PhaseInv
<1>6. \A l \in Loops : phase[l] # "gone" BY DEF IInv, PhaseInv
<1> QED BY <1>1, <1>3, <1>4, <1>5, <1>6 DEF PhaseInv

-----------------------------------------------------------------------------
(* The actions of an io loop.                                              *)

\* An event is handled.
LEMMA HandleEventStep ==
    ASSUME IInv, NEW l \in Io, HandleEvent(l)
    PROVE IInv'
<1>1. /\ UNCHANGED <<connVars, freed, mapVars, phase, batch, held, user>>
      /\ phase[l] = "events"
  BY DEF HandleEvent, At
<1>2. PICK e \in active[l] :
        active' = [active EXCEPT ![l] = @ \ {e}] /\ (Served(e.conn) \/ Shut(e.conn))
  BY EventEffect
<1> DEFINE c == e.conn
<1>3. c \in Made \ freed /\ loop[c] = l /\ state[c] \in {"CONNECTED", "CLOSING"}
  BY EventFacts
<1>4. \A d \in active[l] : d.conn = c => d = e BY DEF IInv, EventInv
<1>5. active \in [Io -> SUBSET [conn : Conns, kind : {"read", "write", "hup"}]]
  BY DEF IInv, TypeOK
<1>6. /\ active' \in [Io -> SUBSET [conn : Conns, kind : {"read", "write", "hup"}]]
      /\ active'[l] = active[l] \ {e} /\ \A k \in Io : k # l => active'[k] = active[k]
  BY <1>2, <1>5
<1> HIDE DEF c
<1>7. Ready(c, All)
  <2>1. All = [k \in Loops |-> batch'[k] \o queue[k]] BY <1>1 DEF All
  <2>2. LoopsHave(batch') /\ All \in Lists
        /\ \A k \in Loops : \A i \in DOMAIN All[k] : Fits(k, All[k][i])
    BY <1>1, TaskFacts
  <2> QED BY <1>1, <1>2, <1>3, <2>1, <2>2, SameKeeps, NoneIsNone
        DEF Ready, c, connVars, mapVars
<1>8. /\ state' \in [Conns -> States \cup {None}]
      /\ interest' \in [Conns -> {"none", "in", "out", "et"}]
      /\ channelMap' \in [Io -> [Fds -> Conns \cup {None}]]
      /\ LoopsHave(queue') /\ failed' = "no" /\ Made' = Made
      /\ \A k \in Loops : \A i \in DOMAIN All'[k] : Fits(k, All[k][i])'
      /\ \A d \in Made : LifeInv(d)'
      /\ NoDanglingChannel' /\ HolderInv'
  BY <1>3, <1>7, EffectKeeps
<1>9. TypeOK' BY <1>1, <1>6, <1>8 DEF IInv, TypeOK, LoopsHave, connVars, mapVars
<1>10. TaskInv' BY <1>1, <1>8 DEF IInv, TaskInv
<1>11. EventInv'
  <2>1. \A k \in Io : active'[k] \subseteq active[k] /\ \A d \in active'[k] : d.conn # c
    BY <1>3, <1>4, <1>6, EventFacts
  <2> QED BY <1>3, <1>7, <2>1, EventsKept
<1>12. PhaseInv'
  <2>1. /\ \A k \in Loops : phase[k] # "tasks" => batch'[k] = <<>> /\ held'[k] = {}
        /\ \A k \in Io : phase[k] # "events" => active'[k] = {}
        /\ \A k \in Loops : held[k] \subseteq held'[k]
    BY <1>1, <1>6 DEF IInv, PhaseInv
  <2> QED BY <1>1, <1>3, <1>7, <2>1, PhasesKept DEF mapVars
<1> QED BY <1>8, <1>9, <1>10, <1>11, <1>12 DEF IInv, NoFailure

\* A task is run.
LEMMA RunTaskStep ==
    ASSUME IInv, HttpUsage, NEW l \in Io, RunTask(l)
    PROVE IInv'
<1>1. UNCHANGED <<connVars, freed, mapVars, phase, active, user>> BY DEF RunTask
<1>2. PICK t \in Task :
        /\ NextTask(l, t) /\ t.conn \in Made \ freed /\ loop[t.conn] = l
        /\ \/ /\ t.op \notin Steps /\ state[t.conn] \notin {None, "CONNECTING"}
              /\ Served(t.conn) \/ Shut(t.conn)
           \/ /\ NoTask(Taken(All, l), t.conn, Steps)
              /\ Opened(t.conn) \/ Ended(t.conn)
  BY TaskEffect
<1> DEFINE c == t.conn
           M == Taken(All, l)
<1>3. l \in Loops BY LoopFacts
<1>4. /\ LoopsHave(batch) /\ LoopsHave(queue) /\ All \in Lists
      /\ \A k \in Loops : \A i \in DOMAIN All[k] : Fits(k, All[k][i])
  BY TaskFacts
<1>5. /\ All[l] # <<>> /\ Head(All[l]) = t /\ LoopsHave(batch')
      /\ [k \in Loops |-> batch'[k] \o queue[k]] = M
  BY <1>2, <1>3, <1>4, Taking
<1>6. /\ M \in Lists /\ \A k \in Loops : \A i \in DOMAIN M[k] : Fits(k, M[k][i])
  BY <1>3, <1>4, <1>5, ListsStay, StillFits
<1>7. \A d, ops : ~(t.conn = d /\ t.op \in Steps) => Keeps(All, M, d, ops)
  BY <1>3, <1>4, <1>5, TakenKeeps
<1>8. c \in Made \ freed /\ c \in Conns BY <1>2 DEF Made
<1>9. /\ phase[l] = "tasks" /\ batch' = [batch EXCEPT ![l] = Tail(@)]
      /\ held' = [held EXCEPT ![l] = IF t.op \in Bare THEN @ ELSE @ \cup {c}]
  BY <1>2 DEF NextTask, At
<1> HIDE DEF c, M
<1>10. Ready(c, M)
  <2>1. Keeps(All, M, c, Steps) \/ t.op \in Steps BY <1>7 DEF c
  <2>2. \A d \in Made, ops \in {Ops, Steps} : d # c => Keeps(All, M, d, ops)
    BY <1>7 DEF c
  <2>3. UNCHANGED <<fd, loop, freed, connMap, writing>> BY <1>1 DEF connVars, mapVars
  <2>4. \/ /\ Keeps(All, M, c, Steps) /\ state[c] \notin {None, "CONNECTING"}
           /\ Served(c) \/ Shut(c)
        \/ NoTask(M, c, Steps) /\ (Opened(c) \/ Ended(c))
    BY <1>2, <2>1 DEF c, M
  <2> QED BY <1>5, <1>6, <2>2, <2>3, <2>4 DEF Ready
<1>11. /\ state' \in [Conns -> States \cup {None}]
       /\ interest' \in [Conns -> {"none", "in", "out", "et"}]
       /\ channelMap' \in [Io -> [Fds -> Conns \cup {None}]]
       /\ LoopsHave(queue') /\ failed' = "no" /\ Made' = Made
       /\ \A k \in Loops : \A i \in DOMAIN All'[k] : Fits(k, All[k][i])'
       /\ \A d \in Made : LifeInv(d)'
       /\ NoDanglingChannel' /\ HolderInv'
  BY <1>8, <1>10, EffectKeeps
<1>12. held \in [Loops -> SUBSET Conns] /\ batch \in [Loops -> Seq(Task)]
  BY DEF IInv, TypeOK
<1>13. /\ held' \in [Loops -> SUBSET Conns]
       /\ \A k \in Loops : held[k] \subseteq held'[k] /\ held'[k] \subseteq held[k] \cup {c}
       /\ \A k \in Loops : k # l => held'[k] = held[k] /\ batch'[k] = batch[k]
  BY <1>3, <1>8, <1>9, <1>12
<1>14. TypeOK'
  BY <1>1, <1>5, <1>11, <1>13 DEF IInv, TypeOK, LoopsHave, connVars, mapVars
<1>15. TaskInv'
  BY <1>1, <1>8, <1>11, <1>13 DEF IInv, TaskInv
<1>16. EventInv'
  <2>1. active[l] = {} BY <1>9 DEF IInv, PhaseInv
  <2>2. \A k \in Io : \A e \in active[k] : loop[e.conn] = k BY EventFacts
  <2>3. \A k \in Io : active'[k] \subseteq active[k] /\ \A e \in active'[k] : e.conn # c
    BY <1>1, <1>2, <2>1, <2>2 DEF c
  <2> QED BY <1>8, <1>10, <2>3, EventsKept
<1>17. PhaseInv'
  <2>1. /\ \A k \in Loops : phase[k] # "tasks" => batch'[k] = <<>> /\ held'[k] = {}
        /\ \A k \in Io : phase[k] # "events" => active'[k] = {}
    BY <1>1, <1>9, <1>13 DEF IInv, PhaseInv
  <2> QED BY <1>1, <1>8, <1>10, <1>13, <2>1, PhasesKept DEF mapVars
<1> QED BY <1>11, <1>14, <1>15, <1>16, <1>17 DEF IInv, NoFailure

\* A step that only moves tasks about.
LEMMA LifeKept ==
    ASSUME IInv, UNCHANGED <<fd, loop, state, interest, connMap, channelMap, freed, writing>>,
           \A d \in Made : Keeps(All, All', d, Steps),
           \A d \in Made : state[d] \in {None, "CONNECTING"} => Keeps(All, All', d, Ops)
    PROVE (\A d \in Made : LifeInv(d)') /\ HolderInv' /\ NoDanglingChannel' /\ Made' = Made
<1>1. ASSUME NEW d \in Made PROVE LifeInv(d)'
  BY <1>1, Bystander, ConnFacts
<1>2. HolderInv' /\ NoDanglingChannel' /\ Made' = Made
  BY DEF IInv, HolderInv, NoDanglingChannel, Made
<1> QED BY <1>1, <1>2

\* TcpServer::Close begins: its connection is one that has been established.
LEMMA BeginCloseStep ==
    ASSUME IInv, NEW l \in Io, BeginClose(l)
    PROVE IInv'
<1>1. /\ UNCHANGED <<connVars, state, interest, freed, connMap, writing, index,
                     channelMap, phase, active, queue, user, failed>>
      /\ lookup[l] = None
  BY DEF BeginClose
<1>2. PICK t : \E b \in BOOLEAN :
        /\ NextTask(l, t) /\ t.op = "writeComplete"
        /\ lookup' = [lookup EXCEPT ![l] = [conn |-> t.conn, found |-> b]]
  BY DEF BeginClose
<1> DEFINE c == t.conn
           M == Taken(All, l)
<1>3. l \in Loops /\ l # Main BY LoopFacts
<1>4. /\ LoopsHave(batch) /\ LoopsHave(queue) /\ All \in Lists
      /\ \A k \in Loops : \A i \in DOMAIN All[k] : Fits(k, All[k][i])
  BY TaskFacts
<1>5. /\ All[l] # <<>> /\ Head(All[l]) = t /\ t \in Task /\ LoopsHave(batch')
      /\ [k \in Loops |-> batch'[k] \o queue[k]] = M
  BY <1>2, <1>3, <1>4, Taking
<1>6. All' = M BY <1>1, <1>5 DEF All
<1>7. c \in Made \ freed /\ loop[c] = l /\ state[c] \notin {None, "CONNECTING"}
  <2>1. Fits(l, t) /\ state[c] \notin {None, "CONNECTING"} BY <1>2, <1>3, <1>5, HeadFacts
  <2> QED BY <1>3, <2>1 DEF Fits
<1>8. \A d, ops : Keeps(All, All', d, ops)
  BY <1>2, <1>3, <1>4, <1>5, <1>6, TakenKeeps DEF Steps
<1>9. \A k \in Loops : \A i \in DOMAIN All'[k] : Fits(k, All[k][i])'
  BY <1>1, <1>3, <1>4, <1>5, <1>6, StillFits DEF Fits, Made, connVars
<1>10. /\ phase[l] = "tasks" /\ batch' = [batch EXCEPT ![l] = Tail(@)]
       /\ held' = [held EXCEPT ![l] = @ \cup {c}]
  BY <1>2 DEF NextTask, At, Bare
<1>11. /\ held \in [Loops -> SUBSET Conns] /\ batch \in [Loops -> Seq(Task)]
       /\ lookup \in [Io -> [conn : Conns, found : BOOLEAN] \cup {None}]
  BY DEF IInv, TypeOK
<1>12. c \in Conns BY <1>7 DEF Made
<1> HIDE DEF c, M
<1>13. /\ held' \in [Loops -> SUBSET Conns] /\ held'[l] = held[l] \cup {c}
       /\ \A k \in Loops : k # l => held'[k] = held[k] /\ batch'[k] = batch[k]
  BY <1>3, <1>10, <1>11, <1>12
<1>14. /\ lookup' \in [Io -> [conn : Conns, found : BOOLEAN] \cup {None}]
       /\ lookup'[l].conn = c /\ \A k \in Io : k # l => lookup'[k] = lookup[k]
  <2>1. PICK b \in BOOLEAN : lookup' = [lookup EXCEPT ![l] = [conn |-> c, found |-> b]]
    BY <1>2 DEF c
  <2>2. [conn |-> c, found |-> b] \in [conn : Conns, found : BOOLEAN] BY <1>12
  <2> QED BY <1>11, <2>1, <2>2
<1>15. (\A d \in Made : LifeInv(d)') /\ HolderInv' /\ NoDanglingChannel' /\ Made' = Made
  BY <1>1, <1>8, LifeKept DEF connVars
<1>16. TypeOK'
  <2>1. lookup' \in [Io -> [conn : Conns, found : BOOLEAN] \cup {None}] BY <1>14
  <2>2. batch' \in [Loops -> Seq(Task)] BY <1>5 DEF LoopsHave
  <2> QED BY <1>1, <1>13, <2>1, <2>2, Zenon DEF IInv, TypeOK, connVars, Made
<1>17. TaskInv' BY <1>1, <1>7, <1>9, <1>13, <1>15 DEF IInv, TaskInv
<1>18. EventInv' BY <1>1 DEF IInv, EventInv, connVars
<1>19. PhaseInv'
  <2>1. /\ \A k \in Loops :
              /\ phase'[k] # "gone"
              /\ phase'[k] # "tasks" => batch'[k] = <<>> /\ held'[k] = {}
        /\ \A k \in Io : phase'[k] # "events" => active'[k] = {}
    BY <1>1, <1>10, <1>13 DEF IInv, PhaseInv
  <2>2. ASSUME NEW k \in Io, lookup'[k] # None
        PROVE LET d == lookup'[k].conn IN
              /\ phase'[k] = "tasks" /\ d \in held'[k] /\ loop'[d] = k
              /\ state'[d] \notin {None, "CONNECTING"}
    <3>1. CASE k = l BY <1>1, <1>7, <1>10, <1>13, <1>14, <3>1 DEF connVars
    <3>2. CASE k # l
      <4>1. k \in Loops BY LoopFacts
      <4> QED BY <1>1, <1>13, <1>14, <2>2, <3>2, <4>1 DEF IInv, PhaseInv, connVars
    <3> QED BY <3>1, <3>2
  <2>3. /\ writing' # None =>
             /\ writing'.conn \in Made'
             /\ writing'.op = "insert" => phase'[Main] = "events" /\ state'[writing'.conn] = None
             /\ writing'.op = "erase" => phase'[Main] = "tasks" /\ state'[writing'.conn] = "CLOSING"
        /\ \A d \in Conns : user'[d] = "none"
    BY <1>1, <1>15 DEF IInv, PhaseInv
  <2> QED BY <2>1, <2>2, <2>3 DEF PhaseInv
<1> QED BY <1>1, <1>15, <1>16, <1>17, <1>18, <1>19 DEF IInv, NoFailure

\* TcpServer::Close ends: handleClose is queued for a living connection.
LEMMA EndCloseStep ==
    ASSUME IInv, NEW l \in Io, EndClose(l)
    PROVE IInv'
<1>1. /\ UNCHANGED <<connVars, state, interest, freed, connMap, writing, index,
                     channelMap, loopVars, user, failed>>
      /\ lookup[l] # None /\ lookup' = [lookup EXCEPT ![l] = None]
      /\ \/ UNCHANGED queue
         \/ Enqueue(loop[lookup[l].conn], "handleClose", lookup[l].conn)
  BY DEF EndClose
<1> DEFINE c == lookup[l].conn
<1>2. /\ phase[l] = "tasks" /\ c \in held[l] /\ loop[c] = l
      /\ state[c] \notin {None, "CONNECTING"}
  BY <1>1 DEF IInv, PhaseInv
<1>3. l \in Loops /\ l # Main BY LoopFacts
<1>4. c \in Made \ freed /\ c \in Conns BY <1>2, <1>3 DEF IInv, TaskInv, Made
<1> HIDE DEF c
<1>5. /\ LoopsHave(batch) /\ LoopsHave(queue) /\ All \in Lists
      /\ \A k \in Loops : \A i \in DOMAIN All[k] : Fits(k, All[k][i])
  BY TaskFacts
<1> DEFINE t == [op |-> "handleClose", conn |-> c]
<1>6. t \in Task /\ Fits(l, t) /\ t.conn = c /\ t.op \notin Steps
  BY <1>2, <1>3, <1>4 DEF Task, Fits, Ops, Steps
<1>7. /\ LoopsHave(queue')
      /\ All' = All \/ All' = Added(All, l, t)
  <2>1. CASE UNCHANGED queue BY <1>1, <1>5, <2>1 DEF All, loopVars
  <2>2. CASE queue' = [queue EXCEPT ![l] = Append(@, t)]
    <3>1. LoopsHave(batch') BY <1>1, <1>5 DEF loopVars
    <3>2. [k \in Loops |-> batch'[k] \o queue[k]] = All BY <1>1 DEF All, loopVars
    <3> HIDE DEF t
    <3> QED BY <1>3, <1>5, <1>6, <2>2, <3>1, <3>2, Queueing
  <2> QED BY <1>1, <1>2, <2>1, <2>2 DEF Enqueue, c
<1> HIDE DEF t
<1>8. \A d, ops : (d = c => ops = Steps) => Keeps(All, All', d, ops)
  BY <1>3, <1>5, <1>6, <1>7, AddedKeeps, SameKeeps
<1>9. \A k \in Loops : \A i \in DOMAIN All'[k] : Fits(k, All[k][i])'
  <2>1. \A k \in Loops : \A i \in DOMAIN All'[k] : Fits(k, All'[k][i])
    BY <1>3, <1>5, <1>6, <1>7, StillFits
  <2> QED BY <1>1, <2>1 DEF Fits, Made, connVars
<1>10. (\A d \in Made : LifeInv(d)') /\ HolderInv' /\ NoDanglingChannel' /\ Made' = Made
  <2>1. \A d \in Made : Keeps(All, All', d, Steps) BY <1>8
  <2>2. \A d \in Made : state[d] \in {None, "CONNECTING"} => Keeps(All, All', d, Ops)
    BY <1>2, <1>8 DEF c
  <2> QED BY <1>1, <2>1, <2>2, LifeKept DEF connVars
<1>11. /\ lookup' \in [Io -> [conn : Conns, found : BOOLEAN] \cup {None}]
       /\ \A k \in Io : lookup'[k] # None => lookup'[k] = lookup[k]
  <2>1. lookup \in [Io -> [conn : Conns, found : BOOLEAN] \cup {None}] BY DEF IInv, TypeOK
  <2> QED BY <1>1, <2>1
<1>12. TypeOK'
  <2>1. lookup' \in [Io -> [conn : Conns, found : BOOLEAN] \cup {None}] BY <1>11
  <2>2. queue' \in [Loops -> Seq(Task)] BY <1>7 DEF LoopsHave
  <2> QED BY <1>1, <2>1, <2>2, Zenon DEF IInv, TypeOK, connVars, loopVars, Made
<1>13. TaskInv' BY <1>1, <1>9, <1>10 DEF IInv, TaskInv, loopVars
<1>14. EventInv' BY <1>1 DEF IInv, EventInv, connVars, loopVars
<1>15. PhaseInv' BY <1>1, <1>10, <1>11 DEF IInv, PhaseInv, connVars, loopVars
<1> QED BY <1>1, <1>10, <1>12, <1>13, <1>14, <1>15 DEF IInv, NoFailure

\* poll returns events of what is registered.
LEMMA PollStep ==
    ASSUME IInv, NEW l \in Loops, Poll(l)
    PROVE IInv'
<1>1. /\ UNCHANGED <<connVars, state, interest, freed, mapVars, channelMap,
                     batch, held, queue, user, failed>>
      /\ phase[l] = "poll" /\ phase' = [phase EXCEPT ![l] = "events"]
  BY DEF Poll, At
<1>2. /\ active \in [Io -> SUBSET [conn : Conns, kind : {"read", "write", "hup"}]]
      /\ phase \in [Loops -> {"poll", "events", "tasks", "gone"}]
      /\ channelMap \in [Io -> [Fds -> Conns \cup {None}]]
  BY DEF IInv, TypeOK
<1>3. /\ phase' \in [Loops -> {"poll", "events", "tasks", "gone"}] /\ phase'[l] = "events"
      /\ \A k \in Loops : k # l => phase'[k] = phase[k]
  BY <1>1, <1>2
<1>4. ASSUME l \in Io
      PROVE /\ active' \in [Io -> SUBSET [conn : Conns, kind : {"read", "write", "hup"}]]
            /\ \A k \in Io : k # l => active'[k] = active[k]
            /\ \A e \in active'[l] :
                  /\ fd[e.conn] \in Fds /\ channelMap[l][fd[e.conn]] = e.conn
                  /\ e.kind = "read" => interest[e.conn] = "in"
                  /\ e.kind = "write" => interest[e.conn] = "out"
                  /\ \A d \in active'[l] : d.conn = e.conn => d = e
  <2>1. PICK S \in SUBSET Events(l) :
          /\ \A d, e \in S : d.conn = e.conn => d = e
          /\ active' = [active EXCEPT ![l] = S]
    BY <1>4, LoopFacts DEF Poll
  <2>2. channelMap[l] \in [Fds -> Conns \cup {None}] BY <1>2, <1>4
  <2>3. ASSUME NEW e \in Events(l)
        PROVE /\ e \in [conn : Conns, kind : {"read", "write", "hup"}]
              /\ fd[e.conn] \in Fds /\ channelMap[l][fd[e.conn]] = e.conn
              /\ e.kind = "read" => interest[e.conn] = "in"
              /\ e.kind = "write" => interest[e.conn] = "out"
    <3>1. /\ e \in [conn : Range(channelMap[l]) \ ({None} \cup freed),
                    kind : {"read", "write", "hup"}]
          /\ \/ e.kind = "hup"
             \/ e.kind = "read" /\ interest[e.conn] = "in"
             \/ e.kind = "write" /\ interest[e.conn] = "out"
      BY DEF Events
    <3>2. PICK f \in Fds : channelMap[l][f] = e.conn BY <2>2, <3>1 DEF Range
    <3>3. e.conn # None /\ e.conn \in Conns BY <2>2, <3>1, <3>2
    <3>4. fd[e.conn] = f BY <1>4, <3>2, <3>3 DEF IInv, NoDanglingChannel
    <3> QED BY <3>1, <3>2, <3>3, <3>4
  <2>4. S \in SUBSET [conn : Conns, kind : {"read", "write", "hup"}] BY <2>3
  <2>5. active'[l] = S BY <1>2, <1>4, <2>1
  <2>6. /\ active' \in [Io -> SUBSET [conn : Conns, kind : {"read", "write", "hup"}]]
        /\ \A k \in Io : k # l => active'[k] = active[k]
    BY <1>2, <1>4, <2>1, <2>4
  <2> QED BY <2>1, <2>3, <2>5, <2>6
<1>5. l \notin Io => active' = active BY <1>1 DEF Poll, Io, Loops, Main
<1>6. active' \in [Io -> SUBSET [conn : Conns, kind : {"read", "write", "hup"}]]
  BY <1>2, <1>4, <1>5
<1>7. All' = All BY <1>1 DEF All
<1>8. (\A d \in Made : LifeInv(d)') /\ HolderInv' /\ NoDanglingChannel' /\ Made' = Made
  BY <1>1, <1>7, LifeKept, SameKeeps DEF connVars, mapVars
<1>9. TypeOK' BY <1>1, <1>3, <1>6, Zenon DEF IInv, TypeOK, connVars, mapVars, Made
<1>10. TaskInv' BY <1>1, <1>7 DEF IInv, TaskInv, Fits, Made, connVars
<1>11. EventInv'
  <2> SUFFICES ASSUME NEW k \in Io, NEW e \in active'[k]
               PROVE /\ fd[e.conn] \in Fds /\ channelMap[k][fd[e.conn]] = e.conn
                     /\ e.kind = "read" => interest[e.conn] = "in"
                     /\ e.kind = "write" => interest[e.conn] = "out"
                     /\ \A d \in active'[k] : d.conn = e.conn => d = e
    BY <1>1 DEF EventInv, connVars
  <2>1. CASE k = l BY <1>4, <2>1
  <2>2. CASE k # l
    <3>1. active'[k] = active[k] BY <1>4, <1>5, <2>2
    <3> QED BY <3>1 DEF IInv, EventInv
  <2> QED BY <2>1, <2>2
<1>12. PhaseInv'
  <2>1. /\ \A k \in Loops :
              /\ phase'[k] # "gone"
              /\ phase'[k] # "tasks" => batch'[k] = <<>> /\ held'[k] = {}
    BY <1>1, <1>3 DEF IInv, PhaseInv
  <2>2. \A k \in Io : phase'[k] # "events" => active'[k] = {}
    BY <1>3, <1>4, <1>5, LoopFacts DEF IInv, PhaseInv
  <2>3. \A k \in Io : lookup[k] # None => k # l
    BY <1>1 DEF IInv, PhaseInv
  <2>4. writing # None => writing.op \in {"insert", "erase"} BY DEF IInv, TypeOK, Updates
  <2>5. writing # None => l # Main BY <1>1, <2>4 DEF IInv, PhaseInv
  <2>6. ASSUME NEW k \in Io, lookup'[k] # None
        PROVE LET d == lookup'[k].conn IN
              /\ phase'[k] = "tasks" /\ d \in held'[k] /\ loop'[d] = k
              /\ state'[d] \notin {None, "CONNECTING"}
    BY <1>1, <1>3, <2>3, <2>6, LoopFacts DEF IInv, PhaseInv, connVars, mapVars
  <2>7. writing' # None =>
          /\ writing'.conn \in Made'
          /\ writing'.op = "insert" => phase'[Main] = "events" /\ state'[writing'.conn] = None
          /\ writing'.op = "erase" => phase'[Main] = "tasks" /\ state'[writing'.conn] = "CLOSING"
    BY <1>1, <1>3, <1>8, <2>5, LoopFacts DEF IInv, PhaseInv, mapVars
  <2>8. \A d \in Conns : user'[d] = "none" BY <1>1 DEF IInv, PhaseInv
  <2> QED BY <2>1, <2>2, <2>6, <2>7, <2>8 DEF PhaseInv
<1> QED BY <1>1, <1>8, <1>9, <1>10, <1>11, <1>12 DEF IInv, NoFailure

\* doTask takes the queue: nothing is lost on the way.
LEMMA SwapTasksStep ==
    ASSUME IInv, NEW l \in Loops, SwapTasks(l)
    PROVE IInv'
<1>1. /\ UNCHANGED <<connVars, state, interest, freed, mapVars, channelMap,
                     active, held, user, failed>>
      /\ phase[l] = "events" /\ phase' = [phase EXCEPT ![l] = "tasks"]
      /\ batch' = [batch EXCEPT ![l] = queue[l]] /\ queue' = [queue EXCEPT ![l] = <<>>]
      /\ l \in Io => active[l] = {}
      /\ l = Main => writing = None
  BY DEF SwapTasks, At
<1>2. /\ phase \in [Loops -> {"poll", "events", "tasks", "gone"}]
      /\ batch \in [Loops -> Seq(Task)] /\ queue \in [Loops -> Seq(Task)]
  BY DEF IInv, TypeOK
<1>3. /\ phase' \in [Loops -> {"poll", "events", "tasks", "gone"}] /\ phase'[l] = "tasks"
      /\ \A k \in Loops : k # l => phase'[k] = phase[k]
  BY <1>1, <1>2
<1>4. /\ batch' \in [Loops -> Seq(Task)] /\ queue' \in [Loops -> Seq(Task)]
      /\ batch'[l] = queue[l] /\ queue'[l] = <<>>
      /\ \A k \in Loops : k # l => batch'[k] = batch[k] /\ queue'[k] = queue[k]
  BY <1>1, <1>2
<1>5. All' = All
  <2>1. batch[l] = <<>> BY <1>1 DEF IInv, PhaseInv
  <2>2. queue[l] \in Seq(Task) BY <1>2
  <2>3. <<>> \o queue[l] = queue[l] /\ queue[l] \o <<>> = queue[l] BY <2>2
  <2>4. \A k \in Loops : batch'[k] \o queue'[k] = batch[k] \o queue[k] BY <1>4, <2>1, <2>3
  <2> QED BY <2>4 DEF All
<1>6. (\A d \in Made : LifeInv(d)') /\ HolderInv' /\ NoDanglingChannel' /\ Made' = Made
  BY <1>1, <1>5, LifeKept, SameKeeps DEF connVars, mapVars
<1>7. TypeOK' BY <1>1, <1>3, <1>4, Zenon DEF IInv, TypeOK, connVars, mapVars, Made
<1>8. TaskInv' BY <1>1, <1>5 DEF IInv, TaskInv, Fits, Made, connVars
<1>9. EventInv' BY <1>1 DEF IInv, EventInv, connVars
<1>10. PhaseInv'
  <2>1. /\ \A k \in Loops :
              /\ phase'[k] # "gone"
              /\ phase'[k] # "tasks" => batch'[k] = <<>> /\ held'[k] = {}
    BY <1>1, <1>3, <1>4 DEF IInv, PhaseInv
  <2>2. \A k \in Io : phase'[k] # "events" => active'[k] = {}
    BY <1>1, <1>3, LoopFacts DEF IInv, PhaseInv
  <2>3. \A k \in Io : lookup[k] # None => k # l
    BY <1>1 DEF IInv, PhaseInv
  <2>4. ASSUME NEW k \in Io, lookup'[k] # None
        PROVE LET d == lookup'[k].conn IN
              /\ phase'[k] = "tasks" /\ d \in held'[k] /\ loop'[d] = k
              /\ state'[d] \notin {None, "CONNECTING"}
    BY <1>1, <1>3, <2>3, <2>4, LoopFacts DEF IInv, PhaseInv, connVars, mapVars
  <2>5. writing' # None =>
          /\ writing'.conn \in Made'
          /\ writing'.op = "insert" => phase'[Main] = "events" /\ state'[writing'.conn] = None
          /\ writing'.op = "erase" => phase'[Main] = "tasks" /\ state'[writing'.conn] = "CLOSING"
    BY <1>1, <1>3, <1>6, LoopFacts DEF IInv, PhaseInv, mapVars
  <2>6. \A d \in Conns : user'[d] = "none" BY <1>1 DEF IInv, PhaseInv
  <2> QED BY <2>1, <2>2, <2>4, <2>5, <2>6 DEF PhaseInv
<1> QED BY <1>1, <1>6, <1>7, <1>8, <1>9, <1>10 DEF IInv, NoFailure

\* What is still to run, is found, or is being inserted is referred to, so that
\* a connection that is not has been destroyed.
LEMMA Referred ==
    ASSUME IInv, UNCHANGED <<batch, queue, connMap, writing>>
    PROVE /\ \A l \in Loops : \A i \in DOMAIN All[l] : All[l][i].conn \in Referenced
          /\ \A l \in Loops : held'[l] \subseteq Referenced
          /\ \A c \in Made : c \notin Referenced => state[c] = "CLOSED"
<1>1. /\ connMap \in [Fds -> Conns \cup {None}] /\ held' = held'
      /\ LoopsHave(batch) /\ LoopsHave(queue)
  BY TaskFacts DEF IInv, TypeOK
<1>2. ASSUME NEW l \in Loops, NEW i \in DOMAIN All[l] PROVE All[l][i].conn \in Referenced
  <2> DEFINE t == All[l][i]
  <2>1. batch[l] \in Seq(Task) /\ queue[l] \in Seq(Task) BY <1>1 DEF LoopsHave
  <2>2. t = (batch[l] \o queue[l])[i] /\ i \in DOMAIN (batch[l] \o queue[l])
    BY <1>1, AllLists
  <2>3. t \in Range(batch[l]) \cup Range(queue[l])
    <3>1. /\ Len(batch[l]) \in Nat /\ Len(queue[l]) \in Nat
          /\ i \in 1 .. Len(batch[l]) + Len(queue[l])
          /\ t = IF i <= Len(batch[l]) THEN batch[l][i] ELSE queue[l][i - Len(batch[l])]
      <4>1. Len(batch[l] \o queue[l]) = Len(batch[l]) + Len(queue[l])
            /\ batch[l] \o queue[l] \in Seq(Task)
        BY <2>1, ConcatProperties
      <4>2. /\ Len(batch[l]) \in Nat /\ Len(queue[l]) \in Nat
            /\ i \in 1 .. Len(batch[l]) + Len(queue[l])
        <5>1. DOMAIN (batch[l] \o queue[l]) = 1 .. Len(batch[l] \o queue[l])
          BY <4>1, LenProperties
        <5> QED BY <2>1, <2>2, <4>1, <5>1, LenProperties
      <4>3. (batch[l] \o queue[l])[i]
              = IF i <= Len(batch[l]) THEN batch[l][i] ELSE queue[l][i - Len(batch[l])]
        BY <2>1, <4>2, ConcatProperties
      <4> QED BY <2>2, <4>2, <4>3
    <3>2. CASE i <= Len(batch[l])
      <4>1. i \in DOMAIN batch[l] /\ t = batch[l][i] BY <2>1, <3>1, <3>2
      <4> QED BY <4>1, Zenon DEF Range
    <3>3. CASE ~(i <= Len(batch[l]))
      <4>1. t = queue[l][i - Len(batch[l])] BY <3>1, <3>3
      <4> HIDE DEF t
      <4>2. i - Len(batch[l]) \in 1 .. Len(queue[l])
        <5>1. \A m, n \in Nat : \A j \in 1 .. m + n : ~(j <= m) => j - m \in 1 .. n
          OBVIOUS
        <5> QED BY <3>1, <3>3, <5>1
      <4>3. i - Len(batch[l]) \in DOMAIN queue[l] BY <2>1, <4>2
      <4> QED BY <4>1, <4>3, Zenon DEF Range
    <3> QED BY <3>2, <3>3
  <2>4. t.op \notin Bare
    <3>1. Fits(l, t) BY TaskFacts
    <3> QED BY <3>1 DEF Fits, Ops, Bare
  <2> HIDE DEF t
  <2>5. t \in UNION {Range(queue'[k]) \cup Range(batch'[k]) : k \in Loops} BY <2>3
  <2>6. t.conn \in Referenced BY <2>4, <2>5 DEF Referenced
  <2> QED BY <2>6 DEF t
<1>3. \A l \in Loops : held'[l] \subseteq Referenced BY DEF Referenced
<1>4. ASSUME NEW c \in Made, c \notin Referenced PROVE state[c] = "CLOSED"
  <2>1. /\ c \in Conns /\ fd[c] \in Fds /\ LifeInv(c) /\ state[c] \in States \cup {None}
        /\ loop[c] \in Loops /\ Main \in Loops
    BY ConnFacts, LoopFacts
  <2>2. \A l \in Loops : \A op : ~OneTask(All, c, Ops, l, op) /\ ~OneTask(All, c, Steps, l, op)
    BY <1>2, <1>4 DEF OneTask
  <2>3. connMap[fd[c]] # c
    <3>1. connMap'[fd[c]] \in Range(connMap') BY <1>1, <2>1 DEF Range
    <3>2. Range(connMap') \subseteq Referenced BY Zenon DEF Referenced
    <3> QED BY <1>4, <3>1, <3>2
  <2>4. writing # [op |-> "insert", conn |-> c]
    <3>1. [op |-> "insert", conn |-> c] # None BY <2>1, NoneIsNone DEF Updates
    <3>2. ASSUME writing # None PROVE writing.conn \in Referenced
      <4>1. writing.conn \in (IF writing = None THEN {} ELSE {writing.conn}) BY <3>2
      <4> QED BY <4>1, Zenon DEF Referenced
    <3> QED BY <1>4, <3>1, <3>2
  <2> QED BY <2>1, <2>2, <2>3, <2>4, NoneIsNone DEF LifeInv
<1> QED BY <1>2, <1>3, <1>4

\* The closures of a batch go: what is destructed has been destroyed.
LEMMA EndBatchStep ==
    ASSUME IInv, NEW l \in Loops, EndBatch(l)
    PROVE IInv'
<1> DEFINE gone == (Made \ freed) \ Referenced
<1>1. /\ UNCHANGED <<connVars, state, interest, mapVars, channelMap, active,
                     batch, queue, user>>
      /\ phase[l] = "tasks" /\ phase' = [phase EXCEPT ![l] = "poll"]
      /\ batch[l] = <<>> /\ held' = [held EXCEPT ![l] = {}]
      /\ IF l = Main THEN writing = None ELSE lookup[l] = None
      /\ freed' = freed \cup gone
      /\ failed' = IF \E c \in gone : state[c] # "CLOSED" THEN "~Channel" ELSE failed
  BY DEF EndBatch, At, Release
<1>2. /\ \A k \in Loops : \A i \in DOMAIN All[k] : All[k][i].conn \in Referenced
      /\ \A k \in Loops : held'[k] \subseteq Referenced
      /\ \A c \in Made : c \notin Referenced => state[c] = "CLOSED"
  BY <1>1, Referred DEF mapVars
<1>3. \A c \in gone : c \in Made /\ c \notin Referenced /\ state[c] = "CLOSED" BY <1>2
<1>4. failed' = "no" BY <1>1, <1>3 DEF IInv, NoFailure
<1> HIDE DEF gone
<1>5. /\ phase \in [Loops -> {"poll", "events", "tasks", "gone"}]
      /\ held \in [Loops -> SUBSET Conns]
  BY DEF IInv, TypeOK
<1>6. /\ phase' \in [Loops -> {"poll", "events", "tasks", "gone"}] /\ phase'[l] = "poll"
      /\ held' \in [Loops -> SUBSET Conns] /\ held'[l] = {}
      /\ \A k \in Loops : k # l => phase'[k] = phase[k] /\ held'[k] = held[k]
  BY <1>1, <1>5
<1>7. All' = All /\ Made' = Made BY <1>1 DEF All, Made, connVars
<1>8. freed' \subseteq Made' BY <1>1, <1>3, <1>7 DEF IInv, TypeOK
<1>9. TypeOK' BY <1>1, <1>4, <1>6, <1>8, Zenon DEF IInv, TypeOK, connVars, mapVars
<1>10. TaskInv'
  <2>1. \A k \in Loops : \A i \in DOMAIN All'[k] : Fits(k, All[k][i])'
    BY <1>1, <1>2, <1>3, <1>7, TaskFacts DEF Fits, connVars
  <2>2. \A k \in Loops : held'[k] \subseteq Made' \ freed'
    <3>1. \A k \in Loops : held'[k] \subseteq held[k] BY <1>6
    <3>2. \A k \in Loops : held[k] \subseteq Made \ freed BY DEF IInv, TaskInv
    <3> QED BY <1>1, <1>2, <1>3, <1>7, <3>1, <3>2
  <2> QED BY <2>1, <2>2 DEF TaskInv
<1>11. ASSUME NEW d \in Made PROVE LifeInv(d)'
  <2>1. LifeInv(d) /\ (d \in freed' => state[d] = "CLOSED")
    BY <1>1, <1>3, ConnFacts DEF LifeInv
  <2> QED BY <1>1, <1>7, <2>1 DEF LifeInv, connVars, mapVars
<1>12. HolderInv' BY <1>1, <1>7 DEF IInv, HolderInv, connVars, mapVars
<1>13. NoDanglingChannel'
  <2>1. ASSUME NEW k \in Io, NEW f \in Fds, channelMap[k][f] # None
        PROVE LET d == channelMap[k][f] IN d \notin freed' /\ loop[d] = k /\ fd[d] = f
    <3> DEFINE d == channelMap[k][f]
    <3>1. d \notin freed /\ loop[d] = k /\ fd[d] = f BY <2>1 DEF IInv, NoDanglingChannel
    <3>2. ASSUME d \in gone PROVE FALSE
      <4>1. d \in Made /\ state[d] = "CLOSED" BY <1>3, <3>2
      <4>2. LifeInv(d) BY <4>1, ConnFacts
      <4> HIDE DEF d
      <4>3. channelMap[loop[d]][fd[d]] = d BY <3>1 DEF d
      <4> QED BY <4>1, <4>2, <4>3 DEF LifeInv
    <3> QED BY <1>1, <3>1, <3>2
  <2> QED BY <1>1, <2>1 DEF NoDanglingChannel, connVars
<1>14. EventInv' BY <1>1 DEF IInv, EventInv, connVars
<1>15. PhaseInv'
  <2>1. \A k \in Loops :
          /\ phase'[k] # "gone"
          /\ phase'[k] # "tasks" => batch'[k] = <<>> /\ held'[k] = {}
    BY <1>1, <1>6 DEF IInv, PhaseInv
  <2>2. \A k \in Io : phase'[k] # "events" => active'[k] = {}
    BY <1>1, <1>6, LoopFacts DEF IInv, PhaseInv
  <2>3. \A k \in Io : lookup[k] # None => k # l
    BY <1>1, LoopFacts DEF IInv, PhaseInv
  <2>4. ASSUME NEW k \in Io, lookup'[k] # None
        PROVE LET d == lookup'[k].conn IN
              /\ phase'[k] = "tasks" /\ d \in held'[k] /\ loop'[d] = k
              /\ state'[d] \notin {None, "CONNECTING"}
    BY <1>1, <1>6, <2>3, <2>4, LoopFacts DEF IInv, PhaseInv, connVars, mapVars
  <2>5. writing' # None =>
          /\ writing'.conn \in Made'
          /\ writing'.op = "insert" => phase'[Main] = "events" /\ state'[writing'.conn] = None
          /\ writing'.op = "erase" => phase'[Main] = "tasks" /\ state'[writing'.conn] = "CLOSING"
    BY <1>1, <1>6, <1>7, LoopFacts DEF IInv, PhaseInv, mapVars
  <2>6. \A d \in Conns : user'[d] = "none" BY <1>1 DEF IInv, PhaseInv
  <2> QED BY <2>1, <2>2, <2>4, <2>5, <2>6 DEF PhaseInv
<1> QED BY <1>4, <1>7, <1>9, <1>10, <1>11, <1>12, <1>13, <1>14, <1>15 DEF IInv, NoFailure

-----------------------------------------------------------------------------
(* The actions of the main loop.                                           *)

\* A connection is accepted: it has a descriptor of its own and no tasks.
LEMMA newConnectionStep ==
    ASSUME IInv, NEW c \in Conns, NEW f \in Fds, newConnection(c, f)
    PROVE IInv'
<1>1. /\ UNCHANGED <<state, interest, freed, connMap, lookup, channelMap,
                     loopVars, queue, user, failed>>
      /\ phase[Main] = "events" /\ writing = None
      /\ c \notin Made /\ f \notin {fd[d] : d \in Made \ freed}
      /\ fd' = [fd EXCEPT ![c] = f] /\ loop' = [loop EXCEPT ![c] = index]
      /\ index' = getNextLoop /\ writing' = [op |-> "insert", conn |-> c]
  BY DEF newConnection, At
<1>2. /\ fd \in [Conns -> Fds \cup {None}] /\ loop \in [Conns -> Io \cup {None}]
      /\ index \in Io /\ connMap \in [Fds -> Conns \cup {None}]
      /\ channelMap \in [Io -> [Fds -> Conns \cup {None}]] /\ freed \subseteq Made
  BY DEF IInv, TypeOK
<1>3. fd[c] = None /\ f # None /\ c # None BY <1>1, NoneIsNone DEF Made
<1>4. /\ fd' \in [Conns -> Fds \cup {None}] /\ loop' \in [Conns -> Io \cup {None}]
      /\ fd'[c] = f /\ loop'[c] = index
      /\ \A d \in Conns : d # c => fd'[d] = fd[d] /\ loop'[d] = loop[d]
  BY <1>1, <1>2
<1>5. index' \in Io
  <2>1. (index % N) \in 0 .. N - 1 BY <1>2, NAssumption DEF Io
  <2> QED BY <1>1, <2>1, NAssumption DEF getNextLoop, Io
<1>6. Made' = Made \cup {c} BY <1>3, <1>4 DEF Made
<1>7. All' = All BY <1>1 DEF All, loopVars
<1>8. \A d \in Made : d # c /\ d \in Conns BY <1>1 DEF Made
<1>9. state[c] = None /\ interest[c] = "none" BY <1>1 DEF IInv, HolderInv
<1>10. LifeInv(c)'
  <2>1. c \notin freed BY <1>1, <1>2
  <2>2. channelMap[index][f] # c BY <1>2, <1>3 DEF IInv, NoDanglingChannel
  <2>3. connMap[f] # c BY <1>3 DEF IInv, HolderInv
  <2>4. NoTask(All, c, Ops) BY <1>1, TaskFacts DEF NoTask, Fits
  <2> QED BY <1>1, <1>4, <1>7, <1>9, <2>1, <2>2, <2>3, <2>4, NoneIsNone DEF LifeInv
<1>11. ASSUME NEW d \in Made PROVE LifeInv(d)'
  <2>1. LifeInv(d) /\ d # c /\ d \in Conns /\ loop[d] \in Loops BY <1>8, ConnFacts
  <2>2. /\ writing' # [op |-> "erase", conn |-> d]
        /\ writing # [op |-> "insert", conn |-> d] /\ writing # [op |-> "erase", conn |-> d]
    BY <1>1, <2>1, NoneIsNone DEF Updates
  <2> QED BY <1>1, <1>4, <1>7, <2>1, <2>2, SameKeeps, Bystander
<1>12. TypeOK'
  <2>1. writing' \in Updates BY <1>1 DEF Updates
  <2>2. freed' \subseteq Made' BY <1>1, <1>2, <1>6
  <2> QED BY <1>1, <1>4, <1>5, <2>1, <2>2, Zenon DEF IInv, TypeOK, loopVars
<1>13. TaskInv'
  <2>1. \A k \in Loops : \A i \in DOMAIN All'[k] : Fits(k, All[k][i])'
    BY <1>1, <1>4, <1>6, <1>7, <1>8, TaskFacts DEF Fits
  <2> QED BY <1>1, <1>6, <1>7, <2>1 DEF IInv, TaskInv, loopVars
<1>14. HolderInv'
  <2>1. \A d, e \in Made' \ freed' : fd'[d] = fd'[e] => d = e
    BY <1>1, <1>4, <1>6, <1>8 DEF IInv, HolderInv
  <2>2. \A g \in Fds : connMap[g] # None => fd'[connMap[g]] = g
    BY <1>2, <1>3, <1>4, NoneIsNone DEF IInv, HolderInv
  <2>3. \A d \in Made' : loop'[d] \in Io
    BY <1>2, <1>4, <1>6, <1>8 DEF IInv, HolderInv
  <2>4. \A d \in Conns \ Made' : state[d] = None /\ interest[d] = "none"
    BY <1>6 DEF IInv, HolderInv
  <2> QED BY <1>1, <2>1, <2>2, <2>3, <2>4 DEF HolderInv
<1>15. NoDanglingChannel'
  <2>1. ASSUME NEW k \in Io, NEW g \in Fds, channelMap[k][g] # None
        PROVE LET d == channelMap[k][g] IN d \notin freed /\ loop'[d] = k /\ fd'[d] = g
    <3>1. channelMap[k][g] \in Conns BY <1>2, <2>1
    <3>2. LET d == channelMap[k][g] IN d \notin freed /\ loop[d] = k /\ fd[d] = g
      BY <2>1 DEF IInv, NoDanglingChannel
    <3>3. channelMap[k][g] # c BY <1>3, <3>2, NoneIsNone
    <3> QED BY <1>4, <3>1, <3>2, <3>3
  <2> QED BY <1>1, <2>1 DEF NoDanglingChannel
<1>16. EventInv'
  <2>1. \A k \in Io : \A e \in active[k] : fd'[e.conn] = fd[e.conn]
    BY <1>4, <1>8, EventFacts
  <2> QED BY <1>1, <2>1 DEF IInv, EventInv, loopVars
<1>17. PhaseInv'
  <2>1. ASSUME NEW k \in Io, lookup[k] # None
        PROVE LET d == lookup[k].conn IN
              /\ phase[k] = "tasks" /\ d \in held[k] /\ loop'[d] = k
              /\ state[d] \notin {None, "CONNECTING"}
    <3> DEFINE d == lookup[k].conn
    <3>1. /\ phase[k] = "tasks" /\ d \in held[k] /\ loop[d] = k
          /\ state[d] \notin {None, "CONNECTING"}
      BY <2>1 DEF IInv, PhaseInv
    <3>2. d \in Made BY <3>1, LoopFacts DEF IInv, TaskInv
    <3> HIDE DEF d
    <3>3. loop'[d] = loop[d] BY <1>4, <1>8, <3>2
    <3> QED BY <3>1, <3>3 DEF d
  <2>2. /\ \A k \in Loops :
              /\ phase[k] # "gone"
              /\ phase[k] # "tasks" => batch[k] = <<>> /\ held[k] = {}
        /\ \A k \in Io : phase[k] # "events" => active[k] = {}
        /\ \A d \in Conns : user[d] = "none"
    BY DEF IInv, PhaseInv
  <2>3. /\ writing'.conn \in Made' /\ writing'.op = "insert"
        /\ phase[Main] = "events" /\ state[writing'.conn] = None
    BY <1>1, <1>6, <1>9
  <2> QED BY <1>1, <2>1, <2>2, <2>3 DEF PhaseInv, loopVars
<1> QED BY <1>1, <1>6, <1>10, <1>11, <1>12, <1>13, <1>14, <1>15, <1>16, <1>17
      DEF IInv, NoFailure

\* The map after the entry of c has been set.
LEMMA EntrySet ==
    ASSUME IInv, NEW c \in Made \ freed, NEW v \in {c, None},
           connMap' = [connMap EXCEPT ![fd[c]] = v]
    PROVE /\ connMap' \in [Fds -> Conns \cup {None}] /\ connMap'[fd[c]] = v
          /\ \A d \in Made : d # c => (connMap'[fd[d]] = d <=> connMap[fd[d]] = d)
          /\ \A f \in Fds : connMap'[f] # None => fd[connMap'[f]] = f
<1>1. fd[c] \in Fds /\ c \in Conns /\ c # None BY ConnFacts
<1>2. connMap \in [Fds -> Conns \cup {None}] BY DEF IInv, TypeOK
<1>3. /\ connMap' \in [Fds -> Conns \cup {None}] /\ connMap'[fd[c]] = v
      /\ \A f \in Fds : f # fd[c] => connMap'[f] = connMap[f]
  BY <1>1, <1>2
<1>4. ASSUME NEW d \in Made, d # c
      PROVE connMap'[fd[d]] = d <=> connMap[fd[d]] = d
  <2>1. fd[d] \in Fds /\ d # None BY ConnFacts
  <2>2. CASE fd[d] # fd[c] BY <1>3, <2>1, <2>2
  <2>3. CASE fd[d] = fd[c]
    <3>1. connMap[fd[d]] # d BY <1>4, <2>3, Apart
    <3> QED BY <1>3, <1>4, <2>1, <2>3, <3>1
  <2> QED BY <2>2, <2>3
<1>5. \A f \in Fds : connMap'[f] # None => fd[connMap'[f]] = f
  BY <1>1, <1>3 DEF IInv, HolderInv
<1> QED BY <1>3, <1>4, <1>5

\* A task that c's thread is to run is queued.
LEMMA Enqueued ==
    ASSUME IInv, NEW c \in Made \ freed, NEW op \in {"Established", "Destroy"},
           Enqueue(loop[c], op, c), UNCHANGED batch
    PROVE /\ LoopsHave(queue')
          /\ \A k \in Loops : \A i \in DOMAIN All'[k] : Fits(k, All'[k][i])
          /\ \A d, ops : d # c => Keeps(All, All', d, ops)
          /\ \A ops : op \in ops /\ NoTask(All, c, ops) => OneTask(All', c, ops, loop[c], op)
<1> DEFINE t == [op |-> op, conn |-> c]
           l == loop[c]
<1>1. c \in Conns /\ l \in Loops /\ l # Main BY ConnFacts
<1>2. t \in Task /\ t.conn = c /\ Fits(l, t) BY <1>1 DEF Task, Fits, Ops
<1>3. /\ LoopsHave(batch) /\ LoopsHave(queue) /\ All \in Lists
      /\ \A k \in Loops : \A i \in DOMAIN All[k] : Fits(k, All[k][i])
  BY TaskFacts
<1>4. queue' = [queue EXCEPT ![l] = Append(@, t)] BY DEF Enqueue
<1>5. [k \in Loops |-> batch'[k] \o queue[k]] = All BY DEF All
<1>6. \A ops : op \in ops /\ NoTask(All, c, ops) => OneTask(Added(All, l, t), c, ops, l, op)
  BY <1>1, <1>2, <1>3, AddedFirst
<1> HIDE DEF t, l
<1>7. LoopsHave(queue') /\ All' = Added(All, l, t)
  <2>1. LoopsHave(batch') BY <1>3
  <2> QED BY <1>1, <1>2, <1>3, <1>4, <1>5, <2>1, Queueing
<1>8. \A k \in Loops : \A i \in DOMAIN All'[k] : Fits(k, All'[k][i])
  BY <1>1, <1>2, <1>3, <1>7, StillFits
<1>9. \A d, ops : d # c => Keeps(All, All', d, ops)
  BY <1>1, <1>2, <1>3, <1>7, AddedKeeps
<1> QED BY <1>6, <1>7, <1>8, <1>9 DEF l

\* An update of the map ends, and a task is queued in the io loop.
LEMMA UpdateEnds ==
    ASSUME IInv, NEW c \in Made \ freed, NEW how \in {"insert", "erase"},
           writing = [op |-> how, conn |-> c], writing' = None,
           NEW v \in {c, None}, connMap' = [connMap EXCEPT ![fd[c]] = v],
           NEW op \in {"Established", "Destroy"}, Enqueue(loop[c], op, c),
           state' \in [Conns -> States \cup {None}],
           \A d \in Conns : d # c => state'[d] = state[d],
           state'[c] = state[c] \/ state[c] = None,
           UNCHANGED <<connVars, interest, freed, lookup, index, channelMap,
                       loopVars, user, failed>>,
           LifeInv(c)'
    PROVE IInv'
<1>1. /\ connMap' \in [Fds -> Conns \cup {None}]
      /\ \A d \in Made : d # c => (connMap'[fd[d]] = d <=> connMap[fd[d]] = d)
      /\ \A f \in Fds : connMap'[f] # None => fd[connMap'[f]] = f
  BY EntrySet
<1>2. /\ LoopsHave(queue')
      /\ \A k \in Loops : \A i \in DOMAIN All'[k] : Fits(k, All'[k][i])
      /\ \A d, ops : d # c => Keeps(All, All', d, ops)
  BY Enqueued DEF loopVars
<1>3. Made' = Made /\ c \in Conns BY DEF Made, connVars
<1>4. ASSUME NEW d \in Made, d # c PROVE LifeInv(d)'
  <2>1. LifeInv(d) /\ d \in Conns /\ loop[d] \in Loops BY ConnFacts
  <2>2. /\ writing # [op |-> "insert", conn |-> d] /\ writing # [op |-> "erase", conn |-> d]
        /\ writing' # [op |-> "erase", conn |-> d]
    BY <1>4, <2>1, NoneIsNone DEF Updates
  <2> QED BY <1>1, <1>2, <1>4, <2>1, <2>2, Bystander DEF connVars
<1>5. TypeOK'
  <2>1. queue' \in [Loops -> Seq(Task)] BY <1>2 DEF LoopsHave
  <2>2. writing' \in Updates \cup {None} OBVIOUS
  <2>3. freed' \subseteq Made' BY <1>3 DEF IInv, TypeOK
  <2> QED BY <1>1, <2>1, <2>2, <2>3, Zenon DEF IInv, TypeOK, connVars, loopVars
<1>6. TaskInv'
  <2>1. \A k \in Loops : \A i \in DOMAIN All'[k] : Fits(k, All[k][i])'
    BY <1>2, <1>3 DEF Fits, connVars
  <2> QED BY <1>3, <2>1 DEF IInv, TaskInv, loopVars
<1>7. HolderInv' BY <1>1, <1>3 DEF IInv, HolderInv, connVars
<1>8. NoDanglingChannel' BY DEF IInv, NoDanglingChannel, connVars
<1>9. EventInv' BY DEF IInv, EventInv, connVars, loopVars
<1>10. PhaseInv'
  <2>1. ASSUME NEW k \in Io, lookup[k] # None
        PROVE LET d == lookup[k].conn IN
              /\ phase[k] = "tasks" /\ d \in held[k] /\ loop[d] = k
              /\ state'[d] \notin {None, "CONNECTING"}
    <3> DEFINE d == lookup[k].conn
    <3>1. /\ phase[k] = "tasks" /\ d \in held[k] /\ loop[d] = k
          /\ state[d] \notin {None, "CONNECTING"}
      BY <2>1 DEF IInv, PhaseInv
    <3>2. d \in Conns BY <3>1, LoopFacts DEF IInv, TaskInv, Made
    <3> HIDE DEF d
    <3>3. state'[d] = state[d] BY <3>1, <3>2
    <3> QED BY <3>1, <3>3 DEF d
  <2> QED BY <2>1 DEF IInv, PhaseInv, connVars, loopVars
<1> QED BY <1>3, <1>4, <1>5, <1>6, <1>7, <1>8, <1>9, <1>10 DEF IInv, NoFailure

\* Inserted, a connection is found and is to be established.
LEMMA EndInsertStep ==
    ASSUME IInv, EndInsert
    PROVE IInv'
<1>0. PICK c : c = writing.conn OBVIOUS
<1>1. /\ writing # None /\ writing.op = "insert" /\ writing' = None
      /\ connMap' = [connMap EXCEPT ![fd[c]] = c]
      /\ state' = [state EXCEPT ![c] = "CONNECTING"]
      /\ Enqueue(loop[c], "Established", c)
      /\ UNCHANGED <<connVars, interest, freed, lookup, index, channelMap,
                     loopVars, user, failed>>
  BY <1>0 DEF EndInsert, SetState
<1>2. c \in Made /\ state[c] = None BY <1>0, <1>1 DEF IInv, PhaseInv
<1>3. writing = [op |-> "insert", conn |-> c]
  <2>1. writing \in Updates BY <1>1 DEF IInv, TypeOK
  <2> QED BY <1>0, <1>1, <2>1 DEF Updates
<1>4. LifeInv(c) /\ c \in Conns /\ fd[c] \in Fds BY <1>2, ConnFacts
<1>5. c \notin freed /\ NoTask(All, c, Ops) BY <1>2, <1>4, NoneIsNone DEF LifeInv
<1>6. connMap'[fd[c]] = c BY <1>1, <1>2, <1>5, EntrySet
<1>7. OneTask(All', c, Ops, loop[c], "Established")
  BY <1>1, <1>2, <1>5, Enqueued DEF loopVars, Ops
<1>8. /\ state' \in [Conns -> States \cup {None}] /\ state'[c] = "CONNECTING"
      /\ \A d \in Conns : d # c => state'[d] = state[d]
  <2>1. state \in [Conns -> States \cup {None}] BY DEF IInv, TypeOK
  <2> QED BY <1>1, <1>4, <2>1, NoneIsNone
<1>9. LifeInv(c)'
  BY <1>1, <1>2, <1>4, <1>5, <1>6, <1>7, <1>8, NoneIsNone DEF LifeInv, connVars
<1> QED BY <1>1, <1>2, <1>3, <1>5, <1>8, <1>9, UpdateEnds

\* Erased: it was found, and is to be destroyed.
LEMMA EndEraseStep ==
    ASSUME IInv, EndErase
    PROVE IInv'
<1>0. PICK c : c = writing.conn OBVIOUS
<1>1. /\ writing # None /\ writing.op = "erase" /\ writing' = None
      /\ connMap' = [connMap EXCEPT ![fd[c]] = None]
      /\ failed' = IF connMap[fd[c]] = None THEN "erase" ELSE failed
      /\ Enqueue(loop[c], "Destroy", c)
      /\ UNCHANGED <<connVars, state, interest, freed, lookup, index, channelMap,
                     loopVars, user>>
  BY <1>0 DEF EndErase, Erased
<1>2. c \in Made /\ state[c] = "CLOSING" BY <1>0, <1>1 DEF IInv, PhaseInv
<1>3. writing = [op |-> "erase", conn |-> c]
  <2>1. writing \in Updates BY <1>1 DEF IInv, TypeOK
  <2> QED BY <1>0, <1>1, <2>1 DEF Updates
<1>4. LifeInv(c) /\ c \in Conns /\ fd[c] \in Fds /\ c # None BY <1>2, ConnFacts
<1>5. c \notin freed /\ NoTask(All, c, Steps) /\ connMap[fd[c]] = c
  BY <1>2, <1>3, <1>4 DEF LifeInv
<1>6. connMap'[fd[c]] = None BY <1>1, <1>2, <1>5, EntrySet
<1>7. OneTask(All', c, Steps, loop[c], "Destroy")
  BY <1>1, <1>2, <1>5, Enqueued DEF loopVars, Steps
<1>8. UNCHANGED failed BY <1>1, <1>4, <1>5
<1>9. /\ state' \in [Conns -> States \cup {None}] /\ state'[c] = state[c]
      /\ \A d \in Conns : d # c => state'[d] = state[d]
  BY <1>1 DEF IInv, TypeOK
<1>10. [op |-> "erase", conn |-> c] # None BY <1>1, <1>3
<1>11. LifeInv(c)'
  BY <1>1, <1>2, <1>4, <1>5, <1>6, <1>7, <1>10, NoneIsNone DEF LifeInv, connVars
<1> QED BY <1>1, <1>2, <1>3, <1>5, <1>8, <1>9, <1>11, UpdateEnds

\* removeInLoop begins: the task has gone, the update stands for it.
LEMMA removeInLoopStep ==
    ASSUME IInv, removeInLoop
    PROVE IInv'
<1>1. /\ UNCHANGED <<connVars, state, interest, freed, connMap, lookup, index,
                     channelMap, phase, active, queue, user, failed>>
      /\ writing = None
  BY DEF removeInLoop
<1>2. PICK t : /\ NextTask(Main, t) /\ t.op = "removeInLoop"
               /\ writing' = [op |-> "erase", conn |-> t.conn]
  BY DEF removeInLoop
<1> DEFINE c == t.conn
           M == Taken(All, Main)
<1>3. /\ LoopsHave(batch) /\ LoopsHave(queue) /\ All \in Lists /\ Main \in Loops
      /\ \A k \in Loops : \A i \in DOMAIN All[k] : Fits(k, All[k][i])
  BY TaskFacts, LoopFacts
<1>4. /\ All[Main] # <<>> /\ Head(All[Main]) = t /\ t \in Task /\ LoopsHave(batch')
      /\ [k \in Loops |-> batch'[k] \o queue[k]] = M
  BY <1>2, <1>3, Taking
<1>5. All' = M BY <1>1, <1>4 DEF All
<1>6. /\ c \in Made \ freed /\ state[c] = "CLOSING" /\ connMap[fd[c]] = c
      /\ NoTask(M, c, Steps)
  BY <1>2, <1>3, <1>4, HeadFacts
<1>7. \A d, ops : d # c => Keeps(All, All', d, ops)
  BY <1>3, <1>4, <1>5, TakenKeeps
<1>8. \A k \in Loops : \A i \in DOMAIN All'[k] : Fits(k, All[k][i])'
  BY <1>1, <1>3, <1>4, <1>5, StillFits DEF Fits, Made, connVars
<1>9. /\ phase[Main] = "tasks" /\ batch' = [batch EXCEPT ![Main] = Tail(@)]
      /\ held' = [held EXCEPT ![Main] = @ \cup {c}]
  BY <1>2 DEF NextTask, At, Bare
<1>10. writing' = [op |-> "erase", conn |-> c] BY <1>2
<1> HIDE DEF c, M
<1>11. held \in [Loops -> SUBSET Conns] /\ batch \in [Loops -> Seq(Task)]
  BY DEF IInv, TypeOK
<1>12. c \in Conns /\ Made' = Made BY <1>1, <1>6 DEF Made, connVars
<1>13. /\ held' \in [Loops -> SUBSET Conns] /\ held'[Main] = held[Main] \cup {c}
       /\ \A k \in Loops : k # Main => held'[k] = held[k] /\ batch'[k] = batch[k]
  BY <1>3, <1>9, <1>11, <1>12
<1>14. ASSUME NEW d \in Made, d # c PROVE LifeInv(d)'
  <2>1. LifeInv(d) /\ d \in Conns /\ loop[d] \in Loops BY ConnFacts
  <2>2. /\ writing # [op |-> "insert", conn |-> d] /\ writing # [op |-> "erase", conn |-> d]
        /\ writing' # [op |-> "erase", conn |-> d]
    BY <1>1, <1>10, <1>14, <2>1, NoneIsNone DEF Updates
  <2> QED BY <1>1, <1>7, <1>14, <2>1, <2>2, Bystander DEF connVars
<1>15. LifeInv(c)'
  <2>1. LifeInv(c) BY <1>6, ConnFacts
  <2> QED BY <1>1, <1>5, <1>6, <1>10, <2>1, NoneIsNone DEF LifeInv, connVars
<1>16. TypeOK'
  <2>1. batch' \in [Loops -> Seq(Task)] BY <1>4 DEF LoopsHave
  <2>2. writing' \in Updates BY <1>10, <1>12 DEF Updates
  <2>3. freed' \subseteq Made' BY <1>1, <1>12 DEF IInv, TypeOK
  <2> QED BY <1>1, <1>13, <2>1, <2>2, <2>3, Zenon DEF IInv, TypeOK, connVars
<1>17. TaskInv' BY <1>1, <1>6, <1>8, <1>12, <1>13 DEF IInv, TaskInv
<1>18. HolderInv' /\ NoDanglingChannel' /\ EventInv'
  BY <1>1, <1>12 DEF IInv, HolderInv, NoDanglingChannel, EventInv, connVars
<1>19. PhaseInv'
  <2>1. \A k \in Loops :
          /\ phase[k] # "gone"
          /\ phase[k] # "tasks" => batch'[k] = <<>> /\ held'[k] = {}
    BY <1>9, <1>13 DEF IInv, PhaseInv
  <2>2. ASSUME NEW k \in Io
        PROVE /\ phase[k] # "events" => active[k] = {}
              /\ lookup[k] # None => LET d == lookup[k].conn IN
                    /\ phase[k] = "tasks" /\ d \in held'[k] /\ loop[d] = k
                    /\ state[d] \notin {None, "CONNECTING"}
    <3>1. held'[k] = held[k] BY <1>13, LoopFacts
    <3> QED BY <3>1 DEF IInv, PhaseInv
  <2>3. /\ writing'.conn \in Made /\ writing'.op = "erase"
        /\ phase[Main] = "tasks" /\ state[writing'.conn] = "CLOSING"
    BY <1>6, <1>9, <1>10
  <2>4. \A d \in Conns : user[d] = "none" BY DEF IInv, PhaseInv
  <2> QED BY <1>1, <1>12, <2>1, <2>2, <2>3, <2>4 DEF PhaseInv, connVars
<1> QED BY <1>1, <1>12, <1>14, <1>15, <1>16, <1>17, <1>18, <1>19 DEF IInv, NoFailure

-----------------------------------------------------------------------------
(* The theorems.                                                           *)

\* No connection has been made, and the loops have nothing to do.
LEMMA InitIInv == Init => IInv
<1> SUFFICES ASSUME Init PROVE IInv OBVIOUS
<1>1. Made = {} BY DEF Init, Made
<1>2. 1 \in Io BY NAssumption DEF Io
<1>3. <<>> \in Seq(Task) /\ <<>> \o <<>> = <<>> OBVIOUS
<1>4. TypeOK BY <1>1, <1>2, <1>3 DEF Init, TypeOK
<1>5. \A l \in Loops : All[l] = <<>> /\ held[l] = {} BY <1>3 DEF Init, All
<1>6. TaskInv BY <1>5 DEF TaskInv
<1>7. PhaseInv BY LoopFacts DEF Init, PhaseInv
<1>8. EventInv BY DEF Init, EventInv
<1>9. HolderInv BY <1>1 DEF Init, HolderInv
<1>10. NoDanglingChannel BY DEF Init, NoDanglingChannel
<1>11. NoFailure BY DEF Init, NoFailure
<1> QED BY <1>1, <1>4, <1>6, <1>7, <1>8, <1>9, <1>10, <1>11 DEF IInv

\* Every step keeps the invariant; what other users than HttpServer do, other
\* threads and an early end of the server, does not happen.
LEMMA NextIInv ==
    ASSUME HttpUsage
    PROVE IInv /\ [Next]_vars => IInv'
<1> SUFFICES ASSUME IInv, [Next]_vars PROVE IInv' OBVIOUS
<1>1. ASSUME NEW l \in Io, IoStep(l) PROVE IInv'
  <2>1. l \in Loops BY LoopFacts
  <2> QED BY <1>1, <2>1, PollStep, HandleEventStep, SwapTasksStep, RunTaskStep,
             BeginCloseStep, EndCloseStep, EndBatchStep DEF IoStep
<1>2. ASSUME MainStep PROVE IInv'
  BY <1>2, LoopFacts, PollStep, SwapTasksStep, EndBatchStep, EndInsertStep,
     removeInLoopStep, EndEraseStep DEF MainStep
<1>3. ASSUME DestroyServer PROVE IInv' BY <1>3 DEF DestroyServer, HttpUsage
<1>4. ASSUME Aborted PROVE IInv' BY <1>4 DEF Aborted, Running, IInv, NoFailure
<1>5. ASSUME NEW c \in Conns, NEW f \in Fds, newConnection(c, f) PROVE IInv'
  BY <1>5, newConnectionStep
<1>6. ASSUME NEW c \in Conns, Share(c) PROVE IInv' BY <1>6 DEF Share, HttpUsage
<1>7. ASSUME NEW c \in Conns, CallAndDrop(c) PROVE IInv'
  BY <1>7 DEF CallAndDrop, IInv, PhaseInv
<1>8. ASSUME UNCHANGED vars PROVE IInv'
  <2>1. UNCHANGED <<fd, loop, state, interest, freed, connMap, writing, lookup, index,
                    channelMap, phase, active, batch, held, queue, user, failed>>
    BY <1>8 DEF vars, connVars, mapVars, loopVars
  <2>2. All' = All BY <2>1 DEF All
  <2>3. (\A d \in Made : LifeInv(d)') /\ HolderInv' /\ NoDanglingChannel' /\ Made' = Made
    BY <2>1, <2>2, LifeKept, SameKeeps
  <2>4. TypeOK' BY <2>1, Zenon DEF IInv, TypeOK, Made
  <2>5. TaskInv' BY <2>1, <2>2 DEF IInv, TaskInv, Fits, Made
  <2>6. PhaseInv' /\ EventInv' BY <2>1, <2>3 DEF IInv, PhaseInv, EventInv
  <2> QED BY <2>1, <2>3, <2>4, <2>5, <2>6 DEF IInv, NoFailure
<1> QED BY <1>1, <1>2, <1>3, <1>4, <1>5, <1>6, <1>7, <1>8 DEF Next

\* With the calls that HttpServer makes the invariant holds always.
THEOREM Inductive ==
    ASSUME HttpUsage
    PROVE Spec => []IInv
BY InitIInv, NextIInv, PTL DEF Spec

\* No assertion on the life of a connection fails and no freed connection is
\* used (Poller.cpp:49, 62, 76, 77, TcpConnection.cpp:151, TcpServer.cpp:84,
\* Channel.cpp:30), for any number of loops, connections and descriptors.
THEOREM NeverFails ==
    ASSUME HttpUsage
    PROVE Spec => []NoFailure
<1>1. IInv => NoFailure BY DEF IInv
<1> QED BY <1>1, Inductive, PTL

\* No poller keeps the channel of a destructed connection.
THEOREM NeverDangling ==
    ASSUME HttpUsage
    PROVE Spec => []NoDanglingChannel
<1>1. IInv => NoDanglingChannel BY DEF IInv
<1> QED BY <1>1, Inductive, PTL

\* An open connection is found by its descriptor, and none that is found has
\* been destroyed: what TcpServer::Close relies on.
THEOREM MapAgrees ==
    ASSUME HttpUsage
    PROVE Spec => []MapIsAccurate
<1>1. ASSUME IInv PROVE MapIsAccurate
  <2>1. ASSUME NEW f \in Fds, connMap[f] # None
        PROVE fd[connMap[f]] = f /\ state[connMap[f]] \in Open \cup {"CLOSING"}
    <3> DEFINE c == connMap[f]
    <3>1. connMap \in [Fds -> Conns \cup {None}] BY <1>1 DEF IInv, TypeOK
    <3>2. c \in Conns /\ fd[c] = f BY <1>1, <2>1, <3>1 DEF IInv, HolderInv
    <3>3. connMap[fd[c]] = c BY <3>2
    <3>4. c \in Made BY <3>2, NoneIsNone DEF Made
    <3> HIDE DEF c
    <3>5. LifeInv(c) /\ state[c] \in States \cup {None} BY <1>1, <3>4, ConnFacts
    <3>6. state[c] \notin {None, "CLOSED"} BY <3>3, <3>5 DEF LifeInv
    <3> QED BY <3>2, <3>5, <3>6, NoneIsNone DEF c, Open
  <2>2. ASSUME NEW c \in Made, state[c] \in Open PROVE connMap[fd[c]] = c
    BY <1>1, <2>2, ConnFacts DEF LifeInv, Open
  <2> QED BY <2>1, <2>2 DEF MapIsAccurate
<1> QED BY <1>1, Inductive, PTL

\* Where the tasks of Pending are.
LEMMA PendingIs ==
    ASSUME IInv, NEW c
    PROVE Pending(c) = UNION {{l} \X {i \in DOMAIN All[l] :
              All[l][i].conn = c /\ All[l][i].op \in {"removeInLoop", "Destroy"}} : l \in Loops}
<1> DEFINE S(l) == {l} \X {i \in DOMAIN (batch[l] \o queue[l]) :
                          LET t == (batch[l] \o queue[l])[i]
                          IN t.conn = c /\ t.op \in {"removeInLoop", "Destroy"}}
           T(l) == {l} \X {i \in DOMAIN All[l] :
              All[l][i].conn = c /\ All[l][i].op \in {"removeInLoop", "Destroy"}}
<1>1. ASSUME NEW l \in Loops PROVE S(l) = T(l)
  <2>1. All[l] = batch[l] \o queue[l] BY AllLists, TaskFacts
  <2> QED BY <2>1
<1>2. Pending(c) = UNION {S(l) : l \in Loops} BY DEF Pending
<1> HIDE DEF S, T
<1>3. {S(l) : l \in Loops} = {T(l) : l \in Loops} BY <1>1
<1> QED BY <1>2, <1>3 DEF T

\* How many tasks are pending, by what c has.
LEMMA PendingCount ==
    ASSUME IInv, NEW c, NEW ops \in {Ops, Steps}
    PROVE /\ NoTask(All, c, ops) => Cardinality(Pending(c)) = 0
          /\ \A l \in Loops : OneTask(All, c, ops, l, "Established")
                => Cardinality(Pending(c)) = 0
          /\ \A l \in Loops, op \in {"removeInLoop", "Destroy"} :
                OneTask(All, c, ops, l, op) => Cardinality(Pending(c)) = 1
<1> DEFINE P == Pending(c)
           Is(k, j) == All[k][j].conn = c /\ All[k][j].op \in {"removeInLoop", "Destroy"}
<1>1. {"removeInLoop", "Destroy"} \subseteq ops BY DEF Ops, Steps
<1>2. ASSUME NEW p
      PROVE p \in P <=> \E k \in Loops : \E j \in DOMAIN All[k] : p = <<k, j>> /\ Is(k, j)
  BY PendingIs
<1> HIDE DEF P
<1>3. ASSUME NoTask(All, c, ops) PROVE P = {}
  <2>1. \A k \in Loops : \A j \in DOMAIN All[k] : ~Is(k, j) BY <1>1, <1>3 DEF NoTask
  <2> HIDE DEF Is
  <2> QED BY <1>2, <2>1
<1>4. ASSUME NEW l \in Loops, OneTask(All, c, ops, l, "Established") PROVE P = {}
  <2>1. \A k \in Loops : \A j \in DOMAIN All[k] : ~Is(k, j) BY <1>1, <1>4 DEF OneTask
  <2> HIDE DEF Is
  <2> QED BY <1>2, <2>1
<1>5. ASSUME NEW l \in Loops, NEW op \in {"removeInLoop", "Destroy"},
             OneTask(All, c, ops, l, op)
      PROVE \E i : P = {<<l, i>>}
  <2>1. PICK i \in DOMAIN All[l] :
          /\ Is(l, i)
          /\ \A k \in Loops : \A j \in DOMAIN All[k] : Is(k, j) => k = l /\ j = i
    BY <1>1, <1>5 DEF OneTask
  <2> HIDE DEF Is
  <2>2. P = {<<l, i>>} BY <1>2, <2>1
  <2> QED BY <2>2
<1>6. \A x : Cardinality({x}) = 1 BY FS_Singleton
<1> QED BY <1>3, <1>4, <1>5, <1>6, FS_EmptySet DEF P

\* A connection that closes is handed over to the main loop and back once, and
\* is always in exactly one of the hand-overs.
THEOREM HandedOverOnce ==
    ASSUME HttpUsage
    PROVE Spec => []RemovedOnce
<1>1. ASSUME IInv PROVE RemovedOnce
  <2> SUFFICES ASSUME NEW c \in Made
               PROVE Cardinality(Pending(c))
                       + (IF writing = [op |-> "erase", conn |-> c] THEN 1 ELSE 0)
                     = (IF state[c] = "CLOSING" THEN 1 ELSE 0)
    BY DEF RemovedOnce
  <2> DEFINE erasing == writing = [op |-> "erase", conn |-> c]
             n == Cardinality(Pending(c))
  <2>1. /\ LifeInv(c) /\ state[c] \in States \cup {None} /\ loop[c] \in Loops
        /\ c \in Conns /\ Main \in Loops
    BY <1>1, ConnFacts, LoopFacts
  <2>2. erasing => state[c] = "CLOSING"
    <3>1. [op |-> "erase", conn |-> c] # None BY <2>1, NoneIsNone DEF Updates
    <3> QED BY <1>1, <3>1 DEF IInv, PhaseInv
  <2>3. CASE state[c] = "CLOSING"
    <3>1. \/ ~erasing /\ OneTask(All, c, Steps, Main, "removeInLoop")
          \/ erasing /\ NoTask(All, c, Steps)
          \/ ~erasing /\ OneTask(All, c, Steps, loop[c], "Destroy")
      BY <2>1, <2>3 DEF LifeInv
    <3> HIDE DEF erasing
    <3>2. IF erasing THEN n = 0 ELSE n = 1 BY <1>1, <2>1, <3>1, PendingCount
    <3> QED BY <2>3, <3>2 DEF erasing
  <2>4. CASE state[c] # "CLOSING"
    <3>1. n = 0
      <4>1. \/ NoTask(All, c, Ops) \/ NoTask(All, c, Steps)
            \/ OneTask(All, c, Ops, loop[c], "Established")
        BY <2>1, <2>4, NoneIsNone DEF LifeInv
      <4> QED BY <1>1, <2>1, <4>1, PendingCount
    <3> QED BY <2>2, <2>4, <3>1
  <2> QED BY <2>3, <2>4
<1> QED BY <1>1, Inductive, PTL

-----------------------------------------------------------------------------
(* TcpServer implements ConnLife.                                          *)

\* The stage of a connection and the holder of a descriptor, read off.
StagesRead ==
    \A c \in Conns :
      /\ c \notin Made => Stage(c) = "unborn"
      /\ c \in freed => Stage(c) = "gone"
      /\ c \in Made \ freed =>
            /\ state[c] \in {None, "CONNECTING"} => Stage(c) = "accepted"
            /\ state[c] = "CONNECTED" => Stage(c) = "open"
            /\ state[c] = "CLOSING" => Stage(c) = "closing"
            /\ state[c] = "CLOSED" => Stage(c) = "closed"

HoldersRead ==
    \A f \in Fds :
      /\ \A c \in Made \ freed : fd[c] = f => Holder(f) = c
      /\ (\A c \in Made \ freed : fd[c] # f) => Holder(f) = None

\* The invariant makes the readings unambiguous.
LEMMA Readings == IInv => StagesRead /\ HoldersRead
<1> SUFFICES ASSUME IInv PROVE StagesRead /\ HoldersRead OBVIOUS
<1>1. freed \subseteq Made BY DEF IInv, TypeOK
<1>2. ASSUME NEW c \in Conns, c \notin Made PROVE Stage(c) = "unborn" /\ c \notin freed
  <2>1. state[c] = None /\ fd[c] = None /\ c \notin freed
    BY <1>1, <1>2 DEF IInv, HolderInv, Made
  <2> QED BY <2>1, NoneIsNone DEF Stage
<1>3. ASSUME NEW c \in freed PROVE Stage(c) = "gone"
  <2>1. c \in Made /\ LifeInv(c) BY <1>1, ConnFacts
  <2>2. fd[c] # None /\ state[c] = "CLOSED" BY <2>1 DEF Made, LifeInv
  <2> QED BY <2>2, NoneIsNone DEF Stage
<1>4. ASSUME NEW c \in Made \ freed
      PROVE /\ state[c] \in {None, "CONNECTING"} => Stage(c) = "accepted"
            /\ state[c] = "CONNECTED" => Stage(c) = "open"
            /\ state[c] = "CLOSING" => Stage(c) = "closing"
            /\ state[c] = "CLOSED" => Stage(c) = "closed"
  <2>1. fd[c] # None /\ c \notin freed BY DEF Made
  <2> QED BY <2>1, NoneIsNone DEF Stage
<1>5. StagesRead BY <1>1, <1>2, <1>3, <1>4 DEF StagesRead
<1>6. ASSUME NEW f \in Fds, NEW c \in Made \ freed, fd[c] = f PROVE Holder(f) = c
  <2>1. \A d \in Made \ freed : fd[d] = f => d = c BY <1>6 DEF IInv, HolderInv
  <2>2. \E d \in Made \ freed : fd[d] = f BY <1>6
  <2> QED BY <2>1, <2>2, Zenon DEF Holder
<1>7. ASSUME NEW f \in Fds, \A c \in Made \ freed : fd[c] # f PROVE Holder(f) = None
  BY <1>7, Zenon DEF Holder
<1> QED BY <1>5, <1>6, <1>7 DEF HoldersRead

\* The same of the next state.
LEMMA ReadingsNext == IInv' => StagesRead' /\ HoldersRead'
BY Readings, PTL

\* What neither makes nor moves a connection is not seen.
LEMMA Unseen ==
    ASSUME UNCHANGED <<fd, freed, connMap, state>>
    PROVE UNCHANGED Life!vars
<1>1. \A c : Stage(c)' = Stage(c) BY DEF Stage
<1>2. Made' = Made BY DEF Made
<1>3. \A f : Holder(f)' = Holder(f) BY <1>2 DEF Holder
<1> QED BY <1>1, <1>3 DEF Life!vars

\* The stage of one connection changes, or of none; the descriptors stay with
\* their holders.
LEMMA OneMoves ==
    ASSUME UNCHANGED <<fd, freed>>, NEW c \in Conns,
           \A d \in Conns : d # c => state'[d] = state[d]
    PROVE /\ [d \in Conns |-> Stage(d)]' = [[d \in Conns |-> Stage(d)] EXCEPT ![c] = Stage(c)']
          /\ UNCHANGED [f \in Fds |-> Holder(f)]
<1>1. Made' = Made BY DEF Made
<1>2. \A f : Holder(f)' = Holder(f) BY <1>1 DEF Holder
<1>3. \A d \in Conns : d # c => Stage(d)' = Stage(d) BY DEF Stage
<1> HIDE DEF Stage
<1> QED BY <1>2, <1>3

\* A handler is a step of ConnLife, or is not seen.
LEMMA EffectSimulates ==
    ASSUME IInv, IInv', NEW c \in Made \ freed, UNCHANGED <<fd, freed, connMap>>,
           Served(c) \/ Shut(c) \/ Opened(c) \/ Ended(c)
    PROVE [Life!Next]_(Life!vars)
<1>1. StagesRead /\ StagesRead' BY Readings, ReadingsNext
<1>2. /\ c \in Conns /\ fd[c] \in Fds /\ LifeInv(c) /\ c \notin freed /\ c \in Made
      /\ c \in Made' \ freed' /\ state \in [Conns -> States \cup {None}]
  BY ConnFacts DEF Made, IInv, TypeOK
<1>3. CASE Served(c) BY <1>3, Unseen DEF Served
<1>4. ASSUME ~Served(c)
      PROVE /\ \A d \in Conns : d # c => state'[d] = state[d]
            /\ \/ Shut(c) /\ state[c] = "CONNECTED" /\ state'[c] = "CLOSING"
               \/ Opened(c) /\ state[c] = "CONNECTING" /\ state'[c] = "CONNECTED"
               \/ Ended(c) /\ state[c] = "CLOSING" /\ state'[c] = "CLOSED"
  BY <1>2, <1>4 DEF Shut, Opened, Ended
<1>5. ASSUME ~Served(c)
      PROVE /\ [d \in Conns |-> Stage(d)]' = [[d \in Conns |-> Stage(d)] EXCEPT ![c] = Stage(c)']
            /\ UNCHANGED [f \in Fds |-> Holder(f)] /\ UNCHANGED connMap
  BY <1>2, <1>4, <1>5, OneMoves
<1>6. CASE Shut(c) /\ ~Served(c) /\ state[c] = "CONNECTED" /\ state'[c] = "CLOSING"
  <2>1. Stage(c) = "open" /\ Stage(c)' = "closing" BY <1>1, <1>2, <1>6 DEF StagesRead
  <2>2. Life!Close(c) BY <1>2, <1>5, <1>6, <2>1 DEF Life!Close
  <2> QED BY <1>2, <2>2 DEF Life!Next
<1>7. CASE Opened(c) /\ ~Served(c) /\ state[c] = "CONNECTING" /\ state'[c] = "CONNECTED"
  <2>1. Stage(c) = "accepted" /\ Stage(c)' = "open" BY <1>1, <1>2, <1>7 DEF StagesRead
  <2>2. connMap[fd[c]] = c BY <1>2, <1>7 DEF LifeInv
  <2>3. Life!Establish(c, fd[c]) BY <1>2, <1>5, <1>7, <2>1, <2>2 DEF Life!Establish
  <2> QED BY <1>2, <2>3 DEF Life!Next
<1>8. CASE Ended(c) /\ ~Served(c) /\ state[c] = "CLOSING" /\ state'[c] = "CLOSED"
  <2>1. Stage(c) = "closing" /\ Stage(c)' = "closed" BY <1>1, <1>2, <1>8 DEF StagesRead
  <2>2. \A f \in Fds : connMap[f] # c
    <3>1. connMap[fd[c]] # c BY <1>8 DEF Ended
    <3> QED BY <1>2, <3>1, NoneIsNone DEF IInv, HolderInv
  <2>3. Life!Destroy(c) BY <1>2, <1>5, <1>8, <2>1, <2>2 DEF Life!Destroy
  <2> QED BY <1>2, <2>3 DEF Life!Next
<1> QED BY <1>3, <1>4, <1>6, <1>7, <1>8

\* An accepted connection takes a descriptor that no other one holds.
LEMMA AcceptSimulates ==
    ASSUME IInv, IInv', NEW c \in Conns, NEW f \in Fds, newConnection(c, f)
    PROVE Life!Next
<1>1. StagesRead /\ StagesRead' /\ HoldersRead /\ HoldersRead' BY Readings, ReadingsNext
<1>2. /\ UNCHANGED <<state, freed, connMap>> /\ fd' = [fd EXCEPT ![c] = f]
      /\ c \notin Made /\ f \notin {fd[d] : d \in Made \ freed}
  BY DEF newConnection
<1>3. /\ fd \in [Conns -> Fds \cup {None}] /\ freed \subseteq Made
      /\ \A d \in Made : d \in Conns
  BY DEF IInv, TypeOK, Made
<1>4. /\ fd'[c] = f /\ \A d \in Conns : d # c => fd'[d] = fd[d]
      /\ c \in Made' \ freed' /\ \A d \in Made \ freed : d \in Made' \ freed' /\ d # c
  <2>1. fd'[c] = f /\ \A d \in Conns : d # c => fd'[d] = fd[d] BY <1>2, <1>3
  <2>2. f # None BY NoneIsNone
  <2> QED BY <1>2, <1>3, <2>1, <2>2 DEF Made
<1>5. \A d \in Made' \ freed' : d = c \/ d \in Made \ freed
  BY <1>2, <1>4 DEF Made
<1>6. Stage(c) = "unborn" /\ Stage(c)' = "accepted"
  <2>1. state[c] = None BY <1>2 DEF IInv, HolderInv
  <2>2. state'[c] = None BY <1>2, <2>1
  <2> QED BY <1>1, <1>2, <1>4, <2>2 DEF StagesRead
<1>7. \A d \in Conns : d # c => Stage(d)' = Stage(d)
  BY <1>2, <1>4 DEF Stage
<1>8. Holder(f) = None /\ Holder(f)' = c BY <1>1, <1>2, <1>4 DEF HoldersRead
<1>9. ASSUME NEW g \in Fds, g # f PROVE Holder(g)' = Holder(g)
  <2>1. CASE \E d \in Made \ freed : fd[d] = g
    <3>1. PICK d \in Made \ freed : fd[d] = g BY <2>1
    <3>2. d \in Made' \ freed' /\ fd'[d] = g BY <1>3, <1>4, <3>1
    <3> QED BY <1>1, <3>1, <3>2 DEF HoldersRead
  <2>2. CASE \A d \in Made \ freed : fd[d] # g
    <3>1. \A d \in Made' \ freed' : fd'[d] # g BY <1>3, <1>4, <1>5, <1>9, <2>2
    <3> QED BY <1>1, <2>2, <3>1 DEF HoldersRead
  <2> QED BY <2>1, <2>2
<1> HIDE DEF Stage, Holder
<1>10. Life!Accept(c, f) BY <1>2, <1>6, <1>7, <1>8, <1>9 DEF Life!Accept
<1> QED BY <1>10 DEF Life!Next

\* The entry of the descriptor of a connection that is being inserted is free.
LEMMA InsertSimulates ==
    ASSUME IInv, IInv', EndInsert
    PROVE Life!Next
<1>1. StagesRead /\ StagesRead' /\ HoldersRead BY Readings, ReadingsNext
<1>2. PICK c : c = writing.conn OBVIOUS
<1>3. /\ writing # None /\ writing.op = "insert"
      /\ UNCHANGED <<fd, freed>> /\ connMap' = [connMap EXCEPT ![fd[c]] = c]
      /\ state' = [state EXCEPT ![c] = "CONNECTING"]
  BY <1>2 DEF EndInsert, SetState, connVars
<1>4. c \in Made /\ state[c] = None BY <1>2, <1>3 DEF IInv, PhaseInv
<1>5. /\ c \in Conns /\ fd[c] \in Fds /\ c \notin freed /\ connMap[fd[c]] # c
  BY <1>4, ConnFacts, NoneIsNone DEF LifeInv
<1>6. /\ state'[c] = "CONNECTING" /\ \A d \in Conns : d # c => state'[d] = state[d]
      /\ connMap \in [Fds -> Conns \cup {None}]
  <2>1. state \in [Conns -> States \cup {None}] /\ connMap \in [Fds -> Conns \cup {None}]
    BY DEF IInv, TypeOK
  <2> QED BY <1>3, <1>5, <2>1
<1>7. Stage(c) = "accepted" /\ Stage(c)' = "accepted"
  <2>1. c \in Made' \ freed' BY <1>3, <1>4, <1>5 DEF Made
  <2> QED BY <1>1, <1>4, <1>5, <1>6, <2>1 DEF StagesRead
<1>8. /\ [d \in Conns |-> Stage(d)]' = [[d \in Conns |-> Stage(d)] EXCEPT ![c] = Stage(c)']
      /\ UNCHANGED [f \in Fds |-> Holder(f)]
  BY <1>3, <1>5, <1>6, OneMoves
<1>9. Holder(fd[c]) = c BY <1>1, <1>4, <1>5 DEF HoldersRead
<1>10. connMap[fd[c]] = None
  <2> DEFINE d == connMap[fd[c]]
  <2>1. ASSUME d # None PROVE FALSE
    <3>1. d \in Conns /\ fd[d] = fd[c] BY <1>5, <1>6, <2>1 DEF IInv, HolderInv
    <3>2. d \in Made /\ connMap[fd[d]] = d BY <1>4, <3>1 DEF Made
    <3> HIDE DEF d
    <3>3. d = c BY <1>4, <1>5, <3>1, <3>2, Apart
    <3> QED BY <1>5, <3>3 DEF d
  <2> QED BY <2>1
<1> HIDE DEF Stage, Holder
<1>11. UNCHANGED [d \in Conns |-> Stage(d)] BY <1>5, <1>7, <1>8
<1>12. Life!Insert(c, fd[c])
  BY <1>3, <1>5, <1>7, <1>8, <1>9, <1>10, <1>11 DEF Life!Insert
<1> QED BY <1>5, <1>12 DEF Life!Next

\* What is erased is closing and was found.
LEMMA EraseSimulates ==
    ASSUME IInv, EndErase
    PROVE Life!Next
<1>1. StagesRead BY Readings
<1>2. PICK c : c = writing.conn OBVIOUS
<1>3. /\ writing # None /\ writing.op = "erase"
      /\ UNCHANGED <<fd, freed, state>> /\ connMap' = [connMap EXCEPT ![fd[c]] = None]
  BY <1>2 DEF EndErase, Erased, connVars
<1>4. c \in Made /\ state[c] = "CLOSING" BY <1>2, <1>3 DEF IInv, PhaseInv
<1>5. writing = [op |-> "erase", conn |-> c]
  <2>1. writing \in Updates BY <1>3 DEF IInv, TypeOK
  <2> QED BY <1>2, <1>3, <2>1 DEF Updates
<1>6. /\ c \in Conns /\ fd[c] \in Fds /\ c \notin freed /\ connMap[fd[c]] = c
  BY <1>4, <1>5, ConnFacts DEF LifeInv
<1>7. Stage(c) = "closing" BY <1>1, <1>4, <1>6 DEF StagesRead
<1>8. Made' = Made BY <1>3 DEF Made
<1>9. (\A d : Stage(d)' = Stage(d)) /\ (\A f : Holder(f)' = Holder(f))
  BY <1>3, <1>8 DEF Stage, Holder
<1> HIDE DEF Stage, Holder
<1>10. Life!Erase(c, fd[c]) BY <1>3, <1>6, <1>7, <1>9 DEF Life!Erase
<1> QED BY <1>6, <1>10 DEF Life!Next

\* The connections destructed at the end of a batch give back what they held.
LEMMA FreeSimulates ==
    ASSUME IInv, IInv', NEW l \in Loops, EndBatch(l)
    PROVE Life!Next
<1> DEFINE gone == (Made \ freed) \ Referenced
<1>1. StagesRead /\ StagesRead' /\ HoldersRead /\ HoldersRead' BY Readings, ReadingsNext
<1>2. /\ UNCHANGED <<fd, state, connMap, batch, queue, writing>>
      /\ freed' = freed \cup gone
  BY DEF EndBatch, Release, connVars, mapVars
<1>3. \A c \in gone : c \in Made \ freed /\ state[c] = "CLOSED" BY <1>2, Referred
<1> HIDE DEF gone
<1>4. Made' = Made /\ \A c \in Made : c \in Conns BY <1>2 DEF Made
<1>5. \A c \in gone : Stage(c) = "closed" /\ Stage(c)' = "gone"
  BY <1>1, <1>2, <1>3, <1>4 DEF StagesRead
<1>6. \A c \in Conns \ gone : Stage(c)' = Stage(c)
  BY <1>2 DEF Stage
<1>7. ASSUME NEW f \in Fds
      PROVE Holder(f)' = IF Holder(f) \in gone THEN None ELSE Holder(f)
  <2>1. CASE \A c \in Made \ freed : fd[c] # f
    <3>1. Holder(f) = None BY <1>1, <2>1 DEF HoldersRead
    <3>2. Holder(f)' = None BY <1>1, <1>2, <1>4, <2>1 DEF HoldersRead
    <3> QED BY <3>1, <3>2
  <2>2. CASE \E c \in Made \ freed : fd[c] = f
    <3>1. PICK c \in Made \ freed : fd[c] = f BY <2>2
    <3>2. Holder(f) = c BY <1>1, <3>1 DEF HoldersRead
    <3>3. \A d \in Made \ freed : fd[d] = f => d = c BY <3>1 DEF IInv, HolderInv
    <3>4. c \in gone => Holder(f)' = None
      BY <1>1, <1>2, <1>4, <3>3 DEF HoldersRead
    <3>5. c \notin gone => Holder(f)' = c
      BY <1>1, <1>2, <1>4, <3>1 DEF HoldersRead
    <3> QED BY <3>2, <3>4, <3>5
  <2> QED BY <2>1, <2>2
<1>8. gone \in SUBSET Conns BY <1>3, <1>4
<1> HIDE DEF Stage, Holder
<1>9. Life!Free(gone)
  BY <1>2, <1>5, <1>6, <1>7, <1>8 DEF Life!Free
<1> QED BY <1>8, <1>9 DEF Life!Next

\* No connection is born and no descriptor held at the start.
LEMMA InitSimulates == Init => Life!Init
<1> SUFFICES ASSUME Init PROVE Life!Init OBVIOUS
<1>1. StagesRead /\ HoldersRead BY InitIInv, Readings
<1>2. Made = {} BY DEF Init, Made
<1>3. connMap = [f \in Fds |-> None] BY DEF Init
<1>4. (\A c \in Conns : Stage(c) = "unborn") /\ (\A f \in Fds : Holder(f) = None)
  BY <1>1, <1>2 DEF StagesRead, HoldersRead
<1> HIDE DEF Stage, Holder
<1> QED BY <1>3, <1>4 DEF Life!Init

\* Every step is one of ConnLife or is not seen.
LEMMA NextSimulates ==
    ASSUME HttpUsage, IInv, IInv', [Next]_vars
    PROVE [Life!Next]_(Life!vars)
<1>1. ASSUME UNCHANGED <<fd, freed, connMap, state>> PROVE [Life!Next]_(Life!vars)
  BY <1>1, Unseen
<1>2. ASSUME NEW l \in Loops, Poll(l) \/ SwapTasks(l) PROVE [Life!Next]_(Life!vars)
  BY <1>1, <1>2 DEF Poll, SwapTasks, connVars, mapVars
<1>3. ASSUME NEW l \in Loops, EndBatch(l) PROVE [Life!Next]_(Life!vars)
  BY <1>3, FreeSimulates
<1>4. ASSUME NEW l \in Io, IoStep(l) PROVE [Life!Next]_(Life!vars)
  <2>1. l \in Loops BY LoopFacts
  <2>2. CASE HandleEvent(l)
    <3>1. PICK e \in active[l] : Served(e.conn) \/ Shut(e.conn) BY <2>2, EventEffect
    <3>2. e.conn \in Made \ freed BY EventFacts
    <3>3. UNCHANGED <<fd, freed, connMap>> BY <2>2 DEF HandleEvent, connVars, mapVars
    <3> QED BY <3>1, <3>2, <3>3, EffectSimulates
  <2>3. CASE RunTask(l)
    <3>1. PICK t \in Task :
            /\ t.conn \in Made \ freed
            /\ Served(t.conn) \/ Shut(t.conn) \/ Opened(t.conn) \/ Ended(t.conn)
      BY <2>3, TaskEffect
    <3>2. UNCHANGED <<fd, freed, connMap>> BY <2>3 DEF RunTask, connVars, mapVars
    <3> QED BY <3>1, <3>2, EffectSimulates
  <2>4. CASE BeginClose(l) \/ EndClose(l)
    BY <1>1, <2>4 DEF BeginClose, EndClose, connVars
  <2> QED BY <1>2, <1>3, <1>4, <2>1, <2>2, <2>3, <2>4 DEF IoStep
<1>5. ASSUME MainStep PROVE [Life!Next]_(Life!vars)
  <2>1. Main \in Loops BY LoopFacts
  <2>2. CASE removeInLoop BY <1>1, <2>2 DEF removeInLoop, connVars
  <2>3. CASE EndInsert BY <2>3, InsertSimulates
  <2>4. CASE EndErase BY <2>4, EraseSimulates
  <2> QED BY <1>2, <1>3, <1>5, <2>1, <2>2, <2>3, <2>4 DEF MainStep
<1>6. ASSUME NEW c \in Conns, NEW f \in Fds, newConnection(c, f)
      PROVE [Life!Next]_(Life!vars)
  BY <1>6, AcceptSimulates
<1>7. ~DestroyServer /\ ~Aborted /\ \A c \in Conns : ~Share(c) /\ ~CallAndDrop(c)
  BY DEF DestroyServer, HttpUsage, Aborted, Running, IInv, NoFailure, Share,
         CallAndDrop, PhaseInv
<1>8. UNCHANGED vars => UNCHANGED <<fd, freed, connMap, state>>
  BY DEF vars, connVars, mapVars
<1> QED BY <1>1, <1>4, <1>5, <1>6, <1>7, <1>8 DEF Next

\* TcpServer implements ConnLife: over io loop, main loop and io loop again each
\* connection passes its stages once and in order, is found while it is open,
\* and keeps its descriptor until it is destructed.
THEOREM Implements ==
    ASSUME HttpUsage
    PROVE Spec => ImplementsConnLife
<1>1. IInv /\ IInv' /\ [Next]_vars => [Life!Next]_(Life!vars) BY NextSimulates
<1> QED BY <1>1, InitSimulates, Inductive, PTL DEF Spec, ImplementsConnLife, Life!Spec
=============================================================================
