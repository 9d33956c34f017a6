------------------------- MODULE SubscriptionProofs -------------------------
(***************************************************************************)
(* Proofs about Subscription for any number of Subscribers, files,         *)
(* Delivery Threads and faults.                                            *)
(***************************************************************************)
EXTENDS Subscription, FiniteSetTheorems, WellFoundedInduction, TLAPS

-----------------------------------------------------------------------------
(* The operators the Subscription Thread is built from.                    *)

\* A set of numbers has a least member.
LEMMA LeastNumber ==
    ASSUME NEW S \in SUBSET Nat, S # {}
    PROVE  \E x \in S : \A y \in S : x <= y
  <1>1. \E x \in S : \A y \in S : ~(<<y, x>> \in OpToRel(<, Nat))
    BY NatLessThanWellFounded, WFMin
  <1>2. PICK x \in S : \A y \in S : ~(<<y, x>> \in OpToRel(<, Nat))
    BY <1>1
  <1>3. \A y \in S : ~(y < x)
    BY <1>2 DEF OpToRel
  <1>4. QED BY <1>3

\* A bounded set of numbers has a greatest member.
LEMMA GreatestNumber ==
    ASSUME NEW S \in SUBSET Nat, S # {}, NEW n \in Nat, \A x \in S : x <= n
    PROVE  \E x \in S : \A y \in S : x >= y
  <1> DEFINE T == {m \in Nat : m <= n /\ n - m \in S}
  <1>1. \A x \in S : n - x \in T
    OBVIOUS
  <1>2. T \in SUBSET Nat /\ T # {}
    BY <1>1
  <1>3. PICK x \in T : \A y \in T : x <= y
    BY <1>2, LeastNumber
  <1>4. n - x \in S /\ x \in Nat
    OBVIOUS
  <1>5. \A y \in S : n - x >= y
    BY <1>1, <1>3
  <1>6. QED BY <1>4, <1>5

Increasing(q, n) == \A i, j \in 1 .. n : i < j => q[i] < q[j]
HasOrder(S) == \E q \in [1 .. Cardinality(S) -> S] : Increasing(q, Cardinality(S))

\* Sets of files are finite.
LEMMA FilesFinite ==
    ASSUME NEW n \in Nat, NEW S \in SUBSET (1 .. n)
    PROVE  IsFiniteSet(S) /\ Cardinality(S) \in Nat
  <1>1. IsFiniteSet(1 .. n)
    BY FS_Interval
  <1>2. IsFiniteSet(S)
    BY <1>1, FS_Subset
  <1>3. QED BY <1>2, FS_CardinalityType

\* The last member is put behind the others.
LEMMA OrderExtends ==
    ASSUME NEW m \in Nat, NEW T \in SUBSET (1 .. m), HasOrder(T)
    PROVE  HasOrder(T \cup {m + 1})
  <1> DEFINE n == Cardinality(T)
             S == T \cup {m + 1}
  <1>1. IsFiniteSet(T) /\ n \in Nat /\ m + 1 \notin T
    BY FilesFinite
  <1>2. Cardinality(S) = n + 1
    BY <1>1, FS_AddElement
  <1>3. PICK q \in [1 .. n -> T] : Increasing(q, n)
    BY DEF HasOrder
  <1> DEFINE p == [i \in 1 .. n + 1 |-> IF i = n + 1 THEN m + 1 ELSE q[i]]
  <1>4. p \in [1 .. n + 1 -> S]
    BY <1>1, <1>3
  <1> HIDE DEF n, S
  <1>5. ASSUME NEW i \in 1 .. n + 1, NEW j \in 1 .. n + 1, i < j
        PROVE  p[i] < p[j]
    <2>0. i \in 1 .. n
      BY <1>1, <1>5
    <2>a. q[i] \in T
      BY <1>3, <2>0
    <2>1. i \in 1 .. n /\ q[i] \in T /\ q[i] <= m /\ q[i] \in Nat
      <3>1. q[i] \in 1 .. m
        BY <2>a
      <3>2. QED BY <2>0, <2>a, <3>1
    <2>2. CASE j = n + 1
      BY <1>1, <2>1, <2>2
    <2>3. CASE j # n + 1
      BY <1>1, <1>3, <1>5, <2>1, <2>3 DEF Increasing
    <2>4. QED BY <2>2, <2>3
  <1>6. QED BY <1>2, <1>4, <1>5 DEF HasOrder, Increasing, S

\* Every finite set of files can be put in order.
LEMMA OrderExists ==
    ASSUME NEW n \in Nat, NEW S \in SUBSET (1 .. n)
    PROVE  HasOrder(S)
  <1> DEFINE Bad == {m \in Nat : \E T \in SUBSET (1 .. m) : ~HasOrder(T)}
  <1>1. SUFFICES ASSUME n \in Bad PROVE FALSE
    OBVIOUS
  <1>2. PICK m \in Bad : \A k \in Bad : m <= k
    BY <1>1, LeastNumber
  <1>3. PICK T \in SUBSET (1 .. m) : ~HasOrder(T)
    OBVIOUS
  <1>4. CASE m = 0
    <2>b. 1 .. m = {}
      BY <1>4
    <2>c. T = {}
      BY <2>b
    <2>1. T = {} /\ Cardinality(T) = 0
      BY <2>c, FS_EmptySet
    <2> DEFINE q == [i \in 1 .. 0 |-> i]
    <2>2. 1 .. 0 = {}
      OBVIOUS
    <2>a. q \in [1 .. 0 -> T] /\ Increasing(q, 0)
      BY <2>2 DEF Increasing
    <2>3. QED BY <1>3, <2>1, <2>a DEF HasOrder
  <1>5. CASE m # 0
    <2>a. PICK k \in Nat : m = k + 1
      <3>1. m \in Nat
        OBVIOUS
      <3>2. m - 1 \in Nat /\ m = (m - 1) + 1
        BY <1>5, <3>1
      <3>3. QED BY <3>2
    <2>1. k \notin Bad
      BY <1>2, <2>a
    <2>2. \A U \in SUBSET (1 .. k) : HasOrder(U)
      BY <2>1
    <2>3. T \ {m} \in SUBSET (1 .. k)
      BY <2>a
    <2>4. CASE m \in T
      <3>1. T = (T \ {m}) \cup {k + 1}
        BY <2>a, <2>4
      <3>2. HasOrder((T \ {m}) \cup {k + 1})
        BY <2>2, <2>3, OrderExtends
      <3>3. QED BY <1>3, <3>1, <3>2
    <2>5. CASE m \notin T
      BY <1>3, <2>2, <2>3, <2>5
    <2>6. QED BY <2>4, <2>5
  <1>6. QED BY <1>4, <1>5

\* InOrder enumerates the files, each once.
LEMMA InOrderEnumerates ==
    ASSUME NEW S \in SUBSET Files
    PROVE  /\ IsFiniteSet(S) /\ Cardinality(S) \in Nat
           /\ InOrder(S) \in [1 .. Cardinality(S) -> S]
           /\ \A f \in S : \E n \in 1 .. Cardinality(S) : InOrder(S)[n] = f
           /\ \A i, j \in 1 .. Cardinality(S) : InOrder(S)[i] = InOrder(S)[j] => i = j
  <1> DEFINE n == Cardinality(S)
             q == InOrder(S)
  <1>1. MaxFiles \in Nat /\ S \in SUBSET (1 .. MaxFiles)
    BY SubscriptionBounds DEF Files
  <1>2. IsFiniteSet(S) /\ n \in Nat
    BY <1>1, FilesFinite
  <1>3. HasOrder(S)
    BY <1>1, OrderExists
  <1>4. q \in [1 .. n -> S] /\ \A i, j \in 1 .. n : i < j => q[i] < q[j]
    BY <1>3 DEF HasOrder, Increasing, InOrder
  <1>5. \A i \in 1 .. n : q[i] \in Nat
    <2>1. \A f \in S : f \in Nat
      BY <1>1
    <2> HIDE DEF q, n
    <2>2. QED BY <1>4, <2>1
  <1> HIDE DEF n, q
  <1>6. ASSUME NEW i \in 1 .. n, NEW j \in 1 .. n, q[i] = q[j]
        PROVE  i = j
    <2>1. ~(i < j) /\ ~(j < i)
      BY <1>4, <1>5, <1>6
    <2>2. QED BY <2>1
  <1>7. q \in Injection(1 .. n, S)
    BY <1>4, <1>6 DEF Injection, IsInjective
  <1>8. IsFiniteSet(1 .. n) /\ Cardinality(1 .. n) = n
    BY <1>2, FS_Interval
  <1>9. q \in Surjection(1 .. n, S)
    BY <1>2, <1>7, <1>8, FS_Injection DEF n
  <1>10. QED BY <1>2, <1>4, <1>6, <1>9 DEF Surjection, n, q

\* The queue of what is given to a Subscriber: these items, one for each file.
LEMMA ItemsInOrderType ==
    ASSUME NEW items \in SUBSET Items
    PROVE  /\ ItemsInOrder(items) \in Seq(Items)
           /\ \A k \in 1 .. Len(ItemsInOrder(items)) : ItemsInOrder(items)[k] \in items
           /\ \A i \in items : \E k \in 1 .. Len(ItemsInOrder(items)) :
                  ItemsInOrder(items)[k].file = i.file
           /\ \A j, k \in 1 .. Len(ItemsInOrder(items)) :
                  j # k => ItemsInOrder(items)[j].file # ItemsInOrder(items)[k].file
  <1> DEFINE files == {i.file : i \in items}
             n == Cardinality(files)
             q == ItemsInOrder(items)
             Pick(k) == CHOOSE i \in items : i.file = InOrder(files)[k]
  <1>1. files \in SUBSET Files
    BY DEF Items
  <1>2. /\ n \in Nat /\ InOrder(files) \in [1 .. n -> files]
        /\ \A f \in files : \E k \in 1 .. n : InOrder(files)[k] = f
        /\ \A j, k \in 1 .. n : InOrder(files)[j] = InOrder(files)[k] => j = k
    BY <1>1, InOrderEnumerates
  <1>3. q = [k \in 1 .. n |-> Pick(k)]
    BY DEF ItemsInOrder
  <1>4. \A k \in 1 .. n : Pick(k) \in items /\ Pick(k).file = InOrder(files)[k]
    <2> TAKE k \in 1 .. n
    <2>1. InOrder(files)[k] \in files
      BY <1>2
    <2>2. PICK i \in items : i.file = InOrder(files)[k]
      BY <2>1
    <2>3. QED BY <2>2
  <1> HIDE DEF n, q, Pick
  <1>5. DOMAIN q = 1 .. n /\ \A k \in 1 .. n : q[k] = Pick(k)
    BY <1>3
  <1>6. q \in Seq(Items) /\ Len(q) = n
    BY <1>2, <1>3, <1>4
  <1>7. \A i \in items : i.file \in files
    OBVIOUS
  <1>8. \A k \in 1 .. Len(q) : q[k] \in items
    BY <1>4, <1>5, <1>6
  <1>9. ASSUME NEW i \in items
        PROVE  \E k \in 1 .. Len(q) : q[k].file = i.file
    <2>1. PICK k \in 1 .. n : InOrder(files)[k] = i.file
      BY <1>2, <1>7
    <2>2. k \in 1 .. Len(q) /\ q[k].file = i.file
      BY <1>4, <1>5, <1>6, <2>1
    <2>3. QED BY <2>2
  <1>10. \A j, k \in 1 .. Len(q) : j # k => q[j].file # q[k].file
    BY <1>2, <1>4, <1>5, <1>6
  <1>11. QED BY <1>6, <1>8, <1>9, <1>10 DEF q

\* The queue that is read back holds the files that are scheduled.
LEMMA LoadedQueueType ==
    ASSUME NEW s \in Subscribers
    PROVE  /\ LoadedQueue(s) \in Seq(Items)
           /\ \A k \in 1 .. Len(LoadedQueue(s)) :
                  /\ LoadedQueue(s)[k].kind = "loaded" /\ LoadedQueue(s)[k].file \in Files
                  /\ Rescheduled(s)[LoadedQueue(s)[k].file] = "scheduled"
           /\ \A f \in Files : Rescheduled(s)[f] = "scheduled" =>
                  \E k \in 1 .. Len(LoadedQueue(s)) : LoadedQueue(s)[k].file = f
  <1> DEFINE files == {f \in Files : Rescheduled(s)[f] = "scheduled"}
             n == Cardinality(files)
             q == LoadedQueue(s)
  <1>1. files \in SUBSET Files
    OBVIOUS
  <1>2. /\ n \in Nat /\ InOrder(files) \in [1 .. n -> files]
        /\ \A f \in files : \E k \in 1 .. n : InOrder(files)[k] = f
    BY <1>1, InOrderEnumerates
  <1>3. q = [k \in 1 .. n |-> [file |-> InOrder(files)[k], kind |-> "loaded"]]
    BY DEF LoadedQueue
  <1>4. \A k \in 1 .. n : InOrder(files)[k] \in files
    BY <1>2
  <1> HIDE DEF n, q
  <1>5. q \in Seq(Items) /\ Len(q) = n
    BY <1>2, <1>3, <1>4 DEF Items
  <1>6. \A k \in 1 .. n : q[k].kind = "loaded" /\ q[k].file = InOrder(files)[k]
    BY <1>3
  <1>7. QED BY <1>2, <1>4, <1>5, <1>6 DEF q

-----------------------------------------------------------------------------
(* What is recorded as delivered was received, and no failure is           *)
(* forgotten: the invariants, for every command and every fault.           *)

MainType == [pc : {"loop", "untimed", "timed", "taken", "dispatch", "off"},
             files : SUBSET Files, objs : SUBSET Subscribers,
             req : [Subscribers -> SUBSET Items], done : SUBSET Subscribers, size : Nat]
Waiting == [Top EXCEPT !.pc = "get"]
Delivering == [pc : {"posting", "sent"}, item : [file : Files, kind : {"new", "backlog"}]]
ThreadType == {Top, Off, Waiting} \cup Delivering

\* Subscribers, and those who may yet become one; a Subscriber ID is not used again.
Member(s) == s \in subs \/ start[s] = 0

\* The file waits in the back-log, has reached the Subscriber, or was removed.
Known(s, f) == <<s, f>> \in backLog \cup received \/ f \in gone

SubsStarted == \A s \in subs : start[s] # 0

\* The reply to a POST comes after its reception.
SentReceived == \A s \in Subscribers, t \in Threads :
                   thr[s][t].pc = "sent" => <<s, thr[s][t].item.file>> \in received

\* A delivery from the back-log, which writes no new entry when it fails, has one as long
\* as it is needed, wherever the item is on its way.
LoggedKnown ==
    \A s \in Subscribers : Member(s) =>
        /\ main.pc = "dispatch" => \A i \in main.req[s] : i.kind = "backlog" => Known(s, i.file)
        /\ \A k \in 1 .. Len(queue[s]) : queue[s][k].kind = "backlog" => Known(s, queue[s][k].file)
        /\ \A t \in Threads : thr[s][t] \in Delivering /\ thr[s][t].item.kind = "backlog"
                                  => Known(s, thr[s][t].item.file)
        /\ \A f \in Files : row[s][f] = "failed" => Known(s, f)

DeliveryInv == TypeOK /\ SubsStarted /\ SentReceived /\ DeliveredRecorded /\ LoggedKnown

\* The Subscription Thread between two rounds.
LEMMA MainLabel ==
    ASSUME NEW label \in {"loop", "untimed", "timed", "off"}, Main(label)
    PROVE  main' \in MainType /\ main'.pc = label
  BY DEF Main, MainType, Asleep

\* The states of a Delivery Thread are told apart by pc.
LEMMA ThreadStates ==
    /\ Top.pc = "top" /\ Off.pc = "off" /\ Waiting.pc = "get"
    /\ \A d \in Delivering : d.pc \in {"posting", "sent"} /\ d.item.file \in Files
                             /\ d.item.kind \in {"new", "backlog"}
    /\ \A d \in ThreadType : d.pc \in {"posting", "sent"} => d \in Delivering
  BY DEF Top, Off, Waiting, Delivering, ThreadType

\* The back-log is finite.
LEMMA BackLogFinite ==
    ASSUME NEW B \in SUBSET Pairs
    PROVE  IsFiniteSet(B) /\ Cardinality(B) \in Nat
  <1>1. IsFiniteSet(Files) /\ IsFiniteSet(Subscribers)
    BY SubscribersAssumption, SubscriptionBounds, FS_Interval DEF Files
  <1>2. IsFiniteSet(Pairs)
    BY <1>1, FS_Product DEF Pairs
  <1>3. IsFiniteSet(B)
    BY <1>2, FS_Subset
  <1>4. QED BY <1>3, FS_CardinalityType

\* So are the Subscribers.
LEMMA SubscribersFinite ==
    ASSUME NEW S \in SUBSET Subscribers
    PROVE  IsFiniteSet(S) /\ Cardinality(S) \in Nat
  <1>1. IsFiniteSet(S)
    BY SubscribersAssumption, FS_Subset
  <1>2. QED BY <1>1, FS_CardinalityType

\* A file is archived.
LEMMA ArchivedDelivery ==
    ASSUME DeliveryInv, FileArchived
    PROVE  DeliveryInv'
  <1> USE DEF DeliveryInv
  <1>1. /\ archived < MaxFiles /\ archived' = archived + 1
        /\ fileList' = fileList \cup {archived + 1} /\ subscrList' = subscrList \cup {} /\ runSync' = TRUE
        /\ UNCHANGED <<received, mounted, gone, online, subs, start, lastDb, lastMem, sched,
                       main, queue, built, row, backLog, blCount, blScheduled, dbLost,
                       keyLeft, miscounts, spawned, stopDelivery, thr, faults>>
    BY Zenon DEF FileArchived, Schedule, worldVars, subVars, listVars, queueVars, blVars, slipVars, thrVars
  <1>2. archived + 1 \in Files
    BY <1>1, SubscriptionBounds DEF TypeOK, Files
  <1>3. TypeOK'
    BY <1>1, <1>2, SubscriptionBounds DEF TypeOK, MainType, ThreadType
  <1>4. SubsStarted' /\ SentReceived' /\ DeliveredRecorded'
    BY <1>1, <1>2, ThreadStates DEF TypeOK, SubsStarted, SentReceived, DeliveredRecorded, ThreadType
  <1>5. LoggedKnown'
    BY <1>1, <1>2, ThreadStates DEF TypeOK, LoggedKnown, Known, Member, ThreadType
  <1>6. QED BY <1>3, <1>4, <1>5

\* A Subscriber comes.
LEMMA SubscribeDelivery ==
    ASSUME DeliveryInv, NEW s \in Subscribers, NEW d \in {1, Now}, Subscribe(s, d)
    PROVE  DeliveryInv'
  <1> USE DEF DeliveryInv
  <1>1. /\ start[s] = 0 /\ subs' = subs \cup {s} /\ start' = [start EXCEPT ![s] = d]
        /\ fileList' = fileList \cup {} /\ subscrList' = subscrList \cup {s} /\ runSync' = TRUE
        /\ UNCHANGED <<archived, received, mounted, gone, online, lastDb, lastMem, sched,
                        main, queue, built, row, backLog, blCount, blScheduled, dbLost, keyLeft,
                        miscounts, spawned, stopDelivery, thr, faults>>
    BY Zenon DEF Subscribe, insertSubscriberEntry, Schedule, worldVars, subVars, listVars,
       queueVars, blVars, slipVars, thrVars
  <1>2. d \in Nat /\ d # 0
    BY DEF TypeOK, Now
  <1>3. TypeOK'
    <2>1. {start', lastDb, lastMem, sched} \subseteq [Subscribers -> Nat]
      BY <1>1, <1>2 DEF TypeOK
    <2>2. subs' \subseteq Subscribers /\ fileList' = fileList /\ subscrList' \subseteq Subscribers
      BY <1>1 DEF TypeOK
    <2>3. QED BY <1>1, <2>1, <2>2 DEF TypeOK
  <1>4. SubsStarted' /\ SentReceived' /\ DeliveredRecorded'
    BY <1>1, <1>2, ThreadStates DEF TypeOK, SubsStarted, SentReceived, DeliveredRecorded, ThreadType
  <1>5. LoggedKnown'
    BY <1>1, <1>2, ThreadStates DEF TypeOK, LoggedKnown, Known, Member, ThreadType
  <1>6. QED BY <1>3, <1>4, <1>5

\* A Subscriber goes.
LEMMA UnsubscribeDelivery ==
    ASSUME DeliveryInv, NEW s \in Subscribers, Unsubscribe(s)
    PROVE  DeliveryInv'
  <1> USE DEF DeliveryInv
  <1>1. /\ s \in subs /\ subs' = subs \ {s} /\ sched' = [sched EXCEPT ![s] = 0]
        /\ spawned' = spawned \ {s} /\ built' \in SUBSET built
        /\ blScheduled' \in SUBSET blScheduled /\ backLog' \in SUBSET backLog
        /\ \A p \in backLog : p \notin {s} \X Files => p \in backLog'
        /\ UNCHANGED <<archived, received, mounted, gone, online, start, lastDb, lastMem,
                        fileList, subscrList, runSync, main, queue, row, blCount,
                        dbLost, keyLeft, miscounts, stopDelivery, thr, faults>>
    BY DEF Unsubscribe, deleteSubscriber, worldVars, subVars, listVars, queueVars, blVars, slipVars, thrVars
  <1>2. /\ \A r \in Subscribers : r # s => \A f \in Files : <<r, f>> \in backLog => <<r, f>> \in backLog'
        /\ start[s] # 0 /\ s \notin subs'
    BY <1>1 DEF SubsStarted
  <1>3. TypeOK'
    <2>1. {start, lastDb, lastMem, sched'} \subseteq [Subscribers -> Nat]
      BY <1>1 DEF TypeOK
    <2>2. /\ subs' \subseteq Subscribers /\ built' \subseteq Subscribers
          /\ spawned' \subseteq Subscribers
      BY <1>1 DEF TypeOK
    <2>3. backLog' \subseteq Pairs /\ blScheduled' \subseteq Pairs
      BY <1>1 DEF TypeOK
    <2>4. QED BY <1>1, <2>1, <2>2, <2>3, Zenon DEF TypeOK
  <1>4. SubsStarted' /\ SentReceived' /\ DeliveredRecorded'
    BY <1>1, <1>2, ThreadStates DEF TypeOK, SubsStarted, SentReceived, DeliveredRecorded, ThreadType
  <1>5. LoggedKnown'
    BY <1>1, <1>2, ThreadStates DEF TypeOK, LoggedKnown, Known, Member, ThreadType
  <1>6. QED BY <1>3, <1>4, <1>5

\* A Subscriber is updated.
LEMMA UsubscribeDelivery ==
    ASSUME DeliveryInv, NEW s \in Subscribers, Usubscribe(s)
    PROVE  DeliveryInv'
  <1> USE DEF DeliveryInv
  <1>1. /\ faults' = faults + 1 /\ faults < MaxFaults
        /\ fileList' = fileList \cup {} /\ subscrList' = subscrList \cup {s} /\ runSync' = TRUE
        /\ UNCHANGED <<archived, received, mounted, gone, online, subs, start, lastDb,
                       lastMem, sched, main, queue, built, row, backLog, blCount, blScheduled,
                       dbLost, keyLeft, miscounts, spawned, stopDelivery, thr>>
    BY Zenon DEF Usubscribe, Schedule, Fault, worldVars, subVars, listVars, queueVars, blVars, slipVars,
       thrVars
  <1>2. TypeOK'
    BY <1>1, SubscriptionBounds DEF TypeOK, MainType, ThreadType
  <1>3. SubsStarted' /\ SentReceived' /\ DeliveredRecorded'
    BY <1>1, ThreadStates DEF TypeOK, SubsStarted, SentReceived, DeliveredRecorded, ThreadType
  <1>4. LoggedKnown'
    BY <1>1, ThreadStates DEF TypeOK, LoggedKnown, Known, Member, ThreadType
  <1>5. QED BY <1>2, <1>3, <1>4

\* The thread is triggered.
LEMMA TriggerDelivery ==
    ASSUME DeliveryInv, Trigger
    PROVE  DeliveryInv'
  <1> USE DEF DeliveryInv
  <1>1. /\ fileList' = fileList \cup {} /\ subscrList' = subscrList \cup {} /\ runSync' = TRUE
        /\ UNCHANGED <<archived, received, mounted, gone, online, subs, start, lastDb,
                       lastMem, sched, main, queue, built, row, backLog, blCount, blScheduled,
                       dbLost, keyLeft, miscounts, spawned, stopDelivery, thr, faults>>
    BY Zenon DEF Trigger, Schedule, worldVars, subVars, listVars, queueVars, blVars, slipVars, thrVars
  <1>2. TypeOK'
    BY <1>1, SubscriptionBounds DEF TypeOK, MainType, ThreadType
  <1>3. SubsStarted' /\ SentReceived' /\ DeliveredRecorded'
    BY <1>1, ThreadStates DEF TypeOK, SubsStarted, SentReceived, DeliveredRecorded, ThreadType
  <1>4. LoggedKnown'
    BY <1>1, ThreadStates DEF TypeOK, LoggedKnown, Known, Member, ThreadType
  <1>5. QED BY <1>2, <1>3, <1>4

\* The thread goes to sleep.
LEMMA SuspendDelivery ==
    ASSUME DeliveryInv, Suspend
    PROVE  DeliveryInv'
  <1> USE DEF DeliveryInv
  <1>1. PICK label \in {"timed", "untimed"} : Main(label)
    BY DEF Suspend
  <1>2. main' \in MainType /\ main'.pc # "dispatch"
    BY <1>1, MainLabel
  <1>3. /\ UNCHANGED <<archived, received, mounted, gone, online, subs, start, lastDb,
                       lastMem, sched, fileList, subscrList, runSync, queue, built, row,
                       backLog, blCount, blScheduled, dbLost, keyLeft, miscounts, spawned,
                       stopDelivery, thr, faults>>
    BY Zenon DEF Suspend, worldVars, subVars, listVars, queueVars, blVars, slipVars, thrVars
  <1>4. TypeOK'
    BY <1>1, <1>2, <1>3, SubscriptionBounds DEF TypeOK, MainType, ThreadType
  <1>5. SubsStarted' /\ SentReceived' /\ DeliveredRecorded'
    BY <1>1, <1>2, <1>3, ThreadStates DEF TypeOK, SubsStarted, SentReceived, DeliveredRecorded,
       ThreadType
  <1>6. LoggedKnown'
    BY <1>1, <1>2, <1>3, ThreadStates DEF TypeOK, LoggedKnown, Known, Member, ThreadType
  <1>7. QED BY <1>4, <1>5, <1>6

\* The thread takes the lists.
LEMMA WakeUpDelivery ==
    ASSUME DeliveryInv, WakeUp
    PROVE  DeliveryInv'
  <1> USE DEF DeliveryInv
  <1>1. /\ fileList' = {} /\ subscrList' = {} /\ runSync' = FALSE
        /\ UNCHANGED <<archived, received, mounted, gone, online, subs, start, lastDb,
                       lastMem, sched, queue, built, row, backLog, blCount, blScheduled,
                       dbLost, keyLeft, miscounts, spawned, stopDelivery, thr, faults>>
    BY Zenon DEF WakeUp, worldVars, subVars, listVars, queueVars, blVars, slipVars, thrVars
  <1>2. main' \in MainType /\ main'.pc # "dispatch"
    <2>1. CASE subs = {} /\ subscrList = {}
      BY <2>1, MainLabel DEF WakeUp
    <2>2. CASE ~(subs = {} /\ subscrList = {})
      <3>1. Asleep \in MainType
        BY DEF Asleep, MainType
      <3>2. main' = [Asleep EXCEPT !.pc = "taken", !.files = fileList, !.objs = subscrList]
        BY <2>2 DEF WakeUp
      <3>3. QED BY <3>1, <3>2 DEF TypeOK, MainType
    <2>3. QED BY <2>1, <2>2
  <1>3. TypeOK'
    BY <1>1, <1>2, SubscriptionBounds DEF TypeOK, MainType, ThreadType
  <1>4. SubsStarted' /\ SentReceived' /\ DeliveredRecorded'
    BY <1>1, <1>2, ThreadStates DEF TypeOK, SubsStarted, SentReceived, DeliveredRecorded, ThreadType
  <1>5. LoggedKnown'
    BY <1>1, <1>2, ThreadStates DEF TypeOK, LoggedKnown, Known, Member, ThreadType
  <1>6. QED BY <1>3, <1>4, <1>5

\* The thread selects the files.
LEMMA SelectDelivery ==
    ASSUME DeliveryInv, Select
    PROVE  DeliveryInv'
  <1> USE DEF DeliveryInv
  <1>1. /\ blScheduled' = blScheduled \cup backLog
        /\ UNCHANGED <<archived, received, mounted, gone, online, subs, start, lastDb,
                        lastMem, sched, fileList, subscrList, runSync, queue, built, row,
                        backLog, blCount, dbLost, keyLeft, miscounts, spawned, stopDelivery, thr, faults>>
    BY Zenon DEF Select, worldVars, subVars, listVars, queueVars, blVars, slipVars, thrVars
  <1>2. \A s \in Subscribers :
            /\ DeliverReq(s) \in SUBSET Items
            /\ \A i \in DeliverReq(s) : i.kind = "backlog" => <<s, i.file>> \in backLog
    <2> TAKE s \in Subscribers
    <2>1. NewFiles(s) \subseteq Files
      <3>1. Candidates \subseteq Files
        BY SubscriptionBounds DEF TypeOK, MainType, Candidates, Files
      <3>2. QED BY <3>1 DEF NewFiles
    <2>2. QED BY <2>1 DEF DeliverReq, Items
  <1>3. PICK req \in [Subscribers -> SUBSET Items] : req = [s \in Subscribers |-> DeliverReq(s)]
    BY <1>2
  <1>4. main' = [main EXCEPT !.pc = "dispatch", !.req = req]
    BY <1>3 DEF Select
  <1>5. main' \in MainType /\ main'.req = req
    BY <1>4 DEF TypeOK, MainType
  <1>6. \A s \in Subscribers : \A i \in main'.req[s] : i.kind = "backlog" => Known(s, i.file)
    BY <1>2, <1>3, <1>5 DEF Known
  <1>7. TypeOK'
    BY <1>1, <1>2, <1>3, <1>4, <1>5, <1>6, SubscriptionBounds DEF TypeOK, MainType, ThreadType
  <1>8. SubsStarted' /\ SentReceived' /\ DeliveredRecorded'
    BY <1>1, <1>2, <1>3, <1>4, <1>5, <1>6, ThreadStates DEF TypeOK, SubsStarted, SentReceived,
       DeliveredRecorded, ThreadType
  <1>9. LoggedKnown'
    BY <1>1, <1>2, <1>3, <1>4, <1>5, <1>6, ThreadStates DEF TypeOK, LoggedKnown, Known, Member,
       ThreadType
  <1>10. QED BY <1>7, <1>8, <1>9

\* The selection fails.
LEMMA SelectFailsDelivery ==
    ASSUME DeliveryInv, SelectFails
    PROVE  DeliveryInv'
  <1> USE DEF DeliveryInv
  <1>1. /\ faults' \in {faults, faults + 1} /\ (faults' = faults \/ faults < MaxFaults)
        /\ UNCHANGED <<archived, received, mounted, gone, online, subs, start, lastDb,
                       lastMem, sched, fileList, subscrList, runSync, queue, built, row,
                       backLog, blCount, blScheduled, dbLost, keyLeft, miscounts, spawned,
                       stopDelivery, thr>>
    BY DEF SelectFails, Fault, worldVars, subVars, listVars, queueVars, blVars, slipVars, thrVars
  <1>2. main' \in MainType /\ main'.pc # "dispatch"
    BY MainLabel DEF SelectFails
  <1>3. TypeOK'
    BY <1>1, <1>2, SubscriptionBounds DEF TypeOK, MainType, ThreadType
  <1>4. SubsStarted' /\ SentReceived' /\ DeliveredRecorded'
    BY <1>1, <1>2, ThreadStates DEF TypeOK, SubsStarted, SentReceived, DeliveredRecorded, ThreadType
  <1>5. LoggedKnown'
    BY <1>1, <1>2, ThreadStates DEF TypeOK, LoggedKnown, Known, Member, ThreadType
  <1>6. QED BY <1>3, <1>4, <1>5

\* The round ends.
LEMMA DispatchEndsDelivery ==
    ASSUME DeliveryInv, DispatchEnds
    PROVE  DeliveryInv'
  <1> USE DEF DeliveryInv
  <1>1. /\ UNCHANGED <<archived, received, mounted, gone, online, subs, start, lastDb,
                       lastMem, sched, fileList, subscrList, runSync, queue, built, row,
                       backLog, blCount, blScheduled, dbLost, miscounts, spawned,
                       stopDelivery, thr, faults>>
    BY Zenon DEF DispatchEnds, worldVars, subVars, listVars, queueVars, blVars, slipVars, thrVars
  <1>2. main' \in MainType /\ main'.pc # "dispatch"
    BY MainLabel DEF DispatchEnds
  <1>3. TypeOK'
    <2>1. keyLeft' \subseteq Pairs
      BY DEF DispatchEnds, TypeOK
    <2>2. QED BY <1>1, <1>2, <2>1, SubscriptionBounds DEF TypeOK, MainType, ThreadType
  <1>4. SubsStarted' /\ SentReceived' /\ DeliveredRecorded'
    BY <1>1, <1>2, ThreadStates DEF TypeOK, SubsStarted, SentReceived, DeliveredRecorded, ThreadType
  <1>5. LoggedKnown'
    BY <1>1, <1>2, ThreadStates DEF TypeOK, LoggedKnown, Known, Member, ThreadType
  <1>6. QED BY <1>3, <1>4, <1>5

\* The threads are told to stop.
LEMMA OfflineDelivery ==
    ASSUME DeliveryInv, Offline
    PROVE  DeliveryInv'
  <1> USE DEF DeliveryInv
  <1>1. /\ faults' = faults + 1 /\ faults < MaxFaults /\ online' \in BOOLEAN /\ stopDelivery' \in BOOLEAN
        /\ UNCHANGED <<archived, received, mounted, gone, subs, start, lastDb, lastMem, sched,
                       fileList, subscrList, runSync, queue, built, row, backLog, blCount,
                       blScheduled, dbLost, keyLeft, miscounts, spawned, thr>>
    BY Zenon DEF Offline, Fault, worldVars, subVars, listVars, queueVars, blVars, slipVars, thrVars
  <1>2. main' \in MainType /\ main'.pc # "dispatch"
    BY MainLabel DEF Offline
  <1>3. TypeOK'
    BY <1>1, <1>2, SubscriptionBounds DEF TypeOK, MainType, ThreadType
  <1>4. SubsStarted' /\ SentReceived' /\ DeliveredRecorded'
    BY <1>1, <1>2, ThreadStates DEF TypeOK, SubsStarted, SentReceived, DeliveredRecorded, ThreadType
  <1>5. LoggedKnown'
    BY <1>1, <1>2, ThreadStates DEF TypeOK, LoggedKnown, Known, Member, ThreadType
  <1>6. QED BY <1>3, <1>4, <1>5

\* The Subscription Thread is started.
LEMMA OnlineDelivery ==
    ASSUME DeliveryInv, Online
    PROVE  DeliveryInv'
  <1> USE DEF DeliveryInv
  <1>1. /\ online' = TRUE /\ stopDelivery' = FALSE
        /\ fileList' = fileList \cup {} /\ subscrList' = subscrList \cup subs /\ runSync' = TRUE
        /\ UNCHANGED <<archived, received, mounted, gone, subs, start, lastDb, sched,
                        queue, built, row, backLog, blScheduled, dbLost, keyLeft, spawned, thr, faults>>
    BY Zenon DEF Online, Schedule, ReadSubscribers, worldVars, subVars, listVars, queueVars,
       blVars, slipVars, thrVars
  <1>2. main' \in MainType /\ main'.pc # "dispatch"
    BY MainLabel DEF Online
  <1>3. lastMem' \in [Subscribers -> Nat]
    BY DEF Online, ReadSubscribers, TypeOK
  <1>4. blCount' \in Int /\ miscounts' \in Nat
    BY BackLogFinite DEF Online, ReadSubscribers, TypeOK
  <1>5. TypeOK'
    BY <1>1, <1>2, <1>3, <1>4, SubscriptionBounds DEF TypeOK, MainType, ThreadType
  <1>6. SubsStarted' /\ SentReceived' /\ DeliveredRecorded'
    BY <1>1, <1>2, <1>3, <1>4, ThreadStates DEF TypeOK, SubsStarted, SentReceived,
       DeliveredRecorded, ThreadType
  <1>7. LoggedKnown'
    BY <1>1, <1>2, <1>3, <1>4, ThreadStates DEF TypeOK, LoggedKnown, Known, Member, ThreadType
  <1>8. QED BY <1>5, <1>6, <1>7

\* The server is killed and started again.
LEMMA CrashDelivery ==
    ASSUME DeliveryInv, Crash
    PROVE  DeliveryInv'
  <1> USE DEF DeliveryInv
  <1>1. /\ faults' = faults + 1 /\ faults < MaxFaults /\ online' \in BOOLEAN /\ stopDelivery' \in BOOLEAN
        /\ fileList' = {} /\ subscrList' = subs /\ runSync' = TRUE /\ built' = {} /\ blScheduled' = {}
        /\ spawned' = {} /\ lastMem' = lastDb /\ dbLost' = {} /\ keyLeft' = {} /\ miscounts' = 0
        /\ UNCHANGED <<archived, received, mounted, gone, subs, start, lastDb, row, backLog>>
    BY Zenon DEF Crash, Fault, worldVars, subVars, listVars, queueVars, blVars, slipVars, thrVars
  <1>2. main' \in MainType /\ main'.pc # "dispatch"
    BY MainLabel DEF Crash
  <1>3. blCount' \in Int /\ sched' \in [Subscribers -> Nat]
    BY BackLogFinite DEF Crash, TypeOK
  <1>4. queue' \in [Subscribers -> Seq(Items)] /\ \A s \in Subscribers : Len(queue'[s]) = 0
    <2>1. <<>> \in Seq(Items) /\ Len(<<>>) = 0
      OBVIOUS
    <2>2. QED BY <2>1 DEF Crash
  <1>5. /\ thr' \in [Subscribers -> [Threads -> ThreadType]]
        /\ \A s \in Subscribers, t \in Threads : thr'[s][t] = Off
    BY DEF Crash, ThreadType
  <1>6. /\ \A s \in Subscribers, t \in Threads : thr'[s][t] \notin Delivering
        /\ \A s \in Subscribers : \A k \in 1 .. Len(queue'[s]) : FALSE
    BY <1>4, <1>5, ThreadStates
  <1>7. TypeOK'
    BY <1>1, <1>2, <1>3, <1>4, <1>5, <1>6, SubscriptionBounds DEF TypeOK, MainType, ThreadType
  <1>8. SubsStarted' /\ SentReceived' /\ DeliveredRecorded'
    BY <1>1, <1>2, <1>3, <1>4, <1>5, <1>6, ThreadStates DEF TypeOK, SubsStarted, SentReceived,
       DeliveredRecorded, ThreadType
  <1>9. LoggedKnown'
    BY <1>1, <1>2, <1>3, <1>4, <1>5, <1>6, ThreadStates DEF TypeOK, LoggedKnown, Known, Member,
       ThreadType
  <1>10. QED BY <1>7, <1>8, <1>9

\* The disk is unmounted,
LEMMA UnmountDelivery ==
    ASSUME DeliveryInv, Unmount
    PROVE  DeliveryInv'
  <1> USE DEF DeliveryInv
  <1>1. /\ faults' = faults + 1 /\ faults < MaxFaults /\ mounted' \in BOOLEAN
        /\ UNCHANGED <<archived, received, gone, online, subs, start, lastDb, lastMem, sched,
                       fileList, subscrList, runSync, main, queue, built, row, backLog,
                       blCount, blScheduled, dbLost, keyLeft, miscounts, spawned,
                       stopDelivery, thr>>
    BY Zenon DEF Unmount, Fault, worldVars, subVars, listVars, queueVars, blVars, slipVars, thrVars
  <1>2. TypeOK'
    BY <1>1, SubscriptionBounds DEF TypeOK, MainType, ThreadType
  <1>3. SubsStarted' /\ SentReceived' /\ DeliveredRecorded'
    BY <1>1, ThreadStates DEF TypeOK, SubsStarted, SentReceived, DeliveredRecorded, ThreadType
  <1>4. LoggedKnown'
    BY <1>1, ThreadStates DEF TypeOK, LoggedKnown, Known, Member, ThreadType
  <1>5. QED BY <1>2, <1>3, <1>4

\* mounted again,
LEMMA MountDelivery ==
    ASSUME DeliveryInv, Mount
    PROVE  DeliveryInv'
  <1> USE DEF DeliveryInv
  <1>1. /\ mounted' = TRUE
        /\ UNCHANGED <<archived, received, gone, online, subs, start, lastDb, lastMem, sched,
                       fileList, subscrList, runSync, main, queue, built, row, backLog,
                       blCount, blScheduled, dbLost, keyLeft, miscounts, spawned,
                       stopDelivery, thr, faults>>
    BY Zenon DEF Mount, worldVars, subVars, listVars, queueVars, blVars, slipVars, thrVars
  <1>2. TypeOK'
    BY <1>1, SubscriptionBounds DEF TypeOK, MainType, ThreadType
  <1>3. SubsStarted' /\ SentReceived' /\ DeliveredRecorded'
    BY <1>1, ThreadStates DEF TypeOK, SubsStarted, SentReceived, DeliveredRecorded, ThreadType
  <1>4. LoggedKnown'
    BY <1>1, ThreadStates DEF TypeOK, LoggedKnown, Known, Member, ThreadType
  <1>5. QED BY <1>2, <1>3, <1>4

\* and a file removed.
LEMMA RemoveDelivery ==
    ASSUME DeliveryInv, NEW f \in Files, Remove(f)
    PROVE  DeliveryInv'
  <1> USE DEF DeliveryInv
  <1>1. /\ faults' = faults + 1 /\ faults < MaxFaults /\ gone' = gone \cup {f}
        /\ UNCHANGED <<archived, received, mounted, online, subs, start, lastDb, lastMem,
                       sched, fileList, subscrList, runSync, main, queue, built, row, backLog,
                       blCount, blScheduled, dbLost, keyLeft, miscounts, spawned,
                       stopDelivery, thr>>
    BY Zenon DEF Remove, Fault, worldVars, subVars, listVars, queueVars, blVars, slipVars, thrVars
  <1>2. TypeOK'
    BY <1>1, SubscriptionBounds DEF TypeOK, MainType, ThreadType
  <1>3. SubsStarted' /\ SentReceived' /\ DeliveredRecorded'
    BY <1>1, ThreadStates DEF TypeOK, SubsStarted, SentReceived, DeliveredRecorded, ThreadType
  <1>4. LoggedKnown'
    BY <1>1, ThreadStates DEF TypeOK, LoggedKnown, Known, Member, ThreadType
  <1>5. QED BY <1>2, <1>3, <1>4

-----------------------------------------------------------------------------
(* A round of the loop over the Subscribers.                               *)

\* What addToSubscrQueue puts into the queue of s.
Accepted(s) == {i \in main.req[s] : row[s][i.file] = "none" \/ i.kind = "backlog"}

\* The rows of s after the round.  Only when the DB fails is an item left out, or an
\* interrupted delivery not scheduled again.
RowsDispatched(s) ==
    /\ row' \in [Subscribers -> [Files -> Statuses]]
    /\ \A r \in Subscribers : r # s => row'[r] = row[r]
    /\ \A f \in Files :
          \/ /\ row[s][f] = "none" /\ row'[s][f] = "none"
             /\ "db" \notin Events => \A i \in main.req[s] : i.file # f
          \/ /\ row[s][f] = "none" /\ row'[s][f] = "scheduled"
             /\ \E i \in main.req[s] : i.file = f
          \/ row[s][f] = "delivering" /\ row'[s][f] = "scheduled" /\ s \notin built
          \/ row[s][f] # "none" /\ row'[s][f] = row[s][f]

\* The queue of s after the round: what there was, or was read back, and what is new.
QueueDispatched(s) ==
    /\ queue' \in [Subscribers -> Seq(Items)]
    /\ \A r \in Subscribers : r # s => queue'[r] = queue[r]
    /\ \A k \in 1 .. Len(queue'[s]) :
          \/ s \in built /\ \E j \in 1 .. Len(queue[s]) : queue'[s][k] = queue[s][j]
          \/ s \notin built /\ queue'[s][k].kind = "loaded" /\ row[s][queue'[s][k].file] \in {"scheduled", "delivering"}
          \/ queue'[s][k] \in Accepted(s)

\* A failing statement is an event, and is counted.
LEMMA DbFails ==
    ASSUME TypeOK, NEW ok \in BOOLEAN, Db(ok)
    PROVE  /\ faults' \in 0 .. MaxFaults /\ (ok = TRUE \/ "db" \in Events)
           /\ ok = TRUE => faults' = faults
  BY SubscriptionBounds DEF Db, Fault, TypeOK

\* What the round reads and what it accepts: rows, queue and items.
OldRows(s) == IF s \in built THEN row[s] ELSE Rescheduled(s)
OldQueue(s) == IF s \in built THEN queue[s] ELSE LoadedQueue(s)
LEMMA DispatchReads ==
    ASSUME TypeOK, NEW s \in Subscribers, Dispatch(s)
    PROVE  \E rows \in {OldRows(s), row[s]}, old \in {OldQueue(s), <<>>}, req \in SUBSET main.req[s] :
             /\ queue' = [queue EXCEPT ![s] = old \o Queued(rows, req)]
             /\ row' = [row EXCEPT ![s] = addSubscrQueueEntries(rows, req)]
             /\ "db" \notin Events => rows = OldRows(s) /\ old = OldQueue(s) /\ req = main.req[s]
             /\ dbLost' \subseteq Pairs /\ faults' \in 0 .. MaxFaults
  <1>1. PICK load \in Loads(s), req \in SUBSET main.req[s] :
           /\ Db(load = Loaded(s) /\ req = main.req[s])
           /\ queue' = [queue EXCEPT ![s] = load[2] \o Queued(load[1], req)]
           /\ row' = [row EXCEPT ![s] = addSubscrQueueEntries(load[1], req)]
           /\ dbLost' = IF load = Loaded(s) THEN dbLost ELSE dbLost \cup ({s} \X Files)
    BY DEF Dispatch
  <1>2. Loaded(s) = <<OldRows(s), OldQueue(s)>>
    BY DEF Loaded, OldRows, OldQueue
  <1>3. load = Loaded(s) \/ \E x \in {OldRows(s), row[s]} : load = <<x, <<>> >>
    BY DEF Loads, OldRows
  <1>4. PICK rows \in {OldRows(s), row[s]}, old \in {OldQueue(s), <<>>} : load = <<rows, old>>
    BY <1>2, <1>3
  <1>5. load[1] = rows /\ load[2] = old
    BY <1>4
  <1>6. PICK ok \in BOOLEAN : ok = (load = Loaded(s) /\ req = main.req[s])
    OBVIOUS
  <1>7. Db(ok)
    BY <1>1, <1>6
  <1>8. faults' \in 0 .. MaxFaults /\ (ok = TRUE \/ "db" \in Events)
    BY <1>7, DbFails
  <1>9. "db" \notin Events => load = Loaded(s) /\ req = main.req[s]
    BY <1>6, <1>8
  <1>10. "db" \notin Events => rows = OldRows(s) /\ old = OldQueue(s) /\ req = main.req[s]
    BY <1>2, <1>4, <1>9
  <1>11. dbLost' \subseteq Pairs
    BY <1>1 DEF TypeOK, Pairs
  <1>12. QED BY <1>1, <1>5, <1>8, <1>10, <1>11

\* The rows.
LEMMA DispatchRows ==
    ASSUME TypeOK, NEW s \in Subscribers, Dispatch(s)
    PROVE  RowsDispatched(s)
  <1>1. PICK rows \in {OldRows(s), row[s]}, req \in SUBSET main.req[s] :
           /\ row' = [row EXCEPT ![s] = addSubscrQueueEntries(rows, req)]
           /\ "db" \notin Events => req = main.req[s]
    BY DispatchReads
  <1>2. rows \in [Files -> Statuses]
    BY <1>1 DEF TypeOK, OldRows, Rescheduled, Statuses
  <1>3. \A f \in Files :
           \/ rows[f] = row[s][f]
           \/ row[s][f] = "delivering" /\ rows[f] = "scheduled" /\ s \notin built
    BY <1>1 DEF TypeOK, OldRows, Rescheduled
  <1>4. PICK new \in [Files -> Statuses] : new = addSubscrQueueEntries(rows, req)
    BY <1>2 DEF addSubscrQueueEntries, Statuses
  <1>5. \A f \in Files : new[f] = IF rows[f] = "none" /\ \E i \in req : i.file = f
                                     THEN "scheduled" ELSE rows[f]
    BY <1>4 DEF addSubscrQueueEntries
  <1>6. /\ row' \in [Subscribers -> [Files -> Statuses]] /\ row'[s] = new
        /\ \A r \in Subscribers : r # s => row'[r] = row[r]
    BY <1>1, <1>4 DEF TypeOK
  <1>7. \A f \in Files :
           \/ /\ row[s][f] = "none" /\ new[f] = "none"
              /\ "db" \notin Events => \A i \in main.req[s] : i.file # f
           \/ row[s][f] = "none" /\ new[f] = "scheduled" /\ \E i \in main.req[s] : i.file = f
           \/ row[s][f] = "delivering" /\ new[f] = "scheduled" /\ s \notin built
           \/ row[s][f] # "none" /\ new[f] = row[s][f]
    BY <1>1, <1>3, <1>5
  <1>8. QED BY <1>6, <1>7 DEF RowsDispatched

\* The queue.
LEMMA DispatchQueue ==
    ASSUME TypeOK, NEW s \in Subscribers, Dispatch(s)
    PROVE  QueueDispatched(s)
  <1>0. PICK rows \in {OldRows(s), row[s]}, old \in {OldQueue(s), <<>>}, req \in SUBSET main.req[s] :
           queue' = [queue EXCEPT ![s] = old \o Queued(rows, req)]
    BY DispatchReads
  <1> DEFINE taken == {i \in req : rows[i.file] = "none" \/ i.kind = "backlog"}
  <1>1. main.req[s] \in SUBSET Items /\ queue[s] \in Seq(Items)
    BY DEF TypeOK
  <1>2. taken \subseteq Accepted(s)
    <2>1. \A f \in Files : rows[f] = "none" => row[s][f] = "none"
      BY <1>0 DEF OldRows, Rescheduled
    <2>2. \A i \in main.req[s] : i.file \in Files
      BY <1>1 DEF Items
    <2>3. QED BY <2>1, <2>2 DEF Accepted
  <1>3. old \in Seq(Items)
    <2>1. <<>> \in Seq(Items)
      OBVIOUS
    <2>2. QED BY <1>0, <1>1, <2>1, LoadedQueueType DEF OldQueue
  <1>4. \A k \in 1 .. Len(old) :
           \/ s \in built /\ \E j \in 1 .. Len(queue[s]) : old[k] = queue[s][j]
           \/ s \notin built /\ old[k].kind = "loaded" /\ row[s][old[k].file] \in {"scheduled", "delivering"}
    <2>1. CASE old = <<>>
      <3>1. Len(old) = 0
        BY <2>1
      <3>2. QED BY <3>1
    <2>2. CASE s \in built /\ old = OldQueue(s)
      BY <2>2 DEF OldQueue
    <2>3. CASE s \notin built /\ old = OldQueue(s)
      <3>1. \A f \in Files : Rescheduled(s)[f] = "scheduled" => row[s][f] \in {"scheduled", "delivering"}
        BY DEF Rescheduled
      <3>2. old = LoadedQueue(s)
        BY <2>3 DEF OldQueue
      <3>3. QED BY <2>3, <3>1, <3>2, LoadedQueueType
    <2>4. QED BY <1>0, <2>1, <2>2, <2>3
  <1>5. taken \in SUBSET Items
    BY <1>0, <1>1
  <1>6. PICK add \in Seq(Items) : add = ItemsInOrder(taken) /\ \A k \in 1 .. Len(add) : add[k] \in taken
    BY <1>5, ItemsInOrderType
  <1>7. queue' = [queue EXCEPT ![s] = old \o add]
    BY <1>0, <1>6 DEF Queued
  <1> HIDE DEF taken
  <1>a. old \o add \in Seq(Items)
    BY <1>3
  <1>8. PICK q \in Seq(Items) : q = old \o add
    BY <1>a
  <1>9. \A k \in 1 .. Len(q) : \/ \E j \in 1 .. Len(old) : q[k] = old[j]
                               \/ \E j \in 1 .. Len(add) : q[k] = add[j]
    <2> TAKE k \in 1 .. Len(q)
    <2>1. Len(q) = Len(old) + Len(add) /\ Len(old) \in Nat /\ Len(add) \in Nat
      BY <1>3, <1>6, <1>8
    <2>2. CASE k <= Len(old)
      BY <1>3, <1>6, <1>8, <2>1, <2>2
    <2>3. CASE ~(k <= Len(old))
      <3>1. k - Len(old) \in 1 .. Len(add)
        BY <2>1, <2>3
      <3>2. q[k] = add[k - Len(old)]
        BY <1>3, <1>6, <1>8, <2>1, <2>3
      <3>3. QED BY <3>1, <3>2
    <2>4. QED BY <2>2, <2>3
  <1>10. /\ queue' \in [Subscribers -> Seq(Items)] /\ queue'[s] = q
         /\ \A r \in Subscribers : r # s => queue'[r] = queue[r]
    BY <1>7, <1>8 DEF TypeOK
  <1>11. ASSUME NEW k \in 1 .. Len(q)
         PROVE  \/ s \in built /\ \E j \in 1 .. Len(queue[s]) : q[k] = queue[s][j]
                \/ s \notin built /\ q[k].kind = "loaded" /\ row[s][q[k].file] \in {"scheduled", "delivering"}
                \/ q[k] \in Accepted(s)
    BY <1>2, <1>4, <1>6, <1>9
  <1>12. QED BY <1>10, <1>11 DEF QueueDispatched

\* The rest of the state.
LEMMA DispatchRest ==
    ASSUME TypeOK, NEW s \in Subscribers, Dispatch(s)
    PROVE  /\ main.pc = "dispatch" /\ s \in subs /\ s \notin main.done /\ ~Changed
           /\ main' \in MainType /\ main'.pc = "dispatch" /\ main'.req = main.req
           /\ main'.done = main.done \cup {s}
           /\ main'.size = IF main.done = {} THEN Cardinality(subs) ELSE main.size
           /\ built' = built \cup {s} /\ spawned' = spawned \cup {s}
           /\ \/ thr' = thr
              \/ s \notin spawned /\ thr' = [thr EXCEPT ![s] = [t \in Threads |-> Top]]
           /\ sched' \in [Subscribers -> Nat] /\ \A r \in Subscribers : r # s => sched'[r] = sched[r]
           /\ sched'[s] = sched[s] \/ \E i \in main.req[s] : sched'[s] = Date(i.file)
           /\ UNCHANGED <<archived, received, mounted, gone, online, subs, start, lastDb,
                          lastMem, fileList, subscrList, runSync, backLog, blCount,
                          blScheduled, keyLeft, miscounts, stopDelivery>>
           /\ dbLost' \subseteq Pairs /\ faults' \in 0 .. MaxFaults
  <1>1. /\ main.pc = "dispatch" /\ s \in subs /\ s \notin main.done /\ ~Changed
        /\ built' = built \cup {s} /\ spawned' = spawned \cup {s}
        /\ UNCHANGED <<archived, received, mounted, gone, online, subs, start, lastDb,
                       lastMem, fileList, subscrList, runSync, backLog, blCount, blScheduled,
                       keyLeft, miscounts, stopDelivery>>
    BY DEF Dispatch, worldVars, listVars, blVars, slipVars
  <1>2. \/ thr' = thr
        \/ s \notin spawned /\ thr' = [thr EXCEPT ![s] = [t \in Threads |-> Top]]
    BY DEF Dispatch
  <1>3. /\ main' \in MainType /\ main'.pc = "dispatch" /\ main'.req = main.req
        /\ main'.done = main.done \cup {s}
        /\ main'.size = IF main.done = {} THEN Cardinality(subs) ELSE main.size
    <2>1. main \in MainType /\ Cardinality(subs) \in Nat
      BY SubscribersFinite DEF TypeOK, MainType
    <2>2. PICK n \in Nat : n = IF main.done = {} THEN Cardinality(subs) ELSE main.size
      BY <2>1 DEF MainType
    <2>3. main' = [main EXCEPT !.done = main.done \cup {s}, !.size = n]
      BY <2>2 DEF Dispatch
    <2>4. QED BY <1>1, <2>1, <2>2, <2>3 DEF MainType
  <1>4. /\ sched' \in [Subscribers -> Nat] /\ \A r \in Subscribers : r # s => sched'[r] = sched[r]
        /\ sched'[s] = sched[s] \/ \E i \in main.req[s] : sched'[s] = Date(i.file)
    <2> DEFINE dates == {Date(i.file) : i \in main.req[s]} \cup {sched[s]}
    <2>0. sched \in [Subscribers -> Nat] /\ main.req[s] \in SUBSET Items /\ MaxFiles \in Nat
      BY SubscriptionBounds DEF TypeOK
    <2>1. /\ dates \in SUBSET Nat /\ dates # {}
          /\ \A d \in dates : d <= 2 * MaxFiles + sched[s]
      BY <2>0 DEF Date, Items, Files
    <2>2. 2 * MaxFiles + sched[s] \in Nat
      BY <2>0
    <2>3. \E d \in dates : \A e \in dates : d >= e
      BY <2>1, <2>2, GreatestNumber
    <2>4. sched' = [sched EXCEPT ![s] = CHOOSE d \in dates : \A e \in dates : d >= e]
      BY DEF Dispatch
    <2>5. PICK d \in dates : d = CHOOSE c \in dates : \A e \in dates : c >= e
      BY <2>3
    <2>6. sched' = [sched EXCEPT ![s] = d]
      BY <2>4, <2>5
    <2>7. d = sched[s] \/ \E i \in main.req[s] : d = Date(i.file)
      OBVIOUS
    <2>8. d \in Nat
      BY <2>1
    <2> HIDE DEF dates
    <2>9. QED BY <2>0, <2>6, <2>7, <2>8
  <1>5. dbLost' \subseteq Pairs /\ faults' \in 0 .. MaxFaults
    BY DispatchReads
  <1>6. QED BY <1>1, <1>2, <1>3, <1>4, <1>5

\* The round of a Subscriber keeps the invariant.
LEMMA DispatchDelivery ==
    ASSUME DeliveryInv, NEW s \in Subscribers, Dispatch(s)
    PROVE  DeliveryInv'
  <1> USE DEF DeliveryInv
  <1>1. RowsDispatched(s) /\ QueueDispatched(s)
    BY DispatchRows, DispatchQueue
  <1>2. /\ main.pc = "dispatch" /\ s \in subs
        /\ main' \in MainType /\ main'.pc = "dispatch" /\ main'.req = main.req
        /\ built' = built \cup {s} /\ spawned' = spawned \cup {s}
        /\ sched' \in [Subscribers -> Nat]
        /\ UNCHANGED <<archived, received, mounted, gone, online, subs, start, lastDb,
                       lastMem, fileList, subscrList, runSync, backLog, blCount, blScheduled,
                       keyLeft, miscounts, stopDelivery>>
        /\ dbLost' \subseteq Pairs /\ faults' \in 0 .. MaxFaults
    BY DispatchRest
  <1>3. /\ thr' \in [Subscribers -> [Threads -> ThreadType]]
        /\ \A r \in Subscribers, t \in Threads : thr'[r][t] = thr[r][t] \/ thr'[r][t] = Top
    <2>1. thr \in [Subscribers -> [Threads -> ThreadType]] /\ Top \in ThreadType
      BY DEF TypeOK, ThreadType, Waiting, Delivering
    <2>2. CASE thr' = thr
      BY <2>1, <2>2
    <2>3. CASE thr' = [thr EXCEPT ![s] = [t \in Threads |-> Top]]
      BY <2>1, <2>3
    <2>4. QED BY <2>2, <2>3, DispatchRest
  <1>4. TypeOK'
    BY <1>1, <1>2, <1>3 DEF TypeOK, MainType, ThreadType, Waiting, Delivering, RowsDispatched,
       QueueDispatched
  <1>5. SubsStarted' /\ SentReceived' /\ DeliveredRecorded'
    <2>1. SubsStarted'
      BY <1>2 DEF SubsStarted
    <2>2. SentReceived'
      BY <1>2, <1>3, ThreadStates DEF SentReceived
    <2>3. DeliveredRecorded'
      BY <1>1, <1>2 DEF DeliveredRecorded, RowsDispatched
    <2>4. QED BY <2>1, <2>2, <2>3
  <1>6. LoggedKnown'
    <2>1. ASSUME NEW r \in Subscribers, Member(r)'
          PROVE  /\ Member(r) /\ \A f : Known(r, f) => Known(r, f)'
                 /\ \A i \in main'.req[r] : i.kind = "backlog" => Known(r, i.file)
                 /\ \A k \in 1 .. Len(queue'[r]) : queue'[r][k].kind = "backlog" => Known(r, queue'[r][k].file)
                 /\ \A t \in Threads : thr'[r][t] \in Delivering /\ thr'[r][t].item.kind = "backlog"
                                            => Known(r, thr'[r][t].item.file)
                 /\ \A f \in Files : row'[r][f] = "failed" => Known(r, f)
      <3>1. Member(r) /\ \A f : Known(r, f) => Known(r, f)'
        BY <1>2, <2>1 DEF Member, Known
      <3>2. \A i \in main'.req[r] : i.kind = "backlog" => Known(r, i.file)
        BY <1>2, <3>1 DEF LoggedKnown
      <3>3. \A k \in 1 .. Len(queue'[r]) : queue'[r][k].kind = "backlog" => Known(r, queue'[r][k].file)
        BY <1>1, <1>2, <3>1, <3>2 DEF LoggedKnown, QueueDispatched, Accepted
      <3>4. \A t \in Threads : thr'[r][t] \in Delivering /\ thr'[r][t].item.kind = "backlog"
                                    => Known(r, thr'[r][t].item.file)
        BY <1>3, <3>1, ThreadStates DEF LoggedKnown
      <3>5. \A f \in Files : row'[r][f] = "failed" => Known(r, f)
        BY <1>1, <3>1 DEF LoggedKnown, RowsDispatched
      <3>6. QED BY <3>1, <3>2, <3>3, <3>4, <3>5
    <2>2. QED BY <2>1 DEF LoggedKnown
  <1>7. QED BY <1>4, <1>5, <1>6

-----------------------------------------------------------------------------
(* The Delivery Threads.                                                   *)

\* A step of a Delivery Thread changes its own state only.
LEMMA BecomesEffect ==
    ASSUME TypeOK, NEW s \in Subscribers, NEW t \in Threads, NEW x \in ThreadType, Becomes(s, t, x)
    PROVE  /\ thr' \in [Subscribers -> [Threads -> ThreadType]] /\ thr'[s][t] = x
           /\ \A r \in Subscribers, u \in Threads : <<r, u>> # <<s, t>> => thr'[r][u] = thr[r][u]
  <1>1. thr \in [Subscribers -> [Threads -> ThreadType]]
    BY DEF TypeOK, ThreadType, Waiting, Delivering
  <1>2. thr' = [thr EXCEPT ![s][t] = x]
    BY DEF Becomes
  <1>3. QED BY <1>1, <1>2

\* A thread that delivers has a file.
LEMMA DeliveringThread ==
    ASSUME TypeOK, NEW s \in Subscribers, NEW t \in Threads, thr[s][t].pc \in {"posting", "sent"}
    PROVE  /\ thr[s][t] \in Delivering /\ thr[s][t].item.file \in Files
           /\ thr[s][t].item.kind \in {"new", "backlog"}
  <1>1. thr[s][t] \in ThreadType
    BY DEF TypeOK, ThreadType, Waiting, Delivering
  <1>2. QED BY <1>1, ThreadStates

\* The queue without its first item.
LEMMA TailEffect ==
    ASSUME TypeOK, NEW s \in Subscribers, queue[s] # <<>>, queue' = [queue EXCEPT ![s] = Tail(@)]
    PROVE  /\ queue' \in [Subscribers -> Seq(Items)]
           /\ \A r \in Subscribers : r # s => queue'[r] = queue[r]
           /\ Len(queue[s]) \in Nat /\ Len(queue[s]) > 0 /\ Len(queue'[s]) = Len(queue[s]) - 1
           /\ \A k \in 1 .. Len(queue'[s]) : k + 1 \in 1 .. Len(queue[s]) /\ queue'[s][k] = queue[s][k + 1]
           /\ Head(queue[s]) = queue[s][1] /\ Head(queue[s]) \in Items /\ 1 \in 1 .. Len(queue[s])
  <1>1. queue[s] \in Seq(Items) /\ queue \in [Subscribers -> Seq(Items)]
    BY DEF TypeOK
  <1>a. Tail(queue[s]) \in Seq(Items)
    BY <1>1
  <1>2. PICK q \in Seq(Items) : q = Tail(queue[s])
    BY <1>a
  <1>3. /\ Len(queue[s]) \in Nat /\ Len(queue[s]) > 0 /\ Len(q) = Len(queue[s]) - 1
        /\ \A k \in 1 .. Len(q) : k + 1 \in 1 .. Len(queue[s]) /\ q[k] = queue[s][k + 1]
        /\ Head(queue[s]) = queue[s][1] /\ Head(queue[s]) \in Items /\ 1 \in 1 .. Len(queue[s])
    BY <1>1, <1>2
  <1>4. /\ queue' \in [Subscribers -> Seq(Items)] /\ queue'[s] = q
        /\ \A r \in Subscribers : r # s => queue'[r] = queue[r]
    BY <1>1, <1>2
  <1>5. QED BY <1>3, <1>4

\* The effect of a step on the threads, stated without EXCEPT.
OneThread(s, t, x) ==
    /\ thr' \in [Subscribers -> [Threads -> ThreadType]] /\ thr'[s][t] = x
    /\ \A r \in Subscribers, u \in Threads : <<r, u>> # <<s, t>> => thr'[r][u] = thr[r][u]
OneRow(s, f, x) ==
    /\ row' \in [Subscribers -> [Files -> Statuses]] /\ row'[s][f] = x
    /\ \A r \in Subscribers, g \in Files : <<r, g>> # <<s, f>> => row'[r][g] = row[r][g]
Dropped(s) ==
    /\ queue' \in [Subscribers -> Seq(Items)]
    /\ \A r \in Subscribers : r # s => queue'[r] = queue[r]
    /\ \A k \in 1 .. Len(queue'[s]) : \E j \in 1 .. Len(queue[s]) : queue'[s][k] = queue[s][j]

\* A statement that succeeds, or fails.
RowWritten(s, f, x) == OneRow(s, f, x) \/ ("db" \in Events /\ row' = row)
Forgotten(s, f) == backLog' = backLog \ {<<s, f>>} /\ blCount' = blCount - 1
EntryDeleted(s, f) == Forgotten(s, f) \/ ("db" \in Events /\ backLog' = backLog /\ blCount' = blCount - 1)
SlipsTyped == /\ dbLost' \subseteq Pairs /\ keyLeft' \subseteq Pairs /\ miscounts' \in Nat
              /\ faults' \in 0 .. MaxFaults

\* Writing one row of ngas_subscr_queue.
LEMMA SetRowEffect ==
    ASSUME TypeOK, NEW s \in Subscribers, NEW f \in Files, NEW x \in Statuses, NEW ok \in BOOLEAN,
           SetRow(s, f, x, ok), ok = TRUE \/ "db" \in Events
    PROVE  RowWritten(s, f, x) /\ dbLost' \subseteq Pairs
  <1>1. CASE ok = TRUE
    <2>1. row' = [row EXCEPT ![s][f] = x] /\ dbLost' = dbLost
      BY <1>1 DEF SetRow
    <2>2. OneRow(s, f, x)
      BY <2>1 DEF TypeOK, OneRow
    <2>3. QED BY <2>1, <2>2 DEF RowWritten, TypeOK
  <1>2. CASE ok = FALSE
    BY <1>2 DEF SetRow, RowWritten, TypeOK, Pairs
  <1>3. QED BY <1>1, <1>2

\* Deleting one entry of ngas_subscr_back_log.
LEMMA DelFromBackLogEffect ==
    ASSUME TypeOK, NEW s \in Subscribers, NEW f \in Files, NEW ok \in BOOLEAN,
           DelFromBackLog(s, f, ok), ok = TRUE \/ "db" \in Events
    PROVE  EntryDeleted(s, f) /\ miscounts' \in Nat /\ (ok = TRUE => Forgotten(s, f))
  <1>1. CASE ok = TRUE
    BY <1>1 DEF DelFromBackLog, delSubscrBackLogEntry, EntryDeleted, Forgotten, TypeOK
  <1>2. CASE ok = FALSE
    BY <1>2 DEF DelFromBackLog, EntryDeleted, TypeOK
  <1>3. QED BY <1>1, <1>2

\* What Get does.
LEMMA GetEffect ==
    ASSUME TypeOK, NEW s \in Subscribers, NEW t \in Threads, Get(s, t)
    PROVE  \E item \in Items :
             /\ queue[s] # <<>> /\ item = queue[s][1] /\ 1 \in 1 .. Len(queue[s]) /\ Dropped(s)
             /\ thr[s][t].pc = "get"
             /\ \/ /\ item.kind = "loaded" /\ OneThread(s, t, Top)
                   /\ UNCHANGED <<row, backLog, blCount, blScheduled, keyLeft>>
                \/ /\ item.kind = "backlog" /\ Missing(item.file) /\ OneThread(s, t, Top)
                   /\ (mounted /\ EntryDeleted(s, item.file)) \/ UNCHANGED <<backLog, blCount>>
                   /\ keyLeft' = keyLeft \cup {<<s, item.file>>}
                   /\ UNCHANGED <<row, blScheduled>>
                \/ /\ item.kind \in {"new", "backlog"}
                   /\ item.kind = "backlog" => ~Missing(item.file)
                   /\ OneThread(s, t, [pc |-> "posting", item |-> item])
                   /\ [pc |-> "posting", item |-> item] \in Delivering
                   /\ RowWritten(s, item.file, "delivering")
                   /\ UNCHANGED <<backLog, blCount, blScheduled, keyLeft>>
             /\ SlipsTyped
             /\ UNCHANGED <<archived, received, mounted, gone, online, subs, start, lastDb,
                            lastMem, sched, fileList, subscrList, runSync, main, built,
                            spawned, stopDelivery>>
  <1>1. /\ thr[s][t].pc = "get" /\ queue[s] # <<>> /\ queue' = [queue EXCEPT ![s] = Tail(@)]
        /\ UNCHANGED <<archived, received, mounted, gone, online, subs, start, lastDb,
                       lastMem, sched, fileList, subscrList, runSync, main, built,
                       spawned, stopDelivery>>
    BY DEF Get, worldVars, subVars, listVars
  <1>a. Head(queue[s]) \in Items
    BY <1>1, TailEffect
  <1>2. PICK item \in Items : item = Head(queue[s])
    BY <1>a
  <1>3. item = queue[s][1] /\ 1 \in 1 .. Len(queue[s]) /\ Dropped(s)
    <2>1. /\ queue' \in [Subscribers -> Seq(Items)]
          /\ \A r \in Subscribers : r # s => queue'[r] = queue[r]
          /\ \A k \in 1 .. Len(queue'[s]) : k + 1 \in 1 .. Len(queue[s]) /\ queue'[s][k] = queue[s][k + 1]
          /\ Head(queue[s]) = queue[s][1] /\ 1 \in 1 .. Len(queue[s])
      BY <1>1, TailEffect
    <2>2. \A k \in 1 .. Len(queue'[s]) : \E j \in 1 .. Len(queue[s]) : queue'[s][k] = queue[s][j]
      BY <2>1
    <2>3. QED BY <1>2, <2>1, <2>2 DEF Dropped
  <1>4. item.file \in Files /\ item.kind \in {"new", "backlog", "loaded"} /\ Top \in ThreadType
    BY DEF Items, ThreadType
  <1>b. /\ dbLost \subseteq Pairs /\ keyLeft \subseteq Pairs /\ miscounts \in Nat
        /\ faults \in 0 .. MaxFaults /\ <<s, item.file>> \in Pairs
    BY <1>4 DEF TypeOK, Pairs
  <1>5. CASE item.kind = "loaded"
    <2>1. /\ Becomes(s, t, Top)
          /\ UNCHANGED <<row, backLog, blCount, blScheduled, dbLost, keyLeft, miscounts, faults>>
      BY <1>2, <1>5 DEF Get, blVars, slipVars
    <2>2. OneThread(s, t, Top)
      BY <1>4, <2>1, BecomesEffect DEF OneThread
    <2>3. SlipsTyped
      BY <1>b, <2>1 DEF SlipsTyped
    <2>4. QED BY <1>1, <1>3, <1>5, <2>1, <2>2, <2>3
  <1>6. CASE item.kind = "backlog" /\ Missing(item.file)
    <2>1. /\ Becomes(s, t, Top) /\ UNCHANGED <<row, blScheduled, dbLost>>
          /\ keyLeft' = keyLeft \cup {<<s, item.file>>}
          /\ \/ ~mounted /\ UNCHANGED <<backLog, blCount, miscounts, faults>>
             \/ Fault("db") /\ UNCHANGED <<backLog, blCount, miscounts>>
             \/ mounted /\ \E ok \in BOOLEAN : Db(ok) /\ DelFromBackLog(s, item.file, ok)
      BY <1>2, <1>6 DEF Get
    <2>2. OneThread(s, t, Top)
      BY <1>4, <2>1, BecomesEffect DEF OneThread
    <2>3. /\ (mounted /\ EntryDeleted(s, item.file)) \/ UNCHANGED <<backLog, blCount>>
          /\ miscounts' \in Nat /\ faults' \in 0 .. MaxFaults
      <3>1. CASE ~mounted /\ UNCHANGED <<backLog, blCount, miscounts, faults>>
        BY <1>b, <3>1
      <3>2. CASE Fault("db") /\ UNCHANGED <<backLog, blCount, miscounts>>
        BY <1>b, <3>2, SubscriptionBounds DEF Fault
      <3>3. ASSUME mounted, NEW ok \in BOOLEAN, Db(ok), DelFromBackLog(s, item.file, ok)
            PROVE  mounted /\ EntryDeleted(s, item.file) /\ miscounts' \in Nat /\ faults' \in 0 .. MaxFaults
        BY <1>4, <3>3, DbFails, DelFromBackLogEffect
      <3>4. QED BY <2>1, <3>1, <3>2, <3>3
    <2>4. SlipsTyped
      BY <1>b, <2>1, <2>3 DEF SlipsTyped
    <2>5. QED BY <1>1, <1>3, <1>6, <2>1, <2>2, <2>3, <2>4
  <1>7. CASE item.kind = "new" \/ (item.kind = "backlog" /\ ~Missing(item.file))
    <2>1. /\ Becomes(s, t, [pc |-> "posting", item |-> item])
          /\ \E ok \in BOOLEAN : Db(ok) /\ SetRow(s, item.file, "delivering", ok)
          /\ UNCHANGED <<backLog, blCount, blScheduled, keyLeft, miscounts>>
      BY <1>2, <1>7 DEF Get
    <2>2. /\ [pc |-> "posting", item |-> item] \in Delivering
          /\ [pc |-> "posting", item |-> item] \in ThreadType
      BY <1>4, <1>7 DEF Delivering, ThreadType, Items
    <2>3. OneThread(s, t, [pc |-> "posting", item |-> item])
      BY <2>1, <2>2, BecomesEffect DEF OneThread
    <2>4. PICK ok \in BOOLEAN : Db(ok) /\ SetRow(s, item.file, "delivering", ok)
      BY <2>1
    <2>5. RowWritten(s, item.file, "delivering") /\ dbLost' \subseteq Pairs
      BY <1>4, <2>4, DbFails, SetRowEffect DEF Statuses
    <2>6. SlipsTyped
      BY <1>b, <2>1, <2>4, <2>5, DbFails DEF SlipsTyped
    <2>7. QED BY <1>1, <1>3, <1>7, <2>1, <2>2, <2>3, <2>5, <2>6
  <1>8. QED BY <1>4, <1>5, <1>6, <1>7

\* What CheckStop does.
LEMMA CheckStopEffect ==
    ASSUME TypeOK, NEW s \in Subscribers, NEW t \in Threads, CheckStop(s, t)
    PROVE  /\ thr[s][t].pc \in {"top", "get"}
           /\ (OneThread(s, t, Off) /\ MustStop(s)) \/ OneThread(s, t, Waiting)
           /\ UNCHANGED <<archived, received, mounted, gone, online, subs, start, lastDb,
                          lastMem, sched, fileList, subscrList, runSync, main, queue, built,
                          row, backLog, blCount, blScheduled, dbLost, keyLeft, miscounts,
                          spawned, stopDelivery, faults>>
  <1>1. /\ thr[s][t].pc \in {"top", "get"}
        /\ UNCHANGED <<archived, received, mounted, gone, online, subs, start, lastDb,
                       lastMem, sched, fileList, subscrList, runSync, main, queue, built, row,
                       backLog, blCount, blScheduled, dbLost, keyLeft, miscounts, spawned,
                       stopDelivery, faults>>
    BY DEF CheckStop, worldVars, subVars, listVars, queueVars, blVars, slipVars
  <1>2. (Becomes(s, t, Off) /\ MustStop(s)) \/ Becomes(s, t, Waiting)
    BY DEF CheckStop, Waiting
  <1>3. Off \in ThreadType /\ Waiting \in ThreadType
    BY DEF ThreadType
  <1>4. QED BY <1>1, <1>2, <1>3, BecomesEffect DEF OneThread

\* What Post does.
LEMMA PostEffect ==
    ASSUME TypeOK, NEW s \in Subscribers, NEW t \in Threads, Post(s, t)
    PROVE  \E x \in Delivering :
             /\ thr[s][t] \in Delivering /\ x.item = thr[s][t].item /\ x.pc = "sent"
             /\ thr[s][t].pc = "posting" /\ OneThread(s, t, x)
             /\ received' = received \cup {<<s, x.item.file>>}
             /\ UNCHANGED <<archived, mounted, gone, online, subs, start, lastDb, lastMem,
                            sched, fileList, subscrList, runSync, main, queue, built, row,
                            backLog, blCount, blScheduled, dbLost, keyLeft, miscounts,
                            spawned, stopDelivery, faults>>
  <1>1. /\ thr[s][t].pc = "posting" /\ received' = received \cup {<<s, thr[s][t].item.file>>}
        /\ Becomes(s, t, [thr[s][t] EXCEPT !.pc = "sent"])
        /\ UNCHANGED <<archived, mounted, gone, online, subs, start, lastDb, lastMem, sched,
                       fileList, subscrList, runSync, main, queue, built, row, backLog,
                       blCount, blScheduled, dbLost, keyLeft, miscounts, spawned,
                       stopDelivery, faults>>
    BY DEF Post, subVars, listVars, queueVars, blVars, slipVars
  <1>2. thr[s][t] \in Delivering
    BY <1>1, DeliveringThread
  <1>3. PICK x \in Delivering : x = [thr[s][t] EXCEPT !.pc = "sent"]
    BY <1>2 DEF Delivering
  <1>4. x.item = thr[s][t].item /\ x.pc = "sent" /\ x \in ThreadType
    BY <1>2, <1>3 DEF Delivering, ThreadType
  <1>5. OneThread(s, t, x)
    BY <1>1, <1>3, <1>4, BecomesEffect DEF OneThread
  <1>6. QED BY <1>1, <1>2, <1>4, <1>5

\* What Delivered does.
LEMMA DeliveredEffect ==
    ASSUME TypeOK, NEW s \in Subscribers, NEW t \in Threads, Delivered(s, t)
    PROVE  \E f \in Files :
             /\ thr[s][t] \in Delivering /\ thr[s][t].pc = "sent" /\ f = thr[s][t].item.file
             /\ OneThread(s, t, Top) /\ RowWritten(s, f, "delivered")
             /\ lastMem' = [lastMem EXCEPT ![s] = Date(f)]
             /\ lastDb' = lastDb \/ lastDb' = [lastDb EXCEPT ![s] = Date(f)]
             /\ \/ /\ thr[s][t].item.kind = "backlog" /\ Forgotten(s, f)
                   /\ blScheduled' = blScheduled \ {<<s, f>>} /\ UNCHANGED keyLeft
                \/ /\ thr[s][t].item.kind = "backlog" /\ "db" \in Events
                   /\ UNCHANGED <<backLog, blScheduled>> /\ blCount' = blCount - 1
                   /\ keyLeft' = keyLeft \cup {<<s, f>>}
                \/ /\ thr[s][t].item.kind = "new"
                   /\ UNCHANGED <<backLog, blCount, blScheduled, keyLeft>>
             /\ SlipsTyped
             /\ UNCHANGED <<archived, received, mounted, gone, online, subs, start, sched,
                            fileList, subscrList, runSync, main, queue, built, spawned,
                            stopDelivery>>
  <1>1. /\ thr[s][t].pc = "sent" /\ Becomes(s, t, Top)
        /\ UNCHANGED <<archived, received, mounted, gone, online, subs, start, sched,
                       fileList, subscrList, runSync, main, queue, built, spawned,
                       stopDelivery>>
    BY DEF Delivered, worldVars, listVars
  <1>2. /\ thr[s][t] \in Delivering /\ thr[s][t].item.file \in Files
        /\ thr[s][t].item.kind \in {"new", "backlog"} /\ Top \in ThreadType
    BY <1>1, DeliveringThread DEF ThreadType
  <1>3. PICK f \in Files : f = thr[s][t].item.file
    BY <1>2
  <1>4. PICK rowOk \in BOOLEAN, dateOk \in BOOLEAN, delOk \in BOOLEAN :
           /\ Db(rowOk /\ dateOk /\ delOk)
           /\ SetRow(s, f, "delivered", rowOk)
           /\ IF dateOk THEN updateSubscrStatus(s, Date(f)) ELSE UNCHANGED lastDb
           /\ \/ /\ thr[s][t].item.kind = "backlog"
                 /\ DelFromBackLog(s, f, delOk)
                 /\ IF delOk THEN blScheduled' = blScheduled \ {<<s, f>>} /\ UNCHANGED keyLeft
                             ELSE keyLeft' = keyLeft \cup {<<s, f>>} /\ UNCHANGED blScheduled
              \/ /\ thr[s][t].item.kind = "new" /\ delOk
                 /\ UNCHANGED <<backLog, blCount, blScheduled, keyLeft, miscounts>>
    BY <1>3 DEF Delivered
  <1>5. /\ lastMem' = [lastMem EXCEPT ![s] = Date(f)]
        /\ lastDb' = lastDb \/ lastDb' = [lastDb EXCEPT ![s] = Date(f)]
    BY <1>3, <1>4 DEF Delivered, updateSubscrStatus
  <1>6. /\ faults' \in 0 .. MaxFaults
        /\ (rowOk = TRUE /\ delOk = TRUE) \/ "db" \in Events
    <2>1. PICK ok \in BOOLEAN : ok = (rowOk /\ dateOk /\ delOk)
      OBVIOUS
    <2>2. Db(ok)
      BY <1>4, <2>1
    <2>3. QED BY <2>1, <2>2, DbFails
  <1>7. RowWritten(s, f, "delivered") /\ dbLost' \subseteq Pairs
    BY <1>4, <1>6, SetRowEffect DEF Statuses
  <1>8. OneThread(s, t, Top)
    BY <1>1, <1>2, BecomesEffect DEF OneThread
  <1>9. /\ keyLeft \subseteq Pairs /\ miscounts \in Nat /\ <<s, f>> \in Pairs
    BY DEF TypeOK, Pairs
  <1>10. CASE thr[s][t].item.kind = "new"
    <2>1. UNCHANGED <<backLog, blCount, blScheduled, keyLeft, miscounts>>
      BY <1>4, <1>10
    <2>2. SlipsTyped
      BY <1>6, <1>7, <1>9, <2>1 DEF SlipsTyped
    <2>3. QED BY <1>1, <1>2, <1>3, <1>5, <1>7, <1>8, <1>10, <2>1, <2>2
  <1>11. CASE thr[s][t].item.kind = "backlog"
    <2>1. DelFromBackLog(s, f, delOk)
      BY <1>4, <1>11
    <2>2. EntryDeleted(s, f) /\ miscounts' \in Nat /\ (delOk = TRUE => Forgotten(s, f))
      BY <1>6, <2>1, DelFromBackLogEffect
    <2>3. \/ Forgotten(s, f) /\ blScheduled' = blScheduled \ {<<s, f>>} /\ UNCHANGED keyLeft
          \/ /\ "db" \in Events /\ UNCHANGED <<backLog, blScheduled>> /\ blCount' = blCount - 1
             /\ keyLeft' = keyLeft \cup {<<s, f>>}
      <3>1. CASE delOk = TRUE
        BY <1>4, <1>11, <2>2, <3>1
      <3>2. CASE delOk = FALSE
        BY <1>4, <1>6, <1>11, <2>1, <3>2 DEF DelFromBackLog
      <3>3. QED BY <3>1, <3>2
    <2>4. SlipsTyped
      BY <1>6, <1>7, <1>9, <2>2, <2>3 DEF SlipsTyped
    <2>5. QED BY <1>1, <1>2, <1>3, <1>5, <1>7, <1>8, <1>11, <2>3, <2>4
  <1>12. QED BY <1>2, <1>10, <1>11

\* What NotDelivered does.
LEMMA NotDeliveredEffect ==
    ASSUME TypeOK, NEW s \in Subscribers, NEW t \in Threads, NotDelivered(s, t)
    PROVE  \E f \in Files :
             /\ thr[s][t] \in Delivering /\ f = thr[s][t].item.file
             /\ OneThread(s, t, Top) /\ RowWritten(s, f, "failed")
             /\ \/ /\ thr[s][t].item.kind = "backlog" /\ blScheduled' = blScheduled \ {<<s, f>>}
                   /\ UNCHANGED <<backLog, blCount>>
                \/ /\ thr[s][t].item.kind = "new" /\ backLog' = backLog \cup {<<s, f>>}
                   /\ blCount' = blCount + 1 /\ UNCHANGED blScheduled
                \/ /\ thr[s][t].item.kind = "new" /\ "db" \in Events /\ row' = row
                   /\ UNCHANGED <<backLog, blCount, blScheduled>>
             /\ SlipsTyped
             /\ UNCHANGED <<archived, received, mounted, gone, online, subs, start, lastDb,
                            lastMem, sched, fileList, subscrList, runSync, main, queue,
                            built, keyLeft, spawned, stopDelivery>>
  <1>1. /\ thr[s][t].pc \in {"posting", "sent"} /\ Becomes(s, t, Top)
        /\ UNCHANGED <<archived, received, mounted, gone, online, subs, start, lastDb,
                       lastMem, sched, fileList, subscrList, runSync, main, queue,
                       built, keyLeft, miscounts, spawned, stopDelivery>>
    BY DEF NotDelivered, worldVars, subVars, listVars
  <1>2. /\ thr[s][t] \in Delivering /\ thr[s][t].item.file \in Files
        /\ thr[s][t].item.kind \in {"new", "backlog"} /\ Top \in ThreadType
    BY <1>1, DeliveringThread DEF ThreadType
  <1>3. PICK f \in Files : f = thr[s][t].item.file
    BY <1>2
  <1>4. PICK entryOk \in BOOLEAN, rowOk \in BOOLEAN :
           /\ faults' = faults + (IF thr[s][t].pc = "posting" /\ Missing(f) THEN 0 ELSE 1)
                               + (IF entryOk /\ rowOk THEN 0 ELSE 1)
           /\ faults' <= MaxFaults
           /\ (entryOk /\ rowOk) \/ "db" \in Events
           /\ SetRow(s, f, "failed", rowOk)
           /\ \/ /\ thr[s][t].item.kind = "backlog" /\ entryOk
                 /\ blScheduled' = blScheduled \ {<<s, f>>}
                 /\ UNCHANGED <<backLog, blCount>>
              \/ /\ thr[s][t].item.kind = "new" /\ entryOk
                 /\ addSubscrBackLogEntry(s, f)
                 /\ blCount' = blCount + 1
                 /\ UNCHANGED blScheduled
              \/ /\ thr[s][t].item.kind = "new" /\ ~entryOk /\ ~rowOk
                 /\ UNCHANGED <<backLog, blCount, blScheduled>>
    BY <1>3 DEF NotDelivered
  <1>5. \/ /\ thr[s][t].item.kind = "backlog" /\ blScheduled' = blScheduled \ {<<s, f>>}
           /\ UNCHANGED <<backLog, blCount>>
        \/ /\ thr[s][t].item.kind = "new" /\ backLog' = backLog \cup {<<s, f>>}
           /\ blCount' = blCount + 1 /\ UNCHANGED blScheduled
        \/ /\ thr[s][t].item.kind = "new" /\ "db" \in Events /\ row' = row
           /\ UNCHANGED <<backLog, blCount, blScheduled>>
    BY <1>4 DEF addSubscrBackLogEntry, SetRow
  <1>6. OneThread(s, t, Top)
    BY <1>1, <1>2, BecomesEffect DEF OneThread
  <1>7. RowWritten(s, f, "failed") /\ dbLost' \subseteq Pairs
    BY <1>4, SetRowEffect DEF Statuses
  <1>8. SlipsTyped
    <2>1. faults' \in Nat
      BY <1>4, SubscriptionBounds DEF TypeOK
    <2>2. QED BY <1>1, <1>4, <1>7, <2>1, SubscriptionBounds DEF TypeOK, SlipsTyped
  <1>9. QED BY <1>1, <1>2, <1>3, <1>5, <1>6, <1>7, <1>8

-----------------------------------------------------------------------------
(* The Delivery Threads keep the invariant.                                *)

\* Known, after the step.
KnownAfter(s, f) == <<s, f>> \in backLog' \cup received' \/ f \in gone'

\* Checking for the stop.
LEMMA CheckStopDelivery ==
    ASSUME DeliveryInv, NEW s \in Subscribers, NEW t \in Threads, CheckStop(s, t)
    PROVE  DeliveryInv'
  <1> USE DEF DeliveryInv
  <1>1. PICK x \in {Off, Waiting} : OneThread(s, t, x)
    BY CheckStopEffect
  <1>2. UNCHANGED <<archived, received, mounted, gone, online, subs, start, lastDb, lastMem,
                    sched, fileList, subscrList, runSync, main, queue, built, row, backLog,
                    blCount, blScheduled, dbLost, keyLeft, miscounts, spawned, stopDelivery,
                    faults>>
    BY CheckStopEffect
  <1>3. x.pc # "sent" /\ x \notin Delivering
    BY <1>1, ThreadStates
  <1>4. TypeOK'
    BY <1>1, <1>2 DEF TypeOK, OneThread, ThreadType, Waiting, Delivering
  <1>5. SubsStarted' /\ SentReceived' /\ DeliveredRecorded'
    BY <1>1, <1>2, <1>3 DEF SubsStarted, SentReceived, DeliveredRecorded, OneThread
  <1>6. LoggedKnown'
    <2>1. \A r \in Subscribers, u \in Threads : thr'[r][u] \in Delivering => thr'[r][u] = thr[r][u]
      BY <1>1, <1>3 DEF OneThread
    <2>2. QED BY <1>2, <2>1 DEF LoggedKnown, Known, Member
  <1>7. QED BY <1>4, <1>5, <1>6

\* Taking a file.
LEMMA GetDelivery ==
    ASSUME DeliveryInv, NEW s \in Subscribers, NEW t \in Threads, Get(s, t)
    PROVE  DeliveryInv'
  <1> USE DEF DeliveryInv
  <1>1. PICK item \in Items :
             /\ queue[s] # <<>> /\ item = queue[s][1] /\ 1 \in 1 .. Len(queue[s]) /\ Dropped(s)
             /\ thr[s][t].pc = "get"
             /\ \/ /\ item.kind = "loaded" /\ OneThread(s, t, Top)
                   /\ UNCHANGED <<row, backLog, blCount, blScheduled>>
                \/ /\ item.kind = "backlog" /\ Missing(item.file) /\ OneThread(s, t, Top)
                   /\ (mounted /\ EntryDeleted(s, item.file)) \/ UNCHANGED <<backLog, blCount>>
                   /\ UNCHANGED <<row, blScheduled>>
                \/ /\ item.kind \in {"new", "backlog"}
                   /\ item.kind = "backlog" => ~Missing(item.file)
                   /\ OneThread(s, t, [pc |-> "posting", item |-> item])
                   /\ [pc |-> "posting", item |-> item] \in Delivering
                   /\ RowWritten(s, item.file, "delivering")
                   /\ UNCHANGED <<backLog, blCount, blScheduled>>
             /\ SlipsTyped
             /\ UNCHANGED <<archived, received, mounted, gone, online, subs, start, lastDb,
                            lastMem, sched, fileList, subscrList, runSync, main, built,
                            spawned, stopDelivery>>
    BY GetEffect
  <1>2. item.file \in Files
    BY DEF Items
  <1>3. PICK x \in ThreadType : /\ OneThread(s, t, x) /\ x.pc # "sent"
                                /\ x = Top \/ x.item = item
    <2>1. CASE OneThread(s, t, Top)
      BY <2>1, ThreadStates DEF ThreadType
    <2>2. CASE OneThread(s, t, [pc |-> "posting", item |-> item]) /\ [pc |-> "posting", item |-> item] \in Delivering
      <3>1. PICK x \in ThreadType : x = [pc |-> "posting", item |-> item]
        BY <2>2 DEF ThreadType
      <3>2. x.pc = "posting" /\ x.item = item
        BY <3>1
      <3>3. QED BY <2>2, <3>1, <3>2
    <2>3. QED BY <1>1, <2>1, <2>2
  <1>4. row' = row \/ OneRow(s, item.file, "delivering")
    BY <1>1 DEF RowWritten
  <1>5. /\ backLog' \in SUBSET Pairs /\ blCount' \in Int /\ blScheduled' = blScheduled
        /\ \A r \in Subscribers, f \in Files : Known(r, f) => KnownAfter(r, f)
    <2>1. CASE UNCHANGED <<backLog, blCount, blScheduled>>
      BY <1>1, <2>1 DEF TypeOK, Known, KnownAfter
    <2>2. CASE mounted /\ EntryDeleted(s, item.file) /\ Missing(item.file) /\ blScheduled' = blScheduled
      BY <1>1, <2>2 DEF TypeOK, Known, KnownAfter, EntryDeleted, Forgotten, Missing
    <2>3. QED BY <1>1, <2>1, <2>2
  <1>6. TypeOK'
    BY <1>1, <1>3, <1>4, <1>5 DEF TypeOK, SlipsTyped, OneThread, OneRow, Dropped, ThreadType,
       Waiting, Delivering
  <1>7. SubsStarted' /\ SentReceived' /\ DeliveredRecorded'
    <2>1. SubsStarted' /\ DeliveredRecorded'
      BY <1>1, <1>2, <1>4 DEF SubsStarted, DeliveredRecorded, OneRow
    <2>2. SentReceived'
      BY <1>1, <1>3 DEF SentReceived, OneThread
    <2>3. QED BY <2>1, <2>2
  <1>8. LoggedKnown'
    <2>1. ASSUME NEW r \in Subscribers, Member(r)'
          PROVE  /\ main'.pc = "dispatch" => \A i \in main'.req[r] : i.kind = "backlog" => KnownAfter(r, i.file)
                 /\ \A k \in 1 .. Len(queue'[r]) : queue'[r][k].kind = "backlog" => KnownAfter(r, queue'[r][k].file)
                 /\ \A u \in Threads : thr'[r][u] \in Delivering /\ thr'[r][u].item.kind = "backlog"
                                            => KnownAfter(r, thr'[r][u].item.file)
                 /\ \A f \in Files : row'[r][f] = "failed" => KnownAfter(r, f)
      <3>1. Member(r) /\ main' = main
        BY <1>1, <2>1 DEF Member
      <3>2. main.pc = "dispatch" => \A i \in main.req[r] : i.kind = "backlog" => KnownAfter(r, i.file)
        BY <1>5, <3>1 DEF LoggedKnown, TypeOK, Items
      <3>3. \A k \in 1 .. Len(queue[r]) : queue[r][k].kind = "backlog" => KnownAfter(r, queue[r][k].file)
        <4>1. \A k \in 1 .. Len(queue[r]) : queue[r][k] \in Items
          BY DEF TypeOK
        <4>2. \A k \in 1 .. Len(queue[r]) : queue[r][k].file \in Files
          BY <4>1 DEF Items
        <4>3. QED BY <1>5, <3>1, <4>2 DEF LoggedKnown
      <3>4. \A k \in 1 .. Len(queue'[r]) : \E j \in 1 .. Len(queue[r]) : queue'[r][k] = queue[r][j]
        BY <1>1 DEF Dropped
      <3>5. \A u \in Threads : thr'[r][u] \in Delivering /\ thr'[r][u].item.kind = "backlog"
                                   => KnownAfter(r, thr'[r][u].item.file)
        <4> TAKE u \in Threads
        <4>1. CASE <<r, u>> # <<s, t>>
          BY <1>3, <1>5, <3>1, <4>1, ThreadStates DEF LoggedKnown, OneThread
        <4>2. CASE <<r, u>> = <<s, t>>
          BY <1>1, <1>3, <3>3, <4>2, ThreadStates DEF OneThread
        <4>3. QED BY <4>1, <4>2
      <3>6. \A f \in Files : row'[r][f] = "failed" => KnownAfter(r, f)
        BY <1>2, <1>4, <1>5, <3>1 DEF LoggedKnown, OneRow
      <3>7. QED BY <3>1, <3>2, <3>3, <3>4, <3>5, <3>6
    <2>2. QED BY <2>1 DEF LoggedKnown, Known, KnownAfter
  <1>9. QED BY <1>6, <1>7, <1>8

\* Delivering a file.
LEMMA PostDelivery ==
    ASSUME DeliveryInv, NEW s \in Subscribers, NEW t \in Threads, Post(s, t)
    PROVE  DeliveryInv'
  <1> USE DEF DeliveryInv
  <1>1. PICK x \in Delivering :
             /\ thr[s][t] \in Delivering /\ x.item = thr[s][t].item /\ x.pc = "sent"
             /\ OneThread(s, t, x)
             /\ received' = received \cup {<<s, x.item.file>>}
             /\ UNCHANGED <<archived, mounted, gone, online, subs, start, lastDb, lastMem,
                            sched, fileList, subscrList, runSync, main, queue, built, row,
                            backLog, blCount, blScheduled, dbLost, keyLeft, miscounts,
                            spawned, stopDelivery, faults>>
    BY PostEffect
  <1>2. x.item.file \in Files
    BY ThreadStates
  <1>3. TypeOK'
    <2>1. received' \in SUBSET Pairs
      BY <1>1, <1>2 DEF TypeOK, Pairs
    <2>2. thr' \in [Subscribers -> [Threads -> ThreadType]]
      BY <1>1 DEF OneThread
    <2>3. UNCHANGED <<archived, mounted, gone, online, subs, start, lastDb, lastMem, sched,
                      fileList, subscrList, runSync, main, queue, built, row, backLog,
                      blCount, blScheduled, dbLost, keyLeft, miscounts, spawned, stopDelivery,
                      faults>>
      BY <1>1
    <2>4. QED BY <2>1, <2>2, <2>3 DEF TypeOK, ThreadType, Waiting, Delivering
  <1>4. SubsStarted' /\ SentReceived' /\ DeliveredRecorded'
    BY <1>1 DEF SubsStarted, SentReceived, DeliveredRecorded, OneThread
  <1>5. LoggedKnown'
    BY <1>1 DEF LoggedKnown, Known, Member, OneThread
  <1>6. QED BY <1>3, <1>4, <1>5

\* Recording a delivery.
LEMMA DeliveredDelivery ==
    ASSUME DeliveryInv, NEW s \in Subscribers, NEW t \in Threads, Delivered(s, t)
    PROVE  DeliveryInv'
  <1> USE DEF DeliveryInv
  <1>1. PICK f \in Files :
             /\ thr[s][t] \in Delivering /\ thr[s][t].pc = "sent" /\ f = thr[s][t].item.file
             /\ OneThread(s, t, Top) /\ RowWritten(s, f, "delivered")
             /\ lastMem' = [lastMem EXCEPT ![s] = Date(f)]
             /\ lastDb' = lastDb \/ lastDb' = [lastDb EXCEPT ![s] = Date(f)]
             /\ \/ Forgotten(s, f) /\ blScheduled' = blScheduled \ {<<s, f>>}
                \/ UNCHANGED <<backLog, blScheduled>> /\ blCount' = blCount - 1
                \/ UNCHANGED <<backLog, blCount, blScheduled>>
             /\ SlipsTyped
             /\ UNCHANGED <<archived, received, mounted, gone, online, subs, start, sched,
                            fileList, subscrList, runSync, main, queue, built, spawned,
                            stopDelivery>>
    BY DeliveredEffect
  <1>2. <<s, f>> \in received
    BY <1>1 DEF SentReceived
  <1>3. /\ backLog' \in SUBSET Pairs /\ blCount' \in Int /\ blScheduled' \in SUBSET Pairs
        /\ \A r \in Subscribers, g \in Files : Known(r, g) => KnownAfter(r, g)
    <2>1. /\ backLog' = backLog \/ backLog' = backLog \ {<<s, f>>}
          /\ blCount' = blCount \/ blCount' = blCount - 1
          /\ blScheduled' = blScheduled \/ blScheduled' = blScheduled \ {<<s, f>>}
      BY <1>1 DEF Forgotten
    <2>2. backLog' \in SUBSET Pairs /\ blCount' \in Int /\ blScheduled' \in SUBSET Pairs
      BY <2>1 DEF TypeOK
    <2>3. received' = received /\ gone' = gone
      BY <1>1
    <2>4. QED BY <1>2, <2>1, <2>2, <2>3 DEF Known, KnownAfter
  <1>4. {lastMem', lastDb'} \subseteq [Subscribers -> Nat]
    <2>1. Date(f) \in Nat /\ lastDb \in [Subscribers -> Nat] /\ lastMem \in [Subscribers -> Nat]
      BY SubscriptionBounds DEF Date, Files, TypeOK
    <2>2. QED BY <1>1, <2>1
  <1>5. TypeOK'
    <2>1. /\ {start, lastDb, lastMem, sched}' \subseteq [Subscribers -> Nat]
          /\ thr' \in [Subscribers -> [Threads -> ThreadType]]
          /\ row' \in [Subscribers -> [Files -> Statuses]]
      BY <1>1, <1>4 DEF OneThread, RowWritten, OneRow, TypeOK
    <2>2. UNCHANGED <<archived, received, mounted, gone, online, subs, fileList, subscrList,
                      runSync, main, queue, built, spawned, stopDelivery>>
      BY <1>1
    <2>3. QED BY <1>1, <1>3, <2>1, <2>2 DEF TypeOK, SlipsTyped, ThreadType, Waiting, Delivering
  <1>6. SubsStarted' /\ SentReceived' /\ DeliveredRecorded'
    <2>1. SubsStarted' /\ DeliveredRecorded'
      BY <1>1, <1>2 DEF SubsStarted, DeliveredRecorded, RowWritten, OneRow
    <2>2. SentReceived'
      BY <1>1, ThreadStates DEF SentReceived, OneThread
    <2>3. QED BY <2>1, <2>2
  <1>7. LoggedKnown'
    <2>1. ASSUME NEW r \in Subscribers, Member(r)'
          PROVE  /\ main'.pc = "dispatch" => \A i \in main'.req[r] : i.kind = "backlog" => KnownAfter(r, i.file)
                 /\ \A k \in 1 .. Len(queue'[r]) : queue'[r][k].kind = "backlog" => KnownAfter(r, queue'[r][k].file)
                 /\ \A u \in Threads : thr'[r][u] \in Delivering /\ thr'[r][u].item.kind = "backlog"
                                            => KnownAfter(r, thr'[r][u].item.file)
                 /\ \A g \in Files : row'[r][g] = "failed" => KnownAfter(r, g)
      <3>1. Member(r) /\ main' = main /\ queue' = queue
        BY <1>1, <2>1 DEF Member
      <3>2. main.pc = "dispatch" => \A i \in main.req[r] : i.kind = "backlog" => KnownAfter(r, i.file)
        BY <1>3, <3>1 DEF LoggedKnown, TypeOK, Items
      <3>3. \A k \in 1 .. Len(queue[r]) : queue[r][k].kind = "backlog" => KnownAfter(r, queue[r][k].file)
        <4>1. \A k \in 1 .. Len(queue[r]) : queue[r][k] \in Items
          BY DEF TypeOK
        <4>2. \A k \in 1 .. Len(queue[r]) : queue[r][k].file \in Files
          BY <4>1 DEF Items
        <4>3. QED BY <1>3, <3>1, <4>2 DEF LoggedKnown
      <3>4. \A u \in Threads : thr'[r][u] \in Delivering /\ thr'[r][u].item.kind = "backlog"
                                   => KnownAfter(r, thr'[r][u].item.file)
        BY <1>1, <1>3, <3>1, ThreadStates DEF LoggedKnown, OneThread
      <3>5. \A g \in Files : row'[r][g] = "failed" => KnownAfter(r, g)
        BY <1>1, <1>3, <3>1 DEF LoggedKnown, RowWritten, OneRow
      <3>6. QED BY <3>1, <3>2, <3>3, <3>4, <3>5
    <2>2. QED BY <2>1 DEF LoggedKnown, Known, KnownAfter
  <1>8. QED BY <1>5, <1>6, <1>7

\* Recording a failure.
LEMMA NotDeliveredDelivery ==
    ASSUME DeliveryInv, NEW s \in Subscribers, NEW t \in Threads, NotDelivered(s, t)
    PROVE  DeliveryInv'
  <1> USE DEF DeliveryInv
  <1>1. PICK f \in Files :
             /\ thr[s][t] \in Delivering /\ f = thr[s][t].item.file
             /\ OneThread(s, t, Top) /\ RowWritten(s, f, "failed")
             /\ \/ /\ thr[s][t].item.kind = "backlog" /\ blScheduled' = blScheduled \ {<<s, f>>}
                   /\ UNCHANGED <<backLog, blCount>>
                \/ /\ thr[s][t].item.kind = "new" /\ backLog' = backLog \cup {<<s, f>>}
                   /\ blCount' = blCount + 1 /\ UNCHANGED blScheduled
                \/ row' = row /\ UNCHANGED <<backLog, blCount, blScheduled>>
             /\ SlipsTyped
             /\ UNCHANGED <<archived, received, mounted, gone, online, subs, start, lastDb,
                            lastMem, sched, fileList, subscrList, runSync, main, queue,
                            built, spawned, stopDelivery>>
    BY NotDeliveredEffect
  <1>3. /\ backLog' \in SUBSET Pairs /\ blCount' \in Int /\ blScheduled' \in SUBSET Pairs
        /\ \A r, g : Known(r, g) => KnownAfter(r, g)
    BY <1>1 DEF TypeOK, Known, KnownAfter, Pairs
  <1>2. Member(s) /\ row'[s][f] = "failed" => KnownAfter(s, f)
    BY <1>1, <1>3 DEF LoggedKnown, Known, KnownAfter
  <1>4. TypeOK'
    BY <1>1, <1>3 DEF TypeOK, SlipsTyped, OneThread, RowWritten, OneRow, ThreadType, Waiting, Delivering
  <1>5. SubsStarted' /\ SentReceived' /\ DeliveredRecorded'
    <2>1. SubsStarted' /\ DeliveredRecorded'
      BY <1>1 DEF SubsStarted, DeliveredRecorded, RowWritten, OneRow
    <2>2. SentReceived'
      BY <1>1, ThreadStates DEF SentReceived, OneThread
    <2>3. QED BY <2>1, <2>2
  <1>6. LoggedKnown'
    <2>1. ASSUME NEW r \in Subscribers, Member(r)'
          PROVE  /\ main'.pc = "dispatch" => \A i \in main'.req[r] : i.kind = "backlog" => KnownAfter(r, i.file)
                 /\ \A k \in 1 .. Len(queue'[r]) : queue'[r][k].kind = "backlog" => KnownAfter(r, queue'[r][k].file)
                 /\ \A u \in Threads : thr'[r][u] \in Delivering /\ thr'[r][u].item.kind = "backlog"
                                            => KnownAfter(r, thr'[r][u].item.file)
                 /\ \A g \in Files : row'[r][g] = "failed" => KnownAfter(r, g)
      <3>1. Member(r) /\ main' = main /\ queue' = queue
        BY <1>1, <2>1 DEF Member
      <3>2. /\ main.pc = "dispatch" => \A i \in main.req[r] : i.kind = "backlog" => KnownAfter(r, i.file)
            /\ \A k \in 1 .. Len(queue[r]) : queue[r][k].kind = "backlog" => KnownAfter(r, queue[r][k].file)
        BY <1>3, <3>1 DEF LoggedKnown
      <3>4. \A u \in Threads : thr'[r][u] \in Delivering /\ thr'[r][u].item.kind = "backlog"
                                   => KnownAfter(r, thr'[r][u].item.file)
        BY <1>1, <1>3, <3>1, ThreadStates DEF LoggedKnown, OneThread
      <3>5. \A g \in Files : row'[r][g] = "failed" => KnownAfter(r, g)
        BY <1>1, <1>2, <1>3, <3>1 DEF LoggedKnown, RowWritten, OneRow
      <3>6. QED BY <3>1, <3>2, <3>4, <3>5
    <2>2. QED BY <2>1 DEF LoggedKnown, Known, KnownAfter
  <1>7. QED BY <1>4, <1>5, <1>6

-----------------------------------------------------------------------------
\* The invariant holds at first.
LEMMA DeliveryInit == Init => DeliveryInv
  <1> SUFFICES ASSUME Init PROVE DeliveryInv
    OBVIOUS
  <1>1. /\ thr \in [Subscribers -> [Threads -> ThreadType]]
        /\ \A s \in Subscribers, t \in Threads : thr[s][t] = Off
    BY DEF Init, ThreadType
  <1>2. queue \in [Subscribers -> Seq(Items)] /\ \A s \in Subscribers : \A k \in 1 .. Len(queue[s]) : FALSE
    <2>1. <<>> \in Seq(Items) /\ Len(<<>>) = 0
      OBVIOUS
    <2>2. QED BY <2>1 DEF Init
  <1>3. /\ row \in [Subscribers -> [Files -> Statuses]]
        /\ \A s \in Subscribers, f \in Files : row[s][f] = "none"
    BY DEF Init, Statuses
  <1>4. main \in MainType /\ main.pc = "loop"
    BY DEF Init, MainType, Asleep
  <1>5. /\ {start, lastDb, lastMem, sched} \subseteq [Subscribers -> Nat]
        /\ subs = Initial /\ \A s \in Initial : start[s] = 1
    BY SubscribersAssumption DEF Init
  <1>6. TypeOK
    <2>1. /\ archived = 0 /\ received = {} /\ mounted \in BOOLEAN /\ gone = {} /\ online \in BOOLEAN
          /\ fileList = {} /\ subscrList = Initial /\ runSync \in BOOLEAN /\ built = {} /\ backLog = {}
          /\ blCount = 0 /\ dbLost = {} /\ keyLeft = {} /\ miscounts = 0
          /\ blScheduled = {} /\ spawned = {} /\ stopDelivery \in BOOLEAN /\ faults = 0
      BY DEF Init
    <2>2. QED BY <1>1, <1>2, <1>3, <1>4, <1>5, <2>1, SubscribersAssumption, SubscriptionBounds
             DEF TypeOK, MainType, ThreadType, Waiting, Delivering
  <1>7. SubsStarted /\ SentReceived /\ DeliveredRecorded
    BY <1>1, <1>3, <1>5, ThreadStates DEF SubsStarted, SentReceived, DeliveredRecorded
  <1>8. LoggedKnown
    BY <1>1, <1>2, <1>3, <1>4, ThreadStates DEF LoggedKnown
  <1>9. QED BY <1>6, <1>7, <1>8 DEF DeliveryInv

\* Every step keeps it.
LEMMA DeliveryStep == DeliveryInv /\ [Next]_vars => DeliveryInv'
  <1> SUFFICES ASSUME DeliveryInv, [Next]_vars PROVE DeliveryInv'
    OBVIOUS
  <1>1. CASE UNCHANGED vars
    BY <1>1 DEF vars, worldVars, subVars, listVars, queueVars, blVars, slipVars, thrVars, DeliveryInv, TypeOK,
       SubsStarted, SentReceived, DeliveredRecorded, LoggedKnown, Known, Member
  <1>2. CASE FileArchived \/ Trigger
    BY <1>2, ArchivedDelivery, TriggerDelivery
  <1>3. ASSUME NEW s \in Subscribers, Subscribe(s, 1) \/ Subscribe(s, Now) \/ Unsubscribe(s) \/ Usubscribe(s)
        PROVE  DeliveryInv'
    BY <1>3, SubscribeDelivery, UnsubscribeDelivery, UsubscribeDelivery
  <1>4. CASE MainStep
    BY <1>4, SuspendDelivery, WakeUpDelivery, SelectDelivery, SelectFailsDelivery,
       DispatchEndsDelivery, DispatchDelivery DEF MainStep
  <1>5. ASSUME NEW s \in Subscribers, NEW t \in Threads, ThreadStep(s, t)
        PROVE  DeliveryInv'
    BY <1>5, CheckStopDelivery, GetDelivery, PostDelivery, DeliveredDelivery,
       NotDeliveredDelivery DEF ThreadStep
  <1>6. CASE Offline \/ Online \/ Crash \/ Unmount \/ Mount
    BY <1>6, OfflineDelivery, OnlineDelivery, CrashDelivery, UnmountDelivery, MountDelivery
  <1>7. ASSUME NEW f \in Files, Remove(f)
        PROVE  DeliveryInv'
    BY <1>7, RemoveDelivery
  <1>8. QED BY <1>1, <1>2, <1>3, <1>4, <1>5, <1>6, <1>7 DEF Next

\* The state keeps its shape; in particular no Delivery Thread ever delivers an item that
\* _convertFileInfo cannot convert, or nothing.
THEOREM TypeCorrect == Spec => []TypeOK
  <1>1. DeliveryInv => TypeOK
    BY DEF DeliveryInv
  <1>2. QED BY <1>1, DeliveryInit, DeliveryStep, PTL DEF Spec

\* Whatever commands come, whatever fails and whenever the server is stopped or killed: a
\* file recorded as delivered was received, and one whose delivery failed is in the
\* back-log unless the Subscriber got it or the file is gone.
THEOREM DeliveriesRecorded == Spec => [](DeliveredRecorded /\ FailedBackLogged)
  <1>1. DeliveryInv => DeliveredRecorded /\ FailedBackLogged
    BY DEF DeliveryInv, TypeOK, LoggedKnown, Member, Known, FailedBackLogged
  <1>2. QED BY <1>1, DeliveryInit, DeliveryStep, PTL DEF Spec

-----------------------------------------------------------------------------
(* The same steps when no statement fails.                                 *)

LEMMA GetServed ==
    ASSUME "db" \notin Events, TypeOK, NEW s \in Subscribers, NEW t \in Threads, Get(s, t)
    PROVE  \E item \in Items :
             /\ queue[s] # <<>> /\ item = queue[s][1] /\ 1 \in 1 .. Len(queue[s]) /\ Dropped(s)
             /\ thr[s][t].pc = "get"
             /\ \/ /\ item.kind = "loaded" /\ OneThread(s, t, Top)
                   /\ UNCHANGED <<row, backLog, blCount, blScheduled, keyLeft>>
                \/ /\ item.kind = "backlog" /\ Missing(item.file) /\ OneThread(s, t, Top)
                   /\ Forgotten(s, item.file) \/ UNCHANGED <<backLog, blCount>>
                   /\ keyLeft' = keyLeft \cup {<<s, item.file>>}
                   /\ UNCHANGED <<row, blScheduled>>
                \/ /\ item.kind \in {"new", "backlog"}
                   /\ OneThread(s, t, [pc |-> "posting", item |-> item])
                   /\ [pc |-> "posting", item |-> item] \in Delivering
                   /\ OneRow(s, item.file, "delivering")
                   /\ UNCHANGED <<backLog, blCount, blScheduled, keyLeft>>
             /\ UNCHANGED <<archived, received, mounted, gone, online, subs, start, lastDb,
                            lastMem, sched, fileList, subscrList, runSync, main, built,
                            spawned, stopDelivery>>
  BY GetEffect DEF RowWritten, EntryDeleted

LEMMA DeliveredServed ==
    ASSUME "db" \notin Events, TypeOK, NEW s \in Subscribers, NEW t \in Threads, Delivered(s, t)
    PROVE  \E f \in Files :
             /\ thr[s][t] \in Delivering /\ f = thr[s][t].item.file
             /\ OneThread(s, t, Top) /\ OneRow(s, f, "delivered")
             /\ lastMem' = [lastMem EXCEPT ![s] = Date(f)]
             /\ lastDb' = lastDb \/ lastDb' = [lastDb EXCEPT ![s] = Date(f)]
             /\ \/ /\ thr[s][t].item.kind = "backlog" /\ Forgotten(s, f)
                   /\ blScheduled' = blScheduled \ {<<s, f>>}
                \/ thr[s][t].item.kind = "new" /\ UNCHANGED <<backLog, blCount, blScheduled>>
             /\ UNCHANGED <<archived, received, mounted, gone, online, subs, start, sched,
                            fileList, subscrList, runSync, main, queue, built, keyLeft,
                            spawned, stopDelivery>>
  BY DeliveredEffect DEF RowWritten

LEMMA NotDeliveredServed ==
    ASSUME "db" \notin Events, TypeOK, NEW s \in Subscribers, NEW t \in Threads, NotDelivered(s, t)
    PROVE  \E f \in Files :
             /\ thr[s][t] \in Delivering /\ f = thr[s][t].item.file
             /\ OneThread(s, t, Top) /\ OneRow(s, f, "failed")
             /\ \/ /\ thr[s][t].item.kind = "backlog" /\ blScheduled' = blScheduled \ {<<s, f>>}
                   /\ UNCHANGED <<backLog, blCount>>
                \/ /\ thr[s][t].item.kind = "new" /\ backLog' = backLog \cup {<<s, f>>}
                   /\ blCount' = blCount + 1 /\ UNCHANGED blScheduled
             /\ UNCHANGED <<archived, received, mounted, gone, online, subs, start, lastDb,
                            lastMem, sched, fileList, subscrList, runSync, main, queue,
                            built, keyLeft, spawned, stopDelivery>>
  BY NotDeliveredEffect DEF RowWritten

-----------------------------------------------------------------------------
(* Nothing is passed over.                                                 *)

\* The commands and faults under which no file is passed over.  Another Subscriber that
\* comes, goes or is updated during a round, or a DB query that fails, may cost files.
Steady == /\ Events \cap {"db", "subscribe", "unsubscribe"} = {}
          /\ "usubscribe" \in Events => \E s : Initial = {s}

HasRow(s, f) == row[s][f] # "none"

SteadySubs == subs = Initial /\ \A s \in Initial : start[s] = 1

\* What the Subscription Thread has been given and has taken.
ListsTaken ==
    /\ ~online => main.pc = "off"
    /\ subscrList \in {{}, Initial} /\ fileList \subseteq 1 .. archived
    /\ main.pc = "taken" => /\ main.objs \in {{}, Initial} /\ main.files \subseteq 1 .. archived
                            /\ main.done = {}
                            /\ \A f \in fileList, g \in main.files : g < f
    /\ main.pc = "dispatch" /\ main.done # {} => main.size = Cardinality(Initial)

\* The files that have a row are the first ones archived.
RowsPrefix ==
    \A s \in Initial, f \in Files :
        HasRow(s, f) => f <= archived /\ \A g \in Files : g < f => HasRow(s, g)

\* They stay so when the round of s is done.
ReqPrefix ==
    main.pc = "dispatch" =>
        \A s \in Initial \ main.done : \A i \in main.req[s] :
            /\ i.file <= archived
            /\ \A g \in Files : g < i.file => HasRow(s, g) \/ \E j \in main.req[s] : j.file = g

\* A row stays, and what is being delivered has one.
ItemsRowed ==
    \A s \in Initial :
        /\ \A k \in 1 .. Len(queue[s]) : HasRow(s, queue[s][k].file)
        /\ \A t \in Threads : thr[s][t] \in Delivering => HasRow(s, thr[s][t].item.file)
        /\ \A f \in Files : <<s, f>> \in backLog => HasRow(s, f)

\* The dates by which files are left out are those of files that have a row.
DateRowed(s, d) == d = 0 \/ \E f \in Files : d = Date(f) /\ HasRow(s, f)
DatesRowed == \A s \in Initial : DateRowed(s, lastDb[s]) /\ DateRowed(s, lastMem[s]) /\ DateRowed(s, sched[s])

\* A file without a row is about to get one, or the Subscribers will be checked.
Pending ==
    \A s \in Initial, f \in 1 .. archived :
        HasRow(s, f) \/ f \in fileList \/ ~online
        \/ (main.pc \notin {"taken", "dispatch"} /\ subscrList = Initial)
        \/ (main.pc = "taken" /\ (f \in main.files \/ main.objs = Initial))
        \/ (main.pc = "dispatch" /\ s \notin main.done /\ \E i \in main.req[s] : i.file = f)

RoundPart == SteadySubs /\ ListsTaken /\ RowsPrefix /\ ReqPrefix /\ ItemsRowed /\ DatesRowed /\ Pending
RoundInv == DeliveryInv /\ RoundPart

\* A date by which files are left out is before that of a file without a row.
LEMMA DateBefore ==
    ASSUME RowsPrefix, NEW s \in Initial, NEW f \in Files, ~HasRow(s, f), NEW d, DateRowed(s, d)
    PROVE  d \in Nat /\ d < Date(f)
  <1>1. f \in Nat /\ f >= 1 /\ MaxFiles \in Nat
    BY SubscriptionBounds DEF Files
  <1>2. CASE d = 0
    BY <1>1, <1>2 DEF Date
  <1>3. ASSUME NEW g \in Files, d = Date(g), HasRow(s, g)
        PROVE  d \in Nat /\ d < Date(f)
    <2>1. g # f /\ ~(f < g)
      BY <1>3 DEF RowsPrefix
    <2>2. QED BY <1>1, <1>3, <2>1 DEF Date, Files
  <1>4. QED BY <1>2, <1>3 DEF DateRowed

\* A file without a row that was given, or that is to be looked for, is selected.
LEMMA SelectedNew ==
    ASSUME RoundInv, main.pc = "taken", NEW s \in Initial, NEW f \in 1 .. archived, ~HasRow(s, f),
           f \in main.files \/ main.objs = Initial
    PROVE  f \in NewFiles(s)
  <1> USE DEF RoundInv, RoundPart
  <1>1. f \in Files /\ f \in Nat /\ f >= 1 /\ s \in Subscribers /\ s \in subs /\ start[s] = 1
    BY SubscribersAssumption, SubscriptionBounds DEF DeliveryInv, TypeOK, Files, SteadySubs
  <1>2. /\ DateRowed(s, lastDb[s]) /\ DateRowed(s, lastMem[s]) /\ DateRowed(s, sched[s])
        /\ RowsPrefix
    BY DEF DatesRowed
  <1>3. /\ lastDb[s] \in Nat /\ lastDb[s] < Date(f) /\ lastMem[s] \in Nat /\ lastMem[s] < Date(f)
        /\ sched[s] \in Nat /\ sched[s] < Date(f)
    BY <1>1, <1>2, DateBefore
  <1>4. Date(f) >= start[s] /\ start[s] < Date(f) /\ Date(f) \in Nat
    BY <1>1 DEF Date
  <1>5. CheckIfDeliver(s, f, TRUE) /\ CheckIfDeliver(s, f, FALSE)
    BY <1>3, <1>4 DEF CheckIfDeliver, LastDelivery
  <1>6. CASE main.objs = {}
    BY <1>1, <1>5, <1>6 DEF NewFiles, Candidates
  <1>7. CASE main.objs = Initial
    <2> DEFINE date(r) == IF lastMem[r] # 0 THEN lastMem[r] ELSE start[r]
               dates == {date(r) : r \in main.objs}
    <2>1. dates \in SUBSET Nat /\ date(s) \in dates /\ dates # {}
      BY <1>7, SubscribersAssumption DEF DeliveryInv, TypeOK
    <2>2. PICK d \in dates : \A e \in dates : d <= e
      BY <2>1, LeastNumber
    <2>3. MinDate(main.objs) = CHOOSE d2 \in dates : \A e \in dates : d2 <= e
      BY DEF MinDate
    <2>4. MinDate(main.objs) \in dates /\ \A e \in dates : MinDate(main.objs) <= e
      BY <2>2, <2>3
    <2>5. date(s) < Date(f) /\ date(s) \in Nat
      BY <1>1, <1>3, <1>4
    <2>6. MinDate(main.objs) <= date(s) /\ MinDate(main.objs) \in Nat
      BY <2>1, <2>4
    <2> HIDE DEF date, dates
    <2>7. Date(f) > MinDate(main.objs)
      BY <1>4, <2>5, <2>6
    <2>8. f \in Candidates
      BY <1>7, <2>7 DEF Candidates
    <2>9. QED BY <1>5, <1>7, <2>8 DEF NewFiles
  <1>8. QED BY <1>6, <1>7 DEF ListsTaken

\* A step that changes neither the lists nor the Subscription Thread, and no row into or
\* from none, leaves most of it alone.
LEMMA RowsKept ==
    ASSUME RoundInv, UNCHANGED <<archived, online, subs, start, fileList, subscrList, main>>,
           \A s \in Initial, f \in Files : row'[s][f] # "none" <=> row[s][f] # "none"
    PROVE  SteadySubs' /\ ListsTaken' /\ RowsPrefix' /\ ReqPrefix' /\ Pending'
  <1> USE DEF RoundInv, RoundPart, HasRow
  <1>1. SteadySubs'
    BY DEF SteadySubs
  <1>2. ListsTaken'
    BY DEF ListsTaken
  <1>3. RowsPrefix'
    BY DEF RowsPrefix
  <1>4. ReqPrefix'
    BY DEF ReqPrefix
  <1>5. \A f \in 1 .. archived : f \in Files
    BY SubscriptionBounds DEF DeliveryInv, TypeOK, Files
  <1>6. Pending'
    BY <1>5 DEF Pending
  <1>7. QED BY <1>1, <1>2, <1>3, <1>4, <1>6

\* A step that changes neither rows nor items nor dates.
LEMMA ItemsKept ==
    ASSUME RoundInv, UNCHANGED <<row, queue, thr, backLog, lastDb, lastMem, sched>>
    PROVE  ItemsRowed' /\ DatesRowed'
  BY DEF RoundInv, RoundPart, ItemsRowed, DatesRowed, DateRowed, HasRow

\* Files and Subscribers are given, and the disk changes.
LEMMA OutsideRound ==
    ASSUME Steady, RoundInv,
           FileArchived \/ Trigger \/ Unmount \/ Mount \/ (\E f \in Files : Remove(f))
             \/ \E s \in Subscribers : Usubscribe(s)
    PROVE  RoundPart'
  <1> USE DEF RoundInv, RoundPart
  <1>1. UNCHANGED <<row, queue, thr, backLog, lastDb, lastMem, sched, online, subs, start, main>>
    BY DEF FileArchived, Trigger, Unmount, Mount, Remove, Usubscribe, worldVars, subVars, listVars,
       queueVars, blVars, slipVars, thrVars
  <1>2. ItemsRowed' /\ DatesRowed' /\ SteadySubs'
    BY <1>1, ItemsKept DEF SteadySubs
  <1>3. CASE archived' = archived /\ fileList' = fileList /\ subscrList' = subscrList
    BY <1>1, <1>2, <1>3, RowsKept
  <1>4. CASE FileArchived
    <2>1. /\ online /\ archived \in Nat /\ archived' = archived + 1
          /\ fileList' = fileList \cup {archived + 1} /\ subscrList' = subscrList
      BY <1>4 DEF FileArchived, Schedule, DeliveryInv, TypeOK
    <2>2. ListsTaken'
      BY <1>1, <2>1 DEF ListsTaken
    <2>a. \A f \in Files : f \in Nat
      BY DEF Files
    <2>b. \A s \in Initial : \A i \in main.req[s] : i.file \in Files
      BY SubscribersAssumption DEF DeliveryInv, TypeOK, Items
    <2>3. RowsPrefix' /\ ReqPrefix'
      <3>1. RowsPrefix'
        BY <1>1, <2>1, <2>a DEF RowsPrefix, HasRow
      <3>2. ReqPrefix'
        BY <1>1, <2>1, <2>a, <2>b DEF ReqPrefix, HasRow
      <3>3. QED BY <3>1, <3>2
    <2>4. Pending'
      BY <1>1, <2>1 DEF Pending, HasRow
    <2>5. QED BY <1>2, <2>2, <2>3, <2>4
  <1>5. ASSUME NEW s \in Subscribers, Usubscribe(s)
        PROVE  RoundPart'
    <2>1. /\ archived' = archived /\ fileList' = fileList /\ subscrList' = subscrList \cup {s}
          /\ s \in subs /\ "usubscribe" \in Events
      BY <1>5 DEF Usubscribe, Schedule, Fault, worldVars
    <2>2. subscrList' = Initial
      BY <2>1 DEF Steady, ListsTaken, SteadySubs
    <2>3. ListsTaken'
      BY <1>1, <2>1, <2>2 DEF ListsTaken
    <2>4. RowsPrefix' /\ ReqPrefix'
      BY <1>1, <2>1 DEF RowsPrefix, ReqPrefix, HasRow
    <2>5. Pending'
      BY <1>1, <2>1, <2>2 DEF Pending, HasRow
    <2>6. QED BY <1>2, <2>3, <2>4, <2>5
  <1>6. QED BY <1>3, <1>4, <1>5 DEF Trigger, Schedule, Unmount, Mount, Remove, listVars, worldVars

\* The Subscription Thread goes to sleep and takes the lists.
LEMMA WakeUpRound ==
    ASSUME RoundInv, Suspend \/ WakeUp
    PROVE  RoundPart'
  <1> USE DEF RoundInv, RoundPart
  <1>1. UNCHANGED <<row, queue, thr, backLog, lastDb, lastMem, sched, online, subs, start, archived>>
    BY DEF Suspend, WakeUp, worldVars, subVars, listVars, queueVars, blVars, slipVars, thrVars
  <1>2. ItemsRowed' /\ DatesRowed' /\ SteadySubs' /\ RowsPrefix'
    BY <1>1, ItemsKept DEF SteadySubs, RowsPrefix, HasRow
  <1>3. main.pc \in {"loop", "timed", "untimed"}
    BY DEF Suspend, WakeUp
  <1>4. CASE Suspend
    <2>1. main'.pc \in {"timed", "untimed"} /\ fileList' = fileList /\ subscrList' = subscrList
      <3>1. PICK label \in {"timed", "untimed"} : Main(label)
        BY <1>4 DEF Suspend
      <3>2. QED BY <1>4, <3>1, MainLabel DEF Suspend, listVars
    <2>2. ListsTaken' /\ ReqPrefix' /\ Pending'
      BY <1>1, <1>3, <2>1 DEF ListsTaken, ReqPrefix, Pending, HasRow
    <2>3. QED BY <1>2, <2>2
  <1>5. CASE WakeUp
    <2>1. fileList' = {} /\ subscrList' = {}
      BY <1>5 DEF WakeUp
    <2>2. CASE subs = {} /\ subscrList = {}
      <3>1. main'.pc = "loop"
        BY <1>5, <2>2, MainLabel DEF WakeUp
      <3>2. ListsTaken' /\ ReqPrefix' /\ Pending'
        BY <1>1, <1>3, <2>1, <2>2, <3>1 DEF ListsTaken, ReqPrefix, Pending, SteadySubs
      <3>3. QED BY <1>2, <3>2
    <2>3. CASE ~(subs = {} /\ subscrList = {})
      <3>1. Asleep \in MainType /\ Asleep.done = {}
        BY DEF Asleep, MainType
      <3>2. main' = [Asleep EXCEPT !.pc = "taken", !.files = fileList, !.objs = subscrList]
        BY <1>5, <2>3 DEF WakeUp
      <3>3. main'.pc = "taken" /\ main'.files = fileList /\ main'.objs = subscrList /\ main'.done = {}
        BY <3>1, <3>2 DEF MainType
      <3>4. ListsTaken'
        BY <1>1, <1>3, <2>1, <3>3 DEF ListsTaken
      <3>5. ReqPrefix'
        BY <3>3 DEF ReqPrefix
      <3>6. Pending'
        BY <1>1, <1>3, <2>1, <3>3 DEF Pending, ListsTaken, HasRow
      <3>7. QED BY <1>2, <3>4, <3>5, <3>6
    <2>4. QED BY <2>2, <2>3
  <1>6. QED BY <1>4, <1>5

\* No selection fails.
LEMMA SelectionSucceeds ==
    ASSUME Steady, RoundInv
    PROVE  ~SelectFails
  BY DEF Steady, RoundInv, RoundPart, SelectFails, Fault, UnknownSubscriber, SteadySubs, ListsTaken

\* It selects a beginning of what was archived.
LEMMA SelectRound ==
    ASSUME RoundInv, Select
    PROVE  RoundPart'
  <1> USE DEF RoundInv, RoundPart
  <1>1. /\ UNCHANGED <<row, queue, thr, backLog, lastDb, lastMem, sched, online, subs, start, archived,
                       fileList, subscrList>>
        /\ main.pc = "taken"
    BY DEF Select, worldVars, subVars, listVars, queueVars, blVars, slipVars, thrVars
  <1>2. ItemsRowed' /\ DatesRowed' /\ SteadySubs' /\ RowsPrefix'
    BY <1>1, ItemsKept DEF SteadySubs, RowsPrefix, HasRow
  <1>3. /\ main'.pc = "dispatch" /\ main'.done = {} /\ main'.files = main.files
        /\ main'.req = [s \in Subscribers |-> DeliverReq(s)]
    <2>1. main \in MainType
      BY DEF DeliveryInv, TypeOK, MainType
    <2>2. main' = [main EXCEPT !.pc = "dispatch", !.req = [s \in Subscribers |-> DeliverReq(s)]]
      BY DEF Select
    <2>3. main.done = {}
      BY <1>1 DEF ListsTaken
    <2>4. QED BY <2>1, <2>2, <2>3 DEF MainType
  <1>4. ASSUME NEW s \in Initial, NEW f \in 1 .. archived, ~HasRow(s, f),
               f \in main.files \/ main.objs = Initial
        PROVE  \E j \in DeliverReq(s) : j.file = f
    <2>a. f \in Files
      BY SubscriptionBounds DEF DeliveryInv, TypeOK, Files
    <2>b. f \in NewFiles(s)
      BY <1>1, <1>4, SelectedNew
    <2>1. f \in NewFiles(s) /\ f \in Files
      BY <2>a, <2>b
    <2>2. CASE <<s, f>> \in backLog
      <3>1. [file |-> f, kind |-> "backlog"] \in DeliverReq(s)
        BY <2>1, <2>2 DEF DeliverReq
      <3>2. QED BY <3>1
    <2>3. CASE <<s, f>> \notin backLog
      <3>1. [file |-> f, kind |-> "new"] \in DeliverReq(s)
        BY <2>1, <2>3 DEF DeliverReq
      <3>2. QED BY <3>1
    <2>4. QED BY <2>2, <2>3
  <1>5. ListsTaken'
    BY <1>1, <1>3 DEF ListsTaken
  <1>6. ReqPrefix'
    <2>1. ASSUME NEW s \in Initial, NEW i \in DeliverReq(s)
          PROVE  /\ i.file <= archived
                 /\ \A g \in Files : g < i.file => HasRow(s, g) \/ \E j \in DeliverReq(s) : j.file = g
      <3>1. \/ i.file \in NewFiles(s)
            \/ <<s, i.file>> \in backLog /\ i.file \in Files
        BY DEF DeliverReq
      <3>2. CASE <<s, i.file>> \in backLog /\ i.file \in Files
        BY <3>2 DEF ItemsRowed, RowsPrefix
      <3>3. CASE i.file \in NewFiles(s)
        <4>1. i.file \in Candidates
          BY <3>3 DEF NewFiles
        <4>2. Candidates \subseteq 1 .. archived
          BY <1>1 DEF Candidates, ListsTaken
        <4>3. ASSUME NEW g \in Files, g < i.file, ~HasRow(s, g)
              PROVE  \E j \in DeliverReq(s) : j.file = g
          <5>1. g \in 1 .. archived
            BY <4>1, <4>2, <4>3, SubscriptionBounds DEF Files, DeliveryInv, TypeOK
          <5>2. g \in fileList \/ g \in main.files \/ main.objs = Initial
            BY <1>1, <4>3, <5>1 DEF Pending, ListsTaken
          <5>3. CASE main.objs = {}
            <6>1. i.file \in main.files
              BY <4>1, <5>3 DEF Candidates
            <6>2. g \notin fileList
              <7>1. \A h \in fileList : i.file < h /\ h \in Nat
                BY <1>1, <6>1 DEF ListsTaken
              <7>a. i.file \in 1 .. archived
                BY <4>1, <4>2
              <7>2. i.file \in Nat /\ g \in Nat
                BY <5>1, <7>a
              <7>3. QED BY <4>3, <7>1, <7>2
            <6>3. QED BY <1>4, <4>3, <5>1, <5>2, <6>2
          <5>4. CASE main.objs = Initial
            BY <1>4, <4>3, <5>1, <5>4
          <5>5. QED BY <1>1, <5>3, <5>4 DEF ListsTaken
        <4>4. i.file <= archived
          BY <4>1, <4>2 DEF DeliveryInv, TypeOK
        <4>5. QED BY <4>3, <4>4
      <3>4. QED BY <3>1, <3>2, <3>3
    <2>2. \A s \in Initial : s \in Subscribers /\ main'.req[s] = DeliverReq(s)
      BY <1>3, SubscribersAssumption
    <2>3. QED BY <1>1, <2>1, <2>2 DEF ReqPrefix, HasRow
  <1>7. Pending'
    <2>1. \A s \in Initial : s \in Subscribers /\ main'.req[s] = DeliverReq(s)
      BY <1>3, SubscribersAssumption
    <2>2. ASSUME NEW s \in Initial, NEW f \in 1 .. archived, ~HasRow(s, f), f \notin fileList
          PROVE  \E j \in main'.req[s] : j.file = f
      BY <1>1, <1>4, <2>1, <2>2 DEF Pending, ListsTaken
    <2>3. QED BY <1>1, <1>3, <2>2 DEF Pending, HasRow
  <1>8. QED BY <1>2, <1>5, <1>6, <1>7

\* The round of a Subscriber.
LEMMA DispatchRound ==
    ASSUME "db" \notin Events, RoundInv, NEW s \in Subscribers, Dispatch(s)
    PROVE  RoundPart'
  <1> USE DEF RoundInv, RoundPart
  <1>0. TypeOK
    BY DEF DeliveryInv
  <1>1. RowsDispatched(s) /\ QueueDispatched(s)
    BY <1>0, DispatchRows, DispatchQueue
  <1>2. /\ main.pc = "dispatch" /\ s \in Initial /\ s \notin main.done
        /\ main'.pc = "dispatch" /\ main'.req = main.req
        /\ main'.done = main.done \cup {s}
        /\ main'.size = IF main.done = {} THEN Cardinality(Initial) ELSE main.size
        /\ UNCHANGED <<archived, online, subs, start, lastDb, lastMem, fileList, subscrList, backLog>>
    BY <1>0, DispatchRest DEF SteadySubs
  <1>3. /\ \A r \in Subscribers : r # s => sched'[r] = sched[r]
        /\ sched'[s] = sched[s] \/ \E i \in main.req[s] : sched'[s] = Date(i.file)
    BY <1>0, DispatchRest
  <1>4. \A r \in Subscribers, t \in Threads : thr'[r][t] = thr[r][t] \/ thr'[r][t] \notin Delivering
    <2>1. thr \in [Subscribers -> [Threads -> ThreadType]] /\ Top \notin Delivering
      BY <1>0, ThreadStates DEF TypeOK, ThreadType, Waiting, Delivering
    <2>2. CASE thr' = [thr EXCEPT ![s] = [t \in Threads |-> Top]]
      BY <2>1, <2>2
    <2>3. QED BY <1>0, <2>2, DispatchRest
  <1>5. /\ \A r \in Initial, f \in Files : HasRow(r, f) => row'[r][f] # "none"
        /\ \A r \in Initial, f \in Files : r # s => (HasRow(r, f) <=> row'[r][f] # "none")
        /\ \A f \in Files : row'[s][f] # "none" => HasRow(s, f) \/ \E i \in main.req[s] : i.file = f
        /\ \A i \in main.req[s] : i.file \in Files /\ row'[s][i.file] # "none"
    <2>1. \A i \in main.req[s] : i.file \in Files
      BY <1>0 DEF TypeOK, Items
    <2>2. QED BY <1>1, <2>1, SubscribersAssumption DEF RowsDispatched, HasRow
  <1>6. SteadySubs' /\ ListsTaken'
    BY <1>2 DEF SteadySubs, ListsTaken
  <1>7. RowsPrefix'
    BY <1>2, <1>5 DEF RowsPrefix, ReqPrefix, HasRow
  <1>8. ReqPrefix'
    BY <1>2, <1>5 DEF ReqPrefix, HasRow
  <1>9. ItemsRowed'
    <2>1. ASSUME NEW r \in Initial
          PROVE  /\ \A k \in 1 .. Len(queue'[r]) : row'[r][queue'[r][k].file] # "none"
                 /\ \A t \in Threads : thr'[r][t] \in Delivering => row'[r][thr'[r][t].item.file] # "none"
                 /\ \A f \in Files : <<r, f>> \in backLog' => row'[r][f] # "none"
      <3>0. r \in Subscribers
        BY SubscribersAssumption
      <3>1. \A k \in 1 .. Len(queue[r]) : queue[r][k].file \in Files /\ row'[r][queue[r][k].file] # "none"
        <4>1. \A k \in 1 .. Len(queue[r]) : queue[r][k] \in Items
          BY <1>0, <3>0 DEF TypeOK
        <4>2. \A k \in 1 .. Len(queue[r]) : queue[r][k].file \in Files
          BY <4>1 DEF Items
        <4>3. QED BY <1>5, <4>2 DEF ItemsRowed
      <3>2. ASSUME NEW k \in 1 .. Len(queue'[r]) PROVE row'[r][queue'[r][k].file] # "none"
        <4>1. CASE r # s
          BY <1>1, <3>0, <3>1, <4>1 DEF QueueDispatched
        <4>2. CASE r = s
          <5>1. queue'[s][k] \in Items
            BY <1>1, <3>2, <4>2 DEF QueueDispatched
          <5>2. queue'[s][k].file \in Files
            BY <5>1 DEF Items
          <5>3. CASE row[s][queue'[s][k].file] \in {"scheduled", "delivering"}
            BY <1>5, <1>2, <4>2, <5>2, <5>3 DEF HasRow
          <5>4. CASE queue'[s][k] \in Accepted(s)
            BY <1>5, <4>2, <5>4 DEF Accepted
          <5>5. CASE \E j \in 1 .. Len(queue[s]) : queue'[s][k] = queue[s][j]
            BY <3>1, <4>2, <5>5
          <5>6. QED BY <1>1, <3>2, <4>2, <5>3, <5>4, <5>5 DEF QueueDispatched
        <4>3. QED BY <4>1, <4>2
      <3>3. \A t \in Threads : thr'[r][t] \in Delivering => row'[r][thr'[r][t].item.file] # "none"
        BY <1>4, <1>5, <3>0, ThreadStates DEF ItemsRowed
      <3>4. \A f \in Files : <<r, f>> \in backLog' => row'[r][f] # "none"
        BY <1>2, <1>5 DEF ItemsRowed
      <3>5. QED BY <3>2, <3>3, <3>4
    <2>2. QED BY <2>1 DEF ItemsRowed, HasRow
  <1>10. DatesRowed'
    <2>1. ASSUME NEW r \in Initial
          PROVE  DateRowed(r, lastDb[r])' /\ DateRowed(r, lastMem[r])' /\ DateRowed(r, sched[r])'
      <3>0. r \in Subscribers /\ lastDb'[r] = lastDb[r] /\ lastMem'[r] = lastMem[r]
        BY <1>2, SubscribersAssumption
      <3>1. DateRowed(r, lastDb[r])' /\ DateRowed(r, lastMem[r])'
        BY <1>5, <3>0 DEF DatesRowed, DateRowed, HasRow
      <3>2. DateRowed(r, sched[r])'
        BY <1>3, <1>5, <3>0 DEF DatesRowed, DateRowed, HasRow
      <3>3. QED BY <3>1, <3>2
    <2>2. QED BY <2>1 DEF DatesRowed
  <1>11. Pending'
    <2>1. \A f \in 1 .. archived : f \in Files
      BY <1>0, SubscriptionBounds DEF TypeOK, Files
    <2>2. QED BY <1>2, <1>5, <2>1 DEF Pending, HasRow
  <1>12. QED BY <1>6, <1>7, <1>8, <1>9, <1>10, <1>11

\* The round ends when every Subscriber had its turn.
LEMMA DispatchEndsRound ==
    ASSUME RoundInv, DispatchEnds
    PROVE  RoundPart'
  <1> USE DEF RoundInv, RoundPart
  <1>1. /\ UNCHANGED <<row, queue, thr, backLog, lastDb, lastMem, sched, online, subs, start, archived,
                       fileList, subscrList>>
        /\ main.pc = "dispatch"
    BY DEF DispatchEnds, worldVars, subVars, listVars, queueVars, blVars, slipVars, thrVars
  <1>2. ItemsRowed' /\ DatesRowed' /\ SteadySubs' /\ RowsPrefix'
    BY <1>1, ItemsKept DEF SteadySubs, RowsPrefix, HasRow
  <1>3. main'.pc = "loop" /\ Initial \subseteq main.done
    BY <1>1, MainLabel DEF DispatchEnds, Changed, ListsTaken, SteadySubs
  <1>4. ListsTaken' /\ ReqPrefix' /\ Pending'
    BY <1>1, <1>3 DEF ListsTaken, ReqPrefix, Pending, HasRow
  <1>5. QED BY <1>2, <1>4

\* The server stops, starts, or is killed and restarted.
LEMMA RestartRound ==
    ASSUME RoundInv, Offline \/ Online \/ Crash
    PROVE  RoundPart'
  <1> USE DEF RoundInv, RoundPart
  <1>1. UNCHANGED <<row, backLog, lastDb, subs, start, archived>>
    BY DEF Offline, Online, Crash, worldVars, subVars, queueVars, blVars, slipVars
  <1>2. SteadySubs' /\ RowsPrefix'
    BY <1>1 DEF SteadySubs, RowsPrefix, HasRow
  <1>3. CASE Offline
    <2>1. UNCHANGED <<queue, thr, lastMem, sched, fileList, subscrList>>
      BY <1>3 DEF Offline, subVars, listVars, queueVars
    <2>2. ~online' /\ main'.pc = "off"
      BY <1>3, MainLabel DEF Offline
    <2>3. ListsTaken' /\ ReqPrefix' /\ Pending'
      BY <1>1, <2>1, <2>2 DEF ListsTaken, ReqPrefix, Pending
    <2>4. QED BY <1>1, <1>2, <2>1, <2>3, ItemsKept
  <1>4. CASE Online
    <2>1. UNCHANGED <<queue, thr, sched, fileList>> /\ subscrList' = subscrList \cup subs
      BY <1>4 DEF Online, Schedule, queueVars
    <2>2. online' /\ main'.pc = "loop" /\ subscrList' = Initial
      BY <1>4, <2>1, MainLabel DEF Online, SteadySubs, ListsTaken
    <2>3. ListsTaken' /\ ReqPrefix' /\ Pending'
      BY <1>1, <2>1, <2>2 DEF ListsTaken, ReqPrefix, Pending
    <2>4. \A s \in Initial : lastMem'[s] = lastDb[s]
      BY <1>4, SubscribersAssumption DEF Online, ReadSubscribers, SteadySubs
    <2>5. ItemsRowed' /\ DatesRowed'
      BY <1>1, <2>1, <2>4 DEF ItemsRowed, DatesRowed, DateRowed, HasRow
    <2>6. QED BY <1>2, <2>3, <2>5
  <1>5. CASE Crash
    <2>1. /\ fileList' = {} /\ subscrList' = Initial /\ lastMem' = lastDb
          /\ \A s \in Subscribers : sched'[s] = 0 /\ Len(queue'[s]) = 0
          /\ \A s \in Subscribers, t \in Threads : thr'[s][t] = Off
      BY <1>5 DEF Crash, SteadySubs
    <2>2. online' /\ main'.pc = "loop"
      BY <1>5, MainLabel DEF Crash
    <2>3. ListsTaken' /\ ReqPrefix' /\ Pending'
      BY <1>1, <2>1, <2>2 DEF ListsTaken, ReqPrefix, Pending
    <2>4. ItemsRowed'
      <3>1. \A s \in Initial : s \in Subscribers /\ \A k \in 1 .. Len(queue'[s]) : FALSE
        BY <2>1, SubscribersAssumption
      <3>2. \A s \in Initial, t \in Threads : thr'[s][t] \notin Delivering
        BY <2>1, <3>1, ThreadStates
      <3>3. QED BY <1>1, <3>1, <3>2 DEF ItemsRowed, HasRow
    <2>5. DatesRowed'
      BY <1>1, <2>1, SubscribersAssumption DEF DatesRowed, DateRowed, HasRow
    <2>6. QED BY <1>2, <2>3, <2>4, <2>5
  <1>6. QED BY <1>3, <1>4, <1>5

\* What the steps of the Delivery Threads have in common: the rows they write are there.
LEMMA ThreadRound ==
    ASSUME RoundInv, NEW s \in Subscribers, NEW t \in Threads,
           UNCHANGED <<archived, online, subs, start, fileList, subscrList, main, sched>>,
           row' = row \/ \E f \in Files, x \in Statuses \ {"none"} :
                            OneRow(s, f, x) /\ (s \in Initial => HasRow(s, f)),
           queue' = queue \/ Dropped(s),
           NEW x \in ThreadType, OneThread(s, t, x),
           x \in Delivering => (s \in Initial => HasRow(s, x.item.file)),
           \A r \in Initial, f \in Files : <<r, f>> \in backLog' => HasRow(r, f),
           \A r \in Initial : DateRowed(r, lastDb'[r]) /\ DateRowed(r, lastMem'[r])
    PROVE  RoundPart'
  <1> USE DEF RoundInv, RoundPart
  <1>1. \A r \in Initial, f \in Files : row'[r][f] # "none" <=> HasRow(r, f)
    BY SubscribersAssumption DEF OneRow, HasRow
  <1>2. SteadySubs' /\ ListsTaken' /\ RowsPrefix' /\ ReqPrefix' /\ Pending'
    BY <1>1, RowsKept DEF HasRow
  <1>3. ASSUME NEW r \in Initial
        PROVE  /\ \A k \in 1 .. Len(queue'[r]) : row'[r][queue'[r][k].file] # "none"
               /\ \A u \in Threads : thr'[r][u] \in Delivering => row'[r][thr'[r][u].item.file] # "none"
               /\ \A f \in Files : <<r, f>> \in backLog' => row'[r][f] # "none"
    <2>0. r \in Subscribers
      BY SubscribersAssumption
    <2>1. \A k \in 1 .. Len(queue[r]) : row'[r][queue[r][k].file] # "none"
      <3>1. \A k \in 1 .. Len(queue[r]) : queue[r][k] \in Items
        BY <2>0 DEF DeliveryInv, TypeOK
      <3>2. \A k \in 1 .. Len(queue[r]) : queue[r][k].file \in Files
        BY <3>1 DEF Items
      <3>3. QED BY <1>1, <3>2 DEF ItemsRowed
    <2>2. \A k \in 1 .. Len(queue'[r]) : row'[r][queue'[r][k].file] # "none"
      BY <2>0, <2>1 DEF Dropped
    <2>3. ASSUME NEW u \in Threads, thr'[r][u] \in Delivering
          PROVE  row'[r][thr'[r][u].item.file] # "none"
      <3>1. thr'[r][u].item.file \in Files
        BY <2>3, ThreadStates
      <3>2. CASE <<r, u>> = <<s, t>>
        BY <1>1, <2>3, <3>1, <3>2 DEF OneThread
      <3>3. CASE <<r, u>> # <<s, t>>
        BY <1>1, <2>0, <2>3, <3>1, <3>3 DEF OneThread, ItemsRowed
      <3>4. QED BY <3>2, <3>3
    <2>4. QED BY <1>1, <2>2, <2>3
  <1>4. ItemsRowed'
    BY <1>3 DEF ItemsRowed, HasRow
  <1>5. DatesRowed'
    BY <1>1 DEF DatesRowed, DateRowed, HasRow
  <1>6. QED BY <1>2, <1>4, <1>5

\* The steps of a Delivery Thread.
LEMMA ThreadStepRound ==
    ASSUME "db" \notin Events, RoundInv, NEW s \in Subscribers, NEW t \in Threads, ThreadStep(s, t)
    PROVE  RoundPart'
  <1>0. /\ TypeOK /\ RoundPart /\ Top \in ThreadType /\ Off \in ThreadType /\ Waiting \in ThreadType
        /\ Top \notin Delivering /\ Off \notin Delivering /\ Waiting \notin Delivering
        /\ \A x \in Delivering : x \in ThreadType
    BY ThreadStates DEF RoundInv, DeliveryInv, ThreadType
  <1>1. /\ \A r \in Initial, f \in Files : <<r, f>> \in backLog => HasRow(r, f)
        /\ \A r \in Initial : DateRowed(r, lastDb[r]) /\ DateRowed(r, lastMem[r])
        /\ thr[s][t] \in Delivering => (s \in Initial => HasRow(s, thr[s][t].item.file))
    BY <1>0 DEF RoundPart, ItemsRowed, DatesRowed
  <1>2. CASE CheckStop(s, t)
    <2>1. PICK x \in {Off, Waiting} : OneThread(s, t, x)
      BY <1>0, <1>2, CheckStopEffect
    <2>2. UNCHANGED <<archived, online, subs, start, fileList, subscrList, main, sched, row, queue,
                      backLog, lastDb, lastMem>>
      BY <1>0, <1>2, CheckStopEffect
    <2>3. QED BY <1>0, <1>1, <2>1, <2>2, ThreadRound
  <1>3. CASE Post(s, t)
    <2>1. PICK x \in Delivering :
             /\ thr[s][t] \in Delivering /\ x.item = thr[s][t].item /\ OneThread(s, t, x)
             /\ UNCHANGED <<archived, online, subs, start, fileList, subscrList, main, sched, row,
                            queue, backLog, lastDb, lastMem>>
      BY <1>0, <1>3, PostEffect
    <2>2. QED BY <1>0, <1>1, <2>1, ThreadRound
  <1>4. CASE Get(s, t)
    <2>1. PICK item \in Items :
             /\ item = queue[s][1] /\ 1 \in 1 .. Len(queue[s]) /\ Dropped(s)
             /\ \/ OneThread(s, t, Top) /\ row' = row
                \/ /\ OneThread(s, t, [pc |-> "posting", item |-> item])
                   /\ [pc |-> "posting", item |-> item] \in Delivering
                   /\ OneRow(s, item.file, "delivering")
             /\ backLog' \subseteq backLog
             /\ UNCHANGED <<archived, online, subs, start, lastDb, lastMem, sched, fileList,
                            subscrList, main>>
      BY <1>0, <1>4, GetServed DEF Forgotten
    <2>2. item.file \in Files /\ (s \in Initial => HasRow(s, item.file))
      BY <1>0, <2>1 DEF RoundPart, ItemsRowed, Items
    <2>3. \A r \in Initial, f \in Files : <<r, f>> \in backLog' => HasRow(r, f)
      BY <1>1, <2>1
    <2>4. CASE OneThread(s, t, Top) /\ row' = row
      BY <1>0, <1>1, <2>1, <2>3, <2>4, ThreadRound
    <2>5. CASE OneThread(s, t, [pc |-> "posting", item |-> item]) /\ OneRow(s, item.file, "delivering")
               /\ [pc |-> "posting", item |-> item] \in Delivering
      <3>1. PICK x \in Delivering : x = [pc |-> "posting", item |-> item]
        BY <2>5
      <3>2. x.item = item /\ x \in ThreadType /\ OneThread(s, t, x)
        BY <1>0, <2>5, <3>1
      <3>3. \E f \in Files, y \in Statuses \ {"none"} : OneRow(s, f, y) /\ (s \in Initial => HasRow(s, f))
        BY <2>2, <2>5 DEF Statuses
      <3>4. QED BY <1>1, <2>1, <2>2, <2>3, <3>2, <3>3, ThreadRound
    <2>6. QED BY <2>1, <2>4, <2>5
  <1>5. CASE Delivered(s, t)
    <2>1. PICK f \in Files :
             /\ thr[s][t] \in Delivering /\ f = thr[s][t].item.file
             /\ OneThread(s, t, Top) /\ OneRow(s, f, "delivered")
             /\ lastMem' = [lastMem EXCEPT ![s] = Date(f)]
             /\ lastDb' = lastDb \/ lastDb' = [lastDb EXCEPT ![s] = Date(f)]
             /\ backLog' \subseteq backLog
             /\ UNCHANGED <<archived, online, subs, start, sched, fileList, subscrList, main, queue>>
      BY <1>0, <1>5, DeliveredServed DEF Forgotten
    <2>2. s \in Initial => HasRow(s, f)
      BY <1>1, <2>1
    <2>3. \A r \in Initial, g \in Files : <<r, g>> \in backLog' => HasRow(r, g)
      BY <1>1, <2>1
    <2>4. \E g \in Files, y \in Statuses \ {"none"} : OneRow(s, g, y) /\ (s \in Initial => HasRow(s, g))
      BY <2>1, <2>2 DEF Statuses
    <2>5. ASSUME NEW r \in Initial
          PROVE  DateRowed(r, lastDb'[r]) /\ DateRowed(r, lastMem'[r])
      <3>1. /\ r \in Subscribers /\ lastDb \in [Subscribers -> Nat] /\ lastMem \in [Subscribers -> Nat]
            /\ DateRowed(r, lastDb[r]) /\ DateRowed(r, lastMem[r])
        BY <1>0, <1>1, SubscribersAssumption DEF TypeOK
      <3>2. /\ lastDb'[r] = lastDb[r] \/ (r = s /\ lastDb'[r] = Date(f))
            /\ lastMem'[r] = lastMem[r] \/ (r = s /\ lastMem'[r] = Date(f))
        BY <2>1, <3>1
      <3>3. r = s => DateRowed(r, Date(f))
        BY <2>2 DEF DateRowed
      <3>4. QED BY <3>1, <3>2, <3>3
    <2>6. QED BY <1>0, <2>1, <2>3, <2>4, <2>5, ThreadRound
  <1>6. CASE NotDelivered(s, t)
    <2>1. PICK f \in Files :
             /\ thr[s][t] \in Delivering /\ f = thr[s][t].item.file
             /\ OneThread(s, t, Top) /\ OneRow(s, f, "failed")
             /\ backLog' \subseteq backLog \cup {<<s, f>>}
             /\ UNCHANGED <<archived, online, subs, start, sched, fileList, subscrList, main, queue,
                            lastDb, lastMem>>
      BY <1>0, <1>6, NotDeliveredServed
    <2>2. s \in Initial => HasRow(s, f)
      BY <1>1, <2>1
    <2>3. \A r \in Initial, g \in Files : <<r, g>> \in backLog' => HasRow(r, g)
      BY <1>1, <2>1, <2>2
    <2>4. \E g \in Files, y \in Statuses \ {"none"} : OneRow(s, g, y) /\ (s \in Initial => HasRow(s, g))
      BY <2>1, <2>2 DEF Statuses
    <2>5. QED BY <1>0, <1>1, <2>1, <2>3, <2>4, ThreadRound
  <1>7. QED BY <1>2, <1>3, <1>4, <1>5, <1>6 DEF ThreadStep

\* The invariant holds at first: the Subscribers are going to be checked.
LEMMA RoundInit == Init => RoundInv
  <1> SUFFICES ASSUME Init PROVE RoundInv
    OBVIOUS
  <1>1. DeliveryInv
    BY DeliveryInit
  <1>2. /\ archived = 0 /\ online /\ subs = Initial /\ fileList = {} /\ subscrList = Initial /\ backLog = {}
        /\ \A s \in Subscribers : /\ lastDb[s] = 0 /\ lastMem[s] = 0 /\ sched[s] = 0 /\ Len(queue[s]) = 0
                                  /\ \A f \in Files : row[s][f] = "none"
                                  /\ \A t \in Threads : thr[s][t] = Off
        /\ \A s \in Initial : s \in Subscribers /\ start[s] = 1
    BY SubscribersAssumption DEF Init
  <1>3. main.pc = "loop"
    BY DEF Init, Asleep
  <1>4. SteadySubs /\ ListsTaken /\ RowsPrefix /\ ReqPrefix /\ DatesRowed /\ Pending
    BY <1>2, <1>3 DEF SteadySubs, ListsTaken, RowsPrefix, ReqPrefix, DatesRowed, DateRowed,
       Pending, HasRow
  <1>5. ItemsRowed
    <2>1. \A s \in Initial : \A k \in 1 .. Len(queue[s]) : FALSE
      BY <1>2
    <2>2. QED BY <1>2, <2>1, ThreadStates DEF ItemsRowed
  <1>6. QED BY <1>1, <1>4, <1>5 DEF RoundInv, RoundPart

\* Every step keeps it.
LEMMA RoundStep == ASSUME Steady PROVE RoundInv /\ [Next]_vars => RoundInv'
  <1> SUFFICES ASSUME RoundInv, [Next]_vars PROVE RoundInv'
    OBVIOUS
  <1>1. DeliveryInv'
    BY DeliveryStep DEF RoundInv
  <1>2. CASE UNCHANGED vars
    <2>1. UNCHANGED <<archived, online, subs, start, fileList, subscrList, main, row, queue, thr,
                      backLog, lastDb, lastMem, sched>>
      BY <1>2 DEF vars, worldVars, subVars, listVars, queueVars, blVars, slipVars, thrVars
    <2>2. QED BY <1>1, <2>1, RowsKept, ItemsKept DEF RoundInv, RoundPart
  <1>3. CASE FileArchived \/ Trigger
    BY <1>1, <1>3, OutsideRound DEF RoundInv
  <1>4. ASSUME NEW s \in Subscribers, Subscribe(s, 1) \/ Subscribe(s, Now) \/ Unsubscribe(s) \/ Usubscribe(s)
        PROVE  RoundInv'
    <2>1. Usubscribe(s)
      BY <1>4 DEF Steady, Subscribe, Unsubscribe
    <2>2. QED BY <1>1, <2>1, OutsideRound DEF RoundInv
  <1>5. CASE MainStep
    BY <1>1, <1>5, WakeUpRound, SelectRound, SelectionSucceeds, DispatchRound, DispatchEndsRound
       DEF MainStep, RoundInv, Steady
  <1>6. ASSUME NEW s \in Subscribers, NEW t \in Threads, ThreadStep(s, t)
        PROVE  RoundInv'
    BY <1>1, <1>6, ThreadStepRound DEF RoundInv, Steady
  <1>7. CASE Offline \/ Online \/ Crash \/ Unmount \/ Mount
    BY <1>1, <1>7, RestartRound, OutsideRound DEF RoundInv
  <1>8. ASSUME NEW f \in Files, Remove(f)
        PROVE  RoundInv'
    BY <1>1, <1>8, OutsideRound DEF RoundInv
  <1>9. QED BY <1>2, <1>3, <1>4, <1>5, <1>6, <1>7, <1>8 DEF Next

\* The last ingestion date has a row, and all files before it have one.
LEMMA NoneSkipped == RoundInv => NothingSkipped
  <1> SUFFICES ASSUME RoundInv, NEW s \in subs, NEW f \in 1 .. archived, Date(f) < lastDb[s],
                      row[s][f] = "none"
               PROVE  FALSE
    BY DEF NothingSkipped
  <1>1. s \in Initial /\ DateRowed(s, lastDb[s]) /\ RowsPrefix
    BY DEF RoundInv, RoundPart, SteadySubs, DatesRowed
  <1>2. f \in Files
    BY SubscriptionBounds DEF RoundInv, DeliveryInv, TypeOK, Files
  <1>3. lastDb[s] \in Nat /\ lastDb[s] < Date(f) /\ Date(f) \in Nat
    BY <1>1, <1>2, DateBefore DEF HasRow, Date, Files
  <1>4. QED BY <1>3

\* As long as no Subscriber comes or goes and no DB query of the Subscription Thread fails, the
\* tables tell after any stop or crash what the Subscribers have and what they still lack:
\* what is delivered was received, what failed is in the back-log, and no file before the
\* last ingestion date was passed over.
THEOREM RecordsStayTrue == ASSUME Steady PROVE Spec => []RecordsTrue
  <1>1. RoundInv => RecordsTrue
    <2> SUFFICES ASSUME RoundInv PROVE RecordsTrue
      OBVIOUS
    <2>1. FailedBackLogged /\ DeliveredRecorded
      BY DEF RoundInv, DeliveryInv, TypeOK, LoggedKnown, Member, Known, FailedBackLogged
    <2>2. QED BY <2>1, NoneSkipped DEF RecordsTrue
  <1>2. RoundInv /\ [Next]_vars => RoundInv'
    BY RoundStep
  <1>3. QED BY <1>1, <1>2, RoundInit, PTL DEF Spec

-----------------------------------------------------------------------------
(* Every delivery is known to a thread that runs, and made once.           *)

\* No Subscriber goes or is updated, the DB does not fail and the server is not stopped: after
\* these the code delivers files twice, or forgets that they are scheduled.
Orderly == Events \cap {"unsubscribe", "usubscribe", "db", "offline", "crash"} = {}

\* A Subscriber gets its queue and its threads together; before, nothing is scheduled for it.
QueuesRun ==
    /\ online /\ ~stopDelivery /\ main.pc # "off"
    /\ built = spawned /\ built \subseteq subs
    /\ \A s \in Subscribers, t \in Threads : s \in built <=> thr[s][t].pc # "off"
    /\ \A s \in Subscribers \ built : queue[s] = <<>> /\ \A f \in Files : row[s][f] = "none"

\* A queue holds a file once.
QueuedOnce == \A s \in Subscribers : \A j, k \in 1 .. Len(queue[s]) :
                 j # k => queue[s][j].file # queue[s][k].file

\* The row of a file tells where it is: in the queue, ...
InBackLog(s, f) == <<s, f>> \in backLog /\ <<s, f>> \in blScheduled
QueuedRows ==
    \A s \in Subscribers : \A k \in 1 .. Len(queue[s]) :
        \/ queue[s][k].kind = "new" /\ row[s][queue[s][k].file] = "scheduled"
        \/ /\ queue[s][k].kind = "backlog" /\ row[s][queue[s][k].file] = "failed"
           /\ InBackLog(s, queue[s][k].file)

\* ... or in the hands of one Delivery Thread;
ThreadRows ==
    \A s \in Subscribers, t \in Threads : thr[s][t] \in Delivering =>
        /\ row[s][thr[s][t].item.file] = "delivering"
        /\ thr[s][t].item.kind = "backlog" => InBackLog(s, thr[s][t].item.file)
        /\ thr[s][t].item.kind = "new" => <<s, thr[s][t].item.file>> \notin backLog
        /\ \A u \in Threads : thr[s][u] \in Delivering /\ u # t =>
              thr[s][u].item.file # thr[s][t].item.file

\* and it is where its row says.
RowServed(s, f) ==
    /\ row[s][f] # "none" => f <= archived
    /\ row[s][f] = "scheduled" => \E k \in 1 .. Len(queue[s]) : queue[s][k].file = f
    /\ row[s][f] = "delivering" =>
          \E t \in Threads : thr[s][t] \in Delivering /\ thr[s][t].item.file = f
    /\ <<s, f>> \in backLog => row[s][f] \in {"failed", "delivering"}
    /\ <<s, f>> \in blScheduled => row[s][f] # "none"
RowsServed == \A s \in Subscribers, f \in Files : RowServed(s, f)

\* What a round is going to put into a queue is not there yet, nor being delivered.
ReqRow(s, i) ==
    /\ i.file <= archived /\ i.kind # "loaded"
    /\ i.kind = "backlog" => /\ row[s][i.file] = "failed" /\ InBackLog(s, i.file)
                            /\ \A k \in 1 .. Len(queue[s]) : queue[s][k].file # i.file
ReqRows == main.pc = "dispatch" =>
              \A s \in Subscribers \ main.done : \A i \in main.req[s] : ReqRow(s, i)

\* A file is given to the Subscription Thread, and a Subscriber is, before any of its
\* back-log files was scheduled again: the next selection cannot schedule it twice.
ListsFresh ==
    /\ fileList \subseteq 1 .. archived
    /\ main.pc = "taken" => main.files \subseteq 1 .. archived
    /\ \A s \in Subscribers, f \in Files :
          /\ f \in fileList \/ s \in subscrList =>
                <<s, f>> \notin blScheduled /\ (main.pc = "taken" => row[s][f] = "none")
          /\ main.pc = "taken" /\ (f \in main.files \/ s \in main.objs) => <<s, f>> \notin blScheduled

\* The counter covers the back-log.
EntriesCounted == blCount >= Cardinality(backLog)

OncePart == /\ QueuesRun /\ QueuedOnce /\ QueuedRows /\ ThreadRows /\ RowsServed /\ ReqRows
            /\ ListsFresh /\ EntriesCounted
OnceInv == DeliveryInv /\ OncePart

\* A step that touches neither the deliveries nor the back-log.
LEMMA DeliveriesUntouched ==
    ASSUME OnceInv, main'.pc # "off", subs \subseteq subs', archived' \in Nat, archived <= archived',
           UNCHANGED <<online, stopDelivery, built, spawned, queue, row, thr, backLog, blCount,
                       blScheduled>>
    PROVE  QueuesRun' /\ QueuedOnce' /\ QueuedRows' /\ ThreadRows' /\ RowsServed' /\ EntriesCounted'
  <1> USE DEF OnceInv, OncePart
  <1>1. QueuesRun' /\ QueuedOnce' /\ EntriesCounted'
    BY DEF QueuesRun, QueuedOnce, EntriesCounted
  <1>2. QueuedRows' /\ ThreadRows'
    BY DEF QueuedRows, ThreadRows, InBackLog
  <1>3. archived \in Nat /\ \A f \in Files : f \in Nat
    BY DEF DeliveryInv, TypeOK, Files
  <1>4. RowsServed'
    <2>1. ASSUME NEW s \in Subscribers, NEW f \in Files, RowServed(s, f)
          PROVE  RowServed(s, f)'
      BY <1>3, <2>1 DEF RowServed
    <2>2. QED BY <2>1 DEF RowsServed
  <1>5. QED BY <1>1, <1>2, <1>4

\* A file is archived: nobody has seen it yet.
LEMMA ArchivedOnce ==
    ASSUME OnceInv, FileArchived
    PROVE  OncePart'
  <1> USE DEF OnceInv, OncePart
  <1>1. /\ archived \in Nat /\ archived' = archived + 1 /\ fileList' = fileList \cup {archived + 1}
        /\ subscrList' = subscrList
        /\ UNCHANGED <<online, stopDelivery, main, subs, built, spawned, queue, row, thr, backLog,
                       blCount, blScheduled>>
    BY DEF FileArchived, Schedule, DeliveryInv, TypeOK, subVars, queueVars, blVars, slipVars, thrVars
  <1>2. QueuesRun' /\ QueuedOnce' /\ QueuedRows' /\ ThreadRows' /\ RowsServed' /\ EntriesCounted'
    BY <1>1, DeliveriesUntouched DEF QueuesRun
  <1>3. \A f \in Files : f \in Nat
    BY DEF Files
  <1>4. \A s \in Subscribers \ main.done : \A i \in main.req[s] : i.file \in Nat
    BY <1>3 DEF DeliveryInv, TypeOK, Items
  <1>5. ReqRows'
    <2>1. ASSUME NEW s \in Subscribers \ main.done, NEW i \in main.req[s], ReqRow(s, i)
          PROVE  ReqRow(s, i)'
      BY <1>1, <1>4, <2>1 DEF ReqRow, InBackLog
    <2>2. QED BY <1>1, <2>1 DEF ReqRows
  <1>6. \A s \in Subscribers, f \in Files : f = archived + 1 => row[s][f] = "none" /\ <<s, f>> \notin blScheduled
    BY <1>1, <1>3 DEF RowsServed, RowServed
  <1>7. ListsFresh'
    BY <1>1, <1>6 DEF ListsFresh
  <1>8. QED BY <1>2, <1>5, <1>7

\* A Subscriber comes: nothing has been scheduled for it.
LEMMA SubscribeOnce ==
    ASSUME OnceInv, NEW s \in Subscribers, NEW date, Subscribe(s, date)
    PROVE  OncePart'
  <1> USE DEF OnceInv, OncePart
  <1>1. /\ start[s] = 0 /\ archived \in Nat /\ fileList' = fileList /\ subscrList' = subscrList \cup {s}
        /\ subs' = subs \cup {s}
        /\ UNCHANGED <<archived, online, stopDelivery, main, built, spawned, queue, row, thr, backLog,
                       blCount, blScheduled>>
    BY DEF Subscribe, Schedule, insertSubscriberEntry, DeliveryInv, TypeOK, worldVars, queueVars,
       blVars, slipVars, thrVars
  <1>2. QueuesRun' /\ QueuedOnce' /\ QueuedRows' /\ ThreadRows' /\ RowsServed' /\ EntriesCounted'
    BY <1>1, DeliveriesUntouched DEF QueuesRun
  <1>3. ReqRows'
    <2>1. ASSUME NEW r \in Subscribers \ main.done, NEW i \in main.req[r], ReqRow(r, i)
          PROVE  ReqRow(r, i)'
      BY <1>1, <2>1 DEF ReqRow, InBackLog
    <2>2. QED BY <1>1, <2>1 DEF ReqRows
  <1>4. s \notin built
    BY <1>1 DEF DeliveryInv, SubsStarted, QueuesRun
  <1>5. \A f \in Files : row[s][f] = "none" /\ <<s, f>> \notin blScheduled
    BY <1>4 DEF QueuesRun, RowsServed, RowServed
  <1>6. ListsFresh'
    BY <1>1, <1>5 DEF ListsFresh
  <1>7. QED BY <1>2, <1>3, <1>6

\* A wake-up, and what happens to the disk, change nothing of it.
LEMMA OutsideOnce ==
    ASSUME OnceInv, UNCHANGED <<archived, online, stopDelivery, main, subs, built, spawned, queue, row,
                                thr, backLog, blCount, blScheduled, fileList, subscrList>>
    PROVE  OncePart'
  <1> USE DEF OnceInv, OncePart
  <1>1. archived \in Nat
    BY DEF DeliveryInv, TypeOK
  <1>2. QueuesRun' /\ QueuedOnce' /\ QueuedRows' /\ ThreadRows' /\ RowsServed' /\ EntriesCounted'
    BY <1>1, DeliveriesUntouched DEF QueuesRun
  <1>3. ReqRows' /\ ListsFresh'
    BY DEF ReqRows, ReqRow, ListsFresh, InBackLog
  <1>4. QED BY <1>2, <1>3

\* The Subscription Thread goes to sleep, fails, or ends a round.
LEMMA RoundOnce ==
    ASSUME OnceInv, Suspend \/ SelectFails \/ DispatchEnds
    PROVE  OncePart'
  <1> USE DEF OnceInv, OncePart
  <1>1. /\ archived \in Nat
        /\ UNCHANGED <<archived, online, stopDelivery, subs, built, spawned, queue, row,
                       thr, backLog, blCount, blScheduled, fileList, subscrList>>
    BY DEF Suspend, SelectFails, DispatchEnds, DeliveryInv, TypeOK, worldVars, subVars, listVars,
       queueVars, blVars, slipVars, thrVars
  <1>2. main'.pc \in {"loop", "timed", "untimed"}
    <2>1. PICK label \in {"loop", "timed", "untimed"} : Main(label)
      BY DEF Suspend, SelectFails, DispatchEnds
    <2>2. QED BY <2>1, MainLabel
  <1>3. QueuesRun' /\ QueuedOnce' /\ QueuedRows' /\ ThreadRows' /\ RowsServed' /\ EntriesCounted'
    BY <1>1, <1>2, DeliveriesUntouched
  <1>4. ReqRows' /\ ListsFresh'
    BY <1>1, <1>2 DEF ReqRows, ListsFresh
  <1>5. QED BY <1>3, <1>4

\* It takes the lists: what is given from now on has no row yet.
LEMMA WakeUpOnce ==
    ASSUME OnceInv, WakeUp
    PROVE  OncePart'
  <1> USE DEF OnceInv, OncePart
  <1>1. /\ archived \in Nat /\ fileList' = {} /\ subscrList' = {}
        /\ UNCHANGED <<archived, online, stopDelivery, subs, built, spawned, queue, row,
                       thr, backLog, blCount, blScheduled>>
    BY DEF WakeUp, DeliveryInv, TypeOK, worldVars, subVars, queueVars, blVars, slipVars, thrVars
  <1>2. \/ main'.pc = "loop"
        \/ main'.pc = "taken" /\ main'.files = fileList /\ main'.objs = subscrList
    <2>1. CASE Main("loop")
      BY <2>1, MainLabel
    <2>2. CASE main' = [Asleep EXCEPT !.pc = "taken", !.files = fileList, !.objs = subscrList]
      <3>1. Asleep \in MainType
        BY DEF Asleep, MainType
      <3>2. QED BY <2>2, <3>1 DEF MainType
    <2>3. QED BY <2>1, <2>2 DEF WakeUp
  <1>3. QueuesRun' /\ QueuedOnce' /\ QueuedRows' /\ ThreadRows' /\ RowsServed' /\ EntriesCounted'
    BY <1>1, <1>2, DeliveriesUntouched
  <1>4. ReqRows' /\ ListsFresh'
    BY <1>1, <1>2 DEF ReqRows, ListsFresh
  <1>5. QED BY <1>3, <1>4

\* It selects: a back-log file only if it is not on its way already.
LEMMA SelectOnce ==
    ASSUME OnceInv, Select
    PROVE  OncePart'
  <1> USE DEF OnceInv, OncePart
  <1>1. /\ archived \in Nat /\ main.pc = "taken" /\ blScheduled' = blScheduled \cup backLog
        /\ UNCHANGED <<archived, online, stopDelivery, subs, built, spawned, queue, row,
                       thr, backLog, blCount, fileList, subscrList>>
    BY DEF Select, DeliveryInv, TypeOK, worldVars, subVars, listVars, queueVars, thrVars
  <1>2. main'.pc = "dispatch" /\ main'.req = [s \in Subscribers |-> DeliverReq(s)]
    <2>1. main \in MainType
      BY DEF DeliveryInv, TypeOK, MainType
    <2>2. main' = [main EXCEPT !.pc = "dispatch", !.req = [s \in Subscribers |-> DeliverReq(s)]]
      BY DEF Select
    <2>3. QED BY <2>1, <2>2 DEF MainType
  <1>3. QueuesRun' /\ QueuedOnce' /\ EntriesCounted'
    BY <1>1, <1>2 DEF QueuesRun, QueuedOnce, EntriesCounted
  <1>4. QueuedRows' /\ ThreadRows' /\ RowsServed'
    <2>1. QueuedRows' /\ ThreadRows'
      BY <1>1 DEF QueuedRows, ThreadRows, InBackLog
    <2>2. RowsServed'
      <3>1. ASSUME NEW s \in Subscribers, NEW f \in Files, RowServed(s, f)
            PROVE  RowServed(s, f)'
        BY <1>1, <3>1 DEF RowServed
      <3>2. QED BY <3>1 DEF RowsServed
    <2>3. QED BY <2>1, <2>2
  <1>5. ListsFresh'
    <2>1. \A s \in Subscribers, f \in Files :
             f \in fileList \/ s \in subscrList => <<s, f>> \notin blScheduled'
      BY <1>1 DEF ListsFresh, RowsServed, RowServed
    <2>2. QED BY <1>1, <1>2, <2>1 DEF ListsFresh
  <1>6. ASSUME NEW s \in Subscribers, NEW i \in DeliverReq(s)
        PROVE  ReqRow(s, i)'
    <2>1. Candidates \subseteq 1 .. archived
      BY <1>1 DEF Candidates, ListsFresh
    <2>2. NewFiles(s) \subseteq 1 .. archived
      BY <2>1 DEF NewFiles
    <2>3. \/ i.kind = "new" /\ i.file \in NewFiles(s)
          \/ /\ i.kind = "backlog" /\ i.file \in Files /\ <<s, i.file>> \in backLog
             /\ i.file \in NewFiles(s) \/ <<s, i.file>> \notin blScheduled
      BY DEF DeliverReq
    <2>4. CASE i.kind = "new" /\ i.file \in NewFiles(s)
      BY <1>1, <2>2, <2>4 DEF ReqRow
    <2>5. CASE /\ i.kind = "backlog" /\ i.file \in Files /\ <<s, i.file>> \in backLog
               /\ i.file \in NewFiles(s) \/ <<s, i.file>> \notin blScheduled
      <3>1. i.file \in NewFiles(s) => i.file \in main.files \/ s \in main.objs
        BY DEF NewFiles
      <3>2. <<s, i.file>> \notin blScheduled
        BY <1>1, <2>5, <3>1 DEF ListsFresh
      <3>3. row[s][i.file] \in {"failed", "delivering"} /\ i.file <= archived
        BY <2>5 DEF RowsServed, RowServed
      <3>4. row[s][i.file] # "delivering"
        <4> SUFFICES ASSUME row[s][i.file] = "delivering" PROVE FALSE
          OBVIOUS
        <4>1. PICK t \in Threads : thr[s][t] \in Delivering /\ thr[s][t].item.file = i.file
          BY <2>5 DEF RowsServed, RowServed
        <4>2. thr[s][t].item.kind \in {"new", "backlog"}
          BY <4>1, ThreadStates
        <4>3. QED BY <2>5, <3>2, <4>1, <4>2 DEF ThreadRows, InBackLog
      <3>5. \A k \in 1 .. Len(queue[s]) : queue[s][k].file # i.file
        BY <3>2, <3>3 DEF QueuedRows, InBackLog
      <3>6. QED BY <1>1, <2>5, <3>3, <3>4, <3>5 DEF ReqRow, InBackLog
    <2>6. QED BY <2>3, <2>4, <2>5
  <1>7. ReqRows'
    <2>1. \A s \in Subscribers : main'.req[s] = DeliverReq(s)
      BY <1>2
    <2>2. QED BY <1>6, <2>1 DEF ReqRows
  <1>8. QED BY <1>3, <1>4, <1>5, <1>7

-----------------------------------------------------------------------------
(* The Delivery Threads keep it.                                           *)

\* A step that is about one file of one Subscriber.
OnlyFor(s, f) ==
    \A r \in Subscribers, g \in Files : <<r, g>> # <<s, f>> =>
        /\ row'[r][g] = row[r][g]
        /\ <<r, g>> \in backLog' <=> <<r, g>> \in backLog
        /\ <<r, g>> \in blScheduled' <=> <<r, g>> \in blScheduled

\* The Subscription Thread is not affected by a delivery of f, which is in the queue or in
\* the hands of a thread.
LEMMA ThreadKeepsLists ==
    ASSUME OnceInv, NEW s \in Subscribers, NEW f \in Files, OnlyFor(s, f), row[s][f] # "none",
           UNCHANGED <<archived, main, fileList, subscrList>>,
           <<s, f>> \in blScheduled' => <<s, f>> \in blScheduled
    PROVE  ListsFresh'
  <1> USE DEF OnceInv, OncePart
  <1>1. \A r \in Subscribers, g \in Files :
           /\ <<r, g>> \in blScheduled' => <<r, g>> \in blScheduled
           /\ row[r][g] = "none" => row'[r][g] = "none"
    BY DEF OnlyFor
  <1>2. QED BY <1>1 DEF ListsFresh

\* The round in progress is not affected either.
LEMMA ThreadKeepsRound ==
    ASSUME OnceInv, NEW s \in Subscribers, NEW f \in Files, OnlyFor(s, f),
           UNCHANGED <<archived, main>>,
           \A r \in Subscribers : \A k \in 1 .. Len(queue'[r]) :
               \E j \in 1 .. Len(queue[r]) : queue'[r][k] = queue[r][j],
           \/ row[s][f] # "failed"
           \/ \E j \in 1 .. Len(queue[s]) : queue[s][j].file = f
    PROVE  ReqRows'
  <1> USE DEF OnceInv, OncePart
  <1>1. ASSUME NEW r \in Subscribers \ main.done, NEW i \in main.req[r], ReqRow(r, i)
        PROVE  ReqRow(r, i)'
    <2>1. i.file \in Files
      BY DEF DeliveryInv, TypeOK, Items
    <2>2. CASE i.kind # "backlog"
      BY <1>1, <2>2 DEF ReqRow
    <2>3. CASE i.kind = "backlog"
      <3>1. <<r, i.file>> # <<s, f>>
        BY <1>1, <2>3 DEF ReqRow
      <3>2. row'[r][i.file] = "failed" /\ InBackLog(r, i.file)'
        BY <1>1, <2>1, <2>3, <3>1 DEF ReqRow, InBackLog, OnlyFor
      <3>3. \A k \in 1 .. Len(queue'[r]) : queue'[r][k].file # i.file
        BY <1>1, <2>3 DEF ReqRow
      <3>4. QED BY <1>1, <3>2, <3>3 DEF ReqRow
    <2>4. QED BY <2>2, <2>3
  <1>2. QED BY <1>1 DEF ReqRows

\* Nor are the other items in the queues.
LEMMA ThreadKeepsQueues ==
    ASSUME OnceInv, NEW s \in Subscribers, NEW f \in Files, OnlyFor(s, f),
           queue' \in [Subscribers -> Seq(Items)],
           \A r \in Subscribers : \A k \in 1 .. Len(queue'[r]) :
               \E j \in 1 .. Len(queue[r]) : queue'[r][k] = queue[r][j] /\ <<r, queue[r][j].file>> # <<s, f>>
    PROVE  QueuedRows'
  <1> USE DEF OnceInv, OncePart
  <1>1. ASSUME NEW r \in Subscribers, NEW k \in 1 .. Len(queue'[r])
        PROVE  \/ queue'[r][k].kind = "new" /\ row'[r][queue'[r][k].file] = "scheduled"
               \/ /\ queue'[r][k].kind = "backlog" /\ row'[r][queue'[r][k].file] = "failed"
                  /\ <<r, queue'[r][k].file>> \in backLog' /\ <<r, queue'[r][k].file>> \in blScheduled'
    <2>1. PICK j \in 1 .. Len(queue[r]) : queue'[r][k] = queue[r][j] /\ <<r, queue[r][j].file>> # <<s, f>>
      OBVIOUS
    <2>2. queue[r][j].file \in Files
      <3>1. queue[r] \in Seq(Items)
        BY DEF DeliveryInv, TypeOK
      <3>a. queue[r][j] \in Items
        BY <3>1
      <3>2. QED BY <3>a DEF Items
    <2>3. QED BY <2>1, <2>2 DEF QueuedRows, InBackLog, OnlyFor
  <1>2. QED BY <1>1 DEF QueuedRows, InBackLog

\* The other threads keep their files.
LEMMA ThreadKeepsThreads ==
    ASSUME OnceInv, NEW s \in Subscribers, NEW t \in Threads, NEW f \in Files, OnlyFor(s, f),
           \A r \in Subscribers, u \in Threads : <<r, u>> # <<s, t>> => thr'[r][u] = thr[r][u],
           \A u \in Threads : u # t /\ thr[s][u] \in Delivering => thr[s][u].item.file # f,
           thr'[s][t] \in Delivering =>
               /\ thr'[s][t].item.file = f /\ row'[s][f] = "delivering"
               /\ thr'[s][t].item.kind = "backlog" => <<s, f>> \in backLog' /\ <<s, f>> \in blScheduled'
               /\ thr'[s][t].item.kind = "new" => <<s, f>> \notin backLog'
    PROVE  ThreadRows'
  <1> USE DEF OnceInv, OncePart
  <1>1. ASSUME NEW r \in Subscribers, NEW u \in Threads, thr'[r][u] \in Delivering
        PROVE  /\ row'[r][thr'[r][u].item.file] = "delivering"
               /\ thr'[r][u].item.kind = "backlog" =>
                     <<r, thr'[r][u].item.file>> \in backLog' /\ <<r, thr'[r][u].item.file>> \in blScheduled'
               /\ thr'[r][u].item.kind = "new" => <<r, thr'[r][u].item.file>> \notin backLog'
    <2>1. CASE r = s /\ u = t
      BY <1>1, <2>1
    <2>2. CASE ~(r = s /\ u = t)
      <3>1. thr'[r][u] = thr[r][u] /\ thr[r][u] \in Delivering
        BY <1>1, <2>2
      <3>2. PICK g \in Files : g = thr[r][u].item.file
        BY <3>1, ThreadStates
      <3>3. <<r, g>> # <<s, f>>
        BY <2>2, <3>1, <3>2
      <3>4. /\ row[r][g] = "delivering"
            /\ thr[r][u].item.kind = "backlog" => <<r, g>> \in backLog /\ <<r, g>> \in blScheduled
            /\ thr[r][u].item.kind = "new" => <<r, g>> \notin backLog
        BY <3>1, <3>2 DEF ThreadRows, InBackLog
      <3>5. /\ row'[r][g] = row[r][g]
            /\ <<r, g>> \in backLog' <=> <<r, g>> \in backLog
            /\ <<r, g>> \in blScheduled' <=> <<r, g>> \in blScheduled
        BY <3>3 DEF OnlyFor
      <3>6. QED BY <3>1, <3>2, <3>4, <3>5
    <2>3. QED BY <2>1, <2>2
  <1>2. ASSUME NEW r \in Subscribers, NEW u \in Threads, thr'[r][u] \in Delivering,
               NEW v \in Threads, thr'[r][v] \in Delivering, v # u
        PROVE  thr'[r][v].item.file # thr'[r][u].item.file
    <2>1. CASE ~(r = s /\ u = t) /\ ~(r = s /\ v = t)
      <3>1. thr'[r][u] = thr[r][u] /\ thr'[r][v] = thr[r][v]
        BY <2>1
      <3>2. thr[r][u] \in Delivering /\ thr[r][v] \in Delivering
        BY <1>2, <3>1
      <3>3. thr[r][v].item.file # thr[r][u].item.file
        BY <1>2, <3>2 DEF ThreadRows
      <3>4. QED BY <3>1, <3>3
    <2>2. CASE r = s /\ u = t
      <3>1. thr'[r][v] = thr[r][v]
        BY <1>2, <2>2
      <3>2. QED BY <1>2, <2>2, <3>1
    <2>3. CASE r = s /\ v = t
      <3>1. thr'[r][u] = thr[r][u]
        BY <1>2, <2>3
      <3>2. QED BY <1>2, <2>3, <3>1
    <2>4. QED BY <2>1, <2>2, <2>3
  <1>3. QED BY <1>1, <1>2 DEF ThreadRows, InBackLog

\* The rows of the other files stay true.
LEMMA ThreadKeepsRows ==
    ASSUME OnceInv, NEW s \in Subscribers, NEW t \in Threads, NEW f \in Files, OnlyFor(s, f),
           UNCHANGED archived,
           \A r \in Subscribers, u \in Threads : <<r, u>> # <<s, t>> => thr'[r][u] = thr[r][u],
           \A r \in Subscribers : \A j \in 1 .. Len(queue[r]) :
               \/ <<r, queue[r][j].file>> = <<s, f>>
               \/ \E k \in 1 .. Len(queue'[r]) : queue'[r][k] = queue[r][j],
           thr[s][t] \in Delivering => thr[s][t].item.file = f,
           RowServed(s, f)'
    PROVE  RowsServed'
  <1> USE DEF OnceInv, OncePart
  <1>1. ASSUME NEW r \in Subscribers, NEW g \in Files, <<r, g>> # <<s, f>>
        PROVE  RowServed(r, g)'
    <2>1. /\ row'[r][g] = row[r][g] /\ RowServed(r, g)
          /\ <<r, g>> \in backLog' <=> <<r, g>> \in backLog
          /\ <<r, g>> \in blScheduled' <=> <<r, g>> \in blScheduled
      BY <1>1 DEF OnlyFor, RowsServed
    <2>2. ASSUME row[r][g] = "scheduled"
          PROVE  \E k \in 1 .. Len(queue'[r]) : queue'[r][k].file = g
      <3>1. PICK j \in 1 .. Len(queue[r]) : queue[r][j].file = g
        BY <2>1, <2>2 DEF RowServed
      <3>2. QED BY <1>1, <3>1
    <2>3. ASSUME row[r][g] = "delivering"
          PROVE  \E u \in Threads : thr'[r][u] \in Delivering /\ thr'[r][u].item.file = g
      <3>1. PICK u \in Threads : thr[r][u] \in Delivering /\ thr[r][u].item.file = g
        BY <2>1, <2>3 DEF RowServed
      <3>2. <<r, u>> # <<s, t>>
        BY <1>1, <3>1
      <3>3. QED BY <3>1, <3>2
    <2>4. QED BY <2>1, <2>2, <2>3 DEF RowServed
  <1>2. QED BY <1>1 DEF RowsServed

\* The threads of the Subscribers with a queue run on.
LEMMA ThreadKeepsRunning ==
    ASSUME OnceInv, NEW s \in Subscribers, NEW t \in Threads, thr[s][t].pc # "off", thr'[s][t].pc # "off",
           UNCHANGED <<online, stopDelivery, main, subs, built, spawned>>,
           \A r \in Subscribers, u \in Threads : <<r, u>> # <<s, t>> => thr'[r][u] = thr[r][u],
           \A r \in Subscribers : r # s => queue'[r] = queue[r] /\ \A g \in Files : row'[r][g] = row[r][g]
    PROVE  QueuesRun' /\ s \in built
  <1> USE DEF OnceInv, OncePart
  <1>1. s \in built
    BY DEF QueuesRun
  <1>2. \A r \in Subscribers, u \in Threads : r \in built <=> thr'[r][u].pc # "off"
    <2> TAKE r \in Subscribers, u \in Threads
    <2>1. CASE <<r, u>> = <<s, t>>
      BY <1>1, <2>1
    <2>2. CASE <<r, u>> # <<s, t>>
      BY <2>2 DEF QueuesRun
    <2>3. QED BY <2>1, <2>2
  <1>3. \A r \in Subscribers \ built : queue'[r] = <<>> /\ \A g \in Files : row'[r][g] = "none"
    BY <1>1 DEF QueuesRun
  <1>4. QED BY <1>1, <1>2, <1>3 DEF QueuesRun

\* The back-log counter follows the entries.
LEMMA EntryCounted ==
    ASSUME OnceInv, NEW s \in Subscribers, NEW f \in Files,
           \/ UNCHANGED <<backLog, blCount>>
           \/ Forgotten(s, f) /\ <<s, f>> \in backLog
           \/ backLog' = backLog \cup {<<s, f>>} /\ blCount' = blCount + 1
    PROVE  EntriesCounted'
  <1> USE DEF OnceInv, OncePart
  <1>1. IsFiniteSet(backLog) /\ Cardinality(backLog) \in Nat /\ blCount \in Int
    BY BackLogFinite DEF DeliveryInv, TypeOK
  <1>2. blCount >= Cardinality(backLog)
    BY DEF EntriesCounted
  <1>3. CASE UNCHANGED <<backLog, blCount>>
    BY <1>2, <1>3 DEF EntriesCounted
  <1>4. CASE Forgotten(s, f) /\ <<s, f>> \in backLog
    <2>1. backLog' = backLog \ {<<s, f>>} /\ blCount' = blCount - 1
      BY <1>4 DEF Forgotten
    <2>2. Cardinality(backLog \ {<<s, f>>}) = Cardinality(backLog) - 1
      BY <1>1, <1>4, FS_RemoveElement
    <2>3. QED BY <1>1, <1>2, <2>1, <2>2 DEF EntriesCounted
  <1>5. CASE backLog' = backLog \cup {<<s, f>>} /\ blCount' = blCount + 1
    <2>1. Cardinality(backLog \cup {<<s, f>>}) \in {Cardinality(backLog), Cardinality(backLog) + 1}
      BY <1>1, FS_AddElement
    <2>2. QED BY <1>1, <1>2, <1>5, <2>1 DEF EntriesCounted
  <1>6. QED BY <1>3, <1>4, <1>5

\* A thread looks whether it must stop; it need not.
LEMMA CheckStopOnce ==
    ASSUME OnceInv, NEW s \in Subscribers, NEW t \in Threads, CheckStop(s, t)
    PROVE  OncePart'
  <1> USE DEF OnceInv, OncePart
  <1>1. /\ thr[s][t].pc \in {"top", "get"}
        /\ (OneThread(s, t, Off) /\ MustStop(s)) \/ OneThread(s, t, Waiting)
        /\ UNCHANGED <<archived, online, subs, fileList, subscrList, main, queue, built,
                       row, backLog, blCount, blScheduled, spawned, stopDelivery>>
    BY CheckStopEffect DEF DeliveryInv
  <1>2. s \in built /\ ~MustStop(s)
    BY <1>1 DEF QueuesRun, MustStop
  <1>3. OneThread(s, t, Waiting)
    BY <1>1, <1>2
  <1>4. /\ thr'[s][t].pc = "get" /\ thr'[s][t] \notin Delivering /\ thr[s][t] \notin Delivering
        /\ \A r \in Subscribers, u \in Threads : <<r, u>> # <<s, t>> => thr'[r][u] = thr[r][u]
    <2>1. thr[s][t] \notin Delivering /\ Waiting \notin Delivering /\ Waiting.pc = "get"
      BY <1>1, ThreadStates
    <2>2. QED BY <1>3, <2>1 DEF OneThread
  <1>5. QueuesRun'
    BY <1>1, <1>4, ThreadKeepsRunning
  <1>6. \A r \in Subscribers, u \in Threads :
           (thr'[r][u] \in Delivering \/ thr[r][u] \in Delivering) => thr'[r][u] = thr[r][u]
    BY <1>4
  <1>7. ThreadRows'
    <2>1. ASSUME NEW r \in Subscribers, NEW u \in Threads, thr'[r][u] \in Delivering
          PROVE  /\ row'[r][thr'[r][u].item.file] = "delivering"
                 /\ thr'[r][u].item.kind = "backlog" =>
                       <<r, thr'[r][u].item.file>> \in backLog' /\ <<r, thr'[r][u].item.file>> \in blScheduled'
                 /\ thr'[r][u].item.kind = "new" => <<r, thr'[r][u].item.file>> \notin backLog'
                 /\ \A v \in Threads : thr'[r][v] \in Delivering /\ v # u =>
                       thr'[r][v].item.file # thr'[r][u].item.file
      BY <1>1, <1>6, <2>1 DEF ThreadRows, InBackLog
    <2>2. QED BY <2>1 DEF ThreadRows, InBackLog
  <1>8. RowsServed'
    <2>1. ASSUME NEW r \in Subscribers, NEW g \in Files, RowServed(r, g)
          PROVE  RowServed(r, g)'
      BY <1>1, <1>6, <2>1 DEF RowServed
    <2>2. QED BY <2>1 DEF RowsServed
  <1>9. QueuedOnce' /\ QueuedRows' /\ EntriesCounted' /\ ListsFresh'
    <2>1. QueuedOnce'
      BY <1>1 DEF QueuedOnce
    <2>2. QueuedRows'
      BY <1>1 DEF QueuedRows, InBackLog
    <2>3. EntriesCounted'
      BY <1>1 DEF EntriesCounted
    <2>4. ListsFresh'
      BY <1>1 DEF ListsFresh
    <2>5. QED BY <2>1, <2>2, <2>3, <2>4
  <1>10. ReqRows'
    BY <1>1 DEF ReqRows, ReqRow, InBackLog
  <1>11. QED BY <1>5, <1>7, <1>8, <1>9, <1>10

\* What a delivery in the hands of a thread excludes.
LEMMA FileDelivered ==
    ASSUME OnceInv, NEW s \in Subscribers, NEW t \in Threads, thr[s][t] \in Delivering,
           NEW f \in Files, f = thr[s][t].item.file
    PROVE  /\ row[s][f] = "delivering" /\ thr[s][t].pc # "off" /\ f <= archived
           /\ thr[s][t].item.kind = "backlog" => <<s, f>> \in backLog /\ <<s, f>> \in blScheduled
           /\ thr[s][t].item.kind = "new" => <<s, f>> \notin backLog
           /\ \A u \in Threads : u # t /\ thr[s][u] \in Delivering => thr[s][u].item.file # f
           /\ \A r \in Subscribers : \A j \in 1 .. Len(queue[r]) : <<r, queue[r][j].file>> # <<s, f>>
  <1> USE DEF OnceInv, OncePart
  <1>1. /\ row[s][f] = "delivering"
        /\ thr[s][t].item.kind = "backlog" => <<s, f>> \in backLog /\ <<s, f>> \in blScheduled
        /\ thr[s][t].item.kind = "new" => <<s, f>> \notin backLog
        /\ \A u \in Threads : u # t /\ thr[s][u] \in Delivering => thr[s][u].item.file # f
    BY DEF ThreadRows, InBackLog
  <1>2. \A r \in Subscribers : \A j \in 1 .. Len(queue[r]) : <<r, queue[r][j].file>> # <<s, f>>
    BY <1>1 DEF QueuedRows
  <1>3. thr[s][t].pc # "off"
    BY ThreadStates
  <1>4. f <= archived
    BY <1>1 DEF RowsServed, RowServed
  <1>5. QED BY <1>1, <1>2, <1>3, <1>4

\* The POST.
LEMMA PostOnce ==
    ASSUME OnceInv, NEW s \in Subscribers, NEW t \in Threads, Post(s, t)
    PROVE  OncePart'
  <1> USE DEF OnceInv, OncePart
  <1>1. PICK x \in Delivering :
           /\ thr[s][t] \in Delivering /\ x.item = thr[s][t].item /\ OneThread(s, t, x)
           /\ UNCHANGED <<archived, online, subs, fileList, subscrList, main, queue, built,
                          row, backLog, blCount, blScheduled, spawned, stopDelivery>>
    BY PostEffect DEF DeliveryInv
  <1>2. PICK f \in Files : f = thr[s][t].item.file
    BY <1>1, ThreadStates
  <1>3. /\ row[s][f] = "delivering" /\ thr[s][t].pc # "off" /\ f <= archived
        /\ thr[s][t].item.kind = "backlog" => <<s, f>> \in backLog /\ <<s, f>> \in blScheduled
        /\ thr[s][t].item.kind = "new" => <<s, f>> \notin backLog
        /\ \A u \in Threads : u # t /\ thr[s][u] \in Delivering => thr[s][u].item.file # f
        /\ \A r \in Subscribers : \A j \in 1 .. Len(queue[r]) : <<r, queue[r][j].file>> # <<s, f>>
    BY <1>1, <1>2, FileDelivered
  <1>4. /\ thr'[s][t] = x /\ thr'[s][t].pc # "off"
        /\ \A r \in Subscribers, u \in Threads : <<r, u>> # <<s, t>> => thr'[r][u] = thr[r][u]
    BY <1>1, ThreadStates DEF OneThread
  <1>5. OnlyFor(s, f)
    BY <1>1 DEF OnlyFor
  <1>6. QueuesRun'
    BY <1>1, <1>3, <1>4, ThreadKeepsRunning
  <1>7. ListsFresh'
    BY <1>1, <1>3, <1>5, ThreadKeepsLists
  <1>8. ThreadRows'
    BY <1>1, <1>2, <1>3, <1>4, <1>5, ThreadKeepsThreads
  <1>9. RowsServed'
    <2>1. RowServed(s, f)
      BY DEF RowsServed
    <2>2. RowServed(s, f)'
      BY <1>1, <1>2, <1>3, <1>4, <2>1 DEF RowServed
    <2>3. QED BY <1>1, <1>2, <1>4, <1>5, <2>2, ThreadKeepsRows
  <1>10. QueuedOnce' /\ QueuedRows' /\ EntriesCounted'
    BY <1>1 DEF QueuedOnce, QueuedRows, InBackLog, EntriesCounted
  <1>11. ReqRows'
    BY <1>1 DEF ReqRows, ReqRow, InBackLog
  <1>12. QED BY <1>6, <1>7, <1>8, <1>9, <1>10, <1>11

\* A delivery ends, well or badly: in both cases the file is on nobody's way any more.
LEMMA EndOnce ==
    ASSUME OnceInv, NEW s \in Subscribers, NEW t \in Threads, NEW f \in Files,
           thr[s][t] \in Delivering, f = thr[s][t].item.file, OneThread(s, t, Top),
           \/ /\ OneRow(s, f, "delivered")
              /\ \/ /\ thr[s][t].item.kind = "backlog" /\ Forgotten(s, f)
                    /\ blScheduled' = blScheduled \ {<<s, f>>}
                 \/ thr[s][t].item.kind = "new" /\ UNCHANGED <<backLog, blCount, blScheduled>>
           \/ /\ OneRow(s, f, "failed")
              /\ \/ /\ thr[s][t].item.kind = "backlog" /\ blScheduled' = blScheduled \ {<<s, f>>}
                    /\ UNCHANGED <<backLog, blCount>>
                 \/ /\ thr[s][t].item.kind = "new" /\ backLog' = backLog \cup {<<s, f>>}
                    /\ blCount' = blCount + 1 /\ UNCHANGED blScheduled,
           UNCHANGED <<archived, online, subs, fileList, subscrList, main, queue, built, spawned,
                       stopDelivery>>
    PROVE  OncePart'
  <1> USE DEF OnceInv, OncePart
  <1>1. /\ row[s][f] = "delivering" /\ thr[s][t].pc # "off" /\ f <= archived
        /\ thr[s][t].item.kind = "backlog" => <<s, f>> \in backLog /\ <<s, f>> \in blScheduled
        /\ thr[s][t].item.kind = "new" => <<s, f>> \notin backLog
        /\ \A u \in Threads : u # t /\ thr[s][u] \in Delivering => thr[s][u].item.file # f
        /\ \A r \in Subscribers : \A j \in 1 .. Len(queue[r]) : <<r, queue[r][j].file>> # <<s, f>>
    BY FileDelivered
  <1>2. /\ thr'[s][t] = Top /\ thr'[s][t].pc # "off" /\ thr'[s][t] \notin Delivering
        /\ \A r \in Subscribers, u \in Threads : <<r, u>> # <<s, t>> => thr'[r][u] = thr[r][u]
    BY ThreadStates DEF OneThread
  <1>3. OnlyFor(s, f)
    BY DEF OnlyFor, OneRow, Forgotten
  <1>4. \A r \in Subscribers : r # s => \A g \in Files : row'[r][g] = row[r][g]
    BY DEF OneRow
  <1>5. QueuesRun'
    BY <1>1, <1>2, <1>4, ThreadKeepsRunning
  <1>6. ListsFresh'
    BY <1>1, <1>3, ThreadKeepsLists
  <1>7. ThreadRows'
    BY <1>1, <1>2, <1>3, ThreadKeepsThreads
  <1>8. RowsServed'
    <2>1. RowServed(s, f)'
      BY <1>1 DEF RowServed, OneRow, Forgotten
    <2>2. QED BY <1>2, <1>3, <2>1, ThreadKeepsRows
  <1>9. QueuedOnce'
    BY DEF QueuedOnce
  <1>10. QueuedRows'
    <2>1. queue' \in [Subscribers -> Seq(Items)]
      BY DEF DeliveryInv, TypeOK
    <2>2. QED BY <1>1, <1>3, <2>1, ThreadKeepsQueues
  <1>11. EntriesCounted'
    BY <1>1, EntryCounted
  <1>12. ReqRows'
    BY <1>1, <1>3, ThreadKeepsRound
  <1>13. QED BY <1>5, <1>6, <1>7, <1>8, <1>9, <1>10, <1>11, <1>12

\* The delivery has succeeded.
LEMMA DeliveredOnce ==
    ASSUME "db" \notin Events, OnceInv, NEW s \in Subscribers, NEW t \in Threads, Delivered(s, t)
    PROVE  OncePart'
  <1>1. PICK f \in Files :
           /\ thr[s][t] \in Delivering /\ f = thr[s][t].item.file
           /\ OneThread(s, t, Top) /\ OneRow(s, f, "delivered")
           /\ \/ /\ thr[s][t].item.kind = "backlog" /\ Forgotten(s, f)
                 /\ blScheduled' = blScheduled \ {<<s, f>>}
              \/ thr[s][t].item.kind = "new" /\ UNCHANGED <<backLog, blCount, blScheduled>>
           /\ UNCHANGED <<archived, online, subs, fileList, subscrList, main, queue, built, spawned,
                          stopDelivery>>
    BY DeliveredServed DEF OnceInv, DeliveryInv
  <1>2. QED BY <1>1, EndOnce

\* The delivery has failed.
LEMMA NotDeliveredOnce ==
    ASSUME "db" \notin Events, OnceInv, NEW s \in Subscribers, NEW t \in Threads, NotDelivered(s, t)
    PROVE  OncePart'
  <1>1. PICK f \in Files :
           /\ thr[s][t] \in Delivering /\ f = thr[s][t].item.file
           /\ OneThread(s, t, Top) /\ OneRow(s, f, "failed")
           /\ \/ /\ thr[s][t].item.kind = "backlog" /\ blScheduled' = blScheduled \ {<<s, f>>}
                 /\ UNCHANGED <<backLog, blCount>>
              \/ /\ thr[s][t].item.kind = "new" /\ backLog' = backLog \cup {<<s, f>>}
                 /\ blCount' = blCount + 1 /\ UNCHANGED blScheduled
           /\ UNCHANGED <<archived, online, subs, fileList, subscrList, main, queue, built, spawned,
                          stopDelivery>>
    BY NotDeliveredServed DEF OnceInv, DeliveryInv
  <1>2. QED BY <1>1, EndOnce

\* A thread takes the first file of the queue.
LEMMA GetOnce ==
    ASSUME "db" \notin Events, OnceInv, NEW s \in Subscribers, NEW t \in Threads, Get(s, t)
    PROVE  OncePart'
  <1> USE DEF OnceInv, OncePart
  <1>0. TypeOK
    BY DEF DeliveryInv
  <1>1. PICK item \in Items :
           /\ queue[s] # <<>> /\ item = queue[s][1] /\ 1 \in 1 .. Len(queue[s])
           /\ thr[s][t].pc = "get"
           /\ \/ /\ item.kind = "loaded" /\ OneThread(s, t, Top)
                 /\ UNCHANGED <<row, backLog, blCount, blScheduled>>
              \/ /\ item.kind = "backlog" /\ Missing(item.file) /\ OneThread(s, t, Top)
                 /\ \/ Forgotten(s, item.file)
                    \/ UNCHANGED <<backLog, blCount>>
                 /\ UNCHANGED <<row, blScheduled>>
              \/ /\ item.kind \in {"new", "backlog"}
                 /\ OneThread(s, t, [pc |-> "posting", item |-> item])
                 /\ [pc |-> "posting", item |-> item] \in Delivering
                 /\ OneRow(s, item.file, "delivering")
                 /\ UNCHANGED <<backLog, blCount, blScheduled>>
           /\ UNCHANGED <<archived, online, subs, fileList, subscrList, main, built, spawned,
                          stopDelivery>>
    BY <1>0, GetServed
  <1>2. /\ queue' \in [Subscribers -> Seq(Items)]
        /\ \A r \in Subscribers : r # s => queue'[r] = queue[r]
        /\ Len(queue[s]) \in Nat /\ Len(queue'[s]) = Len(queue[s]) - 1
        /\ \A k \in 1 .. Len(queue'[s]) : k + 1 \in 1 .. Len(queue[s]) /\ queue'[s][k] = queue[s][k + 1]
    <2>1. queue' = [queue EXCEPT ![s] = Tail(@)]
      BY DEF Get
    <2>2. QED BY <1>0, <1>1, <2>1, TailEffect
  <1>3. PICK f \in Files : f = item.file
    BY DEF Items
  <1>4. \/ item.kind = "new" /\ row[s][f] = "scheduled"
        \/ /\ item.kind = "backlog" /\ row[s][f] = "failed"
           /\ <<s, f>> \in backLog /\ <<s, f>> \in blScheduled
    BY <1>1, <1>3 DEF QueuedRows, InBackLog
  <1>5. f <= archived /\ (item.kind = "new" => <<s, f>> \notin backLog)
    BY <1>4 DEF RowsServed, RowServed
  <1>6. \/ /\ item.kind = "backlog" /\ OneThread(s, t, Top)
           /\ Forgotten(s, f) \/ UNCHANGED <<backLog, blCount>>
           /\ UNCHANGED <<row, blScheduled>>
        \/ /\ OneThread(s, t, [pc |-> "posting", item |-> item])
           /\ [pc |-> "posting", item |-> item] \in Delivering
           /\ OneRow(s, f, "delivering")
           /\ UNCHANGED <<backLog, blCount, blScheduled>>
    BY <1>1, <1>3, <1>4
  <1>7. /\ thr[s][t] \notin Delivering /\ thr[s][t].pc # "off"
        /\ \A r \in Subscribers, u \in Threads : <<r, u>> # <<s, t>> => thr'[r][u] = thr[r][u]
        /\ thr'[s][t].pc # "off"
        /\ \/ /\ thr'[s][t] \notin Delivering /\ row' = row /\ blScheduled' = blScheduled
              /\ item.kind = "backlog"
           \/ /\ thr'[s][t] \in Delivering /\ thr'[s][t].item = item /\ row'[s][f] = "delivering"
              /\ UNCHANGED <<backLog, blScheduled>>
    <2>1. thr[s][t] \notin Delivering /\ thr[s][t].pc # "off" /\ Top \notin Delivering /\ Top.pc # "off"
      BY <1>1, ThreadStates
    <2>2. QED BY <1>6, <2>1 DEF OneThread, OneRow
  <1>8. OnlyFor(s, f) /\ \A r \in Subscribers : r # s => \A g \in Files : row'[r][g] = row[r][g]
    BY <1>6 DEF OnlyFor, OneRow, Forgotten
  <1>9. QueuesRun'
    BY <1>1, <1>2, <1>7, <1>8, ThreadKeepsRunning
  <1>10. ListsFresh'
    BY <1>1, <1>4, <1>6, <1>8, ThreadKeepsLists
  <1>11. \A u \in Threads : u # t /\ thr[s][u] \in Delivering => thr[s][u].item.file # f
    BY <1>4 DEF ThreadRows
  <1>12. ThreadRows'
    BY <1>3, <1>4, <1>5, <1>7, <1>8, <1>11, ThreadKeepsThreads
  <1>13. \A k \in 1 .. Len(queue'[s]) : queue[s][k + 1].file # f
    BY <1>1, <1>2, <1>3 DEF QueuedOnce
  <1>14. \A r \in Subscribers : \A k \in 1 .. Len(queue'[r]) :
            \E j \in 1 .. Len(queue[r]) : queue'[r][k] = queue[r][j] /\ <<r, queue[r][j].file>> # <<s, f>>
    <2> TAKE r \in Subscribers
    <2> TAKE k \in 1 .. Len(queue'[r])
    <2>1. CASE r = s
      BY <1>2, <1>13, <2>1
    <2>2. CASE r # s
      BY <1>2, <2>2
    <2>3. QED BY <2>1, <2>2
  <1>15. QueuedRows'
    BY <1>2, <1>8, <1>14, ThreadKeepsQueues
  <1>16. QueuedOnce'
    <2>1. ASSUME NEW r \in Subscribers, NEW j \in 1 .. Len(queue'[r]), NEW k \in 1 .. Len(queue'[r]), j # k
          PROVE  queue'[r][j].file # queue'[r][k].file
      <3>1. CASE r # s
        BY <1>2, <2>1, <3>1 DEF QueuedOnce
      <3>2. CASE r = s
        <4>1. j + 1 # k + 1
          BY <2>1
        <4>2. j + 1 \in 1 .. Len(queue[s]) /\ k + 1 \in 1 .. Len(queue[s])
          BY <1>2, <2>1, <3>2
        <4>3. queue[s][j + 1].file # queue[s][k + 1].file
          BY <4>1, <4>2 DEF QueuedOnce
        <4>4. queue'[s][j] = queue[s][j + 1] /\ queue'[s][k] = queue[s][k + 1]
          BY <1>2, <2>1, <3>2
        <4>5. QED BY <3>2, <4>3, <4>4
      <3>3. QED BY <3>1, <3>2
    <2>2. QED BY <2>1 DEF QueuedOnce
  <1>17. \A r \in Subscribers : \A j \in 1 .. Len(queue[r]) :
            \/ <<r, queue[r][j].file>> = <<s, f>>
            \/ \E k \in 1 .. Len(queue'[r]) : queue'[r][k] = queue[r][j]
    <2> TAKE r \in Subscribers
    <2> TAKE j \in 1 .. Len(queue[r])
    <2>1. CASE r # s
      BY <1>2, <2>1
    <2>2. CASE r = s /\ j = 1
      BY <1>1, <1>3, <2>2
    <2>3. CASE r = s /\ j # 1
      <3>1. j - 1 \in 1 .. Len(queue'[s]) /\ (j - 1) + 1 = j
        BY <1>2, <2>3
      <3>2. QED BY <1>2, <2>3, <3>1
    <2>4. QED BY <2>1, <2>2, <2>3
  <1>18. RowServed(s, f)'
    <2>1. CASE thr'[s][t] \in Delivering /\ thr'[s][t].item = item /\ row'[s][f] = "delivering"
      <3>1. UNCHANGED <<backLog, blScheduled>>
        BY <1>7, <2>1
      <3>2. QED BY <1>1, <1>3, <1>5, <2>1, <3>1 DEF RowServed
    <2>2. CASE row' = row /\ blScheduled' = blScheduled /\ item.kind = "backlog"
      BY <1>1, <1>4, <1>5, <2>2 DEF RowServed
    <2>3. QED BY <1>7, <2>1, <2>2
  <1>19. RowsServed'
    BY <1>1, <1>7, <1>8, <1>17, <1>18, ThreadKeepsRows
  <1>20. EntriesCounted'
    BY <1>4, <1>6, EntryCounted
  <1>21. ReqRows'
    BY <1>1, <1>3, <1>8, <1>14, ThreadKeepsRound
  <1>22. QED BY <1>9, <1>10, <1>12, <1>15, <1>16, <1>19, <1>20, <1>21

-----------------------------------------------------------------------------
(* A round of the loop keeps it.                                           *)

\* The queue after the round: the old one and one item for each file that is accepted.
QueueGrown(s, old, add) ==
    /\ queue' \in [Subscribers -> Seq(Items)] /\ \A r \in Subscribers : r # s => queue'[r] = queue[r]
    /\ old = Len(queue[s]) /\ old \in Nat /\ add \in Nat /\ Len(queue'[s]) = old + add
    /\ \A k \in 1 .. old : queue'[s][k] = queue[s][k]
    /\ \A k \in old + 1 .. old + add : queue'[s][k] \in Accepted(s)
    /\ \A j, k \in old + 1 .. old + add : j # k => queue'[s][j].file # queue'[s][k].file
    /\ \A i \in Accepted(s) : \E k \in old + 1 .. old + add : queue'[s][k].file = i.file

\* The round appends to the queue of the Subscriber.
LEMMA DispatchGrows ==
    ASSUME "db" \notin Events, OnceInv, NEW s \in Subscribers, Dispatch(s)
    PROVE  \E old, add \in Nat : QueueGrown(s, old, add)
  <1> USE DEF OnceInv, OncePart
  <1> DEFINE rows == OldRows(s)
             given == OldQueue(s)
             taken == {i \in main.req[s] : rows[i.file] = "none" \/ i.kind = "backlog"}
  <1>1. main.req[s] \in SUBSET Items /\ queue[s] \in Seq(Items) /\ queue \in [Subscribers -> Seq(Items)]
    BY DEF DeliveryInv, TypeOK
  <1>2. taken = Accepted(s)
    <2>1. \A f \in Files : rows[f] = "none" <=> row[s][f] = "none"
      BY DEF OldRows, Rescheduled
    <2>2. \A i \in main.req[s] : i.file \in Files
      BY <1>1 DEF Items
    <2>3. QED BY <2>1, <2>2 DEF Accepted
  <1>3. given = queue[s]
    <2>1. CASE s \notin built
      <3>1. queue[s] = <<>> /\ \A f \in Files : Rescheduled(s)[f] # "scheduled"
        BY <2>1 DEF QueuesRun, Rescheduled
      <3>2. LoadedQueue(s) \in Seq(Items) /\ ~(1 \in 1 .. Len(LoadedQueue(s)))
        BY <3>1, LoadedQueueType
      <3>3. LoadedQueue(s) = <<>>
        BY <3>2
      <3>4. QED BY <2>1, <3>1, <3>3 DEF OldQueue
    <2>2. QED BY <2>1 DEF OldQueue
  <1>4. taken \in SUBSET Items
    BY <1>1
  <1>5. PICK add \in Seq(Items) :
           /\ add = ItemsInOrder(taken)
           /\ \A k \in 1 .. Len(add) : add[k] \in taken
           /\ \A i \in taken : \E k \in 1 .. Len(add) : add[k].file = i.file
           /\ \A j, k \in 1 .. Len(add) : j # k => add[j].file # add[k].file
    BY <1>4, ItemsInOrderType
  <1>6. queue' = [queue EXCEPT ![s] = given \o add]
    <2>1. TypeOK
      BY DEF DeliveryInv
    <2>2. PICK old \in {OldQueue(s), <<>>}, req \in SUBSET main.req[s], rw \in {rows, row[s]} :
             /\ queue' = [queue EXCEPT ![s] = old \o Queued(rw, req)]
             /\ rw = rows /\ old = OldQueue(s) /\ req = main.req[s]
      BY <2>1, DispatchReads
    <2>3. queue' = [queue EXCEPT ![s] = given \o Queued(rows, main.req[s])]
      BY <2>2
    <2>4. Queued(rows, main.req[s]) = add
      BY <1>5 DEF Queued
    <2>5. QED BY <2>3, <2>4
  <1> HIDE DEF rows, given, taken
  <1>7. queue[s] \o add \in Seq(Items)
    BY <1>1, <1>5
  <1>8. PICK q \in Seq(Items) : q = queue[s] \o add
    BY <1>7
  <1>9. PICK n \in Nat, m \in Nat : n = Len(queue[s]) /\ m = Len(add)
    BY <1>1, <1>5
  <1>10. /\ Len(q) = n + m
         /\ \A k \in 1 .. n : q[k] = queue[s][k]
         /\ \A k \in 1 .. m : q[n + k] = add[k]
    BY <1>1, <1>5, <1>8, <1>9
  <1>11. /\ queue' \in [Subscribers -> Seq(Items)] /\ queue'[s] = q
         /\ \A r \in Subscribers : r # s => queue'[r] = queue[r]
    BY <1>1, <1>3, <1>6, <1>8
  <1>12. \A k \in n + 1 .. n + m : k - n \in 1 .. m /\ n + (k - n) = k
    BY <1>9
  <1>13. \A k \in n + 1 .. n + m : q[k] = add[k - n]
    BY <1>10, <1>12
  <1>14. \A k \in n + 1 .. n + m : q[k] \in Accepted(s)
    BY <1>2, <1>5, <1>9, <1>12, <1>13
  <1>15. \A j, k \in n + 1 .. n + m : j # k => q[j].file # q[k].file
    <2> TAKE j, k \in n + 1 .. n + m
    <2> HAVE j # k
    <2>1. j - n # k - n /\ j - n \in 1 .. m /\ k - n \in 1 .. m
      BY <1>9, <1>12
    <2>2. add[j - n].file # add[k - n].file
      BY <1>5, <1>9, <2>1
    <2>3. q[j] = add[j - n] /\ q[k] = add[k - n]
      BY <1>13
    <2>4. QED BY <2>2, <2>3
  <1>16. \A i \in Accepted(s) : \E k \in n + 1 .. n + m : q[k].file = i.file
    <2> TAKE i \in Accepted(s)
    <2>1. PICK k \in 1 .. m : add[k].file = i.file
      BY <1>2, <1>5, <1>9
    <2>2. n + k \in n + 1 .. n + m
      BY <1>9
    <2>3. q[n + k].file = i.file
      BY <1>10, <2>1
    <2>4. QED BY <2>2, <2>3
  <1>17. QueueGrown(s, n, m)
    BY <1>9, <1>10, <1>11, <1>14, <1>15, <1>16 DEF QueueGrown
  <1>18. QED BY <1>17

\* The rows after the round: a file that is new gets one, the others keep theirs.
LEMMA DispatchKeepsRows ==
    ASSUME OnceInv, NEW s \in Subscribers, Dispatch(s), NEW f \in Files
    PROVE  \/ row[s][f] = "none" /\ row'[s][f] = "none"
           \/ /\ row[s][f] = "none" /\ row'[s][f] = "scheduled"
              /\ \E i \in main.req[s] : i.file = f
           \/ row[s][f] # "none" /\ row'[s][f] = row[s][f]
  <1>1. RowsDispatched(s)
    BY DispatchRows DEF OnceInv, DeliveryInv
  <1>2. s \notin built => row[s][f] = "none"
    BY DEF OnceInv, OncePart, QueuesRun
  <1>3. QED BY <1>1, <1>2 DEF RowsDispatched

\* What is accepted is in no queue and with no thread.
LEMMA AcceptedFree ==
    ASSUME "db" \notin Events, OnceInv, NEW s \in Subscribers, Dispatch(s), NEW i \in Accepted(s)
    PROVE  /\ i \in Items /\ i.file \in Files /\ i \in main.req[s]
           /\ \/ i.kind = "new" /\ row[s][i.file] = "none" /\ row'[s][i.file] = "scheduled"
              \/ /\ i.kind = "backlog" /\ row[s][i.file] = "failed" /\ row'[s][i.file] = "failed"
                 /\ InBackLog(s, i.file)
           /\ \A k \in 1 .. Len(queue[s]) : queue[s][k].file # i.file
  <1> USE DEF OnceInv, OncePart
  <1>1. main.pc = "dispatch" /\ s \notin main.done
    BY DEF Dispatch
  <1>2. i \in main.req[s] /\ i \in Items /\ i.file \in Files /\ i.kind \in {"new", "backlog", "loaded"}
    BY DEF Accepted, DeliveryInv, TypeOK, Items
  <1>3. ReqRow(s, i)
    BY <1>1, <1>2 DEF ReqRows
  <1>4. row[s][i.file] = "none" \/ i.kind = "backlog"
    BY DEF Accepted
  <1>5. RowsDispatched(s)
    BY DispatchRows DEF DeliveryInv
  <1>6. CASE i.kind = "backlog"
    <2>1. row'[s][i.file] = "failed"
      BY <1>2, <1>3, <1>6, DispatchKeepsRows DEF ReqRow
    <2>2. QED BY <1>2, <1>3, <1>6, <2>1 DEF ReqRow
  <1>7. CASE i.kind # "backlog"
    <2>1. row[s][i.file] = "none" /\ i.kind = "new"
      BY <1>2, <1>3, <1>4, <1>7 DEF ReqRow
    <2>2. row'[s][i.file] = "scheduled"
      BY <1>2, <1>5, <2>1 DEF RowsDispatched
    <2>3. \A k \in 1 .. Len(queue[s]) : queue[s][k].file # i.file
      BY <2>1 DEF QueuedRows
    <2>4. QED BY <1>2, <2>1, <2>2, <2>3
  <1>8. QED BY <1>6, <1>7

\* The queue and the threads of a Subscriber.
LEMMA DispatchOnce ==
    ASSUME "db" \notin Events, OnceInv, NEW s \in Subscribers, Dispatch(s)
    PROVE  OncePart'
  <1> USE DEF OnceInv, OncePart
  <1>0. TypeOK
    BY DEF DeliveryInv
  <1>1. /\ main.pc = "dispatch" /\ s \in subs /\ s \notin main.done
        /\ main'.pc = "dispatch" /\ main'.req = main.req /\ main'.done = main.done \cup {s}
        /\ built' = built \cup {s} /\ spawned' = spawned \cup {s}
        /\ UNCHANGED <<archived, online, subs, fileList, subscrList, backLog, blCount, blScheduled,
                       stopDelivery>>
    BY <1>0, DispatchRest
  <1>2. PICK old \in Nat, add \in Nat : QueueGrown(s, old, add)
    BY DispatchGrows
  <1>3. \A r \in Subscribers : r # s => \A f \in Files : row'[r][f] = row[r][f]
    BY <1>0, DispatchRows DEF RowsDispatched
  <1>4. /\ s \in built => thr' = thr
        /\ s \notin built => thr' = [thr EXCEPT ![s] = [t \in Threads |-> Top]]
    BY DEF Dispatch, QueuesRun
  <1>5. \A r \in Subscribers, u \in Threads :
           \/ thr'[r][u] = thr[r][u] /\ (r = s => s \in built)
           \/ r = s /\ s \notin built /\ thr'[r][u] = Top
    <2>1. thr \in [Subscribers -> [Threads -> ThreadType]]
      BY <1>0 DEF TypeOK, ThreadType, Waiting, Delivering
    <2>2. QED BY <1>4, <2>1
  <1>6. QueuesRun'
    <2>1. \A r \in Subscribers, u \in Threads : r \in built \cup {s} <=> thr'[r][u].pc # "off"
      BY <1>5, ThreadStates DEF QueuesRun
    <2>2. ASSUME NEW r \in Subscribers \ (built \cup {s})
          PROVE  queue'[r] = <<>> /\ \A f \in Files : row'[r][f] = "none"
      <3>1. queue[r] = <<>> /\ \A f \in Files : row[r][f] = "none"
        BY DEF QueuesRun
      <3>2. queue'[r] = queue[r]
        BY <1>2 DEF QueueGrown
      <3>3. QED BY <1>3, <3>1, <3>2
    <2>3. QED BY <1>1, <2>1, <2>2 DEF QueuesRun
  <1>7. ASSUME NEW k \in 1 .. Len(queue'[s])
        PROVE  \/ k \in 1 .. old /\ queue'[s][k] = queue[s][k]
               \/ k \in old + 1 .. old + add /\ queue'[s][k] \in Accepted(s)
    <2>1. k \in 1 .. old \/ k \in old + 1 .. old + add
      BY <1>2 DEF QueueGrown
    <2>2. QED BY <1>2, <2>1 DEF QueueGrown
  <1>8. QueuedOnce'
    <2>1. ASSUME NEW r \in Subscribers, r # s,
                 NEW j \in 1 .. Len(queue'[r]), NEW k \in 1 .. Len(queue'[r]), j # k
          PROVE  queue'[r][j].file # queue'[r][k].file
      <3>1. queue'[r] = queue[r]
        BY <1>2, <2>1 DEF QueueGrown
      <3>2. QED BY <2>1, <3>1 DEF QueuedOnce
    <2>2. ASSUME NEW j \in 1 .. Len(queue'[s]), NEW k \in 1 .. Len(queue'[s]), j # k
          PROVE  queue'[s][j].file # queue'[s][k].file
      <3>1. CASE j \in 1 .. old /\ k \in 1 .. old
        <4>1. /\ queue'[s][j] = queue[s][j] /\ queue'[s][k] = queue[s][k]
              /\ j \in 1 .. Len(queue[s]) /\ k \in 1 .. Len(queue[s])
          BY <1>2, <3>1 DEF QueueGrown
        <4>2. QED BY <2>2, <4>1 DEF QueuedOnce
      <3>2. CASE j \in old + 1 .. old + add /\ k \in old + 1 .. old + add
        BY <1>2, <2>2, <3>2 DEF QueueGrown
      <3>3. ASSUME NEW m \in 1 .. old, NEW n \in old + 1 .. old + add
            PROVE  queue'[s][m].file # queue'[s][n].file
        <4>1. queue'[s][m] = queue[s][m] /\ m \in 1 .. Len(queue[s]) /\ queue'[s][n] \in Accepted(s)
          BY <1>2 DEF QueueGrown
        <4>2. QED BY <4>1, AcceptedFree
      <3>4. QED BY <1>7, <3>1, <3>2, <3>3
    <2>3. QED BY <2>1, <2>2 DEF QueuedOnce
  <1>9. QueuedRows'
    <2>1. ASSUME NEW r \in Subscribers, NEW k \in 1 .. Len(queue'[r])
          PROVE  \/ queue'[r][k].kind = "new" /\ row'[r][queue'[r][k].file] = "scheduled"
                 \/ /\ queue'[r][k].kind = "backlog" /\ row'[r][queue'[r][k].file] = "failed"
                    /\ InBackLog(r, queue'[r][k].file)
      <3>1. ASSUME NEW j \in 1 .. Len(queue[r]), queue'[r][k] = queue[r][j]
            PROVE  \/ queue'[r][k].kind = "new" /\ row'[r][queue'[r][k].file] = "scheduled"
                   \/ /\ queue'[r][k].kind = "backlog" /\ row'[r][queue'[r][k].file] = "failed"
                      /\ InBackLog(r, queue'[r][k].file)
        <4>1. queue[r][j] \in Items
          <5>1. queue[r] \in Seq(Items)
            BY <1>0 DEF TypeOK
          <5>2. QED BY <5>1
        <4>2. PICK g \in Files : g = queue[r][j].file
          BY <4>1 DEF Items
        <4>3. \/ queue[r][j].kind = "new" /\ row[r][g] = "scheduled"
              \/ queue[r][j].kind = "backlog" /\ row[r][g] = "failed" /\ InBackLog(r, g)
          BY <4>2 DEF QueuedRows
        <4>4. row'[r][g] = row[r][g]
          BY <1>3, <4>3, DispatchKeepsRows
        <4>5. QED BY <3>1, <4>2, <4>3, <4>4
      <3>2. CASE r # s
        BY <1>2, <3>1, <3>2 DEF QueueGrown
      <3>3. CASE r = s
        <4>1. CASE k \in 1 .. old /\ queue'[s][k] = queue[s][k]
          BY <1>2, <3>1, <3>3, <4>1 DEF QueueGrown
        <4>2. CASE queue'[s][k] \in Accepted(s)
          BY <3>3, <4>2, AcceptedFree
        <4>3. QED BY <1>7, <3>3, <4>1, <4>2
      <3>4. QED BY <3>2, <3>3
    <2>2. \A r, f : InBackLog(r, f) <=> <<r, f>> \in backLog' /\ <<r, f>> \in blScheduled'
      BY <1>1 DEF InBackLog
    <2>3. QED BY <2>1, <2>2 DEF QueuedRows, InBackLog
  <1>10. ThreadRows'
    <2>1. \A r \in Subscribers, u \in Threads : thr'[r][u] \in Delivering =>
             thr'[r][u] = thr[r][u] /\ row'[r][thr[r][u].item.file] = row[r][thr[r][u].item.file]
      <3> TAKE r \in Subscribers, u \in Threads
      <3> HAVE thr'[r][u] \in Delivering
      <3>1. thr'[r][u] = thr[r][u] /\ thr[r][u] \in Delivering
        BY <1>5, ThreadStates
      <3>2. PICK g \in Files : g = thr[r][u].item.file
        BY <3>1, ThreadStates
      <3>3. row[r][g] = "delivering"
        BY <3>1, <3>2 DEF ThreadRows
      <3>4. row'[r][g] = row[r][g]
        BY <1>3, <3>3, DispatchKeepsRows
      <3>5. QED BY <3>1, <3>2, <3>4
    <2>2. ASSUME NEW r \in Subscribers, NEW u \in Threads, thr'[r][u] \in Delivering
          PROVE  /\ row'[r][thr'[r][u].item.file] = "delivering"
                 /\ thr'[r][u].item.kind = "backlog" =>
                       <<r, thr'[r][u].item.file>> \in backLog' /\ <<r, thr'[r][u].item.file>> \in blScheduled'
                 /\ thr'[r][u].item.kind = "new" => <<r, thr'[r][u].item.file>> \notin backLog'
                 /\ \A v \in Threads : thr'[r][v] \in Delivering /\ v # u =>
                       thr'[r][v].item.file # thr'[r][u].item.file
      BY <1>1, <2>1, <2>2 DEF ThreadRows, InBackLog
    <2>3. QED BY <2>2 DEF ThreadRows, InBackLog
  <1>11. RowsServed'
    <2>1. ASSUME NEW r \in Subscribers, r # s, NEW f \in Files
          PROVE  RowServed(r, f)'
      <3>1. RowServed(r, f) /\ row'[r][f] = row[r][f] /\ queue'[r] = queue[r]
        BY <1>2, <1>3, <2>1 DEF RowsServed, QueueGrown
      <3>2. \A u \in Threads : thr'[r][u] = thr[r][u]
        BY <1>5, <2>1
      <3>3. QED BY <1>1, <3>1, <3>2 DEF RowServed
    <2>2. ASSUME NEW f \in Files
          PROVE  RowServed(s, f)'
      <3>1. RowServed(s, f)
        BY DEF RowsServed
      <3>2. CASE row[s][f] = "none" /\ row'[s][f] = "none"
        BY <1>1, <3>1, <3>2 DEF RowServed
      <3>3. CASE row[s][f] = "none" /\ row'[s][f] = "scheduled" /\ \E i \in main.req[s] : i.file = f
        <4>1. PICK i \in main.req[s] : i.file = f
          BY <3>3
        <4>2. i \in Accepted(s)
          BY <3>3, <4>1 DEF Accepted
        <4>3. PICK k \in old + 1 .. old + add : queue'[s][k].file = f
          BY <1>2, <4>1, <4>2 DEF QueueGrown
        <4>4. k \in 1 .. Len(queue'[s])
          BY <1>2 DEF QueueGrown
        <4>5. f <= archived
          BY <1>1, <4>1 DEF ReqRows, ReqRow
        <4>6. QED BY <1>1, <3>1, <3>3, <4>3, <4>4, <4>5 DEF RowServed
      <3>4. CASE row[s][f] # "none" /\ row'[s][f] = row[s][f]
        <4>1. s \in built
          BY <3>4 DEF QueuesRun
        <4>2. thr' = thr
          BY <1>4, <4>1
        <4>3. ASSUME row[s][f] = "scheduled"
              PROVE  \E k \in 1 .. Len(queue'[s]) : queue'[s][k].file = f
          <5>1. PICK k \in 1 .. Len(queue[s]) : queue[s][k].file = f
            BY <3>1, <4>3 DEF RowServed
          <5>2. k \in 1 .. Len(queue'[s]) /\ queue'[s][k] = queue[s][k]
            BY <1>2 DEF QueueGrown
          <5>3. QED BY <5>1, <5>2
        <4>4. QED BY <1>1, <3>1, <3>4, <4>2, <4>3 DEF RowServed
      <3>5. QED BY <3>2, <3>3, <3>4, DispatchKeepsRows
    <2>3. QED BY <2>1, <2>2 DEF RowsServed
  <1>12. ReqRows'
    <2>1. ASSUME NEW r \in Subscribers \ main'.done, NEW i \in main'.req[r]
          PROVE  ReqRow(r, i)'
      <3>1. r # s /\ r \in Subscribers \ main.done /\ i \in main.req[r]
        BY <1>1
      <3>2. ReqRow(r, i)
        BY <1>1, <3>1 DEF ReqRows
      <3>3. i.file \in Files
        BY <1>0, <3>1 DEF TypeOK, Items
      <3>4. row'[r][i.file] = row[r][i.file] /\ queue'[r] = queue[r]
        BY <1>2, <1>3, <3>1, <3>3 DEF QueueGrown
      <3>5. QED BY <1>1, <3>2, <3>4 DEF ReqRow, InBackLog
    <2>2. QED BY <2>1 DEF ReqRows
  <1>13. ListsFresh' /\ EntriesCounted'
    BY <1>1 DEF ListsFresh, EntriesCounted
  <1>14. QED BY <1>6, <1>8, <1>9, <1>10, <1>11, <1>12, <1>13

\* No Subscriber was there before it came.
LEMMA OnceInit == Init => OnceInv
  <1> SUFFICES ASSUME Init PROVE OnceInv
    OBVIOUS
  <1>1. DeliveryInv
    BY DeliveryInit
  <1>2. main.pc = "loop"
    BY DEF Init, Asleep
  <1>3. /\ \A s \in Subscribers : queue[s] = <<>> /\ Len(queue[s]) = 0 /\ \A f \in Files : row[s][f] = "none"
        /\ \A s \in Subscribers, t \in Threads : thr[s][t] = Off
    BY DEF Init
  <1>4. \A s \in Subscribers, t \in Threads : thr[s][t].pc = "off" /\ thr[s][t] \notin Delivering
    BY <1>3, ThreadStates
  <1>5. QueuesRun
    BY <1>2, <1>3, <1>4 DEF Init, QueuesRun
  <1>6. QueuedOnce /\ QueuedRows /\ ThreadRows
    BY <1>3, <1>4 DEF QueuedOnce, QueuedRows, ThreadRows
  <1>7. RowsServed
    BY <1>3 DEF Init, RowsServed, RowServed
  <1>8. ReqRows /\ ListsFresh
    BY <1>2 DEF Init, ReqRows, ListsFresh
  <1>9. EntriesCounted
    BY FS_EmptySet DEF Init, EntriesCounted
  <1>10. QED BY <1>1, <1>5, <1>6, <1>7, <1>8, <1>9 DEF OnceInv, OncePart

\* Every step keeps it.
LEMMA OnceStep == ASSUME Orderly PROVE OnceInv /\ [Next]_vars => OnceInv'
  <1> SUFFICES ASSUME OnceInv, [Next]_vars PROVE OnceInv'
    OBVIOUS
  <1>1. DeliveryInv'
    BY DeliveryStep DEF OnceInv
  <1> SUFFICES OncePart'
    BY <1>1 DEF OnceInv
  <1>2. CASE UNCHANGED vars
    <2>1. UNCHANGED <<archived, online, stopDelivery, main, subs, built, spawned, queue, row,
                      thr, backLog, blCount, blScheduled, fileList, subscrList>>
      BY <1>2 DEF vars, worldVars, subVars, listVars, queueVars, blVars, slipVars, thrVars
    <2>2. QED BY <2>1, OutsideOnce
  <1>3. CASE FileArchived
    BY <1>3, ArchivedOnce
  <1>4. CASE Trigger \/ Unmount \/ Mount \/ \E f \in Files : Remove(f)
    <2>1. UNCHANGED <<archived, online, stopDelivery, main, subs, built, spawned, queue, row,
                      thr, backLog, blCount, blScheduled, fileList, subscrList>>
      BY <1>4 DEF Trigger, Schedule, Unmount, Mount, Remove, worldVars, subVars, listVars,
         queueVars, blVars, slipVars, thrVars
    <2>2. QED BY <2>1, OutsideOnce
  <1>5. ASSUME NEW s \in Subscribers, Subscribe(s, 1) \/ Subscribe(s, Now) \/ Unsubscribe(s) \/ Usubscribe(s)
        PROVE  OncePart'
    <2>1. Subscribe(s, 1) \/ Subscribe(s, Now)
      BY <1>5 DEF Orderly, Unsubscribe, Usubscribe, Fault
    <2>2. QED BY <2>1, SubscribeOnce
  <1>6. CASE MainStep
    BY <1>6, RoundOnce, WakeUpOnce, SelectOnce, DispatchOnce DEF MainStep, Orderly
  <1>7. ASSUME NEW s \in Subscribers, NEW t \in Threads, ThreadStep(s, t)
        PROVE  OncePart'
    BY <1>7, CheckStopOnce, GetOnce, PostOnce, DeliveredOnce, NotDeliveredOnce
       DEF ThreadStep, Orderly
  <1>8. ~(Offline \/ Online \/ Crash)
    BY DEF Orderly, Offline, Online, Crash, Fault, OnceInv, OncePart, QueuesRun
  <1>9. QED BY <1>2, <1>3, <1>4, <1>5, <1>6, <1>7, <1>8 DEF Next

\* The invariant says where the files are.
LEMMA OnceServed == ASSUME OnceInv, Threads # {} PROVE QueueServed /\ ThreadsRun /\ BackLogCounted
  <1> USE DEF OnceInv, OncePart
  <1>1. QueueServed
    <2> SUFFICES ASSUME NEW s \in built, NEW f \in Files, row[s][f] = "scheduled"
                 PROVE  \E k \in DOMAIN queue[s] : queue[s][k].file = f
      BY DEF QueueServed
    <2>1. s \in Subscribers /\ queue[s] \in Seq(Items)
      BY DEF DeliveryInv, TypeOK
    <2>2. PICK k \in 1 .. Len(queue[s]) : queue[s][k].file = f
      BY <2>1 DEF RowsServed, RowServed
    <2>3. k \in DOMAIN queue[s]
      BY <2>1
    <2>4. QED BY <2>2, <2>3
  <1>2. ThreadsRun
    BY DEF ThreadsRun, QueuesRun, DeliveryInv, TypeOK
  <1>3. BackLogCounted
    <2>1. blCount \in Int /\ miscounts \in Nat /\ Cardinality(backLog) \in Nat
      BY BackLogFinite DEF DeliveryInv, TypeOK
    <2>2. QED BY <2>1 DEF EntriesCounted, BackLogCounted
  <1>4. QED BY <1>1, <1>2, <1>3

\* A step of the rows of ngas_subscr_queue.
FinalStep == \A s \in Subscribers, f \in Files : row[s][f] = "delivered" => row'[s][f] = "delivered"

\* Nothing that is delivered is in a queue or with a thread, so that no step touches its row.
LEMMA FinalKept == ASSUME Orderly PROVE OnceInv /\ [Next]_vars => FinalStep
  <1> SUFFICES ASSUME OnceInv, [Next]_vars, NEW s \in Subscribers, NEW f \in Files, row[s][f] = "delivered"
               PROVE  row'[s][f] = "delivered"
    BY DEF FinalStep
  <1> USE DEF OnceInv, OncePart
  <1>0. TypeOK
    BY DEF DeliveryInv
  <1>1. CASE UNCHANGED row
    BY <1>1
  <1>2. ASSUME NEW r \in Subscribers, Dispatch(r)
        PROVE  row'[s][f] = "delivered"
    <2>1. CASE r = s
      BY <1>2, <2>1, DispatchKeepsRows
    <2>2. CASE r # s
      BY <1>0, <1>2, <2>2, DispatchRows DEF RowsDispatched
    <2>3. QED BY <2>1, <2>2
  <1>3. ASSUME NEW r \in Subscribers, NEW t \in Threads, Get(r, t)
        PROVE  row'[s][f] = "delivered"
    <2>1. PICK item \in Items :
             /\ item = queue[r][1] /\ 1 \in 1 .. Len(queue[r])
             /\ UNCHANGED row \/ OneRow(r, item.file, "delivering")
      BY <1>0, <1>3, GetServed DEF Orderly
    <2>2. row[r][item.file] # "delivered"
      BY <2>1 DEF QueuedRows
    <2>3. <<s, f>> # <<r, item.file>>
      BY <2>2
    <2>4. QED BY <2>1, <2>3 DEF OneRow
  <1>4. ASSUME NEW r \in Subscribers, NEW t \in Threads, Delivered(r, t) \/ NotDelivered(r, t)
        PROVE  row'[s][f] = "delivered"
    <2>1. PICK g \in Files : /\ thr[r][t] \in Delivering /\ g = thr[r][t].item.file
                             /\ OneRow(r, g, "delivered") \/ OneRow(r, g, "failed")
      BY <1>0, <1>4, DeliveredServed, NotDeliveredServed DEF Orderly
    <2>2. <<s, f>> # <<r, g>>
      BY <2>1 DEF ThreadRows
    <2>3. QED BY <2>1, <2>2 DEF OneRow
  <1>5. QED BY <1>1, <1>2, <1>3, <1>4
     DEF Next, MainStep, ThreadStep, FileArchived, Trigger, Subscribe, Unsubscribe, Usubscribe, Suspend,
         WakeUp, Select, SelectFails, DispatchEnds, CheckStop, Post, Offline, Online, Crash, Unmount,
         Mount, Remove, vars, queueVars

\* A file recorded as delivered is not delivered again, whatever is archived, whoever
\* subscribes, whatever POST fails or is not confirmed and whatever happens to the disk: none
\* of its copies is left in a queue or with another Delivery Thread of the Subscriber.
THEOREM DeliveredStays == ASSUME Orderly PROVE Spec => DeliveredFinal
  <1>1. OnceInv /\ [Next]_vars => OnceInv'
    BY OnceStep
  <1>2. OnceInv /\ [Next]_vars
            => [\A s \in Subscribers, f \in Files : row[s][f] = "delivered" => row'[s][f] = "delivered"]_vars
    BY FinalKept DEF FinalStep
  <1>3. QED BY <1>1, <1>2, OnceInit, PTL DEF Spec, DeliveredFinal

-----------------------------------------------------------------------------
(* The back-log files that are marked as scheduled are on their way.       *)

OnWay(s, f) ==
    \/ /\ main.pc = "dispatch" /\ s \notin main.done
       /\ [file |-> f, kind |-> "backlog"] \in main.req[s]
    \/ \E k \in 1 .. Len(queue[s]) : queue[s][k] = [file |-> f, kind |-> "backlog"]
    \/ \E t \in Threads : thr[s][t] \in Delivering /\ thr[s][t].item = [file |-> f, kind |-> "backlog"]
KeysOnWay == \A s \in Subscribers, f \in Files : <<s, f>> \in blScheduled \ keyLeft => OnWay(s, f)
RoundBegins == main.pc = "taken" => main.done = {}
WayPart == KeysOnWay /\ RoundBegins
WayInv == OnceInv /\ WayPart

\* A step outside the rounds and the deliveries.
LEMMA OutsideWay ==
    ASSUME WayInv, UNCHANGED <<main, queue, thr, blScheduled, keyLeft>>
    PROVE  WayPart'
  <1> USE DEF WayInv, WayPart
  <1>1. RoundBegins'
    BY DEF RoundBegins
  <1>2. ASSUME NEW s \in Subscribers, NEW f \in Files, OnWay(s, f)
        PROVE  OnWay(s, f)'
    BY <1>2 DEF OnWay
  <1>3. QED BY <1>1, <1>2 DEF KeysOnWay

\* The Subscription Thread between two rounds.
LEMMA RoundWay ==
    ASSUME WayInv, Suspend \/ WakeUp \/ SelectFails \/ DispatchEnds
    PROVE  WayPart'
  <1> USE DEF WayInv, WayPart
  <1>1. UNCHANGED <<queue, thr, blScheduled>> /\ keyLeft \subseteq keyLeft'
    BY DEF Suspend, WakeUp, SelectFails, DispatchEnds, worldVars, subVars, queueVars, blVars, slipVars, thrVars
  <1>2. main'.pc # "dispatch" /\ main'.done = {}
    <2>1. \/ \E label \in {"loop", "timed", "untimed"} : main' = [Asleep EXCEPT !.pc = label]
          \/ main' = [Asleep EXCEPT !.pc = "taken", !.files = fileList, !.objs = subscrList]
      BY DEF Suspend, WakeUp, SelectFails, DispatchEnds, Main
    <2>2. Asleep \in MainType /\ Asleep.done = {}
      BY DEF Asleep, MainType
    <2>3. QED BY <2>1, <2>2 DEF MainType
  <1>3. RoundBegins'
    BY <1>2 DEF RoundBegins
  <1>4. ASSUME NEW s \in Subscribers, NEW f \in Files, <<s, f>> \in blScheduled \ keyLeft'
        PROVE  OnWay(s, f)'
    <2>1. OnWay(s, f)
      BY <1>1, <1>4 DEF KeysOnWay
    <2>2. ~(main.pc = "dispatch" /\ s \notin main.done /\ [file |-> f, kind |-> "backlog"] \in main.req[s])
      <3> SUFFICES ASSUME main.pc = "dispatch", s \notin main.done,
                          [file |-> f, kind |-> "backlog"] \in main.req[s]
                   PROVE  FALSE
        OBVIOUS
      <3>1. DispatchEnds
        BY DEF Suspend, WakeUp, SelectFails
      <3>2. PICK p \in Pairs : p = <<s, f>>
        BY DEF Pairs
      <3>3. p[1] = s /\ p[2] = f
        BY <3>2
      <3>4. p \in keyLeft'
        BY <3>1, <3>3 DEF DispatchEnds
      <3>5. QED BY <1>4, <3>2, <3>4
    <2>3. QED BY <1>1, <2>1, <2>2 DEF OnWay
  <1>5. QED BY <1>1, <1>3, <1>4 DEF KeysOnWay

\* What the selection marks it is going to put into the queue.
LEMMA SelectWay ==
    ASSUME WayInv, Select
    PROVE  WayPart'
  <1> USE DEF WayInv, WayPart
  <1>1. /\ main.pc = "taken" /\ blScheduled' = blScheduled \cup backLog
        /\ UNCHANGED <<queue, thr, keyLeft>>
    BY DEF Select, queueVars, thrVars, slipVars
  <1>2. /\ main'.pc = "dispatch" /\ main'.done = main.done
        /\ main'.req = [s \in Subscribers |-> DeliverReq(s)]
    <2>1. main \in MainType
      BY DEF OnceInv, DeliveryInv, TypeOK, MainType
    <2>2. main' = [main EXCEPT !.pc = "dispatch", !.req = [s \in Subscribers |-> DeliverReq(s)]]
      BY DEF Select
    <2>3. QED BY <2>1, <2>2 DEF MainType
  <1>3. main'.done = {}
    BY <1>1, <1>2 DEF RoundBegins
  <1>4. RoundBegins'
    BY <1>2 DEF RoundBegins
  <1>5. ASSUME NEW s \in Subscribers, NEW f \in Files, <<s, f>> \in blScheduled \ keyLeft
        PROVE  OnWay(s, f)'
    BY <1>1, <1>5 DEF KeysOnWay, OnWay
  <1>6. ASSUME NEW s \in Subscribers, NEW f \in Files, <<s, f>> \in backLog, <<s, f>> \notin blScheduled
        PROVE  OnWay(s, f)'
    <2>1. [file |-> f, kind |-> "backlog"] \in DeliverReq(s)
      BY <1>6 DEF DeliverReq
    <2>2. QED BY <1>2, <1>3, <2>1 DEF OnWay
  <1>7. QED BY <1>1, <1>4, <1>5, <1>6 DEF KeysOnWay

\* The round puts it there.
LEMMA DispatchWay ==
    ASSUME "db" \notin Events, WayInv, NEW s \in Subscribers, Dispatch(s)
    PROVE  WayPart'
  <1> USE DEF WayInv, WayPart
  <1>0. TypeOK
    BY DEF OnceInv, DeliveryInv
  <1>1. /\ main.pc = "dispatch" /\ s \notin main.done /\ main'.pc = "dispatch" /\ main'.req = main.req
        /\ main'.done = main.done \cup {s}
        /\ UNCHANGED <<blScheduled, keyLeft>>
    BY <1>0, DispatchRest
  <1>2. PICK old \in Nat, add \in Nat : QueueGrown(s, old, add)
    BY DispatchGrows
  <1>3. RoundBegins'
    BY <1>1 DEF RoundBegins
  <1>4. \A r \in Subscribers, u \in Threads : thr[r][u] \in Delivering => thr'[r][u] = thr[r][u]
    <2> TAKE r \in Subscribers, u \in Threads
    <2> HAVE thr[r][u] \in Delivering
    <2>1. r \in built
      BY ThreadStates DEF OnceInv, OncePart, QueuesRun
    <2>2. thr \in [Subscribers -> [Threads -> ThreadType]]
      BY <1>0 DEF TypeOK, ThreadType, Waiting, Delivering
    <2>3. thr' = thr \/ (s \notin built /\ thr' = [thr EXCEPT ![s] = [t \in Threads |-> Top]])
      BY DEF Dispatch, OnceInv, OncePart, QueuesRun
    <2>4. QED BY <2>1, <2>2, <2>3
  <1>5. \A r \in Subscribers : \A k \in 1 .. Len(queue[r]) :
           k \in 1 .. Len(queue'[r]) /\ queue'[r][k] = queue[r][k]
    <2> TAKE r \in Subscribers
    <2> TAKE k \in 1 .. Len(queue[r])
    <2>1. CASE r = s
      BY <1>2, <2>1 DEF QueueGrown
    <2>2. CASE r # s
      BY <1>2, <2>2 DEF QueueGrown
    <2>3. QED BY <2>1, <2>2
  <1>6. ASSUME NEW r \in Subscribers, NEW f \in Files, OnWay(r, f)
        PROVE  OnWay(r, f)'
    <2> DEFINE item == [file |-> f, kind |-> "backlog"]
    <2>1. CASE \E k \in 1 .. Len(queue[r]) : queue[r][k] = item
      BY <1>5, <2>1 DEF OnWay
    <2>2. CASE \E t \in Threads : thr[r][t] \in Delivering /\ thr[r][t].item = item
      BY <1>4, <2>2 DEF OnWay
    <2>3. CASE r \notin main.done /\ item \in main.req[r] /\ r # s
      BY <1>1, <2>3 DEF OnWay
    <2>4. CASE item \in main.req[r] /\ r = s
      <3>1. item \in Accepted(s) /\ item.file = f /\ item.kind = "backlog"
        BY <2>4 DEF Accepted
      <3> HIDE DEF item
      <3>2. row[s][f] = "failed"
        BY <3>1, AcceptedFree
      <3>3. PICK k \in old + 1 .. old + add : queue'[s][k].file = f
        BY <1>2, <3>1 DEF QueueGrown
      <3>4. queue'[s][k] \in Accepted(s) /\ k \in 1 .. Len(queue'[s])
        BY <1>2 DEF QueueGrown
      <3>5. queue'[s][k] \in Items /\ queue'[s][k].kind = "backlog"
        BY <3>2, <3>3, <3>4, AcceptedFree
      <3>6. queue'[s][k] = [file |-> f, kind |-> "backlog"]
        BY <3>3, <3>5 DEF Items
      <3>7. QED BY <2>4, <3>4, <3>6 DEF OnWay
    <2>5. QED BY <1>6, <2>1, <2>2, <2>3, <2>4 DEF OnWay
  <1>7. QED BY <1>1, <1>3, <1>6 DEF KeysOnWay

\* A Delivery Thread has it or puts an end to it.
LEMMA ThreadWay ==
    ASSUME "db" \notin Events, WayInv, NEW s \in Subscribers, NEW t \in Threads, ThreadStep(s, t)
    PROVE  WayPart'
  <1> USE DEF WayInv, WayPart
  <1>0. TypeOK
    BY DEF OnceInv, DeliveryInv
  <1>1. UNCHANGED main
    BY DEF ThreadStep, CheckStop, Get, Post, Delivered, NotDelivered
  <1>2. RoundBegins'
    BY <1>1 DEF RoundBegins
  <1>3. SUFFICES ASSUME NEW r \in Subscribers, NEW f \in Files, <<r, f>> \in blScheduled' \ keyLeft',
                        <<r, f>> \in blScheduled \ keyLeft => OnWay(r, f)
                 PROVE  OnWay(r, f)'
    BY <1>2 DEF KeysOnWay
  <1> DEFINE item == [file |-> f, kind |-> "backlog"]
  <1>4. CASE CheckStop(s, t)
    <2>1. thr[s][t].pc \in {"top", "get"} /\ UNCHANGED <<queue, blScheduled, keyLeft>>
          /\ \A q \in Subscribers, u \in Threads : <<q, u>> # <<s, t>> => thr'[q][u] = thr[q][u]
      BY <1>0, <1>4, CheckStopEffect DEF OneThread
    <2>2. thr[s][t] \notin Delivering
      BY <2>1, ThreadStates
    <2>3. \A q \in Subscribers, u \in Threads : thr[q][u] \in Delivering => thr'[q][u] = thr[q][u]
      BY <2>1, <2>2
    <2>4. QED BY <1>1, <1>3, <2>1, <2>3 DEF OnWay
  <1>5. CASE Post(s, t)
    <2>1. PICK x \in Delivering :
             /\ x.item = thr[s][t].item /\ OneThread(s, t, x) /\ UNCHANGED <<queue, blScheduled, keyLeft>>
      BY <1>0, <1>5, PostEffect
    <2>2. \A q \in Subscribers, u \in Threads : thr[q][u] \in Delivering =>
             thr'[q][u] \in Delivering /\ thr'[q][u].item = thr[q][u].item
      BY <2>1 DEF OneThread
    <2>3. QED BY <1>1, <1>3, <2>1, <2>2 DEF OnWay
  <1>6. CASE Delivered(s, t) \/ NotDelivered(s, t)
    <2>1. PICK g \in Files :
             /\ thr[s][t] \in Delivering /\ g = thr[s][t].item.file /\ OneThread(s, t, Top)
             /\ UNCHANGED <<queue, keyLeft>>
             /\ \/ thr[s][t].item.kind = "backlog" /\ blScheduled' = blScheduled \ {<<s, g>>}
                \/ thr[s][t].item.kind = "new" /\ UNCHANGED blScheduled
      BY <1>0, <1>6, DeliveredServed, NotDeliveredServed
    <2>2. OnWay(r, f)
      BY <1>3, <2>1
    <2>3. ~(r = s /\ thr[s][t].item = item)
      BY <1>3, <2>1
    <2>4. \A u \in Threads : thr[r][u] \in Delivering /\ thr[r][u].item = item => thr'[r][u] = thr[r][u]
      BY <2>1, <2>3 DEF OneThread
    <2>5. QED BY <1>1, <2>1, <2>2, <2>4 DEF OnWay
  <1>7. CASE Get(s, t)
    <2>1. PICK head \in Items :
             /\ queue[s] # <<>> /\ head = queue[s][1] /\ 1 \in 1 .. Len(queue[s]) /\ thr[s][t].pc = "get"
             /\ UNCHANGED blScheduled
             /\ \/ head.kind = "loaded" /\ OneThread(s, t, Top)
                \/ /\ head.kind = "backlog" /\ OneThread(s, t, Top)
                   /\ keyLeft' = keyLeft \cup {<<s, head.file>>}
                \/ /\ UNCHANGED keyLeft
                   /\ OneThread(s, t, [pc |-> "posting", item |-> head])
                   /\ [pc |-> "posting", item |-> head] \in Delivering
      BY <1>0, <1>7, GetServed
    <2>2. head.kind # "loaded"
      BY <2>1 DEF OnceInv, OncePart, QueuedRows
    <2>3. /\ \A q \in Subscribers, u \in Threads : <<q, u>> # <<s, t>> => thr'[q][u] = thr[q][u]
          /\ keyLeft \subseteq keyLeft'
          /\ \/ r = s /\ f # head.file
             \/ r # s
             \/ /\ thr'[s][t] = [pc |-> "posting", item |-> head]
                /\ [pc |-> "posting", item |-> head] \in Delivering
      BY <1>3, <2>1, <2>2 DEF OneThread
    <2>4. /\ \A q \in Subscribers : q # s => queue'[q] = queue[q]
          /\ Len(queue[s]) \in Nat /\ Len(queue'[s]) = Len(queue[s]) - 1
          /\ \A k \in 1 .. Len(queue'[s]) : queue'[s][k] = queue[s][k + 1]
      <3>1. queue' = [queue EXCEPT ![s] = Tail(@)]
        BY <1>7 DEF Get
      <3>2. QED BY <1>0, <2>1, <3>1, TailEffect
    <2>5. thr[s][t] \notin Delivering
      BY <2>1, ThreadStates
    <2>6. \A q \in Subscribers, u \in Threads : thr[q][u] \in Delivering => thr'[q][u] = thr[q][u]
      BY <2>3, <2>5
    <2>7. OnWay(r, f)
      BY <1>3, <2>1, <2>3
    <2>8. ASSUME NEW k \in 1 .. Len(queue[r]), queue[r][k] = item
          PROVE  OnWay(r, f)'
      <3>1. CASE r # s
        BY <2>4, <2>8, <3>1 DEF OnWay
      <3>2. CASE r = s /\ k = 1
        <4>1. thr'[s][t] = [pc |-> "posting", item |-> head] /\ head = item
          BY <2>1, <2>3, <2>8, <3>2
        <4>2. [pc |-> "posting", item |-> head] \in Delivering /\ [pc |-> "posting", item |-> head].item = head
          BY <2>1, <2>3, <2>8, <3>2
        <4>3. thr'[s][t] \in Delivering /\ thr'[s][t].item = item
          BY <4>1, <4>2
        <4>4. QED BY <3>2, <4>3 DEF OnWay
      <3>3. CASE r = s /\ k # 1
        <4>1. k - 1 \in 1 .. Len(queue'[s]) /\ (k - 1) + 1 = k
          BY <2>4, <3>3
        <4>2. queue'[s][k - 1] = item
          BY <2>4, <2>8, <3>3, <4>1
        <4>3. QED BY <3>3, <4>1, <4>2 DEF OnWay
      <3>4. QED BY <3>1, <3>2, <3>3
    <2>9. CASE \E u \in Threads : thr[r][u] \in Delivering /\ thr[r][u].item = item
      BY <2>6, <2>9 DEF OnWay
    <2>10. CASE main.pc = "dispatch" /\ r \notin main.done /\ item \in main.req[r]
      BY <1>1, <2>10 DEF OnWay
    <2>11. QED BY <2>7, <2>8, <2>9, <2>10 DEF OnWay
  <1>8. QED BY <1>4, <1>5, <1>6, <1>7 DEF ThreadStep

\* At the start nothing is marked.
LEMMA WayInit == Init => WayInv
  <1> SUFFICES ASSUME Init PROVE WayInv
    OBVIOUS
  <1>1. OnceInv
    BY OnceInit
  <1>2. KeysOnWay /\ RoundBegins
    BY DEF Init, KeysOnWay, RoundBegins, Asleep
  <1>3. QED BY <1>1, <1>2 DEF WayInv, WayPart

\* Every step keeps it.
LEMMA WayStep == ASSUME Orderly PROVE WayInv /\ [Next]_vars => WayInv'
  <1> SUFFICES ASSUME WayInv, [Next]_vars PROVE WayInv'
    OBVIOUS
  <1>1. OnceInv' /\ "db" \notin Events
    BY OnceStep DEF WayInv, Orderly
  <1> SUFFICES WayPart'
    BY <1>1 DEF WayInv
  <1>2. CASE \/ UNCHANGED vars \/ FileArchived \/ Trigger \/ Unmount \/ Mount
             \/ \E f \in Files : Remove(f)
    <2>1. UNCHANGED <<main, queue, thr, blScheduled, keyLeft>>
      BY <1>2 DEF vars, FileArchived, Trigger, Unmount, Mount, Remove, queueVars, blVars,
         slipVars, thrVars
    <2>2. QED BY <2>1, OutsideWay
  <1>3. ASSUME NEW s \in Subscribers, Subscribe(s, 1) \/ Subscribe(s, Now) \/ Unsubscribe(s) \/ Usubscribe(s)
        PROVE  WayPart'
    <2>1. Subscribe(s, 1) \/ Subscribe(s, Now)
      BY <1>3 DEF Orderly, Unsubscribe, Usubscribe, Fault
    <2>2. UNCHANGED <<main, queue, thr, blScheduled, keyLeft>>
      BY <2>1 DEF Subscribe, queueVars, blVars, slipVars, thrVars
    <2>3. QED BY <2>2, OutsideWay
  <1>4. CASE MainStep
    BY <1>1, <1>4, RoundWay, SelectWay, DispatchWay DEF MainStep
  <1>5. ASSUME NEW s \in Subscribers, NEW t \in Threads, ThreadStep(s, t)
        PROVE  WayPart'
    BY <1>1, <1>5, ThreadWay
  <1>6. ~(Offline \/ Online \/ Crash)
    BY DEF Orderly, Offline, Online, Crash, Fault, WayInv, OnceInv, OncePart, QueuesRun
  <1>7. QED BY <1>2, <1>3, <1>4, <1>5, <1>6 DEF Next

\* With POSTs that fail or are not confirmed, Subscribers that come during a round, a disk that
\* is unmounted and files that are removed, everything that is queued or in the back-log is
\* known to a thread that runs: every file recorded as scheduled waits in its queue, every queue
\* has its Delivery Threads, the counter by which the Subscription Thread decides how long to
\* sleep covers the back-log, and a back-log file is kept from being scheduled again only while
\* it is on its way, or after a round that was broken off or a file that was missing.
THEOREM DeliveriesStayScheduled ==
    ASSUME Orderly, Threads # {}
    PROVE  Spec => []DeliveriesScheduled
  <1>1. WayInv => DeliveriesScheduled
    <2> SUFFICES ASSUME WayInv PROVE DeliveriesScheduled
      OBVIOUS
    <2>1. TypeOK /\ QueueServed /\ ThreadsRun /\ BackLogCounted
      BY OnceServed DEF WayInv, OnceInv, DeliveryInv
    <2>2. BackLogScheduled
      <3> SUFFICES ASSUME NEW s \in subs, NEW f \in Files, <<s, f>> \in blScheduled \ keyLeft
                   PROVE  LET item == [file |-> f, kind |-> "backlog"]
                          IN \/ main.pc = "dispatch" /\ s \notin main.done /\ item \in main.req[s]
                             \/ \E k \in DOMAIN queue[s] : queue[s][k] = item
                             \/ \E t \in Threads : thr[s][t].item = item
        BY DEF BackLogScheduled
      <3>1. s \in Subscribers /\ queue[s] \in Seq(Items)
        BY <2>1 DEF TypeOK
      <3>2. OnWay(s, f) /\ DOMAIN queue[s] = 1 .. Len(queue[s])
        BY <3>1 DEF WayInv, WayPart, KeysOnWay
      <3>3. QED BY <3>2 DEF OnWay
    <2>3. QED BY <2>1, <2>2 DEF DeliveriesScheduled
  <1>2. WayInv /\ [Next]_vars => WayInv'
    BY WayStep
  <1>3. QED BY <1>1, <1>2, WayInit, PTL DEF Spec

=============================================================================
