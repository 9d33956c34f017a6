---------------------------- MODULE Subscription ----------------------------
(***************************************************************************)
(* The Data Subscription Service (ngamsSubscriptionThread and the commands *)
(* SUBSCRIBE, UNSUBSCRIBE, USUBSCRIBE and TRIGGERSUBSCRIPTION): the        *)
(* Subscription Thread, which is woken up when a file is archived or a     *)
(* Subscriber appears and decides what to deliver to whom, and the         *)
(* Delivery Threads of each Subscriber, which POST the files and enter     *)
(* those they could not deliver into the Subscription Back-Log.            *)
(*                                                                         *)
(* Memory that a restart clears: the Subscriber objects, the lists for the *)
(* Subscription Thread, the queues, the threads, the dictionary of         *)
(* scheduled back-log files.  Memory that stays: ngas_subscribers,         *)
(* ngas_subscr_queue, ngas_subscr_back_log.                                *)
(*                                                                         *)
(* File f is the f-th archived file; times are counted in half steps       *)
(* between two archived files.  Subscribers have one URL and no Filter     *)
(* Plug-In, the server neither caches nor is it a Data Mover, a file is on *)
(* one disk, and a Subscriber ID is not used again after UNSUBSCRIBE.      *)
(* Iterating over a dictionary that changes its size raises an exception,  *)
(* as it does in Python 3.                                                 *)
(***************************************************************************)
EXTENDS Integers, Sequences, FiniteSets

CONSTANTS
    Subscribers, \* the Subscriber IDs
    Initial,     \* the Subscribers that subscribed before the first file came
    MaxFiles,    \* bound on the number of archived files
    Threads,     \* the Delivery Threads of a Subscriber (concurrent_threads)
    Events,      \* the commands and faults that may occur, of EventKinds
    MaxFaults,   \* bound on the number of faults and of USUBSCRIBE commands
    None         \* a thread has no file

(***************************************************************************)
(* The commands; post: the POST fails; reply: the POST is carried out and  *)
(* its reply is lost; db: the DB fails in a step of the Subscription Thread *)
(* or of a Delivery Thread; disk: the disk is unmounted and mounted again; *)
(* remove: a file is removed by somebody else; offline: OFFLINE and ONLINE *)
(* (and INIT); crash: the server is killed and restarted.                  *)
(***************************************************************************)
EventKinds == {"subscribe", "unsubscribe", "usubscribe", "trigger", "post",
               "reply", "db", "disk", "remove", "offline", "crash"}

ASSUME SubscribersAssumption == Initial \subseteq Subscribers /\ IsFiniteSet(Subscribers)
ASSUME SubscriptionBounds == MaxFiles \in Nat /\ MaxFaults \in Nat
ASSUME EventsAssumption == Events \subseteq EventKinds

Files == 1 .. MaxFiles
\* FILE_BL: new files; files of the Subscription Back-Log; files loaded from
\* ngas_subscr_queue, whose list has the length of the DB Summary 2 format.
Items == [file : Files, kind : {"new", "backlog", "loaded"}]
Statuses == {"none", "scheduled", "delivering", "delivered", "failed"}
Pairs == Subscribers \X Files

VARIABLES
    archived,    \* the number of files archived so far
    online,      \* the Subscription Thread was started and not stopped
    subs,        \* _subscriberDic, and the rows of ngas_subscribers
    start,       \* start[s]: the Start Date; 0: not subscribed yet
    lastDb,      \* ngas_subscribers.last_file_ingestion_date; 0: none
    lastMem,     \* getLastFileIngDate() of the Subscriber object
    sched,       \* _subscrScheduledStatus; 0: none
    fileList,    \* _subscriptionFileList
    subscrList,  \* _subscriptionSubscrList
    runSync,     \* _subscriptionRunSync is set
    main,        \* the Subscription Thread
    queue,       \* queue[s]: _subscrQueueDic
    built,       \* the keys of _subscrQueueDic
    row,         \* row[s][f]: ngas_subscr_queue.status
    backLog,     \* ngas_subscr_back_log
    blCount,     \* _subscrBackLogCount
    blScheduled, \* _subscrBlScheduledDic
    dbLost,      \* deliveries whose row a failing statement left behind (history)
    keyLeft,     \* deliveries whose key was left in _subscrBlScheduledDic (history)
    miscounts,   \* the number of DELETEs that failed after the decrement (history)
    spawned,     \* the keys of _subscrDeliveryThreadDic
    stopDelivery,\* _deliveryStopSync is set
    thr,         \* thr[s][t]: Delivery Thread t of Subscriber s
    received,    \* the files the Subscribers have received
    mounted,     \* the disk with the files is mounted
    gone,        \* the files somebody removed
    faults       \* the number of them so far

subVars == <<subs, start, lastDb, lastMem, sched>>
listVars == <<fileList, subscrList, runSync>>
queueVars == <<queue, built, row>>
slipVars == <<dbLost, keyLeft, miscounts>>
blVars == <<backLog, blCount, blScheduled, slipVars>>
thrVars == <<spawned, stopDelivery, thr>>
worldVars == <<archived, received, mounted, gone>>
vars == <<worldVars, online, subVars, listVars, main, queueVars, blVars, thrVars, faults>>

Date(f) == 2 * f
Now == 2 * archived + 1
Fault(kind) == kind \in Events /\ faults < MaxFaults /\ faults' = faults + 1
\* The DB serves the step, or fails in it.
Db(ok) == IF ok THEN UNCHANGED faults ELSE Fault("db")

Top == [pc |-> "top", item |-> None]
Off == [pc |-> "off", item |-> None]
Asleep == [pc |-> "loop", files |-> {}, objs |-> {},
           req |-> [s \in Subscribers |-> {}], done |-> {}, size |-> 0]

-----------------------------------------------------------------------------
(***************************************************************************)
(* What wakes the Subscription Thread.                                     *)
(***************************************************************************)

\* addSubscriptionInfo and triggerSubscriptionThread.
Schedule(files, objs) == /\ fileList' = fileList \cup files
                         /\ subscrList' = subscrList \cup objs
                         /\ runSync' = TRUE

\* A file has been archived: the built-in archive event subscriber.
FileArchived == /\ online /\ archived < MaxFiles
                /\ archived' = archived + 1
                /\ Schedule({archived + 1}, {})
                /\ UNCHANGED <<received, mounted, gone, online, subVars, main, queueVars,
                               blVars, thrVars, faults>>

\* The rows of ngas_subscribers.
insertSubscriberEntry(s) == subs' = subs \cup {s}
deleteSubscriber(s) == subs' = subs \ {s}

\* SUBSCRIBE, from now on or from before the first file.
Subscribe(s, date) ==
    /\ "subscribe" \in Events /\ start[s] = 0
    /\ insertSubscriberEntry(s)
    /\ start' = [start EXCEPT ![s] = date]
    /\ Schedule({}, {s})
    /\ UNCHANGED <<worldVars, online, lastDb, lastMem, sched, main, queueVars, blVars,
                   thrVars, faults>>

\* UNSUBSCRIBE.  Without Delivery Threads it ends in a KeyError when the
\* Subscriber is forgotten and its queue and its back-log are still there.
Unsubscribe(s) ==
    /\ "unsubscribe" \in Events /\ s \in subs
    /\ deleteSubscriber(s)
    /\ sched' = [sched EXCEPT ![s] = 0]
    /\ spawned' = spawned \ {s}
    /\ IF s \in spawned
         THEN /\ built' = built \ {s}
              /\ blScheduled' = blScheduled \ (({s} \X Files) \cap backLog)
              /\ backLog' = backLog \ ({s} \X Files)
         ELSE UNCHANGED <<built, blScheduled, backLog>>
    /\ UNCHANGED <<worldVars, online, start, lastDb, lastMem, listVars, main, queue, row,
                   blCount, slipVars, stopDelivery, thr, faults>>

\* USUBSCRIBE for an existing Subscriber, leaving its Start Date and its threads.
Usubscribe(s) ==
    /\ Fault("usubscribe") /\ s \in subs
    /\ Schedule({}, {s})
    /\ UNCHANGED <<worldVars, online, subVars, main, queueVars, blVars, thrVars>>

\* TRIGGERSUBSCRIPTION without a Subscriber ID.
Trigger ==
    /\ "trigger" \in Events
    /\ Schedule({}, {})
    /\ UNCHANGED <<worldVars, online, subVars, main, queueVars, blVars, thrVars, faults>>

-----------------------------------------------------------------------------
(***************************************************************************)
(* The Subscription Thread.                                                *)
(***************************************************************************)
Main(label) == main' = [Asleep EXCEPT !.pc = label]

\* The event is cleared before waiting instead of when the lists are taken.
SuspendClears == /\ main.pc = "loop"
                 /\ Main(IF blCount > 0 THEN "timed" ELSE "untimed")
                 /\ runSync' = FALSE
                 /\ UNCHANGED <<worldVars, online, subVars, fileList, subscrList, queueVars,
                                blVars, thrVars, faults>>

\* _waitForScheduling decides how long to wait by the back-log counter.
Suspend == /\ main.pc = "loop"
           /\ Main(IF blCount > 0 THEN "timed" ELSE "untimed")
           /\ UNCHANGED <<worldVars, online, subVars, listVars, queueVars, blVars, thrVars,
                          faults>>

\* It was woken up, or its time is up: it takes the lists.
WakeUp ==
    /\ main.pc = "timed" \/ (main.pc = "untimed" /\ runSync)
    /\ runSync' = FALSE /\ fileList' = {} /\ subscrList' = {}
    /\ IF subs = {} /\ subscrList = {}
         THEN Main("loop")
         ELSE main' = [Asleep EXCEPT !.pc = "taken", !.files = fileList,
                                     !.objs = subscrList]
    /\ UNCHANGED <<worldVars, online, subVars, queueVars, blVars, thrVars, faults>>

\* min_date: the earliest date one of the given Subscribers is interested in.
MinDate(objs) ==
    LET dates == {IF lastMem[s] # 0 THEN lastMem[s] ELSE start[s] : s \in objs}
    IN CHOOSE d \in dates : \A e \in dates : d <= e

\* fileDicDbm: the candidates, of the Subscribers given or else of the files given.
Candidates == IF main.objs # {}
                THEN {f \in 1 .. archived : Date(f) > MinDate(main.objs)}
                ELSE main.files

\* _checkIfDeliverFile: what has been scheduled counts as delivered.
LastDelivery(s) == IF lastDb[s] # 0 /\ sched[s] > lastDb[s] THEN sched[s] ELSE lastDb[s]
CheckIfDeliver(s, f, explicit) == /\ Date(f) >= start[s]
                                  /\ explicit \/ Date(f) >= LastDelivery(s)

\* The new files to deliver to s: the ones given explicitly, and the ones of a
\* Subscriber given explicitly.
NewFiles(s) == {f \in Candidates : \/ f \in main.files /\ s \in subs /\ CheckIfDeliver(s, f, TRUE)
                                   \/ s \in main.objs /\ CheckIfDeliver(s, f, FALSE)}

\* _addFileDeliveryDic without _subscrBlScheduledDic.
DeliverReqAgain(s) ==
    LET logged == {f \in Files : <<s, f>> \in backLog}
    IN [file : NewFiles(s) \ logged, kind : {"new"}] \cup [file : logged, kind : {"backlog"}]

\* _addFileDeliveryDic: a back-log file takes the place of the same new file and
\* is else left out if it was scheduled before.
DeliverReq(s) ==
    LET logged == {f \in Files : <<s, f>> \in backLog}
    IN [file : NewFiles(s) \ logged, kind : {"new"}]
       \cup [file : {f \in logged : f \in NewFiles(s) \/ <<s, f>> \notin blScheduled},
             kind : {"backlog"}]

\* deliveredStatus has no key for a Subscriber that has gone.
UnknownSubscriber == main.objs \ subs # {} /\ Candidates # {}

\* The thread finds out what to deliver to whom.
Select ==
    /\ main.pc = "taken" /\ ~UnknownSubscriber
    /\ main' = [main EXCEPT !.pc = "dispatch", !.req = [s \in Subscribers |-> DeliverReq(s)]]
    /\ blScheduled' = blScheduled \cup backLog
    /\ UNCHANGED <<worldVars, online, subVars, listVars, queueVars, backLog, blCount,
                   slipVars, thrVars, faults>>

\* An exception: the thread goes on with the next round.
SelectFails ==
    /\ main.pc = "taken"
    /\ \/ UnknownSubscriber /\ UNCHANGED faults
       \/ Fault("db")
    /\ Main("loop")
    /\ UNCHANGED <<worldVars, online, subVars, listVars, queueVars, blVars, thrVars>>

\* The files of a set, sorted by Ingestion Date.
InOrder(files) == CHOOSE q \in [1 .. Cardinality(files) -> files] :
                      \A i, j \in 1 .. Cardinality(files) : i < j => q[i] < q[j]

\* buildSubscrQueue: interrupted deliveries are scheduled again.
Rescheduled(s) == [f \in Files |-> IF row[s][f] = "delivering" THEN "scheduled" ELSE row[s][f]]
LoadedQueue(s) ==
    LET files == {f \in Files : Rescheduled(s)[f] = "scheduled"}
    IN [n \in 1 .. Cardinality(files) |-> [file |-> InOrder(files)[n], kind |-> "loaded"]]

\* The items, one per file, sorted by Ingestion Date.
ItemsInOrder(items) ==
    LET files == {i.file : i \in items}
    IN [n \in 1 .. Cardinality(files) |-> CHOOSE i \in items : i.file = InOrder(files)[n]]

\* Only back-log files are put into the queue.
QueuedBackLog(rows, req) == ItemsInOrder({i \in req : i.kind = "backlog"})

\* addToSubscrQueue: a new file whose row exists is not put into the queue.
Queued(rows, req) == ItemsInOrder({i \in req : rows[i.file] = "none" \/ i.kind = "backlog"})

\* The dictionary of Subscribers has changed its size since the loop started.
Changed == main.done # {} /\ Cardinality(subs) # main.size

\* The rows of ngas_subscr_queue: a file that has none gets one.
addSubscrQueueEntries(rows, req) ==
    [f \in Files |-> IF rows[f] = "none" /\ \E i \in req : i.file = f THEN "scheduled" ELSE rows[f]]

\* The rows and the queue of s, which buildSubscrQueue makes out of the table; when one
\* of its two statements fails it returns an empty queue.
Loaded(s) == IF s \in built THEN <<row[s], queue[s]>> ELSE <<Rescheduled(s), LoadedQueue(s)>>
Loads(s) == {Loaded(s)} \cup IF s \in built THEN {} ELSE {Rescheduled(s), row[s]} \X {<<>>}

\* One round of the loop over the Subscribers: queue and threads of s.  A new file
\* whose INSERT fails is left out for good.
Dispatch(s) ==
    LET dates == {Date(i.file) : i \in main.req[s]} \cup {sched[s]}
    IN /\ main.pc = "dispatch" /\ ~Changed
       /\ s \in subs \ main.done
       /\ sched' = [sched EXCEPT ![s] = CHOOSE d \in dates : \A e \in dates : d >= e]
       /\ \E load \in Loads(s), req \in SUBSET main.req[s] :
             /\ \A i \in main.req[s] \ req : i.kind = "new" /\ load[1][i.file] = "none"
             /\ Db(load = Loaded(s) /\ req = main.req[s])
             /\ queue' = [queue EXCEPT ![s] = load[2] \o Queued(load[1], req)]
             /\ row' = [row EXCEPT ![s] = addSubscrQueueEntries(load[1], req)]
             /\ dbLost' = IF load = Loaded(s) THEN dbLost ELSE dbLost \cup ({s} \X Files)
       /\ built' = built \cup {s}
       /\ spawned' = spawned \cup {s}
       /\ thr' = IF s \in spawned THEN thr ELSE [thr EXCEPT ![s] = [t \in Threads |-> Top]]
       /\ main' = [main EXCEPT !.done = @ \cup {s},
                                !.size = IF main.done = {} THEN Cardinality(subs) ELSE @]
       /\ UNCHANGED <<worldVars, online, subs, start, lastDb, lastMem, listVars, backLog,
                      blCount, blScheduled, keyLeft, miscounts, stopDelivery>>

\* The loop ends, or fails: the back-log files of the Subscribers whose turn had not
\* come stay marked as scheduled.
DispatchEnds ==
    /\ main.pc = "dispatch"
    /\ Changed \/ subs \subseteq main.done
    /\ Main("loop")
    /\ keyLeft' = keyLeft \cup {p \in Pairs : /\ p[1] \notin main.done
                                               /\ [file |-> p[2], kind |-> "backlog"] \in main.req[p[1]]}
    /\ UNCHANGED <<worldVars, online, subVars, listVars, queueVars, backLog, blCount,
                   blScheduled, dbLost, miscounts, thrVars, faults>>

-----------------------------------------------------------------------------
(***************************************************************************)
(* The Delivery Threads.                                                   *)
(***************************************************************************)
Becomes(s, t, state) == thr' = [thr EXCEPT ![s][t] = state]

\* updateSubscrQueueStatus, which only logs that it failed.
SetRow(s, f, status, ok) ==
    IF ok THEN row' = [row EXCEPT ![s][f] = status] /\ UNCHANGED dbLost
          ELSE dbLost' = dbLost \cup {<<s, f>>} /\ UNCHANGED row

\* The threads do not notice that the Subscriber has gone.
MustStopServer(s) == stopDelivery

\* _checkStopDataDeliveryThread, at the top of the loop and after a vain wait.
MustStop(s) == stopDelivery \/ s \notin subs
CheckStop(s, t) ==
    /\ thr[s][t].pc = "top" \/ (thr[s][t].pc = "get" /\ queue[s] = <<>> /\ MustStop(s))
    /\ Becomes(s, t, IF MustStop(s) THEN Off ELSE [Top EXCEPT !.pc = "get"])
    /\ UNCHANGED <<worldVars, online, subVars, listVars, main, queueVars, blVars, spawned,
                   stopDelivery, faults>>

\* The last ingestion date of a Subscriber only grows.
updateSubscrStatus(s, date) ==
    lastDb' = IF s \in subs /\ lastDb[s] < date THEN [lastDb EXCEPT ![s] = date] ELSE lastDb

\* The rows of ngas_subscr_back_log.
addSubscrBackLogEntry(s, f) == backLog' = backLog \cup {<<s, f>>}
delSubscrBackLogEntry(s, f) == backLog' = backLog \ {<<s, f>>}

\* _delFromSubscrBackLog counts before it deletes.
DelFromBackLog(s, f, ok) ==
    /\ blCount' = blCount - 1
    /\ IF ok THEN delSubscrBackLogEntry(s, f) /\ UNCHANGED miscounts
             ELSE miscounts' = miscounts + 1 /\ UNCHANGED backLog

Missing(f) == ~mounted \/ f \in gone

\* An empty queue is not told from a file.
GetNone(s, t) ==
    /\ thr[s][t].pc = "get" /\ queue[s] = <<>>
    /\ Becomes(s, t, [pc |-> "posting", item |-> None])
    /\ UNCHANGED <<worldVars, online, subVars, listVars, main, queueVars, blVars, spawned,
                   stopDelivery, faults>>

\* A missing back-log file is forgotten although its disk is not mounted.
GetForgets(s, t) ==
    LET item == Head(queue[s])
    IN /\ thr[s][t].pc = "get" /\ queue[s] # <<>>
       /\ queue' = [queue EXCEPT ![s] = Tail(@)]
       /\ IF item.kind = "backlog" /\ Missing(item.file)
            THEN /\ Becomes(s, t, Top) /\ DelFromBackLog(s, item.file, TRUE)
                 /\ UNCHANGED <<row, blScheduled, dbLost, keyLeft>>
            ELSE /\ Becomes(s, t, [pc |-> "posting", item |-> item])
                 /\ SetRow(s, item.file, "delivering", TRUE)
                 /\ UNCHANGED <<backLog, blCount, blScheduled, keyLeft, miscounts>>
       /\ UNCHANGED <<worldVars, online, subVars, listVars, main, built, spawned,
                      stopDelivery, faults>>

\* The file is marked as delivered when its delivery starts.
GetDelivered(s, t) ==
    /\ thr[s][t].pc = "get" /\ queue[s] # <<>>
    /\ queue' = [queue EXCEPT ![s] = Tail(@)]
    /\ Becomes(s, t, [pc |-> "posting", item |-> Head(queue[s])])
    /\ SetRow(s, Head(queue[s]).file, "delivered", TRUE)
    /\ UNCHANGED <<worldVars, online, subVars, listVars, main, built, backLog, blCount,
                   blScheduled, keyLeft, miscounts, spawned, stopDelivery, faults>>

\* The thread gets a file.  _convertFileInfo takes a loaded file for one in DB
\* Summary 2 format and raises; a back-log file that is missing is skipped, and
\* forgotten if the query of its disk shows that only the file is, its key staying
\* in either case; any other is going to be delivered, its status in
\* ngas_subscr_queue (a row, never equal to 0 or -1) notwithstanding.
Get(s, t) ==
    LET item == Head(queue[s])
    IN /\ thr[s][t].pc = "get" /\ queue[s] # <<>>
       /\ queue' = [queue EXCEPT ![s] = Tail(@)]
       /\ \/ /\ item.kind = "loaded"
             /\ Becomes(s, t, Top)
             /\ UNCHANGED <<row, blVars, faults>>
          \/ /\ item.kind = "backlog" /\ Missing(item.file)
             /\ Becomes(s, t, Top)
             /\ \/ ~mounted /\ UNCHANGED <<backLog, blCount, miscounts, faults>>
                \/ Fault("db") /\ UNCHANGED <<backLog, blCount, miscounts>>
                \/ mounted /\ \E ok \in BOOLEAN : Db(ok) /\ DelFromBackLog(s, item.file, ok)
             /\ keyLeft' = keyLeft \cup {<<s, item.file>>}
             /\ UNCHANGED <<row, blScheduled, dbLost>>
          \/ /\ item.kind = "new" \/ (item.kind = "backlog" /\ ~Missing(item.file))
             /\ Becomes(s, t, [pc |-> "posting", item |-> item])
             /\ \E ok \in BOOLEAN : Db(ok) /\ SetRow(s, item.file, "delivering", ok)
             /\ UNCHANGED <<backLog, blCount, blScheduled, keyLeft, miscounts>>
       /\ UNCHANGED <<worldVars, online, subVars, listVars, main, built, spawned,
                      stopDelivery>>

\* The Subscriber receives the file.
Post(s, t) ==
    LET f == thr[s][t].item.file
    IN /\ thr[s][t].pc = "posting" /\ ~Missing(f)
       /\ received' = received \cup {<<s, f>>}
       /\ Becomes(s, t, [thr[s][t] EXCEPT !.pc = "sent"])
       /\ UNCHANGED <<archived, mounted, gone, online, subVars, listVars, main, queueVars,
                      blVars, spawned, stopDelivery, faults>>

\* The POST has succeeded.  That the row or the Subscriber's date could not be
\* updated is logged; a failing DELETE ends the delivery, the key of the file staying.
Delivered(s, t) ==
    LET f == thr[s][t].item.file
    IN /\ thr[s][t].pc = "sent"
       /\ \E rowOk, dateOk, delOk \in BOOLEAN :
             /\ Db(rowOk /\ dateOk /\ delOk)
             /\ SetRow(s, f, "delivered", rowOk)
             /\ IF dateOk THEN updateSubscrStatus(s, Date(f)) ELSE UNCHANGED lastDb
             /\ \/ /\ thr[s][t].item.kind = "backlog"
                   /\ DelFromBackLog(s, f, delOk)
                   /\ IF delOk THEN blScheduled' = blScheduled \ {<<s, f>>} /\ UNCHANGED keyLeft
                               ELSE keyLeft' = keyLeft \cup {<<s, f>>} /\ UNCHANGED blScheduled
                \/ /\ thr[s][t].item.kind = "new" /\ delOk
                   /\ UNCHANGED <<backLog, blCount, blScheduled, keyLeft, miscounts>>
       /\ lastMem' = [lastMem EXCEPT ![s] = Date(f)]
       /\ Becomes(s, t, Top)
       /\ UNCHANGED <<worldVars, online, subs, start, sched, listVars, main, queue, built,
                      spawned, stopDelivery>>

\* A failed delivery ends the thread.
NotDeliveredDies(s, t) ==
    /\ thr[s][t].pc = "posting" /\ Fault("post")
    /\ SetRow(s, thr[s][t].item.file, "failed", TRUE)
    /\ Becomes(s, t, Off)
    /\ UNCHANGED <<worldVars, online, subVars, listVars, main, queue, built, backLog, blCount,
                   blScheduled, keyLeft, miscounts, spawned, stopDelivery>>

\* The key of the back-log file is not removed from _subscrBlScheduledDic.
NotDeliveredKeepsKey(s, t) ==
    LET f == thr[s][t].item.file
    IN /\ thr[s][t].pc = "posting" /\ Fault("post")
       /\ SetRow(s, f, "failed", TRUE)
       /\ addSubscrBackLogEntry(s, f)
       /\ blCount' = IF thr[s][t].item.kind = "backlog" THEN blCount ELSE blCount + 1
       /\ Becomes(s, t, Top)
       /\ UNCHANGED <<worldVars, online, subVars, listVars, main, queue, built, blScheduled,
                      keyLeft, miscounts, spawned, stopDelivery>>

\* The back-log entry is not counted.
NotDeliveredUncounted(s, t) ==
    /\ thr[s][t].pc = "posting" /\ Fault("post")
    /\ SetRow(s, thr[s][t].item.file, "failed", TRUE)
    /\ addSubscrBackLogEntry(s, thr[s][t].item.file)
    /\ Becomes(s, t, Top)
    /\ UNCHANGED <<worldVars, online, subVars, listVars, main, queue, built, blCount,
                   blScheduled, keyLeft, miscounts, spawned, stopDelivery>>

\* The delivery has failed: the file cannot be opened, the Subscriber cannot be
\* reached, or its reply was lost.  _genSubscrBackLogFile, unless back-logged; when
\* its INSERT fails the file is neither in the back-log nor marked as failed.
NotDelivered(s, t) ==
    LET f == thr[s][t].item.file
    IN /\ \/ thr[s][t].pc = "posting" /\ Missing(f)
          \/ thr[s][t].pc = "posting" /\ "post" \in Events
          \/ thr[s][t].pc = "sent" /\ "reply" \in Events
       /\ \E entryOk, rowOk \in BOOLEAN :
             /\ faults' = faults + (IF thr[s][t].pc = "posting" /\ Missing(f) THEN 0 ELSE 1)
                                 + (IF entryOk /\ rowOk THEN 0 ELSE 1)
             /\ faults' <= MaxFaults
             /\ (entryOk /\ rowOk) \/ "db" \in Events
             /\ SetRow(s, f, "failed", rowOk)
             /\ \/ /\ thr[s][t].item.kind = "backlog" /\ entryOk
                   /\ blScheduled' = blScheduled \ {<<s, f>>}
                   /\ UNCHANGED <<backLog, blCount>>
                \/ /\ thr[s][t].item.kind = "new" /\ entryOk
                   /\ addSubscrBackLogEntry(s, f)
                   /\ blCount' = blCount + 1
                   /\ UNCHANGED blScheduled
                \/ /\ thr[s][t].item.kind = "new" /\ ~entryOk /\ ~rowOk
                   /\ UNCHANGED <<backLog, blCount, blScheduled>>
       /\ Becomes(s, t, Top)
       /\ UNCHANGED <<worldVars, online, subVars, listVars, main, queue, built, keyLeft,
                      miscounts, spawned, stopDelivery>>

-----------------------------------------------------------------------------
(***************************************************************************)
(* The server stops and starts; what happens to the disk.                  *)
(***************************************************************************)

\* stopSubscriptionThread; the thread confirms within its 10 seconds, losing the
\* lists if it had just taken them.
Offline == /\ Fault("offline")
           /\ online /\ main.pc # "dispatch"
           /\ online' = FALSE /\ Main("off")
           /\ stopDelivery' = TRUE
           /\ UNCHANGED <<worldVars, subVars, listVars, queueVars, blVars, spawned, thr>>

\* The Subscribers and the back-log counter are read from the DB, and all
\* Subscribers are to be checked.
ReadSubscribers == /\ lastMem' = [s \in Subscribers |-> IF s \in subs THEN lastDb[s] ELSE lastMem[s]]
                   /\ blCount' = IF backLog # {} THEN Cardinality(backLog) ELSE blCount
                   /\ miscounts' = IF backLog # {} THEN 0 ELSE miscounts

\* handleOnline with startSubscriptionThread: _subscrDeliveryThreadDic is kept.
Online == /\ ~online
          /\ online' = TRUE /\ Main("loop")
          /\ ReadSubscribers
          /\ Schedule({}, subs)
          /\ stopDelivery' = FALSE
          /\ UNCHANGED <<worldVars, subs, start, lastDb, sched, queueVars, backLog,
                         blScheduled, dbLost, keyLeft, spawned, thr, faults>>

\* After a restart the Subscribers are not checked.
CrashUnchecked ==
    /\ Fault("crash")
    /\ online' = TRUE /\ Main("loop")
    /\ lastMem' = lastDb /\ blCount' = Cardinality(backLog)
    /\ sched' = [s \in Subscribers |-> 0]
    /\ fileList' = {} /\ subscrList' = {} /\ runSync' = TRUE
    /\ queue' = [s \in Subscribers |-> <<>>] /\ built' = {}
    /\ blScheduled' = {}
    /\ dbLost' = {} /\ keyLeft' = {} /\ miscounts' = 0
    /\ spawned' = {} /\ stopDelivery' = FALSE
    /\ thr' = [s \in Subscribers |-> [t \in Threads |-> Off]]
    /\ UNCHANGED <<worldVars, subs, start, lastDb, row, backLog>>

\* The server is killed and started again.
Crash ==
    /\ Fault("crash")
    /\ online' = TRUE /\ Main("loop")
    /\ lastMem' = lastDb /\ blCount' = Cardinality(backLog)
    /\ sched' = [s \in Subscribers |-> 0]
    /\ fileList' = {} /\ subscrList' = subs /\ runSync' = TRUE
    /\ queue' = [s \in Subscribers |-> <<>>] /\ built' = {}
    /\ blScheduled' = {}
    /\ dbLost' = {} /\ keyLeft' = {} /\ miscounts' = 0
    /\ spawned' = {} /\ stopDelivery' = FALSE
    /\ thr' = [s \in Subscribers |-> [t \in Threads |-> Off]]
    /\ UNCHANGED <<worldVars, subs, start, lastDb, row, backLog>>

Unmount == /\ Fault("disk") /\ mounted
           /\ mounted' = FALSE
           /\ UNCHANGED <<archived, received, gone, online, subVars, listVars, main,
                          queueVars, blVars, thrVars>>
Mount == /\ ~mounted
         /\ mounted' = TRUE
         /\ UNCHANGED <<archived, received, gone, online, subVars, listVars, main,
                        queueVars, blVars, thrVars, faults>>
Remove(f) == /\ Fault("remove") /\ f \in (1 .. archived) \ gone
             /\ gone' = gone \cup {f}
             /\ UNCHANGED <<archived, received, mounted, online, subVars, listVars, main,
                            queueVars, blVars, thrVars>>

-----------------------------------------------------------------------------
Init == /\ archived = 0 /\ received = {} /\ mounted = TRUE /\ gone = {}
        /\ online = TRUE /\ main = Asleep
        /\ subs = Initial
        /\ start = [s \in Subscribers |-> IF s \in Initial THEN 1 ELSE 0]
        /\ lastDb = [s \in Subscribers |-> 0] /\ lastMem = lastDb /\ sched = lastDb
        /\ fileList = {} /\ subscrList = Initial /\ runSync = TRUE
        /\ queue = [s \in Subscribers |-> <<>>] /\ built = {}
        /\ row = [s \in Subscribers |-> [f \in Files |-> "none"]]
        /\ backLog = {} /\ blCount = 0 /\ blScheduled = {}
        /\ dbLost = {} /\ keyLeft = {} /\ miscounts = 0
        /\ spawned = {} /\ stopDelivery = FALSE
        /\ thr = [s \in Subscribers |-> [t \in Threads |-> Off]]
        /\ faults = 0

MainStep == \/ Suspend \/ WakeUp \/ Select \/ SelectFails \/ DispatchEnds
            \/ \E s \in Subscribers : Dispatch(s)
ThreadStep(s, t) == \/ CheckStop(s, t) \/ Get(s, t) \/ Post(s, t)
                    \/ Delivered(s, t) \/ NotDelivered(s, t)

Next == \/ FileArchived \/ Trigger
        \/ \E s \in Subscribers : \/ Subscribe(s, 1) \/ Subscribe(s, Now)
                                  \/ Unsubscribe(s) \/ Usubscribe(s)
        \/ MainStep
        \/ \E s \in Subscribers, t \in Threads : ThreadStep(s, t)
        \/ Offline \/ Online \/ Crash \/ Unmount \/ Mount
        \/ \E f \in Files : Remove(f)

Spec == Init /\ [][Next]_vars

\* Threads keep running: the Subscription Thread and each Delivery Thread.
Fairness == /\ WF_vars(MainStep)
            /\ \A s \in Subscribers, t \in Threads : WF_vars(ThreadStep(s, t))
FairSpec == Spec /\ Fairness

-----------------------------------------------------------------------------
(***************************************************************************)
(* Properties.                                                             *)
(***************************************************************************)

\* A Delivery Thread has a file exactly while it delivers it, and never one that
\* _convertFileInfo cannot convert.
TypeOK ==
    /\ archived \in 0 .. MaxFiles /\ faults \in 0 .. MaxFaults
    /\ online \in BOOLEAN /\ mounted \in BOOLEAN /\ gone \subseteq Files
    /\ subs \subseteq Subscribers /\ built \subseteq Subscribers /\ spawned \subseteq Subscribers
    /\ {start, lastDb, lastMem, sched} \subseteq [Subscribers -> Nat]
    /\ fileList \subseteq Files /\ subscrList \subseteq Subscribers /\ runSync \in BOOLEAN
    /\ main \in [pc : {"loop", "untimed", "timed", "taken", "dispatch", "off"},
                 files : SUBSET Files, objs : SUBSET Subscribers,
                 req : [Subscribers -> SUBSET Items], done : SUBSET Subscribers, size : Nat]
    /\ queue \in [Subscribers -> Seq(Items)]
    /\ row \in [Subscribers -> [Files -> Statuses]]
    /\ backLog \subseteq Pairs /\ blScheduled \subseteq Pairs /\ received \subseteq Pairs
    /\ dbLost \subseteq Pairs /\ keyLeft \subseteq Pairs /\ miscounts \in Nat
    /\ blCount \in Int /\ stopDelivery \in BOOLEAN
    /\ thr \in [Subscribers -> [Threads -> {Top, Off, [Top EXCEPT !.pc = "get"]} \cup
                  [pc : {"posting", "sent"}, item : [file : Files, kind : {"new", "backlog"}]]]]

\* The queue in memory and ngas_subscr_queue agree: a file that is scheduled for a
\* Subscriber whose queue exists waits in that queue (buildSubscrQueue,
\* addToSubscrQueue), unless its row could not be updated or loaded.
QueueServed == \A s \in built, f \in Files :
                  row[s][f] = "scheduled" /\ <<s, f>> \notin dbLost =>
                      \E k \in DOMAIN queue[s] : queue[s][k].file = f

\* A Subscriber with an entry in _subscrDeliveryThreadDic, for which therefore no
\* Delivery Threads will be started, has one that runs.
ThreadsRun == \A s \in spawned \cap subs :
                 online => \E t \in Threads : thr[s][t].pc # "off"

\* The key of a file in _subscrBlScheduledDic, which keeps the file from being
\* scheduled again, is there only while a delivery of the file is under way, except
\* after one of the three events that leave it behind: a round that ends before the
\* Subscriber's turn, a file found missing, a failing DELETE.
BackLogScheduled ==
    \A s \in subs, f \in Files : <<s, f>> \in blScheduled \ keyLeft =>
        LET item == [file |-> f, kind |-> "backlog"]
        IN \/ main.pc = "dispatch" /\ s \notin main.done /\ item \in main.req[s]
           \/ \E k \in DOMAIN queue[s] : queue[s][k] = item
           \/ \E t \in Threads : thr[s][t].item = item

\* The back-log counter, by which the Subscription Thread decides whether to sleep
\* without a time limit, is below the number of files in the back-log by no more than
\* the DELETEs that failed.
BackLogCounted == blCount + miscounts >= Cardinality(backLog)

\* What is queued or in the back-log is known to a thread that runs: the queue and the table
\* agree, the back-log is scheduled once and counted, and every queue has its threads; what
\* the DB or an interrupted round left behind is the only exception.
DeliveriesScheduled == TypeOK /\ QueueServed /\ ThreadsRun /\ BackLogScheduled /\ BackLogCounted

\* A file recorded as delivered to a Subscriber is not delivered again.
DeliveredFinal == [][\A s \in Subscribers, f \in Files :
                        row[s][f] = "delivered" => row'[s][f] = "delivered"]_vars

\* Status 0 in ngas_subscr_queue is true: the Subscriber has received the file.
DeliveredRecorded == \A s \in Subscribers, f \in Files :
                        row[s][f] = "delivered" => <<s, f>> \in received

\* A failed delivery is not forgotten: the file is in the back-log unless the
\* Subscriber got it all the same, or the file has gone.
FailedBackLogged == \A s \in subs, f \in Files :
                       row[s][f] = "failed" => <<s, f>> \in backLog \cup received \/ f \in gone

\* The last ingestion date of a Subscriber, beyond which a restarted server looks
\* for files, does not pass over a file that is not in ngas_subscr_queue.
NothingSkipped == \A s \in subs, f \in 1 .. archived :
                     start[s] <= Date(f) /\ Date(f) < lastDb[s] => row[s][f] # "none"

\* After any restart the tables tell what the Subscribers have and what they still lack.
RecordsTrue == FailedBackLogged /\ DeliveredRecorded /\ NothingSkipped

\* Every file archived after the Start Date is delivered to the Subscriber, unless it
\* stays in the back-log while the Subscription Thread sleeps without a time limit: the
\* delivery failed after the thread had looked at the counter, and neither another file
\* nor a command wakes it.  What is left of a Subscriber that has gone may end a round.
GuaranteedDelivery ==
    \A s \in Subscribers, f \in Files :
        (s \in subs /\ f <= archived /\ start[s] <= Date(f))
            ~> \/ <<s, f>> \in received
               \/ [](<<s, f>> \in backLog /\ main.pc = "untimed")
               \/ \E q \in Subscribers : start[q] # 0 /\ q \notin subs

\* The Delivery Threads of a Subscriber end after UNSUBSCRIBE.
ThreadsStop == \A s \in Subscribers :
                  (start[s] # 0 /\ s \notin subs) ~> (\A t \in Threads : thr[s][t].pc = "off")
=============================================================================
