---------------------------- MODULE AsyncRetrieve ---------------------------
(***************************************************************************)
(* ASYNCLISTRETRIEVE (the variant ngamsCmd_ASYNCLISTRETRIEVE_SINGLE): a    *)
(* client asks for a list of files, which are pushed to its host later.  A *)
(* delivery thread per session queues the files, push threads per host     *)
(* send them; a session can be suspended, resumed and cancelled, and the   *)
(* sessions can be saved before the server stops.  One client host.        *)
(***************************************************************************)
EXTENDS Integers, Sequences, FiniteSets

CONSTANTS
    AlSessions, \* the session ids
    AlWant,     \* AlWant[s]: the files the session asks for
    AlKnown,    \* the files that are archived here
    AlPushers,  \* numPT, the push threads of a host
    AlThreads,  \* names for the delivery threads, at most one for each start
    AlEvents    \* bound on commands after the request, failures, time-outs and kills

ASSUME AlConfig == AlPushers \in Nat \ {0} /\ AlThreads \subseteq Nat /\ AlEvents \in Nat

AlGens == 0..Cardinality(AlSessions)

VARIABLES
    alReq,     \* the sessions in asyncReqDic
    alFiles,   \* alFiles[s]: file_id of the request object
    alStatus,  \* the sessions in statusResDic
    alThread,  \* alThread[s]: the thread in threadDic, or 0
    alRun,     \* alRun[s]: threadRunDic, -1 without entry
    alThr,     \* alThr[d]: a delivery thread: its session, step and files to queue
    alHost,    \* pushQDic: the queue of the host, 0 without entry
    alGen,     \* queues created so far
    alQueue,   \* alQueue[g]: the files queued
    alPush,    \* alPush[<<g, i>>]: a push thread of queue g
    alStop,    \* alStop[s]: the handler that waits for the delivery thread to stop
    alSave,    \* what stopAsyncQService is doing and has saved
    alPosted,  \* the sessions that were asked for
    alGot,     \* alGot[s]: the files the client has received
    alDropped, \* ghost: deliveries given up until the session is resumed
    alEvents   \* events so far

alVars == <<alReq, alFiles, alStatus, alThread, alRun, alThr, alHost, alGen, alQueue, alPush,
            alStop, alSave, alPosted, alGot, alDropped, alEvents>>
alDics == <<alReq, alFiles, alStatus, alThread, alRun>>
alPushing == <<alHost, alGen, alQueue, alPush>>

NoThr == [s |-> "none", step |-> "none", left |-> {}]
NoPush == [step |-> "none", s |-> "none", f |-> "none", st |-> FALSE]

AlInit ==
    /\ alReq = {} /\ alFiles = AlWant /\ alStatus = {}
    /\ alThread = [s \in AlSessions |-> 0] /\ alRun = [s \in AlSessions |-> -1]
    /\ alThr = [d \in AlThreads |-> NoThr]
    /\ alHost = 0 /\ alGen = 0 /\ alQueue = [g \in AlGens |-> <<>>]
    /\ alPush = [p \in AlGens \X (1..AlPushers) |-> NoPush]
    /\ alStop = [s \in AlSessions |-> "none"]
    /\ alSave = [busy |-> FALSE, req |-> {}, files |-> AlWant, status |-> {}]
    /\ alPosted = {} /\ alGot = [s \in AlSessions |-> {}] /\ alDropped = {} /\ alEvents = 0

AlEvent == alEvents < AlEvents /\ alEvents' = alEvents + 1

-----------------------------------------------------------------------------
(***************************************************************************)
(* The commands.                                                           *)
(***************************************************************************)
AlFree == {d \in AlThreads : alThr[d].step = "none"}
NewThread == CHOOSE d \in AlFree : \A e \in AlFree : d <= e

\* _startThread: a thread that is already there is forgotten, not stopped.
StartThread(s) ==
    /\ AlFree # {}
    /\ alThr' = [alThr EXCEPT ![NewThread] = [s |-> s, step |-> "list", left |-> {}]]
    /\ alThread' = [alThread EXCEPT ![s] = NewThread]
    /\ alRun' = [alRun EXCEPT ![s] = 1]
    /\ alDropped' = {x \in alDropped : x[1] # s}

\* Queue and threads of the host are made when it has none.
createPushThread ==
    IF alHost = 0
    THEN /\ alGen' = alGen + 1 /\ alHost' = alGen + 1
         /\ alPush' = [p \in DOMAIN alPush |-> IF p[1] = alGen + 1 THEN [NoPush EXCEPT !.step = "get"] ELSE alPush[p]]
    ELSE UNCHANGED <<alGen, alHost, alPush>>

AlPost(s) ==
    /\ s \notin alPosted
    /\ alPosted' = alPosted \cup {s}
    /\ createPushThread
    /\ alReq' = alReq \cup {s} /\ alStatus' = alStatus \cup {s}
    /\ StartThread(s)
    /\ UNCHANGED <<alFiles, alQueue, alStop, alSave, alGot, alEvents>>

\* genInstantResponse fails in its query: the session is there, without a thread, and the
\* client is told of an error; it may be resumed.
AlPostFails(s) ==
    /\ s \notin alPosted /\ AlEvent
    /\ alPosted' = alPosted \cup {s}
    /\ createPushThread
    /\ alReq' = alReq \cup {s}
    /\ alDropped' = alDropped \cup ({s} \X alFiles[s])
    /\ UNCHANGED <<alFiles, alStatus, alThread, alRun, alThr, alQueue, alStop, alSave, alGot>>

\* cancel and suspend: the flag is set, and the handler waits up to THREAD_STOP_TIME_OUT ...
StopThread(s, cmd) ==
    /\ alStop[s] = "none" /\ AlEvent
    /\ s \in alReq /\ (alThread[s] # 0 \/ cmd = "cancel")
    /\ alRun' = IF alThread[s] # 0 THEN [alRun EXCEPT ![s] = 0] ELSE alRun
    /\ alStop' = [alStop EXCEPT ![s] = cmd]
    /\ UNCHANGED <<alReq, alFiles, alStatus, alThread, alThr, alPushing, alSave, alPosted, alGot, alDropped>>

\* ... then takes the session out of the dictionaries, whether the thread has stopped or not.
ThreadStopped(s) ==
    /\ alStop[s] # "none"
    /\ \/ alThread[s] = 0 /\ UNCHANGED alEvents
       \/ alThread[s] # 0 /\ alThr[alThread[s]].step = "none" /\ UNCHANGED alEvents
       \/ alThread[s] # 0 /\ alThr[alThread[s]].step # "none" /\ AlEvent
    /\ alThread' = [alThread EXCEPT ![s] = 0]
    /\ alRun' = [alRun EXCEPT ![s] = -1]
    /\ IF alStop[s] = "cancel"
       THEN alReq' = alReq \ {s} /\ alStatus' = alStatus \ {s}
       ELSE UNCHANGED <<alReq, alStatus>>
    /\ alStop' = [alStop EXCEPT ![s] = "none"]
    /\ UNCHANGED <<alFiles, alThr, alPushing, alSave, alPosted, alGot, alDropped>>

\* resume
AlResume(s) ==
    /\ s \in alReq /\ AlEvent
    /\ StartThread(s)
    /\ UNCHANGED <<alReq, alFiles, alStatus, alPushing, alStop, alSave, alPosted, alGot>>

\* stopAsyncQService: suspends all sessions ...
AlStopService ==
    /\ alReq # {} /\ ~alSave.busy /\ AlEvent
    /\ \A s \in AlSessions : alStop[s] = "none"
    /\ alStop' = [s \in AlSessions |-> IF s \in alReq /\ alThread[s] # 0 THEN "suspend" ELSE "none"]
    /\ alRun' = [s \in AlSessions |-> IF s \in alReq /\ alThread[s] # 0 THEN 0 ELSE alRun[s]]
    /\ alSave' = [alSave EXCEPT !.busy = TRUE]
    /\ UNCHANGED <<alReq, alFiles, alStatus, alThread, alThr, alPushing, alPosted, alGot, alDropped>>

\* ... and saves them.
AlSaveSessions ==
    /\ alSave.busy /\ \A s \in AlSessions : alStop[s] = "none"
    /\ alSave' = [busy |-> FALSE, req |-> alReq, files |-> alFiles, status |-> alStatus]
    /\ UNCHANGED <<alDics, alThr, alPushing, alStop, alPosted, alGot, alDropped, alEvents>>

\* startAsyncQService, in a server that has no sessions: the saved ones come back and are
\* resumed; no push threads are created.
AlStartService ==
    /\ alReq = {} /\ alSave.req # {}
    /\ alReq' = alSave.req /\ alFiles' = alSave.files /\ alStatus' = alSave.status
    /\ \E new \in [alSave.req -> AlFree] :
          /\ \A s, t \in alSave.req : new[s] = new[t] => s = t
          /\ alThread' = [s \in AlSessions |-> IF s \in alSave.req THEN new[s] ELSE alThread[s]]
          /\ alThr' = [d \in AlThreads |->
                         IF \E s \in alSave.req : new[s] = d
                         THEN [s |-> CHOOSE s \in alSave.req : new[s] = d, step |-> "list", left |-> {}]
                         ELSE alThr[d]]
    /\ alRun' = [s \in AlSessions |-> IF s \in alSave.req THEN 1 ELSE alRun[s]]
    /\ alDropped' = {x \in alDropped : x[1] \notin alSave.req}
    /\ UNCHANGED <<alPushing, alStop, alSave, alPosted, alGot, alEvents>>

\* The server process ends: what is in memory is lost.
AlKill ==
    /\ AlEvent
    /\ alReq' = {} /\ alStatus' = {}
    /\ alThread' = [s \in AlSessions |-> 0] /\ alRun' = [s \in AlSessions |-> -1]
    /\ alThr' = [d \in AlThreads |-> NoThr]
    /\ alHost' = 0 /\ alQueue' = [g \in AlGens |-> <<>>] /\ alPush' = [p \in DOMAIN alPush |-> NoPush]
    /\ alStop' = [s \in AlSessions |-> "none"] /\ alSave' = [alSave EXCEPT !.busy = FALSE]
    /\ UNCHANGED <<alFiles, alGen, alPosted, alGot, alDropped>>

-----------------------------------------------------------------------------
(***************************************************************************)
(* _deliveryThread.                                                        *)
(***************************************************************************)

\* It looks the files up; files on tape that cannot be staged are left out.  The files
\* that were not found are removed from the list while it is walked through, so that up
\* to half of them stay.
AlListFiles(d, staged, kept) ==
    LET s == alThr[d].s
        unknown == alFiles[s] \ AlKnown
    IN /\ alThr[d].step = "list"
       /\ kept \subseteq unknown /\ 2 * Cardinality(kept) <= Cardinality(unknown)
       /\ IF staged THEN UNCHANGED alEvents ELSE AlEvent
       /\ \E left \in SUBSET (alFiles[s] \cap AlKnown) :
             /\ staged => left = alFiles[s] \cap AlKnown
             /\ alThr' = [alThr EXCEPT ![d].step = "queue", ![d].left = left]
             /\ alDropped' = alDropped \cup {<<s, f>> : f \in (alFiles[s] \cap AlKnown) \ left}
       /\ alFiles' = [alFiles EXCEPT ![s] = (@ \cap AlKnown) \cup kept]
       /\ UNCHANGED <<alReq, alStatus, alThread, alRun, alPushing, alStop, alSave, alPosted, alGot>>

\* Its query fails: the thread ends, and is still in threadDic.
AlListFails(d) ==
    LET s == alThr[d].s
    IN /\ alThr[d].step = "list" /\ AlEvent
       /\ alThr' = [alThr EXCEPT ![d] = NoThr]
       /\ alDropped' = alDropped \cup ({s} \X alFiles[s])
       /\ UNCHANGED <<alDics, alPushing, alStop, alSave, alPosted, alGot>>

PushersLive(g) == \E p \in DOMAIN alPush : p[1] = g /\ alPush[p].step # "none"

\* enPushQueue: nothing happens when the host has no queue (and nobody takes the file out
\* of a queue whose push threads have died).
EnPushQueue(d, f) ==
    LET s == alThr[d].s
    IN /\ alThr[d].step = "queue" /\ f \in alThr[d].left /\ alRun[s] # 0
       /\ alThr' = [alThr EXCEPT ![d].left = @ \ {f}]
       /\ alQueue' = IF alHost = 0 THEN alQueue ELSE [alQueue EXCEPT ![alHost] = Append(@, <<s, f>>)]
       /\ alDropped' = IF alHost = 0 \/ ~PushersLive(alHost) THEN alDropped \cup {<<s, f>>} ELSE alDropped
       /\ UNCHANGED <<alDics, alHost, alGen, alPush, alStop, alSave, alPosted, alGot, alEvents>>

\* All files are queued, or the session is to stop.
DeliveryEnds(d) ==
    LET s == alThr[d].s
    IN /\ alThr[d].step = "queue"
       /\ alThr[d].left = {} \/ alRun[s] = 0
       /\ alThr' = [alThr EXCEPT ![d] = NoThr]
       /\ alDropped' = alDropped \cup {<<s, f>> : f \in alThr[d].left}
       /\ UNCHANGED <<alDics, alPushing, alStop, alSave, alPosted, alGot, alEvents>>

-----------------------------------------------------------------------------
(***************************************************************************)
(* _pushThread.                                                            *)
(***************************************************************************)
PushGoto(p, step) == alPush' = [alPush EXCEPT ![p].step = step]

\* The next file of its queue, as long as the host has one.
PushGet(p) ==
    /\ alPush[p].step = "get" /\ alHost # 0 /\ alQueue[p[1]] # <<>>
    /\ alPush' = [alPush EXCEPT ![p].step = "post", ![p].s = Head(alQueue[p[1]])[1], ![p].f = Head(alQueue[p[1]])[2]]
    /\ alQueue' = [alQueue EXCEPT ![p[1]] = Tail(@)]
    /\ UNCHANGED <<alDics, alThr, alHost, alGen, alStop, alSave, alPosted, alGot, alDropped, alEvents>>

\* The files nobody takes out of queue g any more once thread p has ended.
LeftIn(g, p) ==
    IF \E q \in DOMAIN alPush : q # p /\ q[1] = g /\ alPush[q].step # "none" THEN {}
    ELSE {alQueue[g][i] : i \in DOMAIN alQueue[g]}

\* No file for a quarter of an hour: the host's queue is forgotten, whichever it is.
PushIdle(p) ==
    /\ alPush[p].step = "get" /\ alHost # 0 /\ alQueue[p[1]] = <<>> /\ AlEvent
    /\ alHost' = 0
    /\ alPush' = [alPush EXCEPT ![p] = NoPush]
    /\ UNCHANGED <<alDics, alThr, alGen, alQueue, alStop, alSave, alPosted, alGot, alDropped>>

PushEnds(p) ==
    /\ alPush[p].step = "get" /\ alHost = 0
    /\ alPush' = [alPush EXCEPT ![p] = NoPush]
    /\ alDropped' = alDropped \cup LeftIn(p[1], p)
    /\ UNCHANGED <<alDics, alThr, alHost, alGen, alQueue, alStop, alSave, alPosted, alGot, alEvents>>

\* Mutant: a delivered file is not taken from the list.
PushDoneSkips(p) ==
    /\ alPush[p].step = "post"
    /\ alGot' = [alGot EXCEPT ![alPush[p].s] = @ \cup {alPush[p].f}]
    /\ PushGoto(p, "get")
    /\ UNCHANGED <<alDics, alThr, alHost, alGen, alQueue, alStop, alSave, alPosted, alDropped, alEvents>>

\* _httpPost: the client gets the file ...
PushDone(p) ==
    /\ alPush[p].step = "post"
    /\ alGot' = [alGot EXCEPT ![alPush[p].s] = @ \cup {alPush[p].f}]
    /\ PushGoto(p, "settle")
    /\ UNCHANGED <<alDics, alThr, alHost, alGen, alQueue, alStop, alSave, alPosted, alDropped, alEvents>>

\* Mutant: a file that was not delivered is taken from the list as well.
PushFailsForgets(p) ==
    /\ alPush[p].step = "post" /\ AlEvent
    /\ PushGoto(p, "settle")
    /\ UNCHANGED <<alDics, alThr, alHost, alGen, alQueue, alStop, alSave, alPosted, alGot, alDropped>>

\* ... or not; the file is not tried again.
PushFails(p) ==
    /\ alPush[p].step = "post" /\ AlEvent
    /\ PushGoto(p, "get")
    /\ alDropped' = alDropped \cup {<<alPush[p].s, alPush[p].f>>}
    /\ UNCHANGED <<alDics, alThr, alHost, alGen, alQueue, alStop, alSave, alPosted, alGot>>

\* The thread dies: its queue may be left without a thread.
PushDies(p) ==
    /\ alPush' = [alPush EXCEPT ![p] = NoPush]
    /\ alDropped' = alDropped \cup LeftIn(p[1], p) \cup {<<alPush[p].s, alPush[p].f>>}

\* After a delivery: when the file is not in the list, or the thread knows no status for
\* the session (from now or an earlier round), it dies of an exception, in the second
\* case with the file taken from the list.  The session whose list is empty is taken out
\* of the dictionaries, unless it is suspended: then the thread dies on its way.
PushSettle(p) ==
    LET s == alPush[p].s
        f == alPush[p].f
        rest == alFiles[s] \ {f}
    IN /\ alPush[p].step = "settle"
       /\ CASE f \notin alFiles[s] -> PushDies(p) /\ UNCHANGED alDics
            [] f \in alFiles[s] /\ s \notin alStatus /\ ~alPush[p].st ->
                 /\ PushDies(p)
                 /\ alFiles' = [alFiles EXCEPT ![s] = rest]
                 /\ UNCHANGED <<alReq, alStatus, alThread, alRun>>
            [] OTHER ->
                 /\ alFiles' = [alFiles EXCEPT ![s] = rest]
                 /\ IF rest # {}
                    THEN /\ alPush' = [alPush EXCEPT ![p].step = "get", ![p].st = TRUE]
                         /\ UNCHANGED <<alReq, alStatus, alThread, alRun, alDropped>>
                    ELSE /\ alReq' = alReq \ {s}
                         /\ IF s \in alReq /\ alThread[s] = 0
                            THEN PushDies(p) /\ UNCHANGED <<alStatus, alThread, alRun>>
                            ELSE /\ alPush' = [alPush EXCEPT ![p].step = "get", ![p].st = TRUE]
                                 /\ alStatus' = alStatus \ {s}
                                 /\ alThread' = IF s \in alReq THEN [alThread EXCEPT ![s] = 0] ELSE alThread
                                 /\ alRun' = IF s \in alReq THEN [alRun EXCEPT ![s] = -1] ELSE alRun
                                 /\ UNCHANGED alDropped
       /\ UNCHANGED <<alThr, alHost, alGen, alQueue, alStop, alSave, alPosted, alGot, alEvents>>

AlNext ==
    \/ \E s \in AlSessions :
          \/ AlPost(s) \/ AlPostFails(s) \/ ThreadStopped(s) \/ AlResume(s)
          \/ \E cmd \in {"cancel", "suspend"} : StopThread(s, cmd)
    \/ AlStopService \/ AlSaveSessions \/ AlStartService \/ AlKill
    \/ \E d \in AlThreads :
          \/ \E staged \in BOOLEAN : \E kept \in SUBSET (UNION {AlWant[s] : s \in AlSessions}) : AlListFiles(d, staged, kept)
          \/ \E f \in AlKnown : EnPushQueue(d, f)
          \/ DeliveryEnds(d) \/ AlListFails(d)
    \/ \E p \in DOMAIN alPush :
          PushGet(p) \/ PushIdle(p) \/ PushEnds(p) \/ PushDone(p) \/ PushFails(p) \/ PushSettle(p)

-----------------------------------------------------------------------------
(***************************************************************************)
(* Properties.                                                             *)
(***************************************************************************)
InQueue(x) == \E g \in {h \in AlGens : PushersLive(h)} : \E i \in DOMAIN alQueue[g] : alQueue[g][i] = x

\* A file of a session that is neither suspended nor cancelled is on its way to a push
\* thread as long as it is in the list, unless its delivery was given up (_pushThread,
\* _deliveryThread).
OnItsWay ==
    \A s \in alReq : \A f \in alFiles[s] \cap AlKnown :
        \/ <<s, f>> \in alDropped
        \/ InQueue(<<s, f>>)
        \/ \E p \in DOMAIN alPush : alPush[p].s = s /\ alPush[p].f = f /\ alPush[p].step \in {"post", "settle"}
        \/ \E d \in AlThreads : alThr[d].s = s /\ (alThr[d].step = "list" \/ f \in alThr[d].left)

\* Only what the client has received is taken from the list of a session, and a session
\* is over by itself only when the client has all its files that exist, whatever was
\* suspended, resumed, saved and restored meanwhile (_pushThread).
RemovedReceived ==
    \A s \in alPosted :
        /\ (AlWant[s] \cap AlKnown) \ alFiles[s] \subseteq alGot[s]
        /\ s \in alStatus /\ s \notin alReq => AlWant[s] \cap AlKnown \subseteq alGot[s]

=============================================================================
