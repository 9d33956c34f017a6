---------------------------- MODULE MirrorQueue -----------------------------
(***************************************************************************)
(* The generic mirroring service (without AlmaMirroring): a control thread *)
(* lists the files of the source archive and schedules requests, in the    *)
(* table ngas_mirroring_queue and in DBM queues; mirroring threads handle  *)
(* them with REARCHIVE.  The queues are rebuilt from the table at start.   *)
(***************************************************************************)
EXTENDS Integers, Sequences, FiniteSets

CONSTANTS
    MqFiles,   \* the files of the source archive
    MqThreads, \* the mirroring threads
    MqLimit,   \* NGAMS_MIR_DBM_MAX_LIMIT, the keys of the mirroring queue
    MqEvents   \* bound on new files, failures, control cycles and restarts, together

ASSUME MqConfig == MqLimit \in Nat \ {0} /\ MqEvents \in Nat

VARIABLES
    mqSrc,    \* the files the source archive has
    mqNew,    \* the ones ingested there after the last synchronisation time
    mqLocal,  \* the files REARCHIVE has archived here
    mqDb,     \* mqDb[f]: the status of its request in ngas_mirroring_queue
    mqQueue,  \* the mirroring queue: entries, counter and pointer
    mqErr,    \* the error queue
    mqCompl,  \* the completed queue
    mqCtl,    \* the control thread: step, files listed, files the list is to bring
    mqThr,    \* mqThr[t]: step, request, and the count it read
    mqPause,  \* _pauseMirThreads
    mqCount,  \* _mirThreadsPauseCount
    mqStop,   \* the stop event of the tasks: set by OFFLINE and never cleared
    mqLost,   \* ghost: requests removed as timed out or overwritten, or dropped because
              \* the status could not be written
    mqMissed, \* ghost: files of a listing that no node answered
    mqEvents  \* events so far

mqVars == <<mqSrc, mqNew, mqLocal, mqDb, mqQueue, mqErr, mqCompl, mqCtl, mqThr, mqPause, mqCount, mqStop, mqLost,
            mqMissed, mqEvents>>
mqQueues == <<mqDb, mqQueue, mqErr, mqCompl, mqLost>>
mqSync == <<mqSrc, mqNew, mqLocal, mqEvents>>
mqFixed == <<mqStop, mqMissed>>
mqPausing == <<mqPause, mqCount>>

MqIdle == [step |-> "idle", has |-> {}, count |-> 0]
MqWait == [step |-> "wait", left |-> {}, from |-> {}, hand |-> {}]
EmptyQueue == [at |-> <<>>, counter |-> 0, pointer |-> 0]

MqInit ==
    /\ mqSrc = {} /\ mqNew = {} /\ mqLocal = {}
    /\ mqDb = [f \in MqFiles |-> "none"]
    /\ mqQueue = EmptyQueue /\ mqErr = {} /\ mqCompl = {}
    /\ mqCtl = MqWait /\ mqThr = [t \in MqThreads |-> MqIdle]
    /\ mqPause = FALSE /\ mqCount = 0 /\ mqStop = FALSE
    /\ mqLost = {} /\ mqMissed = {} /\ mqEvents = 0

\* The status of a request (updateStatus of ngas_mirroring_queue), and the date up to which
\* the source archive is known.
setStatus(f, status) == mqDb' = [mqDb EXCEPT ![f] = status]
setLastSyncTime(known) == mqNew' = mqNew \ known

MqEvent == mqEvents < MqEvents /\ mqEvents' = mqEvents + 1

-----------------------------------------------------------------------------
(***************************************************************************)
(* The queues.                                                             *)
(***************************************************************************)
Queued == {mqQueue.at[k] : k \in DOMAIN mqQueue.at}

\* add_entry_mirror_queue: the next key, which may come round to one that is used.
add_entry_mirror_queue(q, f) ==
    LET key == (q.counter + 1) % MqLimit
    IN [q EXCEPT !.counter = key,
                 !.at = [k \in DOMAIN q.at \cup {key} |-> IF k = key THEN f ELSE q.at[k]]]
Overwritten(q) ==
    LET key == (q.counter + 1) % MqLimit IN IF key \in DOMAIN q.at THEN {q.at[key]} ELSE {}

\* get_mir_request_from_queue: the entry behind the pointer.
NextKey == (mqQueue.pointer + 1) % MqLimit
TakeEntry == [mqQueue EXCEPT !.pointer = NextKey, !.at = [k \in DOMAIN mqQueue.at \ {NextKey} |-> mqQueue.at[k]]]

-----------------------------------------------------------------------------
(***************************************************************************)
(* The control thread.                                                     *)
(***************************************************************************)
CtlGoto(step) == mqCtl' = [mqCtl EXCEPT !.step = step]

\* pause_mirror_threads: it asks ...
PauseThreads ==
    /\ mqCtl.step = "wait" /\ ~mqStop /\ MqEvent
    /\ mqPause' = TRUE
    /\ CtlGoto("pausing")
    /\ UNCHANGED <<mqSrc, mqNew, mqLocal, mqQueues, mqThr, mqCount, mqFixed>>

\* Mutant: it goes on when the first thread pauses.
PausedOne ==
    /\ mqCtl.step = "pausing" /\ mqCount >= 1
    /\ CtlGoto("paused")
    /\ UNCHANGED <<mqSync, mqQueues, mqThr, mqPausing, mqFixed>>

\* ... and waits until all threads have counted themselves.
Paused ==
    /\ mqCtl.step = "pausing" /\ mqCount = Cardinality(MqThreads)
    /\ CtlGoto("paused")
    /\ UNCHANGED <<mqSync, mqQueues, mqThr, mqPausing, mqFixed>>

\* ngamsMirroringSource: what a complete and what a partial synchronisation lists
FilesToList == {mqSrc, mqNew}

\* check_source_archives: the time now becomes the next synchronisation time; a
\* complete synchronisation lists all files, a partial one those since the last time.
\* (The files of this cluster are not left out: dumpFileInfoCluster finds none.)
CheckSourceArchives ==
    /\ mqCtl.step = "paused"
    /\ \E list \in FilesToList :
          mqCtl' = [mqCtl EXCEPT !.step = "list", !.left = list, !.from = mqNew]
    /\ UNCHANGED <<mqSync, mqQueues, mqThr, mqPausing, mqFixed>>

\* retrieve_file_list: a file in the error or completed queue is left out (one in the
\* mirroring queue is not found there, its key is another one); otherwise the row is
\* written ...
ListFile(f) ==
    /\ mqCtl.step = "list" /\ f \in mqCtl.left /\ mqCtl.hand = {}
    /\ IF f \in mqErr \cup mqCompl
       THEN mqCtl' = [mqCtl EXCEPT !.left = @ \ {f}] /\ UNCHANGED mqDb
       ELSE /\ mqCtl' = [mqCtl EXCEPT !.left = @ \ {f}, !.hand = {f}]
            /\ setStatus(f, "SCHEDULED")
    /\ UNCHANGED <<mqSync, mqQueue, mqErr, mqCompl, mqLost, mqThr, mqPausing, mqFixed>>

\* ... and the request queued.
ScheduleRequest(f) ==
    /\ mqCtl.step = "list" /\ f \in mqCtl.hand
    /\ mqQueue' = add_entry_mirror_queue(mqQueue, f)
    /\ mqLost' = mqLost \cup Overwritten(mqQueue)
    /\ mqCtl' = [mqCtl EXCEPT !.hand = {}]
    /\ UNCHANGED <<mqSync, mqDb, mqErr, mqCompl, mqThr, mqPausing, mqFixed>>

\* Mutant: the synchronisation time is the time after the listing.
ListedLate ==
    /\ mqCtl.step = "list" /\ mqCtl.left = {} /\ mqCtl.hand = {}
    /\ setLastSyncTime(mqNew)
    /\ mqPause' = FALSE
    /\ CtlGoto("resuming")
    /\ UNCHANGED <<mqSrc, mqLocal, mqEvents, mqQueues, mqThr, mqCount, mqFixed>>

\* The synchronisation time is stored, and the threads may go on.
Listed ==
    /\ mqCtl.step = "list" /\ mqCtl.left = {} /\ mqCtl.hand = {}
    /\ setLastSyncTime(mqCtl.from)
    /\ mqPause' = FALSE
    /\ CtlGoto("resuming")
    /\ UNCHANGED <<mqSrc, mqLocal, mqEvents, mqQueues, mqThr, mqCount, mqFixed>>

\* No node of the source archive answers to the end: the time is stored all the same.
ListFailed ==
    /\ mqCtl.step = "list" /\ mqCtl.left # {} /\ mqCtl.hand = {} /\ MqEvent
    /\ mqMissed' = mqMissed \cup mqCtl.left
    /\ mqCtl' = [mqCtl EXCEPT !.left = {}]
    /\ UNCHANGED <<mqSrc, mqNew, mqLocal, mqQueues, mqThr, mqPausing, mqStop>>

\* Something else fails: the next cycle begins, with the threads paused if they were.
CtlFails ==
    /\ mqCtl.step \in {"paused", "errors"} /\ MqEvent
    /\ mqCtl' = MqWait
    /\ UNCHANGED <<mqSrc, mqNew, mqLocal, mqQueues, mqThr, mqPausing, mqFixed>>

\* The stop event ends the thread where it would wait.
CtlStops ==
    /\ mqStop /\ (mqCtl.step = "pausing" \/ (mqCtl.step = "resuming" /\ mqCount > 0))
    /\ mqCtl' = MqWait
    /\ UNCHANGED <<mqSync, mqQueues, mqThr, mqPausing, mqFixed>>

\* resume_mirror_threads: until no thread counts as paused.
Resumed ==
    /\ mqCtl.step = "resuming" /\ mqCount = 0
    /\ mqCtl' = [mqCtl EXCEPT !.step = "errors", !.left = mqErr]
    /\ UNCHANGED <<mqSync, mqQueues, mqThr, mqPausing, mqFixed>>

\* check_error_queue: a request whose time has come goes back to the mirroring queue
\* (still with its status), another one stays.
RetryError(f) ==
    /\ mqCtl.step = "errors" /\ f \in mqCtl.left
    /\ mqCtl' = [mqCtl EXCEPT !.left = @ \ {f}]
    /\ \/ UNCHANGED mqQueues
       \/ /\ f \in mqErr
          /\ mqErr' = mqErr \ {f}
          /\ mqQueue' = add_entry_mirror_queue(mqQueue, f)
          /\ mqLost' = mqLost \cup Overwritten(mqQueue)
          /\ UNCHANGED <<mqDb, mqCompl>>
    /\ UNCHANGED <<mqSync, mqThr, mqPausing, mqFixed>>

\* generate_report: the completed requests leave their queue, and so do failed ones
\* that were scheduled long ago.
GenerateReport ==
    /\ mqCtl.step = "errors" /\ mqCtl.left = {}
    /\ \E old \in SUBSET mqErr : mqErr' = mqErr \ old /\ mqLost' = mqLost \cup old
    /\ mqCompl' = {}
    /\ mqCtl' = MqWait
    /\ UNCHANGED <<mqSync, mqDb, mqQueue, mqThr, mqPausing, mqFixed>>

-----------------------------------------------------------------------------
(***************************************************************************)
(* A mirroring thread.                                                     *)
(***************************************************************************)
ThrGoto(t, step) == mqThr' = [mqThr EXCEPT ![t].step = step]

\* pause_mirror_thread: the count is read and written without a lock.
PauseRead(t) ==
    /\ mqThr[t].step = "idle" /\ mqPause /\ ~mqStop
    /\ mqThr' = [mqThr EXCEPT ![t].step = "counting", ![t].count = mqCount]
    /\ UNCHANGED <<mqSync, mqQueues, mqCtl, mqPausing, mqFixed>>

PauseWrite(t) ==
    /\ mqThr[t].step = "counting"
    /\ mqCount' = mqThr[t].count + 1
    /\ mqThr' = [mqThr EXCEPT ![t].step = "pausing", ![t].count = 0]
    /\ UNCHANGED <<mqSync, mqQueues, mqCtl, mqPause, mqFixed>>

ResumeRead(t) ==
    /\ mqThr[t].step = "pausing" /\ ~mqPause
    /\ mqThr' = [mqThr EXCEPT ![t].step = "leaving", ![t].count = mqCount]
    /\ UNCHANGED <<mqSync, mqQueues, mqCtl, mqPausing, mqFixed>>

\* Having left the pause it takes a request without looking at the flag again.
ResumeWrite(t) ==
    /\ mqThr[t].step = "leaving"
    /\ mqCount' = mqThr[t].count - 1
    /\ mqThr' = [mqThr EXCEPT ![t].step = "take", ![t].count = 0]
    /\ UNCHANGED <<mqSync, mqQueues, mqCtl, mqPause, mqFixed>>

GoOn(t) ==
    /\ mqThr[t].step = "idle" /\ ~mqPause /\ ~mqStop
    /\ ThrGoto(t, "take")
    /\ UNCHANGED <<mqSync, mqQueues, mqCtl, mqPausing, mqFixed>>

\* The stop event ends a thread that waits; its count stays.
ThrStops(t) ==
    /\ mqStop /\ mqThr[t].step = "pausing"
    /\ mqThr' = [mqThr EXCEPT ![t] = MqIdle]
    /\ UNCHANGED <<mqSync, mqQueues, mqCtl, mqPausing, mqFixed>>

\* get_mirror_request: the next request, or none after a while.
GetRequest(t) ==
    /\ mqThr[t].step = "take"
    /\ IF NextKey \in DOMAIN mqQueue.at
       THEN /\ mqThr' = [mqThr EXCEPT ![t].step = "handle", ![t].has = {mqQueue.at[NextKey]}]
            /\ mqQueue' = TakeEntry
       ELSE mqThr' = [mqThr EXCEPT ![t].step = "idle", ![t].has = {}] /\ UNCHANGED mqQueue
    /\ UNCHANGED <<mqSync, mqDb, mqErr, mqCompl, mqLost, mqCtl, mqPausing, mqFixed>>

\* handle_mirror_request: the status ...
HandleActive(t, f) ==
    /\ mqThr[t].step = "handle" /\ f \in mqThr[t].has
    /\ setStatus(f, "ACTIVE")
    /\ ThrGoto(t, "rearchive")
    /\ UNCHANGED <<mqSync, mqQueue, mqErr, mqCompl, mqLost, mqCtl, mqPausing, mqFixed>>

\* ... and REARCHIVE on some local node from some source node.
HandleDone(t, f) ==
    /\ mqThr[t].step = "rearchive" /\ f \in mqThr[t].has
    /\ mqLocal' = mqLocal \cup {f}
    /\ ThrGoto(t, "done")
    /\ UNCHANGED <<mqSrc, mqNew, mqEvents, mqQueues, mqCtl, mqPausing, mqFixed>>

HandleFailed(t, f) ==
    /\ mqThr[t].step = "rearchive" /\ f \in mqThr[t].has /\ MqEvent
    /\ setStatus(f, "ERROR-RETRY")
    /\ ThrGoto(t, "failed")
    /\ UNCHANGED <<mqSrc, mqNew, mqLocal, mqQueue, mqErr, mqCompl, mqLost, mqCtl, mqPausing, mqFixed>>

Completed(t, f) ==
    /\ mqThr[t].step = "done" /\ f \in mqThr[t].has
    /\ setStatus(f, "MIRRORED") /\ mqCompl' = mqCompl \cup {f}
    /\ ThrGoto(t, "idle")
    /\ UNCHANGED <<mqSync, mqQueue, mqErr, mqLost, mqCtl, mqPausing, mqFixed>>

\* A statement or the HTTP request raises: the status, too, is left to the handler.  The
\* last statement for a completed request comes after it was put in the queue.
HandleRaises(t, f) ==
    /\ f \in mqThr[t].has /\ MqEvent
    /\ \/ mqThr[t].step \in {"handle", "rearchive", "done"} /\ UNCHANGED <<mqDb, mqCompl>>
       \/ mqThr[t].step = "done" /\ setStatus(f, "MIRRORED") /\ mqCompl' = mqCompl \cup {f}
    /\ ThrGoto(t, "failed")
    /\ UNCHANGED <<mqSrc, mqNew, mqLocal, mqQueue, mqErr, mqLost, mqCtl, mqPausing, mqFixed>>

\* The handler: also when the queue cannot be read, then for the request it had before.
Handler(t, f) ==
    /\ f \in mqThr[t].has
    /\ mqThr[t].step \in {"failed", "take"}
    /\ ThrGoto(t, "idle")

\* Its own UPDATE fails: the request is in no queue any more.
ErrorDropped(t, f) ==
    /\ Handler(t, f) /\ MqEvent
    /\ mqLost' = mqLost \cup {f}
    /\ UNCHANGED <<mqSrc, mqNew, mqLocal, mqDb, mqQueue, mqErr, mqCompl, mqCtl, mqPausing, mqFixed>>

ErrorQueued(t, f) ==
    /\ Handler(t, f)
    /\ IF mqThr[t].step = "take" THEN MqEvent ELSE UNCHANGED mqEvents
    /\ setStatus(f, "ERROR-RETRY") /\ mqErr' = mqErr \cup {f}
    /\ UNCHANGED <<mqSrc, mqNew, mqLocal, mqQueue, mqCompl, mqLost, mqCtl, mqPausing, mqFixed>>

-----------------------------------------------------------------------------
\* The source archive gets a file.
NewFile(f) ==
    /\ f \notin mqSrc /\ MqEvent
    /\ mqSrc' = mqSrc \cup {f} /\ mqNew' = mqNew \cup {f}
    /\ UNCHANGED <<mqLocal, mqQueues, mqCtl, mqThr, mqPausing, mqFixed>>

MqWith(status) == {f \in MqFiles : mqDb[f] \in status}
MqOrders(S) == {order \in [1..Cardinality(S) -> S] : \A i, j \in DOMAIN order : order[i] = order[j] => i = j}

\* Mutant: the requests that were being handled are not queued again.
PendingScheduled == MqWith({"SCHEDULED"})

\* initialise_mirroring: the rows that go to the mirroring queue again.
Pending == MqWith({"SCHEDULED", "ACTIVE"})

\* initialise_mirroring makes new queues from the rows.
MqInitialise ==
    /\ \E order \in MqOrders(Pending) :
          mqQueue' = [at |-> order, counter |-> Len(order), pointer |-> 0]
    /\ mqErr' = MqWith({"ERROR-RETRY"}) /\ mqCompl' = MqWith({"MIRRORED"})

\* The server is stopped or killed, and started.
MqRestart ==
    /\ MqEvent
    /\ MqInitialise
    /\ mqCtl' = MqWait /\ mqThr' = [t \in MqThreads |-> MqIdle]
    /\ mqPause' = FALSE /\ mqCount' = 0 /\ mqStop' = FALSE
    /\ UNCHANGED <<mqSrc, mqNew, mqLocal, mqDb, mqLost, mqMissed>>

MqOffline ==
    /\ ~mqStop /\ MqEvent
    /\ mqStop' = TRUE
    /\ UNCHANGED <<mqSrc, mqNew, mqLocal, mqQueues, mqCtl, mqThr, mqPausing, mqMissed>>

\* ONLINE after it, in the same process: the queues are made again, but the new threads
\* find the stop event set and end.  The flag and the count keep their values, and an old
\* thread that is busy goes on.
MqOnline ==
    /\ mqStop /\ MqEvent
    /\ MqInitialise
    /\ UNCHANGED <<mqSrc, mqNew, mqLocal, mqDb, mqLost, mqCtl, mqThr, mqPausing, mqFixed>>

MqNext ==
    \/ PauseThreads \/ Paused \/ CheckSourceArchives \/ Listed \/ ListFailed \/ Resumed \/ GenerateReport
    \/ CtlFails \/ CtlStops \/ MqRestart \/ MqOffline \/ MqOnline
    \/ \E f \in MqFiles : ListFile(f) \/ ScheduleRequest(f) \/ RetryError(f) \/ NewFile(f)
    \/ \E t \in MqThreads :
          \/ PauseRead(t) \/ PauseWrite(t) \/ ResumeRead(t) \/ ResumeWrite(t) \/ GoOn(t) \/ GetRequest(t)
          \/ ThrStops(t)
          \/ \E f \in MqFiles : \/ HandleActive(t, f) \/ HandleDone(t, f) \/ HandleFailed(t, f)
                                \/ Completed(t, f) \/ ErrorQueued(t, f)
                                \/ HandleRaises(t, f) \/ ErrorDropped(t, f)

-----------------------------------------------------------------------------
(***************************************************************************)
(* Properties.                                                             *)
(***************************************************************************)
InHand(f) ==
    \/ f \in Queued \cup mqErr \cup mqCtl.hand
    \/ \E t \in MqThreads : f \in mqThr[t].has /\ mqThr[t].step \in {"handle", "rearchive", "done", "failed"}

\* A request the table says is still to be done is in a queue or somebody's hands, also
\* after a restart, OFFLINE and ONLINE, and when the same file was queued twice, unless it
\* was removed as timed out, overwritten when the keys came round, or its failure could not
\* be written to the table (add_entry_mirror_queue, mirroring_thread, initialise_mirroring).
RequestsKept ==
    \A f \in MqFiles \ mqLost : mqDb[f] \in {"SCHEDULED", "ACTIVE", "ERROR-RETRY"} => InHand(f)

\* A file of the source archive that the next partial synchronisation will not list is
\* here, or has a request that is still to be done, or is about to get one: nothing
\* falls between two synchronisations, though files arrive during the listing, unless no
\* node answered it (check_source_archives).
NothingFallsBetween ==
    \A f \in mqSrc \ (mqNew \cup mqMissed) :
        f \in mqLocal \/ mqDb[f] \in {"SCHEDULED", "ACTIVE", "ERROR-RETRY"}

\* While the control thread lists the source archives no thread handles a request
\* (pause_mirror_threads), also after a cycle that failed; one that OFFLINE ended may have
\* gone before.
QuietWhileListing ==
    mqCtl.step \in {"paused", "list"} => \A t \in MqThreads : mqThr[t].step = "pausing" \/ (mqStop /\ mqThr[t] = MqIdle)

=============================================================================
