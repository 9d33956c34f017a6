------------------------------- MODULE RtsJobs ------------------------------
(***************************************************************************)
(* The MWA job manager: a job runs one task per correlator of an           *)
(* observation (CorrTask) on hosts of the cluster, after the files of the  *)
(* correlator were staged there, and then one task that collects the       *)
(* images (ObsTask.reduce).  The manager is told over HTTP that a file was *)
(* ingested or a host is down, that a local task was taken from its queue  *)
(* and what its result is; each of these calls may be lost.  RUNTASK is    *)
(* the queue of a host.                                                    *)
(***************************************************************************)
EXTENDS Integers, Sequences, FiniteSets, Functions

CONSTANTS
    RjTasks,   \* the correlators, 1 .. n
    RjFiles,   \* RjFiles[t]: the files of correlator t
    RjHosts,   \* the hosts of the cluster
    RjStored,  \* the files a host has from the beginning: pairs of file and host
    RjRetries, \* executions that may fail before a task is given up
    RjEvents,  \* bound on failures, time-outs, lost calls and host crashes
    RjNone

ASSUME RjConfig == RjTasks = 1..Cardinality(RjTasks) /\ RjTasks # {} /\ RjEvents \in Nat /\ RjRetries \in Nat /\ RjNone \notin RjHosts

RjObs == 0                        \* the task id of the observation
RjIds == RjTasks \cup {RjObs}
RjAllFiles == UNION {RjFiles[t] : t \in RjTasks}

VARIABLES
    rjOn,     \* the files on the hosts
    rjUp,     \* the hosts that answer
    rjStage,  \* stage_dic: for a file and a host the tasks that wait for it, in order
    rjMoves,  \* the files being delivered to a host
    rjTask,   \* rjTask[t]: a CorrTask, or the ObsTask
    rjReg,    \* LT_dic: the ids of the tasks that wait for a result
    rjQueue,  \* rjQueue[h]: queTasks
    rjRun,    \* rjRun[h]: the local task being executed
    rjCancel, \* rjCancel[h]: cancelDict
    rjStatus, \* rjStatus[t]: the status of the task
    rjJob,    \* the status of the job
    rjLost,   \* ghost: a call to the manager was lost, a host crashed or staging failed
    rjEvents  \* events so far

rjVars == <<rjOn, rjUp, rjStage, rjMoves, rjTask, rjReg, rjQueue, rjRun, rjCancel, rjStatus, rjJob, rjLost, rjEvents>>
rjHostVars == <<rjOn, rjUp, rjQueue, rjRun, rjCancel>>
rjStaging == <<rjStage, rjMoves>>

RjNew == [pc |-> "alloc", host |-> RjNone, loc |-> {}, left |-> {}, ext |-> {}, n |-> 0, ing |-> FALSE, deq |-> FALSE, done |-> FALSE,
          result |-> RjNone, black |-> {}, tries |-> 0, err |-> 0, url |-> RjNone]

RjInit ==
    /\ rjOn = RjStored /\ rjUp = RjHosts
    /\ rjStage = <<>> /\ rjMoves = {} /\ rjReg = {}
    /\ rjTask = [t \in RjIds |-> IF t = RjObs THEN [RjNew EXCEPT !.pc = "children"] ELSE RjNew]
    /\ rjQueue = [h \in RjHosts |-> <<>>] /\ rjRun = [h \in RjHosts |-> RjNone] /\ rjCancel = [h \in RjHosts |-> {}]
    /\ rjStatus = [t \in RjIds |-> "not started"] /\ rjJob = "not started"
    /\ rjLost = FALSE /\ rjEvents = 0

RjEvent == rjEvents < RjEvents /\ rjEvents' = rjEvents + 1
RjLoss == RjEvent /\ rjLost' = TRUE
Cause(lost) == IF lost THEN RjLoss ELSE UNCHANGED <<rjLost, rjEvents>>

-----------------------------------------------------------------------------
(***************************************************************************)
(* Hosts and files.                                                        *)
(***************************************************************************)
FilesAt(h, fs) == {f \in fs : <<f, h>> \in rjOn}
RjLocations(f) == {h \in rjUp : <<f, h>> \in rjOn}

\* getBestHost: a host that has most of the files, and at least one; RjNone otherwise.
BestHosts(fs, black) ==
    LET can == {h \in rjUp \ black : FilesAt(h, fs) # {}}
    IN {h \in can : \A g \in can : Cardinality(FilesAt(g, fs)) <= Cardinality(FilesAt(h, fs))}

\* A host to run on: the best one for the files, else any that is online.
HostFor(t, h, black) ==
    IF BestHosts(RjFiles[t], black) # {} THEN h \in BestHosts(RjFiles[t], black)
    ELSE IF rjUp \ black # {} THEN h \in rjUp \ black ELSE h = RjNone

\* buildRTSTasks: each correlator gets a host, one that has none yet if possible.
Allocated == {rjTask[t].host : t \in RjTasks} \ {RjNone}
RjAllocate(t, h) ==
    /\ rjTask[t].pc = "alloc" /\ \A u \in RjTasks : u < t => rjTask[u].pc # "alloc"
    /\ IF HostFor(t, h, Allocated) /\ h # RjNone
       THEN LET best == BestHosts(RjFiles[t], Allocated) # {}
            IN rjTask' = [rjTask EXCEPT ![t].pc = "ready", ![t].host = h, ![t].loc = IF best THEN FilesAt(h, RjFiles[t]) ELSE {}]
       ELSE /\ rjUp \ Allocated = {} /\ h \in rjUp
            /\ rjTask' = [rjTask EXCEPT ![t].pc = "ready", ![t].host = h]
    /\ UNCHANGED <<rjHostVars, rjStaging, rjReg, rjStatus, rjJob, rjLost, rjEvents>>

\* No host at all, or the DB fails: the job ends.
RjBuildFails ==
    /\ \E t \in RjTasks : rjTask[t].pc = "alloc" /\ rjJob = "not started"
    /\ rjUp = {}
    /\ rjJob' = "exception"
    /\ UNCHANGED <<rjHostVars, rjStaging, rjTask, rjReg, rjStatus, rjLost, rjEvents>>

\* MapReduceTask.__map: every child is started in a thread of its own.
RjStart ==
    /\ \A t \in RjTasks : rjTask[t].pc = "ready"
    /\ rjTask' = [t \in RjIds |-> IF t = RjObs THEN rjTask[t] ELSE [rjTask[t] EXCEPT !.pc = "host"]]
    /\ rjStatus' = [t \in RjIds |-> IF t = RjObs THEN "started" ELSE "staging"] /\ rjJob' = "started"
    /\ UNCHANGED <<rjHostVars, rjStaging, rjReg, rjLost, rjEvents>>

-----------------------------------------------------------------------------
(***************************************************************************)
(* CorrTask._stageFiles and stageFile.                                     *)
(***************************************************************************)
\* The task ends with an error; cleanTasks comes next.
RjError(t, err) ==
    /\ rjTask' = [rjTask EXCEPT ![t].pc = "clean", ![t].err = err]
    /\ rjStatus' = [rjStatus EXCEPT ![t] = "exception"]

\* The files that are at the host already are counted; a retry chooses a new host.
RjTakeHost(t, h) ==
    /\ rjTask[t].pc = "host"
    /\ IF rjTask[t].host # RjNone
       THEN /\ h = rjTask[t].host
            /\ rjTask' = [rjTask EXCEPT ![t].pc = "stage", ![t].n = Cardinality(rjTask[t].loc),
                                         ![t].left = RjFiles[t] \ rjTask[t].loc, ![t].ext = {}]
            /\ UNCHANGED rjStatus
       ELSE /\ HostFor(t, h, rjTask[t].black)
            /\ LET best == BestHosts(RjFiles[t], rjTask[t].black) # {}
                   loc == IF best THEN FilesAt(h, RjFiles[t]) ELSE {}
               IN IF h = RjNone THEN RjError(t, 7)
                  ELSE /\ rjTask' = [rjTask EXCEPT ![t].pc = "stage", ![t].host = h, ![t].loc = loc, ![t].n = Cardinality(loc),
                                                    ![t].left = RjFiles[t] \ loc, ![t].ext = {}]
                       /\ rjStatus' = [rjStatus EXCEPT ![t] = "staging"]
    /\ UNCHANGED <<rjHostVars, rjStaging, rjReg, rjJob, rjLost, rjEvents>>

StageKey(f, h) == <<f, h>>
Waiting(k) == IF k \in DOMAIN rjStage THEN rjStage[k] ELSE <<>>
InSeq(x, s) == \E i \in DOMAIN s : s[i] = x


\* A task joins those that wait for the file at the host; the first one has it delivered.
\* When the request fails the entry stays, so that nobody asks again.
stageFile(t, fs, ok) ==
    LET keys == {StageKey(f, rjTask[t].host) : f \in fs}
        new == keys \ DOMAIN rjStage
    IN /\ rjStage' = [k \in DOMAIN rjStage \cup new |-> IF k \in keys THEN Append(Waiting(k), t) ELSE rjStage[k]]
       /\ rjMoves' = IF ok THEN rjMoves \cup new ELSE rjMoves

NewKeys(t, fs) == {f \in fs : StageKey(f, rjTask[t].host) \notin DOMAIN rjStage}

\* A file of the cluster is entered in _fileLocDict before it has arrived.  A request that
\* fails is made again for the next location or at the Long-Term Archive; the entry makes
\* it succeed there, and nobody delivers the file.
StageFromCluster(t, f, ok) ==
    /\ rjTask[t].pc = "stage" /\ f \in rjTask[t].left /\ RjLocations(f) # {}
    /\ ok \/ NewKeys(t, {f}) # {}
    /\ Cause(~ok)
    /\ stageFile(t, {f}, ok)
    /\ rjTask' = [rjTask EXCEPT ![t].left = @ \ {f}, ![t].loc = @ \cup {f}]
    /\ UNCHANGED <<rjHostVars, rjReg, rjStatus, rjJob>>

\* A file that is nowhere in the cluster comes from the Long-Term Archive.
StageLater(t, f) ==
    /\ rjTask[t].pc = "stage" /\ f \in rjTask[t].left /\ RjLocations(f) = {}
    /\ rjTask' = [rjTask EXCEPT ![t].left = @ \ {f}, ![t].ext = @ \cup {f}]
    /\ UNCHANGED <<rjHostVars, rjStaging, rjReg, rjStatus, rjJob, rjLost, rjEvents>>

StageFromArchive(t, ok) ==
    /\ rjTask[t].pc = "stage" /\ rjTask[t].left = {}
    /\ ok \/ NewKeys(t, rjTask[t].ext) # {}
    /\ Cause(~ok)
    /\ stageFile(t, rjTask[t].ext, ok)
    /\ IF ok THEN rjTask' = [rjTask EXCEPT ![t].pc = "staged"] /\ UNCHANGED rjStatus ELSE RjError(t, 500)
    /\ UNCHANGED <<rjHostVars, rjReg, rjJob>>

\* The event is set when all files are there, and cleared otherwise, in a step of its own:
\* the last file may arrive in between.
RjStaged(t) ==
    /\ rjTask[t].pc = "staged"
    /\ rjTask' = IF rjTask[t].n = Cardinality(RjFiles[t]) THEN [rjTask EXCEPT ![t].pc = "ingest", ![t].ing = TRUE]
                                                         ELSE [rjTask EXCEPT ![t].pc = "clear"]
    /\ UNCHANGED <<rjHostVars, rjStaging, rjReg, rjStatus, rjJob, rjLost, rjEvents>>

RjClear(t) ==
    /\ rjTask[t].pc = "clear"
    /\ rjTask' = [rjTask EXCEPT ![t].pc = "ingest", ![t].ing = FALSE]
    /\ UNCHANGED <<rjHostVars, rjStaging, rjReg, rjStatus, rjJob, rjLost, rjEvents>>

-----------------------------------------------------------------------------
(***************************************************************************)
(* What the manager is told.                                               *)
(***************************************************************************)
Without(f, k) == Restrict(f, DOMAIN f \ {k})

\* fileIngested: the tasks on the list count the file, for the host they are at now.
fileIngested(f, h) ==
    LET told == Waiting(<<f, h>>)
        Times(t) == Cardinality({i \in DOMAIN told : told[i] = t})
    IN /\ rjTask' = [t \in RjIds |->
                       IF Times(t) = 0 THEN rjTask[t]
                       ELSE [rjTask[t] EXCEPT !.n = @ + Times(t), !.loc = @ \cup {f},
                                              !.ing = @ \/ rjTask[t].n + Times(t) = Cardinality(RjFiles[t])]]
       /\ rjStage' = Without(rjStage, <<f, h>>)

\* The file arrives at the host, and QAPLUS tells the manager or fails to.
RjDelivered(f, h, told) ==
    /\ <<f, h>> \in rjMoves /\ h \in rjUp
    /\ rjMoves' = rjMoves \ {<<f, h>>} /\ rjOn' = rjOn \cup {<<f, h>>}
    /\ Cause(~told)
    /\ IF told THEN fileIngested(f, h) ELSE UNCHANGED <<rjTask, rjStage>>
    /\ UNCHANGED <<rjUp, rjQueue, rjRun, rjCancel, rjReg, rjStatus, rjJob>>

\* The delivery fails.  The report fileFailToDeliver ends in an exception, so that the
\* tasks wait on; reportHostDown wakes the ones that are at the host.
RjNotDelivered(f, h, told) ==
    LET hit == {t \in RjTasks : InSeq(t, Waiting(<<f, h>>)) /\ rjTask[t].host = h /\ rjTask[t].pc \in {"stage", "staged", "clear", "ingest"}}
    IN /\ <<f, h>> \in rjMoves /\ told => h \notin rjUp
       /\ rjMoves' = rjMoves \ {<<f, h>>}
       /\ RjLoss
       /\ IF told
          THEN /\ rjStage' = Without(rjStage, <<f, h>>)
               /\ rjTask' = [t \in RjIds |-> IF t \in hit THEN [rjTask[t] EXCEPT !.ing = TRUE] ELSE rjTask[t]]
          ELSE UNCHANGED <<rjStage, rjTask>>
       /\ UNCHANGED <<rjHostVars, rjReg, rjStatus, rjJob>>

-----------------------------------------------------------------------------
(***************************************************************************)
(* CorrTask.map.                                                           *)
(***************************************************************************)
\* A retry; the host is left out from now on if it failed, and the events are cleared
\* only then.
RjRetry(t, black, cleared) ==
    rjTask' = [rjTask EXCEPT ![t].pc = "host", ![t].host = RjNone, ![t].ing = FALSE, ![t].result = RjNone,
                             ![t].black = IF black THEN @ \cup {rjTask[t].host} ELSE @,
                             ![t].deq = @ /\ ~cleared, ![t].done = @ /\ ~cleared]

\* fileIngestTimeout, for the files that are not in _fileLocDict.
Unlisted(t) ==
    LET hit == {k \in DOMAIN rjStage : k[2] = rjTask[t].host /\ k[1] \in RjFiles[t] \ rjTask[t].loc /\ InSeq(t, rjStage[k])}
        Cut(s) == LET i == CHOOSE j \in DOMAIN s : s[j] = t /\ \A l \in 1..(j - 1) : s[l] # t
                  IN SubSeq(s, 1, i - 1) \o SubSeq(s, i + 1, Len(s))
    IN [k \in {x \in DOMAIN rjStage : x \notin hit \/ Len(rjStage[x]) > 1} |-> IF k \in hit THEN Cut(rjStage[k]) ELSE rjStage[k]]

\* Mutant: a wait that ran out is taken for one that was successful.
RjIngestWaitedAnyway(t) ==
    /\ rjTask[t].pc = "ingest"
    /\ IF rjTask[t].ing THEN UNCHANGED rjEvents ELSE RjEvent
    /\ rjTask' = [rjTask EXCEPT ![t].pc = IF rjTask[t].host \in rjUp THEN "submit" ELSE "dead"]
    /\ UNCHANGED <<rjHostVars, rjStaging, rjReg, rjStatus, rjJob, rjLost>>

\* The wait for the files is over, in time or not.  When the host does not answer, the
\* message about it cannot be formatted: the thread of the task ends, as it is.
RjIngestWaited(t) ==
    /\ rjTask[t].pc = "ingest"
    /\ IF rjTask[t].ing THEN UNCHANGED rjEvents ELSE RjEvent
    /\ CASE rjTask[t].host \notin rjUp -> rjTask' = [rjTask EXCEPT ![t].pc = "dead"] /\ UNCHANGED <<rjStage, rjStatus>>
         [] rjTask[t].host \in rjUp /\ rjTask[t].n < Cardinality(RjFiles[t]) -> RjError(t, 3) /\ rjStage' = Unlisted(t)
         [] OTHER -> rjTask' = [rjTask EXCEPT ![t].pc = "submit"] /\ UNCHANGED <<rjStage, rjStatus>>
    /\ UNCHANGED <<rjHostVars, rjMoves, rjReg, rjJob, rjLost>>

\* registerLocalTask and the POST to RUNTASK: refused, accepted, or failing (then the host
\* may have the task all the same).
RjSubmit(t, outcome) ==
    LET h == rjTask[t].host
    IN /\ rjTask[t].pc = "submit"
       /\ rjReg' = rjReg \cup {t}
       /\ outcome = "refused" <=> h \notin rjUp
       /\ rjQueue' = IF outcome \in {"accepted", "unanswered"} THEN [rjQueue EXCEPT ![h] = Append(@, t)] ELSE rjQueue
       /\ CASE outcome = "accepted" -> /\ rjTask' = [rjTask EXCEPT ![t].pc = "queued"]
                                       /\ rjStatus' = [rjStatus EXCEPT ![t] = "queueing"] /\ UNCHANGED rjEvents
            [] outcome = "refused" -> RjRetry(t, t # RjObs, FALSE) /\ UNCHANGED <<rjEvents, rjStatus>>
            [] OTHER -> RjError(t, IF t = RjObs THEN 2 ELSE 6) /\ RjEvent
       /\ UNCHANGED <<rjOn, rjUp, rjRun, rjCancel, rjStaging, rjJob, rjLost>>

\* The wait for the task to be taken from the queue; the ObsTask waits without time limit.
RjDequeueWaited(t) ==
    /\ rjTask[t].pc = "queued"
    /\ IF rjTask[t].deq
       THEN /\ rjTask' = [rjTask EXCEPT ![t].pc = "running"] /\ rjStatus' = [rjStatus EXCEPT ![t] = "running"]
            /\ UNCHANGED rjEvents
       ELSE t # RjObs /\ RjEvent /\ RjRetry(t, TRUE, TRUE) /\ UNCHANGED rjStatus
    /\ UNCHANGED <<rjHostVars, rjStaging, rjReg, rjJob, rjLost>>

\* The wait for the result.  It may be one of an execution that was given up before.  A
\* result without an image is as good as none.
RjResultWaited(t) ==
    LET r == rjTask[t].result
    IN /\ rjTask[t].pc = "running"
       /\ CASE r = RjNone \/ (r = "none" /\ t # RjObs) ->
                 /\ IF rjTask[t].done THEN UNCHANGED rjEvents ELSE RjEvent
                 /\ IF rjTask[t].tries >= RjRetries THEN RjError(t, IF t = RjObs THEN 3 ELSE IF r = RjNone THEN 7 ELSE 10)
                    ELSE /\ rjTask' = [rjTask EXCEPT ![t].pc = "host", ![t].host = RjNone, ![t].ing = FALSE, ![t].done = FALSE, ![t].result = RjNone,
                                                     ![t].deq = @ /\ t = RjObs, ![t].tries = @ + 1,
                                                     ![t].black = IF t = RjObs THEN @ ELSE @ \cup {rjTask[t].host}]
                         /\ UNCHANGED rjStatus
            [] r = "error" /\ t # RjObs -> RjError(t, 8) /\ UNCHANGED rjEvents
            [] OTHER -> /\ rjTask' = [rjTask EXCEPT ![t].pc = "clean", ![t].url = r]
                        /\ UNCHANGED <<rjStatus, rjEvents>>
       /\ UNCHANGED <<rjHostVars, rjStaging, rjReg, rjJob, rjLost>>

\* RUNTASK with action=cancel
RjCancelOn(hosts, t) == rjCancel' = [h \in RjHosts |-> IF h \in hosts THEN rjCancel[h] \cup {t} ELSE rjCancel[h]]

\* cleanTasks: the task is cancelled wherever it may be; then the thread ends.  A
\* cancelled task that is being executed is stopped, and its result is an error.
RjClean(t) ==
    LET hosts == (rjTask[t].black \cup {rjTask[t].host}) \cap rjUp
    IN /\ rjTask[t].pc = "clean" /\ t # RjObs
       /\ RjCancelOn(hosts, t)
       /\ rjTask' = [rjTask EXCEPT ![t].pc = "end"]
       /\ rjStatus' = [rjStatus EXCEPT ![t] = IF @ = "running" THEN "complete" ELSE @]
       /\ UNCHANGED <<rjOn, rjUp, rjQueue, rjRun, rjStaging, rjReg, rjJob, rjLost, rjEvents>>

-----------------------------------------------------------------------------
(***************************************************************************)
(* ObsTask.reduce.                                                         *)
(***************************************************************************)
Urls == {rjTask[t].url : t \in {u \in RjTasks : rjTask[u].pc = "end" /\ rjTask[u].err = 0}} \ {RjNone}

\* The threads of all children have been joined.  Without an image there is nothing to do.
RjJoined ==
    /\ rjTask[RjObs].pc = "children" /\ \A t \in RjTasks : rjTask[t].pc \in {"end", "dead"}
    /\ rjTask' = [rjTask EXCEPT ![RjObs].pc = IF Urls = {} THEN "clean" ELSE "host", ![RjObs].err = IF Urls = {} THEN 4 ELSE 0]
    /\ rjStatus' = [rjStatus EXCEPT ![RjObs] = "running"]
    /\ UNCHANGED <<rjHostVars, rjStaging, rjReg, rjJob, rjLost, rjEvents>>

\* A host that has an image and answers, else any; the hosts that failed are not remembered.
RjObsHost(h) ==
    /\ rjTask[RjObs].pc = "host"
    /\ CASE Urls \cap rjUp # {} -> h \in Urls \cap rjUp
         [] Urls \cap rjUp = {} /\ rjUp # {} -> h \in rjUp
         [] OTHER -> h = RjNone
    /\ rjTask' = IF h = RjNone THEN [rjTask EXCEPT ![RjObs].pc = "clean", ![RjObs].err = 1]
                               ELSE [rjTask EXCEPT ![RjObs].pc = "submit", ![RjObs].host = h]
    /\ UNCHANGED <<rjHostVars, rjStaging, rjReg, rjStatus, rjJob, rjLost, rjEvents>>


\* __reduce: whatever reduce has set, the status is that of the children.
StatusOf(children) == IF "exception" \in children THEN "exception" ELSE "complete"

RjObsEnds ==
    /\ rjTask[RjObs].pc = "clean"
    /\ rjTask' = [rjTask EXCEPT ![RjObs].pc = "end"]
    /\ LET obs == StatusOf({rjStatus[t] : t \in RjTasks})
       IN rjStatus' = [rjStatus EXCEPT ![RjObs] = obs] /\ rjJob' = StatusOf({obs})
    /\ UNCHANGED <<rjHostVars, rjStaging, rjReg, rjLost, rjEvents>>

-----------------------------------------------------------------------------
(***************************************************************************)
(* RUNTASK: _queScanThread, and hosts that crash and come back.            *)
(***************************************************************************)
\* Mutant: the manager forgets a task when it is taken from the queue.
RjDequeuedForgets(h, told) ==
    /\ h \in rjUp /\ rjRun[h] = RjNone /\ rjQueue[h] # <<>>
    /\ LET t == Head(rjQueue[h])
       IN IF t \in rjCancel[h] THEN told /\ UNCHANGED <<rjRun, rjTask, rjReg>>
          ELSE /\ rjRun' = [rjRun EXCEPT ![h] = t]
               /\ rjTask' = IF told /\ t \in rjReg THEN [rjTask EXCEPT ![t].deq = TRUE] ELSE rjTask
               /\ rjReg' = IF told THEN rjReg \ {t} ELSE rjReg
    /\ rjQueue' = [rjQueue EXCEPT ![h] = Tail(@)]
    /\ Cause(~told)
    /\ UNCHANGED <<rjOn, rjUp, rjCancel, rjStaging, rjStatus, rjJob>>

\* The next task; a cancelled one is left out, for good.
RjDequeued(h, told) ==
    /\ h \in rjUp /\ rjRun[h] = RjNone /\ rjQueue[h] # <<>>
    /\ LET t == Head(rjQueue[h])
       IN IF t \in rjCancel[h] THEN told /\ UNCHANGED <<rjRun, rjTask>>
          ELSE /\ rjRun' = [rjRun EXCEPT ![h] = t]
               /\ rjTask' = IF told /\ t \in rjReg THEN [rjTask EXCEPT ![t].deq = TRUE] ELSE rjTask
    /\ rjQueue' = [rjQueue EXCEPT ![h] = Tail(@)]
    /\ Cause(~told)
    /\ UNCHANGED <<rjOn, rjUp, rjCancel, rjStaging, rjReg, rjStatus, rjJob>>

\* The result of an execution: the URL of the image, archived at the host itself, no
\* image, or an error of the task or of its archiving.
ResultOf(h, out) == IF out = "image" THEN h ELSE out

\* The first result for a task id is taken, whichever execution it is of.
localTaskCompleted(t, result) ==
    IF t \in rjReg
    THEN /\ rjReg' = rjReg \ {t}
         /\ rjTask' = [rjTask EXCEPT ![t].result = result, ![t].deq = TRUE, ![t].done = TRUE]
    ELSE UNCHANGED <<rjReg, rjTask>>

\* The task is executed.
RjExecuted(h, out, told) ==
    LET t == rjRun[h]
    IN /\ h \in rjUp /\ t # RjNone
       /\ t \in rjCancel[h] => out = "error"
       /\ IF told /\ (out = "image" \/ t \in rjCancel[h]) THEN UNCHANGED <<rjLost, rjEvents>>
          ELSE RjEvent /\ rjLost' = (rjLost \/ ~told)
       /\ rjRun' = [rjRun EXCEPT ![h] = RjNone]
       /\ IF told THEN localTaskCompleted(t, ResultOf(h, out)) ELSE UNCHANGED <<rjReg, rjTask>>
       /\ UNCHANGED <<rjOn, rjUp, rjQueue, rjCancel, rjStaging, rjStatus, rjJob>>

RjCrash(h) ==
    /\ h \in rjUp /\ RjLoss
    /\ rjUp' = rjUp \ {h} /\ rjQueue' = [rjQueue EXCEPT ![h] = <<>>]
    /\ rjRun' = [rjRun EXCEPT ![h] = RjNone] /\ rjCancel' = [rjCancel EXCEPT ![h] = {}]
    /\ UNCHANGED <<rjOn, rjStaging, rjTask, rjReg, rjStatus, rjJob>>

RjBoot(h) ==
    /\ h \notin rjUp /\ rjUp' = rjUp \cup {h}
    /\ UNCHANGED <<rjOn, rjQueue, rjRun, rjCancel, rjStaging, rjTask, rjReg, rjStatus, rjJob, rjLost, rjEvents>>

RjNext ==
    \/ RjBuildFails \/ RjStart \/ RjJoined \/ RjObsEnds
    \/ \E t \in RjTasks :
          \/ \E h \in RjHosts \cup {RjNone} : RjAllocate(t, h) \/ RjTakeHost(t, h)
          \/ \E f \in RjFiles[t] : StageLater(t, f) \/ \E ok \in BOOLEAN : StageFromCluster(t, f, ok)
          \/ \E ok \in BOOLEAN : StageFromArchive(t, ok)
          \/ RjStaged(t) \/ RjClear(t) \/ RjIngestWaited(t) \/ RjClean(t)
    \/ \E t \in RjIds :
          \/ \E outcome \in {"accepted", "refused", "unanswered", "failed"} : RjSubmit(t, outcome)
          \/ RjDequeueWaited(t) \/ RjResultWaited(t)
    \/ \E h \in RjHosts : \E told \in BOOLEAN :
          \/ \E f \in RjAllFiles : RjDelivered(f, h, told) \/ RjNotDelivered(f, h, told)
          \/ RjDequeued(h, told) \/ \E out \in {"image", "none", "error"} : RjExecuted(h, out, told)
    \/ \E h \in RjHosts \cup {RjNone} : RjObsHost(h)
    \/ \E h \in RjHosts : RjCrash(h) \/ RjBoot(h)

-----------------------------------------------------------------------------
(***************************************************************************)
(* Properties.                                                             *)
(***************************************************************************)

\* A correlator is scheduled on a host that has all its files (_stageFiles, fileIngested).
RunsWithItsFiles ==
    \A t \in RjTasks : rjTask[t].pc \in {"submit", "queued"} =>
        \A f \in RjFiles[t] : <<f, rjTask[t].host>> \in rjOn

\* A thread waits only for what will come: a file on its way whose arrival it is told of,
\* or a local task that is in the queue of its host, being executed or reported, as long
\* as no call is lost, no host crashes and no staging fails (stageFile, localTaskDequeued,
\* localTaskCompleted).
WaitsForSomething ==
    rjLost \/ \A t \in RjIds :
        /\ rjTask[t].pc = "ingest" /\ ~rjTask[t].ing =>
              \/ rjTask[t].n >= Cardinality(RjFiles[t])
              \/ \E k \in rjMoves : k[2] = rjTask[t].host /\ k[1] \in RjFiles[t] /\ InSeq(t, Waiting(k))
        /\ rjTask[t].pc \in {"queued", "running"} /\ ~rjTask[t].done =>
              \E h \in RjHosts : (InSeq(t, rjQueue[h]) \/ rjRun[h] = t) /\ t \in rjReg

\* An observation and a job are shown as complete only when every correlator has come to
\* an image, made by an execution that reported success, but for those whose thread died
\* because their host was down, which are shown as staging for ever (__reduce, setStatus).
CompleteHasImages ==
    rjStatus[RjObs] = "complete" \/ rjJob = "complete" =>
        \A t \in RjTasks :
           \/ rjStatus[t] = "complete" /\ rjTask[t].err = 0 /\ rjTask[t].url \in RjHosts
           \/ rjStatus[t] = "staging" /\ rjTask[t].pc = "dead" /\ rjLost

=============================================================================
