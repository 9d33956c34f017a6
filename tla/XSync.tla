------------------------------- MODULE XSync --------------------------------
(***************************************************************************)
(* The express synchronisation tool ngasXSyncTool: the files to bring to   *)
(* the target nodes are listed once, in a queue kept in DBM files; a group *)
(* of threads checks and clones them, and moves the requests between the   *)
(* queue and the DBMs of requests in work, synchronised and failed.  An    *)
(* interrupted session goes on with the DBM files it finds.                *)
(***************************************************************************)
EXTENDS Integers, FiniteSets, TLC

CONSTANTS
    XsFiles,      \* the files of the source volume, node, cluster or file list
    XsThreads,    \* the synchronisation threads
    XsMaxRetries, \* NGAS_MAX_RETRIES
    XsEvents      \* bound on failures, interruptions and restarts, together

ASSUME XsConfig == XsMaxRetries \in Nat \ {0} /\ XsEvents \in Nat

XsDbms == {"TMP_QUEUE", "QUEUE", "PROC", "SYNCED", "FAILED"}

VARIABLES
    xsDbm,     \* xsDbm[d]: the requests in a DBM, with their attempts
    xsMade,    \* the queue has got its final name
    xsTarget,  \* the files registered in the target cluster
    xsTool,    \* the process: "none", "listing", "running", "ended"
    xsLeft,    \* the files still to list
    xsThr,     \* xsThr[t]: step, request in hand, its attempts, and where it moves
    xsExecute, \* __execute of the thread group
    xsRep,     \* the thread that reports
    xsStuck,   \* ghost: requests a killed process or a thread that died had in work
    xsEvents   \* events so far

xsVars == <<xsDbm, xsMade, xsTarget, xsTool, xsLeft, xsThr, xsExecute, xsRep, xsStuck, xsEvents>>

XsNone == [step |-> "none", has |-> {}, tries |-> 0, from |-> "QUEUE", to |-> "PROC"]
XsEmpty == [f \in {} |-> 0]

XsInit ==
    /\ xsDbm = [d \in XsDbms |-> XsEmpty] /\ xsMade = FALSE /\ xsTarget = {}
    /\ xsTool = "none" /\ xsLeft = {} /\ xsThr = [t \in XsThreads |-> XsNone]
    /\ xsExecute = TRUE /\ xsRep = "none" /\ xsStuck = {} /\ xsEvents = 0

XsEvent == xsEvents < XsEvents /\ xsEvents' = xsEvents + 1

-----------------------------------------------------------------------------
(***************************************************************************)
(* The DBMs: every add and every removal is brought to disk.               *)
(***************************************************************************)
XsIn(d) == DOMAIN xsDbm[d]
\* NgasSyncRequest: a file and the attempts made.
XsRequest(f, n) == f :> n
XsAdd(d, f, n) == xsDbm' = [xsDbm EXCEPT ![d] = XsRequest(f, n) @@ @]
XsRem(d, f) == xsDbm' = [xsDbm EXCEPT ![d] = [g \in DOMAIN @ \ {f} |-> @[g]]]

\* takeGenMux: held between the two halves of a move.
GenMuxFree == \A t \in XsThreads : xsThr[t].step # "rem"

-----------------------------------------------------------------------------
(***************************************************************************)
(* initialize: unless the queue is there, it is built under another name   *)
(* and renamed.  (The DBM of requests in work is looked for without its    *)
(* extension, so its requests are never put back.)  The lock file is never *)
(* created; at most one instance is assumed.                               *)
(***************************************************************************)
XsStart(clean) ==
    /\ xsTool \in {"none", "ended"} /\ XsEvent
    /\ xsTool' = "listing"
    /\ xsLeft' = IF xsMade /\ ~clean THEN {} ELSE XsFiles
    /\ xsMade' = (xsMade /\ ~clean)
    /\ xsDbm' = IF clean THEN [d \in XsDbms |-> XsEmpty] ELSE xsDbm
    /\ xsStuck' = IF clean THEN {} ELSE xsStuck
    /\ xsThr' = [t \in XsThreads |-> XsNone] /\ xsExecute' = TRUE /\ xsRep' = "none"
    /\ UNCHANGED xsTarget

\* _add_in_file_dbm
AddInFileDbm(f) ==
    /\ xsTool = "listing" /\ f \in xsLeft
    /\ XsAdd("TMP_QUEUE", f, 0)
    /\ xsLeft' = xsLeft \ {f}
    /\ UNCHANGED <<xsMade, xsTarget, xsTool, xsThr, xsExecute, xsRep, xsStuck, xsEvents>>

\* Mutant: the queue gets its name before the files are listed.
QueueComplete == TRUE

\* All files are in the queue.
QueueListed == xsLeft = {}

RenameQueue ==
    /\ xsTool = "listing" /\ ~xsMade /\ QueueListed
    /\ xsMade' = TRUE
    /\ xsDbm' = [xsDbm EXCEPT !["QUEUE"] = xsDbm["TMP_QUEUE"], !["TMP_QUEUE"] = XsEmpty]
    /\ xsLeft' = {}
    /\ UNCHANGED <<xsTarget, xsTool, xsThr, xsExecute, xsRep, xsStuck, xsEvents>>

\* The threads, one of them the reporting one when that is asked for, are created and
\* released (ngamsThreadGroup.start).
StartThreads(report) ==
    /\ xsTool = "listing" /\ xsMade /\ xsLeft = {}
    /\ xsTool' = "running"
    /\ xsThr' = [t \in XsThreads |-> [XsNone EXCEPT !.step = "loop"]]
    /\ xsRep' = IF report THEN "loop" ELSE "none"
    /\ UNCHANGED <<xsDbm, xsMade, xsTarget, xsLeft, xsExecute, xsStuck, xsEvents>>

-----------------------------------------------------------------------------
(***************************************************************************)
(* sync_loop.                                                              *)
(***************************************************************************)
XsGoto(t, step) == xsThr' = [xsThr EXCEPT ![t].step = step]
XsRunning(t, step) == xsTool = "running" /\ xsThr[t].step = step

\* The request in hand is to move from the DBM of requests in work to another one.
MoveTo(t, d, tries) ==
    xsThr' = [xsThr EXCEPT ![t].step = "add", ![t].from = "PROC", ![t].to = d, ![t].tries = tries]

\* checkPauseStop: the group was stopped.
XsStopped(t) ==
    /\ XsRunning(t, "loop") /\ ~xsExecute
    /\ XsGoto(t, "ended")
    /\ UNCHANGED <<xsDbm, xsMade, xsTarget, xsTool, xsLeft, xsExecute, xsRep, xsStuck, xsEvents>>

\* get_next_sync_request: a request of the queue is added to the ones in work ...
GetNext(t, f) ==
    /\ XsRunning(t, "loop") /\ xsExecute /\ GenMuxFree
    /\ f \in XsIn("QUEUE")
    /\ XsAdd("PROC", f, xsDbm["QUEUE"][f])
    /\ xsThr' = [xsThr EXCEPT ![t] = [step |-> "rem", has |-> {f}, tries |-> xsDbm["QUEUE"][f],
                                      from |-> "QUEUE", to |-> "PROC"]]
    /\ UNCHANGED <<xsMade, xsTarget, xsTool, xsLeft, xsExecute, xsRep, xsStuck, xsEvents>>

\* ... or there is none.
GetNone(t) ==
    /\ XsRunning(t, "loop") /\ xsExecute /\ GenMuxFree
    /\ XsIn("QUEUE") = {}
    /\ XsGoto(t, "none left")
    /\ UNCHANGED <<xsDbm, xsMade, xsTarget, xsTool, xsLeft, xsExecute, xsRep, xsStuck, xsEvents>>

\* Mutant: the requests in work are not counted.
ActiveQueued == Cardinality(XsIn("QUEUE"))

\* get_active_requests
ActiveRequests == Cardinality(XsIn("QUEUE")) + Cardinality(XsIn("PROC"))

\* The thread ends when nothing is queued or in work, else it looks again.
XsNoneLeft(t) ==
    /\ XsRunning(t, "none left") /\ GenMuxFree
    /\ XsGoto(t, IF ActiveRequests > 0 THEN "loop" ELSE "ended")
    /\ UNCHANGED <<xsDbm, xsMade, xsTarget, xsTool, xsLeft, xsExecute, xsRep, xsStuck, xsEvents>>

\* move_request_...: the add ...
MoveAdd(t, f) ==
    /\ XsRunning(t, "add") /\ f \in xsThr[t].has /\ GenMuxFree
    /\ XsAdd(xsThr[t].to, f, xsThr[t].tries)
    /\ XsGoto(t, "rem")
    /\ UNCHANGED <<xsMade, xsTarget, xsTool, xsLeft, xsExecute, xsRep, xsStuck, xsEvents>>

\* ... and the removal.
MoveRem(t, f) ==
    /\ XsRunning(t, "rem") /\ f \in xsThr[t].has
    /\ XsRem(xsThr[t].from, f)
    /\ xsThr' = [xsThr EXCEPT ![t] = IF xsThr[t].to = "PROC" THEN [@ EXCEPT !.step = "check"]
                                     ELSE [XsNone EXCEPT !.step = "loop"]]
    /\ UNCHANGED <<xsMade, xsTarget, xsTool, xsLeft, xsExecute, xsRep, xsStuck, xsEvents>>

\* A request that failed a moment ago goes back.
TooEarly(t) ==
    /\ XsRunning(t, "check") /\ xsThr[t].tries > 0
    /\ MoveTo(t, "QUEUE", xsThr[t].tries)
    /\ UNCHANGED <<xsDbm, xsMade, xsTarget, xsTool, xsLeft, xsExecute, xsRep, xsStuck, xsEvents>>

\* check_if_file_in_target_cluster.  With check-file a CHECKFILE is sent besides, whose
\* answer is read with a method that the status has not: the request fails.
CheckIfFileInTargetCluster(t, f, checkFile) ==
    /\ XsRunning(t, "check") /\ f \in xsThr[t].has
    /\ IF checkFile THEN XsEvent ELSE UNCHANGED xsEvents
    /\ CASE f \notin xsTarget -> XsGoto(t, "clone")
         [] f \in xsTarget /\ ~checkFile -> MoveTo(t, "SYNCED", xsThr[t].tries)
         [] OTHER -> MoveTo(t, "FAILED", xsThr[t].tries)
    /\ UNCHANGED <<xsDbm, xsMade, xsTarget, xsTool, xsLeft, xsExecute, xsRep, xsStuck>>

\* clone_file succeeds ...
CloneFile(t, f) ==
    /\ XsRunning(t, "clone") /\ f \in xsThr[t].has
    /\ xsTarget' = xsTarget \cup {f}
    /\ MoveTo(t, "SYNCED", xsThr[t].tries + 1)
    /\ UNCHANGED <<xsDbm, xsMade, xsTool, xsLeft, xsExecute, xsRep, xsStuck, xsEvents>>

\* Mutant: a request that failed often enough is taken for done.
GiveUpTo == "SYNCED"

\* Where a request goes whose attempts are used up.
GiveUp == "FAILED"

\* ... or fails, perhaps after the target has got the file; it is tried again, up to
\* NGAS_MAX_RETRIES times.
CloneFailed(t, f, arrived) ==
    /\ XsRunning(t, "clone") /\ f \in xsThr[t].has /\ XsEvent
    /\ xsTarget' = IF arrived THEN xsTarget \cup {f} ELSE xsTarget
    /\ LET n == xsThr[t].tries + 1 IN MoveTo(t, IF n >= XsMaxRetries THEN GiveUp ELSE "QUEUE", n)
    /\ UNCHANGED <<xsDbm, xsMade, xsTool, xsLeft, xsExecute, xsRep, xsStuck>>

\* A query or a DBM operation raises: the thread dies, its request stays in work.
ThreadDies(t) ==
    /\ xsTool = "running" /\ xsThr[t].step \in {"check", "add"} /\ XsEvent
    /\ xsStuck' = xsStuck \cup xsThr[t].has
    /\ xsThr' = [xsThr EXCEPT ![t] = [XsNone EXCEPT !.step = "died"]]
    /\ UNCHANGED <<xsDbm, xsMade, xsTarget, xsTool, xsLeft, xsExecute, xsRep>>

\* intermediate_report_loop: it ends as the last thread, or with the group.
XsReport ==
    /\ xsTool = "running" /\ xsRep = "loop"
    /\ ~xsExecute \/ \A t \in XsThreads : xsThr[t].step \in {"ended", "died"}
    /\ xsRep' = "ended"
    /\ UNCHANGED <<xsDbm, xsMade, xsTarget, xsTool, xsLeft, xsThr, xsExecute, xsStuck, xsEvents>>

\* A signal stops the group.
XsSignal ==
    /\ xsTool = "running" /\ xsExecute /\ XsEvent
    /\ xsExecute' = FALSE
    /\ UNCHANGED <<xsDbm, xsMade, xsTarget, xsTool, xsLeft, xsThr, xsRep, xsStuck>>

\* ngamsThreadGroup.wait: all threads have ended; the final report.
XsEnd ==
    /\ xsTool = "running" /\ xsRep # "loop"
    /\ \A t \in XsThreads : xsThr[t].step \in {"ended", "died"}
    /\ xsTool' = "ended"
    /\ UNCHANGED <<xsDbm, xsMade, xsTarget, xsLeft, xsThr, xsExecute, xsRep, xsStuck, xsEvents>>

\* The process is killed.
XsKill ==
    /\ xsTool \in {"listing", "running"} /\ XsEvent
    /\ xsTool' = "none"
    /\ xsStuck' = xsStuck \cup XsIn("PROC")
    /\ xsThr' = [t \in XsThreads |-> XsNone]
    /\ UNCHANGED <<xsDbm, xsMade, xsTarget, xsLeft, xsExecute, xsRep>>

XsNext ==
    \/ \E b \in BOOLEAN : XsStart(b) \/ StartThreads(b)
    \/ RenameQueue \/ XsReport \/ XsSignal \/ XsEnd \/ XsKill
    \/ \E f \in XsFiles : AddInFileDbm(f)
    \/ \E t \in XsThreads :
          \/ XsStopped(t) \/ GetNone(t) \/ XsNoneLeft(t) \/ TooEarly(t) \/ ThreadDies(t)
          \/ \E f \in XsFiles :
                \/ GetNext(t, f) \/ MoveAdd(t, f) \/ MoveRem(t, f) \/ CloneFile(t, f)
                \/ \E b \in BOOLEAN : CloneFailed(t, f, b) \/ CheckIfFileInTargetCluster(t, f, b)

-----------------------------------------------------------------------------
(***************************************************************************)
(* Properties.                                                             *)
(***************************************************************************)

\* Once the queue is made every file is in one of its DBMs, whenever the tool is
\* stopped, killed or a thread of it dies, and started again (initialize, the
\* functions move_request_...).
NoFileForgotten == xsMade => XsFiles \subseteq UNION {XsIn(d) : d \in {"QUEUE", "PROC", "SYNCED", "FAILED"}}

\* A file in the DBM of synchronised files is in the target cluster, also when a request
\* was done twice after an interruption (sync_loop).
SyncedIsThere == XsIn("SYNCED") \subseteq xsTarget

\* As long as a request is queued or in work no thread of an unstopped group has ended,
\* and a request in work is in a thread's hands, except the ones an interruption or a
\* thread that died left there: no thread waits for a request nobody works on
\* (get_active_requests).
WorkedOn ==
    xsTool = "running" =>
        /\ \A f \in XsIn("PROC") \ xsStuck : \E t \in XsThreads : f \in xsThr[t].has
        /\ xsExecute /\ XsIn("QUEUE") \cup XsIn("PROC") # {} => \A t \in XsThreads : xsThr[t].step # "ended"

=============================================================================
