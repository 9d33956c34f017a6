---------------------------- MODULE FileMonitor -----------------------------
(***************************************************************************)
(* The client side tool ngamsPClient/fs_monitor.py: files that appear in   *)
(* queue/ are moved to archiving/, sent to one of the servers, moved to    *)
(* archived/, checked some time later, and removed.  The directories last; *)
(* the queues between the processes of the tool do not, except that the    *)
(* pending checks are written to a file when the tool stops.               *)
(***************************************************************************)
EXTENDS Integers, FiniteSets

CONSTANTS
    FmFiles,      \* the files
    FmServers,    \* the servers
    FmArchivers,  \* the archiving processes
    FmCheckers,   \* the checking processes
    FmEvents,     \* bound on failures, stops, crashes, together
    FmNone        \* no file

ASSUME FmConfig == FmNone \notin FmFiles /\ FmEvents \in Nat /\ FmServers # {}

FmProcs == FmArchivers \cup FmCheckers

VARIABLES
    fmDir,     \* fmDir[f]: the directory f is in, or "gone"
    fmArchive, \* archive_queue
    fmCheck,   \* check_queue
    fmPickle,  \* the pending checks on disk
    fmPoll,    \* the file the poller has moved but not yet queued
    fmProc,    \* fmProc[p]: step, file, servers left to try
    fmTool,    \* "off", "on", "stopping", "dumped", "ending"
    fmStored,  \* fmStored[f]: the servers that archived f, with how often
    fmDropped, \* ghost: files whose request went with a process, a crash, or came after the dump
    fmRepeat,  \* ghost: files whose archiving was repeated because no answer came
    fmEvents

fmVars == <<fmDir, fmArchive, fmCheck, fmPickle, fmPoll, fmProc, fmTool, fmStored, fmDropped, fmRepeat, fmEvents>>

FmIdle == [step |-> "idle", f |-> FmNone, left |-> {}]

FmInit ==
    /\ fmDir = [f \in FmFiles |-> "queue"]
    /\ fmArchive = {} /\ fmCheck = {} /\ fmPickle = {} /\ fmPoll = FmNone
    /\ fmProc = [p \in FmProcs |-> FmIdle] /\ fmTool = "off"
    /\ fmStored = [f \in FmFiles |-> 0]
    /\ fmDropped = {} /\ fmRepeat = {} /\ fmEvents = 0

FmEvent == fmEvents < FmEvents /\ fmEvents' = fmEvents + 1

FmInHand == {fmProc[p].f : p \in FmProcs} \cup {fmPoll}

-----------------------------------------------------------------------------
(***************************************************************************)
(* Start and stop.                                                         *)
(***************************************************************************)

\* load_pending_checks leaves the file where it is.
start_tasks ==
    /\ fmTool = "off"
    /\ fmTool' = "on"
    /\ fmCheck' = fmPickle /\ fmArchive' = {}
    /\ fmProc' = [p \in FmProcs |-> FmIdle] /\ fmPoll' = FmNone
    /\ UNCHANGED <<fmDir, fmPickle, fmStored, fmDropped, fmRepeat, fmEvents>>

\* All tasks share one stop event.  Task.stop joins only the first one, the poller; for the
\* others the event is set already.
FmStop ==
    /\ fmTool = "on" /\ FmEvent
    /\ fmTool' = "stopping"
    /\ UNCHANGED <<fmDir, fmArchive, fmCheck, fmPickle, fmPoll, fmProc, fmStored, fmDropped, fmRepeat>>

dump_pending_checks ==
    /\ fmTool = "stopping" /\ fmPoll = FmNone
    /\ fmTool' = "dumped"
    /\ fmPickle' = fmCheck
    /\ fmCheck' = {}
    /\ UNCHANGED <<fmDir, fmArchive, fmPoll, fmProc, fmStored, fmDropped, fmRepeat, fmEvents>>

restore_pending_archives ==
    /\ fmTool = "dumped"
    /\ fmTool' = "ending"
    /\ fmDir' = [f \in FmFiles |-> IF f \in fmArchive THEN "queue" ELSE fmDir[f]]
    /\ fmArchive' = {}
    /\ UNCHANGED <<fmCheck, fmPickle, fmPoll, fmProc, fmStored, fmDropped, fmRepeat, fmEvents>>

\* The interpreter waits for the processes; what they queued after the dump is lost.
FmEnd ==
    /\ fmTool = "ending" /\ \A p \in FmProcs : fmProc[p].step \in {"idle", "dead"}
    /\ fmTool' = "off"
    /\ fmDropped' = fmDropped \cup fmArchive \cup fmCheck
    /\ fmArchive' = {} /\ fmCheck' = {}
    /\ UNCHANGED <<fmDir, fmPickle, fmPoll, fmProc, fmStored, fmRepeat, fmEvents>>

\* The whole tool is killed.
FmCrash ==
    /\ fmTool # "off" /\ FmEvent
    /\ fmTool' = "off"
    /\ fmDropped' = fmDropped \cup (((fmArchive \cup fmCheck \cup FmInHand) \ {FmNone}) \ fmPickle)
    /\ fmArchive' = {} /\ fmCheck' = {} /\ fmPoll' = FmNone
    /\ fmProc' = [p \in FmProcs |-> FmIdle]
    /\ UNCHANGED <<fmDir, fmPickle, fmStored, fmRepeat>>

-----------------------------------------------------------------------------
(***************************************************************************)
(* The poller.                                                             *)
(***************************************************************************)
fs_polling(f) ==
    /\ fmTool \in {"on", "stopping"} /\ fmPoll = FmNone /\ fmDir[f] = "queue"
    /\ fmDir' = [fmDir EXCEPT ![f] = "archiving"]
    /\ fmPoll' = f
    /\ UNCHANGED <<fmArchive, fmCheck, fmPickle, fmProc, fmTool, fmStored, fmDropped, fmRepeat, fmEvents>>

FmQueue ==
    /\ fmPoll # FmNone
    /\ fmArchive' = fmArchive \cup {fmPoll}
    /\ fmPoll' = FmNone
    /\ UNCHANGED <<fmDir, fmCheck, fmPickle, fmProc, fmTool, fmStored, fmDropped, fmRepeat, fmEvents>>

-----------------------------------------------------------------------------
(***************************************************************************)
(* periodic_queue_consumer: a request at a time, until the stop event.     *)
(***************************************************************************)
FmTake(p, f) ==
    /\ fmTool = "on" /\ fmProc[p].step = "idle"
    /\ \/ /\ p \in FmArchivers /\ f \in fmArchive
          /\ fmArchive' = fmArchive \ {f} /\ UNCHANGED fmCheck
          /\ fmProc' = [fmProc EXCEPT ![p] = [step |-> "post", f |-> f, left |-> FmServers]]
       \/ /\ p \in FmCheckers /\ f \in fmCheck
          /\ fmCheck' = fmCheck \ {f} /\ UNCHANGED fmArchive
          /\ fmProc' = [fmProc EXCEPT ![p] = [step |-> "check", f |-> f, left |-> {}]]
    /\ UNCHANGED <<fmDir, fmPickle, fmPoll, fmTool, fmStored, fmDropped, fmRepeat, fmEvents>>

\* Mutant: a request that failed is not put back.
PutBackNot(p) == UNCHANGED <<fmArchive, fmCheck>>

\* The request goes back to the queue it came from.
FmPutBack(p) ==
    /\ fmArchive' = IF p \in FmArchivers THEN fmArchive \cup {fmProc[p].f} ELSE fmArchive
    /\ fmCheck' = IF p \in FmCheckers THEN fmCheck \cup {fmProc[p].f} ELSE fmCheck

\* _post, no connection: the next server, and a ClientException after the last.
FmNoServer(p, s) ==
    /\ fmProc[p].step = "post" /\ s \in fmProc[p].left /\ FmEvent
    /\ IF fmProc[p].left = {s}
       THEN FmPutBack(p) /\ fmProc' = [fmProc EXCEPT ![p] = FmIdle]
       ELSE fmProc' = [fmProc EXCEPT ![p].left = @ \ {s}] /\ UNCHANGED <<fmArchive, fmCheck>>
    /\ UNCHANGED <<fmDir, fmPickle, fmPoll, fmTool, fmStored, fmDropped, fmRepeat>>

\* The file was archived, but the connection broke before the answer: tried again, here or there.
FmAnswerLost(p, s) ==
    /\ fmProc[p].step = "post" /\ s \in fmProc[p].left /\ FmEvent
    /\ fmStored' = [fmStored EXCEPT ![fmProc[p].f] = @ + 1]
    /\ fmRepeat' = fmRepeat \cup {fmProc[p].f}
    /\ IF fmProc[p].left = {s}
       THEN FmPutBack(p) /\ fmProc' = [fmProc EXCEPT ![p] = FmIdle]
       ELSE fmProc' = [fmProc EXCEPT ![p].left = @ \ {s}] /\ UNCHANGED <<fmArchive, fmCheck>>
    /\ UNCHANGED <<fmDir, fmPickle, fmPoll, fmTool, fmDropped>>

\* Mutant: an answer does not end the loop over the servers.
AnsweredGoesOn(p) == IF fmProc[p].left = {} THEN "move" ELSE "post"

\* Any answer ends the loop over the servers.
FmAnswered(p) == "move"

FmArchived(p, s) ==
    /\ fmProc[p].step = "post" /\ s \in fmProc[p].left
    /\ fmStored' = [fmStored EXCEPT ![fmProc[p].f] = @ + 1]
    /\ fmProc' = [fmProc EXCEPT ![p].step = FmAnswered(p), ![p].left = @ \ {s}]
    /\ UNCHANGED <<fmDir, fmArchive, fmCheck, fmPickle, fmPoll, fmTool, fmDropped, fmRepeat, fmEvents>>

\* An answer that is no success: bad file, back-log buffered, or something to try again.
FmNotArchived(p, s, dir) ==
    /\ fmProc[p].step = "post" /\ s \in fmProc[p].left /\ FmEvent
    /\ IF dir = "archiving"
       THEN FmPutBack(p) /\ UNCHANGED fmDir
       ELSE fmDir' = [fmDir EXCEPT ![fmProc[p].f] = dir] /\ UNCHANGED <<fmArchive, fmCheck>>
    /\ fmProc' = [fmProc EXCEPT ![p] = FmIdle]
    /\ UNCHANGED <<fmPickle, fmPoll, fmTool, fmStored, fmDropped, fmRepeat>>

process_archive_request(p) ==
    /\ fmProc[p].step = "move"
    /\ fmDir' = [fmDir EXCEPT ![fmProc[p].f] = "archived"]
    /\ fmProc' = [fmProc EXCEPT ![p].step = "put"]
    /\ UNCHANGED <<fmArchive, fmCheck, fmPickle, fmPoll, fmTool, fmStored, fmDropped, fmRepeat, fmEvents>>

FmToCheck(p) ==
    /\ fmProc[p].step = "put"
    /\ fmCheck' = fmCheck \cup {fmProc[p].f}
    /\ fmProc' = [fmProc EXCEPT ![p] = FmIdle]
    /\ UNCHANGED <<fmDir, fmArchive, fmPickle, fmPoll, fmTool, fmStored, fmDropped, fmRepeat, fmEvents>>

\* CHECKFILE answers NGAMS_INFO_FILE_OK.
CheckedOk(f) == fmStored[f] > 0

process_check_request(p) ==
    /\ fmProc[p].step = "check" /\ CheckedOk(fmProc[p].f)
    /\ fmDir' = [fmDir EXCEPT ![fmProc[p].f] = "gone"]
    /\ fmProc' = [fmProc EXCEPT ![p] = FmIdle]
    /\ UNCHANGED <<fmArchive, fmCheck, fmPickle, fmPoll, fmTool, fmStored, fmDropped, fmRepeat, fmEvents>>

\* Too early, no server, or not validated.
FmCheckLater(p) ==
    /\ fmProc[p].step = "check" /\ FmEvent
    /\ FmPutBack(p)
    /\ fmProc' = [fmProc EXCEPT ![p] = FmIdle]
    /\ UNCHANGED <<fmDir, fmPickle, fmPoll, fmTool, fmStored, fmDropped, fmRepeat>>

\* The archive loses the file before it is checked.
FmLoses(f) ==
    /\ fmStored[f] > 0 /\ fmDir[f] = "archived" /\ FmEvent
    /\ fmStored' = [fmStored EXCEPT ![f] = 0]
    /\ UNCHANGED <<fmDir, fmArchive, fmCheck, fmPickle, fmPoll, fmProc, fmTool, fmDropped, fmRepeat>>

\* An exception that is no socket error ends the process, and the request with it.
FmDies(p) ==
    /\ fmProc[p].step \in {"post", "check"} /\ FmEvent
    /\ fmDropped' = fmDropped \cup {fmProc[p].f}
    /\ fmProc' = [fmProc EXCEPT ![p] = [FmIdle EXCEPT !.step = "dead"]]
    /\ UNCHANGED <<fmDir, fmArchive, fmCheck, fmPickle, fmPoll, fmTool, fmStored, fmRepeat>>

FmNext ==
    \/ start_tasks \/ FmStop \/ dump_pending_checks \/ restore_pending_archives \/ FmEnd \/ FmCrash \/ FmQueue
    \/ \E f \in FmFiles : fs_polling(f) \/ FmLoses(f)
    \/ \E p \in FmProcs :
          \/ \E f \in FmFiles : FmTake(p, f)
          \/ \E s \in FmServers :
                \/ FmNoServer(p, s) \/ FmAnswerLost(p, s) \/ FmArchived(p, s)
                \/ \E dir \in {"bad", "backlog", "archiving"} : FmNotArchived(p, s, dir)
          \/ process_archive_request(p) \/ FmToCheck(p) \/ process_check_request(p) \/ FmCheckLater(p) \/ FmDies(p)

FmSpec == FmInit /\ [][FmNext]_fmVars

-----------------------------------------------------------------------------
\* Every file under archiving/ is still to be archived, and every file under archived/ still to
\* be checked, also after a stop and a new start; unless a process died or was killed with it,
\* or had it in hand when the tool stopped.
NoFileStranded ==
    \A f \in FmFiles :
        /\ fmDir[f] = "archiving" => f \in fmArchive \cup FmInHand \cup fmDropped
        /\ fmDir[f] = "archived" =>
              f \in fmCheck \cup FmInHand \cup fmDropped \cup (IF fmTool \in {"off", "dumped", "ending"} THEN fmPickle ELSE {})

\* A file is archived more than once only when an answer was lost or its process ended; the loop over
\* the servers ends with the first answer.
ArchivedOnce == \A f \in FmFiles : fmStored[f] > 1 => f \in fmRepeat \cup fmDropped

=============================================================================
