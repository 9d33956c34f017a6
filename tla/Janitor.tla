------------------------------- MODULE Janitor -------------------------------
(***************************************************************************)
(* The Janitor process and its conversation with the server process: it    *)
(* sends a question into one queue and takes the next answer from another, *)
(* waiting for a limited time.  Its plug-ins clean the request DB, the     *)
(* temporary directories and the rotated log files.                        *)
(***************************************************************************)
EXTENDS Integers, Sequences, FiniteSets

CONSTANTS
    JReqs,      \* Request IDs
    JLogs,      \* rotated log files, numbered in the order of their names
    JKeep,      \* LogRotateCache
    JTimeouts,  \* bound on the waits that end without an answer
    JCycles     \* bound on the cycles

ASSUME JConfig == JLogs \subseteq Nat /\ JKeep \in Nat /\ JTimeouts \in Nat /\ JCycles \in Nat

VARIABLES
    work,     \* what the server works on: requests, logs or files.  The three do not meet.
    backend,  \* the request DB: memory or bsddb
    req,      \* the requests: not yet made, fresh, expired (24 hours without change), gone
    toSrv, toJan, \* _jan_to_serv_queue, _serv_to_jan_queue
    served,   \* the Janitor queue thread of the server is alive
    jan,      \* the Janitor: pc, the Request IDs left, the ones to delete, the plug-in it is in
    judged,   \* requests that were expired when the Janitor looked at them, in this cycle
    start,    \* requests that were expired when the cycle began and have not changed since
    slow,     \* waits that ended without an answer
    events,   \* a DB change event is pending in the server
    logf,     \* the log files
    stored,   \* log files archived
    dropped,  \* log files whose archiving was refused by an answer, or cut short by a kill
    tmpf,     \* a file of a temporary directory and one of a directory in it
    caught,   \* the second one was written into a directory that was about to be removed
    cycles

jVars == <<work, backend, req, toSrv, toJan, served, jan, judged, start, slow, events, logf, stored, dropped, tmpf, caught, cycles>>
jReqVars == <<work, backend, req, toSrv, toJan, served, judged, start, slow, events>>
jFileVars == <<logf, stored, dropped, tmpf, caught>>

Off == [pc |-> "off", ids |-> {}, del |-> {}, ask |-> 0]

JInit ==
    /\ work \in {"requests", "logs", "files"} /\ backend \in {"memory", "bsddb"} /\ req = [r \in JReqs |-> "none"] /\ toSrv = <<>> /\ toJan = <<>> /\ served = TRUE
    /\ jan = [Off EXCEPT !.pc = "cycle"] /\ judged = {} /\ start = {} /\ slow = 0 /\ events = FALSE
    /\ logf = [l \in JLogs |-> "none"] /\ stored = {} /\ dropped = {} /\ cycles = 0
    /\ tmpf = [file |-> "used", inner |-> "none", dir |-> "fresh"] /\ caught = FALSE

-----------------------------------------------------------------------------
(***************************************************************************)
(* The server: requests, and the thread that answers the Janitor.          *)
(***************************************************************************)

InDb == {r \in JReqs : req[r] \in {"fresh", "expired"}}

addRequestToDb(r) ==
    /\ req[r] = "none" /\ req' = [req EXCEPT ![r] = "fresh"]
    /\ UNCHANGED <<work, backend, toSrv, toJan, served, jan, judged, start, slow, events, jFileVars, cycles>>

\* updateRequestDb: a request that was removed comes back only with the bsddb backend.
updateRequestDb(r) ==
    /\ req[r] = "expired" \/ (req[r] = "gone" /\ backend = "bsddb")
    /\ req' = [req EXCEPT ![r] = "fresh"] /\ start' = start \ {r}
    /\ UNCHANGED <<work, backend, toSrv, toJan, served, jan, judged, slow, events, jFileVars, cycles>>

\* 24 hours pass without a change of the request
Expire(r) ==
    /\ req[r] = "fresh" /\ req' = [req EXCEPT ![r] = "expired"]
    /\ UNCHANGED <<work, backend, toSrv, toJan, served, jan, judged, start, slow, events, jFileVars, cycles>>

triggerEvents ==
    /\ ~events /\ events' = TRUE
    /\ UNCHANGED <<work, backend, req, toSrv, toJan, served, jan, judged, start, slow, jFileVars, cycles>>

JReply(r) == toJan' = Append(toJan, r)

\* Mutant: the requests that are to stay are removed.
DeleteOthers(ids) == req' = [r \in JReqs |-> IF r \in InDb \ ids THEN "gone" ELSE req[r]]

\* delete of the request DB
delete(ids) == req' = [r \in JReqs |-> IF r \in InDb \cap ids THEN "gone" ELSE req[r]]

\* One question of the queue.  What is not a Request ID ends the thread.
janitorQueThread ==
    /\ served /\ toSrv # <<>> /\ toSrv' = Tail(toSrv)
    /\ LET q == Head(toSrv) IN
       \/ q.name = "get-request-ids" /\ JReply([kind |-> "ids", val |-> InDb]) /\ UNCHANGED <<req, events, served>>
       \/ /\ q.name = "get-request" /\ UNCHANGED <<req, events>>
          /\ IF q.item \in JReqs
             THEN /\ JReply(IF q.item \in InDb THEN [kind |-> "req", val |-> {r \in {q.item} : req[r] = "expired"}] ELSE [kind |-> "none", val |-> {}])
                  /\ UNCHANGED served
             ELSE served' = FALSE /\ UNCHANGED toJan
       \/ q.name = "delete-requests" /\ delete(q.item) /\ JReply([kind |-> "none", val |-> {}]) /\ UNCHANGED <<events, served>>
       \/ /\ q.name = "event-info-list" /\ events' = FALSE /\ UNCHANGED <<req, served>>
          /\ JReply([kind |-> IF events THEN "events" ELSE "none", val |-> {0}])
    /\ start' = start \cap {r \in JReqs : req'[r] = "expired"}
    /\ UNCHANGED <<work, backend, jan, judged, slow, jFileVars, cycles>>

-----------------------------------------------------------------------------
(***************************************************************************)
(* janitor_communicate.                                                    *)
(***************************************************************************)

\* The question is sent, and the Janitor waits.
Ask(name, item, pc) == toSrv' = Append(toSrv, [name |-> name, item |-> item]) /\ jan' = [jan EXCEPT !.pc = pc]

\* The answer is the next one of the queue, whatever it answers.
Answered == toJan # <<>> /\ toJan' = Tail(toJan)
Answer == Head(toJan)

\* Queue.Empty: the question remains in its queue, and so will the answer.
TimesOut == toJan = <<>> /\ slow < JTimeouts /\ slow' = slow + 1

-----------------------------------------------------------------------------
(***************************************************************************)
(* The cycle of the plug-ins, in their order.                              *)
(***************************************************************************)

JanitorCycle ==
    /\ jan.pc = "cycle" /\ cycles < JCycles /\ cycles' = cycles + 1
    /\ start' = {r \in JReqs : req[r] = "expired"} /\ judged' = {}
    /\ Ask("get-request-ids", 0, "ids")
    /\ UNCHANGED <<work, backend, req, toJan, served, slow, events, jFileVars>>

\* An exception ends the plug-in; the next one runs.
NextPlugIn == jan' = [Off EXCEPT !.pc = "clean"]

\* old_requests_cleaner
ReceiveIds ==
    /\ jan.pc = "ids"
    /\ \/ /\ Answered /\ UNCHANGED slow
          /\ IF Answer.kind \in {"ids", "events"} THEN jan' = [jan EXCEPT !.pc = "next", !.ids = Answer.val] ELSE NextPlugIn
       \/ TimesOut /\ NextPlugIn /\ UNCHANGED toJan
    /\ UNCHANGED <<work, backend, req, toSrv, served, judged, start, events, jFileVars, cycles>>

AskRequest ==
    /\ jan.pc = "next"
    /\ \/ \E r \in jan.ids :
            /\ toSrv' = Append(toSrv, [name |-> "get-request", item |-> r])
            /\ jan' = [jan EXCEPT !.pc = "req", !.ids = @ \ {r}, !.ask = r]
       \/ jan.ids = {} /\ jan.del # {} /\ Ask("delete-requests", jan.del, "del")
       \/ jan.ids = {} /\ jan.del = {} /\ NextPlugIn /\ UNCHANGED toSrv
    /\ UNCHANGED <<work, backend, req, toJan, served, judged, start, slow, events, jFileVars, cycles>>

\* timed_out: no change for 24 hours
\* Mutant: the comparison is the wrong way round.
TimedOutYoung(r) == r.val = {}
timed_out(r) == r.val # {}

ReceiveRequest ==
    /\ jan.pc = "req"
    /\ \/ /\ Answered /\ UNCHANGED slow
          /\ judged' = IF Answer.kind = "req" THEN judged \cup Answer.val ELSE judged
          /\ IF Answer.kind # "req" THEN NextPlugIn
             ELSE jan' = [jan EXCEPT !.pc = "next", !.del = IF timed_out(Answer) THEN @ \cup {jan.ask} ELSE @]
       \/ TimesOut /\ NextPlugIn /\ UNCHANGED <<toJan, judged>>
    /\ UNCHANGED <<work, backend, req, toSrv, served, start, events, jFileVars, cycles>>

ReceiveDeleted ==
    /\ jan.pc = "del" /\ NextPlugIn
    /\ \/ Answered /\ UNCHANGED slow
       \/ TimesOut /\ UNCHANGED toJan
    /\ UNCHANGED <<work, backend, req, toSrv, served, judged, start, events, jFileVars, cycles>>

\* expired_data_cleaner: a file that was not used for long is removed; a directory is when
\* it was old before its entries were looked at and is empty after that, with what it
\* holds by then.
\* Mutant: files are removed however old they are.
RemovesFileAnyAge(f) == f \in {"used", "stale"}
RemovesFile(f) == f = "stale"

checkCleanDirs ==
    /\ jan.pc = "clean" /\ jan' = [jan EXCEPT !.pc = IF tmpf.dir = "old" THEN "dir" ELSE "logs"]
    /\ tmpf' = [tmpf EXCEPT !.file = IF RemovesFile(@) THEN "removed" ELSE @,
                            !.inner = IF RemovesFile(@) /\ tmpf.dir # "gone" THEN "removed" ELSE @]
    /\ UNCHANGED <<jReqVars, logf, stored, dropped, caught, cycles>>

CheckEmptyDir ==
    /\ jan.pc = "dir" /\ jan' = [jan EXCEPT !.pc = IF tmpf.inner \in {"used", "stale"} THEN "logs" ELSE "rmdir"]
    /\ UNCHANGED <<jReqVars, jFileVars, cycles>>

RemoveDir ==
    /\ jan.pc = "rmdir" /\ jan' = [jan EXCEPT !.pc = "logs"]
    /\ caught' = (caught \/ tmpf.inner = "used")
    /\ tmpf' = [tmpf EXCEPT !.dir = "gone", !.inner = IF @ \in {"used", "stale"} THEN "removed" ELSE @]
    /\ UNCHANGED <<jReqVars, logf, stored, dropped, cycles>>

\* rotated_logfiles_handler
Unsaved == {l \in JLogs : logf[l] = "unsaved"}
First(S) == CHOOSE x \in S : \A y \in S : x <= y
InDir == {l \in JLogs : logf[l] \in {"moved", "saved"}}

\* logfiles[max_rotations:]: the names are sorted, and what follows the first ones goes
Surplus == {l \in InDir : Cardinality({k \in InDir : k < l}) >= JKeep}

MoveLog ==
    /\ jan.pc = "logs" /\ Unsaved \ jan.ids # {}
    /\ LET l == First(Unsaved \ jan.ids) IN
       /\ logf' = [logf EXCEPT ![l] = "moved"] /\ jan' = [jan EXCEPT !.pc = "archive", !.ask = l, !.ids = @ \cup {l}]
    /\ UNCHANGED <<jReqVars, stored, dropped, tmpf, caught, cycles>>

\* try_archiving: the file is stored; the answer is a failure, which is not looked at; the
\* connection is refused, and the next file tried; another error, possibly after the file
\* was stored, ends the plug-in.
try_archiving ==
    /\ jan.pc = "archive"
    /\ LET l == jan.ask IN
       \/ logf' = [logf EXCEPT ![l] = "saved"] /\ stored' = stored \cup {l} /\ jan' = [jan EXCEPT !.pc = "logs"] /\ UNCHANGED dropped
       \/ logf' = [logf EXCEPT ![l] = "saved"] /\ dropped' = dropped \cup {l} /\ jan' = [jan EXCEPT !.pc = "logs"] /\ UNCHANGED stored
       \/ logf' = [logf EXCEPT ![l] = "unsaved"] /\ jan' = [jan EXCEPT !.pc = "logs"] /\ UNCHANGED <<stored, dropped>>
       \/ /\ logf' = [logf EXCEPT ![l] = "unsaved"] /\ stored' \in {stored, stored \cup {l}}
          /\ jan' = [Off EXCEPT !.pc = "idle"] /\ UNCHANGED dropped
    /\ UNCHANGED <<jReqVars, tmpf, caught, cycles>>

\* Mutant: the files that are yet to be archived count.
SurplusUnsaved ==
    /\ jan.pc = "logs" /\ Unsaved \ jan.ids = {} /\ jan' = [Off EXCEPT !.pc = "idle"]
    /\ LET all == InDir \cup Unsaved
       IN logf' = [l \in JLogs |-> IF l \in all /\ Cardinality({k \in all : k < l}) >= JKeep THEN "removed" ELSE logf[l]]
    /\ UNCHANGED <<jReqVars, stored, dropped, tmpf, caught, cycles>>

RemoveLogs ==
    /\ jan.pc = "logs" /\ Unsaved \ jan.ids = {} /\ jan' = [Off EXCEPT !.pc = "idle"]
    /\ logf' = [l \in JLogs |-> IF l \in Surplus THEN "removed" ELSE logf[l]]
    /\ UNCHANGED <<jReqVars, stored, dropped, tmpf, caught, cycles>>

\* Between two cycles the pending DB change events are asked for.
AskEvents ==
    /\ jan.pc = "idle" /\ Len(toSrv) + Len(toJan) < 2 /\ Ask("event-info-list", 0, "ev")
    /\ UNCHANGED <<work, backend, req, toJan, served, judged, start, slow, events, jFileVars, cycles>>

ReceiveEvents ==
    /\ jan.pc = "ev" /\ jan' = [jan EXCEPT !.pc = "idle"]
    /\ \/ Answered /\ UNCHANGED slow
       \/ TimesOut /\ UNCHANGED toJan
    /\ UNCHANGED <<work, backend, req, toSrv, served, judged, start, events, jFileVars, cycles>>

EndIdle ==
    /\ jan.pc = "idle" /\ jan' = [Off EXCEPT !.pc = "cycle"]
    /\ UNCHANGED <<jReqVars, jFileVars, cycles>>

\* The process does not end in time and is killed, or it is with the server; the next
\* start makes new queues.
KillJanitor ==
    /\ jan.pc # "off" /\ jan' = Off
    /\ dropped' = IF jan.pc = "archive" THEN dropped \cup {jan.ask} ELSE dropped
    /\ UNCHANGED <<jReqVars, logf, stored, tmpf, caught, cycles>>

\* Mutant: the queues of the last process are used again.
StartKeepsQueues ==
    /\ jan.pc = "off" /\ jan' = [Off EXCEPT !.pc = "cycle"] /\ served' = TRUE /\ start' = {}
    /\ UNCHANGED <<work, backend, req, toSrv, toJan, judged, slow, events, jFileVars, cycles>>

startJanitorThread ==
    /\ jan.pc = "off" /\ jan' = [Off EXCEPT !.pc = "cycle"] /\ toSrv' = <<>> /\ toJan' = <<>> /\ served' = TRUE /\ start' = {}
    /\ UNCHANGED <<work, backend, req, judged, slow, events, jFileVars, cycles>>

-----------------------------------------------------------------------------
(***************************************************************************)
(* The other users of the files.                                           *)
(***************************************************************************)

\* The log file is rotated, under a name that follows the earlier ones.
_rollover(l) ==
    /\ logf[l] = "none" /\ (\A k \in JLogs : k < l => logf[k] # "none") /\ logf' = [logf EXCEPT ![l] = "unsaved"]
    /\ UNCHANGED <<jReqVars, jan, stored, dropped, tmpf, caught, cycles>>

TempFile ==
    /\ \/ tmpf.inner = "none" /\ tmpf.dir # "gone" /\ tmpf' = [tmpf EXCEPT !.inner = "used"]
       \/ tmpf.dir = "fresh" /\ tmpf' = [tmpf EXCEPT !.dir = "old"]
       \/ tmpf.file = "used" /\ tmpf' = [tmpf EXCEPT !.file = "stale"]
       \/ tmpf.inner = "used" /\ tmpf' = [tmpf EXCEPT !.inner = "stale"]
    /\ UNCHANGED <<jReqVars, jan, logf, stored, dropped, caught, cycles>>

JNext ==
    \/ work = "requests" /\ \E r \in JReqs : addRequestToDb(r) \/ updateRequestDb(r) \/ Expire(r)
    \/ work = "requests" /\ triggerEvents
    \/ janitorQueThread
    \/ JanitorCycle \/ ReceiveIds \/ AskRequest \/ ReceiveRequest \/ ReceiveDeleted
    \/ checkCleanDirs \/ CheckEmptyDir \/ RemoveDir
    \/ MoveLog \/ try_archiving \/ RemoveLogs \/ AskEvents \/ ReceiveEvents \/ EndIdle
    \/ KillJanitor \/ startJanitorThread
    \/ work = "logs" /\ \E l \in JLogs : _rollover(l)
    \/ work = "files" /\ TempFile

JSpec == JInit /\ [][JNext]_jVars

-----------------------------------------------------------------------------
(***************************************************************************)
(* Properties.                                                             *)
(***************************************************************************)

\* old_requests_cleaner removes only requests that had expired when it looked at them: each
\* answer is taken for the question it answers.  Once a wait has ended without an answer
\* this is lost for good, as every later answer is taken for the question after it.
OnlyOldRequestsDeleted == slow = 0 /\ jan.pc = "del" => jan.del \subseteq judged

\* And it removes all of them: a request that had expired before the cycle and has not
\* changed since is gone when the plug-in ends, unless a wait ended without an answer.
OldRequestsDeleted == slow = 0 /\ jan.pc = "clean" => start = {}

\* A rotated log file that is removed was archived, unless the answer to its archiving was
\* a failure or the Janitor was killed between renaming and archiving it.
LogsArchived == \A l \in JLogs : logf[l] = "removed" => l \in stored \cup dropped

\* A temporary file is removed only if it was not used for long, unless it was written
\* into an old directory between the look at it and its removal.
TempFileKept == [][/\ tmpf'.file = "removed" => tmpf.file \in {"stale", "removed"}
                   /\ tmpf'.inner = "removed" => tmpf.inner \in {"stale", "removed"} \/ caught']_jVars

\* Without a wait that ended early the queue thread never meets a question it cannot
\* answer, and at most one question or answer is under way.
ServedWhileInStep == slow = 0 => served /\ Len(toSrv) + Len(toJan) <= 1

\* The Janitor deletes what is old and only that: requests, archived log files; and it gets
\* the answers to its own questions, as long as no wait ended early.
JanitorCareful ==
    /\ OnlyOldRequestsDeleted /\ OldRequestsDeleted /\ LogsArchived /\ ServedWhileInStep

=============================================================================
