----------------------------- MODULE Compression -----------------------------
(***************************************************************************)
(* The compression of archived MWA files: MITCompressionDaemon.py asks     *)
(* each host, with a thread per observation and host, to compress the      *)
(* files its local table lists, and records an observation when none of    *)
(* its files is left; ngamsCmd_MWACOMPRESS.py puts the compressed file in  *)
(* the place of the archived one with shell commands and updates its row,  *)
(* and undoes that when a step fails.                                      *)
(***************************************************************************)
EXTENDS Integers, FiniteSets

CONSTANTS
    CpFiles,   \* the files of mitfile
    CpObs,     \* CpObs[f]: obs_id
    CpHost,    \* CpHost[f]: host_id
    CpEvents,  \* bound on failures and crashes, together
    CpNone     \* no file

ASSUME CpConfig == CpNone \notin CpFiles /\ CpEvents \in Nat /\ DOMAIN CpObs = CpFiles /\ DOMAIN CpHost = CpFiles

CpObsIds == {CpObs[f] : f \in CpFiles}
CpThreads == {<<CpObs[f], CpHost[f]>> : f \in CpFiles}
CpCmds == {1, 2}

VARIABLES
    cpStatus,  \* cpStatus[f]: mitfile.status
    cpDone,    \* apps_obs_compression
    cpList,    \* allfiles: the rows this run has read and not yet handed over
    cpMain,    \* the step of the main thread, and the observation it is at
    cpThr,     \* cpThr[t]: the files left, the one asked for, and the answer
    cpCmd,     \* cpCmd[c]: the file, the step, and the thread that waits
    cpFile,    \* cpFile[f]: what the place of f holds
    cpAside,   \* cpAside[f]: what <f>_uncompressed holds
    cpTmp,     \* cpTmp[f]: /tmp/<f>
    cpRow,     \* cpRow[f]: what the checksum and the size in ngas_files are of
    cpCut,     \* ghost: files a command was killed at, or could not put back
    cpTwice,   \* ghost: files two commands worked at together
    cpUnread,  \* ghost: files whose header could not be read
    cpEvents

cpVars == <<cpStatus, cpDone, cpList, cpMain, cpThr, cpCmd, cpFile, cpAside, cpTmp, cpRow, cpCut, cpTwice, cpUnread,
            cpEvents>>
daemonVars == <<cpStatus, cpDone, cpList, cpMain>>
diskVars == <<cpFile, cpAside, cpTmp>>

CpIdle == [left |-> {}, cur |-> CpNone, answer |-> "none"]
CpFree == [f |-> CpNone, step |-> "free", waits |-> FALSE]

CpInit ==
    /\ cpStatus = [f \in CpFiles |-> -1] /\ cpDone = {} /\ cpList = {}
    /\ cpMain = [step |-> "off", obs |-> CpNone]
    /\ cpThr = [t \in CpThreads |-> CpIdle]
    /\ cpCmd = [c \in CpCmds |-> CpFree]
    /\ cpFile = [f \in CpFiles |-> "plain"] /\ cpRow = [f \in CpFiles |-> "plain"]
    /\ cpAside = [f \in CpFiles |-> "none"] /\ cpTmp = [f \in CpFiles |-> "none"]
    /\ cpCut = {} /\ cpTwice = {} /\ cpUnread = {} /\ cpEvents = 0

CpEvent == cpEvents < CpEvents /\ cpEvents' = cpEvents + 1

ThreadOf(f) == <<CpObs[f], CpHost[f]>>
ThreadRuns(t) == cpThr[t] # CpIdle

-----------------------------------------------------------------------------
(***************************************************************************)
(* The daemon.                                                             *)
(***************************************************************************)

\* The status the daemon writes: 0 for an answer, 1 for an HTTP error, 2 and 3 when the
\* connection fails or breaks.
StatusOfAnswer(a) == CASE a = "ok" -> 0 [] a = "error" -> 1 [] a = "refused" -> 2 [] a = "broken" -> 3

\* The main thread reads the new files, all at once.
doIt ==
    /\ cpMain.step = "off" /\ \A t \in CpThreads : ~ThreadRuns(t)
    /\ cpList' = {f \in CpFiles : cpStatus[f] = -1}
    /\ cpList' # {}
    /\ cpMain' = [step |-> "next", obs |-> CpNone]
    /\ UNCHANGED <<cpStatus, cpDone, cpThr, cpCmd, diskVars, cpRow, cpCut, cpTwice, cpEvents, cpUnread>>

\* compressObs starts a thread for each host of the observation.
compressObs(o) ==
    LET mine == {f \in cpList : CpObs[f] = o} IN
    /\ cpMain.step = "next" /\ mine # {}
    /\ cpThr' = [t \in CpThreads |-> IF t[1] = o /\ \E f \in mine : ThreadOf(f) = t
                                     THEN [CpIdle EXCEPT !.left = {f \in mine : ThreadOf(f) = t}]
                                     ELSE cpThr[t]]
    /\ cpList' = cpList \ mine
    /\ cpMain' = [step |-> "join", obs |-> o]
    /\ UNCHANGED <<cpStatus, cpDone, cpCmd, diskVars, cpRow, cpCut, cpTwice, cpEvents, cpUnread>>

\* A thread asks for its next file; the server takes the request, or refuses the connection.
_executeCompression(t, f) ==
    /\ f \in cpThr[t].left /\ cpThr[t].cur = CpNone
    /\ \/ \E c \in CpCmds :
            /\ cpCmd[c] = CpFree
            /\ cpThr' = [cpThr EXCEPT ![t] = [left |-> @.left \ {f}, cur |-> f, answer |-> "none"]]
            /\ cpCmd' = [cpCmd EXCEPT ![c] = [f |-> f, step |-> "exists", waits |-> TRUE]]
            /\ cpTwice' = IF \E d \in CpCmds : cpCmd[d].f = f THEN cpTwice \cup {f} ELSE cpTwice
            /\ UNCHANGED cpEvents
       \/ /\ CpEvent
          /\ cpThr' = [cpThr EXCEPT ![t] = [left |-> @.left \ {f}, cur |-> f, answer |-> "refused"]]
          /\ UNCHANGED <<cpCmd, cpTwice>>
    /\ UNCHANGED <<daemonVars, diskVars, cpRow, cpCut, cpUnread>>

\* The thread records the answer.  A statement that fails is only logged.  The last file ends it.
UpdateStatus(t) ==
    LET f == cpThr[t].cur IN
    /\ f # CpNone /\ cpThr[t].answer # "none"
    /\ \/ cpStatus' = [cpStatus EXCEPT ![f] = StatusOfAnswer(cpThr[t].answer)] /\ UNCHANGED cpEvents
       \/ CpEvent /\ UNCHANGED cpStatus
    /\ cpThr' = [cpThr EXCEPT ![t] = [CpIdle EXCEPT !.left = cpThr[t].left]]
    /\ UNCHANGED <<cpDone, cpList, cpMain, cpCmd, diskVars, cpRow, cpCut, cpTwice, cpUnread>>

\* The threads are joined for a limited time each.
JoinThreads ==
    /\ cpMain.step = "join"
    /\ \/ (\A t \in CpThreads : t[1] = cpMain.obs => ~ThreadRuns(t)) /\ UNCHANGED cpEvents
       \/ (\E t \in CpThreads : t[1] = cpMain.obs /\ ThreadRuns(t)) /\ CpEvent
    /\ cpMain' = [cpMain EXCEPT !.step = "count"]
    /\ UNCHANGED <<cpStatus, cpDone, cpList, cpThr, cpCmd, diskVars, cpRow, cpCut, cpTwice, cpUnread>>

\* Mutant: files no thread has reported on are not counted.
LeftOfFailed(o) == {f \in CpFiles : CpObs[f] = o /\ cpStatus[f] > 0}

\* The files of an observation that are not yet compressed, for all the local table knows.
LeftOf(o) == {f \in CpFiles : CpObs[f] = o /\ cpStatus[f] # 0}

\* The observation is recorded if none is left.  An INSERT that fails is only logged.
RecordObs ==
    /\ cpMain.step = "count"
    /\ \/ cpDone' = (IF LeftOf(cpMain.obs) = {} THEN cpDone \cup {cpMain.obs} ELSE cpDone) /\ UNCHANGED cpEvents
       \/ LeftOf(cpMain.obs) = {} /\ CpEvent /\ UNCHANGED cpDone
    /\ cpMain' = [step |-> IF cpList = {} THEN "off" ELSE "next", obs |-> CpNone]
    /\ UNCHANGED <<cpStatus, cpList, cpThr, cpCmd, diskVars, cpRow, cpCut, cpTwice, cpUnread>>

\* The daemon is killed; the servers go on with what they have begun.
DaemonCrash ==
    /\ cpMain.step # "off" /\ CpEvent
    /\ cpMain' = [step |-> "off", obs |-> CpNone] /\ cpList' = {}
    /\ cpThr' = [t \in CpThreads |-> CpIdle]
    /\ cpCmd' = [c \in CpCmds |-> [cpCmd[c] EXCEPT !.waits = FALSE]]
    /\ UNCHANGED <<cpStatus, cpDone, diskVars, cpRow, cpCut, cpTwice, cpUnread>>

-----------------------------------------------------------------------------
(***************************************************************************)
(* MWACOMPRESS.                                                            *)
(***************************************************************************)

CmdAt(c, s) == cpCmd[c].step = s

\* The answer reaches the thread that waits for it, if there still is one.
CmdAnswered(c, a) ==
    IF cpCmd[c].waits THEN [cpThr EXCEPT ![ThreadOf(cpCmd[c].f)].answer = a] ELSE cpThr

Answers(c, a) == cpThr' = CmdAnswered(c, a) /\ cpCmd' = [cpCmd EXCEPT ![c] = CpFree]
GoesOn(c, s) == cpCmd' = [cpCmd EXCEPT ![c].step = s] /\ UNCHANGED cpThr

\* The answer is sent first, the clean-up follows.
AnswersThen(c, s) == cpThr' = CmdAnswered(c, "error") /\ cpCmd' = [cpCmd EXCEPT ![c] = [@ EXCEPT !.step = s, !.waits = FALSE]]

CheckExists(c) ==
    /\ CmdAt(c, "exists")
    /\ IF cpFile[cpCmd[c].f] = "none" THEN Answers(c, "error") ELSE GoesOn(c, "head")
    /\ UNCHANGED <<daemonVars, diskVars, cpRow, cpCut, cpTwice, cpEvents, cpUnread>>

\* hasCompressed also answers yes when head fails or times out: then nothing is done and
\* the answer is OK.
hasCompressed(c) ==
    LET f == cpCmd[c].f IN
    /\ CmdAt(c, "head")
    /\ \/ cpFile[f] = "plain" /\ GoesOn(c, "compress") /\ UNCHANGED <<cpUnread, cpEvents>>
       \/ cpFile[f] # "plain" /\ Answers(c, "ok") /\ UNCHANGED <<cpUnread, cpEvents>>
       \/ cpFile[f] = "plain" /\ CpEvent /\ Answers(c, "ok") /\ cpUnread' = cpUnread \cup {f}
    /\ UNCHANGED <<daemonVars, diskVars, cpRow, cpCut, cpTwice>>

uvcompress(c) ==
    LET f == cpCmd[c].f IN
    /\ CmdAt(c, "compress")
    /\ \/ cpFile[f] # "none" /\ cpTmp' = [cpTmp EXCEPT ![f] = "comp"] /\ GoesOn(c, "crc") /\ UNCHANGED cpEvents
       \/ cpFile[f] = "none" /\ Answers(c, "error") /\ UNCHANGED <<cpTmp, cpEvents>>
       \/ cpFile[f] # "none" /\ CpEvent /\ Answers(c, "error") /\ UNCHANGED cpTmp
    /\ UNCHANGED <<daemonVars, cpFile, cpAside, cpRow, cpCut, cpTwice, cpUnread>>

getFileCRC(c) ==
    /\ CmdAt(c, "crc")
    /\ IF cpTmp[cpCmd[c].f] = "none" THEN Answers(c, "error") ELSE GoesOn(c, "aside")
    /\ UNCHANGED <<daemonVars, diskVars, cpRow, cpCut, cpTwice, cpEvents, cpUnread>>

\* mv <file> <file>_uncompressed
SetAside(c) ==
    LET f == cpCmd[c].f IN
    /\ CmdAt(c, "aside")
    /\ \/ /\ cpFile[f] # "none" /\ GoesOn(c, "place")
          /\ cpAside' = [cpAside EXCEPT ![f] = cpFile[f]] /\ cpFile' = [cpFile EXCEPT ![f] = "none"]
          /\ UNCHANGED <<cpTmp, cpEvents>>
       \/ /\ IF cpFile[f] = "none" THEN UNCHANGED cpEvents ELSE CpEvent
          /\ Answers(c, "error") /\ cpTmp' = [cpTmp EXCEPT ![f] = "none"]
          /\ UNCHANGED <<cpFile, cpAside>>
    /\ UNCHANGED <<daemonVars, cpRow, cpCut, cpTwice, cpUnread>>

\* Mutant: what was set aside is removed as soon as the new file should be in place.
PlaceRemoves(c) ==
    LET f == cpCmd[c].f IN
    /\ CmdAt(c, "place")
    /\ \/ /\ cpTmp[f] # "none" /\ GoesOn(c, "update")
          /\ cpFile' = [cpFile EXCEPT ![f] = cpTmp[f]] /\ UNCHANGED cpEvents
       \/ /\ IF cpTmp[f] = "none" THEN UNCHANGED cpEvents ELSE CpEvent
          /\ AnswersThen(c, "back") /\ UNCHANGED cpFile
    /\ cpTmp' = [cpTmp EXCEPT ![f] = "none"] /\ cpAside' = [cpAside EXCEPT ![f] = "none"]
    /\ UNCHANGED <<daemonVars, cpRow, cpCut, cpTwice, cpUnread>>

\* mv /tmp/<file> <file>
Place(c) ==
    LET f == cpCmd[c].f IN
    /\ CmdAt(c, "place")
    /\ \/ /\ cpTmp[f] # "none" /\ GoesOn(c, "update")
          /\ cpFile' = [cpFile EXCEPT ![f] = cpTmp[f]] /\ UNCHANGED cpEvents
       \/ /\ IF cpTmp[f] = "none" THEN UNCHANGED cpEvents ELSE CpEvent
          /\ AnswersThen(c, "back") /\ UNCHANGED cpFile
    /\ cpTmp' = [cpTmp EXCEPT ![f] = "none"]
    /\ UNCHANGED <<daemonVars, cpAside, cpRow, cpCut, cpTwice, cpUnread>>

\* The size of the new file and its checksum are written.
UpdateRow(c) ==
    LET f == cpCmd[c].f IN
    /\ CmdAt(c, "update")
    /\ \/ cpFile[f] # "none" /\ cpRow' = [cpRow EXCEPT ![f] = "comp"] /\ GoesOn(c, "clean") /\ UNCHANGED cpEvents
       \/ cpFile[f] = "none" /\ Answers(c, "error") /\ UNCHANGED <<cpRow, cpEvents>>
       \/ cpFile[f] # "none" /\ CpEvent /\ AnswersThen(c, "undo") /\ UNCHANGED cpRow
    /\ UNCHANGED <<daemonVars, diskVars, cpCut, cpTwice, cpUnread>>

\* Mutant: the old row is left alone after a failure, and so is the new file.
UndoNot(c) ==
    /\ CmdAt(c, "undo")
    /\ cpCmd' = [cpCmd EXCEPT ![c] = CpFree]
    /\ UNCHANGED <<daemonVars, diskVars, cpThr, cpRow, cpCut, cpTwice, cpEvents, cpUnread>>

\* The statement has failed: rm <file>.
Undo(c) ==
    /\ CmdAt(c, "undo") /\ GoesOn(c, "back")
    /\ cpFile' = [cpFile EXCEPT ![cpCmd[c].f] = "none"]
    /\ UNCHANGED <<daemonVars, cpAside, cpTmp, cpRow, cpCut, cpTwice, cpEvents, cpUnread>>

\* mv <file>_uncompressed <file>; a failure is only logged.
MoveBack(c) ==
    LET f == cpCmd[c].f IN
    /\ CmdAt(c, "back")
    /\ cpCmd' = [cpCmd EXCEPT ![c] = CpFree]
    /\ \/ /\ cpAside[f] # "none" /\ UNCHANGED <<cpCut, cpEvents>>
          /\ cpFile' = [cpFile EXCEPT ![f] = cpAside[f]] /\ cpAside' = [cpAside EXCEPT ![f] = "none"]
       \/ /\ IF cpAside[f] = "none" THEN UNCHANGED cpEvents ELSE CpEvent
          /\ cpCut' = cpCut \cup {f} /\ UNCHANGED <<cpFile, cpAside>>
    /\ UNCHANGED <<daemonVars, cpThr, cpTmp, cpRow, cpTwice, cpUnread>>

\* rm <file>_uncompressed; a failure does not change the answer.
RemoveAside(c) ==
    LET f == cpCmd[c].f IN
    /\ CmdAt(c, "clean") /\ Answers(c, "ok")
    /\ \/ cpAside' = [cpAside EXCEPT ![f] = "none"] /\ UNCHANGED cpEvents
       \/ cpAside[f] # "none" /\ CpEvent /\ UNCHANGED cpAside
    /\ UNCHANGED <<daemonVars, cpFile, cpTmp, cpRow, cpCut, cpTwice, cpUnread>>

\* The server that works at c dies, with all its commands, and is started again.
HostCrash(c) ==
    LET hit == {d \in CpCmds : cpCmd[d] # CpFree /\ CpHost[cpCmd[d].f] = CpHost[cpCmd[c].f]} IN
    /\ cpCmd[c] # CpFree /\ CpEvent
    /\ cpCmd' = [d \in CpCmds |-> IF d \in hit THEN CpFree ELSE cpCmd[d]]
    /\ cpThr' = [t \in CpThreads |-> IF \E d \in hit : cpCmd[d].waits /\ cpThr[t].cur = cpCmd[d].f
                                     THEN [cpThr[t] EXCEPT !.answer = "broken"] ELSE cpThr[t]]
    /\ cpCut' = cpCut \cup {cpCmd[d].f : d \in hit}
    /\ UNCHANGED <<daemonVars, diskVars, cpRow, cpTwice, cpUnread>>

CpCommand(c) ==
    \/ CheckExists(c) \/ hasCompressed(c) \/ uvcompress(c) \/ getFileCRC(c) \/ SetAside(c) \/ Place(c)
    \/ UpdateRow(c) \/ Undo(c) \/ MoveBack(c) \/ RemoveAside(c) \/ HostCrash(c)

CpNext ==
    \/ doIt \/ JoinThreads \/ RecordObs \/ DaemonCrash
    \/ \E o \in CpObsIds : compressObs(o)
    \/ \E t \in CpThreads : UpdateStatus(t) \/ \E f \in CpFiles : _executeCompression(t, f)
    \/ \E c \in CpCmds : CpCommand(c)

CpSpec == CpInit /\ [][CpNext]_cpVars

-----------------------------------------------------------------------------
(***************************************************************************)
(* Properties.  Two commands meet at one file when the daemon is killed    *)
(* and started again while a server still compresses; then, and when a     *)
(* server dies half-way, nothing below is promised.                        *)
(***************************************************************************)

Unhurt(f) == f \notin cpCut \cup cpTwice
AtRest(f) == \A c \in CpCmds : cpCmd[c].f # f

\* An observation recorded as compressed has no file that is not, even if a thread was given
\* up, an answer was lost, or the table could not be written; but a file whose header could
\* not be read counts as compressed (hasCompressed).
RecordedCompressed ==
    \A f \in CpFiles : CpObs[f] \in cpDone /\ Unhurt(f) =>
        cpFile[f] = cpRow[f] /\ (cpFile[f] = "comp" \/ f \in cpUnread)

\* When no command works at a file, its row has the checksum of what is stored, whichever
\* step failed.
RowOfFile == \A f \in CpFiles : AtRest(f) /\ Unhurt(f) => cpFile[f] = cpRow[f]

\* At every moment the data of a file are in its place or set aside, even if a server dies.
DataKept == \A f \in CpFiles : f \notin cpTwice => cpFile[f] # "none" \/ cpAside[f] # "none"

=============================================================================
