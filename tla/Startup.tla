------------------------------ MODULE Startup -------------------------------
(***************************************************************************)
(* The life of server processes of one host and port: the start-up of      *)
(* ngamsServer.handleStartUp with its PID file, the shutdown thread, and   *)
(* ngamsDaemon, which starts and stops servers behind a lock file.  What a *)
(* server does between is modelled in NgamsServer; here an instance only   *)
(* brings the host Online, serves, and takes the host down.                *)
(***************************************************************************)
EXTENDS Integers, FiniteSets

CONSTANTS
    StProcs,   \* process ids, each used once
    StCtls,    \* ngamsDaemon command processes
    StCmds,    \* bound on ngamsDaemon commands
    StEvents,  \* bound on signals, kills and failures, together
    StNone     \* no process

ASSUME StConfig == StNone \notin StProcs /\ StCmds \in Nat /\ StEvents \in Nat

\* Who runs _terminate: the thread of the signal handler, the one of init's handler.
Shutters == {"signal", "failure"}

VARIABLES
    stMain,   \* stMain[p]: step of the main thread
    stShut,   \* stShut[p][s]: step of a Shutdown thread
    stSelf,   \* stSelf[p]: daemon, force_start, _pid_file_created, Online
    stPid,    \* the process the PID file of the server names
    stLock,   \* the process the lock file of ngamsDaemon names
    stPort,   \* the process that listens to the port
    stRow,    \* the State in ngas_hosts
    stMounted,\* the disks are mounted according to ngas_disks
    stCtl,    \* stCtl[c]: a command of ngamsDaemon
    stOdd,    \* ghost: what the checks below allow for
    stCmds, stEvents

stVars == <<stMain, stShut, stSelf, stPid, stLock, stPort, stRow, stMounted, stCtl, stOdd, stCmds, stEvents>>

stHost == <<stRow, stMounted>>

StIdle == [step |-> "idle", cmd |-> "none", force |-> FALSE, pid |-> StNone, res |-> 0]

StInit ==
    /\ stMain = [p \in StProcs |-> "none"]
    /\ stShut = [p \in StProcs |-> [s \in Shutters |-> "none"]]
    /\ stSelf = [p \in StProcs |-> [daemon |-> FALSE, force |-> FALSE, mine |-> FALSE, online |-> FALSE]]
    /\ stPid = StNone /\ stLock = StNone /\ stPort = StNone
    /\ stRow = "NOT-RUN" /\ stMounted = FALSE
    /\ stCtl = [c \in StCtls |-> StIdle]
    /\ stOdd = [two |-> FALSE, refused |-> FALSE, early |-> {}, killed |-> {}, stuck |-> {}]
    /\ stCmds = 0 /\ stEvents = 0

StEvent == stEvents < StEvents /\ stEvents' = stEvents + 1

\* Threads that are not daemons keep the process.
Dead(p) ==
    /\ stMain[p] \in {"none", "ended"}
    /\ \A s \in Shutters : stShut[p][s] \in {"none", "ended"}

-----------------------------------------------------------------------------
(***************************************************************************)
(* Start-up.                                                               *)
(***************************************************************************)
StartAs(p, daemon, force) ==
    /\ stMain[p] = "none"
    /\ p = CHOOSE q \in StProcs : stMain[q] = "none"
    /\ stMain' = [stMain EXCEPT ![p] = "check"]
    /\ stSelf' = [stSelf EXCEPT ![p] = [daemon |-> daemon, force |-> force, mine |-> FALSE, online |-> FALSE]]
    /\ stOdd' = [stOdd EXCEPT !.two = @ \/ force]

\* _parse_and_run: ngamsServer from the command line.
StRun(p) ==
    /\ stCmds < StCmds /\ stCmds' = stCmds + 1
    /\ \E force \in BOOLEAN : StartAs(p, FALSE, force)
    /\ UNCHANGED <<stShut, stPid, stLock, stPort, stHost, stCtl, stEvents>>

\* Mutant: a failed start-up is left to the interpreter.
FailedOnly(p) == UNCHANGED stShut

\* init, when handleStartUp raises: terminate, and the exception ends the main thread.
terminate(p) == stShut' = [stShut EXCEPT ![p]["failure"] = "stop"]

\* The main thread leaves DaemonContext, which releases the lock file if it is its own.
Leave(p) == stLock' = IF stSelf[p].daemon /\ stLock = p THEN StNone ELSE stLock

StFail(p) ==
    /\ stMain' = [stMain EXCEPT ![p] = "ended"]
    /\ terminate(p)
    /\ Leave(p)

\* loadCfg, connect_to_db, the directories, the row of the host: one of them fails.
StLoadFails(p) ==
    /\ stMain[p] = "check" /\ StEvent
    /\ StFail(p)
    /\ stOdd' = [stOdd EXCEPT !.refused = TRUE]
    /\ UNCHANGED <<stSelf, stPid, stPort, stHost, stCtl, stCmds>>

\* Mutant: the PID file does not keep an instance from starting.
FreeToStartAlways(p) == TRUE

\* The PID file is looked for, but not yet written; -force skips it.
FreeToStart(p) == stSelf[p].force \/ stPid = StNone

handleStartUp(p) ==
    /\ stMain[p] = "check"
    /\ IF FreeToStart(p)
       THEN /\ stMain' = [stMain EXCEPT ![p] = "create"]
            /\ stOdd' = [stOdd EXCEPT !.two = @ \/ \E q \in StProcs : stMain[q] = "create"]
            /\ UNCHANGED <<stShut, stLock>>
       ELSE /\ StFail(p)
            /\ stOdd' = [stOdd EXCEPT !.refused = TRUE]
    /\ UNCHANGED <<stSelf, stPid, stPort, stHost, stCtl, stCmds, stEvents>>

pidFile(p) ==
    /\ stMain[p] = "create"
    /\ stMain' = [stMain EXCEPT ![p] = "online"]
    /\ stPid' = p
    /\ stSelf' = [stSelf EXCEPT ![p].mine = TRUE]
    /\ UNCHANGED <<stShut, stLock, stPort, stHost, stCtl, stOdd, stCmds, stEvents>>

\* autoonline: handleOnline, with the State published at its end.
StOnline(p) ==
    /\ stMain[p] = "online"
    /\ stMain' = [stMain EXCEPT ![p] = "bind"]
    /\ stSelf' = [stSelf EXCEPT ![p].online = TRUE]
    /\ stMounted' = TRUE /\ stRow' = "ONLINE"
    /\ UNCHANGED <<stShut, stPid, stLock, stPort, stCtl, stOdd, stCmds, stEvents>>

\* handleOnline fails and takes the host Offline; -noautoexit decides what follows.
StOnlineFails(p, noautoexit) ==
    /\ stMain[p] = "online" /\ StEvent
    /\ stMounted' = FALSE
    /\ IF noautoexit
       THEN stMain' = [stMain EXCEPT ![p] = "bind"] /\ UNCHANGED <<stShut, stLock>>
       ELSE StFail(p)
    /\ UNCHANGED <<stSelf, stPid, stPort, stRow, stCtl, stOdd, stCmds>>

\* Without autoonline the server stays Offline.
StStandby(p) ==
    /\ stMain[p] = "online"
    /\ stMain' = [stMain EXCEPT ![p] = "bind"]
    /\ UNCHANGED <<stShut, stSelf, stPid, stLock, stPort, stHost, stCtl, stOdd, stCmds, stEvents>>

\* updateHostInfo leaves the State of the row as it is; a port that is in use makes serve raise.
serve(p) ==
    /\ stMain[p] = "bind"
    /\ IF stPort = StNone
       THEN /\ stMain' = [stMain EXCEPT ![p] = "serving"]
            /\ stPort' = p
            /\ UNCHANGED <<stShut, stLock>>
       ELSE StFail(p) /\ UNCHANGED stPort
    /\ UNCHANGED <<stSelf, stPid, stHost, stCtl, stOdd, stCmds, stEvents>>

-----------------------------------------------------------------------------
(***************************************************************************)
(* Shutdown: ngamsExitHandler starts the thread once; a failed start-up    *)
(* starts one of its own.                                                  *)
(***************************************************************************)
ToldToStop(p) == \E s \in Shutters : stShut[p][s] # "none"

\* SIGTERM, once the handler is installed.  Later signals are ignored.
ngamsExitHandler(p) ==
    /\ stShut[p]["signal"] = "none"
    /\ stShut' = [stShut EXCEPT ![p]["signal"] = "stop"]
    /\ stOdd' = [stOdd EXCEPT !.early = IF stMain[p] = "serving" THEN @ ELSE @ \cup {p}]

StSignal(p) ==
    /\ stMain[p] \notin {"none", "ended"} /\ StEvent
    /\ ngamsExitHandler(p)
    /\ UNCHANGED <<stMain, stSelf, stPid, stLock, stPort, stHost, stCtl, stCmds>>

\* Mutant: the server goes on serving.
stopServerNot(p) == UNCHANGED <<stMain, stLock>>

\* shutdown of the HTTP server returns when its loop has ended, and so does the main thread.
stopServer(p) ==
    IF stMain[p] = "serving"
    THEN /\ stMain' = [stMain EXCEPT ![p] = "ended"]
         /\ Leave(p)
    ELSE UNCHANGED <<stMain, stLock>>

StStopServer(p, s) ==
    /\ stShut[p][s] = "stop"
    /\ stopServer(p)
    /\ stShut' = [stShut EXCEPT ![p][s] = "offline"]
    /\ stPort' = IF stPort = p /\ stMain'[p] = "ended" THEN StNone ELSE stPort
    /\ UNCHANGED <<stSelf, stPid, stHost, stCtl, stOdd, stCmds, stEvents>>

\* ngamsBaseExitHandler, first half: handleOffline unmounts the disks.
StOffline(p, s) ==
    /\ stShut[p][s] = "offline"
    /\ stShut' = [stShut EXCEPT ![p][s] = "row"]
    /\ stMounted' = IF stSelf[p].online THEN FALSE ELSE stMounted
    /\ UNCHANGED <<stMain, stSelf, stPid, stLock, stPort, stRow, stCtl, stOdd, stCmds, stEvents>>

StUnlinkedAs(p) == stPid' = IF stSelf[p].mine THEN StNone ELSE stPid

\* Mutant: the PID file goes before the row of the host is written.
StRowFreed(p, s) ==
    /\ stShut[p][s] \in {"offline", "row"}
    /\ StUnlinkedAs(p)
    /\ stShut' = [stShut EXCEPT ![p][s] = IF @ = "offline" THEN "row" ELSE "unlink"]
    /\ stRow' = IF stShut[p][s] = "row" THEN "NOT-RUN" ELSE stRow
    /\ UNCHANGED <<stMain, stSelf, stLock, stPort, stMounted, stCtl, stOdd, stCmds, stEvents>>

\* Second half: the row of the host, whoever else serves for it.
ngamsBaseExitHandler(p, s) ==
    /\ stShut[p][s] = "row"
    /\ stShut' = [stShut EXCEPT ![p][s] = "unlink"]
    /\ stRow' = "NOT-RUN"
    /\ UNCHANGED <<stMain, stSelf, stPid, stLock, stPort, stMounted, stCtl, stOdd, stCmds, stEvents>>

\* Mutant: the PID file is removed by instances that did not write it, too.
UnlinkAny(p) == stPid' = StNone

Unlink(p) == stPid' = IF stSelf[p].mine THEN StNone ELSE stPid

\* close_db, and the PID file when this instance wrote one (it may name another one by now).
StUnlink(p, s) ==
    /\ stShut[p][s] = "unlink"
    /\ Unlink(p)
    /\ stShut' = [stShut EXCEPT ![p][s] = "ended"]
    /\ UNCHANGED <<stMain, stSelf, stLock, stPort, stHost, stCtl, stOdd, stCmds, stEvents>>

\* handleOffline or updateHostInfo raises: the thread ends there.
StShutdownFails(p, s) ==
    /\ stShut[p][s] \in {"offline", "row"} /\ StEvent
    /\ stShut' = [stShut EXCEPT ![p][s] = "ended"]
    /\ stOdd' = [stOdd EXCEPT !.stuck = @ \cup {p}]
    /\ UNCHANGED <<stMain, stSelf, stPid, stLock, stPort, stHost, stCtl, stCmds>>

\* SIGKILL
StKilled(p) ==
    /\ stMain' = [stMain EXCEPT ![p] = "ended"]
    /\ stShut' = [stShut EXCEPT ![p] = [s \in Shutters |-> "ended"]]
    /\ stPort' = IF stPort = p THEN StNone ELSE stPort
    /\ stOdd' = [stOdd EXCEPT !.killed = @ \cup {p}]

StCrash(p) ==
    /\ ~Dead(p) /\ StEvent
    /\ StKilled(p)
    /\ UNCHANGED <<stSelf, stPid, stLock, stHost, stCtl, stCmds>>

-----------------------------------------------------------------------------
(***************************************************************************)
(* ngamsDaemon: start, stop, restart.  -force stops what the lock file     *)
(* names before the command, and is passed on to the server.               *)
(***************************************************************************)
DaemonCommand(c) ==
    /\ stCtl[c].step = "idle" /\ stCmds < StCmds /\ stCmds' = stCmds + 1
    /\ c = CHOOSE d \in StCtls : stCtl[d].step = "idle"
    /\ \E cmd \in {"start", "stop", "restart"}, force \in BOOLEAN :
          stCtl' = [stCtl EXCEPT ![c] =
                      [cmd |-> cmd, force |-> force, pid |-> StNone, res |-> 0,
                       step |-> IF cmd = "start" /\ ~(force /\ stLock # StNone) THEN "start" ELSE "stop"]]
    /\ UNCHANGED <<stMain, stShut, stSelf, stPid, stLock, stPort, stHost, stOdd, stEvents>>

\* What follows a stop.
StopReturns(c, res) ==
    stCtl' = [stCtl EXCEPT ![c] = [@ EXCEPT !.step = IF stCtl[c].cmd = "stop" THEN "done" ELSE "start",
                                            !.res = res]]

\* stop: reads the lock file and sends SIGTERM; a process that is not there loses its file.
stop(c) ==
    /\ stCtl[c].step = "stop"
    /\ \/ /\ stLock = StNone
          /\ StopReturns(c, 1)
          /\ UNCHANGED <<stLock, stShut, stOdd>>
       \/ /\ stLock # StNone /\ Dead(stLock)
          /\ StopReturns(c, 1)
          /\ stLock' = StNone
          /\ UNCHANGED <<stShut, stOdd>>
       \/ /\ stLock # StNone /\ ~Dead(stLock)
          /\ IF stShut[stLock]["signal"] = "none"
             THEN ngamsExitHandler(stLock)
             ELSE UNCHANGED <<stShut, stOdd>>
          /\ stCtl' = [stCtl EXCEPT ![c] = [@ EXCEPT !.step = "wait", !.pid = stLock]]
          /\ UNCHANGED stLock
    /\ UNCHANGED <<stMain, stSelf, stPid, stPort, stHost, stCmds, stEvents>>

\* Mutant: the end of the process is not waited for.
EndedSent(p) == TRUE

\* kill_and_wait: signals the process until it is not there.
Ended(p) == Dead(p)

kill_and_wait(c) ==
    /\ stCtl[c].step = "wait" /\ Ended(stCtl[c].pid)
    /\ StopReturns(c, IF stLock # StNone THEN 2 ELSE 0)
    /\ stLock' = StNone
    /\ UNCHANGED <<stMain, stShut, stSelf, stPid, stPort, stHost, stOdd, stCmds, stEvents>>

\* After max_tries, SIGKILL.
StGiveUp(c) ==
    /\ stCtl[c].step = "wait" /\ ~Dead(stCtl[c].pid) /\ StEvent
    /\ StKilled(stCtl[c].pid)
    /\ StopReturns(c, IF stLock # StNone THEN 3 ELSE 1)
    /\ stLock' = StNone
    /\ UNCHANGED <<stSelf, stPid, stHost, stCmds>>

\* start: a lock file that is there is respected, whether or not its process is.
start_daemon(c) ==
    /\ stCtl[c].step = "start"
    /\ stCtl' = [stCtl EXCEPT ![c] = [@ EXCEPT !.step = IF stLock # StNone THEN "done" ELSE "acquire",
                                               !.res = IF stLock # StNone THEN 1 ELSE 0]]
    /\ UNCHANGED <<stMain, stShut, stSelf, stPid, stLock, stPort, stHost, stOdd, stCmds, stEvents>>

\* DaemonContext: the parent returns 0; the child takes the lock file, or ends.
StAcquire(c) ==
    /\ stCtl[c].step = "acquire"
    /\ stCtl' = [stCtl EXCEPT ![c].step = "done"]
    /\ \/ stLock # StNone /\ UNCHANGED <<stLock, stMain, stSelf, stOdd>>
       \/ /\ stLock = StNone
          /\ \E p \in StProcs : StartAs(p, TRUE, stCtl[c].force) /\ stLock' = p
    /\ UNCHANGED <<stShut, stPid, stPort, stHost, stCmds, stEvents>>

StReturn(c) ==
    /\ stCtl[c].step = "done"
    /\ stCtl' = [stCtl EXCEPT ![c] = StIdle]
    /\ UNCHANGED <<stMain, stShut, stSelf, stPid, stLock, stPort, stHost, stOdd, stCmds, stEvents>>

StNext ==
    \/ \E p \in StProcs :
          \/ StRun(p) \/ StLoadFails(p) \/ handleStartUp(p) \/ pidFile(p)
          \/ StOnline(p) \/ StStandby(p) \/ serve(p) \/ StSignal(p) \/ StCrash(p)
          \/ \E noautoexit \in BOOLEAN : StOnlineFails(p, noautoexit)
          \/ \E s \in Shutters :
                \/ StStopServer(p, s) \/ StOffline(p, s) \/ ngamsBaseExitHandler(p, s)
                \/ StUnlink(p, s) \/ StShutdownFails(p, s)
    \/ \E c \in StCtls :
          \/ DaemonCommand(c) \/ stop(c) \/ kill_and_wait(c) \/ StGiveUp(c) \/ start_daemon(c)
          \/ StAcquire(c) \/ StReturn(c)

StSpec == StInit /\ [][StNext]_stVars

-----------------------------------------------------------------------------
\* What lets two instances work on one host: a forced start, two that look for the PID file
\* at once, and a signal during the start-up, which the main thread does not notice.
Overlap == stOdd.two \/ stOdd.early # {}

\* The PID file keeps a second instance of a host from bringing the host up while one is
\* up or still going down, unless it is forced, or two looked for the file at once.
OneInstance ==
    \A p, q \in StProcs :
        p # q /\ ~Dead(p) /\ ~Dead(q) /\ stSelf[p].mine /\ stSelf[q].mine => Overlap

\* A server that serves and was not told to stop has its PID file, whoever else tried to start.
PidFileKept ==
    \A p \in StProcs : stMain[p] = "serving" /\ ~ToldToStop(p) => stPid = p \/ Overlap

\* A server that serves Online is Online, with its disks, in the database: the shutdown of an
\* earlier instance, however late, does not undo it.  (An instance that is refused does.)
ToldOnline ==
    \A p \in StProcs :
        stMain[p] = "serving" /\ stSelf[p].online /\ ~ToldToStop(p)
            => (stRow = "ONLINE" /\ stMounted) \/ Overlap \/ stOdd.refused

\* A process that ended by itself, however far it had come, leaves no PID file to refuse the next one.
GoneLeavesNothing ==
    \A p \in StProcs : stMain[p] = "ended" /\ Dead(p) /\ p \notin stOdd.killed \cup stOdd.stuck => stPid # p

\* ngamsDaemon stop answers 0 only when the server is gone, from the port and the PID file too.
StopMeansStopped ==
    \A c \in StCtls :
        stCtl[c].step = "done" /\ stCtl[c].cmd = "stop" /\ stCtl[c].res = 0 /\ stCtl[c].pid # StNone =>
            LET p == stCtl[c].pid IN
            Dead(p) /\ stPort # p /\ (stPid # p \/ p \in stOdd.killed \cup stOdd.stuck)

\* A server does not serve on after its shutdown, if it was serving when it was told to stop.
ShutdownStops ==
    \A p \in StProcs :
        stMain[p] = "serving" /\ (\E s \in Shutters : stShut[p][s] \in {"unlink", "ended"}) => p \in stOdd.early

\* However instances of the server and ngamsDaemon commands overlap, fail or are killed, one
\* instance is up, its files and its row in ngas_hosts are its own and true, and a stop stops it.
OneServerToldOf ==
    /\ OneInstance /\ PidFileKept /\ ToldOnline /\ GoneLeavesNothing /\ StopMeansStopped
    /\ ShutdownStops

=============================================================================
