---------------------------- MODULE NgamsServer ----------------------------
(***************************************************************************)
(* The NG/AMS server process: the HTTP thread pool, the life of a request  *)
(* in reqCallBack, the State and Sub-State every command checks and sets,  *)
(* the commands that move the server between ONLINE and OFFLINE with the   *)
(* background task they start and stop, and the shutdown.                  *)
(*                                                                         *)
(* One actor per request (a worker thread of the pool runs it) and one for *)
(* the Shutdown thread; pc says how far each actor is.  What a command     *)
(* does to files is abstracted to the staging file an archive request owns *)
(* while it runs; what handleOnline and handleOffline do to the system is  *)
(* abstracted to the disks being mounted and one utils.Task.               *)
(***************************************************************************)
EXTENDS Naturals, FiniteSets

CONSTANTS
    Requests,    \* the HTTP requests that may arrive
    MaxSimReqs,  \* size of the thread pool, Server[1].MaxSimReqs
    Commands,    \* the commands the clients may send
    Failures,    \* the failures that may strike, a subset of FailureKinds
    Shutdown,    \* the thread started by terminate()
    Nobody       \* the holder of a free semaphore

AllCommands == {"ARCHIVE", "RETRIEVE", "CRETRIEVE", "CLONE", "STATUS",
                "ONLINE", "OFFLINE", "OFFLINE_FORCE", "INIT", "EXIT"}

(***************************************************************************)
(* parse: the HTTP request cannot be parsed; auth: 401/403; nocmd: no such *)
(* command; generic: any other exception of a command; invalid: the        *)
(* InvalidParameter of an illegal overwrite; backlog: a failure of archive *)
(* handling that ends in Back-Log Buffering; socket: the client is gone;   *)
(* disks, space, offline: a step of handleOnline / handleOffline raises;   *)
(* statedb: setState cannot write the State into ngas_hosts; reqadd and    *)
(* requpdate: request_db.add or update raises (the DBM backend);           *)
(* sigterm: the process receives SIGTERM or SIGINT.                        *)
(***************************************************************************)
FailureKinds == {"parse", "auth", "nocmd", "generic", "invalid", "backlog",
                 "socket", "disks", "space", "offline", "statedb", "reqadd",
                 "requpdate", "sigterm"}

ASSUME RequestsAssumption == IsFiniteSet(Requests)
ASSUME PoolAssumption == MaxSimReqs \in Nat \ {0}
ASSUME CommandsAssumption == Commands \subseteq AllCommands
ASSUME FailuresAssumption == Failures \subseteq FailureKinds
ASSUME ActorsAssumption == /\ Shutdown \notin Requests
                           /\ Nobody \notin Requests
                           /\ Shutdown # Nobody

Actors == Requests \cup {Shutdown}

VARIABLES
    pc,           \* pc[a]: the step actor a takes next
    cmd,          \* cmd[r]: the command request r carries
    reply,        \* reply[r]: none, sent, or broken (the client is gone)
    cont,         \* cont[a]: where handleOffline returns to
    accepting,    \* serve_forever is accepting connections
    servingCount, \* requests inside reqCallBack
    serving,      \* the serving property that the listeners follow
    checksumAllow,\* checksum_allow_evt: data checking may compute checksums
    state,        \* ONLINE or OFFLINE
    subState,     \* IDLE or BUSY
    busyCount,    \* __busyCount
    stateSem,     \* the holder of __stateSem
    disks,        \* the disks are known and marked as mounted
    task,         \* a background task (an instance of utils.Task)
    staged,       \* archive requests whose file sits in a Staging Area
    holders,      \* history: requests that set BUSY and did not yet ask for IDLE
    semLost       \* history: the request that left checkSetState with __stateSem

poolVars == <<accepting, servingCount, serving, checksumAllow>>
stateVars == <<state, subState, busyCount, stateSem, holders, semLost>>
systemVars == <<disks, task, staged>>
vars == <<pc, cmd, reply, cont, poolVars, stateVars, systemVars>>

Goto(a, label) == pc' = [pc EXCEPT ![a] = label]

-----------------------------------------------------------------------------
(* utils.Task: bg is "_bg_task is not None", stop is stop_evt, live counts  *)
(* the threads that still run the target.                                  *)

NewTask == [bg |-> FALSE, stop |-> FALSE, live |-> 0]
StartTask(t) == [bg |-> TRUE, stop |-> t.stop, live |-> t.live + 1]
StopTask(t) == IF t.bg THEN [bg |-> FALSE, stop |-> TRUE, live |-> t.live] ELSE t

\* The target polls stop_evt and returns once it is set.
TaskEnds ==
    /\ pc[Shutdown] # "gone" /\ task.stop /\ task.live > 0
    /\ task' = [task EXCEPT !.live = @ - 1]
    /\ UNCHANGED <<pc, cmd, reply, cont, poolVars, stateVars, disks, staged>>

-----------------------------------------------------------------------------
(* State and Sub-State.                                                    *)

\* setSubState, whole under __subStateSem; r is the request that calls it.
SetBusy(r) ==
    /\ busyCount' = busyCount + 1
    /\ subState' = "BUSY"
    /\ holders' = holders \cup {r}

\* Mutant: the count is decremented without looking at it.
SetIdleUnguarded(r) ==
    /\ busyCount' = busyCount - 1
    /\ subState' = IF busyCount' = 0 THEN "IDLE" ELSE "BUSY"
    /\ holders' = holders \ {r}

\* Mutant: IDLE is granted whatever the count says.
SetIdleAlways(r) ==
    /\ busyCount' = IF busyCount > 0 THEN busyCount - 1 ELSE 0
    /\ subState' = "IDLE"
    /\ holders' = holders \ {r}

SetIdle(r) ==
    LET n == IF busyCount > 0 THEN busyCount - 1 ELSE 0
    IN  /\ busyCount' = n
        /\ subState' = IF n = 0 THEN "IDLE" ELSE "BUSY"
        /\ holders' = holders \ {r}

BusyCommands == {"ARCHIVE", "RETRIEVE", "CRETRIEVE"}
CheckedCommands == AllCommands \ {"STATUS"}

\* The arguments the command handlers give to checkSetState.
AllowedStates(c) == IF c \in {"ONLINE", "EXIT"} THEN {"OFFLINE"} ELSE {"ONLINE"}
AllowedSubStates(c) == IF c \in {"ONLINE", "OFFLINE", "INIT", "EXIT"}
                       THEN {"IDLE"} ELSE {"IDLE", "BUSY"}
NewState(c) == IF c \in {"OFFLINE", "OFFLINE_FORCE"} THEN "OFFLINE"
               ELSE IF c = "ARCHIVE" THEN "ONLINE" ELSE state

\* What a command does once checkSetState let it through.
Body(c) == IF c = "ONLINE" THEN "on_disks"
           ELSE IF c \in {"OFFLINE", "OFFLINE_FORCE", "INIT"} THEN "off_tasks"
           ELSE "work"

StateAllowed(c) == state \in AllowedStates(c) /\ subState \in AllowedSubStates(c)

\* Mutant: the semaphore is not released before the exception is raised.
CheckStateKeepsSem(r) ==
    /\ pc[r] = "check" /\ stateSem = Nobody
    /\ stateSem' = r
    /\ Goto(r, IF StateAllowed(cmd[r]) THEN "set" ELSE "except")
    /\ UNCHANGED <<cmd, reply, cont, poolVars, state, subState, busyCount, holders, semLost, systemVars>>

\* Mutant: the check does not wait for the semaphore.
CheckStateNoWait(r) ==
    /\ pc[r] = "check"
    /\ stateSem' = IF StateAllowed(cmd[r]) THEN r ELSE stateSem
    /\ Goto(r, IF StateAllowed(cmd[r]) THEN "set" ELSE "except")
    /\ UNCHANGED <<cmd, reply, cont, poolVars, state, subState, busyCount, holders, semLost, systemVars>>

\* checkSetState up to the check: the semaphore is kept only if the check passes.
CheckState(r) ==
    /\ pc[r] = "check" /\ stateSem = Nobody
    /\ \/ /\ StateAllowed(cmd[r])
          /\ stateSem' = r
          /\ Goto(r, "set")
       \/ /\ ~StateAllowed(cmd[r])
          /\ Goto(r, "except")
          /\ UNCHANGED stateSem
    /\ UNCHANGED <<cmd, reply, cont, poolVars, state, subState, busyCount, holders, semLost, systemVars>>

\* The rest of checkSetState.
SetState(r) ==
    /\ pc[r] = "set"
    /\ state' = NewState(cmd[r])
    /\ IF cmd[r] \in BusyCommands THEN SetBusy(r)
                                  ELSE UNCHANGED <<subState, busyCount, holders>>
    /\ stateSem' = Nobody
    /\ cont' = [cont EXCEPT ![r] = IF cmd[r] = "INIT" THEN "on_disks" ELSE "reply"]
    /\ Goto(r, Body(cmd[r]))
    /\ UNCHANGED <<cmd, reply, poolVars, semLost, systemVars>>

\* The commands whose new State checkSetState also writes to the DB (ARCHIVE gives
\* updateDb = False, the others no new State).
WritesState(c) == c \in {"OFFLINE", "OFFLINE_FORCE"}

\* setState raises in the update of ngas_hosts: the State is set, the Sub-State is
\* not, and relStateSem is not reached.
SetStateFails(r) ==
    /\ pc[r] = "set" /\ WritesState(cmd[r]) /\ "statedb" \in Failures
    /\ state' = NewState(cmd[r])
    /\ semLost' = r
    /\ Goto(r, "except")
    /\ UNCHANGED <<cmd, reply, cont, poolVars, subState, busyCount, stateSem, holders, systemVars>>

-----------------------------------------------------------------------------
(* The thread pool and reqCallBack.                                        *)

\* Requests for which serving_count was incremented and not decremented again.
Counted == {r \in Requests :
              pc[r] \notin {"new", "rejected", "queued", "picked", "done", "gone"}}

\* Those that request_db.add or update made leave reqCallBack before the decrement.
Leaked == {r \in Requests : pc[r] \in {"dropped", "leaked"}}

InCallBack == Counted \ Leaked
Workers == InCallBack \cup {r \in Requests : pc[r] = "picked"}

\* What the client gets of an answer that is sent now: it may be gone.
Answers(r) == \E a \in {"sent"} \cup {b \in {"broken"} : "socket" \in Failures} :
                 reply' = [reply EXCEPT ![r] = a]

\* process_request: reject with a 503 or hand the request to the pool.
ProcessRequest(r) ==
    /\ pc[r] = "new" /\ accepting
    /\ \E c \in Commands : cmd' = [cmd EXCEPT ![r] = c]
    /\ IF servingCount >= MaxSimReqs
       THEN Goto(r, "rejected") /\ Answers(r)
       ELSE Goto(r, "queued") /\ UNCHANGED reply
    /\ UNCHANGED <<cont, poolVars, stateVars, systemVars>>

\* A free thread of the pool takes the request up and parses it.
PickUp(r) ==
    /\ pc[r] = "queued" /\ Cardinality(Workers) < MaxSimReqs
    /\ Goto(r, "picked")
    /\ UNCHANGED <<cmd, reply, cont, poolVars, stateVars, systemVars>>

ParseFails(r) ==
    /\ pc[r] = "picked" /\ "parse" \in Failures
    /\ Answers(r)
    /\ Goto(r, "done")
    /\ UNCHANGED <<cmd, cont, poolVars, stateVars, systemVars>>

\* The serving property: the data check listener follows every change.
SetServing(value) == serving' = value /\ checksumAllow' = ~value

\* request_db.add comes after the increment and before the try: if it raises, the
\* request leaves reqCallBack without the finally clause and without an answer.
Enter(r) ==
    /\ pc[r] = "picked"
    /\ servingCount' = servingCount + 1
    /\ SetServing(TRUE)
    /\ \/ Goto(r, "dispatch")
       \/ "reqadd" \in Failures /\ Goto(r, "dropped")
    /\ UNCHANGED <<cmd, reply, cont, accepting, stateVars, systemVars>>

\* handleHttpRequest up to the command's handler.
Dispatch(r) ==
    /\ pc[r] = "dispatch"
    /\ \/ /\ Goto(r, IF cmd[r] \in CheckedCommands THEN "check" ELSE "work")
          /\ UNCHANGED reply
       \/ /\ "auth" \in Failures
          /\ Answers(r)
          /\ Goto(r, IF reply'[r] = "sent" THEN "finally" ELSE "except")
       \/ /\ "nocmd" \in Failures
          /\ Goto(r, "badrequest") /\ UNCHANGED reply
       \/ /\ "generic" \in Failures
          /\ Goto(r, "except") /\ UNCHANGED reply
    /\ UNCHANGED <<cmd, cont, poolVars, stateVars, systemVars>>

\* The reply of a successful command: none if the command sent one already.
Reply(r) ==
    /\ pc[r] = "reply"
    /\ \/ /\ reply' = [reply EXCEPT ![r] = "sent"]
          /\ Goto(r, "finally")
       \/ /\ "socket" \in Failures
          /\ reply' = [reply EXCEPT ![r] = "broken"]
          /\ Goto(r, "except")
    /\ UNCHANGED <<cmd, cont, poolVars, stateVars, systemVars>>

\* NoSuchCommand (404) and InvalidParameter (400): a reply and nothing else.
BadRequest(r) ==
    /\ pc[r] = "badrequest"
    /\ Answers(r)
    /\ Goto(r, "finally")
    /\ UNCHANGED <<cmd, cont, poolVars, stateVars, systemVars>>

\* Mutant: the exception handler forgets the client.
ExceptSilent(r) ==
    /\ pc[r] = "except"
    /\ SetIdle(r)
    /\ Goto(r, "finally")
    /\ UNCHANGED <<cmd, reply, cont, poolVars, state, stateSem, semLost, systemVars>>

\* Every other exception: IDLE is requested, whatever the request did before.
Except(r) ==
    /\ pc[r] = "except"
    /\ SetIdle(r)
    /\ IF reply[r] = "none" THEN Answers(r) ELSE UNCHANGED reply
    /\ Goto(r, "finally")
    /\ UNCHANGED <<cmd, cont, poolVars, state, stateSem, semLost, systemVars>>

\* Mutant: the socket error that is raised again skips the decrement.
FinallySkipped(r) ==
    /\ pc[r] = "finally"
    /\ servingCount' = IF reply[r] = "broken" THEN servingCount ELSE servingCount - 1
    /\ IF servingCount' = 0 THEN SetServing(FALSE)
                            ELSE UNCHANGED <<serving, checksumAllow>>
    /\ Goto(r, "done")
    /\ UNCHANGED <<cmd, reply, cont, accepting, stateVars, systemVars>>

\* The finally clause.
Finally(r) ==
    /\ pc[r] = "finally"
    /\ servingCount' = servingCount - 1
    /\ IF servingCount' = 0 THEN SetServing(FALSE)
                            ELSE UNCHANGED <<serving, checksumAllow>>
    /\ Goto(r, "done")
    /\ UNCHANGED <<cmd, reply, cont, accepting, stateVars, systemVars>>

\* request_db.update raises in the finally clause, before the decrement.
FinallyFails(r) ==
    /\ pc[r] = "finally" /\ "requpdate" \in Failures
    /\ Goto(r, "leaked")
    /\ UNCHANGED <<cmd, reply, cont, poolVars, stateVars, systemVars>>

-----------------------------------------------------------------------------
(* Commands that serve data.                                               *)

\* STATUS, and CLONE and REGISTER, which only check the state.
PlainCommand(r) ==
    /\ pc[r] = "work" /\ cmd[r] \in {"STATUS", "CLONE"}
    /\ \/ Goto(r, "reply")
       \/ "generic" \in Failures /\ Goto(r, "except")
    /\ UNCHANGED <<cmd, reply, cont, poolVars, stateVars, systemVars>>

\* RETRIEVE: IDLE after the data went out; an exception leaves IDLE to
\* reqCallBack, except that refusing the processing asks for it first.
Retrieve(r) ==
    /\ pc[r] = "work" /\ cmd[r] = "RETRIEVE"
    /\ \/ /\ SetIdle(r)
          /\ reply' = [reply EXCEPT ![r] = "sent"]
          /\ Goto(r, "finally")
       \/ /\ "generic" \in Failures
          /\ SetIdle(r) \/ UNCHANGED <<subState, busyCount, holders>>
          /\ Goto(r, "except") /\ UNCHANGED reply
       \/ /\ "socket" \in Failures
          /\ reply' = [reply EXCEPT ![r] = "broken"]
          /\ Goto(r, "except") /\ UNCHANGED <<subState, busyCount, holders>>
    /\ UNCHANGED <<cmd, cont, poolVars, state, stateSem, semLost, systemVars>>

\* CRETRIEVE: IDLE in a finally clause, before the exception travels on.
CRetrieve(r) ==
    /\ pc[r] = "work" /\ cmd[r] = "CRETRIEVE"
    /\ SetIdle(r)
    /\ \/ /\ reply' = [reply EXCEPT ![r] = "sent"]
          /\ Goto(r, "finally")
       \/ /\ "generic" \in Failures
          /\ Goto(r, "except") /\ UNCHANGED reply
       \/ /\ "socket" \in Failures
          /\ reply' = [reply EXCEPT ![r] = "broken"]
          /\ Goto(r, "except")
    /\ UNCHANGED <<cmd, cont, poolVars, state, stateSem, semLost, systemVars>>

\* A probe, a proxied request, a missing plug-in or an unknown length.
ArchiveShortcut(r) ==
    /\ pc[r] = "work" /\ cmd[r] = "ARCHIVE"
    /\ SetIdle(r)
    /\ reply' = [reply EXCEPT ![r] = "sent"]
    /\ Goto(r, "finally")
    /\ UNCHANGED <<cmd, cont, poolVars, state, stateSem, semLost, systemVars>>

\* The data is received into the Staging Area.
ArchiveStage(r) ==
    /\ pc[r] = "work" /\ cmd[r] = "ARCHIVE"
    /\ staged' = staged \cup {r}
    /\ Goto(r, "staged")
    /\ UNCHANGED <<cmd, reply, cont, poolVars, stateVars, disks, task>>

\* The file moves to its final destination and is registered; then IDLE.
ArchiveFinish(r) ==
    /\ pc[r] = "staged" /\ r \in staged
    /\ staged' = staged \ {r}
    /\ SetIdle(r)
    /\ Goto(r, "reply")
    /\ UNCHANGED <<cmd, reply, cont, poolVars, state, stateSem, semLost, disks, task>>

\* The archiving fails, on its own or because the staging file is gone.
ArchiveFails(r) ==
    /\ pc[r] = "staged"
    /\ staged' = staged \ {r}
    /\ \/ /\ "generic" \in Failures \/ r \notin staged
          /\ Goto(r, "except")
          /\ UNCHANGED <<reply, subState, busyCount, holders>>
       \/ /\ "socket" \in Failures
          /\ reply' = [reply EXCEPT ![r] = "broken"]
          /\ Goto(r, "except")
          /\ UNCHANGED <<subState, busyCount, holders>>
       \/ /\ "invalid" \in Failures
          /\ Goto(r, "badrequest")
          /\ UNCHANGED <<reply, subState, busyCount, holders>>
       \/ /\ "backlog" \in Failures   \* IDLE and a reply, then the exception travels on
          /\ SetIdle(r)
          /\ reply' = [reply EXCEPT ![r] = "sent"]
          /\ Goto(r, "except")
    /\ UNCHANGED <<cmd, cont, poolVars, state, stateSem, semLost, disks, task>>

-----------------------------------------------------------------------------
(* handleOffline and handleOnline, run by a request or by Shutdown.        *)

\* run_async_commands is withdrawn and every background task is stopped.
OfflineTasks(a) ==
    /\ pc[a] = "off_tasks"
    /\ task' = StopTask(task)
    /\ Goto(a, "off_staging")
    /\ UNCHANGED <<cmd, reply, cont, poolVars, stateVars, disks, staged>>

\* checkStagingAreas: every file of a Staging Area goes to the bad files area.
OfflineStaging(a) ==
    /\ pc[a] = "off_staging"
    /\ staged' = {}
    /\ Goto(a, "off_disks")
    /\ UNCHANGED <<cmd, reply, cont, poolVars, stateVars, disks, task>>

OfflineDisks(a) ==
    /\ pc[a] = "off_disks"
    /\ \/ /\ disks' = FALSE
          /\ Goto(a, cont[a])
       \/ /\ "offline" \in Failures
          /\ Goto(a, IF a = Shutdown THEN "dead" ELSE "except")
          /\ UNCHANGED disks
    /\ UNCHANGED <<cmd, reply, cont, poolVars, stateVars, task, staged>>

\* The disk configuration is read; on failure the system is taken Offline.
OnlineDisks(r) ==
    /\ pc[r] = "on_disks"
    /\ \/ /\ disks' = TRUE
          /\ Goto(r, "on_space")
          /\ UNCHANGED cont
       \/ /\ "disks" \in Failures
          /\ Goto(r, "off_tasks")
          /\ cont' = [cont EXCEPT ![r] = "except"]
          /\ UNCHANGED disks
    /\ UNCHANGED <<cmd, reply, poolVars, stateVars, task, staged>>

OnlineSpace(r) ==
    /\ pc[r] = "on_space"
    /\ \/ Goto(r, "on_staging")
       \/ "space" \in Failures /\ Goto(r, "except")
    /\ UNCHANGED <<cmd, reply, cont, poolVars, stateVars, systemVars>>

OnlineStaging(r) ==
    /\ pc[r] = "on_staging"
    /\ staged' = {}
    /\ Goto(r, "on_tasks")
    /\ UNCHANGED <<cmd, reply, cont, poolVars, stateVars, disks, task>>

OnlineTasks(r) ==
    /\ pc[r] = "on_tasks"
    /\ task' = StartTask(task)
    /\ Goto(r, "on_state")
    /\ UNCHANGED <<cmd, reply, cont, poolVars, stateVars, disks, staged>>

\* setState(ONLINE), without __stateSem; its update of ngas_hosts may raise.
OnlineState(r) ==
    /\ pc[r] = "on_state"
    /\ state' = "ONLINE"
    /\ \/ Goto(r, "reply")
       \/ "statedb" \in Failures /\ Goto(r, "except")
    /\ UNCHANGED <<cmd, reply, cont, poolVars, subState, busyCount, stateSem, holders, semLost, systemVars>>

-----------------------------------------------------------------------------
(* EXIT, SIGTERM and the Shutdown thread.                                  *)

\* EXIT replies first and then starts the Shutdown thread.
Exit(r) ==
    /\ pc[r] = "work" /\ cmd[r] = "EXIT"
    /\ \/ /\ reply' = [reply EXCEPT ![r] = "sent"]
          /\ pc' = [pc EXCEPT ![r] = "finally",
                              ![Shutdown] = IF @ = "new" THEN "stop_http" ELSE @]
       \/ /\ "socket" \in Failures
          /\ reply' = [reply EXCEPT ![r] = "broken"]
          /\ Goto(r, "except")
    /\ UNCHANGED <<cmd, cont, poolVars, stateVars, systemVars>>

ExitSignal ==
    /\ pc[Shutdown] = "new" /\ "sigterm" \in Failures
    /\ Goto(Shutdown, "stop_http")
    /\ UNCHANGED <<cmd, reply, cont, poolVars, stateVars, systemVars>>

StopServer ==
    /\ pc[Shutdown] = "stop_http"
    /\ accepting' = FALSE
    /\ Goto(Shutdown, "base_exit")
    /\ UNCHANGED <<cmd, reply, cont, servingCount, serving, checksumAllow, stateVars, systemVars>>

\* ngamsBaseExitHandler.
BaseExit ==
    /\ pc[Shutdown] = "base_exit"
    /\ Goto(Shutdown, IF state = "ONLINE" THEN "off_tasks" ELSE "halted")
    /\ UNCHANGED <<cmd, reply, cont, poolVars, stateVars, systemVars>>

\* Once the Shutdown thread is through, or died, the process ends and the threads
\* of the pool, which are daemon threads, with it.
ProcessEnds ==
    /\ pc[Shutdown] \in {"halted", "dead"}
    /\ pc' = [a \in Actors |-> "gone"]
    /\ UNCHANGED <<cmd, reply, cont, poolVars, stateVars, systemVars>>

Alive == pc[Shutdown] # "gone"

-----------------------------------------------------------------------------
\* handleStartUp: Online if -autoonline was given, Offline otherwise.
Init ==
    /\ pc = [a \in Actors |-> "new"]
    /\ cmd = [r \in Requests |-> "STATUS"]
    /\ reply = [r \in Requests |-> "none"]
    /\ cont = [a \in Actors |-> IF a = Shutdown THEN "halted" ELSE "reply"]
    /\ accepting = TRUE
    /\ servingCount = 0
    /\ serving = FALSE
    /\ checksumAllow = TRUE
    /\ state \in {"ONLINE", "OFFLINE"}
    /\ subState = "IDLE"
    /\ busyCount = 0
    /\ stateSem = Nobody
    /\ disks = (state = "ONLINE")
    /\ task = IF state = "ONLINE" THEN StartTask(NewTask) ELSE NewTask
    /\ staged = {}
    /\ holders = {}
    /\ semLost = Nobody

RequestStep(r) ==
    \/ PickUp(r) \/ ParseFails(r) \/ Enter(r) \/ Dispatch(r)
    \/ CheckState(r) \/ SetState(r) \/ SetStateFails(r)
    \/ PlainCommand(r) \/ Retrieve(r) \/ CRetrieve(r)
    \/ ArchiveShortcut(r) \/ ArchiveStage(r) \/ ArchiveFinish(r) \/ ArchiveFails(r)
    \/ OfflineTasks(r) \/ OfflineStaging(r) \/ OfflineDisks(r)
    \/ OnlineDisks(r) \/ OnlineSpace(r) \/ OnlineStaging(r)
    \/ OnlineTasks(r) \/ OnlineState(r)
    \/ Exit(r) \/ Reply(r) \/ BadRequest(r) \/ Except(r)
    \/ Finally(r) \/ FinallyFails(r)

ShutdownStep ==
    \/ StopServer \/ BaseExit \/ ProcessEnds
    \/ OfflineTasks(Shutdown) \/ OfflineStaging(Shutdown) \/ OfflineDisks(Shutdown)

Next ==
    \/ \E r \in Requests : ProcessRequest(r) \/ RequestStep(r)
    \/ ShutdownStep
    \/ ExitSignal
    \/ TaskEnds

Spec == Init /\ [][Next]_vars

(***************************************************************************)
(* The threads of the pool, the Shutdown thread and the background tasks   *)
(* are operating system threads: each is scheduled again and again.  The   *)
(* semaphore hands itself to a waiting thread, so a thread that waits for  *)
(* it while it is free infinitely often gets it.                           *)
(***************************************************************************)
Fairness ==
    /\ \A r \in Requests : /\ WF_vars(RequestStep(r))
                           /\ SF_vars(CheckState(r))
    /\ WF_vars(ShutdownStep)
    /\ WF_vars(TaskEnds)

FairSpec == Spec /\ Fairness

-----------------------------------------------------------------------------
Labels == {"new", "rejected", "queued", "picked", "dispatch", "check", "set",
           "work", "staged", "reply", "badrequest", "except", "finally", "done",
           "dropped", "leaked", "off_tasks", "off_staging", "off_disks", "on_disks", "on_space",
           "on_staging", "on_tasks", "on_state", "gone"}
ShutdownLabels == {"new", "stop_http", "base_exit", "off_tasks", "off_staging",
                   "off_disks", "halted", "dead", "gone"}

\* The shape of the state.
TypeOK ==
    /\ pc \in [Actors -> Labels \cup ShutdownLabels]
    /\ \A r \in Requests : pc[r] \in Labels
    /\ pc[Shutdown] \in ShutdownLabels
    /\ cmd \in [Requests -> AllCommands]
    /\ reply \in [Requests -> {"none", "sent", "broken"}]
    /\ cont \in [Actors -> {"reply", "on_disks", "except", "halted"}]
    /\ \A r \in Requests : cont[r] # "halted"
    /\ cont[Shutdown] = "halted"
    /\ accepting \in BOOLEAN
    /\ servingCount \in Nat
    /\ serving \in BOOLEAN
    /\ checksumAllow \in BOOLEAN
    /\ state \in {"ONLINE", "OFFLINE"}
    /\ subState \in {"IDLE", "BUSY"}
    /\ busyCount \in Nat
    /\ stateSem \in Requests \cup {Nobody}
    /\ disks \in BOOLEAN
    /\ task \in [bg : BOOLEAN, stop : BOOLEAN, live : Nat]
    /\ staged \subseteq Requests
    /\ holders \subseteq Requests
    /\ semLost \in Requests \cup {Nobody}

\* serving_count, incremented on the way into reqCallBack and decremented in its
\* finally clause, is exactly the number of requests inside it and of those that a
\* failing request DB threw out of it: no exit of a command, no refusal and no
\* broken connection leaves it wrong.  It never exceeds the pool while the request
\* DB works, and the serving flag and the data check's permission to compute
\* checksums follow it; after one such failure the permission never comes back.
ServingExact ==
    Alive => /\ servingCount = Cardinality(Counted)
             /\ Leaked = {} => servingCount <= MaxSimReqs
             /\ serving <=> (servingCount > 0)
             /\ checksumAllow <=> ~serving
             /\ Leaked # {} => ~checksumAllow

\* A request that ends (success, 404, 400, an exception before or after the reply
\* went out, a refusal by checkSetState, a failure to record its end) has its
\* answer or its client had already gone away.  Only the request that request_db.add
\* refuses, before the try, ends without one.
AnsweredWhenDone ==
    \A r \in Requests : /\ pc[r] \in {"rejected", "done", "leaked"} => reply[r] # "none"
                        /\ pc[r] = "dropped" => reply[r] = "none"

\* busyCount never counts more than the requests that asked for BUSY and did not
\* yet ask for IDLE, and the Sub-State is IDLE exactly when it is zero: the
\* Sub-State is never BUSY without a request that made it so.
BusyBacked ==
    /\ busyCount <= Cardinality(holders)
    /\ (subState = "IDLE") <=> (busyCount = 0)

\* Only commands that go through checkSetState hold the state semaphore, one at a
\* time: it is held exactly while its holder is between the check and the set, and
\* after that only by an OFFLINE whose setState could not write the State to the DB,
\* which leaves the server OFFLINE in memory and keeps the semaphore for good.  A
\* refusal, an ARCHIVE or a RETRIEVE never keeps it.
SemaphoreHeld ==
    Alive => /\ \A r \in Requests : (stateSem = r) <=> (pc[r] = "set" \/ semLost = r)
             /\ semLost # Nobody => WritesState(cmd[semLost]) /\ pc[semLost] # "set"

\* What checkSetState verified still holds when it sets: a plain OFFLINE takes the
\* server from ONLINE to OFFLINE only while the Sub-State is IDLE, and the server
\* becomes BUSY only while it is ONLINE, although setSubState(IDLE) and the
\* setState(ONLINE) of handleOnline do not take the state semaphore.
CheckedSet ==
    [][ /\ (state = "ONLINE" /\ state' = "OFFLINE") =>
              \E r \in Requests : /\ pc[r] = "set"
                                  /\ cmd[r] = "OFFLINE_FORCE" \/ subState = "IDLE"
        /\ busyCount' > busyCount => state = "ONLINE" ]_vars


-----------------------------------------------------------------------------
(* What the documentation says of the states.                              *)

\* "an IDLE or BUSY sub-state represents the activity that is going on on the
\* server" (doc/server.rst): while a request that set BUSY is being worked on the
\* Sub-State is BUSY.
BusyWhileActive == (\E r \in holders : pc[r] \in {"work", "staged"}) => subState = "BUSY"

\* "If the current state/sub-state allows the operation it will continue without
\* interruptions" (doc/server.rst): the staging file of an archive request that
\* was let in stays where it is until the request is through with it.
StagedFileKept == \A r \in Requests : pc[r] = "staged" => r \in staged

NoTransition == \A a \in Actors :
    pc[a] \notin {"off_tasks", "off_staging", "off_disks", "on_disks", "on_space",
                  "on_staging", "on_tasks", "on_state"}

\* "The Cache Control Thread runs periodically when the NG/AMS Server is Online"
\* (cacheControlThread), and the same is said of the data check: while the server
\* is Online and no command moves it, its background task is not told to stop.
TaskRunsOnline == (state = "ONLINE" /\ NoTransition /\ task.bg) => ~task.stop

\* "Release the State Semaphore acquired with takeStateSem" (relStateSem): nobody is
\* left waiting for a semaphore whose holder is through.
SemaphoreReturned == Alive => semLost = Nobody

\* "The state is meant to represent the availability of the NGAS service"
\* (doc/server.rst): an Online server that no command moves has its disks.
OnlineAvailable == (state = "ONLINE" /\ NoTransition) => disks
=============================================================================
