------------------------------ MODULE DataCheck ------------------------------
(***************************************************************************)
(* The Data Consistency Check: a background thread that, cycle after       *)
(* cycle, compares the files on the volumes that are due with their rows   *)
(* in ngas_files, with sub-threads that share one queue per volume.  The   *)
(* queues are files and survive the server.  While it runs, files are      *)
(* archived, discarded, damaged and lost, the service may be stopped, and  *)
(* the server may be killed.                                               *)
(***************************************************************************)
EXTENDS Integers, FiniteSets

CONSTANTS
    Disks,       \* the volumes of the host
    Files,       \* the places for files on them
    DiskOf,      \* DiskOf[f]: the volume of f
    Registered,  \* the files archived beforehand
    Orphans,     \* the files on the volumes that have no row
    Threads,     \* the sub-threads; their number is DataCheckMaxProcs
    Scan,        \* DataCheckScan: the checksums are not compared
    Events,      \* the events that may happen, a subset of EventKinds
    MaxEvents,   \* bound on the number of events
    None         \* no volume, no file, no thread

\* rot, vanish: a file is damaged or lost; archive, discard: a request adds or removes
\* one; db: setLastCheckDisk fails; stop: the service is stopped; crash: it is killed.
EventKinds == {"rot", "vanish", "archive", "discard", "db", "stop", "crash"}

ASSUME DataCheckConfig ==
    /\ DiskOf \in [Files -> Disks] /\ Registered \cap Orphans = {} /\ Registered \cup Orphans \subseteq Files
    /\ Threads # {} /\ Scan \in BOOLEAN /\ Events \subseteq EventKinds /\ MaxEvents \in Nat
    /\ None \notin Disks \cup Files \cup Threads /\ IsFiniteSet(Disks) /\ IsFiniteSet(Threads)

VARIABLES
    row, vol,     \* row[f]: "none", "ok" or "bad"; vol[f]: "none", "good", "rot"
    moving,       \* files a request has put on or taken off a volume, its row not yet
    due,          \* the volumes whose last_check is too long ago
    queue,        \* queue[d]: the files of the QUEUE DBM on disk, or NoQueue
    main,         \* what the thread does next
    disks, mem,   \* disks_to_check; mem[d]: the DBM opened in this cycle
    left,         \* left[d]: what getNext has still to return
    found,        \* all_files: on the volumes, and not seen in a queue
    ids, sched,   \* disk_ids; diskSchedDic, None for a thread that is not in it
    sem,          \* the thread that holds reqFileInfoSem
    sub,          \* sub[t]: what sub-thread t does next, and with which file
    errors,       \* the ERRORS DBMs
    unreg,        \* the files found unregistered
    stop, stopSum,\* stopEvt and checksum_stop_evt
    allow,        \* checksum_allow_evt: no request is being served
    done,         \* files whose check ended in this cycle
    blamed,       \* files that were damaged, lost, discarded or half checked
    events        \* the number of events so far

env == <<row, vol, moving, blamed>>
cyc == <<disks, mem, left, found, ids, sched, sem, sub, unreg, done>>
vars == <<row, vol, moving, due, queue, main, disks, mem, left, found, ids, sched, sem, sub,
          errors, unreg, stop, stopSum, allow, done, blamed, events>>

NoQueue == {None}
On(d) == {f \in Files : DiskOf[f] = d}
Rest == [pc |-> "none", f |-> None]
SubSteps == {"none", "next", "pick", "look", "sum", "mark", "stat", "pause"}
MainSteps == {"begin", "dump", "walk", "run", "join", "cross", "report", "last", "wait", "off"}

TypeOK ==
    /\ row \in [Files -> {"none", "ok", "bad"}] /\ vol \in [Files -> {"none", "good", "rot"}]
    /\ moving \subseteq Files /\ due \subseteq Disks /\ disks \subseteq Disks
    /\ main \in MainSteps /\ stop \in BOOLEAN /\ stopSum \in BOOLEAN /\ allow \in BOOLEAN
    /\ \A d \in Disks : queue[d] \subseteq On(d) \/ queue[d] = NoQueue
    /\ \A d \in Disks : mem[d] \subseteq On(d) /\ left[d] \subseteq mem[d]
    /\ found \subseteq Files /\ errors \subseteq Files /\ unreg \subseteq Files
    /\ ids \subseteq disks /\ sem \in Threads \cup {None}
    /\ \A t \in Threads : sched[t] \in ids \cup {None}
    /\ \A t \in Threads : sub[t].pc \in SubSteps /\ sub[t].f \in Files \cup {None}
    /\ done \subseteq Files /\ blamed \subseteq Files /\ events \in 0 .. MaxEvents

Init ==
    /\ row = [f \in Files |-> IF f \in Registered THEN "ok" ELSE "none"]
    /\ vol = [f \in Files |-> IF f \in Registered \cup Orphans THEN "good" ELSE "none"]
    /\ moving = {} /\ due = Disks /\ queue = [d \in Disks |-> NoQueue] /\ main = "begin"
    /\ disks = {} /\ mem = [d \in Disks |-> {}] /\ left = [d \in Disks |-> {}] /\ found = {}
    /\ ids = {} /\ sched = [t \in Threads |-> None] /\ sem = None /\ sub = [t \in Threads |-> Rest]
    /\ errors = {} /\ unreg = {} /\ stop = FALSE /\ stopSum = FALSE /\ allow = TRUE
    /\ done = {} /\ blamed = {} /\ events = 0

Event(e) == e \in Events /\ events < MaxEvents /\ events' = events + 1

-----------------------------------------------------------------------------
(***************************************************************************)
(* A cycle: the queues.                                                    *)
(***************************************************************************)

\* _stopDataCheckThr between two steps of _dumpFileInfo
Stopped == /\ main \in {"begin", "dump", "walk", "wait"} /\ stop /\ main' = "off"
           /\ UNCHANGED <<env, cyc, due, queue, errors, stop, stopSum, allow, events>>

\* get_disks_to_check; the queues of other volumes are removed with their errors.
get_disks_to_check ==
    /\ main = "begin" /\ ~stop /\ main' = "dump" /\ disks' = due
    /\ queue' = [d \in Disks |-> IF d \in due THEN queue[d] ELSE NoQueue]
    /\ errors' = {f \in errors : DiskOf[f] \in due \/ queue[DiskOf[f]] = NoQueue}
    /\ mem' = [d \in Disks |-> {}] /\ left' = [d \in Disks |-> {}]
    /\ found' = {} /\ ids' = {} /\ sched' = [t \in Threads |-> None] /\ sem' = None
    /\ sub' = [t \in Threads |-> Rest] /\ unreg' = {} /\ done' = {}
    /\ UNCHANGED <<env, due, stop, stopSum, allow, events>>

\* A queue left by an earlier cycle is used as it is; a new one holds all rows.
QueueOf(d) == IF queue[d] # NoQueue THEN queue[d] ELSE {f \in On(d) : row[f] # "none"}

_dumpFileInfo(d) ==
    /\ main = "dump" /\ ~stop /\ d \in disks \ ids
    /\ queue' = [queue EXCEPT ![d] = QueueOf(d)]
    /\ mem' = [mem EXCEPT ![d] = QueueOf(d)] /\ left' = [left EXCEPT ![d] = QueueOf(d)]
    /\ ids' = ids \cup {d}
    /\ UNCHANGED <<env, due, main, disks, found, sched, sem, sub, errors, unreg, stop, stopSum, allow, done, events>>

\* Mutant: a volume with an empty queue is not walked.
collectQueuedOnly ==
    /\ main = "dump" /\ ~stop /\ ids = disks /\ main' = "walk"
    /\ found' = {f \in Files : DiskOf[f] \in disks /\ mem[DiskOf[f]] # {} /\ vol[f] # "none"}
    /\ UNCHANGED <<env, due, queue, disks, mem, left, ids, sched, sem, sub, errors, unreg, stop, stopSum, allow, done, events>>

\* os.walk over the volumes
collect_files_on_disk ==
    /\ main = "dump" /\ ~stop /\ ids = disks /\ main' = "walk"
    /\ found' = {f \in Files : DiskOf[f] \in disks /\ vol[f] # "none"}
    /\ UNCHANGED <<env, due, queue, disks, mem, left, ids, sched, sem, sub, errors, unreg, stop, stopSum, allow, done, events>>

\* min(len(disks_to_check), DataCheckMaxProcs) sub-threads
StartThreads ==
    /\ main = "walk" /\ ~stop /\ main' = "run"
    /\ \E ts \in SUBSET Threads :
          /\ Cardinality(ts) = IF Cardinality(disks) < Cardinality(Threads)
                               THEN Cardinality(disks) ELSE Cardinality(Threads)
          /\ sub' = [t \in Threads |-> IF t \in ts THEN [pc |-> "next", f |-> None] ELSE Rest]
    /\ UNCHANGED <<env, due, queue, disks, mem, left, found, ids, sched, sem, errors, unreg, stop, stopSum, allow, done, events>>

-----------------------------------------------------------------------------
(***************************************************************************)
(* A sub-thread.                                                           *)
(***************************************************************************)

To(t, pc) == sub' = [sub EXCEPT ![t].pc = pc]

\* _stopDataCheckThr at the head of the loop, after checkFile and in suspend
SubStop(t) ==
    /\ sub[t].pc \in {"next", "stat", "pause"} /\ stop
    /\ sub' = [sub EXCEPT ![t] = Rest]
    /\ UNCHANGED <<env, due, queue, main, disks, mem, left, found, ids, sched, sem, errors, unreg, stop, stopSum, allow, done, events>>

\* _schedNextFile takes reqFileInfoSem.
SubNext(t) ==
    /\ sub[t].pc = "next" /\ ~stop /\ sem = None /\ sem' = t /\ To(t, "pick")
    /\ UNCHANGED <<env, due, queue, main, disks, mem, left, found, ids, sched, errors, unreg, stop, stopSum, allow, done, events>>

\* The entries a thread that has just chosen volume d goes on with: initKeyPtr unless
\* another thread is at it
ReadFrom(d, t) == IF sched[t] = None /\ \A u \in Threads : sched[u] # d THEN mem[d] ELSE left[d]

\* The volume a thread reads next: its own, or any that is left
Choices(t) == IF sched[t] # None THEN {sched[t]} ELSE ids

\* getNext returns a file; it is taken out of all_files.
PickFile(t, d, f) ==
    /\ sub[t].pc = "pick" /\ d \in Choices(t) /\ f \in ReadFrom(d, t)
    /\ left' = [left EXCEPT ![d] = ReadFrom(d, t) \ {f}]
    /\ sched' = [sched EXCEPT ![t] = d] /\ sem' = None /\ found' = found \ {f}
    /\ sub' = [sub EXCEPT ![t] = [pc |-> "look", f |-> f]]
    /\ UNCHANGED <<env, due, queue, main, disks, mem, ids, errors, unreg, stop, stopSum, allow, done, events>>

\* Mutant: only the thread that reaches the end is taken off the volume.
PickEndOwnOnly(t, d) ==
    /\ sub[t].pc = "pick" /\ d \in Choices(t) /\ ReadFrom(d, t) = {}
    /\ queue' = [queue EXCEPT ![d] = NoQueue] /\ due' = due \ {d} /\ ids' = ids \ {d}
    /\ \E n \in IF ids' = {} THEN {None} ELSE ids' : sched' = [sched EXCEPT ![t] = n]
    /\ IF ids' = {} THEN sem' = None /\ sub' = [sub EXCEPT ![t] = Rest] ELSE UNCHANGED <<sem, sub>>
    /\ UNCHANGED <<env, main, disks, mem, left, found, errors, unreg, stop, stopSum, allow, done, events>>

\* Mutant: the last entry of a queue is taken for its end.
PickEndEarly(t, d) ==
    /\ sub[t].pc = "pick" /\ d \in Choices(t) /\ Cardinality(ReadFrom(d, t)) <= 1
    /\ queue' = [queue EXCEPT ![d] = NoQueue] /\ due' = due \ {d} /\ ids' = ids \ {d}
    /\ \E n \in IF ids' = {} THEN {None} ELSE ids' :
          sched' = [u \in Threads |-> IF u = t THEN n ELSE IF sched[u] = d THEN None ELSE sched[u]]
    /\ IF ids' = {} THEN sem' = None /\ sub' = [sub EXCEPT ![t] = Rest] ELSE UNCHANGED <<sem, sub>>
    /\ UNCHANGED <<env, main, disks, mem, left, found, errors, unreg, stop, stopSum, allow, done, events>>

\* The end of a queue: its file is removed, setLastCheckDisk, and every thread is taken
\* off the volume; this one goes on with another.
PickEnd(t, d) ==
    /\ sub[t].pc = "pick" /\ d \in Choices(t) /\ ReadFrom(d, t) = {}
    /\ queue' = [queue EXCEPT ![d] = NoQueue] /\ due' = due \ {d} /\ ids' = ids \ {d}
    /\ \E n \in IF ids' = {} THEN {None} ELSE ids' :
          sched' = [u \in Threads |-> IF u = t THEN n ELSE IF sched[u] = d THEN None ELSE sched[u]]
    /\ IF ids' = {} THEN sem' = None /\ sub' = [sub EXCEPT ![t] = Rest] ELSE UNCHANGED <<sem, sub>>
    /\ UNCHANGED <<env, main, disks, mem, left, found, errors, unreg, stop, stopSum, allow, done, events>>

\* setLastCheckDisk fails: the queue's file is gone, the cursor at its start again.
PickFails(t, d) ==
    /\ sub[t].pc = "pick" /\ d \in Choices(t) /\ ReadFrom(d, t) = {} /\ Event("db")
    /\ queue' = [queue EXCEPT ![d] = NoQueue] /\ left' = [left EXCEPT ![d] = mem[d]]
    /\ sched' = [sched EXCEPT ![t] = d] /\ sem' = None /\ To(t, "pause")
    /\ UNCHANGED <<env, due, main, disks, mem, found, ids, errors, unreg, stop, stopSum, allow, done>>

\* No volume is left: the thread ends.
PickNothing(t) ==
    /\ sub[t].pc = "pick" /\ Choices(t) = {} /\ sem' = None /\ sub' = [sub EXCEPT ![t] = Rest]
    /\ UNCHANGED <<env, due, queue, main, disks, mem, left, found, ids, sched, errors, unreg, stop, stopSum, allow, done, events>>

\* checkFile: does the file exist, is its size right?
checkFile(t) ==
    /\ sub[t].pc = "look"
    /\ LET f == sub[t].f
       IN \/ vol[f] = "none" /\ To(t, "mark")
          \/ vol[f] = "rot" /\ To(t, "mark")                 \* its size differs
          \/ vol[f] # "none" /\ To(t, IF Scan THEN "stat" ELSE "sum")
    /\ UNCHANGED <<env, due, queue, main, disks, mem, left, found, ids, sched, sem, errors, unreg, stop, stopSum, allow, done, events>>

\* Mutant: a checksum given up because of stopEvt counts as a wrong one.
do_checksumStopEvt(t) ==
    /\ sub[t].pc = "sum" /\ (allow \/ vol[sub[t].f] = "none")
    /\ LET f == sub[t].f
       IN /\ To(t, IF vol[f] = "none" THEN "stat" ELSE IF stop \/ vol[f] = "rot" THEN "mark" ELSE "stat")
          /\ blamed' = IF stopSum /\ vol[f] # "none" THEN blamed \cup {f} ELSE blamed
    /\ UNCHANGED <<row, vol, moving, due, queue, main, disks, mem, left, found, ids, sched, sem, errors, unreg, stop, stopSum, allow, done, events>>

\* get_checksum_interruptible: an exception if the file has gone, after which the check
\* just ends; else it waits while requests are served, and returns None once
\* checksum_stop_evt is set, which no checksum equals.
do_checksum(t) ==
    /\ sub[t].pc = "sum" /\ (allow \/ vol[sub[t].f] = "none")
    /\ LET f == sub[t].f
       IN /\ To(t, IF vol[f] = "none" THEN "stat" ELSE IF stopSum \/ vol[f] = "rot" THEN "mark" ELSE "stat")
          /\ blamed' = IF stopSum /\ vol[f] # "none" THEN blamed \cup {f} ELSE blamed
    /\ UNCHANGED <<row, vol, moving, due, queue, main, disks, mem, left, found, ids, sched, sem, errors, unreg, stop, stopSum, allow, done, events>>

\* Mutant: the row is left as it is.
MarkNothing(t) ==
    /\ sub[t].pc = "mark" /\ To(t, "stat") /\ errors' = errors \cup {sub[t].f}
    /\ UNCHANGED <<env, due, queue, main, disks, mem, left, found, ids, sched, sem, unreg, stop, stopSum, allow, done, events>>

\* set_valid_checksum(False) and the error report; it raises if the row has gone.
Mark(t) ==
    /\ sub[t].pc = "mark"
    /\ LET f == sub[t].f
       IN IF row[f] = "none" THEN To(t, "pause") /\ done' = done \cup {f} /\ UNCHANGED <<row, errors>>
          ELSE /\ row' = [row EXCEPT ![f] = "bad"] /\ errors' = errors \cup {f}
               /\ To(t, "stat") /\ UNCHANGED done
    /\ UNCHANGED <<vol, moving, blamed, due, queue, main, disks, mem, left, found, ids, sched, sem, unreg, stop, stopSum, allow, events>>

_updateFileCheckStatus(t) ==
    /\ sub[t].pc = "stat" /\ ~stop /\ done' = done \cup {sub[t].f}
    /\ sub' = [sub EXCEPT ![t] = [pc |-> "next", f |-> None]]
    /\ UNCHANGED <<env, due, queue, main, disks, mem, left, found, ids, sched, sem, errors, unreg, stop, stopSum, allow, events>>

\* suspend(stopEvt, 2) after an exception
SubPause(t) ==
    /\ sub[t].pc = "pause" /\ ~stop /\ sub' = [sub EXCEPT ![t] = [pc |-> "next", f |-> None]]
    /\ UNCHANGED <<env, due, queue, main, disks, mem, left, found, ids, sched, sem, errors, unreg, stop, stopSum, allow, done, events>>

-----------------------------------------------------------------------------
(***************************************************************************)
(* A cycle: its end.                                                       *)
(***************************************************************************)

Alive == {t \in Threads : sub[t].pc # "none"}

\* Stopped while the sub-threads run: checksums are told to stop too, and let go for that.
StopRun ==
    /\ main = "run" /\ stop /\ stopSum' = TRUE /\ allow' = TRUE /\ main' = "join"
    /\ UNCHANGED <<env, cyc, due, queue, errors, stop, events>>

\* join(10): the sub-threads have ended, or are left alone.
Join ==
    /\ main = "join" /\ main' = "off"
    /\ UNCHANGED <<env, cyc, due, queue, errors, stop, stopSum, allow, events>>

\* Mutant: the last sub-thread is not waited for.
EndRunEarly ==
    /\ main = "run" /\ ~stop /\ Cardinality(Alive) <= 1 /\ main' = "cross"
    /\ UNCHANGED <<env, cyc, due, queue, errors, stop, stopSum, allow, events>>

EndRun ==
    /\ main = "run" /\ ~stop /\ Alive = {} /\ main' = "cross"
    /\ UNCHANGED <<env, cyc, due, queue, errors, stop, stopSum, allow, events>>

\* The DB is asked again about each file that was in no queue.
_crossCheckNonRegFiles(f) ==
    /\ main = "cross" /\ f \in found
    /\ found' = found \ {f} /\ unreg' = IF row[f] = "none" THEN unreg \cup {f} ELSE unreg
    /\ UNCHANGED <<env, due, queue, main, disks, mem, left, ids, sched, sem, sub, errors, stop, stopSum, allow, done, events>>

\* _genReport sends the report, and removes the errors of these volumes.
_genReport ==
    /\ main = "cross" /\ found = {} /\ main' = "last"
    /\ errors' = {f \in errors : DiskOf[f] \notin disks}
    /\ UNCHANGED <<env, cyc, due, queue, stop, stopSum, allow, events>>

\* setLastCheckDisk for all of them; the thread then waits, not looking at stopEvt before.
setLastCheckDisk ==
    /\ main = "last" /\ main' = "wait" /\ due' = due \ disks
    /\ UNCHANGED <<env, cyc, queue, errors, stop, stopSum, allow, events>>

\* The minimum cycle time of all volumes passes.
Wait ==
    /\ main = "wait" /\ ~stop /\ main' = "begin" /\ due' = Disks
    /\ UNCHANGED <<env, cyc, queue, errors, stop, stopSum, allow, events>>

-----------------------------------------------------------------------------
(***************************************************************************)
(* Everything else.                                                        *)
(***************************************************************************)

others == <<cyc, due, queue, main, errors, stop, stopSum, allow>>

Rot(f) ==
    /\ Event("rot") /\ vol[f] = "good" /\ vol' = [vol EXCEPT ![f] = "rot"]
    /\ blamed' = blamed \cup {f} /\ UNCHANGED <<row, moving, others>>

Vanish(f) ==
    /\ Event("vanish") /\ vol[f] # "none" /\ f \notin Orphans /\ vol' = [vol EXCEPT ![f] = "none"]
    /\ blamed' = blamed \cup {f} /\ UNCHANGED <<row, moving, others>>

\* A request puts a file in its place, and writes its row later.
ArchiveFile(f) ==
    /\ Event("archive") /\ vol[f] = "none" /\ row[f] = "none" /\ f \notin moving
    /\ vol' = [vol EXCEPT ![f] = "good"] /\ moving' = moving \cup {f}
    /\ UNCHANGED <<row, blamed, others>>

\* DISCARD removes a file, and its row later.
DiscardFile(f) ==
    /\ Event("discard") /\ row[f] # "none" /\ f \notin moving
    /\ vol' = [vol EXCEPT ![f] = "none"] /\ moving' = moving \cup {f}
    /\ blamed' = blamed \cup {f} /\ UNCHANGED <<row, others>>

WriteRow(f) ==
    /\ f \in moving /\ moving' = moving \ {f}
    /\ row' = [row EXCEPT ![f] = IF row[f] = "none" THEN "ok" ELSE "none"]
    /\ UNCHANGED <<vol, blamed, others, events>>

Stop ==
    /\ Event("stop") /\ ~stop /\ stop' = TRUE
    /\ UNCHANGED <<env, cyc, due, queue, main, errors, stopSum, allow>>

\* serving_listener: the first of some requests, or the end of the last
Serving(b) ==
    /\ allow = b /\ allow' = ~b
    /\ UNCHANGED <<env, cyc, due, queue, main, errors, stop, stopSum, events>>

\* ONLINE after OFFLINE: a new thread of the same server, with the events that nobody clears
\* and beside the sub-threads that were left alone; it ends where it first looks at stopEvt.
Online ==
    /\ main = "off" /\ main' = "begin"
    /\ UNCHANGED <<env, cyc, due, queue, errors, stop, stopSum, allow, events>>

\* A server starts: the queues are still there; what an earlier one wrote to the ERRORS
\* DBMs is there after an orderly stop, and may or may not be after a crash.
Boot ==
    /\ main' = "begin" /\ stop' = FALSE /\ stopSum' = FALSE /\ allow' = TRUE
    /\ sub' = [t \in Threads |-> Rest] /\ sem' = None /\ disks' = {} /\ ids' = {} /\ found' = {}
    /\ sched' = [t \in Threads |-> None] /\ mem' = [d \in Disks |-> {}]
    /\ left' = [d \in Disks |-> {}] /\ unreg' = {} /\ done' = {}
    /\ UNCHANGED <<env, due, queue>>

Restart == main = "off" /\ Boot /\ UNCHANGED <<errors, events>>

Crash == Event("crash") /\ Boot /\ errors' \in {{}, errors}

-----------------------------------------------------------------------------
Main == \/ Stopped \/ get_disks_to_check \/ collect_files_on_disk \/ StartThreads
        \/ StopRun \/ Join \/ EndRun \/ _genReport \/ setLastCheckDisk \/ Wait
        \/ \E d \in Disks : _dumpFileInfo(d)
        \/ \E f \in Files : _crossCheckNonRegFiles(f)

Sub(t) == \/ SubStop(t) \/ SubNext(t) \/ PickNothing(t) \/ checkFile(t) \/ do_checksum(t)
          \/ Mark(t) \/ _updateFileCheckStatus(t) \/ SubPause(t)
          \/ \E d \in Disks, f \in Files : PickFile(t, d, f)
          \/ \E d \in Disks : PickEnd(t, d)

Environment == \/ \E f \in Files : Rot(f) \/ Vanish(f) \/ ArchiveFile(f) \/ DiscardFile(f)
               \/ \E t \in Threads, d \in Disks : PickFails(t, d)
               \/ Stop \/ Crash \/ \E b \in BOOLEAN : Serving(b)

Next == \/ Main \/ Environment \/ Online \/ Restart
        \/ \E t \in Threads : Sub(t)
        \/ \E f \in Files : WriteRow(f)

Spec == Init /\ [][Next]_vars

\* The thread and its sub-threads go on; Python's Lock may overtake a waiting sub-thread,
\* but not for ever, the others having an end to reach, and Event.wait returns when the
\* event has been set, even if it is cleared again at once.  Requests finish.
Fairness ==
    /\ WF_vars(Main) /\ \A t \in Threads : SF_vars(Sub(t))
    /\ \A f \in Files : WF_vars(WriteRow(f))

FairSpec == Spec /\ Fairness

-----------------------------------------------------------------------------
(***************************************************************************)
(* Properties.                                                             *)
(***************************************************************************)

\* A file is marked bad only if it was damaged, lost or discarded, or if the service was
\* stopped while its checksum was being computed (get_checksum_interruptible).
BadOnlyIfDamaged == \A f \in Files : row[f] = "bad" => f \in blamed

\* What checkFile's comment "If file is OK but is marked as 'bad', reset the flag"
\* promises: no intact file stays marked bad after a cycle in which it was checked.
IntactIsGood == \A f \in Files : main = "wait" /\ f \in done /\ vol[f] = "good" => row[f] # "bad"

\* When the sub-threads have ended, each file of each queue of the cycle was checked to
\* the end, however the threads shared the queues and whatever failed.
AllChecked == main \in {"cross", "last"} => \A d \in disks : mem[d] \subseteq done

\* The files reported as not registered are those that were on the volumes of the cycle
\* without a row: all such files that were there all the time, and no registered one.
UnregisteredFound ==
    main = "last" => /\ {f \in Orphans : DiskOf[f] \in disks} \subseteq unreg
                     /\ unreg \cap Registered \subseteq blamed

\* A cycle of the Data Check looks at every queued file, finds every unregistered one, and blames
\* none that is intact unless a stop cut its checksum short.
ChecksTrue == TypeOK /\ BadOnlyIfDamaged /\ AllChecked /\ UnregisteredFound

\* A volume counts as checked (last_check) only when each file of its queue was checked,
\* or is at least in the hands of a sub-thread, unless the service is being stopped:
\* never with files nobody took.
LastCheckAfterQueue ==
    [][\A d \in due \ due' : /\ d \in disks
                             /\ \A f \in mem[d] : stop \/ f \in done \/ \E t \in Threads : sub[t].f = f]_vars

\* A damaged or lost file is marked bad in the end, unless its row goes or the service is
\* stopped, provided that the server is idle again and again: checksums stand still while
\* requests are served, and a service once stopped by OFFLINE checks nothing after ONLINE.
DamageFound ==
    []<>allow => \A f \in Files : (vol[f] # "good" /\ row[f] = "ok") ~> (row[f] # "ok" \/ stop)

\* No volume counts as checked with files left over, and damage is found in the end.
DamageDetected == LastCheckAfterQueue /\ DamageFound

=============================================================================
