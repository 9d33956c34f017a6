------------------------------ MODULE Mirroring ------------------------------
(***************************************************************************)
(* Mirroring between clusters by the book-keeping table (the ALMA scheme). *)
(* The mirroring master runs MIRRTABLE again and again: an iteration that  *)
(* enters the files the target cluster lacks, and those to be resumed,     *)
(* into ngas_mirroring_bookkeeping and assigns them to target nodes.  A    *)
(* thread per iteration then asks the targets to execute it (MIRREXEC),    *)
(* whose workers fetch the files (MIRRARCHIVE).  Iterations overlap; the   *)
(* table is all that the master, the threads and the targets share.        *)
(*                                                                         *)
(* Nothing keeps a second MIRRTABLE from starting while one is at work:    *)
(* every server with a control thread sends them, and the thread gives one *)
(* up after six hours and starts another.  Both enter the same files then. *)
(* Left out: two that read the same number before either has entries.      *)
(*                                                                         *)
(* Every file of the source cluster is considered (no baselineDate), none  *)
(* is excluded, and the source nodes are all on-line.                      *)
(***************************************************************************)
EXTENDS Integers, FiniteSets

CONSTANTS
    Files,      \* the files of the source cluster
    First,      \* those it has from the start
    Targets,    \* the nodes of the target cluster, each with one volume
    Cleaners,   \* those of them with a mirroring control thread, which cleans up when they come Online
    Fetches,    \* numParallelFetches: the fetches allowed per target
    FileLimit,  \* iterationFileLimit
    MaxIter,    \* bound on the iterations
    Events,     \* the events that may happen, a subset of EventKinds
    MaxEvents,  \* bound on the number of events
    None        \* no target, no staging file

\* fail, cut: a fetch fails, or breaks off with bytes received; space: no volume has
\* room for a file; timeout: a MIRREXEC request is given up by the master; offline: a
\* target goes Offline, and Online later; crash: a target is killed and restarted;
\* master: the master is; again: a MIRRTABLE starts while another one is at work.
EventKinds == {"fail", "cut", "space", "timeout", "offline", "crash", "master", "again"}
Status == {"none", "LOCKED", "READY", "FETCHING", "TORESUME", "SUCCESS", "FAILURE", "ABORTED"}

Iters == 1 .. MaxIter
Keys == Files \X Iters

ASSUME MirroringConfig ==
    /\ First \subseteq Files /\ Cleaners \subseteq Targets /\ Fetches \in Nat \ {0} /\ FileLimit \in Nat
    /\ MaxIter \in Nat \ {0} /\ Events \subseteq EventKinds /\ MaxEvents \in Nat
    /\ None \notin Targets /\ \A sg \in {None, "vol"} : sg \notin Keys

VARIABLES
    book,    \* book[k]: the entry of a file in an iteration: status, target_host, staging_file
    src,     \* the files archived at the source so far
    have,    \* have[<<t, f>>]: what target t holds of f, by its row in ngas_files
    stage,   \* stage[k]: the staging file made for the fetch of k: "none", "part", "full", "mixed"
    online,  \* the targets that are Online
    master,  \* master[m]: the next step of a MIRRTABLE, its iteration, the hosts with free
             \* threads and whether it assigned any file; 2 is one that runs beside another
    exec,    \* exec[i]: the steps at which threads execute_mirroring of iteration i are; there
             \* are two when the number of an iteration without entries is used again
    call,    \* call[<<i, t>>]: the MIRREXEC request of iteration i on t
    tasks,   \* tasks[<<i, t>>]: the files in mirroring_tasks_queue of that request
    work,    \* work[k]: the worker that handles k
    shaken,  \* files whose entry was changed while a worker or its queue had them, and all
             \* files once two MIRRTABLEs have overlapped
    events   \* the number of events so far

vars == <<book, src, have, stage, online, master, exec, call, tasks, work, shaken, events>>

\* sg: None, "vol" (only the volume is known) or the key of a staging file
NoEntry == [st |-> "none", t |-> None, sg |-> None]
NoWork == [pc |-> "none", t |-> None, sg |-> None, out |-> "none"]
Tables == 1 .. 2
Idle == [pc |-> "idle", i |-> 0, hosts |-> {}, any |-> FALSE]

TypeOK ==
    /\ \A k \in Keys : book[k].st \in Status /\ book[k].t \in Targets \cup {None}
    /\ have \in [Targets \X Files -> {"none", "good", "mixed"}]
    /\ stage \in [Keys -> {"none", "part", "full", "mixed"}] /\ online \subseteq Targets
    /\ \A m \in Tables : master[m].i \in 0 .. MaxIter
    /\ \A m \in Tables : master[m].pc \in {"idle", "resume", "retire", "limit", "hosts", "assign"}
    /\ exec \in [Iters -> SUBSET {"send", "wait"}]
    /\ call \in [Iters \X Targets -> {"none", "asked", "run"}]
    /\ tasks \in [Iters \X Targets -> SUBSET Files]
    /\ \A k \in Keys : work[k].pc \in {"none", "fetch", "move", "insert", "status"}
    /\ src \subseteq Files /\ shaken \subseteq Files /\ events \in 0 .. MaxEvents

Init ==
    /\ book = [k \in Keys |-> NoEntry] /\ src = First /\ have = [p \in Targets \X Files |-> "none"]
    /\ stage = [k \in Keys |-> "none"] /\ online = Targets /\ master = [m \in Tables |-> Idle]
    /\ exec = [i \in Iters |-> {}] /\ call = [p \in Iters \X Targets |-> "none"]
    /\ tasks = [p \in Iters \X Targets |-> {}] /\ work = [k \in Keys |-> NoWork]
    /\ shaken = {} /\ events = 0

Event(e) == e \in Events /\ events < MaxEvents /\ events' = events + 1

-----------------------------------------------------------------------------
(***************************************************************************)
(* The table.                                                              *)
(***************************************************************************)

\* The entries with a status in S, of target t unless None, of iteration i unless 0
Entries(S, t, i) == {k \in Keys : book[k].st \in S /\ (t = None \/ book[k].t = t) /\ (i = 0 \/ k[2] = i)}

\* The table after the entries ks got status st; null: their staging_file is reset
Updated(ks, st, null) ==
    [k \in Keys |-> IF k \notin ks THEN book[k]
                    ELSE [book[k] EXCEPT !.st = st, !.sg = IF null THEN None ELSE book[k].sg]]
Deleted(ks) == [k \in Keys |-> IF k \in ks THEN NoEntry ELSE book[k]]

\* Files that a live worker or the queue of a request has, of the entries ks
Held(ks) == {f \in Files : \E k \in ks :
                k[1] = f /\ (work[k].pc # "none" \/ \E t \in Targets : f \in tasks[<<k[2], t>>])}

\* get_mirroring_iteration: one more than any in the table
get_mirroring_iteration == LET used == {k[2] : k \in Entries(Status \ {"none"}, None, 0)}
                           IN IF used = {} THEN 1 ELSE 1 + CHOOSE i \in used : \A j \in used : j <= i

\* generate_diff_ngas_files_query: in the source, not held by the target cluster, and
\* without an entry that will still be fetched
source_files == src
target_files == {f \in Files : \E t \in Targets : have[<<t, f>>] # "none"}
Missing == {f \in source_files \ target_files :
                  \A k \in Entries({"READY", "TORESUME", "FETCHING"}, None, 0) : k[1] # f}

\* The entries of a new iteration.
insert_missing(i) ==
    [k \in Keys |-> IF k[2] = i /\ k[1] \in Missing THEN [NoEntry EXCEPT !.st = "LOCKED"] ELSE book[k]]

\* get_num_available_download_threads
FreeFetches == Cardinality(Targets) * Fetches - Cardinality(Entries({"FETCHING"}, None, 0))

-----------------------------------------------------------------------------
(***************************************************************************)
(* MIRRTABLE, sent by the control thread of the master.                    *)
(***************************************************************************)

\* It may start while another one is at work, and then enters the files that one has
\* entered and not yet assigned (they are LOCKED) and copies what that one is copying.
Starts(m) ==
    /\ master[m].pc = "idle" /\ FreeFetches > 0 /\ get_mirroring_iteration <= MaxIter
    /\ \A n \in Tables : master[n].pc # "idle" => master[n].i # get_mirroring_iteration
    /\ \/ m = 1 /\ (\A n \in Tables : master[n].pc = "idle") /\ UNCHANGED <<shaken, events>>
       \/ (\E n \in Tables : master[n].pc # "idle") /\ Event("again") /\ shaken' = Files

\* Mutant: files that are being fetched are entered again.
PopulateAll(m) ==
    /\ Starts(m)
    /\ LET i == get_mirroring_iteration
       IN /\ book' = [k \in Keys |-> IF k[2] = i /\ k[1] \in src /\ \A t \in Targets : have[<<t, k[1]>>] = "none"
                                     THEN [NoEntry EXCEPT !.st = "LOCKED"] ELSE book[k]]
          /\ master' = [master EXCEPT ![m] = [Idle EXCEPT !.pc = "resume", !.i = i]]
    /\ UNCHANGED <<src, have, stage, online, exec, call, tasks, work>>

populate_mirroring_bookkeeping_table(m) ==
    /\ Starts(m)
    /\ LET i == get_mirroring_iteration
       IN /\ book' = insert_missing(i)
          /\ master' = [master EXCEPT ![m] = [Idle EXCEPT !.pc = "resume", !.i = i]]
    /\ UNCHANGED <<src, have, stage, online, exec, call, tasks, work>>

\* reassign_broken_downloads: a READY copy of each TORESUME entry, which then fails.
Resumable(f) == {k \in Entries({"TORESUME"}, None, 0) : k[1] = f}

\* The INSERT breaks the primary key if two entries of a file are to be resumed, or the
\* iteration has one of it already; MIRRTABLE ends with the error, and what it has entered
\* stays LOCKED.
Clash(i) == \E f \in Files : Resumable(f) # {} /\ (Cardinality(Resumable(f)) > 1 \/ book[<<f, i>>].st # "none")

ResumeFails(m) ==
    /\ master[m].pc = "resume" /\ Clash(master[m].i) /\ master' = [master EXCEPT ![m] = Idle]
    /\ UNCHANGED <<book, src, have, stage, online, exec, call, tasks, work, shaken, events>>

reassign_broken_downloads(m) ==
    /\ master[m].pc = "resume" /\ ~Clash(master[m].i) /\ master' = [master EXCEPT ![m].pc = "retire"]
    /\ \E pick \in [Files -> Keys] :
          /\ \A f \in Files : Resumable(f) # {} => pick[f] \in Resumable(f)
          /\ \A f \in Files : Resumable(f) = {} => pick[f] = <<f, master[m].i>>
          /\ book' = [k \in Keys |-> IF k[2] = master[m].i /\ Resumable(k[1]) # {}
                                     THEN [book[pick[k[1]]] EXCEPT !.st = "READY"] ELSE book[k]]
    /\ UNCHANGED <<src, have, stage, online, exec, call, tasks, work, shaken, events>>

\* Mutant: the entries that were copied stay.
RetireNothing(m) ==
    /\ master[m].pc = "retire" /\ master' = [master EXCEPT ![m].pc = "limit"]
    /\ UNCHANGED <<book, src, have, stage, online, exec, call, tasks, work, shaken, events>>

RetireResumed(m) ==
    /\ master[m].pc = "retire" /\ master' = [master EXCEPT ![m].pc = "limit"]
    /\ book' = Updated({k \in Entries({"TORESUME"}, None, 0) : k[2] < master[m].i}, "FAILURE", TRUE)
    /\ UNCHANGED <<src, have, stage, online, exec, call, tasks, work, shaken, events>>

\* All but FileLimit entries of the iteration are deleted, whichever they are.
limit_mirrored_files(m) ==
    /\ master[m].pc = "limit" /\ master' = [master EXCEPT ![m].pc = "hosts"]
    /\ LET mine == Entries(Status \ {"none"}, None, master[m].i)
       IN IF Cardinality(mine) <= FileLimit THEN UNCHANGED book
          ELSE \E keep \in SUBSET mine : Cardinality(keep) = FileLimit /\ book' = Deleted(mine \ keep)
    /\ UNCHANGED <<src, have, stage, online, exec, call, tasks, work, shaken, events>>

\* TargetVolumeAssigner: the Online hosts that are assigned fewer files than they may fetch
AvailableHosts ==
    {t \in online : Cardinality(Entries({"READY", "LOCKED", "FETCHING", "TORESUME"}, t, 0)) < Fetches}

\* Without such a host the request ends, and the entries stay LOCKED.
remove_hosts_without_available_threads(m) ==
    /\ master[m].pc = "hosts"
    /\ master' = IF AvailableHosts = {} THEN [master EXCEPT ![m] = Idle]
                 ELSE [master EXCEPT ![m].pc = "assign", ![m].hosts = AvailableHosts]
    /\ UNCHANGED <<src, book, have, stage, online, exec, call, tasks, work, shaken, events>>

\* assign_mirroring_bookkeeping_entries: one UPDATE per file
AssignFile(m, f, t) ==
    /\ master[m].pc = "assign" /\ t \in master[m].hosts /\ book[<<f, master[m].i>>].st = "LOCKED"
    /\ book' = [book EXCEPT ![<<f, master[m].i>>] = [st |-> "READY", t |-> t, sg |-> "vol"]]
    /\ master' = [master EXCEPT ![m].any = TRUE]
    /\ UNCHANGED <<src, have, stage, online, exec, call, tasks, work, shaken, events>>

\* The files that fit nowhere stay LOCKED.  The thread is started if any file was assigned:
\* entries that are only resumed do not count.
AssignDone(m) ==
    /\ master[m].pc = "assign" /\ master' = [master EXCEPT ![m] = Idle]
    /\ IF Entries({"LOCKED"}, None, master[m].i) # {} THEN Event("space") ELSE UNCHANGED events
    /\ exec' = IF master[m].any THEN [exec EXCEPT ![master[m].i] = exec[master[m].i] \cup {"send"}] ELSE exec
    /\ UNCHANGED <<src, book, have, stage, online, call, tasks, work, shaken>>

-----------------------------------------------------------------------------
(***************************************************************************)
(* execute_mirroring, and MIRREXEC with mirror_cluster on the master.      *)
(***************************************************************************)

\* remove_tasks for a target that does not answer ONLINE, MIRREXEC to the others
distributed_mirroring(i) ==
    /\ "send" \in exec[i] /\ exec' = [exec EXCEPT ![i] = {"wait"}]
    /\ LET asked == {t \in Targets : Entries({"READY"}, t, i) # {}}
           gone == {k \in Entries({"READY", "FETCHING", "TORESUME"}, None, 0) : book[k].t \in asked \ online}
       IN /\ call' = [p \in Iters \X Targets |-> IF p[1] = i /\ p[2] \in asked \cap online THEN "asked" ELSE call[p]]
          /\ book' = Updated(gone, "ABORTED", FALSE) /\ shaken' = shaken \cup Held(gone)
    /\ UNCHANGED <<src, have, stage, online, master, tasks, work, events>>

\* The requests are answered, or one is given up after rx_timeout while its target goes on;
\* what is LOCKED or READY has then failed, and may be entered again.
fail_remaining_transfers(i) ==
    /\ "wait" \in exec[i]
    /\ \/ (\A t \in Targets : call[<<i, t>>] = "none") /\ UNCHANGED <<events, shaken>>
       \/ /\ Event("timeout") /\ \E t \in Targets : call[<<i, t>>] # "none"
          /\ shaken' = shaken \cup Held(Entries({"READY"}, None, i))
    /\ exec' = [exec EXCEPT ![i] = exec[i] \ {"wait"}]
    /\ book' = Updated(Entries({"LOCKED", "READY"}, None, i), "FAILURE", FALSE)
    /\ UNCHANGED <<src, have, stage, online, master, call, tasks, work>>

-----------------------------------------------------------------------------
(***************************************************************************)
(* MIRREXEC on a target, and its workers.                                  *)
(***************************************************************************)

InUse(i, t) == Cardinality({k \in Entries({"FETCHING"}, t, 0) : k[2] < i})

\* multithreading_mirroring: with no thread free the entries are deleted; else the READY
\* ones are the tasks.
multithreading_mirroring(i, t) ==
    /\ call[<<i, t>>] = "asked"
    /\ IF Fetches - InUse(i, t) <= 0
       THEN /\ book' = Deleted(Entries({"READY"}, t, i)) /\ call' = [call EXCEPT ![<<i, t>>] = "none"]
            /\ UNCHANGED tasks
       ELSE /\ call' = [call EXCEPT ![<<i, t>>] = "run"] /\ UNCHANGED book
            /\ tasks' = [tasks EXCEPT ![<<i, t>>] = {k[1] : k \in Entries({"READY"}, t, i)}]
    /\ UNCHANGED <<src, have, stage, online, master, exec, work, shaken, events>>

Working(i, t) == {k \in Keys : k[2] = i /\ work[k].pc # "none" /\ work[k].t = t}
Using(sg) == {k \in Keys : work[k].pc # "none" /\ work[k].sg = sg}

\* calculate_staging_name: the staging file of the entry if it still exists, or a new one
Staging(k) == IF book[k].sg \in Keys /\ stage[book[k].sg] # "none" THEN book[k].sg ELSE k

\* A worker takes a task: the entry becomes FETCHING, whatever it was.  A target that is
\* not Online aborts it.
process_mirroring_tasks(i, t, f) ==
    LET k == <<f, i>> IN
    /\ call[<<i, t>>] = "run" /\ f \in tasks[<<i, t>>] /\ Cardinality(Working(i, t)) < Fetches
    /\ work[k].pc = "none" /\ tasks' = [tasks EXCEPT ![<<i, t>>] = tasks[<<i, t>>] \ {f}]
    /\ work' = [work EXCEPT ![k] = [pc |-> IF t \in online THEN "fetch" ELSE "status", t |-> t, sg |-> Staging(k),
                                    out |-> IF t \in online THEN "none" ELSE "ABORTED"]]
    /\ book' = IF book[k].st = "none" THEN book ELSE [book EXCEPT ![k].st = "FETCHING", ![k].sg = Staging(k)]
    /\ stage' = IF t \notin online THEN stage
                ELSE [stage EXCEPT ![Staging(k)] = IF Using(Staging(k)) # {} THEN "mixed" ELSE "part"]
    /\ UNCHANGED <<src, have, online, master, exec, call, shaken, events>>

\* save_in_staging_file: the file is complete, fails or breaks off; the checksum is that of
\* the bytes this worker saw.
save_in_staging_file(k) ==
    /\ work[k].pc = "fetch"
    /\ \/ /\ work' = [work EXCEPT ![k].pc = "move"] /\ UNCHANGED events
          /\ stage' = [stage EXCEPT ![work[k].sg] = IF stage[work[k].sg] = "mixed" THEN "mixed" ELSE "full"]
       \/ /\ Event("fail") /\ UNCHANGED stage
          /\ work' = [work EXCEPT ![k].pc = "status", ![k].out = "FAILURE"]
       \/ /\ Event("cut") /\ UNCHANGED stage
          /\ work' = [work EXCEPT ![k].pc = "status", ![k].out = "TORESUME"]
    /\ UNCHANGED <<src, book, have, online, master, exec, call, tasks, shaken>>

\* ngams_generic and mvFile: nothing is left to move if another worker was first.
MoveToTarget(k) ==
    /\ work[k].pc = "move"
    /\ work' = [work EXCEPT ![k] = IF stage[work[k].sg] = "none" THEN [work[k] EXCEPT !.pc = "status", !.out = "FAILURE"]
                                   ELSE [work[k] EXCEPT !.pc = "insert", !.out = stage[work[k].sg]]]
    /\ stage' = [stage EXCEPT ![work[k].sg] = "none"]
    /\ UNCHANGED <<src, book, have, online, master, exec, call, tasks, shaken, events>>

\* The row of ngas_files; there is one already if the target holds the file.
InsertFile(k) ==
    /\ work[k].pc = "insert"
    /\ LET p == <<work[k].t, k[1]>>
       IN IF have[p] # "none" THEN /\ UNCHANGED have
                                   /\ work' = [work EXCEPT ![k].pc = "status", ![k].out = "FAILURE"]
          ELSE /\ have' = [have EXCEPT ![p] = IF work[k].out = "full" THEN "good" ELSE "mixed"]
               /\ work' = [work EXCEPT ![k].pc = "status", ![k].out = "SUCCESS"]
    /\ UNCHANGED <<src, book, stage, online, master, exec, call, tasks, shaken, events>>

\* Mutant: a fetch that failed is entered as done.
RecordDone(k) ==
    /\ work[k].pc = "status" /\ work' = [work EXCEPT ![k] = NoWork]
    /\ book' = IF book[k].st = "none" THEN book
               ELSE Updated({k}, IF work[k].out = "TORESUME" THEN "TORESUME" ELSE "SUCCESS", work[k].out # "TORESUME")
    /\ UNCHANGED <<src, have, stage, online, master, exec, call, tasks, shaken, events>>

\* The outcome; the staging file is remembered only to be resumed.
RecordOutcome(k) ==
    /\ work[k].pc = "status" /\ work' = [work EXCEPT ![k] = NoWork]
    /\ book' = IF book[k].st = "none" THEN book ELSE Updated({k}, work[k].out, work[k].out # "TORESUME")
    /\ UNCHANGED <<src, have, stage, online, master, exec, call, tasks, shaken, events>>

\* Mutant: the request ends when its workers pause, tasks or not.
MirrExecDoneEarly(i, t) ==
    /\ call[<<i, t>>] = "run" /\ Working(i, t) = {}
    /\ call' = [call EXCEPT ![<<i, t>>] = "none"]
    /\ UNCHANGED <<src, book, have, stage, online, master, exec, tasks, work, shaken, events>>

MirrExecDone(i, t) ==
    /\ call[<<i, t>>] = "run" /\ tasks[<<i, t>>] = {} /\ Working(i, t) = {}
    /\ call' = [call EXCEPT ![<<i, t>>] = "none"]
    /\ UNCHANGED <<src, book, have, stage, online, master, exec, tasks, work, shaken, events>>

-----------------------------------------------------------------------------
(***************************************************************************)
(* Going Offline and Online, and restarts.                                 *)
(***************************************************************************)

\* clean_up_mirroring by the control thread of h.  AND binds before OR: the READY entries
\* of every target are aborted, not only those of h.
CleanUpTable(h) ==
    LET aborted == Entries({"READY"}, None, 0) \cup (IF h = None THEN {} ELSE Entries({"LOCKED"}, h, 0))
        broken == IF h = None THEN {} ELSE Entries({"FETCHING"}, h, 0)
    IN [k \in Keys |-> IF k \in aborted THEN [book[k] EXCEPT !.st = "ABORTED", !.sg = None]
                       ELSE IF k \in broken THEN [book[k] EXCEPT !.st = "TORESUME"] ELSE book[k]]

\* The files whose entries that changes while a worker or a queue has them
Disturbed(h) == Held({k \in Keys : CleanUpTable(h)[k] # book[k]})

Offline(t) ==
    /\ Event("offline") /\ t \in online /\ online' = online \ {t}
    /\ UNCHANGED <<src, book, have, stage, master, exec, call, tasks, work, shaken>>

Online(t) ==
    /\ t \notin online /\ online' = online \cup {t}
    /\ IF t \in Cleaners THEN book' = CleanUpTable(t) /\ shaken' = shaken \cup Disturbed(t)
       ELSE UNCHANGED <<book, shaken>>
    /\ UNCHANGED <<src, have, stage, master, exec, call, tasks, work, events>>

\* A target is killed: its requests and workers are gone; it comes up as in Online.
Crash(t) ==
    /\ Event("crash") /\ online' = online \ {t}
    /\ call' = [p \in Iters \X Targets |-> IF p[2] = t THEN "none" ELSE call[p]]
    /\ tasks' = [p \in Iters \X Targets |-> IF p[2] = t THEN {} ELSE tasks[p]]
    /\ work' = [k \in Keys |-> IF work[k].t = t THEN NoWork ELSE work[k]]
    /\ shaken' = shaken \cup {k[1] : k \in {j \in Keys : work[j].t = t}}
    /\ UNCHANGED <<src, book, have, stage, master, exec>>

\* The master is killed and restarted.
MasterCrash ==
    /\ Event("master") /\ master' = [m \in Tables |-> Idle] /\ exec' = [i \in Iters |-> {}]
    /\ book' = CleanUpTable(None) /\ shaken' = shaken \cup Disturbed(None)
    /\ UNCHANGED <<src, have, stage, online, call, tasks, work>>

\* A file is archived at the source.
SourceArchive(f) ==
    /\ f \notin src /\ src' = src \cup {f}
    /\ UNCHANGED <<book, have, stage, online, master, exec, call, tasks, work, shaken, events>>

-----------------------------------------------------------------------------
MirrTable(m) == \/ reassign_broken_downloads(m) \/ ResumeFails(m) \/ RetireResumed(m) \/ limit_mirrored_files(m)
                \/ remove_hosts_without_available_threads(m) \/ AssignDone(m)
                \/ \E f \in Files, t \in Targets : AssignFile(m, f, t)

Execute(i) == distributed_mirroring(i) \/ fail_remaining_transfers(i)

MirrExec(i, t) == \/ multithreading_mirroring(i, t) \/ MirrExecDone(i, t)
                  \/ \E f \in Files : process_mirroring_tasks(i, t, f)

Worker(k) == save_in_staging_file(k) \/ MoveToTarget(k) \/ InsertFile(k) \/ RecordOutcome(k)

Next == \/ \E m \in Tables : populate_mirroring_bookkeeping_table(m) \/ MirrTable(m)
        \/ MasterCrash
        \/ \E i \in Iters : Execute(i) \/ \E t \in Targets : MirrExec(i, t)
        \/ \E k \in Keys : Worker(k)
        \/ \E f \in Files : SourceArchive(f)
        \/ \E t \in Targets : Offline(t) \/ Online(t) \/ Crash(t)

Spec == Init /\ [][Next]_vars

\* Requests and threads go on, and targets come back; the control thread starts
\* iterations as long as the bound lets it.
FairSpec ==
    /\ Spec /\ WF_vars(populate_mirroring_bookkeeping_table(1)) /\ \A m \in Tables : WF_vars(MirrTable(m))
    /\ \A i \in Iters : WF_vars(Execute(i)) /\ \A t \in Targets : WF_vars(MirrExec(i, t))
    /\ \A k \in Keys : WF_vars(Worker(k))
    /\ \A t \in Targets : WF_vars(Online(t))

-----------------------------------------------------------------------------
(***************************************************************************)
(* Properties.                                                             *)
(***************************************************************************)

\* An entry says SUCCESS only if the target cluster has the file.
SuccessStored == \A k \in Keys : book[k].st = "SUCCESS" => \E t \in Targets : have[<<t, k[1]>>] # "none"

\* However iterations overlap, a file is fetched by one worker at a time and stored on
\* one target, and no two workers write the same staging file; unless its entry was
\* changed under a worker or in its queue (by a timeout, clean_up_mirroring, remove_tasks or a
\* crash), or two MIRRTABLEs have overlapped.
FetchedOnce ==
    \A f \in Files \ shaken :
        /\ Cardinality({i \in Iters : work[<<f, i>>].pc # "none"}) <= 1
        /\ Cardinality({t \in Targets : have[<<t, f>>] # "none"}) <= 1
        /\ \A t \in Targets : have[<<t, f>>] # "mixed"

\* At most one entry of a file waits to be resumed: reassign_broken_downloads makes one
\* copy of each, all in the same iteration.
OneToResume == \A f \in Files : Cardinality(Resumable(f)) <= 1 \/ f \in shaken

\* However iterations overlap and fail, the bookkeeping table is true: SUCCESS has its file; and as
\* long as one MIRRTABLE at a time enters files, a file whose entry nobody changed under its worker
\* is fetched once, and one entry of it waits to be resumed.
MirroringSafe == TypeOK /\ SuccessStored /\ FetchedOnce /\ OneToResume

\* What "Grab any TORESUME fetches for this iteration" intends: every entry that is READY
\* is served in the end.
ResumedServed == \A k \in Keys : book[k].st = "READY" ~> book[k].st # "READY"

=============================================================================
