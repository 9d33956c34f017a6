------------------------------ MODULE Archive ------------------------------
(***************************************************************************)
(* How a file gets into the archive: the Archive Request handling of       *)
(* ngamsArchiveUtils (ARCHIVE, and QARCHIVE and BBCPARC, which share it),  *)
(* the Back-Log Buffer with the Janitor process that empties it, and what  *)
(* a crash of the server leaves behind.                                    *)
(*                                                                         *)
(* The actors are the requests, each run by a thread of the server, and    *)
(* the Janitor.  A statement of the NGAS DB is atomic and committed, a     *)
(* file operation is atomic, and nothing else is: the steps of the actors  *)
(* interleave.  The content of a file is the request that delivered it;    *)
(* a checksum is the content it was computed from.  A storage set has a    *)
(* Main and, with Replication, a Replication Disk; the file with File ID f *)
(* and version v has one place on each disk.                               *)
(***************************************************************************)
EXTENDS Integers, FiniteSets

CONSTANTS
    Requests,    \* the Archive Requests that may arrive
    Files,       \* the File IDs the clients use
    Sets,        \* the storage sets
    Replication, \* Server[1].Replication: the Main Disks have Replication Disks
    Overwrites,  \* clients may ask to overwrite (no_versioning=1)
    MaxVersion,  \* bound on the file versions
    Faults,      \* the faults that may strike, a subset of FaultKinds
    MaxFaults,   \* bound on the number of faults
    Janitor,     \* the Janitor process
    None         \* no content, no version, no disk

(***************************************************************************)
(* receive: the client breaks off, or the checksums differ; dapi: the DAPI *)
(* raises (the DB included); move: mvFile to the final place fails; buffer:*)
(* Back-Log Buffering fails; db: a DB statement of postFileRecepHandling   *)
(* fails; copy: the replication fails; diskinfo: updateDiskStatusDb fails; *)
(* full: a disk runs full; hidden: rows of the File ID are of another host *)
(* or not in good status; crash: the server is killed and restarted.       *)
(***************************************************************************)
FaultKinds == {"receive", "dapi", "move", "buffer", "db", "copy", "diskinfo",
               "full", "hidden", "crash"}

ASSUME ActorsAssumption == /\ Janitor \notin Requests
                           /\ None \notin Requests \cup Files \cup Sets \cup {Janitor}
ASSUME NamesAssumption == Files \cap Requests = {}
ASSUME SwitchesAssumption == Replication \in BOOLEAN /\ Overwrites \in BOOLEAN
ASSUME BoundsAssumption == MaxVersion \in Nat /\ MaxFaults \in Nat
ASSUME FaultsAssumption == Faults \subseteq FaultKinds

Actors == Requests \cup {Janitor}
\* The name of the staging file of a request is unique to it, and is the File ID
\* of a back-log buffered file whose request object is missing.
FileIds == Files \cup Requests
Versions == 1 .. MaxVersion
Volumes == Sets \X {"main", "rep"}
Places == Volumes \X FileIds \X Versions
Main(s) == <<s, "main">>
Rep(s) == <<s, "rep">>

ASSUME VolumesAssumption == None \notin Volumes

VARIABLES
    pc,        \* pc[a]: the step actor a takes next
    job,       \* job[a]: what actor a is archiving
    reply,     \* reply[r]: what the client of request r was told
    staged,    \* Staging Areas: the file of a request, the copy of a buffered file
    fs,        \* fs[p]: the content of the file at place p
    db,        \* db[p]: the checksum in the ngas_files row of place p
    numFiles,  \* ngas_disks.number_of_files
    completed, \* the disks marked as completed
    diskSem,   \* the holder of _ngamsDisksSem
    backlog,   \* backlog[r]: what the Back-Log Buffer holds of request r
    todo,      \* the buffered files the Janitor listed and did not yet handle
    bad,       \* contents in a Bad Files Area
    faults,    \* the number of faults so far
    raced      \* history: File IDs two actors have handled at the same time, or of
               \* which an overwriting request took the wrong copy for the old one

diskVars == <<numFiles, completed, diskSem>>
bufferVars == <<backlog, todo, bad>>
vars == <<pc, job, reply, staged, fs, db, diskVars, bufferVars, faults, raced>>

Goto(a, label) == pc' = [pc EXCEPT ![a] = label]
Fault(kind) == kind \in Faults /\ faults < MaxFaults /\ faults' = faults + 1

\* The place of the file of job j on volume vol.
Place(j, vol) == <<vol, j.file, j.ver>>
MainPlace(a) == Place(job[a], Main(job[a].set))
RepPlace(a) == Place(job[a], Rep(job[a].set))
\* The row that is replaced, and the file that is.
OldPlace(a) == IF job[a].prev = None THEN MainPlace(a) ELSE Place(job[a], job[a].prev)
OldFile(a) == IF job[a].prev = None THEN MainPlace(a)
              ELSE <<job[a].prev, job[a].file, job[a].prevVer>>
Rows(f) == {p \in Places : p[2] = f /\ db[p] # None}

\* Actor a is past the choice of the version and not yet through with the files.
Handling == {"validate", "move", "check", "write", "count", "rep_copy", "rep_check",
             "rep_write", "rep_read", "rep_count", "rm_prev"}
InFlight(a, f) == pc[a] \in Handling /\ job[a].file = f

-----------------------------------------------------------------------------
(* Faults.                                                                 *)

\* Mutant: the Janitor treats a buffered file like a staging file.
AbortRequest(a) ==
    /\ staged' = staged \ {<<a, "own">>}
    /\ reply' = [reply EXCEPT ![a] = "failed"]
    /\ Goto(a, "done")
    /\ UNCHANGED bufferVars

\* An exception that does not qualify for Back-Log Buffering.  A request: the
\* Staging Area is cleaned up (nothing of it is left there after the move) and the
\* client is told.  The Janitor: the buffered file goes to the Bad Files Area.
Abort(a) ==
    IF a = Janitor
    THEN /\ bad' = bad \cup {job[a].content}
         /\ backlog' = [backlog EXCEPT ![job[a].content] = {}]
         /\ Goto(a, "idle")
         /\ UNCHANGED <<reply, staged, todo>>
    ELSE /\ staged' = staged \ {<<a, "own">>}
         /\ reply' = [reply EXCEPT ![a] = "failed"]
         /\ Goto(a, "done")
         /\ UNCHANGED bufferVars

\* The server dies and is started again: checkStagingAreas moves what the
\* Staging Areas hold to the Bad Files Areas.
Crash ==
    /\ Fault("crash")
    /\ pc' = [a \in Actors |-> IF a = Janitor THEN "idle"
                               ELSE IF pc[a] \in {"new", "done"} THEN pc[a] ELSE "dead"]
    /\ todo' = {}
    /\ diskSem' = None
    /\ bad' = bad \cup {r \in Requests : \E k \in {"own", "copy"} : <<r, k>> \in staged}
    /\ staged' = {}
    /\ UNCHANGED <<job, reply, fs, db, numFiles, completed, backlog, raced>>

-----------------------------------------------------------------------------
(* Reception.                                                              *)

\* The storage sets findTargetDisk may choose.
TargetSets == {s \in Sets : /\ Main(s) \notin completed
                            /\ Replication => Rep(s) \notin completed}

\* want is the file_version to overwrite, 0 if none is given.
NewJob(r, f, o, w, s) ==
    [content |-> r, file |-> f, over |-> o, want |-> w, set |-> s, ver |-> 0,
     prev |-> None, prevVer |-> 0, exists |-> FALSE, sum |-> None, update |-> FALSE,
     files |-> numFiles[Main(s)], repFiles |-> 0, repFull |-> FALSE]

NoJob ==
    [content |-> None, file |-> None, over |-> FALSE, want |-> 0, set |-> None, ver |-> 0,
     prev |-> None, prevVer |-> 0, exists |-> FALSE, sum |-> None, update |-> FALSE,
     files |-> 0, repFiles |-> 0, repFull |-> FALSE]

\* A request is let in and a target disk is found, or not.
Start(r) ==
    /\ pc[r] = "new"
    /\ \/ \E f \in Files, s \in TargetSets, o \in IF Overwrites THEN BOOLEAN ELSE {FALSE} :
             \E w \in IF o THEN {0} \cup Versions ELSE {0} :
                /\ job' = [job EXCEPT ![r] = NewJob(r, f, o, w, s)]
                /\ Goto(r, "receive") /\ UNCHANGED reply
       \/ /\ TargetSets = {}
          /\ Goto(r, "done")
          /\ reply' = [reply EXCEPT ![r] = "failed"]
          /\ UNCHANGED job
    /\ UNCHANGED <<staged, fs, db, diskVars, bufferVars, faults, raced>>

\* The data is received, the staging file gets its name, the request is pickled.
Receive(r) ==
    /\ pc[r] = "receive"
    /\ \/ /\ staged' = staged \cup {<<r, "own">>}
          /\ Goto(r, "dapi")
          /\ UNCHANGED <<reply, bufferVars, faults>>
       \/ Fault("receive") /\ Abort(r)
    /\ UNCHANGED <<job, fs, db, diskVars, raced>>

LatestVersion(f) == IF Rows(f) = {} THEN 0
                    ELSE CHOOSE v \in Versions : /\ \E p \in Rows(f) : p[3] = v
                                                 /\ \A p \in Rows(f) : p[3] <= v

\* Mutant: the latest version is taken for the new one.
FileVersionLatest(j) == IF LatestVersion(j.file) = 0 THEN 1 ELSE LatestVersion(j.file)

\* genFileInfo: a new version, or the one to overwrite.
FileVersion(j) ==
    IF j.over /\ j.want # 0 THEN j.want
    ELSE IF j.over /\ LatestVersion(j.file) # 0 THEN LatestVersion(j.file)
    ELSE LatestVersion(j.file) + 1

\* The DAPI chooses version and place, and looks whether the file is there already.
Dapi(a) ==
    /\ pc[a] = "dapi"
    /\ \/ /\ FileVersion(job[a]) \in Versions
          /\ LET p == <<Main(job[a].set), job[a].file, FileVersion(job[a])>>
             IN  job' = [job EXCEPT ![a].ver = p[3],
                                    ![a].exists = db[p] # None /\ fs[p] # None]
          /\ raced' = raced \cup {f \in {job[a].file} : \E b \in Actors \ {a} : InFlight(b, f)}
          /\ Goto(a, IF job[a].over /\ a # Janitor THEN "validate" ELSE "move")
          /\ UNCHANGED <<reply, staged, bufferVars, faults>>
       \/ /\ Fault("dapi") /\ Abort(a)
          /\ UNCHANGED <<job, raced>>
    /\ UNCHANGED <<fs, db, diskVars>>

\* The copies _validate_overwrite may take for the old one: of the rows it sees those
\* of the version asked for, or of the latest, and of a Main Disk if they are several.
Replaceable(j, seen) ==
    LET old == {p \in seen : IF j.want # 0 THEN p[3] = j.want ELSE \A q \in seen : q[3] <= p[3]}
    IN  IF Cardinality(old) = 1 THEN old ELSE {p \in old : p[1][2] = "main"}

\* Mutant: a file that is not there is stored as if it were.
ValidateLenient(a) ==
    /\ pc[a] = "validate"
    /\ LET old == Replaceable(job[a], Rows(job[a].file))
       IN  job' = IF old = {} THEN job
                  ELSE LET p == CHOOSE q \in old : TRUE
                       IN  [job EXCEPT ![a].prev = p[1], ![a].prevVer = p[3]]
    /\ Goto(a, "move")
    /\ UNCHANGED <<reply, staged, fs, db, diskVars, bufferVars, faults, raced>>

\* getFileSummary1 gives the rows of this host in good status only, so that the version
\* may be another one than the DAPI chose, or the copy a replica.
Validate(a) ==
    /\ pc[a] = "validate"
    /\ \E seen \in SUBSET Rows(job[a].file) :
          /\ IF seen = Rows(job[a].file) THEN UNCHANGED faults ELSE Fault("hidden")
          /\ \/ \E p \in Replaceable(job[a], seen) :
                   /\ job' = [job EXCEPT ![a].prev = p[1], ![a].prevVer = p[3], ![a].exists = TRUE]
                   /\ raced' = IF p[3] = job[a].ver /\ p[1][2] = "main" THEN raced
                               ELSE raced \cup {job[a].file}
                   /\ Goto(a, "move")
                   /\ UNCHANGED <<reply, staged, bufferVars>>
             \/ /\ Replaceable(job[a], seen) = {}
                /\ Abort(a) /\ UNCHANGED <<job, raced>>
    /\ UNCHANGED <<fs, db, diskVars>>

\* mvFile to the final place.  A failure of it makes a request buffer its file and
\* the Janitor keep the one it has.
Move(a) ==
    /\ pc[a] = "move"
    /\ \/ /\ fs' = [fs EXCEPT ![MainPlace(a)] = job[a].content]
          /\ staged' = staged \ {<<job[a].content, IF a = Janitor THEN "copy" ELSE "own">>}
          /\ Goto(a, "check")
          /\ UNCHANGED faults
       \/ /\ Fault("move")
          /\ Goto(a, IF a = Janitor THEN "idle" ELSE "bl_data")
          /\ UNCHANGED <<fs, staged>>
    /\ UNCHANGED <<job, reply, db, diskVars, bufferVars, raced>>

-----------------------------------------------------------------------------
(* postFileRecepHandling.                                                  *)

\* updateFileInfoDb reads the row of the previous version, which must be there.
PreviousKnown(a) == job[a].ver > 1 => \E p \in Rows(job[a].file) : p[3] = job[a].ver - 1

\* updateFileInfoDb up to fileInDb of writeFileEntry: the file is there, and there
\* is a row to update or not.  The Janitor computes the checksum from the file.
CheckEntry(a, old, new, next) ==
    /\ \/ /\ fs[new] # None /\ PreviousKnown(a)
          /\ job' = [job EXCEPT ![a].update = db[old] # None,
                                ![a].sum = IF @ # None THEN @
                                           ELSE IF a = Janitor THEN fs[new] ELSE job[a].content]
          /\ Goto(a, next)
          /\ UNCHANGED <<reply, staged, bufferVars, faults>>
       \/ /\ ~(fs[new] # None /\ PreviousKnown(a))
          /\ Abort(a) /\ UNCHANGED <<job, faults>>
       \/ /\ Fault("db")
          /\ Abort(a) /\ UNCHANGED job
    /\ UNCHANGED <<fs, db, diskVars, raced>>

\* The INSERT or UPDATE of writeFileEntry: the primary key of ngas_files is File
\* ID, version and disk; an UPDATE of a row that is gone changes nothing.
Collides(a, old, new) ==
    /\ db[new] # None
    /\ job[a].update => old # new /\ db[old] # None

\* Mutant: a statement that fails is only logged.
WriteEntryLogs(a, old, new, next) ==
    /\ \/ /\ ~Collides(a, old, new)
          /\ db' = IF job[a].update /\ db[old] = None THEN db
                   ELSE [db EXCEPT ![old] = None, ![new] = job[a].sum]
          /\ UNCHANGED faults
       \/ Collides(a, old, new) /\ UNCHANGED <<db, faults>>
       \/ Fault("db") /\ UNCHANGED db
    /\ Goto(a, next)
    /\ UNCHANGED <<job, reply, staged, fs, diskVars, bufferVars, raced>>

WriteEntry(a, old, new, next) ==
    /\ \/ /\ ~Collides(a, old, new)
          /\ db' = IF job[a].update /\ db[old] = None THEN db
                   ELSE [db EXCEPT ![old] = None, ![new] = job[a].sum]
          /\ Goto(a, next)
          /\ UNCHANGED <<reply, staged, bufferVars, faults>>
       \/ /\ Collides(a, old, new)
          /\ Abort(a) /\ UNCHANGED <<db, faults>>
       \/ /\ Fault("db")
          /\ Abort(a) /\ UNCHANGED db
    /\ UNCHANGED <<job, fs, diskVars, raced>>

Check(a) == pc[a] = "check" /\ CheckEntry(a, OldPlace(a), MainPlace(a), "write")
Write(a) == pc[a] = "write" /\ WriteEntry(a, OldPlace(a), MainPlace(a), "count")

\* updateDiskInfo, or replace_file when a copy is replaced.
Count(a) ==
    /\ pc[a] = "count"
    /\ \/ /\ numFiles' =
                IF job[a].prev = None
                THEN [numFiles EXCEPT ![Main(job[a].set)] = @ + 1]
                ELSE [numFiles EXCEPT ![job[a].prev] = @ - 1, ![Main(job[a].set)] = @ + 1]
          /\ Goto(a, IF Replication THEN "rep_copy" ELSE "rm_prev")
          /\ UNCHANGED <<reply, staged, bufferVars, faults>>
       \/ /\ Fault("db")
          /\ Abort(a) /\ UNCHANGED numFiles
    /\ UNCHANGED <<job, fs, db, completed, diskSem, raced>>

\* Mutant: the replica is registered but not made.
ReplicateSkips(a) ==
    /\ pc[a] = "rep_copy"
    /\ Goto(a, "rep_write")
    /\ job' = [job EXCEPT ![a].update = db[RepPlace(a)] # None]
    /\ UNCHANGED <<reply, staged, fs, db, diskVars, bufferVars, faults, raced>>

\* replicateFile copies whatever is at the place of the main file.
Replicate(a) ==
    /\ pc[a] = "rep_copy"
    /\ \/ /\ fs[MainPlace(a)] # None
          /\ fs' = [fs EXCEPT ![RepPlace(a)] = fs[MainPlace(a)]]
          /\ Goto(a, "rep_check")
          /\ UNCHANGED <<reply, staged, bufferVars, faults>>
       \/ /\ fs[MainPlace(a)] = None
          /\ Abort(a) /\ UNCHANGED <<fs, faults>>
       \/ /\ Fault("copy")
          /\ Abort(a) /\ UNCHANGED fs
    /\ UNCHANGED <<job, db, diskVars, raced>>

RepCheck(a) == pc[a] = "rep_check" /\ CheckEntry(a, RepPlace(a), RepPlace(a), "rep_write")
RepWrite(a) == pc[a] = "rep_write" /\ WriteEntry(a, RepPlace(a), RepPlace(a), "rep_read")

\* updateDiskStatusDb reads the row of the Replication Disk under _ngamsDisksSem
\* (the Janitor, a process of its own, has its own) and writes it back; an
\* exception in between leaves the semaphore held.
RepRead(a) ==
    /\ pc[a] = "rep_read"
    /\ a = Janitor \/ diskSem = None
    /\ diskSem' = IF a = Janitor THEN diskSem ELSE a
    /\ job' = [job EXCEPT ![a].repFiles = numFiles[Rep(job[a].set)],
                          ![a].repFull = Rep(job[a].set) \in completed]
    /\ Goto(a, "rep_count")
    /\ UNCHANGED <<reply, staged, fs, db, numFiles, completed, bufferVars, faults, raced>>

WithCompleted(vol, full) == IF full THEN completed \cup {vol} ELSE completed \ {vol}

\* Mutant: the file is counted on the Main Disk.
RepCountMain(a) ==
    /\ pc[a] = "rep_count"
    /\ numFiles' = [numFiles EXCEPT ![Main(job[a].set)] = @ + 1]
    /\ diskSem' = IF a = Janitor THEN diskSem ELSE None
    /\ Goto(a, "rm_prev")
    /\ UNCHANGED <<job, reply, staged, fs, db, completed, bufferVars, faults, raced>>

RepCount(a) ==
    LET vol == Rep(job[a].set)
    IN  /\ pc[a] = "rep_count"
        /\ \/ /\ numFiles' = [numFiles EXCEPT ![vol] =
                                job[a].repFiles + (IF job[a].exists THEN 0 ELSE 1)]
              /\ completed' = WithCompleted(vol, job[a].repFull)
              /\ diskSem' = IF a = Janitor THEN diskSem ELSE None
              /\ Goto(a, "rm_prev")
              /\ UNCHANGED <<reply, staged, bufferVars, faults>>
           \/ /\ Fault("diskinfo")
              /\ Abort(a) /\ UNCHANGED diskVars
        /\ UNCHANGED <<job, fs, db, raced>>

\* Mutant: the replaced file is removed even if the new one took its place.
RemovePrevAlways(a) ==
    /\ pc[a] = "rm_prev"
    /\ fs' = IF job[a].prev # None THEN [fs EXCEPT ![OldFile(a)] = None] ELSE fs
    /\ Goto(a, "space")
    /\ UNCHANGED <<job, reply, staged, db, diskVars, bufferVars, faults, raced>>

\* The replaced file is removed unless the new one took its place.
RemovePrev(a) ==
    /\ pc[a] = "rm_prev"
    /\ fs' = IF OldFile(a) # MainPlace(a) THEN [fs EXCEPT ![OldFile(a)] = None] ELSE fs
    /\ Goto(a, "space")
    /\ UNCHANGED <<job, reply, staged, db, diskVars, bufferVars, faults, raced>>

\* checkDiskSpace reads the row of the Replication Disk; that of the Main Disk is
\* the one read when the target disk was chosen.
SpaceRead(a) ==
    /\ pc[a] = "space"
    /\ job' = [job EXCEPT ![a].repFiles = numFiles[Rep(job[a].set)]]
    /\ Goto(a, "space_write")
    /\ UNCHANGED <<reply, staged, fs, db, diskVars, bufferVars, faults, raced>>

\* Disks below the limit are marked as completed and their rows written back.
SpaceWrite(a) ==
    LET main == Main(job[a].set)
        rep == Rep(job[a].set)
    IN  /\ pc[a] = "space_write"
        /\ Goto(a, IF a = Janitor THEN "rm_file" ELSE "reply")
        /\ \/ UNCHANGED <<numFiles, completed, faults>>
           \/ /\ Fault("full")
              /\ \E full \in {{main}} \cup IF Replication THEN {{rep}, {main, rep}} ELSE {} :
                    /\ completed' = completed \cup full
                    /\ numFiles' = [vol \in Volumes |->
                          IF vol \notin full THEN numFiles[vol]
                          ELSE IF vol = rep THEN job[a].repFiles
                          ELSE job[a].files + (IF job[a].prev = None THEN 1 ELSE 0)]
        /\ UNCHANGED <<job, reply, staged, fs, db, diskSem, bufferVars, raced>>

Reply(r) ==
    /\ pc[r] = "reply"
    /\ reply' = [reply EXCEPT ![r] = "ok"]
    /\ Goto(r, "done")
    /\ UNCHANGED <<job, staged, fs, db, diskVars, bufferVars, faults, raced>>

-----------------------------------------------------------------------------
(* Back-Log Buffering of a request whose file could not be moved.          *)

\* An exception of backLogBufferFiles: the staging file stays.
BufferFails(r) ==
    /\ reply' = [reply EXCEPT ![r] = "failed"]
    /\ Goto(r, "done")
    /\ UNCHANGED <<staged, backlog>>

\* The file is copied to the buffer under a temporary name and renamed.
BufferData(r) ==
    /\ pc[r] = "bl_data"
    /\ \/ /\ backlog' = [backlog EXCEPT ![r] = @ \cup {"file"}]
          /\ Goto(r, "bl_req")
          /\ UNCHANGED <<reply, staged, faults>>
       \/ Fault("buffer") /\ BufferFails(r)
    /\ UNCHANGED <<job, fs, db, diskVars, todo, bad, raced>>

\* The same for the request object.
BufferRequest(r) ==
    /\ pc[r] = "bl_req"
    /\ \/ /\ backlog' = [backlog EXCEPT ![r] = @ \cup {"pickle"}]
          /\ Goto(r, "bl_done")
          /\ UNCHANGED <<reply, staged, faults>>
       \/ Fault("buffer") /\ BufferFails(r)
    /\ UNCHANGED <<job, fs, db, diskVars, todo, bad, raced>>

\* Both are found in the buffer, the staging files are removed and the client told.
BufferDone(r) ==
    /\ pc[r] = "bl_done"
    /\ \/ /\ backlog[r] = {"file", "pickle"}
          /\ staged' = staged \ {<<r, "own">>}
          /\ reply' = [reply EXCEPT ![r] = "buffered"]
          /\ Goto(r, "done")
          /\ UNCHANGED backlog
       \/ backlog[r] # {"file", "pickle"} /\ BufferFails(r)
    /\ UNCHANGED <<job, fs, db, diskVars, todo, bad, faults, raced>>

-----------------------------------------------------------------------------
(* The Janitor: checkBackLogBuffer and archiveFromFile.                    *)

\* Mutant: files whose request object is missing are left alone.
JanitorScanPickles ==
    /\ pc[Janitor] = "idle" /\ todo = {}
    /\ \E r \in Requests : backlog[r] = {"file", "pickle"}
    /\ todo' = {r \in Requests : backlog[r] = {"file", "pickle"}}
    /\ UNCHANGED <<pc, job, reply, staged, fs, db, diskVars, backlog, bad, faults, raced>>

JanitorScan ==
    /\ pc[Janitor] = "idle" /\ todo = {}
    /\ \E r \in Requests : "file" \in backlog[r]
    /\ todo' = {r \in Requests : "file" \in backlog[r]}
    /\ UNCHANGED <<pc, job, reply, staged, fs, db, diskVars, backlog, bad, faults, raced>>

\* What the Janitor knows of the request of a buffered file.
BufferedJob(r, s) ==
    IF "pickle" \in backlog[r] THEN NewJob(r, job[r].file, job[r].over, job[r].want, s)
                               ELSE NewJob(r, r, FALSE, 0, s)

\* Mutant: the file is moved, not copied, to the Staging Area.
JanitorTakeMoves(r) ==
    /\ pc[Janitor] = "idle" /\ r \in todo
    /\ \E s \in TargetSets : job' = [job EXCEPT ![Janitor] = BufferedJob(r, s)]
    /\ staged' = staged \cup {<<r, "copy">>}
    /\ backlog' = [backlog EXCEPT ![r] = @ \ {"file"}]
    /\ todo' = todo \ {r}
    /\ Goto(Janitor, "dapi")
    /\ UNCHANGED <<reply, fs, db, diskVars, bad, faults, raced>>

\* The file is copied to the Staging Area of a target disk; without one the
\* exception handler itself fails and ends this run of the Janitor.
JanitorTake(r) ==
    /\ pc[Janitor] = "idle" /\ r \in todo
    /\ \/ /\ \E s \in TargetSets : job' = [job EXCEPT ![Janitor] = BufferedJob(r, s)]
          /\ staged' = staged \cup {<<r, "copy">>}
          /\ todo' = todo \ {r}
          /\ Goto(Janitor, "dapi")
          /\ UNCHANGED <<backlog, bad, faults>>
       \/ /\ TargetSets = {}
          /\ todo' = {}
          /\ UNCHANGED <<pc, job, staged, backlog, bad, faults>>
       \/ /\ Fault("copy")
          /\ bad' = bad \cup {r}
          /\ backlog' = [backlog EXCEPT ![r] = {}]
          /\ todo' = todo \ {r}
          /\ UNCHANGED <<pc, job, staged>>
    /\ UNCHANGED <<reply, fs, db, diskVars, raced>>

\* After the file was archived the buffered one is removed.
JanitorRemove ==
    /\ pc[Janitor] = "rm_file"
    /\ backlog' = [backlog EXCEPT ![job[Janitor].content] = {}]
    /\ Goto(Janitor, "idle")
    /\ UNCHANGED <<job, reply, staged, fs, db, diskVars, todo, bad, faults, raced>>

-----------------------------------------------------------------------------
Init ==
    /\ pc = [a \in Actors |-> IF a = Janitor THEN "idle" ELSE "new"]
    /\ numFiles = [vol \in Volumes |-> 0]
    /\ job = [a \in Actors |-> NoJob]
    /\ reply = [r \in Requests |-> "none"]
    /\ staged = {}
    /\ fs = [p \in Places |-> None]
    /\ db = [p \in Places |-> None]
    /\ completed = {}
    /\ diskSem = None
    /\ backlog = [r \in Requests |-> {}]
    /\ todo = {}
    /\ bad = {}
    /\ faults = 0
    /\ raced = {}

ArchiveStep(a) ==
    \/ Dapi(a) \/ Validate(a) \/ Move(a) \/ Check(a) \/ Write(a) \/ Count(a)
    \/ Replicate(a) \/ RepCheck(a) \/ RepWrite(a) \/ RepRead(a) \/ RepCount(a)
    \/ RemovePrev(a) \/ SpaceRead(a) \/ SpaceWrite(a)

RequestStep(r) ==
    \/ Receive(r) \/ ArchiveStep(r) \/ Reply(r)
    \/ BufferData(r) \/ BufferRequest(r) \/ BufferDone(r)

JanitorStep ==
    \/ JanitorScan \/ ArchiveStep(Janitor) \/ JanitorRemove
    \/ \E r \in Requests : JanitorTake(r)

Next ==
    \/ \E r \in Requests : Start(r) \/ RequestStep(r)
    \/ JanitorStep
    \/ Crash

Spec == Init /\ [][Next]_vars

(***************************************************************************)
(* The threads of the server and the Janitor, which runs its plug-ins over *)
(* and over, are scheduled; _ngamsDisksSem serves a waiting thread.        *)
(***************************************************************************)
Fairness ==
    /\ \A r \in Requests : WF_vars(RequestStep(r)) /\ SF_vars(RepRead(r))
    /\ WF_vars(JanitorStep)

FairSpec == Spec /\ Fairness

-----------------------------------------------------------------------------
RequestLabels == {"new", "receive", "dapi", "reply", "bl_data", "bl_req", "bl_done",
                  "space", "space_write", "done", "dead"} \cup Handling
JanitorLabels == {"idle", "dapi", "space", "space_write", "rm_file"} \cup (Handling \ {"validate"})

Jobs == [content : Requests \cup {None}, file : FileIds \cup {None}, over : BOOLEAN,
         want : Nat, set : Sets \cup {None}, ver : Nat, prev : Volumes \cup {None},
         prevVer : Nat, exists : BOOLEAN, sum : Requests \cup {None}, update : BOOLEAN,
         files : Int, repFiles : Int, repFull : BOOLEAN]

\* The shape of the state.
TypeOK ==
    /\ \A r \in Requests : pc[r] \in RequestLabels
    /\ pc[Janitor] \in JanitorLabels
    /\ DOMAIN pc = Actors
    /\ job \in [Actors -> Jobs]
    /\ reply \in [Requests -> {"none", "ok", "failed", "buffered"}]
    /\ staged \subseteq Requests \X {"own", "copy"}
    /\ fs \in [Places -> Requests \cup {None}]
    /\ db \in [Places -> Requests \cup {None}]
    /\ numFiles \in [Volumes -> Int]
    /\ completed \subseteq Volumes
    /\ diskSem \in Requests \cup {None}
    /\ backlog \in [Requests -> SUBSET {"file", "pickle"}]
    /\ todo \subseteq Requests
    /\ bad \subseteq Requests
    /\ faults \in 0 .. MaxFaults
    /\ raced \subseteq FileIds

\* An archived file is intact: a row of ngas_files has a file on its disk, and the
\* checksum in the row is that of the file, at every moment, whatever fails and
\* whenever the server dies, for every File ID that was never handled by two actors
\* at once, of which no wrong copy was replaced and that is not just being overwritten.
Intact ==
    \A p \in Places :
        \/ db[p] = None
        \/ fs[p] = db[p]
        \/ p[2] \in raced
        \/ \E a \in Actors : InFlight(a, p[2]) /\ job[a].over

\* What a client was told is archived is archived, with the content it sent, on the
\* disk and under the version that were chosen, and stays so: later requests,
\* failures and crashes do not touch it, unless the File ID was handled by two
\* actors at once.
AckedStored ==
    \A r \in Requests : reply[r] = "ok" =>
        \/ db[MainPlace(r)] = r /\ fs[MainPlace(r)] = r
        \/ job[r].file \in raced

\* What a client was told is buffered is not lost: it is in the Back-Log Buffer, in
\* a Bad Files Area, or archived.
BufferedKept ==
    \A r \in Requests : reply[r] = "buffered" =>
        \/ "file" \in backlog[r]
        \/ r \in bad
        \/ \E p \in Places : db[p] = r /\ fs[p] = r
        \/ job[r].file \in raced

\* What a client was told of its file is true and stays true, through failures, crashes and
\* the work of the other requests and of the Janitor, unless two of them handle one File ID.
ArchiveSafe == TypeOK /\ Intact /\ AckedStored /\ BufferedKept

\* updateFileInfoDb insists on the row of the previous version after the file was
\* moved in place, when it is too late to refuse: whatever version a client asks to
\* overwrite, and when actors race for the same File ID, the row is there.
PreviousVersionKnown ==
    \A a \in Actors : pc[a] \in {"check", "rep_check"} => PreviousKnown(a)

\* The same of files that are overwritten, rows of other hosts or in bad status included,
\* and updateFileInfoDb finds the previous version.
OverwriteSafe == Intact /\ PreviousVersionKnown

RowsOn(vol) == {p \in Places : p[1] = vol /\ db[p] # None}

\* number_of_files never exceeds the number of rows on the disk while no File ID is
\* handled by two actors at once, although rows of ngas_disks are written back that
\* were read long before.
CountBounded == raced = {} => \A vol \in Volumes : numFiles[vol] <= Cardinality(RowsOn(vol))

\* A file in the Back-Log Buffer is eventually handled, with or without its request
\* object, whatever failed or crashed before, unless a disk is full.
BufferEmptied ==
    \A r \in Requests : ("file" \in backlog[r]) ~> ("file" \notin backlog[r] \/ completed # {})

-----------------------------------------------------------------------------
(* The contract with the clients, and how the archive keeps it.            *)

\* A row of ngas_files describes the file at its place, and that is what r sent.
IsArchived(r) == \E p \in Places : db[p] = r /\ fs[p] = r

\* The data of r is somewhere else: in a Staging Area, the Back-Log Buffer, a Bad Files Area,
\* or on a disk without a row.
IsKept(r) == \/ "file" \in backlog[r] \/ r \in bad
             \/ \E k \in {"own", "copy"} : <<r, k>> \in staged
             \/ \E p \in Places : fs[p] = r

Contract == INSTANCE ArchiveContract WITH
    where <- [r \in Requests |-> IF IsArchived(r) THEN "archived" ELSE IF IsKept(r) THEN "kept" ELSE "nowhere"],
    contested <- {r \in Requests : job[r].file \in raced}

\* The Archive Request handling implements ArchiveContract, through every failure and crash:
\* a file that is archived stays so, whether its client was told or not, a client is told
\* "ok" only when its file is archived, and "buffered" only when it is kept, and neither is
\* taken back.
KeepsContract == Contract!Spec

-----------------------------------------------------------------------------
(* What the documentation says of archiving.                               *)

\* "When incoming files matching an existing file ID in the NGAS DB, their contents
\* are stored using a new version number if file versioning is on"
\* (doc/commands/storage.rst): whatever a client was told is archived is archived.
StoredAsNewVersion ==
    \A r \in Requests : reply[r] = "ok" => db[MainPlace(r)] = r /\ fs[MainPlace(r)] = r

\* "If file versioning is off, they will overwrite an existing file's contents
\* instead" (doc/commands/storage.rst): once a client was told so, and nobody else
\* overwrote the file or handled it at the same time, no row of that version
\* describes other content.
OverwriteReplaces ==
    \A r \in Requests :
        \/ reply[r] # "ok" \/ ~job[r].over \/ job[r].file \in raced
        \/ \E q \in Requests \ {r} : job[q].over
        \/ \A vol \in Volumes : db[Place(job[r], vol)] \in {r, None}

\* "take the one sitting in a main disk, not a replication disk" (_validate_overwrite):
\* the file that is removed is the one whose row the new file took over.
ReplacedIsRemoved == \A a \in Actors : pc[a] = "rm_prev" => OldFile(a) = OldPlace(a)

\* "This is done in a safe manner such that first a Temporary Back-Log Buffer File
\* is created, this is then renamed" (backLogBufferFiles): a buffered file is
\* archived under the File ID its client gave.
BufferedName == \A p \in Places : db[p] # None => p[2] = job[db[p]].file

\* "If the current state/sub-state allows the operation it will continue without
\* interruptions" (doc/server.rst): a request that was let in is eventually through.
ArchiveEnds == \A r \in Requests : (pc[r] = "receive") ~> (pc[r] \in {"done", "dead"})
=============================================================================
