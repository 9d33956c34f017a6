--------------------------- MODULE ArchiveProofs ---------------------------
(***************************************************************************)
(* Proofs about Archive for any number of requests, File IDs, storage sets,*)
(* versions and faults: what a client was told of its file is true and     *)
(* stays true, and the Archive Request handling implements ArchiveContract,*)
(* as long as no client asks to overwrite; and rows describe their files   *)
(* when clients do, as long as nothing stops a request half-way.           *)
(***************************************************************************)
EXTENDS Archive, FiniteSetTheorems, WellFoundedInduction, TLAPS

\* Request r was let in and has a target disk.
Known(r) == job[r].content = r /\ job[r].file \in Files /\ job[r].set \in Sets

\* Nobody overwrites: the version is always a new one.
NewVersions == \A a \in Actors : ~job[a].over /\ job[a].prev = None /\ pc[a] # "validate"

\* A request has a job from Start on, its own, and is answered when it is done.
RequestsKnown ==
    \A r \in Requests :
        /\ Known(r) \/ (job[r].content = None /\ job[r].file = None)
        /\ pc[r] = "new" => job[r].content = None
        /\ pc[r] \notin {"new", "done"} => Known(r)
        /\ reply[r] # "none" => pc[r] = "done"
        /\ reply[r] \in {"ok", "buffered"} => Known(r)
        /\ backlog[r] # {} \/ r \in todo => Known(r)

\* The Janitor works for a request, under its File ID or the name of its staging file.
JanitorKnown ==
    pc[Janitor] # "idle" =>
        /\ job[Janitor].content \in Requests
        /\ Known(job[Janitor].content)
        /\ job[Janitor].set \in Sets
        /\ job[Janitor].file \in {job[job[Janitor].content].file, job[Janitor].content}

\* The checksum is not known before the file is checked, and the version is after the DAPI.
Late == {"space", "space_write", "reply", "rm_file"}
Prepared ==
    /\ \A a \in Actors : /\ pc[a] \in {"receive", "dapi", "validate", "move", "check"} => job[a].sum = None
                         /\ pc[a] \in Handling \cup Late => job[a].ver \in Versions
    /\ \A r \in Requests : reply[r] = "ok" => job[r].ver \in Versions

\* The file of a request is where the request or the Janitor puts it.
Owned ==
    \A p \in Places, r \in Requests : fs[p] = r => Known(r) /\ p[2] \in {job[r].file, r}

\* Two actors that handle one File ID are recorded, and one of them is a request.
Recorded ==
    /\ raced \subseteq Files
    /\ \A a, b \in Actors :
          a # b /\ pc[a] \in Handling /\ pc[b] \in Handling /\ job[a].file = job[b].file
             => job[a].file \in raced

\* What the actor knows at each step of a File ID that nobody else handles.
Moved == Handling \ {"validate", "move"}
Registered == Moved \ {"check", "write"}
NoReplicaYet == {"move", "check", "write", "count", "rep_copy", "rep_check", "rep_write"}
Alone(a) ==
    /\ pc[a] \in {"move", "check", "write"} => db[MainPlace(a)] = None
    /\ pc[a] \in NoReplicaYet => db[RepPlace(a)] = None
    /\ pc[a] \in Moved => fs[MainPlace(a)] = job[a].content
    /\ pc[a] \in Registered => db[MainPlace(a)] = job[a].content
    /\ pc[a] \in Registered \cup {"write"} => job[a].sum = job[a].content
    /\ pc[a] \in {"write", "rep_write"} => ~job[a].update
    /\ pc[a] \in {"rep_check", "rep_write"} => fs[RepPlace(a)] = job[a].content
HandledAlone == \A a \in Actors : pc[a] \in Handling => job[a].file \in raced \/ Alone(a)

\* The file an actor is through with is archived.
Stored(a) == db[MainPlace(a)] = job[a].content /\ fs[MainPlace(a)] = job[a].content
Through ==
    /\ \A a \in Actors : pc[a] \in Late => job[a].file \in raced \/ Stored(a)
    /\ \A r \in Requests : reply[r] = "ok" => job[r].file \in raced \/ Stored(r)

\* A row describes the file at its place.
RowsTrue == \A p \in Places : db[p] = None \/ fs[p] = db[p] \/ p[2] \in raced

\* A staging file is there until it is moved or buffered.
StagingKept ==
    /\ \A r \in Requests : pc[r] \in {"dapi", "move", "bl_data", "bl_req", "bl_done"}
                              => <<r, "own">> \in staged
    /\ pc[Janitor] \in {"dapi", "move"} => <<job[Janitor].content, "copy">> \in staged

\* What holds whether clients overwrite or not.
BaseInv == TypeOK /\ RequestsKnown /\ JanitorKnown /\ Prepared

\* The inductive invariant when no client overwrites.
IndInv ==
    /\ BaseInv /\ NewVersions
    /\ Owned /\ Recorded /\ HandledAlone /\ Through /\ RowsTrue /\ BufferedKept /\ StagingKept


-----------------------------------------------------------------------------
(* What the steps do, for every instance, with or without overwriting.     *)

\* An actor at work has a job for a request that was let in.
LEMMA JobOf ==
    ASSUME BaseInv, NEW a \in Actors, pc[a] \notin {"new", "done", "idle"}
    PROVE  /\ job[a].content \in Requests /\ Known(job[a].content)
           /\ job[a].set \in Sets /\ job[a].file \in FileIds
           /\ job[a].file \in {job[job[a].content].file, job[a].content}
           /\ a \in Requests => job[a].content = a
  <1>1. CASE a = Janitor
    BY <1>1, ActorsAssumption DEF BaseInv, JanitorKnown, FileIds, Known, Actors
  <1>2. CASE a \in Requests
    BY <1>2, ActorsAssumption DEF BaseInv, RequestsKnown, FileIds, Known, Actors
  <1>3. QED BY <1>1, <1>2 DEF Actors

\* The places of a job on the two disks of its storage set.
LEMMA PlacesOf ==
    ASSUME NEW a, job[a].set \in Sets, job[a].file \in FileIds, job[a].ver \in Versions
    PROVE  /\ MainPlace(a) \in Places /\ RepPlace(a) \in Places /\ MainPlace(a) # RepPlace(a)
           /\ MainPlace(a)[2] = job[a].file /\ MainPlace(a)[3] = job[a].ver
           /\ RepPlace(a)[2] = job[a].file /\ RepPlace(a)[3] = job[a].ver
           /\ \A vol \in Volumes : Place(job[a], vol) \in Places
           /\ job[a].prev \in Volumes \cup {None} => OldPlace(a) \in Places
  BY DEF MainPlace, RepPlace, Place, Main, Rep, Places, Volumes, OldPlace

\* What an exception changes.
LEMMA AbortEffect ==
    ASSUME TypeOK, NEW a \in Actors, Abort(a), a = Janitor => job[a].content \in Requests
    PROVE  /\ pc' = [pc EXCEPT ![a] = IF a = Janitor THEN "idle" ELSE "done"]
           /\ a \in Requests => /\ reply' = [reply EXCEPT ![a] = "failed"]
                                /\ staged' = staged \ {<<a, "own">>}
                                /\ UNCHANGED bufferVars
           /\ a = Janitor => /\ backlog' = [backlog EXCEPT ![job[a].content] = {}]
                             /\ bad' = bad \cup {job[a].content}
                             /\ UNCHANGED <<reply, staged, todo>>
  BY ActorsAssumption DEF Abort, Goto, Actors

\* What a step of postFileRecepHandling leaves alone.
StepFrame(a) ==
    /\ \A b \in Actors : b # a => pc'[b] = pc[b] /\ job'[b] = job[b]
    /\ job'[a] \in Jobs
    /\ job'[a].content = job[a].content /\ job'[a].file = job[a].file /\ job'[a].set = job[a].set
    /\ job'[a].over = job[a].over /\ job'[a].want = job[a].want
    /\ pc[a] # "dapi" => job'[a].ver = job[a].ver
    /\ pc[a] \notin {"dapi", "validate"} => raced' = raced
    /\ pc[a] # "validate" => job'[a].prev = job[a].prev /\ job'[a].prevVer = job[a].prevVer
    /\ job'[a].files = job[a].files
    /\ pc[a] \notin {"rep_read", "space"} => job'[a].repFiles = job[a].repFiles
    /\ pc[a] \notin {"check", "rep_check"} => job'[a].sum = job[a].sum /\ job'[a].update = job[a].update
    /\ job' \in [Actors -> Jobs] /\ DOMAIN pc' = Actors
    /\ todo' = todo

\* The DAPI sets version and exists in a job.
LEMMA DapiUpdate ==
    ASSUME job \in [Actors -> Jobs], NEW a \in Actors, NEW v \in Nat, NEW e \in BOOLEAN,
           job' = [job EXCEPT ![a].ver = v, ![a].exists = e]
    PROVE  /\ job' \in [Actors -> Jobs]
           /\ \A b \in Actors : b # a => job'[b] = job[b]
           /\ job'[a] = [job[a] EXCEPT !.ver = v, !.exists = e]
  <1>1. job'[a] = [job[a] EXCEPT !.ver = v, !.exists = e] /\ \A b \in Actors : b # a => job'[b] = job[b]
    OBVIOUS
  <1>2. [job[a] EXCEPT !.ver = v, !.exists = e] \in Jobs
    BY DEF Jobs
  <1>3. job' = [b \in Actors |-> job'[b]] /\ \A b \in Actors : job'[b] \in Jobs
    BY <1>1, <1>2
  <1>4. QED BY <1>1, <1>3

\* _validate_overwrite sets the copy to replace.
LEMMA ValidateUpdate ==
    ASSUME job \in [Actors -> Jobs], NEW a \in Actors, NEW vol \in Volumes, NEW v \in Nat,
           job' = [job EXCEPT ![a].prev = vol, ![a].prevVer = v, ![a].exists = TRUE]
    PROVE  /\ job' \in [Actors -> Jobs]
           /\ \A b \in Actors : b # a => job'[b] = job[b]
           /\ job'[a] = [job[a] EXCEPT !.prev = vol, !.prevVer = v, !.exists = TRUE]
  <1>1. /\ job'[a] = [job[a] EXCEPT !.prev = vol, !.prevVer = v, !.exists = TRUE]
        /\ \A b \in Actors : b # a => job'[b] = job[b]
    OBVIOUS
  <1>2. [job[a] EXCEPT !.prev = vol, !.prevVer = v, !.exists = TRUE] \in Jobs
    BY DEF Jobs
  <1>3. job' = [b \in Actors |-> job'[b]] /\ \A b \in Actors : job'[b] \in Jobs
    BY <1>1, <1>2
  <1>4. QED BY <1>1, <1>3

\* The copies to choose from are rows of the File ID, of the version asked for if one is.
LEMMA ReplaceableRows ==
    ASSUME NEW a, NEW seen \in SUBSET Rows(job[a].file), NEW p \in Replaceable(job[a], seen)
    PROVE  /\ p \in Rows(job[a].file) /\ p \in Places /\ p[2] = job[a].file /\ db[p] # None
           /\ p[1] \in Volumes /\ p[3] \in Versions /\ p[3] \in Nat
           /\ p = <<p[1], job[a].file, p[3]>>
           /\ job[a].want # 0 => p[3] = job[a].want
  <1>1. p \in seen /\ (job[a].want # 0 => p[3] = job[a].want)
    BY DEF Replaceable
  <1>2. p \in Rows(job[a].file)
    BY <1>1
  <1>3. p \in Places /\ p[2] = job[a].file /\ db[p] # None
    BY <1>2 DEF Rows
  <1>4. p[1] \in Volumes /\ p[3] \in Versions /\ p = <<p[1], p[2], p[3]>>
    BY <1>3 DEF Places
  <1>5. p[3] \in Nat
    BY <1>4 DEF Versions
  <1>6. QED BY <1>1, <1>2, <1>3, <1>4, <1>5

\* The validation takes such a copy, or fails.
LEMMA ValidateEffect ==
    ASSUME NEW a, Validate(a), ~(Abort(a) /\ UNCHANGED <<job, raced>>)
    PROVE  \E p \in Places :
              /\ p \in Rows(job[a].file) /\ p[1] \in Volumes /\ p[3] \in Nat
              /\ p = <<p[1], job[a].file, p[3]>>
              /\ job[a].want # 0 => p[3] = job[a].want
              /\ job' = [job EXCEPT ![a].prev = p[1], ![a].prevVer = p[3], ![a].exists = TRUE]
              /\ raced' = IF p[3] = job[a].ver /\ p[1][2] = "main" THEN raced ELSE raced \cup {job[a].file}
              /\ pc' = [pc EXCEPT ![a] = "move"]
              /\ UNCHANGED <<reply, staged, bufferVars>>
  <1>0. PICK seen \in SUBSET Rows(job[a].file) : \E p \in Replaceable(job[a], seen) :
           /\ job' = [job EXCEPT ![a].prev = p[1], ![a].prevVer = p[3], ![a].exists = TRUE]
           /\ raced' = IF p[3] = job[a].ver /\ p[1][2] = "main" THEN raced ELSE raced \cup {job[a].file}
           /\ pc' = [pc EXCEPT ![a] = "move"]
           /\ UNCHANGED <<reply, staged, bufferVars>>
    BY DEF Validate, Goto
  <1>1. PICK p \in Replaceable(job[a], seen) :
           /\ job' = [job EXCEPT ![a].prev = p[1], ![a].prevVer = p[3], ![a].exists = TRUE]
           /\ raced' = IF p[3] = job[a].ver /\ p[1][2] = "main" THEN raced ELSE raced \cup {job[a].file}
           /\ pc' = [pc EXCEPT ![a] = "move"]
           /\ UNCHANGED <<reply, staged, bufferVars>>
    BY <1>0
  <1>2. /\ p \in Rows(job[a].file) /\ p \in Places /\ p[1] \in Volumes /\ p[3] \in Nat
        /\ p = <<p[1], job[a].file, p[3]>> /\ (job[a].want # 0 => p[3] = job[a].want)
    BY ReplaceableRows
  <1>3. QED BY <1>1, <1>2

\* updateFileInfoDb sets the checksum, and whether there is a row to update.
LEMMA CheckUpdate ==
    ASSUME job \in [Actors -> Jobs], NEW a \in Actors, NEW u \in BOOLEAN, NEW s \in Requests \cup {None},
           job' = [job EXCEPT ![a].update = u, ![a].sum = s]
    PROVE  /\ job' \in [Actors -> Jobs]
           /\ \A b \in Actors : b # a => job'[b] = job[b]
           /\ job'[a] = [job[a] EXCEPT !.update = u, !.sum = s]
  <1>1. job'[a] = [job[a] EXCEPT !.update = u, !.sum = s] /\ \A b \in Actors : b # a => job'[b] = job[b]
    OBVIOUS
  <1>2. [job[a] EXCEPT !.update = u, !.sum = s] \in Jobs
    BY DEF Jobs
  <1>3. job' = [b \in Actors |-> job'[b]] /\ \A b \in Actors : job'[b] \in Jobs
    BY <1>1, <1>2
  <1>4. QED BY <1>1, <1>3

\* The row of the Replication Disk is read into the job.
LEMMA ReadUpdate ==
    ASSUME job \in [Actors -> Jobs], NEW a \in Actors, NEW n \in Int, NEW full \in BOOLEAN,
           job' = [job EXCEPT ![a].repFiles = n, ![a].repFull = full]
    PROVE  /\ job' \in [Actors -> Jobs]
           /\ \A b \in Actors : b # a => job'[b] = job[b]
           /\ job'[a] = [job[a] EXCEPT !.repFiles = n, !.repFull = full]
  <1>1. job'[a] = [job[a] EXCEPT !.repFiles = n, !.repFull = full] /\ \A b \in Actors : b # a => job'[b] = job[b]
    OBVIOUS
  <1>2. [job[a] EXCEPT !.repFiles = n, !.repFull = full] \in Jobs
    BY DEF Jobs
  <1>3. job' = [b \in Actors |-> job'[b]] /\ \A b \in Actors : job'[b] \in Jobs
    BY <1>1, <1>2
  <1>4. QED BY <1>1, <1>3

\* The checksum updateFileInfoDb has for the file at place p.
CheckedSum(a, p) == IF job[a].sum # None THEN job[a].sum
                    ELSE IF a = Janitor THEN fs[p] ELSE job[a].content

\* What the check of the main file changes when it finds nothing wrong.
LEMMA CheckEffect ==
    ASSUME BaseInv, NEW a \in Actors, Check(a), job' # job \/ ~Abort(a)
    PROVE  /\ job' \in [Actors -> Jobs] /\ \A b \in Actors : b # a => job'[b] = job[b]
           /\ job'[a] = [job[a] EXCEPT !.update = db[OldPlace(a)] # None, !.sum = CheckedSum(a, MainPlace(a))]
           /\ CheckedSum(a, MainPlace(a)) \in Requests \cup {None}
           /\ pc' = [pc EXCEPT ![a] = "write"] /\ fs[MainPlace(a)] # None
           /\ UNCHANGED <<reply, staged, bufferVars, fs, db, raced>>
  <1> DEFINE u == db[OldPlace(a)] # None
             s == CheckedSum(a, MainPlace(a))
  <1>1. /\ job' = [job EXCEPT ![a].update = u, ![a].sum = s] /\ u \in BOOLEAN
        /\ pc' = [pc EXCEPT ![a] = "write"] /\ fs[MainPlace(a)] # None
        /\ UNCHANGED <<reply, staged, bufferVars, fs, db, raced>>
    BY DEF Check, CheckEntry, CheckedSum, Goto
  <1>2. MainPlace(a) \in Places
    BY JobOf, PlacesOf DEF Check, BaseInv, Prepared, Handling
  <1>3. s \in Requests \cup {None}
    BY <1>2, JobOf DEF Check, BaseInv, TypeOK, Jobs, CheckedSum
  <1>4. job \in [Actors -> Jobs]
    BY DEF BaseInv, TypeOK
  <1> HIDE DEF u, s
  <1>5. /\ job' \in [Actors -> Jobs] /\ \A b \in Actors : b # a => job'[b] = job[b]
        /\ job'[a] = [job[a] EXCEPT !.update = u, !.sum = s]
    BY <1>1, <1>3, <1>4, CheckUpdate
  <1>6. QED BY <1>1, <1>3, <1>5 DEF u, s

\* The same of the replica.
LEMMA RepCheckEffect ==
    ASSUME BaseInv, NEW a \in Actors, RepCheck(a), job' # job \/ ~Abort(a)
    PROVE  /\ job' \in [Actors -> Jobs] /\ \A b \in Actors : b # a => job'[b] = job[b]
           /\ job'[a] = [job[a] EXCEPT !.update = db[RepPlace(a)] # None, !.sum = CheckedSum(a, RepPlace(a))]
           /\ CheckedSum(a, RepPlace(a)) \in Requests \cup {None}
           /\ pc' = [pc EXCEPT ![a] = "rep_write"] /\ fs[RepPlace(a)] # None
           /\ UNCHANGED <<reply, staged, bufferVars, fs, db, raced>>
  <1> DEFINE u == db[RepPlace(a)] # None
             s == CheckedSum(a, RepPlace(a))
  <1>1. /\ job' = [job EXCEPT ![a].update = u, ![a].sum = s] /\ u \in BOOLEAN
        /\ pc' = [pc EXCEPT ![a] = "rep_write"] /\ fs[RepPlace(a)] # None
        /\ UNCHANGED <<reply, staged, bufferVars, fs, db, raced>>
    BY DEF RepCheck, CheckEntry, CheckedSum, Goto
  <1>2. RepPlace(a) \in Places
    BY JobOf, PlacesOf DEF RepCheck, BaseInv, Prepared, Handling
  <1>3. s \in Requests \cup {None}
    BY <1>2, JobOf DEF RepCheck, BaseInv, TypeOK, Jobs, CheckedSum
  <1>4. job \in [Actors -> Jobs]
    BY DEF BaseInv, TypeOK
  <1> HIDE DEF u, s
  <1>5. /\ job' \in [Actors -> Jobs] /\ \A b \in Actors : b # a => job'[b] = job[b]
        /\ job'[a] = [job[a] EXCEPT !.update = u, !.sum = s]
    BY <1>1, <1>3, <1>4, CheckUpdate
  <1>6. QED BY <1>1, <1>3, <1>5 DEF u, s

\* A step of the archive handling changes the process and the request of its own actor only,
\* and what it changes of the disks, the rows and the buffer is bounded by StepFrame.
LEMMA FrameStep ==
    ASSUME BaseInv, NEW a \in Actors, ArchiveStep(a)
    PROVE  StepFrame(a)
  <1> USE DEF StepFrame, Goto, bufferVars, diskVars
  <1>0. /\ job \in [Actors -> Jobs] /\ DOMAIN pc = Actors /\ numFiles \in [Volumes -> Int]
        /\ a = Janitor => pc[a] # "dead"
    BY ActorsAssumption DEF BaseInv, TypeOK, JanitorLabels, Handling
  <1>a. ASSUME pc[a] \notin {"new", "done", "idle"}, Abort(a), UNCHANGED <<job, raced>>
        PROVE  StepFrame(a)
    <2>1. a = Janitor => job[a].content \in Requests
      BY <1>a, JobOf
    <2>2. /\ pc' = [pc EXCEPT ![a] = IF a = Janitor THEN "idle" ELSE "done"]
          /\ todo' = todo
      BY <1>a, <2>1, AbortEffect DEF BaseInv, Actors
    <2>3. QED BY <1>0, <1>a, <2>2
  <1>1. CASE Dapi(a)
    <2>1. CASE job' = job
      BY <1>0, <1>1, <1>a, <2>1 DEF Dapi
    <2>2. CASE job' # job
      <3> DEFINE v == FileVersion(job[a])
                 p == <<Main(job[a].set), job[a].file, v>>
                 e == db[p] # None /\ fs[p] # None
      <3>1. job' = [job EXCEPT ![a].ver = v, ![a].exists = e] /\ v \in Nat /\ e \in BOOLEAN
        BY <1>1, <2>2 DEF Dapi, Versions
      <3> HIDE DEF v, e
      <3>2. /\ job' \in [Actors -> Jobs] /\ \A b \in Actors : b # a => job'[b] = job[b]
            /\ job'[a] = [job[a] EXCEPT !.ver = v, !.exists = e]
        BY <1>0, <3>1, DapiUpdate
      <3>3. QED BY <1>0, <1>1, <2>2, <3>2 DEF Dapi, Jobs
    <2>3. QED BY <2>1, <2>2
  <1>2. CASE Validate(a)
    <2>1. CASE Abort(a) /\ UNCHANGED <<job, raced>>
      BY <1>2, <1>a, <2>1 DEF Validate
    <2>2. CASE ~(Abort(a) /\ UNCHANGED <<job, raced>>)
      <3>1. PICK p \in Places :
               /\ p[1] \in Volumes /\ p[3] \in Nat
               /\ job' = [job EXCEPT ![a].prev = p[1], ![a].prevVer = p[3], ![a].exists = TRUE]
               /\ pc' = [pc EXCEPT ![a] = "move"] /\ todo' = todo
        BY <1>2, <2>2, ValidateEffect
      <3>2. pc[a] = "validate"
        BY <1>2 DEF Validate
      <3>3. /\ job' \in [Actors -> Jobs] /\ \A b \in Actors : b # a => job'[b] = job[b]
            /\ job'[a] = [job[a] EXCEPT !.prev = p[1], !.prevVer = p[3], !.exists = TRUE]
        BY <1>0, <3>1, ValidateUpdate
      <3>5. /\ job'[a] \in Jobs /\ job'[a].content = job[a].content /\ job'[a].file = job[a].file
            /\ job'[a].set = job[a].set /\ job'[a].over = job[a].over /\ job'[a].ver = job[a].ver
            /\ job'[a].want = job[a].want /\ job'[a].files = job[a].files
            /\ job'[a].repFiles = job[a].repFiles
            /\ job'[a].sum = job[a].sum /\ job'[a].update = job[a].update
        BY <1>0, <3>3 DEF Jobs
      <3>6. QED BY <1>0, <3>1, <3>2, <3>3, <3>5
    <2>3. QED BY <2>1, <2>2
  <1>3. CASE Move(a)
    BY <1>0, <1>3, <1>a DEF Move
  <1>4. CASE Check(a)
    <2>1. CASE job' = job
      BY <1>0, <1>4, <1>a, <2>1 DEF Check, CheckEntry
    <2>2. CASE job' # job
      <3>u. PICK u : u = (db[OldPlace(a)] # None)
        OBVIOUS
      <3>1. /\ job' \in [Actors -> Jobs] /\ \A b \in Actors : b # a => job'[b] = job[b]
            /\ job'[a] = [job[a] EXCEPT !.update = u, !.sum = CheckedSum(a, MainPlace(a))]
            /\ \E l : pc' = [pc EXCEPT ![a] = l]
            /\ UNCHANGED <<bufferVars, raced>>
            /\ pc[a] \in {"check", "rep_check"}
        BY <1>4, <2>2, <3>u, CheckEffect DEF Check
      <3>2. job'[a] \in Jobs /\ \A b \in Actors : b # a => pc'[b] = pc[b]
        BY <1>0, <3>1
      <3>3. QED BY <1>0, <3>1, <3>2 DEF Jobs
    <2>3. QED BY <2>1, <2>2
  <1>5. CASE Write(a)
    BY <1>0, <1>5, <1>a DEF Write, WriteEntry
  <1>6. CASE Count(a)
    BY <1>0, <1>6, <1>a DEF Count
  <1>7. CASE Replicate(a)
    BY <1>0, <1>7, <1>a DEF Replicate
  <1>8. CASE RepCheck(a)
    <2>1. CASE job' = job
      BY <1>0, <1>8, <1>a, <2>1 DEF RepCheck, CheckEntry
    <2>2. CASE job' # job
      <3>u. PICK u : u = (db[RepPlace(a)] # None)
        OBVIOUS
      <3>1. /\ job' \in [Actors -> Jobs] /\ \A b \in Actors : b # a => job'[b] = job[b]
            /\ job'[a] = [job[a] EXCEPT !.update = u, !.sum = CheckedSum(a, RepPlace(a))]
            /\ \E l : pc' = [pc EXCEPT ![a] = l]
            /\ UNCHANGED <<bufferVars, raced>>
            /\ pc[a] \in {"check", "rep_check"}
        BY <1>8, <2>2, <3>u, RepCheckEffect DEF RepCheck
      <3>2. job'[a] \in Jobs /\ \A b \in Actors : b # a => pc'[b] = pc[b]
        BY <1>0, <3>1
      <3>3. QED BY <1>0, <3>1, <3>2 DEF Jobs
    <2>3. QED BY <2>1, <2>2
  <1>9. CASE RepWrite(a)
    BY <1>0, <1>9, <1>a DEF RepWrite, WriteEntry
  <1>10. CASE RepRead(a)
    <2> DEFINE n == numFiles[Rep(job[a].set)]
               full == Rep(job[a].set) \in completed
    <2>1. n \in Int /\ full \in BOOLEAN
      BY <1>0, <1>10, JobOf DEF RepRead, Volumes, Rep
    <2>2. job' = [job EXCEPT ![a].repFiles = n, ![a].repFull = full]
      BY <1>10 DEF RepRead
    <2> HIDE DEF n, full
    <2>3. /\ job' \in [Actors -> Jobs] /\ \A b \in Actors : b # a => job'[b] = job[b]
          /\ job'[a] = [job[a] EXCEPT !.repFiles = n, !.repFull = full]
      BY <1>0, <2>1, <2>2, ReadUpdate
    <2>4. QED BY <1>0, <1>10, <2>3 DEF RepRead, Jobs
  <1>11. CASE RepCount(a)
    BY <1>0, <1>11, <1>a DEF RepCount
  <1>12. CASE RemovePrev(a)
    BY <1>0, <1>12 DEF RemovePrev
  <1>13. CASE SpaceRead(a)
    <2>1. numFiles[Rep(job[a].set)] \in Int
      BY <1>0, <1>13, JobOf DEF SpaceRead, Volumes, Rep
    <2>2. QED BY <1>0, <1>13, <2>1 DEF SpaceRead, Jobs
  <1>14. CASE SpaceWrite(a)
    BY <1>0, <1>14 DEF SpaceWrite
  <1>15. QED BY <1>1, <1>2, <1>3, <1>4, <1>5, <1>6, <1>7, <1>8, <1>9, <1>10, <1>11, <1>12, <1>13, <1>14 DEF ArchiveStep

\* An exception keeps the shape of what it changes.
LEMMA AbortType ==
    ASSUME BaseInv, NEW a \in Actors, Abort(a), pc[a] \notin {"new", "done", "idle"}
    PROVE  /\ \A r \in Requests : pc'[r] \in RequestLabels
           /\ pc'[Janitor] \in JanitorLabels
           /\ reply' \in [Requests -> {"none", "ok", "failed", "buffered"}]
           /\ staged' \subseteq Requests \X {"own", "copy"}
           /\ backlog' \in [Requests -> SUBSET {"file", "pickle"}]
           /\ todo' \subseteq Requests
           /\ bad' \subseteq Requests
  <1>1. job[a].content \in Requests
    BY JobOf
  <1>2. CASE a = Janitor
    BY <1>1, <1>2, ActorsAssumption DEF Abort, BaseInv, TypeOK, Goto, Actors, RequestLabels, JanitorLabels
  <1>3. CASE a # Janitor
    BY <1>1, <1>3, ActorsAssumption DEF Abort, BaseInv, TypeOK, Goto, Actors, RequestLabels, JanitorLabels, bufferVars
  <1>4. QED BY <1>2, <1>3

\* A step of postFileRecepHandling keeps the shape of the state.
LEMMA ArchiveType ==
    ASSUME BaseInv, NEW a \in Actors, ArchiveStep(a)
    PROVE  TypeOK'
  <1> USE DEF Goto, bufferVars, diskVars, Fault
  <1>0. /\ TypeOK /\ Janitor \notin Requests /\ Actors = Requests \cup {Janitor}
        /\ MaxFaults \in Nat /\ job' \in [Actors -> Jobs] /\ DOMAIN pc' = Actors
    BY ActorsAssumption, BoundsAssumption, FrameStep DEF BaseInv, StepFrame, Actors
  <1>1. pc[a] \notin {"new", "done", "idle"}
    BY DEF ArchiveStep, Dapi, Validate, Move, Check, Write, Count, Replicate, RepCheck, RepWrite,
       RepRead, RepCount, RemovePrev, SpaceRead, SpaceWrite
  <1>2. /\ job[a].content \in Requests /\ job[a].set \in Sets /\ job[a].file \in FileIds
        /\ job[a].sum \in Requests \cup {None}
    BY <1>0, <1>1, JobOf DEF TypeOK, Jobs
  <1>3. pc[a] \in Handling \cup Late =>
           /\ MainPlace(a) \in Places /\ RepPlace(a) \in Places /\ OldPlace(a) \in Places
    BY <1>0, <1>2, PlacesOf DEF BaseInv, Prepared, TypeOK, Jobs
  <1>4. Main(job[a].set) \in Volumes /\ Rep(job[a].set) \in Volumes
    BY <1>2 DEF Main, Rep, Volumes
  <1>a. ASSUME Abort(a), UNCHANGED <<fs, db, numFiles, completed, diskSem, raced>>,
               faults' = faults \/ (faults < MaxFaults /\ faults' = faults + 1)
        PROVE  TypeOK'
    <2>1. faults' \in 0 .. MaxFaults
      BY <1>0, <1>a DEF TypeOK
    <2>2. QED BY <1>0, <1>1, <1>a, <2>1, AbortType DEF TypeOK
  <1>b. ASSUME NEW l, pc' = [pc EXCEPT ![a] = l],
               a \in Requests => l \in RequestLabels, a = Janitor => l \in JanitorLabels
        PROVE  (\A r \in Requests : pc'[r] \in RequestLabels) /\ pc'[Janitor] \in JanitorLabels
    BY <1>0, <1>b DEF TypeOK
  <1>5. CASE Dapi(a)
    BY <1>0, <1>1, <1>2, <1>3, <1>4, <1>a, <1>b, <1>5 DEF Dapi, Versions, TypeOK, RequestLabels, JanitorLabels, Handling, Late
  <1>6. CASE Validate(a)
    <2>0. /\ UNCHANGED <<fs, db, numFiles, completed, diskSem>> /\ pc[a] = "validate"
          /\ faults' = faults \/ (faults < MaxFaults /\ faults' = faults + 1)
      BY <1>6 DEF Validate, Fault
    <2>1. CASE Abort(a) /\ UNCHANGED <<job, raced>>
      BY <1>a, <2>0, <2>1
    <2>2. CASE ~(Abort(a) /\ UNCHANGED <<job, raced>>)
      <3>1. /\ pc' = [pc EXCEPT ![a] = "move"] /\ UNCHANGED <<reply, staged, backlog, todo, bad>>
            /\ raced' = raced \/ raced' = raced \cup {job[a].file}
        BY <1>6, <2>2, ValidateEffect
      <3>2. (\A r \in Requests : pc'[r] \in RequestLabels) /\ pc'[Janitor] \in JanitorLabels
        BY <1>b, <3>1 DEF RequestLabels, JanitorLabels, Handling
      <3>3. faults' \in 0 .. MaxFaults
        BY <1>0, <2>0 DEF TypeOK
      <3>4. QED BY <1>0, <1>2, <2>0, <3>1, <3>2, <3>3 DEF TypeOK
    <2>3. QED BY <2>1, <2>2
  <1>7. CASE Move(a)
    BY <1>0, <1>1, <1>2, <1>3, <1>4, <1>a, <1>b, <1>7 DEF Move, TypeOK, RequestLabels, JanitorLabels, Handling, Late
  <1>8. CASE Check(a)
    BY <1>0, <1>1, <1>2, <1>3, <1>4, <1>a, <1>b, <1>8 DEF Check, CheckEntry, TypeOK, RequestLabels, JanitorLabels, Handling, Late
  <1>9. CASE Write(a)
    BY <1>0, <1>1, <1>2, <1>3, <1>4, <1>a, <1>b, <1>9 DEF Write, WriteEntry, TypeOK, RequestLabels, JanitorLabels, Handling, Late
  <1>10. CASE Count(a)
    BY <1>0, <1>1, <1>2, <1>3, <1>4, <1>a, <1>b, <1>10 DEF Count, TypeOK, RequestLabels, JanitorLabels, Handling, Late
  <1>11. CASE Replicate(a)
    BY <1>0, <1>1, <1>2, <1>3, <1>4, <1>a, <1>b, <1>11 DEF Replicate, TypeOK, RequestLabels, JanitorLabels, Handling, Late
  <1>12. CASE RepCheck(a)
    BY <1>0, <1>1, <1>2, <1>3, <1>4, <1>a, <1>b, <1>12 DEF RepCheck, CheckEntry, TypeOK, RequestLabels, JanitorLabels, Handling, Late
  <1>13. CASE RepWrite(a)
    BY <1>0, <1>1, <1>2, <1>3, <1>4, <1>a, <1>b, <1>13 DEF RepWrite, WriteEntry, TypeOK, RequestLabels, JanitorLabels, Handling, Late
  <1>14. CASE RepRead(a)
    BY <1>0, <1>1, <1>2, <1>3, <1>4, <1>a, <1>b, <1>14 DEF RepRead, TypeOK, RequestLabels, JanitorLabels, Handling, Late
  <1>15. CASE RepCount(a)
    BY <1>0, <1>1, <1>2, <1>3, <1>4, <1>a, <1>b, <1>15 DEF RepCount, WithCompleted, Jobs, TypeOK, RequestLabels, JanitorLabels, Handling, Late
  <1>16. CASE RemovePrev(a)
    BY <1>0, <1>1, <1>2, <1>3, <1>4, <1>a, <1>b, <1>16 DEF RemovePrev, TypeOK, RequestLabels, JanitorLabels, Handling, Late
  <1>17. CASE SpaceRead(a)
    BY <1>0, <1>1, <1>2, <1>3, <1>4, <1>a, <1>b, <1>17 DEF SpaceRead, TypeOK, RequestLabels, JanitorLabels, Handling, Late
  <1>18. CASE SpaceWrite(a)
    BY <1>0, <1>1, <1>2, <1>3, <1>4, <1>a, <1>b, <1>18 DEF SpaceWrite, Jobs, TypeOK, RequestLabels, JanitorLabels, Handling, Late
  <1>19. QED BY <1>5, <1>6, <1>7, <1>8, <1>9, <1>10, <1>11, <1>12, <1>13, <1>14, <1>15, <1>16, <1>17, <1>18 DEF ArchiveStep

\* How a step of postFileRecepHandling ends: the actor goes on, or there was an exception.
Outcome(a) ==
    /\ pc[a] \in Handling \cup {"dapi", "space", "space_write"}
    /\ pc'[a] \notin {"new", "dead", "receive", "dapi", "bl_req", "bl_done"}
    /\ pc'[a] \in Late => pc[a] \in {"rm_prev", "space", "space_write"}
    /\ pc'[a] = "done" => a \in Requests
    /\ pc'[a] = "idle" => a = Janitor
    /\ pc'[a] = "validate" => pc[a] = "dapi" /\ job[a].over
    /\ pc'[a] \in {"validate", "move", "check"} => pc[a] \in {"dapi", "validate", "move"}
    /\ pc[a] = "dapi" => \/ pc'[a] \in {"validate", "move"} /\ job'[a].ver \in Versions
                         \/ Abort(a) /\ job' = job
    /\ \/ UNCHANGED <<reply, backlog, bad>> /\ pc'[a] # "done"
       \/ Abort(a) /\ UNCHANGED <<job, fs, db, raced>>

\* A step either stays inside the handling (or reaches the reply), leaving the answers and the
\* buffer alone, or gives the request up as _archive_error does.
LEMMA StepOutcome ==
    ASSUME BaseInv, NEW a \in Actors, ArchiveStep(a)
    PROVE  Outcome(a)
  <1> USE DEF Goto, bufferVars, diskVars, Outcome, Handling, Late
  <1>0. /\ DOMAIN pc = Actors /\ Janitor \notin Requests /\ Actors = Requests \cup {Janitor}
        /\ job \in [Actors -> Jobs]
    BY ActorsAssumption DEF BaseInv, TypeOK, Actors
  <1>a. ASSUME Abort(a)
        PROVE  \/ a \in Requests /\ pc'[a] = "done"
               \/ a = Janitor /\ pc'[a] = "idle"
    <2>1. CASE a = Janitor
      BY <1>0, <1>a, <2>1 DEF Abort
    <2>2. CASE a # Janitor
      BY <1>0, <1>a, <2>2 DEF Abort
    <2>3. QED BY <2>1, <2>2
  <1>1. CASE Dapi(a)
    <2>1. CASE Abort(a) /\ UNCHANGED <<job, raced>>
      BY <1>0, <1>a, <1>1, <2>1 DEF Dapi
    <2>2. CASE ~(Abort(a) /\ UNCHANGED <<job, raced>>)
      <3>1. job'[a].ver = FileVersion(job[a]) /\ FileVersion(job[a]) \in Versions
        BY <1>0, <1>1, <2>2 DEF Dapi, Jobs
      <3>2. /\ pc[a] = "dapi" /\ pc'[a] \in {"validate", "move"}
            /\ UNCHANGED <<reply, backlog, bad>>
        BY <1>0, <1>1, <2>2 DEF Dapi
      <3>3. pc'[a] = "validate" => job[a].over
        BY <1>0, <1>1, <2>2 DEF Dapi
      <3>4. QED BY <3>1, <3>2, <3>3
    <2>3. QED BY <2>1, <2>2
  <1>2. CASE Validate(a)
    BY <1>0, <1>a, <1>2 DEF Validate
  <1>3. CASE Move(a)
    BY <1>0, <1>a, <1>3 DEF Move
  <1>4. CASE Check(a)
    BY <1>0, <1>a, <1>4 DEF Check, CheckEntry
  <1>5. CASE Write(a)
    BY <1>0, <1>a, <1>5 DEF Write, WriteEntry
  <1>6. CASE Count(a)
    BY <1>0, <1>a, <1>6 DEF Count
  <1>7. CASE Replicate(a)
    BY <1>0, <1>a, <1>7 DEF Replicate
  <1>8. CASE RepCheck(a)
    BY <1>0, <1>a, <1>8 DEF RepCheck, CheckEntry
  <1>9. CASE RepWrite(a)
    BY <1>0, <1>a, <1>9 DEF RepWrite, WriteEntry
  <1>10. CASE RepRead(a)
    BY <1>0, <1>a, <1>10 DEF RepRead
  <1>11. CASE RepCount(a)
    BY <1>0, <1>a, <1>11 DEF RepCount
  <1>12. CASE RemovePrev(a)
    BY <1>0, <1>a, <1>12 DEF RemovePrev
  <1>13. CASE SpaceRead(a)
    BY <1>0, <1>a, <1>13 DEF SpaceRead
  <1>14. CASE SpaceWrite(a)
    BY <1>0, <1>a, <1>14 DEF SpaceWrite
  <1>15. QED BY <1>1, <1>2, <1>3, <1>4, <1>5, <1>6, <1>7, <1>8, <1>9, <1>10, <1>11, <1>12, <1>13, <1>14 DEF ArchiveStep

\* A step of postFileRecepHandling keeps what is known of the requests.
LEMMA ArchiveBase ==
    ASSUME BaseInv, NEW a \in Actors, ArchiveStep(a)
    PROVE  BaseInv'
  <1>0. TypeOK /\ RequestsKnown /\ JanitorKnown /\ Prepared /\ TypeOK'
    BY ArchiveType DEF BaseInv
  <1>1. StepFrame(a) /\ Outcome(a)
    BY FrameStep, StepOutcome
  <1>2. pc[a] \notin {"new", "done", "idle"}
    BY <1>1 DEF Outcome, Handling
  <1>3. /\ job[a].content \in Requests /\ Known(job[a].content) /\ job[a].set \in Sets
        /\ a \in Requests => job[a].content = a /\ a # Janitor
    BY <1>2, JobOf, ActorsAssumption
  <1>4. /\ \A r \in Requests : r # a => reply'[r] = reply[r]
        /\ \A r \in Requests : backlog'[r] = backlog[r] \/ backlog'[r] = {}
        /\ a \in Requests => \/ reply'[a] = reply[a] /\ pc'[a] # "done"
                             \/ reply'[a] = "failed" /\ pc'[a] = "done"
        /\ reply \in [Requests -> {"none", "ok", "failed", "buffered"}]
    <2>1. CASE Abort(a)
      BY <1>0, <1>1, <1>3, <2>1, AbortEffect, ActorsAssumption DEF TypeOK, Actors, bufferVars
    <2>2. CASE UNCHANGED <<reply, backlog>> /\ pc'[a] # "done"
      BY <1>0, <2>2 DEF TypeOK
    <2>3. QED BY <1>1, <2>1, <2>2 DEF Outcome
  <1>5. \A r \in Requests : job'[r].content = job[r].content /\ job'[r].file = job[r].file
                            /\ job'[r].set = job[r].set /\ (Known(r)' <=> Known(r))
    <2> SUFFICES ASSUME NEW r \in Requests
                 PROVE  /\ job'[r].content = job[r].content /\ job'[r].file = job[r].file
                        /\ job'[r].set = job[r].set
      BY DEF Known
    <2>1. QED BY <1>1 DEF StepFrame, Actors
  <1>6. RequestsKnown'
    <2> SUFFICES ASSUME NEW r \in Requests
                 PROVE  /\ Known(r)' \/ (job'[r].content = None /\ job'[r].file = None)
                        /\ pc'[r] = "new" => job'[r].content = None
                        /\ pc'[r] \notin {"new", "done"} => Known(r)'
                        /\ reply'[r] # "none" => pc'[r] = "done"
                        /\ reply'[r] \in {"ok", "buffered"} => Known(r)'
                        /\ backlog'[r] # {} \/ r \in todo' => Known(r)'
      BY DEF RequestsKnown
    <2>1. CASE r # a
      BY <1>0, <1>1, <1>4, <1>5, <2>1 DEF RequestsKnown, StepFrame, Actors
    <2>2. CASE r = a
      BY <1>0, <1>1, <1>2, <1>3, <1>4, <1>5, <2>2 DEF RequestsKnown, StepFrame, Outcome, Actors
    <2>3. QED BY <2>1, <2>2
  <1>7. JanitorKnown'
    <2>1. CASE a = Janitor
      BY <1>0, <1>1, <1>2, <1>3, <1>5, <2>1 DEF JanitorKnown, StepFrame
    <2>2. CASE a # Janitor
      BY <1>0, <1>1, <1>5, <2>2 DEF JanitorKnown, StepFrame, Actors
    <2>3. QED BY <2>1, <2>2
  <1>8. Prepared'
    <2>1. \A b \in Actors : /\ pc'[b] \in {"receive", "dapi", "validate", "move", "check"} => job'[b].sum = None
                            /\ pc'[b] \in Handling \cup Late => job'[b].ver \in Versions
      <3>1. CASE Abort(a) /\ job' = job
        BY <1>0, <1>1, <1>3, <3>1, AbortEffect DEF Prepared, StepFrame, Handling, Late, TypeOK
      <3>2. CASE ~(Abort(a) /\ job' = job)
        BY <1>0, <1>1, <3>2 DEF Prepared, StepFrame, Outcome, Handling, Late
      <3>3. QED BY <3>1, <3>2
    <2>2. \A r \in Requests : reply'[r] = "ok" => job'[r].ver \in Versions
      BY <1>0, <1>1, <1>2, <1>4 DEF Prepared, RequestsKnown, StepFrame, Actors
    <2>3. QED BY <2>1, <2>2 DEF Prepared
  <1>9. QED BY <1>0, <1>6, <1>7, <1>8 DEF BaseInv

\* The job of a new request, and the one the Janitor makes of a buffered file.
LEMMA NewJobType ==
    ASSUME BaseInv, NEW r \in Requests, NEW s \in Sets, NEW f \in FileIds,
           NEW o \in BOOLEAN, NEW w \in Nat
    PROVE  /\ NewJob(r, f, o, w, s) \in Jobs
           /\ NewJob(r, f, o, w, s).content = r /\ NewJob(r, f, o, w, s).file = f
           /\ NewJob(r, f, o, w, s).set = s /\ NewJob(r, f, o, w, s).sum = None
           /\ NewJob(r, f, o, w, s).over = o /\ NewJob(r, f, o, w, s).prev = None
  <1>1. numFiles[Main(s)] \in Int
    BY DEF BaseInv, TypeOK, Main, Volumes
  <1>2. QED BY <1>1 DEF NewJob, Jobs

\* The Janitor reads back from the pickle what the request had asked for.
LEMMA BufferedJobType ==
    ASSUME BaseInv, NEW r \in Requests, NEW s \in Sets, Known(r)
    PROVE  /\ BufferedJob(r, s) \in Jobs
           /\ BufferedJob(r, s).content = r /\ BufferedJob(r, s).file \in {job[r].file, r}
           /\ BufferedJob(r, s).set = s /\ BufferedJob(r, s).sum = None
           /\ BufferedJob(r, s).over => job[r].over
           /\ BufferedJob(r, s).prev = None
  <1>1. /\ job[r].file \in FileIds /\ r \in FileIds /\ job[r].over \in BOOLEAN
        /\ job[r].want \in Nat /\ 0 \in Nat /\ FALSE \in BOOLEAN
    BY DEF BaseInv, TypeOK, Known, Jobs, FileIds, Actors
  <1>2. CASE "pickle" \in backlog[r]
    <2>1. BufferedJob(r, s) = NewJob(r, job[r].file, job[r].over, job[r].want, s)
      BY <1>2 DEF BufferedJob
    <2>2. /\ BufferedJob(r, s) \in Jobs /\ BufferedJob(r, s).content = r
          /\ BufferedJob(r, s).file = job[r].file /\ BufferedJob(r, s).set = s
          /\ BufferedJob(r, s).sum = None /\ BufferedJob(r, s).over = job[r].over
          /\ BufferedJob(r, s).prev = None
      BY <1>1, <2>1, NewJobType
    <2>3. QED BY <2>2
  <1>3. CASE "pickle" \notin backlog[r]
    <2>1. BufferedJob(r, s) = NewJob(r, r, FALSE, 0, s)
      BY <1>3 DEF BufferedJob
    <2>2. /\ BufferedJob(r, s) \in Jobs /\ BufferedJob(r, s).content = r
          /\ BufferedJob(r, s).file = r /\ BufferedJob(r, s).set = s
          /\ BufferedJob(r, s).sum = None /\ BufferedJob(r, s).prev = None
      <3>1. numFiles[Main(s)] \in Int
        BY DEF BaseInv, TypeOK, Main, Volumes
      <3>2. QED BY <1>1, <2>1, <3>1 DEF NewJob, Jobs
    <2>4. ~BufferedJob(r, s).over
      BY <2>1 DEF NewJob
    <2>3. QED BY <2>2, <2>4
  <1>4. QED BY <1>2, <1>3

\* What Start does when a target disk is found.
Started(r) ==
    \E f \in Files, s \in Sets, o \in BOOLEAN, w \in Nat :
        /\ o => Overwrites
        /\ job' = [job EXCEPT ![r] = NewJob(r, f, o, w, s)]
        /\ pc' = [pc EXCEPT ![r] = "receive"]
        /\ reply' = reply

\* A request is taken with a File ID and a target set, or is refused for want of a disk.
LEMMA StartEffect ==
    ASSUME BaseInv, NEW r \in Requests, Start(r)
    PROVE  /\ pc[r] = "new"
           /\ \/ Started(r)
              \/ /\ job' = job /\ pc' = [pc EXCEPT ![r] = "done"]
                 /\ reply' = [reply EXCEPT ![r] = "failed"]
           /\ UNCHANGED <<staged, fs, db, diskVars, bufferVars, faults, raced>>
  <1>1. pc[r] = "new" /\ UNCHANGED <<staged, fs, db, diskVars, bufferVars, faults, raced>>
    BY DEF Start
  <1>2. ASSUME NEW f \in Files, NEW s \in TargetSets, NEW o \in IF Overwrites THEN BOOLEAN ELSE {FALSE},
               NEW w \in IF o THEN {0} \cup Versions ELSE {0},
               job' = [job EXCEPT ![r] = NewJob(r, f, o, w, s)], Goto(r, "receive"), UNCHANGED reply
        PROVE  Started(r)
    <2>1. s \in Sets
      BY DEF TargetSets
    <2>2. o \in BOOLEAN
      BY SwitchesAssumption
    <2>3. w \in Nat
      BY <2>2, BoundsAssumption DEF Versions
    <2>4. o => Overwrites
      BY SwitchesAssumption
    <2>5. QED BY <1>2, <2>1, <2>2, <2>3, <2>4 DEF Started, Goto
  <1>3. QED BY <1>1, <1>2 DEF Start, Goto

\* The start of a request keeps the base invariant.
LEMMA StartBase ==
    ASSUME BaseInv, NEW r \in Requests, Start(r)
    PROVE  BaseInv'
  <1>0. /\ TypeOK /\ RequestsKnown /\ JanitorKnown /\ Prepared /\ Janitor \notin Requests
        /\ r \in Actors /\ Actors = Requests \cup {Janitor} /\ None \notin Requests
    BY ActorsAssumption DEF BaseInv, Actors
  <1>1. pc[r] = "new" /\ UNCHANGED <<staged, fs, db, diskVars, bufferVars, faults, raced>>
    BY StartEffect
  <1>2. CASE Started(r)
    <2>1. PICK f \in Files, s \in Sets, o \in BOOLEAN, w \in Nat :
              /\ job' = [job EXCEPT ![r] = NewJob(r, f, o, w, s)]
              /\ pc' = [pc EXCEPT ![r] = "receive"] /\ reply' = reply
      BY <1>2 DEF Started
    <2> DEFINE j == NewJob(r, f, o, w, s)
    <2>2. j \in Jobs /\ j.content = r /\ j.file = f /\ j.set = s /\ j.sum = None
      BY NewJobType DEF FileIds
    <2> HIDE DEF j
    <2>3. job' = [job EXCEPT ![r] = j] /\ job'[r] = j /\ \A b \in Actors : b # r => job'[b] = job[b]
      BY <1>0, <2>1 DEF TypeOK, j
    <2>4. TypeOK'
      BY <1>0, <1>1, <2>1, <2>2, <2>3 DEF TypeOK, RequestLabels, diskVars, bufferVars
    <2>5. /\ job[r].content = None
          /\ \A q \in Requests : Known(q) => q # r /\ Known(q)'
          /\ Known(r)'
      BY <1>0, <1>1, <2>2, <2>3 DEF RequestsKnown, Known
    <2>6. RequestsKnown'
      BY <1>0, <1>1, <2>1, <2>3, <2>5 DEF RequestsKnown, TypeOK, bufferVars
    <2>7. JanitorKnown'
      BY <1>0, <2>1, <2>3, <2>5 DEF JanitorKnown, TypeOK
    <2>8. Prepared'
      BY <1>0, <1>1, <2>1, <2>2, <2>3 DEF Prepared, RequestsKnown, TypeOK, Handling, Late
    <2>9. QED BY <2>4, <2>6, <2>7, <2>8 DEF BaseInv
  <1>3. CASE /\ job' = job /\ pc' = [pc EXCEPT ![r] = "done"]
             /\ reply' = [reply EXCEPT ![r] = "failed"]
    <2>1. TypeOK'
      BY <1>0, <1>1, <1>3 DEF TypeOK, RequestLabels, diskVars, bufferVars
    <2>2. RequestsKnown' /\ JanitorKnown' /\ Prepared'
      BY <1>0, <1>1, <1>3 DEF TypeOK, RequestsKnown, JanitorKnown, Prepared, Known, bufferVars, Handling, Late
    <2>3. QED BY <2>1, <2>2 DEF BaseInv
  <1>4. QED BY <1>2, <1>3, StartEffect

\* The steps of a request before and after postFileRecepHandling.
Outer(r) == Receive(r) \/ Reply(r) \/ BufferData(r) \/ BufferRequest(r) \/ BufferDone(r)

\* What such a step changes.
LEMMA OuterEffect ==
    ASSUME BaseInv, NEW r \in Requests, Outer(r)
    PROVE  /\ \A b \in Actors : b # r => pc'[b] = pc[b]
           /\ DOMAIN pc' = Actors
           /\ \/ pc[r] = "receive" /\ pc'[r] \in {"dapi", "done"}
              \/ pc[r] = "reply" /\ pc'[r] = "done"
              \/ pc[r] = "bl_data" /\ pc'[r] \in {"bl_req", "done"}
              \/ pc[r] = "bl_req" /\ pc'[r] \in {"bl_done", "done"}
              \/ pc[r] = "bl_done" /\ pc'[r] = "done"
           /\ \/ reply' = reply /\ pc'[r] # "done"
              \/ /\ pc'[r] = "done"
                 /\ \E m \in {"ok", "failed", "buffered"} :
                       /\ reply' = [reply EXCEPT ![r] = m]
                       /\ m = "ok" => pc[r] = "reply"
                       /\ m = "buffered" => /\ pc[r] = "bl_done" /\ backlog' = backlog
                                            /\ backlog[r] = {"file", "pickle"}
           /\ \/ staged' = staged
              \/ staged' = staged \cup {<<r, "own">>}
              \/ staged' = staged \ {<<r, "own">>} /\ pc'[r] = "done"
           /\ \/ backlog' = backlog
              \/ backlog' = [backlog EXCEPT ![r] = @ \cup {"file"}]
              \/ backlog' = [backlog EXCEPT ![r] = @ \cup {"pickle"}]
           /\ UNCHANGED <<job, fs, db, diskVars, todo, bad, raced>>
           /\ faults' = faults \/ (faults < MaxFaults /\ faults' = faults + 1)
  <1> USE DEF Goto, bufferVars, Fault, BufferFails
  <1>0. DOMAIN pc = Actors /\ r \in Actors /\ r # Janitor
    BY ActorsAssumption DEF BaseInv, TypeOK, Actors
  <1>1. CASE Receive(r)
    BY <1>0, <1>1 DEF Receive, Abort
  <1>2. CASE Reply(r)
    BY <1>0, <1>2 DEF Reply
  <1>3. CASE BufferData(r)
    BY <1>0, <1>3 DEF BufferData
  <1>4. CASE BufferRequest(r)
    BY <1>0, <1>4 DEF BufferRequest
  <1>5. CASE BufferDone(r)
    BY <1>0, <1>5 DEF BufferDone
  <1>6. QED BY <1>1, <1>2, <1>3, <1>4, <1>5 DEF Outer

\* Receiving, replying and the three steps of Back-Log Buffering keep the base invariant.
LEMMA OuterBase ==
    ASSUME BaseInv, NEW r \in Requests, Outer(r)
    PROVE  BaseInv'
  <1>0. /\ TypeOK /\ RequestsKnown /\ JanitorKnown /\ Prepared /\ Janitor \notin Requests
        /\ r \in Actors /\ Actors = Requests \cup {Janitor} /\ MaxFaults \in Nat
    BY ActorsAssumption, BoundsAssumption DEF BaseInv, Actors
  <1>1. /\ \A b \in Actors : b # r => pc'[b] = pc[b]
        /\ DOMAIN pc' = Actors
        /\ pc[r] \in {"receive", "reply", "bl_data", "bl_req", "bl_done"}
        /\ pc'[r] \in {"dapi", "done", "bl_req", "bl_done"}
        /\ pc'[r] = "dapi" => pc[r] = "receive"
        /\ UNCHANGED <<job, fs, db, diskVars, todo, bad, raced>>
        /\ faults' \in 0 .. MaxFaults
    <2>1. faults \in 0 .. MaxFaults
      BY <1>0 DEF TypeOK
    <2>2. faults' = faults \/ (faults < MaxFaults /\ faults' = faults + 1)
      BY OuterEffect
    <2>3. faults' \in 0 .. MaxFaults
      BY <1>0, <2>1, <2>2
    <2>4. QED BY <2>3, OuterEffect
  <1>2. /\ reply' \in [Requests -> {"none", "ok", "failed", "buffered"}]
        /\ \A q \in Requests : q # r => reply'[q] = reply[q]
        /\ reply'[r] # "none" => pc'[r] = "done"
        /\ reply'[r] = "ok" => pc[r] = "reply"
    <2>1. reply \in [Requests -> {"none", "ok", "failed", "buffered"}] /\ reply[r] = "none"
      BY <1>0, <1>1 DEF TypeOK, RequestsKnown
    <2>2. \/ reply' = reply /\ pc'[r] # "done"
          \/ pc'[r] = "done" /\ \E m \in {"ok", "failed", "buffered"} :
                 reply' = [reply EXCEPT ![r] = m] /\ (m = "ok" => pc[r] = "reply")
      BY OuterEffect
    <2>3. QED BY <2>1, <2>2
  <1>3. /\ backlog' \in [Requests -> SUBSET {"file", "pickle"}]
        /\ \A q \in Requests : q # r => backlog'[q] = backlog[q]
    <2>1. \/ backlog' = backlog
          \/ backlog' = [backlog EXCEPT ![r] = @ \cup {"file"}]
          \/ backlog' = [backlog EXCEPT ![r] = @ \cup {"pickle"}]
      BY OuterEffect
    <2>2. QED BY <1>0, <2>1 DEF TypeOK
  <1>4. staged' \subseteq Requests \X {"own", "copy"}
    <2>1. \/ staged' = staged \/ staged' = staged \cup {<<r, "own">>}
          \/ staged' = staged \ {<<r, "own">>}
      BY OuterEffect
    <2>2. QED BY <1>0, <2>1 DEF TypeOK
  <1>5. TypeOK'
    BY <1>0, <1>1, <1>2, <1>3, <1>4 DEF TypeOK, RequestLabels, diskVars
  <1>6. RequestsKnown'
    BY <1>0, <1>1, <1>2, <1>3 DEF RequestsKnown, Known
  <1>7. JanitorKnown'
    BY <1>0, <1>1 DEF JanitorKnown, Known
  <1>8. Prepared'
    BY <1>0, <1>1, <1>2 DEF Prepared, Handling, Late
  <1>9. QED BY <1>5, <1>6, <1>7, <1>8 DEF BaseInv

\* The steps of the Janitor before and after it archives a file.
LEMMA JanitorBase ==
    ASSUME BaseInv, JanitorScan \/ JanitorRemove \/ \E r \in Requests : JanitorTake(r)
    PROVE  BaseInv'
  <1> USE DEF Goto, bufferVars, diskVars, Fault
  <1>0. /\ TypeOK /\ RequestsKnown /\ JanitorKnown /\ Prepared /\ Janitor \notin Requests
        /\ Janitor \in Actors /\ Actors = Requests \cup {Janitor} /\ MaxFaults \in Nat
    BY ActorsAssumption, BoundsAssumption DEF BaseInv, Actors
  <1>1. CASE JanitorScan
    BY <1>0, <1>1 DEF JanitorScan, BaseInv, TypeOK, RequestsKnown, JanitorKnown, Prepared, Known
  <1>2. CASE JanitorRemove
    <2>1. job[Janitor].content \in Requests
      BY <1>0, <1>2 DEF JanitorRemove, JanitorKnown
    <2>2. TypeOK'
      BY <1>0, <1>2, <2>1 DEF JanitorRemove, TypeOK, JanitorLabels
    <2>3. RequestsKnown' /\ JanitorKnown' /\ Prepared'
      BY <1>0, <1>2, <2>1 DEF JanitorRemove, TypeOK, RequestsKnown, JanitorKnown, Prepared, Known, Handling, Late
    <2>4. QED BY <2>2, <2>3 DEF BaseInv
  <1>3. ASSUME NEW r \in Requests, JanitorTake(r) PROVE BaseInv'
    <2>1. Known(r) /\ UNCHANGED <<reply, fs, db, diskVars, raced>> /\ pc[Janitor] = "idle"
      BY <1>0, <1>3 DEF JanitorTake, RequestsKnown
    <2>2. CASE pc' = [pc EXCEPT ![Janitor] = "dapi"]
      <3>1. PICK s \in Sets : job' = [job EXCEPT ![Janitor] = BufferedJob(r, s)]
        BY <1>0, <1>3, <2>1, <2>2 DEF JanitorTake, TargetSets, TypeOK
      <3> DEFINE j == BufferedJob(r, s)
      <3>2. j \in Jobs /\ j.content = r /\ j.file \in {job[r].file, r} /\ j.set = s /\ j.sum = None
        BY <2>1, BufferedJobType
      <3> HIDE DEF j
      <3>3. /\ job' = [job EXCEPT ![Janitor] = j] /\ job'[Janitor] = j
            /\ \A b \in Requests : job'[b] = job[b]
        BY <1>0, <3>1 DEF TypeOK, j
      <3>4. /\ staged' = staged \cup {<<r, "copy">>} /\ todo' = todo \ {r}
            /\ UNCHANGED <<backlog, bad, faults>>
        BY <1>0, <1>3, <2>1, <2>2 DEF JanitorTake, TypeOK
      <3>5. TypeOK'
        BY <1>0, <2>1, <2>2, <3>2, <3>3, <3>4 DEF TypeOK, JanitorLabels
      <3>6. \A q \in Requests : Known(q)' <=> Known(q)
        BY <3>3 DEF Known
      <3>7. RequestsKnown' /\ JanitorKnown' /\ Prepared'
        BY <1>0, <2>1, <2>2, <3>2, <3>3, <3>4, <3>6 DEF TypeOK, RequestsKnown, JanitorKnown, Prepared, Handling, Late
      <3>8. QED BY <3>5, <3>7 DEF BaseInv
    <2>3. CASE pc' # [pc EXCEPT ![Janitor] = "dapi"]
      <3>1. UNCHANGED <<pc, job, staged>> /\ todo' \subseteq todo
        BY <1>3, <2>3 DEF JanitorTake
      <3>2. \/ UNCHANGED <<backlog, bad, faults>>
            \/ /\ backlog' = [backlog EXCEPT ![r] = {}] /\ bad' = bad \cup {r}
               /\ faults < MaxFaults /\ faults' = faults + 1
        BY <1>3, <2>3 DEF JanitorTake
      <3>3. TypeOK'
        BY <1>0, <2>1, <3>1, <3>2 DEF TypeOK
      <3>4. RequestsKnown' /\ JanitorKnown' /\ Prepared'
        BY <1>0, <2>1, <3>1, <3>2 DEF TypeOK, RequestsKnown, JanitorKnown, Prepared, Known
      <3>5. QED BY <3>3, <3>4 DEF BaseInv
    <2>4. QED BY <2>2, <2>3
  <1>4. QED BY <1>1, <1>2, <1>3

\* The server is killed and started again.
LEMMA CrashBase == ASSUME BaseInv, Crash PROVE BaseInv'
  <1>0. /\ TypeOK /\ RequestsKnown /\ JanitorKnown /\ Prepared /\ Janitor \notin Requests
        /\ Janitor \in Actors /\ Actors = Requests \cup {Janitor} /\ MaxFaults \in Nat
    BY ActorsAssumption, BoundsAssumption DEF BaseInv, Actors
  <1>1. /\ DOMAIN pc' = Actors /\ pc'[Janitor] = "idle"
        /\ \A r \in Requests : pc'[r] = IF pc[r] \in {"new", "done"} THEN pc[r] ELSE "dead"
    BY <1>0 DEF Crash
  <1>2. TypeOK'
    BY <1>0, <1>1 DEF Crash, Fault, TypeOK, RequestLabels, JanitorLabels
  <1>3. RequestsKnown' /\ JanitorKnown' /\ Prepared'
    BY <1>0, <1>1 DEF Crash, RequestsKnown, JanitorKnown, Prepared, Known, Handling, Late
  <1>4. QED BY <1>2, <1>3 DEF BaseInv

\* A step is one of postFileRecepHandling, one before or after it, or a crash.
LEMMA NextCases ==
    Next <=> \/ \E a \in Actors : ArchiveStep(a)
             \/ \E r \in Requests : Start(r) \/ Outer(r)
             \/ JanitorScan \/ JanitorRemove \/ \E r \in Requests : JanitorTake(r)
             \/ Crash
  BY DEF Next, RequestStep, JanitorStep, Outer, Actors

\* The base invariant holds when the server starts.
LEMMA BaseInit == Init => BaseInv
  <1> SUFFICES ASSUME Init PROVE BaseInv
    OBVIOUS
  <1>1. NoJob \in Jobs /\ NoJob.content = None /\ NoJob.file = None /\ NoJob.sum = None
    BY DEF NoJob, Jobs
  <1>2. TypeOK
    BY <1>1, ActorsAssumption, BoundsAssumption DEF Init, TypeOK, RequestLabels, JanitorLabels, Actors
  <1>3. RequestsKnown /\ JanitorKnown /\ Prepared
    BY <1>1, ActorsAssumption DEF Init, RequestsKnown, JanitorKnown, Prepared, Actors, Handling, Late
  <1>4. QED BY <1>2, <1>3 DEF BaseInv

\* Every step keeps the base invariant, with and without overwriting.
LEMMA BaseStep == BaseInv /\ [Next]_vars => BaseInv'
  <1> SUFFICES ASSUME BaseInv, [Next]_vars PROVE BaseInv'
    OBVIOUS
  <1>1. CASE UNCHANGED vars
    BY <1>1 DEF vars, diskVars, bufferVars, BaseInv, TypeOK, RequestsKnown, JanitorKnown, Prepared, Known
  <1>2. CASE Next
    BY <1>2, NextCases, ArchiveBase, StartBase, OuterBase, JanitorBase, CrashBase
  <1>3. QED BY <1>1, <1>2

\* The state keeps its shape, whatever the clients ask for, whatever fails and whenever the
\* server dies.
THEOREM TypeCorrect == Spec => []TypeOK
  <1>1. BaseInv => TypeOK
    BY DEF BaseInv
  <1>2. QED BY <1>1, BaseInit, BaseStep, PTL DEF Spec

-----------------------------------------------------------------------------
(* The version the DAPI chooses.                                           *)

\* A set of versions that is not empty has a greatest member.
LEMMA GreatestVersion ==
    ASSUME NEW S \in SUBSET Versions, S # {}
    PROVE  \E v \in S : \A w \in S : w <= v
  <1> DEFINE T == {n \in Nat : n <= MaxVersion /\ MaxVersion - n \in S}
  <1>1. MaxVersion \in Nat /\ \A v \in S : v \in Nat /\ v <= MaxVersion
    BY BoundsAssumption DEF Versions
  <1>2. \A v \in S : MaxVersion - v \in T
    BY <1>1
  <1>3. T \subseteq Nat /\ T # {}
    BY <1>2
  <1>4. \E x \in T : \A y \in T : ~(<<y, x>> \in OpToRel(<, Nat))
    BY <1>3, NatLessThanWellFounded, WFMin
  <1>5. PICK x \in T : \A y \in T : ~(<<y, x>> \in OpToRel(<, Nat))
    BY <1>4
  <1>6. \A y \in T : ~(y < x)
    BY <1>3, <1>5 DEF OpToRel
  <1>7. MaxVersion - x \in S /\ x \in Nat
    OBVIOUS
  <1>8. \A w \in S : w <= MaxVersion - x
    <2> TAKE w \in S
    <2>1. ~(MaxVersion - w < x)
      BY <1>2, <1>6
    <2>2. QED BY <1>1, <1>7, <2>1
  <1>9. QED BY <1>7, <1>8

\* LatestVersion is that of a row, and none is later.
LEMMA LatestIsLast ==
    ASSUME NEW f
    PROVE  /\ LatestVersion(f) \in Nat
           /\ \A p \in Places : p[2] = f /\ db[p] # None => p[3] <= LatestVersion(f)
           /\ LatestVersion(f) # 0 => \E p \in Rows(f) : p[3] = LatestVersion(f)
  <1>1. CASE Rows(f) = {}
    BY <1>1 DEF LatestVersion, Rows
  <1>2. CASE Rows(f) # {}
    <2> DEFINE S == {v \in Versions : \E p \in Rows(f) : p[3] = v}
               Last(v) == (\E p \in Rows(f) : p[3] = v) /\ (\A p \in Rows(f) : p[3] <= v)
    <2>1. \A p \in Rows(f) : p[3] \in Versions
      BY DEF Rows, Places
    <2>2. S \in SUBSET Versions /\ S # {}
      BY <1>2, <2>1
    <2>3. PICK v \in S : \A w \in S : w <= v
      BY <2>2, GreatestVersion
    <2>4. \A p \in Rows(f) : p[3] \in S
      BY <2>1
    <2>5. v \in Versions /\ Last(v)
      BY <2>3, <2>4
    <2>6. LatestVersion(f) = CHOOSE w \in Versions : Last(w)
      BY <1>2 DEF LatestVersion
    <2>7. LatestVersion(f) \in Versions /\ Last(LatestVersion(f))
      BY <2>5, <2>6
    <2>8. QED BY <2>7, BoundsAssumption DEF Versions, Rows
  <1>3. QED BY <1>1, <1>2

\* Without overwriting no row has the version the DAPI chooses.
LEMMA NoRowYet ==
    ASSUME NEW a \in Actors, ~job[a].over,
           NEW p \in Places, p[2] = job[a].file, p[3] = FileVersion(job[a])
    PROVE  db[p] = None
  <1>1. FileVersion(job[a]) = LatestVersion(job[a].file) + 1
    BY DEF FileVersion
  <1>2. LatestVersion(job[a].file) \in Nat
    BY LatestIsLast
  <1>3. db[p] # None => p[3] <= LatestVersion(job[a].file)
    BY LatestIsLast
  <1>4. QED BY <1>1, <1>2, <1>3

-----------------------------------------------------------------------------
(* What the steps do to files and rows when nobody overwrites.             *)

\* What a step of postFileRecepHandling does to the files and the rows: nothing, or it
\* puts the file or the replica in place, or registers it.
FileStep(a) ==
    \/ fs' = fs /\ db' = db
    \/ /\ pc[a] = "move" /\ pc'[a] = "check" /\ db' = db /\ job' = job
       /\ fs' = [fs EXCEPT ![MainPlace(a)] = job[a].content]
    \/ /\ pc[a] = "write" /\ pc'[a] = "count" /\ fs' = fs /\ job' = job
       /\ db' # db => db' = [db EXCEPT ![MainPlace(a)] = job[a].sum]
    \/ /\ pc[a] = "rep_copy" /\ pc'[a] = "rep_check" /\ db' = db /\ job' = job
       /\ fs' = [fs EXCEPT ![RepPlace(a)] = fs[MainPlace(a)]]
    \/ /\ pc[a] = "rep_write" /\ pc'[a] = "rep_read" /\ fs' = fs /\ job' = job
       /\ db' # db => db' = [db EXCEPT ![RepPlace(a)] = job[a].sum]

\* Without overwriting a file takes its own place only.
LEMMA FilesOfStep ==
    ASSUME BaseInv, NewVersions, NEW a \in Actors, ArchiveStep(a)
    PROVE  FileStep(a)
  <1> USE DEF Goto, bufferVars, diskVars, FileStep
  <1>0. DOMAIN pc = Actors /\ OldPlace(a) = MainPlace(a) /\ OldFile(a) = MainPlace(a) /\ pc[a] # "validate"
    BY DEF BaseInv, TypeOK, NewVersions, OldPlace, OldFile
  <1>d. db \in [Places -> Requests \cup {None}]
    BY DEF BaseInv, TypeOK
  <1>1. CASE Move(a)
    BY <1>0, <1>1 DEF Move
  <1>2. CASE Write(a)
    BY <1>0, <1>d, <1>2 DEF Write, WriteEntry
  <1>3. CASE Replicate(a)
    BY <1>0, <1>3 DEF Replicate
  <1>4. CASE RepWrite(a)
    BY <1>0, <1>d, <1>4 DEF RepWrite, WriteEntry
  <1>5. CASE RemovePrev(a)
    BY <1>0, <1>5 DEF RemovePrev
  <1>6. CASE \/ Dapi(a) \/ Check(a) \/ Count(a) \/ RepCheck(a) \/ RepRead(a) \/ RepCount(a)
             \/ SpaceRead(a) \/ SpaceWrite(a) \/ Validate(a)
    BY <1>0, <1>6 DEF Dapi, Check, CheckEntry, Count, RepCheck, RepRead, RepCount, SpaceRead, SpaceWrite, Validate
  <1>7. QED BY <1>1, <1>2, <1>3, <1>4, <1>5, <1>6 DEF ArchiveStep

\* Only the places of its own file are touched by an actor.
LEMMA OtherPlaces ==
    ASSUME BaseInv, NewVersions, NEW a \in Actors, ArchiveStep(a)
    PROVE  /\ \A p \in Places : p[2] # job[a].file => fs'[p] = fs[p] /\ db'[p] = db[p]
           /\ pc[a] \notin Handling => fs' = fs /\ db' = db
  <1>1. FileStep(a)
    BY FilesOfStep
  <1>2. pc[a] \in Handling => /\ MainPlace(a) \in Places /\ MainPlace(a)[2] = job[a].file
                              /\ RepPlace(a) \in Places /\ RepPlace(a)[2] = job[a].file
    BY JobOf, PlacesOf DEF BaseInv, Prepared, Handling
  <1>3. fs \in [Places -> Requests \cup {None}] /\ db \in [Places -> Requests \cup {None}]
    BY DEF BaseInv, TypeOK
  <1>4. QED BY <1>1, <1>2, <1>3 DEF FileStep, Handling

\* A file that is registered stays as it is, and so does its row, unless two actors have
\* handled its File ID at the same time.
LEMMA RowsStay ==
    ASSUME IndInv, NEW a \in Actors, ArchiveStep(a),
           NEW p \in Places, p[2] \notin raced, db[p] # None
    PROVE  fs'[p] = fs[p] /\ db'[p] = db[p]
  <1>1. FileStep(a) /\ BaseInv
    BY FilesOfStep DEF IndInv
  <1>2. CASE p[2] # job[a].file
    BY <1>2, OtherPlaces DEF IndInv
  <1>3. CASE p[2] = job[a].file /\ pc[a] \in Handling
    <2>1. Alone(a)
      BY <1>3 DEF IndInv, HandledAlone
    <2>2. MainPlace(a) \in Places /\ RepPlace(a) \in Places
      BY <1>1, <1>3, JobOf, PlacesOf DEF BaseInv, Prepared, Handling
    <2>3. fs \in [Places -> Requests \cup {None}] /\ db \in [Places -> Requests \cup {None}]
      BY <1>1 DEF BaseInv, TypeOK
    <2>4. QED BY <1>1, <2>1, <2>2, <2>3 DEF FileStep, Alone, NoReplicaYet
  <1>4. CASE pc[a] \notin Handling
    BY <1>4, OtherPlaces DEF IndInv
  <1>5. QED BY <1>2, <1>3, <1>4

\* Only the DAPI and the validation add to raced, the File ID of the actor, one of the clients.
LEMMA RacedStep ==
    ASSUME BaseInv, Recorded, NEW a \in Actors, ArchiveStep(a)
    PROVE  /\ raced \subseteq raced' /\ raced' \subseteq Files
           /\ pc[a] \notin {"dapi", "validate"} => raced' = raced
           /\ \A f \in raced' \ raced : f = job[a].file
           /\ pc'[a] \in Handling /\ pc[a] = "dapi" =>
                 \A b \in Actors : b # a /\ InFlight(b, job[a].file) => job[a].file \in raced'
  <1>0. BaseInv /\ raced \subseteq Files /\ Outcome(a) /\ DOMAIN pc = Actors
    BY StepOutcome DEF Recorded, BaseInv, TypeOK
  <1>1. pc[a] \notin {"dapi", "validate"} => raced' = raced
    BY <1>0, FrameStep DEF StepFrame
  <1>2. CASE pc[a] \notin {"dapi", "validate"}
    BY <1>0, <1>1, <1>2
  <1>v. CASE pc[a] = "validate"
    <2>1. Validate(a)
      BY <1>v DEF ArchiveStep, Dapi, Validate, Move, Check, Write, Count, Replicate, RepCheck,
         RepWrite, RepRead, RepCount, RemovePrev, SpaceRead, SpaceWrite
    <2>2. raced' = raced \/ raced' = raced \cup {job[a].file}
      BY <2>1, ValidateEffect
    <2>3. a \in Requests
      BY <1>0, <1>v, ActorsAssumption DEF BaseInv, TypeOK, JanitorLabels, Handling, Actors
    <2>4. job[a].file \in Files
      BY <1>0, <1>v, <2>3, JobOf DEF Known
    <2>5. QED BY <1>0, <1>v, <2>2, <2>4
  <1>3. CASE pc[a] = "dapi" /\ raced' = raced
    <2>1. Dapi(a)
      BY <1>3 DEF ArchiveStep, Dapi, Validate, Move, Check, Write, Count, Replicate, RepCheck,
         RepWrite, RepRead, RepCount, RemovePrev, SpaceRead, SpaceWrite
    <2>2. pc'[a] \in Handling => raced' = raced \cup {f \in {job[a].file} : \E b \in Actors \ {a} : InFlight(b, f)}
      BY <1>0, <2>1 DEF Dapi, Abort, Goto, Handling
    <2>3. QED BY <1>0, <1>3, <2>2
  <1>4. CASE pc[a] = "dapi" /\ raced' # raced
    <2>1. Dapi(a)
      BY <1>4 DEF ArchiveStep, Dapi, Validate, Move, Check, Write, Count, Replicate, RepCheck,
         RepWrite, RepRead, RepCount, RemovePrev, SpaceRead, SpaceWrite
    <2>2. raced' = raced \cup {f \in {job[a].file} : \E b \in Actors \ {a} : InFlight(b, f)}
      BY <1>4, <2>1 DEF Dapi
    <2>3. PICK b \in Actors \ {a} : InFlight(b, job[a].file)
      BY <1>4, <2>2
    <2>4. job[a].file \in Files
      <3>1. pc[b] \in Handling /\ job[b].file = job[a].file
        BY <2>3 DEF InFlight
      <3>2. CASE a \in Requests
        BY <1>0, <1>4, <3>2, JobOf DEF Known
      <3>3. CASE b \in Requests
        <4>1. pc[b] \notin {"new", "done", "idle"}
          BY <3>1 DEF Handling
        <4>2. QED BY <1>0, <3>1, <3>3, <4>1, JobOf DEF Known
      <3>4. QED BY <3>2, <3>3 DEF Actors
    <2>5. QED BY <1>0, <1>4, <2>2, <2>4
  <1>5. QED BY <1>v, <1>2, <1>3, <1>4

\* Two actors that come to handle one File ID are recorded.
LEMMA RecordedStep ==
    ASSUME BaseInv, Recorded, NEW a \in Actors, ArchiveStep(a)
    PROVE  Recorded'
  <1>0. TypeOK /\ StepFrame(a) /\ Outcome(a)
    BY FrameStep, StepOutcome DEF BaseInv
  <1>1. pc[a] \notin {"new", "done", "idle"}
    BY <1>0 DEF Outcome, Handling
  <1>2. job[a].content \in Requests
    BY <1>1, JobOf
  <1>3. raced \subseteq raced' /\ raced' \subseteq Files
    BY RacedStep
  <1>4. ASSUME NEW b \in Actors, b # a, pc'[a] \in Handling, pc'[b] \in Handling, job'[a].file = job'[b].file
        PROVE  job'[a].file \in raced'
    <2>1. pc[b] \in Handling /\ job[b].file = job[a].file /\ job'[a].file = job[a].file
      BY <1>0, <1>4 DEF StepFrame
    <2>2. CASE pc[a] \in Handling
      BY <1>0, <1>3, <1>4, <2>1, <2>2 DEF Recorded
    <2>3. CASE pc[a] \notin Handling
      <3>1. pc[a] = "dapi" /\ pc'[a] \in Handling
        <4>1. CASE Abort(a)
          <5>1. pc'[a] \in {"idle", "done"}
            BY <1>0, <1>2, <4>1, AbortEffect DEF TypeOK
          <5>2. QED BY <1>4, <5>1 DEF Handling
        <4>2. CASE ~Abort(a)
          <5>1. pc[a] \in {"space", "space_write"} => pc'[a] \notin Handling
            BY <1>0 DEF ArchiveStep, Dapi, Validate, Move, Check, Write, Count, Replicate, RepCheck,
       RepWrite, RepRead, RepCount, RemovePrev, SpaceRead, SpaceWrite, Goto, TypeOK, Handling
          <5>2. QED BY <1>0, <1>4, <2>3, <4>2, <5>1 DEF Outcome
        <4>3. QED BY <4>1, <4>2
      <3>2. InFlight(b, job[a].file)
        BY <2>1 DEF InFlight
      <3>3. QED BY <1>4, <2>1, <3>1, <3>2, RacedStep
    <2>4. QED BY <2>2, <2>3
  <1>5. ASSUME NEW b \in Actors, NEW c \in Actors, b # c, pc'[b] \in Handling, pc'[c] \in Handling,
               job'[b].file = job'[c].file
        PROVE  job'[b].file \in raced'
    <2>1. CASE b = a
      BY <1>4, <1>5, <2>1
    <2>2. CASE c = a
      BY <1>4, <1>5, <2>2
    <2>3. CASE b # a /\ c # a
      BY <1>0, <1>3, <1>5, <2>3 DEF StepFrame, Recorded
    <2>4. QED BY <2>1, <2>2, <2>3
  <1>6. QED BY <1>3, <1>5 DEF Recorded

\* A step of postFileRecepHandling keeps NewVersions, Recorded, Owned and RowsTrue.
LEMMA ArchiveRows ==
    ASSUME IndInv, NEW a \in Actors, ArchiveStep(a)
    PROVE  NewVersions' /\ Recorded' /\ Owned' /\ RowsTrue'
  <1>0. BaseInv /\ NewVersions /\ Recorded /\ Owned /\ RowsTrue /\ TypeOK
    BY DEF IndInv, BaseInv
  <1>1. StepFrame(a) /\ Outcome(a) /\ FileStep(a)
    BY <1>0, FrameStep, StepOutcome, FilesOfStep
  <1>2. /\ job[a].content \in Requests /\ Known(job[a].content)
        /\ job[a].file \in {job[job[a].content].file, job[a].content}
        /\ pc[a] \in Handling => /\ MainPlace(a) \in Places /\ MainPlace(a)[2] = job[a].file
                                 /\ RepPlace(a) \in Places /\ RepPlace(a)[2] = job[a].file
    <2>1. pc[a] \notin {"new", "done", "idle"}
      BY <1>1 DEF Outcome, Handling
    <2>2. pc[a] \in Handling => job[a].ver \in Versions
      BY <1>0 DEF BaseInv, Prepared
    <2>3. QED BY <1>0, <2>1, <2>2, JobOf, PlacesOf
  <1>3. NewVersions'
    BY <1>0, <1>1 DEF NewVersions, StepFrame, Outcome
  <1>4. Recorded'
    BY <1>0, RecordedStep
  <1>5. Owned'
    <2> SUFFICES ASSUME NEW p \in Places, NEW r \in Requests, fs'[p] = r
                 PROVE  Known(r)' /\ p[2] \in {job'[r].file, r}
      BY DEF Owned
    <2>1. job'[r].file = job[r].file /\ (Known(r)' <=> Known(r))
      BY <1>1 DEF StepFrame, Known, Actors
    <2>2. fs \in [Places -> Requests \cup {None}]
      BY <1>0 DEF TypeOK
    <2>3. CASE fs'[p] = fs[p]
      BY <1>0, <2>1, <2>3 DEF Owned
    <2>4. CASE fs'[p] # fs[p]
      <3>1. \/ pc[a] = "move" /\ p = MainPlace(a) /\ fs'[p] = job[a].content
            \/ pc[a] = "rep_copy" /\ p = RepPlace(a) /\ fs'[p] = fs[MainPlace(a)]
        BY <1>1, <1>2, <2>2, <2>4 DEF FileStep, Handling
      <3>2. CASE pc[a] = "move" /\ p = MainPlace(a) /\ fs'[p] = job[a].content
        BY <1>2, <2>1, <3>2 DEF Handling
      <3>3. CASE pc[a] = "rep_copy" /\ p = RepPlace(a) /\ fs'[p] = fs[MainPlace(a)]
        BY <1>0, <1>2, <2>1, <3>3 DEF Handling, Owned
      <3>4. QED BY <3>1, <3>2, <3>3
    <2>5. QED BY <2>3, <2>4
  <1>6. RowsTrue'
    <2> SUFFICES ASSUME NEW p \in Places, p[2] \notin raced', db'[p] # None PROVE fs'[p] = db'[p]
      BY DEF RowsTrue
    <2>1. p[2] \notin raced
      BY <1>0, RacedStep
    <2>2. CASE db[p] # None
      BY <1>0, <2>1, <2>2, RowsStay DEF RowsTrue
    <2>3. CASE db[p] = None
      <3>1. db \in [Places -> Requests \cup {None}] /\ fs' = fs
        BY <1>0, <1>1, <2>3 DEF TypeOK, FileStep
      <3>2. \/ pc[a] = "write" /\ p = MainPlace(a) /\ db'[p] = job[a].sum
            \/ pc[a] = "rep_write" /\ p = RepPlace(a) /\ db'[p] = job[a].sum
        BY <1>1, <1>2, <2>3, <3>1 DEF FileStep, Handling
      <3>3. pc[a] \in Handling /\ Alone(a)
        BY <1>2, <2>1, <3>2 DEF IndInv, HandledAlone, Handling
      <3>4. QED BY <3>1, <3>2, <3>3 DEF Alone, Moved, Registered, Handling
    <2>4. QED BY <2>2, <2>3
  <1>7. QED BY <1>3, <1>4, <1>5, <1>6

\* The places of the jobs stay, except that the DAPI chooses the version.
LEMMA SamePlaces ==
    ASSUME NEW a \in Actors, StepFrame(a), NEW b \in Actors, b # a \/ pc[a] # "dapi"
    PROVE  MainPlace(b)' = MainPlace(b) /\ RepPlace(b)' = RepPlace(b)
  <1>1. job'[b].file = job[b].file /\ job'[b].ver = job[b].ver /\ job'[b].set = job[b].set
    BY DEF StepFrame
  <1>2. QED BY <1>1 DEF MainPlace, RepPlace, Place

\* Where an actor alone with its File ID stands after a step of its own.
LEMMA AloneStep ==
    ASSUME IndInv, NEW a \in Actors, ArchiveStep(a), pc[a] # "dapi", pc'[a] \in Handling, Alone(a)
    PROVE  Alone(a)'
  <1> USE DEF Goto, bufferVars, diskVars
  <1>0. BaseInv /\ TypeOK /\ NewVersions /\ StepFrame(a) /\ DOMAIN pc = Actors
    BY FrameStep DEF IndInv, BaseInv, TypeOK
  <1>1. MainPlace(a)' = MainPlace(a) /\ RepPlace(a)' = RepPlace(a) /\ job'[a].content = job[a].content
    BY <1>0, SamePlaces DEF StepFrame
  <1>2. pc[a] \notin {"new", "done", "idle"} /\ pc[a] # "validate"
    BY <1>0 DEF ArchiveStep, Dapi, Validate, Move, Check, Write, Count, Replicate, RepCheck,
       RepWrite, RepRead, RepCount, RemovePrev, SpaceRead, SpaceWrite, NewVersions
  <1>3. /\ job[a].content \in Requests /\ None \notin Requests
        /\ job[a].sum \in Requests \cup {None}
    BY <1>0, <1>2, JobOf, ActorsAssumption DEF TypeOK, Jobs
  <1>4. pc[a] \in Handling => /\ MainPlace(a) \in Places /\ RepPlace(a) \in Places
                              /\ MainPlace(a) # RepPlace(a) /\ OldPlace(a) = MainPlace(a)
    <2>1. pc[a] \in Handling => job[a].ver \in Versions
      BY <1>0 DEF BaseInv, Prepared
    <2>2. QED BY <1>0, <1>2, <2>1, JobOf, PlacesOf DEF NewVersions, OldPlace
  <1>5. fs \in [Places -> Requests \cup {None}] /\ db \in [Places -> Requests \cup {None}]
    BY <1>0 DEF TypeOK
  <1>a. ~Abort(a)
    <2>1. Abort(a) => pc'[a] \in {"idle", "done"}
      BY <1>0, <1>3, AbortEffect
    <2>2. QED BY <2>1 DEF Handling
  <1> USE DEF Alone, Moved, Registered, NoReplicaYet, Handling
  <1>6. CASE Move(a)
    BY <1>0, <1>1, <1>4, <1>5, <1>6 DEF Move
  <1>7. CASE Check(a)
    <2>1. job[a].sum = None /\ pc[a] = "check"
      BY <1>0, <1>7 DEF Check, BaseInv, Prepared
    <2>u. PICK u \in BOOLEAN : u <=> (db[OldPlace(a)] # None)
      OBVIOUS
    <2>2. /\ job'[a] = [job[a] EXCEPT !.update = u, !.sum = CheckedSum(a, MainPlace(a))]
          /\ pc'[a] = "write" /\ UNCHANGED <<fs, db>>
      BY <1>0, <1>a, <1>7, <2>u, CheckEffect
    <2>3. CheckedSum(a, MainPlace(a)) = job[a].content /\ ~u
      BY <2>u, <1>0, <1>4, <2>1, JobOf DEF CheckedSum
    <2>4. job'[a].sum = job[a].content /\ ~job'[a].update
      BY <1>0, <2>2, <2>3 DEF TypeOK, Jobs
    <2>5. QED BY <1>1, <2>1, <2>2, <2>4
  <1>8. CASE Write(a)
    BY <1>0, <1>a, <1>1, <1>4, <1>5, <1>8 DEF Write, WriteEntry, Collides
  <1>9. CASE Count(a)
    BY <1>0, <1>a, <1>1, <1>9 DEF Count
  <1>10. CASE Replicate(a)
    BY <1>0, <1>a, <1>1, <1>4, <1>5, <1>10 DEF Replicate
  <1>11. CASE RepCheck(a)
    <2>1. job[a].sum = job[a].content /\ pc[a] = "rep_check" /\ db[RepPlace(a)] = None
      BY <1>0, <1>11 DEF RepCheck
    <2>u. PICK u \in BOOLEAN : u <=> (db[RepPlace(a)] # None)
      OBVIOUS
    <2>2. /\ job'[a] = [job[a] EXCEPT !.update = u, !.sum = CheckedSum(a, RepPlace(a))]
          /\ pc'[a] = "rep_write" /\ UNCHANGED <<fs, db>>
      BY <1>0, <1>a, <1>11, <2>u, RepCheckEffect
    <2>3. CheckedSum(a, RepPlace(a)) = job[a].content /\ ~u
      BY <2>u, <1>3, <2>1 DEF CheckedSum
    <2>4. job'[a].sum = job[a].content /\ ~job'[a].update
      BY <1>0, <2>2, <2>3 DEF TypeOK, Jobs
    <2>5. QED BY <1>1, <2>1, <2>2, <2>4
  <1>12. CASE RepWrite(a)
    BY <1>0, <1>a, <1>1, <1>4, <1>5, <1>12 DEF RepWrite, WriteEntry, Collides
  <1>13. CASE RepRead(a)
    BY <1>0, <1>1, <1>13 DEF RepRead, StepFrame
  <1>14. CASE RepCount(a)
    BY <1>0, <1>a, <1>1, <1>14 DEF RepCount
  <1>15. CASE RemovePrev(a) \/ SpaceRead(a) \/ SpaceWrite(a)
    BY <1>0, <1>15 DEF RemovePrev, SpaceRead, SpaceWrite
  <1>16. QED
    BY <1>2, <1>6, <1>7, <1>8, <1>9, <1>10, <1>11, <1>12, <1>13, <1>14, <1>15 DEF ArchiveStep, Dapi, Validate

\* A step of postFileRecepHandling leaves an actor alone with its File ID where it should be.
LEMMA ArchiveAlone ==
    ASSUME IndInv, NEW a \in Actors, ArchiveStep(a)
    PROVE  HandledAlone'
  <1>0. BaseInv /\ TypeOK /\ NewVersions /\ HandledAlone /\ Recorded /\ StepFrame(a) /\ Outcome(a)
    BY FrameStep, StepOutcome DEF IndInv, BaseInv
  <1>1. raced \subseteq raced'
    BY <1>0, RacedStep
  <1>2. ASSUME NEW b \in Actors, b # a, pc'[b] \in Handling, job'[b].file \notin raced'
        PROVE  Alone(b)'
    <2>1. pc[b] \in Handling /\ pc'[b] = pc[b] /\ job'[b] = job[b] /\ job[b].file \notin raced /\ Alone(b)
      BY <1>0, <1>1, <1>2 DEF StepFrame, HandledAlone
    <2>2. MainPlace(b)' = MainPlace(b) /\ RepPlace(b)' = RepPlace(b)
      BY <1>0, <1>2, SamePlaces
    <2>3. /\ MainPlace(b) \in Places /\ MainPlace(b)[2] = job[b].file
          /\ RepPlace(b) \in Places /\ RepPlace(b)[2] = job[b].file
      BY <1>0, <2>1, JobOf, PlacesOf DEF BaseInv, Prepared, Handling
    <2>4. /\ fs'[MainPlace(b)] = fs[MainPlace(b)] /\ db'[MainPlace(b)] = db[MainPlace(b)]
          /\ fs'[RepPlace(b)] = fs[RepPlace(b)] /\ db'[RepPlace(b)] = db[RepPlace(b)]
      <3>1. CASE job[a].file = job[b].file
        <4>1. pc[a] \notin Handling
          BY <1>0, <1>2, <2>1, <3>1 DEF Recorded
        <4>2. QED BY <1>0, <4>1, OtherPlaces
      <3>2. CASE job[a].file # job[b].file
        BY <1>0, <2>3, <3>2, OtherPlaces
      <3>3. QED BY <3>1, <3>2
    <2>5. QED BY <2>1, <2>2, <2>4 DEF Alone
  <1>3. ASSUME pc'[a] \in Handling, job'[a].file \notin raced'
        PROVE  Alone(a)'
    <2>1. job'[a].file = job[a].file /\ job[a].file \notin raced
      BY <1>0, <1>1, <1>3 DEF StepFrame
    <2>2. CASE pc[a] = "dapi"
      <3>1. ~Abort(a)
        <4>1. pc[a] \notin {"new", "done", "idle"}
          BY <2>2
        <4>2. Abort(a) => pc'[a] \in {"idle", "done"}
          BY <1>0, <4>1, JobOf, AbortEffect DEF TypeOK
        <4>3. QED BY <1>3, <4>2 DEF Handling
      <3>2. pc'[a] = "move" /\ job'[a].ver \in Versions
        BY <1>0, <2>2, <3>1 DEF Outcome, NewVersions
      <3>3. Dapi(a)
        BY <2>2 DEF ArchiveStep, Dapi, Validate, Move, Check, Write, Count, Replicate, RepCheck,
         RepWrite, RepRead, RepCount, RemovePrev, SpaceRead, SpaceWrite
      <3>4. job'[a].ver = FileVersion(job[a]) /\ db' = db
        BY <1>0, <3>1, <3>3 DEF Dapi, TypeOK, Jobs
      <3>5. job'[a].set \in Sets /\ job'[a].file \in FileIds
        BY <1>0, <2>2, JobOf DEF StepFrame
      <3>6. /\ MainPlace(a)' \in Places /\ RepPlace(a)' \in Places
            /\ MainPlace(a)'[2] = job[a].file /\ MainPlace(a)'[3] = job'[a].ver
            /\ RepPlace(a)'[2] = job[a].file /\ RepPlace(a)'[3] = job'[a].ver
        BY <2>1, <3>2, <3>5 DEF MainPlace, RepPlace, Place, Main, Rep, Places, Volumes
      <3>7. \A p \in Places : p[2] = job[a].file /\ p[3] = FileVersion(job[a]) => db[p] = None
        BY <1>0, NoRowYet DEF NewVersions
      <3>8. db'[MainPlace(a)'] = None /\ db'[RepPlace(a)'] = None
        BY <3>4, <3>6, <3>7
      <3>9. QED BY <3>2, <3>8 DEF Alone, Moved, Registered, Handling
    <2>3. CASE pc[a] # "dapi"
      <3>1. pc[a] \in Handling
        <4>1. pc[a] \in {"space", "space_write"} => pc'[a] \notin Handling
          BY <1>0 DEF ArchiveStep, Dapi, Validate, Move, Check, Write, Count, Replicate, RepCheck,
             RepWrite, RepRead, RepCount, RemovePrev, SpaceRead, SpaceWrite, Goto, TypeOK, Handling
        <4>2. QED BY <1>0, <1>3, <2>3, <4>1 DEF Outcome
      <3>2. Alone(a)
        BY <1>0, <2>1, <3>1 DEF HandledAlone
      <3>3. QED BY <1>3, <2>3, <3>2, AloneStep
    <2>4. QED BY <2>2, <2>3
  <1>4. QED BY <1>2, <1>3 DEF HandledAlone

\* What is through stays archived, and the actor that comes through has archived its file.
LEMMA ArchiveThrough ==
    ASSUME IndInv, NEW a \in Actors, ArchiveStep(a)
    PROVE  Through'
  <1>0. /\ BaseInv /\ TypeOK /\ NewVersions /\ HandledAlone /\ Through /\ StepFrame(a) /\ Outcome(a)
        /\ RequestsKnown /\ None \notin Requests
    BY FrameStep, StepOutcome, ActorsAssumption DEF IndInv, BaseInv
  <1>1. raced \subseteq raced'
    BY <1>0, RacedStep DEF IndInv
  <1>2. ASSUME NEW b \in Actors, job'[b].file \notin raced', Stored(b), job[b].content \in Requests,
               MainPlace(b)' = MainPlace(b), MainPlace(b) \in Places, MainPlace(b)[2] = job[b].file
        PROVE  Stored(b)'
    <2>1. job'[b].file = job[b].file /\ job'[b].content = job[b].content /\ job[b].file \notin raced
      BY <1>0, <1>1, <1>2 DEF StepFrame
    <2>2. db[MainPlace(b)] # None
      BY <1>0, <1>2 DEF Stored
    <2>3. fs'[MainPlace(b)] = fs[MainPlace(b)] /\ db'[MainPlace(b)] = db[MainPlace(b)]
      BY <1>2, <2>1, <2>2, RowsStay
    <2>4. QED BY <1>2, <2>1, <2>3 DEF Stored
  <1>3. ASSUME NEW b \in Actors, pc'[b] \in Late, job'[b].file \notin raced' PROVE Stored(b)'
    <2>1. pc[b] \in Late \cup {"rm_prev"} /\ (b # a \/ pc[a] # "dapi")
      <3>1. CASE b = a
        BY <1>0, <1>3, <3>1 DEF Outcome, Late
      <3>2. CASE b # a
        BY <1>0, <1>3, <3>2 DEF StepFrame
      <3>3. QED BY <3>1, <3>2
    <2>2. job[b].file \notin raced
      BY <1>0, <1>1, <1>3 DEF StepFrame
    <2>3. Stored(b)
      BY <1>0, <2>1, <2>2 DEF Through, HandledAlone, Alone, Stored, Moved, Registered, Handling
    <2>4. /\ MainPlace(b)' = MainPlace(b) /\ MainPlace(b) \in Places /\ MainPlace(b)[2] = job[b].file
          /\ job[b].content \in Requests
      <3>1. job[b].ver \in Versions /\ pc[b] \notin {"new", "done", "idle"}
        BY <1>0, <2>1 DEF BaseInv, Prepared, Handling, Late
      <3>2. QED BY <1>0, <2>1, <3>1, SamePlaces, JobOf, PlacesOf
    <2>5. QED BY <1>2, <1>3, <2>3, <2>4
  <1>4. ASSUME NEW r \in Requests, reply'[r] = "ok", job'[r].file \notin raced' PROVE Stored(r)'
    <2>0. r \in Actors /\ r # Janitor
      BY ActorsAssumption DEF Actors
    <2>1. reply[r] = "ok" /\ (r # a \/ pc[a] # "dapi")
      <3>1. CASE Abort(a)
        <4>1. pc[a] \notin {"new", "done", "idle"}
          BY <1>0 DEF Outcome, Handling
        <4>2. a \in Requests => reply' = [reply EXCEPT ![a] = "failed"]
          BY <1>0, <3>1, <4>1, JobOf, AbortEffect
        <4>3. a = Janitor => reply' = reply
          BY <1>0, <3>1, <4>1, JobOf, AbortEffect
        <4>4. r # a /\ reply[r] = "ok"
          BY <1>0, <1>4, <2>0, <4>1, <4>2, <4>3 DEF TypeOK, Actors, RequestsKnown
        <4>5. QED BY <4>4
      <3>2. CASE reply' = reply
        BY <1>0, <1>4, <3>2 DEF RequestsKnown
      <3>3. QED BY <1>0, <3>1, <3>2 DEF Outcome
    <2>2. job[r].file \notin raced
      BY <1>0, <1>1, <1>4, <2>0 DEF StepFrame
    <2>3. Stored(r) /\ Known(r) /\ job[r].ver \in Versions
      BY <1>0, <2>1, <2>2 DEF Through, RequestsKnown, BaseInv, Prepared
    <2>4. /\ MainPlace(r)' = MainPlace(r) /\ MainPlace(r) \in Places /\ MainPlace(r)[2] = job[r].file
          /\ job[r].content \in Requests
      BY <1>0, <2>0, <2>1, <2>3, SamePlaces, PlacesOf DEF Known, FileIds
    <2>5. QED BY <1>2, <1>4, <2>0, <2>3, <2>4
  <1>5. QED BY <1>3, <1>4 DEF Through

\* The place of a file whose request is not contested is not contested.
LEMMA PlaceUncontested ==
    ASSUME IndInv, NEW r \in Requests, job[r].file \notin raced, NEW p \in Places, fs[p] = r
    PROVE  p[2] \notin raced
  BY NamesAssumption DEF IndInv, Owned, Recorded

\* What is archived stays archived.
LEMMA ArchivedStays ==
    ASSUME IndInv, NEW a \in Actors, ArchiveStep(a),
           NEW r \in Requests, IsArchived(r), job[r].file \notin raced
    PROVE  IsArchived(r)'
  <1>1. PICK p \in Places : db[p] = r /\ fs[p] = r
    BY DEF IsArchived
  <1>2. fs'[p] = fs[p] /\ db'[p] = db[p]
    BY <1>1, PlaceUncontested, RowsStay, ActorsAssumption
  <1>3. QED BY <1>1, <1>2 DEF IsArchived

\* What a step of postFileRecepHandling takes from the Staging Areas.
LEMMA StagedStep ==
    ASSUME IndInv, NEW a \in Actors, ArchiveStep(a)
    PROVE  /\ \/ staged' = staged
              \/ /\ a \in Requests /\ staged' = staged \ {<<a, "own">>}
                 /\ pc'[a] \in {"check", "done"}
              \/ /\ a = Janitor /\ staged' = staged \ {<<job[a].content, "copy">>}
                 /\ pc'[a] = "check"
           /\ pc'[a] \in {"move", "bl_data"} => pc[a] \in {"dapi", "move"}
  <1> USE DEF Goto, bufferVars, diskVars
  <1>0. BaseInv /\ TypeOK /\ DOMAIN pc = Actors /\ Outcome(a) /\ NewVersions
    BY StepOutcome DEF IndInv, BaseInv, TypeOK
  <1>1. pc[a] \notin {"new", "done", "idle"}
    BY <1>0 DEF Outcome, Handling
  <1>2. job[a].content \in Requests /\ (a \in Requests => job[a].content = a /\ a # Janitor)
    BY <1>0, <1>1, JobOf, ActorsAssumption
  <1>3. CASE Abort(a)
    <2>1. /\ pc'[a] = IF a = Janitor THEN "idle" ELSE "done"
          /\ a \in Requests => staged' = staged \ {<<a, "own">>}
          /\ a = Janitor => staged' = staged
      BY <1>0, <1>2, <1>3, AbortEffect
    <2>2. QED BY <1>2, <2>1 DEF Actors
  <1>4. CASE ~Abort(a)
    <2>1. CASE Move(a)
      BY <1>0, <1>2, <2>1 DEF Move, Actors
    <2>2. CASE ~Move(a)
      <3>1. staged' = staged
        BY <1>0, <1>4, <2>2 DEF ArchiveStep, Dapi, Validate, Check, CheckEntry, Write, WriteEntry,
           Count, Replicate, RepCheck, RepWrite, RepRead, RepCount, RemovePrev, SpaceRead, SpaceWrite
      <3>2. pc'[a] \in {"move", "bl_data"} => pc[a] \in {"dapi", "move"}
        BY <1>0, <1>4, <2>2 DEF NewVersions, ArchiveStep, Dapi, Validate, Check, CheckEntry, Write, WriteEntry,
           Count, Replicate, RepCheck, RepWrite, RepRead, RepCount, RemovePrev, SpaceRead, SpaceWrite
      <3>3. QED BY <3>1, <3>2
    <2>3. QED BY <2>1, <2>2
  <1>5. QED BY <1>3, <1>4

\* What a step of postFileRecepHandling does to the answers and the buffer.
LEMMA BufferStep ==
    ASSUME IndInv, NEW a \in Actors, ArchiveStep(a)
    PROVE  /\ bad \subseteq bad'
           /\ \A r \in Requests : /\ backlog'[r] = backlog[r] \/ r \in bad'
                                  /\ reply'[r] \in {"ok", "buffered"} => reply'[r] = reply[r]
  <1>0. BaseInv /\ TypeOK /\ Outcome(a)
    BY StepOutcome DEF IndInv, BaseInv
  <1>1. pc[a] \notin {"new", "done", "idle"}
    BY <1>0 DEF Outcome, Handling
  <1>2. job[a].content \in Requests /\ Janitor \notin Requests
    BY <1>0, <1>1, JobOf, ActorsAssumption
  <1>3. CASE Abort(a) /\ a = Janitor
    <2>1. /\ backlog' = [backlog EXCEPT ![job[a].content] = {}] /\ bad' = bad \cup {job[a].content}
          /\ reply' = reply
      BY <1>0, <1>2, <1>3, AbortEffect
    <2>2. QED BY <1>0, <2>1 DEF TypeOK
  <1>4. CASE Abort(a) /\ a \in Requests
    <2>1. reply' = [reply EXCEPT ![a] = "failed"] /\ backlog' = backlog /\ bad' = bad
      BY <1>0, <1>2, <1>4, AbortEffect DEF bufferVars
    <2>2. QED BY <1>0, <2>1 DEF TypeOK
  <1>5. CASE ~Abort(a)
    BY <1>0, <1>5 DEF Outcome
  <1>6. QED BY <1>3, <1>4, <1>5 DEF Actors

\* No step of the archive handling loses a staging file that is still needed, or the last
\* copy of a file that was answered as buffered.
LEMMA ArchiveKept ==
    ASSUME IndInv, NEW a \in Actors, ArchiveStep(a)
    PROVE  StagingKept' /\ BufferedKept'
  <1>0. /\ BaseInv /\ TypeOK /\ StepFrame(a) /\ Outcome(a) /\ StagingKept /\ BufferedKept
        /\ Janitor \notin Requests
    BY FrameStep, StepOutcome, ActorsAssumption DEF IndInv, BaseInv
  <1>1. StagingKept'
    <2>1. ASSUME NEW r \in Requests, pc'[r] \in {"dapi", "move", "bl_data", "bl_req", "bl_done"}
          PROVE  <<r, "own">> \in staged'
      <3>1. pc[r] \in {"dapi", "move", "bl_data", "bl_req", "bl_done"}
        BY <1>0, <2>1, StagedStep DEF StepFrame, Outcome, Actors
      <3>2. <<r, "own">> \in staged
        BY <1>0, <3>1 DEF StagingKept
      <3>3. QED BY <1>0, <2>1, <3>2, StagedStep
    <2>2. ASSUME pc'[Janitor] \in {"dapi", "move"} PROVE <<job'[Janitor].content, "copy">> \in staged'
      <3>1. pc[Janitor] \in {"dapi", "move"} /\ job'[Janitor].content = job[Janitor].content
        BY <1>0, <2>2, StagedStep DEF StepFrame, Outcome, Actors
      <3>2. <<job[Janitor].content, "copy">> \in staged
        BY <1>0, <3>1 DEF StagingKept
      <3>3. QED BY <1>0, <2>2, <3>1, <3>2, StagedStep
    <2>3. QED BY <2>1, <2>2 DEF StagingKept
  <1>2. BufferedKept'
    <2> SUFFICES ASSUME NEW r \in Requests, reply'[r] = "buffered",
                        "file" \notin backlog'[r], r \notin bad', job'[r].file \notin raced'
                 PROVE  \E p \in Places : db'[p] = r /\ fs'[p] = r
      BY DEF BufferedKept
    <2>1. reply[r] = "buffered" /\ "file" \notin backlog[r] /\ r \notin bad
      BY BufferStep
    <2>2. job[r].file \notin raced
      BY <1>0, RacedStep DEF StepFrame, Actors, IndInv
    <2>3. IsArchived(r)
      BY <1>0, <2>1, <2>2 DEF BufferedKept, IsArchived
    <2>4. IsArchived(r)'
      BY <2>2, <2>3, ArchivedStays
    <2>5. QED BY <2>4 DEF IsArchived
  <1>3. QED BY <1>1, <1>2

\* A step of postFileRecepHandling preserves the invariant.
LEMMA ArchiveInd ==
    ASSUME IndInv, NEW a \in Actors, ArchiveStep(a)
    PROVE  IndInv'
  <1>1. BaseInv
    BY DEF IndInv
  <1>2. QED BY <1>1, ArchiveBase, ArchiveRows, ArchiveAlone, ArchiveThrough, ArchiveKept DEF IndInv

\* The steps that touch neither files nor rows nor the jobs at work.
LEMMA QuietInd ==
    ASSUME IndInv, UNCHANGED <<fs, db, raced>>,
           \A b \in Actors : pc'[b] \in Handling \cup Late => pc'[b] = pc[b] /\ job'[b] = job[b],
           \A r \in Requests : Known(r) => job'[r] = job[r],
           \A r \in Requests : reply'[r] = "ok" => /\ job'[r] = job[r]
                                                   /\ reply[r] = "ok" \/ pc[r] = "reply"
    PROVE  Owned' /\ Recorded' /\ HandledAlone' /\ Through' /\ RowsTrue'
  <1>1. Owned'
    BY DEF IndInv, Owned, Known
  <1>2. Recorded'
    BY DEF IndInv, Recorded
  <1>3. HandledAlone'
    BY DEF IndInv, HandledAlone, Alone, MainPlace, RepPlace
  <1>4. Through'
    <2>1. \A b \in Actors : job'[b] = job[b] => (Stored(b)' <=> Stored(b))
      BY DEF Stored, MainPlace
    <2>2. ASSUME NEW b \in Actors, pc'[b] \in Late PROVE job'[b].file \in raced' \/ Stored(b)'
      BY <2>1, <2>2 DEF IndInv, Through
    <2>3. ASSUME NEW r \in Requests, reply'[r] = "ok" PROVE job'[r].file \in raced' \/ Stored(r)'
      <3>1. r \in Actors /\ "reply" \in Late
        BY DEF Actors, Late
      <3>2. QED BY <2>1, <2>3, <3>1 DEF IndInv, Through
    <2>4. QED BY <2>2, <2>3 DEF Through
  <1>5. RowsTrue'
    BY DEF IndInv, RowsTrue
  <1>6. QED BY <1>1, <1>2, <1>3, <1>4, <1>5

\* The start of a request keeps the inductive invariant.
LEMMA StartInd ==
    ASSUME IndInv, ~Overwrites, NEW r \in Requests, Start(r)
    PROVE  IndInv'
  <1>0. /\ BaseInv /\ BaseInv' /\ TypeOK /\ RequestsKnown /\ r \in Actors /\ r # Janitor
        /\ NewVersions /\ StagingKept /\ BufferedKept /\ None \notin Requests
    BY StartBase, ActorsAssumption DEF IndInv, BaseInv, Actors
  <1>1. /\ pc[r] = "new" /\ job[r].content = None /\ reply[r] = "none"
        /\ UNCHANGED <<staged, fs, db, diskVars, bufferVars, faults, raced>>
    BY <1>0, StartEffect DEF RequestsKnown
  <1>2. /\ pc'[r] \in {"receive", "done"} /\ \A b \in Actors : b # r => pc'[b] = pc[b] /\ job'[b] = job[b]
        /\ ~job'[r].over /\ job'[r].prev = None
        /\ \A q \in Requests : reply'[q] \in {"ok", "buffered"} => q # r /\ reply'[q] = reply[q]
    <2>1. CASE Started(r)
      <3>1. PICK f \in Files, s \in Sets, o \in BOOLEAN, w \in Nat :
              /\ o => Overwrites
              /\ job' = [job EXCEPT ![r] = NewJob(r, f, o, w, s)]
              /\ pc' = [pc EXCEPT ![r] = "receive"] /\ reply' = reply
        BY <2>1 DEF Started
      <3>2. job'[r] = NewJob(r, f, o, w, s) /\ \A b \in Actors : b # r => job'[b] = job[b]
        BY <1>0, <3>1 DEF TypeOK
      <3>3. NewJob(r, f, o, w, s).over = o /\ NewJob(r, f, o, w, s).prev = None
        BY DEF NewJob
      <3>4. ~job'[r].over /\ job'[r].prev = None
        BY <3>1, <3>2, <3>3
      <3>5. QED BY <1>0, <1>1, <3>1, <3>2, <3>4 DEF TypeOK
    <2>2. CASE /\ job' = job /\ pc' = [pc EXCEPT ![r] = "done"]
               /\ reply' = [reply EXCEPT ![r] = "failed"]
      BY <1>0, <1>1, <2>2 DEF TypeOK, NewVersions
    <2>3. QED BY <1>0, <2>1, <2>2, StartEffect
  <1>3. NewVersions'
    BY <1>0, <1>2 DEF NewVersions
  <1>4. Owned' /\ Recorded' /\ HandledAlone' /\ Through' /\ RowsTrue'
    <2>1. \A b \in Actors : pc'[b] \in Handling \cup Late => b # r
      BY <1>2 DEF Handling, Late
    <2>2. \A q \in Requests : q \in Actors /\ (Known(q) => q # r)
      BY <1>0, <1>1 DEF Known, Actors
    <2>3. /\ \A b \in Actors : pc'[b] \in Handling \cup Late => pc'[b] = pc[b] /\ job'[b] = job[b]
          /\ \A q \in Requests : Known(q) => job'[q] = job[q]
          /\ \A q \in Requests : reply'[q] = "ok" => job'[q] = job[q] /\ (reply[q] = "ok" \/ pc[q] = "reply")
          /\ UNCHANGED <<fs, db, raced>>
      BY <1>1, <1>2, <2>1, <2>2
    <2>4. QED BY <2>3, QuietInd
  <1>5. StagingKept'
    BY <1>0, <1>1, <1>2 DEF StagingKept, Actors
  <1>6. BufferedKept'
    BY <1>0, <1>1, <1>2 DEF BufferedKept, Actors, bufferVars
  <1>7. QED BY <1>0, <1>3, <1>4, <1>5, <1>6 DEF IndInv

\* So do receiving, replying and buffering,
LEMMA OuterInd ==
    ASSUME IndInv, NEW r \in Requests, Outer(r)
    PROVE  IndInv'
  <1>0. /\ BaseInv /\ BaseInv' /\ TypeOK /\ TypeOK' /\ RequestsKnown /\ r \in Actors /\ r # Janitor
        /\ NewVersions /\ StagingKept /\ BufferedKept
    BY OuterBase, ActorsAssumption DEF IndInv, BaseInv, Actors
  <1>1. /\ \A b \in Actors : b # r => pc'[b] = pc[b]
        /\ pc'[r] \in {"dapi", "done", "bl_req", "bl_done"}
        /\ pc[r] \in {"receive", "reply", "bl_data", "bl_req", "bl_done"}
        /\ UNCHANGED <<job, fs, db, diskVars, todo, bad, raced>>
    BY <1>0, OuterEffect
  <1>2. \A q \in Requests : /\ reply'[q] = "ok" => reply[q] = "ok" \/ pc[q] = "reply"
                            /\ reply'[q] = "buffered" => \/ reply[q] = "buffered" /\ q # r
                                                         \/ "file" \in backlog'[q]
                            /\ q # r => backlog'[q] = backlog[q]
    <2>1. reply[r] = "none"
      BY <1>0, <1>1 DEF RequestsKnown
    <2>2. \A q \in Requests : q # r => backlog'[q] = backlog[q]
      BY <1>0, OuterEffect DEF TypeOK
    <2>3. \/ reply' = reply
          \/ \E m \in {"ok", "failed", "buffered"} :
                       /\ reply' = [reply EXCEPT ![r] = m]
                       /\ m = "ok" => pc[r] = "reply"
                       /\ m = "buffered" => backlog' = backlog /\ backlog[r] = {"file", "pickle"}
      BY <1>0, OuterEffect
    <2>4. QED BY <1>0, <2>1, <2>2, <2>3 DEF TypeOK
  <1>3. NewVersions'
    BY <1>0, <1>1 DEF NewVersions
  <1>4. Owned' /\ Recorded' /\ HandledAlone' /\ Through' /\ RowsTrue'
    <2>1. /\ \A b \in Actors : pc'[b] \in Handling \cup Late => pc'[b] = pc[b] /\ job'[b] = job[b]
          /\ \A q \in Requests : Known(q) => job'[q] = job[q]
          /\ \A q \in Requests : reply'[q] = "ok" => job'[q] = job[q] /\ (reply[q] = "ok" \/ pc[q] = "reply")
          /\ UNCHANGED <<fs, db, raced>>
      BY <1>1, <1>2 DEF Handling, Late
    <2>2. QED BY <2>1, QuietInd
  <1>5. StagingKept'
    <2>1. \A q \in Requests : q # r /\ <<q, "own">> \in staged => <<q, "own">> \in staged'
      BY <1>0, OuterEffect
    <2>2. \A c : <<c, "copy">> \in staged => <<c, "copy">> \in staged'
      BY <1>0, OuterEffect
    <2>3. pc'[r] \in {"dapi", "bl_req", "bl_done"} => <<r, "own">> \in staged'
      <3>1. CASE pc[r] = "receive"
        BY <1>0, <3>1 DEF Outer, Receive, Reply, BufferData, BufferRequest, BufferDone, Abort, Goto, TypeOK
      <3>2. CASE pc[r] # "receive"
        BY <1>0, <1>1, <3>2, OuterEffect DEF StagingKept
      <3>3. QED BY <3>1, <3>2
    <2>4. QED BY <1>0, <1>1, <2>1, <2>2, <2>3 DEF StagingKept, Actors
  <1>6. BufferedKept'
    BY <1>0, <1>1, <1>2 DEF BufferedKept
  <1>7. QED BY <1>0, <1>3, <1>4, <1>5, <1>6 DEF IndInv

\* the Janitor's scan of the buffer, its taking of a file and its removal of it,
LEMMA JanitorInd ==
    ASSUME IndInv, JanitorScan \/ JanitorRemove \/ \E r \in Requests : JanitorTake(r)
    PROVE  IndInv'
  <1> USE DEF Goto, bufferVars, diskVars
  <1>0. /\ BaseInv /\ BaseInv' /\ TypeOK /\ RequestsKnown /\ JanitorKnown /\ Janitor \in Actors
        /\ Janitor \notin Requests /\ Actors = Requests \cup {Janitor}
        /\ NewVersions /\ StagingKept /\ BufferedKept /\ Through
    <2>1. BaseInv
      BY DEF IndInv
    <2>2. QED BY <2>1, JanitorBase, ActorsAssumption DEF IndInv, BaseInv, Actors
  <1>1. CASE JanitorScan
    <2>1. UNCHANGED <<pc, job, reply, staged, fs, db, backlog, bad, raced>>
      BY <1>1 DEF JanitorScan
    <2>2. NewVersions' /\ StagingKept' /\ BufferedKept'
      BY <1>0, <2>1 DEF NewVersions, StagingKept, BufferedKept
    <2>3. Owned' /\ Recorded' /\ HandledAlone' /\ Through' /\ RowsTrue'
      BY <2>1, QuietInd
    <2>4. QED BY <1>0, <2>2, <2>3 DEF IndInv
  <1>2. CASE JanitorRemove
    <2>0. /\ pc[Janitor] = "rm_file" /\ UNCHANGED <<job, reply, staged, fs, db, bad, raced>>
          /\ pc' = [pc EXCEPT ![Janitor] = "idle"]
          /\ backlog' = [backlog EXCEPT ![job[Janitor].content] = {}]
      BY <1>2 DEF JanitorRemove
    <2>1. pc'[Janitor] = "idle" /\ \A r \in Requests : pc'[r] = pc[r]
      BY <1>0, <2>0 DEF TypeOK
    <2>2. NewVersions' /\ StagingKept'
      BY <1>0, <2>0, <2>1 DEF NewVersions, StagingKept
    <2>3. Owned' /\ Recorded' /\ HandledAlone' /\ Through' /\ RowsTrue'
      <3>1. \A b \in Actors : pc'[b] \in Handling \cup Late => pc'[b] = pc[b] /\ job'[b] = job[b]
        BY <1>0, <2>0, <2>1 DEF Handling, Late
      <3>2. QED BY <2>0, <3>1, QuietInd
    <2>4. BufferedKept'
      <3> SUFFICES ASSUME NEW r \in Requests, reply[r] = "buffered",
                          "file" \notin backlog'[r], r \notin bad, job[r].file \notin raced
                   PROVE  \E p \in Places : db[p] = r /\ fs[p] = r
        BY <2>0 DEF BufferedKept
      <3>1. CASE r # job[Janitor].content
        BY <1>0, <2>0, <3>1 DEF BufferedKept, TypeOK
      <3>2. CASE r = job[Janitor].content
        <4>1. job[Janitor].file \in {job[r].file, r} /\ job[Janitor].set \in Sets
              /\ job[Janitor].ver \in Versions /\ job[Janitor].file \in FileIds
          BY <1>0, <2>0, <3>2, JobOf DEF JanitorKnown, BaseInv, Prepared, Late
        <4>2. job[Janitor].file \notin raced
          BY <4>1, NamesAssumption DEF IndInv, Recorded
        <4>3. Stored(Janitor)
          BY <1>0, <2>0, <4>2 DEF Through, Late
        <4>4. MainPlace(Janitor) \in Places
          BY <1>0, <4>1, PlacesOf
        <4>5. QED BY <3>2, <4>3, <4>4 DEF Stored
      <3>3. QED BY <3>1, <3>2
    <2>5. QED BY <1>0, <2>2, <2>3, <2>4 DEF IndInv
  <1>3. ASSUME NEW r \in Requests, JanitorTake(r) PROVE IndInv'
    <2>1. Known(r) /\ UNCHANGED <<reply, fs, db, raced>> /\ pc[Janitor] = "idle"
      BY <1>0, <1>3 DEF JanitorTake, RequestsKnown
    <2>2. CASE pc' = [pc EXCEPT ![Janitor] = "dapi"]
      <3>1. PICK s \in Sets : job' = [job EXCEPT ![Janitor] = BufferedJob(r, s)]
        BY <1>0, <1>3, <2>1, <2>2 DEF JanitorTake, TargetSets, TypeOK
      <3>2. /\ job'[Janitor] = BufferedJob(r, s) /\ \A q \in Requests : job'[q] = job[q]
            /\ pc'[Janitor] = "dapi" /\ \A q \in Requests : pc'[q] = pc[q]
        BY <1>0, <2>2, <3>1 DEF TypeOK
      <3>3. /\ BufferedJob(r, s).content = r /\ BufferedJob(r, s).prev = None
            /\ BufferedJob(r, s).over => job[r].over
        BY <1>0, <2>1, BufferedJobType
      <3>4. staged' = staged \cup {<<r, "copy">>} /\ UNCHANGED <<backlog, bad>>
        BY <1>0, <1>3, <2>1, <2>2 DEF JanitorTake, TypeOK
      <3>5. NewVersions'
        BY <1>0, <3>2, <3>3 DEF NewVersions
      <3>6. StagingKept' /\ BufferedKept'
        BY <1>0, <2>1, <3>2, <3>3, <3>4 DEF StagingKept, BufferedKept
      <3>7. Owned' /\ Recorded' /\ HandledAlone' /\ Through' /\ RowsTrue'
        <4>1. \A b \in Actors : pc'[b] \in Handling \cup Late => pc'[b] = pc[b] /\ job'[b] = job[b]
          BY <1>0, <3>2 DEF Handling, Late
        <4>2. QED BY <2>1, <3>2, <4>1, QuietInd
      <3>8. QED BY <1>0, <3>5, <3>6, <3>7 DEF IndInv
    <2>3. CASE pc' # [pc EXCEPT ![Janitor] = "dapi"]
      <3>1. UNCHANGED <<pc, job, staged>>
        BY <1>3, <2>3 DEF JanitorTake
      <3>2. \/ UNCHANGED <<backlog, bad>>
            \/ backlog' = [backlog EXCEPT ![r] = {}] /\ bad' = bad \cup {r}
        BY <1>3, <2>3 DEF JanitorTake
      <3>3. NewVersions' /\ StagingKept'
        BY <1>0, <3>1 DEF NewVersions, StagingKept
      <3>4. BufferedKept'
        BY <1>0, <2>1, <3>1, <3>2 DEF BufferedKept, TypeOK
      <3>5. Owned' /\ Recorded' /\ HandledAlone' /\ Through' /\ RowsTrue'
        BY <2>1, <3>1, QuietInd
      <3>6. QED BY <1>0, <3>3, <3>4, <3>5 DEF IndInv
    <2>4. QED BY <2>2, <2>3
  <1>4. QED BY <1>1, <1>2, <1>3

\* and the crash, which leaves rows and files and empties the Staging Areas.
LEMMA CrashInd == ASSUME IndInv, Crash PROVE IndInv'
  <1>0. /\ BaseInv /\ BaseInv' /\ TypeOK /\ NewVersions /\ BufferedKept
        /\ Janitor \notin Requests /\ Actors = Requests \cup {Janitor}
    BY CrashBase, ActorsAssumption DEF IndInv, BaseInv, Actors
  <1>1. /\ pc'[Janitor] = "idle"
        /\ \A r \in Requests : pc'[r] \in {"new", "done", "dead"}
        /\ UNCHANGED <<job, reply, fs, db, backlog, raced>> /\ bad \subseteq bad'
    BY <1>0 DEF Crash
  <1>2. NewVersions' /\ StagingKept' /\ BufferedKept'
    BY <1>0, <1>1 DEF NewVersions, StagingKept, BufferedKept
  <1>3. Owned' /\ Recorded' /\ HandledAlone' /\ Through' /\ RowsTrue'
    <2>1. \A b \in Actors : pc'[b] \notin Handling \cup Late
      BY <1>0, <1>1 DEF Handling, Late
    <2>2. QED BY <1>1, <2>1, QuietInd
  <1>4. QED BY <1>0, <1>2, <1>3 DEF IndInv

\* The inductive invariant holds when the server starts.
LEMMA IndInit == Init => IndInv
  <1> SUFFICES ASSUME Init PROVE IndInv
    OBVIOUS
  <1>1. /\ BaseInv /\ NoJob.prev = None /\ ~NoJob.over
        /\ Janitor \notin Requests /\ Actors = Requests \cup {Janitor} /\ None \notin Requests
    BY BaseInit, ActorsAssumption DEF NoJob, Actors
  <1>2. /\ \A a \in Actors : job[a] = NoJob /\ pc[a] \in {"new", "idle"}
        /\ \A r \in Requests : reply[r] = "none"
        /\ \A p \in Places : fs[p] = None /\ db[p] = None
        /\ raced = {}
    BY <1>1 DEF Init
  <1>3. QED
    BY <1>1, <1>2 DEF IndInv, NewVersions, Owned, Recorded, HandledAlone, Through, RowsTrue,
       BufferedKept, StagingKept, Handling, Late

\* Without overwriting every step keeps the inductive invariant.
LEMMA IndStep == ASSUME ~Overwrites PROVE IndInv /\ [Next]_vars => IndInv'
  <1> SUFFICES ASSUME IndInv, [Next]_vars PROVE IndInv'
    OBVIOUS
  <1>1. CASE UNCHANGED vars
    <2>1. BaseInv /\ BaseInv'
      BY <1>1, BaseStep DEF IndInv
    <2>2. UNCHANGED <<pc, job, reply, staged, fs, db, backlog, bad, raced>>
      BY <1>1 DEF vars, bufferVars
    <2>3. Owned' /\ Recorded' /\ HandledAlone' /\ Through' /\ RowsTrue'
      BY <2>2, QuietInd
    <2>4. NewVersions' /\ StagingKept' /\ BufferedKept'
      BY <2>2 DEF IndInv, NewVersions, StagingKept, BufferedKept
    <2>5. QED BY <2>1, <2>3, <2>4 DEF IndInv
  <1>2. CASE Next
    BY <1>2, NextCases, ArchiveInd, StartInd, OuterInd, JanitorInd, CrashInd
  <1>3. QED BY <1>1, <1>2

\* The invariant gives what the clients were promised.
LEMMA IndSafe == IndInv => ArchiveSafe
  <1> SUFFICES ASSUME IndInv PROVE ArchiveSafe
    OBVIOUS
  <1>1. Intact
    BY DEF IndInv, RowsTrue, Intact
  <1>2. AckedStored
    BY DEF IndInv, BaseInv, RequestsKnown, Through, Stored, Known, AckedStored
  <1>3. QED BY <1>1, <1>2 DEF IndInv, BaseInv, ArchiveSafe

\* What a client was told of its file is true and stays true, for any number of requests,
\* File IDs, storage sets, versions and faults, as long as no client asks to overwrite: a row
\* of ngas_files describes the file at its place, "ok" means archived, "buffered" means kept,
\* through the failures of every step, the crashes and the work of the Janitor, unless two
\* actors handle one File ID at the same time.
THEOREM ArchiveIsSafe == ASSUME ~Overwrites PROVE Spec => []ArchiveSafe
  BY IndInit, IndStep, IndSafe, PTL DEF Spec

-----------------------------------------------------------------------------
(* The refinement: every step is one of ArchiveContract, or changes nothing *)
(* a client can see.                                                       *)

\* Where the data of request r is, as the contract sees it.
At(r) == IF IsArchived(r) THEN "archived" ELSE IF IsKept(r) THEN "kept" ELSE "nowhere"
Contested == {r \in Requests : job[r].file \in raced}

\* The data of x may move as the contract allows it while the client is told nothing.
Moves(x) ==
    \/ At(x)' = At(x)
    \/ At(x) = "nowhere" /\ At(x)' = "kept"
    \/ At(x) = "kept" /\ At(x)' = "archived"
    \/ At(x) = "kept" /\ At(x)' = "nowhere" /\ reply[x] \notin {"ok", "buffered"}

\* The state of the contract is a function from the requests.
LEMMA ContractState ==
    /\ Contract!Next <=>
          /\ Contested \subseteq Contested'
          /\ \/ \E r \in Requests : Contract!Confirm(r) \/ Contract!Refuse(r)
             \/ /\ reply' = reply
                /\ \/ \E r \in Requests : Contract!Store(r) \/ Contract!Archived(r) \/ Contract!Drop(r)
                   \/ Contract!Contend
                   \/ [r \in Requests |-> At(r)]' = [r \in Requests |-> At(r)]
  BY DEF Contract!Next, At, Contested

\* A step that changes the place of the data of one request, as the contract allows it.
LEMMA ContractMove ==
    ASSUME NEW x \in Requests, Contested \subseteq Contested', reply' = reply, Moves(x),
           \A r \in Requests : r # x => At(r)' = At(r)
    PROVE  Contract!Next
  <1> DEFINE w == [r \in Requests |-> At(r)]
  <1>1. w' = [w EXCEPT ![x] = At(x)']
    OBVIOUS
  <1>2. CASE At(x)' = At(x)
    <2>1. w' = w
      BY <1>2
    <2>2. QED BY <2>1, ContractState
  <1>3. CASE At(x) = "nowhere" /\ At(x)' = "kept"
    <2>1. Contract!Store(x)
      BY <1>1, <1>3 DEF Contract!Store, At
    <2>2. QED BY <2>1, ContractState
  <1>4. CASE At(x) = "kept" /\ At(x)' = "archived"
    <2>1. Contract!Archived(x)
      BY <1>1, <1>4 DEF Contract!Archived, At
    <2>2. QED BY <2>1, ContractState
  <1>5. CASE At(x) = "kept" /\ At(x)' = "nowhere" /\ reply[x] \notin {"ok", "buffered"}
    <2>1. Contract!Drop(x)
      BY <1>1, <1>5 DEF Contract!Drop, At
    <2>2. QED BY <2>1, ContractState
  <1>6. QED BY <1>2, <1>3, <1>4, <1>5 DEF Moves

\* A step that changes only the places of contested data.
LEMMA ContractContend ==
    ASSUME Contested \subseteq Contested', reply' = reply,
           \A r \in Requests : r \notin Contested' => At(r)' = At(r)
    PROVE  Contract!Next
  <1> DEFINE w == [r \in Requests |-> At(r)]
  <1>1. CASE Contested' = {}
    <2>1. w' = w
      BY <1>1
    <2>2. QED BY <2>1, ContractState
  <1>2. CASE Contested' # {}
    <2>1. /\ Contested' \in SUBSET Contested'
          /\ w' \in [Requests -> {"nowhere", "kept", "archived"}]
          /\ \A r \in Requests \ Contested' : w'[r] = w[r]
      BY DEF At
    <2>2. Contract!Contend
      BY <1>2, <2>1 DEF Contract!Contend, At, Contested
    <2>3. QED BY <2>2, ContractState
  <1>3. QED BY <1>1, <1>2

\* A step that answers a client "failed", and may give up its data.
LEMMA ContractRefuse ==
    ASSUME NEW x \in Requests, Contested \subseteq Contested', reply[x] = "none",
           reply' = [reply EXCEPT ![x] = "failed"],
           At(x)' = At(x) \/ (At(x) = "kept" /\ At(x)' = "nowhere"),
           \A r \in Requests : r # x => At(r)' = At(r)
    PROVE  Contract!Next
  <1> DEFINE w == [r \in Requests |-> At(r)]
  <1>1. w' = [w EXCEPT ![x] = At(x)'] /\ (At(x)' = At(x) => w' = w)
    OBVIOUS
  <1>2. Contract!Refuse(x)
    BY <1>1 DEF Contract!Refuse, At
  <1>3. QED BY <1>2, ContractState

\* A step that tells a client what is true.
LEMMA ContractConfirm ==
    ASSUME NEW x \in Requests, Contested \subseteq Contested', reply[x] = "none",
           \/ reply' = [reply EXCEPT ![x] = "ok"] /\ (At(x) = "archived" \/ x \in Contested)
           \/ reply' = [reply EXCEPT ![x] = "buffered"] /\ At(x) # "nowhere",
           \A r \in Requests : At(r)' = At(r)
    PROVE  Contract!Next
  <1>1. [r \in Requests |-> At(r)]' = [r \in Requests |-> At(r)]
    OBVIOUS
  <1>2. Contract!Confirm(x)
    BY <1>1 DEF Contract!Confirm, At, Contested
  <1>3. QED BY <1>2, ContractState

\* What a request is told of, and the File ID it is contested under, does not change.
LEMMA ContestedGrows ==
    ASSUME IndInv, raced \subseteq raced', \A r \in Requests : Known(r) => job'[r].file = job[r].file
    PROVE  Contested \subseteq Contested'
  <1> SUFFICES ASSUME NEW r \in Requests, job[r].file \in raced PROVE job'[r].file \in raced'
    BY DEF Contested
  <1>1. job[r].file # None
    BY ActorsAssumption DEF IndInv, Recorded
  <1>2. Known(r)
    BY <1>1 DEF IndInv, BaseInv, RequestsKnown
  <1>3. QED BY <1>2

\* The data of a request that a step does not touch stays where it is.
LEMMA SameAt ==
    ASSUME NEW r \in Requests, fs' = fs, db' = db,
           "file" \in backlog'[r] <=> "file" \in backlog[r],
           \A k \in {"own", "copy"} : <<r, k>> \in staged' <=> <<r, k>> \in staged,
           r \in bad' <=> r \in bad
    PROVE  At(r)' = At(r)
  BY DEF At, IsArchived, IsKept

\* The data of a request that is not contested is untouched by actors that race.
LEMMA RacersKeepOff ==
    ASSUME IndInv, NEW a \in Actors, ArchiveStep(a), pc[a] \in Handling, job[a].file \in raced,
           UNCHANGED <<reply, backlog, bad>>,
           NEW r \in Requests, r \notin Contested'
    PROVE  At(r)' = At(r)
  <1>0. /\ BaseInv /\ BaseInv' /\ Owned' /\ Recorded' /\ StepFrame(a) /\ raced' = raced
        /\ raced \subseteq Files
    <2>1. BaseInv /\ Recorded /\ pc[a] # "validate"
      BY DEF IndInv, NewVersions
    <2>2. QED BY <2>1, ArchiveInd, FrameStep DEF IndInv, Recorded, Handling, StepFrame
  <1>1. job[a].content # r /\ a # r
    <2>1. pc[a] \notin {"new", "done", "idle"}
      BY DEF Handling
    <2>2. job[a].content \in Requests /\ job[a].file \in {job[job[a].content].file, job[a].content}
          /\ (a \in Requests => job[a].content = a)
      BY <1>0, <2>1, JobOf
    <2>3. job[a].file = job[job[a].content].file
      BY <1>0, <2>2, NamesAssumption
    <2>4. job'[job[a].content].file = job[job[a].content].file
      BY <1>0, <2>2 DEF StepFrame, Actors
    <2>5. QED BY <1>0, <2>2, <2>3, <2>4 DEF Contested
  <1>2. job'[r].file = job[r].file /\ job[r].file \notin raced
    BY <1>0 DEF StepFrame, Actors, Contested
  <1>3. \A p \in Places : (fs'[p] = r <=> fs[p] = r) /\ (fs[p] = r => (db'[p] = r <=> db[p] = r))
    <2> TAKE p \in Places
    <2>1. CASE p[2] # job[a].file
      BY <1>0, <2>1, OtherPlaces DEF IndInv
    <2>2. CASE p[2] = job[a].file
      <3>1. fs[p] # r
        BY <1>2, <2>2, PlaceUncontested
      <3>2. fs'[p] # r
        BY <1>0, <1>2, <2>2, NamesAssumption DEF Owned
      <3>3. QED BY <3>1, <3>2
    <2>3. QED BY <2>1, <2>2
  <1>4. \A k \in {"own", "copy"} : <<r, k>> \in staged' <=> <<r, k>> \in staged
    BY <1>1, StagedStep
  <1>5. QED BY <1>3, <1>4 DEF At, IsArchived, IsKept

\* A file that takes the place of one without a row: the other was not promised to be there.
LEMMA TakesPlace ==
    ASSUME IndInv, NEW a \in Actors, pc[a] \in Handling, job[a].file \notin raced,
           NEW p \in Places, p[2] = job[a].file, db[p] = None,
           fs' = [fs EXCEPT ![p] = job[a].content], IsKept(job[a].content),
           UNCHANGED <<reply, backlog, bad, db>>,
           \A r \in Requests, k \in {"own", "copy"} :
              r # job[a].content => (<<r, k>> \in staged' <=> <<r, k>> \in staged),
           Contested \subseteq Contested'
    PROVE  Contract!Next
  <1>c. PICK c : c = job[a].content
    OBVIOUS
  <1>q. PICK q : q = fs[p]
    OBVIOUS
  <1>0. /\ BaseInv /\ fs \in [Places -> Requests \cup {None}] /\ None \notin Requests
    BY ActorsAssumption DEF IndInv, BaseInv, TypeOK
  <1>1. c \in Requests /\ Known(c) /\ job[a].file \in {job[c].file, c}
    BY <1>0, <1>c, JobOf DEF Handling
  <1>a. fs'[p] = c /\ \A x \in Places : x # p => fs'[x] = fs[x]
    BY <1>0, <1>c
  <1>2. \A r \in Requests : IsArchived(r)' <=> IsArchived(r)
    BY <1>0, <1>a DEF IsArchived
  <1>3. \A r \in Requests : r # c /\ r # q => (IsKept(r)' <=> IsKept(r))
    BY <1>0, <1>a, <1>c, <1>q DEF IsKept
  <1>4. IsKept(c)'
    BY <1>a DEF IsKept
  <1>5. \A r \in Requests : r # q \/ r = c => At(r)' = At(r)
    BY <1>2, <1>3, <1>4, <1>c DEF At
  <1>6. CASE q \notin Requests \/ q = c
    BY <1>1, <1>5, <1>6, ContractMove DEF Moves
  <1>7. CASE q \in Requests /\ q # c
    <2>1. job[q].file \notin raced
      BY <1>1, <1>7, <1>c, <1>q, NamesAssumption DEF IndInv, Owned, Known
    <2>2. IsKept(q)
      BY <1>q DEF IsKept
    <2>3. reply[q] = "ok" => IsArchived(q)
      <3> SUFFICES ASSUME reply[q] = "ok" PROVE IsArchived(q)
        OBVIOUS
      <3>1. Stored(q) /\ Known(q) /\ job[q].ver \in Versions
        BY <1>7, <2>1 DEF IndInv, Through, BaseInv, RequestsKnown, Prepared
      <3>2. MainPlace(q) \in Places
        BY <3>1, PlacesOf DEF Known, FileIds
      <3>3. QED BY <3>1, <3>2 DEF Stored, Known, IsArchived
    <2>4. reply[q] = "buffered" => IsArchived(q) \/ IsKept(q)'
      BY <1>7, <2>1 DEF IndInv, BufferedKept, IsArchived, IsKept
    <2>5. Moves(q)
      BY <1>2, <1>7, <2>2, <2>3, <2>4 DEF Moves, At
    <2>6. QED BY <1>5, <1>7, <2>5, ContractMove
  <1>8. QED BY <1>6, <1>7

\* A file that gets its row is archived.
LEMMA GetsRow ==
    ASSUME NEW c \in Requests, NEW p \in Places, db \in [Places -> Requests \cup {None}],
           db[p] \in {None, c}, fs[p] = c,
           db' = db \/ db' = [db EXCEPT ![p] = c], UNCHANGED <<reply, backlog, bad, fs, staged>>,
           Contested \subseteq Contested', None \notin Requests
    PROVE  Contract!Next
  <1>1. \A r \in Requests : IsKept(r)' <=> IsKept(r)
    BY DEF IsKept
  <1>2. \A r \in Requests : r # c => (IsArchived(r)' <=> IsArchived(r))
    BY DEF IsArchived
  <1>3. IsKept(c) /\ (IsArchived(c) => IsArchived(c)')
    BY DEF IsKept, IsArchived
  <1>4. Moves(c) /\ \A r \in Requests : r # c => At(r)' = At(r)
    BY <1>1, <1>2, <1>3 DEF Moves, At
  <1>5. QED BY <1>4, ContractMove

\* An exception refuses the client, or hands its data to the Bad Files Area.
LEMMA AbortRefines ==
    ASSUME IndInv, NEW a \in Actors, pc[a] \notin {"new", "done", "idle"}, Abort(a),
           UNCHANGED <<job, fs, db, raced>>
    PROVE  Contract!Next
  <1>0. /\ BaseInv /\ TypeOK /\ RequestsKnown /\ Janitor \notin Requests
        /\ Contested \subseteq Contested'
    BY ContestedGrows, ActorsAssumption DEF IndInv, BaseInv
  <1>1. job[a].content \in Requests
    BY <1>0, JobOf
  <1>2. CASE a \in Requests
    <2>1. /\ reply' = [reply EXCEPT ![a] = "failed"] /\ staged' = staged \ {<<a, "own">>}
          /\ UNCHANGED <<backlog, bad>>
      BY <1>0, <1>1, <1>2, AbortEffect DEF bufferVars
    <2>2. reply[a] = "none"
      BY <1>0, <1>2 DEF RequestsKnown
    <2>3. \A r \in Requests : r # a => At(r)' = At(r)
      BY <2>1, SameAt
    <2>4. At(a)' = At(a) \/ (At(a) = "kept" /\ At(a)' = "nowhere")
      BY <1>2, <2>1 DEF At, IsArchived, IsKept
    <2>5. QED BY <1>0, <1>2, <2>1, <2>2, <2>3, <2>4, ContractRefuse
  <1>3. CASE a = Janitor
    <2>1. /\ backlog' = [backlog EXCEPT ![job[a].content] = {}] /\ bad' = bad \cup {job[a].content}
          /\ UNCHANGED <<reply, staged>>
      BY <1>0, <1>1, <1>3, AbortEffect
    <2>2. \A r \in Requests : r # job[a].content => At(r)' = At(r)
      BY <1>0, <2>1, SameAt DEF TypeOK
    <2>3. Moves(job[a].content)
      BY <1>1, <2>1 DEF Moves, At, IsArchived, IsKept
    <2>4. QED BY <1>0, <1>1, <2>1, <2>2, <2>3, ContractMove
  <1>4. QED BY <1>2, <1>3 DEF Actors

\* Every step of postFileRecepHandling is a step of the contract.
LEMMA ArchiveRefines ==
    ASSUME IndInv, NEW a \in Actors, ArchiveStep(a)
    PROVE  Contract!Next
  <1> USE DEF Goto, bufferVars, diskVars
  <1>0. /\ BaseInv /\ TypeOK /\ NewVersions /\ HandledAlone /\ StagingKept /\ None \notin Requests
        /\ StepFrame(a) /\ Outcome(a) /\ FileStep(a) /\ DOMAIN pc = Actors
    BY FrameStep, StepOutcome, FilesOfStep, ActorsAssumption DEF IndInv, BaseInv, TypeOK
  <1>1. pc[a] \notin {"new", "done", "idle"}
    BY <1>0 DEF Outcome, Handling
  <1>2. Contested \subseteq Contested'
    BY <1>0, RacedStep, ContestedGrows DEF StepFrame, Actors, IndInv
  <1>3. job[a].content \in Requests /\ (a \in Requests => job[a].content = a)
    BY <1>0, <1>1, JobOf
  <1>4. CASE Abort(a) /\ UNCHANGED <<job, fs, db, raced>>
    BY <1>1, <1>4, AbortRefines
  <1>5. CASE UNCHANGED <<reply, backlog, bad>> /\ pc'[a] # "done"
    <2>1. CASE fs' = fs /\ db' = db /\ staged' = staged
      <3>1. \A r \in Requests : At(r)' = At(r)
        BY <1>5, <2>1, SameAt
      <3>2. QED BY <1>2, <1>5, <3>1, ContractContend
    <2>2. CASE pc[a] \in Handling /\ job[a].file \in raced
      <3>1. \A r \in Requests : r \notin Contested' => At(r)' = At(r)
        BY <1>5, <2>2, RacersKeepOff
      <3>2. QED BY <1>2, <1>5, <3>1, ContractContend
    <2>3. CASE pc[a] \in Handling /\ job[a].file \notin raced
      <3>1. Alone(a)
        BY <1>0, <2>3 DEF HandledAlone
      <3>2. /\ MainPlace(a) \in Places /\ MainPlace(a)[2] = job[a].file
            /\ RepPlace(a) \in Places /\ RepPlace(a)[2] = job[a].file /\ MainPlace(a) # RepPlace(a)
        BY <1>0, <1>1, <2>3, JobOf, PlacesOf DEF BaseInv, Prepared
      <3>3. CASE Move(a) /\ fs' = [fs EXCEPT ![MainPlace(a)] = job[a].content] /\ db' = db
        <4>1. IsKept(job[a].content)
          BY <1>0, <1>3, <3>3 DEF Move, StagingKept, IsKept, Actors
        <4>2. \A r \in Requests, k \in {"own", "copy"} :
                 r # job[a].content => (<<r, k>> \in staged' <=> <<r, k>> \in staged)
          BY <1>3, StagedStep
        <4>3. db[MainPlace(a)] = None
          BY <3>1, <3>3 DEF Move, Alone
        <4>4. QED BY <1>2, <1>5, <2>3, <3>2, <3>3, <4>1, <4>2, <4>3, TakesPlace
      <3>4. CASE staged' = staged
        <4>1. fs \in [Places -> Requests \cup {None}] /\ db \in [Places -> Requests \cup {None}]
          BY <1>0 DEF TypeOK
        <4>2. CASE /\ pc[a] = "move" /\ fs' = [fs EXCEPT ![MainPlace(a)] = job[a].content]
                   /\ db' = db
          <5>1. Move(a)
            BY <1>0, <4>2 DEF ArchiveStep, Dapi, Validate, Move, Check, Write, Count, Replicate, RepCheck,
               RepWrite, RepRead, RepCount, RemovePrev, SpaceRead, SpaceWrite
          <5>2. QED BY <3>3, <4>2, <5>1
        <4>3. CASE /\ pc[a] = "rep_copy" /\ db' = db
                   /\ fs' = [fs EXCEPT ![RepPlace(a)] = fs[MainPlace(a)]]
          <5>1. fs[MainPlace(a)] = job[a].content /\ db[RepPlace(a)] = None
            BY <3>1, <4>3 DEF Alone, Moved, Handling, NoReplicaYet
          <5>2. IsKept(job[a].content)
            BY <3>2, <5>1 DEF IsKept
          <5>3. QED BY <1>2, <1>5, <2>3, <3>2, <3>4, <4>3, <5>1, <5>2, TakesPlace
        <4>4. CASE /\ pc[a] = "write" /\ fs' = fs
                   /\ db' # db => db' = [db EXCEPT ![MainPlace(a)] = job[a].sum]
          <5>1. /\ fs[MainPlace(a)] = job[a].content /\ db[MainPlace(a)] = None
                /\ job[a].sum = job[a].content
            BY <3>1, <4>4 DEF Alone, Moved, Handling
          <5>2. QED BY <1>0, <1>2, <1>3, <1>5, <3>2, <3>4, <4>1, <4>4, <5>1, GetsRow
        <4>5. CASE /\ pc[a] = "rep_write" /\ fs' = fs
                   /\ db' # db => db' = [db EXCEPT ![RepPlace(a)] = job[a].sum]
          <5>1. /\ fs[RepPlace(a)] = job[a].content /\ db[RepPlace(a)] = None
                /\ job[a].sum = job[a].content
            BY <3>1, <4>5 DEF Alone, Moved, Registered, Handling, NoReplicaYet
          <5>2. QED BY <1>0, <1>2, <1>3, <1>5, <3>2, <3>4, <4>1, <4>5, <5>1, GetsRow
        <4>6. QED BY <1>0, <2>1, <3>4, <4>2, <4>3, <4>4, <4>5 DEF FileStep
      <3>5. CASE staged' # staged
        <4>1. pc'[a] = "check"
          BY <1>5, <3>5, StagedStep
        <4>2. pc[a] \in {"dapi", "validate", "move"}
          BY <1>0, <4>1 DEF Outcome
        <4>3. pc[a] = "move"
          BY <1>0, <2>3, <4>2 DEF NewVersions, Handling
        <4>4. Move(a)
          BY <4>3 DEF ArchiveStep, Dapi, Validate, Move, Check, Write, Count, Replicate, RepCheck,
             RepWrite, RepRead, RepCount, RemovePrev, SpaceRead, SpaceWrite
        <4>5. fs' = [fs EXCEPT ![MainPlace(a)] = job[a].content] /\ db' = db
          BY <3>5, <4>4 DEF Move
        <4>6. QED BY <3>3, <4>4, <4>5
      <3>6. QED BY <3>4, <3>5
    <2>4. CASE pc[a] \notin Handling
      <3>1. fs' = fs /\ db' = db
        BY <1>0, <2>4, OtherPlaces
      <3>2. staged' = staged
        <4>1. pc'[a] # "check"
          <5>1. CASE pc[a] = "dapi"
            BY <1>0, <1>5, <5>1 DEF Outcome, Abort
          <5>2. CASE pc[a] # "dapi"
            BY <1>0, <2>4, <5>2 DEF Outcome, Handling
          <5>3. QED BY <5>1, <5>2
        <4>2. QED BY <1>5, <4>1, StagedStep
      <3>3. QED BY <2>1, <3>1, <3>2
    <2>5. QED BY <2>2, <2>3, <2>4
  <1>6. QED BY <1>0, <1>4, <1>5 DEF Outcome

\* The steps of a request before and after postFileRecepHandling.
LEMMA OuterRefines ==
    ASSUME IndInv, NEW r \in Requests, Outer(r)
    PROVE  Contract!Next
  <1> USE DEF Goto, bufferVars, BufferFails
  <1>0. /\ BaseInv /\ TypeOK /\ RequestsKnown /\ r \in Actors /\ r # Janitor
        /\ StagingKept /\ Through
    BY ActorsAssumption DEF IndInv, BaseInv, Actors
  <1>1. /\ UNCHANGED <<job, fs, db, bad, raced>> /\ reply[r] = "none"
        /\ \A q \in Requests : q # r => backlog'[q] = backlog[q]
        /\ \A q \in Requests, k \in {"own", "copy"} :
              q # r => (<<q, k>> \in staged' <=> <<q, k>> \in staged)
    BY <1>0, OuterEffect DEF TypeOK, RequestsKnown
  <1>2. Contested \subseteq Contested'
    BY <1>1, ContestedGrows
  <1>3. \A q \in Requests : q # r => At(q)' = At(q)
    BY <1>1, SameAt
  <1>4. ASSUME reply' = [reply EXCEPT ![r] = "failed"], UNCHANGED <<staged, backlog>>
        PROVE  Contract!Next
    <2>1. At(r)' = At(r)
      BY <1>1, <1>4, SameAt
    <2>2. QED BY <1>1, <1>2, <1>3, <1>4, <2>1, ContractRefuse
  <1>5. CASE Receive(r)
    <2>1. CASE reply' = reply /\ staged' = staged \cup {<<r, "own">>} /\ backlog' = backlog
      <3>1. Moves(r)
        BY <1>1, <2>1 DEF Moves, At, IsArchived, IsKept
      <3>2. QED BY <1>2, <1>3, <2>1, <3>1, ContractMove
    <2>2. CASE Abort(r)
      BY <1>0, <1>1, <1>5, <2>2, AbortRefines DEF Receive
    <2>3. QED BY <1>5, <2>1, <2>2 DEF Receive
  <1>6. CASE Reply(r)
    <2>1. reply' = [reply EXCEPT ![r] = "ok"] /\ UNCHANGED <<staged, backlog>> /\ pc[r] = "reply"
      BY <1>6 DEF Reply
    <2>2. At(r) = "archived" \/ r \in Contested
      <3>1. job[r].file \in raced \/ Stored(r)
        BY <1>0, <2>1 DEF Through, Late
      <3>2. job[r].content = r /\ MainPlace(r) \in Places
        BY <1>0, <2>1, JobOf, PlacesOf DEF BaseInv, Prepared, Late
      <3>3. QED BY <3>1, <3>2 DEF Stored, At, IsArchived, Contested
    <2>3. \A q \in Requests : At(q)' = At(q)
      BY <1>1, <2>1, SameAt
    <2>4. QED BY <1>1, <1>2, <2>1, <2>2, <2>3, ContractConfirm
  <1>7. CASE BufferData(r)
    <2>1. CASE reply' = reply /\ staged' = staged /\ backlog' = [backlog EXCEPT ![r] = @ \cup {"file"}]
      <3>1. Moves(r)
        BY <1>0, <1>1, <2>1 DEF TypeOK, Moves, At, IsArchived, IsKept
      <3>2. QED BY <1>2, <1>3, <2>1, <3>1, ContractMove
    <2>2. QED BY <1>4, <1>7, <2>1 DEF BufferData
  <1>8. CASE BufferRequest(r)
    <2>1. CASE reply' = reply /\ staged' = staged /\ backlog' = [backlog EXCEPT ![r] = @ \cup {"pickle"}]
      <3>1. Moves(r)
        BY <1>0, <1>1, <2>1 DEF TypeOK, Moves, At, IsArchived, IsKept
      <3>2. QED BY <1>2, <1>3, <2>1, <3>1, ContractMove
    <2>2. QED BY <1>4, <1>8, <2>1 DEF BufferRequest
  <1>9. CASE BufferDone(r)
    <2>1. CASE reply' = [reply EXCEPT ![r] = "buffered"] /\ backlog[r] = {"file", "pickle"} /\ backlog' = backlog
      <3>1. At(r) # "nowhere" /\ At(r)' = At(r)
        BY <1>1, <2>1 DEF At, IsArchived, IsKept
      <3>2. QED BY <1>1, <1>2, <1>3, <2>1, <3>1, ContractConfirm
    <2>2. QED BY <1>4, <1>9, <2>1 DEF BufferDone
  <1>10. QED BY <1>5, <1>6, <1>7, <1>8, <1>9 DEF Outer

\* A request is let in, or refused when there is no target disk.
LEMMA StartRefines ==
    ASSUME IndInv, NEW r \in Requests, Start(r)
    PROVE  Contract!Next
  <1>0. /\ BaseInv /\ TypeOK /\ RequestsKnown /\ None \notin Requests
    BY ActorsAssumption DEF IndInv, BaseInv
  <1>1. pc[r] = "new" /\ UNCHANGED <<staged, fs, db, backlog, bad, raced>>
    BY <1>0, StartEffect DEF bufferVars
  <1>2. reply[r] = "none" /\ ~Known(r)
    BY <1>0, <1>1 DEF RequestsKnown, Known
  <1>3. \A q \in Requests : At(q)' = At(q)
    BY <1>1, SameAt
  <1>4. CASE Started(r)
    <2>1. PICK j : job' = [job EXCEPT ![r] = j] /\ reply' = reply
      BY <1>4 DEF Started
    <2>2. Contested \subseteq Contested'
      BY <1>0, <1>1, <1>2, <2>1, ContestedGrows DEF TypeOK
    <2>3. QED BY <1>3, <2>1, <2>2, ContractContend
  <1>5. CASE job' = job /\ reply' = [reply EXCEPT ![r] = "failed"]
    <2>1. Contested \subseteq Contested'
      BY <1>1, <1>5, ContestedGrows
    <2>2. QED BY <1>2, <1>3, <1>5, <2>1, ContractRefuse
  <1>6. QED BY <1>0, <1>4, <1>5, StartEffect

\* The Janitor takes a buffered file, and removes it once it is archived.
LEMMA JanitorRefines ==
    ASSUME IndInv, JanitorScan \/ JanitorRemove \/ \E r \in Requests : JanitorTake(r)
    PROVE  Contract!Next
  <1> USE DEF Goto
  <1>0. /\ BaseInv /\ TypeOK /\ RequestsKnown /\ JanitorKnown /\ Through /\ Recorded
        /\ Janitor \in Actors /\ Janitor \notin Requests
    BY ActorsAssumption DEF IndInv, BaseInv, Actors
  <1>1. CASE JanitorScan
    <2>1. UNCHANGED <<job, reply, staged, fs, db, backlog, bad, raced>>
      BY <1>1 DEF JanitorScan
    <2>2. Contested \subseteq Contested'
      BY <2>1, ContestedGrows
    <2>3. \A q \in Requests : At(q)' = At(q)
      BY <2>1, SameAt
    <2>4. QED BY <2>1, <2>2, <2>3, ContractContend
  <1>2. CASE JanitorRemove
    <2>c. PICK c : c = job[Janitor].content
      OBVIOUS
    <2>1. /\ pc[Janitor] = "rm_file" /\ UNCHANGED <<job, reply, staged, fs, db, bad, raced>>
          /\ backlog' = [backlog EXCEPT ![c] = {}]
      BY <1>2, <2>c DEF JanitorRemove
    <2>2. Contested \subseteq Contested'
      BY <2>1, ContestedGrows
    <2>3. /\ c \in Requests /\ job[Janitor].file \in {job[c].file, c}
          /\ MainPlace(Janitor) \in Places
      BY <1>0, <2>1, <2>c, JobOf, PlacesOf DEF BaseInv, Prepared, Late
    <2>4. \A q \in Requests : q # c => At(q)' = At(q)
      BY <1>0, <2>1, SameAt DEF TypeOK
    <2>5. CASE job[Janitor].file \in raced
      <3>1. job[c].file \in raced'
        BY <1>0, <2>1, <2>3, <2>5, NamesAssumption DEF Recorded
      <3>2. c \in Contested'
        BY <2>1, <2>3, <3>1 DEF Contested
      <3>3. QED BY <2>1, <2>2, <2>4, <3>2, ContractContend
    <2>6. CASE job[Janitor].file \notin raced
      <3>1. Stored(Janitor)
        BY <1>0, <2>1, <2>6 DEF Through, Late
      <3>2. IsArchived(c) /\ IsArchived(c)'
        BY <2>1, <2>3, <2>c, <3>1 DEF Stored, IsArchived
      <3>3. \A q \in Requests : At(q)' = At(q)
        BY <2>4, <3>2 DEF At
      <3>4. QED BY <2>1, <2>2, <3>3, ContractContend
    <2>7. QED BY <2>5, <2>6
  <1>3. ASSUME NEW r \in Requests, JanitorTake(r) PROVE Contract!Next
    <2>a. UNCHANGED <<reply, fs, db, raced>> /\ (job' = job \/ \E j : job' = [job EXCEPT ![Janitor] = j])
      BY <1>3 DEF JanitorTake
    <2>1. UNCHANGED <<reply, fs, db, raced>> /\ \A q \in Requests : job'[q] = job[q]
      BY <1>0, <2>a DEF TypeOK, Actors
    <2>2. Contested \subseteq Contested'
      BY <2>1, ContestedGrows
    <2>3. /\ \A q \in Requests : /\ q # r => backlog'[q] = backlog[q] /\ (q \in bad' <=> q \in bad)
                                 /\ q # r => \A k \in {"own", "copy"} : <<q, k>> \in staged' <=> <<q, k>> \in staged
          /\ \/ staged' = staged \cup {<<r, "copy">>} /\ UNCHANGED <<backlog, bad>>
             \/ UNCHANGED <<staged, backlog, bad>>
             \/ UNCHANGED staged /\ bad' = bad \cup {r}
      BY <1>0, <1>3 DEF JanitorTake, TypeOK
    <2>4. \A q \in Requests : q # r => At(q)' = At(q)
      BY <2>1, <2>3, SameAt
    <2>5. Moves(r)
      BY <2>1, <2>3 DEF Moves, At, IsArchived, IsKept
    <2>6. QED BY <2>1, <2>2, <2>4, <2>5, ContractMove
  <1>4. QED BY <1>1, <1>2, <1>3

\* A crash moves what is staged to the Bad Files Areas, and nothing else.
LEMMA CrashRefines == ASSUME IndInv, Crash PROVE Contract!Next
  <1>1. /\ UNCHANGED <<job, reply, fs, db, backlog, raced>> /\ staged' = {}
        /\ bad' = bad \cup {r \in Requests : \E k \in {"own", "copy"} : <<r, k>> \in staged}
    BY DEF Crash
  <1>2. Contested \subseteq Contested'
    BY <1>1, ContestedGrows
  <1>3. \A r \in Requests : At(r)' = At(r)
    BY <1>1 DEF At, IsArchived, IsKept
  <1>4. QED BY <1>1, <1>2, <1>3, ContractContend

\* The initial state is one of the contract.
LEMMA RefinesInit == Init => Contract!Init
  <1> SUFFICES ASSUME Init PROVE Contract!Init
    OBVIOUS
  <1>1. \A r \in Requests : At(r) = "nowhere"
    BY ActorsAssumption DEF Init, At, IsArchived, IsKept
  <1>2. QED BY <1>1 DEF Init, Contract!Init, At

\* Every step is a step of the contract, or leaves it alone.
LEMMA RefinesStep ==
    IndInv /\ [Next]_vars => [Contract!Next]_(Contract!contractVars)
  <1> SUFFICES ASSUME IndInv, [Next]_vars PROVE Contract!Next \/ UNCHANGED Contract!contractVars
    OBVIOUS
  <1>1. CASE UNCHANGED vars
    BY <1>1 DEF vars, bufferVars, Contract!contractVars, IsArchived, IsKept
  <1>2. CASE Next
    BY <1>2, NextCases, ArchiveRefines, StartRefines, OuterRefines, JanitorRefines, CrashRefines
  <1>3. QED BY <1>1, <1>2

\* The Archive Request handling implements ArchiveContract for any number of requests, File
\* IDs, storage sets, versions and faults, as long as no client asks to overwrite: an archived
\* file stays archived, "ok" is said only of an archived file and "buffered" only of one that
\* is kept, and neither is taken back, through the failures of every step and the crashes.
THEOREM ArchiveRefinesContract == ASSUME ~Overwrites PROVE Spec => KeepsContract
  BY IndInit, IndStep, RefinesInit, RefinesStep, PTL DEF Spec, KeepsContract, Contract!Spec

-----------------------------------------------------------------------------
(* What a step may never do.                                               *)

\* A registered file and its row are never touched again, whatever the other requests, the
\* Janitor, a failure or a crash do, unless two actors have handled its File ID at the same
\* time.
RegisteredKept ==
    [][\A p \in Places : db[p] # None /\ p[2] \notin raced => fs'[p] = fs[p] /\ db'[p] = db[p]]_vars

\* Only the steps of postFileRecepHandling touch files and rows.
LEMMA OnlyArchiving ==
    ASSUME BaseInv, Next, \A a \in Actors : ~ArchiveStep(a)
    PROVE  fs' = fs /\ db' = db
  <1>1. CASE \E r \in Requests : Start(r) \/ Outer(r)
    BY <1>1, StartEffect, OuterEffect
  <1>2. CASE JanitorScan \/ JanitorRemove \/ \E r \in Requests : JanitorTake(r)
    BY <1>2 DEF JanitorScan, JanitorRemove, JanitorTake
  <1>3. CASE Crash
    BY <1>3 DEF Crash
  <1>4. QED BY <1>1, <1>2, <1>3, NextCases

\* A file that is archived stays as it is for ever, for every instance without overwriting:
\* no step of any actor changes or removes a registered file or its row.
THEOREM RegisteredFilesKept == ASSUME ~Overwrites PROVE Spec => RegisteredKept
  <1> DEFINE Kept == \A p \in Places : db[p] # None /\ p[2] \notin raced => fs'[p] = fs[p] /\ db'[p] = db[p]
  <1>1. IndInv /\ [Next]_vars => [Kept]_vars
    <2> SUFFICES ASSUME IndInv, Next PROVE Kept
      OBVIOUS
    <2>1. CASE \E a \in Actors : ArchiveStep(a)
      BY <2>1, RowsStay
    <2>2. CASE \A a \in Actors : ~ArchiveStep(a)
      BY <2>2, OnlyArchiving DEF IndInv
    <2>3. QED BY <2>1, <2>2
  <1>2. QED BY <1>1, IndInit, IndStep, PTL DEF Spec, RegisteredKept

-----------------------------------------------------------------------------
(* The row of the previous version, with and without overwriting.          *)

\* There is a row of version v of File ID f.
HasRow(f, v) == \E p \in Rows(f) : p[3] = v

\* The versions of a File ID have no gap.
NoGap == \A f \in FileIds, v \in Versions : v > 1 /\ HasRow(f, v) => HasRow(f, v - 1)

\* The checksum is known from the check on.
Summed == \A a \in Actors : pc[a] \in Registered \cup {"write"} => job[a].sum # None

\* The version a request overwrites has a row from its validation on, also when the
\* Janitor takes the request over.
Validated == (Handling \ {"validate"}) \cup {"bl_data", "bl_req", "bl_done"}
OverwrittenKnown ==
    /\ \A r \in Requests :
          job[r].over /\ job[r].want # 0 /\ (pc[r] \in Validated \/ "pickle" \in backlog[r])
             => HasRow(job[r].file, job[r].want)
    /\ \A r \in Requests : pc[r] = "validate" /\ job[r].want # 0 => job[r].ver = job[r].want
    /\ \A r \in Requests : pc[r] = "validate" /\ job[r].want = 0 =>
                              job[r].ver = 1 \/ HasRow(job[r].file, job[r].ver)
    /\ pc[Janitor] = "dapi" /\ job[Janitor].over /\ job[Janitor].want # 0
          => HasRow(job[Janitor].file, job[Janitor].want)

\* The inductive invariant behind PreviousVersionKnown.
VersionInv ==
    /\ BaseInv /\ NoGap /\ Summed /\ OverwrittenKnown
    /\ \A a \in Actors : pc[a] \in Handling \ {"validate"} => PreviousKnown(a)

\* A row of ngas_files is only ever replaced by one of the same File ID and version.
LEMMA RowStep ==
    ASSUME VersionInv, NEW a \in Actors, ArchiveStep(a)
    PROVE  \/ db' = db
           \/ /\ pc[a] \in {"write", "rep_write"}
              /\ \E old \in Places, new \in Places :
                    /\ old[2] = job[a].file /\ old[3] = job[a].ver
                    /\ new[2] = job[a].file /\ new[3] = job[a].ver
                    /\ db' = [db EXCEPT ![old] = None, ![new] = job[a].sum]
  <1> USE DEF Goto, bufferVars, diskVars
  <1>1. BaseInv
    BY DEF VersionInv
  <1>2. ASSUME pc[a] \in {"write", "rep_write"}
        PROVE  /\ MainPlace(a) \in Places /\ RepPlace(a) \in Places /\ OldPlace(a) \in Places
               /\ MainPlace(a)[2] = job[a].file /\ MainPlace(a)[3] = job[a].ver
               /\ RepPlace(a)[2] = job[a].file /\ RepPlace(a)[3] = job[a].ver
               /\ OldPlace(a)[2] = job[a].file /\ OldPlace(a)[3] = job[a].ver
    <2>1. /\ job[a].set \in Sets /\ job[a].file \in FileIds /\ job[a].ver \in Versions
          /\ job[a].prev \in Volumes \cup {None}
      BY <1>1, <1>2, JobOf DEF BaseInv, Prepared, TypeOK, Jobs, Handling
    <2>2. QED BY <2>1, PlacesOf DEF OldPlace, MainPlace, Place
  <1>3. CASE Write(a)
    BY <1>2, <1>3 DEF Write, WriteEntry
  <1>4. CASE RepWrite(a)
    BY <1>2, <1>4 DEF RepWrite, WriteEntry
  <1>5. CASE ~Write(a) /\ ~RepWrite(a)
    BY <1>5 DEF ArchiveStep, Dapi, Validate, Move, Check, CheckEntry, Count, Replicate, RepCheck,
       RepRead, RepCount, RemovePrev, SpaceRead, SpaceWrite
  <1>6. QED BY <1>3, <1>4, <1>5

\* Once a version has a row it keeps one, and only the actor that writes it adds one.
LEMMA RowsRemain ==
    ASSUME VersionInv, NEW a \in Actors, ArchiveStep(a), NEW f, NEW v
    PROVE  /\ HasRow(f, v) => HasRow(f, v)'
           /\ HasRow(f, v)' => \/ HasRow(f, v)
                               \/ pc[a] \in {"write", "rep_write"} /\ f = job[a].file /\ v = job[a].ver
  <1>1. CASE db' = db
    BY <1>1 DEF HasRow, Rows
  <1>2. CASE db' # db
    <2>1. PICK old \in Places, new \in Places :
             /\ pc[a] \in {"write", "rep_write"}
             /\ old[2] = job[a].file /\ old[3] = job[a].ver
             /\ new[2] = job[a].file /\ new[3] = job[a].ver
             /\ db' = [db EXCEPT ![old] = None, ![new] = job[a].sum]
      BY <1>2, RowStep
    <2>2. job[a].sum # None /\ db \in [Places -> Requests \cup {None}]
      BY <2>1 DEF VersionInv, Summed, BaseInv, TypeOK, Registered, Moved, Handling
    <2>3. db'[new] # None /\ \A p \in Places : p # old /\ p # new => db'[p] = db[p]
      BY <2>1, <2>2
    <2>4. HasRow(f, v) => HasRow(f, v)'
      BY <2>1, <2>3 DEF HasRow, Rows
    <2>5. HasRow(f, v)' => \/ HasRow(f, v)
                           \/ f = job[a].file /\ v = job[a].ver
      BY <2>1, <2>3 DEF HasRow, Rows
    <2>6. QED BY <2>1, <2>4, <2>5
  <1>3. QED BY <1>1, <1>2

\* updateFileInfoDb leaves a checksum behind.
LEMMA SummedStep ==
    ASSUME VersionInv, NEW a \in Actors, ArchiveStep(a)
    PROVE  Summed'
  <1> USE DEF Goto, bufferVars, diskVars
  <1>0. /\ BaseInv /\ Summed /\ StepFrame(a) /\ Outcome(a) /\ DOMAIN pc = Actors /\ None \notin Requests
    BY FrameStep, StepOutcome, ActorsAssumption DEF VersionInv, BaseInv, TypeOK
  <1>1. ASSUME pc'[a] \in Registered \cup {"write"} PROVE job'[a].sum # None
    <2>0. ~Abort(a) /\ pc[a] \notin {"new", "done", "idle"}
      BY <1>0, <1>1 DEF Abort, Outcome, Registered, Moved, Handling
    <2>1. job[a].content \in Requests
      BY <1>0, <2>0, JobOf
    <2>2. CASE Check(a)
      <3>u. PICK u : u = (db[OldPlace(a)] # None)
        OBVIOUS
      <3>1. /\ job'[a] = [job[a] EXCEPT !.update = u, !.sum = CheckedSum(a, MainPlace(a))]
            /\ fs[MainPlace(a)] # None
        BY <1>0, <2>0, <2>2, <3>u, CheckEffect
      <3>2. job'[a].sum = CheckedSum(a, MainPlace(a))
        BY <1>0, <3>1 DEF BaseInv, TypeOK, Jobs
      <3>3. QED BY <1>0, <2>1, <3>1, <3>2 DEF CheckedSum
    <2>3. CASE RepCheck(a)
      <3>u. PICK u : u = (db[RepPlace(a)] # None)
        OBVIOUS
      <3>1. /\ job'[a] = [job[a] EXCEPT !.update = u, !.sum = CheckedSum(a, RepPlace(a))]
            /\ fs[RepPlace(a)] # None
        BY <1>0, <2>0, <2>3, <3>u, RepCheckEffect
      <3>2. job'[a].sum = CheckedSum(a, RepPlace(a))
        BY <1>0, <3>1 DEF BaseInv, TypeOK, Jobs
      <3>3. QED BY <1>0, <2>1, <3>1, <3>2 DEF CheckedSum
    <2>4. CASE ~Check(a) /\ ~RepCheck(a)
      <3>1. pc[a] \in Registered \cup {"write"} /\ pc[a] # "rep_check"
        BY <1>0, <1>1, <2>0, <2>4 DEF ArchiveStep, Dapi, Validate, Move, Write, WriteEntry, Count, Replicate,
           RepWrite, RepRead, RepCount, RemovePrev, SpaceRead, SpaceWrite, Registered, Moved, Handling
      <3>2. job'[a].sum = job[a].sum
        BY <1>0, <3>1 DEF StepFrame, Registered, Moved
      <3>3. QED BY <1>0, <3>1, <3>2 DEF Summed
    <2>5. QED BY <2>2, <2>3, <2>4
  <1>2. \A b \in Actors : b # a => pc'[b] = pc[b] /\ job'[b] = job[b]
    BY <1>0 DEF StepFrame
  <1>3. QED BY <1>0, <1>1, <1>2 DEF Summed

\* The version the DAPI and the validation choose has its predecessor.
LEMMA ChosenVersion ==
    ASSUME VersionInv, NEW a \in Actors, ArchiveStep(a),
           pc[a] \in {"dapi", "validate"}, pc'[a] = "move"
    PROVE  job'[a].ver > 1 => HasRow(job[a].file, job'[a].ver - 1)
  <1> USE DEF Goto, bufferVars, diskVars
  <1>0. /\ BaseInv /\ NoGap /\ OverwrittenKnown /\ StepFrame(a) /\ DOMAIN pc = Actors
        /\ job[a].file \in FileIds /\ job[a].ver \in Nat
    <2>1. BaseInv
      BY DEF VersionInv
    <2>2. QED BY <2>1, FrameStep, JobOf DEF VersionInv, BaseInv, TypeOK, Jobs
  <1>1. ~Abort(a)
    BY <1>0 DEF Abort
  <1>2. CASE pc[a] = "dapi"
    <2>1. Dapi(a)
      BY <1>2 DEF ArchiveStep, Dapi, Validate, Move, Check, Write, Count, Replicate, RepCheck,
         RepWrite, RepRead, RepCount, RemovePrev, SpaceRead, SpaceWrite
    <2>2. /\ FileVersion(job[a]) \in Versions /\ ~(job[a].over /\ a # Janitor)
          /\ job'[a].ver = FileVersion(job[a])
      <3>1. FileVersion(job[a]) \in Versions /\ ~(job[a].over /\ a # Janitor)
        BY <1>0, <1>1, <2>1 DEF Dapi
      <3>2. PICK v, e : v = FileVersion(job[a]) /\ job' = [job EXCEPT ![a].ver = v, ![a].exists = e]
        BY <1>1, <2>1 DEF Dapi
      <3>3. job \in [Actors -> Jobs]
        BY <1>0 DEF BaseInv, TypeOK
      <3>4. QED BY <3>1, <3>2, <3>3 DEF Jobs
    <2>3. CASE job[a].over /\ job[a].want # 0
      <3>1. FileVersion(job[a]) = job[a].want /\ a = Janitor
        BY <2>2, <2>3 DEF FileVersion
      <3>2. HasRow(job[a].file, job[a].want)
        BY <1>0, <1>2, <2>3, <3>1 DEF OverwrittenKnown
      <3>3. QED BY <1>0, <2>2, <3>1, <3>2 DEF NoGap
    <2>4. CASE ~(job[a].over /\ job[a].want # 0)
      <3>l. PICK l : l = LatestVersion(job[a].file)
        OBVIOUS
      <3>1. l \in Nat /\ (l # 0 => HasRow(job[a].file, l))
        BY <3>l, LatestIsLast DEF HasRow
      <3>2. CASE FileVersion(job[a]) = l + 1
        BY <2>2, <3>1, <3>2
      <3>3. CASE FileVersion(job[a]) = l /\ l # 0
        BY <1>0, <2>2, <3>1, <3>3 DEF NoGap
      <3>4. QED BY <2>4, <3>2, <3>3, <3>l DEF FileVersion
    <2>5. QED BY <2>3, <2>4
  <1>3. CASE pc[a] = "validate"
    <2>1. Validate(a)
      BY <1>3 DEF ArchiveStep, Dapi, Validate, Move, Check, Write, Count, Replicate, RepCheck,
         RepWrite, RepRead, RepCount, RemovePrev, SpaceRead, SpaceWrite
    <2>2. PICK p \in Rows(job[a].file) : job[a].want # 0 => p[3] = job[a].want
      BY <1>1, <2>1, ValidateEffect
    <2>3. a \in Requests
      BY <1>0, <1>3, ActorsAssumption DEF BaseInv, TypeOK, JanitorLabels, Handling, Actors
    <2>4. job[a].ver \in Versions /\ job'[a].ver = job[a].ver
      BY <1>0, <1>3 DEF BaseInv, Prepared, Handling, StepFrame
    <2>5. job[a].ver = 1 \/ HasRow(job[a].file, job[a].ver)
      BY <1>0, <1>3, <2>2, <2>3 DEF HasRow, OverwrittenKnown
    <2>6. QED BY <1>0, <2>4, <2>5 DEF NoGap
  <1>4. QED BY <1>2, <1>3

\* A step of postFileRecepHandling preserves the invariant.
LEMMA VersionArchive ==
    ASSUME VersionInv, NEW a \in Actors, ArchiveStep(a)
    PROVE  VersionInv'
  <1> USE DEF Goto, bufferVars, diskVars
  <1>0. /\ BaseInv /\ BaseInv' /\ NoGap /\ OverwrittenKnown /\ StepFrame(a) /\ Outcome(a)
        /\ DOMAIN pc = Actors /\ Actors = Requests \cup {Janitor} /\ Janitor \notin Requests
    <2>1. BaseInv
      BY DEF VersionInv
    <2>2. QED BY <2>1, FrameStep, StepOutcome, ArchiveBase, ActorsAssumption DEF VersionInv, BaseInv, TypeOK, Actors
  <1>s. pc[a] \in {"space", "space_write"} => pc'[a] \in Late
    BY <1>0 DEF ArchiveStep, Dapi, Validate, Move, Check, Write, Count, Replicate, RepCheck,
       RepWrite, RepRead, RepCount, RemovePrev, SpaceRead, SpaceWrite, Late
  <1>1. Summed'
    BY SummedStep
  <1>2. \A b \in Actors : b # a => pc'[b] = pc[b] /\ job'[b] = job[b]
    BY <1>0 DEF StepFrame
  <1>3. ASSUME NEW b \in Actors, pc'[b] \in Handling \ {"validate"} PROVE PreviousKnown(b)'
    <2> SUFFICES ASSUME job'[b].ver > 1 PROVE HasRow(job[b].file, job[b].ver - 1)'
      BY DEF PreviousKnown, HasRow
    <2>f. PICK f, v : f = job'[b].file /\ v = job'[b].ver - 1
      OBVIOUS
    <2>1. CASE b = a /\ pc[a] \in {"dapi", "validate"}
      <3>1. pc'[a] = "move"
        BY <1>0, <1>3, <2>1 DEF ArchiveStep, Dapi, Validate, Move, Check, Write, Count, Replicate, RepCheck,
           RepWrite, RepRead, RepCount, RemovePrev, SpaceRead, SpaceWrite, Abort, Handling
      <3>2. job'[a].file = job[a].file
        BY <1>0 DEF StepFrame
      <3>3. HasRow(f, v)
        BY <2>1, <2>f, <3>1, <3>2, ChosenVersion
      <3>4. QED BY <2>f, <3>3, RowsRemain DEF HasRow, Rows
    <2>2. CASE b # a \/ pc[a] \notin {"dapi", "validate"}
      <3>1. /\ job'[b].file = job[b].file /\ job'[b].ver = job[b].ver
            /\ pc[b] \in Handling \ {"validate"}
        BY <1>0, <1>2, <1>3, <1>s, <2>2 DEF StepFrame, Outcome, Handling, Late
      <3>2. HasRow(f, v)
        BY <2>f, <3>1 DEF VersionInv, PreviousKnown, HasRow
      <3>3. QED BY <2>f, <3>2, RowsRemain DEF HasRow, Rows
    <2>3. QED BY <2>1, <2>2
  <1>4. NoGap'
    <2> SUFFICES ASSUME NEW f \in FileIds, NEW v \in Versions, v > 1, HasRow(f, v)'
                 PROVE  HasRow(f, v - 1)'
      BY DEF NoGap
    <2>1. CASE HasRow(f, v)
      BY <1>0, <2>1, RowsRemain DEF NoGap
    <2>2. CASE pc[a] \in {"write", "rep_write"} /\ f = job[a].file /\ v = job[a].ver
      <3>1. HasRow(f, v - 1)
        BY <2>2 DEF VersionInv, PreviousKnown, HasRow, Handling
      <3>2. QED BY <3>1, RowsRemain
    <2>3. QED BY <2>1, <2>2, RowsRemain
  <1>5. \A r \in Requests : pc'[r] = "validate" /\ job'[r].want # 0 => job'[r].ver = job'[r].want
    <2> SUFFICES ASSUME NEW r \in Requests, pc'[r] = "validate", job'[r].want # 0
                 PROVE  job'[r].ver = job'[r].want
      OBVIOUS
    <2>1. CASE r # a
      BY <1>0, <1>2, <2>1 DEF OverwrittenKnown
    <2>2. CASE r = a
      <3>1. pc[a] = "dapi" /\ job[a].over /\ job'[a].want = job[a].want
        BY <1>0, <2>2 DEF Outcome, StepFrame
      <3>2. Dapi(a) /\ ~Abort(a)
        BY <1>0, <2>2, <3>1 DEF ArchiveStep, Dapi, Validate, Move, Check, Write, Count, Replicate, RepCheck,
           RepWrite, RepRead, RepCount, RemovePrev, SpaceRead, SpaceWrite, Abort
      <3>3. PICK v, e : v = FileVersion(job[a]) /\ job' = [job EXCEPT ![a].ver = v, ![a].exists = e]
        BY <3>2 DEF Dapi
      <3>4. job'[a].ver = v
        BY <1>0, <3>3 DEF BaseInv, TypeOK, Jobs
      <3>5. QED BY <2>2, <3>1, <3>3, <3>4 DEF FileVersion
    <2>3. QED BY <2>1, <2>2
  <1>6. ASSUME NEW r \in Requests, job'[r].over, job'[r].want # 0, pc'[r] \in Validated \/ "pickle" \in backlog'[r]
        PROVE  HasRow(job[r].file, job[r].want)'
    <2>f. PICK f, w : f = job'[r].file /\ w = job'[r].want
      OBVIOUS
    <2>1. job'[r].file = job[r].file /\ job'[r].want = job[r].want /\ job'[r].over = job[r].over
      BY <1>0, <1>2 DEF StepFrame
    <2>2. HasRow(f, w)
      <3>1. CASE pc[r] \in Validated \/ "pickle" \in backlog[r]
        BY <1>0, <1>6, <2>1, <2>f, <3>1 DEF OverwrittenKnown
      <3>2. CASE pc[r] \notin Validated /\ "pickle" \notin backlog[r]
        <4>1. "pickle" \notin backlog'[r]
          <5>1. CASE backlog' = backlog
            BY <3>2, <5>1
          <5>2. CASE Abort(a) /\ a = Janitor
            BY <1>0, <3>2, <5>2 DEF Abort, BaseInv, TypeOK
          <5>3. CASE Abort(a) /\ a # Janitor
            BY <1>0, <3>2, <5>3 DEF Abort
          <5>4. QED BY <1>0, <5>1, <5>2, <5>3 DEF Outcome
        <4>2. r = a /\ pc'[a] \in Validated
          BY <1>0, <1>2, <1>6, <3>2, <4>1
        <4>3. pc[a] \in {"dapi", "validate"}
          BY <1>0, <1>s, <3>2, <4>2 DEF Outcome, Validated, Handling, Late
        <4>4. pc[a] = "validate" /\ pc'[a] = "move" /\ job[a].over
          BY <1>0, <1>6, <2>1, <4>2, <4>3 DEF ArchiveStep, Dapi, Validate, Move, Check, Write, Count, Replicate,
             RepCheck, RepWrite, RepRead, RepCount, RemovePrev, SpaceRead, SpaceWrite, Abort, Validated, Handling
        <4>5. Validate(a) /\ ~Abort(a)
          BY <1>0, <4>4 DEF ArchiveStep, Dapi, Validate, Move, Check, Write, Count, Replicate, RepCheck,
             RepWrite, RepRead, RepCount, RemovePrev, SpaceRead, SpaceWrite, Abort
        <4>6. PICK p \in Rows(job[a].file) : job[a].want # 0 => p[3] = job[a].want
          BY <4>5, ValidateEffect
        <4>9. HasRow(job[a].file, job[a].want)
          BY <1>6, <2>1, <4>2, <4>6 DEF HasRow
        <4>10. job[a].file = f /\ job[a].want = w
          BY <2>1, <2>f, <4>2
        <4>11. QED BY <4>9, <4>10
      <3>3. QED BY <3>1, <3>2
    <2>3. QED BY <2>2, <2>f, RowsRemain DEF HasRow, Rows
  <1>7. pc'[Janitor] # "dapi" \/ a # Janitor
    BY <1>0 DEF Outcome
  <1>8. ASSUME pc'[Janitor] = "dapi", job'[Janitor].over, job'[Janitor].want # 0
        PROVE  HasRow(job[Janitor].file, job[Janitor].want)'
    <2>f. PICK f, w : f = job'[Janitor].file /\ w = job'[Janitor].want
      OBVIOUS
    <2>1. HasRow(f, w)
      BY <1>0, <1>2, <1>7, <1>8, <2>f DEF OverwrittenKnown
    <2>2. QED BY <2>1, <2>f, RowsRemain DEF HasRow, Rows
  <1>v. ASSUME NEW r \in Requests, pc'[r] = "validate", job'[r].want = 0
        PROVE  job'[r].ver = 1 \/ HasRow(job[r].file, job[r].ver)'
    <2>f. PICK f, v : f = job'[r].file /\ v = job'[r].ver
      OBVIOUS
    <2>1. v = 1 \/ HasRow(f, v)
      <3>1. CASE r # a
        BY <1>0, <1>2, <1>v, <2>f, <3>1 DEF OverwrittenKnown
      <3>2. CASE r = a
        <4>1. pc[a] = "dapi" /\ job[a].over /\ job'[a].want = job[a].want /\ job'[a].file = job[a].file
          BY <1>0, <1>v, <3>2 DEF Outcome, StepFrame
        <4>2. Dapi(a) /\ ~Abort(a)
          BY <1>0, <1>v, <3>2, <4>1 DEF ArchiveStep, Dapi, Validate, Move, Check, Write, Count, Replicate, RepCheck,
             RepWrite, RepRead, RepCount, RemovePrev, SpaceRead, SpaceWrite, Abort
        <4>3. PICK x, e : x = FileVersion(job[a]) /\ job' = [job EXCEPT ![a].ver = x, ![a].exists = e]
          BY <4>2 DEF Dapi
        <4>4. job'[a].ver = x
          BY <1>0, <4>3 DEF BaseInv, TypeOK, Jobs
        <4>l. PICK l : l = LatestVersion(job[a].file)
          OBVIOUS
        <4>5. l \in Nat /\ (l # 0 => HasRow(job[a].file, l))
          BY <4>l, LatestIsLast DEF HasRow
        <4>6. x = IF l # 0 THEN l ELSE l + 1
          BY <1>v, <3>2, <4>1, <4>3, <4>l DEF FileVersion
        <4>7. QED BY <2>f, <3>2, <4>1, <4>4, <4>5, <4>6
      <3>3. QED BY <3>1, <3>2
    <2>2. QED BY <2>1, <2>f, RowsRemain DEF HasRow, Rows
  <1>9. OverwrittenKnown'
    BY <1>5, <1>6, <1>8, <1>v DEF OverwrittenKnown, HasRow, Rows
  <1>10. QED BY <1>0, <1>1, <1>3, <1>4, <1>9 DEF VersionInv

\* The steps that leave the rows alone and hand no version on.
LEMMA VersionQuiet ==
    ASSUME VersionInv, BaseInv', db' = db,
           \A b \in Actors : pc'[b] \in Handling => pc'[b] = pc[b] /\ job'[b] = job[b],
           \A r \in Requests : pc'[r] \in Validated => pc[r] \in Validated /\ job'[r] = job[r],
           \A r \in Requests : "pickle" \in backlog'[r] =>
              job'[r] = job[r] /\ ("pickle" \in backlog[r] \/ pc[r] \in Validated),
           pc'[Janitor] = "dapi" =>
              \/ pc[Janitor] = "dapi" /\ job'[Janitor] = job[Janitor]
              \/ ~job'[Janitor].over
              \/ \E r \in Requests : /\ job'[Janitor].file = job[r].file /\ job'[Janitor].want = job[r].want
                                     /\ job[r].over /\ "pickle" \in backlog[r]
    PROVE  VersionInv'
  <1>0. \A f, v : HasRow(f, v)' <=> HasRow(f, v)
    BY DEF HasRow, Rows
  <1>1. NoGap'
    BY <1>0 DEF VersionInv, NoGap
  <1>2. Summed'
    BY DEF VersionInv, Summed, Registered, Moved, Handling
  <1>3. \A b \in Actors : pc'[b] \in Handling \ {"validate"} => PreviousKnown(b)'
    BY DEF VersionInv, PreviousKnown, Rows
  <1>4. \A r \in Requests : r \in Actors
    BY DEF Actors
  <1>5. ASSUME NEW r \in Requests, job'[r].over, job'[r].want # 0, pc'[r] \in Validated \/ "pickle" \in backlog'[r]
        PROVE  HasRow(job[r].file, job[r].want)'
    <2>1. job'[r] = job[r] /\ (pc[r] \in Validated \/ "pickle" \in backlog[r])
      BY <1>5
    <2>2. HasRow(job[r].file, job[r].want)
      BY <1>5, <2>1 DEF VersionInv, OverwrittenKnown
    <2>3. QED BY <2>1, <2>2 DEF HasRow, Rows
  <1>6. \A r \in Requests : pc'[r] = "validate" /\ job'[r].want # 0 => job'[r].ver = job'[r].want
    BY <1>4 DEF VersionInv, OverwrittenKnown, Handling
  <1>7. ASSUME pc'[Janitor] = "dapi", job'[Janitor].over, job'[Janitor].want # 0
        PROVE  HasRow(job[Janitor].file, job[Janitor].want)'
    <2>f. PICK f, w : f = job'[Janitor].file /\ w = job'[Janitor].want
      OBVIOUS
    <2>1. HasRow(f, w)
      BY <1>7, <2>f DEF VersionInv, OverwrittenKnown
    <2>2. QED BY <2>1, <2>f DEF HasRow, Rows
  <1>v. ASSUME NEW r \in Requests, pc'[r] = "validate", job'[r].want = 0
        PROVE  job'[r].ver = 1 \/ HasRow(job[r].file, job[r].ver)'
    <2>1. pc'[r] = pc[r] /\ job'[r] = job[r]
      BY <1>4, <1>v DEF Handling
    <2>2. job[r].ver = 1 \/ HasRow(job[r].file, job[r].ver)
      BY <1>v, <2>1 DEF VersionInv, OverwrittenKnown
    <2>3. QED BY <2>1, <2>2 DEF HasRow, Rows
  <1>8. OverwrittenKnown'
    BY <1>5, <1>6, <1>7, <1>v DEF OverwrittenKnown, HasRow, Rows
  <1>9. QED BY <1>1, <1>2, <1>3, <1>8 DEF VersionInv

\* The other steps preserve the invariant.
LEMMA VersionOthers ==
    ASSUME VersionInv, Next, \A a \in Actors : ~ArchiveStep(a)
    PROVE  VersionInv'
  <1>0. /\ BaseInv /\ BaseInv' /\ TypeOK /\ RequestsKnown /\ db' = db
        /\ Janitor \notin Requests /\ Actors = Requests \cup {Janitor} /\ None \notin Requests
    <2>1. BaseInv
      BY DEF VersionInv
    <2>2. BaseInv'
      BY <2>1, BaseStep
    <2>3. QED BY <2>1, <2>2, OnlyArchiving, ActorsAssumption DEF BaseInv, Actors
  <1> USE DEF Goto, bufferVars, Handling, Validated
  <1>1. ASSUME NEW r \in Requests, Start(r) PROVE VersionInv'
    <2>1. /\ pc[r] = "new" /\ job[r].content = None /\ backlog[r] = {} /\ backlog' = backlog
      BY <1>0, <1>1, StartEffect DEF RequestsKnown, Known
    <2>2. \E j, l : /\ job' = [job EXCEPT ![r] = j] /\ pc' = [pc EXCEPT ![r] = l]
                    /\ l \in {"receive", "done"}
      <3>1. CASE Started(r)
        BY <3>1 DEF Started
      <3>2. CASE job' = job /\ pc' = [pc EXCEPT ![r] = "done"]
        <4>1. job' = [job EXCEPT ![r] = job[r]]
          BY <1>0, <3>2 DEF TypeOK
        <4>2. QED BY <3>2, <4>1
      <3>3. QED BY <1>0, <1>1, <3>1, <3>2, StartEffect
    <2>3. /\ \A b \in Actors : b # r => pc'[b] = pc[b] /\ job'[b] = job[b]
          /\ pc'[r] \in {"receive", "done"}
      BY <1>0, <2>2 DEF TypeOK
    <2>4. QED BY <1>0, <2>1, <2>3, VersionQuiet
  <1>2. ASSUME NEW r \in Requests, Outer(r) PROVE VersionInv'
    <2>1. /\ \A b \in Actors : b # r => pc'[b] = pc[b]
          /\ job' = job
          /\ \/ pc'[r] \in {"dapi", "done"}
             \/ pc[r] \in {"bl_data", "bl_req"} /\ pc'[r] \in {"bl_req", "bl_done"}
      BY <1>0, <1>2, OuterEffect
    <2>2. \A q \in Requests : "pickle" \in backlog'[q] => "pickle" \in backlog[q] \/ pc[q] \in Validated
      BY <1>0, <1>2 DEF Outer, Receive, Reply, BufferData, BufferRequest, BufferDone, BufferFails, Abort, TypeOK
    <2>3. QED BY <1>0, <2>1, <2>2, VersionQuiet
  <1>3. CASE JanitorScan
    <2>1. UNCHANGED <<pc, job, backlog>>
      BY <1>3 DEF JanitorScan
    <2>2. QED BY <1>0, <2>1, VersionQuiet
  <1>4. CASE JanitorRemove
    <2>1. /\ job' = job /\ backlog' = [backlog EXCEPT ![job[Janitor].content] = {}]
          /\ pc' = [pc EXCEPT ![Janitor] = "idle"]
      BY <1>4 DEF JanitorRemove
    <2>2. QED BY <1>0, <2>1, VersionQuiet DEF TypeOK
  <1>5. ASSUME NEW r \in Requests, JanitorTake(r) PROVE VersionInv'
    <2>1. CASE \E s \in TargetSets : job' = [job EXCEPT ![Janitor] = BufferedJob(r, s)] /\ backlog' = backlog
                                     /\ pc' = [pc EXCEPT ![Janitor] = "dapi"]
      <3>1. PICK s : job' = [job EXCEPT ![Janitor] = BufferedJob(r, s)]
        BY <2>1
      <3>2. /\ job'[Janitor] = BufferedJob(r, s) /\ backlog' = backlog /\ pc'[Janitor] = "dapi"
            /\ \A q \in Requests : job'[q] = job[q] /\ pc'[q] = pc[q]
        BY <1>0, <2>1, <3>1 DEF TypeOK
      <3>3. \/ ~BufferedJob(r, s).over
            \/ /\ BufferedJob(r, s).file = job[r].file /\ BufferedJob(r, s).want = job[r].want
               /\ job[r].over /\ "pickle" \in backlog[r]
        BY DEF BufferedJob, NewJob
      <3>4. QED BY <1>0, <3>2, <3>3, VersionQuiet
    <2>2. CASE pc' = pc /\ job' = job /\ (backlog' = backlog \/ backlog' = [backlog EXCEPT ![r] = {}])
      BY <1>0, <2>2, VersionQuiet DEF TypeOK
    <2>3. QED BY <1>5, <2>1, <2>2 DEF JanitorTake
  <1>6. CASE Crash
    <2>1. /\ pc'[Janitor] = "idle" /\ \A r \in Requests : pc'[r] \in {"new", "done", "dead"}
          /\ job' = job /\ backlog' = backlog
      BY <1>0, <1>6 DEF Crash
    <2>2. QED BY <1>0, <2>1, VersionQuiet
  <1>7. QED BY <1>1, <1>2, <1>3, <1>4, <1>5, <1>6, NextCases

\* updateFileInfoDb, which insists on the row of the previous version after the file was
\* moved in place, always finds it: for any number of requests, File IDs and faults, whatever
\* version a client asks to overwrite, when actors race for one File ID, and when the Janitor
\* takes over a request that was validated long before.
THEOREM PreviousVersionFound == Spec => []PreviousVersionKnown
  <1>1. Init => VersionInv
    <2> SUFFICES ASSUME Init PROVE VersionInv
      OBVIOUS
    <2>1. BaseInv /\ Actors = Requests \cup {Janitor} /\ Janitor \notin Requests
      BY BaseInit, ActorsAssumption DEF Actors
    <2>2. /\ \A a \in Actors : pc[a] \in {"new", "idle"}
          /\ \A r \in Requests : backlog[r] = {}
          /\ \A p \in Places : db[p] = None
      BY <2>1 DEF Init
    <2>3. QED BY <2>1, <2>2 DEF VersionInv, NoGap, Summed, OverwrittenKnown, HasRow, Rows, Validated,
         Registered, Moved, Handling
  <1>2. VersionInv /\ [Next]_vars => VersionInv'
    <2> SUFFICES ASSUME VersionInv, [Next]_vars PROVE VersionInv'
      OBVIOUS
    <2>1. CASE UNCHANGED vars
      <3>1. BaseInv'
        BY <2>1, BaseStep DEF VersionInv
      <3>2. UNCHANGED <<pc, job, db, backlog>>
        BY <2>1 DEF vars, bufferVars
      <3>3. QED BY <3>1, <3>2, VersionQuiet
    <2>2. CASE Next
      BY <2>2, VersionArchive, VersionOthers
    <2>3. QED BY <2>1, <2>2
  <1>3. VersionInv => PreviousVersionKnown
    BY DEF VersionInv, PreviousVersionKnown, Handling
  <1>4. QED BY <1>1, <1>2, <1>3, PTL DEF Spec

-----------------------------------------------------------------------------
(* number_of_files of a disk never exceeds the number of its rows, as long *)
(* as no client overwrites and no two actors handle one File ID.  Rows of  *)
(* ngas_disks are written back that were read long before; the argument is *)
(* that every number an actor holds leaves room for the files that are     *)
(* registered and not yet counted.                                         *)

\* The actors that have registered a file on the disk vol and not yet counted it.
Uncounted(vol) ==
    {a \in Actors : \/ vol = Main(job[a].set) /\ pc[a] = "count"
                    \/ vol = Rep(job[a].set) /\ pc[a] \in {"rep_read", "rep_count"}}

\* There is room for n files and the uncounted ones in the rows of the disk.
Fits(n, vol) == n + Cardinality(Uncounted(vol)) <= Cardinality(RowsOn(vol))

\* The steps before and after an actor has counted its file on the Main Disk.
BeforeCount == {"receive", "dapi", "validate", "move", "check", "write", "count"}
AfterCount == {"rep_copy", "rep_check", "rep_write", "rep_read", "rep_count", "rm_prev",
               "space", "space_write"}

\* The inductive invariant: every number of files that may still be written back fits.
CountInv ==
    raced = {} =>
        /\ \A vol \in Volumes : Fits(numFiles[vol], vol)
        /\ \A a \in Actors :
              /\ pc[a] \in BeforeCount => Fits(job[a].files, Main(job[a].set))
              /\ pc[a] \in AfterCount => Fits(job[a].files + 1, Main(job[a].set))
              /\ pc[a] \in {"rep_count", "space_write"} => Fits(job[a].repFiles, Rep(job[a].set))

-----------------------------------------------------------------------------
(* Room in the rows of a disk.                                             *)

\* There are finitely many disks.
LEMMA FiniteVolumes == ASSUME IsFiniteSet(Sets) PROVE IsFiniteSet(Volumes)
  <1>1. {"main", "rep"} = {"main"} \cup {"rep"}
    OBVIOUS
  <1>2. IsFiniteSet({"main"}) /\ IsFiniteSet({"rep"})
    BY FS_Singleton
  <1>3. IsFiniteSet({"main"} \cup {"rep"})
    BY <1>2, FS_Union
  <1>4. QED BY <1>1, <1>3, FS_Product DEF Volumes

\* There are finitely many places and actors.
LEMMA Finite ==
    ASSUME IsFiniteSet(Requests), IsFiniteSet(Files), IsFiniteSet(Sets)
    PROVE  IsFiniteSet(Places) /\ IsFiniteSet(Actors)
  <1>1. IsFiniteSet(Actors) /\ IsFiniteSet(FileIds)
    BY FS_Union, FS_Singleton DEF Actors, FileIds
  <1>3. IsFiniteSet(Volumes)
    BY FiniteVolumes
  <1>4. IsFiniteSet(Versions)
    BY FS_Interval, BoundsAssumption DEF Versions
  <1> DEFINE P == (Volumes \X FileIds) \X Versions
             f == [x \in P |-> <<x[1][1], x[1][2], x[2]>>]
  <1>5. IsFiniteSet(P)
    BY <1>1, <1>3, <1>4, FS_Product
  <1>6. f \in Surjection(P, Places)
    <2>1. f \in [P -> Places]
      BY DEF Places
    <2>2. ASSUME NEW p \in Places PROVE \E x \in P : f[x] = p
      <3>1. <<<<p[1], p[2]>>, p[3]>> \in P
        BY DEF Places
      <3>2. f[<<<<p[1], p[2]>>, p[3]>>] = <<p[1], p[2], p[3]>>
        BY <3>1
      <3>3. p = <<p[1], p[2], p[3]>>
        BY DEF Places
      <3>4. QED BY <3>1, <3>2, <3>3
    <2>3. QED BY <2>1, <2>2 DEF Surjection
  <1> HIDE DEF f, P
  <1>7. QED BY <1>1, <1>5, <1>6, FS_Surjection

\* The sets that are counted are finite, before and after a step.
LEMMA Countable ==
    ASSUME IsFiniteSet(Places), IsFiniteSet(Actors), NEW vol
    PROVE  /\ IsFiniteSet(RowsOn(vol)) /\ IsFiniteSet(RowsOn(vol)')
           /\ IsFiniteSet(Uncounted(vol)) /\ IsFiniteSet(Uncounted(vol)')
           /\ Cardinality(RowsOn(vol)) \in Nat /\ Cardinality(RowsOn(vol)') \in Nat
           /\ Cardinality(Uncounted(vol)) \in Nat /\ Cardinality(Uncounted(vol)') \in Nat
  <1>1. RowsOn(vol) \in SUBSET Places /\ RowsOn(vol)' \in SUBSET Places
    BY DEF RowsOn
  <1>2. Uncounted(vol) \in SUBSET Actors /\ Uncounted(vol)' \in SUBSET Actors
    BY DEF Uncounted
  <1>3. /\ IsFiniteSet(RowsOn(vol)) /\ IsFiniteSet(RowsOn(vol)')
        /\ IsFiniteSet(Uncounted(vol)) /\ IsFiniteSet(Uncounted(vol)')
    BY <1>1, <1>2, FS_Subset
  <1>4. QED BY <1>3, FS_CardinalityType

\* A number goes on fitting while nothing is registered.
LEMMA FitsKept ==
    ASSUME IsFiniteSet(Places), IsFiniteSet(Actors), NEW vol,
           RowsOn(vol)' = RowsOn(vol), Uncounted(vol)' \subseteq Uncounted(vol)
    PROVE  \A n \in Int : Fits(n, vol) => Fits(n, vol)'
  <1>1. Cardinality(Uncounted(vol)') <= Cardinality(Uncounted(vol))
    BY Countable, FS_Subset
  <1>2. QED BY <1>1, Countable DEF Fits

\* A number goes on fitting when an actor registers a file.
LEMMA FitsWritten ==
    ASSUME IsFiniteSet(Places), IsFiniteSet(Actors), NEW vol, NEW a \in Actors, NEW p,
           RowsOn(vol)' = RowsOn(vol) \cup {p}, p \notin RowsOn(vol),
           Uncounted(vol)' = Uncounted(vol) \cup {a}
    PROVE  \A n \in Int : Fits(n, vol) => Fits(n, vol)'
  <1>1. Cardinality(RowsOn(vol)') = Cardinality(RowsOn(vol)) + 1
    BY Countable, FS_AddElement
  <1>2. \/ Cardinality(Uncounted(vol)') = Cardinality(Uncounted(vol)) + 1
        \/ Cardinality(Uncounted(vol)') = Cardinality(Uncounted(vol))
    BY Countable, FS_AddElement
  <1>3. QED BY <1>1, <1>2, Countable DEF Fits

\* One more fits when an actor has counted its file.
LEMMA FitsCounted ==
    ASSUME IsFiniteSet(Places), IsFiniteSet(Actors), NEW vol, NEW a \in Uncounted(vol),
           RowsOn(vol)' = RowsOn(vol), Uncounted(vol)' = Uncounted(vol) \ {a}
    PROVE  \A n \in Int : Fits(n, vol) => Fits(n, vol)' /\ Fits(n + 1, vol)'
  <1>1. Cardinality(Uncounted(vol)') = Cardinality(Uncounted(vol)) - 1
    BY Countable, FS_RemoveElement
  <1>2. QED BY <1>1, Countable DEF Fits

-----------------------------------------------------------------------------
(* What the steps of postFileRecepHandling do to the counts.               *)

\* A row is written where there was none, and the actor has then to count it.
LEMMA WrittenRow ==
    ASSUME IndInv, NEW a \in Actors, ArchiveStep(a), raced = {}, pc'[a] \in {"count", "rep_read"}
    PROVE  /\ job' = job
           /\ \/ pc[a] = "write" /\ pc'[a] = "count" /\ db[MainPlace(a)] = None
                 /\ db' = [db EXCEPT ![MainPlace(a)] = job[a].content]
              \/ pc[a] = "rep_write" /\ pc'[a] = "rep_read" /\ db[RepPlace(a)] = None
                 /\ db' = [db EXCEPT ![RepPlace(a)] = job[a].content]
           /\ job[a].content \in Requests /\ MainPlace(a) \in Places /\ RepPlace(a) \in Places
  <1> USE DEF Goto, bufferVars, diskVars
  <1>0. /\ BaseInv /\ NewVersions /\ HandledAlone /\ Outcome(a) /\ DOMAIN pc = Actors
        /\ OldPlace(a) = MainPlace(a)
    BY StepOutcome DEF IndInv, BaseInv, TypeOK, NewVersions, OldPlace
  <1>1. ~Abort(a)
    BY <1>0 DEF Abort
  <1>2. \/ Write(a) /\ pc'[a] = "count"
        \/ RepWrite(a) /\ pc'[a] = "rep_read"
    BY <1>0, <1>1 DEF ArchiveStep, Dapi, Validate, Move, Check, CheckEntry, Write, WriteEntry, Count,
       Replicate, RepCheck, RepWrite, RepRead, RepCount, RemovePrev, SpaceRead, SpaceWrite
  <1>3. pc[a] \in {"write", "rep_write"} /\ Alone(a)
    BY <1>0, <1>2 DEF Write, RepWrite, HandledAlone, Handling
  <1>4. /\ job[a].content \in Requests /\ MainPlace(a) \in Places /\ RepPlace(a) \in Places
    BY <1>0, <1>3, JobOf, PlacesOf DEF BaseInv, Prepared, Handling
  <1>5. CASE Write(a) /\ pc'[a] = "count"
    <2>1. db[MainPlace(a)] = None /\ ~job[a].update /\ job[a].sum = job[a].content
      BY <1>3, <1>5 DEF Write, Alone
    <2>2. QED BY <1>0, <1>1, <1>4, <1>5, <2>1 DEF Write, WriteEntry
  <1>6. CASE RepWrite(a) /\ pc'[a] = "rep_read"
    <2>1. db[RepPlace(a)] = None /\ ~job[a].update /\ job[a].sum = job[a].content
      BY <1>3, <1>6 DEF RepWrite, Alone, NoReplicaYet, Registered, Moved, Handling
    <2>2. QED BY <1>0, <1>1, <1>4, <1>6, <2>1 DEF RepWrite, WriteEntry
  <1>7. QED BY <1>2, <1>5, <1>6

\* A step that registers nothing leaves the rows alone, and gives nobody more to count.
LEMMA NotWritten ==
    ASSUME IndInv, NEW a \in Actors, ArchiveStep(a), raced = {}, pc'[a] \notin {"count", "rep_read"}
    PROVE  /\ db' = db
           /\ pc'[a] = "rep_count" => pc[a] = "rep_read"
  <1> USE DEF Goto, bufferVars, diskVars
  <1>0. BaseInv /\ NewVersions /\ FileStep(a) /\ DOMAIN pc = Actors
    BY FilesOfStep DEF IndInv, BaseInv, TypeOK
  <1>1. db' = db
    BY <1>0 DEF FileStep
  <1>2. pc'[a] = "rep_count" => pc[a] = "rep_read"
    BY <1>0 DEF ArchiveStep, Dapi, Validate, Move, Check, CheckEntry, Write, WriteEntry, Count,
       Replicate, RepCheck, RepWrite, RepRead, RepCount, RemovePrev, SpaceRead, SpaceWrite, Abort
  <1>3. QED BY <1>1, <1>2

\* Every number that fits goes on fitting.
LEMMA RoomStays ==
    ASSUME IsFiniteSet(Places), IsFiniteSet(Actors), IndInv, NEW a \in Actors, ArchiveStep(a), raced = {},
           NEW vol \in Volumes
    PROVE  \A n \in Int : Fits(n, vol) => Fits(n, vol)'
  <1>0. /\ BaseInv /\ TypeOK /\ StepFrame(a) /\ None \notin Requests
        /\ \A b \in Actors : b # a => pc'[b] = pc[b] /\ job'[b] = job[b]
        /\ job'[a].set = job[a].set
    BY FrameStep, ActorsAssumption DEF IndInv, BaseInv, StepFrame
  <1>1. CASE pc'[a] \notin {"count", "rep_read"}
    <2>1. RowsOn(vol)' = RowsOn(vol)
      BY <1>1, NotWritten DEF RowsOn
    <2>2. Uncounted(vol)' \subseteq Uncounted(vol)
      BY <1>0, <1>1, NotWritten DEF Uncounted
    <2>3. QED BY <2>1, <2>2, FitsKept
  <1>2. CASE pc[a] = "write" /\ pc'[a] = "count"
    <2>p. PICK p : p = MainPlace(a)
      OBVIOUS
    <2>1. /\ db' = [db EXCEPT ![p] = job[a].content] /\ db[p] = None /\ job[a].content # None
          /\ p \in Places /\ p[1] = Main(job[a].set)
      BY <1>0, <1>2, <2>p, WrittenRow DEF MainPlace, Place
    <2>2. db'[p] # None /\ \A x \in Places : x # p => db'[x] = db[x]
      BY <1>0, <2>1 DEF TypeOK
    <2>3. CASE vol = Main(job[a].set)
      <3>1. RowsOn(vol)' = RowsOn(vol) \cup {p} /\ p \notin RowsOn(vol)
        BY <2>1, <2>2, <2>3 DEF RowsOn
      <3>2. Uncounted(vol)' = Uncounted(vol) \cup {a}
        BY <1>0, <1>2, <2>3 DEF Uncounted
      <3>3. QED BY <3>1, <3>2, FitsWritten
    <2>4. CASE vol # Main(job[a].set)
      <3>1. RowsOn(vol)' = RowsOn(vol)
        BY <2>1, <2>2, <2>4 DEF RowsOn
      <3>2. Uncounted(vol)' \subseteq Uncounted(vol)
        BY <1>0, <1>2, <2>4 DEF Uncounted
      <3>3. QED BY <3>1, <3>2, FitsKept
    <2>5. QED BY <2>3, <2>4
  <1>3. CASE pc[a] = "rep_write" /\ pc'[a] = "rep_read"
    <2>p. PICK p : p = RepPlace(a)
      OBVIOUS
    <2>1. /\ db' = [db EXCEPT ![p] = job[a].content] /\ db[p] = None /\ job[a].content # None
          /\ p \in Places /\ p[1] = Rep(job[a].set)
      BY <1>0, <1>3, <2>p, WrittenRow DEF RepPlace, Place
    <2>2. db'[p] # None /\ \A x \in Places : x # p => db'[x] = db[x]
      BY <1>0, <2>1 DEF TypeOK
    <2>3. CASE vol = Rep(job[a].set)
      <3>1. RowsOn(vol)' = RowsOn(vol) \cup {p} /\ p \notin RowsOn(vol)
        BY <2>1, <2>2, <2>3 DEF RowsOn
      <3>2. Uncounted(vol)' = Uncounted(vol) \cup {a}
        BY <1>0, <1>3, <2>3 DEF Uncounted
      <3>3. QED BY <3>1, <3>2, FitsWritten
    <2>4. CASE vol # Rep(job[a].set)
      <3>1. RowsOn(vol)' = RowsOn(vol)
        BY <2>1, <2>2, <2>4 DEF RowsOn
      <3>2. Uncounted(vol)' \subseteq Uncounted(vol)
        BY <1>0, <1>3, <2>4 DEF Uncounted
      <3>3. QED BY <3>1, <3>2, FitsKept
    <2>5. QED BY <2>3, <2>4
  <1>4. QED BY <1>1, <1>2, <1>3, WrittenRow

\* One more fits on the disk where an actor has just counted its file.
LEMMA RoomCounted ==
    ASSUME IsFiniteSet(Places), IsFiniteSet(Actors), IndInv, NEW a \in Actors, ArchiveStep(a), raced = {},
           NEW vol \in Volumes, a \in Uncounted(vol), a \notin Uncounted(vol)'
    PROVE  \A n \in Int : Fits(n, vol) => Fits(n, vol)' /\ Fits(n + 1, vol)'
  <1>0. /\ BaseInv /\ StepFrame(a)
        /\ \A b \in Actors : b # a => pc'[b] = pc[b] /\ job'[b] = job[b]
        /\ job'[a].set = job[a].set
    BY FrameStep DEF IndInv, StepFrame
  <1>1. pc'[a] \notin {"count", "rep_read"}
    BY <1>0, WrittenRow DEF Uncounted
  <1>2. RowsOn(vol)' = RowsOn(vol)
    BY <1>1, NotWritten DEF RowsOn
  <1>3. Uncounted(vol)' = Uncounted(vol) \ {a}
    BY <1>0 DEF Uncounted
  <1>4. QED BY <1>2, <1>3, FitsCounted

\* The numbers on the disks after a step.
LEMMA DiskCounts ==
    ASSUME IsFiniteSet(Places), IsFiniteSet(Actors), IndInv, CountInv, NEW a \in Actors, ArchiveStep(a),
           raced = {}, NEW vol \in Volumes
    PROVE  Fits(numFiles[vol], vol)'
  <1> USE DEF Goto, bufferVars, diskVars
  <1>0. /\ BaseInv /\ TypeOK /\ NewVersions /\ StepFrame(a) /\ Outcome(a) /\ DOMAIN pc = Actors
        /\ \A n \in Int : Fits(n, vol) => Fits(n, vol)'
        /\ numFiles[vol] \in Int /\ Fits(numFiles[vol], vol)
    BY FrameStep, StepOutcome, RoomStays DEF IndInv, BaseInv, TypeOK, CountInv
  <1>1. /\ pc[a] \notin {"new", "done", "idle"} /\ job[a].set \in Sets /\ job'[a].set = job[a].set
        /\ job[a].files \in Int /\ job[a].repFiles \in Int /\ job[a].prev = None
        /\ Main(job[a].set) \in Volumes /\ Rep(job[a].set) \in Volumes
        /\ Main(job[a].set) # Rep(job[a].set)
    <2>1. pc[a] \notin {"new", "done", "idle"}
      BY <1>0 DEF Outcome, Handling
    <2>2. job[a].set \in Sets
      BY <1>0, <2>1, JobOf
    <2>3. QED BY <1>0, <2>1, <2>2 DEF TypeOK, Jobs, NewVersions, Main, Rep, Volumes, StepFrame
  <1>k. PICK k : k = numFiles'[vol]
    OBVIOUS
  <1>2. ASSUME k \in Int, Fits(k, vol)' PROVE Fits(numFiles[vol], vol)'
    BY <1>2, <1>k DEF Fits
  <1>3. CASE numFiles' = numFiles
    BY <1>0, <1>2, <1>3, <1>k
  <1>4. CASE Count(a) /\ numFiles' # numFiles
    <2>1. /\ numFiles' = [numFiles EXCEPT ![Main(job[a].set)] = @ + 1]
          /\ pc[a] = "count" /\ pc'[a] \in {"rep_copy", "rm_prev"}
      BY <1>0, <1>1, <1>4 DEF Count
    <2>2. CASE vol = Main(job[a].set)
      <3>1. k = numFiles[vol] + 1
        BY <1>0, <1>k, <2>1, <2>2 DEF TypeOK
      <3>2. a \in Uncounted(vol) /\ a \notin Uncounted(vol)'
        BY <1>1, <2>1, <2>2 DEF Uncounted
      <3>3. Fits(k, vol)'
        BY <1>0, <3>1, <3>2, RoomCounted
      <3>4. QED BY <1>0, <1>2, <3>1, <3>3
    <2>3. CASE vol # Main(job[a].set)
      BY <1>0, <1>2, <1>k, <2>1, <2>3 DEF TypeOK
    <2>4. QED BY <2>2, <2>3
  <1>5. CASE RepCount(a) /\ numFiles' # numFiles
    <2>1. /\ numFiles' = [numFiles EXCEPT ![Rep(job[a].set)] = job[a].repFiles + (IF job[a].exists THEN 0 ELSE 1)]
          /\ pc[a] = "rep_count" /\ pc'[a] = "rm_prev"
      BY <1>0, <1>1, <1>5 DEF RepCount
    <2>2. CASE vol = Rep(job[a].set)
      <3>n. PICK n : n = job[a].repFiles
        OBVIOUS
      <3>1. k \in {n, n + 1} /\ n \in Int
        BY <1>0, <1>1, <1>k, <2>1, <2>2, <3>n DEF TypeOK
      <3>2. a \in Uncounted(vol) /\ a \notin Uncounted(vol)'
        BY <1>1, <2>1, <2>2 DEF Uncounted
      <3>3. Fits(n, vol)
        BY <2>1, <2>2, <3>n DEF CountInv
      <3>4. Fits(k, vol)'
        BY <3>1, <3>2, <3>3, RoomCounted
      <3>5. QED BY <1>2, <3>1, <3>4
    <2>3. CASE vol # Rep(job[a].set)
      BY <1>0, <1>2, <1>k, <2>1, <2>3 DEF TypeOK
    <2>4. QED BY <2>2, <2>3
  <1>6. CASE SpaceWrite(a) /\ numFiles' # numFiles
    <2>1. /\ pc[a] = "space_write"
          /\ k \in {numFiles[vol]} \cup (IF vol = Rep(job[a].set) THEN {job[a].repFiles} ELSE {})
                                   \cup (IF vol = Main(job[a].set) THEN {job[a].files + 1} ELSE {})
      BY <1>0, <1>1, <1>6, <1>k DEF SpaceWrite
    <2>2. CASE k = numFiles[vol]
      BY <1>0, <1>2, <2>2
    <2>3. CASE vol = Rep(job[a].set) /\ k = job[a].repFiles
      BY <1>0, <1>1, <1>2, <2>1, <2>3 DEF CountInv
    <2>4. CASE vol = Main(job[a].set) /\ k = job[a].files + 1
      BY <1>0, <1>1, <1>2, <2>1, <2>4 DEF CountInv, AfterCount
    <2>5. QED BY <2>1, <2>2, <2>3, <2>4
  <1>7. numFiles' = numFiles \/ Count(a) \/ RepCount(a) \/ SpaceWrite(a)
    BY DEF ArchiveStep, Dapi, Validate, Move, Check, CheckEntry, Write, WriteEntry,
       Replicate, RepCheck, RepWrite, RepRead, RemovePrev, SpaceRead
  <1>8. QED BY <1>3, <1>4, <1>5, <1>6, <1>7

\* The numbers an actor holds after a step of its own.
LEMMA HeldCounts ==
    ASSUME IsFiniteSet(Places), IsFiniteSet(Actors), IndInv, CountInv, NEW a \in Actors, ArchiveStep(a),
           raced = {}
    PROVE  /\ pc'[a] \in BeforeCount => Fits(job[a].files, Main(job[a].set))'
           /\ pc'[a] \in AfterCount => Fits(job[a].files + 1, Main(job[a].set))'
           /\ pc'[a] \in {"rep_count", "space_write"} => Fits(job[a].repFiles, Rep(job[a].set))'
  <1> USE DEF Goto, bufferVars, diskVars
  <1>0. /\ BaseInv /\ TypeOK /\ NewVersions /\ StepFrame(a) /\ Outcome(a) /\ DOMAIN pc = Actors
        /\ \A vol \in Volumes, n \in Int : Fits(n, vol) => Fits(n, vol)'
    BY FrameStep, StepOutcome, RoomStays DEF IndInv, BaseInv, TypeOK, CountInv
  <1>1. /\ pc[a] \notin {"new", "done", "idle"} /\ job[a].set \in Sets /\ job'[a].set = job[a].set
        /\ job[a].files \in Int /\ job[a].repFiles \in Int /\ job'[a].files = job[a].files
        /\ Main(job[a].set) \in Volumes /\ Rep(job[a].set) \in Volumes
        /\ Main(job[a].set) # Rep(job[a].set)
    <2>1. pc[a] \notin {"new", "done", "idle"}
      BY <1>0 DEF Outcome, Handling
    <2>2. job[a].set \in Sets
      BY <1>0, <2>1, JobOf
    <2>3. QED BY <1>0, <2>1, <2>2 DEF TypeOK, Jobs, Main, Rep, Volumes, StepFrame
  <1>n. PICK n, main, rep : n = job[a].files /\ main = Main(job[a].set) /\ rep = Rep(job[a].set)
    OBVIOUS
  <1>2. ASSUME pc'[a] \in BeforeCount PROVE Fits(job[a].files, Main(job[a].set))'
    <2>1. pc[a] \in BeforeCount
      BY <1>0, <1>2 DEF BeforeCount, Abort, ArchiveStep, Dapi, Validate, Move, Check, CheckEntry, Write, WriteEntry,
         Count, Replicate, RepCheck, RepWrite, RepRead, RepCount, RemovePrev, SpaceRead, SpaceWrite
    <2>2. Fits(n, main)
      BY <1>n, <2>1 DEF CountInv
    <2>3. Fits(n, main)'
      BY <1>0, <1>1, <1>n, <2>2
    <2>4. QED BY <1>1, <1>n, <2>3 DEF Fits
  <1>3. ASSUME pc'[a] \in AfterCount PROVE Fits(job[a].files + 1, Main(job[a].set))'
    <2>1. pc[a] \in AfterCount \cup {"count"}
      BY <1>0, <1>3 DEF AfterCount, Abort, ArchiveStep, Dapi, Validate, Move, Check, CheckEntry, Write, WriteEntry,
         Count, Replicate, RepCheck, RepWrite, RepRead, RepCount, RemovePrev, SpaceRead, SpaceWrite
    <2>2. CASE pc[a] \in AfterCount
      <3>1. Fits(n + 1, main)
        BY <1>n, <2>2 DEF CountInv
      <3>2. Fits(n + 1, main)'
        BY <1>0, <1>1, <1>n, <3>1
      <3>3. QED BY <1>1, <1>n, <3>2 DEF Fits
    <2>3. CASE pc[a] = "count"
      <3>1. Fits(n, main)
        BY <1>n, <2>3 DEF CountInv, BeforeCount
      <3>2. a \in Uncounted(main) /\ a \notin Uncounted(main)'
        BY <1>1, <1>3, <1>n, <2>3 DEF Uncounted, AfterCount
      <3>3. Fits(n + 1, main)'
        BY <1>1, <1>n, <3>1, <3>2, RoomCounted
      <3>4. QED BY <1>1, <1>n, <3>3 DEF Fits
    <2>4. QED BY <2>1, <2>2, <2>3
  <1>4. ASSUME pc'[a] \in {"rep_count", "space_write"} PROVE Fits(job[a].repFiles, Rep(job[a].set))'
    <2>1. RepRead(a) \/ SpaceRead(a)
      BY <1>0, <1>4 DEF Abort, ArchiveStep, Dapi, Validate, Move, Check, CheckEntry, Write, WriteEntry,
         Count, Replicate, RepCheck, RepWrite, RepRead, RepCount, RemovePrev, SpaceRead, SpaceWrite
    <2>m. PICK m : m = numFiles[rep]
      OBVIOUS
    <2>2. job'[a].repFiles = m
      <3>1. CASE RepRead(a)
        <4>1. PICK x : job' = [job EXCEPT ![a].repFiles = m, ![a].repFull = x]
          BY <1>n, <2>m, <3>1 DEF RepRead
        <4>2. QED BY <1>0, <4>1 DEF TypeOK, Jobs
      <3>2. CASE SpaceRead(a)
        BY <1>0, <1>n, <2>m, <3>2 DEF SpaceRead, TypeOK, Jobs
      <3>3. QED BY <2>1, <3>1, <3>2
    <2>3. Fits(m, rep) /\ m \in Int
      BY <1>0, <1>1, <1>n, <2>m DEF CountInv, TypeOK
    <2>4. Fits(m, rep)'
      BY <1>0, <1>1, <1>n, <2>3
    <2>5. QED BY <1>1, <1>n, <2>2, <2>4 DEF Fits
  <1>5. QED BY <1>2, <1>3, <1>4

\* A step of postFileRecepHandling preserves the invariant.
LEMMA CountArchive ==
    ASSUME IsFiniteSet(Places), IsFiniteSet(Actors), IndInv, CountInv, NEW a \in Actors, ArchiveStep(a)
    PROVE  CountInv'
  <1> SUFFICES ASSUME raced' = {} PROVE CountInv'
    BY DEF CountInv
  <1>0. /\ BaseInv /\ TypeOK /\ raced = {}
        /\ \A b \in Actors : b # a => pc'[b] = pc[b] /\ job'[b] = job[b]
    BY FrameStep, RacedStep DEF IndInv, BaseInv, StepFrame
  <1>1. ASSUME NEW b \in Actors, b # a
        PROVE  /\ pc'[b] \in BeforeCount => Fits(job[b].files, Main(job[b].set))'
               /\ pc'[b] \in AfterCount => Fits(job[b].files + 1, Main(job[b].set))'
               /\ pc'[b] \in {"rep_count", "space_write"} => Fits(job[b].repFiles, Rep(job[b].set))'
    <2> SUFFICES ASSUME pc'[b] \in BeforeCount \cup AfterCount
                 PROVE  /\ pc'[b] \in BeforeCount => Fits(job[b].files, Main(job[b].set))'
                        /\ pc'[b] \in AfterCount => Fits(job[b].files + 1, Main(job[b].set))'
                        /\ pc'[b] \in {"rep_count", "space_write"} => Fits(job[b].repFiles, Rep(job[b].set))'
      BY DEF AfterCount
    <2>n. PICK n, m, main, rep : /\ n = job[b].files /\ m = job[b].repFiles
                                 /\ main = Main(job[b].set) /\ rep = Rep(job[b].set)
      OBVIOUS
    <2>1. pc[b] \notin {"new", "done", "idle"} /\ pc'[b] = pc[b] /\ job'[b] = job[b]
      BY <1>0, <1>1 DEF BeforeCount, AfterCount
    <2>2. job[b].set \in Sets
      BY <1>0, <2>1, JobOf
    <2>3. n \in Int /\ n + 1 \in Int /\ m \in Int /\ main \in Volumes /\ rep \in Volumes
      BY <1>0, <2>2, <2>n DEF TypeOK, Jobs, Main, Rep, Volumes
    <2>4. /\ pc[b] \in BeforeCount => Fits(n, main)'
          /\ pc[b] \in AfterCount => Fits(n + 1, main)'
          /\ pc[b] \in {"rep_count", "space_write"} => Fits(m, rep)'
      BY <1>0, <2>3, <2>n, RoomStays DEF CountInv
    <2>5. QED BY <2>1, <2>4, <2>n DEF Fits
  <1>2. \A vol \in Volumes : Fits(numFiles[vol], vol)'
    BY <1>0, DiskCounts
  <1>3. QED BY <1>0, <1>1, <1>2, HeldCounts DEF CountInv

-----------------------------------------------------------------------------
(* The other steps, and the theorem.                                       *)

\* The steps that count nothing: an actor begins with the number on its disk, or goes on.
LEMMA CountQuiet ==
    ASSUME IsFiniteSet(Places), IsFiniteSet(Actors), BaseInv, BaseInv', CountInv,
           UNCHANGED <<db, numFiles, raced>>,
           \A b \in Actors : pc'[b] \in BeforeCount \cup AfterCount =>
              \/ pc'[b] = pc[b] /\ job'[b] = job[b]
              \/ /\ pc'[b] \in {"receive", "dapi"} /\ pc[b] \in BeforeCount /\ job'[b] = job[b]
              \/ /\ pc'[b] \in {"receive", "dapi"} /\ job'[b].set \in Sets
                 /\ job'[b].files = numFiles[Main(job'[b].set)]
    PROVE  CountInv'
  <1> SUFFICES ASSUME raced' = {} PROVE CountInv'
    BY DEF CountInv
  <1>0. TypeOK /\ TypeOK' /\ raced = {}
    BY DEF BaseInv
  <1>1. ASSUME NEW vol \in Volumes PROVE \A n \in Int : Fits(n, vol) => Fits(n, vol)'
    <2>1. RowsOn(vol)' = RowsOn(vol)
      BY DEF RowsOn
    <2>2. Uncounted(vol)' \subseteq Uncounted(vol)
      BY DEF Uncounted, BeforeCount, AfterCount
    <2>3. QED BY <2>1, <2>2, FitsKept
  <1>2. ASSUME NEW vol \in Volumes PROVE Fits(numFiles[vol], vol)'
    <2>k. PICK k : k = numFiles[vol]
      OBVIOUS
    <2>1. k \in Int /\ Fits(k, vol)
      BY <1>0, <2>k DEF TypeOK, CountInv
    <2>2. Fits(k, vol)'
      BY <1>1, <2>1
    <2>3. QED BY <2>2, <2>k DEF Fits
  <1>3. ASSUME NEW b \in Actors, pc'[b] \in BeforeCount \cup AfterCount
        PROVE  /\ pc'[b] \in BeforeCount => Fits(job[b].files, Main(job[b].set))'
               /\ pc'[b] \in AfterCount => Fits(job[b].files + 1, Main(job[b].set))'
               /\ pc'[b] \in {"rep_count", "space_write"} => Fits(job[b].repFiles, Rep(job[b].set))'
    <2>n. PICK n, m, main, rep : /\ n = job'[b].files /\ m = job'[b].repFiles
                                 /\ main = Main(job'[b].set) /\ rep = Rep(job'[b].set)
      OBVIOUS
    <2>1. job'[b].set \in Sets
      <3>1. pc'[b] \notin {"new", "done", "idle"}
        BY <1>3 DEF BeforeCount, AfterCount
      <3>2. CASE pc'[b] = pc[b] /\ job'[b] = job[b]
        BY <3>1, <3>2, JobOf
      <3>3. CASE pc[b] \in BeforeCount /\ job'[b] = job[b]
        <4>1. pc[b] \notin {"new", "done", "idle"}
          BY <3>3 DEF BeforeCount
        <4>2. QED BY <3>3, <4>1, JobOf
      <3>4. QED BY <1>3, <3>2, <3>3
    <2>2. n \in Int /\ n + 1 \in Int /\ m \in Int /\ main \in Volumes /\ rep \in Volumes
      BY <1>0, <2>1, <2>n DEF TypeOK, Jobs, Main, Rep, Volumes
    <2>3. CASE pc'[b] = pc[b] /\ job'[b] = job[b]
      <3>1. /\ pc[b] \in BeforeCount => Fits(n, main)'
            /\ pc[b] \in AfterCount => Fits(n + 1, main)'
            /\ pc[b] \in {"rep_count", "space_write"} => Fits(m, rep)'
        BY <1>0, <1>1, <2>2, <2>3, <2>n DEF CountInv
      <3>2. QED BY <2>3, <2>n, <3>1 DEF Fits
    <2>4. CASE pc'[b] \in {"receive", "dapi"} /\ pc[b] \in BeforeCount /\ job'[b] = job[b]
      <3>1. Fits(n, main)'
        BY <1>0, <1>1, <2>2, <2>4, <2>n DEF CountInv
      <3>2. QED BY <2>4, <2>n, <3>1 DEF Fits, AfterCount
    <2>5. CASE pc'[b] \in {"receive", "dapi"} /\ job'[b].files = numFiles[Main(job'[b].set)]
      <3>1. n = numFiles[main] /\ Fits(n, main)
        BY <1>0, <2>2, <2>5, <2>n DEF CountInv
      <3>2. Fits(n, main)'
        BY <1>1, <2>2, <3>1
      <3>3. QED BY <2>5, <2>n, <3>2 DEF Fits, AfterCount
    <2>6. QED BY <1>3, <2>3, <2>4, <2>5
  <1>4. QED BY <1>2, <1>3 DEF CountInv, AfterCount

\* The other steps preserve the invariant.
LEMMA CountOthers ==
    ASSUME IsFiniteSet(Places), IsFiniteSet(Actors), BaseInv, CountInv, Next, \A a \in Actors : ~ArchiveStep(a)
    PROVE  CountInv'
  <1> USE DEF Goto, bufferVars, diskVars, BeforeCount, AfterCount
  <1>0. /\ BaseInv' /\ TypeOK /\ db' = db
        /\ Janitor \notin Requests /\ Actors = Requests \cup {Janitor}
    BY BaseStep, OnlyArchiving, ActorsAssumption DEF BaseInv, Actors
  <1>1. ASSUME NEW r \in Requests, Start(r) PROVE CountInv'
    <2>0. UNCHANGED <<numFiles, raced>>
      BY <1>1, StartEffect
    <2>1. CASE Started(r)
      <3>1. PICK f \in Files, s \in Sets, o \in BOOLEAN, w \in Nat : job' = [job EXCEPT ![r] = NewJob(r, f, o, w, s)]
        BY <2>1 DEF Started
      <3>2. /\ job'[r] = NewJob(r, f, o, w, s) /\ pc'[r] = "receive"
            /\ \A b \in Actors : b # r => pc'[b] = pc[b] /\ job'[b] = job[b]
        BY <1>0, <2>1, <3>1 DEF TypeOK, Started
      <3>3. NewJob(r, f, o, w, s).set = s /\ NewJob(r, f, o, w, s).files = numFiles[Main(s)]
        BY DEF NewJob
      <3>4. QED BY <1>0, <2>0, <3>2, <3>3, CountQuiet
    <2>2. CASE job' = job /\ pc' = [pc EXCEPT ![r] = "done"]
      BY <1>0, <2>0, <2>2, CountQuiet DEF TypeOK
    <2>3. QED BY <1>1, <2>1, <2>2, StartEffect
  <1>2. ASSUME NEW r \in Requests, Outer(r) PROVE CountInv'
    <2>1. /\ \A b \in Actors : b # r => pc'[b] = pc[b]
          /\ UNCHANGED <<job, numFiles, raced>>
          /\ \/ pc'[r] \in {"done", "bl_req", "bl_done"}
             \/ pc[r] = "receive" /\ pc'[r] = "dapi"
      BY <1>2, OuterEffect
    <2>2. QED BY <1>0, <2>1, CountQuiet
  <1>3. CASE JanitorScan
    <2>1. UNCHANGED <<pc, job, numFiles, raced>>
      BY <1>3 DEF JanitorScan
    <2>2. QED BY <1>0, <2>1, CountQuiet
  <1>4. CASE JanitorRemove
    <2>1. pc' = [pc EXCEPT ![Janitor] = "idle"] /\ UNCHANGED <<job, numFiles, raced>>
      BY <1>4 DEF JanitorRemove
    <2>2. pc'[Janitor] = "idle" /\ \A b \in Actors : b # Janitor => pc'[b] = pc[b]
      BY <1>0, <2>1 DEF TypeOK
    <2>3. QED BY <1>0, <2>1, <2>2, CountQuiet
  <1>5. ASSUME NEW r \in Requests, JanitorTake(r) PROVE CountInv'
    <2>0. UNCHANGED <<numFiles, raced>>
      BY <1>5 DEF JanitorTake
    <2>1. CASE \E s \in TargetSets : /\ job' = [job EXCEPT ![Janitor] = BufferedJob(r, s)]
                                     /\ pc' = [pc EXCEPT ![Janitor] = "dapi"]
      <3>1. PICK s \in Sets : job' = [job EXCEPT ![Janitor] = BufferedJob(r, s)]
        BY <2>1 DEF TargetSets
      <3>2. /\ job'[Janitor] = BufferedJob(r, s) /\ pc'[Janitor] = "dapi"
            /\ \A b \in Actors : b # Janitor => pc'[b] = pc[b] /\ job'[b] = job[b]
        BY <1>0, <2>1, <3>1 DEF TypeOK
      <3>3. BufferedJob(r, s).set = s /\ BufferedJob(r, s).files = numFiles[Main(s)]
        BY DEF BufferedJob, NewJob
      <3>4. QED BY <1>0, <2>0, <3>2, <3>3, CountQuiet
    <2>2. CASE pc' = pc /\ job' = job
      BY <1>0, <2>0, <2>2, CountQuiet
    <2>3. QED BY <1>5, <2>1, <2>2 DEF JanitorTake
  <1>6. CASE Crash
    <2>1. /\ \A b \in Actors : pc'[b] \in {"idle", "new", "done", "dead"}
          /\ UNCHANGED <<numFiles, raced>>
      BY <1>0, <1>6 DEF Crash
    <2>2. QED BY <1>0, <2>1, CountQuiet
  <1>7. QED BY <1>1, <1>2, <1>3, <1>4, <1>5, <1>6, NextCases

\* number_of_files of a disk never exceeds the number of its rows, for any finite number of
\* requests, File IDs and storage sets and any faults, while nobody overwrites and no two
\* actors handle one File ID: although checkDiskSpace and updateDiskStatusDb write back rows
\* of ngas_disks that were read before other files were counted.
THEOREM CountsBounded ==
    ASSUME ~Overwrites, IsFiniteSet(Requests), IsFiniteSet(Files), IsFiniteSet(Sets)
    PROVE  Spec => []CountBounded
  <1>0. IsFiniteSet(Places) /\ IsFiniteSet(Actors)
    BY Finite
  <1>1. Init => CountInv
    <2> SUFFICES ASSUME Init PROVE CountInv
      OBVIOUS
    <2>1. \A a \in Actors : pc[a] \in {"new", "idle"}
      BY DEF Init
    <2>2. ASSUME NEW vol \in Volumes PROVE Fits(numFiles[vol], vol)
      <3>1. Uncounted(vol) = {} /\ numFiles[vol] = 0
        BY <2>1 DEF Uncounted, Init
      <3>2. QED BY <1>0, <3>1, Countable, FS_EmptySet DEF Fits
    <2>3. QED BY <2>1, <2>2 DEF CountInv, BeforeCount, AfterCount
  <1>2. IndInv /\ CountInv /\ [Next]_vars => CountInv'
    <2> SUFFICES ASSUME IndInv, CountInv, [Next]_vars PROVE CountInv'
      OBVIOUS
    <2>0. BaseInv
      BY DEF IndInv
    <2>1. CASE UNCHANGED vars
      <3>1. BaseInv'
        BY <2>0, BaseStep
      <3>2. UNCHANGED <<pc, job, db, numFiles, raced>>
        BY <2>1 DEF vars, diskVars
      <3>3. QED BY <1>0, <2>0, <3>1, <3>2, CountQuiet
    <2>2. CASE Next
      BY <1>0, <2>0, <2>2, CountArchive, CountOthers
    <2>3. QED BY <2>1, <2>2
  <1>3. IndInv /\ CountInv => CountBounded
    <2> SUFFICES ASSUME IndInv, CountInv, raced = {}, NEW vol \in Volumes
                 PROVE  numFiles[vol] <= Cardinality(RowsOn(vol))
      BY DEF CountBounded
    <2>1. numFiles[vol] \in Int /\ Fits(numFiles[vol], vol)
      BY DEF IndInv, BaseInv, TypeOK, CountInv
    <2>2. QED BY <1>0, <2>1, Countable DEF Fits
  <1>4. QED BY <1>1, <1>2, <1>3, IndInit, IndStep, PTL DEF Spec

-----------------------------------------------------------------------------
(* Rows and files when clients overwrite.  A failing move, a failing DB    *)
(* statement and a kill leave the new file in the place of the old one,    *)
(* with its row; without them every file that was overwritten is described *)
(* by its rows again when the request is through.                          *)

\* No move and no DB statement fails, and the server is not killed.
Undisturbed == Faults \cap {"move", "db", "crash"} = {}

\* Nothing is buffered, and the Janitor has nothing to do.
NothingBuffered ==
    /\ pc[Janitor] = "idle" /\ todo = {}
    /\ \A r \in Requests : backlog[r] = {} /\ pc[r] \notin {"bl_data", "bl_req", "bl_done"}

\* A version that has a row has one of a Main Disk, and not two.
OneMain(f, v) ==
    /\ HasRow(f, v) => \E s \in Sets : db[<<Main(s), f, v>>] # None
    /\ \A s, t \in Sets : db[<<Main(s), f, v>>] # None /\ db[<<Main(t), f, v>>] # None => s = t

\* Who overwrites has a copy to replace from the validation on, nobody else has.
Replaces(r) ==
    /\ pc[r] \in {"receive", "dapi", "validate"} => job[r].prev = None
    /\ pc[r] = "validate" => job[r].over
    /\ pc[r] \in Handling \ {"validate"} => (job[r].prev # None <=> job[r].over)
    /\ job[r].sum \in {None, r}

\* The place whose file was replaced and whose row was not yet.
Touched(r) == IF pc[r] \in {"check", "write"} THEN {MainPlace(r)}
              ELSE IF pc[r] \in {"rep_check", "rep_write"} THEN {RepPlace(r)} ELSE {}

\* What a request knows at each step of a File ID that nobody else handles.
Replacing(r) ==
    /\ pc[r] \in {"move", "check", "write"} =>
          IF job[r].prev = None THEN \A vol \in Volumes : db[Place(job[r], vol)] = None
          ELSE db[OldPlace(r)] # None
    /\ pc[r] \in Handling \ {"validate"} /\ job[r].prev # None =>
          job[r].prev[2] = "main" /\ job[r].prevVer = job[r].ver
    /\ pc[r] \in {"count", "rep_copy", "rep_check", "rep_write"} /\ job[r].prev = None => db[RepPlace(r)] = None
    /\ pc[r] \in Moved => fs[MainPlace(r)] = r
    /\ pc[r] = "write" => (job[r].update <=> db[OldPlace(r)] # None)
    /\ pc[r] \in Registered => db[MainPlace(r)] = r
    /\ pc[r] \in Registered /\ OldPlace(r) # MainPlace(r) => db[OldPlace(r)] = None
    /\ pc[r] \in {"rep_check", "rep_write"} => fs[RepPlace(r)] = r
    /\ pc[r] = "rep_write" => (job[r].update <=> db[RepPlace(r)] # None)

\* A row describes the file at its place, unless that was just replaced.
RowsButTouched ==
    \A p \in Places : \/ db[p] = None \/ fs[p] = db[p] \/ p[2] \in raced
                      \/ \E r \in Requests : p \in Touched(r)

\* The inductive invariant with overwriting.
OverInv ==
    /\ VersionInv /\ Recorded /\ NothingBuffered
    /\ \A f \in FileIds \ raced, v \in Versions : OneMain(f, v)
    /\ \A r \in Requests : Replaces(r)
    /\ \A r \in Requests : pc[r] \in Handling => job[r].file \in raced \/ Replacing(r)
    /\ RowsButTouched

\* What a step of postFileRecepHandling does to the files and the rows.
OverStep(a) ==
    \/ fs' = fs /\ db' = db
    \/ /\ pc[a] = "move" /\ pc'[a] = "check" /\ db' = db
       /\ fs' = [fs EXCEPT ![MainPlace(a)] = job[a].content]
    \/ /\ pc[a] = "write" /\ pc'[a] = "count" /\ fs' = fs
       /\ db' = [db EXCEPT ![OldPlace(a)] = None, ![MainPlace(a)] = job[a].sum]
    \/ /\ pc[a] = "rep_copy" /\ pc'[a] = "rep_check" /\ db' = db
       /\ fs' = [fs EXCEPT ![RepPlace(a)] = fs[MainPlace(a)]]
    \/ /\ pc[a] = "rep_write" /\ pc'[a] = "rep_read" /\ fs' = fs
       /\ db' = [db EXCEPT ![RepPlace(a)] = None, ![RepPlace(a)] = job[a].sum]
    \/ /\ pc[a] = "rm_prev" /\ pc'[a] = "space" /\ db' = db
       /\ OldFile(a) # MainPlace(a) /\ fs' = [fs EXCEPT ![OldFile(a)] = None]

\* A file is put in its place, registered there, or removed where it was before.
LEMMA OverFiles ==
    ASSUME BaseInv, NEW a \in Actors, ArchiveStep(a)
    PROVE  OverStep(a)
  <1> USE DEF Goto, bufferVars, diskVars, OverStep
  <1>0. DOMAIN pc = Actors
    BY DEF BaseInv, TypeOK
  <1>1. CASE Move(a)
    BY <1>0, <1>1 DEF Move
  <1>2. CASE Write(a)
    BY <1>0, <1>2 DEF Write, WriteEntry
  <1>3. CASE Replicate(a)
    BY <1>0, <1>3 DEF Replicate
  <1>4. CASE RepWrite(a)
    BY <1>0, <1>4 DEF RepWrite, WriteEntry
  <1>5. CASE RemovePrev(a)
    BY <1>0, <1>5 DEF RemovePrev
  <1>6. CASE \/ Dapi(a) \/ Check(a) \/ Count(a) \/ RepCheck(a) \/ RepRead(a) \/ RepCount(a)
             \/ SpaceRead(a) \/ SpaceWrite(a) \/ Validate(a)
    BY <1>0, <1>6 DEF Dapi, Check, CheckEntry, Count, RepCheck, RepRead, RepCount, SpaceRead, SpaceWrite, Validate
  <1>7. QED BY <1>1, <1>2, <1>3, <1>4, <1>5, <1>6 DEF ArchiveStep

\* The places of a job, with that of the copy it replaces.
JobPlaces(a) ==
    /\ MainPlace(a) \in Places /\ RepPlace(a) \in Places /\ OldPlace(a) \in Places
    /\ MainPlace(a) # RepPlace(a)
    /\ MainPlace(a)[2] = job[a].file /\ RepPlace(a)[2] = job[a].file /\ OldPlace(a)[2] = job[a].file
    /\ OldFile(a)[2] = job[a].file
    /\ MainPlace(a)[3] = job[a].ver /\ RepPlace(a)[3] = job[a].ver /\ OldPlace(a)[3] = job[a].ver
LEMMA HandledPlaces ==
    ASSUME BaseInv, NEW a \in Actors, pc[a] \in Handling
    PROVE  JobPlaces(a) /\ job[a].file \in FileIds /\ job[a].ver \in Versions
  <1>1. job[a].set \in Sets /\ job[a].file \in FileIds
    BY JobOf DEF Handling
  <1>2. job[a].ver \in Versions /\ job[a].prev \in Volumes \cup {None}
    BY DEF BaseInv, Prepared, TypeOK, Jobs
  <1>3. OldPlace(a)[2] = job[a].file /\ OldPlace(a)[3] = job[a].ver /\ OldFile(a)[2] = job[a].file
    BY DEF OldPlace, OldFile, MainPlace, Place
  <1>4. QED BY <1>1, <1>2, <1>3, PlacesOf DEF JobPlaces

\* Only the places of its own file are touched by an actor, and only while it handles it.
LEMMA OverOther ==
    ASSUME BaseInv, NEW a \in Actors, ArchiveStep(a)
    PROVE  /\ \A p \in Places : p[2] # job[a].file => fs'[p] = fs[p] /\ db'[p] = db[p]
           /\ pc[a] \notin Handling => fs' = fs /\ db' = db
  <1>1. OverStep(a)
    BY OverFiles
  <1>2. pc[a] \in Handling => JobPlaces(a)
    BY HandledPlaces
  <1>3. fs \in [Places -> Requests \cup {None}] /\ db \in [Places -> Requests \cup {None}]
    BY DEF BaseInv, TypeOK
  <1>4. QED BY <1>1, <1>2, <1>3 DEF OverStep, Handling, JobPlaces

\* The Janitor does not archive, a request does not buffer its file.
LEMMA OverQuietJanitor ==
    ASSUME Undisturbed, BaseInv, NothingBuffered, NEW a \in Actors, ArchiveStep(a)
    PROVE  a \in Requests /\ NothingBuffered'
  <1> USE DEF Goto, bufferVars
  <1>0. StepFrame(a) /\ Outcome(a) /\ DOMAIN pc = Actors /\ Janitor \notin Requests /\ Actors = Requests \cup {Janitor}
    BY FrameStep, StepOutcome, ActorsAssumption DEF BaseInv, TypeOK, Actors
  <1>1. a # Janitor
    BY <1>0 DEF Outcome, Handling, NothingBuffered
  <1>2. backlog' = backlog
    BY <1>0, <1>1 DEF Outcome, Abort
  <1>3. pc'[a] # "bl_data"
    <2>1. CASE Move(a)
      BY <1>0, <2>1 DEF Move, Undisturbed, Fault
    <2>2. CASE ~Move(a)
      <3>1. Abort(a) => pc'[a] = "done"
        BY <1>0, <1>1 DEF Abort
      <3>2. QED BY <1>0, <2>2, <3>1 DEF ArchiveStep, Dapi, Validate, Check, CheckEntry, Write, WriteEntry, Count, Replicate,
         RepCheck, RepWrite, RepRead, RepCount, RemovePrev, SpaceRead, SpaceWrite
    <2>3. QED BY <2>1, <2>2
  <1>4. QED BY <1>0, <1>1, <1>2, <1>3 DEF NothingBuffered, StepFrame, Outcome

\* Who overwrites has a copy to replace, and the checksum is that of the own file.
LEMMA ReplacesStep ==
    ASSUME OverInv, NEW a \in Requests, ArchiveStep(a)
    PROVE  \A r \in Requests : Replaces(r)'
  <1> USE DEF Goto, bufferVars
  <1>0. /\ BaseInv /\ StepFrame(a) /\ Outcome(a) /\ DOMAIN pc = Actors /\ a \in Actors /\ a # Janitor
        /\ Replaces(a) /\ TypeOK /\ None \notin Requests /\ job[a] \in Jobs /\ None \notin Volumes
    <2>1. BaseInv
      BY DEF OverInv, VersionInv
    <2>2. a \in Actors /\ a # Janitor /\ None \notin Requests
      BY ActorsAssumption DEF Actors
    <2>3. None \notin Volumes
      BY VolumesAssumption
    <2>4. QED BY <2>1, <2>2, <2>3, FrameStep, StepOutcome DEF BaseInv, TypeOK, OverInv
  <1>1. ASSUME NEW r \in Requests, r # a PROVE Replaces(r)'
    BY <1>0, <1>1 DEF StepFrame, Replaces, OverInv, Actors
  <1>2. job'[a].sum \in {None, a}
    <2>1. CASE pc[a] \notin {"check", "rep_check"}
      BY <1>0, <2>1 DEF StepFrame, Replaces
    <2>2. CASE pc[a] \in {"check", "rep_check"}
      <3>1. job[a].content = a
        BY <1>0, <2>2, JobOf
      <3>2. CASE job' = job
        BY <1>0, <3>2 DEF Replaces
      <3>3. CASE job' # job /\ Check(a)
        <4>u. PICK u \in BOOLEAN : u <=> (db[OldPlace(a)] # None)
          OBVIOUS
        <4>1. job'[a] = [job[a] EXCEPT !.update = u, !.sum = CheckedSum(a, MainPlace(a))]
          BY <1>0, <3>3, <4>u, CheckEffect
        <4>2. CheckedSum(a, MainPlace(a)) \in {None, a}
          BY <1>0, <3>1 DEF CheckedSum, Replaces
        <4>3. QED BY <1>0, <4>1, <4>2 DEF Jobs
      <3>4. CASE job' # job /\ RepCheck(a)
        <4>u. PICK u \in BOOLEAN : u <=> (db[RepPlace(a)] # None)
          OBVIOUS
        <4>1. job'[a] = [job[a] EXCEPT !.update = u, !.sum = CheckedSum(a, RepPlace(a))]
          BY <1>0, <3>4, <4>u, RepCheckEffect
        <4>2. CheckedSum(a, RepPlace(a)) \in {None, a}
          BY <1>0, <3>1 DEF CheckedSum, Replaces
        <4>3. QED BY <1>0, <4>1, <4>2 DEF Jobs
      <3>5. QED BY <2>2, <3>2, <3>3, <3>4 DEF ArchiveStep, Dapi, Validate, Move, Write, Count, Replicate,
         RepWrite, RepRead, RepCount, RemovePrev, SpaceRead, SpaceWrite
    <2>3. QED BY <2>1, <2>2
  <1>3. CASE pc[a] = "validate"
    <2>1. Validate(a)
      BY <1>3 DEF ArchiveStep, Dapi, Validate, Move, Check, Write, Count, Replicate, RepCheck,
         RepWrite, RepRead, RepCount, RemovePrev, SpaceRead, SpaceWrite
    <2>2. CASE Abort(a) /\ job' = job
      <3>1. pc'[a] = "done"
        BY <1>0, <2>2 DEF Abort
      <3>2. QED BY <1>1, <1>2, <3>1 DEF Replaces, Handling
    <2>3. CASE ~(Abort(a) /\ job' = job)
      <3>p. PICK p \in Places :
               /\ p[1] \in Volumes /\ p[3] \in Nat
               /\ job' = [job EXCEPT ![a].prev = p[1], ![a].prevVer = p[3], ![a].exists = TRUE]
               /\ pc' = [pc EXCEPT ![a] = "move"]
        BY <2>1, <2>3, ValidateEffect
      <3>v. PICK vol \in Volumes, v \in Nat :
               /\ job' = [job EXCEPT ![a].prev = vol, ![a].prevVer = v, ![a].exists = TRUE]
               /\ pc' = [pc EXCEPT ![a] = "move"]
        BY <3>p
      <3>1. job'[a] = [job[a] EXCEPT !.prev = vol, !.prevVer = v, !.exists = TRUE] /\ pc'[a] = "move"
        BY <1>0, <3>v, ValidateUpdate DEF TypeOK
      <3>2. job'[a].prev = vol /\ job'[a].over = job[a].over
        BY <1>0, <3>1 DEF Jobs, StepFrame
      <3>3. vol # None /\ job[a].over
        BY <1>0, <1>3 DEF Replaces
      <3>4. QED BY <1>1, <1>2, <3>1, <3>2, <3>3 DEF Replaces, Handling
    <2>4. QED BY <2>2, <2>3
  <1>4. CASE pc[a] = "dapi"
    <2>1. Dapi(a)
      BY <1>4 DEF ArchiveStep, Dapi, Validate, Move, Check, Write, Count, Replicate, RepCheck,
         RepWrite, RepRead, RepCount, RemovePrev, SpaceRead, SpaceWrite
    <2>2. job'[a].prev = None /\ job'[a].over = job[a].over
      BY <1>0, <1>4 DEF StepFrame, Replaces
    <2>3. pc'[a] = "done" \/ pc'[a] = (IF job[a].over THEN "validate" ELSE "move")
      BY <1>0, <2>1 DEF Dapi, Abort
    <2>4. job[a].over \in BOOLEAN
      BY <1>0 DEF Jobs
    <2>5. QED BY <1>1, <1>2, <2>2, <2>3, <2>4 DEF Replaces, Handling
  <1>5. CASE pc[a] \notin {"validate", "dapi"}
    <2>1. job'[a].prev = job[a].prev /\ job'[a].over = job[a].over
      BY <1>0, <1>5 DEF StepFrame
    <2>2. pc'[a] \in Handling => pc[a] \in Handling
      <3>1. pc[a] \in {"space", "space_write"} => pc'[a] \notin Handling
        BY <1>0 DEF ArchiveStep, Dapi, Validate, Move, Check, Write, Count, Replicate, RepCheck,
           RepWrite, RepRead, RepCount, RemovePrev, SpaceRead, SpaceWrite, Handling
      <3>2. QED BY <1>0, <1>5, <3>1 DEF Outcome
    <2>3. QED BY <1>0, <1>1, <1>2, <1>5, <2>1, <2>2 DEF Replaces, Handling, Outcome
  <1>6. QED BY <1>3, <1>4, <1>5

\* What a request alone with its File ID does at each step: where the file it replaced has
\* not its row yet, it goes on.
Progress(r) ==
    /\ pc[r] = "move" => pc'[r] = "check" /\ db' = db /\ fs' = [fs EXCEPT ![MainPlace(r)] = r]
    /\ pc[r] \in {"check", "rep_check"} =>
          pc'[r] = (IF pc[r] = "check" THEN "write" ELSE "rep_write") /\ fs' = fs /\ db' = db
    /\ pc[r] = "write" => pc'[r] = "count" /\ fs' = fs
                          /\ db' = [db EXCEPT ![OldPlace(r)] = None, ![MainPlace(r)] = r]
    /\ pc[r] = "rep_copy" => /\ db' = db
                             /\ \/ pc'[r] = "rep_check" /\ fs' = [fs EXCEPT ![RepPlace(r)] = r]
                                \/ pc'[r] = "done" /\ fs' = fs
    /\ pc[r] = "rep_write" => pc'[r] = "rep_read" /\ fs' = fs /\ db' = [db EXCEPT ![RepPlace(r)] = r]
    /\ pc[r] = "rm_prev" =>
          /\ pc'[r] = "space" /\ db' = db
          /\ fs' = fs \/ (OldPlace(r) # MainPlace(r) /\ fs' = [fs EXCEPT ![OldPlace(r)] = None])
    /\ pc[r] \in {"validate", "count", "rep_read", "rep_count"} =>
          /\ fs' = fs /\ db' = db
          /\ pc'[r] \in {"move", "rep_copy", "rm_prev", "rep_count", "done"}
          /\ pc'[r] = "rep_copy" => pc[r] = "count"
          /\ pc'[r] = "move" => pc[r] = "validate"

\* A request alone with its File ID is not stopped between a file and its row.
LEMMA AloneProgress ==
    ASSUME Undisturbed, OverInv, NEW r \in Requests, ArchiveStep(r), pc[r] \in Handling, job[r].file \notin raced
    PROVE  Progress(r)
  <1> USE DEF Goto, bufferVars, diskVars, Progress
  <1>0. /\ BaseInv /\ TypeOK /\ DOMAIN pc = Actors /\ r \in Actors /\ r # Janitor /\ None \notin Requests
        /\ pc[r] # "validate" => PreviousKnown(r)
    <2>1. BaseInv /\ VersionInv
      BY DEF OverInv, VersionInv
    <2>2. QED BY <2>1, ActorsAssumption DEF BaseInv, TypeOK, OverInv, VersionInv, Actors
  <1>1. Replacing(r) /\ Replaces(r)
    BY DEF OverInv
  <1>2. job[r].content = r /\ JobPlaces(r) /\ job[r].file \in FileIds /\ job[r].ver \in Versions /\ job[r].set \in Sets
    BY <1>0, JobOf, HandledPlaces DEF Handling
  <1>3. fs \in [Places -> Requests \cup {None}] /\ db \in [Places -> Requests \cup {None}] /\ job[r] \in Jobs
    BY <1>0 DEF TypeOK
  <1>a. Abort(r) => pc'[r] = "done"
    BY <1>0 DEF Abort
  <1>4. CASE pc[r] = "move"
    <2>1. Move(r)
      BY <1>4 DEF ArchiveStep, Dapi, Validate, Check, Write, Count, Replicate, RepCheck,
         RepWrite, RepRead, RepCount, RemovePrev, SpaceRead, SpaceWrite
    <2>2. QED BY <1>0, <1>2, <1>4, <2>1 DEF Move, Undisturbed, Fault
  <1>5. CASE pc[r] = "check"
    <2>1. Check(r) /\ PreviousKnown(r)
      BY <1>0, <1>5 DEF ArchiveStep, Dapi, Validate, Move, Write, Count, Replicate, RepCheck,
         RepWrite, RepRead, RepCount, RemovePrev, SpaceRead, SpaceWrite
    <2>2. fs[MainPlace(r)] # None
      BY <1>0, <1>1, <1>5 DEF Replacing, Moved, Handling
    <2>3. QED BY <1>0, <1>5, <2>1, <2>2 DEF Check, CheckEntry, Undisturbed, Fault
  <1>6. CASE pc[r] = "rep_check"
    <2>1. RepCheck(r) /\ PreviousKnown(r)
      BY <1>0, <1>6 DEF ArchiveStep, Dapi, Validate, Move, Check, Write, Count, Replicate,
         RepWrite, RepRead, RepCount, RemovePrev, SpaceRead, SpaceWrite
    <2>2. fs[RepPlace(r)] # None
      BY <1>0, <1>1, <1>6 DEF Replacing
    <2>3. QED BY <1>0, <1>6, <2>1, <2>2 DEF RepCheck, CheckEntry, Undisturbed, Fault
  <1>s. pc[r] \in {"write", "rep_write"} => job[r].sum = r
    BY <1>1 DEF OverInv, VersionInv, Summed, Registered, Moved, Handling, Replaces, Actors
  <1>7. CASE pc[r] = "write"
    <2>1. Write(r)
      BY <1>7 DEF ArchiveStep, Dapi, Validate, Move, Check, Count, Replicate, RepCheck,
         RepWrite, RepRead, RepCount, RemovePrev, SpaceRead, SpaceWrite
    <2>2. job[r].update <=> db[OldPlace(r)] # None
      BY <1>1, <1>7 DEF Replacing
    <2>3. ~Collides(r, OldPlace(r), MainPlace(r))
      <3>1. CASE job[r].prev = None
        <4>1. Main(job[r].set) \in Volumes
          BY <1>2 DEF Main, Volumes
        <4>2. db[MainPlace(r)] = None
          BY <1>1, <1>7, <3>1, <4>1 DEF Replacing, MainPlace
        <4>3. QED BY <4>2 DEF Collides
      <3>2. CASE job[r].prev # None
        <4>1. /\ job[r].prev \in Volumes /\ job[r].prev[2] = "main" /\ db[OldPlace(r)] # None
              /\ OldPlace(r) = <<job[r].prev, job[r].file, job[r].ver>>
          BY <1>1, <1>3, <1>7, <3>2 DEF Replacing, Jobs, OldPlace, Place
        <4>2. PICK t \in Sets : job[r].prev = Main(t)
          BY <4>1 DEF Volumes, Main
        <4>3. OneMain(job[r].file, job[r].ver)
          BY <1>2 DEF OverInv
        <4>4. db[MainPlace(r)] # None => t = job[r].set
          BY <1>2, <4>1, <4>2, <4>3 DEF OneMain, MainPlace, Place
        <4>5. t = job[r].set => OldPlace(r) = MainPlace(r)
          BY <4>1, <4>2 DEF MainPlace, Place
        <4>6. QED BY <2>2, <4>1, <4>4, <4>5 DEF Collides
      <3>3. QED BY <3>1, <3>2
    <2>4. QED BY <1>0, <1>7, <1>s, <2>1, <2>2, <2>3 DEF Write, WriteEntry, Undisturbed, Fault
  <1>8. CASE pc[r] = "rep_write"
    <2>1. RepWrite(r)
      BY <1>8 DEF ArchiveStep, Dapi, Validate, Move, Check, Write, Count, Replicate, RepCheck,
         RepRead, RepCount, RemovePrev, SpaceRead, SpaceWrite
    <2>2. job[r].update <=> db[RepPlace(r)] # None
      BY <1>1, <1>8 DEF Replacing
    <2>3. ~Collides(r, RepPlace(r), RepPlace(r))
      BY <2>2 DEF Collides
    <2>4. pc'[r] = "rep_read" /\ fs' = fs /\ db' = [db EXCEPT ![RepPlace(r)] = None, ![RepPlace(r)] = r]
      BY <1>0, <1>8, <1>s, <2>1, <2>2, <2>3 DEF RepWrite, WriteEntry, Undisturbed, Fault
    <2>5. db' = [db EXCEPT ![RepPlace(r)] = r]
      BY <1>2, <1>3, <2>4 DEF JobPlaces
    <2>6. QED BY <1>8, <2>4, <2>5
  <1>9. CASE pc[r] = "rep_copy"
    <2>1. Replicate(r)
      BY <1>9 DEF ArchiveStep, Dapi, Validate, Move, Check, Write, Count, RepCheck,
         RepWrite, RepRead, RepCount, RemovePrev, SpaceRead, SpaceWrite
    <2>2. fs[MainPlace(r)] = r
      BY <1>1, <1>9 DEF Replacing, Moved, Handling
    <2>3. QED BY <1>0, <1>a, <1>9, <2>1, <2>2 DEF Replicate
  <1>10. CASE pc[r] = "rm_prev"
    <2>1. RemovePrev(r)
      BY <1>10 DEF ArchiveStep, Dapi, Validate, Move, Check, Write, Count, Replicate, RepCheck,
         RepWrite, RepRead, RepCount, SpaceRead, SpaceWrite
    <2>2. OldFile(r) = OldPlace(r)
      BY <1>1, <1>10 DEF Replacing, Handling, OldFile, OldPlace, Place
    <2>3. QED BY <1>0, <1>10, <2>1, <2>2 DEF RemovePrev
  <1>11. CASE pc[r] \in {"validate", "count", "rep_read", "rep_count"}
    <2>1. Validate(r) \/ Count(r) \/ RepRead(r) \/ RepCount(r)
      BY <1>11 DEF ArchiveStep, Dapi, Move, Check, Write, Replicate, RepCheck,
         RepWrite, RemovePrev, SpaceRead, SpaceWrite
    <2>2. QED BY <1>0, <1>a, <1>11, <2>1 DEF Validate, Count, RepRead, RepCount
  <1>12. QED BY <1>4, <1>5, <1>6, <1>7, <1>8, <1>9, <1>10, <1>11 DEF Handling

\* A request that handles a File ID knows the same after the step of another one.
LEMMA ReplacingKept ==
    ASSUME OverInv, NEW a \in Requests, ArchiveStep(a), NEW r \in Requests, r # a,
           pc[r] \in Handling, job[r].file \notin raced, Replacing(r)
    PROVE  Replacing(r)' /\ Touched(r)' = Touched(r) /\ Touched(r) \subseteq Places
  <1>0. BaseInv /\ Recorded /\ a \in Actors /\ r \in Actors
    BY DEF OverInv, VersionInv, Actors
  <1>1. pc'[r] = pc[r] /\ job'[r] = job[r]
    BY <1>0, FrameStep DEF StepFrame
  <1>2. MainPlace(r)' = MainPlace(r) /\ RepPlace(r)' = RepPlace(r) /\ OldPlace(r)' = OldPlace(r)
    BY <1>1 DEF MainPlace, RepPlace, OldPlace, Place
  <1>3. JobPlaces(r) /\ job[r].file \in FileIds /\ job[r].ver \in Versions
    BY <1>0, HandledPlaces
  <1>4. \A p \in Places : p[2] = job[r].file => fs'[p] = fs[p] /\ db'[p] = db[p]
    <2>1. CASE job[a].file = job[r].file
      <3>1. pc[a] \notin Handling
        BY <1>0, <2>1 DEF Recorded
      <3>2. QED BY <1>0, <3>1, OverOther
    <2>2. CASE job[a].file # job[r].file
      BY <1>0, <2>2, OverOther
    <2>3. QED BY <2>1, <2>2
  <1>5. /\ fs'[MainPlace(r)] = fs[MainPlace(r)] /\ db'[MainPlace(r)] = db[MainPlace(r)]
        /\ fs'[RepPlace(r)] = fs[RepPlace(r)] /\ db'[RepPlace(r)] = db[RepPlace(r)]
        /\ db'[OldPlace(r)] = db[OldPlace(r)]
    BY <1>3, <1>4 DEF JobPlaces
  <1>6. \A vol \in Volumes : db'[Place(job[r], vol)] = db[Place(job[r], vol)] /\ Place(job[r], vol)' = Place(job[r], vol)
    BY <1>1, <1>3, <1>4 DEF Place, Places
  <1>7. Touched(r)' = Touched(r) /\ Touched(r) \subseteq Places
    BY <1>1, <1>2, <1>3 DEF Touched, JobPlaces
  <1>8. Replacing(r)'
    BY <1>1, <1>2, <1>5, <1>6 DEF Replacing
  <1>9. QED BY <1>7, <1>8

\* A request alone with its File ID knows what it should after a step of its own.
LEMMA ReplacingStep ==
    ASSUME Undisturbed, OverInv, NEW r \in Requests, ArchiveStep(r),
           pc'[r] \in Handling, job[r].file \notin raced, job[r].file \notin raced'
    PROVE  Replacing(r)'
  <1> USE DEF Goto
  <1>0. /\ BaseInv /\ TypeOK /\ DOMAIN pc = Actors /\ r \in Actors /\ r # Janitor /\ None \notin Requests
        /\ StepFrame(r) /\ Outcome(r) /\ Replaces(r) /\ job[r] \in Jobs
    <2>1. BaseInv
      BY DEF OverInv, VersionInv
    <2>2. QED BY <2>1, FrameStep, StepOutcome, ActorsAssumption DEF BaseInv, TypeOK, OverInv, Actors
  <1>1. fs \in [Places -> Requests \cup {None}] /\ db \in [Places -> Requests \cup {None}]
    BY <1>0 DEF TypeOK
  <1>a. ~Abort(r)
    <2>1. Abort(r) => pc'[r] = "done"
      BY <1>0 DEF Abort
    <2>2. QED BY <2>1 DEF Handling
  <1>2. CASE pc[r] = "dapi"
    <2>1. Dapi(r)
      BY <1>2 DEF ArchiveStep, Dapi, Validate, Move, Check, Write, Count, Replicate, RepCheck,
         RepWrite, RepRead, RepCount, RemovePrev, SpaceRead, SpaceWrite
    <2>2. pc'[r] = (IF job[r].over THEN "validate" ELSE "move") /\ db' = db /\ fs' = fs
      BY <1>0, <1>a, <2>1 DEF Dapi
    <2>3. CASE job[r].over
      BY <2>2, <2>3 DEF Replacing, Moved, Registered, Handling
    <2>4. CASE ~job[r].over
      <3>1. PICK v, e : v = FileVersion(job[r]) /\ v \in Versions /\ job' = [job EXCEPT ![r].ver = v, ![r].exists = e]
        BY <1>a, <2>1 DEF Dapi
      <3>2. job'[r].ver = v /\ job'[r].file = job[r].file /\ job'[r].prev = None /\ job[r].file \in FileIds
        BY <1>0, <1>2, <3>1, JobOf DEF Jobs, StepFrame, Replaces
      <3>3. \A p \in Places : p[2] = job[r].file /\ p[3] = v => db[p] = None
        BY <1>0, <2>4, <3>1, NoRowYet
      <3>4. \A vol \in Volumes : <<vol, job[r].file, v>> \in Places
        BY <3>1, <3>2 DEF Places
      <3>5. \A vol \in Volumes : db'[Place(job[r], vol)'] = None
        BY <2>2, <3>2, <3>3, <3>4 DEF Place
      <3>6. QED BY <2>2, <2>4, <3>2, <3>5 DEF Replacing, Moved, Registered, Handling
    <2>5. QED BY <2>3, <2>4
  <1>3. CASE pc[r] \in Handling
    <2>1. Progress(r) /\ Replacing(r)
      BY <1>3, AloneProgress DEF OverInv
    <2>2. JobPlaces(r) /\ job[r].file \in FileIds /\ job[r].ver \in Versions /\ job[r].content = r
      BY <1>0, <1>3, HandledPlaces, JobOf DEF Handling
    <2>3. MainPlace(r)' = MainPlace(r) /\ RepPlace(r)' = RepPlace(r)
      <3>1. pc[r] # "dapi"
        BY <1>3 DEF Handling
      <3>2. QED BY <1>0, <3>1, SamePlaces
    <2> USE DEF Handling, Moved, Registered
    <2>4. CASE pc[r] = "validate"
      <3>1. Validate(r)
        BY <2>4 DEF ArchiveStep, Dapi, Validate, Move, Check, Write, Count, Replicate, RepCheck,
           RepWrite, RepRead, RepCount, RemovePrev, SpaceRead, SpaceWrite
      <3>2. PICK p \in Places :
               /\ p \in Rows(job[r].file) /\ p[1] \in Volumes /\ p[3] \in Nat
               /\ p = <<p[1], job[r].file, p[3]>>
               /\ job' = [job EXCEPT ![r].prev = p[1], ![r].prevVer = p[3], ![r].exists = TRUE]
               /\ raced' = IF p[3] = job[r].ver /\ p[1][2] = "main" THEN raced ELSE raced \cup {job[r].file}
               /\ pc' = [pc EXCEPT ![r] = "move"]
        BY <1>a, <3>1, ValidateEffect
      <3>3. p[3] = job[r].ver /\ p[1][2] = "main" /\ pc'[r] = "move"
        BY <1>0, <3>2
      <3>4. db[p] # None /\ p = Place(job[r], p[1])
        BY <3>2, <3>3 DEF Rows, Place
      <3>5. /\ job'[r].prev = p[1] /\ job'[r].prevVer = p[3] /\ job'[r].file = job[r].file
            /\ job'[r].ver = job[r].ver /\ p[1] # None
        <4>1. job'[r] = [job[r] EXCEPT !.prev = p[1], !.prevVer = p[3], !.exists = TRUE]
          BY <1>0, <3>2, ValidateUpdate DEF TypeOK
        <4>2. p[1] # None
          BY <3>2, VolumesAssumption
        <4>3. QED BY <1>0, <4>1, <4>2 DEF Jobs
      <3>6. OldPlace(r)' = p
        BY <3>4, <3>5 DEF OldPlace, Place
      <3>7. db' = db
        BY <3>1 DEF Validate
      <3>8. QED BY <3>3, <3>4, <3>5, <3>6, <3>7 DEF Replacing
    <2>5. CASE pc[r] # "validate"
      <3>1. /\ job'[r].prev = job[r].prev /\ job'[r].file = job[r].file /\ job'[r].ver = job[r].ver
            /\ job'[r].prevVer = job[r].prevVer
            /\ pc[r] \notin {"check", "rep_check"} => job'[r].update = job[r].update
        BY <1>0, <1>3, <2>5 DEF StepFrame, Handling
      <3>2. OldPlace(r)' = OldPlace(r) /\ \A vol : Place(job[r], vol)' = Place(job[r], vol)
        BY <2>3, <3>1 DEF OldPlace, Place
      <3>3. CASE pc[r] = "check"
        <4>1. Check(r)
          BY <3>3 DEF ArchiveStep, Dapi, Validate, Move, Write, Count, Replicate, RepCheck,
             RepWrite, RepRead, RepCount, RemovePrev, SpaceRead, SpaceWrite
        <4>u. PICK u \in BOOLEAN : u <=> (db[OldPlace(r)] # None)
          OBVIOUS
        <4>2. job'[r] = [job[r] EXCEPT !.update = u, !.sum = CheckedSum(r, MainPlace(r))]
          BY <1>0, <1>a, <4>1, <4>u, CheckEffect
        <4>3. job'[r].update <=> db[OldPlace(r)] # None
          BY <1>0, <4>2, <4>u DEF Jobs
        <4>4. QED BY <2>1, <2>3, <3>1, <3>2, <3>3, <4>3 DEF Progress, Replacing
      <3>4. CASE pc[r] = "rep_check"
        <4>1. RepCheck(r)
          BY <3>4 DEF ArchiveStep, Dapi, Validate, Move, Check, Write, Count, Replicate,
             RepWrite, RepRead, RepCount, RemovePrev, SpaceRead, SpaceWrite
        <4>u. PICK u \in BOOLEAN : u <=> (db[RepPlace(r)] # None)
          OBVIOUS
        <4>2. job'[r] = [job[r] EXCEPT !.update = u, !.sum = CheckedSum(r, RepPlace(r))]
          BY <1>0, <1>a, <4>1, <4>u, RepCheckEffect
        <4>3. job'[r].update <=> db[RepPlace(r)] # None
          BY <1>0, <4>2, <4>u DEF Jobs
        <4>4. QED BY <2>1, <2>3, <3>1, <3>2, <3>4, <4>3 DEF Progress, Replacing
      <3>5. CASE pc[r] = "move"
        BY <1>1, <2>1, <2>2, <2>3, <3>1, <3>2, <3>5 DEF Progress, Replacing, JobPlaces
      <3>6. CASE pc[r] = "write"
        <4>1. pc'[r] = "count" /\ fs' = fs /\ db' = [db EXCEPT ![OldPlace(r)] = None, ![MainPlace(r)] = r]
          BY <2>1, <3>6 DEF Progress
        <4>2. db'[MainPlace(r)] = r /\ (OldPlace(r) # MainPlace(r) => db'[OldPlace(r)] = None)
          BY <1>1, <2>2, <4>1 DEF JobPlaces
        <4>3. job[r].prev = None => db'[RepPlace(r)] = None
          <5>1. job[r].set \in Sets
            BY <1>0, <1>3, JobOf
          <5>2. Rep(job[r].set) \in Volumes
            BY <5>1 DEF Rep, Volumes
          <5>3. job[r].prev = None => db[RepPlace(r)] = None /\ OldPlace(r) = MainPlace(r)
            BY <2>1, <3>6, <5>2 DEF Replacing, RepPlace, OldPlace
          <5>4. QED BY <1>1, <2>2, <4>1, <5>3 DEF JobPlaces
        <4>4. fs[MainPlace(r)] = r
          BY <2>1, <3>6 DEF Replacing
        <4>5. job[r].prev # None => job[r].prev[2] = "main" /\ job[r].prevVer = job[r].ver
          BY <2>1, <3>6 DEF Replacing
        <4>6. QED BY <2>3, <3>1, <3>2, <4>1, <4>2, <4>3, <4>4, <4>5 DEF Replacing
      <3>7. CASE pc[r] = "rep_copy"
        BY <1>1, <2>1, <2>2, <2>3, <3>1, <3>2, <3>7 DEF Progress, Replacing, JobPlaces
      <3>8. CASE pc[r] = "rep_write"
        <4>1. pc'[r] = "rep_read" /\ fs' = fs /\ db' = [db EXCEPT ![RepPlace(r)] = r]
          BY <2>1, <3>8 DEF Progress
        <4>2. db'[MainPlace(r)] = db[MainPlace(r)]
          BY <1>1, <2>2, <4>1 DEF JobPlaces
        <4>3. OldPlace(r) # MainPlace(r) => db'[OldPlace(r)] = None
          <5>1. OldPlace(r) # MainPlace(r) => OldPlace(r)[1] = job[r].prev /\ job[r].prev # None
            BY DEF OldPlace, Place
          <5>2. RepPlace(r)[1] = Rep(job[r].set) /\ Rep(job[r].set)[2] = "rep"
            BY DEF RepPlace, Rep, Place
          <5>3. job[r].prev # None => job[r].prev[2] = "main"
            BY <2>1, <3>8 DEF Replacing
          <5>4. OldPlace(r) # MainPlace(r) => OldPlace(r) # RepPlace(r) /\ db[OldPlace(r)] = None
            BY <2>1, <3>8, <5>1, <5>2, <5>3 DEF Replacing
          <5>5. QED BY <1>1, <2>2, <4>1, <5>4 DEF JobPlaces
        <4>4. QED BY <2>1, <2>3, <3>1, <3>2, <3>8, <4>1, <4>2, <4>3 DEF Replacing
      <3>9. CASE pc[r] \in {"count", "rep_read", "rep_count", "rm_prev"}
        BY <2>1, <2>3, <3>1, <3>2, <3>9 DEF Progress, Replacing
      <3>10. QED BY <1>3, <2>5, <3>3, <3>4, <3>5, <3>6, <3>7, <3>8, <3>9
    <2>6. QED BY <2>4, <2>5
  <1>4. CASE pc[r] \in {"space", "space_write"}
    BY <1>0, <1>4 DEF ArchiveStep, Dapi, Validate, Move, Check, Write, Count, Replicate, RepCheck,
       RepWrite, RepRead, RepCount, RemovePrev, SpaceRead, SpaceWrite, Handling
  <1>5. QED BY <1>0, <1>2, <1>3, <1>4 DEF Outcome

\* A version keeps its one row of a Main Disk: it is the one that is replaced.
LEMMA OneMainStep ==
    ASSUME Undisturbed, OverInv, NEW a \in Requests, ArchiveStep(a), NEW f \in FileIds, f \notin raced', NEW v \in Versions
    PROVE  OneMain(f, v)'
  <1>0. BaseInv /\ Recorded /\ a \in Actors /\ VersionInv /\ db \in [Places -> Requests \cup {None}] /\ None \notin Requests
    BY ActorsAssumption DEF OverInv, VersionInv, BaseInv, TypeOK, Actors
  <1>1. f \notin raced /\ OneMain(f, v)
    BY <1>0, RacedStep DEF OverInv
  <1>p. ASSUME NEW s \in Sets
        PROVE  /\ <<Main(s), f, v>> \in Places /\ <<Main(s), f, v>>[2] = f /\ <<Main(s), f, v>>[3] = v
    BY DEF Main, Places, Volumes
  <1>2. CASE \A p \in Places : p[2] = f /\ p[3] = v => db'[p] = db[p]
    <2>1. HasRow(f, v)' => HasRow(f, v)
      BY <1>2 DEF HasRow, Rows
    <2>2. \A s \in Sets : db'[<<Main(s), f, v>>] = db[<<Main(s), f, v>>]
      BY <1>2, <1>p
    <2>3. QED BY <1>1, <2>1, <2>2 DEF OneMain
  <1>3. CASE ~\A p \in Places : p[2] = f /\ p[3] = v => db'[p] = db[p]
    <2>1. pc[a] \in Handling /\ job[a].file = f
      BY <1>0, <1>3, OverOther
    <2>2. Progress(a) /\ Replacing(a) /\ JobPlaces(a)
      BY <1>0, <1>1, <2>1, AloneProgress, HandledPlaces DEF OverInv
    <2>3. pc[a] \in {"write", "rep_write"} /\ job[a].ver = v
      BY <1>0, <1>3, <2>1, <2>2 DEF Progress, Handling, JobPlaces
    <2>4. job[a].set \in Sets /\ job[a].prev \in Volumes \cup {None}
      BY <1>0, <2>1, JobOf DEF Handling, BaseInv, TypeOK, Jobs
    <2>5. MainPlace(a) = <<Main(job[a].set), f, v>>
      BY <2>1, <2>3 DEF MainPlace, Place
    <2>6. CASE pc[a] = "rep_write"
      <3>1. db' = [db EXCEPT ![RepPlace(a)] = a]
        BY <2>2, <2>6 DEF Progress
      <3>2. \A s \in Sets : RepPlace(a) # <<Main(s), f, v>>
        BY DEF RepPlace, Place, Rep, Main
      <3>3. \A s \in Sets : db'[<<Main(s), f, v>>] = db[<<Main(s), f, v>>]
        BY <1>0, <1>p, <3>1, <3>2
      <3>4. db[MainPlace(a)] # None
        BY <1>0, <2>2, <2>6 DEF Replacing, Registered, Moved, Handling
      <3>5. QED BY <1>1, <2>4, <2>5, <3>3, <3>4 DEF OneMain
    <2>7. CASE pc[a] = "write"
      <3>1. db' = [db EXCEPT ![OldPlace(a)] = None, ![MainPlace(a)] = a]
        BY <2>2, <2>7 DEF Progress
      <3>2. db'[MainPlace(a)] # None
        BY <1>0, <2>2, <3>1 DEF JobPlaces
      <3>3. ASSUME NEW s \in Sets, s # job[a].set PROVE db'[<<Main(s), f, v>>] = None
        <4>1. <<Main(s), f, v>> # MainPlace(a)
          BY <2>5, <3>3 DEF Main
        <4>2. CASE job[a].prev = None
          <5>1. Main(s) \in Volumes
            BY DEF Main, Volumes
          <5>2. db[<<Main(s), f, v>>] = None
            BY <2>1, <2>2, <2>3, <2>7, <4>2, <5>1 DEF Replacing, Place
          <5>3. QED BY <1>0, <1>p, <2>2, <3>1, <4>1, <5>2 DEF JobPlaces
        <4>3. CASE job[a].prev # None
          <5>1. job[a].prev[2] = "main" /\ db[OldPlace(a)] # None /\ OldPlace(a) = <<job[a].prev, f, v>>
            BY <2>1, <2>2, <2>3, <2>7, <4>3 DEF Replacing, OldPlace, Place, Handling
          <5>2. PICK t \in Sets : job[a].prev = Main(t)
            BY <2>4, <4>3, <5>1 DEF Volumes, Main
          <5>3. db[<<Main(s), f, v>>] # None => s = t
            BY <1>1, <5>1, <5>2 DEF OneMain
          <5>4. CASE s = t
            <6>1. <<Main(s), f, v>> = OldPlace(a)
              BY <5>1, <5>2, <5>4
            <6>2. QED BY <1>0, <2>2, <3>1, <4>1, <6>1 DEF JobPlaces
          <5>5. CASE s # t
            <6>1. db[<<Main(s), f, v>>] = None
              BY <5>3, <5>5
            <6>2. QED BY <1>0, <1>p, <2>2, <3>1, <4>1, <6>1 DEF JobPlaces
          <5>6. QED BY <5>4, <5>5
        <4>4. QED BY <4>2, <4>3
      <3>4. QED BY <2>4, <2>5, <3>2, <3>3 DEF OneMain
    <2>8. QED BY <2>3, <2>6, <2>7
  <1>4. QED BY <1>2, <1>3

\* A row describes the file at its place, unless that was just replaced.
LEMMA OverRows ==
    ASSUME Undisturbed, OverInv, NEW a \in Requests, ArchiveStep(a)
    PROVE  RowsButTouched'
  <1>0. /\ BaseInv /\ Recorded /\ a \in Actors /\ TypeOK /\ None \notin Requests
        /\ fs \in [Places -> Requests \cup {None}] /\ db \in [Places -> Requests \cup {None}]
    BY ActorsAssumption DEF OverInv, VersionInv, BaseInv, TypeOK, Actors
  <1> SUFFICES ASSUME NEW p \in Places, p[2] \notin raced', db'[p] # None, fs'[p] # db'[p]
               PROVE  \E r \in Requests : p \in Touched(r)'
    BY DEF RowsButTouched
  <1>1. p[2] \notin raced
    BY <1>0, RacedStep
  <1>2. ASSUME NEW r \in Requests, p \in Touched(r)
        PROVE  pc[r] \in Handling /\ p[2] = job[r].file
    <2>1. pc[r] \in Handling /\ r \in Actors
      BY <1>2 DEF Touched, Handling, Actors
    <2>2. JobPlaces(r)
      BY <1>0, <2>1, HandledPlaces
    <2>3. QED BY <1>2, <2>1, <2>2 DEF Touched, JobPlaces
  <1>3. ASSUME NEW r \in Requests, r # a, p \in Touched(r) PROVE p \in Touched(r)'
    <2>1. pc[r] \in Handling /\ job[r].file \notin raced
      BY <1>1, <1>2, <1>3
    <2>2. QED BY <1>3, <2>1, ReplacingKept DEF OverInv
  <1>4. CASE fs'[p] = fs[p] /\ db'[p] = db[p] /\ p \notin Touched(a)
    BY <1>1, <1>3, <1>4 DEF OverInv, RowsButTouched
  <1>5. CASE ~(fs'[p] = fs[p] /\ db'[p] = db[p] /\ p \notin Touched(a))
    <2>1. pc[a] \in Handling /\ job[a].file = p[2]
      BY <1>0, <1>2, <1>5, OverOther
    <2>2. Progress(a) /\ Replacing(a) /\ JobPlaces(a)
      BY <1>0, <1>1, <2>1, AloneProgress, HandledPlaces DEF OverInv
    <2>3. p \notin Touched(a) => db[p] = None \/ fs[p] = db[p]
      <3>1. \A r \in Requests : p \in Touched(r) => r = a
        BY <1>0, <1>1, <1>2, <2>1 DEF Recorded, Actors
      <3>2. QED BY <1>1, <3>1 DEF OverInv, RowsButTouched
    <2>4. pc[a] \notin {"dapi", "validate"} => MainPlace(a)' = MainPlace(a) /\ RepPlace(a)' = RepPlace(a)
      BY <1>0, FrameStep, SamePlaces
    <2>5. CASE pc[a] = "move"
      <3>1. pc'[a] = "check" /\ db' = db /\ fs' = [fs EXCEPT ![MainPlace(a)] = a]
        BY <2>2, <2>5 DEF Progress
      <3>2. p = MainPlace(a)
        BY <1>0, <2>2, <2>3, <2>5, <3>1 DEF Touched, JobPlaces
      <3>3. QED BY <2>4, <2>5, <3>1, <3>2 DEF Touched
    <2>6. CASE pc[a] \in {"check", "rep_check"}
      BY <2>2, <2>3, <2>4, <2>6 DEF Progress, Touched
    <2>7. CASE pc[a] = "write"
      <3>1. fs' = fs /\ db' = [db EXCEPT ![OldPlace(a)] = None, ![MainPlace(a)] = a] /\ fs[MainPlace(a)] = a
        BY <2>2, <2>7 DEF Progress, Replacing, Moved, Handling
      <3>2. p # MainPlace(a) /\ db'[p] = db[p]
        BY <1>0, <2>2, <3>1 DEF JobPlaces
      <3>3. QED BY <2>3, <2>7, <3>1, <3>2 DEF Touched
    <2>8. CASE pc[a] = "rep_copy"
      <3>1. db' = db /\ fs' # fs
        BY <2>2, <2>3, <2>8 DEF Progress, Touched
      <3>2. pc'[a] = "rep_check" /\ fs' = [fs EXCEPT ![RepPlace(a)] = a]
        BY <2>2, <2>8, <3>1 DEF Progress
      <3>3. p = RepPlace(a)
        BY <1>0, <2>2, <2>3, <2>8, <3>1, <3>2 DEF Touched, JobPlaces
      <3>4. QED BY <2>4, <2>8, <3>2, <3>3 DEF Touched
    <2>9. CASE pc[a] = "rep_write"
      <3>1. fs' = fs /\ db' = [db EXCEPT ![RepPlace(a)] = a] /\ fs[RepPlace(a)] = a
        BY <2>2, <2>9 DEF Progress, Replacing
      <3>2. p # RepPlace(a) /\ db'[p] = db[p]
        BY <1>0, <2>2, <3>1 DEF JobPlaces
      <3>3. QED BY <2>3, <2>9, <3>1, <3>2 DEF Touched
    <2>10. CASE pc[a] = "rm_prev"
      <3>1. db' = db /\ fs' # fs
        BY <2>2, <2>3, <2>10 DEF Progress, Touched
      <3>2. OldPlace(a) # MainPlace(a) /\ fs' = [fs EXCEPT ![OldPlace(a)] = None]
        BY <2>2, <2>10, <3>1 DEF Progress
      <3>3. db[OldPlace(a)] = None
        BY <2>2, <2>10, <3>2 DEF Replacing, Registered, Moved, Handling
      <3>4. p # OldPlace(a)
        BY <3>1, <3>3
      <3>5. QED BY <1>0, <2>2, <2>3, <2>10, <3>1, <3>2, <3>4 DEF Touched, JobPlaces
    <2>11. CASE pc[a] \in {"validate", "count", "rep_read", "rep_count"}
      BY <2>2, <2>3, <2>11 DEF Progress, Touched
    <2>12. QED BY <2>1, <2>5, <2>6, <2>7, <2>8, <2>9, <2>10, <2>11 DEF Handling
  <1>6. QED BY <1>4, <1>5

\* A step of postFileRecepHandling preserves the invariant.
LEMMA OverArchive ==
    ASSUME Undisturbed, OverInv, NEW a \in Actors, ArchiveStep(a)
    PROVE  OverInv'
  <1>0. BaseInv /\ VersionInv /\ Recorded /\ NothingBuffered /\ a \in Requests
    <2>1. BaseInv /\ NothingBuffered
      BY DEF OverInv, VersionInv
    <2>2. QED BY <2>1, OverQuietJanitor DEF OverInv
  <1>1. VersionInv' /\ Recorded' /\ NothingBuffered'
    BY <1>0, VersionArchive, RecordedStep, OverQuietJanitor
  <1>2. \A f \in FileIds \ raced', v \in Versions : OneMain(f, v)'
    BY <1>0, OneMainStep
  <1>3. \A r \in Requests : Replaces(r)'
    BY <1>0, ReplacesStep
  <1>4. ASSUME NEW r \in Requests, pc'[r] \in Handling, job'[r].file \notin raced' PROVE Replacing(r)'
    <2>1. StepFrame(a) /\ raced \subseteq raced' /\ r \in Actors
      BY <1>0, FrameStep, RacedStep DEF Actors
    <2>2. job[r].file \notin raced
      BY <1>4, <2>1 DEF StepFrame
    <2>3. CASE r = a
      <3>1. job[a].file \notin raced'
        BY <1>4, <2>1, <2>3 DEF StepFrame
      <3>2. QED BY <1>0, <1>4, <2>2, <2>3, <3>1, ReplacingStep
    <2>4. CASE r # a
      <3>1. pc[r] \in Handling /\ Replacing(r)
        BY <1>4, <2>1, <2>2, <2>4 DEF StepFrame, OverInv
      <3>2. QED BY <1>0, <2>2, <2>4, <3>1, ReplacingKept
    <2>5. QED BY <2>3, <2>4
  <1>5. RowsButTouched'
    BY <1>0, OverRows
  <1>6. QED BY <1>1, <1>2, <1>3, <1>4, <1>5 DEF OverInv

\* The steps that leave files and rows alone.
LEMMA OverQuiet ==
    ASSUME OverInv, VersionInv', NothingBuffered', UNCHANGED <<fs, db, raced>>,
           \A b \in Actors : pc[b] \in Handling \/ pc'[b] \in Handling => pc'[b] = pc[b] /\ job'[b] = job[b],
           \A r \in Requests : Replaces(r)'
    PROVE  OverInv'
  <1>0. \A r \in Requests : r \in Actors
    BY DEF Actors
  <1>1. Recorded'
    BY DEF OverInv, Recorded
  <1>2. \A f \in FileIds \ raced', v \in Versions : OneMain(f, v)'
    BY DEF OverInv, OneMain, HasRow, Rows
  <1>3. ASSUME NEW r \in Requests, pc[r] \in Handling
        PROVE  /\ pc'[r] = pc[r] /\ job'[r] = job[r]
               /\ MainPlace(r)' = MainPlace(r) /\ RepPlace(r)' = RepPlace(r) /\ OldPlace(r)' = OldPlace(r)
               /\ \A vol : Place(job[r], vol)' = Place(job[r], vol)
    BY <1>0, <1>3 DEF MainPlace, RepPlace, OldPlace, Place
  <1>4. \A r \in Requests : pc'[r] \in Handling => job'[r].file \in raced' \/ Replacing(r)'
    <2> SUFFICES ASSUME NEW r \in Requests, pc'[r] \in Handling, job'[r].file \notin raced' PROVE Replacing(r)'
      OBVIOUS
    <2>1. pc[r] \in Handling /\ Replacing(r)
      BY <1>0 DEF OverInv
    <2>2. QED BY <1>3, <2>1 DEF Replacing
  <1>5. \A r \in Requests : pc[r] \in Handling => Touched(r)' = Touched(r)
    BY <1>3 DEF Touched
  <1>6. \A r \in Requests, p \in Places : p \in Touched(r) => pc[r] \in Handling
    BY DEF Touched, Handling
  <1>7. RowsButTouched'
    <2> SUFFICES ASSUME NEW p \in Places, db'[p] # None, fs'[p] # db'[p], p[2] \notin raced'
                 PROVE  \E r \in Requests : p \in Touched(r)'
      BY DEF RowsButTouched
    <2>1. PICK r \in Requests : p \in Touched(r)
      BY DEF OverInv, RowsButTouched
    <2>2. QED BY <1>5, <1>6, <2>1
  <1>8. QED BY <1>1, <1>2, <1>4, <1>7 DEF OverInv

\* The other steps preserve the invariant.
LEMMA OverOthers ==
    ASSUME Undisturbed, OverInv, Next, \A a \in Actors : ~ArchiveStep(a)
    PROVE  OverInv'
  <1>0. /\ BaseInv /\ TypeOK /\ NothingBuffered /\ VersionInv' /\ UNCHANGED <<fs, db>>
        /\ Janitor \notin Requests /\ Actors = Requests \cup {Janitor} /\ None \notin Requests
    <2>1. BaseInv
      BY DEF OverInv, VersionInv
    <2>2. QED BY <2>1, OnlyArchiving, VersionOthers, ActorsAssumption DEF OverInv, BaseInv, Actors
  <1> USE DEF Goto, bufferVars, Handling
  <1>1. ASSUME NEW r \in Requests, Start(r) PROVE OverInv'
    <2>1. pc[r] = "new" /\ UNCHANGED <<backlog, todo, raced>>
      BY <1>0, <1>1, StartEffect
    <2>2. \E j, l : /\ job' = [job EXCEPT ![r] = j] /\ pc' = [pc EXCEPT ![r] = l]
                    /\ (l = "receive" /\ j.prev = None /\ j.sum = None) \/ (l = "done" /\ j = job[r])
      <3>1. CASE Started(r)
        <4>1. PICK f, s, o, w : job' = [job EXCEPT ![r] = NewJob(r, f, o, w, s)] /\ pc' = [pc EXCEPT ![r] = "receive"]
          BY <3>1 DEF Started
        <4>2. NewJob(r, f, o, w, s).prev = None /\ NewJob(r, f, o, w, s).sum = None
          BY DEF NewJob
        <4>3. QED BY <4>1, <4>2
      <3>2. CASE job' = job /\ pc' = [pc EXCEPT ![r] = "done"]
        <4>1. job' = [job EXCEPT ![r] = job[r]]
          BY <1>0, <3>2 DEF TypeOK
        <4>2. QED BY <3>2, <4>1
      <3>3. QED BY <1>0, <1>1, <3>1, <3>2, StartEffect
    <2>3. /\ \A b \in Actors : b # r => pc'[b] = pc[b] /\ job'[b] = job[b]
          /\ \/ pc'[r] = "receive" /\ job'[r].prev = None /\ job'[r].sum = None
             \/ pc'[r] = "done" /\ job'[r] = job[r]
      BY <1>0, <2>2 DEF TypeOK
    <2>4. \A q \in Requests : Replaces(q)'
      BY <1>0, <2>3 DEF OverInv, Replaces
    <2>5. NothingBuffered'
      BY <1>0, <2>1, <2>3 DEF NothingBuffered
    <2>6. QED BY <1>0, <2>1, <2>3, <2>4, <2>5, OverQuiet
  <1>2. ASSUME NEW r \in Requests, Outer(r) PROVE OverInv'
    <2>1. /\ \A b \in Actors : b # r => pc'[b] = pc[b]
          /\ UNCHANGED <<job, todo, raced>>
          /\ pc[r] \in {"receive", "reply"} /\ pc'[r] \in {"dapi", "done"}
          /\ pc'[r] = "dapi" => pc[r] = "receive"
      <3>1. pc[r] \notin {"bl_data", "bl_req", "bl_done"}
        BY <1>0 DEF NothingBuffered
      <3>2. QED BY <1>0, <1>2, <3>1, OuterEffect
    <2>2. backlog' = backlog
      BY <1>0, <1>2, <2>1 DEF Outer, Receive, Reply, BufferData, BufferRequest, BufferDone, Abort
    <2>3. \A q \in Requests : Replaces(q)'
      BY <1>0, <2>1 DEF OverInv, Replaces
    <2>4. NothingBuffered'
      BY <1>0, <2>1, <2>2 DEF NothingBuffered
    <2>5. QED BY <1>0, <2>1, <2>3, <2>4, OverQuiet
  <1>3. CASE JanitorScan \/ JanitorRemove
    BY <1>0, <1>3 DEF JanitorScan, JanitorRemove, NothingBuffered
  <1>4. CASE \E r \in Requests : JanitorTake(r)
    BY <1>0, <1>4 DEF JanitorTake, NothingBuffered
  <1>5. CASE Crash
    BY <1>5 DEF Crash, Fault, Undisturbed
  <1>6. QED BY <1>1, <1>2, <1>3, <1>4, <1>5, NextCases

\* The invariant implies that archived files are intact.
LEMMA OverIntact == OverInv => Intact
  <1> SUFFICES ASSUME OverInv, NEW p \in Places, db[p] # None, fs[p] # db[p], p[2] \notin raced
               PROVE  \E a \in Actors : InFlight(a, p[2]) /\ job[a].over
    BY DEF Intact
  <1>0. BaseInv
    BY DEF OverInv, VersionInv
  <1>1. PICK r \in Requests : p \in Touched(r)
    BY DEF OverInv, RowsButTouched
  <1>2. pc[r] \in {"check", "write", "rep_check", "rep_write"} /\ pc[r] \in Handling /\ r \in Actors
    BY <1>1 DEF Touched, Handling, Actors
  <1>3. JobPlaces(r) /\ job[r].set \in Sets
    BY <1>0, <1>2, HandledPlaces, JobOf
  <1>4. p[2] = job[r].file
    BY <1>1, <1>2, <1>3 DEF Touched, JobPlaces
  <1>5. Replacing(r) /\ Replaces(r)
    BY <1>2, <1>4 DEF OverInv
  <1>6. job[r].prev # None
    <2>1. Main(job[r].set) \in Volumes
      BY <1>3 DEF Main, Volumes
    <2>2. CASE pc[r] \in {"check", "write"}
      BY <1>1, <1>5, <2>1, <2>2 DEF Touched, Replacing, MainPlace
    <2>3. CASE pc[r] \in {"rep_check", "rep_write"}
      BY <1>1, <1>5, <2>3 DEF Touched, Replacing
    <2>4. QED BY <1>2, <2>2, <2>3
  <1>7. QED BY <1>2, <1>4, <1>5, <1>6 DEF Replaces, InFlight

\* Archived files that clients overwrite, for any number of requests that overwrite or add versions,
\* of File IDs, storage sets and versions: a row of ngas_files describes the file at its place
\* unless that file is just being overwritten, two actors handled its File ID at once or
\* _validate_overwrite, which sees rows of this host in good status only, took a copy of
\* another version or a replica for the old one; and updateFileInfoDb finds the previous
\* version.  The move and the DB statements must not fail and the server not be killed, which
\* would leave the new file with the row of the old one; reception, DAPI, replication and the
\* rows of disks may fail, and disks run full.
THEOREM OverwritingIsSafe ==
    ASSUME Faults \cap {"move", "db", "crash"} = {}
    PROVE  Spec => []OverwriteSafe
  <1>0. Undisturbed
    BY DEF Undisturbed
  <1>1. Init => OverInv
    <2> SUFFICES ASSUME Init PROVE OverInv
      OBVIOUS
    <2>1. BaseInv /\ Actors = Requests \cup {Janitor} /\ Janitor \notin Requests
      BY BaseInit, ActorsAssumption DEF Actors
    <2>2. /\ pc[Janitor] = "idle" /\ \A r \in Requests : pc[r] = "new"
          /\ \A r \in Requests : backlog[r] = {} /\ job[r] = NoJob
          /\ \A p \in Places : db[p] = None
          /\ todo = {} /\ raced = {}
      BY <2>1 DEF Init
    <2>3. VersionInv
      BY <2>1, <2>2 DEF VersionInv, NoGap, Summed, OverwrittenKnown, HasRow, Rows, Validated,
         Registered, Moved, Handling
    <2>4. Recorded /\ NothingBuffered
      BY <2>1, <2>2 DEF Recorded, NothingBuffered, Handling
    <2>5. ASSUME NEW f \in FileIds, NEW v \in Versions PROVE OneMain(f, v)
      <3>1. \A s \in Sets : <<Main(s), f, v>> \in Places
        BY DEF Main, Places, Volumes
      <3>2. QED BY <2>2, <3>1 DEF OneMain, HasRow, Rows
    <2>6. \A r \in Requests : Replaces(r) /\ pc[r] \notin Handling
      BY <2>2 DEF Replaces, Handling, NoJob
    <2>7. QED BY <2>2, <2>3, <2>4, <2>5, <2>6 DEF OverInv, RowsButTouched
  <1>2. OverInv /\ [Next]_vars => OverInv'
    <2> SUFFICES ASSUME OverInv, [Next]_vars PROVE OverInv'
      OBVIOUS
    <2>1. CASE UNCHANGED vars
      <3>1. VersionInv /\ BaseInv'
        BY <2>1, BaseStep DEF OverInv, VersionInv
      <3>2. UNCHANGED <<pc, job, fs, db, raced, backlog, todo>>
        BY <2>1 DEF vars, bufferVars
      <3>3. VersionInv'
        BY <3>1, <3>2, VersionQuiet
      <3>4. NothingBuffered' /\ \A r \in Requests : Replaces(r)'
        BY <3>2 DEF OverInv, NothingBuffered, Replaces
      <3>5. QED BY <3>2, <3>3, <3>4, OverQuiet
    <2>2. CASE Next
      BY <1>0, <2>2, OverArchive, OverOthers
    <2>3. QED BY <2>1, <2>2
  <1>3. OverInv => OverwriteSafe
    BY OverIntact DEF OverwriteSafe, OverInv, VersionInv, PreviousVersionKnown, Handling
  <1>4. QED BY <1>1, <1>2, <1>3, PTL DEF Spec
=============================================================================
