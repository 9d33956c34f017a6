------------------------------ MODULE Database ------------------------------
(***************************************************************************)
(* The DB layer: ngas_files and ngas_disks, the queries on them and the    *)
(* methods that change them, called by the threads of several servers.  A  *)
(* statement is atomic; a method that reads, computes and writes is        *)
(* several statements.  Every statement takes a connection of the pool of  *)
(* its server and gives it back; a cursor keeps one while its rows are     *)
(* worked on.                                                              *)
(***************************************************************************)
EXTENDS Integers, Sequences, FiniteSets

CONSTANTS
    DbDisks, DbFiles, DbVersions, DbSizes, \* identifiers and sizes of the rows
    DbHosts,     \* the servers
    DbClients,   \* the threads that call the DB
    DbHostOf,    \* the server of each thread
    DbPool,      \* maxpoolcons: the connections of a server
    DbMaxOps,    \* bound on the calls
    DbNone       \* a parameter that is not given, no row

ASSUME DbConfig ==
    /\ DbVersions \subseteq Nat \ {0} /\ DbSizes \subseteq Nat /\ DbPool \in Nat \ {0} /\ DbMaxOps \in Nat
    /\ DbHostOf \in [DbClients -> DbHosts]

VARIABLES
    nf,     \* ngas_files: a set of rows
    nd,     \* ngas_disks: the row of each disk, or DbNone
    cl,     \* cl[c]: the method c is in, the next statement, its arguments and what it read
    cursor, \* the threads with a cursor open
    used,   \* the connections of each server that cursors keep
    sem,    \* the holder of _globalDbSem of each server
    stale,  \* disks whose counters were written from a read that was out of date
    under,  \* disks deleted while a row was being written to them
    ops     \* the calls so far

dbVars == <<nf, nd, cl, cursor, used, sem, stale, under, ops>>

OK == <<0, 0, 0, 0, 0, 0, 0, 0>>       \* NGAMS_FILE_STATUS_OK
ChkActive == <<0, 0, 0, 0, 0, 0, 0, 1>>  \* NGAMS_FILE_CHK_ACTIVE
Quiet == [op |-> "none", pc |-> 0, d |-> DbNone, f |-> DbNone, v |-> 0, z |-> 0, r |-> DbNone]

DbInit ==
    /\ \E d \in DbDisks, h \in DbHosts : nd = [x \in DbDisks |-> IF x = d THEN [host |-> h, last |-> h, mounted |-> 1, n |-> 0, bytes |-> 0,
                                                                     completed |-> 0, check |-> 0] ELSE DbNone]
    /\ nf = {} /\ cl = [c \in DbClients |-> Quiet] /\ cursor = {} /\ used = [h \in DbHosts |-> 0]
    /\ sem = [h \in DbHosts |-> DbNone] /\ stale = {} /\ under = {} /\ ops = 0

-----------------------------------------------------------------------------
(***************************************************************************)
(* Queries on ngas_files.                                                  *)
(***************************************************************************)

Given(p, x) == p = DbNone \/ p = x
Sum(S) == LET sum[T \in SUBSET S] == IF T = {} THEN 0 ELSE LET r == CHOOSE x \in T : TRUE IN r.z + sum[T \ {r}]
          IN sum[S]

\* With a File ID alone the answer is no if there are several versions.
fileInDb(d, f, v) == Cardinality({r \in nf : r.d = d /\ r.f = f /\ (v = -1 \/ r.v = v)}) = 1

getFileInfoList(d, f, v, ign) ==
    {r \in nf : Given(d, r.d) /\ Given(f, r.f) /\ (v = -1 \/ r.v = v) /\ Given(ign, r.ign)}

getLatestFileVersion(f) ==
    LET vs == {r.v : r \in getFileInfoList(DbNone, f, -1, DbNone)}
    IN IF vs = {} THEN -1 ELSE CHOOSE v \in vs : \A w \in vs : w <= v

isLastVersion(f, v) == v = getLatestFileVersion(f)

\* getFileStatus, getFileChecksum, getFileChecksumValueAndVariant, getIngDate: a column of
\* one row, or an answer for none
RowOf(d, f, v) == LET rs == getFileInfoList(d, f, v, DbNone) IN IF rs = {} THEN DbNone ELSE CHOOSE r \in rs : TRUE

\* On any disk: the copies of a version may differ in size.
getFileSize(f, v) == {r.z : r \in getFileInfoList(DbNone, f, v, DbNone)}

getSumBytesStored(d) == Sum(getFileInfoList(d, DbNone, -1, DbNone))

-----------------------------------------------------------------------------
(***************************************************************************)
(* Queries on ngas_disks.                                                  *)
(***************************************************************************)

diskInDb(d) == nd[d] # DbNone
getDiskIds == {d \in DbDisks : diskInDb(d)}

\* getLogicalNameFromDiskId, getDiskCompleted, getSlotIdFromDiskId, getDiskInfoFromDiskId,
\* getMtPtFromDiskId: the row, or None
DiskRow(d) == nd[d]

\* getLogicalNamesMountedDisks, getDiskIdsMtPtsMountedDisks, getSlotIdsMountedDisks,
\* getDiskIdsMountedDisks
MountedDisks(h) == {d \in getDiskIds : nd[d].host = h /\ nd[d].mounted = 1}

getDiskInfoForSlotsAndHost(h) == {d \in getDiskIds : nd[d].host = h}
getAvailableVolumes(h) == {d \in getDiskInfoForSlotsAndHost(h) : nd[d].completed = 0}

\* The one with most bytes, to fill it first
getBestTargetDisk(ds) ==
    LET open == {d \in ds \cap getDiskIds : nd[d].completed = 0}
    IN {d \in open : \A e \in open : nd[e].bytes <= nd[d].bytes}

\* The earliest check of the disks of a host: a disk that was never checked does not count
getMinLastDiskCheck(h) ==
    LET cs == {nd[d].check : d \in getDiskInfoForSlotsAndHost(h)} \ {0}
    IN IF cs = {} THEN DbNone ELSE CHOOSE x \in cs : \A y \in cs : x <= y

-----------------------------------------------------------------------------
(***************************************************************************)
(* Joins of the two.                                                       *)
(***************************************************************************)

Joined == {r \in nf : diskInDb(r.d)}

buildFileSummary1Query(h, ds, fs, ign, sts) ==
    {r \in Joined : /\ Given(ign, r.ign) /\ Given(h, nd[r.d].host)
                    /\ (ds = {} \/ r.d \in ds) /\ (fs = {} \/ r.f \in fs) /\ (sts = {} \/ r.st \in sts)}
getFileSummary1(h, ds, fs, ign) == buildFileSummary1Query(h, ds, fs, ign, {OK})
files_in_host(h) == buildFileSummary1Query(h, {}, {}, 0, {OK})
getFileSummary1SingleFile(d, f, v) == {r \in Joined : r.d = d /\ r.f = f /\ r.v = v}

\* ignore = 0 is taken for a parameter that is not given.
getFileSummary2(h, fs, d, ign) ==
    {r \in Joined : /\ (ign \in {DbNone, 0} \/ r.ign = ign) /\ Given(h, nd[r.d].host)
                    /\ Given(d, r.d) /\ (fs = {} \/ r.f \in fs)}

\* What may be retrieved
getFileSummary3(f, h, d, v) ==
    {r \in Joined : /\ r.f = f /\ r.ign = 0 /\ r.st = OK /\ nd[r.d].host \in DbHosts
                    /\ Given(h, nd[r.d].host) /\ Given(d, r.d) /\ (v <= 0 \/ r.v = v)}

\* Mutant: a file marked bad, but not to be ignored, is not reported.
SpuriousIgnoredOnly(h, d, f) ==
    {r \in Joined : r.ign = 1 /\ Given(h, nd[r.d].host) /\ Given(d, r.d) /\ Given(f, r.f)}

getFileSummarySpuriousFiles1(h, d, f) ==
    {r \in Joined : (r.ign = 1 \/ r.st \notin {OK, ChkActive}) /\ Given(h, nd[r.d].host) /\ Given(d, r.d) /\ Given(f, r.f)}

getFileInfoFromFileIdHostId(h, f, v, d) ==
    {r \in Joined : r.f = f /\ r.v = v /\ nd[r.d].host = h /\ nd[r.d].mounted = 1 /\ Given(d, r.d)}

getFileInfoFromFileId(f, v, d, ign) ==
    {r \in Joined : /\ nd[r.d].host \in DbHosts /\ (ign \in {DbNone, 0} \/ r.ign = ign)
                    /\ Given(f, r.f) /\ (v = -1 \/ r.v = v) /\ Given(d, r.d)}

\* Without a condition the rows of disks that are not in the DB count as well.
getNumberOfFiles(d, f, v, ign) ==
    Cardinality({r \in IF d = DbNone /\ f = DbNone /\ v = -1 /\ ign \in {DbNone, 0} THEN nf ELSE Joined :
                    Given(d, r.d) /\ Given(f, r.f) /\ (v <= 0 \/ r.v = v) /\ (ign \in {DbNone, 0} \/ r.ign = ign)})

\* The rows of a cluster, by the host of their disk or the last one it was in
dumpFileInfoCluster(hs) == {r \in Joined : nd[r.d].host \in hs \/ nd[r.d].last \in hs}

getClusterReadyArchivingUnits(hs) == {h \in hs : \E d \in MountedDisks(h) : nd[d].completed = 0}

-----------------------------------------------------------------------------
(***************************************************************************)
(* Connections and calls.                                                  *)
(***************************************************************************)

\* query2 and transaction: the pool blocks when no connection is left
Statement(c) == used[DbHostOf[c]] < DbPool

Begin(c, op, d, f, v, z) ==
    /\ cl[c] = Quiet /\ ops < DbMaxOps /\ ops' = ops + 1
    /\ cl' = [cl EXCEPT ![c] = [op |-> op, pc |-> 1, d |-> d, f |-> f, v |-> v, z |-> z, r |-> DbNone]]
    /\ UNCHANGED <<nf, nd, cursor, used, sem, stale, under>>

At(c, op, pc) == cl[c].op = op /\ cl[c].pc = pc /\ Statement(c)
Goes(c, pc, r) == cl' = [cl EXCEPT ![c].pc = pc, ![c].r = r]
Returns(c) == cl' = [cl EXCEPT ![c] = Quiet]

\* Threads that have read the counters of d and will write them
Readers(d) == {c \in DbClients : cl[c].d = d /\ cl[c].r # DbNone /\ cl[c].op \in {"status", "delete", "disk"}}
\* The counters of d change, by c: what others have read is out of date
Overtaken(c, d) == stale' = IF Readers(d) \ {c} = {} THEN stale ELSE stale \cup {d}

\* getFileInfoList, getFileSummary1 and the others that yield rows: a connection is kept
\* while the caller works on them, with statements of its own.
dbCursor(c) ==
    /\ cl[c] = Quiet /\ c \notin cursor /\ Statement(c) /\ ops < DbMaxOps /\ ops' = ops + 1
    /\ cursor' = cursor \cup {c} /\ used' = [used EXCEPT ![DbHostOf[c]] = @ + 1]
    /\ UNCHANGED <<nf, nd, cl, sem, stale, under>>

CloseCursor(c) ==
    /\ c \in cursor /\ cl[c] = Quiet /\ cursor' = cursor \ {c}
    /\ used' = [used EXCEPT ![DbHostOf[c]] = @ - 1]
    /\ UNCHANGED <<nf, nd, cl, sem, stale, under, ops>>

-----------------------------------------------------------------------------
(***************************************************************************)
(* Methods on ngas_files.                                                  *)
(***************************************************************************)

\* writeFileEntry: INSERT or UPDATE, by whether the row was there; a new row is counted.
\* An INSERT that comes second fails on the primary key.
WriteFileCheck(c) ==
    /\ At(c, "file", 1) /\ Goes(c, 2, fileInDb(cl[c].d, cl[c].f, cl[c].v))
    /\ UNCHANGED <<nf, nd, cursor, used, sem, stale, under, ops>>

NewRow(a) == [d |-> a.d, f |-> a.f, v |-> a.v, z |-> a.z, ign |-> 0, st |-> OK]
Same(a) == {r \in nf : r.d = a.d /\ r.f = a.f /\ r.v = a.v}

WriteFileEntry(c) ==
    LET a == cl[c] IN
    /\ At(c, "file", 2)
    /\ IF a.r \/ Same(a) # {}
       THEN /\ Returns(c) /\ nf' = IF a.r /\ Same(a) # {} THEN (nf \ Same(a)) \cup {NewRow(a)} ELSE nf
       ELSE /\ nf' = nf \cup {NewRow(a)}
            /\ cl' = [cl EXCEPT ![c].op = "status", ![c].pc = 1, ![c].r = DbNone]
    /\ UNCHANGED <<nd, cursor, used, sem, stale, under, ops>>

\* updateDiskFileStatus, with _globalDbSem, which the threads of one server share
TakeGlobalDbSem(c) ==
    /\ cl[c].op = "status" /\ cl[c].pc = 1 /\ sem[DbHostOf[c]] = DbNone
    /\ sem' = [sem EXCEPT ![DbHostOf[c]] = c] /\ Goes(c, 2, DbNone)
    /\ UNCHANGED <<nf, nd, cursor, used, stale, under, ops>>

relGlobalDbSem(c) == sem' = [sem EXCEPT ![DbHostOf[c]] = DbNone]

\* The disk must be there.
ReadDiskCounters(c) ==
    /\ At(c, "status", 2)
    /\ IF diskInDb(cl[c].d) THEN Goes(c, 3, nd[cl[c].d]) /\ UNCHANGED sem
       ELSE Returns(c) /\ relGlobalDbSem(c)
    /\ UNCHANGED <<nf, nd, cursor, used, stale, under, ops>>

SetCounters(d, n, bytes) == IF nd[d] = DbNone THEN nd ELSE [nd EXCEPT ![d].n = n, ![d].bytes = bytes]

updateDiskFileStatus(c) ==
    LET a == cl[c] IN
    /\ At(c, "status", 3) /\ nd' = SetCounters(a.d, a.r.n + 1, a.r.bytes + a.z)
    /\ Overtaken(c, a.d) /\ Returns(c) /\ relGlobalDbSem(c)
    /\ UNCHANGED <<nf, cursor, used, under, ops>>

\* deleteFileInfo: the counters are read first and written last, never below 0.
DeleteReadDisk(c) ==
    /\ At(c, "delete", 1) /\ Goes(c, 2, nd[cl[c].d])
    /\ UNCHANGED <<nf, nd, cursor, used, sem, stale, under, ops>>

DeleteRow(c) ==
    LET a == cl[c] IN
    /\ At(c, "delete", 2)
    /\ IF Same(a) = {} THEN Returns(c) /\ UNCHANGED nf
       ELSE nf' = nf \ Same(a) /\ cl' = [cl EXCEPT ![c].pc = 3, ![c].z = Sum(Same(a))]
    /\ UNCHANGED <<nd, cursor, used, sem, stale, under, ops>>

\* A row was written and is yet to be counted
Uncounted(d) == \E x \in DbClients : cl[x].d = d /\ cl[x].op \in {"status", "count"}

NotNegative(x) == IF x < 0 THEN 0 ELSE x

\* Mutant: the row goes, the number of files stays.
DeleteCountKept(c) ==
    LET a == cl[c] IN
    /\ At(c, "delete", 3) /\ Returns(c)
    /\ nd' = IF a.r = DbNone THEN nd ELSE SetCounters(a.d, a.r.n, NotNegative(a.r.bytes - a.z))
    /\ stale' = IF Readers(a.d) = {c} /\ ~Uncounted(a.d) THEN stale ELSE stale \cup {a.d}
    /\ UNCHANGED <<nf, cursor, used, sem, under, ops>>

deleteFileInfo(c) ==
    LET a == cl[c] IN
    /\ At(c, "delete", 3) /\ Returns(c)
    /\ nd' = IF a.r = DbNone THEN nd ELSE SetCounters(a.d, NotNegative(a.r.n - 1), NotNegative(a.r.bytes - a.z))
    /\ stale' = IF Readers(a.d) = {c} /\ ~Uncounted(a.d) THEN stale ELSE stale \cup {a.d}
    /\ UNCHANGED <<nf, cursor, used, sem, under, ops>>

\* _modify_status_bits: of the status only the first character is read, and what is written
\* has no leading zeros.  Bits are numbered from 0.  set_valid_checksum with a checksum that
\* is valid again finds no bit to clear.
ReadBits(st) == IF st[1] = 1 THEN {0} ELSE {}
BitsWritten(bits) == LET top == CHOOSE b \in bits : \A x \in bits : x <= b
                 IN IF bits = {} THEN <<0>> ELSE [i \in 1 .. top + 1 |-> IF top + 1 - i \in bits THEN 1 ELSE 0]

\* The bits the flags stand for
AvailableForDeletion == {2}
InvalidChecksum == {7}

ModifyRead(c) ==
    /\ At(c, "bits", 1)
    /\ IF Same(cl[c]) = {} THEN Returns(c) ELSE Goes(c, 2, ReadBits(RowOf(cl[c].d, cl[c].f, cl[c].v).st))
    /\ UNCHANGED <<nf, nd, cursor, used, sem, stale, under, ops>>

_modify_status_bits(c) ==
    LET a == cl[c]
        bits == IF a.z = 1 THEN AvailableForDeletion ELSE InvalidChecksum
    IN /\ At(c, "bits", 2) /\ Returns(c)
       /\ nf' = IF bits \subseteq a.r THEN nf
                ELSE {IF r \in Same(a) THEN [r EXCEPT !.st = BitsWritten(a.r \cup bits)] ELSE r : r \in nf}
       /\ UNCHANGED <<nd, cursor, used, sem, stale, under, ops>>

-----------------------------------------------------------------------------
(***************************************************************************)
(* Methods on ngas_disks.                                                  *)
(***************************************************************************)

\* writeDiskEntry, from an object that was read before: every column is written.
ReadDiskEntry(c) ==
    /\ At(c, "disk", 1)
    /\ Goes(c, 2, IF diskInDb(cl[c].d) THEN nd[cl[c].d]
                  ELSE [host |-> DbHostOf[c], last |-> DbHostOf[c], mounted |-> 1, n |-> 0, bytes |-> 0, completed |-> 0, check |-> 0])
    /\ UNCHANGED <<nf, nd, cursor, used, sem, stale, under, ops>>

\* Mounted on the server of c, completed or checked meanwhile
writeDiskEntry(c) ==
    LET a == cl[c] IN
    /\ At(c, "disk", 2) /\ Returns(c)
    /\ \E m \in {0, 1}, k \in {0, 1} :
          nd' = [nd EXCEPT ![a.d] = [a.r EXCEPT !.host = IF m = 1 THEN DbHostOf[c] ELSE DbNone, !.last = DbHostOf[c],
                                                 !.mounted = m, !.completed = k]]
    /\ Overtaken(c, a.d) /\ UNCHANGED <<nf, cursor, used, sem, under, ops>>

setLastCheckDisk(c, d) ==
    /\ cl[c] = Quiet /\ Statement(c) /\ ops < DbMaxOps /\ ops' = ops + 1 /\ diskInDb(d)
    /\ nd' = [nd EXCEPT ![d].check = ops'] /\ Overtaken(c, d)
    /\ UNCHANGED <<nf, cl, cursor, used, sem, under>>

\* _add_file, _remove_file, replace_file: one statement, or one transaction
AddToDisk(c, d, n, z) ==
    /\ diskInDb(d) /\ nd' = [nd EXCEPT ![d].n = @ + n, ![d].bytes = @ + z] /\ Overtaken(c, d)

\* updateDiskInfo, after a row was written without counting it
updateDiskInfo(c) ==
    /\ At(c, "count", 1) /\ Returns(c)
    /\ IF diskInDb(cl[c].d) THEN AddToDisk(c, cl[c].d, 1, cl[c].z) ELSE UNCHANGED <<nd, stale>>
    /\ UNCHANGED <<nf, cursor, used, sem, under, ops>>

InsertUncounted(c) ==
    LET a == cl[c] IN
    /\ At(c, "insert", 1) /\ UNCHANGED <<nd, cursor, used, sem, stale, under, ops>>
    /\ IF Same(a) # {} THEN Returns(c) /\ UNCHANGED nf
       ELSE nf' = nf \cup {NewRow(a)} /\ cl' = [cl EXCEPT ![c].op = "count"]

\* Other methods are at work on the disk, or it was registered again meanwhile
DeletedUnder(c, d) ==
    under' = IF (cl[c].pc = 2 /\ diskInDb(d)) \/ \E x \in DbClients \ {c} : cl[x].d = d THEN under \cup {d} ELSE under

\* Mutant: the rows of the disk stay.
DeleteFilesNot(c) ==
    /\ At(c, "deldisk", 2) /\ Returns(c)
    /\ UNCHANGED <<nf, nd, cursor, used, sem, stale, under, ops>>

\* deleteDiskInfo: the disk, then its files
DeleteDisk(c) ==
    /\ At(c, "deldisk", 1) /\ nd' = [nd EXCEPT ![cl[c].d] = DbNone] /\ Goes(c, 2, DbNone)
    /\ DeletedUnder(c, cl[c].d) /\ Overtaken(c, cl[c].d) /\ UNCHANGED <<nf, cursor, used, sem, ops>>

DeleteFilesOfDisk(c) ==
    /\ At(c, "deldisk", 2) /\ Returns(c) /\ nf' = {r \in nf : r.d # cl[c].d}
    /\ DeletedUnder(c, cl[c].d) /\ UNCHANGED <<nd, cursor, used, sem, stale, ops>>

-----------------------------------------------------------------------------
DbSteps(c) ==
    \/ WriteFileCheck(c) \/ WriteFileEntry(c) \/ TakeGlobalDbSem(c) \/ ReadDiskCounters(c) \/ updateDiskFileStatus(c)
    \/ DeleteReadDisk(c) \/ DeleteRow(c) \/ deleteFileInfo(c) \/ ModifyRead(c) \/ _modify_status_bits(c)
    \/ ReadDiskEntry(c) \/ writeDiskEntry(c) \/ updateDiskInfo(c) \/ InsertUncounted(c)
    \/ DeleteDisk(c) \/ DeleteFilesOfDisk(c) \/ CloseCursor(c)

\* A row is written only to a disk the caller knows.
DbCalls(c) ==
    \/ dbCursor(c)
    \/ \E d \in DbDisks : setLastCheckDisk(c, d) \/ Begin(c, "disk", d, DbNone, 0, 0)
    \/ \E d \in getDiskIds : Begin(c, "deldisk", d, DbNone, 0, 0)
    \/ \E d \in getDiskIds, f \in DbFiles, v \in DbVersions, z \in DbSizes, op \in {"file", "insert"} : Begin(c, op, d, f, v, z)
    \/ \E r \in nf, op \in {"delete", "bits"} : Begin(c, op, r.d, r.f, r.v, 1)
    \/ \E r \in nf : Begin(c, "bits", r.d, r.f, r.v, 2)

DbNext == \E c \in DbClients : DbSteps(c) \/ DbCalls(c)

-----------------------------------------------------------------------------
(***************************************************************************)
(* Properties.                                                             *)
(***************************************************************************)

InCall(d) == \E c \in DbClients : cl[c].d = d

\* When no method is at work on a disk its number of files is that of its rows, unless two
\* methods that read the counters before they write them (updateDiskFileStatus,
\* deleteFileInfo, writeDiskEntry) overlapped, a row was deleted before it was counted, or
\* the disk was deleted under one.
CountsKept == \A d \in getDiskIds \ (stale \cup under) :
                 InCall(d) \/ nd[d].n = getNumberOfFiles(d, DbNone, -1, DbNone)

\* A row of ngas_files belongs to a disk of ngas_disks, unless the disk was deleted while
\* the row was being written: deleteDiskInfo leaves none behind.
NoRowWithoutDisk == \A r \in nf : diskInDb(r.d) \/ r.d \in under \/ InCall(r.d)

\* What the queries say of one another: a file that may be retrieved is among the good
\* ones of its host and not among the spurious ones; every row of a known disk is good,
\* spurious or being checked; the latest version is one that is found; the bytes of a disk
\* are those of its files; the next check of a host is due by its oldest one.
QueriesAgree ==
    /\ \A f \in DbFiles : /\ getFileSummary3(f, DbNone, DbNone, -1) \subseteq getFileSummary1(DbNone, {}, {f}, 0)
                          /\ \A r \in getFileSummary3(f, DbNone, DbNone, -1) : r \in files_in_host(nd[r.d].host)
                          /\ getFileSummary3(f, DbNone, DbNone, -1) \subseteq getFileInfoFromFileId(f, -1, DbNone, 0)
                          /\ getLatestFileVersion(f) # -1 =>
                                \E d \in DbDisks : /\ fileInDb(d, f, getLatestFileVersion(f))
                                                   /\ isLastVersion(f, RowOf(d, f, getLatestFileVersion(f)).v)
    /\ \A d \in getDiskIds : /\ getSumBytesStored(d) = Sum(getFileSummary2(DbNone, {}, d, 0))
                            /\ \A f \in DbFiles, v \in DbVersions :
                                  fileInDb(d, f, v) => getFileSummary1SingleFile(d, f, v) = {RowOf(d, f, v)} /\ getFileSize(f, v) # {}
    /\ files_in_host(DbNone) \cap getFileSummarySpuriousFiles1(DbNone, DbNone, DbNone) = {}
    /\ Joined = files_in_host(DbNone) \cup getFileSummarySpuriousFiles1(DbNone, DbNone, DbNone)
    /\ \A h \in DbHosts : /\ files_in_host(h) \subseteq dumpFileInfoCluster({h})
                          /\ \A d \in getBestTargetDisk(getAvailableVolumes(h)) : d \in getDiskInfoForSlotsAndHost(h)
                          /\ \A d \in MountedDisks(h) : nd[d].check = 0 \/ getMinLastDiskCheck(h) <= DiskRow(d).check
                          /\ h \in getClusterReadyArchivingUnits({h}) => getAvailableVolumes(h) # {}
                          /\ \A f \in DbFiles, v \in DbVersions :
                                getFileInfoFromFileIdHostId(h, f, v, DbNone) \subseteq getFileInfoFromFileId(f, v, DbNone, 0)

=============================================================================
