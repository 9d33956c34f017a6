------------------------------- MODULE Disks --------------------------------
(***************************************************************************)
(* Which disk is where: checkDisks compares the disks the Online plug-in   *)
(* found in the slots of a host with ngas_disks and with the NgasDiskInfo  *)
(* file of each disk, registers, accepts or rejects them, and Online and   *)
(* Offline write both back.  Every host has one Storage Set of a Main and  *)
(* a Replication slot; disks are exchanged while their host is down.       *)
(* Requests read a row and later write all of it back, which may be after  *)
(* others changed it.                                                      *)
(***************************************************************************)
EXTENDS Integers, Sequences, FiniteSetsExt

CONSTANTS
    DkDisks,     \* Disk IDs
    DkHosts,     \* hosts that share a DB
    DkArchiving, \* the hosts with AllowArchiveReq = 1
    DkEvents,    \* bound on exchanges, crashes, losses, labels, requests
    DkNone       \* no row, no file, no place

DkSlots == {"M", "R"}
Places == DkHosts \X DkSlots

\* Logical names, and what is known of a disk; rows and files say more.
DkNames == [cat : {"M", "R", "X"}, num : Nat]
DkIdentities == [name : DkNames, inst : Nat, done : BOOLEAN]
DkRows == [name : DkNames, inst : Nat, done : BOOLEAN, place : Places \cup {DkNone}]
DkFiles == [name : DkNames, inst : Nat, done : BOOLEAN, id : DkDisks]

ASSUME DkConfig ==
    /\ DkArchiving \subseteq DkHosts /\ DkEvents \in Nat /\ IsFiniteSet(DkDisks)
    /\ DkNone \notin DkDisks /\ DkNone \notin Places
    /\ DkNone \notin DkIdentities /\ DkNone \notin DkRows /\ DkNone \notin DkFiles

VARIABLES
    dkAt,     \* dkAt[d]: the slot the disk is in
    dkRow,    \* ngas_disks
    dkInfo,   \* dkInfo[d]: NgasDiskInfo on the disk
    dkSrv,    \* dkSrv[h]: progress of Online and Offline
    dkHeld,   \* the rows requests have read and not yet written back
    dkOdd,    \* ghost: what the checks below allow for
    dkEvents

dkVars == <<dkAt, dkRow, dkInfo, dkSrv, dkHeld, dkOdd, dkEvents>>

Partner(s) == CHOOSE t \in DkSlots : t # s

DkDown == [step |-> "off", known |-> [s \in DkSlots |-> DkNone], todo |-> <<>>, num |-> 0]

\* Two unknown disks are in the slots of one host, the others on the shelf.
DkInit ==
    /\ \E f \in [DkDisks -> Places \cup {DkNone}] :
        /\ \A d, e \in DkDisks : d # e => f[d] = DkNone \/ f[d] # f[e]
        /\ \E h \in DkHosts : {f[d] : d \in DkDisks} = ({h} \X DkSlots) \cup {DkNone}
        /\ dkAt = f
    /\ dkRow = [d \in DkDisks |-> DkNone]
    /\ dkInfo = [d \in DkDisks |-> DkNone]
    /\ dkSrv = [h \in DkHosts |-> DkDown]
    /\ dkHeld = {}
    /\ dkOdd = [crashed |-> {}, kept |-> {}, names |-> FALSE, stale |-> {}]
    /\ dkEvents = 0

DkEvent == dkEvents < DkEvents /\ dkEvents' = dkEvents + 1

\* diskDic, as ngamsGenericOnlinePlugIn finds it.
InSlot(h, s) == IF \E d \in DkDisks : dkAt[d] = <<h, s>> THEN CHOOSE d \in DkDisks : dkAt[d] = <<h, s>> ELSE DkNone
Found(h) == {s \in DkSlots : InSlot(h, s) # DkNone}

\* getDiskIdsMountedDisks
MountedAt(row, h) == {d \in DkDisks : row[d] # DkNone /\ row[d].place # DkNone /\ row[d].place[1] = h}

\* Mutant: rows of disks that are gone are left as they are.
MarkUnmountedNot(h, row) == row

\* checkDisks: what the DB has for this host and was not found is not mounted any more.
MarkUnmounted(h, row) ==
    [d \in DkDisks |->
        IF d \in MountedAt(row, h) /\ (dkAt[d] = DkNone \/ dkAt[d][1] # h)
        THEN [row[d] EXCEPT !.place = DkNone] ELSE row[d]]

Identity(k) == [name |-> k.name, inst |-> k.inst, done |-> k.done]

\* Mutant: NgasDiskInfo is always believed.
KnownFromFile(h, s) ==
    LET d == InSlot(h, s)
    IN  IF d = DkNone \/ dkInfo[d] = DkNone THEN DkNone ELSE Identity(dkInfo[d])

(***************************************************************************)
(* mtDiskDic: the younger of row and file.  A row without a file is not    *)
(* used, so that its disk is taken for a new one.                          *)
(***************************************************************************)
Known(h, s) ==
    LET d == InSlot(h, s)
    IN  IF d = DkNone \/ dkInfo[d] = DkNone THEN DkNone
        ELSE IF dkRow[d] = DkNone \/ dkInfo[d].inst > dkRow[d].inst THEN Identity(dkInfo[d])
        ELSE Identity(dkRow[d])

Done(k) == k # DkNone /\ k.done

\* Mutant: a Replication Disk may be used as Main Disk.
MisusedMain(s, k) == k # DkNone /\ k.name.cat = "M" /\ s = "R"

\* isMainDisk against the logical name: a Main Disk used for replication, or the reverse.
Misused(s, k) == k # DkNone /\ k.name.cat # s

\* Slots whose disks are not accessible, used in the wrong role, or without an associated disk.
Rejected(h, known, bad) ==
    {s \in Found(h) : /\ ~Done(known[s])
                      /\ s \in bad \/ Misused(s, known[s]) \/ Partner(s) \notin Found(h)}

\* The logical name of an accessible disk has no category.
Illegal(h, known, bad) == \E s \in Found(h) \ bad : known[s] # DkNone /\ ~known[s].done /\ known[s].name.cat = "X"

\* The slots to update: both of the set when archiving, whether or not there is a disk.
ToUpdate(h) ==
    CASE Found(h) = {} -> <<>>
      [] h \in DkArchiving \/ Found(h) = DkSlots -> <<"M", "R">>
      [] OTHER -> <<CHOOSE s \in Found(h) : TRUE>>

-----------------------------------------------------------------------------
(***************************************************************************)
(* handleOnline up to the updates.  With archiving, the set goes when one  *)
(* of its disks is rejected, and the rows of its disks are not touched.    *)
(***************************************************************************)
checkDisks(h) ==
    /\ dkSrv[h].step = "off"
    /\ \E bad \in SUBSET Found(h) :
        LET known == [s \in DkSlots |-> Known(h, s)]
            drop == h \in DkArchiving /\ Rejected(h, known, bad) # {}
            raise == h \in DkArchiving /\ Illegal(h, known, bad)
        IN  /\ bad # {} => h \in DkArchiving
            /\ IF bad = {} THEN UNCHANGED dkEvents ELSE DkEvent
            /\ dkRow' = MarkUnmounted(h, dkRow)
            /\ dkSrv' = [dkSrv EXCEPT ![h] =
                            [step |-> IF raise THEN "raise" ELSE "write", known |-> known,
                             todo |-> IF drop \/ raise THEN <<>> ELSE ToUpdate(h), num |-> 0]]
            /\ LET kept == drop /\ MountedAt(dkRow', h) # {}
               IN  dkOdd' = [dkOdd EXCEPT !.crashed = @ \ {h}, !.kept = IF kept THEN @ \cup {h} ELSE @ \ {h}]
    /\ UNCHANGED <<dkHeld, dkAt, dkInfo>>

\* The slot to be updated and what its row shall say; nothing makes addDiskInDb register it.
Current(h) == dkSrv[h].todo[1]
Updating(h) == dkSrv[h].step = "write" /\ dkSrv[h].todo # <<>>
Source(h) ==
    LET d == InSlot(h, Current(h))
    IN  IF h \notin DkArchiving /\ dkRow[d] # DkNone THEN Identity(dkRow[d]) ELSE dkSrv[h].known[Current(h)]

Write(h, k) ==
    LET s == Current(h)
    IN  /\ dkRow' = [dkRow EXCEPT ![InSlot(h, s)] =
                        [name |-> k.name, inst |-> k.inst, done |-> k.done, place |-> <<h, s>>]]
        /\ dkSrv' = [dkSrv EXCEPT ![h].todo = Tail(@), ![h].num = 0]

updateDiskInDb(h) ==
    /\ Updating(h) /\ InSlot(h, Current(h)) # DkNone /\ Source(h) # DkNone
    /\ Write(h, Source(h))
    /\ UNCHANGED <<dkHeld, dkAt, dkInfo, dkOdd, dkEvents>>

\* Mutant: disks that are not mounted are not asked for their number.
MaxMountedNumber == Max({0} \cup {dkRow[d].name.num : d \in {e \in DkDisks : dkRow[e] # DkNone /\ dkRow[e].place # DkNone}})

getMaxDiskNumber == Max({0} \cup {dkRow[d].name.num : d \in {e \in DkDisks : dkRow[e] # DkNone}})

\* The Main Disk of this host, whose number the Replication Disk gets.
MainHere(h) == {d \in MountedAt(dkRow, h) : dkRow[d].place[2] = "M" /\ dkRow[d].name.cat # "X"}

genLogicalName(h) ==
    /\ Updating(h) /\ InSlot(h, Current(h)) # DkNone /\ Source(h) = DkNone /\ dkSrv[h].num = 0
    /\ IF Current(h) = "M" \/ MainHere(h) # {}
       THEN \E n \in IF Current(h) = "M" THEN {getMaxDiskNumber + 1} ELSE {dkRow[d].name.num : d \in MainHere(h)} :
                dkSrv' = [dkSrv EXCEPT ![h].num = n]
       ELSE dkSrv' = [dkSrv EXCEPT ![h].step = "raise"]
    /\ dkOdd' = [dkOdd EXCEPT !.names = @ \/ \E g \in DkHosts : dkSrv[g].num # 0]
    /\ UNCHANGED <<dkHeld, dkAt, dkRow, dkInfo, dkEvents>>

\* Registered now, empty, under the new name.
addDiskInDb(h) ==
    LET dates == {dkRow[d].inst : d \in {e \in DkDisks : dkRow[e] # DkNone}}
    IN  /\ Updating(h) /\ dkSrv[h].num # 0
        /\ Write(h, [name |-> [cat |-> Current(h), num |-> dkSrv[h].num], inst |-> Max({0} \cup dates) + 1, done |-> FALSE])
        /\ UNCHANGED <<dkHeld, dkAt, dkInfo, dkOdd, dkEvents>>

\* dbUpdateDic[slId]: the set has a slot without a disk, which only a completed partner can have.
MissingSlot(h) ==
    /\ Updating(h) /\ InSlot(h, Current(h)) = DkNone
    /\ dkSrv' = [dkSrv EXCEPT ![h].step = "raise"]
    /\ UNCHANGED <<dkHeld, dkAt, dkRow, dkInfo, dkOdd, dkEvents>>

-----------------------------------------------------------------------------
(***************************************************************************)
(* dumpDiskInfoAllDisks writes the row of a disk to where the row says the *)
(* disk is mounted.                                                        *)
(***************************************************************************)
DumpedAt(h, d) == {e \in MountedAt(dkRow, h) : dkAt[d] = dkRow[e].place}
dumpDiskInfoAllDisks(h) ==
    /\ dkInfo' = [d \in DkDisks |->
        IF DumpedAt(h, d) = {} THEN dkInfo[d]
        ELSE LET e == CHOOSE e \in DumpedAt(h, d) : TRUE
             IN  [name |-> dkRow[e].name, inst |-> dkRow[e].inst, done |-> dkRow[e].done, id |-> e]]
    /\ dkOdd' = [dkOdd EXCEPT !.names = @ \/ \E d \in DkDisks : ~(DumpedAt(h, d) \subseteq {d})]

DkOnline(h) ==
    /\ dkSrv[h].step = "write" /\ dkSrv[h].todo = <<>>
    /\ dumpDiskInfoAllDisks(h)
    /\ dkSrv' = [dkSrv EXCEPT ![h] = [DkDown EXCEPT !.step = "on"]]
    /\ UNCHANGED <<dkHeld, dkAt, dkRow, dkEvents>>

markDisksAsUnmountedInDb(h) ==
    dkRow' = [d \in DkDisks |-> IF d \in MountedAt(dkRow, h) THEN [dkRow[d] EXCEPT !.place = DkNone] ELSE dkRow[d]]

DkGoDown(h) ==
    /\ dumpDiskInfoAllDisks(h)
    /\ markDisksAsUnmountedInDb(h)
    /\ dkSrv' = [dkSrv EXCEPT ![h] = DkDown]
    /\ UNCHANGED <<dkHeld, dkAt, dkEvents>>

\* handleOffline
DkOffline(h) == dkSrv[h].step = "on" /\ DkGoDown(h)

\* Mutant: the exception only is passed on.
DkRaisedOnly(h) ==
    /\ dkSrv[h].step = "raise"
    /\ dkSrv' = [dkSrv EXCEPT ![h] = DkDown]
    /\ UNCHANGED <<dkHeld, dkAt, dkRow, dkInfo, dkOdd, dkEvents>>

\* handleOnline goes Offline again when the disks cannot be brought in.
DkRaised(h) == dkSrv[h].step = "raise" /\ DkGoDown(h)

-----------------------------------------------------------------------------
(***************************************************************************)
(* A request reads the row of a disk: checkDiskSpace to mark the disk as   *)
(* completed ("full"), updateDiskStatusDb to count what was stored         *)
(* ("status").  An OFFLINE by force does not wait for it.                  *)
(***************************************************************************)
DkRead(h) ==
    /\ dkSrv[h].step = "on" /\ DkEvent
    /\ \E d \in MountedAt(dkRow, h), what \in {"status"} \cup {w \in {"full"} : h \in DkArchiving} :
        dkHeld' = dkHeld \cup {[host |-> h, disk |-> d, row |-> dkRow[d], what |-> what]}
    /\ UNCHANGED <<dkAt, dkRow, dkInfo, dkSrv, dkOdd>>

\* ngamsDiskInfo.write: every column, mounted, host, slot and completed included.
WrittenBack(r) == IF r.what = "full" THEN [r.row EXCEPT !.done = TRUE] ELSE r.row

\* Nobody else has written the row, and the server has not gone Offline.
InTime(r) == dkSrv[r.host].step = "on" /\ dkRow[r.disk] \in {r.row, WrittenBack(r)}
Stale(r, disks) == IF InTime(r) THEN dkOdd.stale ELSE dkOdd.stale \cup disks

DkWriteBack(r) ==
    /\ r.what \in {"status", "full"}
    /\ dkRow' = [dkRow EXCEPT ![r.disk] = WrittenBack(r)]
    /\ dkHeld' = (dkHeld \ {r}) \cup
                    {[x EXCEPT !.row = WrittenBack(r), !.what = "dump"] : x \in {y \in {r} : y.what = "full"}}
    /\ dkOdd' = [dkOdd EXCEPT !.stale = Stale(r, {r.disk}),
                              !.names = @ \/ ~InTime(r)]
    /\ UNCHANGED <<dkAt, dkInfo, dkSrv, dkEvents>>

\* checkDiskSpace, dumpDiskInfo: the row of the completed disk to where it was mounted when read.
DumpedTo(r) == {d \in DkDisks : dkAt[d] = r.row.place /\ dkRow[r.disk] # DkNone}
DkDump(r) ==
    /\ r.what = "dump"
    /\ dkInfo' = [d \in DkDisks |->
        IF d \notin DumpedTo(r) THEN dkInfo[d]
        ELSE [name |-> dkRow[r.disk].name, inst |-> dkRow[r.disk].inst, done |-> dkRow[r.disk].done, id |-> r.disk]]
    /\ dkHeld' = dkHeld \ {r}
    /\ dkOdd' = [dkOdd EXCEPT !.stale = Stale(r, DumpedTo(r)), !.names = @ \/ ~InTime(r) \/ ~(DumpedTo(r) \subseteq {r.disk})]
    /\ UNCHANGED <<dkAt, dkRow, dkSrv, dkEvents>>

DkCrash(h) ==
    /\ dkSrv[h].step # "off" /\ DkEvent
    /\ dkSrv' = [dkSrv EXCEPT ![h] = DkDown]
    /\ dkHeld' = {r \in dkHeld : r.host # h}
    /\ dkOdd' = [dkOdd EXCEPT !.crashed = @ \cup {h}]
    /\ UNCHANGED <<dkAt, dkRow, dkInfo>>

-----------------------------------------------------------------------------
(***************************************************************************)
(* The operators.                                                          *)
(***************************************************************************)
\* A disk is put into a place, the disk that is there to where it came from.
DkReachable == {DkNone} \cup {p \in Places : dkSrv[p[1]].step = "off"}
DkExchange(d, p) ==
    /\ dkAt[d] # p /\ {p, dkAt[d]} \subseteq DkReachable /\ DkEvent
    /\ dkAt' = [e \in DkDisks |-> IF e = d THEN p ELSE IF dkAt[e] = p /\ p # DkNone THEN dkAt[d] ELSE dkAt[e]]
    /\ UNCHANGED <<dkHeld, dkRow, dkInfo, dkSrv, dkOdd>>

\* A disk is formatted or its NgasDiskInfo removed; a disk comes back to a DB that does not know it.
DkLost(d) ==
    /\ DkEvent
    /\ \/ dkInfo[d] # DkNone /\ dkInfo' = [dkInfo EXCEPT ![d] = DkNone] /\ UNCHANGED <<dkRow, dkOdd>>
       \/ /\ dkRow[d] # DkNone /\ dkAt[d] \in DkReachable /\ dkRow[d].place = DkNone
          /\ dkRow' = [dkRow EXCEPT ![d] = DkNone]
          /\ dkOdd' = [dkOdd EXCEPT !.names = TRUE]
          /\ UNCHANGED dkInfo
    /\ UNCHANGED <<dkHeld, dkAt, dkSrv>>

\* LABEL?relabel: any new label is taken.
LABEL(d) ==
    /\ dkRow[d] # DkNone /\ dkRow[d].name.cat # "X" /\ DkEvent
    /\ dkRow' = [dkRow EXCEPT ![d].name.cat = "X"]
    /\ UNCHANGED <<dkHeld, dkAt, dkInfo, dkSrv, dkOdd>>

DkNext ==
    \/ \E h \in DkHosts :
        \/ checkDisks(h) \/ updateDiskInDb(h) \/ genLogicalName(h) \/ addDiskInDb(h) \/ MissingSlot(h)
        \/ DkOnline(h) \/ DkOffline(h) \/ DkRaised(h) \/ DkRead(h) \/ DkCrash(h)
    \/ \E r \in dkHeld : DkWriteBack(r) \/ DkDump(r)
    \/ \E d \in DkDisks : DkLost(d) \/ LABEL(d) \/ \E p \in Places \cup {DkNone} : DkExchange(d, p)

DkSpec == DkInit /\ [][DkNext]_dkVars

-----------------------------------------------------------------------------
(***************************************************************************)
(* What ngas_disks promises.  A server that comes up after a crash and     *)
(* rejects its set leaves the rows of before the crash (dkOdd.kept).  The  *)
(* row of a disk is as old as the request that wrote it back after others  *)
(* had changed it, or after its server had gone Offline (dkOdd.stale).     *)
(***************************************************************************)
Vouched(h) == MountedAt(dkRow, h) \ dkOdd.stale

\* Where the row of a disk says it is mounted on a host that is Online, the
\* disk is: checkDisks unmounts what was taken away while the server was not
\* running, and moves what was put elsewhere.
MountedIsThere ==
    \A h \in DkHosts \ dkOdd.kept : \A d \in Vouched(h) :
        dkSrv[h].step = "on" => dkAt[d] = dkRow[d].place

\* A disk that a host archives on is in the slot of its role, also after it
\* has been exchanged, re-registered or taken from another host (checkDisks).
RoleRespected ==
    \A h \in DkArchiving \ dkOdd.kept : \A d \in Vouched(h) :
        dkSrv[h].step = "on" /\ ~dkRow[d].done => dkRow[d].name.cat \in {dkRow[d].place[2], "X"}

\* A host that is down has no mounted disks, also when bringing it Online
\* failed half-way through the updates; only a crash leaves some, and a
\* request that an OFFLINE by force did not wait for mounts its disk again.
DownHasNone ==
    \A h \in DkHosts \ dkOdd.crashed : dkSrv[h].step = "off" => Vouched(h) = {}

\* No two Main Disks have the same logical name, as long as hosts do not
\* register disks at the same time, no row is lost, no request writes a row
\* back late, and no disk got the NgasDiskInfo of another, which rows of
\* before a crash cause (genLogicalName).
MainNamesUnique ==
    \A d, e \in DkDisks :
        d # e /\ dkRow[d] # DkNone /\ dkRow[e] # DkNone /\ ~dkOdd.names /\ dkRow[d].name = dkRow[e].name
        => dkRow[d].name.cat # "M"

\* The rows of ngas_disks say which disks are mounted where and as what, however disks are
\* moved, exchanged and completed and wherever checkDisks fails, but for the rows that a
\* request wrote back late (ngamsDiskInfo.write).
DiskRowsTrue == MountedIsThere /\ RoleRespected /\ DownHasNone /\ MainNamesUnique

\* A completed disk that still carries its own NgasDiskInfo is never made
\* writable again: neither by moving it, nor by a crash between the update of
\* the row and that of the file (checkDisks, checkDiskSpace); only a request
\* that read the row before the completion and writes it back later does so.
CompletedStays ==
    [][\A d \in DkDisks :
        /\ dkRow[d] # DkNone /\ dkRow[d].done
        /\ dkInfo[d] # DkNone /\ dkInfo[d].id = d
        => dkRow'[d] = DkNone \/ dkRow'[d].done \/ d \in dkOdd'.stale]_dkVars

\* Refuted: what holds of the rows holds of all of them (ngamsDiskInfo.write).
RowsNeverStale == dkOdd.stale = {}

=============================================================================
