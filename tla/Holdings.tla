------------------------------ MODULE Holdings ------------------------------
(***************************************************************************)
(* The copies of a file that a cluster holds, and the commands that change *)
(* them on one host: REMFILE, REMDISK and DISCARD remove copies, CLONE     *)
(* makes new ones, CHECKFILE compares a copy with its row and RETRIEVE     *)
(* serves one.  Each command is run by a thread of its own; the NGAS DB    *)
(* and the volumes are all they share, and they hold no lock between their *)
(* DB statements and file operations.                                      *)
(*                                                                         *)
(* There is one File ID; a copy is a volume and a File Version, and has    *)
(* one place on its volume.  ngas_files is row, ngas_disks is known.       *)
(***************************************************************************)
EXTENDS Integers, FiniteSets

CONSTANTS
    Disks,         \* the volumes of the cluster
    LocalDisks,    \* those mounted in this host
    Versions,      \* the versions of the file
    Held,          \* the copies archived beforehand
    Reqs,          \* the threads that handle requests
    Commands,      \* the commands the clients send
    Named,         \* the volumes they name in them
    Asked,         \* the versions they name in them, AnyVersion if none
    MaxRequests,   \* bound on the requests
    MinCopies,     \* the copies a removal asks for: 3
    CloneAttempts, \* how often CLONE tries to fetch a file: 5
    Events,        \* the events that may happen, a subset of EventKinds
    MaxEvents,     \* bound on the number of events
    None           \* no volume

\* rot: a file changes on the volume; vanish: it disappears; db: deleteFileInfo
\* fails; fetch: a transfer fails; perm: a file cannot be moved by the server;
\* crash: the server is killed and restarted.
EventKinds == {"rot", "vanish", "db", "fetch", "perm", "crash"}
CommandNames == {"REMFILE", "REMDISK", "DISCARD", "CLONE", "CHECKFILE", "RETRIEVE"}

Copies == Disks \X Versions
AnyVersion == 0   \* no File Version given

ASSUME HoldingsConfig ==
    /\ LocalDisks \subseteq Disks /\ Named \subseteq Disks /\ Held \subseteq Copies
    /\ Versions \subseteq Nat \ {0} /\ Asked \subseteq Versions \cup {AnyVersion}
    /\ Commands \subseteq CommandNames /\ Events \subseteq EventKinds
    /\ MaxRequests \in Nat /\ MinCopies \in Nat /\ CloneAttempts \in Nat \ {0}
    /\ MaxEvents \in Nat /\ None \notin Disks /\ IsFiniteSet(Disks)

VARIABLES
    row,     \* row[k]: "none", or whether file_status says "ok" or "bad"
    vol,     \* vol[k]: what is at the place of copy k: "none", "good" or "rot"
    known,   \* the volumes that have a row in ngas_disks
    req,     \* req[r]: the request thread r handles
    started, \* the number of requests so far
    cut,     \* cut[r]: rows others deleted since r counted the copies
    struck,  \* copies an event or a race named below has struck
    events   \* the number of events so far

vars == <<row, vol, known, req, started, cut, struck, events>>

\* cmd; pc: its next step; d, v: the volume and version named; x: execute of a
\* removal, check of CLONE; ls: the copies selected; todo: those still to be
\* handled; k: the one at hand; t: the target volume; c: content held; n: attempts
Idle == [cmd |-> "none", pc |-> "idle", d |-> None, v |-> AnyVersion, x |-> FALSE, ls |-> {},
         todo |-> {}, k |-> <<None, AnyVersion>>, t |-> None, c |-> "none", n |-> 0]

TypeOK ==
    /\ row \in [Copies -> {"none", "ok", "bad"}] /\ vol \in [Copies -> {"none", "good", "rot"}]
    /\ known \subseteq Disks /\ started \in 0 .. MaxRequests /\ events \in 0 .. MaxEvents
    /\ struck \subseteq Copies /\ cut \in [Reqs -> SUBSET Copies]
    /\ \A r \in Reqs : /\ req[r].cmd \in Commands \cup {"none"}
                       /\ req[r].ls \subseteq Copies /\ req[r].todo \subseteq Copies
                       /\ req[r].n \in 0 .. CloneAttempts - 1
                       /\ req[r].c \in {"none", "good", "rot"}

Init ==
    /\ row = [k \in Copies |-> IF k \in Held THEN "ok" ELSE "none"]
    /\ vol = [k \in Copies |-> IF k \in Held THEN "good" ELSE "none"]
    /\ known = Disks /\ req = [r \in Reqs |-> Idle] /\ started = 0
    /\ cut = [r \in Reqs |-> {}] /\ struck = {} /\ events = 0

Event(e) == e \in Events /\ events < MaxEvents /\ events' = events + 1

-----------------------------------------------------------------------------
(***************************************************************************)
(* The NGAS DB.                                                            *)
(***************************************************************************)

\* ngas_files joined with ngas_disks
Joined == {k \in Copies : row[k] # "none" /\ k[1] \in known}
Local(k) == k[1] \in LocalDisks
Of(v) == {k \in Copies : v = AnyVersion \/ k[2] = v}

getFileSummary1(ds, states) == {k \in Joined : k[1] \in ds /\ row[k] \in states}

getFileSummarySpuriousFiles1(d, v) == {k \in Joined \cap Of(v) : Local(k) /\ k[1] = d /\ row[k] = "bad"}

fileInDb(d, v) == row[<<d, v>>] # "none"

\* The newest version among ks that has all of it
Newest(ks) == {k \in ks : \A j \in ks : j[2] <= k[2]}

\* deleteFileInfo by thread r: raises if there is no row (the caller's guard)
deleteFileInfo(r, ks) ==
    /\ row' = [k \in Copies |-> IF k \in ks THEN "none" ELSE row[k]]
    /\ cut' = [q \in Reqs |-> IF q # r /\ req[q].pc # "idle"
                                THEN cut[q] \cup {k \in ks : row[k] # "none"} ELSE cut[q]]

\* set_valid_checksum(False).  With True it never changes a row: _modify_status_bits
\* looks at the first character of file_status only, and 0 and 1 both lack the bit.
set_valid_checksum(k) == row' = [row EXCEPT ![k] = "bad"]

-----------------------------------------------------------------------------
(***************************************************************************)
(* How a request starts and ends.                                          *)
(***************************************************************************)

Start(r, rec) ==
    /\ req[r].pc = "idle" /\ started < MaxRequests /\ rec.cmd \in Commands
    /\ started' = started + 1 /\ cut' = [cut EXCEPT ![r] = {}]
    /\ req' = [req EXCEPT ![r] = rec]
    /\ UNCHANGED <<row, vol, known, struck, events>>

At(r, cmds, pc) == req[r].cmd \in cmds /\ req[r].pc = pc
Goto(r, pc) == req' = [req EXCEPT ![r].pc = pc]
End(r) == req' = [req EXCEPT ![r] = Idle]
Removals == {"REMFILE", "REMDISK"}
Movers == Removals \cup {"DISCARD"}   \* the commands that call fileRemovable
Busy == {r \in Reqs : req[r].pc # "idle"}
\* CLONE has moved a file to the place of k and not yet written its row.
BeingCloned(k) == \E r \in Reqs : At(r, {"CLONE"}, "write") /\ <<req[r].t, req[r].v>> = k

-----------------------------------------------------------------------------
(***************************************************************************)
(* REMFILE and REMDISK.                                                    *)
(***************************************************************************)

\* The files of a volume whose rows are good are selected.
RemFile(r, d, v, x) ==
    LET ls == getFileSummary1({d}, {"ok"}) \cap Of(v)
    IN Start(r, [Idle EXCEPT !.cmd = "REMFILE", !.pc = "copies", !.d = d, !.v = v, !.x = x,
                             !.ls = ls, !.todo = ls])

\* All rows of a volume of this host are selected, its files listed a step later.
RemDisk(r, d, x) ==
    /\ d \in known \cap LocalDisks
    /\ Start(r, [Idle EXCEPT !.cmd = "REMDISK", !.pc = "glob", !.d = d, !.x = x,
                             !.ls = getFileSummary1({d}, {"ok", "bad"})])

GlobFiles(r) ==
    /\ At(r, {"REMDISK"}, "glob")
    /\ req' = [req EXCEPT ![r].pc = "copies",
                          ![r].todo = {k \in Copies : k[1] = req[r].d /\ vol[k] # "none"}]
    /\ UNCHANGED <<row, vol, known, started, cut, struck, events>>

\* The volumes with a copy of version v, whatever its status
CopiesOf(v) == {d \in Disks : <<d, v>> \in Joined}

\* Mutant: one copy less would do.
MissingCopiesOneLess(ls) == {k \in ls : Cardinality(CopiesOf(k[2])) < MinCopies - 1}

MissingCopies(ls) == {k \in ls : Cardinality(CopiesOf(k[2])) < MinCopies}

\* checkFileCopiesAndReg: what is on the volume and has no row is left in todo.
checkFileCopiesAndReg(r) ==
    /\ At(r, Removals, "copies") /\ cut' = [cut EXCEPT ![r] = {}]
    /\ IF MissingCopies(req[r].ls) # {} THEN End(r)
       ELSE req' = [req EXCEPT ![r].pc = "spurious",
                               ![r].todo = IF req[r].cmd = "REMDISK" THEN @ \ Joined ELSE {}]
    /\ UNCHANGED <<row, vol, known, started, struck, events>>

\* _remStatErrReport: bad files, then files that are not registered, end the request.
\* REMFILE then looks at its own files, REMDISK at every copy of them.
CheckSpurious(r) ==
    /\ At(r, Removals, "spurious")
    /\ LET bad == getFileSummarySpuriousFiles1(req[r].d, req[r].v)
           all == IF req[r].cmd = "REMFILE" THEN req[r].ls
                  ELSE {k \in Joined : \E j \in req[r].ls : j[2] = k[2]}
       IN IF bad # {} \/ req[r].todo # {} THEN End(r)
          ELSE req' = [req EXCEPT ![r].pc = "removable", ![r].todo = all]
    /\ UNCHANGED <<row, vol, known, started, cut, struck, events>>

\* checkFilesRemovable: fileRemovable moves each file of this host away and back.
FileRemovable(r, k) ==
    /\ At(r, Removals, "removable") /\ k \in req[r].todo
    /\ IF Local(k) /\ vol[k] # "none"
       THEN \/ /\ vol' = [vol EXCEPT ![k] = "none"]
               /\ req' = [req EXCEPT ![r].pc = "back", ![r].k = k, ![r].c = vol[k]]
               /\ UNCHANGED events
            \/ Event("perm") /\ End(r) /\ UNCHANGED vol
       ELSE /\ req' = [req EXCEPT ![r].todo = @ \ {k}] /\ UNCHANGED <<vol, events>>
    /\ UNCHANGED <<row, known, started, cut, struck>>

\* The second move of fileRemovable, for DISCARD too.  Race: another removal deleted the
\* row, or has found nothing to delete, meanwhile.
MoveBack(r) ==
    /\ At(r, Movers, "back")
    /\ LET k == req[r].k
       IN /\ vol' = [vol EXCEPT ![k] = req[r].c]
          /\ req' = [req EXCEPT ![r].pc = IF req[r].cmd = "DISCARD" THEN "unlink" ELSE "removable",
                                ![r].todo = @ \ {k}, ![r].c = "none"]
          /\ struck' = IF row[k] = "none" \/ k[1] \notin known THEN struck \cup {k} ELSE struck
    /\ UNCHANGED <<row, known, started, cut, events>>

\* Without execute the request only reports.  REMFILE leaves other hosts' files alone.
Execute(r) ==
    /\ At(r, Removals, "removable") /\ req[r].todo = {}
    /\ IF ~req[r].x THEN End(r)
       ELSE req' = [req EXCEPT ![r].pc = IF req[r].cmd = "REMFILE" THEN "delrow" ELSE "deldisk",
                               ![r].todo = {k \in req[r].ls : Local(k)}]
    /\ UNCHANGED <<row, vol, known, started, cut, struck, events>>

\* REMFILE: the row first; a failure is counted, and the file removed all the same.
RemFileRow(r, k) ==
    /\ At(r, {"REMFILE"}, "delrow") /\ k \in req[r].todo
    /\ req' = [req EXCEPT ![r].pc = "unlink", ![r].k = k]
    /\ \/ row[k] # "none" /\ deleteFileInfo(r, {k}) /\ UNCHANGED <<struck, events>>
       \/ row[k] = "none" /\ UNCHANGED <<row, cut, struck, events>>
       \/ Event("db") /\ struck' = struck \cup {k} /\ UNCHANGED <<row, cut>>
    /\ UNCHANGED <<vol, known, started>>

\* Mutant: only the row is removed.
RemFileUnlinkNothing(r) ==
    /\ At(r, {"REMFILE"}, "unlink")
    /\ req' = [req EXCEPT ![r].pc = "delrow", ![r].todo = @ \ {req[r].k}]
    /\ UNCHANGED <<row, vol, known, started, cut, struck, events>>

\* Race: what is removed may be a file another request has just put there.
RemFileUnlink(r) ==
    /\ At(r, {"REMFILE"}, "unlink")
    /\ LET k == req[r].k
       IN /\ vol' = [vol EXCEPT ![k] = "none"]
          /\ req' = [req EXCEPT ![r].pc = "delrow", ![r].todo = @ \ {k}]
          /\ struck' = IF row[k] # "none" \/ BeingCloned(k) THEN struck \cup {k} ELSE struck
    /\ UNCHANGED <<row, known, started, cut, events>>

RemFileDone(r) ==
    /\ At(r, {"REMFILE"}, "delrow") /\ req[r].todo = {} /\ End(r)
    /\ UNCHANGED <<row, vol, known, started, cut, struck, events>>

\* deleteDiskInfo: ngas_disks, then all rows of the volume
RemDiskInfo(r) ==
    /\ At(r, {"REMDISK"}, "deldisk") /\ known' = known \ {req[r].d} /\ Goto(r, "delrows")
    /\ UNCHANGED <<row, vol, started, cut, struck, events>>

RemDiskRows(r) ==
    /\ At(r, {"REMDISK"}, "delrows") /\ Goto(r, "wipe")
    /\ deleteFileInfo(r, {k \in Copies : k[1] = req[r].d})
    /\ UNCHANGED <<vol, known, started, struck, events>>

RemDiskFiles(r) ==
    /\ At(r, {"REMDISK"}, "wipe") /\ End(r)
    /\ vol' = [k \in Copies |-> IF k[1] = req[r].d THEN "none" ELSE vol[k]]
    /\ UNCHANGED <<row, known, started, cut, struck, events>>

-----------------------------------------------------------------------------
(***************************************************************************)
(* DISCARD: one copy, whatever its status and however many others exist.   *)
(***************************************************************************)

\* The copy is named by its ID (d: its volume) or by its path, which may have no row.
Discard(r, k, x, path) ==
    /\ Local(k) /\ (path \/ k \in Joined)
    /\ Start(r, [Idle EXCEPT !.cmd = "DISCARD", !.pc = "try", !.k = k, !.x = x,
                             !.d = IF path THEN None ELSE k[1]])

\* _delFile has returned.  Its answer is ignored, and the row deleted, when the copy was
\* named by its ID; with a path it ends the request.
Deleted(r) == IF req[r].x /\ req[r].d # None THEN Goto(r, "delrow") ELSE End(r)

\* _delFile: a file that exists is moved away and back, with or without execute.
DiscardTry(r) ==
    /\ At(r, {"DISCARD"}, "try")
    /\ LET k == req[r].k
       IN \/ vol[k] = "none" /\ Deleted(r) /\ UNCHANGED <<vol, struck, events>>
          \/ /\ vol[k] # "none" /\ vol' = [vol EXCEPT ![k] = "none"]
             /\ req' = [req EXCEPT ![r].pc = "back", ![r].c = vol[k]]
             /\ UNCHANGED <<struck, events>>
          \/ /\ Event("perm") /\ vol[k] # "none" /\ Deleted(r)
             /\ struck' = IF req[r].x THEN struck \cup {k} ELSE struck
             /\ UNCHANGED vol
    /\ UNCHANGED <<row, known, started, cut>>

\* _delFile: without execute nothing is removed; given a path, the row stays behind.
\* Race: the file may be one CLONE has just put there.
DiscardFile(r) ==
    /\ At(r, {"DISCARD"}, "unlink") /\ Deleted(r)
    /\ LET k == req[r].k
       IN \/ ~req[r].x /\ UNCHANGED <<vol, struck, events>>
          \/ /\ req[r].x /\ vol' = [vol EXCEPT ![k] = "none"]
             /\ struck' = IF BeingCloned(k) \/ (req[r].d = None /\ row[k] # "none")
                          THEN struck \cup {k} ELSE struck
             /\ UNCHANGED events
          \/ /\ Event("perm") /\ req[r].x /\ vol[k] # "none"
             /\ struck' = struck \cup {k} /\ UNCHANGED vol
    /\ UNCHANGED <<row, known, started, cut>>

\* A failing deleteFileInfo ends the request with the file gone and the row left.
\* Race: CLONE may have put a file there meanwhile.
DiscardRow(r) ==
    /\ At(r, {"DISCARD"}, "delrow") /\ End(r)
    /\ \/ /\ deleteFileInfo(r, {req[r].k}) /\ UNCHANGED events
          /\ struck' = IF vol[req[r].k] # "none" THEN struck \cup {req[r].k} ELSE struck
       \/ Event("db") /\ struck' = struck \cup {req[r].k} /\ UNCHANGED <<row, cut>>
    /\ UNCHANGED <<vol, known, started>>

-----------------------------------------------------------------------------
(***************************************************************************)
(* CLONE.                                                                  *)
(***************************************************************************)

\* The volumes a file may be cloned to: findTargetDisk, and no row yet
Targets(v) == {t \in LocalDisks \cap known : ~fileInDb(t, v)}

\* _clone: with a volume named, or no version, the newest copy found is cloned, else
\* every copy of the version.  cloneCheckDiskSpace wants a target for each of them.
Clone(r, d, v, t, check) ==
    LET found == {k \in Joined \cap Of(v) : d = None \/ k[1] = d}
    IN /\ found # {}
       /\ \E ls \in IF d # None \/ v = AnyVersion THEN {{k} : k \in Newest(found)} ELSE {found} :
             /\ IF t = None
                THEN \A k \in ls : Cardinality(Targets(k[2])) >= Cardinality(ls)
                ELSE t \in known
             /\ Start(r, [Idle EXCEPT !.cmd = "CLONE", !.pc = "next", !.d = t, !.x = check,
                             !.ls = {k \in ls : row[k] = "ok"}, !.todo = ls])

\* The next file: skipped when it was bad; else a target is chosen.  A named target
\* need not be free, but must be known and not the source.
CloneTarget(r, k) ==
    /\ At(r, {"CLONE"}, "next") /\ k \in req[r].todo
    /\ LET named == req[r].d
           ts == IF named = None THEN Targets(k[2]) \ {k[1]} ELSE {named} \ {k[1]}
       IN IF named # None /\ named \notin known /\ k \in req[r].ls THEN End(r)
          ELSE IF k \notin req[r].ls \/ ts = {}
          THEN req' = [req EXCEPT ![r].todo = @ \ {k}]
          ELSE \E t \in ts : req' = [req EXCEPT ![r].pc = "fetch", ![r].k = k, ![r].v = k[2],
                                                ![r].t = t, ![r].n = 0]
    /\ UNCHANGED <<row, vol, known, started, cut, struck, events>>

\* Mutant: the checksum of the copy is not compared.
CloneFetchUnchecked(r) ==
    /\ At(r, {"CLONE"}, "fetch")
    /\ LET k == req[r].k
           good == vol[k] = "good" \/ vol[k] = "rot"
           failed == IF req[r].n + 1 < CloneAttempts
                     THEN req' = [req EXCEPT ![r].n = @ + 1]
                     ELSE req' = [req EXCEPT ![r].pc = "next", ![r].todo = @ \ {k}, ![r].n = 0]
       IN \/ good /\ req' = [req EXCEPT ![r].pc = "move", ![r].c = vol[k]] /\ UNCHANGED events
          \/ ~good /\ failed /\ UNCHANGED events
          \/ good /\ Event("fetch") /\ failed
    /\ UNCHANGED <<row, vol, known, started, cut, struck>>

\* Mutant: one attempt too many.
CloneFetchOnceMore(r) ==
    /\ At(r, {"CLONE"}, "fetch")
    /\ LET k == req[r].k
           good == vol[k] = "good" \/ (vol[k] = "rot" /\ ~req[r].x)
           failed == IF req[r].n < CloneAttempts
                     THEN req' = [req EXCEPT ![r].n = @ + 1]
                     ELSE req' = [req EXCEPT ![r].pc = "next", ![r].todo = @ \ {k}, ![r].n = 0]
       IN \/ good /\ req' = [req EXCEPT ![r].pc = "move", ![r].c = vol[k]] /\ UNCHANGED events
          \/ ~good /\ failed /\ UNCHANGED events
          \/ good /\ Event("fetch") /\ failed
    /\ UNCHANGED <<row, vol, known, started, cut, struck>>

\* An attempt to fetch the file and to compare it with its row.  Without check only
\* the size is compared.
CloneFetch(r) ==
    /\ At(r, {"CLONE"}, "fetch")
    /\ LET k == req[r].k
           good == vol[k] = "good" \/ (vol[k] = "rot" /\ ~req[r].x)
           failed == IF req[r].n + 1 < CloneAttempts
                     THEN req' = [req EXCEPT ![r].n = @ + 1]
                     ELSE req' = [req EXCEPT ![r].pc = "next", ![r].todo = @ \ {k}, ![r].n = 0]
       IN \/ good /\ req' = [req EXCEPT ![r].pc = "move", ![r].c = vol[k]] /\ UNCHANGED events
          \/ ~good /\ failed /\ UNCHANGED events
          \/ good /\ Event("fetch") /\ failed
    /\ UNCHANGED <<row, vol, known, started, cut, struck>>

\* Mutant: the row is written before the file is in its place.
CloneMoveRowFirst(r) ==
    /\ At(r, {"CLONE"}, "move") /\ Goto(r, "write")
    /\ row' = [row EXCEPT ![<<req[r].t, req[r].v>>] = "ok"]
    /\ UNCHANGED <<vol, known, started, cut, struck, events>>

\* Unchecked content may be rotten.  Race: CHECKFILE has found this place bad or empty
\* and not yet said so.
CloneMove(r) ==
    /\ At(r, {"CLONE"}, "move") /\ Goto(r, "write")
    /\ LET k == <<req[r].t, req[r].v>>
       IN /\ vol' = [vol EXCEPT ![k] = req[r].c]
          /\ struck' = IF (req[r].c = "rot" /\ ~req[r].x) \/ \E q \in Reqs : At(q, {"CHECKFILE"}, "mark") /\ req[q].k = k
                       THEN struck \cup {k} ELSE struck
    /\ UNCHANGED <<row, known, started, cut, events>>

\* ngamsFileInfo.write, and the next file
CloneWrite(r) ==
    /\ At(r, {"CLONE"}, "write")
    /\ row' = [row EXCEPT ![<<req[r].t, req[r].v>>] = "ok"]
    /\ req' = [req EXCEPT ![r].pc = "next", ![r].todo = @ \ {req[r].k}, ![r].c = "none", ![r].n = 0]
    /\ UNCHANGED <<vol, known, started, cut, struck, events>>

CloneDone(r) ==
    /\ At(r, {"CLONE"}, "next") /\ req[r].todo = {} /\ End(r)
    /\ UNCHANGED <<row, vol, known, started, cut, struck, events>>

-----------------------------------------------------------------------------
(***************************************************************************)
(* CHECKFILE and RETRIEVE.                                                 *)
(***************************************************************************)

\* _locateArchiveFile: the newest version first, copies of this host first; a copy
\* is taken when its file exists.  Neither file_status nor ignore counts.
Located(d, v) ==
    LET there == {k \in Joined \cap Of(v) : (d = None \/ k[1] = d) /\ vol[k] # "none"}
        new == Newest(there)
    IN IF \E k \in new : Local(k) THEN {k \in new : Local(k)} ELSE new

\* quickFileLocate: the newest version with a good row, whether or not it exists
QuickLocated(d, v) == Newest({k \in Joined \cap Of(v) : (d = None \/ k[1] = d) /\ row[k] = "ok"})

CheckFile(r, d, v) ==
    \E k \in Located(d, v) :
        Start(r, [Idle EXCEPT !.cmd = "CHECKFILE", !.pc = "look", !.k = k])

\* checkFile: a file that is missing or differs is found out; a copy of another host
\* is checked by that host.  Race: fileRemovable has moved the file away.
CheckFileLook(r) ==
    /\ At(r, {"CHECKFILE"}, "look")
    /\ LET k == req[r].k
           away == \E q \in Reqs : At(q, Movers, "back") /\ req[q].k = k
       IN /\ IF vol[k] = "good" THEN End(r) ELSE Goto(r, "mark")
          /\ struck' = IF away THEN struck \cup {k} ELSE struck
    /\ UNCHANGED <<row, vol, known, started, cut, events>>

\* The row may be gone by now: the UPDATE raises.
CheckFileMark(r) ==
    /\ At(r, {"CHECKFILE"}, "mark") /\ End(r)
    /\ IF row[req[r].k] = "none" THEN UNCHANGED row ELSE set_valid_checksum(req[r].k)
    /\ UNCHANGED <<vol, known, started, cut, struck, events>>

\* With quick_location the rows decide alone; x: no good row was found.
Retrieve(r, d, v, quick) ==
    LET ks == IF quick THEN QuickLocated(d, v) ELSE {}
    IN \E k \in IF ks # {} THEN ks ELSE Located(d, v) :
          Start(r, [Idle EXCEPT !.cmd = "RETRIEVE", !.pc = "send", !.k = k,
                                !.x = QuickLocated(d, v) = {} \/ ~quick])

\* A local file is sent, or the client redirected to the host that has it; it may
\* have gone.
RetrieveSend(r) ==
    /\ At(r, {"RETRIEVE"}, "send")
    /\ req' = [req EXCEPT ![r].pc = "sent", ![r].c = vol[req[r].k]]
    /\ UNCHANGED <<row, vol, known, started, cut, struck, events>>

RetrieveDone(r) ==
    /\ At(r, {"RETRIEVE"}, "sent") /\ End(r)
    /\ UNCHANGED <<row, vol, known, started, cut, struck, events>>

-----------------------------------------------------------------------------
(***************************************************************************)
(* Events.                                                                 *)
(***************************************************************************)

Rot(k) ==
    /\ Event("rot") /\ vol[k] = "good"
    /\ vol' = [vol EXCEPT ![k] = "rot"] /\ struck' = struck \cup {k}
    /\ UNCHANGED <<row, known, req, started, cut>>

Vanish(k) ==
    /\ Event("vanish") /\ vol[k] # "none"
    /\ vol' = [vol EXCEPT ![k] = "none"] /\ struck' = struck \cup {k}
    /\ UNCHANGED <<row, known, req, started, cut>>

\* The copy a request leaves half done when the server is killed
HalfDone(r) ==
    CASE At(r, Movers, "back") \/ At(r, {"REMFILE"}, "unlink") \/ At(r, {"DISCARD"}, "delrow") -> {req[r].k}
      [] At(r, {"CLONE"}, "write") -> {<<req[r].t, req[r].v>>}
      [] OTHER -> {}

Crash ==
    /\ Event("crash") /\ Busy # {}
    /\ struck' = struck \cup UNION {HalfDone(r) : r \in Reqs}
    /\ req' = [r \in Reqs |-> Idle] /\ UNCHANGED <<row, vol, known, started, cut>>

-----------------------------------------------------------------------------
Client(r) ==
    \/ \E d \in Named, v \in Asked, x \in BOOLEAN : RemFile(r, d, v, x)
    \/ \E d \in Named, x \in BOOLEAN : RemDisk(r, d, x)
    \/ \E k \in Named \X Versions, x, path \in BOOLEAN : Discard(r, k, x, path)
    \/ \E d, t \in Named \cup {None}, v \in Asked, check \in BOOLEAN :
          Clone(r, d, v, t, check)
    \/ \E d \in Named \cup {None}, v \in Asked : CheckFile(r, d, v)
    \/ \E d \in Named \cup {None}, v \in Asked, quick \in BOOLEAN :
          Retrieve(r, d, v, quick)

Step(r) ==
    \/ GlobFiles(r) \/ checkFileCopiesAndReg(r) \/ CheckSpurious(r)
    \/ \E k \in Copies : FileRemovable(r, k)
    \/ MoveBack(r) \/ Execute(r)
    \/ \E k \in Copies : RemFileRow(r, k)
    \/ RemFileUnlink(r) \/ RemFileDone(r)
    \/ RemDiskInfo(r) \/ RemDiskRows(r) \/ RemDiskFiles(r)
    \/ DiscardTry(r) \/ DiscardFile(r) \/ DiscardRow(r)
    \/ \E k \in Copies : CloneTarget(r, k)
    \/ CloneFetch(r) \/ CloneMove(r) \/ CloneWrite(r) \/ CloneDone(r)
    \/ CheckFileLook(r) \/ CheckFileMark(r) \/ RetrieveSend(r) \/ RetrieveDone(r)

Next == \/ \E r \in Reqs : Client(r) \/ Step(r)
        \/ \E k \in Copies : Rot(k) \/ Vanish(k)
        \/ Crash

Spec == Init /\ [][Next]_vars

-----------------------------------------------------------------------------
(***************************************************************************)
(* Properties.                                                             *)
(***************************************************************************)

\* DISCARD has removed the file and not yet the row, or fileRemovable has the file.
Away(k) == \E r \in Reqs : req[r].k = k /\ (At(r, {"DISCARD"}, "delrow") \/ At(r, Movers, "back"))

\* The rows tell the truth: unless the file itself was struck or discarded by its path, the
\* server was killed or a statement failed half-way, or requests met in one of the races named
\* above, a copy whose row is good has an intact file, but for the moment in which fileRemovable
\* has moved it away, and no intact copy is marked bad by checkFile.
RowsTrue == \A k \in Copies \ struck : k[1] \in known =>
               Away(k) \/ (row[k] # "bad" /\ (row[k] = "ok" => vol[k] = "good"))

\* No file is left on a volume of this host without a row, except while a request that
\* moved it there (clone.py:512) or deleted its row (remfile.py:138) is still at it.
NoOrphans == \A k \in Copies \ struck : k[1] \in known \cap LocalDisks /\ vol[k] # "none" =>
                \/ row[k] # "none" \/ BeingCloned(k)
                \/ \E r \in Reqs : At(r, {"REMFILE"}, "unlink") /\ req[r].k = k

\* Rows have files and files have rows, whatever two commands do to the copies of a file.
HoldingsTrue == TypeOK /\ RowsTrue /\ NoOrphans

\* REMFILE and REMDISK delete a copy they selected only if three volumes had a copy when
\* checkFileCopiesAndReg counted them: there are fewer at the moment of the deletion only by
\* those that other requests deleted since.
ThreeCopies ==
    [][\A r \in Reqs, k \in Copies :
          /\ At(r, Removals, "delrow") \/ At(r, Removals, "delrows")
          /\ req'[r] # req[r] /\ k \in req[r].ls /\ row[k] # "none" /\ row'[k] = "none"
          => Cardinality({d \in Disks : fileInDb(d, k[2]) \/ <<d, k[2]>> \in cut[r]}) >= MinCopies]_vars

\* RETRIEVE misses a file that quickFileLocate found in the DB only if the copy was struck,
\* or is being or has been removed meanwhile; it never falls back on another copy.
MissedOnlyIfRemoved ==
    [][\A r \in Reqs : LET k == req[r].k IN
          At(r, {"RETRIEVE"}, "send") /\ req'[r].pc = "sent" /\ req'[r].c = "none"
          => k \in struck \/ row[k] = "none" \/ k[1] \notin known \/ Away(k)]_vars

\* Three copies are counted before one is removed, and RETRIEVE finds what the DB told it of
\* unless it was removed or is being moved away and back.
CopiesKept == ThreeCopies /\ MissedOnlyIfRemoved

=============================================================================
