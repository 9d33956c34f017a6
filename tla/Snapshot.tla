------------------------------ MODULE Snapshot ------------------------------
(***************************************************************************)
(* The DB Snapshot of a disk: a file on the disk with an entry for each of *)
(* its rows of ngas_files.  The server writes a document for each change   *)
(* of a row; the Janitor replays the documents into the snapshot and into  *)
(* the DB.  When it starts it compares snapshot, DB and disk, so that rows *)
(* the DB has lost are restored and rows without file disappear.  A        *)
(* document is first an empty .pickle file; one the Janitor meets while it *)
(* is empty is skipped, and removed with the others even if it has become  *)
(* complete.  Each file is the object of at most one request at a time.    *)
(***************************************************************************)
EXTENDS Integers, Sequences, FiniteSets

CONSTANTS
    SnFiles,  \* the files of the disk
    SnOps,    \* bound on the archived and removed files
    SnFaults  \* bound on the crashes and on the files that vanish

ASSUME SnConfig == SnOps \in Nat /\ SnFaults \in Nat

VARIABLES
    snRow,    \* the files with a row in ngas_files
    snShot,   \* the files with an entry in the snapshot
    snSynced, \* the same, of the snapshot as it is on the disk
    snDisk,   \* the files on the disk
    snDocs,   \* the change documents on the disk, in the order of their ctime: the number
              \* (name), the operation ("empty" before it is complete) and the file
    snReq,    \* snReq[f]: the next step of the request about f and the number of its document
    snTold,   \* snTold[f]: what the last request about f that was through told its client
    snJan,    \* the Janitor: next step, files or documents left, documents listed and those
              \* of them skipped, rows it read, entries to delete
    snLost,   \* the files with a document that was removed without having been replayed
    snCount   \* requests and faults so far

snVars == <<snRow, snShot, snSynced, snDisk, snDocs, snReq, snTold, snJan, snLost, snCount>>
snJanVars == <<snShot, snSynced, snJan, snLost>>
snReqVars == <<snReq, snTold, snDisk, snCount>>

SnStart == [pc |-> "read", left |-> {}, docs |-> <<>>, listed |-> <<>>, skipped |-> {},
            rows |-> {}, del |-> {}]

SnInit ==
    /\ snRow = {} /\ snShot = {} /\ snSynced = {} /\ snDisk = {} /\ snDocs = <<>>
    /\ snReq = [f \in SnFiles |-> [pc |-> "none", n |-> 0]] /\ snLost = {}
    /\ snTold = [f \in SnFiles |-> "nothing"]
    /\ snJan = SnStart
    /\ snCount = [ops |-> 0, faults |-> 0]

-----------------------------------------------------------------------------
(***************************************************************************)
(* The server.                                                             *)
(***************************************************************************)
SnGoto(f, label) == snReq' = [snReq EXCEPT ![f].pc = label]
SnTell(f, what) == snTold' = [snTold EXCEPT ![f] = what]

\* The documents except number n, and document number n where there is one.
SnWithout(docs, n) == SelectSeq(docs, LAMBDA d : d.n # n)
SnNamed(docs, n) == SelectSeq(docs, LAMBDA d : d.n = n)

\* two_stage_pickle: mkstemp makes an empty file of the document's name, then the
\* complete document is renamed over it (or takes the name, if the Janitor has removed
\* the empty file).
TwoStagePickle(f, op) ==
    snDocs' = Append(SnWithout(snDocs, snReq[f].n), [n |-> snReq[f].n, op |-> op, file |-> f])
createDbFileChangeStatusDoc(op, f, here, next) ==
    /\ snReq[f].pc = here
    /\ TwoStagePickle(f, op)
    /\ SnGoto(f, next)

\* The entry of a file in the snapshot: _encFileInfo, _addInDbm
encFileInfo(f) == snShot' = snShot \cup {f}

\* An Archive Request moves its file to the disk ...
SnStore(f) ==
    /\ snReq[f].pc = "none" /\ f \notin snRow /\ snCount.ops < SnOps
    /\ snDisk' = snDisk \cup {f}
    /\ snCount' = [snCount EXCEPT !.ops = @ + 1]
    /\ snReq' = [snReq EXCEPT ![f] = [pc |-> "insert", n |-> snCount.ops + 1]]
    /\ SnTell(f, "nothing")
    /\ UNCHANGED <<snRow, snDocs, snJanVars>>

\* ... writes the row ...
SnInsert(f) ==
    /\ snReq[f].pc = "insert"
    /\ snRow' = snRow \cup {f}
    /\ SnGoto(f, "inserted")
    /\ UNCHANGED <<snDocs, snDisk, snTold, snCount, snJanVars>>

\* ... and the document, and the client is told.
SnInserted(f) ==
    /\ createDbFileChangeStatusDoc("INSERT", f, "inserting", "none")
    /\ SnTell(f, "archived")
    /\ UNCHANGED <<snRow, snDisk, snCount, snJanVars>>

\* The empty file of the document appears.
SnOpen(f) ==
    /\ \/ createDbFileChangeStatusDoc("empty", f, "inserted", "inserting")
       \/ createDbFileChangeStatusDoc("empty", f, "deleted", "deleting")
    /\ UNCHANGED <<snRow, snDisk, snTold, snCount, snJanVars>>

\* deleteFileInfo of a file to remove: the row ...
SnDelete(f) ==
    /\ snReq[f].pc = "none" /\ f \in snRow /\ snCount.ops < SnOps
    /\ snRow' = snRow \ {f}
    /\ snCount' = [snCount EXCEPT !.ops = @ + 1]
    /\ snReq' = [snReq EXCEPT ![f] = [pc |-> "deleted", n |-> snCount.ops + 1]]
    /\ SnTell(f, "nothing")
    /\ UNCHANGED <<snDocs, snDisk, snJanVars>>

\* ... and the document.  The file is removed afterwards.
SnDeleted(f) ==
    /\ createDbFileChangeStatusDoc("DELETE", f, "deleting", "remove")
    /\ UNCHANGED <<snRow, snDisk, snTold, snCount, snJanVars>>

SnRemove(f) ==
    /\ snReq[f].pc = "remove"
    /\ snDisk' = snDisk \ {f}
    /\ SnGoto(f, "none") /\ SnTell(f, "removed")
    /\ UNCHANGED <<snRow, snDocs, snCount, snJanVars>>

-----------------------------------------------------------------------------
(***************************************************************************)
(* checkUpdateDbSnapShots, when the Janitor starts.                        *)
(***************************************************************************)

\* The rows of the disk are read into a temporary snapshot.
SnReadRows ==
    /\ snJan.pc = "read"
    /\ snJan' = [snJan EXCEPT !.pc = "entries", !.left = snShot, !.rows = snRow]
    /\ UNCHANGED <<snRow, snShot, snSynced, snDocs, snLost, snReqVars>>

\* Mutant: an entry without row is deleted although its file is there.
SnCheckEntryDeletes(f) ==
    /\ snJan.pc = "entries" /\ f \in snJan.left
    /\ snJan' = [snJan EXCEPT !.left = @ \ {f}, !.del = @ \cup ({f} \ snJan.rows)]
    /\ UNCHANGED <<snRow, snShot, snSynced, snDocs, snLost, snReqVars>>

\* An entry of the snapshot: its row is restored, it is to be deleted, or (row and no
\* file) the file is reported as lost.
SnCheckEntry(f) ==
    /\ snJan.pc = "entries" /\ f \in snJan.left
    /\ LET here == f \in snDisk
           known == f \in snJan.rows
       IN /\ snRow' = IF ~known /\ here THEN snRow \cup {f} ELSE snRow
          /\ snJan' = [snJan EXCEPT !.left = @ \ {f},
                                    !.rows = IF ~known /\ here THEN @ \cup {f} ELSE @,
                                    !.del = IF ~known /\ ~here THEN @ \cup {f} ELSE @]
    /\ UNCHANGED <<snShot, snSynced, snDocs, snLost, snReqVars>>

\* The entries scheduled for it are deleted.
SnDeleteEntries ==
    /\ snJan.pc = "entries" /\ snJan.left = {}
    /\ snShot' = snShot \ snJan.del /\ snSynced' = snShot'
    /\ snJan' = [snJan EXCEPT !.pc = "rows", !.left = snJan.rows, !.del = {}]
    /\ UNCHANGED <<snRow, snDocs, snLost, snReqVars>>

\* A row of the temporary snapshot: without entry and without file it is deleted;
\* otherwise the entry becomes what the row says.
SnCheckRow(f) ==
    /\ snJan.pc = "rows" /\ f \in snJan.left
    /\ LET stays == f \in snShot \/ f \in snDisk
       IN /\ IF stays THEN encFileInfo(f) ELSE UNCHANGED snShot
          /\ snRow' = IF stays THEN snRow ELSE snRow \ {f}
    /\ snJan' = [snJan EXCEPT !.left = @ \ {f}]
    /\ UNCHANGED <<snSynced, snDocs, snLost, snReqVars>>

SnCheckEnds ==
    /\ snJan.pc = "rows" /\ snJan.left = {}
    /\ snSynced' = snShot
    /\ snJan' = [SnStart EXCEPT !.pc = "idle"]
    /\ UNCHANGED <<snRow, snShot, snDocs, snLost, snReqVars>>

-----------------------------------------------------------------------------
(***************************************************************************)
(* checkDbChangeCache, in every cycle and after an event.                  *)
(***************************************************************************)

\* The documents there are now, the empty ones too.
SnList ==
    /\ snJan.pc = "idle" /\ snDocs # <<>>
    /\ LET names == [i \in DOMAIN snDocs |-> snDocs[i].n]
       IN snJan' = [snJan EXCEPT !.pc = "replay", !.docs = names, !.listed = names]
    /\ UNCHANGED <<snRow, snShot, snSynced, snDocs, snLost, snReqVars>>

\* An empty document is removed and skipped.
SnSkip ==
    /\ snJan.pc = "replay" /\ snJan.docs # <<>>
    /\ LET n == Head(snJan.docs)
       IN /\ SnNamed(snDocs, n)[1].op = "empty"
          /\ snDocs' = SnWithout(snDocs, n)
          /\ snJan' = [snJan EXCEPT !.docs = Tail(@), !.skipped = @ \cup {n}]
    /\ UNCHANGED <<snRow, snShot, snSynced, snLost, snReqVars>>

\* Mutant: a document of a removal leaves the row.
SnReplayKeepsRow ==
    /\ snJan.pc = "replay" /\ snJan.docs # <<>>
    /\ LET d == SnNamed(snDocs, Head(snJan.docs))[1]
       IN /\ d.op # "empty"
          /\ IF d.op = "INSERT" THEN encFileInfo(d.file) /\ snRow' = snRow \cup {d.file}
                                ELSE snShot' = snShot \ {d.file} /\ snRow' = snRow
          /\ snLost' = snLost \ {d.file}
    /\ snJan' = [snJan EXCEPT !.docs = Tail(@)]
    /\ UNCHANGED <<snSynced, snDocs, snReqVars>>

\* A document is replayed: the entry and the row are written or deleted.
SnReplay ==
    /\ snJan.pc = "replay" /\ snJan.docs # <<>>
    /\ LET d == SnNamed(snDocs, Head(snJan.docs))[1]
       IN /\ d.op # "empty"
          /\ IF d.op = "INSERT" THEN encFileInfo(d.file) /\ snRow' = snRow \cup {d.file}
                                ELSE snShot' = snShot \ {d.file} /\ snRow' = snRow \ {d.file}
          /\ snLost' = snLost \ {d.file}
    /\ snJan' = [snJan EXCEPT !.docs = Tail(@)]
    /\ UNCHANGED <<snSynced, snDocs, snReqVars>>

\* Mutant: every document on the disk is removed, not only the ones listed.
SnSyncAll ==
    /\ snJan.pc = "replay" /\ snJan.docs = <<>>
    /\ snSynced' = snShot
    /\ snJan' = [snJan EXCEPT !.pc = "clean", !.docs = [i \in DOMAIN snDocs |-> snDocs[i].n]]
    /\ UNCHANGED <<snRow, snShot, snDocs, snLost, snReqVars>>

\* The snapshot is synchronised before the first document is removed.
SnSync ==
    /\ snJan.pc = "replay" /\ snJan.docs = <<>>
    /\ snSynced' = snShot
    /\ snJan' = [snJan EXCEPT !.pc = "clean", !.docs = snJan.listed]
    /\ UNCHANGED <<snRow, snShot, snDocs, snLost, snReqVars>>

\* The files that were listed are removed, the oldest first: also a document that was
\* skipped and that has been completed since.
SnClean ==
    /\ snJan.pc = "clean"
    /\ IF snJan.docs = <<>>
       THEN snJan' = [SnStart EXCEPT !.pc = "idle"] /\ UNCHANGED <<snDocs, snLost>>
       ELSE LET n == Head(snJan.docs)
                here == SnNamed(snDocs, n)
            IN /\ snJan' = [snJan EXCEPT !.docs = Tail(@)]
               /\ snDocs' = SnWithout(snDocs, n)
               /\ snLost' = IF n \in snJan.skipped /\ here # <<>>
                            THEN snLost \cup {here[1].file} ELSE snLost
    /\ UNCHANGED <<snRow, snShot, snSynced, snReqVars>>

-----------------------------------------------------------------------------
(***************************************************************************)
(* Faults.                                                                 *)
(***************************************************************************)
SnFault == snCount.faults < SnFaults /\ snCount' = [snCount EXCEPT !.faults = @ + 1]

\* The server is killed with the Janitor, while it is down the DB may lose any rows (an
\* older one is put in place, the disk goes to another archive), and it is started.
\* What was not synchronised may be on the disk or not.
SnCrash ==
    /\ SnFault
    /\ snReq' = [f \in SnFiles |-> [pc |-> "none", n |-> 0]]
    /\ \E some \in SUBSET SnFiles :
          LET back == {f \in SnFiles : IF f \in some THEN f \in snShot ELSE f \in snSynced}
          IN snShot' = back /\ snSynced' = back
    /\ \E kept \in SUBSET snRow : snRow' = kept
    /\ snJan' = SnStart
    /\ UNCHANGED <<snDisk, snDocs, snTold, snLost>>

\* A file vanishes from the disk.
SnVanish(f) ==
    /\ SnFault
    /\ f \in snDisk /\ snReq[f].pc = "none"
    /\ snDisk' = snDisk \ {f}
    /\ snTold' = [snTold EXCEPT ![f] = "nothing"]
    /\ UNCHANGED <<snRow, snDocs, snReq, snJanVars>>

SnNext ==
    \/ \E f \in SnFiles :
          \/ SnStore(f) \/ SnInsert(f) \/ SnOpen(f) \/ SnInserted(f)
          \/ SnDelete(f) \/ SnDeleted(f) \/ SnRemove(f)
          \/ SnCheckEntry(f) \/ SnCheckRow(f) \/ SnVanish(f)
    \/ SnReadRows \/ SnDeleteEntries \/ SnCheckEnds
    \/ SnList \/ SnSkip \/ SnReplay \/ SnSync \/ SnClean
    \/ SnCrash

-----------------------------------------------------------------------------
(***************************************************************************)
(* Properties.                                                             *)
(***************************************************************************)

\* No request is under way and the Janitor has replayed everything.
SnQuiet == snJan.pc = "idle" /\ snDocs = <<>> /\ \A f \in SnFiles : snReq[f].pc = "none"

\* A file a client was told is archived, and that is on the disk, has its row once the
\* Janitor has nothing left to do, although the DB lost rows, the Janitor deleted and
\* wrote rows for old documents, and the server was killed at any point
\* (checkUpdateDbSnapShots, checkDbChangeCache).  Excepted: the last document of the
\* file was completed after the Janitor had skipped it, and removed unread.
ArchivedFound ==
    SnQuiet => \A f \in SnFiles \ snLost : snTold[f] = "archived" => f \in snRow \cap snShot

\* A file a client was told is removed does not come back: the Janitor may restore its
\* row for a while, from its entry or for an old document, and has deleted it again
\* once it has nothing left to do, unless the document was removed unread.
RemovedForgotten ==
    SnQuiet => \A f \in SnFiles \ snLost : snTold[f] = "removed" => f \notin snRow \cup snShot

\* Snapshot and DB agree once the Janitor has nothing left to do, on every file but
\* those with a document that was removed unread.
SnapshotAgrees == SnQuiet => \A f \in SnFiles \ snLost : f \in snRow <=> f \in snShot

=============================================================================
