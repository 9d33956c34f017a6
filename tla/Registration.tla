---------------------------- MODULE Registration ----------------------------
(***************************************************************************)
(* REGISTER (commands/register.py): files that are already on an NGAS disk *)
(* are listed and, one after the other in the order of their names, get a  *)
(* row in ngas_files and are counted in ngas_disks.  Commands run side by  *)
(* side, in requests or in threads of their own; a row may be marked bad   *)
(* by the data check.                                                      *)
(***************************************************************************)
EXTENDS Integers, FiniteSets

CONSTANTS
    RgPaths,    \* number of paths on the disk
    RgFileId,   \* RgFileId[p]: base name of a path, which is its File ID
    RgUnknown,  \* paths whose mime-type has no registration plug-in
    RgCmds,     \* commands
    RgEvents    \* bound on failures, crashes and bad files

ASSUME RgConfig == RgPaths \in Nat /\ RgEvents \in Nat /\ RgUnknown \subseteq 1 .. RgPaths

Paths == 1 .. RgPaths

VARIABLES
    rgRows,   \* ngas_files: path, File ID, version, bad
    rgCount,  \* number_of_files
    rgCmd,    \* rgCmd[c]: progress of a command (seen: a ghost, the rows it looked at)
    rgOdd,    \* ghost: what the checks below allow for
    rgEvents

rgVars == <<rgRows, rgCount, rgCmd, rgOdd, rgEvents>>

RgIdle == [step |-> "idle", todo |-> {}, found |-> {}, ver |-> 0, seen |-> {},
           registered |-> {}, failed |-> {}, rejected |-> {}]

RgInit ==
    /\ rgRows = {} /\ rgCount = 0
    /\ rgCmd = [c \in RgCmds |-> RgIdle]
    /\ rgOdd = [clash |-> {}, counts |-> FALSE]
    /\ rgEvents = 0

RgEvent == rgEvents < RgEvents /\ rgEvents' = rgEvents + 1

\* The listing: all files below a directory, or the file itself.
RgList(c) ==
    /\ rgCmd[c].step = "idle"
    /\ \E found \in {Paths} \cup {{p} : p \in Paths} :
        rgCmd' = [rgCmd EXCEPT ![c] = [RgIdle EXCEPT !.step = "next", !.todo = found, !.found = found]]
    /\ UNCHANGED <<rgRows, rgCount, rgOdd, rgEvents>>

RgPath(c) == CHOOSE p \in rgCmd[c].todo : \A q \in rgCmd[c].todo : p <= q
RowsOf(id) == {r \in rgRows : r.id = id}

\* Mutant: a path is looked up in whatever case it was registered, that is never.
fileRegisteredNever(p) == FALSE

\* getFileSummary1 leaves bad files out.
fileRegistered(p) == \E r \in rgRows : r.path = p /\ ~r.bad

\* Mutant: every file is the first version.
NewVersionFirst(id) == 1

\* getNewFileVersion
NewVersion(id) ==
    LET used == {r.ver : r \in RowsOf(id)}
    IN  IF used = {} THEN 1 ELSE 1 + CHOOSE v \in used : \A w \in used : w <= v

\* Mutant: a file that is registered is passed over.
RgDoneSilently(c, what) ==
    rgCmd' = [rgCmd EXCEPT ![c].step = "next", ![c].todo = @ \ {RgPath(c)},
                           ![c].registered = IF what = "registered" THEN @ \cup {RgPath(c)} ELSE @,
                           ![c].failed = IF what = "failed" THEN @ \cup {RgPath(c)} ELSE @]

RgDone(c, what) ==
    rgCmd' = [rgCmd EXCEPT ![c] = [@ EXCEPT !.step = "next", !.todo = @ \ {RgPath(c)},
                                            ![what] = @ \cup {RgPath(c)}]]

\* The plug-in computes the version; a mime-type without a plug-in ends the command.
RgPlugIn(c) ==
    /\ rgCmd[c].step = "next" /\ rgCmd[c].todo # {}
    /\ LET p == RgPath(c)
       IN  \/ p \in RgUnknown /\ rgCmd' = [rgCmd EXCEPT ![c].step = "raised"]
           \/ p \notin RgUnknown /\ fileRegistered(p) /\ RgDone(c, "rejected")
           \/ /\ p \notin RgUnknown /\ ~fileRegistered(p)
              /\ rgCmd' = [rgCmd EXCEPT ![c].step = "write", ![c].ver = NewVersion(RgFileId[p]),
                                        ![c].seen = RowsOf(RgFileId[p])]
    /\ UNCHANGED <<rgRows, rgCount, rgOdd, rgEvents>>

\* Plug-in, checksum, move or DB statement fails: the next file is taken.
RgFails(c) ==
    /\ rgCmd[c].step \in {"write", "count"} /\ RgEvent
    /\ RgDone(c, "failed")
    /\ rgOdd' = [rgOdd EXCEPT !.counts = @ \/ rgCmd[c].step = "count"]
    /\ UNCHANGED <<rgRows, rgCount>>

(***************************************************************************)
(* updateFileInfoDb: INSERT, or UPDATE of the row with this disk, File ID  *)
(* and version, which another command may have inserted meanwhile.         *)
(***************************************************************************)
RgWrite(c) ==
    LET p == RgPath(c)
        old == {r \in RowsOf(RgFileId[p]) : r.ver = rgCmd[c].ver}
    IN  /\ rgCmd[c].step = "write"
        /\ rgRows' = (rgRows \ old) \cup {[path |-> p, id |-> RgFileId[p], ver |-> rgCmd[c].ver, bad |-> FALSE]}
        /\ rgOdd' = [clash |-> rgOdd.clash \cup {r.path : r \in old \ rgCmd[c].seen}
                               \cup (IF fileRegistered(p) THEN {p} ELSE {}),
                     counts |-> rgOdd.counts \/ old \ rgCmd[c].seen # {}]
        /\ rgCmd' = [rgCmd EXCEPT ![c].step = "count", ![c].seen = {}]
        /\ UNCHANGED <<rgCount, rgEvents>>

\* Mutant: registered files are not counted.
RgCountedNot == rgCount

RgCounted == rgCount + 1

\* updateDiskStatusDb.  In a cache archive the statement after it names an unbound variable, and the
\* file that was registered is reported as failed.
RgUpdateDisk(c) ==
    /\ rgCmd[c].step = "count"
    /\ rgCount' = RgCounted
    /\ RgDone(c, "registered") \/ RgDone(c, "failed")
    /\ UNCHANGED <<rgRows, rgOdd, rgEvents>>

\* The reply, or the e-mail with the report.
RgReport(c) ==
    /\ rgCmd[c].step = "next" /\ rgCmd[c].todo = {}
    /\ rgCmd' = [rgCmd EXCEPT ![c].step = "reported"]
    /\ UNCHANGED <<rgRows, rgCount, rgOdd, rgEvents>>

RgAgain(c) ==
    /\ rgCmd[c].step \in {"reported", "raised"} /\ RgEvent
    /\ rgCmd' = [rgCmd EXCEPT ![c] = RgIdle]
    /\ UNCHANGED <<rgRows, rgCount, rgOdd>>

RgCrash ==
    /\ RgEvent
    /\ rgCmd' = [c \in RgCmds |-> RgIdle]
    /\ rgOdd' = [rgOdd EXCEPT !.counts = @ \/ \E c \in RgCmds : rgCmd[c].step = "count"]
    /\ UNCHANGED <<rgRows, rgCount>>

\* The data check marks a file bad.
RgBad ==
    /\ RgEvent
    /\ \E r \in rgRows : ~r.bad /\ rgRows' = (rgRows \ {r}) \cup {[r EXCEPT !.bad = TRUE]}
    /\ UNCHANGED <<rgCount, rgCmd, rgOdd>>

RgNext ==
    \/ \E c \in RgCmds : \/ RgList(c) \/ RgPlugIn(c) \/ RgFails(c) \/ RgWrite(c)
                         \/ RgUpdateDisk(c) \/ RgReport(c) \/ RgAgain(c)
    \/ RgCrash \/ RgBad

RgSpec == RgInit /\ [][RgNext]_rgVars

-----------------------------------------------------------------------------
\* However often a directory is registered, and also after a crash half-way,
\* a path has at most one good row, unless two commands were at the same file
\* or at files with the same name at the same time (_registerExec).
RegisteredOnce ==
    \A r, s \in rgRows : r # s /\ r.path = s.path /\ ~r.bad /\ ~s.bad => r.path \in rgOdd.clash

\* What a command reports as registered has a row; it is lost to a file of
\* the same name in another directory only when both were registered at once.
ReportedIsThere ==
    \A c \in RgCmds : \A p \in rgCmd[c].registered : p \in rgOdd.clash \/ \E r \in rgRows : r.path = p

\* The report accounts for every file the command found.
ReportComplete ==
    \A c \in RgCmds : rgCmd[c].step = "reported" =>
        rgCmd[c].found = rgCmd[c].registered \cup rgCmd[c].failed \cup rgCmd[c].rejected

\* number_of_files is the number of rows when no command is about to count,
\* unless one failed or was killed in between or two had the same version.
RegisteredCounted ==
    (\A c \in RgCmds : rgCmd[c].step # "count") /\ ~rgOdd.counts => rgCount = Cardinality(rgRows)

=============================================================================
