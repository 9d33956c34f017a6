----------------------------- MODULE ArchiveTool -----------------------------
(***************************************************************************)
(* The utility ngasArchiveTool.py: it archives the files it finds in a     *)
(* directory, asks the server to check them, and removes the sources of    *)
(* those the server finds in order.  A DBM keeps what was done with each   *)
(* file from one execution to the next; a lock file shall keep two         *)
(* executions with the same ID apart.                                      *)
(***************************************************************************)
EXTENDS Integers, FiniteSets

CONSTANTS
    AtFiles,    \* the source files
    AtTools,    \* executions, with the same ID
    AtOptions,  \* sets of the options archive, check, cleanUp
    AtMaxVer,   \* bound on the contents a source file has
    AtEvents,   \* bound on failures, crashes, changes, together
    AtNone      \* nothing

ASSUME AtConfig == AtNone \notin AtFiles /\ AtEvents \in Nat /\ AtMaxVer \in Nat \ {0}

VARIABLES
    atSrc,     \* atSrc[f]: the content of the source file, 0 if there is none
    atDbm,     \* atDbm[f]: the entry of f
    atLock,    \* the lock file
    atTool,    \* atTool[t]: step, options, files scanned, files left, file and entry in hand
    atStored,  \* atStored[f]: contents of which the archive has an intact copy
    atCount,   \* atCount[f]: how often the present content was archived, counted to two
    atRemoved, \* ghost: the contents the tool removed
    atChanged, \* ghost: files that were written again after they were archived
    atHurt,    \* ghost: files whose copy was damaged when an execution was past its check of them, or
               \* of which one wrote an entry from before the damage over that of another
    atStale,   \* ghost: files whose copy was damaged after the check their entry tells of
    atRepeat,  \* ghost: files archived without a trace in the DBM; all, once two executions overlapped
    atEvents

atVars == <<atSrc, atDbm, atLock, atTool, atStored, atCount, atRemoved, atChanged, atHurt, atStale, atRepeat,
            atEvents>>
ghosts == <<atRemoved, atChanged, atHurt, atStale>>
archiveVars == <<atStored, atCount>>

\* archived: the answer to the Archive Request and the content it is about; checked: the
\* answer to CHECKFILE; removed: 0, 1 or -1.
NoEntry == [archived |-> AtNone, ver |-> 0, checked |-> AtNone, removed |-> -2]
NewEntry == [NoEntry EXCEPT !.removed = 0]
AtIdle == [step |-> "off", opts |-> {}, list |-> {}, left |-> {}, cur |-> AtNone, entry |-> NoEntry]

AtInit ==
    /\ atSrc = [f \in AtFiles |-> 1] /\ atDbm = [f \in AtFiles |-> NoEntry] /\ atLock = FALSE
    /\ atTool = [t \in AtTools |-> AtIdle]
    /\ atStored = [f \in AtFiles |-> {}] /\ atCount = [f \in AtFiles |-> 0]
    /\ atRemoved = {} /\ atChanged = {} /\ atHurt = {} /\ atStale = {} /\ atRepeat = {} /\ atEvents = 0

AtEvent == atEvents < AtEvents /\ atEvents' = atEvents + 1

AtStep(t, s) == atTool[t].step = s
Others(t) == {u \in AtTools \ {t} : atTool[u].step # "off"}

\* The step after s, for the options given.
Following(opts, s) ==
    CASE s = "scan" /\ "archive" \in opts -> "archive"
      [] s \in {"scan", "archive"} /\ opts \cap {"check", "cleanUp"} # {} -> "check"
      [] s \in {"scan", "archive", "check"} /\ "cleanUp" \in opts -> "clean"
      [] OTHER -> "prune"

\* The files the loop of a step goes through: those found, or the entries of the DBM.
LoopOver(s, list) == IF s \in {"clean", "prune"} THEN {f \in AtFiles : atDbm[f] # NoEntry} ELSE list

\* The execution ends, with or without an exception; both remove the lock file.
AtLeaves(t) == atTool' = [atTool EXCEPT ![t] = AtIdle] /\ atLock' = FALSE

-----------------------------------------------------------------------------
\* The lock file is looked for.  An execution that finds it fails, and removes it; with
\* --force it goes on.
LookForLock(t, opts, force) ==
    /\ AtStep(t, "off")
    /\ IF atLock /\ ~force
       THEN /\ atLock' = FALSE /\ AtEvent /\ UNCHANGED atTool
       ELSE /\ atTool' = [atTool EXCEPT ![t] = [AtIdle EXCEPT !.step = "touch", !.opts = opts]]
            /\ IF atLock THEN AtEvent ELSE UNCHANGED atEvents
            /\ UNCHANGED atLock
    /\ atRepeat' = IF Others(t) # {} THEN AtFiles ELSE atRepeat
    /\ UNCHANGED <<atSrc, atDbm, archiveVars, ghosts>>

TouchLock(t) ==
    /\ AtStep(t, "touch") /\ atLock' = TRUE
    /\ atTool' = [atTool EXCEPT ![t].step = "scan"]
    /\ UNCHANGED <<atSrc, atDbm, archiveVars, ghosts, atRepeat, atEvents>>

\* The files in the directory get an entry if they have none.  The source directory, recursion
\* and the extensions of this execution select the files.
scanDirs(t) == AtStep(t, "scan") /\ \E list \in SUBSET {f \in AtFiles : atSrc[f] # 0} :
    /\ atDbm' = [f \in AtFiles |-> IF f \in list /\ atDbm[f] = NoEntry THEN NewEntry ELSE atDbm[f]]
    /\ atTool' = [atTool EXCEPT ![t].step = Following(atTool[t].opts, "scan"), ![t].list = list,
                      ![t].left = IF Following(atTool[t].opts, "scan") \in {"clean", "prune"}
                                  THEN {f \in AtFiles : atDbm'[f] # NoEntry} ELSE list]
    /\ UNCHANGED <<atSrc, atLock, archiveVars, ghosts, atRepeat, atEvents>>

\* A loop is through.
AtNextLoop(t) ==
    LET s == Following(atTool[t].opts, atTool[t].step) IN
    /\ atTool[t].step \in {"archive", "check", "clean"} /\ atTool[t].left = {} /\ atTool[t].cur = AtNone
    /\ atTool' = [atTool EXCEPT ![t].step = s, ![t].left = LoopOver(s, atTool[t].list)]
    /\ UNCHANGED <<atSrc, atDbm, atLock, archiveVars, ghosts, atRepeat, atEvents>>

\* A file is archived if it was not, or if that failed.
ToArchive(e) == e.archived # "ok"

\* The execution has entry e to write back.
Holds(t, f, e) == atTool' = [atTool EXCEPT ![t].left = @ \ {f}, ![t].cur = f, ![t].entry = e]

\* An entry another execution has removed raises an exception.
AtGone(t, f) ==
    /\ atTool[t].step \in {"archive", "check", "clean", "prune"} /\ f \in atTool[t].left
    /\ atTool[t].cur = AtNone /\ atDbm[f] = NoEntry
    /\ AtLeaves(t)
    /\ UNCHANGED <<atSrc, atDbm, archiveVars, ghosts, atRepeat, atEvents>>

\* The Archive Request: the server stores the file or fails.  When no server answers, or the
\* source is gone, the tool ends, whether the file was stored or not.
AtArchive(t, f) ==
    LET e == atDbm[f] IN
    /\ AtStep(t, "archive") /\ f \in atTool[t].left /\ atTool[t].cur = AtNone /\ e # NoEntry
    /\ \/ /\ ~ToArchive(e) /\ atTool' = [atTool EXCEPT ![t].left = @ \ {f}]
          /\ UNCHANGED <<atLock, archiveVars, atRepeat, atEvents>>
       \/ /\ ToArchive(e) /\ atSrc[f] # 0
          /\ Holds(t, f, [e EXCEPT !.archived = "ok", !.ver = atSrc[f]])
          /\ atStored' = [atStored EXCEPT ![f] = @ \cup {atSrc[f]}] /\ atCount' = [atCount EXCEPT ![f] = IF @ = 2 THEN 2 ELSE @ + 1]
          /\ UNCHANGED <<atLock, atRepeat, atEvents>>
       \/ /\ ToArchive(e) /\ atSrc[f] # 0 /\ AtEvent
          /\ Holds(t, f, [e EXCEPT !.archived = "fail"])
          /\ UNCHANGED <<atLock, archiveVars, atRepeat>>
       \/ /\ ToArchive(e) /\ AtLeaves(t)
          /\ \/ /\ atSrc[f] # 0 /\ AtEvent /\ atStored' = [atStored EXCEPT ![f] = @ \cup {atSrc[f]}]
                /\ atCount' = [atCount EXCEPT ![f] = IF @ = 2 THEN 2 ELSE @ + 1] /\ atRepeat' = atRepeat \cup {f}
             \/ /\ IF atSrc[f] # 0 THEN AtEvent ELSE UNCHANGED atEvents
                /\ UNCHANGED <<archiveVars, atRepeat>>
    /\ UNCHANGED <<atSrc, atDbm, ghosts>>

\* What CHECKFILE says of the copy an entry is about.
FileOk(f, e) == e.ver \in atStored[f]

\* Mutant: files that were found in order are not checked again.
checkFileOnce(t, f) ==
    LET e == atDbm[f] IN
    /\ AtStep(t, "check") /\ f \in atTool[t].left /\ atTool[t].cur = AtNone /\ e # NoEntry
    /\ IF e.checked = "ok" THEN atTool' = [atTool EXCEPT ![t].left = @ \ {f}]
       ELSE Holds(t, f, [e EXCEPT !.checked = IF e.archived # "ok" THEN AtNone ELSE IF FileOk(f, e) THEN "ok" ELSE "nok"])
    /\ UNCHANGED <<atSrc, atDbm, atLock, archiveVars, ghosts, atRepeat, atEvents>>

\* Every file found is checked; one that was not archived counts as not checked.  When no
\* server answers, the tool ends.
checkFile(t, f) ==
    LET e == atDbm[f] IN
    /\ AtStep(t, "check") /\ f \in atTool[t].left /\ atTool[t].cur = AtNone /\ e # NoEntry
    /\ \/ /\ UNCHANGED <<atLock, atEvents>>
          /\ Holds(t, f, [e EXCEPT !.checked = IF e.archived # "ok" THEN AtNone ELSE IF FileOk(f, e) THEN "ok" ELSE "nok"])
       \/ e.archived = "ok" /\ AtEvent /\ AtLeaves(t)
    /\ UNCHANGED <<atSrc, atDbm, archiveVars, ghosts, atRepeat>>

\* All entries are gone through, also older ones.  A source that cannot be removed is noted.
cleanUp(t, f) ==
    LET e == atDbm[f] IN
    /\ AtStep(t, "clean") /\ f \in atTool[t].left /\ atTool[t].cur = AtNone /\ e # NoEntry
    /\ \/ e.checked # "ok" /\ atTool' = [atTool EXCEPT ![t].left = @ \ {f}] /\ UNCHANGED <<atSrc, atRemoved, atEvents>>
       \/ /\ e.checked = "ok" /\ Holds(t, f, [e EXCEPT !.removed = 1])
          /\ atSrc' = [atSrc EXCEPT ![f] = 0]
          /\ atRemoved' = atRemoved \cup ({<<f, atSrc[f]>>} \ {<<f, 0>>}) /\ UNCHANGED atEvents
       \/ /\ e.checked = "ok" /\ atSrc[f] # 0 /\ AtEvent /\ Holds(t, f, [e EXCEPT !.removed = -1])
          /\ UNCHANGED <<atSrc, atRemoved>>
    /\ UNCHANGED <<atDbm, atLock, archiveVars, atChanged, atHurt, atStale, atRepeat>>


\* dbm.add: the whole entry is written, whatever another execution has put there.
dbmAdd(t) ==
    LET f == atTool[t].cur IN
    /\ f # AtNone
    /\ atDbm' = [atDbm EXCEPT ![f] = atTool[t].entry]
    /\ atTool' = [atTool EXCEPT ![t].cur = AtNone, ![t].entry = NoEntry]
    /\ atStale' = IF atTool[t].entry.checked = "ok" \/ \E u \in Others(t) : atTool[u].cur = f THEN atStale ELSE atStale \ {f}
    /\ atHurt' = IF f \in atStale /\ atTool[t].entry.checked = "ok" /\ Others(t) # {} THEN atHurt \cup {f} ELSE atHurt
    /\ UNCHANGED <<atSrc, atLock, archiveVars, atRemoved, atChanged, atRepeat, atEvents>>

\* The entry of a file that was checked and removed goes; also if it could not be removed, so
\* that the next execution archives it again.
prune(t, f) ==
    LET e == atDbm[f] IN
    /\ AtStep(t, "prune") /\ f \in atTool[t].left /\ e # NoEntry
    /\ atTool' = [atTool EXCEPT ![t].left = @ \ {f}]
    /\ atDbm' = IF e.checked = "ok" /\ e.removed # 0 THEN [atDbm EXCEPT ![f] = NoEntry] ELSE atDbm
    /\ atRepeat' = IF e.removed = -1 THEN atRepeat \cup {f} ELSE atRepeat
    /\ UNCHANGED <<atSrc, atLock, archiveVars, ghosts, atEvents>>

AtEnd(t) ==
    /\ AtStep(t, "prune") /\ atTool[t].left = {} /\ AtLeaves(t)
    /\ UNCHANGED <<atSrc, atDbm, archiveVars, ghosts, atRepeat, atEvents>>

\* The tool is killed: the lock file stays.
AtCrash(t) ==
    /\ ~AtStep(t, "off") /\ AtEvent
    /\ atTool' = [atTool EXCEPT ![t] = AtIdle]
    /\ atRepeat' = IF AtStep(t, "archive") /\ atTool[t].cur # AtNone THEN atRepeat \cup {atTool[t].cur} ELSE atRepeat
    /\ UNCHANGED <<atSrc, atDbm, atLock, archiveVars, ghosts>>

\* Somebody writes a source file, again or after it was removed.
WriteSource(f) ==
    /\ AtEvent /\ \E v \in 1..AtMaxVer :
          /\ v \notin atStored[f] \cup {atSrc[f]} \cup {x \in 1..AtMaxVer : <<f, x>> \in atRemoved}
          /\ atSrc' = [atSrc EXCEPT ![f] = v]
    /\ atCount' = [atCount EXCEPT ![f] = 0]
    /\ atChanged' = IF \/ atDbm[f].archived = "ok" \/ \E t \in AtTools : atTool[t].cur = f /\ atTool[t].entry.archived = "ok"
                    THEN atChanged \cup {f} ELSE atChanged
    /\ UNCHANGED <<atDbm, atLock, atTool, atStored, atRemoved, atHurt, atStale, atRepeat>>

\* A copy in the archive is damaged or lost.
DamageCopy(f) ==
    /\ atStored[f] # {} /\ AtEvent
    /\ atStored' = [atStored EXCEPT ![f] = {}]
    /\ atHurt' = IF \E t \in AtTools : \/ AtStep(t, "clean")
                                       \/ AtStep(t, "check") /\ f \notin atTool[t].left
                 THEN atHurt \cup {f} ELSE atHurt
    /\ atStale' = IF atDbm[f].checked = "ok" \/ \E t \in AtTools : atTool[t].cur = f /\ atTool[t].entry.checked = "ok"
                  THEN atStale \cup {f} ELSE atStale
    /\ UNCHANGED <<atSrc, atDbm, atLock, atTool, atCount, atRemoved, atChanged, atRepeat>>

AtNext ==
    \/ \E t \in AtTools :
        \/ \E o \in AtOptions, force \in BOOLEAN : LookForLock(t, o, force)
        \/ TouchLock(t) \/ scanDirs(t) \/ AtNextLoop(t) \/ dbmAdd(t) \/ AtEnd(t) \/ AtCrash(t)
        \/ \E f \in AtFiles : AtGone(t, f) \/ AtArchive(t, f) \/ checkFile(t, f) \/ cleanUp(t, f) \/ prune(t, f)
    \/ \E f \in AtFiles : WriteSource(f) \/ DamageCopy(f)

AtSpec == AtInit /\ [][AtNext]_atVars

-----------------------------------------------------------------------------
\* A source is removed only while the archive has an intact copy of it, over any number of
\* executions, failures and overlaps: an execution that found the file has checked the copy itself,
\* so that damage before that check counts; one that did not find it goes by the check its entry
\* tells of.  It is not so when the source was written again after it was archived, which the
\* DBM does not notice, or when overlapping executions write each other's entries over.
SourceArchived ==
    [][\A t \in AtTools, f \in AtFiles :
          /\ atSrc[f] # 0 /\ atSrc'[f] = 0 /\ atTool[t].cur = AtNone /\ atTool'[t].cur = f
          /\ f \notin atChanged \cup (IF f \in atTool[t].list THEN atHurt ELSE atStale)
          => atSrc[f] \in atStored[f]]_atVars

\* A content is archived once, unless the answer, or the tool, was lost before the DBM had it,
\* two executions overlapped, or a source that could not be removed was forgotten.
SourceArchivedOnce == \A f \in AtFiles : atCount[f] > 1 => f \in atRepeat

=============================================================================
