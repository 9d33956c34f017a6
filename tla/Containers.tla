----------------------------- MODULE Containers -----------------------------
(***************************************************************************)
(* Logical containers: rows of ngas_containers with name, size and parent, *)
(* and the files that belong to them by their container_id.  The container *)
(* commands are sequences of SQL statements, each of them atomic, that run *)
(* at the same time in the threads of the servers.                         *)
(***************************************************************************)
EXTENDS Integers, Sequences, FiniteSets, FiniteSetsExt

CONSTANTS
    CoIds,     \* the container ids (UUIDs), as numbers
    CoNames,   \* the container names
    CoFiles,   \* the files, all registered
    CoSize,    \* CoSize[f]: uncompressed size of the first version
    CoReqs,    \* the threads
    CoMaxReqs, \* bound on the requests and the failing statements
    CoNone     \* no container, no parent

ASSUME CoConfig == CoIds \subseteq Nat /\ CoIds # {} /\ CoSize \in [CoFiles -> Nat] /\ CoMaxReqs \in Nat /\ CoNone \notin CoIds

VARIABLES
    coRows,   \* the containers: a function from ids to name, parent, size and closed
    coOf,     \* coOf[f]: container_id of the latest version of f
    coSize,   \* coSize[f]: its uncompressed size
    coReq,    \* coReq[r]: the request of a thread and its next step
    coCount,  \* requests so far
    coTorn,   \* ghost: some CDESTROY overlapped another command
    coWrong   \* ghost: the containers a file was taken from by force, whose requests
              \* about one file overlapped, that were used while CARCHIVE filled them, or
              \* whose request failed between the UPDATE of the files and that of the size

coVars == <<coRows, coOf, coSize, coReq, coCount, coTorn, coWrong>>

NoReq == [cmd |-> "none", step |-> "none", c |-> CoNone, f |-> CoNone, name |-> CoNone,
          flag |-> FALSE, close |-> FALSE, size |-> 0, work |-> <<>>]

\* A container without parent and files has been created.
CoAny == CHOOSE n \in CoNames : TRUE
CoInit ==
    /\ coRows = [c \in {Min(CoIds)} |-> [name |-> CoAny, parent |-> CoNone, size |-> 0, closed |-> FALSE]]
    /\ coOf = [f \in CoFiles |-> CoNone] /\ coSize = CoSize
    /\ coReq = [r \in CoReqs |-> NoReq]
    /\ coCount = 0 /\ coTorn = FALSE /\ coWrong = {}

-----------------------------------------------------------------------------
CoExists(c) == c \in DOMAIN coRows
Children(c) == {d \in DOMAIN coRows : coRows[d].parent = c}
Active == {r \in CoReqs : coReq[r].cmd # "none"}

\* The requests under way about a file.
Overlap(f) == {t \in Active : f # CoNone /\ coReq[t].f = f}

CoGoto(r, step) == coReq' = [coReq EXCEPT ![r].step = step]
CoEnd(r) == coReq' = [coReq EXCEPT ![r] = NoReq]

\* A request begins; the ghosts record what it overlaps.
CoBegin(r, req) ==
    /\ coReq[r].cmd = "none" /\ coCount < CoMaxReqs
    /\ coReq' = [coReq EXCEPT ![r] = req]
    /\ coCount' = coCount + 1
    /\ coTorn' = (coTorn \/ (Active # {} /\ "CDESTROY" \in {req.cmd} \cup {coReq[s].cmd : s \in Active}))
    /\ coWrong' = coWrong \cup
         UNION {{req.c, coReq[s].c} : s \in Overlap(req.f)
                                              \cup {t \in Active : coReq[t].cmd = "CARCHIVE" /\ coReq[t].c = req.c}}
    /\ UNCHANGED <<coRows, coOf, coSize>>

-----------------------------------------------------------------------------
(***************************************************************************)
(* CCREATE.                                                                *)
(***************************************************************************)
CCreate(r, name, parent) ==
    CoBegin(r, [NoReq EXCEPT !.cmd = "CCREATE", !.c = parent, !.name = name,
                             !.step = IF parent = CoNone THEN "insert" ELSE "parent"])

\* createContainer: the parent must exist ...
CreateParent(r) ==
    /\ coReq[r].step = "parent"
    /\ IF CoExists(coReq[r].c) THEN CoGoto(r, "sibling") ELSE CoEnd(r)
    /\ UNCHANGED <<coRows, coOf, coSize, coCount, coTorn, coWrong>>

\* ... and have no child of that name ...
CreateSibling(r) ==
    /\ coReq[r].step = "sibling"
    /\ IF \E d \in Children(coReq[r].c) : coRows[d].name = coReq[r].name
       THEN CoEnd(r) ELSE CoGoto(r, "insert")
    /\ UNCHANGED <<coRows, coOf, coSize, coCount, coTorn, coWrong>>

\* uuid4: an id that occurs nowhere (which one makes no difference).
NewId ==
    LET used == DOMAIN coRows \cup {coOf[f] : f \in CoFiles}
                  \cup UNION {{coReq[s].c} \cup {coReq[s].work[i] : i \in DOMAIN coReq[s].work} : s \in CoReqs}
    IN IF CoIds \subseteq used THEN {} ELSE {Min(CoIds \ used)}

NewContainer(id, req) ==
    coRows' = [d \in DOMAIN coRows \cup {id} |->
                 IF d = id THEN [name |-> req.name, parent |-> req.c, size |-> 0, closed |-> FALSE]
                 ELSE coRows[d]]

\* ... then the row is inserted, with a new id.
CreateInsert(r) ==
    /\ coReq[r].step = "insert" /\ coReq[r].cmd = "CCREATE"
    /\ \E id \in NewId : NewContainer(id, coReq[r])
    /\ CoEnd(r)
    /\ UNCHANGED <<coOf, coSize, coCount, coTorn, coWrong>>

-----------------------------------------------------------------------------
(***************************************************************************)
(* CAPPEND and CREMOVE of a file.                                          *)
(***************************************************************************)

\* The container is looked up first (get_container_id).
CAppend(r, c, f, force, close) ==
    /\ CoExists(c)
    /\ CoBegin(r, [NoReq EXCEPT !.cmd = "CAPPEND", !.c = c, !.f = f, !.flag = force,
                                !.close = close, !.step = "select"])

CRemove(r, c, f) ==
    /\ CoExists(c)
    /\ CoBegin(r, [NoReq EXCEPT !.cmd = "CREMOVE", !.c = c, !.f = f, !.step = "select"])

\* What follows the UPDATE of the file: CAPPEND and CREMOVE add to the size, and so does
\* a new version, even if its file was in the container already; CARCHIVE sets it.
AfterFile(q) == IF q.cmd = "CARCHIVE" THEN "setsize" ELSE "size"

\* addFileToContainer: a file of this container is skipped, one of another container is
\* only taken when forced.
AppendSelect(r) ==
    LET q == coReq[r]
        was == coOf[q.f]
    IN /\ q.step = "select" /\ q.cmd # "CREMOVE"
       /\ CASE was = q.c -> CoGoto(r, IF q.cmd # "CAPPEND" THEN AfterFile(q)
                                       ELSE IF q.close THEN "close" ELSE "end")
            [] was # q.c /\ was # CoNone /\ ~q.flag -> CoEnd(r)
            [] OTHER -> coReq' = [coReq EXCEPT ![r].step = "update",
                                              ![r].size = IF q.cmd = "CAPPEND" THEN coSize[q.f] ELSE @]
       /\ coWrong' = IF was \notin {q.c, CoNone} /\ q.flag THEN coWrong \cup {was} ELSE coWrong
       /\ UNCHANGED <<coRows, coOf, coSize, coCount, coTorn>>

\* removeFileFromContainer: the file must be in this container (one in none is skipped).
RemoveSelect(r) ==
    LET q == coReq[r]
    IN /\ q.step = "select" /\ q.cmd = "CREMOVE"
       /\ IF coOf[q.f] = q.c
          THEN coReq' = [coReq EXCEPT ![r].step = "update", ![r].size = -coSize[q.f]]
          ELSE CoEnd(r)
       /\ UNCHANGED <<coRows, coOf, coSize, coCount, coTorn, coWrong>>

\* All rows of the file get the container, or lose it.
UpdateFile(r) ==
    /\ coReq[r].step = "update"
    /\ coOf' = [coOf EXCEPT ![coReq[r].f] = IF coReq[r].cmd = "CREMOVE" THEN CoNone ELSE coReq[r].c]
    /\ CoGoto(r, AfterFile(coReq[r]))
    /\ UNCHANGED <<coRows, coCount, coTorn, coWrong, coSize>>

\* Mutant: the size of the container is read when the file is and written here.
addToContainerSizeStale(r) ==
    LET q == coReq[r]
        others == {coReq[s].size : s \in {t \in CoReqs \ {r} : coReq[t].c = q.c /\ coReq[t].step = "size"}}
    IN /\ q.step = "size"
       /\ coRows' = [d \in DOMAIN coRows |-> IF d = q.c
                        THEN [coRows[d] EXCEPT !.size = IF others = {} THEN @ + q.size ELSE @] ELSE coRows[d]]
       /\ CoGoto(r, IF q.close THEN "close" ELSE "end")
       /\ UNCHANGED <<coOf, coSize, coCount, coTorn, coWrong>>

\* addToContainerSize: one UPDATE adds to the size the container has now.
addToContainerSize(r) ==
    LET q == coReq[r]
    IN /\ q.step = "size"
       /\ coRows' = [d \in DOMAIN coRows |-> IF d = q.c THEN [coRows[d] EXCEPT !.size = @ + q.size]
                                             ELSE coRows[d]]
       /\ CoGoto(r, IF q.close THEN "close" ELSE "end")
       /\ UNCHANGED <<coOf, coSize, coCount, coTorn, coWrong>>

closeContainer(r) ==
    LET q == coReq[r]
    IN /\ q.step = "close"
       /\ coRows' = [d \in DOMAIN coRows |-> IF d = q.c THEN [coRows[d] EXCEPT !.closed = TRUE] ELSE coRows[d]]
       /\ CoGoto(r, "end")
       /\ UNCHANGED <<coOf, coSize, coCount, coTorn, coWrong>>

CoAnswer(r) ==
    /\ coReq[r].step = "end"
    /\ CoEnd(r)
    /\ UNCHANGED <<coRows, coOf, coSize, coCount, coTorn, coWrong>>

-----------------------------------------------------------------------------
(***************************************************************************)
(* Archiving a file of a known id: the new version, which is one longer,   *)
(* first has no container.                                                 *)
(***************************************************************************)
CoArchive(r, f) ==
    CoBegin(r, [NoReq EXCEPT !.cmd = "ARCHIVE", !.f = f, !.flag = TRUE, !.step = "previous"])

CoNewVersion(f) ==
    /\ coOf' = [coOf EXCEPT ![f] = CoNone]
    /\ coSize' = [coSize EXCEPT ![f] = @ + 1]

\* updateFileInfoDb: the container and the size of the previous version ...
PreviousVersion(r) ==
    LET q == coReq[r]
    IN /\ q.step = "previous"
       /\ coReq' = [coReq EXCEPT ![r].c = coOf[q.f], ![r].size = -coSize[q.f], ![r].step = "write"]
       /\ coWrong' = IF Overlap(q.f) = {r} THEN coWrong ELSE coWrong \cup {coOf[q.f]}
       /\ UNCHANGED <<coRows, coOf, coSize, coCount, coTorn>>

\* ... and, once the row is written, addFileToContainer by force and addToContainerSize
\* with the difference of the sizes.
WriteVersion(r) ==
    LET q == coReq[r]
    IN /\ q.step = "write"
       /\ CoNewVersion(q.f)
       /\ coReq' = [coReq EXCEPT ![r].size = @ + coSize'[q.f],
                                 ![r].step = IF q.c = CoNone THEN "end" ELSE "select"]
       /\ UNCHANGED <<coRows, coCount, coTorn, coWrong>>

-----------------------------------------------------------------------------
(***************************************************************************)
(* CARCHIVE of a container with one file (of an id that may be archived    *)
(* before): the container, the file, which is taken by force, and the size *)
(* the container gets whatever it has.                                     *)
(***************************************************************************)
CArchive(r, f, name) ==
    CoBegin(r, [NoReq EXCEPT !.cmd = "CARCHIVE", !.f = f, !.flag = TRUE, !.name = name, !.step = "insert"])

ArchiveInsert(r) ==
    /\ coReq[r].step = "insert" /\ coReq[r].cmd = "CARCHIVE"
    /\ \E id \in NewId :
          /\ NewContainer(id, coReq[r])
          /\ coReq' = [coReq EXCEPT ![r].c = id, ![r].step = "take"]
    /\ UNCHANGED <<coOf, coSize, coCount, coTorn, coWrong>>

\* The row of the file is written; addFileToContainer follows.
ArchiveTake(r) ==
    LET q == coReq[r]
    IN /\ q.step = "take"
       /\ CoNewVersion(q.f)
       /\ coWrong' = coWrong \cup ({coOf[q.f]} \ {CoNone, q.c})
            \cup UNION {{q.c, coReq[s].c} : s \in Overlap(q.f) \ {r}}
       /\ coReq' = [coReq EXCEPT ![r].size = coSize'[q.f], ![r].step = "select"]
       /\ UNCHANGED <<coRows, coCount, coTorn>>

setContainerSize(r) ==
    LET q == coReq[r]
    IN /\ q.step = "setsize"
       /\ coRows' = [d \in DOMAIN coRows |-> IF d = q.c THEN [coRows[d] EXCEPT !.size = q.size]
                                             ELSE coRows[d]]
       /\ CoGoto(r, "end")
       /\ UNCHANGED <<coOf, coSize, coCount, coTorn, coWrong>>

-----------------------------------------------------------------------------
(***************************************************************************)
(* CDESTROY.  work holds the containers to destroy, the innermost first.   *)
(***************************************************************************)
CDestroy(r, c, recursive) ==
    /\ CoExists(c)
    /\ CoBegin(r, [NoReq EXCEPT !.cmd = "CDESTROY", !.c = c, !.flag = recursive, !.work = <<c>>,
                                !.step = IF recursive THEN "expand" ELSE "check"])

\* The children of the innermost container still to look at come before it.
DestroyExpand(r) ==
    LET q == coReq[r]
        kids == Children(Head(q.work)) \ {q.work[i] : i \in DOMAIN q.work}
    IN /\ q.step = "expand"
       /\ IF kids = {} THEN CoGoto(r, "files")
          ELSE \E k \in kids : coReq' = [coReq EXCEPT ![r].work = <<k>> \o @]
       /\ UNCHANGED <<coRows, coOf, coSize, coCount, coTorn, coWrong>>

\* Mutant: a container with children is destroyed too.
DestroyCheckDropped(r) ==
    /\ coReq[r].step = "check"
    /\ CoGoto(r, "files")
    /\ UNCHANGED <<coRows, coOf, coSize, coCount, coTorn, coWrong>>

\* destroySingleContainer without recursion is refused when there are children.
DestroyCheck(r) ==
    /\ coReq[r].step = "check"
    /\ IF Children(coReq[r].c) # {} THEN CoEnd(r) ELSE CoGoto(r, "files")
    /\ UNCHANGED <<coRows, coOf, coSize, coCount, coTorn, coWrong>>

\* Its files belong to no container any more ...
DestroyFiles(r) ==
    /\ coReq[r].step = "files"
    /\ coOf' = [f \in CoFiles |-> IF coOf[f] = Head(coReq[r].work) THEN CoNone ELSE coOf[f]]
    /\ CoGoto(r, "delete")
    /\ UNCHANGED <<coRows, coCount, coTorn, coWrong, coSize>>

\* ... and its row is deleted; the next one is its parent (or a sibling).
DestroyRow(r) ==
    LET q == coReq[r]
    IN /\ q.step = "delete"
       /\ coRows' = [d \in DOMAIN coRows \ {Head(q.work)} |-> coRows[d]]
       /\ coReq' = [coReq EXCEPT ![r].work = Tail(@),
                                 ![r].step = IF Len(q.work) = 1 THEN "end"
                                             ELSE IF q.flag THEN "expand" ELSE "files"]
       /\ UNCHANGED <<coOf, coSize, coCount, coTorn, coWrong>>

-----------------------------------------------------------------------------
\* A statement fails: the request ends with what the earlier ones changed, and no
\* transaction takes it back.
CoFails(r) ==
    LET q == coReq[r]
    IN /\ q.step \notin {"none", "end"} /\ coCount < CoMaxReqs
       /\ coCount' = coCount + 1
       /\ CoEnd(r)
       /\ coWrong' = coWrong \cup (CASE q.step \in {"size", "setsize"} -> {q.c}
                                     [] q.step \in {"select", "update"} /\ q.cmd = "ARCHIVE" -> {q.c}
                                     [] q.step = "delete" -> {Head(q.work)}
                                     [] OTHER -> {})
       /\ UNCHANGED <<coRows, coOf, coSize, coTorn>>

CoNext ==
    \E r \in CoReqs :
       \/ \E n \in CoNames : \/ \E p \in CoIds \cup {CoNone} : CCreate(r, n, p)
                             \/ \E f \in CoFiles : CArchive(r, f, n)
       \/ \E c \in CoIds : \/ \E f \in CoFiles : \/ \E force \in BOOLEAN : CAppend(r, c, f, force, force)
                                                 \/ CRemove(r, c, f)
                           \/ \E recursive \in BOOLEAN : CDestroy(r, c, recursive)
       \/ CreateParent(r) \/ CreateSibling(r) \/ CreateInsert(r)
       \/ AppendSelect(r) \/ RemoveSelect(r) \/ UpdateFile(r)
       \/ addToContainerSize(r) \/ closeContainer(r) \/ CoAnswer(r)
       \/ \E f \in CoFiles : CoArchive(r, f)
       \/ PreviousVersion(r) \/ WriteVersion(r) \/ CoFails(r)
       \/ ArchiveInsert(r) \/ ArchiveTake(r) \/ setContainerSize(r)
       \/ DestroyExpand(r) \/ DestroyCheck(r) \/ DestroyFiles(r) \/ DestroyRow(r)

-----------------------------------------------------------------------------
(***************************************************************************)
(* Properties.                                                             *)
(***************************************************************************)
FilesOf(c) == {f \in CoFiles : coOf[f] = c}

\* When no request is under way the size of a container is that of its files, though
\* requests about its other files ran at the same time, new versions of them included; a
\* file taken away by force and requests about one and the same file make it wrong, using
\* a container that CARCHIVE is still filling, and a statement that fails after the one
\* about the files (addToContainerSize, setContainerSize, updateFileInfoDb).
SizesAddUp ==
    Active = {} => \A c \in DOMAIN coRows \ coWrong :
                      coRows[c].size = MapThenSumSet(LAMBDA f : coSize[f], FilesOf(c))

\* As long as no CDESTROY overlaps another command, the files and the containers always
\* hang together: a file belongs to a container there is, and a parent exists
\* (createContainer, destroySingleContainer, containers.get_container_id).
NothingDangles ==
    ~coTorn /\ Active = {} =>
        /\ \A f \in CoFiles : coOf[f] # CoNone => CoExists(coOf[f])
        /\ \A c \in DOMAIN coRows : coRows[c].parent # CoNone => CoExists(coRows[c].parent)

\* The size of a container is that of its files, and no file or container is in one that has gone.
ContainersAddUp == SizesAddUp /\ NothingDangles

=============================================================================
