---------------------------- MODULE CacheControl ----------------------------
(***************************************************************************)
(* A server in cache mode (ngamsCacheControlThread): the thread that       *)
(* registers new files in the local Cache Contents DBMS, selects files     *)
(* for deletion and removes them, the Cache Control Plug-In threads that   *)
(* advise it, and the requests that interleave with it: archiving,         *)
(* CACHEDEL and deliveries that release a file.                            *)
(*                                                                         *)
(* A copy is a Disk ID, File ID and File Version on one volume.  Once its  *)
(* row is gone from ngas_files the same version may be archived again; the *)
(* incarnation tells the two contents apart.  The local DBMS (SQLite) and  *)
(* the RDBMS survive a crash; the DBM files are recreated at start-up.     *)
(***************************************************************************)
EXTENDS Integers, Sequences, FiniteSets, SequencesExt

CONSTANTS
    Copies,            \* the file copies that may be archived on the volume
    PlugIns,           \* Caching[1].NumberOfPlugIns threads; {}: no plug-in
    MaxCacheSize,      \* Caching[1].MaxCacheSize, 0: not configured
    MaxFiles,          \* Caching[1].MaxFiles, 0: not configured
    FileSize,          \* the size of a file
    Expiry,            \* Caching[1].MaxTime is configured
    CheckCanBeDeleted, \* Caching[1].CheckCanBeDeleted
    MaxArchived,       \* bound on the files archived
    MaxQueue,          \* bound on the entries of a plug-in DBM
    Events,            \* the events that may happen, a subset of EventKinds
    MaxEvents,         \* bound on the number of events
    None               \* no copy

\* crash: the server is killed and restarted; db: a statement of the RDBMS fails;
\* stop: the thread is told to stop; readd, cachedel: ADDTOCACHE and CACHEDEL are
\* called; release: the last delivery of a file is done; expire: MaxTime goes by.
EventKinds == {"crash", "db", "stop", "readd", "cachedel", "release", "expire"}

ASSUME CacheConfig == /\ MaxCacheSize \in Nat /\ MaxFiles \in Nat /\ FileSize \in Nat
                      /\ Expiry \in BOOLEAN /\ CheckCanBeDeleted \in BOOLEAN
                      /\ MaxArchived \in Nat /\ MaxQueue \in Nat /\ MaxEvents \in Nat
                      /\ Events \subseteq EventKinds /\ IsFiniteSet(Copies) /\ None \notin Copies

VARIABLES
    row,      \* row[c]: the incarnation ngas_files knows, 0: no row
    file,     \* file[c]: the incarnation on the volume, 0: no file
    avail,    \* copies whose row says: delivered to every Subscriber
    born,     \* born[c]: the incarnations of c archived so far
    arch,     \* arch[c]: where the Archive Request for c is
    newFiles, \* the New Files DBM
    cache,    \* ngas_cache of the local DBMS, in the order of cache_time
    rcache,   \* the copies in ngas_cache of the RDBMS
    expired,  \* copies whose cache_time is more than MaxTime ago
    pc,       \* the next step of the Cache Control Thread
    todo,     \* its temporary DBM: the entries it still has to handle
    piQueue,  \* the Plug-In DBM
    piDel,    \* the plug-in's decisions to delete, by key; those to keep change
              \* only last_check and the parameters of the entry
    pi,       \* pi[t]: what plug-in thread t is doing
    asked,    \* asked[c]: the incarnation CACHEDEL acknowledged the deletion of
    chosen,   \* chosen[c]: the first incarnation scheduled for deletion
    lost,     \* copies struck by a failed statement of the RDBMS, or lost with the volume
    events    \* the number of events so far

db    == <<row, avail, rcache>>
arr   == <<born, arch, newFiles>>
local == <<cache, expired>>
plug  == <<piQueue, piDel, pi>>
ghost == <<asked, chosen, lost>>
vars  == <<row, file, avail, born, arch, newFiles, cache, rcache, expired, pc,
           todo, piQueue, piDel, pi, asked, chosen, lost, events>>

Empty == [k \in {} |-> None]
Idle  == [pc |-> "wait", copy |-> None, key |-> 0]

\* An entry of ngas_cache; named: it has a filename and a size; obj: it has its Cache Entry Object.
Entry(c, named) == [copy |-> c, del |-> FALSE, named |-> named, obj |-> named]
Entries == [copy : Copies, del : BOOLEAN, named : BOOLEAN, obj : BOOLEAN]
In(s, c) == \E i \in DOMAIN s : s[i].copy = c
\* addEntryInCacheDbms looks for a copy first, so that it has one entry at most.
Without(s, c) == IF In(s, c) THEN RemoveAt(s, CHOOSE i \in DOMAIN s : s[i].copy = c) ELSE s
\* Every file has the same size here; an entry without a file has file_size -1.
SizeSum(s) == LET named == {i \in DOMAIN s : s[i].named}
              IN FileSize * Cardinality(named) - Cardinality(DOMAIN s \ named)

TypeOK ==
    /\ row \in [Copies -> Nat] /\ file \in [Copies -> Nat] /\ born \in [Copies -> Nat]
    /\ asked \in [Copies -> Nat] /\ chosen \in [Copies -> Nat]
    /\ avail \subseteq Copies /\ newFiles \subseteq Copies /\ rcache \subseteq Copies
    /\ expired \subseteq Copies /\ lost \subseteq Copies
    /\ arch \in [Copies -> {"idle", "moved", "stored"}]
    /\ Range(cache) \subseteq Entries /\ \A i, j \in DOMAIN cache :
           cache[i].copy = cache[j].copy => i = j
    /\ pc \in {"create", "adopt", "scan", "new", "add", "time", "size", "files",
               "queue", "plugins", "decide", "select", "row", "unlink", "drop",
               "rdrop", "pause", "stopped", "dead"}
    /\ Range(todo) \subseteq Entries
    /\ pi \in [PlugIns -> [pc : {"wait", "count", "add"}, copy : Copies \cup {None},
                           key : Nat]]
    /\ events \in 0 .. MaxEvents

Init ==
    /\ row = [c \in Copies |-> 0] /\ file = [c \in Copies |-> 0]
    /\ born = [c \in Copies |-> 0] /\ arch = [c \in Copies |-> "idle"]
    /\ avail = {} /\ newFiles = {} /\ rcache = {} /\ expired = {} /\ lost = {}
    /\ cache = <<>> /\ todo = <<>> /\ piQueue = <<>> /\ piDel = Empty
    /\ pi = [t \in PlugIns |-> Idle]
    /\ asked = [c \in Copies |-> 0] /\ chosen = [c \in Copies |-> 0]
    /\ events = 0 /\ pc = "create"

Event(f) == f \in Events /\ events < MaxEvents /\ events' = events + 1

\* Statements of the RDBMS that succeed, or of which one fails.
Db(ok) == IF ok THEN UNCHANGED events ELSE Event("db")

-----------------------------------------------------------------------------
(***************************************************************************)
(* The requests.                                                           *)
(***************************************************************************)

\* The file of a version that has no row goes to its place on the volume.
ArchiveMove(c) ==
    /\ arch[c] = "idle" /\ row[c] = 0 /\ MapThenSumSet(LAMBDA d : born[d], Copies) < MaxArchived /\ pc # "create"
    /\ born' = [born EXCEPT ![c] = @ + 1] /\ file' = [file EXCEPT ![c] = born'[c]]
    /\ arch' = [arch EXCEPT ![c] = "moved"]
    /\ UNCHANGED <<db, newFiles, local, pc, todo, plug, ghost, events>>

\* ngamsFileInfo.write: the row, with file_status 00000000
ArchiveStore(c) ==
    /\ arch[c] = "moved"
    /\ row' = [row EXCEPT ![c] = born[c]] /\ avail' = avail \ {c}
    /\ arch' = [arch EXCEPT ![c] = "stored"]
    /\ UNCHANGED <<file, born, newFiles, rcache, local, pc, todo, plug, ghost, events>>

\* The last step of an Archive, Clone, Register or Rearchive Request.
addEntryNewFilesDbm(c) ==
    /\ arch[c] = "stored"
    /\ newFiles' = newFiles \cup {c} /\ arch' = [arch EXCEPT ![c] = "idle"]
    /\ UNCHANGED <<db, file, born, local, pc, todo, plug, ghost, events>>

\* ADDTOCACHE: the files of this host are announced again.
AddToCache ==
    /\ Event("readd") /\ pc # "create"
    /\ newFiles' = newFiles \cup {c \in Copies : row[c] # 0}
    /\ UNCHANGED <<db, file, born, arch, local, pc, todo, plug, ghost>>

\* The last delivery of a file is done: the row gets the deletion bit.
requestFileForDeletion(c) ==
    /\ Event("release") /\ CheckCanBeDeleted /\ row[c] # 0 /\ avail' = avail \cup {c}
    /\ UNCHANGED <<row, rcache, file, arr, local, pc, todo, plug, ghost>>

\* The entries of the copies in cs get cache_delete = 1, if they exist.
scheduleFileForDeletion(cs) ==
    /\ cache' = [i \in DOMAIN cache |->
                    IF cache[i].copy \in cs THEN [cache[i] EXCEPT !.del = TRUE] ELSE cache[i]]
    /\ chosen' = [c \in Copies |-> IF c \in cs /\ In(cache, c) /\ chosen[c] = 0
                              THEN born[c] ELSE chosen[c]]

\* CACHEDEL: the file is found on this host, and scheduled.
cacheDel(c) ==
    /\ Event("cachedel") /\ pc # "create" /\ row[c] # 0 /\ file[c] # 0
    /\ scheduleFileForDeletion({c})
    /\ asked' = [asked EXCEPT ![c] = IF In(cache, c) THEN row[c] ELSE @]
    /\ UNCHANGED <<db, file, arr, expired, pc, todo, plug, lost>>

\* Time passes.
Expire(c) ==
    /\ Event("expire") /\ Expiry /\ In(cache, c) /\ c \notin expired
    /\ expired' = expired \cup {c}
    /\ UNCHANGED <<db, file, arr, cache, pc, todo, plug, ghost>>

-----------------------------------------------------------------------------
(***************************************************************************)
(* The Cache Control Thread: start-up and new files.                       *)
(***************************************************************************)

\* Mutant: the local DBMS is created anew as well.
CreateAllDbms ==
    /\ pc = "create" /\ pc' = "adopt" /\ cache' = <<>> /\ expired' = {}
    /\ newFiles' = {} /\ piQueue' = <<>> /\ piDel' = Empty
    /\ UNCHANGED <<db, file, born, arch, todo, pi, ghost, events>>

\* createCacheDbms: the DBMs are created anew, the local DBMS is kept.
createCacheDbms ==
    /\ pc = "create" /\ pc' = "adopt"
    /\ newFiles' = {} /\ piQueue' = <<>> /\ piDel' = Empty
    /\ UNCHANGED <<db, file, born, arch, local, todo, pi, ghost, events>>

\* Mutant: the entries are inserted without looking for them first.
AddEntriesBlindly(cs, named, ok) ==
    \E new \in SetToSeqs({Entry(c, named) : c \in cs}) :
        cache' = cache \o new /\ rcache' = rcache \cup cs /\ UNCHANGED expired /\ Db(ok)

\* Mutant: the filename is not filled in.
AddEntriesUnnamed(cs, named, ok) ==
    \E new \in SetToSeqs({Entry(c, FALSE) : c \in {d \in cs : ~In(cache, d)}}) :
        cache' = cache \o new /\ rcache' = rcache \cup cs /\ UNCHANGED expired /\ Db(ok)

\* The copies cs are added to the local DBMS, in any order, and to the RDBMS, where a
\* failing INSERT is passed over; ok: no other statement fails.
addEntriesInCacheDbms(cs, named, ok) ==
    \E new \in SetToSeqs({Entry(c, named) : c \in {d \in cs : ~In(cache, d)}}), ins \in SUBSET cs :
        /\ cache' = cache \o new /\ expired' = expired \ {c \in cs : ~In(cache, c)}
        /\ rcache' = rcache \cup ins /\ Db(ok /\ ins = cs)

\* initCacheArchive, what the RDBMS has in ngas_cache and the local DBMS lacks; a query
\* that fails ends the thread.
AdoptEntries ==
    /\ pc = "adopt" /\ pc' \in {"scan", "dead"}
    /\ \E cs \in SUBSET rcache :
          /\ pc' = "scan" => cs = rcache
          /\ addEntriesInCacheDbms(cs, FALSE, pc' = "scan")
    /\ UNCHANGED <<row, avail, file, arr, todo, plug, ghost>>

\* Mutant: files that are in no ngas_cache are not added.
InitKnownEntries ==
    /\ pc = "scan" /\ pc' = "new"
    /\ cache' = [i \in DOMAIN cache |->
                    IF row[cache[i].copy] # 0 THEN [cache[i] EXCEPT !.named = TRUE, !.obj = TRUE] ELSE cache[i]]
    /\ UNCHANGED <<db, file, arr, expired, todo, plug, ghost, events>>

\* An entry without a filename gets it, then its object; one that has a filename is passed over.
Filled(e, cs, half) ==
    IF e.copy \in cs \cup half /\ ~e.named
    THEN [e EXCEPT !.named = TRUE, !.obj = e.copy \in cs] ELSE e

\* initCacheArchive, the rows of ngas_files: entries get their filename and object, or are
\* added.  A query that fails ends the thread, when it had gone through the copies cs;
\* getIngDate comes between the filename of an entry and its object (half).
initCacheArchive ==
    /\ pc = "scan" /\ pc' \in {"new", "dead"}
    /\ \E cs \in SUBSET {c \in Copies : row[c] # 0}, half \in SUBSET Copies :
          /\ pc' = "new" => cs = {c \in Copies : row[c] # 0} /\ half = {}
          /\ \A c \in half : half = {c} /\ row[c] # 0 /\ c \notin cs
          /\ \E new \in SetToSeqs({Entry(c, TRUE) : c \in {d \in cs : ~In(cache, d)}}),
                ins \in SUBSET cs :
                /\ cache' = [i \in DOMAIN cache |-> Filled(cache[i], cs, half)] \o new
                /\ ins \subseteq {e.copy : e \in Range(new)} /\ rcache' = rcache \cup ins
                /\ expired' = expired \ {e.copy : e \in Range(new)}
                /\ Db(pc' = "new" /\ ins = {e.copy : e \in Range(new)})
    /\ UNCHANGED <<row, avail, file, arr, todo, plug, ghost>>

\* An exception in the loop: five seconds later the loop starts again.
Fails(cs) == /\ pc' = "pause" /\ todo' = <<>> /\ lost' = lost \cup cs

getEntryNewFilesDbm ==
    /\ pc = "new"
    /\ \/ /\ newFiles = {} /\ pc' = "time" /\ UNCHANGED <<newFiles, todo>>
       \/ \E c \in newFiles : /\ newFiles' = newFiles \ {c} /\ pc' = "add"
                              /\ todo' = <<Entry(c, TRUE)>>
    /\ UNCHANGED <<db, file, born, arch, local, plug, ghost, events>>

\* checkNewFilesDbm: a file that has no row any more makes it raise.
checkNewFilesDbm ==
    /\ pc = "add"
    /\ LET c == todo[1].copy
       IN \/ /\ row[c] # 0 /\ addEntriesInCacheDbms({c}, TRUE, TRUE)
             /\ pc' = "new" /\ todo' = <<>> /\ UNCHANGED lost
          \/ /\ row[c] = 0 /\ Fails({}) /\ UNCHANGED <<local, rcache, events>>
          \/ Event("db") /\ Fails({c}) /\ UNCHANGED <<local, rcache>>
    /\ UNCHANGED <<row, avail, file, arr, plug, asked, chosen>>

-----------------------------------------------------------------------------
(***************************************************************************)
(* The Cache Control Thread: which files have to go (checkCacheContents).  *)
(***************************************************************************)

Selects(from, to, cs) ==
    /\ pc = from
    /\ \/ pc' = to /\ scheduleFileForDeletion(cs) /\ UNCHANGED events
       \/ \E c \in cs : Event("db") /\ pc' = "pause" /\ scheduleFileForDeletion({c})
    /\ UNCHANGED <<db, file, arr, expired, todo, plug, asked, lost>>

SelectExpired == Selects("time", "size", IF Expiry THEN expired ELSE {})

\* A file that has no row can be deleted.
checkIfFileCanBeDeleted(c) == c \in avail \/ row[c] = 0

\* The oldest ones, until the sum is below 90 % of MaxCacheSize.
TooMuch ==
    LET may == SelectSeq(cache, LAMBDA e : CheckCanBeDeleted => checkIfFileCanBeDeleted(e.copy))
        left(n) == SizeSum(cache) - SizeSum(SubSeq(may, 1, n))
        enough == {n \in 0 .. Len(may) : n > 0 /\ 10 * left(n) < 9 * MaxCacheSize}
        n == IF enough = {} THEN Len(may) ELSE CHOOSE m \in enough : \A k \in enough : m <= k
    IN IF MaxCacheSize > 0 /\ SizeSum(cache) > MaxCacheSize
       THEN {may[i].copy : i \in 1 .. n} ELSE {}
SelectTooMuch == Selects("size", "files", TooMuch)

\* Mutant: one file too many is tolerated.
TooManyButOne ==
    IF MaxFiles > 0 /\ Len(cache) > MaxFiles + 1
    THEN {cache[i].copy : i \in 1 .. Len(cache) - MaxFiles} ELSE {}

\* The oldest ones, 110 % of those above MaxFiles.
TooMany ==
    LET n == (11 * (Len(cache) - MaxFiles)) \div 10
    IN IF MaxFiles > 0 /\ Len(cache) > MaxFiles THEN {cache[i].copy : i \in 1 .. n} ELSE {}
SelectTooMany == Selects("files", IF PlugIns = {} THEN "select" ELSE "queue", TooMany)

\* Every entry goes to the plug-ins; one without an object raises.
_addEntryCacheCtrlPlugInDbm ==
    /\ pc = "queue"
    /\ LET bad == {i \in DOMAIN cache : ~cache[i].obj}
           n == IF bad = {} THEN Len(cache) ELSE (CHOOSE i \in bad : \A j \in bad : i <= j) - 1
       IN /\ Len(piQueue) + n <= MaxQueue
          /\ piQueue' = piQueue \o [i \in 1 .. n |-> cache[i].copy]
          /\ pc' = IF bad = {} THEN "plugins" ELSE "pause"
    /\ UNCHANGED <<db, file, arr, local, todo, piDel, pi, ghost, events>>

\* The thread waits until the plug-ins have taken every entry.
_getCountCacheCtrlPlugInDbm ==
    /\ pc = "plugins" /\ piQueue = <<>> /\ pc' = "decide"
    /\ UNCHANGED <<db, file, arr, local, todo, plug, ghost, events>>

Less(dbm, k) == [j \in DOMAIN dbm \ {k} |-> dbm[j]]

\* The decisions to delete so far are applied.
ApplyDecisions ==
    /\ pc = "decide"
    /\ \/ \E k \in DOMAIN piDel : /\ scheduleFileForDeletion({piDel[k]})
                                 /\ piDel' = Less(piDel, k) /\ UNCHANGED pc
       \/ piDel = Empty /\ pc' = "select" /\ UNCHANGED <<piDel, cache, chosen>>
    /\ UNCHANGED <<db, file, arr, expired, todo, piQueue, pi, asked, lost, events>>

-----------------------------------------------------------------------------
(***************************************************************************)
(* The Cache Control Plug-In threads.                                      *)
(***************************************************************************)

_getEntryCacheCtrlPlugInDbm == piQueue # <<>> /\ piQueue' = Tail(piQueue)

\* The plug-in says yes, or it says no or raises.
_cacheCtrlPlugInThread(t) ==
    /\ pi[t].pc = "wait" /\ pc # "stopped" /\ _getEntryCacheCtrlPlugInDbm
    /\ \/ pi' = [pi EXCEPT ![t] = [pc |-> "count", copy |-> Head(piQueue), key |-> 0]]
       \/ UNCHANGED pi
    /\ UNCHANGED <<db, file, arr, local, pc, todo, piDel, ghost, events>>

\* ngamsDbm.addIncKey: the number of elements plus one is the key ...
IncKey(t) ==
    /\ pi[t].pc = "count"
    /\ LET count == Cardinality(DOMAIN piDel)
       IN count < MaxQueue /\ pi' = [pi EXCEPT ![t].pc = "add", ![t].key = count + 1]
    /\ UNCHANGED <<db, file, arr, local, pc, todo, piQueue, piDel, ghost, events>>

\* ... under which the entry is then added, or overwrites another.
AddKey(t) ==
    /\ pi[t].pc = "add" /\ pi' = [pi EXCEPT ![t] = Idle]
    /\ piDel' = [k \in DOMAIN piDel \cup {pi[t].key} |->
                    IF k = pi[t].key THEN pi[t].copy ELSE piDel[k]]
    /\ UNCHANGED <<db, file, arr, local, pc, todo, piQueue, ghost, events>>

-----------------------------------------------------------------------------
(***************************************************************************)
(* The Cache Control Thread: cleanUpCache and removeFile.                  *)
(***************************************************************************)

\* Mutant: the query has lost its WHERE clause.
EveryEntry == Range(cache)

Scheduled == {e \in Range(cache) : e.del}

\* The query does not ask for an order.
SelectScheduled ==
    /\ pc = "select" /\ todo' \in SetToSeqs(Scheduled) /\ pc' = IF todo' = <<>> THEN "pause" ELSE "row"
    /\ UNCHANGED <<db, file, arr, local, plug, ghost, events>>

\* Mutant: the row is kept while deliveries are outstanding.
DeleteFileInfoIfReleased ==
    /\ pc = "row" /\ pc' = "unlink"
    /\ row' = [row EXCEPT ![Head(todo).copy] = IF Head(todo).copy \in avail THEN 0 ELSE @]
    /\ avail' = avail \ {Head(todo).copy}
    /\ UNCHANGED <<rcache, file, arr, local, todo, plug, ghost, events>>

\* deleteFileInfo; when it raises, removeFile goes on.
deleteFileInfo ==
    /\ pc = "row" /\ pc' = "unlink"
    /\ LET c == Head(todo).copy
       IN \/ /\ row' = [row EXCEPT ![c] = 0] /\ avail' = avail \ {c} /\ UNCHANGED <<lost, events>>
          \/ Event("db") /\ lost' = lost \cup {c} /\ UNCHANGED <<row, avail>>
    /\ UNCHANGED <<rcache, file, arr, local, todo, plug, asked, chosen>>

\* rmFile of mount point and filename; without a filename that is the whole volume.
removeFile ==
    /\ pc = "unlink" /\ pc' = "drop"
    /\ file' = [c \in Copies |-> IF ~Head(todo).named \/ c = Head(todo).copy THEN 0 ELSE file[c]]
    /\ lost' = IF Head(todo).named THEN lost ELSE lost \cup {c \in Copies : file[c] # 0}
    /\ UNCHANGED <<db, arr, local, todo, plug, asked, chosen, events>>

\* delEntryFromCacheDbms: first the local DBMS ...
delEntryFromCacheDbms ==
    /\ pc = "drop" /\ pc' = "rdrop"
    /\ cache' = Without(cache, Head(todo).copy) /\ expired' = expired \ {Head(todo).copy}
    /\ UNCHANGED <<db, file, arr, todo, plug, ghost, events>>

\* ... then the RDBMS.
deleteCacheEntry ==
    /\ pc = "rdrop" /\ todo' = Tail(todo) /\ pc' = IF Tail(todo) = <<>> THEN "pause" ELSE "row"
    /\ \/ rcache' = rcache \ {Head(todo).copy} /\ UNCHANGED <<lost, events>>
       \/ Event("db") /\ lost' = lost \cup {Head(todo).copy} /\ UNCHANGED rcache
    /\ UNCHANGED <<row, avail, file, arr, local, plug, asked, chosen>>

\* The end of a cycle: the thread sleeps, and starts over unless it was stopped.
cacheControlThread ==
    /\ pc = "pause"
    /\ \/ pc' = "new" /\ UNCHANGED events
       \/ Event("stop") /\ pc' = "stopped"
    /\ UNCHANGED <<db, file, arr, local, todo, plug, ghost>>

\* The server is killed, and started again.
Crash ==
    /\ Event("crash") /\ pc' = "create" /\ todo' = <<>>
    /\ pi' = [t \in PlugIns |-> Idle] /\ arch' = [c \in Copies |-> "idle"]
    /\ UNCHANGED <<db, file, born, newFiles, local, piQueue, piDel, ghost>>

Thread ==
    \/ createCacheDbms \/ AdoptEntries \/ initCacheArchive
    \/ getEntryNewFilesDbm \/ checkNewFilesDbm
    \/ SelectExpired \/ SelectTooMuch \/ SelectTooMany
    \/ _addEntryCacheCtrlPlugInDbm \/ _getCountCacheCtrlPlugInDbm \/ ApplyDecisions
    \/ SelectScheduled \/ deleteFileInfo \/ removeFile
    \/ delEntryFromCacheDbms \/ deleteCacheEntry \/ cacheControlThread

PlugIn(t) == _cacheCtrlPlugInThread(t) \/ IncKey(t) \/ AddKey(t)

Next ==
    \/ Thread \/ (\E t \in PlugIns : PlugIn(t)) \/ Crash \/ AddToCache
    \/ \E c \in Copies : \/ ArchiveMove(c) \/ ArchiveStore(c) \/ addEntryNewFilesDbm(c)
                         \/ requestFileForDeletion(c) \/ cacheDel(c) \/ Expire(c)

Spec == Init /\ [][Next]_vars

\* The threads are scheduled, requests that were let in are finished.
FairSpec == /\ Spec /\ WF_vars(Thread) /\ \A t \in PlugIns : WF_vars(PlugIn(t))
            /\ \A c \in Copies : WF_vars(ArchiveStore(c) \/ addEntryNewFilesDbm(c))
-----------------------------------------------------------------------------
(***************************************************************************)
(* Properties.                                                             *)
(***************************************************************************)

\* The start-up is not over, or has failed and ended the thread.
Starting == pc \in {"create", "adopt", "scan", "dead"}

\* Every archived file gets into the view of cache control, across crashes and
\* races with its removal: once the start-up scan is over, a file with a row in
\* ngas_files is in the local DBMS, announced in the New Files DBM, or just
\* being registered, unless the RDBMS failed on it (checkNewFilesDbm takes the
\* announcement out before it queries the row).
Registered ==
    ~Starting =>
        \A c \in Copies : row[c] # 0 /\ arch[c] = "idle" /\ c \notin lost =>
            c \in newFiles \/ In(cache, c) \/ (pc = "add" /\ todo[1].copy = c)

\* Cache control removes no file that was never selected: a file leaves the
\* volume only when its copy was scheduled, by a criterion, a plug-in or CACHEDEL,
\* or with the whole volume when an entry without a filename is cleaned up.
OnlyScheduledRemoved ==
    [][\A c \in Copies : file[c] # 0 /\ file'[c] = 0 =>
           chosen[c] # 0 \/ ~Head(todo).named]_vars

\* An entry without a filename, whose clean-up removes the whole volume, can only
\* be what the interrupted removal of an earlier file left in the RDBMS.
OrphansWereRemoved ==
    ~Starting =>
        \A i \in DOMAIN cache : cache[i].named \/ chosen[cache[i].copy] # 0

\* What ngas_files promises can be retrieved: a row is backed by the file it
\* describes, unless the RDBMS failed when the file was removed, or the file was
\* archived again under the version of a file that had been scheduled, or an
\* entry without a filename took the volume along.
RowBacked ==
    \A c \in Copies : row[c] # 0 => \/ file[c] = row[c] \/ c \in lost
                                   \/ chosen[c] \in 1 .. row[c] - 1

\* The local DBMS, ngas_cache, ngas_files and the volume agree on the files of the cache, but for
\* what a crash or a failing statement in the middle of a removal left.
CacheConsistent == TypeOK /\ Registered /\ OrphansWereRemoved /\ RowBacked

\* The thread was stopped, a failing statement at start-up has ended it, or, with
\* plug-ins, an entry without an object makes every cycle raise before its removals.
Hindered == \/ pc \in {"stopped", "dead"}
            \/ PlugIns # {} /\ \E i \in DOMAIN cache : ~cache[i].obj

\* A file that CACHEDEL was acknowledged for goes, whatever crashes come between,
\* if it is the first one cache control selected under its version, and unless the
\* thread is hindered.
DeletedWhenAsked ==
    \A c \in Copies : \A n \in 1 .. MaxArchived :
        (asked[c] = n /\ chosen[c] = n /\ file[c] = n) ~>
            (file[c] # n \/ Hindered)

\* The cache is brought back to MaxFiles again and again, unless the thread is hindered.
CacheBounded == []<>(Len(cache) <= MaxFiles \/ Hindered)

\* Cache control goes on unless it is hindered: what CACHEDEL asked for goes, and the
\* cache comes back to its size.
CacheServed == DeletedWhenAsked /\ CacheBounded

\* What the configuration guide says of CheckCanBeDeleted: a file goes only after
\* it was delivered to every Subscriber, or when CACHEDEL asks for it.
ReleasedBeforeRemoval ==
    [][CheckCanBeDeleted =>
         \A c \in Copies : pc = "row" /\ row[c] # 0 /\ row'[c] = 0 =>
             c \in avail \/ asked[c] = row[c]]_vars
=============================================================================
