-------------------------- MODULE HoldingsProofs ----------------------------
(***************************************************************************)
(* Proofs about the copies a cluster holds and the commands on them.       *)
(***************************************************************************)
EXTENDS Holdings, FiniteSetTheorems, TLAPS

-----------------------------------------------------------------------------
(***************************************************************************)
(* The inductive invariant.                                                *)
(***************************************************************************)

Contents == {"none", "good", "rot"}
Steps == {"idle", "glob", "copies", "spurious", "removable", "back", "delrow", "unlink", "deldisk", "delrows",
          "wipe", "try", "next", "fetch", "move", "write", "look", "mark", "send", "sent"}
\* The steps at which a request has a copy at hand
WithCopy == {"back", "unlink", "fetch", "move", "write", "look", "mark", "send", "sent"}

Record == [cmd : Commands \cup {"none"}, pc : Steps, d : Disks \cup {None}, v : Versions \cup {AnyVersion},
           x : BOOLEAN, ls : SUBSET Copies, todo : SUBSET Copies, k : Copies \cup {<<None, AnyVersion>>},
           t : Disks \cup {None}, c : Contents, n : 0 .. CloneAttempts - 1]

\* A request has what its next step needs.
Ready(r) ==
    /\ req[r].pc \in WithCopy \/ req[r].cmd = "DISCARD" => req[r].k \in Copies
    /\ req[r].pc \in {"fetch", "move", "write"} => req[r].t \in Disks /\ req[r].v \in Versions

\* The variables but req
Shape ==
    /\ row \in [Copies -> {"none", "ok", "bad"}] /\ vol \in [Copies -> Contents]
    /\ known \subseteq Disks /\ started \in 0 .. MaxRequests /\ events \in 0 .. MaxEvents
    /\ struck \subseteq Copies /\ cut \in [Reqs -> SUBSET Copies]

Types == Shape /\ req \in [Reqs -> Record] /\ \A r \in Reqs : Ready(r)

\* fileRemovable of request r has moved copy k away; DISCARD has removed the file of k and
\* not its row; CLONE has put a file at the place of k; REMFILE is about to remove the file
\* of k, CHECKFILE to mark k.
Moved(r, k) == At(r, Movers, "back") /\ req[r].k = k
Discarding(r, k) == At(r, {"DISCARD"}, "delrow") /\ req[r].k = k
Cloning(r, k) == At(r, {"CLONE"}, "write") /\ <<req[r].t, req[r].v>> = k
Unlinking(r, k) == At(r, {"REMFILE"}, "unlink") /\ req[r].k = k
Marking(r, k) == At(r, {"CHECKFILE"}, "mark") /\ req[r].k = k

\* What a request holds in its hands is intact, or its copy has been struck.
HandsOK ==
    /\ \A k \in Copies : vol[k] = "rot" => k \in struck
    /\ \A r \in Reqs : At(r, Movers, "back") => req[r].c = "good" \/ req[r].k \in struck
    /\ \A r \in Reqs : At(r, {"CLONE"}, "move") => req[r].c = "good" \/ (req[r].c = "rot" /\ ~req[r].x)

\* A volume is not known any more when REMDISK removes its rows and files.
Forgotten == \A r \in Reqs : At(r, {"REMDISK"}, "delrows") \/ At(r, {"REMDISK"}, "wipe") => req[r].d \notin known

\* A good row has an intact file, unless it has been moved away or is being discarded; a
\* bad row is being discarded.
RowOK(k) ==
    /\ row[k] = "ok" => vol[k] = "good" \/ Away(k)
    /\ row[k] = "bad" => \E r \in Reqs : Discarding(r, k)

\* A file that CLONE has moved to its place is there until its row is written, unless it
\* has been moved away.
CloneOK(k) == BeingCloned(k) => vol[k] = "good" \/ \E r \in Reqs : Moved(r, k)

\* CHECKFILE marks only a copy that is not there and has no row, or is being discarded.
MarkOK(k) == (\E r \in Reqs : Marking(r, k)) =>
                /\ vol[k] = "none" /\ ~BeingCloned(k) /\ \A r \in Reqs : ~Moved(r, k)
                /\ row[k] = "none" \/ \E r \in Reqs : Discarding(r, k)

CopyOK(k) == RowOK(k) /\ CloneOK(k) /\ MarkOK(k)
CopiesOK == \A k \in Copies \ struck : k[1] \in known => CopyOK(k)

\* The volumes that have a copy of version v, or had one when request r counted them
Counted(r, v) == {d \in Disks : fileInDb(d, v) \/ <<d, v>> \in cut[r]}

\* The copies a removal may still delete the rows of
ToDelete(r) ==
    CASE req[r].pc \in {"spurious", "removable", "back", "deldisk", "delrows"} -> req[r].ls
      [] req[r].pc = "delrow" -> req[r].todo
      [] req[r].pc = "unlink" -> req[r].todo \ {req[r].k}
      [] OTHER -> {}

\* Enough copies have been counted for each of them; they are all of one volume.
EnoughFor(r) ==
    req[r].cmd \in Removals =>
        /\ req[r].cmd = "REMFILE" => \A k \in req[r].ls : k[1] = req[r].d
        /\ req[r].pc \in {"delrow", "unlink"} => req[r].todo \subseteq req[r].ls
        /\ \A k \in ToDelete(r) : Cardinality(Counted(r, k[2])) >= MinCopies
Enough == \A r \in Reqs : EnoughFor(r)

IInv == Types /\ HandsOK /\ Forgotten /\ CopiesOK /\ NoOrphans /\ Enough
-----------------------------------------------------------------------------
(***************************************************************************)
(* How requests start.                                                     *)
(***************************************************************************)

\* No request is handled.
LEMMA IdleTyped == Idle \in Record
  BY HoldingsConfig DEF Record, Idle, Steps, Contents, Copies, AnyVersion

\* A request as it starts
Fresh(e) ==
    /\ e \in Record
    /\ \/ e.cmd = "REMFILE" /\ e.pc = "copies" /\ \A k \in e.ls : k[1] = e.d
       \/ e.cmd = "REMDISK" /\ e.pc = "glob"
       \/ e.cmd = "DISCARD" /\ e.pc = "try" /\ e.k \in Copies
       \/ e.cmd = "CLONE" /\ e.pc = "next"
       \/ e.cmd = "CHECKFILE" /\ e.pc = "look" /\ e.k \in Copies
       \/ e.cmd = "RETRIEVE" /\ e.pc = "send" /\ e.k \in Copies

\* What a client asks for is a fresh request.
LEMMA Starts ==
    ASSUME IInv, NEW r \in Reqs, Client(r) PROVE \E e \in Record : Fresh(e) /\ Start(r, e)
<1>. USE HoldingsConfig, IdleTyped DEF Record, Steps, Contents
<1>1. ASSUME NEW d \in Named, NEW v \in Asked, NEW x \in BOOLEAN, RemFile(r, d, v, x)
      PROVE  \E e \in Record : Fresh(e) /\ Start(r, e)
  <2>1. PICK ls \in SUBSET Copies :
           /\ \A k \in ls : k[1] = d
           /\ Start(r, [Idle EXCEPT !.cmd = "REMFILE", !.pc = "copies", !.d = d, !.v = v, !.x = x,
                                    !.ls = ls, !.todo = ls])
    BY <1>1 DEF RemFile, getFileSummary1, Joined
  <2>. DEFINE e == [Idle EXCEPT !.cmd = "REMFILE", !.pc = "copies", !.d = d, !.v = v, !.x = x,
                                !.ls = ls, !.todo = ls]
  <2>2. "REMFILE" \in Commands
    BY <2>1 DEF Start, Idle
  <2>3. e \in Record
    BY <2>2
  <2>4. e.cmd = "REMFILE" /\ e.pc = "copies" /\ e.ls = ls /\ e.d = d
    BY DEF Idle
  <2>5. Start(r, e)
    BY <2>1
  <2>. HIDE DEF e
  <2>6. Fresh(e)
    BY <2>1, <2>3, <2>4 DEF Fresh
  <2>. QED
    BY <2>3, <2>5, <2>6
<1>2. ASSUME NEW d \in Named, NEW x \in BOOLEAN, RemDisk(r, d, x)
      PROVE  \E e \in Record : Fresh(e) /\ Start(r, e)
  <2>. DEFINE ls == getFileSummary1({d}, {"ok", "bad"})
              e == [Idle EXCEPT !.cmd = "REMDISK", !.pc = "glob", !.d = d, !.x = x, !.ls = ls]
  <2>1. ls \subseteq Copies
    BY DEF getFileSummary1, Joined
  <2>. HIDE DEF ls
  <2>2. "REMDISK" \in Commands
    BY <1>2 DEF RemDisk, Start, Idle
  <2>3. e \in Record
    BY <2>1, <2>2
  <2>4. Fresh(e)
    BY <2>3 DEF Fresh, Idle
  <2>5. Start(r, e)
    BY <1>2 DEF RemDisk, ls
  <2>. QED
    BY <2>3, <2>4, <2>5
<1>3. ASSUME NEW k \in Named \X Versions, NEW x \in BOOLEAN, NEW path \in BOOLEAN, Discard(r, k, x, path)
      PROVE  \E e \in Record : Fresh(e) /\ Start(r, e)
  <2>. DEFINE d == IF path THEN None ELSE k[1]
              e == [Idle EXCEPT !.cmd = "DISCARD", !.pc = "try", !.k = k, !.x = x, !.d = d]
  <2>1. "DISCARD" \in Commands /\ k \in Copies /\ d \in Disks \cup {None} /\ Start(r, e)
    BY <1>3 DEF Discard, Copies, Start, Idle
  <2>. HIDE DEF d
  <2>2. e \in Record
    BY <2>1
  <2>3. Fresh(e)
    BY <2>1, <2>2 DEF Fresh, Idle
  <2>. QED
    BY <2>1, <2>2, <2>3
<1>4. ASSUME NEW d \in Named \cup {None}, NEW v \in Asked, NEW t \in Named \cup {None},
             NEW check \in BOOLEAN, Clone(r, d, v, t, check)
      PROVE  \E e \in Record : Fresh(e) /\ Start(r, e)
  <2>. DEFINE found == {k \in Joined \cap Of(v) : d = None \/ k[1] = d}
  <2>1. found \in SUBSET Copies /\ \A k \in Newest(found) : {k} \in SUBSET Copies
    BY DEF Joined, Newest
  <2>2. PICK ls \in IF d # None \/ v = AnyVersion THEN {{k} : k \in Newest(found)} ELSE {found} :
           Start(r, [Idle EXCEPT !.cmd = "CLONE", !.pc = "next", !.d = t, !.x = check,
                                 !.ls = {k \in ls : row[k] = "ok"}, !.todo = ls])
    BY <1>4 DEF Clone
  <2>. HIDE DEF found
  <2>3. ls \in SUBSET Copies
    <3>1. CASE d # None \/ v = AnyVersion
      <4>1. PICK k \in Newest(found) : ls = {k}
        BY <2>2, <3>1
      <4>. QED
        BY <2>1, <4>1
    <3>2. CASE ~(d # None \/ v = AnyVersion)
      BY <2>1, <2>2, <3>2
    <3>. QED
      BY <3>1, <3>2
  <2>. DEFINE good == {k \in ls : row[k] = "ok"}
              e == [Idle EXCEPT !.cmd = "CLONE", !.pc = "next", !.d = t, !.x = check, !.ls = good, !.todo = ls]
  <2>4. Start(r, e) /\ good \in SUBSET Copies
    BY <2>2, <2>3
  <2>. HIDE DEF good
  <2>5. "CLONE" \in Commands
    BY <2>4 DEF Start, Idle
  <2>6. e \in Record
    BY <2>3, <2>4, <2>5
  <2>7. Fresh(e)
    BY <2>6 DEF Fresh, Idle
  <2>. QED
    BY <2>4, <2>6, <2>7
<1>5. ASSUME NEW d \in Named \cup {None}, NEW v \in Asked, CheckFile(r, d, v)
      PROVE  \E e \in Record : Fresh(e) /\ Start(r, e)
  <2>1. Located(d, v) \subseteq Copies
    BY DEF Located, Newest, Joined
  <2>2. PICK k \in Copies : Start(r, [Idle EXCEPT !.cmd = "CHECKFILE", !.pc = "look", !.k = k])
    BY <1>5, <2>1 DEF CheckFile
  <2>. DEFINE e == [Idle EXCEPT !.cmd = "CHECKFILE", !.pc = "look", !.k = k]
  <2>3. "CHECKFILE" \in Commands
    BY <2>2 DEF Start, Idle
  <2>4. e \in Record
    BY <2>3
  <2>5. Fresh(e)
    BY <2>4 DEF Fresh, Idle
  <2>. QED
    BY <2>2, <2>4, <2>5
<1>6. ASSUME NEW d \in Named \cup {None}, NEW v \in Asked, NEW quick \in BOOLEAN, Retrieve(r, d, v, quick)
      PROVE  \E e \in Record : Fresh(e) /\ Start(r, e)
  <2>1. Located(d, v) \subseteq Copies /\ QuickLocated(d, v) \subseteq Copies
    BY DEF Located, QuickLocated, Newest, Joined
  <2>2. PICK k \in Copies, x \in BOOLEAN :
           Start(r, [Idle EXCEPT !.cmd = "RETRIEVE", !.pc = "send", !.k = k, !.x = x])
    BY <1>6, <2>1 DEF Retrieve
  <2>. DEFINE e == [Idle EXCEPT !.cmd = "RETRIEVE", !.pc = "send", !.k = k, !.x = x]
  <2>3. "RETRIEVE" \in Commands
    BY <2>2 DEF Start, Idle
  <2>4. e \in Record
    BY <2>3
  <2>5. Fresh(e)
    BY <2>4 DEF Fresh, Idle
  <2>. QED
    BY <2>2, <2>4, <2>5
<1>. QED
  BY <1>1, <1>2, <1>3, <1>4, <1>5, <1>6 DEF Client

\* CLONE gives up, skips the file, or has chosen a target volume for it.
LEMMA TargetChosen ==
    ASSUME IInv, NEW r \in Reqs, NEW k \in Copies, CloneTarget(r, k)
    PROVE  \/ req' = [req EXCEPT ![r] = Idle]
           \/ req' = [req EXCEPT ![r].todo = @ \ {k}]
           \/ \E t \in Disks : req' = [req EXCEPT ![r].pc = "fetch", ![r].k = k, ![r].v = k[2],
                                                  ![r].t = t, ![r].n = 0]
<1>. DEFINE named == req[r].d
            ts == IF named = None THEN Targets(k[2]) \ {k[1]} ELSE {named} \ {k[1]}
<1>1. named \in Disks \cup {None} /\ Targets(k[2]) \subseteq Disks
  BY DEF IInv, Types, Record, Shape, Targets
<1>2. ts \subseteq Disks
  BY <1>1
<1>3. IF named # None /\ named \notin known /\ k \in req[r].ls THEN req' = [req EXCEPT ![r] = Idle]
      ELSE IF k \notin req[r].ls \/ ts = {}
      THEN req' = [req EXCEPT ![r].todo = @ \ {k}]
      ELSE \E t \in ts : req' = [req EXCEPT ![r].pc = "fetch", ![r].k = k, ![r].v = k[2], ![r].t = t, ![r].n = 0]
  BY DEF CloneTarget, End
<1>. HIDE DEF ts, named
<1>. QED
  BY <1>2, <1>3

\* The record of a request of CLONE that has a target has its type.
LEMMA FetchTyped ==
    ASSUME NEW e \in Record, NEW k \in Copies, NEW t \in Disks, NEW v \in Versions \cup {AnyVersion},
           NEW n \in 0 .. CloneAttempts - 1
    PROVE  [e EXCEPT !.pc = "fetch", !.k = k, !.v = v, !.t = t, !.n = n] \in Record
  BY DEF Record, Steps

\* The request CLONE goes on with
LEMMA TargetEffect ==
    ASSUME IInv, NEW r \in Reqs, NEW k \in Copies, CloneTarget(r, k)
    PROVE  \E e \in Record : /\ req' = [req EXCEPT ![r] = e]
                             /\ \/ e = Idle
                                \/ e.cmd = "CLONE" /\ e.pc = "next"
                                \/ e.cmd = "CLONE" /\ e.pc = "fetch" /\ e.k = k /\ e.t \in Disks /\ e.v \in Versions
<1>1. req \in [Reqs -> Record] /\ At(r, {"CLONE"}, "next")
  BY DEF IInv, Types, CloneTarget
<1>2. k[2] \in Versions /\ 0 \in 0 .. CloneAttempts - 1
  BY HoldingsConfig DEF Copies
<1>3. CASE req' = [req EXCEPT ![r] = Idle]
  BY <1>3, IdleTyped
<1>4. CASE req' = [req EXCEPT ![r].todo = @ \ {k}]
  <2>. DEFINE e == [req[r] EXCEPT !.todo = @ \ {k}]
  <2>1. e \in Record /\ e.cmd = "CLONE" /\ e.pc = "next"
    BY <1>1 DEF Record, At
  <2>2. req' = [req EXCEPT ![r] = e]
    BY <1>1, <1>4
  <2>. QED
    BY <2>1, <2>2
<1>5. ASSUME NEW t \in Disks,
             req' = [req EXCEPT ![r].pc = "fetch", ![r].k = k, ![r].v = k[2], ![r].t = t, ![r].n = 0]
      PROVE  \E e \in Record :
                /\ req' = [req EXCEPT ![r] = e]
                /\ \/ e = Idle
                   \/ e.cmd = "CLONE" /\ e.pc = "next"
                   \/ e.cmd = "CLONE" /\ e.pc = "fetch" /\ e.k = k /\ e.t \in Disks /\ e.v \in Versions
  <2>1. PICK v \in Versions : v = k[2]
    BY <1>2
  <2>2. PICK n \in 0 .. CloneAttempts - 1 : n = 0
    BY <1>2
  <2>. DEFINE e == [req[r] EXCEPT !.pc = "fetch", !.k = k, !.v = v, !.t = t, !.n = n]
  <2>3. e \in Record
    BY <1>1, FetchTyped
  <2>4. e.cmd = "CLONE" /\ e.pc = "fetch" /\ e.k = k /\ e.t = t /\ e.v = v
    BY <1>1 DEF Record, At
  <2>5. req' = [req EXCEPT ![r] = e]
    BY <1>1, <1>5, <2>1, <2>2
  <2>. HIDE DEF e
  <2>. QED
    BY <2>3, <2>4, <2>5
<1>6. CASE \E t \in Disks : req' = [req EXCEPT ![r].pc = "fetch", ![r].k = k, ![r].v = k[2],
                                                ![r].t = t, ![r].n = 0]
  <2>1. PICK t \in Disks : req' = [req EXCEPT ![r].pc = "fetch", ![r].k = k, ![r].v = k[2], ![r].t = t, ![r].n = 0]
    BY <1>6
  <2>. QED
    BY <1>5, <2>1, Zenon
<1>. QED
  BY <1>3, <1>4, <1>6, TargetChosen, Zenon

\* _remStatErrReport ends the request, or goes on with the files to be looked at.
LEMMA SpuriousEffect ==
    ASSUME IInv, NEW r \in Reqs, CheckSpurious(r)
    PROVE  \E e \in Record : /\ req' = [req EXCEPT ![r] = e]
                             /\ \/ e = Idle
                                \/ /\ e.cmd = req[r].cmd /\ e.pc = "removable"
                                   /\ e.d = req[r].d /\ e.ls = req[r].ls
<1>1. req \in [Reqs -> Record]
  BY DEF IInv, Types
<1>2. CASE req' = [req EXCEPT ![r] = Idle]
  BY <1>2, IdleTyped
<1>. DEFINE all == IF req[r].cmd = "REMFILE" THEN req[r].ls
                   ELSE {k \in Joined : \E j \in req[r].ls : j[2] = k[2]}
<1>3. all \in SUBSET Copies
  BY <1>1 DEF Joined, Record
<1>4. req' = [req EXCEPT ![r] = Idle] \/ req' = [req EXCEPT ![r].pc = "removable", ![r].todo = all]
  BY DEF CheckSpurious, End
<1>. HIDE DEF all
<1>5. CASE req' = [req EXCEPT ![r].pc = "removable", ![r].todo = all]
  <2>. DEFINE e == [req[r] EXCEPT !.pc = "removable", !.todo = all]
  <2>1. e \in Record
    BY <1>1, <1>3, ZenonT(60) DEF Record, Steps
  <2>2. e.cmd = req[r].cmd /\ e.pc = "removable" /\ e.d = req[r].d /\ e.ls = req[r].ls
    BY <1>1 DEF Record
  <2>3. req' = [req EXCEPT ![r] = e]
    BY <1>1, <1>5
  <2>. QED
    BY <2>1, <2>2, <2>3
<1>. QED
  BY <1>2, <1>4, <1>5

\* _delFile of DISCARD moves the file away, ends the request, or goes on to the row.
LEMMA DiscardEffect ==
    ASSUME IInv, NEW r \in Reqs, DiscardTry(r) \/ DiscardFile(r)
    PROVE  /\ req[r].cmd = "DISCARD" /\ req[r].pc \in {"try", "unlink"} /\ req[r].k \in Copies
           /\ UNCHANGED <<row, known, started, cut>> /\ struck \subseteq struck'
           /\ \A i \in Copies : vol'[i] \in {vol[i], "none"}
           /\ \E e \in Record :
                 /\ req' = [req EXCEPT ![r] = e]
                 /\ \/ e = Idle
                    \/ e.cmd = "DISCARD" /\ e.k = req[r].k /\ e.pc = "delrow"
                    \/ /\ e.cmd = "DISCARD" /\ e.k = req[r].k /\ e.pc = "back" /\ e.c = vol[req[r].k]
                       /\ vol[req[r].k] # "none" /\ vol' = [vol EXCEPT ![req[r].k] = "none"] /\ UNCHANGED struck
<1>1. /\ req \in [Reqs -> Record] /\ req[r] \in Record /\ req[r].cmd = "DISCARD" /\ req[r].pc \in {"try", "unlink"}
      /\ req[r].k \in Copies /\ vol \in [Copies -> Contents]
  BY DEF IInv, Types, Ready, DiscardTry, DiscardFile, At, Shape
<1>2. /\ UNCHANGED <<row, known, started, cut>> /\ struck \subseteq struck'
      /\ \A i \in Copies : vol'[i] \in {vol[i], "none"}
  BY <1>1 DEF DiscardTry, DiscardFile
<1>. DEFINE row1 == [req[r] EXCEPT !.pc = "delrow"]
            back == [req[r] EXCEPT !.pc = "back", !.c = vol[req[r].k]]
<1>3. row1 \in Record /\ row1.cmd = "DISCARD" /\ row1.k = req[r].k /\ row1.pc = "delrow"
  BY <1>1 DEF Record, Steps
<1>4. vol[req[r].k] \in Contents
  BY <1>1
<1>5. back \in Record
  BY <1>1, <1>4, ZenonT(60) DEF Record, Steps
<1>6. back.cmd = "DISCARD" /\ back.k = req[r].k /\ back.pc = "back" /\ back.c = vol[req[r].k]
  BY <1>1 DEF Record
<1>7. \/ req' = [req EXCEPT ![r] = Idle]
      \/ req' = [req EXCEPT ![r] = row1]
      \/ /\ req' = [req EXCEPT ![r] = back]
         /\ vol[req[r].k] # "none" /\ vol' = [vol EXCEPT ![req[r].k] = "none"] /\ UNCHANGED struck
  BY <1>1 DEF DiscardTry, DiscardFile, Deleted, Goto, End
<1>. HIDE DEF row1, back
<1>. QED
  BY <1>1, <1>2, <1>3, <1>5, <1>6, <1>7, IdleTyped

-----------------------------------------------------------------------------
(***************************************************************************)
(* Steps that leave the copies alone.                                      *)
(***************************************************************************)

\* Request r has moved a copy, or is half-way through removing, making or marking one.
Pending(r) == \/ At(r, Movers, "back") \/ At(r, {"REMFILE"}, "unlink") \/ At(r, {"DISCARD"}, "delrow")
              \/ At(r, {"CLONE"}, "write") \/ At(r, {"CHECKFILE"}, "mark")

\* The requests but r do nothing.
Alone(r) == \A q \in Reqs : q # r => req'[q] = req[q]

\* A step of a request that is half-way through nothing, and changes no row and no file,
\* keeps CopyOK and NoOrphans.
LEMMA QuietStep ==
    ASSUME IInv, NEW r \in Reqs, Alone(r), ~Pending(r), ~Pending(r)',
           UNCHANGED <<row, vol, struck>>, known' \subseteq known
    PROVE  /\ \A j \in Copies \ struck' : j[1] \in known' => CopyOK(j)'
           /\ NoOrphans'
<1>1. \A q \in Reqs, j \in Copies :
         /\ Moved(q, j)' <=> Moved(q, j)
         /\ Discarding(q, j)' <=> Discarding(q, j)
         /\ Cloning(q, j)' <=> Cloning(q, j)
         /\ Marking(q, j)' <=> Marking(q, j)
         /\ Unlinking(q, j)' <=> Unlinking(q, j)
  BY DEF Alone, Pending, At, Moved, Discarding, Cloning, Unlinking, Marking
<1>2. \A j \in Copies : /\ Away(j)' <=> Away(j)
                        /\ BeingCloned(j)' <=> BeingCloned(j)
  BY <1>1 DEF Away, BeingCloned, Moved, Discarding, Cloning
<1>3. ASSUME NEW j \in Copies \ struck', j[1] \in known' PROVE CopyOK(j)'
  <2>1. CopyOK(j)
    BY <1>3 DEF IInv, CopiesOK
  <2>. QED
    BY <1>1, <1>2, <2>1 DEF CopyOK, RowOK, CloneOK, MarkOK
<1>4. NoOrphans'
  BY <1>1, <1>2 DEF IInv, NoOrphans, Unlinking
<1>. QED
  BY <1>3, <1>4

-----------------------------------------------------------------------------
(***************************************************************************)
(* Counting copies.                                                        *)
(***************************************************************************)

\* A count that does not lose volumes stays sufficient.
LEMMA StillEnough ==
    ASSUME NEW S \in SUBSET Disks, NEW T \in SUBSET Disks, S \subseteq T, Cardinality(S) >= MinCopies
    PROVE  Cardinality(T) >= MinCopies
<1>1. IsFiniteSet(T)
  BY HoldingsConfig, FS_Subset
<1>2. IsFiniteSet(S) /\ Cardinality(S) <= Cardinality(T)
  BY <1>1, FS_Subset
<1>3. Cardinality(S) \in Nat /\ Cardinality(T) \in Nat /\ MinCopies \in Nat
  BY <1>1, <1>2, FS_CardinalityType, HoldingsConfig
<1>. QED
  BY <1>2, <1>3

\* Request q sees the row of copy k, or knows that another request has deleted it.
Sees(q, k) == row[k] # "none" \/ k \in cut[q]

\* A request that keeps its record, and sees what it saw, has counted enough copies still.
LEMMA CountKept ==
    ASSUME IInv, NEW q \in Reqs, NEW T \in SUBSET Copies, T \subseteq ToDelete(q), req[q].cmd \in Removals,
           \A k \in T, d \in Disks : Sees(q, <<d, k[2]>>) => Sees(q, <<d, k[2]>>)'
    PROVE  \A k \in T : Cardinality(Counted(q, k[2])') >= MinCopies
<1>. TAKE k \in T
<1>1. Cardinality(Counted(q, k[2])) >= MinCopies
  BY DEF IInv, Enough, EnoughFor
<1>2. Counted(q, k[2]) \subseteq Counted(q, k[2])' /\ Counted(q, k[2])' \in SUBSET Disks
  BY DEF Counted, Sees, fileInDb
<1>3. Counted(q, k[2]) \in SUBSET Disks
  BY DEF Counted
<1>. QED
  BY <1>1, <1>2, <1>3, StillEnough

\* Copies that request q may still delete are copies.
LEMMA ToDeleteCopies ==
    ASSUME IInv, NEW q \in Reqs PROVE ToDelete(q) \subseteq Copies
  BY DEF IInv, Types, Record, ToDelete

\* What a step of request r does is known to the others, and keeps their counts.
LEMMA OthersCount ==
    ASSUME IInv, NEW r \in Reqs, NEW q \in Reqs, q # r, Alone(r),
           req[q].pc # "idle" => \A k \in Copies : Sees(q, k) => Sees(q, k)'
    PROVE  EnoughFor(q)'
<1>1. req'[q] = req[q] /\ ToDelete(q)' = ToDelete(q)
  BY DEF Alone, ToDelete
<1>2. CASE req[q].pc = "idle"
  BY <1>1, <1>2 DEF EnoughFor, ToDelete, IInv, Enough
<1>3. CASE req[q].pc # "idle" /\ req[q].cmd \in Removals
  <2>1. \A k \in ToDelete(q), d \in Disks : <<d, k[2]>> \in Copies
    BY ToDeleteCopies DEF Copies
  <2>2. \A k \in ToDelete(q) : Cardinality(Counted(q, k[2])') >= MinCopies
    BY <1>3, <2>1, CountKept, ToDeleteCopies
  <2>. QED
    BY <1>1, <2>2 DEF EnoughFor, IInv, Enough
<1>4. CASE req[q].cmd \notin Removals
  BY <1>1, <1>4 DEF EnoughFor
<1>. QED
  BY <1>2, <1>3, <1>4

\* Every step keeps the records of the requests.
LEMMA ReqTyped ==
    ASSUME IInv, [Next]_vars PROVE req' \in [Reqs -> Record]
<1>. USE IdleTyped, HoldingsConfig DEF IInv, Event, At, Goto, End, deleteFileInfo, set_valid_checksum, Types, Record, Steps, Contents, WithCopy, Ready, Removals, Movers
<1>1. ASSUME NEW r \in Reqs, NEW e \in Record, Fresh(e), Start(r, e) PROVE req' \in [Reqs -> Record]
  BY <1>1 DEF Fresh, Start
<1>2. ASSUME NEW r \in Reqs, GlobFiles(r) PROVE req' \in [Reqs -> Record]
  <2>1. [req[r] EXCEPT !.pc = "copies", !.todo = {k \in Copies : k[1] = req[r].d /\ vol[k] # "none"}] \in Record
    BY <1>2, ZenonT(60) DEF GlobFiles
  <2>. QED
    BY <1>2, <2>1, ZenonT(60) DEF GlobFiles
<1>3. ASSUME NEW r \in Reqs, checkFileCopiesAndReg(r) PROVE req' \in [Reqs -> Record]
  BY <1>3 DEF checkFileCopiesAndReg
<1>4. ASSUME NEW r \in Reqs, CheckSpurious(r) PROVE req' \in [Reqs -> Record]
  BY <1>4 DEF CheckSpurious
<1>5. ASSUME NEW r \in Reqs, NEW k \in Copies, FileRemovable(r, k) PROVE req' \in [Reqs -> Record]
  BY <1>5 DEF FileRemovable
<1>6. ASSUME NEW r \in Reqs, MoveBack(r) PROVE req' \in [Reqs -> Record]
  <2>1. [req[r] EXCEPT !.pc = "removable", !.todo = @ \ {req[r].k}, !.c = "none"] \in Record
    BY <1>6, ZenonT(60) DEF MoveBack
  <2>2. [req[r] EXCEPT !.pc = "unlink", !.todo = @ \ {req[r].k}, !.c = "none"] \in Record
    BY <1>6, ZenonT(60) DEF MoveBack
  <2>3. \E e \in Record : req' = [req EXCEPT ![r] = e]
    <3>1. CASE req[r].cmd = "DISCARD"
      BY <1>6, <2>2, <3>1 DEF MoveBack
    <3>2. CASE req[r].cmd # "DISCARD"
      BY <1>6, <2>1, <3>2 DEF MoveBack
    <3>. QED
      BY <3>1, <3>2
  <2>. HIDE DEF Record
  <2>. QED
    BY <2>3
<1>7. ASSUME NEW r \in Reqs, Execute(r) PROVE req' \in [Reqs -> Record]
  BY <1>7 DEF Execute
<1>8. ASSUME NEW r \in Reqs, NEW k \in Copies, RemFileRow(r, k) PROVE req' \in [Reqs -> Record]
  <2>1. [req[r] EXCEPT !.pc = "unlink", !.k = k] \in Record
    BY <1>8, ZenonT(60) DEF RemFileRow
  <2>. QED
    BY <1>8, <2>1 DEF RemFileRow
<1>9. ASSUME NEW r \in Reqs, RemFileUnlink(r) PROVE req' \in [Reqs -> Record]
  <2>1. [req[r] EXCEPT !.pc = "delrow", !.todo = @ \ {req[r].k}] \in Record
    BY <1>9, ZenonT(60) DEF RemFileUnlink
  <2>. QED
    BY <1>9, <2>1 DEF RemFileUnlink
<1>10. ASSUME NEW r \in Reqs, RemFileDone(r) PROVE req' \in [Reqs -> Record]
  BY <1>10 DEF RemFileDone
<1>11. ASSUME NEW r \in Reqs, RemDiskInfo(r) PROVE req' \in [Reqs -> Record]
  BY <1>11 DEF RemDiskInfo
<1>12. ASSUME NEW r \in Reqs, RemDiskRows(r) PROVE req' \in [Reqs -> Record]
  <2>1. [req[r] EXCEPT !.pc = "wipe"] \in Record
    BY SMTT(30)
  <2>2. Goto(r, "wipe")
    BY <1>12 DEF RemDiskRows
  <2>. HIDE DEF Record
  <2>. QED
    BY <2>1, <2>2
<1>13. ASSUME NEW r \in Reqs, RemDiskFiles(r) PROVE req' \in [Reqs -> Record]
  BY <1>13 DEF RemDiskFiles
<1>14. ASSUME NEW r \in Reqs, DiscardTry(r) \/ DiscardFile(r) PROVE req' \in [Reqs -> Record]
  <2>. HIDE DEF IInv, Record
  <2>1. \E e \in Record : req' = [req EXCEPT ![r] = e]
    BY <1>14, DiscardEffect
  <2>. QED
    BY <2>1 DEF IInv
<1>15. ASSUME NEW r \in Reqs, DiscardRow(r) PROVE req' \in [Reqs -> Record]
  BY <1>15 DEF DiscardRow
<1>16. ASSUME NEW r \in Reqs, NEW k \in Copies, CloneTarget(r, k) PROVE req' \in [Reqs -> Record]
  <2>. HIDE DEF IInv, Record, Idle
  <2>1. PICK e \in Record : /\ req' = [req EXCEPT ![r] = e]
                            /\ \/ e = Idle
                               \/ e.cmd = "CLONE" /\ e.pc = "next"
                               \/ e.cmd = "CLONE" /\ e.pc = "fetch" /\ e.k = k /\ e.t \in Disks /\ e.v \in Versions
    BY <1>16, TargetEffect
  <2>2. UNCHANGED <<row, vol, known, struck, cut>>
    BY <1>16 DEF CloneTarget
  <2>. QED
    BY <2>1, <2>2 DEF IInv, Idle
<1>17. ASSUME NEW r \in Reqs, CloneFetch(r) PROVE req' \in [Reqs -> Record]
  BY <1>17 DEF CloneFetch
<1>18. ASSUME NEW r \in Reqs, CloneMove(r) PROVE req' \in [Reqs -> Record]
  BY <1>18 DEF CloneMove
<1>19. ASSUME NEW r \in Reqs, CloneWrite(r) PROVE req' \in [Reqs -> Record]
  <2>1. 0 \in 0 .. CloneAttempts - 1
    OBVIOUS
  <2>2. [req[r] EXCEPT !.pc = "next", !.todo = @ \ {req[r].k}, !.c = "none", !.n = 0] \in Record
    BY <1>19, <2>1, ZenonT(60) DEF CloneWrite
  <2>. QED
    BY <1>19, <2>2, SMTT(30) DEF CloneWrite
<1>20. ASSUME NEW r \in Reqs, CloneDone(r) PROVE req' \in [Reqs -> Record]
  BY <1>20 DEF CloneDone
<1>21. ASSUME NEW r \in Reqs, CheckFileLook(r) PROVE req' \in [Reqs -> Record]
  BY <1>21 DEF CheckFileLook
<1>22. ASSUME NEW r \in Reqs, CheckFileMark(r) PROVE req' \in [Reqs -> Record]
  BY <1>22 DEF CheckFileMark
<1>23. ASSUME NEW r \in Reqs, RetrieveSend(r) PROVE req' \in [Reqs -> Record]
  <2>1. [req[r] EXCEPT !.pc = "sent", !.c = vol[req[r].k]] \in Record
    BY <1>23, ZenonT(60) DEF RetrieveSend, Shape
  <2>. QED
    BY <1>23, <2>1 DEF RetrieveSend
<1>24. ASSUME NEW r \in Reqs, RetrieveDone(r) PROVE req' \in [Reqs -> Record]
  BY <1>24 DEF RetrieveDone
<1>25. ASSUME NEW k \in Copies, Rot(k) PROVE req' \in [Reqs -> Record]
  BY <1>25 DEF Rot
<1>26. ASSUME NEW k \in Copies, Vanish(k) PROVE req' \in [Reqs -> Record]
  BY <1>26 DEF Vanish
<1>27. CASE Crash
  BY <1>27 DEF Crash
<1>28. CASE UNCHANGED vars
  BY <1>28 DEF vars
<1>. QED
  BY Starts, <1>1, <1>2, <1>3, <1>4, <1>5, <1>6, <1>7, <1>8, <1>9, <1>10, <1>11, <1>12,
     <1>13, <1>14, <1>15, <1>16, <1>17, <1>18, <1>19, <1>20, <1>21, <1>22, <1>23, <1>24,
     <1>25, <1>26, <1>27, <1>28
     DEF Next, Step

\* Every step leaves a request with what its next step needs.
LEMMA ReqReady ==
    ASSUME IInv, [Next]_vars PROVE \A q \in Reqs : Ready(q)'
<1>. USE HoldingsConfig DEF IInv, Event, At, Goto, End, deleteFileInfo, set_valid_checksum, Types, Record, Steps, Contents, WithCopy, Ready, Removals, Movers, Idle
<1>1. ASSUME NEW r \in Reqs, NEW e \in Record, Fresh(e), Start(r, e) PROVE \A q \in Reqs : Ready(q)'
  BY <1>1 DEF Fresh, Start
<1>2. ASSUME NEW r \in Reqs, GlobFiles(r) PROVE \A q \in Reqs : Ready(q)'
  BY <1>2 DEF GlobFiles
<1>3. ASSUME NEW r \in Reqs, checkFileCopiesAndReg(r) PROVE \A q \in Reqs : Ready(q)'
  BY <1>3 DEF checkFileCopiesAndReg
<1>4. ASSUME NEW r \in Reqs, CheckSpurious(r) PROVE \A q \in Reqs : Ready(q)'
  BY <1>4 DEF CheckSpurious
<1>5. ASSUME NEW r \in Reqs, NEW k \in Copies, FileRemovable(r, k) PROVE \A q \in Reqs : Ready(q)'
  BY <1>5 DEF FileRemovable
<1>6. ASSUME NEW r \in Reqs, MoveBack(r) PROVE \A q \in Reqs : Ready(q)'
  BY <1>6 DEF MoveBack
<1>7. ASSUME NEW r \in Reqs, Execute(r) PROVE \A q \in Reqs : Ready(q)'
  BY <1>7 DEF Execute
<1>8. ASSUME NEW r \in Reqs, NEW k \in Copies, RemFileRow(r, k) PROVE \A q \in Reqs : Ready(q)'
  BY <1>8 DEF RemFileRow
<1>9. ASSUME NEW r \in Reqs, RemFileUnlink(r) PROVE \A q \in Reqs : Ready(q)'
  BY <1>9 DEF RemFileUnlink
<1>10. ASSUME NEW r \in Reqs, RemFileDone(r) PROVE \A q \in Reqs : Ready(q)'
  BY <1>10 DEF RemFileDone
<1>11. ASSUME NEW r \in Reqs, RemDiskInfo(r) PROVE \A q \in Reqs : Ready(q)'
  BY <1>11 DEF RemDiskInfo
<1>12. ASSUME NEW r \in Reqs, RemDiskRows(r) PROVE \A q \in Reqs : Ready(q)'
  BY <1>12 DEF RemDiskRows
<1>13. ASSUME NEW r \in Reqs, RemDiskFiles(r) PROVE \A q \in Reqs : Ready(q)'
  BY <1>13 DEF RemDiskFiles
<1>14. ASSUME NEW r \in Reqs, DiscardTry(r) \/ DiscardFile(r) PROVE \A q \in Reqs : Ready(q)'
  <2>. HIDE DEF IInv, Record
  <2>1. PICK e \in Record :
           /\ req' = [req EXCEPT ![r] = e]
           /\ \/ e = Idle
              \/ e.cmd = "DISCARD" /\ e.k = req[r].k /\ e.pc = "delrow"
              \/ /\ e.cmd = "DISCARD" /\ e.k = req[r].k /\ e.pc = "back" /\ e.c = vol[req[r].k]
                 /\ vol[req[r].k] # "none" /\ vol' = [vol EXCEPT ![req[r].k] = "none"] /\ UNCHANGED struck
    BY <1>14, DiscardEffect
  <2>2. req[r].k \in Copies
    BY <1>14, DiscardEffect
  <2>. QED
    BY <2>1, <2>2 DEF IInv
<1>15. ASSUME NEW r \in Reqs, DiscardRow(r) PROVE \A q \in Reqs : Ready(q)'
  BY <1>15 DEF DiscardRow
<1>16. ASSUME NEW r \in Reqs, NEW k \in Copies, CloneTarget(r, k) PROVE \A q \in Reqs : Ready(q)'
  <2>. HIDE DEF IInv, Record, Idle
  <2>1. PICK e \in Record : /\ req' = [req EXCEPT ![r] = e]
                            /\ \/ e = Idle
                               \/ e.cmd = "CLONE" /\ e.pc = "next"
                               \/ e.cmd = "CLONE" /\ e.pc = "fetch" /\ e.k = k /\ e.t \in Disks /\ e.v \in Versions
    BY <1>16, TargetEffect
  <2>2. UNCHANGED <<row, vol, known, struck, cut>>
    BY <1>16 DEF CloneTarget
  <2>. QED
    <3>1. \A q \in Reqs : q # r => req'[q] = req[q]
      BY <2>1 DEF IInv
    <3>2. req'[r] = e
      BY <2>1 DEF IInv
    <3>3. ~(Idle.pc \in WithCopy \/ Idle.cmd = "DISCARD" \/ Idle.pc \in {"fetch", "move", "write"})
      BY DEF Idle
    <3>4. Ready(r)'
      BY <2>1, <3>2, <3>3
    <3>. QED
      BY <3>1, <3>4 DEF IInv
<1>17. ASSUME NEW r \in Reqs, CloneFetch(r) PROVE \A q \in Reqs : Ready(q)'
  BY <1>17 DEF CloneFetch
<1>18. ASSUME NEW r \in Reqs, CloneMove(r) PROVE \A q \in Reqs : Ready(q)'
  BY <1>18 DEF CloneMove
<1>19. ASSUME NEW r \in Reqs, CloneWrite(r) PROVE \A q \in Reqs : Ready(q)'
  BY <1>19 DEF CloneWrite
<1>20. ASSUME NEW r \in Reqs, CloneDone(r) PROVE \A q \in Reqs : Ready(q)'
  BY <1>20 DEF CloneDone
<1>21. ASSUME NEW r \in Reqs, CheckFileLook(r) PROVE \A q \in Reqs : Ready(q)'
  BY <1>21 DEF CheckFileLook
<1>22. ASSUME NEW r \in Reqs, CheckFileMark(r) PROVE \A q \in Reqs : Ready(q)'
  BY <1>22 DEF CheckFileMark
<1>23. ASSUME NEW r \in Reqs, RetrieveSend(r) PROVE \A q \in Reqs : Ready(q)'
  BY <1>23 DEF RetrieveSend
<1>24. ASSUME NEW r \in Reqs, RetrieveDone(r) PROVE \A q \in Reqs : Ready(q)'
  BY <1>24 DEF RetrieveDone
<1>25. ASSUME NEW k \in Copies, Rot(k) PROVE \A q \in Reqs : Ready(q)'
  BY <1>25 DEF Rot
<1>26. ASSUME NEW k \in Copies, Vanish(k) PROVE \A q \in Reqs : Ready(q)'
  BY <1>26 DEF Vanish
<1>27. CASE Crash
  BY <1>27 DEF Crash
<1>28. CASE UNCHANGED vars
  BY <1>28 DEF vars
<1>. QED
  BY Starts, <1>1, <1>2, <1>3, <1>4, <1>5, <1>6, <1>7, <1>8, <1>9, <1>10, <1>11, <1>12,
     <1>13, <1>14, <1>15, <1>16, <1>17, <1>18, <1>19, <1>20, <1>21, <1>22, <1>23, <1>24,
     <1>25, <1>26, <1>27, <1>28
     DEF Next, Step

\* Every step keeps Shape.
LEMMA ShapeKept ==
    ASSUME IInv, [Next]_vars PROVE Shape'
<1>. USE HoldingsConfig DEF IInv, Event, At, Goto, End, deleteFileInfo, set_valid_checksum, Types, Record, Steps, Contents, WithCopy, Ready, Removals, Movers, Shape
<1>1. ASSUME NEW r \in Reqs, NEW e \in Record, Fresh(e), Start(r, e) PROVE Shape'
  BY <1>1 DEF Fresh, Start
<1>2. ASSUME NEW r \in Reqs, GlobFiles(r) PROVE Shape'
  BY <1>2 DEF GlobFiles
<1>3. ASSUME NEW r \in Reqs, checkFileCopiesAndReg(r) PROVE Shape'
  BY <1>3 DEF checkFileCopiesAndReg
<1>4. ASSUME NEW r \in Reqs, CheckSpurious(r) PROVE Shape'
  BY <1>4 DEF CheckSpurious
<1>5. ASSUME NEW r \in Reqs, NEW k \in Copies, FileRemovable(r, k) PROVE Shape'
  BY <1>5 DEF FileRemovable
<1>6. ASSUME NEW r \in Reqs, MoveBack(r) PROVE Shape'
  BY <1>6 DEF MoveBack
<1>7. ASSUME NEW r \in Reqs, Execute(r) PROVE Shape'
  BY <1>7 DEF Execute
<1>8. ASSUME NEW r \in Reqs, NEW k \in Copies, RemFileRow(r, k) PROVE Shape'
  BY <1>8 DEF RemFileRow
<1>9. ASSUME NEW r \in Reqs, RemFileUnlink(r) PROVE Shape'
  BY <1>9 DEF RemFileUnlink
<1>10. ASSUME NEW r \in Reqs, RemFileDone(r) PROVE Shape'
  BY <1>10 DEF RemFileDone
<1>11. ASSUME NEW r \in Reqs, RemDiskInfo(r) PROVE Shape'
  BY <1>11 DEF RemDiskInfo
<1>12. ASSUME NEW r \in Reqs, RemDiskRows(r) PROVE Shape'
  BY <1>12 DEF RemDiskRows
<1>13. ASSUME NEW r \in Reqs, RemDiskFiles(r) PROVE Shape'
  BY <1>13 DEF RemDiskFiles
<1>14. ASSUME NEW r \in Reqs, DiscardTry(r) \/ DiscardFile(r) PROVE Shape'
  BY <1>14 DEF DiscardTry, DiscardFile
<1>15. ASSUME NEW r \in Reqs, DiscardRow(r) PROVE Shape'
  BY <1>15 DEF DiscardRow
<1>16. ASSUME NEW r \in Reqs, NEW k \in Copies, CloneTarget(r, k) PROVE Shape'
  BY <1>16 DEF CloneTarget
<1>17. ASSUME NEW r \in Reqs, CloneFetch(r) PROVE Shape'
  BY <1>17 DEF CloneFetch
<1>18. ASSUME NEW r \in Reqs, CloneMove(r) PROVE Shape'
  <2>1. <<req[r].t, req[r].v>> \in Copies /\ req[r].c \in Contents
    BY <1>18 DEF CloneMove, Copies
  <2>. QED
    BY <1>18, <2>1 DEF CloneMove
<1>19. ASSUME NEW r \in Reqs, CloneWrite(r) PROVE Shape'
  BY <1>19 DEF CloneWrite
<1>20. ASSUME NEW r \in Reqs, CloneDone(r) PROVE Shape'
  BY <1>20 DEF CloneDone
<1>21. ASSUME NEW r \in Reqs, CheckFileLook(r) PROVE Shape'
  BY <1>21 DEF CheckFileLook
<1>22. ASSUME NEW r \in Reqs, CheckFileMark(r) PROVE Shape'
  BY <1>22 DEF CheckFileMark
<1>23. ASSUME NEW r \in Reqs, RetrieveSend(r) PROVE Shape'
  BY <1>23 DEF RetrieveSend
<1>24. ASSUME NEW r \in Reqs, RetrieveDone(r) PROVE Shape'
  BY <1>24 DEF RetrieveDone
<1>25. ASSUME NEW k \in Copies, Rot(k) PROVE Shape'
  BY <1>25 DEF Rot
<1>26. ASSUME NEW k \in Copies, Vanish(k) PROVE Shape'
  BY <1>26 DEF Vanish
<1>27. CASE Crash
  <2>1. \A r \in Reqs : HalfDone(r) \subseteq Copies
    BY DEF HalfDone, Copies
  <2>. QED
    BY <1>27, <2>1 DEF Crash
<1>28. CASE UNCHANGED vars
  BY <1>28 DEF vars
<1>. QED
  BY Starts, <1>1, <1>2, <1>3, <1>4, <1>5, <1>6, <1>7, <1>8, <1>9, <1>10, <1>11, <1>12,
     <1>13, <1>14, <1>15, <1>16, <1>17, <1>18, <1>19, <1>20, <1>21, <1>22, <1>23, <1>24,
     <1>25, <1>26, <1>27, <1>28
     DEF Next, Step

\* Every step keeps HandsOK.
LEMMA HandsKept ==
    ASSUME IInv, [Next]_vars PROVE HandsOK'
<1>. USE HoldingsConfig DEF IInv, Event, At, Goto, End, deleteFileInfo, set_valid_checksum, Types, Record, Steps, Contents, WithCopy, Ready, Removals, Movers, Shape, HandsOK, Idle
<1>1. ASSUME NEW r \in Reqs, NEW e \in Record, Fresh(e), Start(r, e) PROVE HandsOK'
  BY <1>1 DEF Fresh, Start
<1>2. ASSUME NEW r \in Reqs, GlobFiles(r) PROVE HandsOK'
  BY <1>2 DEF GlobFiles
<1>3. ASSUME NEW r \in Reqs, checkFileCopiesAndReg(r) PROVE HandsOK'
  <2>1. UNCHANGED <<vol, struck>> /\ \A q \in Reqs : q # r => req'[q] = req[q]
    BY <1>3 DEF checkFileCopiesAndReg
  <2>2. req'[r].pc \notin {"back", "move"}
    BY <1>3 DEF checkFileCopiesAndReg
  <2>. QED
    BY <2>1, <2>2
<1>4. ASSUME NEW r \in Reqs, CheckSpurious(r) PROVE HandsOK'
  <2>. HIDE DEF IInv, Record, Idle
  <2>1. PICK e \in Record : /\ req' = [req EXCEPT ![r] = e]
                            /\ \/ e = Idle
                               \/ /\ e.cmd = req[r].cmd /\ e.pc = "removable"
                                  /\ e.d = req[r].d /\ e.ls = req[r].ls
    BY <1>4, SpuriousEffect
  <2>. QED
    BY <1>4, <2>1 DEF IInv, Idle, CheckSpurious
<1>5. ASSUME NEW r \in Reqs, NEW k \in Copies, FileRemovable(r, k) PROVE HandsOK'
  <2>1. \A q \in Reqs : q # r => req'[q] = req[q]
    BY <1>5 DEF FileRemovable
  <2>2. \A j \in Copies : vol'[j] = "rot" => vol[j] = "rot"
    BY <1>5 DEF FileRemovable
  <2>3. At(r, Movers, "back")' => req'[r].c = "good" \/ req'[r].k \in struck
    BY <1>5 DEF FileRemovable
  <2>4. ~At(r, {"CLONE"}, "move")'
    BY <1>5 DEF FileRemovable
  <2>. QED
    <3>1. UNCHANGED struck
      BY <1>5 DEF FileRemovable
    <3>. QED
      BY <2>1, <2>2, <2>3, <2>4, <3>1
<1>6. ASSUME NEW r \in Reqs, MoveBack(r) PROVE HandsOK'
  BY <1>6 DEF MoveBack
<1>7. ASSUME NEW r \in Reqs, Execute(r) PROVE HandsOK'
  BY <1>7 DEF Execute
<1>8. ASSUME NEW r \in Reqs, NEW k \in Copies, RemFileRow(r, k) PROVE HandsOK'
  BY <1>8 DEF RemFileRow
<1>9. ASSUME NEW r \in Reqs, RemFileUnlink(r) PROVE HandsOK'
  BY <1>9 DEF RemFileUnlink
<1>10. ASSUME NEW r \in Reqs, RemFileDone(r) PROVE HandsOK'
  BY <1>10 DEF RemFileDone
<1>11. ASSUME NEW r \in Reqs, RemDiskInfo(r) PROVE HandsOK'
  BY <1>11 DEF RemDiskInfo
<1>12. ASSUME NEW r \in Reqs, RemDiskRows(r) PROVE HandsOK'
  BY <1>12 DEF RemDiskRows
<1>13. ASSUME NEW r \in Reqs, RemDiskFiles(r) PROVE HandsOK'
  BY <1>13 DEF RemDiskFiles
<1>14. ASSUME NEW r \in Reqs, DiscardTry(r) \/ DiscardFile(r) PROVE HandsOK'
  <2>. HIDE DEF IInv, Record, Idle
  <2>1. PICK e \in Record :
           /\ req' = [req EXCEPT ![r] = e]
           /\ \/ e = Idle
              \/ e.cmd = "DISCARD" /\ e.k = req[r].k /\ e.pc = "delrow"
              \/ /\ e.cmd = "DISCARD" /\ e.k = req[r].k /\ e.pc = "back" /\ e.c = vol[req[r].k]
                 /\ vol[req[r].k] # "none" /\ vol' = [vol EXCEPT ![req[r].k] = "none"] /\ UNCHANGED struck
    BY <1>14, DiscardEffect
  <2>2. /\ req[r].k \in Copies /\ struck \subseteq struck' /\ \A i \in Copies : vol'[i] \in {vol[i], "none"}
    BY <1>14, DiscardEffect
  <2>3. req'[r] = e /\ \A q \in Reqs : q # r => req'[q] = req[q]
    BY <2>1 DEF IInv
  <2>4. At(r, Movers, "back")' => req'[r].c = "good" \/ req'[r].k \in struck'
    BY <2>1, <2>2, <2>3 DEF IInv, Idle
  <2>5. ~At(r, {"CLONE"}, "move")'
    BY <2>1, <2>3 DEF Idle
  <2>6. \A i \in Copies : vol'[i] = "rot" => i \in struck'
    BY <2>2 DEF IInv
  <2>. QED
    BY <2>2, <2>3, <2>4, <2>5, <2>6 DEF IInv
<1>15. ASSUME NEW r \in Reqs, DiscardRow(r) PROVE HandsOK'
  BY <1>15 DEF DiscardRow
<1>16. ASSUME NEW r \in Reqs, NEW k \in Copies, CloneTarget(r, k) PROVE HandsOK'
  <2>. HIDE DEF IInv, Record, Idle
  <2>1. PICK e \in Record : /\ req' = [req EXCEPT ![r] = e]
                            /\ \/ e = Idle
                               \/ e.cmd = "CLONE" /\ e.pc = "next"
                               \/ e.cmd = "CLONE" /\ e.pc = "fetch" /\ e.k = k /\ e.t \in Disks /\ e.v \in Versions
    BY <1>16, TargetEffect
  <2>2. UNCHANGED <<row, vol, known, struck, cut>>
    BY <1>16 DEF CloneTarget
  <2>. QED
    BY <2>1, <2>2 DEF IInv, Idle
<1>17. ASSUME NEW r \in Reqs, CloneFetch(r) PROVE HandsOK'
  BY <1>17, SMTT(30) DEF CloneFetch
<1>18. ASSUME NEW r \in Reqs, CloneMove(r) PROVE HandsOK'
  BY <1>18 DEF CloneMove
<1>19. ASSUME NEW r \in Reqs, CloneWrite(r) PROVE HandsOK'
  BY <1>19 DEF CloneWrite
<1>20. ASSUME NEW r \in Reqs, CloneDone(r) PROVE HandsOK'
  BY <1>20 DEF CloneDone
<1>21. ASSUME NEW r \in Reqs, CheckFileLook(r) PROVE HandsOK'
  BY <1>21 DEF CheckFileLook
<1>22. ASSUME NEW r \in Reqs, CheckFileMark(r) PROVE HandsOK'
  BY <1>22 DEF CheckFileMark
<1>23. ASSUME NEW r \in Reqs, RetrieveSend(r) PROVE HandsOK'
  BY <1>23 DEF RetrieveSend
<1>24. ASSUME NEW r \in Reqs, RetrieveDone(r) PROVE HandsOK'
  BY <1>24 DEF RetrieveDone
<1>25. ASSUME NEW k \in Copies, Rot(k) PROVE HandsOK'
  BY <1>25 DEF Rot
<1>26. ASSUME NEW k \in Copies, Vanish(k) PROVE HandsOK'
  BY <1>26 DEF Vanish
<1>27. CASE Crash
  BY <1>27 DEF Crash
<1>28. CASE UNCHANGED vars
  BY <1>28 DEF vars
<1>. QED
  BY Starts, <1>1, <1>2, <1>3, <1>4, <1>5, <1>6, <1>7, <1>8, <1>9, <1>10, <1>11, <1>12,
     <1>13, <1>14, <1>15, <1>16, <1>17, <1>18, <1>19, <1>20, <1>21, <1>22, <1>23, <1>24,
     <1>25, <1>26, <1>27, <1>28
     DEF Next, Step

\* Every step keeps Forgotten.
LEMMA ForgottenKept ==
    ASSUME IInv, [Next]_vars PROVE Forgotten'
<1>. USE HoldingsConfig DEF IInv, Event, At, Goto, End, deleteFileInfo, set_valid_checksum, Types, Record, Steps, Contents, WithCopy, Ready, Removals, Movers, Shape, Forgotten, Idle
<1>1. ASSUME NEW r \in Reqs, NEW e \in Record, Fresh(e), Start(r, e) PROVE Forgotten'
  BY <1>1 DEF Fresh, Start
<1>2. ASSUME NEW r \in Reqs, GlobFiles(r) PROVE Forgotten'
  BY <1>2 DEF GlobFiles
<1>3. ASSUME NEW r \in Reqs, checkFileCopiesAndReg(r) PROVE Forgotten'
  BY <1>3 DEF checkFileCopiesAndReg
<1>4. ASSUME NEW r \in Reqs, CheckSpurious(r) PROVE Forgotten'
  <2>. HIDE DEF IInv, Record, Idle
  <2>1. PICK e \in Record : /\ req' = [req EXCEPT ![r] = e]
                            /\ \/ e = Idle
                               \/ /\ e.cmd = req[r].cmd /\ e.pc = "removable"
                                  /\ e.d = req[r].d /\ e.ls = req[r].ls
    BY <1>4, SpuriousEffect
  <2>. QED
    BY <1>4, <2>1 DEF IInv, Idle, CheckSpurious
<1>5. ASSUME NEW r \in Reqs, NEW k \in Copies, FileRemovable(r, k) PROVE Forgotten'
  BY <1>5 DEF FileRemovable
<1>6. ASSUME NEW r \in Reqs, MoveBack(r) PROVE Forgotten'
  BY <1>6 DEF MoveBack
<1>7. ASSUME NEW r \in Reqs, Execute(r) PROVE Forgotten'
  BY <1>7, SMTT(30) DEF Execute
<1>8. ASSUME NEW r \in Reqs, NEW k \in Copies, RemFileRow(r, k) PROVE Forgotten'
  BY <1>8 DEF RemFileRow
<1>9. ASSUME NEW r \in Reqs, RemFileUnlink(r) PROVE Forgotten'
  BY <1>9 DEF RemFileUnlink
<1>10. ASSUME NEW r \in Reqs, RemFileDone(r) PROVE Forgotten'
  BY <1>10 DEF RemFileDone
<1>11. ASSUME NEW r \in Reqs, RemDiskInfo(r) PROVE Forgotten'
  BY <1>11 DEF RemDiskInfo
<1>12. ASSUME NEW r \in Reqs, RemDiskRows(r) PROVE Forgotten'
  BY <1>12 DEF RemDiskRows
<1>13. ASSUME NEW r \in Reqs, RemDiskFiles(r) PROVE Forgotten'
  BY <1>13 DEF RemDiskFiles
<1>14. ASSUME NEW r \in Reqs, DiscardTry(r) \/ DiscardFile(r) PROVE Forgotten'
  <2>. HIDE DEF IInv, Record, Idle
  <2>1. PICK e \in Record :
           /\ req' = [req EXCEPT ![r] = e]
           /\ \/ e = Idle
              \/ e.cmd = "DISCARD" /\ e.k = req[r].k /\ e.pc = "delrow"
              \/ /\ e.cmd = "DISCARD" /\ e.k = req[r].k /\ e.pc = "back" /\ e.c = vol[req[r].k]
                 /\ vol[req[r].k] # "none" /\ vol' = [vol EXCEPT ![req[r].k] = "none"] /\ UNCHANGED struck
    BY <1>14, DiscardEffect
  <2>2. UNCHANGED known
    BY <1>14, DiscardEffect
  <2>. QED
    BY <2>1, <2>2 DEF IInv, Idle
<1>15. ASSUME NEW r \in Reqs, DiscardRow(r) PROVE Forgotten'
  BY <1>15 DEF DiscardRow
<1>16. ASSUME NEW r \in Reqs, NEW k \in Copies, CloneTarget(r, k) PROVE Forgotten'
  <2>. HIDE DEF IInv, Record, Idle
  <2>1. PICK e \in Record : /\ req' = [req EXCEPT ![r] = e]
                            /\ \/ e = Idle
                               \/ e.cmd = "CLONE" /\ e.pc = "next"
                               \/ e.cmd = "CLONE" /\ e.pc = "fetch" /\ e.k = k /\ e.t \in Disks /\ e.v \in Versions
    BY <1>16, TargetEffect
  <2>2. UNCHANGED <<row, vol, known, struck, cut>>
    BY <1>16 DEF CloneTarget
  <2>. QED
    BY <2>1, <2>2 DEF IInv, Idle
<1>17. ASSUME NEW r \in Reqs, CloneFetch(r) PROVE Forgotten'
  BY <1>17 DEF CloneFetch
<1>18. ASSUME NEW r \in Reqs, CloneMove(r) PROVE Forgotten'
  BY <1>18 DEF CloneMove
<1>19. ASSUME NEW r \in Reqs, CloneWrite(r) PROVE Forgotten'
  BY <1>19 DEF CloneWrite
<1>20. ASSUME NEW r \in Reqs, CloneDone(r) PROVE Forgotten'
  BY <1>20 DEF CloneDone
<1>21. ASSUME NEW r \in Reqs, CheckFileLook(r) PROVE Forgotten'
  <2>1. UNCHANGED known /\ \A q \in Reqs : q # r => req'[q] = req[q]
    BY <1>21 DEF CheckFileLook
  <2>2. req'[r].cmd # "REMDISK"
    BY <1>21 DEF CheckFileLook
  <2>. QED
    BY <2>1, <2>2
<1>22. ASSUME NEW r \in Reqs, CheckFileMark(r) PROVE Forgotten'
  BY <1>22 DEF CheckFileMark
<1>23. ASSUME NEW r \in Reqs, RetrieveSend(r) PROVE Forgotten'
  BY <1>23 DEF RetrieveSend
<1>24. ASSUME NEW r \in Reqs, RetrieveDone(r) PROVE Forgotten'
  BY <1>24 DEF RetrieveDone
<1>25. ASSUME NEW k \in Copies, Rot(k) PROVE Forgotten'
  BY <1>25 DEF Rot
<1>26. ASSUME NEW k \in Copies, Vanish(k) PROVE Forgotten'
  BY <1>26 DEF Vanish
<1>27. CASE Crash
  BY <1>27 DEF Crash
<1>28. CASE UNCHANGED vars
  BY <1>28 DEF vars
<1>. QED
  BY Starts, <1>1, <1>2, <1>3, <1>4, <1>5, <1>6, <1>7, <1>8, <1>9, <1>10, <1>11, <1>12,
     <1>13, <1>14, <1>15, <1>16, <1>17, <1>18, <1>19, <1>20, <1>21, <1>22, <1>23, <1>24,
     <1>25, <1>26, <1>27, <1>28
     DEF Next, Step

\* Every step keeps CopyOK of a copy that it does not strike.
LEMMA CopyKept ==
    ASSUME IInv, [Next]_vars,
           NEW j \in Copies \ struck', j[1] \in known' PROVE CopyOK(j)'
<1>. USE HoldingsConfig DEF IInv, Event, At, Goto, End, deleteFileInfo, set_valid_checksum, Types, Record, Steps, Contents, WithCopy, Ready, Removals, Movers, Shape, HandsOK, Forgotten, CopiesOK, CopyOK, RowOK, CloneOK, MarkOK, Moved, Discarding, Cloning, Marking, Away, BeingCloned, Local, Idle
<1>1. ASSUME NEW r \in Reqs, NEW e \in Record, Fresh(e), Start(r, e) PROVE CopyOK(j)'
  BY <1>1 DEF Fresh, Start
<1>2. ASSUME NEW r \in Reqs, GlobFiles(r) PROVE CopyOK(j)'
  <2>1. Alone(r) /\ ~Pending(r) /\ ~Pending(r)' /\ UNCHANGED <<row, vol, struck>> /\ known' \subseteq known
    BY <1>2 DEF Alone, Pending, GlobFiles
  <2>. HIDE DEF IInv, CopyOK, NoOrphans, At
  <2>. QED
    BY <2>1, QuietStep
<1>3. ASSUME NEW r \in Reqs, checkFileCopiesAndReg(r) PROVE CopyOK(j)'
  <2>1. Alone(r) /\ ~Pending(r) /\ ~Pending(r)' /\ UNCHANGED <<row, vol, struck>> /\ known' \subseteq known
    BY <1>3 DEF Alone, Pending, checkFileCopiesAndReg
  <2>. HIDE DEF IInv, CopyOK, NoOrphans, At
  <2>. QED
    BY <2>1, QuietStep
<1>4. ASSUME NEW r \in Reqs, CheckSpurious(r) PROVE CopyOK(j)'
  <2>. HIDE DEF IInv, Record, Idle
  <2>1. PICK e \in Record : /\ req' = [req EXCEPT ![r] = e]
                            /\ \/ e = Idle
                               \/ /\ e.cmd = req[r].cmd /\ e.pc = "removable"
                                  /\ e.d = req[r].d /\ e.ls = req[r].ls
    BY <1>4, SpuriousEffect
  <2>2. UNCHANGED <<row, vol, known, struck>> /\ At(r, Removals, "spurious")
    BY <1>4 DEF CheckSpurious
  <2>. QED
    BY <1>4, <2>1, <2>2 DEF IInv, Idle, At
<1>5. ASSUME NEW r \in Reqs, NEW k \in Copies, FileRemovable(r, k) PROVE CopyOK(j)'
  <2>1. Alone(r) /\ ~Pending(r) /\ UNCHANGED <<row, known, struck>>
    BY <1>5 DEF FileRemovable, Alone, Pending
  <2>2. CASE vol' = vol
    <3>1. ~Pending(r)'
      BY <1>5, <2>2 DEF FileRemovable, Pending
    <3>. HIDE DEF IInv, CopyOK, NoOrphans, At
    <3>. QED
      BY <2>1, <2>2, <3>1, QuietStep
  <2>3. CASE vol' # vol
    <3>1. Moved(r, k)' /\ vol[k] # "none" /\ vol' = [vol EXCEPT ![k] = "none"]
      BY <1>5, <2>3 DEF FileRemovable
    <3>2. CopyOK(j)
      BY <2>1
    <3>3. \A q \in Reqs : /\ Discarding(q, j)' <=> Discarding(q, j)
                          /\ Cloning(q, j)' <=> Cloning(q, j)
                          /\ Marking(q, j)' <=> Marking(q, j)
                          /\ Moved(q, j)' <=> Moved(q, j) \/ (q = r /\ j = k)
      BY <2>1, <3>1 DEF Alone, Pending
    <3>4. /\ Away(j)' <=> Away(j) \/ j = k
          /\ BeingCloned(j)' <=> BeingCloned(j)
      BY <3>3
    <3>. HIDE DEF IInv, Moved, Discarding, Cloning, Marking, Away, BeingCloned
    <3>. QED
      BY <2>1, <3>1, <3>2, <3>3, <3>4
  <2>. QED
    BY <2>2, <2>3
<1>6. ASSUME NEW r \in Reqs, MoveBack(r) PROVE CopyOK(j)'
  <2>1. /\ Alone(r) /\ At(r, Movers, "back") /\ ~Pending(r)' /\ UNCHANGED <<row, known>>
        /\ vol' = [vol EXCEPT ![req[r].k] = req[r].c] /\ struck \subseteq struck'
        /\ row[req[r].k] = "none" => req[r].k \in struck'
    BY <1>6 DEF MoveBack, Alone, Pending
  <2>2. CopyOK(j)
    BY <2>1
  <2>3. \A q \in Reqs : /\ Moved(q, j)' <=> Moved(q, j) /\ q # r
                        /\ Discarding(q, j)' <=> Discarding(q, j)
                        /\ Cloning(q, j)' <=> Cloning(q, j)
                        /\ Marking(q, j)' <=> Marking(q, j)
    BY <2>1 DEF Alone, Pending
  <2>4. CASE req[r].k # j
    <3>1. vol'[j] = vol[j] /\ ~Moved(r, j)
      BY <2>1, <2>4
    <3>. HIDE DEF IInv, Moved, Discarding, Cloning, Marking
    <3>2. (Away(j)' <=> Away(j)) /\ (BeingCloned(j)' <=> BeingCloned(j))
      BY <2>3, <3>1 DEF Moved, Discarding, Cloning
    <3>. HIDE DEF Away, BeingCloned
    <3>. QED
      BY <2>1, <2>2, <2>3, <3>1, <3>2
  <2>5. CASE req[r].k = j
    <3>1. vol'[j] = "good" /\ Moved(r, j)
      BY <2>1, <2>5
    <3>. HIDE DEF IInv, Moved, Discarding, Cloning, Marking, Away, BeingCloned
    <3>. QED
      BY <2>1, <2>2, <2>3, <3>1
  <2>. QED
    BY <2>4, <2>5
<1>7. ASSUME NEW r \in Reqs, Execute(r) PROVE CopyOK(j)'
  <2>1. Alone(r) /\ ~Pending(r) /\ ~Pending(r)' /\ UNCHANGED <<row, vol, struck>> /\ known' \subseteq known
    BY <1>7 DEF Alone, Pending, Execute
  <2>. HIDE DEF IInv, CopyOK, NoOrphans, At
  <2>. QED
    BY <2>1, QuietStep
<1>8. ASSUME NEW r \in Reqs, NEW k \in Copies, RemFileRow(r, k) PROVE CopyOK(j)'
  <2>1. /\ Alone(r) /\ At(r, {"REMFILE"}, "delrow") /\ At(r, {"REMFILE"}, "unlink")'
        /\ UNCHANGED <<vol, known>> /\ struck \subseteq struck' /\ row'[j] \in {row[j], "none"}
    BY <1>8 DEF RemFileRow, Alone
  <2>2. CopyOK(j)
    BY <2>1
  <2>3. \A q \in Reqs : /\ Moved(q, j)' <=> Moved(q, j)
                        /\ Discarding(q, j)' <=> Discarding(q, j)
                        /\ Cloning(q, j)' <=> Cloning(q, j)
                        /\ Marking(q, j)' <=> Marking(q, j)
    BY <2>1 DEF Alone, Pending
  <2>4. (Away(j)' <=> Away(j)) /\ (BeingCloned(j)' <=> BeingCloned(j))
    BY <2>3
  <2>. HIDE DEF IInv, Moved, Discarding, Cloning, Marking, Away, BeingCloned
  <2>. QED
    BY <2>1, <2>2, <2>3, <2>4
<1>9. ASSUME NEW r \in Reqs, RemFileUnlink(r) PROVE CopyOK(j)'
  <2>1. /\ Alone(r) /\ At(r, {"REMFILE"}, "unlink") /\ ~Pending(r)' /\ UNCHANGED <<row, known>>
        /\ vol' = [vol EXCEPT ![req[r].k] = "none"] /\ struck \subseteq struck'
        /\ row[req[r].k] # "none" \/ BeingCloned(req[r].k) => req[r].k \in struck'
    BY <1>9 DEF RemFileUnlink, Alone, Pending
  <2>2. CopyOK(j)
    BY <2>1
  <2>3. \A q \in Reqs : /\ Moved(q, j)' <=> Moved(q, j)
                        /\ Discarding(q, j)' <=> Discarding(q, j)
                        /\ Cloning(q, j)' <=> Cloning(q, j)
                        /\ Marking(q, j)' <=> Marking(q, j)
    BY <2>1 DEF Alone, Pending
  <2>4. (Away(j)' <=> Away(j)) /\ (BeingCloned(j)' <=> BeingCloned(j))
    BY <2>3
  <2>. HIDE DEF IInv, Moved, Discarding, Cloning, Marking, Away, BeingCloned, At
  <2>5. CASE req[r].k # j
    BY <2>1, <2>2, <2>3, <2>4, <2>5
  <2>6. CASE req[r].k = j
    <3>1. row[j] = "none" /\ ~BeingCloned(j) /\ vol'[j] = "none"
      BY <2>1, <2>6 DEF IInv
    <3>. QED
      BY <2>1, <2>2, <2>3, <2>4, <3>1
  <2>. QED
    BY <2>5, <2>6
<1>10. ASSUME NEW r \in Reqs, RemFileDone(r) PROVE CopyOK(j)'
  BY <1>10 DEF RemFileDone
<1>11. ASSUME NEW r \in Reqs, RemDiskInfo(r) PROVE CopyOK(j)'
  BY <1>11 DEF RemDiskInfo
<1>12. ASSUME NEW r \in Reqs, RemDiskRows(r) PROVE CopyOK(j)'
  BY <1>12 DEF RemDiskRows
<1>13. ASSUME NEW r \in Reqs, RemDiskFiles(r) PROVE CopyOK(j)'
  BY <1>13 DEF RemDiskFiles
<1>14. ASSUME NEW r \in Reqs, DiscardTry(r) \/ DiscardFile(r) PROVE CopyOK(j)'
  <2>. HIDE DEF IInv, Record, Idle
  <2>1. PICK e \in Record :
           /\ req' = [req EXCEPT ![r] = e]
           /\ \/ e = Idle
              \/ e.cmd = "DISCARD" /\ e.k = req[r].k /\ e.pc = "delrow"
              \/ /\ e.cmd = "DISCARD" /\ e.k = req[r].k /\ e.pc = "back" /\ e.c = vol[req[r].k]
                 /\ vol[req[r].k] # "none" /\ vol' = [vol EXCEPT ![req[r].k] = "none"] /\ UNCHANGED struck
    BY <1>14, DiscardEffect
  <2>2. /\ req[r].cmd = "DISCARD" /\ req[r].pc \in {"try", "unlink"} /\ req[r].k \in Copies
        /\ UNCHANGED <<row, known>> /\ struck \subseteq struck'
    BY <1>14, DiscardEffect
  <2>3. req'[r] = e /\ Alone(r) /\ ~Pending(r)
    BY <2>1, <2>2 DEF IInv, Alone, Pending
  <2>4. CopyOK(j)
    BY <2>2 DEF IInv
  <2>5. \A q \in Reqs : /\ Discarding(q, j)' <=> Discarding(q, j) \/ (q = r /\ e.pc = "delrow" /\ j = req[r].k)
                        /\ Cloning(q, j)' <=> Cloning(q, j)
                        /\ Marking(q, j)' <=> Marking(q, j)
                        /\ Moved(q, j)' <=> Moved(q, j) \/ (q = r /\ e.pc = "back" /\ j = req[r].k)
    BY <2>1, <2>2, <2>3 DEF Alone, Pending, Idle
  <2>6. Away(j) => Away(j)'
    BY <2>5
  <2>7. BeingCloned(j)' <=> BeingCloned(j)
    BY <2>5
  <2>8. CASE e.pc = "back"
    <3>1. /\ vol[req[r].k] # "none" /\ vol' = [vol EXCEPT ![req[r].k] = "none"]
      BY <2>1, <2>8 DEF Idle
    <3>2. Away(j)' \/ j # req[r].k
      BY <2>1, <2>3, <2>8 DEF Idle
    <3>3. vol \in [Copies -> Contents]
      BY DEF IInv
    <3>. HIDE DEF Moved, Discarding, Cloning, Marking, Away, BeingCloned, At
    <3>. QED
      BY <2>2, <2>4, <2>5, <2>6, <2>7, <2>8, <3>1, <3>2, <3>3
  <2>9. CASE e.pc # "back"
    <3>1. \/ vol'[j] = vol[j]
          \/ vol'[j] = "none" /\ ~BeingCloned(j) /\ (row[j] = "none" \/ (e.pc = "delrow" /\ j = req[r].k))
      <4>1. ~(At(r, {"DISCARD"}, "back"))' 
        BY <2>3, <2>9
      <4>2. CASE DiscardTry(r)
        <5>1. req[r].pc = "try" /\ (vol' = vol \/ req' = [req EXCEPT ![r].pc = "back", ![r].c = vol[req[r].k]])
          BY <4>2 DEF DiscardTry
        <5>2. req' # [req EXCEPT ![r].pc = "back", ![r].c = vol[req[r].k]]
          BY <2>3, <2>9 DEF IInv, Record
        <5>. QED
          BY <5>1, <5>2
      <4>3. CASE DiscardFile(r)
        <5>1. CASE vol' = vol
          BY <5>1
        <5>2. CASE vol' # vol
          <6>1. /\ req[r].x /\ vol' = [vol EXCEPT ![req[r].k] = "none"]
                /\ struck' = IF BeingCloned(req[r].k) \/ (req[r].d = None /\ row[req[r].k] # "none")
                             THEN struck \cup {req[r].k} ELSE struck
            BY <4>3, <5>2 DEF DiscardFile
          <6>2. req[r].d # None => e.pc = "delrow"
            <7>1. req[r].d # None => req' = [req EXCEPT ![r].pc = "delrow"]
              BY <4>3, <6>1 DEF DiscardFile, Deleted
            <7>. QED
              BY <2>3, <7>1 DEF IInv, Record
          <6>. HIDE DEF BeingCloned
          <6>3. CASE j = req[r].k
            BY <2>2, <6>1, <6>2, <6>3 DEF IInv
          <6>4. CASE j # req[r].k
            BY <2>2, <6>1, <6>4 DEF IInv
          <6>. QED
            BY <6>3, <6>4
        <5>. QED
          BY <5>1, <5>2
      <4>. QED
        BY <1>14, <4>2, <4>3
    <3>2. e.pc = "delrow" /\ j = req[r].k => Discarding(r, j)' /\ Away(j)'
      BY <2>1, <2>3 DEF Idle
    <3>. HIDE DEF Moved, Discarding, Cloning, Marking, Away, BeingCloned, At
    <3>. QED
      BY <2>2, <2>4, <2>5, <2>6, <2>7, <2>9, <3>1, <3>2
  <2>. QED
    BY <2>8, <2>9
<1>15. ASSUME NEW r \in Reqs, DiscardRow(r) PROVE CopyOK(j)'
  BY <1>15 DEF DiscardRow
<1>16. ASSUME NEW r \in Reqs, NEW k \in Copies, CloneTarget(r, k) PROVE CopyOK(j)'
  <2>. HIDE DEF IInv, Record, Idle
  <2>1. PICK e \in Record : /\ req' = [req EXCEPT ![r] = e]
                            /\ \/ e = Idle
                               \/ e.cmd = "CLONE" /\ e.pc = "next"
                               \/ e.cmd = "CLONE" /\ e.pc = "fetch" /\ e.k = k /\ e.t \in Disks /\ e.v \in Versions
    BY <1>16, TargetEffect
  <2>2. UNCHANGED <<row, vol, known, struck, cut>>
    BY <1>16 DEF CloneTarget
  <2>. QED
    <3>1. Alone(r) /\ ~Pending(r) /\ ~Pending(r)'
      <4>1. req[r].pc = "next"
        BY <1>16 DEF CloneTarget
      <4>2. req'[r] = e /\ e.pc \in {"idle", "next", "fetch"} /\ Alone(r)
        BY <2>1 DEF IInv, Idle, Alone
      <4>. QED
        BY <4>1, <4>2 DEF Pending
    <3>. HIDE DEF CopyOK, NoOrphans, At
    <3>. QED
      BY <2>2, <3>1, QuietStep
<1>17. ASSUME NEW r \in Reqs, CloneFetch(r) PROVE CopyOK(j)'
  <2>1. Alone(r) /\ ~Pending(r) /\ ~Pending(r)' /\ UNCHANGED <<row, vol, struck>> /\ known' \subseteq known
    BY <1>17 DEF Alone, Pending, CloneFetch
  <2>. HIDE DEF IInv, CopyOK, NoOrphans, At
  <2>. QED
    BY <2>1, QuietStep
<1>18. ASSUME NEW r \in Reqs, CloneMove(r) PROVE CopyOK(j)'
  BY <1>18 DEF CloneMove
<1>19. ASSUME NEW r \in Reqs, CloneWrite(r) PROVE CopyOK(j)'
  <2>1. /\ Alone(r) /\ At(r, {"CLONE"}, "write") /\ ~Pending(r)' /\ UNCHANGED <<vol, known, struck>>
        /\ row' = [row EXCEPT ![<<req[r].t, req[r].v>>] = "ok"]
    BY <1>19 DEF CloneWrite, Alone, Pending
  <2>2. CopyOK(j)
    BY <2>1
  <2>3. \A q \in Reqs : /\ Moved(q, j)' <=> Moved(q, j)
                        /\ Discarding(q, j)' <=> Discarding(q, j)
                        /\ Cloning(q, j)' <=> Cloning(q, j) /\ q # r
                        /\ Marking(q, j)' <=> Marking(q, j)
    BY <2>1 DEF Alone, Pending
  <2>4. (Away(j)' <=> Away(j)) /\ (BeingCloned(j)' => BeingCloned(j))
    BY <2>3
  <2>5. BeingCloned(j) \/ row'[j] = row[j]
    BY <2>1
  <2>6. row'[j] \in {row[j], "ok"}
    BY <2>1
  <2>. HIDE DEF IInv, Moved, Discarding, Cloning, Marking, BeingCloned
  <2>7. CASE ~BeingCloned(j)
    <3>. HIDE DEF Away
    <3>. QED
      BY <2>1, <2>2, <2>3, <2>4, <2>5, <2>7
  <2>8. CASE BeingCloned(j)
    <3>1. vol[j] = "good" \/ Away(j)
      BY <2>2, <2>8 DEF Moved
    <3>2. \A q \in Reqs : ~Marking(q, j)
      BY <2>2, <2>8
    <3>. HIDE DEF Away
    <3>. QED
      BY <2>1, <2>2, <2>3, <2>4, <2>6, <2>8, <3>1, <3>2
  <2>. QED
    BY <2>7, <2>8
<1>20. ASSUME NEW r \in Reqs, CloneDone(r) PROVE CopyOK(j)'
  BY <1>20 DEF CloneDone
<1>21. ASSUME NEW r \in Reqs, CheckFileLook(r) PROVE CopyOK(j)'
  <2>1. /\ Alone(r) /\ At(r, {"CHECKFILE"}, "look") /\ ~Pending(r) /\ UNCHANGED <<row, vol, known>>
        /\ struck \subseteq struck' /\ req[r].k \in Copies
        /\ \A q \in Reqs : Moved(q, req[r].k) => req[r].k \in struck'
        /\ \/ ~Pending(r)'
           \/ At(r, {"CHECKFILE"}, "mark")' /\ req'[r].k = req[r].k /\ vol[req[r].k] # "good"
    BY <1>21 DEF CheckFileLook, Alone, Pending
  <2>2. CopyOK(j)
    BY <2>1
  <2>3. \A q \in Reqs : /\ Moved(q, j)' <=> Moved(q, j)
                        /\ Discarding(q, j)' <=> Discarding(q, j)
                        /\ Cloning(q, j)' <=> Cloning(q, j)
                        /\ Marking(q, j)' => Marking(q, j) \/ (q = r /\ req[r].k = j /\ vol[j] # "good")
    BY <2>1 DEF Alone, Pending
  <2>4. (Away(j)' <=> Away(j)) /\ (BeingCloned(j)' <=> BeingCloned(j))
    BY <2>3
  <2>5. vol[j] # "rot"
    BY <2>1
  <2>6. vol[j] \in Contents /\ row[j] \in {"none", "ok", "bad"}
    OBVIOUS
  <2>7. req[r].k = j => \A q \in Reqs : ~Moved(q, j)
    BY <2>1
  <2>. HIDE DEF IInv
  <2>8. Away(j) <=> \E q \in Reqs : Moved(q, j) \/ Discarding(q, j)
    BY DEF Away, Moved, Discarding
  <2>. HIDE DEF Moved, Discarding, Cloning, Marking, BeingCloned, Away
  <2>. QED
    BY <2>1, <2>2, <2>3, <2>4, <2>5, <2>6, <2>7, <2>8
<1>22. ASSUME NEW r \in Reqs, CheckFileMark(r) PROVE CopyOK(j)'
  BY <1>22 DEF CheckFileMark
<1>23. ASSUME NEW r \in Reqs, RetrieveSend(r) PROVE CopyOK(j)'
  <2>1. Alone(r) /\ ~Pending(r) /\ ~Pending(r)' /\ UNCHANGED <<row, vol, struck>> /\ known' \subseteq known
    BY <1>23 DEF Alone, Pending, RetrieveSend
  <2>. HIDE DEF IInv, CopyOK, NoOrphans, At
  <2>. QED
    BY <2>1, QuietStep
<1>24. ASSUME NEW r \in Reqs, RetrieveDone(r) PROVE CopyOK(j)'
  BY <1>24 DEF RetrieveDone
<1>25. ASSUME NEW k \in Copies, Rot(k) PROVE CopyOK(j)'
  BY <1>25 DEF Rot
<1>26. ASSUME NEW k \in Copies, Vanish(k) PROVE CopyOK(j)'
  BY <1>26 DEF Vanish
<1>27. CASE Crash
  <2>1. /\ \A q \in Reqs : req'[q].pc = "idle"
        /\ UNCHANGED <<row, vol, known>> /\ struck \subseteq struck'
        /\ \A q \in Reqs : j \notin HalfDone(q)
    BY <1>27 DEF Crash
  <2>2. CopyOK(j)
    BY <2>1
  <2>3. \A q \in Reqs : ~Moved(q, j) /\ ~Discarding(q, j) /\ ~Cloning(q, j)
    BY <2>1 DEF HalfDone
  <2>4. \A q \in Reqs : ~Moved(q, j)' /\ ~Discarding(q, j)' /\ ~Cloning(q, j)' /\ ~Marking(q, j)'
    BY <2>1
  <2>5. ~Away(j) /\ ~BeingCloned(j)'
    BY <2>3, <2>4
  <2>. HIDE DEF IInv, Moved, Discarding, Cloning, Marking, BeingCloned, Away
  <2>. QED
    BY <2>1, <2>2, <2>3, <2>4, <2>5
<1>28. CASE UNCHANGED vars
  BY <1>28 DEF vars
<1>. QED
  BY Starts, <1>1, <1>2, <1>3, <1>4, <1>5, <1>6, <1>7, <1>8, <1>9, <1>10, <1>11, <1>12,
     <1>13, <1>14, <1>15, <1>16, <1>17, <1>18, <1>19, <1>20, <1>21, <1>22, <1>23, <1>24,
     <1>25, <1>26, <1>27, <1>28, SMTT(30)
     DEF Next, Step

\* Every step keeps NoOrphans.
LEMMA OrphansKept ==
    ASSUME IInv, [Next]_vars PROVE NoOrphans'
<1>. USE HoldingsConfig DEF IInv, Event, At, Goto, End, deleteFileInfo, set_valid_checksum, Types, Record, Steps, Contents, WithCopy, Ready, Removals, Movers, Shape, Forgotten, NoOrphans, BeingCloned, Local, Idle
<1>1. ASSUME NEW r \in Reqs, NEW e \in Record, Fresh(e), Start(r, e) PROVE NoOrphans'
  BY <1>1 DEF Fresh, Start
<1>2. ASSUME NEW r \in Reqs, GlobFiles(r) PROVE NoOrphans'
  <2>1. Alone(r) /\ ~Pending(r) /\ ~Pending(r)' /\ UNCHANGED <<row, vol, struck>> /\ known' \subseteq known
    BY <1>2 DEF Alone, Pending, GlobFiles
  <2>. HIDE DEF IInv, CopyOK, NoOrphans, At
  <2>. QED
    BY <2>1, QuietStep
<1>3. ASSUME NEW r \in Reqs, checkFileCopiesAndReg(r) PROVE NoOrphans'
  <2>1. Alone(r) /\ ~Pending(r) /\ ~Pending(r)' /\ UNCHANGED <<row, vol, struck>> /\ known' \subseteq known
    BY <1>3 DEF Alone, Pending, checkFileCopiesAndReg
  <2>. HIDE DEF IInv, CopyOK, NoOrphans, At
  <2>. QED
    BY <2>1, QuietStep
<1>4. ASSUME NEW r \in Reqs, CheckSpurious(r) PROVE NoOrphans'
  <2>. HIDE DEF IInv, Record, Idle
  <2>1. PICK e \in Record : /\ req' = [req EXCEPT ![r] = e]
                            /\ \/ e = Idle
                               \/ /\ e.cmd = req[r].cmd /\ e.pc = "removable"
                                  /\ e.d = req[r].d /\ e.ls = req[r].ls
    BY <1>4, SpuriousEffect
  <2>2. UNCHANGED <<row, vol, known, struck>> /\ At(r, Removals, "spurious")
    BY <1>4 DEF CheckSpurious
  <2>. QED
    BY <1>4, <2>1, <2>2 DEF IInv, Idle, At
<1>5. ASSUME NEW r \in Reqs, NEW k \in Copies, FileRemovable(r, k) PROVE NoOrphans'
  <2>. SUFFICES ASSUME NEW j \in Copies \ struck', j[1] \in known' \cap LocalDisks, vol'[j] # "none",
                       row'[j] = "none"
                PROVE  (\E q \in Reqs : Cloning(q, j)') \/ \E q \in Reqs : Unlinking(q, j)'
    BY DEF Cloning, Unlinking
  <2>1. /\ Alone(r) /\ ~Pending(r) /\ UNCHANGED <<row, known, struck>> /\ \A i \in Copies : vol'[i] \in {vol[i], "none"}
    BY <1>5 DEF FileRemovable, Alone, Pending
  <2>2. row[j] = "none" /\ j \notin struck /\ j[1] \in known \cap LocalDisks /\ vol[j] # "none"
    BY <2>1
  <2>3. (\E q \in Reqs : Cloning(q, j)) \/ \E q \in Reqs : Unlinking(q, j)
    BY <2>2 DEF Cloning, Unlinking
  <2>4. \A q \in Reqs : (Cloning(q, j) => Cloning(q, j)') /\ (Unlinking(q, j) => Unlinking(q, j)')
    BY <2>1 DEF Alone, Pending, Cloning, Unlinking
  <2>. QED
    BY <2>3, <2>4
<1>6. ASSUME NEW r \in Reqs, MoveBack(r) PROVE NoOrphans'
  BY <1>6 DEF MoveBack
<1>7. ASSUME NEW r \in Reqs, Execute(r) PROVE NoOrphans'
  <2>1. Alone(r) /\ ~Pending(r) /\ ~Pending(r)' /\ UNCHANGED <<row, vol, struck>> /\ known' \subseteq known
    BY <1>7 DEF Alone, Pending, Execute
  <2>. HIDE DEF IInv, CopyOK, NoOrphans, At
  <2>. QED
    BY <2>1, QuietStep
<1>8. ASSUME NEW r \in Reqs, NEW k \in Copies, RemFileRow(r, k) PROVE NoOrphans'
  <2>. SUFFICES ASSUME NEW j \in Copies \ struck', j[1] \in known' \cap LocalDisks, vol'[j] # "none",
                       row'[j] = "none"
                PROVE  (\E q \in Reqs : Cloning(q, j)') \/ \E q \in Reqs : Unlinking(q, j)'
    BY DEF Cloning, Unlinking
  <2>1. /\ Alone(r) /\ At(r, {"REMFILE"}, "delrow") /\ At(r, {"REMFILE"}, "unlink")' /\ req'[r].k = k
        /\ UNCHANGED <<vol, known>> /\ struck \subseteq struck' /\ \A i \in Copies : i # k => row'[i] = row[i]
    BY <1>8 DEF RemFileRow, Alone
  <2>2. CASE j = k
    BY <2>1, <2>2 DEF Unlinking
  <2>3. CASE j # k
    <3>1. row[j] = "none" /\ j \notin struck /\ j[1] \in known \cap LocalDisks /\ vol[j] # "none"
      BY <2>1, <2>3
    <3>2. (\E q \in Reqs : Cloning(q, j)) \/ \E q \in Reqs : Unlinking(q, j)
      BY <3>1 DEF Cloning, Unlinking
    <3>3. \A q \in Reqs : (Cloning(q, j) => Cloning(q, j)') /\ (Unlinking(q, j) => Unlinking(q, j)')
      BY <2>1 DEF Alone, Cloning, Unlinking
    <3>. QED
      BY <3>2, <3>3
  <2>. QED
    BY <2>2, <2>3
<1>9. ASSUME NEW r \in Reqs, RemFileUnlink(r) PROVE NoOrphans'
  <2>. SUFFICES ASSUME NEW j \in Copies \ struck', j[1] \in known' \cap LocalDisks, vol'[j] # "none",
                       row'[j] = "none"
                PROVE  (\E q \in Reqs : Cloning(q, j)') \/ \E q \in Reqs : Unlinking(q, j)'
    BY DEF Cloning, Unlinking
  <2>1. /\ Alone(r) /\ At(r, {"REMFILE"}, "unlink") /\ UNCHANGED <<row, known>> /\ struck \subseteq struck'
        /\ vol' = [vol EXCEPT ![req[r].k] = "none"]
    BY <1>9 DEF RemFileUnlink, Alone
  <2>2. row[j] = "none" /\ j \notin struck /\ j[1] \in known \cap LocalDisks /\ vol[j] # "none" /\ req[r].k # j
    BY <2>1
  <2>3. (\E q \in Reqs : Cloning(q, j)) \/ \E q \in Reqs : Unlinking(q, j)
    BY <2>2 DEF Cloning, Unlinking
  <2>4. \A q \in Reqs : (Cloning(q, j) => Cloning(q, j)') /\ (Unlinking(q, j) => Unlinking(q, j)')
    BY <2>1, <2>2 DEF Alone, Cloning, Unlinking
  <2>. QED
    BY <2>3, <2>4
<1>10. ASSUME NEW r \in Reqs, RemFileDone(r) PROVE NoOrphans'
  BY <1>10 DEF RemFileDone
<1>11. ASSUME NEW r \in Reqs, RemDiskInfo(r) PROVE NoOrphans'
  BY <1>11 DEF RemDiskInfo
<1>12. ASSUME NEW r \in Reqs, RemDiskRows(r) PROVE NoOrphans'
  BY <1>12 DEF RemDiskRows
<1>13. ASSUME NEW r \in Reqs, RemDiskFiles(r) PROVE NoOrphans'
  BY <1>13 DEF RemDiskFiles
<1>14. ASSUME NEW r \in Reqs, DiscardTry(r) \/ DiscardFile(r) PROVE NoOrphans'
  <2>. SUFFICES ASSUME NEW j \in Copies \ struck', j[1] \in known' \cap LocalDisks, vol'[j] # "none",
                       row'[j] = "none"
                PROVE  (\E q \in Reqs : Cloning(q, j)') \/ \E q \in Reqs : Unlinking(q, j)'
    BY DEF Cloning, Unlinking
  <2>. HIDE DEF Record, Idle, IInv
  <2>1. /\ req[r].cmd = "DISCARD" /\ UNCHANGED <<row, known>> /\ struck \subseteq struck'
        /\ \A i \in Copies : vol'[i] \in {vol[i], "none"}
        /\ \E e \in Record : req' = [req EXCEPT ![r] = e]
    BY <1>14, DiscardEffect
  <2>2. row[j] = "none" /\ j \notin struck /\ j[1] \in known \cap LocalDisks /\ vol[j] # "none"
    BY <2>1
  <2>3. (\E q \in Reqs : Cloning(q, j)) \/ \E q \in Reqs : Unlinking(q, j)
    BY <2>2 DEF Cloning, Unlinking, IInv
  <2>4. \A q \in Reqs : q # r => req'[q] = req[q]
    BY <2>1 DEF IInv
  <2>5. \A q \in Reqs : (Cloning(q, j) => Cloning(q, j)') /\ (Unlinking(q, j) => Unlinking(q, j)')
    BY <2>1, <2>4 DEF Cloning, Unlinking
  <2>. QED
    BY <2>3, <2>5
<1>15. ASSUME NEW r \in Reqs, DiscardRow(r) PROVE NoOrphans'
  BY <1>15 DEF DiscardRow
<1>16. ASSUME NEW r \in Reqs, NEW k \in Copies, CloneTarget(r, k) PROVE NoOrphans'
  <2>. HIDE DEF IInv, Record, Idle
  <2>1. PICK e \in Record : /\ req' = [req EXCEPT ![r] = e]
                            /\ \/ e = Idle
                               \/ e.cmd = "CLONE" /\ e.pc = "next"
                               \/ e.cmd = "CLONE" /\ e.pc = "fetch" /\ e.k = k /\ e.t \in Disks /\ e.v \in Versions
    BY <1>16, TargetEffect
  <2>2. UNCHANGED <<row, vol, known, struck, cut>>
    BY <1>16 DEF CloneTarget
  <2>. QED
    <3>1. Alone(r) /\ ~Pending(r) /\ ~Pending(r)'
      <4>1. req[r].pc = "next"
        BY <1>16 DEF CloneTarget
      <4>2. req'[r] = e /\ e.pc \in {"idle", "next", "fetch"} /\ Alone(r)
        BY <2>1 DEF IInv, Idle, Alone
      <4>. QED
        BY <4>1, <4>2 DEF Pending
    <3>. HIDE DEF CopyOK, NoOrphans, At
    <3>. QED
      BY <2>2, <3>1, QuietStep
<1>17. ASSUME NEW r \in Reqs, CloneFetch(r) PROVE NoOrphans'
  <2>1. Alone(r) /\ ~Pending(r) /\ ~Pending(r)' /\ UNCHANGED <<row, vol, struck>> /\ known' \subseteq known
    BY <1>17 DEF Alone, Pending, CloneFetch
  <2>. HIDE DEF IInv, CopyOK, NoOrphans, At
  <2>. QED
    BY <2>1, QuietStep
<1>18. ASSUME NEW r \in Reqs, CloneMove(r) PROVE NoOrphans'
  BY <1>18 DEF CloneMove
<1>19. ASSUME NEW r \in Reqs, CloneWrite(r) PROVE NoOrphans'
  <2>. SUFFICES ASSUME NEW j \in Copies \ struck', j[1] \in known' \cap LocalDisks, vol'[j] # "none",
                       row'[j] = "none"
                PROVE  (\E q \in Reqs : Cloning(q, j)') \/ \E q \in Reqs : Unlinking(q, j)'
    BY DEF Cloning, Unlinking
  <2>1. /\ Alone(r) /\ At(r, {"CLONE"}, "write") /\ UNCHANGED <<vol, known, struck>>
        /\ row' = [row EXCEPT ![<<req[r].t, req[r].v>>] = "ok"]
    BY <1>19 DEF CloneWrite, Alone
  <2>2. /\ row[j] = "none" /\ j \notin struck /\ j[1] \in known \cap LocalDisks /\ vol[j] # "none"
        /\ <<req[r].t, req[r].v>> # j
    BY <2>1
  <2>3. (\E q \in Reqs : Cloning(q, j)) \/ \E q \in Reqs : Unlinking(q, j)
    BY <2>2 DEF Cloning, Unlinking
  <2>4. \A q \in Reqs : (Cloning(q, j) => Cloning(q, j)') /\ (Unlinking(q, j) => Unlinking(q, j)')
    BY <2>1, <2>2 DEF Alone, Cloning, Unlinking
  <2>. QED
    BY <2>3, <2>4
<1>20. ASSUME NEW r \in Reqs, CloneDone(r) PROVE NoOrphans'
  BY <1>20 DEF CloneDone
<1>21. ASSUME NEW r \in Reqs, CheckFileLook(r) PROVE NoOrphans'
  <2>1. /\ req[r].cmd = "CHECKFILE" /\ UNCHANGED <<row, vol, known>> /\ struck \subseteq struck'
        /\ \A q \in Reqs : q # r => req'[q] = req[q]
    BY <1>21 DEF CheckFileLook
  <2>2. \A q \in Reqs, j \in Copies : (Cloning(q, j) => Cloning(q, j)') /\ (Unlinking(q, j) => Unlinking(q, j)')
    BY <2>1 DEF Cloning, Unlinking
  <2>3. \A j \in Copies \ struck : j[1] \in known \cap LocalDisks /\ vol[j] # "none" =>
           row[j] # "none" \/ \E q \in Reqs : Cloning(q, j) \/ Unlinking(q, j)
    BY DEF Cloning, Unlinking
  <2>4. \A j \in Copies \ struck' : j[1] \in known' \cap LocalDisks /\ vol'[j] # "none" =>
           row'[j] # "none" \/ \E q \in Reqs : Cloning(q, j)' \/ Unlinking(q, j)'
    BY <2>1, <2>2, <2>3
  <2>. QED
    BY <2>4 DEF Cloning, Unlinking
<1>22. ASSUME NEW r \in Reqs, CheckFileMark(r) PROVE NoOrphans'
  BY <1>22 DEF CheckFileMark
<1>23. ASSUME NEW r \in Reqs, RetrieveSend(r) PROVE NoOrphans'
  <2>1. Alone(r) /\ ~Pending(r) /\ ~Pending(r)' /\ UNCHANGED <<row, vol, struck>> /\ known' \subseteq known
    BY <1>23 DEF Alone, Pending, RetrieveSend
  <2>. HIDE DEF IInv, CopyOK, NoOrphans, At
  <2>. QED
    BY <2>1, QuietStep
<1>24. ASSUME NEW r \in Reqs, RetrieveDone(r) PROVE NoOrphans'
  BY <1>24 DEF RetrieveDone
<1>25. ASSUME NEW k \in Copies, Rot(k) PROVE NoOrphans'
  BY <1>25 DEF Rot
<1>26. ASSUME NEW k \in Copies, Vanish(k) PROVE NoOrphans'
  BY <1>26 DEF Vanish
<1>27. CASE Crash
  <2>. SUFFICES ASSUME NEW j \in Copies \ struck', j[1] \in known' \cap LocalDisks, vol'[j] # "none",
                       row'[j] = "none"
                PROVE  (\E q \in Reqs : Cloning(q, j)') \/ \E q \in Reqs : Unlinking(q, j)'
    BY DEF Cloning, Unlinking
  <2>1. /\ UNCHANGED <<row, vol, known>> /\ struck \subseteq struck' /\ \A q \in Reqs : j \notin HalfDone(q)
    BY <1>27 DEF Crash
  <2>2. row[j] = "none" /\ j \notin struck /\ j[1] \in known \cap LocalDisks /\ vol[j] # "none"
    BY <2>1
  <2>3. (\E q \in Reqs : Cloning(q, j)) \/ \E q \in Reqs : Unlinking(q, j)
    BY <2>2 DEF Cloning, Unlinking
  <2>4. \A q \in Reqs : ~Cloning(q, j) /\ ~Unlinking(q, j)
    BY <2>1 DEF HalfDone, Cloning, Unlinking
  <2>. QED
    BY <2>3, <2>4
<1>28. CASE UNCHANGED vars
  BY <1>28 DEF vars
<1>. QED
  BY Starts, <1>1, <1>2, <1>3, <1>4, <1>5, <1>6, <1>7, <1>8, <1>9, <1>10, <1>11, <1>12,
     <1>13, <1>14, <1>15, <1>16, <1>17, <1>18, <1>19, <1>20, <1>21, <1>22, <1>23, <1>24,
     <1>25, <1>26, <1>27, <1>28
     DEF Next, Step

\* Every step keeps EnoughFor.
LEMMA EnoughKept ==
    ASSUME IInv, [Next]_vars, NEW q \in Reqs PROVE EnoughFor(q)'
<1>. USE HoldingsConfig DEF IInv, Event, At, Goto, End, deleteFileInfo, set_valid_checksum, Types, Record, Steps, Contents, WithCopy, Ready, Removals, Movers, Shape, Enough, EnoughFor
<1>1. ASSUME NEW r \in Reqs, NEW e \in Record, Fresh(e), Start(r, e) PROVE EnoughFor(q)'
  <2>1. Alone(r) /\ \A p \in Reqs : p # r /\ req[p].pc # "idle" => \A i \in Copies : Sees(p, i) => Sees(p, i)'
    BY <1>1 DEF Alone, Sees, Start
  <2>2. EnoughFor(r)'
    <3>1. req'[r] = e
      BY <1>1 DEF Start
    <3>. QED
      BY <1>1, <3>1 DEF Fresh, ToDelete
  <2>. HIDE DEF IInv, EnoughFor
  <2>. QED
    BY <2>1, <2>2, OthersCount
<1>2. ASSUME NEW r \in Reqs, GlobFiles(r) PROVE EnoughFor(q)'
  <2>1. Alone(r) /\ \A p \in Reqs : p # r /\ req[p].pc # "idle" => \A i \in Copies : Sees(p, i) => Sees(p, i)'
    BY <1>2 DEF Alone, Sees, GlobFiles
  <2>2. EnoughFor(r)'
    <3>1. req'[r].cmd = "REMDISK" /\ req'[r].pc = "copies"
      BY <1>2 DEF GlobFiles
    <3>. QED
      BY <3>1 DEF ToDelete
  <2>. HIDE DEF IInv, EnoughFor
  <2>. QED
    BY <2>1, <2>2, OthersCount
<1>3. ASSUME NEW r \in Reqs, checkFileCopiesAndReg(r) PROVE EnoughFor(q)'
  <2>1. Alone(r) /\ \A p \in Reqs : p # r /\ req[p].pc # "idle" => \A i \in Copies : Sees(p, i) => Sees(p, i)'
    BY <1>3 DEF Alone, Sees, checkFileCopiesAndReg
  <2>2. EnoughFor(r)'
    <3>1. CASE req'[r] = Idle
      BY <3>1 DEF Idle
    <3>2. CASE req'[r] # Idle
      <4>1. /\ MissingCopies(req[r].ls) = {} /\ req'[r].pc = "spurious" /\ req'[r].ls = req[r].ls
            /\ req'[r].d = req[r].d /\ req'[r].cmd = req[r].cmd /\ req[r].cmd \in Removals
            /\ UNCHANGED <<row, known>>
        BY <1>3, <3>2 DEF checkFileCopiesAndReg
      <4>2. ASSUME NEW k \in req[r].ls PROVE Cardinality(Counted(r, k[2])') >= MinCopies
        <5>1. ~(Cardinality(CopiesOf(k[2])) < MinCopies)
          BY <4>1 DEF MissingCopies
        <5>2. CopiesOf(k[2]) \in SUBSET Disks /\ IsFiniteSet(CopiesOf(k[2]))
          BY FS_Subset, ZenonT(60) DEF CopiesOf
        <5>3. Cardinality(CopiesOf(k[2])) >= MinCopies
          BY <5>1, <5>2, FS_CardinalityType
        <5>4. CopiesOf(k[2]) \subseteq Counted(r, k[2])' /\ Counted(r, k[2])' \in SUBSET Disks
          BY <4>1 DEF CopiesOf, Counted, Joined, fileInDb
        <5>. HIDE DEF IInv
        <5>. QED
          BY <5>2, <5>3, <5>4, StillEnough
      <4>3. ToDelete(r)' = req[r].ls
        BY <4>1 DEF ToDelete
      <4>. QED
        BY <4>1, <4>2, <4>3 DEF Enough
    <3>. QED
      BY <3>1, <3>2
  <2>. HIDE DEF IInv, EnoughFor
  <2>. QED
    BY <2>1, <2>2, OthersCount
<1>4. ASSUME NEW r \in Reqs, CheckSpurious(r) PROVE EnoughFor(q)'
  <2>. HIDE DEF IInv, Record
  <2>0. PICK e \in Record : /\ req' = [req EXCEPT ![r] = e]
                            /\ \/ e = Idle
                               \/ /\ e.cmd = req[r].cmd /\ e.pc = "removable"
                                  /\ e.d = req[r].d /\ e.ls = req[r].ls
    BY <1>4, SpuriousEffect
  <2>1. Alone(r) /\ \A p \in Reqs : p # r /\ req[p].pc # "idle" => \A i \in Copies : Sees(p, i) => Sees(p, i)'
    BY <1>4, <2>0 DEF IInv, Alone, Sees, CheckSpurious
  <2>3. req'[r] = e
    BY <2>0 DEF IInv
  <2>2. EnoughFor(r)'
    <3>0. CASE req'[r] = Idle
      BY <3>0 DEF Idle
    <3>. SUFFICES ASSUME req'[r] # Idle PROVE EnoughFor(r)'
      BY <3>0
    <3>1. req[r].pc = "spurious" /\ req'[r].pc \in {"removable"}
      BY <1>4, <2>0, <2>3 DEF CheckSpurious
    <3>2. req[r].cmd \in Removals /\ req'[r].cmd = req[r].cmd /\ req'[r].ls = req[r].ls /\ req'[r].d = req[r].d
      BY <1>4, <2>0, <2>3 DEF CheckSpurious
    <3>3. UNCHANGED <<row, cut>>
      BY <1>4 DEF CheckSpurious
    <3>4. ToDelete(r)' \subseteq ToDelete(r) /\ ToDelete(r) \subseteq Copies
      BY <3>1, <3>2, ToDeleteCopies DEF ToDelete
    <3>5. \A k \in Copies : Sees(r, k) => Sees(r, k)'
      BY <3>3 DEF Sees
    <3>6. \A k \in Copies, d \in Disks : <<d, k[2]>> \in Copies
      BY DEF Copies
    <3>7. \A k \in ToDelete(r)' : Cardinality(Counted(r, k[2])') >= MinCopies
      <4>1. PICK T \in SUBSET Copies : T = ToDelete(r)'
        BY <3>4
      <4>. QED
        BY <3>2, <3>4, <3>5, <3>6, <4>1, CountKept
    <3>. QED
      BY <3>1, <3>2, <3>7 DEF IInv, Enough
  <2>. HIDE DEF IInv, EnoughFor
  <2>. QED
    BY <2>1, <2>2, OthersCount
<1>5. ASSUME NEW r \in Reqs, NEW k \in Copies, FileRemovable(r, k) PROVE EnoughFor(q)'
  <2>1. Alone(r) /\ \A p \in Reqs : p # r /\ req[p].pc # "idle" => \A i \in Copies : Sees(p, i) => Sees(p, i)'
    BY <1>5 DEF Alone, Sees, FileRemovable
  <2>2. EnoughFor(r)'
    <3>0. CASE req'[r] = Idle
      BY <3>0 DEF Idle
    <3>. SUFFICES ASSUME req'[r] # Idle PROVE EnoughFor(r)'
      BY <3>0
    <3>1. req[r].pc = "removable" /\ req'[r].pc \in {"removable", "back"}
      BY <1>5 DEF FileRemovable
    <3>2. req[r].cmd \in Removals /\ req'[r].cmd = req[r].cmd /\ req'[r].ls = req[r].ls /\ req'[r].d = req[r].d
      BY <1>5 DEF FileRemovable
    <3>3. UNCHANGED <<row, cut>>
      BY <1>5 DEF FileRemovable
    <3>4. ToDelete(r)' \subseteq ToDelete(r) /\ ToDelete(r) \subseteq Copies
      BY <3>1, <3>2, ToDeleteCopies DEF ToDelete
    <3>5. \A i \in Copies : Sees(r, i) => Sees(r, i)'
      BY <3>3 DEF Sees
    <3>6. \A i \in Copies, d \in Disks : <<d, i[2]>> \in Copies
      BY DEF Copies
    <3>7. \A i \in ToDelete(r)' : Cardinality(Counted(r, i[2])') >= MinCopies
      <4>. HIDE DEF IInv
      <4>1. PICK T \in SUBSET Copies : T = ToDelete(r)'
        BY <3>4
      <4>. QED
        BY <3>2, <3>4, <3>5, <3>6, <4>1, CountKept
    <3>. QED
      BY <3>1, <3>2, <3>7 DEF Enough
  <2>. HIDE DEF IInv, EnoughFor
  <2>. QED
    BY <2>1, <2>2, OthersCount
<1>6. ASSUME NEW r \in Reqs, MoveBack(r) PROVE EnoughFor(q)'
  <2>1. Alone(r) /\ \A p \in Reqs : p # r /\ req[p].pc # "idle" => \A i \in Copies : Sees(p, i) => Sees(p, i)'
    BY <1>6 DEF Alone, Sees, MoveBack
  <2>2. EnoughFor(r)'
    <3>0. req'[r].cmd = req[r].cmd
      BY <1>6 DEF MoveBack
    <3>. SUFFICES ASSUME req[r].cmd \in Removals PROVE EnoughFor(r)'
      BY <3>0
    <3>1. req[r].pc = "back" /\ req'[r].pc \in {"removable"}
      BY <1>6 DEF MoveBack
    <3>2. req[r].cmd \in Removals /\ req'[r].cmd = req[r].cmd /\ req'[r].ls = req[r].ls /\ req'[r].d = req[r].d
      BY <1>6 DEF MoveBack
    <3>3. UNCHANGED <<row, cut>>
      BY <1>6 DEF MoveBack
    <3>4. ToDelete(r)' \subseteq ToDelete(r) /\ ToDelete(r) \subseteq Copies
      BY <3>1, <3>2, ToDeleteCopies DEF ToDelete
    <3>5. \A k \in Copies : Sees(r, k) => Sees(r, k)'
      BY <3>3 DEF Sees
    <3>6. \A k \in Copies, d \in Disks : <<d, k[2]>> \in Copies
      BY DEF Copies
    <3>7. \A k \in ToDelete(r)' : Cardinality(Counted(r, k[2])') >= MinCopies
      <4>. HIDE DEF IInv
      <4>1. PICK T \in SUBSET Copies : T = ToDelete(r)'
        BY <3>4
      <4>. QED
        BY <3>2, <3>4, <3>5, <3>6, <4>1, CountKept
    <3>. QED
      BY <3>1, <3>2, <3>7 DEF Enough
  <2>. HIDE DEF IInv, EnoughFor
  <2>. QED
    BY <2>1, <2>2, OthersCount
<1>7. ASSUME NEW r \in Reqs, Execute(r) PROVE EnoughFor(q)'
  <2>1. Alone(r) /\ \A p \in Reqs : p # r /\ req[p].pc # "idle" => \A i \in Copies : Sees(p, i) => Sees(p, i)'
    BY <1>7 DEF Alone, Sees, Execute
  <2>2. EnoughFor(r)'
    <3>0. CASE req'[r] = Idle
      BY <3>0 DEF Idle
    <3>. SUFFICES ASSUME req'[r] # Idle PROVE EnoughFor(r)'
      BY <3>0
    <3>1. /\ req[r].pc = "removable" /\ req'[r].pc \in {"delrow", "deldisk"}
          /\ req'[r].todo \subseteq req[r].ls
      BY <1>7 DEF Execute
    <3>2. req[r].cmd \in Removals /\ req'[r].cmd = req[r].cmd /\ req'[r].ls = req[r].ls /\ req'[r].d = req[r].d
      BY <1>7 DEF Execute
    <3>3. UNCHANGED <<row, cut>>
      BY <1>7 DEF Execute
    <3>4. ToDelete(r)' \subseteq ToDelete(r) /\ ToDelete(r) \subseteq Copies
      BY <3>1, <3>2, ToDeleteCopies DEF ToDelete
    <3>5. \A k \in Copies : Sees(r, k) => Sees(r, k)'
      BY <3>3 DEF Sees
    <3>6. \A k \in Copies, d \in Disks : <<d, k[2]>> \in Copies
      BY DEF Copies
    <3>7. \A k \in ToDelete(r)' : Cardinality(Counted(r, k[2])') >= MinCopies
      <4>. HIDE DEF IInv
      <4>1. PICK T \in SUBSET Copies : T = ToDelete(r)'
        BY <3>4
      <4>. QED
        BY <3>2, <3>4, <3>5, <3>6, <4>1, CountKept
    <3>. QED
      BY <3>1, <3>2, <3>7 DEF Enough
  <2>. HIDE DEF IInv, EnoughFor
  <2>. QED
    BY <2>1, <2>2, OthersCount
<1>8. ASSUME NEW r \in Reqs, NEW k \in Copies, RemFileRow(r, k) PROVE EnoughFor(q)'
  <2>1. Alone(r) /\ \A p \in Reqs : p # r /\ req[p].pc # "idle" => \A i \in Copies : Sees(p, i) => Sees(p, i)'
    BY <1>8 DEF Alone, Sees, RemFileRow
  <2>2. EnoughFor(r)'
    <3>1. /\ req[r].pc = "delrow" /\ req'[r].pc = "unlink" /\ req'[r].k = k /\ k \in req[r].todo
          /\ req'[r].todo = req[r].todo /\ req[r].todo \subseteq req[r].ls
      BY <1>8 DEF RemFileRow, Enough
    <3>2. /\ req[r].cmd \in Removals /\ req'[r].cmd = req[r].cmd /\ req'[r].ls = req[r].ls /\ req'[r].d = req[r].d
          /\ \A i \in req[r].ls : i[1] = req[r].d
      BY <1>8 DEF RemFileRow, Enough
    <3>3. (\A i \in Copies : i # k => row'[i] = row[i]) /\ cut'[r] = cut[r]
      BY <1>8 DEF RemFileRow
    <3>4. ToDelete(r)' = ToDelete(r) \ {k} /\ ToDelete(r) = req[r].todo /\ ToDelete(r) \subseteq Copies
      BY <3>1, ToDeleteCopies DEF ToDelete
    <3>5. \A i \in ToDelete(r)', d \in Disks : <<d, i[2]>> \in Copies /\ <<d, i[2]>> # k
      BY <3>1, <3>2, <3>4 DEF Copies
    <3>6. \A i \in ToDelete(r)', d \in Disks : Sees(r, <<d, i[2]>>) => Sees(r, <<d, i[2]>>)'
      BY <3>3, <3>5 DEF Sees
    <3>7. \A i \in ToDelete(r)' : Cardinality(Counted(r, i[2])') >= MinCopies
      <4>. HIDE DEF IInv
      <4>1. PICK T \in SUBSET Copies : T = ToDelete(r)'
        BY <3>4
      <4>. QED
        BY <3>2, <3>4, <3>6, <4>1, CountKept
    <3>. QED
      BY <3>1, <3>2, <3>7 DEF Enough
  <2>. HIDE DEF IInv, EnoughFor
  <2>. QED
    BY <2>1, <2>2, OthersCount
<1>9. ASSUME NEW r \in Reqs, RemFileUnlink(r) PROVE EnoughFor(q)'
  <2>1. Alone(r) /\ \A p \in Reqs : p # r /\ req[p].pc # "idle" => \A i \in Copies : Sees(p, i) => Sees(p, i)'
    BY <1>9 DEF Alone, Sees, RemFileUnlink
  <2>2. EnoughFor(r)'
    <3>1. /\ req[r].pc = "unlink" /\ req'[r].pc = "delrow"
          /\ req'[r].todo = req[r].todo \ {req[r].k} /\ req[r].todo \subseteq req[r].ls
      BY <1>9 DEF RemFileUnlink, Enough
    <3>2. req[r].cmd \in Removals /\ req'[r].cmd = req[r].cmd /\ req'[r].ls = req[r].ls /\ req'[r].d = req[r].d
      BY <1>9 DEF RemFileUnlink
    <3>3. UNCHANGED <<row, cut>>
      BY <1>9 DEF RemFileUnlink
    <3>4. ToDelete(r)' \subseteq ToDelete(r) /\ ToDelete(r) \subseteq Copies
      BY <3>1, <3>2, ToDeleteCopies DEF ToDelete
    <3>5. \A k \in Copies : Sees(r, k) => Sees(r, k)'
      BY <3>3 DEF Sees
    <3>6. \A k \in Copies, d \in Disks : <<d, k[2]>> \in Copies
      BY DEF Copies
    <3>7. \A k \in ToDelete(r)' : Cardinality(Counted(r, k[2])') >= MinCopies
      <4>. HIDE DEF IInv
      <4>1. PICK T \in SUBSET Copies : T = ToDelete(r)'
        BY <3>4
      <4>. QED
        BY <3>2, <3>4, <3>5, <3>6, <4>1, CountKept
    <3>. QED
      BY <3>1, <3>2, <3>7 DEF Enough
  <2>. HIDE DEF IInv, EnoughFor
  <2>. QED
    BY <2>1, <2>2, OthersCount
<1>10. ASSUME NEW r \in Reqs, RemFileDone(r) PROVE EnoughFor(q)'
  <2>1. Alone(r) /\ \A p \in Reqs : p # r /\ req[p].pc # "idle" => \A i \in Copies : Sees(p, i) => Sees(p, i)'
    BY <1>10 DEF Alone, Sees, RemFileDone
  <2>2. EnoughFor(r)'
    <3>1. req'[r].cmd \notin Removals
      BY <1>10 DEF RemFileDone, Idle
    <3>. QED
      BY <3>1
  <2>. HIDE DEF IInv, EnoughFor
  <2>. QED
    BY <2>1, <2>2, OthersCount
<1>11. ASSUME NEW r \in Reqs, RemDiskInfo(r) PROVE EnoughFor(q)'
  <2>1. Alone(r) /\ \A p \in Reqs : p # r /\ req[p].pc # "idle" => \A i \in Copies : Sees(p, i) => Sees(p, i)'
    BY <1>11 DEF Alone, Sees, RemDiskInfo
  <2>2. EnoughFor(r)'
    <3>1. req[r].pc = "deldisk" /\ req'[r].pc \in {"delrows"}
      BY <1>11 DEF RemDiskInfo
    <3>2. req[r].cmd \in Removals /\ req'[r].cmd = req[r].cmd /\ req'[r].ls = req[r].ls /\ req'[r].d = req[r].d
      BY <1>11 DEF RemDiskInfo
    <3>3. UNCHANGED <<row, cut>>
      BY <1>11 DEF RemDiskInfo
    <3>4. ToDelete(r)' \subseteq ToDelete(r) /\ ToDelete(r) \subseteq Copies
      BY <3>1, <3>2, ToDeleteCopies DEF ToDelete
    <3>5. \A k \in Copies : Sees(r, k) => Sees(r, k)'
      BY <3>3 DEF Sees
    <3>6. \A k \in Copies, d \in Disks : <<d, k[2]>> \in Copies
      BY DEF Copies
    <3>7. \A k \in ToDelete(r)' : Cardinality(Counted(r, k[2])') >= MinCopies
      <4>. HIDE DEF IInv
      <4>1. PICK T \in SUBSET Copies : T = ToDelete(r)'
        BY <3>4
      <4>. QED
        BY <3>2, <3>4, <3>5, <3>6, <4>1, CountKept
    <3>. QED
      BY <3>1, <3>2, <3>7 DEF Enough
  <2>. HIDE DEF IInv, EnoughFor
  <2>. QED
    BY <2>1, <2>2, OthersCount
<1>12. ASSUME NEW r \in Reqs, RemDiskRows(r) PROVE EnoughFor(q)'
  <2>1. Alone(r) /\ \A p \in Reqs : p # r /\ req[p].pc # "idle" => \A i \in Copies : Sees(p, i) => Sees(p, i)'
    BY <1>12 DEF Alone, Sees, RemDiskRows
  <2>2. EnoughFor(r)'
    <3>1. req'[r].cmd = "REMDISK" /\ req'[r].pc = "wipe"
      BY <1>12 DEF RemDiskRows
    <3>. QED
      BY <3>1 DEF ToDelete
  <2>. HIDE DEF IInv, EnoughFor
  <2>. QED
    BY <2>1, <2>2, OthersCount
<1>13. ASSUME NEW r \in Reqs, RemDiskFiles(r) PROVE EnoughFor(q)'
  <2>1. Alone(r) /\ \A p \in Reqs : p # r /\ req[p].pc # "idle" => \A i \in Copies : Sees(p, i) => Sees(p, i)'
    BY <1>13 DEF Alone, Sees, RemDiskFiles
  <2>2. EnoughFor(r)'
    <3>1. req'[r].cmd \notin Removals
      BY <1>13 DEF RemDiskFiles, Idle
    <3>. QED
      BY <3>1
  <2>. HIDE DEF IInv, EnoughFor
  <2>. QED
    BY <2>1, <2>2, OthersCount
<1>14. ASSUME NEW r \in Reqs, DiscardTry(r) \/ DiscardFile(r) PROVE EnoughFor(q)'
  <2>1. Alone(r) /\ \A p \in Reqs : p # r /\ req[p].pc # "idle" => \A i \in Copies : Sees(p, i) => Sees(p, i)'
    <3>. HIDE DEF IInv, Record
    <3>1. UNCHANGED <<row, cut>> /\ \E e \in Record : req' = [req EXCEPT ![r] = e]
      BY <1>14, DiscardEffect
    <3>. QED
      BY <3>1 DEF Alone, Sees, IInv
  <2>2. EnoughFor(r)'
    <3>1. req'[r].cmd \in {"none", "DISCARD"}
      <4>. HIDE DEF IInv, Record
      <4>1. \E e \in Record : req' = [req EXCEPT ![r] = e] /\ (e = Idle \/ e.cmd = "DISCARD")
        BY <1>14, DiscardEffect
      <4>. QED
        BY <4>1 DEF IInv, Idle
    <3>. QED
      BY <3>1
  <2>. HIDE DEF IInv, EnoughFor
  <2>. QED
    BY <2>1, <2>2, OthersCount
<1>15. ASSUME NEW r \in Reqs, DiscardRow(r) PROVE EnoughFor(q)'
  <2>1. Alone(r) /\ \A p \in Reqs : p # r /\ req[p].pc # "idle" => \A i \in Copies : Sees(p, i) => Sees(p, i)'
    BY <1>15 DEF Alone, Sees, DiscardRow
  <2>2. EnoughFor(r)'
    <3>1. req'[r].cmd \notin Removals
      BY <1>15 DEF DiscardRow, Idle
    <3>. QED
      BY <3>1
  <2>. HIDE DEF IInv, EnoughFor
  <2>. QED
    BY <2>1, <2>2, OthersCount
<1>16. ASSUME NEW r \in Reqs, NEW k \in Copies, CloneTarget(r, k) PROVE EnoughFor(q)'
  <2>. HIDE DEF IInv, Record, Idle
  <2>1. PICK e \in Record : /\ req' = [req EXCEPT ![r] = e]
                            /\ \/ e = Idle
                               \/ e.cmd = "CLONE" /\ e.pc = "next"
                               \/ e.cmd = "CLONE" /\ e.pc = "fetch" /\ e.k = k /\ e.t \in Disks /\ e.v \in Versions
    BY <1>16, TargetEffect
  <2>2. Alone(r) /\ \A p \in Reqs : p # r /\ req[p].pc # "idle" => \A i \in Copies : Sees(p, i) => Sees(p, i)'
    BY <1>16, <2>1 DEF IInv, Alone, Sees, CloneTarget
  <2>3. req'[r] = e /\ e.cmd \notin Removals
    BY <2>1 DEF IInv, Idle
  <2>4. EnoughFor(r)'
    BY <2>3
  <2>. HIDE DEF EnoughFor
  <2>. QED
    BY <2>2, <2>4, OthersCount
<1>17. ASSUME NEW r \in Reqs, CloneFetch(r) PROVE EnoughFor(q)'
  <2>1. Alone(r) /\ \A p \in Reqs : p # r /\ req[p].pc # "idle" => \A i \in Copies : Sees(p, i) => Sees(p, i)'
    BY <1>17 DEF Alone, Sees, CloneFetch
  <2>2. EnoughFor(r)'
    <3>1. req'[r].cmd \notin Removals
      BY <1>17 DEF CloneFetch, Idle
    <3>. QED
      BY <3>1
  <2>. HIDE DEF IInv, EnoughFor
  <2>. QED
    BY <2>1, <2>2, OthersCount
<1>18. ASSUME NEW r \in Reqs, CloneMove(r) PROVE EnoughFor(q)'
  <2>1. Alone(r) /\ \A p \in Reqs : p # r /\ req[p].pc # "idle" => \A i \in Copies : Sees(p, i) => Sees(p, i)'
    BY <1>18 DEF Alone, Sees, CloneMove
  <2>2. EnoughFor(r)'
    <3>1. req'[r].cmd \notin Removals
      BY <1>18 DEF CloneMove, Idle
    <3>. QED
      BY <3>1
  <2>. HIDE DEF IInv, EnoughFor
  <2>. QED
    BY <2>1, <2>2, OthersCount
<1>19. ASSUME NEW r \in Reqs, CloneWrite(r) PROVE EnoughFor(q)'
  <2>1. Alone(r) /\ \A p \in Reqs : p # r /\ req[p].pc # "idle" => \A i \in Copies : Sees(p, i) => Sees(p, i)'
    BY <1>19 DEF Alone, Sees, CloneWrite
  <2>2. EnoughFor(r)'
    <3>1. req'[r].cmd \notin Removals
      BY <1>19 DEF CloneWrite, Idle
    <3>. QED
      BY <3>1
  <2>. HIDE DEF IInv, EnoughFor
  <2>. QED
    BY <2>1, <2>2, OthersCount
<1>20. ASSUME NEW r \in Reqs, CloneDone(r) PROVE EnoughFor(q)'
  <2>1. Alone(r) /\ \A p \in Reqs : p # r /\ req[p].pc # "idle" => \A i \in Copies : Sees(p, i) => Sees(p, i)'
    BY <1>20 DEF Alone, Sees, CloneDone
  <2>2. EnoughFor(r)'
    <3>1. req'[r].cmd \notin Removals
      BY <1>20 DEF CloneDone, Idle
    <3>. QED
      BY <3>1
  <2>. HIDE DEF IInv, EnoughFor
  <2>. QED
    BY <2>1, <2>2, OthersCount
<1>21. ASSUME NEW r \in Reqs, CheckFileLook(r) PROVE EnoughFor(q)'
  <2>1. Alone(r) /\ \A p \in Reqs : p # r /\ req[p].pc # "idle" => \A i \in Copies : Sees(p, i) => Sees(p, i)'
    BY <1>21 DEF Alone, Sees, CheckFileLook
  <2>2. EnoughFor(r)'
    <3>1. req'[r].cmd \notin Removals
      BY <1>21 DEF CheckFileLook, Idle
    <3>. QED
      BY <3>1
  <2>. HIDE DEF IInv, EnoughFor
  <2>. QED
    BY <2>1, <2>2, OthersCount
<1>22. ASSUME NEW r \in Reqs, CheckFileMark(r) PROVE EnoughFor(q)'
  <2>1. Alone(r) /\ \A p \in Reqs : p # r /\ req[p].pc # "idle" => \A i \in Copies : Sees(p, i) => Sees(p, i)'
    BY <1>22 DEF Alone, Sees, CheckFileMark
  <2>2. EnoughFor(r)'
    <3>1. req'[r].cmd \notin Removals
      BY <1>22 DEF CheckFileMark, Idle
    <3>. QED
      BY <3>1
  <2>. HIDE DEF IInv, EnoughFor
  <2>. QED
    BY <2>1, <2>2, OthersCount
<1>23. ASSUME NEW r \in Reqs, RetrieveSend(r) PROVE EnoughFor(q)'
  <2>1. Alone(r) /\ \A p \in Reqs : p # r /\ req[p].pc # "idle" => \A i \in Copies : Sees(p, i) => Sees(p, i)'
    BY <1>23 DEF Alone, Sees, RetrieveSend
  <2>2. EnoughFor(r)'
    <3>1. req'[r].cmd \notin Removals
      BY <1>23 DEF RetrieveSend, Idle
    <3>. QED
      BY <3>1
  <2>. HIDE DEF IInv, EnoughFor
  <2>. QED
    BY <2>1, <2>2, OthersCount
<1>24. ASSUME NEW r \in Reqs, RetrieveDone(r) PROVE EnoughFor(q)'
  <2>1. Alone(r) /\ \A p \in Reqs : p # r /\ req[p].pc # "idle" => \A i \in Copies : Sees(p, i) => Sees(p, i)'
    BY <1>24 DEF Alone, Sees, RetrieveDone
  <2>2. EnoughFor(r)'
    <3>1. req'[r].cmd \notin Removals
      BY <1>24 DEF RetrieveDone, Idle
    <3>. QED
      BY <3>1
  <2>. HIDE DEF IInv, EnoughFor
  <2>. QED
    BY <2>1, <2>2, OthersCount
<1>25. ASSUME NEW k \in Copies, Rot(k) PROVE EnoughFor(q)'
  <2>1. UNCHANGED <<row, req, cut>>
    BY <1>25 DEF Rot
  <2>2. ToDelete(q)' = ToDelete(q) /\ \A i \in Copies : Counted(q, i[2])' = Counted(q, i[2])
    BY <2>1 DEF ToDelete, Counted, fileInDb
  <2>3. ToDelete(q) \subseteq Copies
    BY ToDeleteCopies
  <2>. QED
    BY <2>1, <2>2, <2>3
<1>26. ASSUME NEW k \in Copies, Vanish(k) PROVE EnoughFor(q)'
  <2>1. UNCHANGED <<row, req, cut>>
    BY <1>26 DEF Vanish
  <2>2. ToDelete(q)' = ToDelete(q) /\ \A i \in Copies : Counted(q, i[2])' = Counted(q, i[2])
    BY <2>1 DEF ToDelete, Counted, fileInDb
  <2>3. ToDelete(q) \subseteq Copies
    BY ToDeleteCopies
  <2>. QED
    BY <2>1, <2>2, <2>3
<1>27. CASE Crash
  <2>1. req'[q].cmd = "none"
    BY <1>27 DEF Crash, Idle
  <2>. QED
    BY <2>1
<1>28. CASE UNCHANGED vars
  <2>1. UNCHANGED <<row, req, cut>>
    BY <1>28 DEF vars
  <2>2. ToDelete(q)' = ToDelete(q) /\ \A i \in Copies : Counted(q, i[2])' = Counted(q, i[2])
    BY <2>1 DEF ToDelete, Counted, fileInDb
  <2>3. ToDelete(q) \subseteq Copies
    BY ToDeleteCopies
  <2>. QED
    BY <2>1, <2>2, <2>3
<1>. QED
  BY Starts, <1>1, <1>2, <1>3, <1>4, <1>5, <1>6, <1>7, <1>8, <1>9, <1>10, <1>11, <1>12,
     <1>13, <1>14, <1>15, <1>16, <1>17, <1>18, <1>19, <1>20, <1>21, <1>22, <1>23, <1>24,
     <1>25, <1>26, <1>27, <1>28
     DEF Next, Step

\* Only RETRIEVE sends a file.
LEMMA SentBy ==
    ASSUME IInv, [Next]_vars,
           NEW i \in Reqs, req[i].pc # "sent", req'[i].pc = "sent" PROVE RetrieveSend(i)
<1>. USE HoldingsConfig DEF IInv, Types, Record, At, Goto, End, Idle, Steps
<1>1. ASSUME NEW r \in Reqs, NEW e \in Record, Fresh(e), Start(r, e) PROVE RetrieveSend(i)
  BY <1>1 DEF Fresh, Start
<1>2. ASSUME NEW r \in Reqs, GlobFiles(r) PROVE RetrieveSend(i)
  BY <1>2 DEF GlobFiles
<1>3. ASSUME NEW r \in Reqs, checkFileCopiesAndReg(r) PROVE RetrieveSend(i)
  BY <1>3 DEF checkFileCopiesAndReg
<1>4. ASSUME NEW r \in Reqs, CheckSpurious(r) PROVE RetrieveSend(i)
  <2>. HIDE DEF IInv, Record, Idle
  <2>1. PICK e \in Record : /\ req' = [req EXCEPT ![r] = e]
                            /\ \/ e = Idle
                               \/ /\ e.cmd = req[r].cmd /\ e.pc = "removable"
                                  /\ e.d = req[r].d /\ e.ls = req[r].ls
    BY <1>4, SpuriousEffect
  <2>. QED
    BY <2>1 DEF IInv, Idle
<1>5. ASSUME NEW r \in Reqs, NEW k \in Copies, FileRemovable(r, k) PROVE RetrieveSend(i)
  BY <1>5 DEF FileRemovable
<1>6. ASSUME NEW r \in Reqs, MoveBack(r) PROVE RetrieveSend(i)
  BY <1>6 DEF MoveBack
<1>7. ASSUME NEW r \in Reqs, Execute(r) PROVE RetrieveSend(i)
  BY <1>7 DEF Execute
<1>8. ASSUME NEW r \in Reqs, NEW k \in Copies, RemFileRow(r, k) PROVE RetrieveSend(i)
  BY <1>8 DEF RemFileRow
<1>9. ASSUME NEW r \in Reqs, RemFileUnlink(r) PROVE RetrieveSend(i)
  BY <1>9 DEF RemFileUnlink
<1>10. ASSUME NEW r \in Reqs, RemFileDone(r) PROVE RetrieveSend(i)
  BY <1>10 DEF RemFileDone
<1>11. ASSUME NEW r \in Reqs, RemDiskInfo(r) PROVE RetrieveSend(i)
  BY <1>11 DEF RemDiskInfo
<1>12. ASSUME NEW r \in Reqs, RemDiskRows(r) PROVE RetrieveSend(i)
  BY <1>12 DEF RemDiskRows
<1>13. ASSUME NEW r \in Reqs, RemDiskFiles(r) PROVE RetrieveSend(i)
  BY <1>13 DEF RemDiskFiles
<1>14. ASSUME NEW r \in Reqs, DiscardTry(r) \/ DiscardFile(r) PROVE RetrieveSend(i)
  <2>. HIDE DEF IInv, Record, Idle
  <2>1. PICK e \in Record :
           /\ req' = [req EXCEPT ![r] = e]
           /\ \/ e = Idle
              \/ e.cmd = "DISCARD" /\ e.k = req[r].k /\ e.pc = "delrow"
              \/ /\ e.cmd = "DISCARD" /\ e.k = req[r].k /\ e.pc = "back" /\ e.c = vol[req[r].k]
                 /\ vol[req[r].k] # "none" /\ vol' = [vol EXCEPT ![req[r].k] = "none"] /\ UNCHANGED struck
    BY <1>14, DiscardEffect
  <2>. QED
    BY <2>1 DEF IInv, Idle
<1>15. ASSUME NEW r \in Reqs, DiscardRow(r) PROVE RetrieveSend(i)
  BY <1>15 DEF DiscardRow
<1>16. ASSUME NEW r \in Reqs, NEW k \in Copies, CloneTarget(r, k) PROVE RetrieveSend(i)
  <2>. HIDE DEF IInv, Record, Idle
  <2>1. PICK e \in Record : /\ req' = [req EXCEPT ![r] = e]
                            /\ \/ e = Idle
                               \/ e.cmd = "CLONE" /\ e.pc = "next"
                               \/ e.cmd = "CLONE" /\ e.pc = "fetch" /\ e.k = k /\ e.t \in Disks /\ e.v \in Versions
    BY <1>16, TargetEffect
  <2>. QED
    BY <2>1 DEF IInv, Idle
<1>17. ASSUME NEW r \in Reqs, CloneFetch(r) PROVE RetrieveSend(i)
  BY <1>17 DEF CloneFetch
<1>18. ASSUME NEW r \in Reqs, CloneMove(r) PROVE RetrieveSend(i)
  BY <1>18 DEF CloneMove
<1>19. ASSUME NEW r \in Reqs, CloneWrite(r) PROVE RetrieveSend(i)
  BY <1>19 DEF CloneWrite
<1>20. ASSUME NEW r \in Reqs, CloneDone(r) PROVE RetrieveSend(i)
  BY <1>20 DEF CloneDone
<1>21. ASSUME NEW r \in Reqs, CheckFileLook(r) PROVE RetrieveSend(i)
  BY <1>21 DEF CheckFileLook
<1>22. ASSUME NEW r \in Reqs, CheckFileMark(r) PROVE RetrieveSend(i)
  BY <1>22 DEF CheckFileMark
<1>23. ASSUME NEW r \in Reqs, RetrieveSend(r) PROVE RetrieveSend(i)
  BY <1>23 DEF RetrieveSend
<1>24. ASSUME NEW r \in Reqs, RetrieveDone(r) PROVE RetrieveSend(i)
  BY <1>24 DEF RetrieveDone
<1>25. ASSUME NEW k \in Copies, Rot(k) PROVE RetrieveSend(i)
  BY <1>25 DEF Rot
<1>26. ASSUME NEW k \in Copies, Vanish(k) PROVE RetrieveSend(i)
  BY <1>26 DEF Vanish
<1>27. CASE Crash
  BY <1>27 DEF Crash
<1>28. CASE UNCHANGED vars
  BY <1>28 DEF vars
<1>. QED
  BY Starts, <1>1, <1>2, <1>3, <1>4, <1>5, <1>6, <1>7, <1>8, <1>9, <1>10, <1>11, <1>12,
     <1>13, <1>14, <1>15, <1>16, <1>17, <1>18, <1>19, <1>20, <1>21, <1>22, <1>23, <1>24,
     <1>25, <1>26, <1>27, <1>28
     DEF Next, Step

-----------------------------------------------------------------------------
(***************************************************************************)
(* The theorems.                                                           *)
(***************************************************************************)

\* The invariant holds at first.
LEMMA InitIInv ==
    Init => IInv
<1>. SUFFICES ASSUME Init PROVE IInv
  OBVIOUS
<1>. USE HoldingsConfig DEF Init
<1>1. Shape
  BY DEF Shape, Contents
<1>2. req \in [Reqs -> Record] /\ \A r \in Reqs : req[r].pc = "idle" /\ req[r].cmd = "none"
  BY IdleTyped DEF Idle
<1>3. \A r \in Reqs : Ready(r)
  BY <1>2 DEF Ready, WithCopy
<1>4. HandsOK /\ Forgotten
  BY <1>2 DEF HandsOK, Forgotten, At
<1>5. CopiesOK
  <2>1. \A k \in Copies : row[k] # "bad" /\ (row[k] = "ok" => vol[k] = "good")
    OBVIOUS
  <2>2. \A r \in Reqs, k \in Copies : ~Marking(r, k) /\ ~BeingCloned(k)
    BY <1>2 DEF Marking, BeingCloned, At
  <2>3. \A k \in Copies : ~BeingCloned(k)
    BY <1>2 DEF BeingCloned, At
  <2>. QED
    BY <2>1, <2>2, <2>3 DEF CopiesOK, CopyOK, RowOK, CloneOK, MarkOK
<1>6. NoOrphans
  BY DEF NoOrphans
<1>7. Enough
  BY <1>2 DEF Enough, EnoughFor, Removals
<1>. QED
  BY <1>1, <1>2, <1>3, <1>4, <1>5, <1>6, <1>7 DEF IInv, Types

\* IInv holds whatever the commands do to the copies of a file at the same time.
THEOREM HoldingsInvariant == Spec => []IInv
<1>1. ASSUME IInv, [Next]_vars PROVE IInv'
  <2>1. Types'
    BY <1>1, ReqTyped, ReqReady, ShapeKept DEF Types
  <2>2. HandsOK'
    BY <1>1, HandsKept
  <2>3. Forgotten'
    BY <1>1, ForgottenKept
  <2>4. CopiesOK'
    <3>1. \A j \in Copies \ struck' : j[1] \in known' => CopyOK(j)'
      BY <1>1, CopyKept
    <3>. QED
      BY <3>1 DEF CopiesOK
  <2>5. NoOrphans'
    BY <1>1, OrphansKept
  <2>6. Enough'
    <3>1. \A q \in Reqs : EnoughFor(q)'
      BY <1>1, EnoughKept
    <3>. QED
      BY <3>1 DEF Enough
  <2>. QED
    BY <2>1, <2>2, <2>3, <2>4, <2>5, <2>6 DEF IInv
<1>. QED
  BY <1>1, InitIInv, PTL DEF Spec

\* For every number of volumes, versions and requests, and whatever they ask for: a copy
\* whose row is good has an intact file, no copy is marked bad that is intact, and no file
\* is left without a row, except by the events and in the races that Holdings names.
THEOREM HoldingsAreTrue == Spec => []HoldingsTrue
<1>1. IInv => HoldingsTrue
  <2>. SUFFICES ASSUME IInv PROVE HoldingsTrue
    OBVIOUS
  <2>1. TypeOK
    BY DEF IInv, Types, Shape, Record, TypeOK, Contents
  <2>2. RowsTrue
    <3>. SUFFICES ASSUME NEW k \in Copies \ struck, k[1] \in known, ~Away(k)
                  PROVE  row[k] # "bad" /\ (row[k] = "ok" => vol[k] = "good")
      BY DEF RowsTrue
    <3>1. RowOK(k)
      BY DEF IInv, CopiesOK, CopyOK
    <3>. QED
      BY <3>1 DEF RowOK, Away, Discarding
  <2>. QED
    BY <2>1, <2>2 DEF HoldingsTrue, IInv
<1>. QED
  BY <1>1, HoldingsInvariant, PTL

\* The rows of copies are deleted by REMFILE, REMDISK and DISCARD only.
LEMMA RowDeleted ==
    ASSUME IInv, [Next]_vars, NEW k \in Copies, row[k] # "none", row'[k] = "none"
    PROVE  \E r \in Reqs : (\E j \in Copies : RemFileRow(r, j)) \/ RemDiskRows(r) \/ DiscardRow(r)
<1>. SUFFICES ASSUME NEW r \in Reqs, Step(r)
              PROVE  (\E j \in Copies : RemFileRow(r, j)) \/ RemDiskRows(r) \/ DiscardRow(r)
  BY Starts DEF Next, Start, Rot, Vanish, Crash, vars
<1>1. CASE GlobFiles(r) \/ checkFileCopiesAndReg(r) \/ CheckSpurious(r) \/ (\E j \in Copies : FileRemovable(r, j))
           \/ MoveBack(r) \/ Execute(r)
  BY <1>1 DEF GlobFiles, checkFileCopiesAndReg, CheckSpurious, FileRemovable, MoveBack, Execute
<1>2. CASE RemFileUnlink(r) \/ RemFileDone(r) \/ RemDiskInfo(r) \/ RemDiskFiles(r) \/ DiscardTry(r) \/ DiscardFile(r)
  BY <1>2 DEF RemFileUnlink, RemFileDone, RemDiskInfo, RemDiskFiles, DiscardTry, DiscardFile
<1>3. CASE (\E j \in Copies : CloneTarget(r, j)) \/ CloneFetch(r) \/ CloneMove(r) \/ CloneDone(r)
           \/ CheckFileLook(r) \/ RetrieveSend(r) \/ RetrieveDone(r)
  BY <1>3 DEF CloneTarget, CloneFetch, CloneMove, CloneDone, CheckFileLook, RetrieveSend,
     RetrieveDone
<1>4. CASE CloneWrite(r) \/ CheckFileMark(r)
  <2>1. row \in [Copies -> {"none", "ok", "bad"}]
    BY DEF IInv, Types, Shape
  <2>. QED
    BY <1>4, <2>1 DEF CloneWrite, CheckFileMark, set_valid_checksum
<1>. QED
  BY <1>1, <1>2, <1>3, <1>4 DEF Step

\* REMFILE and REMDISK delete the row of a copy they selected only when MinCopies volumes
\* have a copy of it, or had one when checkFileCopiesAndReg counted them.
LEMMA ThreeCopiesStep ==
    ASSUME IInv, [Next]_vars, NEW r \in Reqs, NEW k \in Copies,
           At(r, Removals, "delrow") \/ At(r, Removals, "delrows"),
           req'[r] # req[r], k \in req[r].ls, row[k] # "none", row'[k] = "none"
    PROVE  Cardinality({d \in Disks : fileInDb(d, k[2]) \/ <<d, k[2]>> \in cut[r]}) >= MinCopies
<1>1. EnoughFor(r) /\ req[r].cmd \in Removals
  BY DEF IInv, Enough, At
<1>2. k \in ToDelete(r)
  <2>1. CASE req[r].pc = "delrows"
    BY <2>1 DEF ToDelete
  <2>2. CASE req[r].pc = "delrow"
    <3>. SUFFICES k \in req[r].todo
      BY <2>2 DEF ToDelete
    <3>1. req \in [Reqs -> Record]
      BY DEF IInv, Types
    <3>2. PICK q \in Reqs : (\E j \in Copies : RemFileRow(q, j)) \/ RemDiskRows(q) \/ DiscardRow(q)
      BY RowDeleted
    <3>3. q = r
      BY <3>1, <3>2 DEF RemFileRow, RemDiskRows, DiscardRow, Goto, End
    <3>4. PICK j \in Copies : RemFileRow(r, j)
      BY <2>2, <3>2, <3>3 DEF RemDiskRows, DiscardRow, At, Removals
    <3>5. j = k /\ j \in req[r].todo
      BY <3>4 DEF RemFileRow, deleteFileInfo
    <3>. QED
      BY <3>5
  <2>. QED
    BY <2>1, <2>2 DEF At
<1>. QED
  BY <1>1, <1>2 DEF EnoughFor, Counted

\* RETRIEVE finds the file of a row unless it was struck, has gone with its row or volume,
\* or is away.
LEMMA MissedStep ==
    ASSUME IInv, [Next]_vars, NEW r \in Reqs, At(r, {"RETRIEVE"}, "send"), req'[r].pc = "sent", req'[r].c = "none"
    PROVE  req[r].k \in struck \/ row[req[r].k] = "none" \/ req[r].k[1] \notin known \/ Away(req[r].k)
<1>. DEFINE k == req[r].k
<1>1. k \in Copies /\ row[k] \in {"none", "ok", "bad"}
  BY DEF IInv, Types, Shape, Ready, WithCopy, At
<1>2. vol[k] = "none"
  <2>1. RetrieveSend(r)
    BY SentBy DEF At
  <2>. QED
    BY <2>1 DEF RetrieveSend, IInv, Types, Record
<1>3. k \in struck \/ k[1] \notin known \/ RowOK(k)
  BY <1>1 DEF IInv, CopiesOK, CopyOK
<1>. HIDE DEF k
<1>4. k \in struck \/ row[k] = "none" \/ k[1] \notin known \/ Away(k)
  BY <1>1, <1>2, <1>3 DEF RowOK, Away, Discarding
<1>. QED
  BY <1>4 DEF k

\* REMFILE and REMDISK delete a copy only if three were there when they counted, so that fewer
\* are left than two only by what other requests delete in between, and RETRIEVE finds what the
\* DB told it of unless it was removed, struck or is being moved away and back.
THEOREM CopiesAreKept == Spec => CopiesKept
<1>. DEFINE Three == \A r \in Reqs, k \in Copies :
          /\ At(r, Removals, "delrow") \/ At(r, Removals, "delrows")
          /\ req'[r] # req[r] /\ k \in req[r].ls /\ row[k] # "none" /\ row'[k] = "none"
          => Cardinality({d \in Disks : fileInDb(d, k[2]) \/ <<d, k[2]>> \in cut[r]}) >= MinCopies
            Missed == \A r \in Reqs : LET k == req[r].k IN
          At(r, {"RETRIEVE"}, "send") /\ req'[r].pc = "sent" /\ req'[r].c = "none"
          => k \in struck \/ row[k] = "none" \/ k[1] \notin known \/ Away(k)
<1>1. ASSUME IInv, [Next]_vars PROVE [Three]_vars
  BY <1>1, ThreeCopiesStep
<1>2. ASSUME IInv, [Next]_vars PROVE [Missed]_vars
  BY <1>2, MissedStep
<1>. QED
  BY <1>1, <1>2, HoldingsInvariant, PTL DEF Spec, CopiesKept, ThreeCopies, MissedOnlyIfRemoved

=============================================================================
