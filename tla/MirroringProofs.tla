--------------------------- MODULE MirroringProofs --------------------------
(***************************************************************************)
(* Proofs about the bookkeeping table of the ALMA mirroring, for any       *)
(* number of files, target nodes, iterations, parallel fetches and events. *)
(***************************************************************************)
EXTENDS Mirroring, FiniteSetTheorems, WellFoundedInduction, TLAPS

-----------------------------------------------------------------------------
(***************************************************************************)
(* The inductive invariant.                                                *)
(***************************************************************************)

Entry == [st : Status, t : Targets \cup {None}, sg : Keys \cup {None, "vol"}]
WorkSteps == {"none", "fetch", "move", "insert", "status"}
Outs == {"none", "part", "full", "mixed", "SUCCESS", "FAILURE", "TORESUME", "ABORTED"}
Fetch == [pc : WorkSteps, t : Targets \cup {None}, sg : Keys \cup {None}, out : Outs]
MasterSteps == {"idle", "resume", "retire", "limit", "hosts", "assign"}

MRec == [pc : MasterSteps, i : 0 .. MaxIter, hosts : SUBSET Targets, any : BOOLEAN]

\* The first MIRRTABLE; it is at work; an entry exists; it will still be fetched.
mst == master[1]
Active == mst.pc # "idle"
Exists(k) == book[k].st # "none"
Live(k) == \/ book[k].st \in {"READY", "FETCHING", "TORESUME"}
           \/ Active /\ k[2] = mst.i /\ book[k].st = "LOCKED"

\* The shape of the state.
Shape ==
    /\ book \in [Keys -> Entry] /\ work \in [Keys -> Fetch]
    /\ \A k \in Keys : book[k].st \in {"READY", "FETCHING", "TORESUME"} => book[k].t # None
    /\ have \in [Targets \X Files -> {"none", "good", "mixed"}]
    /\ stage \in [Keys -> {"none", "part", "full", "mixed"}] /\ online \subseteq Targets
    /\ mst \in MRec
    /\ Active => mst.i \in Iters
    /\ exec \in [Iters -> SUBSET {"send", "wait"}]
    /\ call \in [Iters \X Targets -> {"none", "asked", "run"}]
    /\ tasks \in [Iters \X Targets -> SUBSET Files]
    /\ src \subseteq Files /\ shaken \subseteq Files /\ events \in 0 .. MaxEvents

\* A request has an entry, and so has what it has queued and what its workers handle; a
\* thread that has not sent its requests yet has entries.  So the number of an iteration
\* is not used again while there is anything left of it.
Asked == \A i \in Iters, t \in Targets : call[<<i, t>>] # "none" =>
             \E k \in Keys : k[2] = i /\ Exists(k) /\ book[k].t = t
Queued == \A k \in Keys, t \in Targets : k[1] \in tasks[<<k[2], t>>] =>
             call[<<k[2], t>>] = "run" /\ Exists(k) /\ book[k].t = t
Handled == \A k \in Keys : work[k].pc # "none" =>
             /\ work[k].t \in Targets /\ call[<<k[2], work[k].t>>] = "run"
             /\ Exists(k) /\ book[k].t = work[k].t
ToSend == \A i \in Iters : "send" \in exec[i] =>
             (\A t \in Targets : call[<<i, t>>] = "none") /\ \E k \in Keys : k[2] = i /\ Exists(k)

\* Nobody but the master is at the iteration it is filling, nor at a later one.
NewIteration ==
    Active =>
        /\ \A i \in Iters, t \in Targets : i >= mst.i => call[<<i, t>>] = "none"
        /\ \A i \in Iters : i >= mst.i => "send" \notin exec[i]
        /\ \A k \in Keys : k[2] > mst.i => ~Exists(k)
        /\ \A k \in Keys : k[2] = mst.i => book[k].st \notin {"FETCHING", "TORESUME"}
        /\ mst.any => mst.pc = "assign" /\ \E k \in Keys : k[2] = mst.i /\ Exists(k)

\* What a worker is about to record is true, and a staging file is one of its file.
Outcomes ==
    /\ \A k \in Keys : book[k].st = "SUCCESS" => \E t \in Targets : have[<<t, k[1]>>] # "none"
    /\ \A k \in Keys : work[k].pc = "status" => work[k].out \in {"SUCCESS", "FAILURE", "TORESUME", "ABORTED"}
    /\ \A k \in Keys : work[k].pc = "status" /\ work[k].out = "SUCCESS" => have[<<work[k].t, k[1]>>] # "none"
    /\ \A k \in Keys : work[k].pc = "insert" => work[k].out \in {"part", "full", "mixed"}
OwnStaging ==
    /\ \A k \in Keys : book[k].sg \in Keys => book[k].sg[1] = k[1]
    /\ \A k \in Keys : work[k].pc # "none" => work[k].sg \in Keys /\ work[k].sg[1] = k[1]

\* A file has one entry that will still be fetched, or two while the entry to be resumed has
\* been copied and not yet retired.
OneLive ==
    \A k, l \in Keys : k[1] = l[1] /\ k[1] \notin shaken /\ Live(k) /\ Live(l) /\ k # l =>
        mst.pc = "retire" /\ \/ k[2] = mst.i /\ book[l].st = "TORESUME"
                             \/ l[2] = mst.i /\ book[k].st = "TORESUME"

\* No target has the file of such an entry, until the worker has inserted its row.
Stored(k) == work[k].pc = "status" /\ work[k].out = "SUCCESS"
Absent(f) == \A t \in Targets : have[<<t, f>>] = "none"
LiveAbsent == \A k \in Keys : k[1] \notin shaken /\ Live(k) => Stored(k) \/ Absent(k[1])

\* The entry of a file in a queue is READY, that of a file with a worker FETCHING.
InQueue == \A k \in Keys, t \in Targets : k[1] \notin shaken /\ k[1] \in tasks[<<k[2], t>>] => book[k].st = "READY"
AtWork == \A k \in Keys : k[1] \notin shaken /\ work[k].pc # "none" => book[k].st = "FETCHING"

\* A worker alone with its staging file finds what it wrote.
StagingOK ==
    \A k \in Keys : k[1] \notin shaken =>
        /\ work[k].pc = "fetch" => stage[work[k].sg] = "part"
        /\ work[k].pc = "move" => stage[work[k].sg] = "full"
        /\ work[k].pc = "insert" => work[k].out = "full"

\* A file is stored on one target, as it was fetched.
StoredOnce ==
    \A f \in Files \ shaken :
        /\ \A t, u \in Targets : have[<<t, f>>] # "none" /\ have[<<u, f>>] # "none" => t = u
        /\ \A t \in Targets : have[<<t, f>>] # "mixed"

\* What concerns single entries, their workers and their files; what concerns iterations
FileParts == /\ Queued /\ Handled /\ Outcomes /\ OwnStaging
             /\ LiveAbsent /\ InQueue /\ AtWork /\ StagingOK /\ StoredOnce
IInv == Shape /\ FileParts /\ Asked /\ ToSend /\ NewIteration /\ OneLive

\* There is one MIRRTABLE at a time as long as no second one has started.
Tabled == master \in [Tables -> MRec]
Alone == master[2].pc = "idle"

USE DEF MRec

\* What an assignment to the first MIRRTABLE does.
LEMMA OneStep ==
    Tabled => /\ \A x : master' = [master EXCEPT ![1] = x] => mst' = x
              /\ \A x : master' = [master EXCEPT ![1].pc = x] => mst' = [mst EXCEPT !.pc = x]
              /\ \A x : master' = [master EXCEPT ![1].any = x] => mst' = [mst EXCEPT !.any = x]
              /\ \A x, y : master' = [master EXCEPT ![1].pc = x, ![1].hosts = y]
                     => mst' = [mst EXCEPT !.pc = x, !.hosts = y]
<1>. SUFFICES ASSUME Tabled PROVE OneStep!2
  OBVIOUS
<1>1. 1 \in DOMAIN master
  BY DEF Tabled, Tables
<1>2. \A x : master' = [master EXCEPT ![1] = x] => mst' = x
  BY <1>1 DEF mst
<1>3. \A x : master' = [master EXCEPT ![1].pc = x] => mst' = [mst EXCEPT !.pc = x]
  BY <1>1 DEF mst
<1>4. \A x : master' = [master EXCEPT ![1].any = x] => mst' = [mst EXCEPT !.any = x]
  BY <1>1 DEF mst
<1>5. \A x, y : master' = [master EXCEPT ![1].pc = x, ![1].hosts = y]
                     => mst' = [mst EXCEPT !.pc = x, !.hosts = y]
  BY <1>1 DEF mst
<1>. QED
  BY <1>2, <1>3, <1>4, <1>5

-----------------------------------------------------------------------------
(***************************************************************************)
(* Keys, and the number of the next iteration.                             *)
(***************************************************************************)

\* A key is a file and an iteration.
LEMMA KeyParts ==
    /\ \A k \in Keys : k[1] \in Files /\ k[2] \in Iters /\ k = <<k[1], k[2]>>
    /\ \A f \in Files, i \in Iters : <<f, i>> \in Keys /\ <<f, i>>[1] = f /\ <<f, i>>[2] = i
    /\ \A k, l \in Keys : k[1] = l[1] /\ k[2] = l[2] => k = l
  BY DEF Keys

\* Iterations are numbers from 1 on.
LEMMA ItersAre ==
    Iters \subseteq Nat /\ \A i \in Iters : i > 0 /\ i <= MaxIter
  BY MirroringConfig DEF Iters

\* A bounded set of numbers has a greatest one.
LEMMA Greatest ==
    ASSUME NEW S \in SUBSET Nat, S # {}, NEW b \in Nat, \A x \in S : x <= b
    PROVE  \E m \in S : \A x \in S : x <= m
<1>. DEFINE T == {n \in Nat : \A x \in S : x <= n}
<1>1. PICK m \in T : \A j \in T : ~(<<j, m>> \in OpToRel(<, Nat))
  <2>1. b \in T
    OBVIOUS
  <2>. QED
    BY <2>1, NatLessThanWellFounded, WFMin
<1>2. m \in Nat /\ \A x \in S : x \in Nat /\ x <= m
  BY <1>1
<1>3. ASSUME m \notin S PROVE FALSE
  <2>1. PICK x \in S : TRUE
    OBVIOUS
  <2>2. \A y \in S : y \in Nat /\ y < m
    BY <1>2, <1>3
  <2>3. m - 1 \in Nat /\ \A y \in S : y <= m - 1
    BY <1>2, <2>1, <2>2
  <2>4. m - 1 \in T /\ <<m - 1, m>> \in OpToRel(<, Nat)
    BY <1>2, <2>3 DEF OpToRel
  <2>. QED
    BY <1>1, <2>4
<1>. QED
  BY <1>2, <1>3

\* get_mirroring_iteration returns a number without entries, nor has a later one any.
LEMMA IterationFresh ==
    ASSUME book \in [Keys -> Entry]
    PROVE  /\ get_mirroring_iteration \in Nat /\ get_mirroring_iteration > 0
           /\ \A k \in Keys : k[2] >= get_mirroring_iteration => ~Exists(k)
<1>. DEFINE used == {k[2] : k \in Entries(Status \ {"none"}, None, 0)}
<1>1. used \in SUBSET Nat /\ \A x \in used : x <= MaxIter /\ x > 0
  BY KeyParts, ItersAre DEF Entries
<1>2. \A k \in Keys : Exists(k) => k[2] \in used
  BY DEF Entries, Exists, Entry
<1>3. get_mirroring_iteration = IF used = {} THEN 1 ELSE 1 + CHOOSE i \in used : \A j \in used : j <= i
  BY DEF get_mirroring_iteration
<1>4. \A k \in Keys : k[2] \in Nat
  BY KeyParts, ItersAre
<1>. HIDE DEF used
<1>5. CASE used = {}
  BY <1>2, <1>3, <1>5
<1>6. CASE used # {}
  <2>1. \E m \in used : \A x \in used : x <= m
    BY <1>1, <1>6, MirroringConfig, Greatest
  <2>2. PICK m : m = CHOOSE i \in used : \A j \in used : j <= i
    OBVIOUS
  <2>3. m \in used /\ \A j \in used : j <= m
    BY <2>1, <2>2
  <2>4. get_mirroring_iteration = 1 + m
    BY <1>3, <1>6, <2>2
  <2>. QED
    BY <1>1, <1>2, <1>4, <2>3, <2>4
<1>. QED
  BY <1>5, <1>6

\* A new iteration: its entries are LOCKED, for files that are missing.
Enters(i) ==
    /\ i \in Iters /\ ~Active /\ Active' /\ mst'.i = i /\ ~mst'.any /\ mst'.pc = "resume"
    /\ \A k \in Keys : k[2] >= i => ~Exists(k)
    /\ \A k \in Keys : book'[k] = book[k] \/ (k[2] = i /\ k[1] \in Missing /\ book'[k] = [NoEntry EXCEPT !.st = "LOCKED"])
    /\ mst' = [Idle EXCEPT !.pc = "resume", !.i = i]
    /\ book' = insert_missing(i)
    /\ UNCHANGED <<src, have, stage, online, exec, call, tasks, work, shaken, events>>

LEMMA PopulateEnters ==
    ASSUME IInv, Tabled, Alone, populate_mirroring_bookkeeping_table(1) PROVE \E i \in Iters : Enters(i)
<1>1. book \in [Keys -> Entry]
  BY DEF IInv, Shape
<1>2. PICK i : i = get_mirroring_iteration
  OBVIOUS
<1>3. i \in Nat /\ i > 0 /\ \A k \in Keys : k[2] >= i => ~Exists(k)
  BY <1>1, <1>2, IterationFresh
<1>4. /\ mst.pc = "idle" /\ i <= MaxIter /\ book' = insert_missing(i)
      /\ mst' = [Idle EXCEPT !.pc = "resume", !.i = i]
      /\ UNCHANGED <<src, have, stage, online, exec, call, tasks, work, shaken, events>>
  <2>1. /\ mst.pc = "idle" /\ i <= MaxIter /\ book' = insert_missing(i)
        /\ master' = [master EXCEPT ![1] = [Idle EXCEPT !.pc = "resume", !.i = i]]
        /\ UNCHANGED <<src, have, stage, online, exec, call, tasks, work>>
    BY <1>2 DEF populate_mirroring_bookkeeping_table, Starts, mst
  <2>2. UNCHANGED <<shaken, events>>
    BY <2>1 DEF populate_mirroring_bookkeeping_table, Starts, Alone, Tables, mst
  <2>3. PICK x : x = [Idle EXCEPT !.pc = "resume", !.i = i]
    OBVIOUS
  <2>4. mst' = x
    BY <2>1, <2>3, OneStep
  <2>. QED
    BY <2>1, <2>2, <2>3, <2>4
<1>5. i \in Iters
  BY <1>3, <1>4, MirroringConfig DEF Iters
<1>6. \A k \in Keys : book'[k] = book[k] \/ (k[2] = i /\ k[1] \in Missing /\ book'[k] = [NoEntry EXCEPT !.st = "LOCKED"])
  BY <1>4 DEF insert_missing
<1>. QED
  BY <1>3, <1>4, <1>5, <1>6 DEF Enters, Active, Idle

-----------------------------------------------------------------------------
(***************************************************************************)
(* UPDATE statements that end entries, or have them resumed.               *)
(***************************************************************************)

\* A worker or a queue has the file of the entry.
InHand(k) == work[k].pc # "none" \/ \E t \in Targets : k[1] \in tasks[<<k[2], t>>]

Changed(k) ==
    /\ \/ Exists(k) /\ book'[k].st \in {"ABORTED", "FAILURE"}
       \/ book[k].st = "FETCHING" /\ book'[k].st = "TORESUME"
    /\ book'[k].t = book[k].t /\ book'[k].sg \in {book[k].sg, None}

\* Entries are changed so, and those of a worker or a queue are shaken.
TableStep ==
    /\ book' \in [Keys -> Entry]
    /\ \A k \in Keys : book'[k] = book[k] \/ (Changed(k) /\ (InHand(k) => k[1] \in shaken'))
    /\ shaken \subseteq shaken' /\ shaken' \subseteq Files
    /\ \A p \in Iters \X Targets : call[p] = "run" => call'[p] = "run"
    /\ Active' => Active /\ mst'.i = mst.i
    /\ UNCHANGED <<have, stage, tasks, work>>

\* Such a step keeps what concerns single entries.
LEMMA TableKeeps ==
    ASSUME IInv, TableStep PROVE FileParts'
<1>. USE KeyParts
<1>1. Queued'
  BY DEF IInv, FileParts, Queued, TableStep, Changed, Exists
<1>2. Handled'
  BY DEF IInv, FileParts, Handled, TableStep, Changed, Exists
<1>3. Outcomes'
  BY DEF IInv, FileParts, Outcomes, TableStep, Changed
<1>4. OwnStaging'
  BY MirroringConfig DEF IInv, FileParts, OwnStaging, TableStep, Changed
<1>5. LiveAbsent'
  <2>1. \A k \in Keys : Live(k)' => Live(k)
    BY DEF TableStep, Changed, Live
  <2>. QED
    BY <2>1 DEF IInv, FileParts, LiveAbsent, Stored, Absent, TableStep
<1>6. InQueue'
  BY DEF IInv, FileParts, InQueue, TableStep, InHand
<1>7. AtWork'
  BY DEF IInv, FileParts, AtWork, TableStep, InHand
<1>8. StagingOK'
  BY DEF IInv, FileParts, StagingOK, TableStep
<1>9. StoredOnce'
  BY DEF IInv, FileParts, StoredOnce, TableStep
<1>. QED
  BY <1>1, <1>2, <1>3, <1>4, <1>5, <1>6, <1>7, <1>8, <1>9 DEF FileParts

\* No request is sent.
Quiet ==
    /\ UNCHANGED call /\ \A i \in Iters : "send" \in exec'[i] => "send" \in exec[i]
    /\ Active' /\ mst'.any => mst.any /\ mst'.pc = "assign"

\* Then what concerns iterations is kept too.
LEMMA QuietKeeps ==
    ASSUME IInv, TableStep, Quiet PROVE Asked' /\ ToSend' /\ NewIteration'
<1>. USE KeyParts
<1>1. \A k \in Keys : Exists(k)' <=> Exists(k)
  BY DEF TableStep, Changed, Exists
<1>2. \A k \in Keys : book'[k].t = book[k].t
  BY DEF TableStep, Changed
<1>3. Asked'
  BY <1>1, <1>2 DEF IInv, Asked, Quiet
<1>4. ToSend'
  BY <1>1 DEF IInv, ToSend, Quiet
<1>5. ASSUME Active' PROVE NewIteration'
  <2>1. Active /\ mst'.i = mst.i
    BY <1>5 DEF TableStep
  <2>2. \A k \in Keys : k[2] = mst.i => book'[k].st \notin {"FETCHING", "TORESUME"}
    BY <2>1 DEF IInv, NewIteration, TableStep, Changed
  <2>. QED
    BY <1>1, <1>5, <2>1, <2>2 DEF IInv, NewIteration, Quiet
<1>. QED
  BY <1>3, <1>4, <1>5 DEF NewIteration

\* As long as the master stays where it is there is still one live entry of a file.
LEMMA TableOneLive ==
    ASSUME IInv, TableStep, UNCHANGED mst PROVE OneLive'
<1>1. \A k \in Keys : Live(k)' => Live(k)
  BY DEF TableStep, Changed, Live
<1>2. \A k \in Keys : book[k].st = "TORESUME" /\ Live(k)' => book'[k].st = "TORESUME"
  BY DEF TableStep, Changed, Live
<1>. QED
  BY <1>1, <1>2 DEF IInv, OneLive, TableStep

\* The table has its shape.
LEMMA TableShape ==
    ASSUME IInv, TableStep
    PROVE  /\ book' \in [Keys -> Entry] /\ work' \in [Keys -> Fetch]
           /\ \A k \in Keys : book'[k].st \in {"READY", "FETCHING", "TORESUME"} => book'[k].t # None
           /\ UNCHANGED <<have, stage, tasks>> /\ shaken' \subseteq Files
  BY DEF IInv, Shape, TableStep, Changed

\* The entries ks get status st.
Sets(ks, st) ==
    /\ book' \in [Keys -> Entry]
    /\ \A k \in Keys : k \notin ks => book'[k] = book[k]
    /\ \A k \in Keys : k \in ks => /\ book'[k].st = st /\ book'[k].t = book[k].t
                                   /\ book'[k].sg \in {book[k].sg, None}

\* What Updated does to an entry.
LEMMA UpdatedIs ==
    ASSUME book \in [Keys -> Entry], NEW ks, NEW st \in Status,
           book' = Updated(ks, st, TRUE) \/ book' = Updated(ks, st, FALSE)
    PROVE  Sets(ks, st)
<1>. DEFINE with(k) == [book[k] EXCEPT !.st = st, !.sg = None]
            keep(k) == [book[k] EXCEPT !.st = st, !.sg = book[k].sg]
<1>1. \A k \in Keys : /\ with(k) \in Entry /\ with(k).st = st /\ with(k).t = book[k].t /\ with(k).sg = None
                      /\ keep(k) \in Entry /\ keep(k).st = st /\ keep(k).t = book[k].t
                      /\ keep(k).sg = book[k].sg
  BY DEF Entry
<1>2. \/ book' = [k \in Keys |-> IF k \notin ks THEN book[k] ELSE with(k)]
      \/ book' = [k \in Keys |-> IF k \notin ks THEN book[k] ELSE keep(k)]
  BY DEF Updated
<1>. HIDE DEF with, keep
<1>. QED
  BY <1>1, <1>2 DEF Sets

\* What clean_up_mirroring does to an entry.
LEMMA CleanUpIs ==
    ASSUME book \in [Keys -> Entry], NEW h \in Targets \cup {None}
    PROVE  /\ CleanUpTable(h) \in [Keys -> Entry]
           /\ \A k \in Keys : book[k].st = "READY" => CleanUpTable(h)[k].st = "ABORTED"
           /\ \A k \in Keys :
                 \/ CleanUpTable(h)[k] = book[k]
                 \/ /\ \/ book[k].st \in {"READY", "LOCKED"} /\ CleanUpTable(h)[k].st = "ABORTED"
                       \/ book[k].st = "FETCHING" /\ CleanUpTable(h)[k].st = "TORESUME"
                    /\ CleanUpTable(h)[k].t = book[k].t /\ CleanUpTable(h)[k].sg \in {book[k].sg, None}
<1>. DEFINE aborted == Entries({"READY"}, None, 0) \cup (IF h = None THEN {} ELSE Entries({"LOCKED"}, h, 0))
            broken == IF h = None THEN {} ELSE Entries({"FETCHING"}, h, 0)
            ends(k) == [book[k] EXCEPT !.st = "ABORTED", !.sg = None]
            again(k) == [book[k] EXCEPT !.st = "TORESUME"]
<1>1. CleanUpTable(h) = [k \in Keys |-> IF k \in aborted THEN ends(k) ELSE IF k \in broken THEN again(k) ELSE book[k]]
  BY DEF CleanUpTable
<1>2. \A k \in Keys : /\ k \in aborted => book[k].st \in {"READY", "LOCKED"}
                      /\ book[k].st = "READY" => k \in aborted
                      /\ k \in broken => book[k].st = "FETCHING"
  BY DEF Entries
<1>3. \A k \in Keys : /\ ends(k) \in Entry /\ ends(k).st = "ABORTED" /\ ends(k).t = book[k].t /\ ends(k).sg = None
                      /\ again(k) \in Entry /\ again(k).st = "TORESUME" /\ again(k).t = book[k].t
                      /\ again(k).sg = book[k].sg
  BY DEF Entry, Status
<1>. HIDE DEF aborted, broken, ends, again
<1>4. CleanUpTable(h) \in [Keys -> Entry]
  BY <1>1, <1>3
<1>. QED
  BY <1>1, <1>2, <1>3, <1>4

-----------------------------------------------------------------------------
(***************************************************************************)
(* The steps of MIRRTABLE.                                                 *)
(***************************************************************************)

\* RetireResumed ends entries nobody has in hand.
LEMMA RetireTable ==
    ASSUME IInv, Tabled, RetireResumed(1) PROVE TableStep /\ Quiet /\ \A k \in Keys : k[2] < mst.i => book'[k].st # "TORESUME"
<1>. DEFINE ks == {k \in Entries({"TORESUME"}, None, 0) : k[2] < mst.i}
<1>1. /\ book' = Updated(ks, "FAILURE", TRUE) /\ mst' = [mst EXCEPT !.pc = "limit"] /\ mst.pc = "retire"
      /\ UNCHANGED <<src, have, stage, online, exec, call, tasks, work, shaken, events>>
  BY OneStep DEF RetireResumed, mst
<1>2. \A k \in Keys : k \in ks <=> book[k].st = "TORESUME" /\ k[2] < mst.i
  BY DEF Entries
<1>. HIDE DEF ks
<1>3. book \in [Keys -> Entry] /\ "FAILURE" \in Status
  BY DEF IInv, Shape, Status
<1>4. Sets(ks, "FAILURE")
  BY <1>1, <1>3, UpdatedIs, Zenon
<1>5. \A k \in Keys : book[k].st = "TORESUME" /\ InHand(k) => k[1] \in shaken
  BY KeyParts DEF IInv, FileParts, InQueue, AtWork, InHand
<1>6. mst \in MRec /\ shaken \subseteq Files
  BY DEF IInv, Shape
<1>7. Active /\ Active' /\ mst'.i = mst.i /\ ~mst'.any
  BY <1>1, <1>6 DEF Active, IInv, NewIteration
<1>8. TableStep
  BY <1>1, <1>2, <1>4, <1>5, <1>6, <1>7 DEF TableStep, Changed, Exists, Sets
<1>. QED
  BY <1>1, <1>2, <1>4, <1>7, <1>8 DEF Quiet, Sets

\* The entry to be resumed has been copied; it is retired.
LEMMA RetireKeeps ==
    ASSUME IInv, Tabled, RetireResumed(1) PROVE IInv'
<1>1. TableStep /\ Quiet /\ \A k \in Keys : k[2] < mst.i => book'[k].st # "TORESUME"
  BY RetireTable
<1>2. Shape'
  <2>1. mst' = [mst EXCEPT !.pc = "limit"] /\ UNCHANGED <<src, online, exec, call, events>> /\ mst.pc = "retire"
    BY OneStep DEF RetireResumed, mst
  <2>2. mst \in MRec /\ mst' \in MRec /\ mst'.i = mst.i /\ mst'.pc = "limit"
    BY <2>1 DEF IInv, Shape, MasterSteps
  <2>. QED
    BY <1>1, <2>1, <2>2, TableShape DEF IInv, Shape, Active
<1>3. OneLive'
  <2>1. \A k \in Keys : Live(k)' => Live(k)
    BY <1>1 DEF TableStep, Changed, Live
  <2>2. \A k \in Keys : book[k].st = "TORESUME" => ~Live(k)'
    <3>1. \A k \in Keys : book[k].st = "TORESUME" => k[2] < mst.i
      <4>1. Active /\ mst.i \in Iters
        BY DEF IInv, Shape, RetireResumed, Active, mst
      <4>. QED
        BY <4>1, KeyParts, ItersAre DEF IInv, NewIteration, Exists
    <3>. QED
      BY <1>1, <3>1 DEF TableStep, Changed, Live
  <2>. QED
    BY <1>1, <2>1, <2>2 DEF IInv, OneLive, TableStep
<1>. QED
  BY <1>1, <1>2, <1>3, TableKeeps, QuietKeeps DEF IInv

\* A new iteration is entered.
LEMMA PopulateKeeps ==
    ASSUME IInv, Tabled, Alone, populate_mirroring_bookkeeping_table(1) PROVE IInv'
<1>1. PICK i \in Iters : Enters(i)
  BY PopulateEnters
<1>. DEFINE New(k) == k[2] = i /\ k[1] \in Missing /\ book'[k] = [NoEntry EXCEPT !.st = "LOCKED"]
<1>2. \A k \in Keys : book'[k] = book[k] \/ New(k)
  BY <1>1 DEF Enters
<1>3. \A k \in Keys : k[2] >= i => ~Exists(k)
  BY <1>1 DEF Enters
<1>4. \A k \in Keys : New(k) => /\ ~Exists(k) /\ book'[k].st = "LOCKED" /\ book'[k].t = None /\ book'[k].sg = None
                                /\ book'[k] \in Entry
  BY <1>3, KeyParts, ItersAre DEF NoEntry, Entry, Status
<1>5. \A k \in Keys : New(k) => Absent(k[1]) /\ \A l \in Keys : l[1] = k[1] => book[l].st \notin {"READY", "TORESUME", "FETCHING"}
  BY KeyParts DEF Missing, target_files, Entries, Absent, IInv, Shape
<1>6. /\ ~Active /\ Active' /\ mst'.i = i /\ ~mst'.any /\ mst'.pc = "resume"
      /\ mst' = [Idle EXCEPT !.pc = "resume", !.i = i]
      /\ UNCHANGED <<src, have, stage, online, exec, call, tasks, work, shaken, events>>
  BY <1>1 DEF Enters
<1>7. book' \in [Keys -> Entry]
  <2>1. book' = insert_missing(i) /\ book \in [Keys -> Entry]
    BY <1>1 DEF Enters, IInv, Shape
  <2>2. DOMAIN book' = Keys /\ book' = [k \in Keys |-> book'[k]]
    BY <2>1 DEF insert_missing
  <2>. QED
    BY <1>2, <1>4, <2>1, <2>2
<1>. HIDE DEF New
<1>8. Shape'
  <2>1. mst' \in MRec
    <3>1. mst' = [pc |-> "resume", i |-> i, hosts |-> {}, any |-> FALSE]
      BY <1>6 DEF Idle
    <3>2. i \in 0 .. MaxIter
      BY ItersAre, MirroringConfig
    <3>. QED
      BY <3>1, <3>2 DEF MasterSteps
  <2>2. \A k \in Keys : book'[k].st \in {"READY", "FETCHING", "TORESUME"} => book'[k].t # None
    BY <1>2, <1>4 DEF IInv, Shape
  <2>. QED
    BY <1>6, <1>7, <2>1, <2>2 DEF IInv, Shape
<1>9. \A k \in Keys : Exists(k) => book'[k] = book[k]
  BY <1>2, <1>4
<1>10. \A k \in Keys : InHand(k) => Exists(k)
  BY KeyParts DEF InHand, IInv, FileParts, Queued, Handled
<1>11. Queued' /\ Handled'
  BY <1>6, <1>9, KeyParts DEF IInv, FileParts, Queued, Handled, Exists
<1>12. Outcomes'
  BY <1>2, <1>4, <1>6 DEF IInv, FileParts, Outcomes
<1>13. OwnStaging'
  BY <1>2, <1>4, <1>6, MirroringConfig DEF IInv, FileParts, OwnStaging
<1>14. \A k \in Keys : Live(k)' => New(k) \/ Live(k)
  BY <1>2, <1>3, <1>6, KeyParts, ItersAre DEF Live, Exists
<1>15. LiveAbsent'
  BY <1>5, <1>6, <1>14 DEF IInv, FileParts, LiveAbsent, Stored, Absent
<1>16. InQueue' /\ AtWork'
  BY <1>6, <1>9, <1>10 DEF IInv, FileParts, InQueue, AtWork, InHand
<1>17. StagingOK' /\ StoredOnce'
  BY <1>6 DEF IInv, FileParts, StagingOK, StoredOnce
<1>18. Asked' /\ ToSend'
  BY <1>6, <1>9 DEF IInv, Asked, ToSend, Exists
<1>19. NewIteration'
  <2>1. \A j \in Iters, t \in Targets : j >= i => call[<<j, t>>] = "none" /\ "send" \notin exec[j]
    BY <1>3, KeyParts DEF IInv, Asked, ToSend
  <2>2. \A k \in Keys : k[2] > i => ~Exists(k)'
    BY <1>2, <1>3, KeyParts, ItersAre DEF New, Exists
  <2>3. \A k \in Keys : k[2] = i => book'[k].st \notin {"FETCHING", "TORESUME"}
    BY <1>2, <1>3, <1>4, KeyParts, ItersAre DEF Exists
  <2>4. \A j \in Iters : j >= i => "send" \notin exec[j]
    BY <1>3, KeyParts DEF IInv, ToSend
  <2>. QED
    BY <1>6, <2>1, <2>2, <2>3, <2>4 DEF NewIteration
<1>20. OneLive'
  <2>1. \A k, l \in Keys : New(k) /\ k[1] = l[1] /\ Live(l)' => l = k
    <3>1. \A l \in Keys : Live(l) => book[l].st \in {"READY", "TORESUME", "FETCHING"}
      BY <1>6 DEF Live
    <3>2. \A k, l \in Keys : New(k) /\ New(l) /\ k[1] = l[1] => l = k
      BY KeyParts DEF New
    <3>. QED
      BY <1>5, <1>14, <3>1, <3>2
  <2>2. mst.pc # "retire" /\ mst'.pc # "retire" /\ UNCHANGED shaken
    BY <1>6 DEF Active
  <2>. QED
    BY <1>14, <2>1, <2>2 DEF IInv, OneLive
<1>. QED
  BY <1>8, <1>11, <1>12, <1>13, <1>15, <1>16, <1>17, <1>18, <1>19, <1>20 DEF IInv, FileParts

\* A request runs for what a worker or a queue has.
LEMMA InHandRuns ==
    ASSUME IInv PROVE \A k \in Keys : InHand(k) => \E t \in Targets : call[<<k[2], t>>] = "run"
<1>. SUFFICES ASSUME NEW k \in Keys, InHand(k) PROVE \E t \in Targets : call[<<k[2], t>>] = "run"
  OBVIOUS
<1>1. CASE work[k].pc # "none"
  BY <1>1 DEF IInv, FileParts, Handled
<1>2. CASE \E t \in Targets : k[1] \in tasks[<<k[2], t>>]
  BY <1>2 DEF IInv, FileParts, Queued
<1>. QED
  BY <1>1, <1>2 DEF InHand

\* A step of the master that changes entries of its own iteration only.
MasterStep ==
    /\ Active /\ Active' /\ mst'.i = mst.i
    /\ book' \in [Keys -> Entry]
    /\ \A k \in Keys : \/ book'[k] = book[k]
                       \/ k[2] = mst.i /\ book'[k] = NoEntry
                       \/ /\ k[2] = mst.i /\ book'[k].st = "READY" /\ book'[k].t # None
                          /\ book'[k].sg \in Keys => book'[k].sg[1] = k[1]
    /\ mst'.any => mst'.pc = "assign" /\ \E k \in Keys : k[2] = mst.i /\ Exists(k)'
    /\ UNCHANGED <<src, have, stage, online, exec, call, tasks, work, shaken, events>>

\* It keeps what others rely on; what is left is who is live.
LEMMA MasterKeeps ==
    ASSUME IInv, MasterStep,
           mst' \in MRec,
           LiveAbsent', OneLive'
    PROVE  IInv'
<1>. USE KeyParts
<1>1. Active /\ Active' /\ mst'.i = mst.i /\ mst.i \in Iters
  BY DEF IInv, Shape, MasterStep
<1>2. \A k \in Keys : k[2] # mst.i => book'[k] = book[k]
  BY DEF MasterStep
<1>3. \A i \in Iters : i >= mst.i => "send" \notin exec[i] /\ \A t \in Targets : call[<<i, t>>] = "none"
  BY <1>1 DEF IInv, NewIteration
<1>4. mst.i >= mst.i
  BY <1>1, ItersAre
<1>5. \A k \in Keys : InHand(k) => book'[k] = book[k]
  <2>1. \A k \in Keys : InHand(k) => \E t \in Targets : call[<<k[2], t>>] = "run"
    BY InHandRuns
  <2>. QED
    BY <1>1, <1>2, <1>3, <1>4, <2>1
<1>6. UNCHANGED <<src, have, stage, online, exec, call, tasks, work, shaken, events>>
  BY DEF MasterStep
<1>7. Shape'
  <2>1. \A k \in Keys : book'[k].st \in {"READY", "FETCHING", "TORESUME"} => book'[k].t # None
    BY DEF MasterStep, IInv, Shape, NoEntry
  <2>2. book' \in [Keys -> Entry]
    BY DEF MasterStep
  <2>. QED
    BY <1>1, <1>6, <2>1, <2>2 DEF IInv, Shape
<1>8. Queued' /\ Handled'
  BY <1>5, <1>6 DEF IInv, FileParts, Queued, Handled, InHand, Exists
<1>9. Outcomes'
  <2>1. \A k \in Keys : book'[k].st = "SUCCESS" => book[k].st = "SUCCESS"
    BY DEF MasterStep, NoEntry
  <2>. QED
    BY <1>6, <2>1 DEF IInv, FileParts, Outcomes
<1>10. OwnStaging'
  <2>1. \A k \in Keys : book'[k].sg \in Keys => book'[k].sg[1] = k[1]
    BY MirroringConfig DEF MasterStep, NoEntry, IInv, FileParts, OwnStaging
  <2>. QED
    BY <1>6, <2>1 DEF IInv, FileParts, OwnStaging
<1>11. InQueue' /\ AtWork'
  BY <1>5, <1>6 DEF IInv, FileParts, InQueue, AtWork, InHand
<1>12. StagingOK' /\ StoredOnce'
  BY <1>6 DEF IInv, FileParts, StagingOK, StoredOnce
<1>13. \A i \in Iters : i # mst.i => \A k \in Keys : k[2] = i => book'[k] = book[k]
  BY <1>2
<1>14. Asked'
  BY <1>1, <1>3, <1>4, <1>6, <1>13 DEF IInv, Asked, Exists
<1>15. ToSend'
  BY <1>1, <1>3, <1>4, <1>6, <1>13 DEF IInv, ToSend, Exists
<1>16. NewIteration'
  <2>1. \A k \in Keys : k[2] > mst.i => ~Exists(k)'
    <3>1. \A k \in Keys : k[2] > mst.i => k[2] # mst.i
      BY <1>1, ItersAre
    <3>. QED
      BY <1>1, <1>2, <3>1 DEF IInv, NewIteration, Exists
  <2>2. \A k \in Keys : k[2] = mst.i => book'[k].st \notin {"FETCHING", "TORESUME"}
    BY <1>1 DEF MasterStep, NoEntry, IInv, NewIteration
  <2>3. mst'.any => mst'.pc = "assign" /\ \E k \in Keys : k[2] = mst.i /\ Exists(k)'
    BY DEF MasterStep
  <2>. QED
    BY <1>1, <1>3, <1>6, <2>1, <2>2, <2>3 DEF NewIteration
<1>. QED
  BY <1>7, <1>8, <1>9, <1>10, <1>11, <1>12, <1>14, <1>15, <1>16 DEF IInv, FileParts

\* An entry to be resumed gets a READY copy in the iteration.
LEMMA ReassignKeeps ==
    ASSUME IInv, Tabled, reassign_broken_downloads(1) PROVE IInv'
<1>. USE KeyParts
<1>1. PICK pick \in [Files -> Keys] :
          /\ \A f \in Files : Resumable(f) # {} => pick[f] \in Resumable(f)
          /\ book' = [k \in Keys |-> IF k[2] = mst.i /\ Resumable(k[1]) # {}
                                     THEN [book[pick[k[1]]] EXCEPT !.st = "READY"] ELSE book[k]]
  BY OneStep DEF reassign_broken_downloads, mst
<1>2. /\ mst.pc = "resume" /\ mst' = [mst EXCEPT !.pc = "retire"]
      /\ UNCHANGED <<src, have, stage, online, exec, call, tasks, work, shaken, events>>
  BY OneStep DEF reassign_broken_downloads, mst
<1>3. /\ mst \in MRec
      /\ book \in [Keys -> Entry] /\ \A k \in Keys : book[k].st = "TORESUME" => book[k].t # None
      /\ Active => mst.i \in Iters
  BY DEF IInv, Shape
<1>4. /\ Active /\ Active' /\ mst'.i = mst.i /\ mst'.pc = "retire" /\ ~mst'.any /\ mst.i \in Iters
      /\ mst' \in MRec
  BY <1>2, <1>3 DEF Active, IInv, NewIteration, MasterSteps
<1>. DEFINE Copied(k) == k[2] = mst.i /\ Resumable(k[1]) # {}
            copy(k) == [book[pick[k[1]]] EXCEPT !.st = "READY"]
<1>5. \A f \in Files, l \in Keys : l \in Resumable(f) <=> book[l].st = "TORESUME" /\ l[1] = f
  BY DEF Resumable, Entries
<1>6. \A k \in Keys : Copied(k) => LET r == pick[k[1]] IN r \in Keys /\ r[1] = k[1] /\ book[r].st = "TORESUME"
  BY <1>1, <1>5
<1>7. \A k \in Keys : Copied(k) => /\ copy(k) \in Entry /\ copy(k).st = "READY" /\ copy(k).t = book[pick[k[1]]].t
                                   /\ copy(k).sg = book[pick[k[1]]].sg
  BY <1>3, <1>6, SMTT(30) DEF Entry, Status
<1>8. book' = [k \in Keys |-> IF Copied(k) THEN copy(k) ELSE book[k]]
  BY <1>1
<1>9. \A k \in Keys : Copied(k) => k[2] = mst.i
  OBVIOUS
<1>. HIDE DEF Copied, copy
<1>10. book' \in [Keys -> Entry] /\ \A k \in Keys : book'[k] = IF Copied(k) THEN copy(k) ELSE book[k]
  BY <1>3, <1>7, <1>8
<1>11. \A k \in Keys : Copied(k) => /\ book'[k].st = "READY" /\ book'[k].t # None
                                    /\ book'[k].sg \in Keys => book'[k].sg[1] = k[1]
  BY <1>3, <1>6, <1>7, <1>10 DEF IInv, FileParts, OwnStaging
<1>12. MasterStep
  BY <1>2, <1>4, <1>9, <1>10, <1>11 DEF MasterStep
<1>13. \A k \in Keys : Copied(k) => Live(pick[k[1]]) /\ (k[1] \notin shaken => ~Stored(pick[k[1]]))
  BY <1>6 DEF Live, Stored, IInv, FileParts, AtWork
<1>14. \A k \in Keys : Live(k)' => Copied(k) \/ (Live(k) /\ book'[k] = book[k])
  BY <1>2, <1>4, <1>10 DEF Live
<1>15. LiveAbsent'
  BY <1>2, <1>6, <1>13, <1>14 DEF IInv, FileParts, LiveAbsent, Stored, Absent
<1>16. OneLive'
  <2>1. \A k, l \in Keys : Live(k) /\ Live(l) /\ k[1] = l[1] /\ k[1] \notin shaken => k = l
    BY <1>2 DEF IInv, OneLive
  <2>2. \A k, l \in Keys : Copied(k) /\ Live(l) /\ k[1] = l[1] /\ k[1] \notin shaken => book[l].st = "TORESUME"
    <3>. SUFFICES ASSUME NEW k \in Keys, NEW l \in Keys, Copied(k), Live(l), k[1] = l[1], k[1] \notin shaken
                  PROVE  book[l].st = "TORESUME"
      OBVIOUS
    <3>1. PICK r \in Keys : r = pick[k[1]] /\ r[1] = k[1] /\ book[r].st = "TORESUME" /\ Live(r)
      BY <1>6, <1>13
    <3>. QED
      BY <2>1, <3>1
  <2>3. \A k, l \in Keys : Copied(k) /\ Copied(l) /\ k[1] = l[1] => k = l
    BY <1>9
  <2>. QED
    BY <1>2, <1>4, <1>9, <1>14, <2>1, <2>2, <2>3 DEF OneLive
<1>. QED
  BY <1>4, <1>12, <1>15, <1>16, MasterKeeps

\* Entries above the limit are deleted.
LEMMA LimitKeeps ==
    ASSUME IInv, Tabled, limit_mirrored_files(1) PROVE IInv'
<1>. USE KeyParts
<1>1. /\ mst.pc = "limit" /\ mst' = [mst EXCEPT !.pc = "hosts"]
      /\ UNCHANGED <<src, have, stage, online, exec, call, tasks, work, shaken, events>>
  BY OneStep DEF limit_mirrored_files, mst
<1>2. /\ mst \in MRec
      /\ book \in [Keys -> Entry]
  BY DEF IInv, Shape
<1>3. /\ Active /\ Active' /\ mst'.i = mst.i /\ mst'.pc # "retire" /\ ~mst'.any /\ mst.pc # "retire"
      /\ mst' \in MRec
  BY <1>1, <1>2 DEF Active, IInv, NewIteration, MasterSteps
<1>4. NoEntry \in Entry
  BY DEF NoEntry, Entry, Status
<1>5. book' \in [Keys -> Entry] /\ \A k \in Keys : book'[k] = book[k] \/ (k[2] = mst.i /\ book'[k] = NoEntry)
  <2>1. CASE UNCHANGED book
    BY <1>2, <2>1
  <2>2. CASE \E gone \in SUBSET Entries(Status \ {"none"}, None, mst.i) : book' = Deleted(gone)
    <3>1. PICK gone \in SUBSET Entries(Status \ {"none"}, None, mst.i) : book' = Deleted(gone)
      BY <2>2
    <3>2. \A k \in gone : k[2] = mst.i
      BY <1>3, <3>1, ItersAre DEF Entries, IInv, Shape
    <3>. QED
      BY <1>2, <1>4, <3>1, <3>2 DEF Deleted
  <2>3. UNCHANGED book \/ \E gone \in SUBSET Entries(Status \ {"none"}, None, mst.i) : book' = Deleted(gone)
    BY OneStep DEF limit_mirrored_files, mst
  <2>. QED
    BY <2>1, <2>2, <2>3
<1>6. MasterStep
  BY <1>1, <1>3, <1>5 DEF MasterStep
<1>7. \A k \in Keys : Live(k)' => Live(k)
  BY <1>3, <1>5 DEF Live, NoEntry
<1>8. LiveAbsent' /\ OneLive'
  BY <1>1, <1>3, <1>7 DEF IInv, FileParts, LiveAbsent, Stored, Absent, OneLive
<1>. QED
  BY <1>3, <1>6, <1>8, MasterKeeps

\* A file is assigned to a target.
LEMMA AssignKeeps ==
    ASSUME IInv, Tabled, NEW f \in Files, NEW t \in Targets, AssignFile(1, f, t) PROVE IInv'
<1>. USE KeyParts
<1>. DEFINE k0 == <<f, mst.i>>
            e0 == [st |-> "READY", t |-> t, sg |-> "vol"]
<1>1. /\ mst.pc = "assign" /\ book[k0].st = "LOCKED" /\ book' = [book EXCEPT ![k0] = e0]
      /\ mst' = [mst EXCEPT !.any = TRUE]
      /\ UNCHANGED <<src, have, stage, online, exec, call, tasks, work, shaken, events>>
  BY OneStep DEF AssignFile, mst
<1>2. /\ mst \in MRec
      /\ book \in [Keys -> Entry] /\ (Active => mst.i \in Iters)
  BY DEF IInv, Shape
<1>3. /\ Active /\ Active' /\ mst'.i = mst.i /\ mst'.pc = "assign" /\ mst.i \in Iters
      /\ mst' \in MRec
  <2>1. TRUE \in BOOLEAN /\ mst' = [mst EXCEPT !.any = TRUE]
    BY <1>1
  <2>2. mst' \in MRec
    BY <1>2, <2>1, ZenonT(60)
  <2>3. mst'.i = mst.i /\ mst'.pc = mst.pc
    BY <1>2, <2>1, ZenonT(60)
  <2>. QED
    BY <1>1, <1>2, <2>2, <2>3 DEF Active
<1>4. k0 \in Keys /\ k0[2] = mst.i /\ k0[1] = f
  BY <1>3
<1>5. e0 \in Entry /\ e0.st = "READY" /\ e0.t = t /\ e0.sg = "vol"
  BY DEF Entry, Status
<1>. HIDE DEF k0, e0
<1>6. book' \in [Keys -> Entry] /\ book'[k0] = e0 /\ \A k \in Keys : k # k0 => book'[k] = book[k]
  <2>1. PICK k1, e1 : k1 = k0 /\ e1 = e0
    OBVIOUS
  <2>2. book' = [book EXCEPT ![k1] = e1] /\ k1 \in Keys /\ e1 \in Entry
    BY <1>1, <1>4, <1>5, <2>1
  <2>. QED
    BY <1>2, <2>1, <2>2
<1>7. MasterStep
  <2>1. e0.t # None /\ e0.sg \notin Keys
    BY <1>5, MirroringConfig
  <2>2. \E k \in Keys : k[2] = mst.i /\ Exists(k)'
    BY <1>4, <1>5, <1>6 DEF Exists
  <2>3. \A k \in Keys : \/ book'[k] = book[k]
                        \/ /\ k[2] = mst.i /\ book'[k].st = "READY" /\ book'[k].t # None
                           /\ book'[k].sg \in Keys => book'[k].sg[1] = k[1]
    BY <1>4, <1>5, <1>6, <2>1
  <2>. QED
    BY <1>1, <1>3, <1>6, <2>2, <2>3 DEF MasterStep
<1>8. \A k \in Keys : Live(k)' => Live(k)
  BY <1>1, <1>3, <1>4, <1>5, <1>6 DEF Live
<1>9. LiveAbsent' /\ OneLive'
  BY <1>1, <1>3, <1>8 DEF IInv, FileParts, LiveAbsent, Stored, Absent, OneLive
<1>. QED
  BY <1>3, <1>7, <1>9, MasterKeeps

\* Nothing but the master, the threads, the source and the targets' states has changed.
SameTable == UNCHANGED <<book, have, stage, call, tasks, work, shaken>>

LEMMA SameKeeps ==
    ASSUME IInv, SameTable, Active' => Active /\ mst'.i = mst.i PROVE FileParts' /\ Asked'
<1>1. \A k \in Keys : Live(k)' => Live(k)
  BY DEF Live, SameTable
<1>2. LiveAbsent'
  BY <1>1 DEF IInv, FileParts, LiveAbsent, Stored, Absent, SameTable
<1>3. Queued' /\ Handled' /\ Asked'
  BY DEF IInv, FileParts, Queued, Handled, Asked, Exists, SameTable
<1>4. Outcomes' /\ OwnStaging'
  BY DEF IInv, FileParts, Outcomes, OwnStaging, SameTable
<1>5. InQueue' /\ AtWork' /\ StagingOK' /\ StoredOnce'
  BY DEF IInv, FileParts, InQueue, AtWork, StagingOK, StoredOnce, SameTable
<1>. QED
  BY <1>2, <1>3, <1>4, <1>5 DEF FileParts

\* Without a free host MIRRTABLE ends, else it goes on with the free ones.
LEMMA HostsKeep ==
    ASSUME IInv, Tabled, remove_hosts_without_available_threads(1) PROVE IInv'
<1>1. /\ mst.pc = "hosts"
      /\ mst' = IF AvailableHosts = {} THEN Idle ELSE [mst EXCEPT !.pc = "assign", !.hosts = AvailableHosts]
      /\ UNCHANGED <<src, book, have, stage, online, exec, call, tasks, work, shaken, events>>
  BY OneStep DEF remove_hosts_without_available_threads, mst
<1>2. /\ mst \in MRec
      /\ AvailableHosts \subseteq Targets
  BY DEF IInv, Shape, AvailableHosts
<1>3. ~mst.any
  BY <1>1 DEF IInv, NewIteration, Active
<1>4. /\ mst' \in MRec
      /\ ~mst'.any /\ mst'.pc # "retire" /\ (Active' => Active /\ mst'.i = mst.i)
  <2>1. CASE AvailableHosts = {}
    BY <1>1, <1>2, <2>1, MirroringConfig DEF Idle, MasterSteps, Active
  <2>2. CASE AvailableHosts # {}
    BY <1>1, <1>2, <1>3, <2>2 DEF MasterSteps, Active
  <2>. QED
    BY <2>1, <2>2
<1>5. FileParts' /\ Asked'
  BY <1>1, <1>4, SameKeeps DEF SameTable
<1>6. Shape'
  BY <1>1, <1>4 DEF IInv, Shape
<1>7. ToSend'
  BY <1>1 DEF IInv, ToSend, Exists
<1>8. NewIteration'
  BY <1>1, <1>4 DEF IInv, NewIteration, Exists
<1>9. \A k \in Keys : Live(k)' => Live(k)
  BY <1>1, <1>4 DEF Live
<1>10. OneLive'
  BY <1>1, <1>4, <1>9 DEF IInv, OneLive
<1>. QED
  BY <1>5, <1>6, <1>7, <1>8, <1>10 DEF IInv

\* MIRRTABLE ends with an error.
LEMMA ResumeFailsKeeps ==
    ASSUME IInv, Tabled, ResumeFails(1) PROVE IInv'
<1>1. mst' = Idle /\ UNCHANGED <<book, src, have, stage, online, exec, call, tasks, work, shaken, events>>
  BY OneStep DEF ResumeFails
<1>2. ~Active' /\ mst' \in MRec /\ mst'.pc # "retire" /\ mst.pc # "retire"
  BY <1>1, MirroringConfig DEF Active, Idle, MasterSteps, ResumeFails, mst
<1>3. FileParts' /\ Asked'
  BY <1>1, <1>2, SameKeeps DEF SameTable
<1>4. Shape'
  BY <1>1, <1>2 DEF IInv, Shape
<1>5. ToSend' /\ NewIteration'
  BY <1>1, <1>2 DEF IInv, ToSend, Exists, NewIteration
<1>6. \A k \in Keys : Live(k)' => Live(k)
  BY <1>1, <1>2 DEF Live
<1>7. OneLive'
  BY <1>1, <1>2, <1>6 DEF IInv, OneLive
<1>. QED
  BY <1>3, <1>4, <1>5, <1>7 DEF IInv

\* MIRRTABLE ends, and the thread of the iteration is started if a file was assigned.
LEMMA AssignDoneKeeps ==
    ASSUME IInv, Tabled, AssignDone(1) PROVE IInv'
<1>1. /\ mst.pc = "assign" /\ mst' = Idle
      /\ exec' = IF mst.any THEN [exec EXCEPT ![mst.i] = exec[mst.i] \cup {"send"}] ELSE exec
      /\ UNCHANGED <<src, book, have, stage, online, call, tasks, work, shaken>>
      /\ events' = events \/ (events < MaxEvents /\ events' = events + 1)
  BY OneStep DEF AssignDone, Event, mst
<1>2. Active /\ ~Active' /\ mst.i \in Iters
  BY <1>1 DEF Active, Idle, IInv, Shape
<1>3. FileParts' /\ Asked'
  BY <1>1, <1>2, SameKeeps DEF SameTable
<1>4. exec' \in [Iters -> SUBSET {"send", "wait"}]
  BY <1>1, <1>2 DEF IInv, Shape
<1>5. events' \in 0 .. MaxEvents
  BY <1>1, MirroringConfig DEF IInv, Shape
<1>6. mst' \in MRec
  BY <1>1, MirroringConfig DEF Idle, MasterSteps
<1>7. Shape'
  BY <1>1, <1>2, <1>4, <1>5, <1>6 DEF IInv, Shape
<1>8. \A i \in Iters : "send" \in exec'[i] => "send" \in exec[i] \/ (i = mst.i /\ mst.any)
  BY <1>1, <1>2 DEF IInv, Shape
<1>9. ToSend'
  <2>1. \A i \in Iters : i >= i
    BY ItersAre
  <2>2. (\A t \in Targets : call[<<mst.i, t>>] = "none") /\ (mst.any => \E k \in Keys : k[2] = mst.i /\ Exists(k))
    BY <1>2, <2>1 DEF IInv, NewIteration
  <2>. QED
    BY <1>1, <1>8, <2>2 DEF IInv, ToSend, Exists
<1>10. \A k \in Keys : Live(k)' => Live(k)
  BY <1>1, <1>2 DEF Live
<1>11. OneLive'
  BY <1>1, <1>10 DEF IInv, OneLive
<1>. QED
  BY <1>2, <1>3, <1>7, <1>9, <1>11 DEF IInv, NewIteration

-----------------------------------------------------------------------------
(***************************************************************************)
(* The threads of iterations, and clean_up_mirroring.                      *)
(***************************************************************************)

\* What Held says of entries that a worker or a queue has.
LEMMA HeldIs ==
    ASSUME NEW ks PROVE \A k \in Keys : k \in ks /\ InHand(k) => k[1] \in Held(ks)
  BY KeyParts DEF Held, InHand

\* The entries of targets that are gone are aborted, the others are asked.
LEMMA DistributeKeeps ==
    ASSUME IInv, NEW i \in Iters, distributed_mirroring(i) PROVE IInv'
<1>. USE KeyParts
<1>. DEFINE asked == {t \in Targets : Entries({"READY"}, t, i) # {}}
            gone == {k \in Entries({"READY", "FETCHING", "TORESUME"}, None, 0) : book[k].t \in asked \ online}
<1>1. /\ "send" \in exec[i] /\ exec' = [exec EXCEPT ![i] = {"wait"}]
      /\ call' = [p \in Iters \X Targets |-> IF p[1] = i /\ p[2] \in asked \cap online THEN "asked" ELSE call[p]]
      /\ book' = Updated(gone, "ABORTED", FALSE) /\ shaken' = shaken \cup Held(gone)
      /\ UNCHANGED <<src, have, stage, online, mst, tasks, work, events>>
  BY DEF distributed_mirroring, mst
<1>2. /\ gone \subseteq Keys /\ \A k \in gone : Exists(k)
      /\ \A t \in asked : \E k \in Keys : k[2] = i /\ Exists(k) /\ book[k].t = t
  <2>1. i # 0
    BY ItersAre
  <2>. QED
    BY <2>1, MirroringConfig DEF Entries, Exists
<1>. HIDE DEF asked, gone
<1>3. book \in [Keys -> Entry] /\ "ABORTED" \in Status /\ shaken \subseteq Files /\ exec \in [Iters -> SUBSET {"send", "wait"}]
  BY DEF IInv, Shape, Status
<1>4. Sets(gone, "ABORTED")
  BY <1>1, <1>3, UpdatedIs, Zenon
<1>5. \A k \in Keys : k \in gone /\ InHand(k) => k[1] \in Held(gone)
  BY HeldIs
<1>6. \A t \in Targets : call[<<i, t>>] = "none"
  BY <1>1 DEF IInv, ToSend
<1>7. \A j \in Iters, t \in Targets : call'[<<j, t>>] = IF j = i /\ t \in asked \cap online THEN "asked" ELSE call[<<j, t>>]
  BY <1>1
<1>8. \A p \in Iters \X Targets : call[p] = "run" => call'[p] = "run"
  BY <1>6, <1>7
<1>9. Held(gone) \subseteq Files
  BY DEF Held
<1>10. TableStep
  BY <1>1, <1>2, <1>3, <1>4, <1>5, <1>8, <1>9 DEF TableStep, Changed, Sets, Active
<1>11. Shape'
  <2>1. call' \in [Iters \X Targets -> {"none", "asked", "run"}]
    BY <1>1 DEF IInv, Shape
  <2>2. exec' \in [Iters -> SUBSET {"send", "wait"}]
    BY <1>1, <1>3
  <2>. QED
    BY <1>1, <1>10, <2>1, <2>2, TableShape DEF IInv, Shape, Active
<1>12. \A k \in Keys : (Exists(k)' <=> Exists(k)) /\ book'[k].t = book[k].t
  BY <1>10 DEF TableStep, Changed, Exists
<1>13. Asked'
  BY <1>2, <1>7, <1>12 DEF IInv, Asked
<1>14. \A j \in Iters : "send" \in exec'[j] => "send" \in exec[j] /\ j # i
  BY <1>1, <1>3
<1>15. ToSend'
  BY <1>7, <1>12, <1>14 DEF IInv, ToSend
<1>16. ASSUME Active' PROVE NewIteration'
  <2>1. Active /\ mst' = mst
    BY <1>1, <1>16 DEF Active
  <2>2. ~(i >= mst.i)
    BY <1>1, <2>1 DEF IInv, NewIteration
  <2>3. \A j \in Iters, t \in Targets : j >= mst.i => call'[<<j, t>>] = "none"
    BY <1>7, <2>1, <2>2 DEF IInv, NewIteration
  <2>4. \A k \in Keys : k[2] = mst.i => book'[k].st \notin {"FETCHING", "TORESUME"}
    BY <1>10, <2>1 DEF IInv, NewIteration, TableStep, Changed
  <2>5. \A j \in Iters : j >= mst.i => "send" \notin exec'[j]
    BY <1>14, <2>1 DEF IInv, NewIteration
  <2>. QED
    BY <1>12, <2>1, <2>3, <2>4, <2>5 DEF IInv, NewIteration
<1>17. NewIteration'
  BY <1>16 DEF NewIteration
<1>. QED
  BY <1>1, <1>10, <1>11, <1>13, <1>15, <1>17, TableKeeps, TableOneLive DEF IInv

\* What is left of an iteration has failed.
LEMMA FailKeeps ==
    ASSUME IInv, NEW i \in Iters, fail_remaining_transfers(i) PROVE IInv'
<1>. USE KeyParts
<1>. DEFINE ks == Entries({"LOCKED", "READY"}, None, i)
            rs == Entries({"READY"}, None, i)
<1>1. /\ exec' = [exec EXCEPT ![i] = exec[i] \ {"wait"}] /\ book' = Updated(ks, "FAILURE", FALSE)
      /\ UNCHANGED <<src, have, stage, online, mst, call, tasks, work>>
      /\ \/ (\A t \in Targets : call[<<i, t>>] = "none") /\ events' = events /\ shaken' = shaken
         \/ events < MaxEvents /\ events' = events + 1 /\ shaken' = shaken \cup Held(rs)
  BY DEF fail_remaining_transfers, Event, mst
<1>2. \A k \in Keys : /\ k \in ks <=> book[k].st \in {"LOCKED", "READY"} /\ k[2] = i
                      /\ k \in rs <=> book[k].st = "READY" /\ k[2] = i
  <2>1. i # 0
    BY ItersAre
  <2>. QED
    BY <2>1 DEF Entries
<1>. HIDE DEF ks, rs
<1>3. /\ book \in [Keys -> Entry] /\ "FAILURE" \in Status /\ shaken \subseteq Files
      /\ exec \in [Iters -> SUBSET {"send", "wait"}] /\ events \in 0 .. MaxEvents
  BY DEF IInv, Shape, Status
<1>4. Sets(ks, "FAILURE")
  BY <1>1, <1>3, UpdatedIs, Zenon
<1>5. \A k \in Keys : k \in rs /\ InHand(k) => k[1] \in Held(rs)
  BY HeldIs
<1>6. \A k \in Keys : k[1] \notin shaken /\ InHand(k) => book[k].st \in {"READY", "FETCHING"}
  BY DEF InHand, IInv, FileParts, InQueue, AtWork
<1>7. \A k \in Keys : InHand(k) => \E t \in Targets : call[<<k[2], t>>] = "run"
  BY InHandRuns
<1>8. \A k \in ks : k \in Keys /\ InHand(k) => k[1] \in shaken'
  BY <1>1, <1>2, <1>5, <1>6, <1>7
<1>9. shaken \subseteq shaken' /\ shaken' \subseteq Files
  BY <1>1, <1>3 DEF Held
<1>10. TableStep
  BY <1>1, <1>2, <1>3, <1>4, <1>8, <1>9 DEF TableStep, Changed, Sets, Exists, Active
<1>11. exec' \in [Iters -> SUBSET {"send", "wait"}] /\ \A j \in Iters : "send" \in exec'[j] => "send" \in exec[j]
  BY <1>1, <1>3
<1>12. Quiet
  BY <1>1, <1>11 DEF Quiet, IInv, NewIteration, Active
<1>13. Shape'
  <2>1. events' \in 0 .. MaxEvents
    BY <1>1, <1>3, MirroringConfig
  <2>. QED
    BY <1>1, <1>10, <1>11, <2>1, TableShape DEF IInv, Shape, Active
<1>. QED
  BY <1>1, <1>10, <1>12, <1>13, TableKeeps, QuietKeeps, TableOneLive DEF IInv

\* What clean_up_mirroring does is a step of the table.
LEMMA CleanUpTableStep ==
    ASSUME IInv, NEW h \in Targets \cup {None}, book' = CleanUpTable(h), shaken' = shaken \cup Disturbed(h),
           Active' => Active /\ mst'.i = mst.i, UNCHANGED <<have, stage, call, tasks, work>>
    PROVE  TableStep /\ \A k \in Keys : book'[k].st # "READY"
<1>. DEFINE ks == {k \in Keys : CleanUpTable(h)[k] # book[k]}
<1>1. book \in [Keys -> Entry] /\ shaken \subseteq Files
  BY DEF IInv, Shape
<1>2. /\ book' \in [Keys -> Entry]
      /\ \A k \in Keys : book[k].st = "READY" => book'[k].st = "ABORTED"
      /\ \A k \in Keys :
            \/ book'[k] = book[k]
            \/ /\ \/ book[k].st \in {"READY", "LOCKED"} /\ book'[k].st = "ABORTED"
                  \/ book[k].st = "FETCHING" /\ book'[k].st = "TORESUME"
               /\ book'[k].t = book[k].t /\ book'[k].sg \in {book[k].sg, None}
  BY <1>1, CleanUpIs
<1>3. \A k \in Keys : k \in ks <=> book'[k] # book[k]
  OBVIOUS
<1>4. shaken' = shaken \cup Held(ks)
  BY DEF Disturbed
<1>. HIDE DEF ks
<1>5. \A k \in Keys : k \in ks /\ InHand(k) => k[1] \in Held(ks)
  BY HeldIs
<1>6. shaken \subseteq shaken' /\ shaken' \subseteq Files
  BY <1>1, <1>4 DEF Held
<1>7. \A k \in Keys : book'[k] # book[k] /\ InHand(k) => k[1] \in shaken'
  BY <1>3, <1>4, <1>5
<1>8. TableStep
  BY <1>2, <1>6, <1>7 DEF TableStep, Changed, Exists
<1>. QED
  BY <1>2, <1>8

\* A target comes Online.
LEMMA OnlineKeeps ==
    ASSUME IInv, NEW t \in Targets, Online(t) PROVE IInv'
<1>1. /\ online' = online \cup {t} /\ UNCHANGED <<src, have, stage, mst, exec, call, tasks, work, events>>
      /\ \/ book' = CleanUpTable(t) /\ shaken' = shaken \cup Disturbed(t)
         \/ UNCHANGED <<book, shaken>>
  BY DEF Online, mst
<1>2. TableStep
  <2>1. Active' => Active /\ mst'.i = mst.i
    BY <1>1 DEF Active
  <2>2. CASE book' = CleanUpTable(t) /\ shaken' = shaken \cup Disturbed(t)
    BY <1>1, <2>1, <2>2, CleanUpTableStep
  <2>3. CASE UNCHANGED <<book, shaken>>
    BY <1>1, <2>1, <2>3 DEF TableStep, IInv, Shape
  <2>. QED
    BY <1>1, <2>2, <2>3
<1>3. Quiet
  BY <1>1 DEF Quiet, IInv, NewIteration, Active
<1>4. Shape'
  BY <1>1, <1>2, TableShape DEF IInv, Shape, Active
<1>. QED
  BY <1>1, <1>2, <1>3, <1>4, TableKeeps, QuietKeeps, TableOneLive DEF IInv

\* The master is restarted.
LEMMA MasterCrashKeeps ==
    ASSUME IInv, MasterCrash PROVE IInv'
<1>1. /\ mst' = Idle /\ exec' = [i \in Iters |-> {}] /\ events < MaxEvents /\ events' = events + 1
      /\ book' = CleanUpTable(None) /\ shaken' = shaken \cup Disturbed(None)
      /\ UNCHANGED <<src, have, stage, online, call, tasks, work>>
  BY DEF MasterCrash, Event, mst, Tables
<1>2. ~Active'
  BY <1>1 DEF Active, Idle
<1>3. TableStep /\ \A k \in Keys : book'[k].st # "READY"
  BY <1>1, <1>2, CleanUpTableStep
<1>4. Quiet
  BY <1>1, <1>2 DEF Quiet
<1>5. Shape'
  <2>1. events' \in 0 .. MaxEvents
    BY <1>1, MirroringConfig DEF IInv, Shape
  <2>2. mst' \in MRec
    BY <1>1, MirroringConfig DEF Idle, MasterSteps
  <2>. QED
    BY <1>1, <1>2, <1>3, <2>1, <2>2, TableShape DEF IInv, Shape
<1>6. OneLive'
  <2>1. \A k \in Keys : Live(k)' => Live(k) /\ book[k].st \in {"FETCHING", "TORESUME"}
    BY <1>2, <1>3 DEF TableStep, Changed, Live
  <2>2. \A k \in Keys : mst.pc = "retire" /\ Live(k)' => k[2] # mst.i
    BY <2>1 DEF IInv, NewIteration, Active
  <2>3. shaken \subseteq shaken'
    BY <1>3 DEF TableStep
  <2>. QED
    BY <2>1, <2>2, <2>3 DEF IInv, OneLive
<1>. QED
  BY <1>3, <1>4, <1>5, <1>6, TableKeeps, QuietKeeps DEF IInv

-----------------------------------------------------------------------------
(***************************************************************************)
(* MIRREXEC and its workers.                                               *)
(***************************************************************************)

\* The master is not at the iteration of a request.
LEMMA OtherIteration ==
    ASSUME IInv, Active, NEW i \in Iters, NEW t \in Targets, call[<<i, t>>] # "none"
    PROVE  i # mst.i /\ ~(i >= mst.i)
<1>1. \A j \in Iters : j >= j
  BY ItersAre
<1>. QED
  BY <1>1 DEF IInv, NewIteration

\* With no thread free the entries are deleted, which nobody has in hand.
LEMMA RefuseKeeps ==
    ASSUME IInv, NEW i \in Iters, NEW t \in Targets, call[<<i, t>>] = "asked",
           book' = Deleted(Entries({"READY"}, t, i)), call' = [call EXCEPT ![<<i, t>>] = "none"],
           UNCHANGED <<src, have, stage, online, mst, exec, tasks, work, shaken, events>>
    PROVE  IInv'
<1>. USE KeyParts
<1>. DEFINE ks == Entries({"READY"}, t, i)
<1>1. \A k \in Keys : k \in ks => book[k].st = "READY" /\ book[k].t = t /\ k[2] = i
  <2>1. i # 0
    BY ItersAre
  <2>. QED
    BY <2>1, MirroringConfig DEF Entries
<1>2. book' = Deleted(ks)
  OBVIOUS
<1>. HIDE DEF ks
<1>3. NoEntry \in Entry /\ NoEntry.st = "none" /\ NoEntry.t = None /\ NoEntry.sg = None
  BY DEF NoEntry, Entry, Status
<1>4. book' \in [Keys -> Entry] /\ \A k \in Keys : book'[k] = IF k \in ks THEN NoEntry ELSE book[k]
  BY <1>2, <1>3 DEF Deleted, IInv, Shape
<1>5. call \in [Iters \X Targets -> {"none", "asked", "run"}]
  BY DEF IInv, Shape
<1>6. /\ call' \in [Iters \X Targets -> {"none", "asked", "run"}] /\ call'[<<i, t>>] = "none"
      /\ \A j \in Iters, u \in Targets : <<j, u>> # <<i, t>> => call'[<<j, u>>] = call[<<j, u>>]
  BY <1>5
<1>7. \A k \in Keys : InHand(k) => k \notin ks
  <2>1. \A k \in Keys : k \in ks => work[k].pc = "none"
    BY <1>1 DEF IInv, FileParts, Handled
  <2>2. \A k \in Keys, u \in Targets : k \in ks => k[1] \notin tasks[<<k[2], u>>]
    BY <1>1 DEF IInv, FileParts, Queued
  <2>. QED
    BY <2>1, <2>2 DEF InHand
<1>8. Shape'
  <2>1. \A k \in Keys : book'[k].st \in {"READY", "FETCHING", "TORESUME"} => book'[k].t # None
    BY <1>3, <1>4 DEF IInv, Shape
  <2>. QED
    BY <1>4, <1>6, <2>1 DEF IInv, Shape, Active
<1>9. Queued'
  <2>1. \A k \in Keys, u \in Targets : k[1] \in tasks[<<k[2], u>>] => book'[k] = book[k]
    BY <1>4, <1>7 DEF InHand
  <2>2. \A k \in Keys, u \in Targets : k[1] \in tasks[<<k[2], u>>] => <<k[2], u>> # <<i, t>>
    BY DEF IInv, FileParts, Queued
  <2>. QED
    BY <1>6, <2>1, <2>2 DEF IInv, FileParts, Queued, Exists
<1>10. Handled'
  BY <1>4, <1>6, <1>7 DEF IInv, FileParts, Handled, InHand, Exists
<1>11. Outcomes' /\ OwnStaging'
  BY <1>3, <1>4, MirroringConfig DEF IInv, FileParts, Outcomes, OwnStaging
<1>12. \A k \in Keys : Live(k)' => Live(k) /\ book'[k] = book[k]
  BY <1>3, <1>4 DEF Live, Active
<1>13. LiveAbsent' /\ OneLive'
  BY <1>12 DEF IInv, FileParts, LiveAbsent, Stored, Absent, OneLive
<1>14. InQueue' /\ AtWork'
  BY <1>4, <1>7 DEF IInv, FileParts, InQueue, AtWork, InHand
<1>15. StagingOK' /\ StoredOnce'
  BY DEF IInv, FileParts, StagingOK, StoredOnce
<1>16. Asked'
  <2>1. \A k \in Keys : k[2] # i \/ book[k].t # t => book'[k] = book[k]
    BY <1>1, <1>4
  <2>. QED
    BY <1>6, <2>1 DEF IInv, Asked, Exists
<1>17. ToSend'
  <2>1. \A k \in Keys : k[2] # i => book'[k] = book[k]
    BY <1>1, <1>4
  <2>2. "send" \notin exec[i]
    BY DEF IInv, ToSend
  <2>. QED
    BY <1>6, <2>1, <2>2 DEF IInv, ToSend, Exists
<1>18. ASSUME Active' PROVE NewIteration'
  <2>1. Active /\ mst' = mst /\ i # mst.i
    BY <1>18, OtherIteration DEF Active
  <2>2. \A k \in Keys : k[2] = mst.i => book'[k] = book[k]
    BY <1>1, <1>4, <2>1
  <2>3. \A k \in Keys : Exists(k)' => Exists(k)
    BY <1>3, <1>4 DEF Exists
  <2>4. \A j \in Iters, u \in Targets : j >= mst.i => call'[<<j, u>>] = "none"
    BY <1>6, <2>1 DEF IInv, NewIteration
  <2>. QED
    BY <2>1, <2>2, <2>3, <2>4 DEF IInv, NewIteration, Exists
<1>. QED
  BY <1>8, <1>9, <1>10, <1>11, <1>13, <1>14, <1>15, <1>16, <1>17, <1>18 DEF IInv, FileParts, NewIteration

\* Its READY entries are the tasks of a request.
LEMMA AcceptKeeps ==
    ASSUME IInv, NEW i \in Iters, NEW t \in Targets, call[<<i, t>>] = "asked",
           call' = [call EXCEPT ![<<i, t>>] = "run"],
           tasks' = [tasks EXCEPT ![<<i, t>>] = {k[1] : k \in Entries({"READY"}, t, i)}],
           UNCHANGED <<book, src, have, stage, online, mst, exec, work, shaken, events>>
    PROVE  IInv'
<1>. USE KeyParts
<1>. DEFINE fs == {k[1] : k \in Entries({"READY"}, t, i)}
<1>1. fs \subseteq Files /\ \A k \in Keys : k[2] = i /\ k[1] \in fs => book[k].st = "READY" /\ book[k].t = t
  <2>1. i # 0
    BY ItersAre
  <2>. QED
    BY <2>1, MirroringConfig DEF Entries
<1>2. tasks' = [tasks EXCEPT ![<<i, t>>] = fs]
  OBVIOUS
<1>. HIDE DEF fs
<1>3. call \in [Iters \X Targets -> {"none", "asked", "run"}] /\ tasks \in [Iters \X Targets -> SUBSET Files]
  BY DEF IInv, Shape
<1>4. /\ call' \in [Iters \X Targets -> {"none", "asked", "run"}] /\ call'[<<i, t>>] = "run"
      /\ \A j \in Iters, u \in Targets : <<j, u>> # <<i, t>> => call'[<<j, u>>] = call[<<j, u>>]
  BY <1>3
<1>5. /\ tasks' \in [Iters \X Targets -> SUBSET Files] /\ tasks'[<<i, t>>] = fs
      /\ \A j \in Iters, u \in Targets : <<j, u>> # <<i, t>> => tasks'[<<j, u>>] = tasks[<<j, u>>]
  BY <1>1, <1>2, <1>3
<1>6. Shape'
  BY <1>4, <1>5 DEF IInv, Shape, Active
<1>7. Queued' /\ InQueue'
  BY <1>1, <1>4, <1>5 DEF IInv, FileParts, Queued, InQueue, Exists
<1>8. Handled'
  BY <1>4 DEF IInv, FileParts, Handled, Exists
<1>9. Outcomes' /\ OwnStaging' /\ AtWork' /\ StagingOK' /\ StoredOnce'
  BY DEF IInv, FileParts, Outcomes, OwnStaging, AtWork, StagingOK, StoredOnce
<1>10. LiveAbsent' /\ OneLive'
  BY DEF IInv, FileParts, LiveAbsent, OneLive, Live, Active, Stored, Absent
<1>11. Asked'
  BY <1>4 DEF IInv, Asked, Exists
<1>12. ToSend'
  BY <1>4 DEF IInv, ToSend, Exists
<1>13. ASSUME Active' PROVE NewIteration'
  <2>1. Active /\ mst' = mst /\ ~(i >= mst.i)
    BY <1>13, OtherIteration DEF Active
  <2>. QED
    BY <1>4, <2>1 DEF IInv, NewIteration, Exists
<1>. QED
  BY <1>6, <1>7, <1>8, <1>9, <1>10, <1>11, <1>12, <1>13 DEF IInv, FileParts, NewIteration

LEMMA MirrExecKeeps ==
    ASSUME IInv, NEW i \in Iters, NEW t \in Targets, multithreading_mirroring(i, t) PROVE IInv'
<1>1. CASE Fetches - InUse(i, t) <= 0
  BY <1>1, RefuseKeeps DEF multithreading_mirroring, mst
<1>2. CASE ~(Fetches - InUse(i, t) <= 0)
  BY <1>2, AcceptKeeps DEF multithreading_mirroring, mst
<1>. QED
  BY <1>1, <1>2

\* A request ends.
LEMMA MirrExecDoneKeeps ==
    ASSUME IInv, NEW i \in Iters, NEW t \in Targets, MirrExecDone(i, t) PROVE IInv'
<1>. USE KeyParts
<1>1. /\ call[<<i, t>>] = "run" /\ tasks[<<i, t>>] = {} /\ call' = [call EXCEPT ![<<i, t>>] = "none"]
      /\ UNCHANGED <<src, book, have, stage, online, mst, exec, tasks, work, shaken, events>>
  BY DEF MirrExecDone, mst
<1>2. \A k \in Keys : work[k].pc # "none" => ~(k[2] = i /\ work[k].t = t)
  BY DEF MirrExecDone, Working
<1>3. /\ call' \in [Iters \X Targets -> {"none", "asked", "run"}] /\ call'[<<i, t>>] = "none"
      /\ \A j \in Iters, u \in Targets : <<j, u>> # <<i, t>> => call'[<<j, u>>] = call[<<j, u>>]
  BY <1>1 DEF IInv, Shape
<1>4. Shape'
  BY <1>1, <1>3 DEF IInv, Shape, Active
<1>5. Queued' /\ InQueue'
  BY <1>1, <1>3 DEF IInv, FileParts, Queued, InQueue, Exists
<1>6. Handled'
  BY <1>1, <1>2, <1>3 DEF IInv, FileParts, Handled, Exists
<1>7. Outcomes' /\ OwnStaging' /\ AtWork' /\ StagingOK' /\ StoredOnce'
  BY <1>1 DEF IInv, FileParts, Outcomes, OwnStaging, AtWork, StagingOK, StoredOnce
<1>8. LiveAbsent' /\ OneLive'
  BY <1>1 DEF IInv, FileParts, LiveAbsent, OneLive, Live, Active, Stored, Absent
<1>9. Asked'
  BY <1>1, <1>3 DEF IInv, Asked, Exists
<1>10. ToSend'
  BY <1>1, <1>3 DEF IInv, ToSend, Exists
<1>11. NewIteration'
  BY <1>1, <1>3 DEF IInv, NewIteration, Active, Exists
<1>. QED
  BY <1>4, <1>5, <1>6, <1>7, <1>8, <1>9, <1>10, <1>11 DEF IInv, FileParts

\* An entry that has a worker is the only one of its file that is live.
LEMMA WorkerAlone ==
    ASSUME IInv, NEW k \in Keys, NEW l \in Keys, k[1] = l[1], k[1] \notin shaken, work[k].pc # "none", Live(l)
    PROVE  l = k
<1>. USE KeyParts
<1>1. book[k].st = "FETCHING" /\ Live(k)
  BY DEF IInv, FileParts, AtWork, Live
<1>2. work[k].t \in Targets /\ call[<<k[2], work[k].t>>] # "none"
  BY DEF IInv, FileParts, Handled
<1>3. Active => k[2] # mst.i
  BY <1>2, OtherIteration
<1>. QED
  BY <1>1, <1>3 DEF IInv, OneLive, Active

\* So it is the only worker on the file, and on its staging file.
LEMMA WorkerStaging ==
    ASSUME IInv, NEW k \in Keys, NEW l \in Keys, l[1] \notin shaken, work[k].pc # "none", work[l].pc # "none",
           k[1] = l[1] \/ work[k].sg = work[l].sg
    PROVE  l = k
<1>1. k[1] = l[1]
  BY DEF IInv, FileParts, OwnStaging
<1>2. Live(l)
  BY DEF IInv, FileParts, AtWork, Live
<1>. QED
  BY <1>1, <1>2, WorkerAlone

\* A step of the worker of k between taking it and recording the outcome.
WorkStep(k) ==
    /\ work[k].pc # "none" /\ work' \in [Keys -> Fetch]
    /\ work'[k].pc # "none" /\ work'[k].t = work[k].t /\ work'[k].sg = work[k].sg
    /\ \A l \in Keys : l # k => work'[l] = work[l]
    /\ UNCHANGED <<src, book, online, mst, exec, call, tasks, shaken>>
    /\ have' \in [Targets \X Files -> {"none", "good", "mixed"}]
    /\ stage' \in [Keys -> {"none", "part", "full", "mixed"}] /\ events' \in 0 .. MaxEvents

\* What is left to show of such a step is about what is staged and stored.
LEMMA WorkKeeps ==
    ASSUME IInv, NEW k \in Keys, WorkStep(k), Outcomes', LiveAbsent', StagingOK', StoredOnce' PROVE IInv'
<1>. USE KeyParts
<1>1. \A l \in Keys : /\ work'[l].pc # "none" <=> work[l].pc # "none"
                      /\ work'[l].t = work[l].t /\ work'[l].sg = work[l].sg
  BY DEF WorkStep
<1>2. UNCHANGED <<src, book, online, mst, exec, call, tasks, shaken>>
  BY DEF WorkStep
<1>3. Shape'
  BY <1>2 DEF IInv, Shape, Active, WorkStep
<1>4. Queued' /\ InQueue' /\ Asked' /\ ToSend'
  BY <1>2 DEF IInv, FileParts, Queued, InQueue, Asked, ToSend, Exists
<1>5. Handled'
  BY <1>1, <1>2 DEF IInv, FileParts, Handled, Exists
<1>6. OwnStaging' /\ AtWork'
  BY <1>1, <1>2 DEF IInv, FileParts, OwnStaging, AtWork
<1>7. NewIteration' /\ OneLive'
  BY <1>2 DEF IInv, NewIteration, OneLive, Live, Active, Exists
<1>. QED
  BY <1>3, <1>4, <1>5, <1>6, <1>7 DEF IInv, FileParts

\* The file is fetched, or the fetch fails or breaks off.
LEMMA SaveKeeps ==
    ASSUME IInv, NEW k \in Keys, save_in_staging_file(k) PROVE IInv'
<1>. DEFINE sg == work[k].sg
            now == IF stage[sg] = "mixed" THEN "mixed" ELSE "full"
<1>1. /\ work[k].pc = "fetch" /\ UNCHANGED <<src, book, have, online, mst, exec, call, tasks, shaken>>
      /\ \/ /\ work' = [work EXCEPT ![k].pc = "move"] /\ events' = events /\ stage' = [stage EXCEPT ![sg] = now]
         \/ /\ events < MaxEvents /\ events' = events + 1 /\ stage' = stage
            /\ \E out \in {"FAILURE", "TORESUME"} : work' = [work EXCEPT ![k].pc = "status", ![k].out = out]
  BY DEF save_in_staging_file, Event, mst
<1>2. work \in [Keys -> Fetch] /\ sg \in Keys /\ stage \in [Keys -> {"none", "part", "full", "mixed"}] /\ events \in 0 .. MaxEvents
  BY <1>1 DEF IInv, Shape, FileParts, OwnStaging
<1>3. now \in {"none", "part", "full", "mixed"} /\ (stage[sg] = "part" => now = "full")
  OBVIOUS
<1>. HIDE DEF now
<1>4. /\ \A l \in Keys : l # k => work'[l] = work[l]
      /\ work'[k].t = work[k].t /\ work'[k].sg = sg /\ work' \in [Keys -> Fetch]
      /\ \/ work'[k].pc = "move" /\ events' = events /\ stage' = [stage EXCEPT ![sg] = now]
         \/ /\ events < MaxEvents /\ events' = events + 1 /\ stage' = stage
            /\ work'[k].pc = "status" /\ work'[k].out \in {"FAILURE", "TORESUME"}
  <2>1. CASE work' = [work EXCEPT ![k].pc = "move"] /\ events' = events /\ stage' = [stage EXCEPT ![sg] = now]
    <3>1. work' = [work EXCEPT ![k] = [work[k] EXCEPT !.pc = "move"]]
      BY <2>1
    <3>2. [work[k] EXCEPT !.pc = "move"] \in Fetch
      BY <1>2 DEF Fetch, WorkSteps
    <3>3. work'[k] = [work[k] EXCEPT !.pc = "move"] /\ work' \in [Keys -> Fetch] /\ \A l \in Keys : l # k => work'[l] = work[l]
      BY <1>2, <3>1, <3>2
    <3>4. work'[k].pc = "move" /\ work'[k].t = work[k].t /\ work'[k].sg = sg
      BY <1>2, <3>3 DEF Fetch
    <3>. QED
      BY <2>1, <3>3, <3>4
  <2>2. ASSUME NEW out \in {"FAILURE", "TORESUME"}, work' = [work EXCEPT ![k].pc = "status", ![k].out = out]
        PROVE  /\ \A l \in Keys : l # k => work'[l] = work[l]
               /\ work'[k].t = work[k].t /\ work'[k].sg = sg /\ work' \in [Keys -> Fetch]
               /\ work'[k].pc = "status" /\ work'[k].out = out
    <3>1. work' = [work EXCEPT ![k] = [work[k] EXCEPT !.pc = "status", !.out = out]]
      BY <1>2, <2>2
    <3>2. [work[k] EXCEPT !.pc = "status", !.out = out] \in Fetch
      BY <1>2, ZenonT(60) DEF Fetch, WorkSteps, Outs
    <3>3. /\ work'[k] = [work[k] EXCEPT !.pc = "status", !.out = out] /\ work' \in [Keys -> Fetch]
          /\ \A l \in Keys : l # k => work'[l] = work[l]
      BY <1>2, <3>1, <3>2
    <3>. QED
      BY <1>2, <3>3 DEF Fetch
  <2>. QED
    BY <1>1, <2>1, <2>2
<1>. HIDE DEF sg
<1>5. WorkStep(k)
  <2>1. stage' \in [Keys -> {"none", "part", "full", "mixed"}] /\ events' \in 0 .. MaxEvents
    BY <1>1, <1>2, <1>3, MirroringConfig
  <2>. QED
    BY <1>1, <1>4, <2>1 DEF WorkStep, IInv, Shape, sg
<1>6. Outcomes'
  BY <1>1, <1>4 DEF IInv, FileParts, Outcomes
<1>7. \A l \in Keys : Live(l)' => Live(l)
  BY <1>1 DEF Live, Active
<1>8. LiveAbsent'
  BY <1>1, <1>4, <1>7 DEF IInv, FileParts, LiveAbsent, Stored, Absent
<1>9. StagingOK'
  <2>1. k[1] \notin shaken => stage[sg] = "part"
    BY <1>1 DEF IInv, FileParts, StagingOK, sg
  <2>2. \A l \in Keys : l # k /\ l[1] \notin shaken /\ work[l].pc # "none" => work[l].sg # sg
    BY <1>1, WorkerStaging DEF sg
  <2>. QED
    BY <1>1, <1>2, <1>3, <1>4, <2>1, <2>2 DEF IInv, FileParts, StagingOK, OwnStaging
<1>10. StoredOnce'
  BY <1>1 DEF IInv, FileParts, StoredOnce
<1>. QED
  BY <1>5, <1>6, <1>8, <1>9, <1>10, WorkKeeps

\* The file is moved to its volume, if it is still there.
LEMMA MoveKeeps ==
    ASSUME IInv, NEW k \in Keys, MoveToTarget(k) PROVE IInv'
<1>. DEFINE sg == work[k].sg
<1>1. /\ work[k].pc = "move" /\ stage' = [stage EXCEPT ![sg] = "none"]
      /\ work' = [work EXCEPT ![k] = IF stage[sg] = "none" THEN [work[k] EXCEPT !.pc = "status", !.out = "FAILURE"]
                                     ELSE [work[k] EXCEPT !.pc = "insert", !.out = stage[sg]]]
      /\ UNCHANGED <<src, book, have, online, mst, exec, call, tasks, shaken, events>>
  BY DEF MoveToTarget, mst
<1>2. work \in [Keys -> Fetch] /\ sg \in Keys /\ stage \in [Keys -> {"none", "part", "full", "mixed"}]
  BY <1>1 DEF IInv, Shape, FileParts, OwnStaging
<1>3. PICK w : /\ work' = [work EXCEPT ![k] = w]
               /\ w = IF stage[sg] = "none" THEN [work[k] EXCEPT !.pc = "status", !.out = "FAILURE"]
                      ELSE [work[k] EXCEPT !.pc = "insert", !.out = stage[sg]]
  BY <1>1
<1>4. /\ w \in Fetch /\ w.t = work[k].t /\ w.sg = sg
      /\ \/ w.pc = "status" /\ w.out = "FAILURE" /\ stage[sg] = "none"
         \/ w.pc = "insert" /\ w.out = stage[sg] /\ stage[sg] # "none"
  <2>1. CASE stage[sg] = "none"
    BY <1>2, <1>3, <2>1, ZenonT(60) DEF Fetch, WorkSteps, Outs
  <2>2. CASE stage[sg] # "none"
    <3>1. stage[sg] \in Outs
      BY <1>2 DEF Outs
    <3>. QED
      BY <1>2, <1>3, <2>2, <3>1 DEF Fetch, WorkSteps
  <2>. QED
    BY <2>1, <2>2
<1>. HIDE DEF sg
<1>5. work' \in [Keys -> Fetch] /\ work'[k] = w /\ \A l \in Keys : l # k => work'[l] = work[l]
  BY <1>2, <1>3, <1>4
<1>6. WorkStep(k)
  <2>1. stage' \in [Keys -> {"none", "part", "full", "mixed"}]
    BY <1>1, <1>2
  <2>. QED
    BY <1>1, <1>4, <1>5, <2>1 DEF WorkStep, IInv, Shape, sg
<1>7. Outcomes'
  <2>1. stage[sg] \in {"none", "part", "full", "mixed"}
    BY <1>2
  <2>. QED
    BY <1>1, <1>4, <1>5, <2>1 DEF IInv, FileParts, Outcomes
<1>8. \A l \in Keys : Live(l)' => Live(l)
  BY <1>1 DEF Live, Active
<1>9. LiveAbsent'
  BY <1>1, <1>4, <1>5, <1>8 DEF IInv, FileParts, LiveAbsent, Stored, Absent
<1>10. StagingOK'
  <2>1. k[1] \notin shaken => stage[sg] = "full"
    BY <1>1 DEF IInv, FileParts, StagingOK, sg
  <2>2. \A l \in Keys : l # k /\ l[1] \notin shaken /\ work[l].pc # "none" => work[l].sg # sg
    BY <1>1, WorkerStaging DEF sg
  <2>. QED
    BY <1>1, <1>2, <1>4, <1>5, <2>1, <2>2 DEF IInv, FileParts, StagingOK, OwnStaging
<1>11. StoredOnce'
  BY <1>1 DEF IInv, FileParts, StoredOnce
<1>. QED
  BY <1>6, <1>7, <1>9, <1>10, <1>11, WorkKeeps

\* The row of the file is inserted, unless there is one.
LEMMA InsertKeeps ==
    ASSUME IInv, NEW k \in Keys, InsertFile(k) PROVE IInv'
<1>. USE KeyParts
<1>. DEFINE p == <<work[k].t, k[1]>>
            new == IF work[k].out = "full" THEN "good" ELSE "mixed"
<1>1. /\ work[k].pc = "insert" /\ UNCHANGED <<src, book, stage, online, mst, exec, call, tasks, shaken, events>>
      /\ \/ have[p] # "none" /\ have' = have /\ work' = [work EXCEPT ![k].pc = "status", ![k].out = "FAILURE"]
         \/ /\ have[p] = "none" /\ have' = [have EXCEPT ![p] = new]
            /\ work' = [work EXCEPT ![k].pc = "status", ![k].out = "SUCCESS"]
  BY DEF InsertFile, mst
<1>2. /\ work \in [Keys -> Fetch] /\ have \in [Targets \X Files -> {"none", "good", "mixed"}] /\ p \in Targets \X Files
      /\ work[k].t \in Targets
  BY <1>1 DEF IInv, Shape, FileParts, Handled
<1>3. new \in {"good", "mixed"} /\ (work[k].out = "full" => new = "good")
  OBVIOUS
<1>4. \A t \in Targets, f \in Files : <<t, f>> = p <=> t = work[k].t /\ f = k[1]
  OBVIOUS
<1>. HIDE DEF p, new
<1>5. PICK out \in {"FAILURE", "SUCCESS"} :
          /\ work' = [work EXCEPT ![k] = [work[k] EXCEPT !.pc = "status", !.out = out]]
          /\ \/ have[p] # "none" /\ have' = have /\ out = "FAILURE"
             \/ have[p] = "none" /\ have' = [have EXCEPT ![p] = new] /\ out = "SUCCESS"
  BY <1>1, <1>2
<1>6. PICK w : w = [work[k] EXCEPT !.pc = "status", !.out = out]
  OBVIOUS
<1>7. w \in Fetch /\ w.pc = "status" /\ w.out = out /\ w.t = work[k].t /\ w.sg = work[k].sg
  <2>1. out \in Outs /\ "status" \in WorkSteps /\ work[k] \in Fetch
    BY <1>2, <1>5 DEF WorkSteps, Outs
  <2>. QED
    BY <1>6, <2>1 DEF Fetch
<1>8. work' \in [Keys -> Fetch] /\ work'[k] = w /\ \A l \in Keys : l # k => work'[l] = work[l]
  BY <1>2, <1>5, <1>6, <1>7
<1>9. /\ have' \in [Targets \X Files -> {"none", "good", "mixed"}]
      /\ \A t \in Targets, f \in Files : have[<<t, f>>] # "none" => have'[<<t, f>>] # "none"
      /\ \A t \in Targets, f \in Files : f # k[1] => have'[<<t, f>>] = have[<<t, f>>]
      /\ have'[p] # "none"
  BY <1>2, <1>3, <1>4, <1>5
<1>10. WorkStep(k)
  BY <1>1, <1>7, <1>8, <1>9 DEF WorkStep, IInv, Shape
<1>11. Outcomes'
  <2>1. \A l \in Keys : book'[l].st = "SUCCESS" => \E t \in Targets : have'[<<t, l[1]>>] # "none"
    BY <1>1, <1>9 DEF IInv, FileParts, Outcomes
  <2>2. \A l \in Keys : work'[l].pc = "status" /\ work'[l].out = "SUCCESS" => have'[<<work'[l].t, l[1]>>] # "none"
    <3>1. have'[<<work[k].t, k[1]>>] # "none"
      BY <1>9 DEF p
    <3>2. \A l \in Keys : work[l].pc = "status" => work[l].t \in Targets
      BY DEF IInv, FileParts, Handled
    <3>3. \A l \in Keys : work[l].pc = "status" /\ work[l].out = "SUCCESS" => have[<<work[l].t, l[1]>>] # "none"
      BY DEF IInv, FileParts, Outcomes
    <3>4. \A l \in Keys : work[l].pc = "status" /\ work[l].out = "SUCCESS" => have'[<<work[l].t, l[1]>>] # "none"
      <4>. SUFFICES ASSUME NEW l \in Keys, work[l].pc = "status", work[l].out = "SUCCESS"
                    PROVE  have'[<<work[l].t, l[1]>>] # "none"
        OBVIOUS
      <4>1. work[l].t \in Targets /\ l[1] \in Files /\ have[<<work[l].t, l[1]>>] # "none"
        BY <3>2, <3>3
      <4>. QED
        BY <1>9, <4>1
    <3>. QED
      BY <1>7, <1>8, <3>1, <3>4
  <2>3. \A l \in Keys : work'[l].pc = "status" => work'[l].out \in {"SUCCESS", "FAILURE", "TORESUME", "ABORTED"}
    BY <1>5, <1>7, <1>8 DEF IInv, FileParts, Outcomes
  <2>4. \A l \in Keys : work'[l].pc = "insert" => work'[l].out \in {"part", "full", "mixed"}
    BY <1>7, <1>8 DEF IInv, FileParts, Outcomes
  <2>. QED
    BY <2>1, <2>2, <2>3, <2>4 DEF Outcomes
<1>12. k[1] \notin shaken => /\ Absent(k[1]) /\ out = "SUCCESS" /\ new = "good"
                             /\ \A l \in Keys : l[1] = k[1] /\ Live(l) => l = k
  <2>. SUFFICES ASSUME k[1] \notin shaken
                PROVE  /\ Absent(k[1]) /\ out = "SUCCESS" /\ new = "good"
                       /\ \A l \in Keys : l[1] = k[1] /\ Live(l) => l = k
    OBVIOUS
  <2>1. Live(k) /\ ~Stored(k)
    BY <1>1 DEF IInv, FileParts, AtWork, Live, Stored
  <2>2. Absent(k[1])
    BY <2>1 DEF IInv, FileParts, LiveAbsent
  <2>3. have[p] = "none"
    BY <1>2, <2>2 DEF Absent, p
  <2>4. new = "good"
    BY <1>1, <1>3 DEF IInv, FileParts, StagingOK
  <2>5. \A l \in Keys : l[1] = k[1] /\ Live(l) => l = k
    BY <1>1, WorkerAlone
  <2>. QED
    BY <1>5, <2>2, <2>3, <2>4, <2>5
<1>13. \A l \in Keys : Live(l)' => Live(l)
  BY <1>1 DEF Live, Active
<1>14. LiveAbsent'
  <2>. SUFFICES ASSUME NEW l \in Keys, l[1] \notin shaken', Live(l)' PROVE (Stored(l) \/ Absent(l[1]))'
    BY DEF LiveAbsent
  <2>1. l[1] \notin shaken /\ Live(l)
    BY <1>1, <1>13
  <2>2. CASE l = k
    BY <1>7, <1>8, <1>12, <2>1, <2>2 DEF Stored
  <2>3. CASE l # k
    <3>1. l[1] # k[1]
      BY <1>12, <2>1, <2>3
    <3>2. Stored(l) \/ Absent(l[1])
      BY <2>1 DEF IInv, FileParts, LiveAbsent
    <3>. QED
      BY <1>8, <1>9, <2>3, <3>1, <3>2 DEF Stored, Absent
  <2>. QED
    BY <2>2, <2>3
<1>15. StagingOK'
  BY <1>1, <1>7, <1>8 DEF IInv, FileParts, StagingOK
<1>16. StoredOnce'
  <2>. SUFFICES ASSUME NEW f \in Files, f \notin shaken
                PROVE  /\ \A t, u \in Targets : have'[<<t, f>>] # "none" /\ have'[<<u, f>>] # "none" => t = u
                       /\ \A t \in Targets : have'[<<t, f>>] # "mixed"
    BY <1>1 DEF StoredOnce
  <2>1. CASE f # k[1]
    BY <1>9, <2>1 DEF IInv, FileParts, StoredOnce
  <2>2. CASE f = k[1]
    <3>1. \A t \in Targets : have[<<t, f>>] = "none"
      BY <1>12, <2>2 DEF Absent
    <3>2. \A t \in Targets : have'[<<t, f>>] = IF t = work[k].t THEN "good" ELSE "none"
      BY <1>2, <1>4, <1>5, <1>12, <2>2, <3>1, SMTT(30)
    <3>. QED
      BY <3>2
  <2>. QED
    BY <2>1, <2>2
<1>. QED
  BY <1>10, <1>11, <1>14, <1>15, <1>16, WorkKeeps

\* The outcome is recorded.
LEMMA RecordKeeps ==
    ASSUME IInv, NEW k \in Keys, RecordOutcome(k) PROVE IInv'
<1>. USE KeyParts
<1>. DEFINE out == work[k].out
<1>1. /\ work[k].pc = "status" /\ work' = [work EXCEPT ![k] = NoWork]
      /\ UNCHANGED <<src, have, stage, online, mst, exec, call, tasks, shaken, events>>
  BY DEF RecordOutcome, mst
<1>2. /\ book \in [Keys -> Entry] /\ work \in [Keys -> Fetch] /\ Exists(k) /\ work[k].t \in Targets
      /\ call[<<k[2], work[k].t>>] = "run" /\ book[k].t = work[k].t
      /\ out \in {"SUCCESS", "FAILURE", "TORESUME", "ABORTED"}
  BY <1>1 DEF IInv, Shape, FileParts, Handled, Outcomes
<1>3. Sets({k}, out)
  <2>1. out \in Status
    BY <1>2 DEF Status
  <2>2. book' = Updated({k}, out, out # "TORESUME")
    BY <1>2 DEF RecordOutcome, Exists
  <2>3. book' = Updated({k}, out, TRUE) \/ book' = Updated({k}, out, FALSE)
    <3>1. CASE out = "TORESUME"
      BY <2>2, <3>1 DEF Updated
    <3>2. CASE out # "TORESUME"
      BY <2>2, <3>2 DEF Updated
    <3>. QED
      BY <3>1, <3>2
  <2>. HIDE DEF out
  <2>. QED
    BY <1>2, <2>1, <2>3, UpdatedIs, Zenon
<1>4. NoWork \in Fetch /\ NoWork.pc = "none"
  BY DEF NoWork, Fetch, WorkSteps, Outs
<1>5. work' \in [Keys -> Fetch] /\ work'[k] = NoWork /\ \A l \in Keys : l # k => work'[l] = work[l]
  BY <1>1, <1>2, <1>4
<1>6. Active => k[2] # mst.i
  BY <1>2, OtherIteration
<1>. HIDE DEF out
<1>7. /\ book' \in [Keys -> Entry] /\ \A l \in Keys : l # k => book'[l] = book[l]
      /\ book'[k].st = out /\ book'[k].t = book[k].t /\ book'[k].sg \in {book[k].sg, None}
  BY <1>3 DEF Sets
<1>8. \A l \in Keys : (Exists(l)' <=> Exists(l)) /\ book'[l].t = book[l].t
  BY <1>2, <1>7 DEF Exists
<1>9. Shape'
  <2>1. \A l \in Keys : book'[l].st \in {"READY", "FETCHING", "TORESUME"} => book'[l].t # None
    BY <1>2, <1>7, MirroringConfig DEF IInv, Shape
  <2>. QED
    BY <1>1, <1>5, <1>7, <2>1 DEF IInv, Shape, Active
<1>10. Queued' /\ Asked' /\ ToSend'
  BY <1>1, <1>8 DEF IInv, FileParts, Queued, Asked, ToSend
<1>11. Handled'
  BY <1>1, <1>4, <1>5, <1>8 DEF IInv, FileParts, Handled
<1>12. Outcomes'
  <2>1. \A l \in Keys : book'[l].st = "SUCCESS" => \E t \in Targets : have[<<t, l[1]>>] # "none"
    <3>1. out = "SUCCESS" => have[<<work[k].t, k[1]>>] # "none"
      BY <1>1 DEF IInv, FileParts, Outcomes, out
    <3>2. \A l \in Keys : book[l].st = "SUCCESS" => \E t \in Targets : have[<<t, l[1]>>] # "none"
      BY DEF IInv, FileParts, Outcomes
    <3>3. book'[k].st = "SUCCESS" => \E t \in Targets : have[<<t, k[1]>>] # "none"
      BY <1>2, <1>7, <3>1
    <3>. QED
      BY <1>7, <3>2, <3>3
  <2>. QED
    BY <1>1, <1>4, <1>5, <2>1 DEF IInv, FileParts, Outcomes
<1>13. OwnStaging'
  BY <1>4, <1>5, <1>7, MirroringConfig DEF IInv, FileParts, OwnStaging
<1>14. k[1] \notin shaken => book[k].st = "FETCHING" /\ Live(k)
  BY <1>1 DEF IInv, FileParts, AtWork, Live
<1>15. \A l \in Keys : l[1] \notin shaken /\ Live(l)' => Live(l) /\ (l = k => out = "TORESUME")
  BY <1>1, <1>2, <1>6, <1>7, <1>14 DEF Live, Active
<1>16. LiveAbsent'
  <2>1. out = "TORESUME" => ~Stored(k)
    BY DEF Stored, out
  <2>. QED
    BY <1>1, <1>5, <1>15, <2>1 DEF IInv, FileParts, LiveAbsent, Stored, Absent
<1>17. InQueue'
  BY <1>1, <1>7, <1>14 DEF IInv, FileParts, InQueue
<1>18. AtWork' /\ StagingOK' /\ StoredOnce'
  BY <1>1, <1>4, <1>5, <1>7 DEF IInv, FileParts, AtWork, StagingOK, StoredOnce
<1>19. NewIteration'
  BY <1>1, <1>6, <1>7, <1>8 DEF IInv, NewIteration, Active
<1>20. OneLive'
  <2>1. \A l \in Keys : l[1] = k[1] /\ k[1] \notin shaken /\ Live(l) => l = k
    BY <1>1, WorkerAlone
  <2>. QED
    BY <1>1, <1>7, <1>15, <2>1 DEF IInv, OneLive
<1>. QED
  BY <1>9, <1>10, <1>11, <1>12, <1>13, <1>16, <1>17, <1>18, <1>19, <1>20 DEF IInv, FileParts

\* A worker takes a task.
LEMMA TakeKeeps ==
    ASSUME IInv, NEW i \in Iters, NEW t \in Targets, NEW f \in Files, process_mirroring_tasks(i, t, f) PROVE IInv'
<1>. USE KeyParts
<1>1. PICK k \in Keys : k = <<f, i>> /\ k[1] = f /\ k[2] = i
  BY KeyParts, ZenonT(60)
<1>. DEFINE sg == Staging(k)
            on == t \in online
            w == [pc |-> IF on THEN "fetch" ELSE "status", t |-> t, sg |-> sg, out |-> IF on THEN "none" ELSE "ABORTED"]
            e == [book[k] EXCEPT !.st = "FETCHING", !.sg = sg]
            now == IF Using(sg) # {} THEN "mixed" ELSE "part"
<1>2. /\ call[<<i, t>>] = "run" /\ f \in tasks[<<i, t>>] /\ work[k].pc = "none"
      /\ tasks' = [tasks EXCEPT ![<<i, t>>] = tasks[<<i, t>>] \ {f}] /\ work' = [work EXCEPT ![k] = w]
      /\ stage' = IF on THEN [stage EXCEPT ![sg] = now] ELSE stage
      /\ UNCHANGED <<src, have, online, mst, exec, call, shaken, events>>
  BY <1>1 DEF process_mirroring_tasks, mst
<1>3. /\ book \in [Keys -> Entry] /\ work \in [Keys -> Fetch] /\ tasks \in [Iters \X Targets -> SUBSET Files]
      /\ stage \in [Keys -> {"none", "part", "full", "mixed"}]
  BY DEF IInv, Shape
<1>4. Exists(k) /\ book[k].t = t
  BY <1>1, <1>2 DEF IInv, FileParts, Queued
<1>5. book' = [book EXCEPT ![k] = e]
  <2>1. book' = [book EXCEPT ![k].st = "FETCHING", ![k].sg = Staging(k)]
    BY <1>1, <1>4 DEF process_mirroring_tasks, Exists
  <2>. QED
    BY <1>3, <2>1
<1>6. sg \in Keys /\ sg[1] = f
  BY <1>1 DEF Staging, IInv, FileParts, OwnStaging
<1>7. Using(sg) = {} <=> \A l \in Keys : work[l].pc # "none" => work[l].sg # sg
  BY DEF Using
<1>. HIDE DEF sg
<1>8. e \in Entry /\ e.st = "FETCHING" /\ e.t = t /\ e.sg = sg
  <2>1. book[k] \in Entry /\ "FETCHING" \in Status /\ sg \in Keys \cup {None, "vol"} /\ book[k].t = t
    BY <1>3, <1>4, <1>6 DEF Status
  <2>. QED
    BY <2>1 DEF Entry
<1>9. /\ w \in Fetch /\ w.t = t /\ w.sg = sg /\ w.pc # "none" /\ w.out \notin {"SUCCESS", "full"}
      /\ (w.pc = "fetch" \/ (w.pc = "status" /\ w.out = "ABORTED")) /\ (w.pc = "fetch" => on)
  BY <1>6 DEF Fetch, WorkSteps, Outs
<1>10. now \in {"part", "mixed"} /\ (Using(sg) = {} => now = "part")
  OBVIOUS
<1>. HIDE DEF e, w, now, on
<1>11. book' \in [Keys -> Entry] /\ book'[k] = e /\ \A l \in Keys : l # k => book'[l] = book[l]
  BY <1>3, <1>5, <1>8
<1>12. work' \in [Keys -> Fetch] /\ work'[k] = w /\ \A l \in Keys : l # k => work'[l] = work[l]
  BY <1>2, <1>3, <1>9
<1>13. /\ tasks' \in [Iters \X Targets -> SUBSET Files] /\ f \notin tasks'[<<i, t>>]
       /\ \A j \in Iters, u \in Targets : tasks'[<<j, u>>] \subseteq tasks[<<j, u>>]
  BY <1>2, <1>3
<1>14. /\ stage' \in [Keys -> {"none", "part", "full", "mixed"}] /\ (on => stage'[sg] = now)
       /\ \A l \in Keys : l # sg => stage'[l] = stage[l]
  BY <1>2, <1>3, <1>6, <1>10
<1>15. f \notin shaken => /\ book[k].st = "READY" /\ Live(k) /\ Absent(f)
                          /\ \A l \in Keys : l[1] = f => work[l].pc = "none"
  <2>. SUFFICES ASSUME f \notin shaken
                PROVE  /\ book[k].st = "READY" /\ Live(k) /\ Absent(f)
                       /\ \A l \in Keys : l[1] = f => work[l].pc = "none"
    OBVIOUS
  <2>1. book[k].st = "READY" /\ Live(k)
    BY <1>1, <1>2 DEF IInv, FileParts, InQueue, Live
  <2>2. Absent(f)
    BY <1>1, <1>2, <2>1 DEF IInv, FileParts, LiveAbsent, Stored
  <2>3. \A l \in Keys : l[1] = f /\ work[l].pc # "none" => k = l
    BY <1>1, <2>1, WorkerAlone
  <2>. QED
    BY <1>2, <2>1, <2>2, <2>3
<1>16. Active => k[2] # mst.i
  BY <1>1, <1>2, OtherIteration
<1>17. \A l \in Keys : (Exists(l)' <=> Exists(l)) /\ book'[l].t = book[l].t
  BY <1>4, <1>8, <1>11 DEF Exists
<1>18. Shape'
  <2>1. \A l \in Keys : book'[l].st \in {"READY", "FETCHING", "TORESUME"} => book'[l].t # None
    BY <1>8, <1>11, MirroringConfig DEF IInv, Shape
  <2>. QED
    BY <1>2, <1>11, <1>12, <1>13, <1>14, <2>1 DEF IInv, Shape, Active
<1>19. Queued' /\ Asked' /\ ToSend'
  BY <1>2, <1>13, <1>17, SMTT(30) DEF IInv, FileParts, Queued, Asked, ToSend
<1>20. Handled'
  BY <1>1, <1>2, <1>4, <1>9, <1>12, <1>17 DEF IInv, FileParts, Handled
<1>21. Outcomes'
  <2>1. \A l \in Keys : book'[l].st = "SUCCESS" => book[l].st = "SUCCESS"
    BY <1>8, <1>11
  <2>. QED
    BY <1>2, <1>9, <1>12, <2>1 DEF IInv, FileParts, Outcomes
<1>22. OwnStaging'
  BY <1>1, <1>6, <1>8, <1>9, <1>11, <1>12 DEF IInv, FileParts, OwnStaging
<1>23. \A l \in Keys : l[1] \notin shaken /\ Live(l)' => Live(l) /\ (l # k => book'[l] = book[l])
  BY <1>1, <1>2, <1>11, <1>15 DEF Live, Active
<1>24. LiveAbsent'
  BY <1>1, <1>2, <1>12, <1>15, <1>23 DEF IInv, FileParts, LiveAbsent, Stored, Absent
<1>25. InQueue'
  <2>1. \A u \in Targets : f \notin tasks'[<<i, u>>]
    BY <1>1, <1>4, <1>13 DEF IInv, FileParts, Queued
  <2>. QED
    BY <1>1, <1>2, <1>11, <1>13, <2>1 DEF IInv, FileParts, InQueue
<1>26. AtWork'
  BY <1>2, <1>8, <1>11, <1>12 DEF IInv, FileParts, AtWork
<1>27. StagingOK'
  <2>1. f \notin shaken => now = "part"
    <3>1. \A l \in Keys : work[l].pc # "none" => work[l].sg[1] = l[1]
      BY DEF IInv, FileParts, OwnStaging
    <3>2. f \notin shaken => \A l \in Keys : work[l].pc # "none" => work[l].sg # sg
      BY <1>6, <1>15, <3>1
    <3>. QED
      BY <1>7, <1>10, <3>2
  <2>. QED
    BY <1>1, <1>2, <1>6, <1>9, <1>12, <1>14, <1>15, <2>1 DEF IInv, FileParts, StagingOK, OwnStaging
<1>28. StoredOnce'
  BY <1>2 DEF IInv, FileParts, StoredOnce
<1>29. NewIteration'
  BY <1>2, <1>11, <1>16, <1>17 DEF IInv, NewIteration, Active
<1>30. OneLive'
  <2>1. \A l \in Keys : l[1] = f /\ f \notin shaken /\ Live(l) => l = k
    BY <1>1, <1>15, <1>16 DEF IInv, OneLive, Active
  <2>. QED
    BY <1>1, <1>2, <1>23, <2>1 DEF IInv, OneLive
<1>. QED
  BY <1>18, <1>19, <1>20, <1>21, <1>22, <1>24, <1>25, <1>26, <1>27, <1>28, <1>29, <1>30 DEF IInv, FileParts

-----------------------------------------------------------------------------
(***************************************************************************)
(* Targets, the source, and the theorem.                                   *)
(***************************************************************************)

\* A step that touches neither the table nor the master keeps everything.
LEMMA AsideKeeps ==
    ASSUME IInv, SameTable, UNCHANGED <<mst, exec>>, src' \subseteq Files, online' \subseteq Targets,
           events' \in 0 .. MaxEvents
    PROVE  IInv'
<1>1. FileParts' /\ Asked'
  BY SameKeeps DEF Active
<1>2. Shape'
  BY DEF IInv, Shape, Active, SameTable
<1>3. ToSend' /\ NewIteration' /\ OneLive'
  BY DEF IInv, ToSend, NewIteration, OneLive, Live, Active, Exists, SameTable
<1>. QED
  BY <1>1, <1>2, <1>3 DEF IInv

\* A target is killed: the files of its workers are shaken.
LEMMA CrashKeeps ==
    ASSUME IInv, NEW t \in Targets, Crash(t) PROVE IInv'
<1>. USE KeyParts
<1>1. /\ online' = online \ {t} /\ events < MaxEvents /\ events' = events + 1
      /\ call' = [p \in Iters \X Targets |-> IF p[2] = t THEN "none" ELSE call[p]]
      /\ tasks' = [p \in Iters \X Targets |-> IF p[2] = t THEN {} ELSE tasks[p]]
      /\ work' = [k \in Keys |-> IF work[k].t = t THEN NoWork ELSE work[k]]
      /\ shaken' = shaken \cup {k[1] : k \in {j \in Keys : work[j].t = t}}
      /\ UNCHANGED <<src, book, have, stage, mst, exec>>
  BY DEF Crash, Event, mst
<1>2. /\ work \in [Keys -> Fetch] /\ call \in [Iters \X Targets -> {"none", "asked", "run"}]
      /\ tasks \in [Iters \X Targets -> SUBSET Files] /\ events \in 0 .. MaxEvents /\ shaken \subseteq Files
      /\ online \subseteq Targets
  BY DEF IInv, Shape
<1>3. NoWork \in Fetch /\ NoWork.pc = "none"
  BY DEF NoWork, Fetch, WorkSteps, Outs
<1>4. /\ work' \in [Keys -> Fetch]
      /\ \A k \in Keys : (work[k].t = t /\ work'[k] = NoWork) \/ (work[k].t # t /\ work'[k] = work[k])
  BY <1>1, <1>2, <1>3
<1>5. /\ call' \in [Iters \X Targets -> {"none", "asked", "run"}] /\ tasks' \in [Iters \X Targets -> SUBSET Files]
      /\ \A i \in Iters, u \in Targets : /\ call'[<<i, u>>] = IF u = t THEN "none" ELSE call[<<i, u>>]
                                         /\ tasks'[<<i, u>>] = IF u = t THEN {} ELSE tasks[<<i, u>>]
  BY <1>1, <1>2
<1>6. shaken \subseteq shaken' /\ shaken' \subseteq Files /\ \A k \in Keys : work[k].t = t => k[1] \in shaken'
  BY <1>1, <1>2
<1>7. Shape'
  <2>1. events' \in 0 .. MaxEvents
    BY <1>1, <1>2, MirroringConfig
  <2>. QED
    BY <1>1, <1>2, <1>4, <1>5, <1>6, <2>1 DEF IInv, Shape, Active
<1>8. Queued' /\ Asked'
  BY <1>1, <1>5 DEF IInv, FileParts, Queued, Asked, Exists
<1>9. Handled'
  BY <1>1, <1>3, <1>4, <1>5 DEF IInv, FileParts, Handled, Exists
<1>10. Outcomes' /\ OwnStaging'
  BY <1>1, <1>3, <1>4 DEF IInv, FileParts, Outcomes, OwnStaging
<1>11. LiveAbsent'
  <2>1. \A k \in Keys : Live(k)' => Live(k)
    BY <1>1 DEF Live, Active
  <2>. QED
    BY <1>1, <1>4, <1>6, <2>1 DEF IInv, FileParts, LiveAbsent, Stored, Absent
<1>12. InQueue'
  BY <1>1, <1>5, <1>6 DEF IInv, FileParts, InQueue
<1>13. AtWork' /\ StagingOK'
  BY <1>1, <1>3, <1>4, <1>6 DEF IInv, FileParts, AtWork, StagingOK
<1>14. StoredOnce'
  BY <1>1, <1>6 DEF IInv, FileParts, StoredOnce
<1>15. ToSend'
  BY <1>1, <1>5 DEF IInv, ToSend, Exists
<1>16. NewIteration'
  BY <1>1, <1>5 DEF IInv, NewIteration, Active, Exists
<1>17. OneLive'
  BY <1>1, <1>6 DEF IInv, OneLive, Live, Active
<1>. QED
  BY <1>7, <1>8, <1>9, <1>10, <1>11, <1>12, <1>13, <1>14, <1>15, <1>16, <1>17 DEF IInv, FileParts

\* The state from which mirroring starts.
LEMMA InitIInv ==
    ASSUME Init PROVE IInv
<1>. USE KeyParts
<1>1. NoEntry \in Entry /\ NoEntry.st = "none" /\ NoEntry.sg = None
  BY DEF NoEntry, Entry, Status
<1>2. NoWork \in Fetch /\ NoWork.pc = "none"
  BY DEF NoWork, Fetch, WorkSteps, Outs
<1>3. ~Active /\ mst.i = 0
  BY DEF Init, Active, Idle, mst, Tables
<1>4. Shape
  <2>1. mst \in MRec
    BY MirroringConfig DEF Init, Idle, MasterSteps, mst, Tables
  <2>2. \A k \in Keys : book[k].st = "none"
    BY <1>1 DEF Init
  <2>. QED
    BY <1>1, <1>2, <1>3, <2>1, <2>2, MirroringConfig DEF Init, Shape
<1>5. \A k \in Keys : book[k] = NoEntry /\ work[k] = NoWork
  BY DEF Init
<1>6. \A i \in Iters, t \in Targets : call[<<i, t>>] = "none" /\ tasks[<<i, t>>] = {}
  BY DEF Init
<1>7. \A i \in Iters : exec[i] = {}
  BY DEF Init
<1>8. \A t \in Targets, f \in Files : have[<<t, f>>] = "none"
  BY DEF Init
<1>9. \A k \in Keys : ~Live(k)
  BY <1>1, <1>3, <1>5 DEF Live
<1>10. Queued /\ Handled /\ Outcomes
  BY <1>1, <1>2, <1>5, <1>6 DEF Queued, Handled, Outcomes
<1>11. OwnStaging /\ InQueue /\ AtWork /\ StagingOK
  BY <1>1, <1>2, <1>5, <1>6, MirroringConfig DEF OwnStaging, InQueue, AtWork, StagingOK
<1>12. LiveAbsent /\ OneLive
  BY <1>9 DEF LiveAbsent, OneLive
<1>13. StoredOnce
  BY <1>8 DEF StoredOnce
<1>14. Asked /\ ToSend /\ NewIteration
  BY <1>3, <1>6, <1>7 DEF Asked, ToSend, NewIteration
<1>. QED
  BY <1>4, <1>10, <1>11, <1>12, <1>13, <1>14 DEF IInv, FileParts

\* Every step keeps the invariant.
LEMMA NextIInv ==
    ASSUME IInv, Tabled, Alone, shaken' # Files, [Next]_vars PROVE IInv' /\ Alone'
<1>1. ASSUME NEW m \in Tables, populate_mirroring_bookkeeping_table(m) PROVE IInv' /\ Alone'
  <2>1. m = 1
    BY <1>1 DEF populate_mirroring_bookkeeping_table, Starts, Alone, Tables
  <2>2. Alone'
    BY <1>1, <2>1 DEF populate_mirroring_bookkeeping_table, Alone, Tabled, Tables
  <2>. QED
    BY <1>1, <2>1, <2>2, PopulateKeeps
<1>2. ASSUME NEW m \in Tables, MirrTable(m) PROVE IInv' /\ Alone'
  <2>1. m = 1
    <3>1. master[m].pc # "idle"
      BY <1>2 DEF MirrTable, reassign_broken_downloads, ResumeFails, RetireResumed, limit_mirrored_files,
                remove_hosts_without_available_threads, AssignDone, AssignFile
    <3>. QED
      BY <3>1 DEF Tables, Alone
  <2>2. \/ reassign_broken_downloads(1) \/ ResumeFails(1) \/ RetireResumed(1) \/ limit_mirrored_files(1)
        \/ remove_hosts_without_available_threads(1) \/ AssignDone(1) \/ \E f \in Files, t \in Targets : AssignFile(1, f, t)
    BY <1>2, <2>1 DEF MirrTable
  <2>3. \E x : master' = [master EXCEPT ![1] = x]
    BY <2>2 DEF reassign_broken_downloads, ResumeFails, RetireResumed, limit_mirrored_files,
                remove_hosts_without_available_threads, AssignDone, AssignFile
  <2>4. master'[2] = master[2]
    BY <2>3 DEF Tabled, Tables
  <2>. QED
    BY <2>2, <2>4, ReassignKeeps, ResumeFailsKeeps, RetireKeeps, LimitKeeps, HostsKeep, AssignDoneKeeps, AssignKeeps DEF Alone
<1>3. CASE MasterCrash
  BY <1>3, MasterCrashKeeps DEF MasterCrash, Alone, Tables, Idle
<1>4. ASSUME NEW i \in Iters, Execute(i) PROVE IInv' /\ Alone'
  BY <1>4, DistributeKeeps, FailKeeps DEF Execute, Alone, distributed_mirroring, fail_remaining_transfers
<1>5. ASSUME NEW i \in Iters, NEW t \in Targets, MirrExec(i, t) PROVE IInv' /\ Alone'
  <2>1. IInv'
    BY <1>5, MirrExecKeeps, MirrExecDoneKeeps, TakeKeeps DEF MirrExec
  <2>2. UNCHANGED master
    BY <1>5 DEF MirrExec, multithreading_mirroring, MirrExecDone, process_mirroring_tasks
  <2>. QED
    BY <2>1, <2>2 DEF Alone
<1>6. ASSUME NEW k \in Keys, Worker(k) PROVE IInv' /\ Alone'
  <2>1. IInv'
    BY <1>6, SaveKeeps, MoveKeeps, InsertKeeps, RecordKeeps DEF Worker
  <2>2. UNCHANGED master
    BY <1>6 DEF Worker, save_in_staging_file, MoveToTarget, InsertFile, RecordOutcome
  <2>. QED
    BY <2>1, <2>2 DEF Alone
<1>7. ASSUME NEW f \in Files, SourceArchive(f) PROVE IInv' /\ Alone'
  BY <1>7, AsideKeeps DEF SourceArchive, SameTable, IInv, Shape, Alone, mst
<1>8. ASSUME NEW t \in Targets, Offline(t) PROVE IInv' /\ Alone'
  <2>1. SameTable /\ UNCHANGED <<master, mst, exec, src>> /\ online' \subseteq online /\ events < MaxEvents /\ events' = events + 1
    BY <1>8 DEF Offline, Event, SameTable, mst
  <2>2. events' \in 0 .. MaxEvents
    BY <2>1, MirroringConfig DEF IInv, Shape
  <2>. QED
    BY <2>1, <2>2, AsideKeeps DEF IInv, Shape, Alone
<1>9. ASSUME NEW t \in Targets, Online(t) \/ Crash(t) PROVE IInv' /\ Alone'
  BY <1>9, OnlineKeeps, CrashKeeps DEF Online, Crash, Alone
<1>10. CASE UNCHANGED vars
  BY <1>10, AsideKeeps DEF vars, SameTable, IInv, Shape, Alone, mst
<1>. QED
  BY <1>1, <1>2, <1>3, <1>4, <1>5, <1>6, <1>7, <1>8, <1>9, <1>10 DEF Next

\* A set with no two different elements has at most one.
LEMMA AtMostOne ==
    ASSUME NEW S, \A x, y \in S : x = y PROVE Cardinality(S) <= 1
<1>1. CASE S = {}
  BY <1>1, FS_EmptySet
<1>2. CASE S # {}
  <2>1. PICK x \in S : TRUE
    BY <1>2
  <2>2. S = {x}
    BY <2>1
  <2>. QED
    BY <2>2, FS_Singleton
<1>. QED
  BY <1>1, <1>2

-----------------------------------------------------------------------------
(***************************************************************************)
(* What holds even while two MIRRTABLEs overlap.                           *)
(***************************************************************************)

BookOK == book \in [Keys -> Entry] /\ SuccessStored
WorkOK ==
    /\ work \in [Keys -> Fetch]
    /\ \A k \in Keys : work[k].pc # "none" => work[k].sg \in Keys /\ work[k].t \in Targets
    /\ \A k \in Keys : work[k].pc = "status" => work[k].out \in {"SUCCESS", "FAILURE", "TORESUME", "ABORTED"}
    /\ \A k \in Keys : work[k].pc = "status" /\ work[k].out = "SUCCESS" => have[<<work[k].t, k[1]>>] # "none"
MasterOK == Tabled /\ \A m \in Tables : master[m].pc # "idle" => master[m].i \in Iters
RestOK ==
    /\ have \in [Targets \X Files -> {"none", "good", "mixed"}]
    /\ stage \in [Keys -> {"none", "part", "full", "mixed"}] /\ online \subseteq Targets
    /\ exec \in [Iters -> SUBSET {"send", "wait"}]
    /\ call \in [Iters \X Targets -> {"none", "asked", "run"}]
    /\ tasks \in [Iters \X Targets -> SUBSET Files]
    /\ src \subseteq Files /\ shaken \subseteq Files /\ events \in 0 .. MaxEvents
Base == BookOK /\ WorkOK /\ MasterOK /\ RestOK

\* An event is counted.
LEMMA EventCounts ==
    ASSUME events \in 0 .. MaxEvents, NEW e, Event(e) PROVE events' \in 0 .. MaxEvents
  BY MirroringConfig DEF Event

\* No entry gets SUCCESS and no row goes.
LEMMA BookKeeps ==
    ASSUME Base, book' \in [Keys -> Entry], \A k \in Keys : book'[k].st = "SUCCESS" => book[k].st = "SUCCESS", UNCHANGED have
    PROVE  BookOK'
  BY DEF Base, BookOK, SuccessStored

\* A step of a MIRRTABLE is one of its own record.
LEMMA MasterTakes ==
    ASSUME MasterOK, NEW m \in Tables, NEW x \in MRec, x.pc # "idle" => x.i \in Iters, master' = [master EXCEPT ![m] = x]
    PROVE  MasterOK'
  BY DEF MasterOK, Tabled

\* The steps a record takes.
LEMMA RecordSteps ==
    ASSUME MasterOK, NEW m \in Tables, master[m].pc # "idle"
    PROVE  /\ \A c \in MasterSteps : master' = [master EXCEPT ![m].pc = c] => MasterOK'
           /\ master' = [master EXCEPT ![m].any = TRUE] => MasterOK'
           /\ \A hs \in SUBSET Targets : master' = [master EXCEPT ![m].pc = "assign", ![m].hosts = hs] => MasterOK'
<1>1. master[m] \in MRec /\ master[m].i \in Iters
  BY DEF MasterOK, Tabled
<1>. PICK e : e = master[m]
  OBVIOUS
<1>. HIDE DEF MRec
<1>2. ASSUME NEW c \in MasterSteps, master' = [master EXCEPT ![m].pc = c] PROVE MasterOK'
  <2>1. PICK x : x = [e EXCEPT !.pc = c]
    OBVIOUS
  <2>2. x \in MRec /\ x.i = e.i
    BY <1>1, <2>1 DEF MRec
  <2>3. master' = [master EXCEPT ![m] = x]
    BY <1>2, <2>1
  <2>. QED
    BY <1>1, <2>2, <2>3, MasterTakes
<1>3. ASSUME master' = [master EXCEPT ![m].any = TRUE] PROVE MasterOK'
  <2>1. PICK x : x = [e EXCEPT !.any = TRUE]
    OBVIOUS
  <2>2. x \in MRec /\ x.i = e.i
    BY <1>1, <2>1, ZenonT(60) DEF MRec
  <2>3. master' = [master EXCEPT ![m] = x]
    BY <1>3, <2>1
  <2>. QED
    BY <1>1, <2>2, <2>3, MasterTakes
<1>4. ASSUME NEW hs \in SUBSET Targets, master' = [master EXCEPT ![m].pc = "assign", ![m].hosts = hs] PROVE MasterOK'
  <2>1. PICK x : x = [e EXCEPT !.pc = "assign", !.hosts = hs]
    OBVIOUS
  <2>2. x \in MRec /\ x.i = e.i
    BY <1>1, <2>1 DEF MRec, MasterSteps
  <2>3. master' = [master EXCEPT ![m] = x]
    BY <1>4, <2>1 DEF MasterOK, Tabled
  <2>. QED
    BY <1>1, <2>2, <2>3, MasterTakes
<1>. QED
  BY <1>2, <1>3, <1>4

\* A MIRRTABLE that ends.
LEMMA IdleSteps ==
    ASSUME MasterOK, NEW m \in Tables, master' = [master EXCEPT ![m] = Idle] PROVE MasterOK'
<1>1. Idle \in MRec /\ Idle.pc = "idle"
  BY MirroringConfig DEF Idle, MasterSteps
<1>. QED
  BY <1>1, MasterTakes

LEMMA PopulateBase ==
    ASSUME Base, NEW m \in Tables, populate_mirroring_bookkeeping_table(m) PROVE Base'
<1>1. PICK i : i = get_mirroring_iteration
  OBVIOUS
<1>2. /\ i <= MaxIter /\ book' = insert_missing(i) /\ master' = [master EXCEPT ![m] = [Idle EXCEPT !.pc = "resume", !.i = i]]
      /\ UNCHANGED <<src, have, stage, online, exec, call, tasks, work>>
      /\ (events' = events \/ Event("again")) /\ shaken' \in {shaken, Files}
  BY <1>1 DEF populate_mirroring_bookkeeping_table, Starts
<1>3. book \in [Keys -> Entry]
  BY DEF Base, BookOK
<1>4. i \in Iters
  BY <1>1, <1>2, <1>3, IterationFresh, MirroringConfig DEF Iters
<1>5. PICK x : x = [Idle EXCEPT !.pc = "resume", !.i = i]
  OBVIOUS
<1>50. x \in MRec /\ x.i = i
  <2>1. x = [pc |-> "resume", i |-> i, hosts |-> {}, any |-> FALSE]
    BY <1>5 DEF Idle
  <2>2. i \in 0 .. MaxIter
    BY <1>4, ItersAre, MirroringConfig
  <2>. QED
    BY <2>1, <2>2 DEF MasterSteps
<1>6. MasterOK'
  BY <1>2, <1>4, <1>5, <1>50, MasterTakes DEF Base
<1>7. [NoEntry EXCEPT !.st = "LOCKED"] \in Entry /\ [NoEntry EXCEPT !.st = "LOCKED"].st = "LOCKED"
  BY DEF NoEntry, Entry, Status
<1>8. BookOK'
  BY <1>2, <1>3, <1>7, BookKeeps DEF insert_missing
<1>9. events' \in 0 .. MaxEvents
  BY <1>2, EventCounts DEF Base, RestOK
<1>. QED
  BY <1>2, <1>6, <1>8, <1>9 DEF Base, WorkOK, RestOK

\* An entry is copied to be resumed.
LEMMA ReassignBase ==
    ASSUME Base, NEW m \in Tables, reassign_broken_downloads(m) PROVE Base'
<1>1. PICK pick \in [Files -> Keys] :
          book' = [k \in Keys |-> IF k[2] = master[m].i /\ Resumable(k[1]) # {}
                                  THEN [book[pick[k[1]]] EXCEPT !.st = "READY"] ELSE book[k]]
  BY DEF reassign_broken_downloads
<1>2. /\ master[m].pc = "resume" /\ master' = [master EXCEPT ![m].pc = "retire"]
      /\ UNCHANGED <<src, have, stage, online, exec, call, tasks, work, shaken, events>>
  BY DEF reassign_broken_downloads
<1>3. MasterOK'
  BY <1>2, RecordSteps DEF Base, MasterSteps
<1>4. \A k \in Keys : book[k] \in Entry /\ pick[k[1]] \in Keys
  BY KeyParts DEF Base, BookOK
<1>5. \A e \in Entry : [e EXCEPT !.st = "READY"] \in Entry /\ [e EXCEPT !.st = "READY"].st = "READY"
  BY DEF Entry, Status
<1>6. BookOK'
  <2>1. \A k \in Keys : [book[pick[k[1]]] EXCEPT !.st = "READY"] \in Entry /\ [book[pick[k[1]]] EXCEPT !.st = "READY"].st = "READY"
    BY <1>4, <1>5
  <2>. DEFINE cp(k) == [book[pick[k[1]]] EXCEPT !.st = "READY"]
              hit(k) == k[2] = master[m].i /\ Resumable(k[1]) # {}
  <2>2. book' = [k \in Keys |-> IF hit(k) THEN cp(k) ELSE book[k]]
    BY <1>1
  <2>3. \A k \in Keys : cp(k) \in Entry /\ cp(k).st = "READY"
    BY <2>1
  <2>. HIDE DEF cp, hit
  <2>. QED
    BY <1>2, <1>4, <2>2, <2>3, BookKeeps
<1>. QED
  BY <1>2, <1>3, <1>6 DEF Base, WorkOK, RestOK

\* The other steps of MIRRTABLE.
LEMMA TableBase ==
    ASSUME Base, NEW m \in Tables,
           \/ ResumeFails(m) \/ RetireResumed(m) \/ limit_mirrored_files(m)
           \/ remove_hosts_without_available_threads(m) \/ AssignDone(m)
           \/ \E f \in Files, t \in Targets : AssignFile(m, f, t)
    PROVE  Base'
<1>1. /\ UNCHANGED <<src, have, stage, online, call, tasks, work, shaken>>
      /\ exec' = exec \/ (master[m].pc # "idle" /\ exec' = [exec EXCEPT ![master[m].i] = exec[master[m].i] \cup {"send"}])
      /\ events' = events \/ Event("space")
  BY DEF ResumeFails, RetireResumed, limit_mirrored_files, remove_hosts_without_available_threads, AssignDone, AssignFile
<1>2. book \in [Keys -> Entry] /\ MasterOK /\ RestOK
  BY DEF Base, BookOK
<1>3. RestOK'
  <2>1. events' \in 0 .. MaxEvents
    BY <1>1, <1>2, EventCounts DEF RestOK
  <2>2. exec' \in [Iters -> SUBSET {"send", "wait"}]
    BY <1>1, <1>2 DEF RestOK, MasterOK
  <2>. QED
    BY <1>1, <1>2, <2>1, <2>2 DEF RestOK
<1>4. MasterOK'
  <2>1. CASE ResumeFails(m)
    BY <1>2, <2>1, IdleSteps DEF ResumeFails
  <2>2. CASE RetireResumed(m)
    BY <1>2, <2>2, RecordSteps DEF RetireResumed, MasterSteps
  <2>3. CASE limit_mirrored_files(m)
    BY <1>2, <2>3, RecordSteps DEF limit_mirrored_files, MasterSteps
  <2>4. CASE remove_hosts_without_available_threads(m)
    <3>1. AvailableHosts \in SUBSET Targets
      BY <1>2 DEF AvailableHosts, RestOK
    <3>. QED
      BY <1>2, <2>4, <3>1, RecordSteps, IdleSteps DEF remove_hosts_without_available_threads
  <2>5. CASE AssignDone(m)
    BY <1>2, <2>5, IdleSteps DEF AssignDone
  <2>6. CASE \E f \in Files, t \in Targets : AssignFile(m, f, t)
    BY <1>2, <2>6, RecordSteps DEF AssignFile
  <2>. QED
    BY <2>1, <2>2, <2>3, <2>4, <2>5, <2>6
<1>5. BookOK'
  <2>1. CASE UNCHANGED book
    BY <1>1, <1>2, <2>1, BookKeeps
  <2>2. CASE RetireResumed(m)
    <3>1. PICK ks : book' = Updated(ks, "FAILURE", TRUE)
      BY <2>2 DEF RetireResumed
    <3>2. Sets(ks, "FAILURE")
      BY <1>2, <3>1, UpdatedIs DEF Status
    <3>. QED
      BY <1>1, <3>2, BookKeeps DEF Sets
  <2>3. CASE \E gone : book' = Deleted(gone)
    <3>1. PICK gone : book' = Deleted(gone)
      BY <2>3
    <3>2. NoEntry \in Entry /\ NoEntry.st = "none"
      BY DEF NoEntry, Entry, Status
    <3>. QED
      BY <1>1, <1>2, <3>1, <3>2, BookKeeps DEF Deleted
  <2>4. ASSUME NEW f \in Files, NEW t \in Targets, AssignFile(m, f, t) PROVE BookOK'
    <3>1. PICK k0, e0 : k0 = <<f, master[m].i>> /\ e0 = [st |-> "READY", t |-> t, sg |-> "vol"]
      OBVIOUS
    <3>2. book' = [book EXCEPT ![k0] = e0]
      BY <2>4, <3>1 DEF AssignFile
    <3>3. e0 \in Entry /\ e0.st = "READY"
      BY <3>1 DEF Entry, Status
    <3>4. book' \in [Keys -> Entry] /\ \A k \in Keys : book'[k] \in {book[k], e0}
      BY <1>2, <3>2, <3>3
    <3>. QED
      BY <1>1, <3>3, <3>4, BookKeeps
  <2>. QED
    BY <2>1, <2>2, <2>3, <2>4 DEF ResumeFails, limit_mirrored_files, remove_hosts_without_available_threads, AssignDone
<1>. QED
  BY <1>1, <1>3, <1>4, <1>5 DEF Base, WorkOK

\* The threads of iterations, MIRREXEC, targets and the master's restart.
LEMMA OtherBase ==
    ASSUME Base,
           \/ MasterCrash
           \/ \E i \in Iters : Execute(i) \/ \E t \in Targets : multithreading_mirroring(i, t) \/ MirrExecDone(i, t)
           \/ \E f \in Files : SourceArchive(f)
           \/ \E t \in Targets : Offline(t) \/ Online(t)
    PROVE  Base'
<1>0. book \in [Keys -> Entry] /\ MasterOK /\ RestOK
  BY DEF Base, BookOK
<1>. DEFINE Kept == UNCHANGED <<have, stage, work>>
<1>1. ASSUME Kept, BookOK', MasterOK', RestOK' PROVE Base'
  BY <1>1 DEF Base, WorkOK
<1>2. ASSUME NEW h \in Targets \cup {None}, book' = CleanUpTable(h), UNCHANGED have PROVE BookOK'
  <2>1. CleanUpTable(h) \in [Keys -> Entry] /\ \A k \in Keys : CleanUpTable(h)[k].st = "SUCCESS" => book[k].st = "SUCCESS"
    BY <1>0, CleanUpIs
  <2>. QED
    BY <1>2, <2>1, BookKeeps
<1>3. \A h : Disturbed(h) \subseteq Files
  BY DEF Disturbed, Held
<1>4. \A ks : Held(ks) \subseteq Files
  BY DEF Held
<1>5. CASE MasterCrash
  <2>1. Kept /\ UNCHANGED <<src, online, call, tasks>> /\ Event("master") /\ exec' = [i \in Iters |-> {}]
        /\ book' = CleanUpTable(None) /\ shaken' = shaken \cup Disturbed(None) /\ master' = [m \in Tables |-> Idle]
    BY <1>5 DEF MasterCrash
  <2>2. MasterOK'
    BY <2>1, MirroringConfig DEF MasterOK, Tabled, Idle, MasterSteps
  <2>3. RestOK'
    BY <1>0, <1>3, <2>1, EventCounts DEF RestOK
  <2>. QED
    BY <1>1, <1>2, <2>1, <2>2, <2>3
<1>6. ASSUME NEW i \in Iters, distributed_mirroring(i) PROVE Base'
  <2>1. PICK gone, as : /\ call' = [p \in Iters \X Targets |-> IF p[1] = i /\ p[2] \in as \cap online THEN "asked" ELSE call[p]]
                        /\ book' = Updated(gone, "ABORTED", FALSE) /\ shaken' = shaken \cup Held(gone)
    BY <1>6 DEF distributed_mirroring
  <2>2. exec' = [exec EXCEPT ![i] = {"wait"}] /\ Kept /\ UNCHANGED <<src, online, master, tasks, events>>
    BY <1>6 DEF distributed_mirroring
  <2>3. Sets(gone, "ABORTED")
    BY <1>0, <2>1, UpdatedIs DEF Status
  <2>4. BookOK'
    BY <2>2, <2>3, BookKeeps DEF Sets
  <2>5. call' \in [Iters \X Targets -> {"none", "asked", "run"}] /\ exec' \in [Iters -> SUBSET {"send", "wait"}]
    BY <1>0, <2>1, <2>2 DEF RestOK
  <2>6. RestOK'
    BY <1>0, <1>4, <2>1, <2>2, <2>5 DEF RestOK
  <2>. QED
    BY <1>0, <1>1, <2>2, <2>4, <2>6 DEF MasterOK, Tabled
<1>7. ASSUME NEW i \in Iters, fail_remaining_transfers(i) PROVE Base'
  <2>1. PICK ks, rs : book' = Updated(ks, "FAILURE", FALSE) /\ shaken' \in {shaken, shaken \cup Held(rs)}
    BY <1>7 DEF fail_remaining_transfers
  <2>2. /\ exec' = [exec EXCEPT ![i] = exec[i] \ {"wait"}] /\ Kept /\ UNCHANGED <<src, online, master, call, tasks>>
        /\ events' = events \/ Event("timeout")
    BY <1>7 DEF fail_remaining_transfers
  <2>3. Sets(ks, "FAILURE")
    BY <1>0, <2>1, UpdatedIs DEF Status
  <2>4. BookOK'
    BY <2>2, <2>3, BookKeeps DEF Sets
  <2>5. RestOK'
    BY <1>0, <1>4, <2>1, <2>2, EventCounts DEF RestOK
  <2>. QED
    BY <1>0, <1>1, <2>2, <2>4, <2>5 DEF MasterOK, Tabled
<1>8. ASSUME NEW i \in Iters, NEW t \in Targets, multithreading_mirroring(i, t) \/ MirrExecDone(i, t) PROVE Base'
  <2>1. /\ Kept /\ UNCHANGED <<src, online, master, exec, shaken, events>>
        /\ \E c \in {"none", "run"} : call' = [call EXCEPT ![<<i, t>>] = c]
        /\ book' = book \/ book' = Deleted(Entries({"READY"}, t, i))
        /\ tasks' = tasks \/ tasks' = [tasks EXCEPT ![<<i, t>>] = {k[1] : k \in Entries({"READY"}, t, i)}]
    BY <1>8 DEF multithreading_mirroring, MirrExecDone
  <2>2. {k[1] : k \in Entries({"READY"}, t, i)} \in SUBSET Files
    BY KeyParts DEF Entries
  <2>3. RestOK'
    <3>1. call' \in [Iters \X Targets -> {"none", "asked", "run"}]
      BY <1>0, <2>1 DEF RestOK
    <3>2. tasks' \in [Iters \X Targets -> SUBSET Files]
      <4>1. PICK new \in SUBSET Files : tasks' = tasks \/ tasks' = [tasks EXCEPT ![<<i, t>>] = new]
        BY <2>1, <2>2
      <4>. QED
        BY <1>0, <4>1 DEF RestOK
    <3>. QED
      BY <1>0, <2>1, <3>1, <3>2 DEF RestOK
  <2>4. NoEntry \in Entry /\ NoEntry.st = "none"
    BY DEF NoEntry, Entry, Status
  <2>5. BookOK'
    BY <1>0, <2>1, <2>4, BookKeeps DEF Deleted
  <2>. QED
    BY <1>0, <1>1, <2>1, <2>3, <2>5 DEF MasterOK, Tabled
<1>9. ASSUME NEW f \in Files, SourceArchive(f) PROVE Base'
  BY <1>0, <1>1, <1>9, BookKeeps DEF SourceArchive, MasterOK, Tabled, RestOK
<1>10. ASSUME NEW t \in Targets, Offline(t) PROVE Base'
  BY <1>0, <1>1, <1>10, BookKeeps, EventCounts DEF Offline, MasterOK, Tabled, RestOK
<1>11. ASSUME NEW t \in Targets, Online(t) PROVE Base'
  <2>1. /\ Kept /\ online' = online \cup {t} /\ UNCHANGED <<src, master, exec, call, tasks, events>>
        /\ (book' = CleanUpTable(t) /\ shaken' = shaken \cup Disturbed(t)) \/ UNCHANGED <<book, shaken>>
    BY <1>11 DEF Online
  <2>2. BookOK'
    BY <1>0, <1>2, <2>1, BookKeeps
  <2>3. RestOK'
    BY <1>0, <1>3, <2>1 DEF RestOK
  <2>. QED
    BY <1>0, <1>1, <2>1, <2>2, <2>3 DEF MasterOK, Tabled
<1>. QED
  BY <1>5, <1>6, <1>7, <1>8, <1>9, <1>10, <1>11 DEF Execute

\* What a worker may become.
Fits(k, w) ==
    /\ w \in Fetch /\ (w.pc # "none" => w.sg \in Keys /\ w.t \in Targets)
    /\ w.pc = "status" => w.out \in {"SUCCESS", "FAILURE", "TORESUME", "ABORTED"}
    /\ w.pc = "status" /\ w.out = "SUCCESS" => have'[<<w.t, k[1]>>] # "none"

\* One worker takes a step, and no row goes.
LEMMA WorkTakes ==
    ASSUME WorkOK, NEW k \in Keys, NEW w, Fits(k, w), work' = [work EXCEPT ![k] = w],
           \A l \in Keys, t \in Targets : have[<<t, l[1]>>] # "none" => have'[<<t, l[1]>>] # "none"
    PROVE  WorkOK'
<1>1. \A l \in Keys : (l = k /\ work'[l] = w) \/ (l # k /\ work'[l] = work[l])
  BY DEF WorkOK
<1>2. work' \in [Keys -> Fetch]
  BY DEF WorkOK, Fits
<1>. QED
  BY <1>1, <1>2 DEF WorkOK, Fits

LEMMA WorkerBase ==
    ASSUME Base, NEW k \in Keys, Worker(k) PROVE Base'
<1>0. /\ book \in [Keys -> Entry] /\ work \in [Keys -> Fetch] /\ work[k] \in Fetch /\ MasterOK /\ RestOK /\ WorkOK /\ BookOK
      /\ k[1] \in Files
  BY KeyParts DEF Base, BookOK, WorkOK
<1>1. PICK e : e = work[k]
  OBVIOUS
<1>2. e \in Fetch /\ (e.pc # "none" => e.sg \in Keys /\ e.t \in Targets)
  BY <1>0, <1>1 DEF WorkOK
<1>3. /\ {"move", "status", "insert"} \subseteq WorkSteps
      /\ {"FAILURE", "TORESUME", "SUCCESS", "part", "full", "mixed"} \subseteq Outs
  BY DEF WorkSteps, Outs
<1>4. CASE save_in_staging_file(k)
  <2>1. /\ e.pc = "fetch" /\ UNCHANGED <<src, book, have, online, master, exec, call, tasks, shaken>>
        /\ events' = events \/ Event("fail") \/ Event("cut")
        /\ stage' = stage \/ \E v \in {"mixed", "full"} : stage' = [stage EXCEPT ![e.sg] = v]
    BY <1>1, <1>4 DEF save_in_staging_file
  <2>2. \E w : /\ work' = [work EXCEPT ![k] = w]
               /\ w = [e EXCEPT !.pc = "move"] \/ \E o \in {"FAILURE", "TORESUME"} : w = [e EXCEPT !.pc = "status", !.out = o]
    BY <1>0, <1>1, <1>4 DEF save_in_staging_file
  <2>3. PICK w : /\ work' = [work EXCEPT ![k] = w]
                 /\ w = [e EXCEPT !.pc = "move"] \/ \E o \in {"FAILURE", "TORESUME"} : w = [e EXCEPT !.pc = "status", !.out = o]
    BY <2>2
  <2>4. w \in Fetch /\ w.sg = e.sg /\ w.t = e.t /\ (w.pc = "move" \/ (w.pc = "status" /\ w.out \in {"FAILURE", "TORESUME"}))
    <3>1. CASE w = [e EXCEPT !.pc = "move"]
      BY <1>2, <1>3, <3>1 DEF Fetch
    <3>2. CASE \E o \in {"FAILURE", "TORESUME"} : w = [e EXCEPT !.pc = "status", !.out = o]
      <4>1. PICK o \in {"FAILURE", "TORESUME"} : w = [e EXCEPT !.pc = "status", !.out = o]
        BY <3>2
      <4>2. w \in Fetch /\ w.pc = "status" /\ w.t = e.t /\ w.sg = e.sg /\ w.out = o
        BY <1>2, <1>3, <4>1 DEF Fetch
      <4>. QED
        BY <4>2
    <3>. QED
      BY <2>3, <3>1, <3>2
  <2>5. Fits(k, w)
    BY <1>2, <2>1, <2>4 DEF Fits
  <2>6. WorkOK'
    BY <1>0, <2>1, <2>3, <2>5, WorkTakes
  <2>7. RestOK'
    <3>1. events' \in 0 .. MaxEvents
      BY <1>0, <2>1, EventCounts DEF RestOK
    <3>2. stage' \in [Keys -> {"none", "part", "full", "mixed"}]
      BY <1>0, <2>1 DEF RestOK
    <3>. QED
      BY <1>0, <2>1, <3>1, <3>2 DEF RestOK
  <2>. QED
    BY <1>0, <2>1, <2>6, <2>7 DEF Base, BookOK, SuccessStored, MasterOK, Tabled
<1>5. CASE MoveToTarget(k)
  <2>1. /\ e.pc = "move" /\ UNCHANGED <<src, book, have, online, master, exec, call, tasks, shaken, events>>
        /\ stage' = [stage EXCEPT ![e.sg] = "none"]
        /\ work' = [work EXCEPT ![k] = IF stage[e.sg] = "none" THEN [e EXCEPT !.pc = "status", !.out = "FAILURE"]
                                       ELSE [e EXCEPT !.pc = "insert", !.out = stage[e.sg]]]
    BY <1>1, <1>5 DEF MoveToTarget
  <2>2. stage[e.sg] \in {"none", "part", "full", "mixed"}
    BY <1>0, <1>2, <2>1 DEF RestOK
  <2>3. PICK w : w = IF stage[e.sg] = "none" THEN [e EXCEPT !.pc = "status", !.out = "FAILURE"]
                     ELSE [e EXCEPT !.pc = "insert", !.out = stage[e.sg]]
    OBVIOUS
  <2>4. w \in Fetch /\ w.sg = e.sg /\ w.t = e.t /\ (w.pc = "insert" \/ (w.pc = "status" /\ w.out = "FAILURE"))
    <3>1. CASE stage[e.sg] = "none"
      <4>1. w = [e EXCEPT !.pc = "status", !.out = "FAILURE"]
        BY <2>3, <3>1
      <4>. QED
        BY <1>2, <1>3, <4>1 DEF Fetch
    <3>2. CASE stage[e.sg] # "none"
      <4>1. PICK v \in Outs : v = stage[e.sg]
        BY <1>3, <2>2, <3>2
      <4>2. w = [e EXCEPT !.pc = "insert", !.out = v]
        BY <2>3, <3>2, <4>1
      <4>3. w \in Fetch /\ w.pc = "insert" /\ w.t = e.t /\ w.sg = e.sg
        BY <1>2, <1>3, <4>2 DEF Fetch
      <4>. QED
        BY <4>3
    <3>. QED
      BY <3>1, <3>2
  <2>5. Fits(k, w)
    BY <1>2, <2>1, <2>4 DEF Fits
  <2>6. WorkOK'
    BY <1>0, <2>1, <2>3, <2>5, WorkTakes
  <2>7. RestOK'
    BY <1>0, <2>1 DEF RestOK
  <2>. QED
    BY <1>0, <2>1, <2>6, <2>7 DEF Base, BookOK, SuccessStored, MasterOK, Tabled
<1>6. CASE InsertFile(k)
  <2>. DEFINE p == <<e.t, k[1]>>
  <2>1. /\ e.pc = "insert" /\ UNCHANGED <<src, book, stage, online, master, exec, call, tasks, shaken, events>>
        /\ \/ UNCHANGED have /\ work' = [work EXCEPT ![k].pc = "status", ![k].out = "FAILURE"]
           \/ /\ have[p] = "none" /\ \E v \in {"good", "mixed"} : have' = [have EXCEPT ![p] = v]
              /\ work' = [work EXCEPT ![k].pc = "status", ![k].out = "SUCCESS"]
    BY <1>1, <1>6 DEF InsertFile
  <2>2. p \in Targets \X Files
    BY <1>0, <1>2, <2>1
  <2>3. PICK o \in {"FAILURE", "SUCCESS"} : /\ work' = [work EXCEPT ![k].pc = "status", ![k].out = o]
                                            /\ o = "SUCCESS" => \E v \in {"good", "mixed"} : have' = [have EXCEPT ![p] = v]
                                            /\ o = "FAILURE" => UNCHANGED have
    BY <2>1
  <2>4. PICK w : w = [e EXCEPT !.pc = "status", !.out = o]
    OBVIOUS
  <2>5. work' = [work EXCEPT ![k] = w]
    BY <1>0, <1>1, <2>3, <2>4
  <2>6. w \in Fetch /\ w.sg = e.sg /\ w.t = e.t /\ w.pc = "status" /\ w.out = o
    BY <1>2, <1>3, <2>4 DEF Fetch
  <2>7. /\ have' \in [Targets \X Files -> {"none", "good", "mixed"}]
        /\ \A q \in Targets \X Files : have[q] # "none" => have'[q] # "none"
        /\ o = "SUCCESS" => have'[p] # "none"
    <3>1. CASE o = "SUCCESS"
      <4>1. PICK v \in {"good", "mixed"} : have' = [have EXCEPT ![p] = v]
        BY <2>3, <3>1
      <4>2. have \in [Targets \X Files -> {"none", "good", "mixed"}]
        BY <1>0 DEF RestOK
      <4>. HIDE DEF p
      <4>. QED
        BY <2>2, <4>1, <4>2
    <3>2. CASE o = "FAILURE"
      BY <1>0, <2>3, <3>2 DEF RestOK
    <3>. QED
      BY <2>3, <3>1, <3>2
  <2>8. \A l \in Keys, t \in Targets : have[<<t, l[1]>>] # "none" => have'[<<t, l[1]>>] # "none"
    BY <2>7, KeyParts
  <2>9. Fits(k, w)
    BY <1>2, <2>1, <2>6, <2>7 DEF Fits
  <2>10. WorkOK'
    BY <1>0, <2>5, <2>8, <2>9, WorkTakes
  <2>11. RestOK'
    BY <1>0, <2>1, <2>7 DEF RestOK
  <2>12. BookOK'
    <3>1. \A l \in Keys : book'[l].st = "SUCCESS" => \E t \in Targets : have'[<<t, l[1]>>] # "none"
      BY <1>0, <2>1, <2>8 DEF BookOK, SuccessStored
    <3>. QED
      BY <1>0, <2>1, <3>1 DEF BookOK, SuccessStored
  <2>. QED
    BY <1>0, <2>1, <2>10, <2>11, <2>12 DEF Base, MasterOK, Tabled
<1>7. CASE RecordOutcome(k)
  <2>1. /\ e.pc = "status" /\ work' = [work EXCEPT ![k] = NoWork]
        /\ book' = book \/ book' = Updated({k}, e.out, e.out # "TORESUME")
        /\ UNCHANGED <<src, have, stage, online, master, exec, call, tasks, shaken, events>>
    BY <1>1, <1>7 DEF RecordOutcome
  <2>2. /\ e.out \in {"SUCCESS", "FAILURE", "TORESUME", "ABORTED"}
        /\ e.out = "SUCCESS" => \E t \in Targets : have[<<t, k[1]>>] # "none"
    BY <1>0, <1>1, <1>2, <2>1 DEF WorkOK
  <2>3. NoWork \in Fetch /\ NoWork.pc = "none"
    BY DEF NoWork, Fetch, WorkSteps, Outs
  <2>4. Fits(k, NoWork)
    BY <2>3 DEF Fits
  <2>5. WorkOK'
    BY <1>0, <2>1, <2>4, WorkTakes
  <2>6. BookOK'
    <3>1. CASE book' = book
      BY <1>0, <2>1, <3>1 DEF BookOK, SuccessStored
    <3>2. CASE book' = Updated({k}, e.out, e.out # "TORESUME")
      <4>1. Updated({k}, e.out, e.out # "TORESUME") \in {Updated({k}, e.out, TRUE), Updated({k}, e.out, FALSE)}
        BY DEF Updated
      <4>2. Sets({k}, e.out)
        BY <1>0, <2>2, <3>2, <4>1, UpdatedIs DEF Status
      <4>3. \A l \in Keys : book'[l].st = "SUCCESS" => (book[l].st = "SUCCESS" \/ (l = k /\ e.out = "SUCCESS"))
        BY <4>2 DEF Sets
      <4>4. \A l \in Keys : book'[l].st = "SUCCESS" => \E t \in Targets : have'[<<t, l[1]>>] # "none"
        BY <1>0, <2>1, <2>2, <4>3 DEF BookOK, SuccessStored
      <4>. QED
        BY <4>2, <4>4 DEF BookOK, SuccessStored, Sets
    <3>. QED
      BY <2>1, <3>1, <3>2
  <2>. QED
    BY <1>0, <2>1, <2>5, <2>6 DEF Base, MasterOK, Tabled, RestOK
<1>. QED
  BY <1>4, <1>5, <1>6, <1>7 DEF Worker

LEMMA TakeBase ==
    ASSUME Base, NEW i \in Iters, NEW t \in Targets, NEW f \in Files, process_mirroring_tasks(i, t, f) PROVE Base'
<1>. USE KeyParts
<1>0. book \in [Keys -> Entry] /\ MasterOK /\ RestOK /\ WorkOK /\ BookOK
  BY DEF Base, BookOK
<1>1. PICK k \in Keys : k = <<f, i>>
  OBVIOUS
<1>2. PICK sg : sg = Staging(k)
  OBVIOUS
<1>3. sg \in Keys
  BY <1>2 DEF Staging
<1>4. PICK w : w = [pc |-> IF t \in online THEN "fetch" ELSE "status", t |-> t, sg |-> sg,
                    out |-> IF t \in online THEN "none" ELSE "ABORTED"]
  OBVIOUS
<1>5. /\ work' = [work EXCEPT ![k] = w] /\ tasks' = [tasks EXCEPT ![<<i, t>>] = tasks[<<i, t>>] \ {f}]
      /\ book' = book \/ (book[k].st # "none" /\ book' = [book EXCEPT ![k].st = "FETCHING", ![k].sg = sg])
      /\ stage' = stage \/ \E v \in {"mixed", "part"} : stage' = [stage EXCEPT ![sg] = v]
      /\ UNCHANGED <<src, have, online, master, exec, call, shaken, events>>
  BY <1>1, <1>2, <1>4 DEF process_mirroring_tasks
<1>6. w \in Fetch /\ w.sg = sg /\ w.t = t /\ w.pc \in {"fetch", "status"} /\ (w.pc = "status" => w.out = "ABORTED")
  BY <1>3, <1>4 DEF Fetch, WorkSteps, Outs
<1>7. WorkOK'
  <2>1. Fits(k, w)
    BY <1>3, <1>6 DEF Fits
  <2>. QED
    BY <1>0, <1>5, <2>1, WorkTakes
<1>8. BookOK'
  <2>1. CASE book' = book
    BY <1>0, <1>5, <2>1 DEF BookOK, SuccessStored
  <2>2. CASE book' = [book EXCEPT ![k].st = "FETCHING", ![k].sg = sg]
    <3>1. PICK b : b = book[k]
      OBVIOUS
    <3>2. PICK x : x = [b EXCEPT !.st = "FETCHING", !.sg = sg]
      OBVIOUS
    <3>3. book' = [book EXCEPT ![k] = x]
      BY <1>0, <2>2, <3>1, <3>2
    <3>4. x \in Entry /\ x.st = "FETCHING"
      <4>1. b \in Entry /\ "FETCHING" \in Status /\ sg \in Keys \cup {None, "vol"}
        BY <1>0, <1>3, <3>1 DEF Status
      <4>. QED
        BY <3>2, <4>1 DEF Entry
    <3>5. book' \in [Keys -> Entry] /\ \A l \in Keys : book'[l] \in {book[l], x}
      BY <1>0, <3>3, <3>4
    <3>. QED
      BY <1>5, <3>4, <3>5, BookKeeps
  <2>. QED
    BY <1>5, <2>1, <2>2
<1>9. RestOK'
  <2>1. tasks' \in [Iters \X Targets -> SUBSET Files]
    BY <1>0, <1>5 DEF RestOK
  <2>2. stage' \in [Keys -> {"none", "part", "full", "mixed"}]
    BY <1>0, <1>5 DEF RestOK
  <2>. QED
    BY <1>0, <1>5, <2>1, <2>2 DEF RestOK
<1>. QED
  BY <1>0, <1>5, <1>7, <1>8, <1>9 DEF Base, MasterOK, Tabled

LEMMA CrashBase ==
    ASSUME Base, NEW t \in Targets, Crash(t) PROVE Base'
<1>1. /\ online' = online \ {t} /\ Event("crash")
      /\ call' = [p \in Iters \X Targets |-> IF p[2] = t THEN "none" ELSE call[p]]
      /\ tasks' = [p \in Iters \X Targets |-> IF p[2] = t THEN {} ELSE tasks[p]]
      /\ work' = [k \in Keys |-> IF work[k].t = t THEN NoWork ELSE work[k]]
      /\ shaken' = shaken \cup {k[1] : k \in {j \in Keys : work[j].t = t}}
      /\ UNCHANGED <<src, book, have, stage, master, exec>>
  BY DEF Crash
<1>2. NoWork \in Fetch /\ NoWork.pc = "none"
  BY DEF NoWork, Fetch, WorkSteps, Outs
<1>3. WorkOK'
  BY <1>1, <1>2 DEF Base, WorkOK
<1>4. RestOK'
  <2>1. {k[1] : k \in {j \in Keys : work[j].t = t}} \subseteq Files
    BY KeyParts
  <2>2. events' \in 0 .. MaxEvents
    BY <1>1, EventCounts DEF Base, RestOK
  <2>. QED
    BY <1>1, <2>1, <2>2 DEF Base, RestOK
<1>. QED
  BY <1>1, <1>3, <1>4 DEF Base, BookOK, SuccessStored, MasterOK, Tabled

\* Every step keeps it.
LEMMA NextBase ==
    ASSUME Base, [Next]_vars PROVE Base'
<1>1. CASE UNCHANGED vars
  BY <1>1 DEF vars, Base, BookOK, SuccessStored, WorkOK, MasterOK, Tabled, RestOK
<1>2. ASSUME NEW m \in Tables, populate_mirroring_bookkeeping_table(m) \/ MirrTable(m) PROVE Base'
  BY <1>2, PopulateBase, ReassignBase, TableBase DEF MirrTable
<1>3. ASSUME NEW i \in Iters, NEW t \in Targets, MirrExec(i, t) PROVE Base'
  BY <1>3, TakeBase, OtherBase DEF MirrExec
<1>4. ASSUME NEW k \in Keys, Worker(k) PROVE Base'
  BY <1>4, WorkerBase
<1>5. ASSUME NEW t \in Targets, Crash(t) PROVE Base'
  BY <1>5, CrashBase
<1>. QED
  BY <1>1, <1>2, <1>3, <1>4, <1>5, OtherBase DEF Next

\* As long as no second MIRRTABLE has started.
LEMMA IInvSafe ==
    ASSUME IInv PROVE FetchedOnce /\ OneToResume
<1>. USE KeyParts
<1>1. FetchedOnce
  <2>. SUFFICES ASSUME NEW f \in Files, f \notin shaken
                PROVE  /\ Cardinality({i \in Iters : work[<<f, i>>].pc # "none"}) <= 1
                       /\ Cardinality({t \in Targets : have[<<t, f>>] # "none"}) <= 1
                       /\ \A t \in Targets : have[<<t, f>>] # "mixed"
    BY DEF FetchedOnce
  <2>1. \A i, j \in Iters : work[<<f, i>>].pc # "none" /\ work[<<f, j>>].pc # "none" => i = j
    <3>. SUFFICES ASSUME NEW i \in Iters, NEW j \in Iters, work[<<f, i>>].pc # "none", work[<<f, j>>].pc # "none"
                  PROVE  i = j
      OBVIOUS
    <3>1. PICK k, l \in Keys : k = <<f, i>> /\ l = <<f, j>> /\ k[1] = f /\ l[1] = f /\ k[2] = i /\ l[2] = j
      OBVIOUS
    <3>2. l = k
      BY <3>1, WorkerStaging
    <3>. QED
      BY <3>1, <3>2
  <2>2. Cardinality({i \in Iters : work[<<f, i>>].pc # "none"}) <= 1
    BY <2>1, AtMostOne
  <2>3. /\ \A t, u \in Targets : have[<<t, f>>] # "none" /\ have[<<u, f>>] # "none" => t = u
        /\ \A t \in Targets : have[<<t, f>>] # "mixed"
    BY DEF IInv, FileParts, StoredOnce
  <2>4. Cardinality({t \in Targets : have[<<t, f>>] # "none"}) <= 1
    BY <2>3, AtMostOne
  <2>. QED
    BY <2>2, <2>3, <2>4
<1>2. OneToResume
  <2>. SUFFICES ASSUME NEW f \in Files, f \notin shaken PROVE Cardinality(Resumable(f)) <= 1
    BY DEF OneToResume
  <2>1. \A k \in Resumable(f) : k \in Keys /\ k[1] = f /\ book[k].st = "TORESUME" /\ Live(k)
    BY DEF Resumable, Entries, Live
  <2>2. \A k \in Keys : mst.pc = "retire" /\ book[k].st = "TORESUME" => k[2] # mst.i
    BY DEF IInv, NewIteration, Active
  <2>3. \A k, l \in Resumable(f) : k = l
    BY <2>1, <2>2 DEF IInv, OneLive
  <2>. QED
    BY <2>3, AtMostOne
<1>. QED
  BY <1>1, <1>2

\* Nothing is taken back from the files that are shaken.
LEMMA ShakenGrows ==
    ASSUME Base, [Next]_vars PROVE shaken \subseteq shaken'
<1>1. shaken \subseteq Files
  BY DEF Base, RestOK
<1>2. ASSUME NEW m \in Tables, populate_mirroring_bookkeeping_table(m) PROVE shaken \subseteq shaken'
  BY <1>1, <1>2 DEF populate_mirroring_bookkeeping_table, Starts
<1>3. ASSUME NEW m \in Tables, MirrTable(m) PROVE shaken' = shaken
  BY <1>3 DEF MirrTable, reassign_broken_downloads, ResumeFails, RetireResumed, limit_mirrored_files,
              remove_hosts_without_available_threads, AssignDone, AssignFile
<1>4. ASSUME NEW i \in Iters, Execute(i) PROVE shaken \subseteq shaken'
  BY <1>4 DEF Execute, distributed_mirroring, fail_remaining_transfers
<1>5. ASSUME NEW i \in Iters, NEW t \in Targets, MirrExec(i, t) PROVE shaken' = shaken
  BY <1>5 DEF MirrExec, multithreading_mirroring, MirrExecDone, process_mirroring_tasks
<1>6. ASSUME NEW k \in Keys, Worker(k) PROVE shaken' = shaken
  BY <1>6 DEF Worker, save_in_staging_file, MoveToTarget, InsertFile, RecordOutcome
<1>7. ASSUME NEW t \in Targets, Offline(t) \/ Online(t) \/ Crash(t) PROVE shaken \subseteq shaken'
  BY <1>7 DEF Offline, Online, Crash
<1>8. ASSUME NEW f \in Files, SourceArchive(f) PROVE shaken' = shaken
  BY <1>8 DEF SourceArchive
<1>9. CASE MasterCrash
  BY <1>9 DEF MasterCrash
<1>10. CASE UNCHANGED vars
  BY <1>10 DEF vars
<1>. QED
  BY <1>2, <1>3, <1>4, <1>5, <1>6, <1>7, <1>8, <1>9, <1>10 DEF Next

\* The invariant: what always holds, and what holds until two MIRRTABLEs overlap.
Inv == Base /\ (shaken # Files => IInv /\ Alone)

LEMMA InitInv ==
    ASSUME Init PROVE Inv
<1>1. IInv
  BY InitIInv
<1>2. MasterOK /\ Alone
  BY MirroringConfig DEF Init, MasterOK, Tabled, Idle, MasterSteps, Alone, Tables
<1>3. BookOK /\ RestOK
  BY <1>1 DEF IInv, Shape, FileParts, Outcomes, BookOK, SuccessStored, RestOK
<1>4. WorkOK
  BY <1>1 DEF IInv, Shape, FileParts, Outcomes, Handled, OwnStaging, WorkOK
<1>. QED
  BY <1>1, <1>2, <1>3, <1>4 DEF Inv, Base

LEMMA NextInv ==
    ASSUME Inv, [Next]_vars PROVE Inv'
<1>1. Base /\ Base' /\ shaken \subseteq shaken' /\ shaken' \subseteq Files /\ Tabled
  BY NextBase, ShakenGrows DEF Inv, Base, RestOK, MasterOK
<1>2. ASSUME shaken' # Files PROVE IInv' /\ Alone'
  <2>1. shaken # Files
    BY <1>1, <1>2
  <2>. QED
    BY <1>1, <1>2, <2>1, NextIInv DEF Inv
<1>. QED
  BY <1>1, <1>2 DEF Inv

\* The invariant says what MirroringSafe says.
LEMMA InvSafe ==
    ASSUME Inv PROVE MirroringSafe
<1>1. TypeOK
  <2>1. \A k \in Keys : book[k].st \in Status /\ book[k].t \in Targets \cup {None}
    BY DEF Inv, Base, BookOK, Entry
  <2>2. \A k \in Keys : work[k].pc \in {"none", "fetch", "move", "insert", "status"}
    BY DEF Inv, Base, WorkOK, Fetch, WorkSteps
  <2>3. \A m \in Tables : master[m] \in MRec
    BY DEF Inv, Base, MasterOK, Tabled
  <2>4. \A m \in Tables : /\ master[m].i \in 0 .. MaxIter
                          /\ master[m].pc \in {"idle", "resume", "retire", "limit", "hosts", "assign"}
    BY <2>3 DEF MasterSteps
  <2>. QED
    BY <2>1, <2>2, <2>4 DEF TypeOK, Inv, Base, RestOK
<1>2. SuccessStored
  BY DEF Inv, Base, BookOK
<1>3. FetchedOnce /\ OneToResume
  <2>1. CASE shaken # Files
    BY <2>1, IInvSafe DEF Inv
  <2>2. CASE shaken = Files
    BY <2>2 DEF FetchedOnce, OneToResume
  <2>. QED
    BY <2>1, <2>2
<1>. QED
  BY <1>1, <1>2, <1>3 DEF MirroringSafe

\* However many iterations of the ALMA mirroring overlap, fail, time out or are cut short by
\* restarts, the bookkeeping table is true: an entry that says SUCCESS has its file stored; and
\* as long as no MIRRTABLE has started beside another one, a file is fetched by one worker, stored
\* on one target, and waits to be resumed by one entry, unless its entry was changed under a
\* worker or in its queue.
THEOREM MirroringIsSafe == Spec => []MirroringSafe
<1>1. Init => Inv
  BY InitInv
<1>2. Inv /\ [Next]_vars => Inv'
  BY NextInv
<1>3. Inv => MirroringSafe
  BY InvSafe
<1>. QED
  BY <1>1, <1>2, <1>3, PTL DEF Spec

=============================================================================
