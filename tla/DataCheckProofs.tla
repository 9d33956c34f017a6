-------------------------- MODULE DataCheckProofs ---------------------------
(***************************************************************************)
(* Proofs about the Data Consistency Check.                                *)
(***************************************************************************)
EXTENDS DataCheck, FiniteSetTheorems, TLAPS

\* The steps at which a sub-thread has a file in its hands
Handling == {"look", "sum", "mark", "stat"}
Handles(t, f) == sub[t].f = f /\ sub[t].pc \in Handling

-----------------------------------------------------------------------------
(***************************************************************************)
(* The inductive invariant.                                                *)
(***************************************************************************)

\* The type of every variable
Types ==
    /\ TypeOK
    /\ queue \in [Disks -> SUBSET (Files \cup {None})]
    /\ mem \in [Disks -> SUBSET Files] /\ left \in [Disks -> SUBSET Files]
    /\ sched \in [Threads -> Disks \cup {None}]
    /\ sub \in [Threads -> [pc : SubSteps, f : Files \cup {None}]]
    /\ \A t \in Threads : sub[t].pc \in Handling => sub[t].f \in Files

\* The thread or a request has come across f.
Met(f) == \/ row[f] # "none" \/ f \in moving
          \/ f \in queue[DiskOf[f]] \/ f \in mem[DiskOf[f]]
          \/ \E t \in Threads : sub[t].f = f

\* A file somebody has come across is intact or to blame, and so is one a sub-thread is
\* about to mark bad.
Blame ==
    /\ \A f \in Files : Met(f) => vol[f] = "good" \/ f \in blamed
    /\ \A f \in Files : vol[f] = "rot" => f \in blamed
    /\ \A t \in Threads : sub[t].pc = "mark" => sub[t].f \in blamed
    /\ BadOnlyIfDamaged

\* A registered file stays registered unless it is discarded; a file that never had a row
\* gets none, and is in no queue.
Kept ==
    /\ \A f \in Registered \ blamed : row[f] # "none" /\ f \notin moving
    /\ unreg \cap Registered \subseteq blamed
    /\ \A f \in Orphans : /\ vol[f] # "none" /\ row[f] = "none" /\ f \notin moving
                          /\ f \notin queue[DiskOf[f]] /\ f \notin mem[DiskOf[f]]

\* Sub-threads exist between StartThreads and EndRun only, or have been left alone by a stop.
Order ==
    /\ main = "begin" => stop \/ \A t \in Threads : sub[t].pc = "none"
    /\ main \in {"dump", "walk", "cross", "report", "last", "wait"} =>
          \A t \in Threads : sub[t].pc = "none"
    /\ main \in {"join", "off"} => stop
    /\ main = "walk" => ids = disks
    /\ main \in {"dump", "walk"} => \A d \in ids : left[d] = mem[d]

\* f of volume d is checked, in the hands of a sub-thread, or still to be returned.
Accounted(d, f) == \/ f \in done \/ \E t \in Threads : Handles(t, f)
                   \/ d \in ids /\ f \in left[d]

\* While the sub-threads run and nobody stops them, no file of a queue is lost, and a
\* sub-thread lives as long as a volume is left.
Coverage ==
    /\ main = "run" /\ ~stop =>
          /\ \A d \in disks : \A f \in mem[d] : Accounted(d, f)
          /\ ids = {} \/ \E t \in Threads : sub[t].pc # "none"
    /\ AllChecked

\* The walk has seen the files that never had a row, and no queue takes them away.
Walk ==
    /\ main \in {"walk", "run", "cross"} =>
          \A f \in Orphans : DiskOf[f] \in disks => f \in found \cup unreg
    /\ main = "last" => {f \in Orphans : DiskOf[f] \in disks} \subseteq unreg

IInv == Types /\ Blame /\ Kept /\ Order /\ Coverage /\ Walk


\* Every step keeps the types.
LEMMA TypesKept ==
    ASSUME IInv, [Next]_vars PROVE Types'
<1>. USE DataCheckConfig DEF IInv, env, cyc, others, Event, To, Boot, Rest, Types, TypeOK, SubSteps, MainSteps, Handling, NoQueue, On
<1>1. CASE Stopped
  BY <1>1 DEF Stopped
<1>2. CASE get_disks_to_check
  BY <1>2 DEF get_disks_to_check
<1>3. CASE collect_files_on_disk
  BY <1>3 DEF collect_files_on_disk
<1>4. CASE StartThreads
  BY <1>4 DEF StartThreads
<1>5. CASE StopRun
  BY <1>5 DEF StopRun
<1>6. CASE Join
  BY <1>6 DEF Join
<1>7. CASE EndRun
  BY <1>7 DEF EndRun
<1>8. CASE _genReport
  BY <1>8 DEF _genReport
<1>9. CASE setLastCheckDisk
  BY <1>9 DEF setLastCheckDisk
<1>10. CASE Wait
  BY <1>10 DEF Wait
<1>11. ASSUME NEW d \in Disks, _dumpFileInfo(d) PROVE Types'
  BY <1>11, SMTT(30) DEF _dumpFileInfo, QueueOf
<1>12. ASSUME NEW f \in Files, _crossCheckNonRegFiles(f) PROVE Types'
  BY <1>12 DEF _crossCheckNonRegFiles
<1>13. ASSUME NEW t \in Threads, SubStop(t) PROVE Types'
  BY <1>13 DEF SubStop
<1>14. ASSUME NEW t \in Threads, SubNext(t) PROVE Types'
  <2>1. sub' \in [Threads -> [pc : SubSteps, f : Files \cup {None}]]
    BY <1>14 DEF SubNext
  <2>2. \A u \in Threads : sub'[u].pc \in Handling => sub'[u].f \in Files
    BY <1>14 DEF SubNext
  <2>. QED
    BY <1>14, <2>1, <2>2 DEF SubNext
<1>15. ASSUME NEW t \in Threads, PickNothing(t) PROVE Types'
  BY <1>15 DEF PickNothing
<1>16. ASSUME NEW t \in Threads, checkFile(t) PROVE Types'
  <2>1. sub' \in [Threads -> [pc : SubSteps, f : Files \cup {None}]]
    BY <1>16 DEF checkFile
  <2>2. \A u \in Threads : sub'[u].pc \in Handling => sub'[u].f \in Files
    <3>1. \A u \in Threads : sub'[u].f = sub[u].f /\ (u # t => sub'[u] = sub[u])
      BY <1>16 DEF checkFile
    <3>2. sub[t].f \in Files
      BY <1>16 DEF checkFile
    <3>. QED
      BY <3>1, <3>2
  <2>. QED
    BY <1>16, <2>1, <2>2 DEF checkFile
<1>17. ASSUME NEW t \in Threads, do_checksum(t) PROVE Types'
  <2>1. sub' \in [Threads -> [pc : SubSteps, f : Files \cup {None}]]
    BY <1>17 DEF do_checksum
  <2>2. \A u \in Threads : sub'[u].pc \in Handling => sub'[u].f \in Files
    BY <1>17 DEF do_checksum
  <2>. QED
    BY <1>17, <2>1, <2>2 DEF do_checksum
<1>18. ASSUME NEW t \in Threads, Mark(t) PROVE Types'
  <2>1. sub' \in [Threads -> [pc : SubSteps, f : Files \cup {None}]]
    BY <1>18 DEF Mark
  <2>2. \A u \in Threads : sub'[u].pc \in Handling => sub'[u].f \in Files
    <3>1. \A u \in Threads : sub'[u].f = sub[u].f /\ (u # t => sub'[u] = sub[u])
      BY <1>18 DEF Mark
    <3>2. sub[t].f \in Files
      BY <1>18 DEF Mark
    <3>. QED
      BY <3>1, <3>2
  <2>3. /\ row' \in [Files -> {"none", "ok", "bad"}]
        /\ errors' \subseteq Files /\ done' \subseteq Files
    BY <1>18 DEF Mark
  <2>. QED
    BY <1>18, <2>1, <2>2, <2>3 DEF Mark
<1>19. ASSUME NEW t \in Threads, _updateFileCheckStatus(t) PROVE Types'
  <2>1. sub' \in [Threads -> [pc : SubSteps, f : Files \cup {None}]]
    BY <1>19 DEF _updateFileCheckStatus
  <2>2. \A u \in Threads : sub'[u].pc \in Handling => sub'[u].f \in Files
    BY <1>19 DEF _updateFileCheckStatus
  <2>3. done' \subseteq Files
    BY <1>19 DEF _updateFileCheckStatus
  <2>. QED
    BY <1>19, <2>1, <2>2, <2>3 DEF _updateFileCheckStatus
<1>20. ASSUME NEW t \in Threads, SubPause(t) PROVE Types'
  BY <1>20 DEF SubPause
<1>21. ASSUME NEW t \in Threads, NEW d \in Disks, NEW f \in Files, PickFile(t, d, f) PROVE Types'
  <2>1. sub' \in [Threads -> [pc : SubSteps, f : Files \cup {None}]]
    BY <1>21 DEF PickFile
  <2>2. \A u \in Threads : sub'[u].pc \in Handling => sub'[u].f \in Files
    BY <1>21 DEF PickFile
  <2>3. d \in ids /\ d # None /\ f \in mem[d]
    BY <1>21 DEF PickFile, Choices, ReadFrom
  <2>4. /\ sched' \in [Threads -> Disks \cup {None}]
        /\ \A u \in Threads : sched'[u] \in ids' \cup {None}
    BY <1>21, <2>3 DEF PickFile
  <2>5. left' \in [Disks -> SUBSET Files] /\ \A e \in Disks : left'[e] \subseteq mem[e]
    BY <1>21, <2>3 DEF PickFile, ReadFrom
  <2>. QED
    BY <1>21, <2>1, <2>2, <2>4, <2>5 DEF PickFile
<1>22. ASSUME NEW t \in Threads, NEW d \in Disks, PickEnd(t, d) PROVE Types'
  <2>1. sub' \in [Threads -> [pc : SubSteps, f : Files \cup {None}]]
    BY <1>22 DEF PickEnd
  <2>2. \A u \in Threads : sub'[u].pc \in Handling => sub'[u].f \in Files
    BY <1>22 DEF PickEnd
  <2>3. d \in ids /\ ids' = ids \ {d}
    BY <1>22 DEF PickEnd, Choices
  <2>4. PICK n \in ids' \cup {None} :
           sched' = [u \in Threads |-> IF u = t THEN n ELSE IF sched[u] = d THEN None ELSE sched[u]]
    BY <1>22 DEF PickEnd
  <2>5. sched' \in [Threads -> Disks \cup {None}]
    BY <2>3, <2>4
  <2>6. \A u \in Threads : sched'[u] \in ids' \cup {None}
    BY <2>3, <2>4
  <2>7. /\ queue' \in [Disks -> SUBSET (Files \cup {None})]
        /\ \A e \in Disks : queue'[e] \subseteq On(e) \/ queue'[e] = NoQueue
        /\ due' \subseteq Disks /\ ids' \subseteq disks /\ sem' \in Threads \cup {None}
    BY <1>22, <2>3 DEF PickEnd
  <2>. QED
    BY <1>22, <2>1, <2>2, <2>5, <2>6, <2>7 DEF PickEnd
<1>23. ASSUME NEW t \in Threads, NEW d \in Disks, PickFails(t, d) PROVE Types'
  BY <1>23, SMTT(30) DEF PickFails, Choices, ReadFrom
<1>24. ASSUME NEW f \in Files, Rot(f) PROVE Types'
  <2>1. vol' \in [Files -> {"none", "good", "rot"}] /\ blamed' \subseteq Files
    BY <1>24 DEF Rot
  <2>. QED
    BY <1>24, <2>1 DEF Rot
<1>25. ASSUME NEW f \in Files, Vanish(f) PROVE Types'
  BY <1>25 DEF Vanish
<1>26. ASSUME NEW f \in Files, ArchiveFile(f) PROVE Types'
  <2>1. vol' \in [Files -> {"none", "good", "rot"}] /\ moving' \subseteq Files
    BY <1>26 DEF ArchiveFile
  <2>. QED
    BY <1>26, <2>1 DEF ArchiveFile
<1>27. ASSUME NEW f \in Files, DiscardFile(f) PROVE Types'
  <2>1. vol' \in [Files -> {"none", "good", "rot"}] /\ moving' \subseteq Files /\ blamed' \subseteq Files
    BY <1>27 DEF DiscardFile
  <2>. QED
    BY <1>27, <2>1 DEF DiscardFile
<1>28. ASSUME NEW f \in Files, WriteRow(f) PROVE Types'
  BY <1>28 DEF WriteRow
<1>29. CASE Stop
  BY <1>29 DEF Stop
<1>30. CASE Crash
  <2>1. events' \in 0 .. MaxEvents /\ errors' \subseteq Files
    BY <1>30 DEF Crash
  <2>. QED
    BY <1>30, <2>1 DEF Crash
<1>31. CASE Restart
  BY <1>31 DEF Restart
<1>32. CASE UNCHANGED vars
  BY <1>32 DEF vars
<1>33. CASE Online
  BY <1>33 DEF Online
<1>34. ASSUME NEW b \in BOOLEAN, Serving(b) PROVE Types'
  BY <1>34 DEF Serving
<1>. HIDE DEF IInv, Types, TypeOK, Event, To, Boot, others
<1>. QED
  BY <1>1, <1>2, <1>3, <1>4, <1>5, <1>6, <1>7, <1>8, <1>9, <1>10, <1>11, <1>12, <1>13,
     <1>14, <1>15, <1>16, <1>17, <1>18, <1>19, <1>20, <1>21, <1>22, <1>23, <1>24, <1>25,
     <1>26, <1>27, <1>28, <1>29, <1>30, <1>31, <1>32, <1>33, <1>34
     DEF Next, Main, Sub, Environment

\* Every step keeps Blame.
LEMMA BlameKept ==
    ASSUME IInv, [Next]_vars PROVE Blame'
<1>. USE DataCheckConfig DEF IInv, env, cyc, others, Event, To, Boot, Rest, Types, TypeOK, Blame, Met, BadOnlyIfDamaged, Handling, NoQueue, On
<1>1. CASE Stopped
  BY <1>1 DEF Stopped
<1>2. CASE get_disks_to_check
  BY <1>2 DEF get_disks_to_check
<1>3. CASE collect_files_on_disk
  BY <1>3 DEF collect_files_on_disk
<1>4. CASE StartThreads
  BY <1>4 DEF StartThreads
<1>5. CASE StopRun
  BY <1>5 DEF StopRun
<1>6. CASE Join
  BY <1>6 DEF Join
<1>7. CASE EndRun
  BY <1>7 DEF EndRun
<1>8. CASE _genReport
  BY <1>8 DEF _genReport
<1>9. CASE setLastCheckDisk
  BY <1>9 DEF setLastCheckDisk
<1>10. CASE Wait
  BY <1>10 DEF Wait
<1>11. ASSUME NEW d \in Disks, _dumpFileInfo(d) PROVE Blame'
  BY <1>11 DEF _dumpFileInfo, QueueOf
<1>12. ASSUME NEW f \in Files, _crossCheckNonRegFiles(f) PROVE Blame'
  BY <1>12 DEF _crossCheckNonRegFiles
<1>13. ASSUME NEW t \in Threads, SubStop(t) PROVE Blame'
  BY <1>13 DEF SubStop
<1>14. ASSUME NEW t \in Threads, SubNext(t) PROVE Blame'
  BY <1>14 DEF SubNext
<1>15. ASSUME NEW t \in Threads, PickNothing(t) PROVE Blame'
  BY <1>15 DEF PickNothing
<1>16. ASSUME NEW t \in Threads, checkFile(t) PROVE Blame'
  <2>1. \A u \in Threads : sub'[u].f = sub[u].f
    <3>1. PICK pc \in SubSteps : sub' = [sub EXCEPT ![t].pc = pc]
      BY <1>16 DEF checkFile, SubSteps
    <3>2. sub \in [Threads -> [pc : SubSteps, f : Files \cup {None}]]
      OBVIOUS
    <3>. QED
      BY <3>1, <3>2
  <2>2. \A u \in Threads : u # t => sub'[u] = sub[u]
    BY <1>16 DEF checkFile
  <2>3. sub[t].f \in Files /\ Met(sub[t].f)
    BY <1>16 DEF checkFile
  <2>4. sub'[t].pc = "mark" => sub'[t].f \in blamed
    BY <1>16, <2>1, <2>3 DEF checkFile
  <2>. QED
    BY <1>16, <2>1, <2>2, <2>4 DEF checkFile
<1>17. ASSUME NEW t \in Threads, do_checksum(t) PROVE Blame'
  BY <1>17 DEF do_checksum
<1>18. ASSUME NEW t \in Threads, Mark(t) PROVE Blame'
  <2>1. \A u \in Threads : sub'[u].f = sub[u].f
    BY <1>18, SMTT(30) DEF Mark
  <2>2. \A u \in Threads : sub'[u].pc = "mark" => sub[u].pc = "mark"
    <3>1. PICK pc \in {"pause", "stat"} : sub' = [sub EXCEPT ![t].pc = pc]
      BY <1>18 DEF Mark
    <3>2. sub \in [Threads -> [pc : SubSteps, f : Files \cup {None}]]
      OBVIOUS
    <3>. QED
      BY <3>1, <3>2
  <2>3. sub[t].f \in Files /\ sub[t].f \in blamed
    BY <1>18 DEF Mark
  <2>4. \A f \in Files : row'[f] # row[f] => f \in blamed
    BY <1>18, <2>3 DEF Mark
  <2>5. \A f \in Files : Met(f)' => Met(f) \/ f \in blamed
    BY <1>18, <2>1, <2>4 DEF Mark
  <2>6. BadOnlyIfDamaged'
    BY <1>18, <2>4 DEF Mark
  <2>. QED
    BY <1>18, <2>1, <2>2, <2>5, <2>6 DEF Mark
<1>19. ASSUME NEW t \in Threads, _updateFileCheckStatus(t) PROVE Blame'
  BY <1>19 DEF _updateFileCheckStatus
<1>20. ASSUME NEW t \in Threads, SubPause(t) PROVE Blame'
  BY <1>20 DEF SubPause
<1>21. ASSUME NEW t \in Threads, NEW d \in Disks, NEW f \in Files, PickFile(t, d, f) PROVE Blame'
  BY <1>21 DEF PickFile, Choices, ReadFrom
<1>22. ASSUME NEW t \in Threads, NEW d \in Disks, PickEnd(t, d) PROVE Blame'
  <2>1. /\ UNCHANGED env /\ UNCHANGED mem
        /\ \A u \in Threads : sub'[u] = sub[u] \/ sub'[u] = Rest
        /\ \A e \in Disks : queue'[e] = queue[e] \/ queue'[e] = NoQueue
    BY <1>22 DEF PickEnd
  <2>2. \A f \in Files : Met(f)' => Met(f)
    BY <2>1
  <2>3. \A u \in Threads : sub'[u].pc = "mark" => sub'[u].f \in blamed'
    BY <2>1
  <2>. HIDE DEF Met
  <2>. QED
    BY <2>1, <2>2, <2>3
<1>23. ASSUME NEW t \in Threads, NEW d \in Disks, PickFails(t, d) PROVE Blame'
  BY <1>23 DEF PickFails, Choices, ReadFrom
<1>24. ASSUME NEW f \in Files, Rot(f) PROVE Blame'
  BY <1>24 DEF Rot
<1>25. ASSUME NEW f \in Files, Vanish(f) PROVE Blame'
  BY <1>25 DEF Vanish
<1>26. ASSUME NEW f \in Files, ArchiveFile(f) PROVE Blame'
  BY <1>26 DEF ArchiveFile
<1>27. ASSUME NEW f \in Files, DiscardFile(f) PROVE Blame'
  BY <1>27 DEF DiscardFile
<1>28. ASSUME NEW f \in Files, WriteRow(f) PROVE Blame'
  BY <1>28 DEF WriteRow
<1>29. CASE Stop
  BY <1>29 DEF Stop
<1>30. CASE Crash
  BY <1>30 DEF Crash
<1>31. CASE Restart
  BY <1>31 DEF Restart
<1>32. CASE UNCHANGED vars
  BY <1>32 DEF vars
<1>33. CASE Online
  BY <1>33 DEF Online
<1>34. ASSUME NEW b \in BOOLEAN, Serving(b) PROVE Blame'
  BY <1>34 DEF Serving
<1>. QED
  BY <1>1, <1>2, <1>3, <1>4, <1>5, <1>6, <1>7, <1>8, <1>9, <1>10, <1>11, <1>12, <1>13,
     <1>14, <1>15, <1>16, <1>17, <1>18, <1>19, <1>20, <1>21, <1>22, <1>23, <1>24, <1>25,
     <1>26, <1>27, <1>28, <1>29, <1>30, <1>31, <1>32, <1>33, <1>34
     DEF Next, Main, Sub, Environment

\* Every step keeps Kept.
LEMMA KeptKept ==
    ASSUME IInv, [Next]_vars PROVE Kept'
<1>. USE DataCheckConfig DEF IInv, env, cyc, others, Event, To, Boot, Rest, Types, TypeOK, Kept, NoQueue, On
<1>1. CASE Stopped
  BY <1>1 DEF Stopped
<1>2. CASE get_disks_to_check
  BY <1>2 DEF get_disks_to_check
<1>3. CASE collect_files_on_disk
  BY <1>3 DEF collect_files_on_disk
<1>4. CASE StartThreads
  BY <1>4 DEF StartThreads
<1>5. CASE StopRun
  BY <1>5 DEF StopRun
<1>6. CASE Join
  BY <1>6 DEF Join
<1>7. CASE EndRun
  BY <1>7 DEF EndRun
<1>8. CASE _genReport
  BY <1>8 DEF _genReport
<1>9. CASE setLastCheckDisk
  BY <1>9 DEF setLastCheckDisk
<1>10. CASE Wait
  BY <1>10 DEF Wait
<1>11. ASSUME NEW d \in Disks, _dumpFileInfo(d) PROVE Kept'
  BY <1>11 DEF _dumpFileInfo, QueueOf
<1>12. ASSUME NEW f \in Files, _crossCheckNonRegFiles(f) PROVE Kept'
  BY <1>12 DEF _crossCheckNonRegFiles
<1>13. ASSUME NEW t \in Threads, SubStop(t) PROVE Kept'
  BY <1>13 DEF SubStop
<1>14. ASSUME NEW t \in Threads, SubNext(t) PROVE Kept'
  BY <1>14 DEF SubNext
<1>15. ASSUME NEW t \in Threads, PickNothing(t) PROVE Kept'
  BY <1>15 DEF PickNothing
<1>16. ASSUME NEW t \in Threads, checkFile(t) PROVE Kept'
  BY <1>16 DEF checkFile
<1>17. ASSUME NEW t \in Threads, do_checksum(t) PROVE Kept'
  BY <1>17 DEF do_checksum
<1>18. ASSUME NEW t \in Threads, Mark(t) PROVE Kept'
  BY <1>18 DEF Mark
<1>19. ASSUME NEW t \in Threads, _updateFileCheckStatus(t) PROVE Kept'
  BY <1>19 DEF _updateFileCheckStatus
<1>20. ASSUME NEW t \in Threads, SubPause(t) PROVE Kept'
  BY <1>20 DEF SubPause
<1>21. ASSUME NEW t \in Threads, NEW d \in Disks, NEW f \in Files, PickFile(t, d, f) PROVE Kept'
  BY <1>21 DEF PickFile, Choices, ReadFrom
<1>22. ASSUME NEW t \in Threads, NEW d \in Disks, PickEnd(t, d) PROVE Kept'
  BY <1>22 DEF PickEnd, Choices, ReadFrom
<1>23. ASSUME NEW t \in Threads, NEW d \in Disks, PickFails(t, d) PROVE Kept'
  BY <1>23 DEF PickFails, Choices, ReadFrom
<1>24. ASSUME NEW f \in Files, Rot(f) PROVE Kept'
  BY <1>24 DEF Rot
<1>25. ASSUME NEW f \in Files, Vanish(f) PROVE Kept'
  BY <1>25 DEF Vanish
<1>26. ASSUME NEW f \in Files, ArchiveFile(f) PROVE Kept'
  BY <1>26 DEF ArchiveFile
<1>27. ASSUME NEW f \in Files, DiscardFile(f) PROVE Kept'
  BY <1>27 DEF DiscardFile
<1>28. ASSUME NEW f \in Files, WriteRow(f) PROVE Kept'
  BY <1>28 DEF WriteRow
<1>29. CASE Stop
  BY <1>29 DEF Stop
<1>30. CASE Crash
  BY <1>30 DEF Crash
<1>31. CASE Restart
  BY <1>31 DEF Restart
<1>32. CASE UNCHANGED vars
  BY <1>32 DEF vars
<1>33. CASE Online
  BY <1>33 DEF Online
<1>34. ASSUME NEW b \in BOOLEAN, Serving(b) PROVE Kept'
  BY <1>34 DEF Serving
<1>. QED
  BY <1>1, <1>2, <1>3, <1>4, <1>5, <1>6, <1>7, <1>8, <1>9, <1>10, <1>11, <1>12, <1>13,
     <1>14, <1>15, <1>16, <1>17, <1>18, <1>19, <1>20, <1>21, <1>22, <1>23, <1>24, <1>25,
     <1>26, <1>27, <1>28, <1>29, <1>30, <1>31, <1>32, <1>33, <1>34
     DEF Next, Main, Sub, Environment

\* Every step keeps Order.
LEMMA OrderKept ==
    ASSUME IInv, [Next]_vars PROVE Order'
<1>. USE DataCheckConfig DEF IInv, env, cyc, others, Event, To, Boot, Rest, Types, TypeOK, Order
<1>1. CASE Stopped
  BY <1>1 DEF Stopped
<1>2. CASE get_disks_to_check
  BY <1>2 DEF get_disks_to_check
<1>3. CASE collect_files_on_disk
  BY <1>3 DEF collect_files_on_disk
<1>4. CASE StartThreads
  BY <1>4 DEF StartThreads
<1>5. CASE StopRun
  BY <1>5 DEF StopRun
<1>6. CASE Join
  BY <1>6 DEF Join
<1>7. CASE EndRun
  BY <1>7 DEF EndRun, Alive
<1>8. CASE _genReport
  BY <1>8 DEF _genReport
<1>9. CASE setLastCheckDisk
  BY <1>9 DEF setLastCheckDisk
<1>10. CASE Wait
  BY <1>10 DEF Wait
<1>11. ASSUME NEW d \in Disks, _dumpFileInfo(d) PROVE Order'
  BY <1>11 DEF _dumpFileInfo, QueueOf
<1>12. ASSUME NEW f \in Files, _crossCheckNonRegFiles(f) PROVE Order'
  BY <1>12 DEF _crossCheckNonRegFiles
<1>13. ASSUME NEW t \in Threads, SubStop(t) PROVE Order'
  BY <1>13 DEF SubStop
<1>14. ASSUME NEW t \in Threads, SubNext(t) PROVE Order'
  BY <1>14 DEF SubNext
<1>15. ASSUME NEW t \in Threads, PickNothing(t) PROVE Order'
  BY <1>15 DEF PickNothing
<1>16. ASSUME NEW t \in Threads, checkFile(t) PROVE Order'
  BY <1>16 DEF checkFile
<1>17. ASSUME NEW t \in Threads, do_checksum(t) PROVE Order'
  BY <1>17 DEF do_checksum
<1>18. ASSUME NEW t \in Threads, Mark(t) PROVE Order'
  BY <1>18 DEF Mark
<1>19. ASSUME NEW t \in Threads, _updateFileCheckStatus(t) PROVE Order'
  BY <1>19 DEF _updateFileCheckStatus
<1>20. ASSUME NEW t \in Threads, SubPause(t) PROVE Order'
  BY <1>20 DEF SubPause
<1>21. ASSUME NEW t \in Threads, NEW d \in Disks, NEW f \in Files, PickFile(t, d, f) PROVE Order'
  BY <1>21 DEF PickFile, Choices, ReadFrom
<1>22. ASSUME NEW t \in Threads, NEW d \in Disks, PickEnd(t, d) PROVE Order'
  BY <1>22 DEF PickEnd, Choices, ReadFrom
<1>23. ASSUME NEW t \in Threads, NEW d \in Disks, PickFails(t, d) PROVE Order'
  BY <1>23 DEF PickFails, Choices, ReadFrom
<1>24. ASSUME NEW f \in Files, Rot(f) PROVE Order'
  BY <1>24 DEF Rot
<1>25. ASSUME NEW f \in Files, Vanish(f) PROVE Order'
  BY <1>25 DEF Vanish
<1>26. ASSUME NEW f \in Files, ArchiveFile(f) PROVE Order'
  BY <1>26 DEF ArchiveFile
<1>27. ASSUME NEW f \in Files, DiscardFile(f) PROVE Order'
  BY <1>27 DEF DiscardFile
<1>28. ASSUME NEW f \in Files, WriteRow(f) PROVE Order'
  BY <1>28 DEF WriteRow
<1>29. CASE Stop
  BY <1>29 DEF Stop
<1>30. CASE Crash
  BY <1>30 DEF Crash
<1>31. CASE Restart
  BY <1>31 DEF Restart
<1>32. CASE UNCHANGED vars
  BY <1>32 DEF vars
<1>33. CASE Online
  BY <1>33 DEF Online
<1>34. ASSUME NEW b \in BOOLEAN, Serving(b) PROVE Order'
  BY <1>34 DEF Serving
<1>. QED
  BY <1>1, <1>2, <1>3, <1>4, <1>5, <1>6, <1>7, <1>8, <1>9, <1>10, <1>11, <1>12, <1>13,
     <1>14, <1>15, <1>16, <1>17, <1>18, <1>19, <1>20, <1>21, <1>22, <1>23, <1>24, <1>25,
     <1>26, <1>27, <1>28, <1>29, <1>30, <1>31, <1>32, <1>33, <1>34
     DEF Next, Main, Sub, Environment

\* Every step keeps Coverage.
LEMMA CoverageKept ==
    ASSUME IInv, [Next]_vars PROVE Coverage'
<1>. USE DataCheckConfig DEF IInv, env, cyc, others, Event, To, Boot, Rest, Types, TypeOK, Order, Coverage, Accounted, Handles, Handling, AllChecked
<1>1. CASE Stopped
  BY <1>1 DEF Stopped
<1>2. CASE get_disks_to_check
  BY <1>2 DEF get_disks_to_check
<1>3. CASE collect_files_on_disk
  BY <1>3 DEF collect_files_on_disk
<1>4. CASE StartThreads
  <2>1. PICK ts \in SUBSET Threads :
           /\ Cardinality(ts) = IF Cardinality(disks) < Cardinality(Threads)
                                THEN Cardinality(disks) ELSE Cardinality(Threads)
           /\ sub' = [t \in Threads |-> IF t \in ts THEN [pc |-> "next", f |-> None] ELSE Rest]
    BY <1>4 DEF StartThreads
  <2>2. ids = {} \/ \E t \in Threads : sub'[t].pc # "none"
    <3>1. CASE disks = {}
      BY <1>4, <3>1 DEF StartThreads
    <3>2. CASE disks # {}
      <4>1. IsFiniteSet(disks) /\ IsFiniteSet(Threads)
        BY FS_Subset
      <4>2. Cardinality(disks) # 0 /\ Cardinality(Threads) # 0
        BY <3>2, <4>1, FS_EmptySet
      <4>3. ts # {}
        BY <2>1, <4>2, FS_EmptySet
      <4>4. PICK t \in ts : TRUE
        BY <4>3
      <4>. QED
        BY <2>1, <4>4
    <3>. QED
      BY <3>1, <3>2
  <2>3. \A d \in disks : \A f \in mem[d] : d \in ids /\ f \in left[d]
    BY <1>4 DEF StartThreads
  <2>. QED
    BY <1>4, <2>2, <2>3 DEF StartThreads
<1>5. CASE StopRun
  BY <1>5 DEF StopRun
<1>6. CASE Join
  BY <1>6 DEF Join
<1>7. CASE EndRun
  BY <1>7 DEF EndRun, Alive
<1>8. CASE _genReport
  BY <1>8 DEF _genReport
<1>9. CASE setLastCheckDisk
  BY <1>9 DEF setLastCheckDisk
<1>10. CASE Wait
  BY <1>10 DEF Wait
<1>11. ASSUME NEW d \in Disks, _dumpFileInfo(d) PROVE Coverage'
  BY <1>11 DEF _dumpFileInfo, QueueOf
<1>12. ASSUME NEW f \in Files, _crossCheckNonRegFiles(f) PROVE Coverage'
  BY <1>12 DEF _crossCheckNonRegFiles
<1>13. ASSUME NEW t \in Threads, SubStop(t) PROVE Coverage'
  BY <1>13 DEF SubStop
<1>14. ASSUME NEW t \in Threads, SubNext(t) PROVE Coverage'
  <2>1. \A u \in Threads, f \in Files : Handles(u, f) => Handles(u, f)' \/ f \in done'
    BY <1>14 DEF SubNext
  <2>2. \A e \in disks : \A f \in mem[e] : Accounted(e, f) => Accounted(e, f)'
    BY <1>14, <2>1 DEF SubNext
  <2>3. sub'[t].pc # "none"
    BY <1>14 DEF SubNext
  <2>. QED
    BY <1>14, <2>2, <2>3 DEF SubNext
<1>15. ASSUME NEW t \in Threads, PickNothing(t) PROVE Coverage'
  <2>1. \A u \in Threads, f \in Files : Handles(u, f) => Handles(u, f)' \/ f \in done'
    BY <1>15 DEF PickNothing
  <2>2. \A e \in disks : \A f \in mem[e] : Accounted(e, f) => Accounted(e, f)'
    BY <1>15, <2>1 DEF PickNothing
  <2>3. ids = {}
    BY <1>15 DEF PickNothing, Choices
  <2>. QED
    BY <1>15, <2>2, <2>3 DEF PickNothing
<1>16. ASSUME NEW t \in Threads, checkFile(t) PROVE Coverage'
  <2>1. PICK pc \in {"mark", "stat", "sum"} : sub' = [sub EXCEPT ![t].pc = pc]
    BY <1>16 DEF checkFile
  <2>2. sub[t].pc = "look" /\ UNCHANGED <<main, stop, disks, mem, done, ids, left>>
    BY <1>16 DEF checkFile
  <2>3. \A u \in Threads, f \in Files : Handles(u, f) => Handles(u, f)'
    BY <2>1, <2>2
  <2>4. \A e \in disks : \A f \in mem[e] : Accounted(e, f) => Accounted(e, f)'
    BY <2>2, <2>3
  <2>5. sub'[t].pc # "none"
    BY <2>1
  <2>. QED
    BY <2>2, <2>4, <2>5
<1>17. ASSUME NEW t \in Threads, do_checksum(t) PROVE Coverage'
  BY <1>17 DEF do_checksum
<1>18. ASSUME NEW t \in Threads, Mark(t) PROVE Coverage'
  <2>1. \A u \in Threads, f \in Files : Handles(u, f) => Handles(u, f)' \/ f \in done'
    <3>1. \A u \in Threads : sub'[u].f = sub[u].f /\ (u # t => sub'[u] = sub[u])
      BY <1>18 DEF Mark
    <3>2. sub'[t].pc = "stat" \/ sub[t].f \in done'
      BY <1>18 DEF Mark
    <3>. QED
      BY <3>1, <3>2
  <2>2. \A e \in disks : \A f \in mem[e] : Accounted(e, f) => Accounted(e, f)'
    BY <1>18, <2>1 DEF Mark
  <2>3. sub'[t].pc # "none" /\ done \subseteq done'
    BY <1>18 DEF Mark
  <2>. QED
    BY <1>18, <2>2, <2>3 DEF Mark
<1>19. ASSUME NEW t \in Threads, _updateFileCheckStatus(t) PROVE Coverage'
  BY <1>19 DEF _updateFileCheckStatus
<1>20. ASSUME NEW t \in Threads, SubPause(t) PROVE Coverage'
  BY <1>20 DEF SubPause
<1>21. ASSUME NEW t \in Threads, NEW d \in Disks, NEW f \in Files, PickFile(t, d, f) PROVE Coverage'
  BY <1>21 DEF PickFile, Choices, ReadFrom
<1>22. ASSUME NEW t \in Threads, NEW d \in Disks, PickEnd(t, d) PROVE Coverage'
  <2>1. \A u \in Threads, f \in Files : Handles(u, f) => Handles(u, f)'
    BY <1>22 DEF PickEnd
  <2>2. \A f \in mem[d] : f \notin left[d]
    BY <1>22 DEF PickEnd, ReadFrom
  <2>3. \A e \in disks : \A f \in mem[e] : Accounted(e, f) => Accounted(e, f)'
    BY <1>22, <2>1, <2>2 DEF PickEnd
  <2>4. ids' = {} \/ sub'[t].pc # "none"
    BY <1>22 DEF PickEnd
  <2>. QED
    BY <1>22, <2>3, <2>4 DEF PickEnd
<1>23. ASSUME NEW t \in Threads, NEW d \in Disks, PickFails(t, d) PROVE Coverage'
  BY <1>23, SMTT(30) DEF PickFails, Choices, ReadFrom
<1>24. ASSUME NEW f \in Files, Rot(f) PROVE Coverage'
  BY <1>24 DEF Rot
<1>25. ASSUME NEW f \in Files, Vanish(f) PROVE Coverage'
  BY <1>25 DEF Vanish
<1>26. ASSUME NEW f \in Files, ArchiveFile(f) PROVE Coverage'
  BY <1>26 DEF ArchiveFile
<1>27. ASSUME NEW f \in Files, DiscardFile(f) PROVE Coverage'
  BY <1>27 DEF DiscardFile
<1>28. ASSUME NEW f \in Files, WriteRow(f) PROVE Coverage'
  BY <1>28 DEF WriteRow
<1>29. CASE Stop
  BY <1>29 DEF Stop
<1>30. CASE Crash
  BY <1>30 DEF Crash
<1>31. CASE Restart
  BY <1>31 DEF Restart
<1>32. CASE UNCHANGED vars
  BY <1>32 DEF vars
<1>33. CASE Online
  BY <1>33 DEF Online
<1>34. ASSUME NEW b \in BOOLEAN, Serving(b) PROVE Coverage'
  BY <1>34 DEF Serving
<1>. QED
  BY <1>1, <1>2, <1>3, <1>4, <1>5, <1>6, <1>7, <1>8, <1>9, <1>10, <1>11, <1>12, <1>13,
     <1>14, <1>15, <1>16, <1>17, <1>18, <1>19, <1>20, <1>21, <1>22, <1>23, <1>24, <1>25,
     <1>26, <1>27, <1>28, <1>29, <1>30, <1>31, <1>32, <1>33, <1>34
     DEF Next, Main, Sub, Environment

\* Every step keeps Walk.
LEMMA WalkKept ==
    ASSUME IInv, [Next]_vars PROVE Walk'
<1>. USE DataCheckConfig DEF IInv, env, cyc, others, Event, To, Boot, Rest, Types, TypeOK, Kept, Walk
<1>1. CASE Stopped
  BY <1>1 DEF Stopped
<1>2. CASE get_disks_to_check
  BY <1>2 DEF get_disks_to_check
<1>3. CASE collect_files_on_disk
  BY <1>3 DEF collect_files_on_disk
<1>4. CASE StartThreads
  BY <1>4 DEF StartThreads
<1>5. CASE StopRun
  BY <1>5 DEF StopRun
<1>6. CASE Join
  BY <1>6 DEF Join
<1>7. CASE EndRun
  BY <1>7 DEF EndRun
<1>8. CASE _genReport
  BY <1>8 DEF _genReport
<1>9. CASE setLastCheckDisk
  BY <1>9 DEF setLastCheckDisk
<1>10. CASE Wait
  BY <1>10 DEF Wait
<1>11. ASSUME NEW d \in Disks, _dumpFileInfo(d) PROVE Walk'
  BY <1>11 DEF _dumpFileInfo, QueueOf
<1>12. ASSUME NEW f \in Files, _crossCheckNonRegFiles(f) PROVE Walk'
  BY <1>12 DEF _crossCheckNonRegFiles
<1>13. ASSUME NEW t \in Threads, SubStop(t) PROVE Walk'
  BY <1>13 DEF SubStop
<1>14. ASSUME NEW t \in Threads, SubNext(t) PROVE Walk'
  BY <1>14 DEF SubNext
<1>15. ASSUME NEW t \in Threads, PickNothing(t) PROVE Walk'
  BY <1>15 DEF PickNothing
<1>16. ASSUME NEW t \in Threads, checkFile(t) PROVE Walk'
  BY <1>16 DEF checkFile
<1>17. ASSUME NEW t \in Threads, do_checksum(t) PROVE Walk'
  BY <1>17 DEF do_checksum
<1>18. ASSUME NEW t \in Threads, Mark(t) PROVE Walk'
  BY <1>18 DEF Mark
<1>19. ASSUME NEW t \in Threads, _updateFileCheckStatus(t) PROVE Walk'
  BY <1>19 DEF _updateFileCheckStatus
<1>20. ASSUME NEW t \in Threads, SubPause(t) PROVE Walk'
  BY <1>20 DEF SubPause
<1>21. ASSUME NEW t \in Threads, NEW d \in Disks, NEW f \in Files, PickFile(t, d, f) PROVE Walk'
  <2>1. d \in ids /\ f \in mem[d] /\ DiskOf[f] = d
    BY <1>21 DEF PickFile, Choices, ReadFrom, On
  <2>2. f \notin Orphans
    BY <2>1
  <2>. QED
    BY <1>21, <2>2 DEF PickFile
<1>22. ASSUME NEW t \in Threads, NEW d \in Disks, PickEnd(t, d) PROVE Walk'
  BY <1>22 DEF PickEnd, Choices, ReadFrom
<1>23. ASSUME NEW t \in Threads, NEW d \in Disks, PickFails(t, d) PROVE Walk'
  BY <1>23 DEF PickFails, Choices, ReadFrom
<1>24. ASSUME NEW f \in Files, Rot(f) PROVE Walk'
  BY <1>24 DEF Rot
<1>25. ASSUME NEW f \in Files, Vanish(f) PROVE Walk'
  BY <1>25 DEF Vanish
<1>26. ASSUME NEW f \in Files, ArchiveFile(f) PROVE Walk'
  BY <1>26 DEF ArchiveFile
<1>27. ASSUME NEW f \in Files, DiscardFile(f) PROVE Walk'
  BY <1>27 DEF DiscardFile
<1>28. ASSUME NEW f \in Files, WriteRow(f) PROVE Walk'
  BY <1>28 DEF WriteRow
<1>29. CASE Stop
  BY <1>29 DEF Stop
<1>30. CASE Crash
  BY <1>30 DEF Crash
<1>31. CASE Restart
  BY <1>31 DEF Restart
<1>32. CASE UNCHANGED vars
  BY <1>32 DEF vars
<1>33. CASE Online
  BY <1>33 DEF Online
<1>34. ASSUME NEW b \in BOOLEAN, Serving(b) PROVE Walk'
  BY <1>34 DEF Serving
<1>. QED
  BY <1>1, <1>2, <1>3, <1>4, <1>5, <1>6, <1>7, <1>8, <1>9, <1>10, <1>11, <1>12, <1>13,
     <1>14, <1>15, <1>16, <1>17, <1>18, <1>19, <1>20, <1>21, <1>22, <1>23, <1>24, <1>25,
     <1>26, <1>27, <1>28, <1>29, <1>30, <1>31, <1>32, <1>33, <1>34
     DEF Next, Main, Sub, Environment

\* The initial states, in which nothing has been looked at, satisfy the invariant.
LEMMA InitIInv ==
    Init => IInv
<1>. SUFFICES ASSUME Init PROVE IInv
  OBVIOUS
<1>. USE DataCheckConfig DEF Init, Rest
<1>1. TypeOK
  <2>1. /\ row \in [Files -> {"none", "ok", "bad"}] /\ vol \in [Files -> {"none", "good", "rot"}]
        /\ events \in 0 .. MaxEvents
    OBVIOUS
  <2>. QED
    BY <2>1 DEF TypeOK, SubSteps, MainSteps, NoQueue, On
<1>5. Types
  BY <1>1 DEF Types, SubSteps, Handling, NoQueue
<1>2. Blame
  BY DEF Blame, Met, BadOnlyIfDamaged, NoQueue
<1>3. Kept
  BY DEF Kept, NoQueue
<1>4. Order /\ Coverage /\ Walk
  BY DEF Order, Coverage, AllChecked, Walk
<1>. QED
  BY <1>2, <1>3, <1>4, <1>5 DEF IInv

\* IInv holds in every state the thread, its sub-threads and the requests beside them reach.
THEOREM CheckInvariant == Spec => []IInv
<1>1. ASSUME IInv, [Next]_vars PROVE IInv'
  <2>1. Types'
    BY <1>1, TypesKept
  <2>2. Blame'
    BY <1>1, BlameKept
  <2>3. Kept'
    BY <1>1, KeptKept
  <2>4. Order'
    BY <1>1, OrderKept
  <2>5. Coverage'
    BY <1>1, CoverageKept
  <2>6. Walk'
    BY <1>1, WalkKept
  <2>. QED
    BY <2>1, <2>2, <2>3, <2>4, <2>5, <2>6 DEF IInv
<1>. QED
  BY <1>1, InitIInv, PTL DEF Spec

\* Whatever requests do to the files meanwhile, and however often the service is stopped,
\* killed or a statement fails: a cycle that ends has checked each file of each queue, has
\* reported each file that never had a row and no registered one, and no intact file is
\* marked bad unless a stop cut its checksum short.
THEOREM ChecksAreTrue == Spec => []ChecksTrue
<1>1. IInv => ChecksTrue
  BY DEF IInv, Types, Blame, Kept, Coverage, Walk, ChecksTrue, UnregisteredFound
<1>. QED
  BY <1>1, CheckInvariant, PTL

\* setLastCheckDisk, at the end of a queue (datacheck_thread.py) or of the cycle, is never
\* called for a volume with a file of its queue that no sub-thread took, unless the
\* service is being stopped.
THEOREM LastCheckEarned == Spec => LastCheckAfterQueue
<1>. DEFINE Earned ==
         \A d \in due \ due' :
            /\ d \in disks
            /\ \A f \in mem[d] : stop \/ f \in done \/ \E t \in Threads : sub[t].f = f
<1>1. ASSUME IInv, [Next]_vars PROVE [Earned]_vars
  <2>. USE <1>1, DataCheckConfig DEF IInv, Types, TypeOK
  <2>1. ASSUME NEW t \in Threads, NEW d \in Disks, PickEnd(t, d) PROVE Earned
    <3>1. d \in disks /\ due' = due \ {d}
      BY <2>1 DEF PickEnd, Choices
    <3>2. \A f \in mem[d] : f \notin left[d]
      BY <2>1 DEF PickEnd, ReadFrom
    <3>3. stop \/ main = "run"
      BY <2>1 DEF PickEnd, Order, MainSteps
    <3>4. \A f \in mem[d] : stop \/ f \in done \/ \E u \in Threads : sub[u].f = f
      BY <3>1, <3>2, <3>3 DEF Coverage, Accounted, Handles
    <3>. QED
      BY <3>1, <3>4
  <2>2. CASE setLastCheckDisk
    BY <2>2 DEF setLastCheckDisk, Coverage, AllChecked
  <2>3. CASE Wait
    BY <2>3 DEF Wait
  <2>4. CASE due' = due
    BY <2>4
  <2>5. CASE Crash \/ Online \/ Restart \/ UNCHANGED vars
    BY <2>4, <2>5 DEF Crash, Online, Restart, Boot, vars
  <2>6. CASE Environment
    BY <2>4, <2>5, <2>6 DEF Environment, Rot, Vanish, ArchiveFile, DiscardFile, PickFails,
       Stop, Serving, others
  <2>7. CASE Main
    BY <2>2, <2>3, <2>4, <2>7 DEF Main, Stopped, get_disks_to_check, collect_files_on_disk,
       StartThreads,
       StopRun, Join, EndRun, _genReport, _dumpFileInfo, _crossCheckNonRegFiles
  <2>8. ASSUME NEW t \in Threads, Sub(t) PROVE Earned
    BY <2>1, <2>4, <2>8 DEF Sub, SubStop, SubNext, PickNothing, checkFile, do_checksum, Mark,
       _updateFileCheckStatus, SubPause, PickFile
  <2>9. ASSUME NEW f \in Files, WriteRow(f) PROVE Earned
    BY <2>4, <2>9 DEF WriteRow, others
  <2>. QED
    BY <1>1, <2>5, <2>6, <2>7, <2>8, <2>9 DEF Next
<1>. QED
  BY <1>1, CheckInvariant, PTL DEF Spec, LastCheckAfterQueue

=============================================================================
