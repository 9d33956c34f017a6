------------------------- MODULE NgamsServerProofs -------------------------
(***************************************************************************)
(* Proofs about NgamsServer for any number of requests and any pool size.  *)
(***************************************************************************)
EXTENDS NgamsServer, FiniteSetTheorems, TLAPS

\* The process ends for all its threads at once.
GoneTogether == \A r \in Requests : (pc[r] = "gone") <=> ~Alive

\* The threads of the pool bound the requests taken up, in reqCallBack or about to be.
PoolBound == Alive => Cardinality(Workers) <= MaxSimReqs

\* A request asks for BUSY once, when checkSetState lets it through.
Early == {"new", "rejected", "queued", "picked", "dispatch", "check", "set"}
HoldersLate == \A r \in holders : pc[r] \notin Early

\* A request that kept the state semaphore had been accepted, so its command is fixed.
LostLate == semLost # Nobody => pc[semLost] # "new"

\* The inductive invariant: the checked invariants and the four facts above.
IndInv ==
    /\ TypeOK
    /\ HoldersLate
    /\ GoneTogether
    /\ PoolBound
    /\ ServingExact
    /\ SemaphoreHeld
    /\ LostLate
    /\ BusyBacked

-----------------------------------------------------------------------------
(* Facts about the sets of requests.                                       *)

\* A pc update that keeps a request inside reqCallBack changes none of the sets.
LEMMA StaysInside ==
    ASSUME TypeOK, NEW r \in Requests, r \in InCallBack, NEW l,
           l \notin {"new", "rejected", "queued", "picked", "done", "gone", "dropped", "leaked"},
           \A q \in Requests : pc'[q] = IF q = r THEN l ELSE pc[q]
    PROVE  /\ InCallBack' = InCallBack /\ Workers' = Workers
           /\ Counted' = Counted /\ Leaked' = Leaked
  BY DEF InCallBack, Workers, Counted, Leaked

\* The sets are finite.
LEMMA WorkersFinite ==
    /\ IsFiniteSet(Counted) /\ IsFiniteSet(Workers)
    /\ Cardinality(Counted) \in Nat /\ Cardinality(Workers) \in Nat
  <1>1. Counted \subseteq Requests /\ Workers \subseteq Requests
    BY DEF InCallBack, Workers, Counted
  <1>2. IsFiniteSet(Counted) /\ IsFiniteSet(Workers)
    BY <1>1, RequestsAssumption, FS_Subset
  <1>3. QED
    BY <1>2, FS_CardinalityType

\* What really moves: the count, the flag, the permission and the pool's threads.
Numbers ==
    /\ servingCount = Cardinality(Counted)
    /\ serving <=> (servingCount > 0)
    /\ checksumAllow <=> ~serving
    /\ Cardinality(Workers) <= MaxSimReqs

\* The rest follows: a counted request is a worker or was thrown out.
LEMMA NumbersAreEnough ==
    ASSUME Numbers'
    PROVE  ServingExact' /\ PoolBound'
  <1>1. Counted' \subseteq Requests /\ Workers' \subseteq Requests
    BY DEF InCallBack, Workers, Counted
  <1>2. IsFiniteSet(Counted') /\ IsFiniteSet(Workers')
    BY <1>1, RequestsAssumption, FS_Subset
  <1>3. Cardinality(Counted') \in Nat /\ Cardinality(Workers') \in Nat
    BY <1>2, FS_CardinalityType
  <1>4. Leaked' = {} => Cardinality(Counted') <= Cardinality(Workers')
    <2>1. Leaked' = {} => Counted' \subseteq Workers'
      BY DEF InCallBack, Workers
    <2>2. QED BY <1>2, <2>1, FS_Subset
  <1>5. Leaked' # {} => Cardinality(Counted') # 0
    <2>1. Leaked' \subseteq Counted'
      BY DEF Leaked, Counted
    <2>2. QED BY <1>2, <2>1, FS_EmptySet
  <1>6. Leaked' # {} => ~checksumAllow'
    <2>1. ASSUME Leaked' # {} PROVE serving'
      <3>1. servingCount' > 0
        BY <1>3, <1>5, <2>1 DEF Numbers
      <3>2. QED BY <3>1 DEF Numbers
    <2>2. QED BY <2>1 DEF Numbers
  <1>7. Leaked' = {} => servingCount' <= MaxSimReqs
    BY <1>3, <1>4, PoolAssumption DEF Numbers
  <1>8. QED BY <1>6, <1>7 DEF Numbers, ServingExact, PoolBound

\* While the process lives the invariant has them.
LEMMA NumbersHold ==
    ASSUME IndInv, Alive
    PROVE  Numbers
  BY DEF IndInv, ServingExact, PoolBound, Numbers

\* Starting and stopping a task keeps its shape.
LEMMA TaskType ==
    ASSUME NEW t \in [bg : BOOLEAN, stop : BOOLEAN, live : Nat]
    PROVE  /\ StartTask(t) \in [bg : BOOLEAN, stop : BOOLEAN, live : Nat]
           /\ StopTask(t) \in [bg : BOOLEAN, stop : BOOLEAN, live : Nat]
  BY DEF StartTask, StopTask

\* The steps that leave the pool's bookkeeping alone.
Inside(r) ==
    \/ Dispatch(r) \/ CheckState(r) \/ SetState(r) \/ SetStateFails(r)
    \/ PlainCommand(r) \/ Retrieve(r) \/ CRetrieve(r)
    \/ ArchiveShortcut(r) \/ ArchiveStage(r) \/ ArchiveFinish(r) \/ ArchiveFails(r)
    \/ OfflineTasks(r) \/ OfflineStaging(r) \/ OfflineDisks(r)
    \/ OnlineDisks(r) \/ OnlineSpace(r) \/ OnlineStaging(r)
    \/ OnlineTasks(r) \/ OnlineState(r)
    \/ Exit(r) \/ Reply(r) \/ BadRequest(r) \/ Except(r)

\* A step of the command's handling keeps the request inside reqCallBack and the
\* counter, the flag, the permission and the other requests as they are.
LEMMA InsideStep ==
    ASSUME IndInv, NEW r \in Requests, Inside(r)
    PROVE  /\ Counted' = Counted /\ Workers' = Workers
           /\ UNCHANGED poolVars
           /\ Alive /\ Alive'
           /\ \A q \in Requests : q # r => pc'[q] = pc[q]
           /\ pc'[r] # "gone" /\ pc[r] # "gone"
  <1> USE DEF TypeOK, Actors, Goto, IndInv
  <1> DEFINE Out == {"new", "rejected", "queued", "picked", "done", "gone", "dropped", "leaked"}
  <1>0. r # Shutdown /\ Shutdown \in Actors /\ r \in Actors
    BY ActorsAssumption
  <1>1. pc[r] \notin Out /\ Alive
    BY <1>0 DEF Inside, Dispatch, CheckState, SetState, SetStateFails, PlainCommand, Retrieve, CRetrieve,
       ArchiveShortcut, ArchiveStage, ArchiveFinish, ArchiveFails, OfflineTasks, OfflineStaging,
       OfflineDisks, OnlineDisks, OnlineSpace, OnlineStaging, OnlineTasks, OnlineState, Exit,
       Reply, BadRequest, Except, Answers, GoneTogether
  <1>2. CASE Exit(r) /\ pc' # [pc EXCEPT ![r] = "except"]
    <2>1. pc'[r] = "finally" /\ pc'[Shutdown] # "gone"
      BY <1>0, <1>1, <1>2 DEF Exit, Alive
    <2>2. \A q \in Requests : pc'[q] = IF q = r THEN "finally" ELSE pc[q]
      BY <1>0, <1>2 DEF Exit
    <2>3. QED
      BY <1>1, <1>2, <2>1, <2>2, StaysInside DEF Exit, Alive, InCallBack, Counted, Leaked
  <1>3. CASE ~(Exit(r) /\ pc' # [pc EXCEPT ![r] = "except"])
    <2>1. \E l : l \notin Out /\ pc' = [pc EXCEPT ![r] = l]
      <3>1. CASE OfflineDisks(r)
        BY <1>0, <3>1 DEF OfflineDisks
      <3>2. CASE ~OfflineDisks(r)
        BY <1>0, <1>3, <3>2 DEF Inside, Dispatch, CheckState, SetState, SetStateFails, Body, PlainCommand, Retrieve,
           CRetrieve, ArchiveShortcut, ArchiveStage, ArchiveFinish, ArchiveFails, OfflineTasks,
           OfflineStaging, OnlineDisks, OnlineSpace, OnlineStaging, OnlineTasks, OnlineState, Exit,
           Reply, BadRequest, Except, Answers
      <3>3. QED BY <3>1, <3>2
    <2>2. PICK l : l \notin Out /\ pc' = [pc EXCEPT ![r] = l]
      BY <2>1
    <2>3. /\ \A q \in Requests : pc'[q] = IF q = r THEN l ELSE pc[q]
          /\ pc'[Shutdown] = pc[Shutdown]
      BY <1>0, <2>2
    <2>4. UNCHANGED poolVars
      BY DEF Inside, Dispatch, CheckState, SetState, SetStateFails, PlainCommand, Retrieve, CRetrieve,
       ArchiveShortcut, ArchiveStage, ArchiveFinish, ArchiveFails, OfflineTasks, OfflineStaging,
       OfflineDisks, OnlineDisks, OnlineSpace, OnlineStaging, OnlineTasks, OnlineState, Exit,
       Reply, BadRequest, Except, Answers, poolVars
    <2>5. Counted' = Counted /\ Workers' = Workers
      BY <1>1, <2>2, <2>3, StaysInside DEF InCallBack, Counted, Leaked
    <2>6. QED
      BY <1>1, <2>2, <2>3, <2>4, <2>5 DEF Alive
  <1>4. QED BY <1>2, <1>3

\* A step of Shutdown, a signal and the end of a background task leave the requests
\* alone, except that the process may end.
LEMMA OutsideStep ==
    ASSUME IndInv, ShutdownStep \/ ExitSignal \/ TaskEnds
    PROVE  /\ Alive' => /\ Counted' = Counted /\ Workers' = Workers
                        /\ \A q \in Requests : pc'[q] = pc[q]
           /\ UNCHANGED <<servingCount, serving, checksumAllow, stateVars>>
           /\ ~Alive' => \A q \in Requests : pc'[q] = "gone"
           /\ Alive
  <1> USE DEF TypeOK, Actors, Goto, IndInv
  <1>0. \A q \in Requests : q # Shutdown
    BY ActorsAssumption
  <1>1. CASE ProcessEnds
    <2>1. ~Alive' /\ \A q \in Requests : pc'[q] = "gone"
      BY <1>1 DEF ProcessEnds, Alive
    <2>2. QED BY <1>1, <2>1 DEF ProcessEnds, Alive, poolVars
  <1>2. CASE ~ProcessEnds
    <2>1. /\ \A q \in Requests : pc'[q] = pc[q]
          /\ UNCHANGED <<servingCount, serving, checksumAllow, stateVars>>
          /\ Alive /\ Alive'
      <3>1. CASE OfflineDisks(Shutdown)
        BY <1>0, <3>1 DEF OfflineDisks, Alive, poolVars
      <3>2. CASE ~OfflineDisks(Shutdown)
        BY <1>0, <1>2, <3>2 DEF ShutdownStep, ExitSignal, TaskEnds, StopServer, BaseExit,
           OfflineTasks, OfflineStaging, Alive, poolVars
      <3>3. QED BY <3>1, <3>2
    <2>2. Counted' = Counted /\ Workers' = Workers
      BY <2>1 DEF InCallBack, Workers, Counted, Leaked
    <2>3. QED BY <2>1, <2>2
  <1>3. QED BY <1>1, <1>2

\* The step of a request at the border of reqCallBack.
Border(r) ==
    ProcessRequest(r) \/ PickUp(r) \/ ParseFails(r) \/ Enter(r) \/ Finally(r) \/ FinallyFails(r)

\* A step is taken by one request in reqCallBack, by one crossing its border, or by
\* the Shutdown thread, the signal handler or the task.
LEMMA NextCases ==
    Next <=> \/ \E r \in Requests : Inside(r)
             \/ \E r \in Requests : Border(r)
             \/ ShutdownStep \/ ExitSignal \/ TaskEnds
  BY DEF Next, RequestStep, Inside, Border

\* A request outside reqCallBack, entering or leaving it moves only itself, and
\* touches neither the State nor the Sub-State.
LEMMA BorderStep ==
    ASSUME IndInv, NEW r \in Requests, Border(r)
    PROVE  /\ \A q \in Requests : q # r => pc'[q] = pc[q]
           /\ pc'[r] \in {"rejected", "queued", "picked", "done", "dispatch", "dropped", "leaked"}
           /\ pc[r] \in {"new", "queued", "picked", "finally"}
           /\ pc'[Shutdown] = pc[Shutdown] /\ Alive /\ Alive'
           /\ UNCHANGED stateVars
  <1> USE DEF Goto, TypeOK, Actors, IndInv
  <1>0. r # Shutdown /\ r \in Actors /\ Shutdown \in Actors
    BY ActorsAssumption
  <1>1. /\ pc[r] \in {"new", "queued", "picked", "finally"}
        /\ \E l \in {"rejected", "queued", "picked", "done", "dispatch", "dropped", "leaked"} :
              pc' = [pc EXCEPT ![r] = l]
        /\ UNCHANGED stateVars
    BY DEF Border, ProcessRequest, PickUp, ParseFails, Enter, Finally, FinallyFails
  <1>2. Alive
    BY <1>1 DEF GoneTogether
  <1>3. QED BY <1>0, <1>1, <1>2 DEF Alive

-----------------------------------------------------------------------------
(* Each conjunct of the invariant is preserved.                            *)

\* The state in which handleStartUp leaves the server satisfies the invariant.
LEMMA InitInv == Init => IndInv
  <1> SUFFICES ASSUME Init PROVE IndInv
    OBVIOUS
  <1>1. TypeOK
    <2>1. disks \in BOOLEAN
      BY DEF Init
    <2>2. task \in [bg : BOOLEAN, stop : BOOLEAN, live : Nat]
      <3>1. NewTask \in [bg : BOOLEAN, stop : BOOLEAN, live : Nat]
        BY DEF NewTask
      <3>2. QED BY <3>1, TaskType DEF Init
    <2>3. /\ pc \in [Actors -> Labels \cup ShutdownLabels]
          /\ \A r \in Requests : pc[r] \in Labels
          /\ pc[Shutdown] \in ShutdownLabels
      BY DEF Init, Actors, Labels, ShutdownLabels
    <2>4. /\ cont \in [Actors -> {"reply", "on_disks", "except", "halted"}]
          /\ \A r \in Requests : cont[r] # "halted"
          /\ cont[Shutdown] = "halted"
      BY ActorsAssumption DEF Init, Actors
    <2>5. QED
      BY <2>1, <2>2, <2>3, <2>4 DEF Init, TypeOK, AllCommands
  <1>2. Counted = {} /\ Leaked = {} /\ Workers = {} /\ holders = {}
    BY DEF Init, InCallBack, Workers, Actors, Counted, Leaked
  <1>3. Cardinality({}) = 0
    BY FS_EmptySet
  <1>4. GoneTogether /\ SemaphoreHeld /\ HoldersLate /\ LostLate
    BY ActorsAssumption DEF Init, GoneTogether, SemaphoreHeld, HoldersLate, LostLate, Alive, Actors
  <1>5. ServingExact /\ PoolBound /\ BusyBacked
    BY <1>2, <1>3, PoolAssumption DEF Init, ServingExact, PoolBound, BusyBacked
  <1>6. QED BY <1>1, <1>4, <1>5 DEF IndInv

\* When the process ends every actor is gone, and none comes back.
LEMMA GoneStep == IndInv /\ [Next]_vars => GoneTogether'
  <1> SUFFICES ASSUME IndInv, [Next]_vars PROVE GoneTogether'
    OBVIOUS
  <1>1. CASE UNCHANGED vars
    BY <1>1 DEF IndInv, GoneTogether, Alive, vars
  <1>2. ASSUME NEW r \in Requests, Inside(r) PROVE GoneTogether'
    BY <1>2, InsideStep DEF IndInv, GoneTogether
  <1>3. ASSUME NEW r \in Requests, Border(r) PROVE GoneTogether'
    BY <1>3, BorderStep DEF IndInv, GoneTogether
  <1>4. CASE ShutdownStep \/ ExitSignal \/ TaskEnds
    BY <1>4, OutsideStep DEF IndInv, GoneTogether
  <1>5. QED BY <1>1, <1>2, <1>3, <1>4, NextCases

\* Where the counters really move: at the border of reqCallBack.
LEMMA CountBorder ==
    ASSUME IndInv, NEW r \in Requests, Border(r)
    PROVE  Numbers'
  <1>1. Alive /\ (\A q \in Requests : q # r => pc'[q] = pc[q]) /\ r \in Actors /\ pc \in [Actors -> Labels \cup ShutdownLabels]
    BY BorderStep DEF Actors, IndInv, TypeOK
  <1>2. Numbers
    BY <1>1, NumbersHold
  <1>3. /\ IsFiniteSet(Counted) /\ IsFiniteSet(Workers)
        /\ Cardinality(Counted) \in Nat /\ Cardinality(Workers) \in Nat
    BY WorkersFinite
  <1> USE DEF InCallBack, Workers, Counted, Leaked
  <1>4. CASE ProcessRequest(r)
    <2>1. pc[r] = "new" /\ pc'[r] \in {"rejected", "queued"} /\ UNCHANGED poolVars
      BY <1>1, <1>4 DEF ProcessRequest, Goto
    <2>2. Counted' = Counted /\ Workers' = Workers
      BY <1>1, <2>1
    <2> HIDE DEF InCallBack, Workers, Counted, Leaked
    <2>3. QED BY <1>2, <2>1, <2>2 DEF Numbers, poolVars
  <1>5. CASE PickUp(r)
    <2>1. pc[r] = "queued" /\ pc'[r] = "picked" /\ UNCHANGED poolVars /\ Cardinality(Workers) < MaxSimReqs
      BY <1>1, <1>5 DEF PickUp, Goto
    <2>2. Counted' = Counted /\ Workers' = Workers \cup {r} /\ r \notin Workers
      BY <1>1, <2>1
    <2> HIDE DEF InCallBack, Workers, Counted, Leaked
    <2>3. Cardinality(Workers') = Cardinality(Workers) + 1
      BY <1>3, <2>2, FS_AddElement
    <2>4. QED BY <1>2, <1>3, <2>1, <2>2, <2>3, PoolAssumption DEF Numbers, poolVars
  <1>6. CASE ParseFails(r)
    <2>1. pc[r] = "picked" /\ pc'[r] = "done" /\ UNCHANGED poolVars
      BY <1>1, <1>6 DEF ParseFails, Goto
    <2>2. Counted' = Counted /\ Workers' = Workers \ {r} /\ r \in Workers
      BY <1>1, <2>1
    <2> HIDE DEF InCallBack, Workers, Counted, Leaked
    <2>3. Cardinality(Workers') = Cardinality(Workers) - 1
      BY <1>3, <2>2, FS_RemoveElement
    <2>4. QED BY <1>2, <1>3, <2>1, <2>2, <2>3, PoolAssumption DEF Numbers, poolVars
  <1>7. CASE Enter(r)
    <2>1. /\ pc[r] = "picked" /\ pc'[r] \in {"dispatch", "dropped"}
          /\ servingCount' = servingCount + 1 /\ serving' = TRUE /\ checksumAllow' = FALSE
      BY <1>1, <1>7 DEF Enter, Goto, SetServing
    <2>2. Counted' = Counted \cup {r} /\ r \notin Counted /\ r \in Workers
      BY <1>1, <2>1
    <2>3. Workers' = Workers \/ Workers' = Workers \ {r}
      BY <1>1, <2>1
    <2> HIDE DEF InCallBack, Workers, Counted, Leaked
    <2>4. Cardinality(Counted') = Cardinality(Counted) + 1
      BY <1>3, <2>2, FS_AddElement
    <2>5. Cardinality(Workers \ {r}) = Cardinality(Workers) - 1
      BY <1>3, <2>2, FS_RemoveElement
    <2>6. Cardinality(Workers') <= MaxSimReqs
      BY <1>2, <1>3, <2>3, <2>5, PoolAssumption DEF Numbers
    <2>7. servingCount' = Cardinality(Counted') /\ servingCount' > 0
      BY <1>2, <1>3, <2>1, <2>4 DEF Numbers
    <2>8. QED BY <2>1, <2>6, <2>7 DEF Numbers
  <1>8. CASE Finally(r)
    <2>1. pc[r] = "finally" /\ pc'[r] = "done" /\ servingCount' = servingCount - 1
      BY <1>1, <1>8 DEF Finally, Goto
    <2>2. /\ Counted' = Counted \ {r} /\ Workers' = Workers \ {r}
          /\ r \in Counted /\ r \in Workers
      BY <1>1, <2>1
    <2> HIDE DEF InCallBack, Workers, Counted, Leaked
    <2>3. /\ Cardinality(Counted') = Cardinality(Counted) - 1
          /\ Cardinality(Workers') = Cardinality(Workers) - 1
      BY <1>3, <2>2, FS_RemoveElement
    <2>5. Cardinality(Counted) # 0
      BY <1>3, <2>2, FS_EmptySet
    <2>6. (serving' <=> servingCount' > 0) /\ (checksumAllow' <=> ~serving')
      <3>1. CASE servingCount' = 0
        <4>1. serving' = FALSE /\ checksumAllow' = ~FALSE
          BY <1>8, <3>1 DEF Finally, SetServing
        <4>2. ~(servingCount' > 0)
          BY <3>1
        <4>3. QED BY <4>1, <4>2
      <3>2. CASE servingCount' # 0
        <4>1. serving' = serving /\ checksumAllow' = checksumAllow
          BY <1>8, <3>2 DEF Finally
        <4>2. servingCount > 0 /\ servingCount' > 0
          BY <1>2, <1>3, <2>1, <2>5, <3>2 DEF Numbers
        <4>3. QED BY <1>2, <4>1, <4>2 DEF Numbers
      <3>3. QED BY <3>1, <3>2
    <2>7. servingCount' = Cardinality(Counted') /\ Cardinality(Workers') <= MaxSimReqs
      BY <1>2, <1>3, <2>1, <2>2, <2>3, PoolAssumption DEF Numbers
    <2>8. QED BY <2>6, <2>7 DEF Numbers
  <1>9. CASE FinallyFails(r)
    <2>1. pc[r] = "finally" /\ pc'[r] = "leaked" /\ UNCHANGED poolVars
      BY <1>1, <1>9 DEF FinallyFails, Goto
    <2>2. Counted' = Counted /\ Workers' = Workers \ {r} /\ r \in Workers
      BY <1>1, <2>1
    <2> HIDE DEF InCallBack, Workers, Counted, Leaked
    <2>3. Cardinality(Workers') = Cardinality(Workers) - 1
      BY <1>3, <2>2, FS_RemoveElement
    <2>4. QED BY <1>2, <1>3, <2>1, <2>2, <2>3, PoolAssumption DEF Numbers, poolVars
  <1>10. QED BY <1>4, <1>5, <1>6, <1>7, <1>8, <1>9 DEF Border

\* A request in the finally clause is counted.
LEMMA InsideCount ==
    ASSUME IndInv, NEW r \in Requests, Finally(r)
    PROVE  servingCount - 1 \in Nat
  <1>1. r \in Counted /\ Alive
    BY DEF Finally, Counted, IndInv, GoneTogether
  <1>2. servingCount = Cardinality(Counted) /\ Cardinality(Counted) # 0
    BY <1>1, WorkersFinite, FS_EmptySet DEF IndInv, ServingExact
  <1>3. QED BY <1>2, WorkersFinite

\* serving_count stays the number of requests inside reqCallBack and of those thrown
\* out of it.
LEMMA CountStep == IndInv /\ [Next]_vars => ServingExact' /\ PoolBound'
  <1> SUFFICES ASSUME IndInv, [Next]_vars PROVE ServingExact' /\ PoolBound'
    OBVIOUS
  <1>1. CASE UNCHANGED vars
    BY <1>1 DEF IndInv, ServingExact, PoolBound, InCallBack, Workers, Counted, Leaked, Alive, vars, poolVars
  <1>2. ASSUME NEW r \in Requests, Inside(r) PROVE ServingExact' /\ PoolBound'
    <2>1. Numbers'
      BY <1>2, InsideStep, NumbersHold DEF Numbers, poolVars
    <2>2. QED BY <2>1, NumbersAreEnough
  <1>3. ASSUME NEW r \in Requests, Border(r) PROVE ServingExact' /\ PoolBound'
    BY <1>3, CountBorder, NumbersAreEnough
  <1>4. CASE ShutdownStep \/ ExitSignal \/ TaskEnds
    <2>1. CASE ~Alive'
      BY <2>1 DEF ServingExact, PoolBound
    <2>2. CASE Alive'
      <3>1. Numbers'
        BY <1>4, <2>2, OutsideStep, NumbersHold DEF Numbers
      <3>2. QED BY <3>1, NumbersAreEnough
    <2>3. QED BY <2>1, <2>2
  <1>5. QED BY <1>1, <1>2, <1>3, <1>4, NextCases

\* setSubState(IDLE) keeps the count a natural number, because it looks before it
\* decrements.
LEMMA IdleType ==
    ASSUME TypeOK, NEW r \in Requests, SetIdle(r)
    PROVE  busyCount' \in Nat /\ subState' \in {"IDLE", "BUSY"} /\ holders' \subseteq Requests
  BY DEF TypeOK, SetIdle

\* A step of a request inside reqCallBack keeps the shape of the state.
LEMMA InsideType ==
    ASSUME TypeOK, NEW r \in Requests, Inside(r)
    PROVE  TypeOK'
  <1> USE DEF Goto, Actors, Labels, ShutdownLabels, poolVars, stateVars, systemVars
  <1>0. r # Shutdown
    BY ActorsAssumption
  <1>1. CASE Dispatch(r)
    BY <1>0, <1>1 DEF Dispatch, CheckedCommands, Answers, TypeOK
  <1>2. CASE CheckState(r)
    BY <1>0, <1>2 DEF CheckState, TypeOK
  <1>3. CASE SetState(r)
    BY <1>0, <1>3 DEF SetState, Body, NewState, SetBusy, TypeOK
  <1>4. CASE PlainCommand(r)
    BY <1>0, <1>4 DEF PlainCommand, TypeOK
  <1>5. CASE Retrieve(r)
    BY <1>0, <1>5, IdleType DEF Retrieve, TypeOK
  <1>6. CASE CRetrieve(r)
    BY <1>0, <1>6, IdleType DEF CRetrieve, TypeOK
  <1>7. CASE ArchiveShortcut(r)
    BY <1>0, <1>7, IdleType DEF ArchiveShortcut, TypeOK
  <1>8. CASE ArchiveStage(r)
    BY <1>0, <1>8 DEF ArchiveStage, TypeOK
  <1>9. CASE ArchiveFinish(r)
    BY <1>0, <1>9, IdleType DEF ArchiveFinish, TypeOK
  <1>10. CASE ArchiveFails(r)
    BY <1>0, <1>10, IdleType DEF ArchiveFails, TypeOK
  <1>11. CASE OfflineTasks(r)
    BY <1>0, <1>11, TaskType DEF OfflineTasks, TypeOK
  <1>12. CASE OfflineStaging(r)
    BY <1>0, <1>12 DEF OfflineStaging, TypeOK
  <1>13. CASE OfflineDisks(r)
    <2>1. disks' \in BOOLEAN
      BY <1>13 DEF OfflineDisks, TypeOK
    <2>2. /\ pc' \in [Actors -> Labels \cup ShutdownLabels]
          /\ \A q \in Requests : pc'[q] \in Labels
          /\ pc'[Shutdown] = pc[Shutdown]
      BY <1>0, <1>13 DEF OfflineDisks, TypeOK
    <2>3. /\ cont' \in [Actors -> {"reply", "on_disks", "except", "halted"}]
          /\ \A q \in Requests : cont'[q] # "halted"
          /\ cont'[Shutdown] = "halted"
      BY <1>0, <1>13 DEF OfflineDisks, TypeOK
    <2>4. QED BY <1>13, <2>1, <2>2, <2>3 DEF OfflineDisks, TypeOK
  <1>14. CASE OnlineDisks(r)
    <2>1. disks' \in BOOLEAN
      BY <1>14 DEF OnlineDisks, TypeOK
    <2>2. /\ pc' \in [Actors -> Labels \cup ShutdownLabels]
          /\ \A q \in Requests : pc'[q] \in Labels
          /\ pc'[Shutdown] = pc[Shutdown]
      BY <1>0, <1>14 DEF OnlineDisks, TypeOK
    <2>3. /\ cont' \in [Actors -> {"reply", "on_disks", "except", "halted"}]
          /\ \A q \in Requests : cont'[q] # "halted"
          /\ cont'[Shutdown] = "halted"
      BY <1>0, <1>14 DEF OnlineDisks, TypeOK
    <2>4. QED BY <1>14, <2>1, <2>2, <2>3 DEF OnlineDisks, TypeOK
  <1>15. CASE OnlineSpace(r)
    BY <1>0, <1>15 DEF OnlineSpace, TypeOK
  <1>16. CASE OnlineStaging(r)
    BY <1>0, <1>16 DEF OnlineStaging, TypeOK
  <1>17. CASE OnlineTasks(r)
    BY <1>0, <1>17, TaskType DEF OnlineTasks, TypeOK
  <1>18. CASE OnlineState(r)
    BY <1>0, <1>18 DEF OnlineState, TypeOK
  <1>19. CASE Exit(r)
    BY <1>0, <1>19 DEF Exit, TypeOK
  <1>20. CASE Reply(r)
    BY <1>0, <1>20 DEF Reply, TypeOK
  <1>21. CASE BadRequest(r)
    BY <1>0, <1>21 DEF BadRequest, Answers, TypeOK
  <1>22. CASE Except(r)
    BY <1>0, <1>22, IdleType DEF Except, Answers, TypeOK
  <1>24. CASE SetStateFails(r)
    BY <1>0, <1>24 DEF SetStateFails, NewState, TypeOK
  <1>23. QED BY <1>24, <1>1, <1>2, <1>3, <1>4, <1>5, <1>6, <1>7, <1>8, <1>9, <1>10, <1>11, <1>12, <1>13, <1>14, <1>15, <1>16, <1>17, <1>18, <1>19, <1>20, <1>21, <1>22 DEF Inside

\* Every step keeps the shape of the state.
LEMMA TypeStep == IndInv /\ [Next]_vars => TypeOK'
  <1> SUFFICES ASSUME IndInv, [Next]_vars PROVE TypeOK'
    OBVIOUS
  <1>0. TypeOK
    BY DEF IndInv
  <1>1. CASE UNCHANGED vars
    BY <1>0, <1>1 DEF TypeOK, Actors, vars, poolVars, stateVars, systemVars
  <1>2. ASSUME NEW r \in Requests, Inside(r) PROVE TypeOK'
    BY <1>0, <1>2, InsideType
  <1>3. ASSUME NEW r \in Requests, Border(r) PROVE TypeOK'
    <2> USE DEF Goto, Actors, Labels, ShutdownLabels, poolVars, stateVars, systemVars
    <2>0. r # Shutdown
      BY ActorsAssumption
    <2>1. CASE ProcessRequest(r)
      BY <1>0, <2>0, <2>1, CommandsAssumption DEF ProcessRequest, Answers, TypeOK
    <2>2. CASE PickUp(r)
      BY <1>0, <2>0, <2>2 DEF PickUp, TypeOK
    <2>3. CASE ParseFails(r)
      BY <1>0, <2>0, <2>3 DEF ParseFails, Answers, TypeOK
    <2>4. CASE Enter(r)
      BY <1>0, <2>0, <2>4 DEF Enter, SetServing, TypeOK
    <2>5. CASE Finally(r)
      <3>1. servingCount' \in Nat
        BY <2>5, InsideCount DEF Finally
      <3>2. serving' \in BOOLEAN /\ checksumAllow' \in BOOLEAN
        BY <1>0, <2>5 DEF Finally, SetServing, TypeOK
      <3>3. QED
        BY <1>0, <2>0, <2>5, <3>1, <3>2 DEF Finally, TypeOK
    <2>6. CASE FinallyFails(r)
      BY <1>0, <2>0, <2>6 DEF FinallyFails, TypeOK
    <2>7. QED BY <1>3, <2>1, <2>2, <2>3, <2>4, <2>5, <2>6 DEF Border
  <1>4. CASE ShutdownStep \/ ExitSignal \/ TaskEnds
    <2> USE DEF Goto, Actors, Labels, ShutdownLabels, poolVars, stateVars, systemVars
    <2>0. Shutdown \notin Requests
      BY ActorsAssumption
    <2>1. CASE StopServer
      BY <1>0, <2>0, <2>1 DEF StopServer, TypeOK
    <2>2. CASE BaseExit
      BY <1>0, <2>0, <2>2 DEF BaseExit, TypeOK
    <2>3. CASE ProcessEnds
      BY <1>0, <2>0, <2>3 DEF ProcessEnds, TypeOK
    <2>4. CASE OfflineTasks(Shutdown)
      BY <1>0, <2>0, <2>4, TaskType DEF OfflineTasks, TypeOK
    <2>5. CASE OfflineStaging(Shutdown)
      BY <1>0, <2>0, <2>5 DEF OfflineStaging, TypeOK
    <2>6. CASE OfflineDisks(Shutdown)
      <3>1. disks' \in BOOLEAN
        BY <1>0, <2>6 DEF OfflineDisks, TypeOK
      <3>2. /\ pc' \in [Actors -> Labels \cup ShutdownLabels]
            /\ \A q \in Requests : pc'[q] = pc[q]
            /\ pc'[Shutdown] \in ShutdownLabels
        BY <1>0, <2>0, <2>6 DEF OfflineDisks, TypeOK
      <3>3. QED BY <1>0, <2>6, <3>1, <3>2 DEF OfflineDisks, TypeOK
    <2>7. CASE ExitSignal
      BY <1>0, <2>0, <2>7 DEF ExitSignal, TypeOK
    <2>8. CASE TaskEnds
      BY <1>0, <2>0, <2>8 DEF TaskEnds, TypeOK
    <2>9. QED BY <1>4, <2>1, <2>2, <2>3, <2>4, <2>5, <2>6, <2>7, <2>8 DEF ShutdownStep
  <1>5. QED BY <1>1, <1>2, <1>3, <1>4, NextCases

\* The command of a request is fixed once it is accepted.
LEMMA CommandKept ==
    ASSUME IndInv, [Next]_vars, NEW q \in Requests, pc[q] # "new"
    PROVE  cmd'[q] = cmd[q]
  <1>1. ASSUME NEW r \in Requests, ProcessRequest(r) PROVE cmd'[q] = cmd[q]
    BY <1>1 DEF ProcessRequest, IndInv, TypeOK
  <1>2. ASSUME NEW r \in Requests, Border(r), ~ProcessRequest(r) PROVE cmd'[q] = cmd[q]
    BY <1>2 DEF Border, PickUp, ParseFails, Enter, Finally, FinallyFails
  <1>3. ASSUME NEW r \in Requests, Inside(r) PROVE cmd'[q] = cmd[q]
    BY <1>3 DEF Inside, Dispatch, CheckState, SetState, SetStateFails, PlainCommand, Retrieve, CRetrieve,
       ArchiveShortcut, ArchiveStage, ArchiveFinish, ArchiveFails, OfflineTasks, OfflineStaging,
       OfflineDisks, OnlineDisks, OnlineSpace, OnlineStaging, OnlineTasks, OnlineState, Exit,
       Reply, BadRequest, Except
  <1>4. CASE ShutdownStep \/ ExitSignal \/ TaskEnds
    BY <1>4 DEF ShutdownStep, ExitSignal, TaskEnds, StopServer, BaseExit, ProcessEnds,
       OfflineTasks, OfflineStaging, OfflineDisks
  <1>5. CASE UNCHANGED vars
    BY <1>5 DEF vars
  <1>6. QED BY <1>1, <1>2, <1>3, <1>4, <1>5, NextCases

\* Only CheckState and the two ends of checkSetState touch the semaphore or the label
\* between them.
LEMMA SemStep == IndInv /\ [Next]_vars => SemaphoreHeld'
  <1> SUFFICES ASSUME IndInv, [Next]_vars, Alive' PROVE SemaphoreHeld'
    BY DEF SemaphoreHeld
  <1>0. /\ TypeOK
        /\ Alive => /\ \A q \in Requests : (stateSem = q) <=> (pc[q] = "set" \/ semLost = q)
                    /\ semLost # Nobody => /\ WritesState(cmd[semLost]) /\ pc[semLost] # "set"
                                           /\ pc[semLost] # "new" /\ semLost \in Requests
    BY DEF IndInv, SemaphoreHeld, LostLate, TypeOK
  <1>a. Nobody \notin Requests
    BY ActorsAssumption
  <1>b. \A q \in Requests : pc[q] # "new" => cmd'[q] = cmd[q]
    BY CommandKept
  <1>1. CASE UNCHANGED vars
    BY <1>0, <1>1 DEF SemaphoreHeld, Alive, vars, stateVars
  <1>2. ASSUME NEW r \in Requests, Inside(r) PROVE SemaphoreHeld'
    <2> USE DEF TypeOK, Actors, Goto
    <2>0. r \in Actors /\ r # Shutdown /\ Nobody \notin Requests
      BY ActorsAssumption
    <2>1. Alive /\ \A q \in Requests : q # r => pc'[q] = pc[q]
      BY <1>2, InsideStep
    <2>2. CASE CheckState(r)
      <3>1. pc[r] = "check" /\ stateSem = Nobody /\ semLost' = semLost /\ semLost = Nobody
        BY <1>0, <2>0, <2>1, <2>2 DEF CheckState
      <3>2. \/ stateSem' = r /\ pc'[r] = "set"
            \/ stateSem' = Nobody /\ pc'[r] = "except"
        BY <1>0, <2>0, <2>2 DEF CheckState
      <3>3. QED BY <1>0, <2>0, <2>1, <3>1, <3>2 DEF SemaphoreHeld
    <2>3. CASE SetState(r)
      <3>1. stateSem' = Nobody /\ pc'[r] # "set" /\ stateSem = r /\ semLost' = semLost
        BY <1>0, <2>0, <2>1, <2>3 DEF SetState, Body
      <3>2. semLost = Nobody
        BY <1>0, <2>1, <2>3, <3>1 DEF SetState
      <3>3. QED BY <1>0, <2>0, <2>1, <3>1, <3>2 DEF SemaphoreHeld
    <2>4. CASE SetStateFails(r)
      <3>1. stateSem' = stateSem /\ pc'[r] = "except" /\ stateSem = r /\ semLost' = r /\ WritesState(cmd[r]) /\ cmd' = cmd
        BY <1>0, <2>0, <2>1, <2>4 DEF SetStateFails
      <3>2. semLost = Nobody
        BY <1>0, <2>1, <2>4, <3>1 DEF SetStateFails
      <3>3. QED BY <1>0, <2>0, <2>1, <3>1, <3>2 DEF SemaphoreHeld
    <2>5. CASE ~CheckState(r) /\ ~SetState(r) /\ ~SetStateFails(r)
      <3>1. stateSem' = stateSem /\ semLost' = semLost /\ pc[r] # "set" /\ pc'[r] # "set"
        <4>1. CASE OfflineDisks(r)
          BY <1>0, <2>0, <4>1 DEF OfflineDisks, stateVars
        <4>2. CASE ~OfflineDisks(r)
          BY <1>0, <1>2, <2>0, <2>5, <4>2 DEF Inside, Dispatch, PlainCommand, Retrieve, CRetrieve,
             ArchiveShortcut, ArchiveStage, ArchiveFinish, ArchiveFails, OfflineTasks,
             OfflineStaging, OnlineDisks, OnlineSpace, OnlineStaging, OnlineTasks, OnlineState,
             Exit, Reply, BadRequest, Except, stateVars
        <4>3. QED BY <4>1, <4>2
      <3>2. QED BY <1>0, <1>b, <2>1, <3>1 DEF SemaphoreHeld
    <2>6. QED BY <2>2, <2>3, <2>4, <2>5
  <1>3. ASSUME NEW r \in Requests, Border(r) PROVE SemaphoreHeld'
    <2>1. /\ Alive /\ semLost' = semLost /\ stateSem' = stateSem
          /\ pc[r] # "set" /\ pc'[r] # "set" /\ \A q \in Requests : q # r => pc'[q] = pc[q]
      BY <1>3, BorderStep DEF stateVars
    <2>2. QED BY <1>0, <1>b, <2>1 DEF SemaphoreHeld
  <1>4. CASE ShutdownStep \/ ExitSignal \/ TaskEnds
    <2>1. /\ Alive /\ semLost' = semLost /\ stateSem' = stateSem
          /\ \A q \in Requests : pc'[q] = pc[q]
      BY <1>4, OutsideStep DEF stateVars
    <2>2. QED BY <1>0, <1>b, <2>1 DEF SemaphoreHeld
  <1>5. QED BY <1>1, <1>2, <1>3, <1>4, NextCases

\* The request that kept the semaphore has been accepted.
LEMMA LostStep == IndInv /\ [Next]_vars => LostLate'
  <1> SUFFICES ASSUME IndInv, [Next]_vars, semLost' # Nobody PROVE pc'[semLost'] # "new"
    BY DEF LostLate
  <1>0. TypeOK /\ LostLate /\ Nobody \notin Requests
    BY ActorsAssumption DEF IndInv
  <1>1. CASE UNCHANGED vars
    BY <1>0, <1>1 DEF LostLate, vars, stateVars
  <1>2. ASSUME NEW r \in Requests, Inside(r) PROVE pc'[semLost'] # "new"
    <2>1. \A q \in Requests : q # r => pc'[q] = pc[q]
      BY <1>2, InsideStep
    <2>2. pc'[r] # "new"
      BY <1>0, <1>2, InsideStep DEF Inside, Dispatch, CheckState, SetState, SetStateFails, Body, PlainCommand, Retrieve,
       CRetrieve, ArchiveShortcut, ArchiveStage, ArchiveFinish, ArchiveFails, OfflineTasks, OfflineStaging,
       OfflineDisks, OnlineDisks, OnlineSpace, OnlineStaging, OnlineTasks, OnlineState, Exit,
       Reply, BadRequest, Except, TypeOK, Actors, Goto
    <2>3. semLost' \in {r, semLost}
      BY <1>2 DEF Inside, Dispatch, CheckState, SetState, SetStateFails, PlainCommand, Retrieve,
       CRetrieve, ArchiveShortcut, ArchiveStage, ArchiveFinish, ArchiveFails, OfflineTasks, OfflineStaging,
       OfflineDisks, OnlineDisks, OnlineSpace, OnlineStaging, OnlineTasks, OnlineState, Exit,
       Reply, BadRequest, Except, stateVars
    <2>4. QED BY <1>0, <2>1, <2>2, <2>3 DEF LostLate, TypeOK
  <1>3. ASSUME NEW r \in Requests, Border(r) PROVE pc'[semLost'] # "new"
    BY <1>0, <1>3, BorderStep DEF LostLate, TypeOK, stateVars
  <1>4. CASE ShutdownStep \/ ExitSignal \/ TaskEnds
    <2>1. semLost' = semLost /\ \A q \in Requests : pc'[q] \in {pc[q], "gone"}
      BY <1>4, OutsideStep DEF stateVars
    <2>2. QED BY <1>0, <2>1 DEF LostLate, TypeOK
  <1>5. QED BY <1>1, <1>2, <1>3, <1>4, NextCases

\* What one request does to the count: nothing, IDLE, or BUSY when it is let through.
LEMMA InsideBusy ==
    ASSUME IndInv, NEW r \in Requests, Inside(r)
    PROVE  \/ UNCHANGED <<subState, busyCount, holders>>
           \/ SetIdle(r)
           \/ SetState(r) /\ SetBusy(r)
  BY DEF Inside, Dispatch, CheckState, SetState, SetStateFails, PlainCommand, Retrieve, CRetrieve,
     ArchiveShortcut, ArchiveStage, ArchiveFinish, ArchiveFails, OfflineTasks, OfflineStaging,
     OfflineDisks, OnlineDisks, OnlineSpace, OnlineStaging, OnlineTasks, OnlineState, Exit,
     Reply, BadRequest, Except, Answers, stateVars

\* busyCount stays at or below the number of requests that set BUSY, although Except
\* asks for IDLE for every request.
LEMMA BusyStep == IndInv /\ [Next]_vars => BusyBacked'
  <1> SUFFICES ASSUME IndInv, [Next]_vars PROVE BusyBacked'
    OBVIOUS
  <1>0. TypeOK /\ BusyBacked /\ HoldersLate
    BY DEF IndInv
  <1>1. IsFiniteSet(holders) /\ Cardinality(holders) \in Nat
    BY <1>0, RequestsAssumption, FS_Subset, FS_CardinalityType DEF TypeOK
  <1>2. CASE UNCHANGED <<subState, busyCount, holders>>
    BY <1>0, <1>2 DEF BusyBacked
  <1>3. ASSUME NEW r \in Requests, SetIdle(r) PROVE BusyBacked'
    <2>1. CASE r \in holders
      <3>1. Cardinality(holders \ {r}) = Cardinality(holders) - 1
        BY <1>1, <2>1, FS_RemoveElement
      <3>2. Cardinality(holders) # 0
        BY <1>1, <2>1, FS_EmptySet
      <3>3. QED BY <1>0, <1>1, <1>3, <3>1, <3>2 DEF BusyBacked, SetIdle, TypeOK
    <2>2. CASE r \notin holders
      <3>1. holders' = holders
        BY <1>3, <2>2 DEF SetIdle
      <3>2. busyCount' \in Nat /\ busyCount' <= busyCount /\ (subState' = "IDLE" <=> busyCount' = 0)
        BY <1>0, <1>3 DEF SetIdle, TypeOK
      <3>3. QED BY <1>0, <1>1, <3>1, <3>2 DEF BusyBacked, TypeOK
    <2>3. QED BY <2>1, <2>2
  <1>4. ASSUME NEW r \in Requests, SetState(r), SetBusy(r) PROVE BusyBacked'
    <2>1. r \notin holders
      BY <1>0, <1>4 DEF SetState, HoldersLate, Early
    <2>2. Cardinality(holders \cup {r}) = Cardinality(holders) + 1
      BY <1>1, <2>1, FS_AddElement
    <2>3. QED BY <1>0, <1>1, <1>4, <2>2 DEF BusyBacked, SetBusy, TypeOK
  <1>5. ASSUME NEW r \in Requests, Inside(r) PROVE BusyBacked'
    BY <1>2, <1>3, <1>4, <1>5, InsideBusy
  <1>6. ASSUME NEW r \in Requests, Border(r) PROVE BusyBacked'
    BY <1>2, <1>6, BorderStep DEF stateVars
  <1>7. CASE ShutdownStep \/ ExitSignal \/ TaskEnds
    BY <1>2, <1>7, OutsideStep DEF stateVars
  <1>8. CASE UNCHANGED vars
    BY <1>2, <1>8 DEF vars, stateVars
  <1>9. QED BY <1>5, <1>6, <1>7, <1>8, NextCases

\* Only a request that was let through by checkSetState holds BUSY.
LEMMA HoldersStep == IndInv /\ [Next]_vars => HoldersLate'
  <1> SUFFICES ASSUME IndInv, [Next]_vars PROVE HoldersLate'
    OBVIOUS
  <1>0. TypeOK /\ HoldersLate
    BY DEF IndInv
  <1>1. CASE UNCHANGED vars
    BY <1>0, <1>1 DEF HoldersLate, vars, stateVars
  <1>2. ASSUME NEW r \in Requests, Inside(r) PROVE HoldersLate'
    <2> USE DEF TypeOK, Actors, Goto
    <2>0. r \in Actors /\ r # Shutdown
      BY ActorsAssumption
    <2>1. \A q \in Requests : q # r => pc'[q] = pc[q]
      BY <1>2, InsideStep
    <2>2. \A q \in holders' : q # r => q \in holders
      BY <1>2, InsideBusy DEF SetIdle, SetBusy
    <2>3. r \in holders' => pc'[r] \notin Early
      <3>1. CASE Dispatch(r) \/ CheckState(r)
        BY <1>0, <3>1 DEF Dispatch, CheckState, HoldersLate, Early, stateVars
      <3>2. CASE OfflineDisks(r)
        BY <1>0, <2>0, <3>2 DEF OfflineDisks, Early
      <3>3. CASE SetState(r)
        BY <1>0, <2>0, <3>3 DEF SetState, Body, Early
      <3>6. CASE SetStateFails(r)
        BY <1>0, <2>0, <3>6 DEF SetStateFails, Early
      <3>4. CASE ~Dispatch(r) /\ ~CheckState(r) /\ ~OfflineDisks(r) /\ ~SetState(r) /\ ~SetStateFails(r)
        BY <1>0, <1>2, <2>0, <3>4 DEF Inside, PlainCommand, Retrieve, CRetrieve,
           ArchiveShortcut, ArchiveStage, ArchiveFinish, ArchiveFails, OfflineTasks,
           OfflineStaging, OnlineDisks, OnlineSpace, OnlineStaging, OnlineTasks, OnlineState,
           Exit, Reply, BadRequest, Except, Answers, Early
      <3>5. QED BY <3>1, <3>2, <3>3, <3>4, <3>6
    <2>4. QED BY <1>0, <2>1, <2>2, <2>3 DEF HoldersLate
  <1>3. ASSUME NEW r \in Requests, Border(r) PROVE HoldersLate'
    <2>1. pc[r] \in {"new", "queued", "picked", "finally"} /\ holders' = holders
      BY <1>3, BorderStep DEF stateVars
    <2>2. r \in holders => pc'[r] \in {"done", "leaked"}
      <3>1. CASE Finally(r) \/ FinallyFails(r)
        BY <1>0, <3>1 DEF Finally, FinallyFails, Goto, TypeOK, Actors
      <3>2. CASE ~Finally(r) /\ ~FinallyFails(r)
        BY <1>0, <1>3, <3>2 DEF Border, ProcessRequest, PickUp, ParseFails, Enter, HoldersLate, Early
      <3>3. QED BY <3>1, <3>2
    <2>3. QED BY <1>0, <1>3, <2>1, <2>2, BorderStep DEF HoldersLate, Early, TypeOK
  <1>4. CASE ShutdownStep \/ ExitSignal \/ TaskEnds
    BY <1>0, <1>4, OutsideStep DEF HoldersLate, Early, stateVars, TypeOK
  <1>5. QED BY <1>1, <1>2, <1>3, <1>4, NextCases

-----------------------------------------------------------------------------
(* The theorems.                                                           *)

\* The invariant is inductive: the counters, the flags, the semaphore and the busy
\* count of the server stay consistent under every interleaving and every failure.
THEOREM Invariance == Spec => []IndInv
  <1>1. Init => IndInv
    BY InitInv
  <1>2. IndInv /\ [Next]_vars => IndInv'
    BY TypeStep, GoneStep, CountStep, SemStep, LostStep, BusyStep, HoldersStep DEF IndInv
  <1>3. QED BY <1>1, <1>2, PTL DEF Spec

\* The state keeps its shape; in particular serving_count and __busyCount, which
\* are decremented in exception handlers and finally clauses, never go negative.
THEOREM TypeCorrect == Spec => []TypeOK
  <1>1. IndInv => TypeOK
    BY DEF IndInv
  <1>2. QED BY <1>1, Invariance, PTL

\* reqCallBack's serving_count is the number of requests inside it and of those a
\* failing request DB threw out, bounded by MaxSimReqs without the latter, and the
\* data check is allowed exactly while it is zero.
THEOREM ServingCorrect == Spec => []ServingExact
  <1>1. IndInv => ServingExact
    BY DEF IndInv
  <1>2. QED BY <1>1, Invariance, PTL

\* setSubState never counts more BUSY requests than there are.
THEOREM BusyCorrect == Spec => []BusyBacked
  <1>1. IndInv => BusyBacked
    BY DEF IndInv
  <1>2. QED BY <1>1, Invariance, PTL

\* checkSetState holds the state semaphore exactly between its check and its set, and
\* keeps it only when an OFFLINE cannot write the State to the DB.
THEOREM SemaphoreCorrect == Spec => []SemaphoreHeld
  <1>1. IndInv => SemaphoreHeld
    BY DEF IndInv
  <1>2. QED BY <1>1, Invariance, PTL

-----------------------------------------------------------------------------
(* What checkSetState verified holds until it sets.                        *)

\* A request that passed the check and did not set yet still finds what it checked.
CheckHolds ==
    \A r \in Requests : pc[r] = "set" =>
        /\ cmd[r] \notin {"ONLINE", "EXIT"} => state = "ONLINE"
        /\ cmd[r] \in {"OFFLINE", "INIT"} => subState = "IDLE"

\* While a request is between check and set no other one sets.
LEMMA OneSets ==
    ASSUME IndInv, NEW r \in Requests, NEW q \in Requests, pc[r] = "set", pc[q] = "set"
    PROVE  r = q
  <1>1. Alive
    BY DEF IndInv, GoneTogether
  <1>2. QED BY <1>1 DEF IndInv, SemaphoreHeld

\* The State and Sub-State a request found allowed stay allowed until it sets.
LEMMA CheckStep == IndInv /\ CheckHolds /\ [Next]_vars => CheckHolds'
  <1> SUFFICES ASSUME IndInv, CheckHolds, [Next]_vars PROVE CheckHolds'
    OBVIOUS
  <1>0. TypeOK /\ BusyBacked
    BY DEF IndInv
  <1>1. CASE UNCHANGED vars
    BY <1>1 DEF CheckHolds, vars, stateVars
  <1>2. ASSUME NEW r \in Requests, Inside(r) PROVE CheckHolds'
    <2> SUFFICES ASSUME NEW q \in Requests, pc'[q] = "set"
                 PROVE  /\ cmd'[q] \notin {"ONLINE", "EXIT"} => state' = "ONLINE"
                        /\ cmd'[q] \in {"OFFLINE", "INIT"} => subState' = "IDLE"
      BY DEF CheckHolds
    <2>0. r \in Actors /\ r # Shutdown /\ q \in Actors /\ q # Shutdown
      BY ActorsAssumption DEF Actors
    <2>1. cmd' = cmd
      BY <1>2 DEF Inside, Dispatch, CheckState, SetState, SetStateFails, PlainCommand, Retrieve, CRetrieve,
       ArchiveShortcut, ArchiveStage, ArchiveFinish, ArchiveFails, OfflineTasks, OfflineStaging,
       OfflineDisks, OnlineDisks, OnlineSpace, OnlineStaging, OnlineTasks, OnlineState, Exit,
       Reply, BadRequest, Except, Answers
    <2>2. CASE CheckState(r)
      <3>1. state' = state /\ subState' = subState
        BY <2>2 DEF CheckState
      <3>2. CASE q = r
        <4>1. StateAllowed(cmd[r])
          BY <1>0, <2>0, <2>2, <3>2 DEF CheckState, Goto, TypeOK
        <4>2. QED
          BY <2>1, <3>1, <3>2, <4>1 DEF StateAllowed, AllowedStates, AllowedSubStates
      <3>3. CASE q # r
        BY <1>2, <2>1, <3>1, <3>3, InsideStep DEF CheckHolds
      <3>4. QED BY <3>2, <3>3
    <2>3. CASE SetState(r) \/ SetStateFails(r)
      <3>1. pc'[r] # "set"
        BY <1>0, <2>0, <2>3 DEF SetState, SetStateFails, Goto, Body, TypeOK
      <3>2. pc[q] = "set" /\ pc[r] = "set" /\ q # r
        BY <1>2, <2>3, <3>1, InsideStep DEF SetState, SetStateFails
      <3>3. QED BY <3>2, OneSets
    <2>4. CASE ~CheckState(r) /\ ~SetState(r) /\ ~SetStateFails(r)
      <3>1. pc'[r] # "set"
        <4>1. CASE OfflineDisks(r)
          BY <1>0, <2>0, <4>1 DEF OfflineDisks, Goto, TypeOK
        <4>2. CASE ~OfflineDisks(r)
          BY <1>0, <1>2, <2>0, <2>4, <4>2 DEF Inside, Dispatch, PlainCommand, Retrieve, CRetrieve,
             ArchiveShortcut, ArchiveStage, ArchiveFinish, ArchiveFails, OfflineTasks,
             OfflineStaging, OnlineDisks, OnlineSpace, OnlineStaging, OnlineTasks, OnlineState,
             Exit, Reply, BadRequest, Except, Answers, Goto, TypeOK
        <4>3. QED BY <4>1, <4>2
      <3>2. pc[q] = "set"
        BY <1>2, <3>1, InsideStep
      <3>3. state = "ONLINE" => state' = "ONLINE"
        BY <1>2, <2>4 DEF Inside, Dispatch, PlainCommand, Retrieve, CRetrieve,
           ArchiveShortcut, ArchiveStage, ArchiveFinish, ArchiveFails, OfflineTasks,
           OfflineStaging, OfflineDisks, OnlineDisks, OnlineSpace, OnlineStaging, OnlineTasks,
           OnlineState, Exit, Reply, BadRequest, Except, Answers, stateVars
      <3>4. subState = "IDLE" => subState' = "IDLE"
        BY <1>0, <1>2, <2>4, InsideBusy DEF SetIdle, BusyBacked, TypeOK
      <3>5. QED BY <2>1, <3>2, <3>3, <3>4 DEF CheckHolds
    <2>5. QED BY <2>2, <2>3, <2>4
  <1>3. ASSUME NEW r \in Requests, Border(r) PROVE CheckHolds'
    <2>1. \A q \in Requests : q # r => cmd'[q] = cmd[q]
      BY <1>0, <1>3 DEF Border, ProcessRequest, PickUp, ParseFails, Enter, Finally, FinallyFails, TypeOK
    <2>2. QED BY <1>3, <2>1, BorderStep DEF CheckHolds, stateVars
  <1>4. CASE ShutdownStep \/ ExitSignal \/ TaskEnds
    <2>1. cmd' = cmd
      BY <1>4 DEF ShutdownStep, ExitSignal, TaskEnds, StopServer, BaseExit, ProcessEnds,
         OfflineTasks, OfflineStaging, OfflineDisks
    <2>2. QED BY <1>4, <2>1, OutsideStep DEF CheckHolds, stateVars
  <1>5. QED BY <1>1, <1>2, <1>3, <1>4, NextCases

\* A plain OFFLINE finds the server IDLE and a request becomes BUSY on an ONLINE
\* server only, at the instant the State or the count really changes.
THEOREM CheckedSetCorrect == Spec => CheckedSet
  <1> DEFINE A == /\ (state = "ONLINE" /\ state' = "OFFLINE") =>
                       \E r \in Requests : /\ pc[r] = "set"
                                           /\ cmd[r] = "OFFLINE_FORCE" \/ subState = "IDLE"
                  /\ busyCount' > busyCount => state = "ONLINE"
  <1>1. Init => CheckHolds
    BY DEF Init, CheckHolds, Actors
  <1>2. IndInv /\ CheckHolds /\ [Next]_vars => [A]_vars
    <2> SUFFICES ASSUME IndInv, CheckHolds, Next PROVE A
      OBVIOUS
    <2>0. TypeOK
      BY DEF IndInv
    <2>1. CASE state' \in {state, "ONLINE"} /\ ~(busyCount' > busyCount)
      BY <2>0, <2>1 DEF TypeOK
    <2>2. ASSUME NEW r \in Requests, SetState(r) PROVE A
      <3>1. pc[r] = "set" /\ state' = NewState(cmd[r])
        BY <2>2 DEF SetState
      <3>2. (state = "ONLINE" /\ state' = "OFFLINE") => cmd[r] \in {"OFFLINE", "OFFLINE_FORCE"}
        BY <3>1 DEF NewState
      <3>3. busyCount' > busyCount => cmd[r] \in BusyCommands
        BY <2>0, <2>2 DEF SetState, TypeOK
      <3>4. QED BY <3>1, <3>2, <3>3 DEF CheckHolds, BusyCommands
    <2>7. ASSUME NEW r \in Requests, SetStateFails(r) PROVE A
      <3>1. pc[r] = "set" /\ cmd[r] \in {"OFFLINE", "OFFLINE_FORCE"} /\ busyCount' = busyCount
        BY <2>7 DEF SetStateFails, WritesState
      <3>2. QED BY <2>0, <3>1 DEF CheckHolds, TypeOK
    <2>3. ASSUME NEW r \in Requests, Inside(r), ~SetState(r), ~SetStateFails(r) PROVE A
      <3>1. state' \in {state, "ONLINE"}
        BY <2>3 DEF Inside, Dispatch, CheckState, PlainCommand, Retrieve, CRetrieve,
           ArchiveShortcut, ArchiveStage, ArchiveFinish, ArchiveFails, OfflineTasks,
           OfflineStaging, OfflineDisks, OnlineDisks, OnlineSpace, OnlineStaging, OnlineTasks,
           OnlineState, Exit, Reply, BadRequest, Except, Answers, stateVars
      <3>2. ~(busyCount' > busyCount)
        BY <2>0, <2>3, InsideBusy DEF SetIdle, TypeOK
      <3>3. QED BY <2>1, <3>1, <3>2
    <2>4. ASSUME NEW r \in Requests, Border(r) PROVE A
      BY <2>0, <2>1, <2>4, BorderStep DEF stateVars, TypeOK
    <2>5. CASE ShutdownStep \/ ExitSignal \/ TaskEnds
      BY <2>0, <2>1, <2>5, OutsideStep DEF stateVars, TypeOK
    <2>6. QED BY <2>2, <2>3, <2>4, <2>5, <2>7, NextCases
  <1>3. Spec => []CheckHolds
    BY <1>1, CheckStep, Invariance, PTL DEF Spec
  <1>4. QED BY <1>2, <1>3, Invariance, PTL DEF Spec, CheckedSet

-----------------------------------------------------------------------------
(* The answer to the client.                                               *)

\* A request that reached the finally clause or was turned away has its answer, and
\* a request that has it does nothing more than handle an exception and leave.
Answered ==
    \A r \in Requests :
        /\ pc[r] \in {"rejected", "finally", "done", "leaked"} => reply[r] # "none"
        /\ reply[r] # "none" => pc[r] \in {"rejected", "except", "finally", "done", "leaked", "gone"}

\* An answer, or the broken connection that took its place, is never replaced:
\* reqCallBack sends an error only if the command did not reply yet (reply_sent).
AnsweredOnce == [][\A r \in Requests : reply[r] # "none" => reply'[r] = reply[r]]_vars

\* What a step of a command's handling does with the answer: it waits, leaves for
\* the finally clause with one, or fails with the one it has.
LEMMA InsideReply ==
    ASSUME TypeOK, Answered, NEW r \in Requests, Inside(r)
    PROVE  /\ \A q \in Requests : q # r => reply'[q] = reply[q]
           /\ reply[r] # "none" => reply'[r] = reply[r]
           /\ pc'[r] = "finally" => reply'[r] # "none"
           /\ pc'[r] \notin {"rejected", "done", "leaked"}
           /\ reply'[r] # "none" => pc'[r] \in {"except", "finally"}
  <1> USE DEF TypeOK, Actors, Goto, Answered
  <1>0. r # Shutdown /\ r \in Actors
    BY ActorsAssumption
  <1>1. CASE OfflineDisks(r)
    BY <1>0, <1>1 DEF OfflineDisks
  <1>2. CASE Exit(r)
    BY <1>0, <1>2 DEF Exit
  <1>3. CASE Except(r)
    BY <1>0, <1>3 DEF Except, Answers
  <1>4. CASE Retrieve(r) \/ CRetrieve(r) \/ ArchiveShortcut(r) \/ Reply(r) \/ BadRequest(r)
    BY <1>0, <1>4 DEF Retrieve, CRetrieve, ArchiveShortcut, Reply, BadRequest, Answers
  <1>5. CASE ArchiveFails(r)
    BY <1>0, <1>5 DEF ArchiveFails
  <1>6. CASE Dispatch(r)
    BY <1>0, <1>6 DEF Dispatch, Answers
  <1>7. CASE \/ CheckState(r) \/ SetState(r) \/ SetStateFails(r) \/ PlainCommand(r) \/ ArchiveStage(r)
             \/ ArchiveFinish(r) \/ OfflineTasks(r) \/ OfflineStaging(r) \/ OnlineDisks(r)
             \/ OnlineSpace(r) \/ OnlineStaging(r) \/ OnlineTasks(r) \/ OnlineState(r)
    BY <1>0, <1>7 DEF CheckState, SetState, SetStateFails, Body, PlainCommand, ArchiveStage, ArchiveFinish,
       OfflineTasks, OfflineStaging, OnlineDisks, OnlineSpace, OnlineStaging, OnlineTasks, OnlineState
  <1>8. QED BY <1>1, <1>2, <1>3, <1>4, <1>5, <1>6, <1>7 DEF Inside

\* At the border an answer is given with a rejection or a parse error only, and the
\* finally clause leaves it alone.
LEMMA BorderReply ==
    ASSUME TypeOK, Answered, NEW r \in Requests, Border(r)
    PROVE  /\ \A q \in Requests : q # r => reply'[q] = reply[q]
           /\ reply[r] # "none" => reply'[r] = reply[r]
           /\ pc'[r] # "finally"
           /\ reply'[r] # "none" <=> pc'[r] \in {"rejected", "done", "leaked"}
  <1> USE DEF TypeOK, Actors, Goto, Answered
  <1>1. CASE ProcessRequest(r)
    BY <1>1 DEF ProcessRequest, Answers
  <1>2. CASE PickUp(r) \/ ParseFails(r) \/ Enter(r) \/ Finally(r) \/ FinallyFails(r)
    BY <1>2 DEF PickUp, ParseFails, Enter, Finally, FinallyFails, Answers
  <1>3. QED BY <1>1, <1>2 DEF Border

\* Neither the Shutdown thread nor a signal nor a task answers for a request.
LEMMA OutsideReply ==
    ASSUME ShutdownStep \/ ExitSignal \/ TaskEnds
    PROVE  reply' = reply
  BY DEF ShutdownStep, ExitSignal, TaskEnds, StopServer, BaseExit, ProcessEnds,
     OfflineTasks, OfflineStaging, OfflineDisks

\* Every step keeps the two facts, and every answer.
LEMMA AnsweredStep ==
    IndInv /\ Answered /\ [Next]_vars =>
        Answered' /\ [\A r \in Requests : reply[r] # "none" => reply'[r] = reply[r]]_vars
  <1> SUFFICES ASSUME IndInv, Answered, [Next]_vars
               PROVE  Answered' /\ \A r \in Requests : reply[r] # "none" => reply'[r] = reply[r]
    OBVIOUS
  <1>0. TypeOK
    BY DEF IndInv
  <1>1. CASE UNCHANGED vars
    BY <1>1 DEF Answered, vars
  <1>2. CASE \E r \in Requests : Inside(r)
    <2>1. PICK r \in Requests : Inside(r)
      BY <1>2
    <2>2. \A q \in Requests : q # r => pc'[q] = pc[q]
      BY <2>1, InsideStep
    <2>3. /\ \A q \in Requests : q # r => reply'[q] = reply[q]
          /\ reply[r] # "none" => reply'[r] = reply[r]
          /\ pc'[r] = "finally" => reply'[r] # "none"
          /\ pc'[r] \notin {"rejected", "done", "leaked"}
          /\ reply'[r] # "none" => pc'[r] \in {"except", "finally"}
      BY <1>0, <2>1, InsideReply
    <2>4. QED BY <2>2, <2>3 DEF Answered
  <1>3. CASE \E r \in Requests : Border(r)
    <2>1. PICK r \in Requests : Border(r)
      BY <1>3
    <2>2. \A q \in Requests : q # r => pc'[q] = pc[q]
      BY <2>1, BorderStep
    <2>3. /\ \A q \in Requests : q # r => reply'[q] = reply[q]
          /\ reply[r] # "none" => reply'[r] = reply[r]
          /\ pc'[r] # "finally"
          /\ reply'[r] # "none" <=> pc'[r] \in {"rejected", "done", "leaked"}
      BY <1>0, <2>1, BorderReply
    <2>4. QED BY <2>2, <2>3 DEF Answered
  <1>4. CASE ShutdownStep \/ ExitSignal \/ TaskEnds
    <2>1. reply' = reply
      BY <1>4, OutsideReply
    <2>2. \A q \in Requests : pc'[q] \in {pc[q], "gone"}
      BY <1>4, OutsideStep
    <2>3. QED BY <2>1, <2>2 DEF Answered
  <1>5. QED BY <1>1, <1>2, <1>3, <1>4, NextCases

\* A request that ends has its answer or its client had already gone away, unless it
\* could not be recorded in the request DB.
THEOREM AnsweredCorrect == Spec => []AnsweredWhenDone
  <1>1. Init => Answered
    BY DEF Init, Answered, Actors
  <1>2. Answered => AnsweredWhenDone
    BY DEF Answered, AnsweredWhenDone
  <1>3. QED BY <1>1, <1>2, AnsweredStep, Invariance, PTL DEF Spec

\* No client gets two answers, whichever of a command, reqCallBack and its
\* exception handler comes first.
THEOREM AnsweredOnceCorrect == Spec => AnsweredOnce
  <1>1. Init => Answered
    BY DEF Init, Answered, Actors
  <1>2. Spec => []Answered
    BY <1>1, AnsweredStep, Invariance, PTL DEF Spec
  <1>3. QED BY <1>2, AnsweredStep, Invariance, PTL DEF Spec, AnsweredOnce
=============================================================================
