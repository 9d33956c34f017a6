--------------------------- MODULE ProcessProofs ----------------------------
(***************************************************************************)
(* Proofs about the processes of a host and its disks: the Janitor         *)
(* process, the notifications that it and the server send, the start and   *)
(* stop of the servers, and the disks that hosts find when they go Online, *)
(* for any number of requests, log files, messages, time-outs, cycles,     *)
(* server processes, ngamsDaemon commands, disks, hosts, failures and      *)
(* crashes.                                                                *)
(***************************************************************************)
EXTENDS Janitor, Notification, Startup, Disks, FiniteSetTheorems, WellFoundedInduction, TLAPS

-----------------------------------------------------------------------------
(* The notifications.                                                      *)

NfBuffers == [NfKinds -> [known : BOOLEAN, held : SUBSET (1 .. NfMessages)]]

\* The shape of the state.
NfType ==
    /\ nfBuf \in [NfProcs -> NfBuffers]
    /\ nfFile \in [buf : NfBuffers, by : NfProcs \cup {"nobody"}]
    /\ nfPend \in [NfProcs -> SUBSET (1 .. NfMessages)]
    /\ nfUp \in {{"server"}, {"server", "janitor"}}
    /\ nfNext \in 1 .. NfMessages + 1
    /\ nfSent \in [1 .. NfMessages -> Nat]
    /\ nfOdd \in [lost : SUBSET (1 .. NfMessages), both : SUBSET (1 .. NfMessages)]

\* A Janitor that does not run has no buffer.
NfDownEmpty == "janitor" \notin nfUp => nfBuf["janitor"] = NfEmpty /\ nfPend["janitor"] = {}

\* A message is anywhere only after it was made, and under one kind in each buffer.
NfMade ==
    \A m \in 1 .. NfMessages :
        (\/ nfSent[m] > 0
         \/ \E p \in NfProcs : m \in nfPend[p] \cup NfHeld(nfBuf[p])
         \/ m \in NfHeld(nfFile.buf)) => m < nfNext

OneKind(buf) == \A i, j \in NfKinds : buf[i].held \cap buf[j].held # {} => i = j
NfOneKind == OneKind(nfFile.buf) /\ \A p \in NfProcs : OneKind(nfBuf[p])

\* What the server wrote is what it has, until it is started again.
NfFileOfServer == nfFile.by = "server" => nfBuf["server"] \in {NfEmpty, nfFile.buf}

\* A message is accounted for without the file.
Accounted(m) ==
    \/ nfSent[m] > 0
    \/ m \in nfOdd.lost
    \/ \E p \in nfUp : m \in nfPend[p] \cup NfHeld(nfBuf[p])

\* What only the file has is not written over: a process that has written anything, or was
\* forked from one that has, knows what the file had.
NfFileRead ==
    (\E p \in nfUp : nfBuf[p] # NfEmpty) => \A m \in NfHeld(nfFile.buf) : Accounted(m)

\* A message that never was in both buffers is in one place.
NfOnePlace ==
    \A m \in 1 .. NfMessages : m \notin nfOdd.both =>
        /\ nfSent[m] <= 1
        /\ m \in NfHeld(nfFile.buf) => nfSent[m] = 0
        /\ \A p \in NfProcs :
            /\ m \in nfPend[p] \cup NfHeld(nfBuf[p]) => nfSent[m] = 0
            /\ m \in nfPend[p] => m \notin NfHeld(nfFile.buf)
            /\ \A q \in NfProcs :
                /\ m \in nfPend[p] => m \notin NfHeld(nfBuf[q])
                /\ m \in nfPend[p] \cap nfPend[q] => p = q
                /\ m \in NfHeld(nfBuf[p]) \cap NfHeld(nfBuf[q]) => p = q

NfInv ==
    /\ NfType /\ NfDownEmpty /\ NfMade /\ NfOneKind /\ NfFileOfServer /\ NfFileRead
    /\ MessagesKept /\ NfOnePlace

\* What notify and checkNotifRetBuf do: the buffer becomes b, in memory and in the file, the
\* messages out are about to be sent, and new is the message made, if any.
Writes(p, b, out, new) ==
    /\ p \in nfUp /\ nfPend[p] = {}
    /\ b \in NfBuffers /\ b # NfEmpty /\ OneKind(b)
    /\ out \in SUBSET (1 .. NfMessages)
    /\ NfHeld(b) \cup out = NfHeld(Buffer(p)) \cup new
    /\ NfHeld(b) \cap out = {}
    /\ \/ new = {} /\ nfNext' = nfNext
       \/ new = {nfNext} /\ nfNext' = nfNext + 1 /\ nfNext \in 1 .. NfMessages
    /\ nfBuf' = [nfBuf EXCEPT ![p] = b]
    /\ nfFile' = [buf |-> b, by |-> p]
    /\ nfPend' = [nfPend EXCEPT ![p] = out]
    /\ nfOdd' = [nfOdd EXCEPT !.both = @ \cup InBoth(p, Buffer(p))]
    /\ UNCHANGED <<nfUp, nfSent>>

\* The messages of a buffer.
LEMMA HeldOf ==
    ASSUME NEW buf, NEW m
    PROVE  m \in NfHeld(buf) <=> \E i \in NfKinds : m \in buf[i].held
  BY DEF NfHeld

\* An empty buffer holds nothing.
LEMMA EmptyHolds ==
    /\ NfEmpty \in NfBuffers
    /\ NfHeld(NfEmpty) = {}
    /\ OneKind(NfEmpty)
  <1>1. \A i \in NfKinds : NfEmpty[i].held = {}
    BY DEF NfEmpty
  <1>2. NfEmpty \in NfBuffers
    BY DEF NfEmpty, NfBuffers
  <1>3. QED BY <1>1, <1>2 DEF OneKind, NfHeld

\* What a process has when it looks at its buffer.
LEMMA BufferSound ==
    ASSUME NfInv, NEW p \in NfProcs
    PROVE  /\ Buffer(p) \in NfBuffers /\ OneKind(Buffer(p))
           /\ NfHeld(nfBuf[p]) \subseteq NfHeld(Buffer(p))
           /\ NfHeld(Buffer(p)) \subseteq 1 .. NfMessages
           /\ \A m \in NfHeld(Buffer(p)) : m < nfNext
  <1>1. Buffer(p) \in NfBuffers /\ OneKind(Buffer(p))
    BY DEF NfInv, NfType, NfOneKind, Buffer
  <1>2. NfHeld(nfBuf[p]) \subseteq NfHeld(Buffer(p))
    BY EmptyHolds DEF Buffer
  <1>3. NfHeld(Buffer(p)) \subseteq 1 .. NfMessages
    BY <1>1 DEF NfBuffers, NfHeld
  <1>4. QED BY <1>1, <1>2, <1>3 DEF NfInv, NfMade, Buffer

\* A buffer from which the messages of a kind were taken, and those messages.
LEMMA TakenHolds ==
    ASSUME NEW buf \in NfBuffers, OneKind(buf), NEW i \in NfKinds
    PROVE  /\ Taken(buf, i) \in NfBuffers /\ Taken(buf, i) # NfEmpty /\ OneKind(Taken(buf, i))
           /\ NfHeld(Taken(buf, i)) \cup buf[i].held = NfHeld(buf)
           /\ NfHeld(Taken(buf, i)) \cap buf[i].held = {}
  <1> DEFINE b == Taken(buf, i)
  <1>1. b \in NfBuffers /\ b[i] = [known |-> TRUE, held |-> {}]
        /\ \A j \in NfKinds : j # i => b[j] = buf[j]
    BY DEF Taken, NfBuffers
  <1>2. b # NfEmpty
    BY <1>1 DEF NfEmpty
  <1>3. \A j \in NfKinds : b[j].held = IF j = i THEN {} ELSE buf[j].held
    BY <1>1
  <1>4. OneKind(b)
    BY <1>3 DEF OneKind
  <1>5. NfHeld(b) \cup buf[i].held = NfHeld(buf)
    BY <1>3 DEF NfHeld
  <1>6. NfHeld(b) \cap buf[i].held = {}
    BY <1>3 DEF NfHeld, OneKind
  <1>7. QED BY <1>1, <1>2, <1>4, <1>5, <1>6

\* checkNotifRetBuf takes the held messages of one kind out of the buffer.
LEMMA CheckWrites ==
    ASSUME NfInv, NEW p \in NfProcs, NEW i \in NfKinds, checkNotifRetBuf(p, i)
    PROVE  \E b, out, new : Writes(p, b, out, new)
  <1>1. Writes(p, Taken(Buffer(p), i), Buffer(p)[i].held, {})
    <2>1. Buffer(p)[i].held \in SUBSET (1 .. NfMessages)
      BY BufferSound DEF NfBuffers
    <2>2. QED BY <2>1, BufferSound, TakenHolds
              DEF checkNotifRetBuf, Writes, NfFree, createObjPickleFile
  <1>2. QED BY <1>1

\* notify keeps the new message, or sends it with the ones that were held.
LEMMA NotifyWrites ==
    ASSUME NfInv, NEW p \in NfProcs, NEW i \in NfKinds, notify(p, i)
    PROVE  \E b, out, new : Writes(p, b, out, new)
  <1> DEFINE buf == Buffer(p)
             kept == [buf EXCEPT ![i].held = @ \cup {nfNext}]
             known == [buf EXCEPT ![i].known = TRUE]
             Becomes(b, out) ==
                /\ nfBuf' = [nfBuf EXCEPT ![p] = b]
                /\ createObjPickleFile(p, b)
                /\ nfPend' = [nfPend EXCEPT ![p] = out]
  <1>1. /\ buf \in NfBuffers /\ OneKind(buf) /\ NfHeld(buf) \subseteq 1 .. NfMessages
        /\ \A m \in NfHeld(buf) : m < nfNext
    BY BufferSound
  <1>2. /\ NfFree(p) /\ nfNext \in 1 .. NfMessages /\ nfNext' = nfNext + 1
        /\ nfOdd' = [nfOdd EXCEPT !.both = @ \cup InBoth(p, buf)]
        /\ UNCHANGED <<nfUp, nfSent>>
    <2>1. nfNext \in 1 .. NfMessages + 1 /\ NfMessages \in Nat
      BY NfConfig DEF NfInv, NfType
    <2>2. QED BY <2>1 DEF notify
  <1>3. \/ ~buf[i].known /\ Becomes(known, {nfNext})
        \/ buf[i].known /\ Becomes(kept, {})
        \/ buf[i].known /\ Becomes(Taken(kept, i), kept[i].held)
    BY DEF notify
  <1>4. /\ kept \in NfBuffers
        /\ kept[i].known = buf[i].known
        /\ \A j \in NfKinds : kept[j].held = IF j = i THEN buf[i].held \cup {nfNext} ELSE buf[j].held
    BY <1>1, <1>2 DEF NfBuffers
  <1>5. /\ known \in NfBuffers /\ known[i].known
        /\ \A j \in NfKinds : known[j].held = buf[j].held
    BY <1>1 DEF NfBuffers
  <1>6. nfNext \notin NfHeld(buf)
    BY <1>1, <1>2
  <1> HIDE DEF buf, kept, known
  <1>7. NfHeld(kept) = NfHeld(buf) \cup {nfNext}
    BY <1>4 DEF NfHeld
  <1>8. OneKind(kept)
    BY <1>1, <1>4, <1>6 DEF OneKind, NfHeld
  <1>9. NfHeld(known) = NfHeld(buf) /\ OneKind(known)
    BY <1>1, <1>5 DEF OneKind, NfHeld
  <1>10. \A x \in NfBuffers : x[i].known => x # NfEmpty
    BY DEF NfEmpty
  <1>11. CASE ~buf[i].known /\ Becomes(known, {nfNext})
    <2>1. Writes(p, known, {nfNext}, {nfNext})
      BY <1>2, <1>5, <1>6, <1>9, <1>10, <1>11 DEF Writes, buf, NfFree, createObjPickleFile
    <2>2. QED BY <2>1
  <1>12. CASE buf[i].known /\ Becomes(kept, {})
    <2>1. Writes(p, kept, {}, {nfNext})
      BY <1>2, <1>4, <1>7, <1>8, <1>10, <1>12 DEF Writes, buf, NfFree, createObjPickleFile
    <2>2. QED BY <2>1
  <1>13. CASE buf[i].known /\ Becomes(Taken(kept, i), kept[i].held)
    <2>1. kept[i].held \in SUBSET (1 .. NfMessages)
      BY <1>4 DEF NfBuffers
    <2>2. Writes(p, Taken(kept, i), kept[i].held, {nfNext})
      BY <1>2, <1>4, <1>7, <1>8, <1>13, <2>1, TakenHolds DEF Writes, buf, NfFree,
         createObjPickleFile
    <2>3. QED BY <2>2
  <1>14. QED BY <1>3, <1>11, <1>12, <1>13

\* Writing the buffer keeps the invariant.
LEMMA WritesKeeps ==
    ASSUME NfInv, NEW p \in NfProcs, NEW b, NEW out, NEW new, Writes(p, b, out, new)
    PROVE  NfInv'
  <1> DEFINE old == NfHeld(Buffer(p))
  <1>0. /\ NfType /\ NfDownEmpty /\ NfMade /\ NfOneKind /\ NfFileOfServer /\ NfFileRead
        /\ MessagesKept /\ NfOnePlace
    BY DEF NfInv
  <1>1. /\ p \in nfUp /\ nfPend[p] = {}
        /\ b \in NfBuffers /\ b # NfEmpty /\ OneKind(b)
        /\ out \in SUBSET (1 .. NfMessages)
        /\ NfHeld(b) \cup out = old \cup new
        /\ NfHeld(b) \cap out = {}
        /\ nfFile' = [buf |-> b, by |-> p]
        /\ UNCHANGED <<nfUp, nfSent>>
    BY DEF Writes
  <1>2. /\ nfNext \in 1 .. NfMessages + 1 /\ nfNext' \in 1 .. NfMessages + 1 /\ NfMessages \in Nat
        /\ new \subseteq 1 .. NfMessages
        /\ \A m \in new : m = nfNext
        /\ \A m \in 1 .. (nfNext' - 1) : m \in 1 .. (nfNext - 1) \/ m \in new
        /\ \A m \in 1 .. NfMessages : m < nfNext \/ m \in new => m < nfNext'
    <2>1. nfNext \in 1 .. NfMessages + 1 /\ NfMessages \in Nat
      BY <1>0, NfConfig DEF NfType
    <2>2. CASE new = {} /\ nfNext' = nfNext
      BY <2>1, <2>2
    <2>3. CASE new = {nfNext} /\ nfNext' = nfNext + 1 /\ nfNext \in 1 .. NfMessages
      BY <2>1, <2>3
    <2>4. QED BY <2>2, <2>3 DEF Writes
  <1>3. \A q \in NfProcs : nfBuf'[q] = IF q = p THEN b ELSE nfBuf[q]
    BY <1>0 DEF Writes, NfType
  <1>4. \A q \in NfProcs : nfPend'[q] = IF q = p THEN out ELSE nfPend[q]
    BY <1>0 DEF Writes, NfType
  <1>5. nfFile'.buf = b /\ nfFile'.by = p
    BY <1>1
  <1>6. /\ nfOdd'.lost = nfOdd.lost /\ nfOdd'.both = nfOdd.both \cup InBoth(p, Buffer(p))
        /\ nfOdd'.both \subseteq 1 .. NfMessages
    <2>1. InBoth(p, Buffer(p)) \subseteq 1 .. NfMessages
      BY BufferSound DEF InBoth
    <2>2. QED BY <1>0, <2>1 DEF Writes, NfType
  <1>7. /\ old \subseteq 1 .. NfMessages /\ \A m \in old : m < nfNext
        /\ NfHeld(nfBuf[p]) \subseteq old
    BY BufferSound
  <1>8. \A m \in old : m \in NfHeld(nfBuf[p]) \/ m \in NfHeld(nfFile.buf)
    BY DEF Buffer
  <1>9. \A m \in old, q \in NfProcs : q # p /\ m \in NfHeld(nfBuf[q]) => m \in nfOdd'.both
    <2>1. SUFFICES ASSUME NEW m \in old, NEW q \in NfProcs, q # p, m \in NfHeld(nfBuf[q])
                   PROVE  m \in nfOdd'.both
      OBVIOUS
    <2>2. q \in nfUp
      BY <1>0, <2>1, EmptyHolds DEF NfDownEmpty, NfType, NfProcs
    <2>3. m \in InBoth(p, Buffer(p))
      BY <2>1, <2>2 DEF InBoth
    <2>4. QED BY <1>6, <2>3
  <1> HIDE DEF old
  <1>a. NfType'
    <2>1. nfBuf' \in [NfProcs -> NfBuffers] /\ nfPend' \in [NfProcs -> SUBSET (1 .. NfMessages)]
      BY <1>0, <1>1 DEF Writes, NfType
    <2>2. nfFile' \in [buf : NfBuffers, by : NfProcs \cup {"nobody"}]
      BY <1>1
    <2>3. nfOdd' \in [lost : SUBSET (1 .. NfMessages), both : SUBSET (1 .. NfMessages)]
      <3>1. nfOdd' = [nfOdd EXCEPT !.both = nfOdd.both \cup InBoth(p, Buffer(p))]
        BY DEF Writes
      <3>2. QED BY <1>0, <1>6, <3>1 DEF NfType
    <2>4. QED BY <1>0, <1>1, <1>2, <2>1, <2>2, <2>3 DEF NfType
  <1>b. NfDownEmpty'
    BY <1>0, <1>1, <1>3, <1>4 DEF NfDownEmpty, NfProcs
  <1>c. NfMade'
    <2>1. SUFFICES ASSUME NEW m \in 1 .. NfMessages,
                          \/ nfSent'[m] > 0
                          \/ \E q \in NfProcs : m \in nfPend'[q] \cup NfHeld(nfBuf'[q])
                          \/ m \in NfHeld(nfFile'.buf)
                   PROVE  m < nfNext'
      BY DEF NfMade, NfHeld
    <2>2. \/ nfSent[m] > 0
          \/ \E q \in NfProcs : m \in nfPend[q] \cup NfHeld(nfBuf[q])
          \/ m \in old \cup new
      BY <1>1, <1>3, <1>4, <1>5, <2>1
    <2>3. QED BY <1>0, <1>2, <1>7, <2>2 DEF NfMade
  <1>d. NfOneKind'
    BY <1>0, <1>1, <1>3, <1>5 DEF NfOneKind, OneKind
  <1>e. NfFileOfServer'
    BY <1>3, <1>5 DEF NfFileOfServer
  <1>f. NfFileRead'
    BY <1>1, <1>3, <1>5 DEF NfFileRead, Accounted, NfHeld
  <1>g. MessagesKept'
    <2>1. SUFFICES ASSUME NEW m \in 1 .. (nfNext' - 1)
                   PROVE  \/ nfSent'[m] > 0
                          \/ m \in nfOdd'.lost
                          \/ \E q \in nfUp' : m \in nfPend'[q] \cup NfHeld(nfBuf'[q])
                          \/ m \in NfHeld(nfFile'.buf)
      BY DEF MessagesKept, NfHeld
    <2>2. CASE m \in old \cup new
      BY <1>1, <1>3, <1>4, <2>2
    <2>3. CASE m \notin old \cup new
      <3>1. Accounted(m) \/ m \in NfHeld(nfFile.buf)
        BY <1>0, <1>2, <2>3 DEF MessagesKept, Accounted
      <3>2. m \in NfHeld(nfFile.buf) => nfBuf[p] # NfEmpty
        BY <2>3 DEF old, Buffer
      <3>3. Accounted(m)
        BY <1>0, <1>1, <3>1, <3>2 DEF NfFileRead
      <3>4. \A q \in nfUp : m \in nfPend[q] \cup NfHeld(nfBuf[q]) => q # p
        BY <1>1, <1>7, <2>3
      <3>5. nfUp \subseteq NfProcs
        BY <1>0 DEF NfType, NfProcs
      <3>6. QED BY <1>1, <1>3, <1>4, <1>6, <3>3, <3>4, <3>5 DEF Accounted
    <2>4. QED BY <2>2, <2>3
  <1>h. NfOnePlace'
    <2>1. SUFFICES ASSUME NEW m \in 1 .. NfMessages, m \notin nfOdd'.both
                   PROVE  /\ nfSent[m] <= 1
                          /\ m \in NfHeld(b) => nfSent[m] = 0
                          /\ \A q \in NfProcs :
                              /\ m \in nfPend'[q] \cup NfHeld(nfBuf'[q]) => nfSent[m] = 0
                              /\ m \in nfPend'[q] => m \notin NfHeld(b)
                              /\ \A r \in NfProcs :
                                  /\ m \in nfPend'[q] => m \notin NfHeld(nfBuf'[r])
                                  /\ m \in nfPend'[q] \cap nfPend'[r] => q = r
                                  /\ m \in NfHeld(nfBuf'[q]) \cap NfHeld(nfBuf'[r]) => q = r
      BY <1>1, <1>5 DEF NfOnePlace, NfHeld
    <2>2. m \notin nfOdd.both
      BY <1>6, <2>1
    <2>3. /\ nfSent[m] <= 1
          /\ m \in NfHeld(nfFile.buf) => nfSent[m] = 0
          /\ \A q \in NfProcs :
              /\ m \in nfPend[q] \cup NfHeld(nfBuf[q]) => nfSent[m] = 0
              /\ m \in nfPend[q] => m \notin NfHeld(nfFile.buf)
              /\ \A r \in NfProcs :
                  /\ m \in nfPend[q] => m \notin NfHeld(nfBuf[r])
                  /\ m \in nfPend[q] \cap nfPend[r] => q = r
                  /\ m \in NfHeld(nfBuf[q]) \cap NfHeld(nfBuf[r]) => q = r
      BY <1>0, <2>2 DEF NfOnePlace
    <2>4. m \in old => /\ nfSent[m] = 0
                       /\ \A q \in NfProcs : m \notin nfPend[q]
                       /\ \A q \in NfProcs : q # p => m \notin NfHeld(nfBuf[q])
      BY <1>8, <1>9, <2>1, <2>3
    <2>5. m \in new => /\ nfSent[m] = 0
                       /\ \A q \in NfProcs : m \notin nfPend[q] /\ m \notin NfHeld(nfBuf[q])
      <3>1. m \in new => ~(m < nfNext)
        BY <1>2
      <3>2. nfSent[m] \in Nat
        BY <1>0 DEF NfType
      <3>3. QED BY <1>0, <3>1, <3>2 DEF NfMade
    <2>6. m \in NfHeld(b) \cup out => m \in old \cup new
      BY <1>1
    <2>7. QED BY <1>1, <1>3, <1>4, <2>3, <2>4, <2>5, <2>6
  <1>i. QED BY <1>a, <1>b, <1>c, <1>d, <1>e, <1>f, <1>g, <1>h DEF NfInv

\* An e-mail that is sent, or fails, keeps the invariant.
LEMMA SendKeeps ==
    ASSUME NfInv, NEW p \in NfProcs, sendNotifMsg(p)
    PROVE  NfInv'
  <1>0. /\ NfType /\ NfDownEmpty /\ NfMade /\ NfOneKind /\ NfFileOfServer /\ NfFileRead
        /\ MessagesKept /\ NfOnePlace
    BY DEF NfInv
  <1>1. /\ nfPend[p] # {}
        /\ UNCHANGED <<nfBuf, nfFile, nfUp, nfNext>>
        /\ \A q \in NfProcs : nfPend'[q] = IF q = p THEN {} ELSE nfPend[q]
        /\ nfPend' \in [NfProcs -> SUBSET (1 .. NfMessages)]
    BY <1>0 DEF sendNotifMsg, NfType
  <1>2. /\ nfSent' \in [1 .. NfMessages -> Nat]
        /\ nfOdd' \in [lost : SUBSET (1 .. NfMessages), both : SUBSET (1 .. NfMessages)]
        /\ nfOdd'.both = nfOdd.both /\ nfOdd.lost \subseteq nfOdd'.lost
        /\ \A m \in 1 .. NfMessages :
            \/ nfSent'[m] = nfSent[m] /\ (m \in nfPend[p] => m \in nfOdd'.lost)
            \/ nfSent'[m] = nfSent[m] + 1 /\ m \in nfPend[p]
    <2>1. nfPend[p] \subseteq 1 .. NfMessages
      BY <1>0 DEF NfType
    <2>2. CASE /\ nfSent' = [m \in 1 .. NfMessages |->
                                IF m \in nfPend[p] THEN nfSent[m] + 1 ELSE nfSent[m]]
               /\ UNCHANGED nfOdd
      BY <1>0, <2>2 DEF NfType
    <2>3. CASE nfOdd' = [nfOdd EXCEPT !.lost = nfOdd.lost \cup nfPend[p]] /\ UNCHANGED nfSent
      BY <1>0, <2>1, <2>3 DEF NfType
    <2>4. QED BY <2>2, <2>3 DEF sendNotifMsg
  <1>3. nfPend[p] \subseteq 1 .. NfMessages /\ p \in nfUp /\ nfUp \subseteq NfProcs
    BY <1>0, <1>1 DEF NfType, NfDownEmpty, NfProcs
  <1>4. \A m \in 1 .. NfMessages : nfSent[m] \in Nat /\ nfSent'[m] \in Nat
    BY <1>0, <1>2 DEF NfType
  <1>5. \A m \in 1 .. NfMessages : Accounted(m) => Accounted(m)'
    BY <1>1, <1>2, <1>3, <1>4 DEF Accounted, NfHeld
  <1>a. NfType'
    BY <1>0, <1>1, <1>2 DEF NfType
  <1>b. NfDownEmpty'
    BY <1>0, <1>1 DEF NfDownEmpty, NfProcs
  <1>c. NfMade'
    <2>1. SUFFICES ASSUME NEW m \in 1 .. NfMessages,
                          \/ nfSent'[m] > 0
                          \/ \E q \in NfProcs : m \in nfPend'[q] \cup NfHeld(nfBuf[q])
                          \/ m \in NfHeld(nfFile.buf)
                   PROVE  m < nfNext
      BY <1>1 DEF NfMade, NfHeld
    <2>2. \/ nfSent[m] > 0
          \/ \E q \in NfProcs : m \in nfPend[q] \cup NfHeld(nfBuf[q])
          \/ m \in NfHeld(nfFile.buf)
      BY <1>1, <1>2, <2>1
    <2>3. QED BY <1>0, <2>2 DEF NfMade
  <1>d. NfOneKind' /\ NfFileOfServer'
    BY <1>0, <1>1 DEF NfOneKind, NfFileOfServer, OneKind
  <1>e. NfFileRead'
    <2>1. NfHeld(nfFile.buf) \subseteq 1 .. NfMessages
      BY <1>0 DEF NfHeld, NfType, NfBuffers
    <2>2. QED BY <1>0, <1>1, <1>5, <2>1 DEF NfFileRead, NfHeld
  <1>f. MessagesKept'
    <2>1. \A m \in 1 .. (nfNext - 1) : m \in 1 .. NfMessages
      BY <1>0, NfConfig DEF NfType
    <2>2. \A m \in 1 .. (nfNext - 1) : Accounted(m) \/ m \in NfHeld(nfFile.buf)
      BY <1>0 DEF MessagesKept, Accounted
    <2>3. \A m \in 1 .. (nfNext - 1) : Accounted(m)' \/ m \in NfHeld(nfFile.buf)
      BY <1>5, <2>1, <2>2
    <2>4. QED BY <1>1, <2>3 DEF MessagesKept, Accounted, NfHeld
  <1>g. NfOnePlace'
    <2>1. SUFFICES ASSUME NEW m \in 1 .. NfMessages, m \notin nfOdd.both
                   PROVE  /\ nfSent'[m] <= 1
                          /\ m \in NfHeld(nfFile.buf) => nfSent'[m] = 0
                          /\ \A q \in NfProcs :
                              /\ m \in nfPend'[q] \cup NfHeld(nfBuf[q]) => nfSent'[m] = 0
                              /\ m \in nfPend'[q] => m \notin NfHeld(nfFile.buf)
                              /\ \A r \in NfProcs :
                                  /\ m \in nfPend'[q] => m \notin NfHeld(nfBuf[r])
                                  /\ m \in nfPend'[q] \cap nfPend'[r] => q = r
                                  /\ m \in NfHeld(nfBuf[q]) \cap NfHeld(nfBuf[r]) => q = r
      BY <1>1, <1>2 DEF NfOnePlace, NfHeld
    <2>2. /\ nfSent[m] <= 1
          /\ m \in NfHeld(nfFile.buf) => nfSent[m] = 0
          /\ \A q \in NfProcs :
              /\ m \in nfPend[q] \cup NfHeld(nfBuf[q]) => nfSent[m] = 0
              /\ m \in nfPend[q] => m \notin NfHeld(nfFile.buf)
              /\ \A r \in NfProcs :
                  /\ m \in nfPend[q] => m \notin NfHeld(nfBuf[r])
                  /\ m \in nfPend[q] \cap nfPend[r] => q = r
                  /\ m \in NfHeld(nfBuf[q]) \cap NfHeld(nfBuf[r]) => q = r
      BY <1>0, <2>1 DEF NfOnePlace
    <2>3. CASE m \in nfPend[p]
      BY <1>1, <1>2, <1>4, <2>2, <2>3
    <2>4. CASE m \notin nfPend[p]
      BY <1>1, <1>2, <2>2, <2>4
    <2>5. QED BY <2>3, <2>4
  <1>h. QED BY <1>a, <1>b, <1>c, <1>d, <1>e, <1>f, <1>g DEF NfInv

\* The start of the Janitor keeps the invariant.
LEMMA StartKeeps ==
    ASSUME NfInv, NfStartJanitor
    PROVE  NfInv'
  <1>0. /\ NfType /\ NfDownEmpty /\ NfMade /\ NfOneKind /\ NfFileOfServer /\ NfFileRead
        /\ MessagesKept /\ NfOnePlace
    BY DEF NfInv
  <1>1. /\ nfUp = {"server"} /\ nfUp' = {"server", "janitor"}
        /\ UNCHANGED <<nfFile, nfPend, nfNext, nfSent>>
        /\ nfBuf'["server"] = nfBuf["server"] /\ nfBuf'["janitor"] = nfBuf["server"]
        /\ nfBuf' \in [NfProcs -> NfBuffers]
    BY <1>0 DEF NfStartJanitor, NfType, NfProcs
  <1>2. /\ nfOdd' \in [lost : SUBSET (1 .. NfMessages), both : SUBSET (1 .. NfMessages)]
        /\ nfOdd'.lost = nfOdd.lost /\ nfOdd'.both = nfOdd.both \cup NfHeld(nfBuf["server"])
    <2>1. NfHeld(nfBuf["server"]) \subseteq 1 .. NfMessages
      BY <1>0 DEF NfHeld, NfType, NfBuffers, NfProcs
    <2>2. QED BY <1>0, <2>1 DEF NfStartJanitor, NfType
  <1>3. NfProcs = {"server", "janitor"} /\ nfBuf["janitor"] = NfEmpty /\ nfPend["janitor"] = {}
    BY <1>0, <1>1 DEF NfProcs, NfDownEmpty
  <1>4. NfHeld(NfEmpty) = {}
    BY EmptyHolds
  <1>5. \A m : Accounted(m) => Accounted(m)'
    BY <1>1, <1>2 DEF Accounted, NfHeld
  <1>a. NfType' /\ NfDownEmpty'
    BY <1>0, <1>1, <1>2 DEF NfType, NfDownEmpty
  <1>b. NfMade'
    BY <1>0, <1>1, <1>3 DEF NfMade, NfHeld
  <1>c. NfOneKind' /\ NfFileOfServer'
    BY <1>0, <1>1, <1>3 DEF NfOneKind, NfFileOfServer, OneKind
  <1>d. NfFileRead'
    <2>1. (\E q \in nfUp' : nfBuf'[q] # NfEmpty) => \E q \in nfUp : nfBuf[q] # NfEmpty
      BY <1>1
    <2>2. QED BY <1>0, <1>1, <1>5, <2>1 DEF NfFileRead, NfHeld
  <1>e. MessagesKept'
    <2>1. \A m \in 1 .. (nfNext - 1) : Accounted(m) \/ m \in NfHeld(nfFile.buf)
      BY <1>0 DEF MessagesKept, Accounted
    <2>2. \A m \in 1 .. (nfNext - 1) : Accounted(m)' \/ m \in NfHeld(nfFile.buf)
      BY <1>5, <2>1
    <2>3. QED BY <1>1, <2>2 DEF MessagesKept, Accounted, NfHeld
  <1>f. NfOnePlace'
    <2>1. SUFFICES ASSUME NEW m \in 1 .. NfMessages, m \notin nfOdd'.both
                   PROVE  /\ nfSent[m] <= 1
                          /\ m \in NfHeld(nfFile.buf) => nfSent[m] = 0
                          /\ \A q \in NfProcs :
                              /\ m \in nfPend[q] \cup NfHeld(nfBuf'[q]) => nfSent[m] = 0
                              /\ m \in nfPend[q] => m \notin NfHeld(nfFile.buf)
                              /\ \A r \in NfProcs :
                                  /\ m \in nfPend[q] => m \notin NfHeld(nfBuf'[r])
                                  /\ m \in nfPend[q] \cap nfPend[r] => q = r
                                  /\ m \in NfHeld(nfBuf'[q]) \cap NfHeld(nfBuf'[r]) => q = r
      BY <1>1 DEF NfOnePlace, NfHeld
    <2>2. m \notin nfOdd.both /\ \A q \in NfProcs : m \notin NfHeld(nfBuf'[q])
      BY <1>1, <1>2, <1>3, <2>1
    <2>3. QED BY <1>0, <2>2 DEF NfOnePlace
  <1>g. QED BY <1>a, <1>b, <1>c, <1>d, <1>e, <1>f DEF NfInv

\* The end of the Janitor, or of both, keeps the invariant.
LEMMA EndKeeps ==
    ASSUME NfInv, NEW ps \in {{"janitor"}, nfUp}, NfEnd(ps), nfUp' = {"server"}
    PROVE  NfInv'
  <1>0. /\ NfType /\ NfDownEmpty /\ NfMade /\ NfOneKind /\ NfFileOfServer /\ NfFileRead
        /\ MessagesKept /\ NfOnePlace
    BY DEF NfInv
  <1>1. /\ UNCHANGED <<nfFile, nfNext, nfSent>>
        /\ nfUp \in {{"server"}, {"server", "janitor"}}
        /\ NfProcs = {"server", "janitor"} /\ ps \subseteq NfProcs
    BY <1>0 DEF NfEnd, NfType, NfProcs
  <1>2. /\ nfBuf' \in [NfProcs -> NfBuffers] /\ nfPend' \in [NfProcs -> SUBSET (1 .. NfMessages)]
        /\ \A q \in NfProcs : /\ nfBuf'[q] = IF q \in ps THEN NfEmpty ELSE nfBuf[q]
                              /\ nfPend'[q] = IF q \in ps THEN {} ELSE nfPend[q]
    BY <1>0, EmptyHolds DEF NfEnd, NfType
  <1> DEFINE some == (ps \ {nfFile.by}) \cup (ps \cap {"janitor"})
             gone == NfUnsent(ps) \cup NfUnsaved(ps)
  <1>3. gone \subseteq 1 .. NfMessages
    <2>1. \A q \in NfProcs : nfPend[q] \subseteq 1 .. NfMessages /\ NfHeld(nfBuf[q]) \subseteq 1 .. NfMessages
      BY <1>0 DEF NfHeld, NfType, NfBuffers
    <2>2. some \subseteq NfProcs
      BY <1>1
    <2> HIDE DEF some
    <2>3. /\ UNION {nfPend[q] : q \in ps} \subseteq 1 .. NfMessages
          /\ UNION {NfHeld(nfBuf[q]) : q \in some} \subseteq 1 .. NfMessages
      BY <1>1, <2>1, <2>2
    <2>4. QED BY <2>3 DEF NfUnsent, NfUnsaved, some
  <1>4. /\ nfOdd' \in [lost : SUBSET (1 .. NfMessages), both : SUBSET (1 .. NfMessages)]
        /\ nfOdd'.lost = nfOdd.lost \cup gone /\ nfOdd'.both = nfOdd.both
    <2>1. nfOdd' = [nfOdd EXCEPT !.lost = nfOdd.lost \cup gone]
      BY DEF NfEnd
    <2> HIDE DEF gone
    <2>2. QED BY <1>0, <1>3, <2>1 DEF NfType
  <1>5. NfHeld(NfEmpty) = {} /\ OneKind(NfEmpty)
    BY EmptyHolds
  <1>6. /\ \A q \in ps : nfPend[q] \subseteq gone
        /\ "janitor" \in ps => NfHeld(nfBuf["janitor"]) \subseteq gone
        /\ "server" \in ps /\ nfFile.by # "server" => NfHeld(nfBuf["server"]) \subseteq gone
    <2>1. /\ "janitor" \in ps => "janitor" \in some
          /\ "server" \in ps /\ nfFile.by # "server" => "server" \in some
      OBVIOUS
    <2> HIDE DEF some
    <2>2. /\ \A q \in ps : nfPend[q] \subseteq UNION {nfPend[x] : x \in ps}
          /\ \A q \in some : NfHeld(nfBuf[q]) \subseteq UNION {NfHeld(nfBuf[x]) : x \in some}
      OBVIOUS
    <2>3. (\A q \in ps : nfPend[q] \subseteq NfUnsent(ps)) /\ \A q \in some : NfHeld(nfBuf[q]) \subseteq NfUnsaved(ps)
      BY <2>2, Zenon DEF NfUnsent, NfUnsaved, some
    <2>4. QED BY <2>1, <2>3
  <1> HIDE DEF gone
  <1>7. \A q \in NfProcs : /\ NfHeld(nfBuf'[q]) \subseteq NfHeld(nfBuf[q])
                           /\ nfPend'[q] \subseteq nfPend[q]
    BY <1>2, <1>5
  <1>8. "janitor" \in ps \/ nfUp = {"server"}
    BY <1>1
  <1>9. \A m : Accounted(m) => Accounted(m)' \/ ("server" \in ps /\ m \in NfHeld(nfFile.buf))
    <2>1. SUFFICES ASSUME NEW m, Accounted(m), ~("server" \in ps /\ m \in NfHeld(nfFile.buf))
                   PROVE  Accounted(m)'
      OBVIOUS
    <2>2. CASE nfSent[m] > 0 \/ m \in nfOdd.lost
      BY <1>1, <1>4, <2>2 DEF Accounted
    <2>3. ASSUME NEW q \in nfUp, m \in nfPend[q] PROVE Accounted(m)'
      <3>1. CASE q \in ps
        BY <1>4, <1>6, <2>3, <3>1 DEF Accounted
      <3>2. CASE q \notin ps
        <4>1. q = "server"
          BY <1>1, <1>8, <3>2
        <4>2. QED BY <1>1, <1>2, <2>3, <3>2, <4>1 DEF Accounted
      <3>3. QED BY <3>1, <3>2
    <2>4. ASSUME NEW q \in nfUp, m \in NfHeld(nfBuf[q]) PROVE Accounted(m)'
      <3>1. CASE q = "janitor"
        BY <1>1, <1>4, <1>6, <1>8, <2>4, <3>1 DEF Accounted
      <3>2. CASE q = "server" /\ q \notin ps
        BY <1>1, <1>2, <2>4, <3>2 DEF Accounted, NfHeld
      <3>3. CASE q = "server" /\ q \in ps
        <4>1. nfFile.by = "server" => m \in NfHeld(nfFile.buf)
          BY <1>0, <1>5, <2>4, <3>3 DEF NfFileOfServer
        <4>2. m \in gone
          BY <1>6, <2>1, <2>4, <3>3, <4>1
        <4>3. QED BY <1>4, <4>2 DEF Accounted
      <3>4. QED BY <1>1, <3>1, <3>2, <3>3
    <2>5. QED BY <2>1, <2>2, <2>3, <2>4 DEF Accounted
  <1>a. NfType'
    BY <1>0, <1>1, <1>2, <1>4 DEF NfType
  <1>b. NfDownEmpty'
    <2>1. CASE "janitor" \in ps
      BY <1>1, <1>2, <2>1 DEF NfDownEmpty
    <2>2. CASE "janitor" \notin ps
      <3>1. nfUp = {"server"}
        BY <1>8, <2>2
      <3>2. QED BY <1>0, <1>1, <1>2, <2>2, <3>1 DEF NfDownEmpty
    <2>3. QED BY <2>1, <2>2
  <1>c. NfMade'
    <2>1. \A q \in NfProcs : \A m : m \in nfPend'[q] \cup NfHeld(nfBuf'[q]) => m \in nfPend[q] \cup NfHeld(nfBuf[q])
      BY <1>7
    <2>2. QED BY <1>0, <1>1, <2>1 DEF NfMade, NfHeld
  <1>d. NfOneKind'
    BY <1>0, <1>1, <1>2, <1>5 DEF NfOneKind, OneKind
  <1>e. NfFileOfServer'
    BY <1>0, <1>1, <1>2 DEF NfFileOfServer
  <1>f. NfFileRead'
    <2>1. SUFFICES ASSUME nfBuf'["server"] # NfEmpty, NEW m \in NfHeld(nfFile.buf)
                   PROVE  Accounted(m)'
      BY <1>1 DEF NfFileRead, NfHeld
    <2>2. "server" \notin ps /\ nfBuf["server"] # NfEmpty /\ "server" \in nfUp
      BY <1>1, <1>2, <2>1
    <2>3. QED BY <1>0, <1>9, <2>1, <2>2 DEF NfFileRead
  <1>g. MessagesKept'
    <2>1. \A m \in 1 .. (nfNext - 1) : Accounted(m) \/ m \in NfHeld(nfFile.buf)
      BY <1>0 DEF MessagesKept, Accounted
    <2>2. \A m \in 1 .. (nfNext - 1) : Accounted(m)' \/ m \in NfHeld(nfFile.buf)
      BY <1>9, <2>1
    <2>3. QED BY <1>1, <2>2 DEF MessagesKept, Accounted, NfHeld
  <1>h. NfOnePlace'
    <2>1. SUFFICES ASSUME NEW m \in 1 .. NfMessages, m \notin nfOdd.both
                   PROVE  /\ nfSent[m] <= 1
                          /\ m \in NfHeld(nfFile.buf) => nfSent[m] = 0
                          /\ \A q \in NfProcs :
                              /\ m \in nfPend'[q] \cup NfHeld(nfBuf'[q]) => nfSent[m] = 0
                              /\ m \in nfPend'[q] => m \notin NfHeld(nfFile.buf)
                              /\ \A r \in NfProcs :
                                  /\ m \in nfPend'[q] => m \notin NfHeld(nfBuf'[r])
                                  /\ m \in nfPend'[q] \cap nfPend'[r] => q = r
                                  /\ m \in NfHeld(nfBuf'[q]) \cap NfHeld(nfBuf'[r]) => q = r
      BY <1>1, <1>4 DEF NfOnePlace, NfHeld
    <2>2. QED BY <1>0, <1>7, <2>1 DEF NfOnePlace
  <1>i. QED BY <1>a, <1>b, <1>c, <1>d, <1>e, <1>f, <1>g, <1>h DEF NfInv

\* The initial state.
LEMMA NfInitial == NfInit => NfInv
  <1>1. SUFFICES ASSUME NfInit PROVE NfInv
    OBVIOUS
  <1>2. NfHeld(NfEmpty) = {} /\ OneKind(NfEmpty) /\ NfEmpty \in NfBuffers
    BY EmptyHolds
  <1>3. /\ \A q \in NfProcs : nfBuf[q] = NfEmpty /\ nfPend[q] = {}
        /\ nfFile.buf = NfEmpty /\ nfFile.by = "nobody" /\ nfNext = 1 /\ nfUp = {"server"}
        /\ \A m \in 1 .. NfMessages : nfSent[m] = 0
    <2>1. nfSent = [m \in 1 .. NfMessages |-> 0] /\ nfFile = [buf |-> NfEmpty, by |-> "nobody"]
      BY <1>1 DEF NfInit
    <2>2. nfBuf = [p \in NfProcs |-> NfEmpty] /\ nfPend = [p \in NfProcs |-> {}]
      BY <1>1 DEF NfInit
    <2>3. nfNext = 1 /\ nfUp = {"server"}
      BY <1>1 DEF NfInit
    <2>4. QED BY <2>1, <2>2, <2>3
  <1>4. NfType
    <2>1. nfBuf \in [NfProcs -> NfBuffers] /\ nfPend \in [NfProcs -> SUBSET (1 .. NfMessages)]
      BY <1>1, <1>2 DEF NfInit
    <2>2. nfFile \in [buf : NfBuffers, by : NfProcs \cup {"nobody"}]
      BY <1>1, <1>2 DEF NfInit
    <2>3. nfNext \in 1 .. NfMessages + 1 /\ nfSent \in [1 .. NfMessages -> Nat]
      BY <1>1, NfConfig DEF NfInit
    <2>4. nfOdd \in [lost : SUBSET (1 .. NfMessages), both : SUBSET (1 .. NfMessages)]
      BY <1>1 DEF NfInit
    <2>5. QED BY <1>3, <2>1, <2>2, <2>3, <2>4 DEF NfType
  <1>5. NfDownEmpty /\ NfOneKind /\ NfFileOfServer
    BY <1>2, <1>3 DEF NfDownEmpty, NfOneKind, NfFileOfServer, NfProcs
  <1>6. NfMade /\ NfFileRead /\ MessagesKept
    BY <1>2, <1>3 DEF NfMade, NfFileRead, MessagesKept, NfProcs
  <1>7. NfOnePlace
    BY <1>2, <1>3 DEF NfOnePlace
  <1>8. QED BY <1>4, <1>5, <1>6, <1>7 DEF NfInv

\* Every step keeps the invariant.
LEMMA NfStep == NfInv /\ [NfNext]_nfVars => NfInv'
  <1>1. SUFFICES ASSUME NfInv, [NfNext]_nfVars PROVE NfInv'
    OBVIOUS
  <1>2. CASE UNCHANGED nfVars
    BY <1>1, <1>2 DEF nfVars, NfInv, NfType, NfDownEmpty, NfMade, NfOneKind, NfFileOfServer,
                      NfFileRead, Accounted, MessagesKept, NfOnePlace, NfHeld, OneKind
  <1>3. ASSUME NEW p \in NfProcs, NEW i \in NfKinds, notify(p, i) \/ checkNotifRetBuf(p, i)
        PROVE  NfInv'
    <2>1. PICK b, out, new : Writes(p, b, out, new)
      BY <1>1, <1>3, NotifyWrites, CheckWrites
    <2>2. QED BY <1>1, <2>1, WritesKeeps
  <1>4. ASSUME NEW p \in NfProcs, sendNotifMsg(p)
        PROVE  NfInv'
    BY <1>1, <1>4, SendKeeps
  <1>5. CASE NfStartJanitor
    BY <1>1, <1>5, StartKeeps
  <1>6. CASE stopJanitorThread
    BY <1>1, <1>6, EndKeeps DEF stopJanitorThread
  <1>7. CASE NfCrash
    BY <1>1, <1>7, EndKeeps DEF NfCrash
  <1>8. QED BY <1>1, <1>2, <1>3, <1>4, <1>5, <1>6, <1>7 DEF NfNext

\* For any number of messages and kinds, however often the processes are stopped, killed and
\* started again: a notification is sent, about to be sent, or kept in a buffer or in the file,
\* and is sent once, but for what notify, _checkSendNotifMsg and the file that the server and
\* the Janitor share are known to lose or to repeat.
THEOREM NotifiedOnceCorrect == NfSpec => []NotifiedOnce
  <1>1. NfInv => NotifiedOnce
    <2>1. SUFFICES ASSUME NfInv PROVE SentOnce
      BY DEF NfInv, NotifiedOnce
    <2>2. nfNext \in 1 .. NfMessages + 1 /\ nfSent \in [1 .. NfMessages -> Nat] /\ NfOnePlace
      BY <2>1 DEF NfInv, NfType
    <2>3. SUFFICES ASSUME NEW m \in 1 .. (nfNext - 1), nfSent[m] > 1 PROVE m \in nfOdd.both
      BY DEF SentOnce
    <2>4. m \in 1 .. NfMessages
      BY <2>2, <2>3, NfConfig
    <2>5. nfSent[m] \in Nat
      BY <2>2, <2>4
    <2>6. QED BY <2>2, <2>3, <2>4, <2>5 DEF NfOnePlace
  <1>2. QED BY <1>1, NfInitial, NfStep, PTL DEF NfSpec

-----------------------------------------------------------------------------
(* The Janitor.                                                            *)

Waits == {"ids", "req", "del", "ev"}
Pcs == Waits \cup {"off", "cycle", "next", "clean", "dir", "rmdir", "logs", "archive", "idle"}
ReqStates == {"none", "fresh", "expired", "gone"}
LogStates == {"none", "unsaved", "moved", "saved", "removed"}

\* The shape of the state, as far as the arguments below need it.
JType ==
    /\ req \in [JReqs -> ReqStates]
    /\ logf \in [JLogs -> LogStates]
    /\ jan = [pc |-> jan.pc, ids |-> jan.ids, del |-> jan.del, ask |-> jan.ask]
    /\ jan.pc \in Pcs
    /\ slow \in Nat
    /\ start \subseteq JReqs

\* One question or one answer.
Asked(name, item) == toSrv = <<[name |-> name, item |-> item]>> /\ toJan = <<>>
Told(kind, val) == toSrv = <<>> /\ toJan = <<[kind |-> kind, val |-> val]>>
Quiet == toSrv = <<>> /\ toJan = <<>>

\* Who was killed while waiting leaves a question that can be answered, or the answer.
LeftOver ==
    \/ Quiet
    \/ toSrv = <<>> /\ Len(toJan) = 1
    \/ Asked("get-request-ids", 0) \/ Asked("event-info-list", 0)
    \/ \E r \in JReqs : Asked("get-request", r)
    \/ \E ids \in SUBSET JReqs : Asked("delete-requests", ids)

\* As long as no wait ends early, what is under way belongs to the step the Janitor is in,
\* what is under way as an answer is still true where it matters, and no request that has
\* expired before the cycle falls out of sight.
InStep ==
    /\ served
    /\ start \subseteq {r \in JReqs : req[r] = "expired"}
    /\ jan.pc = "off" => LeftOver
    /\ jan.pc \notin Waits \cup {"off"} => Quiet
    /\ jan.pc \in {"cycle", "ids"} => jan.del = {}
    /\ jan.pc = "ids" => \/ Asked("get-request-ids", 0)
                         \/ \E ids \in SUBSET InDb : Told("ids", ids) /\ start \subseteq ids
    /\ jan.pc \in {"next", "req"} => jan.ids \subseteq InDb /\ jan.del \subseteq JReqs
    /\ jan.pc = "next" => start \subseteq jan.ids \cup jan.del
    /\ jan.pc = "req" => /\ jan.ask \in InDb
                         /\ start \subseteq jan.ids \cup jan.del \cup {jan.ask}
                         /\ \/ Asked("get-request", jan.ask)
                            \/ /\ \E val \in SUBSET {jan.ask} : Told("req", val)
                               /\ jan.ask \in start => Told("req", {jan.ask})
    /\ jan.pc = "del" => /\ jan.del \subseteq JReqs
                         /\ \/ Asked("delete-requests", jan.del) /\ start \subseteq jan.del
                            \/ Told("none", {}) /\ start = {}
    /\ jan.pc = "clean" => start = {}
    /\ jan.pc = "ev" => Asked("event-info-list", 0) \/ \E kind \in {"events", "none"} : Told(kind, {0})
    /\ jan.pc \in {"next", "req", "del"} => jan.del \subseteq judged

\* A log file is set aside by the step that archives it, and has come to an end when that is over.
LogsInOrder ==
    \A l \in JLogs :
        /\ logf[l] \in {"saved", "removed"} => l \in stored \cup dropped
        /\ logf[l] = "moved" => (jan.pc = "archive" /\ jan.ask = l) \/ l \in dropped

JInv == JType /\ (slow = 0 => InStep) /\ LogsInOrder

\* What is said of the requests; the log files and the temporary files are another matter.
JSame == UNCHANGED <<toSrv, toJan, served, jan, judged, slow>>

\* A step that touches neither the log files nor the step the Janitor is in.
LEMMA LogsAlone ==
    ASSUME LogsInOrder, UNCHANGED <<logf, stored, dropped>>, jan' = jan \/ jan.pc # "archive"
    PROVE  LogsInOrder'
  BY DEF LogsInOrder

\* A request is added, changed, or gets old; events happen.
LEMMA RequestsKeep ==
    ASSUME JInv, NEW r \in JReqs, addRequestToDb(r) \/ updateRequestDb(r) \/ Expire(r)
    PROVE  JInv'
  <1>1. /\ JSame /\ UNCHANGED <<logf, stored, dropped>>
        /\ req' \in {[req EXCEPT ![r] = "fresh"], [req EXCEPT ![r] = "expired"]}
        /\ start' \subseteq start
        /\ r \in start' => req'[r] = "expired" \/ req[r] = "none"
    BY DEF JInv, JType, JSame, addRequestToDb, updateRequestDb, Expire, jFileVars
  <1>2. JType'
    BY <1>1 DEF JInv, JType, JSame, ReqStates
  <1>3. InDb \subseteq InDb'
    BY <1>1 DEF JInv, JType, InDb
  <1>4. slow' = 0 => InStep'
    <2>1. SUFFICES ASSUME slow = 0 PROVE InStep'
      BY <1>1 DEF JSame
    <2>2. InStep
      BY <2>1 DEF JInv
    <2>3. start' \subseteq {x \in JReqs : req'[x] = "expired"}
      BY <1>1, <2>2 DEF InStep, JInv, JType
    <2> HIDE DEF InDb
    <2>4. QED BY <1>1, <1>3, <2>2, <2>3
              DEF InStep, JSame, Waits, Quiet, LeftOver, Asked, Told
  <1>5. LogsInOrder'
    BY <1>1, LogsAlone DEF JInv, JSame
  <1>6. QED BY <1>2, <1>4, <1>5 DEF JInv

\* Events happen.
LEMMA EventsKeep ==
    ASSUME JInv, triggerEvents
    PROVE  JInv'
  <1>1. JSame /\ UNCHANGED <<logf, stored, dropped, req, start>>
    BY DEF JSame, triggerEvents, jFileVars
  <1>2. QED BY <1>1 DEF JSame, JInv, JType, InStep, LogsInOrder, Quiet, LeftOver, Asked, Told, InDb

\* The queue thread of the server answers a question.
LEMMA QueueKeeps ==
    ASSUME JInv, janitorQueThread
    PROVE  JInv'
  <1>1. /\ UNCHANGED <<jan, judged, slow, logf, stored, dropped>>
        /\ served /\ toSrv # <<>> /\ toSrv' = Tail(toSrv)
        /\ start' = start \cap {x \in JReqs : req'[x] = "expired"}
    BY DEF janitorQueThread, jFileVars
  <1>2. \/ req' = req
        \/ Head(toSrv).name = "delete-requests" /\ delete(Head(toSrv).item)
    BY DEF janitorQueThread
  <1>3. /\ req' \in [JReqs -> ReqStates]
        /\ \A x \in JReqs : req'[x] = req[x] \/ (req'[x] = "gone" /\ req[x] # "none")
    BY <1>2 DEF delete, JInv, JType, InDb, ReqStates
  <1>4. JType'
    BY <1>1, <1>3 DEF JInv, JType
  <1>5. LogsInOrder'
    BY <1>1, LogsAlone DEF JInv
  <1>6. ASSUME slow = 0 PROVE InStep'
    <2>1. InStep /\ JType
      BY <1>6 DEF JInv
    <2>2. start' \subseteq start /\ start' \subseteq {x \in JReqs : req'[x] = "expired"}
      BY <1>1
    <2>3. CASE \E name, item : Asked(name, item)
      <3>1. PICK name, item : Asked(name, item)
        BY <2>3
      <3>2. Head(toSrv).name = name /\ Head(toSrv).item = item /\ toSrv' = <<>> /\ toJan = <<>>
        BY <1>1, <3>1 DEF Asked
      <3>3. \A x : JReply(x) => toJan' = <<x>>
        BY <3>2 DEF JReply
      <3>4. CASE name = "get-request-ids"
        <4>1. toJan' = <<[kind |-> "ids", val |-> InDb]>> /\ UNCHANGED <<req, served>>
          BY <3>2, <3>3, <3>4 DEF janitorQueThread
        <4>2. jan.pc \in {"ids", "off"}
          BY <2>1, <3>1, <3>4 DEF InStep, JType, Pcs, Waits, Quiet, Asked, Told
        <4>3. start \subseteq InDb
          BY <2>1 DEF InStep, InDb
        <4>4. Told("ids", InDb)' /\ InDb' = InDb
          BY <3>2, <4>1 DEF Told, InDb
        <4>5. CASE jan.pc = "ids"
          <5>1. \E ids \in SUBSET InDb : Told("ids", ids)' /\ start' \subseteq ids
            BY <2>2, <4>3, <4>4
          <5>2. QED BY <1>1, <2>1, <2>2, <4>1, <4>4, <4>5, <5>1 DEF InStep, Waits, Told
        <4>6. CASE jan.pc = "off"
          <5>1. LeftOver'
            BY <3>2, <4>1 DEF LeftOver
          <5>2. QED BY <1>1, <2>1, <2>2, <4>1, <4>6, <5>1 DEF InStep, Waits
        <4>7. QED BY <4>2, <4>5, <4>6
      <3>5. CASE name = "get-request"
        <4>0. jan.pc \in {"req", "off"}
          BY <2>1, <3>1, <3>5 DEF InStep, JType, Pcs, Waits, Quiet, Asked, Told
        <4>a. ASSUME jan.pc = "off" PROVE item \in JReqs
          <5>1. \E r \in JReqs : Asked("get-request", r)
            BY <2>1, <3>1, <3>5, <4>a DEF InStep, Quiet, Asked, LeftOver
          <5>2. QED BY <3>1, <5>1 DEF Asked
        <4>b. ASSUME jan.pc = "req" PROVE item = jan.ask /\ item \in InDb
          <5>1. Asked("get-request", jan.ask)
            BY <2>1, <3>1, <4>b DEF InStep, Asked, Told
          <5>2. QED BY <2>1, <3>1, <4>b, <5>1 DEF InStep, Asked
        <4>1. /\ item \in JReqs /\ jan.pc \in {"req", "off"}
              /\ jan.pc = "req" => item = jan.ask /\ item \in InDb
          BY <4>0, <4>a, <4>b DEF InDb
        <4>2. UNCHANGED <<req, served>> /\ Len(toJan') = 1
          <5>1. /\ UNCHANGED <<req, served>>
                /\ JReply(IF item \in InDb
                           THEN [kind |-> "req", val |-> {r \in {item} : req[r] = "expired"}]
                           ELSE [kind |-> "none", val |-> {}])
            BY <3>2, <3>5, <4>1 DEF janitorQueThread
          <5>2. PICK x : toJan' = <<x>>
            BY <3>3, <5>1
          <5>3. QED BY <5>1, <5>2
        <4>3. CASE jan.pc = "off"
          <5>1. LeftOver'
            BY <3>2, <4>2 DEF LeftOver
          <5>2. QED BY <1>1, <2>1, <2>2, <4>2, <4>3, <5>1 DEF InStep, Waits
        <4>4. CASE jan.pc = "req"
          <5>1. toJan' = <<[kind |-> "req", val |-> {x \in {item} : req[x] = "expired"}]>>
            BY <3>2, <3>3, <3>5, <4>1, <4>4 DEF janitorQueThread
          <5>2. item \in start => {x \in {item} : req[x] = "expired"} = {item}
            BY <2>1 DEF InStep
          <5>a. PICK val \in SUBSET {item} : /\ toJan' = <<[kind |-> "req", val |-> val]>>
                                             /\ item \in start => val = {item}
            BY <5>1, <5>2
          <5>b. \A v : toJan' = <<[kind |-> "req", val |-> v]>> => Told("req", v)'
            BY <3>2 DEF Told
          <5>c. jan'.ask = item /\ jan.ask = item
            BY <1>1, <4>1, <4>4
          <5>3. /\ \E v \in SUBSET {jan'.ask} : Told("req", v)'
                /\ jan'.ask \in start => Told("req", {jan.ask})'
            BY <5>a, <5>b, <5>c
          <5>4. InDb' = InDb
            BY <4>2 DEF InDb
          <5>5. QED BY <1>1, <2>1, <2>2, <4>1, <4>2, <4>4, <5>3, <5>4 DEF InStep, Waits, Told
        <4>5. QED BY <4>1, <4>3, <4>4
      <3>6. CASE name = "delete-requests"
        <4>1. /\ item \subseteq JReqs /\ jan.pc \in {"del", "off"}
              /\ jan.pc = "del" => item = jan.del /\ start \subseteq item
          BY <2>1, <3>1, <3>6 DEF InStep, JType, Pcs, Waits, Quiet, Asked, Told, LeftOver
        <4>2. /\ delete(item) /\ toJan' = <<[kind |-> "none", val |-> {}]>> /\ served' = served
          BY <3>2, <3>3, <3>6 DEF janitorQueThread
        <4>3. CASE jan.pc = "off"
          <5>1. LeftOver'
            BY <3>2, <4>2 DEF LeftOver
          <5>2. QED BY <1>1, <2>1, <2>2, <4>2, <4>3, <5>1 DEF InStep, Waits
        <4>4. CASE jan.pc = "del"
          <5>1. \A x \in start : req'[x] = "gone"
            BY <2>1, <4>1, <4>2, <4>4 DEF delete, InDb, InStep
          <5>2. start' = {}
            BY <1>1, <5>1
          <5>3. Told("none", {})'
            BY <3>2, <4>2 DEF Told
          <5>4. QED BY <1>1, <2>1, <2>2, <4>1, <4>2, <4>4, <5>2, <5>3 DEF InStep, Waits, Told
        <4>5. QED BY <4>1, <4>3, <4>4
      <3>7. CASE name = "event-info-list"
        <4>1. /\ jan.pc \in {"ev", "off"}
          BY <2>1, <3>1, <3>7 DEF InStep, JType, Pcs, Waits, Quiet, Asked, Told
        <4>2. /\ \E kind \in {"events", "none"} : toJan' = <<[kind |-> kind, val |-> {0}]>>
              /\ UNCHANGED <<req, served>>
          BY <3>2, <3>3, <3>7 DEF janitorQueThread
        <4>3. CASE jan.pc = "off"
          <5>1. LeftOver'
            BY <3>2, <4>2 DEF LeftOver
          <5>2. QED BY <1>1, <2>1, <2>2, <4>2, <4>3, <5>1 DEF InStep, Waits
        <4>4. CASE jan.pc = "ev"
          <5>1. \E kind \in {"events", "none"} : Told(kind, {0})'
            BY <3>2, <4>2 DEF Told
          <5>2. QED BY <1>1, <2>1, <2>2, <4>2, <4>4, <5>1 DEF InStep, Waits, Told
        <4>5. QED BY <4>1, <4>3, <4>4
      <3>8. QED BY <3>2, <3>4, <3>5, <3>6, <3>7 DEF janitorQueThread
    <2>4. CASE ~\E name, item : Asked(name, item)
      <3>1. toSrv = <<>>
        BY <2>1, <2>4 DEF InStep, JType, Pcs, Waits, Quiet, Told, LeftOver
      <3>2. QED BY <1>1, <3>1
    <2>5. QED BY <2>3, <2>4
  <1>7. QED BY <1>1, <1>4, <1>5, <1>6 DEF JInv

\* The record of the Janitor with some of its fields changed.
LEMMA JanFields ==
    ASSUME JType
    PROVE  /\ \A x : [jan EXCEPT !.pc = x] = [pc |-> x, ids |-> jan.ids, del |-> jan.del, ask |-> jan.ask]
           /\ \A x, y : [jan EXCEPT !.pc = x, !.ids = y] =
                            [pc |-> x, ids |-> y, del |-> jan.del, ask |-> jan.ask]
           /\ \A x, y : [jan EXCEPT !.pc = x, !.del = y] =
                            [pc |-> x, ids |-> jan.ids, del |-> y, ask |-> jan.ask]
           /\ \A x, y, z : [jan EXCEPT !.pc = x, !.ids = y, !.ask = z] =
                            [pc |-> x, ids |-> y, del |-> jan.del, ask |-> z]
           /\ \A x, y, z : [jan EXCEPT !.pc = x, !.ask = z, !.ids = y] =
                            [pc |-> x, ids |-> y, del |-> jan.del, ask |-> z]
           /\ \A x : [Off EXCEPT !.pc = x] = [pc |-> x, ids |-> {}, del |-> {}, ask |-> 0]
  <1>1. jan = [pc |-> jan.pc, ids |-> jan.ids, del |-> jan.del, ask |-> jan.ask]
    BY DEF JType
  <1>2. \A x : [jan EXCEPT !.pc = x] = [pc |-> x, ids |-> jan.ids, del |-> jan.del, ask |-> jan.ask]
    BY <1>1
  <1> DEFINE j1(x) == [pc |-> x, ids |-> jan.ids, del |-> jan.del, ask |-> jan.ask]
             j2(x, y) == [pc |-> x, ids |-> y, del |-> jan.del, ask |-> jan.ask]
             j3(x, z) == [pc |-> x, ids |-> jan.ids, del |-> jan.del, ask |-> z]
  <1>a. \A x, y : [j1(x) EXCEPT !.ids = y] = j2(x, y)
    OBVIOUS
  <1>b. \A x, z : [j1(x) EXCEPT !.ask = z] = j3(x, z)
    OBVIOUS
  <1>3. \A x, y : [jan EXCEPT !.pc = x, !.ids = y] = [pc |-> x, ids |-> y, del |-> jan.del, ask |-> jan.ask]
    <2>1. SUFFICES ASSUME NEW x, NEW y
                   PROVE  [jan EXCEPT !.pc = x, !.ids = y] = j2(x, y)
      OBVIOUS
    <2>2. [jan EXCEPT !.pc = x, !.ids = y] = [[jan EXCEPT !.pc = x] EXCEPT !.ids = y]
      OBVIOUS
    <2>3. QED BY <1>2, <1>a, <2>2, Zenon
  <1>4. \A x, y : [jan EXCEPT !.pc = x, !.del = y] = [pc |-> x, ids |-> jan.ids, del |-> y, ask |-> jan.ask]
    <2>1. SUFFICES ASSUME NEW x, NEW y
                   PROVE  [jan EXCEPT !.pc = x, !.del = y] =
                            [pc |-> x, ids |-> jan.ids, del |-> y, ask |-> jan.ask]
      OBVIOUS
    <2>2. [jan EXCEPT !.pc = x, !.del = y] = [[jan EXCEPT !.pc = x] EXCEPT !.del = y]
      OBVIOUS
    <2>3. [j1(x) EXCEPT !.del = y] = [pc |-> x, ids |-> jan.ids, del |-> y, ask |-> jan.ask]
      OBVIOUS
    <2>4. QED BY <1>2, <2>2, <2>3, Zenon
  <1>5. \A x, y, z : /\ [jan EXCEPT !.pc = x, !.ids = y, !.ask = z] =
                          [pc |-> x, ids |-> y, del |-> jan.del, ask |-> z]
                     /\ [jan EXCEPT !.pc = x, !.ask = z, !.ids = y] =
                          [pc |-> x, ids |-> y, del |-> jan.del, ask |-> z]
    <2>1. SUFFICES ASSUME NEW x, NEW y, NEW z
                   PROVE  /\ [jan EXCEPT !.pc = x, !.ids = y, !.ask = z] =
                               [pc |-> x, ids |-> y, del |-> jan.del, ask |-> z]
                          /\ [jan EXCEPT !.pc = x, !.ask = z, !.ids = y] =
                               [pc |-> x, ids |-> y, del |-> jan.del, ask |-> z]
      OBVIOUS
    <2>2. /\ [jan EXCEPT !.pc = x, !.ids = y, !.ask = z] =
                [[[jan EXCEPT !.pc = x] EXCEPT !.ids = y] EXCEPT !.ask = z]
          /\ [jan EXCEPT !.pc = x, !.ask = z, !.ids = y] =
                [[[jan EXCEPT !.pc = x] EXCEPT !.ask = z] EXCEPT !.ids = y]
      OBVIOUS
    <2>3. [j2(x, y) EXCEPT !.ask = z] = [pc |-> x, ids |-> y, del |-> jan.del, ask |-> z]
      OBVIOUS
    <2>4. [j3(x, z) EXCEPT !.ids = y] = [pc |-> x, ids |-> y, del |-> jan.del, ask |-> z]
      OBVIOUS
    <2>5. QED BY <1>2, <1>a, <1>b, <2>2, <2>3, <2>4, Zenon
  <1>6. \A x : [Off EXCEPT !.pc = x] = [pc |-> x, ids |-> {}, del |-> {}, ask |-> 0]
    BY DEF Off
  <1>7. QED BY <1>2, <1>3, <1>4, <1>5, <1>6, Zenon

\* A cycle begins.
LEMMA CycleKeeps ==
    ASSUME JInv, JanitorCycle
    PROVE  JInv'
  <1>0. JType /\ LogsInOrder
    BY DEF JInv
  <1>1. /\ jan.pc = "cycle" /\ UNCHANGED <<req, toJan, served, slow, logf, stored, dropped>>
        /\ start' = {r \in JReqs : req[r] = "expired"}
        /\ jan' = [pc |-> "ids", ids |-> jan.ids, del |-> jan.del, ask |-> jan.ask]
        /\ toSrv' = Append(toSrv, [name |-> "get-request-ids", item |-> 0])
    BY <1>0, JanFields DEF JanitorCycle, Ask, jFileVars
  <1>2. JType'
    BY <1>0, <1>1 DEF JType, Pcs, Waits
  <1>3. ASSUME slow = 0 PROVE InStep'
    <2>1. InStep
      BY <1>3 DEF JInv
    <2>2. Quiet
      BY <1>1, <2>1 DEF InStep, Waits
    <2>3. Asked("get-request-ids", 0)'
      BY <1>1, <2>2 DEF Quiet, Asked
    <2>4. jan.del = {}
      BY <1>1, <2>1 DEF InStep
    <2>5. QED BY <1>1, <2>1, <2>3, <2>4 DEF InStep, Waits
  <1>4. LogsInOrder'
    BY <1>0, <1>1, LogsAlone
  <1>5. QED BY <1>1, <1>2, <1>3, <1>4 DEF JInv

\* The list of the Request IDs comes, or the wait ends.
LEMMA IdsKeep ==
    ASSUME JInv, ReceiveIds
    PROVE  JInv'
  <1>0. JType /\ LogsInOrder
    BY DEF JInv
  <1> DEFINE next == [pc |-> "clean", ids |-> {}, del |-> {}, ask |-> 0]
  <1>1. /\ jan.pc = "ids" /\ UNCHANGED <<req, toSrv, served, judged, start, logf, stored, dropped>>
        /\ \/ /\ toJan # <<>> /\ toJan' = Tail(toJan) /\ slow' = slow
              /\ \/ /\ Answer.kind \in {"ids", "events"}
                    /\ jan' = [pc |-> "next", ids |-> Answer.val, del |-> jan.del, ask |-> jan.ask]
                 \/ Answer.kind \notin {"ids", "events"} /\ jan' = next
           \/ slow' = slow + 1 /\ jan' = next
    BY <1>0, JanFields DEF ReceiveIds, Answered, TimesOut, NextPlugIn, jFileVars
  <1>2. JType'
    BY <1>0, <1>1 DEF JType, Pcs, Waits
  <1>3. ASSUME slow' = 0 PROVE InStep'
    <2>1. slow = 0 /\ slow' = slow
      BY <1>0, <1>1, <1>3 DEF JType
    <2>2. InStep /\ toJan # <<>> /\ toJan' = Tail(toJan)
      BY <1>1, <2>1 DEF JInv, JType
    <2>3. PICK ids \in SUBSET InDb : Told("ids", ids) /\ start \subseteq ids
      BY <1>1, <2>2 DEF InStep, Asked
    <2>4. Answer.kind = "ids" /\ Answer.val = ids /\ Quiet'
      BY <1>1, <2>2, <2>3 DEF Told, Answer, Quiet
    <2>5. jan' = [pc |-> "next", ids |-> ids, del |-> {}, ask |-> jan.ask]
      BY <1>0, <1>1, <2>1, <2>2, <2>4 DEF InStep, JType
    <2>6. InDb' = InDb
      BY <1>1 DEF InDb
    <2>7. QED BY <1>1, <2>2, <2>3, <2>4, <2>5, <2>6 DEF InStep, Waits
  <1>4. LogsInOrder'
    BY <1>0, <1>1, LogsAlone
  <1>5. QED BY <1>2, <1>3, <1>4 DEF JInv

\* The next request is asked for, or the old ones are to be deleted, or there are none.
LEMMA AskKeeps ==
    ASSUME JInv, AskRequest
    PROVE  JInv'
  <1>0. JType /\ LogsInOrder
    BY DEF JInv
  <1>1. jan.pc = "next" /\ UNCHANGED <<req, toJan, served, judged, start, slow, logf, stored, dropped>>
    BY DEF AskRequest, jFileVars
  <1>2. \/ \E r \in jan.ids :
            /\ toSrv' = Append(toSrv, [name |-> "get-request", item |-> r])
            /\ jan' = [pc |-> "req", ids |-> jan.ids \ {r}, del |-> jan.del, ask |-> r]
        \/ /\ jan.ids = {} /\ toSrv' = Append(toSrv, [name |-> "delete-requests", item |-> jan.del])
           /\ jan' = [pc |-> "del", ids |-> jan.ids, del |-> jan.del, ask |-> jan.ask]
        \/ /\ jan.ids = {} /\ jan.del = {} /\ toSrv' = toSrv
           /\ jan' = [pc |-> "clean", ids |-> {}, del |-> {}, ask |-> 0]
    BY <1>0, JanFields DEF AskRequest, Ask, NextPlugIn
  <1>3. JType'
    <2>1. PICK x, ids, del, ask : x \in Pcs /\ jan' = [pc |-> x, ids |-> ids, del |-> del, ask |-> ask]
      BY <1>2 DEF Pcs, Waits
    <2>2. QED BY <1>0, <1>1, <2>1 DEF JType
  <1>4. ASSUME slow = 0 PROVE InStep'
    <2>1. InStep /\ Quiet
      BY <1>1, <1>4 DEF JInv, InStep, Waits
    <2>2. /\ jan.ids \subseteq InDb /\ jan.del \subseteq JReqs /\ start \subseteq jan.ids \cup jan.del
          /\ jan.del \subseteq judged /\ InDb' = InDb
          /\ start \subseteq {r \in JReqs : req[r] = "expired"}
      BY <1>1, <2>1 DEF InStep, InDb
    <2>3. ASSUME NEW r \in jan.ids,
                 toSrv' = Append(toSrv, [name |-> "get-request", item |-> r]),
                 jan' = [pc |-> "req", ids |-> jan.ids \ {r}, del |-> jan.del, ask |-> r]
          PROVE  InStep'
      <3>1. Asked("get-request", jan.ask)' /\ jan'.ask = r
        BY <1>1, <2>1, <2>3 DEF Quiet, Asked
      <3>2. QED BY <1>1, <2>1, <2>2, <2>3, <3>1 DEF InStep, Waits
    <2>4. CASE /\ jan.ids = {} /\ toSrv' = Append(toSrv, [name |-> "delete-requests", item |-> jan.del])
               /\ jan' = [pc |-> "del", ids |-> jan.ids, del |-> jan.del, ask |-> jan.ask]
      <3>1. Asked("delete-requests", jan.del)' /\ jan'.del = jan.del
        BY <1>1, <2>1, <2>4 DEF Quiet, Asked
      <3>2. start \subseteq jan.del
        BY <2>2, <2>4
      <3>3. QED BY <1>1, <2>1, <2>2, <2>4, <3>1, <3>2 DEF InStep, Waits
    <2>5. CASE /\ jan.ids = {} /\ jan.del = {} /\ toSrv' = toSrv
               /\ jan' = [pc |-> "clean", ids |-> {}, del |-> {}, ask |-> 0]
      <3>1. Quiet' /\ start = {}
        BY <1>1, <2>1, <2>2, <2>5 DEF Quiet
      <3>2. QED BY <1>1, <2>1, <2>5, <3>1 DEF InStep, Waits
    <2>6. QED BY <1>2, <2>3, <2>4, <2>5
  <1>5. LogsInOrder'
    BY <1>0, <1>1, LogsAlone
  <1>6. QED BY <1>1, <1>3, <1>4, <1>5 DEF JInv

\* A request comes and is judged, or the wait ends.
LEMMA RequestKeeps ==
    ASSUME JInv, ReceiveRequest
    PROVE  JInv'
  <1>0. JType /\ LogsInOrder
    BY DEF JInv
  <1> DEFINE next == [pc |-> "clean", ids |-> {}, del |-> {}, ask |-> 0]
             more == IF timed_out(Answer) THEN jan.del \cup {jan.ask} ELSE jan.del
  <1>1. jan.pc = "req" /\ UNCHANGED <<req, toSrv, served, start, logf, stored, dropped>>
    BY DEF ReceiveRequest, jFileVars
  <1>2. \/ /\ toJan # <<>> /\ toJan' = Tail(toJan) /\ slow' = slow
           /\ \/ /\ Answer.kind = "req" /\ judged' = judged \cup Answer.val
                 /\ jan' = [pc |-> "next", ids |-> jan.ids, del |-> more, ask |-> jan.ask]
              \/ Answer.kind # "req" /\ jan' = next
        \/ slow' = slow + 1 /\ jan' = next
    BY <1>0, JanFields DEF ReceiveRequest, Answered, TimesOut, NextPlugIn
  <1>3. JType'
    BY <1>0, <1>1, <1>2 DEF JType, Pcs, Waits
  <1>4. ASSUME slow' = 0 PROVE InStep'
    <2>1. slow = 0 /\ slow' = slow
      BY <1>0, <1>2, <1>4 DEF JType
    <2>2. InStep /\ toJan # <<>> /\ toJan' = Tail(toJan)
      BY <1>0, <1>2, <2>1 DEF JInv, JType
    <2>3. PICK val \in SUBSET {jan.ask} : Told("req", val)
      BY <1>1, <2>2 DEF InStep, Asked
    <2>4. Answer.kind = "req" /\ Answer.val = val /\ Quiet'
      BY <1>1, <2>2, <2>3 DEF Told, Answer, Quiet
    <2>5. /\ judged' = judged \cup val
          /\ jan' = [pc |-> "next", ids |-> jan.ids, del |-> more, ask |-> jan.ask]
      BY <1>0, <1>2, <2>1, <2>4 DEF JType
    <2>6. more = jan.del \cup val
      BY <2>3, <2>4 DEF timed_out
    <2>7. jan.ask \in start => val = {jan.ask}
      BY <1>1, <2>2, <2>3 DEF InStep, Told, Asked
    <2>8. /\ jan.ids \subseteq InDb /\ jan.del \subseteq JReqs /\ jan.ask \in JReqs
          /\ start \subseteq jan.ids \cup jan.del \cup {jan.ask} /\ jan.del \subseteq judged
          /\ InDb' = InDb
      BY <1>1, <2>2 DEF InStep, InDb
    <2>9. QED BY <1>1, <2>2, <2>3, <2>4, <2>5, <2>6, <2>7, <2>8 DEF InStep, Waits
  <1>5. LogsInOrder'
    <2>1. UNCHANGED <<logf, stored, dropped>> /\ jan.pc # "archive"
      BY <1>1
    <2>2. QED BY <1>0, <2>1, LogsAlone
  <1>6. QED BY <1>3, <1>4, <1>5 DEF JInv


\* The old requests are deleted, or the wait for it ends.
LEMMA DeletedKeeps ==
    ASSUME JInv, ReceiveDeleted
    PROVE  JInv'
  <1>0. JType /\ LogsInOrder
    BY DEF JInv
  <1>1. /\ jan.pc = "del" /\ UNCHANGED <<req, toSrv, served, judged, start, logf, stored, dropped>>
        /\ jan' = [pc |-> "clean", ids |-> {}, del |-> {}, ask |-> 0]
        /\ \/ toJan # <<>> /\ toJan' = Tail(toJan) /\ slow' = slow
           \/ slow' = slow + 1
    BY <1>0, JanFields DEF ReceiveDeleted, NextPlugIn, Answered, TimesOut, jFileVars
  <1>2. JType'
    BY <1>0, <1>1 DEF JType, Pcs, Waits
  <1>3. ASSUME slow' = 0 PROVE InStep'
    <2>1. slow = 0 /\ toJan # <<>> /\ toJan' = Tail(toJan)
      BY <1>0, <1>1, <1>3 DEF JType
    <2>2. InStep
      BY <2>1 DEF JInv
    <2>3. Told("none", {}) /\ start = {}
      BY <1>1, <2>1, <2>2 DEF InStep, Asked
    <2>4. Quiet'
      BY <1>1, <2>1, <2>3 DEF Told, Quiet
    <2>5. QED BY <1>1, <2>2, <2>3, <2>4 DEF InStep, Waits
  <1>4. LogsInOrder'
    BY <1>0, <1>1, LogsAlone
  <1>5. QED BY <1>2, <1>3, <1>4 DEF JInv

\* The steps that ask nothing.
LEMMA AsideKeeps ==
    ASSUME JInv, jan.pc \notin Waits \cup {"off"},
           UNCHANGED <<req, toSrv, toJan, served, judged, start, slow>>,
           logf' \in [JLogs -> LogStates],
           NEW x \in {"dir", "rmdir", "logs", "archive", "idle"}, NEW i, NEW d, NEW k,
           jan' = [pc |-> x, ids |-> i, del |-> d, ask |-> k]
    PROVE  JType' /\ (slow' = 0 => InStep')
  <1>1. JType'
    BY DEF JInv, JType, Pcs, Waits
  <1>2. ASSUME slow = 0 PROVE InStep'
    <2>1. InStep /\ Quiet
      BY <1>2 DEF JInv, InStep
    <2>2. Quiet' /\ jan'.pc = x /\ x \notin Waits \cup {"off"}
      BY <2>1 DEF Quiet, Waits
    <2>3. QED BY <2>1, <2>2 DEF InStep, Waits
  <1>3. QED BY <1>1, <1>2

\* The temporary directories are cleaned.
LEMMA CleanKeeps ==
    ASSUME JInv, checkCleanDirs \/ CheckEmptyDir \/ RemoveDir
    PROVE  JInv'
  <1>0. JType /\ LogsInOrder
    BY DEF JInv
  <1>1. /\ jan.pc \in {"clean", "dir", "rmdir"}
        /\ UNCHANGED <<req, toSrv, toJan, served, judged, start, slow, logf, stored, dropped>>
    BY DEF checkCleanDirs, CheckEmptyDir, RemoveDir, jReqVars, jFileVars
  <1>2. PICK x \in {"dir", "rmdir", "logs"} : jan' = [jan EXCEPT !.pc = x]
    BY DEF checkCleanDirs, CheckEmptyDir, RemoveDir
  <1>3. jan' = [pc |-> x, ids |-> jan.ids, del |-> jan.del, ask |-> jan.ask]
    BY <1>0, <1>2, JanFields
  <1>4. logf' \in [JLogs -> LogStates] /\ jan.pc \notin Waits \cup {"off"} /\ jan.pc # "archive"
    BY <1>0, <1>1 DEF JType, Waits
  <1>5. x \in {"dir", "rmdir", "logs", "archive", "idle"}
    BY <1>2
  <1>6. JType' /\ (slow' = 0 => InStep')
    BY <1>1, <1>3, <1>4, <1>5, AsideKeeps
  <1>7. LogsInOrder'
    BY <1>0, <1>1, <1>4, LogsAlone
  <1>8. QED BY <1>6, <1>7 DEF JInv

\* A log file is set aside to be archived.
LEMMA MoveKeeps ==
    ASSUME JInv, MoveLog
    PROVE  JInv'
  <1>0. JType /\ LogsInOrder
    BY DEF JInv
  <1> DEFINE l == First(Unsaved \ jan.ids)
  <1>1. /\ jan.pc = "logs" /\ UNCHANGED <<req, toSrv, toJan, served, judged, start, slow, stored, dropped>>
        /\ logf' = [logf EXCEPT ![l] = "moved"]
        /\ jan' = [jan EXCEPT !.pc = "archive", !.ask = l, !.ids = jan.ids \cup {l}]
    BY DEF MoveLog, jReqVars
  <1> HIDE DEF l
  <1>2. jan' = [pc |-> "archive", ids |-> jan.ids \cup {l}, del |-> jan.del, ask |-> l]
    <2>1. \A x, y, z : [jan EXCEPT !.pc = x, !.ask = z, !.ids = y] =
                          [pc |-> x, ids |-> y, del |-> jan.del, ask |-> z]
      BY <1>0, JanFields, Zenon
    <2>2. [jan EXCEPT !.pc = "archive", !.ask = l, !.ids = jan.ids \cup {l}] =
            [pc |-> "archive", ids |-> jan.ids \cup {l}, del |-> jan.del, ask |-> l]
      BY <2>1, Zenon
    <2>3. QED BY <1>1, <2>2, Zenon
  <1>3. logf' \in [JLogs -> LogStates] /\ jan.pc \notin Waits \cup {"off"}
    BY <1>0, <1>1 DEF JType, Waits, LogStates
  <1>4. JType' /\ (slow' = 0 => InStep')
    BY <1>1, <1>2, <1>3, AsideKeeps
  <1>5. ASSUME NEW m \in JLogs
        PROVE  /\ logf'[m] \in {"saved", "removed"} => m \in stored \cup dropped
               /\ logf'[m] = "moved" => (jan'.pc = "archive" /\ jan'.ask = m) \/ m \in dropped
    <2>1. jan'.pc = "archive" /\ jan'.ask = l
      BY <1>2
    <2>2. CASE m = l
      BY <1>0, <1>1, <2>1, <2>2 DEF JType
    <2>3. CASE m # l
      BY <1>0, <1>1, <2>3 DEF JType, LogsInOrder
    <2>4. QED BY <2>2, <2>3
  <1>6. LogsInOrder'
    BY <1>1, <1>5 DEF LogsInOrder
  <1>7. QED BY <1>4, <1>6 DEF JInv

\* A log file is archived, or is not.
LEMMA ArchivingKeeps ==
    ASSUME JInv, try_archiving
    PROVE  JInv'
  <1>0. JType /\ LogsInOrder
    BY DEF JInv
  <1> DEFINE l == jan.ask
  <1>1. /\ jan.pc = "archive" /\ UNCHANGED <<req, toSrv, toJan, served, judged, start, slow>>
        /\ \/ logf' = [logf EXCEPT ![l] = "saved"] /\ l \in stored' \cup dropped'
           \/ logf' = [logf EXCEPT ![l] = "unsaved"]
        /\ stored \subseteq stored' /\ dropped \subseteq dropped'
        /\ jan' \in {[jan EXCEPT !.pc = "logs"], [Off EXCEPT !.pc = "idle"]}
    BY DEF try_archiving, jReqVars
  <1> HIDE DEF l
  <1>2. \/ jan' = [pc |-> "logs", ids |-> jan.ids, del |-> jan.del, ask |-> jan.ask]
        \/ jan' = [pc |-> "idle", ids |-> {}, del |-> {}, ask |-> 0]
    BY <1>0, <1>1, JanFields
  <1>3. logf' \in [JLogs -> LogStates] /\ jan.pc \notin Waits \cup {"off"}
    BY <1>0, <1>1 DEF JType, Waits, LogStates
  <1>4. JType' /\ (slow' = 0 => InStep')
    BY <1>1, <1>2, <1>3, AsideKeeps
  <1>5. ASSUME NEW m \in JLogs
        PROVE  /\ logf'[m] \in {"saved", "removed"} => m \in stored' \cup dropped'
               /\ logf'[m] = "moved" => m \in dropped'
    <2>1. CASE m = l
      BY <1>0, <1>1, <2>1 DEF JType
    <2>2. CASE m # l
      <3>1. logf'[m] = logf[m]
        BY <1>0, <1>1, <2>2 DEF JType
      <3>2. QED BY <1>0, <1>1, <2>2, <3>1 DEF LogsInOrder, l
    <2>3. QED BY <2>1, <2>2
  <1>6. LogsInOrder'
    BY <1>5 DEF LogsInOrder
  <1>7. QED BY <1>4, <1>6 DEF JInv

\* The log files beyond the number to keep are removed.
LEMMA RemoveKeeps ==
    ASSUME JInv, RemoveLogs
    PROVE  JInv'
  <1>0. JType /\ LogsInOrder
    BY DEF JInv
  <1>1. /\ jan.pc = "logs" /\ UNCHANGED <<req, toSrv, toJan, served, judged, start, slow, stored, dropped>>
        /\ logf' = [l \in JLogs |-> IF l \in Surplus THEN "removed" ELSE logf[l]]
        /\ jan' = [pc |-> "idle", ids |-> {}, del |-> {}, ask |-> 0]
    BY <1>0, JanFields DEF RemoveLogs, jReqVars
  <1>2. logf' \in [JLogs -> LogStates] /\ jan.pc \notin Waits \cup {"off"}
    BY <1>0, <1>1 DEF JType, Waits, LogStates
  <1>3. JType' /\ (slow' = 0 => InStep')
    BY <1>1, <1>2, AsideKeeps
  <1>4. Surplus \subseteq InDir
    BY DEF Surplus
  <1>5. ASSUME NEW m \in JLogs
        PROVE  /\ logf'[m] \in {"saved", "removed"} => m \in stored \cup dropped
               /\ logf'[m] = "moved" => m \in dropped
    <2>1. CASE m \in Surplus
      <3>1. logf[m] \in {"moved", "saved"} /\ logf'[m] = "removed"
        BY <1>1, <1>4, <2>1 DEF InDir
      <3>2. QED BY <1>0, <1>1, <3>1 DEF LogsInOrder
    <2>2. CASE m \notin Surplus
      <3>1. logf'[m] = logf[m]
        BY <1>1, <2>2
      <3>2. QED BY <1>0, <1>1, <3>1 DEF LogsInOrder
    <2>3. QED BY <2>1, <2>2
  <1>6. LogsInOrder'
    BY <1>1, <1>5 DEF LogsInOrder
  <1>7. QED BY <1>3, <1>6 DEF JInv

\* The events are asked for.
LEMMA AskEventsKeeps ==
    ASSUME JInv, AskEvents
    PROVE  JInv'
  <1>0. JType /\ LogsInOrder
    BY DEF JInv
  <1>1. /\ jan.pc = "idle" /\ UNCHANGED <<req, toJan, served, judged, start, slow, logf, stored, dropped>>
        /\ toSrv' = Append(toSrv, [name |-> "event-info-list", item |-> 0])
        /\ jan' = [pc |-> "ev", ids |-> jan.ids, del |-> jan.del, ask |-> jan.ask]
    BY <1>0, JanFields DEF AskEvents, Ask, jFileVars
  <1>2. JType'
    BY <1>0, <1>1 DEF JType, Pcs, Waits
  <1>3. ASSUME slow = 0 PROVE InStep'
    <2>1. InStep /\ Quiet
      BY <1>1, <1>3 DEF JInv, InStep, Waits
    <2>2. Asked("event-info-list", 0)'
      BY <1>1, <2>1 DEF Quiet, Asked
    <2>3. QED BY <1>1, <2>1, <2>2 DEF InStep, Waits
  <1>4. LogsInOrder'
    BY <1>0, <1>1, LogsAlone
  <1>5. QED BY <1>1, <1>2, <1>3, <1>4 DEF JInv

\* The events come, or the wait for them ends.
LEMMA GetEventsKeeps ==
    ASSUME JInv, ReceiveEvents
    PROVE  JInv'
  <1>0. JType /\ LogsInOrder
    BY DEF JInv
  <1>1. /\ jan.pc = "ev" /\ UNCHANGED <<req, toSrv, served, judged, start, logf, stored, dropped>>
        /\ jan' = [pc |-> "idle", ids |-> jan.ids, del |-> jan.del, ask |-> jan.ask]
        /\ \/ toJan # <<>> /\ toJan' = Tail(toJan) /\ slow' = slow
           \/ slow' = slow + 1
    BY <1>0, JanFields DEF ReceiveEvents, Answered, TimesOut, jFileVars
  <1>2. JType'
    BY <1>0, <1>1 DEF JType, Pcs, Waits
  <1>3. ASSUME slow' = 0 PROVE InStep'
    <2>1. slow = 0 /\ toJan # <<>> /\ toJan' = Tail(toJan)
      BY <1>0, <1>1, <1>3 DEF JType
    <2>2. InStep
      BY <2>1 DEF JInv
    <2>3. \E kind \in {"events", "none"} : Told(kind, {0})
      BY <1>1, <2>1, <2>2 DEF InStep, Asked
    <2>4. Quiet'
      BY <1>1, <2>1, <2>3 DEF Told, Quiet
    <2>5. QED BY <1>1, <2>2, <2>4 DEF InStep, Waits
  <1>4. LogsInOrder'
    BY <1>0, <1>1, LogsAlone
  <1>5. QED BY <1>2, <1>3, <1>4 DEF JInv

\* The next cycle is due.
LEMMA EndIdleKeeps ==
    ASSUME JInv, EndIdle
    PROVE  JInv'
  <1>0. JType /\ LogsInOrder
    BY DEF JInv
  <1>1. /\ jan.pc = "idle" /\ jan' = [pc |-> "cycle", ids |-> {}, del |-> {}, ask |-> 0]
        /\ UNCHANGED <<req, toSrv, toJan, served, judged, start, slow, logf, stored, dropped>>
    BY <1>0, JanFields DEF EndIdle, jReqVars, jFileVars
  <1>2. JType'
    BY <1>0, <1>1 DEF JType, Pcs, Waits
  <1>3. ASSUME slow = 0 PROVE InStep'
    <2>1. InStep /\ Quiet
      BY <1>1, <1>3 DEF JInv, InStep, Waits
    <2>2. Quiet'
      BY <1>1, <2>1 DEF Quiet
    <2>3. QED BY <1>1, <2>1, <2>2 DEF InStep, Waits
  <1>4. LogsInOrder'
    BY <1>0, <1>1, LogsAlone
  <1>5. QED BY <1>1, <1>2, <1>3, <1>4 DEF JInv

\* The process is killed.
LEMMA KillKeeps ==
    ASSUME JInv, KillJanitor
    PROVE  JInv'
  <1>0. JType /\ LogsInOrder
    BY DEF JInv
  <1>1. /\ jan.pc # "off" /\ jan' = [pc |-> "off", ids |-> {}, del |-> {}, ask |-> 0]
        /\ dropped' = IF jan.pc = "archive" THEN dropped \cup {jan.ask} ELSE dropped
        /\ UNCHANGED <<req, toSrv, toJan, served, judged, start, slow, logf, stored>>
    BY DEF KillJanitor, Off, jReqVars
  <1>2. JType'
    BY <1>0, <1>1 DEF JType, Pcs, Waits
  <1>3. ASSUME slow = 0 PROVE InStep'
    <2>1. InStep
      BY <1>3 DEF JInv
    <2>2. LeftOver
      <3>1. CASE jan.pc \notin Waits
        BY <1>1, <2>1, <3>1 DEF InStep, LeftOver
      <3>2. CASE jan.pc = "ids"
        BY <2>1, <3>2 DEF InStep, LeftOver, Told
      <3>3. CASE jan.pc = "req"
        <4>1. jan.ask \in JReqs
          BY <2>1, <3>3 DEF InStep, InDb
        <4>2. QED BY <2>1, <3>3, <4>1 DEF InStep, LeftOver, Told
      <3>4. CASE jan.pc = "del"
        BY <2>1, <3>4 DEF InStep, LeftOver, Told
      <3>5. CASE jan.pc = "ev"
        BY <2>1, <3>5 DEF InStep, LeftOver, Told
      <3>6. QED BY <3>1, <3>2, <3>3, <3>4, <3>5 DEF Waits
    <2>3. LeftOver'
      BY <1>1, <2>2 DEF LeftOver, Quiet, Asked
    <2>4. QED BY <1>1, <2>1, <2>3 DEF InStep, Waits
  <1>4. LogsInOrder'
    BY <1>0, <1>1 DEF LogsInOrder
  <1>5. QED BY <1>1, <1>2, <1>3, <1>4 DEF JInv

\* The process is started.
LEMMA RestartKeeps ==
    ASSUME JInv, startJanitorThread
    PROVE  JInv'
  <1>0. JType /\ LogsInOrder
    BY DEF JInv
  <1>1. /\ jan.pc = "off" /\ jan' = [pc |-> "cycle", ids |-> {}, del |-> {}, ask |-> 0]
        /\ toSrv' = <<>> /\ toJan' = <<>> /\ served' = TRUE /\ start' = {}
        /\ UNCHANGED <<req, judged, slow, logf, stored, dropped>>
    BY <1>0, JanFields DEF startJanitorThread, jFileVars
  <1>2. JType'
    BY <1>0, <1>1 DEF JType, Pcs, Waits
  <1>3. InStep'
    BY <1>1 DEF InStep, Waits, Quiet
  <1>4. LogsInOrder'
    BY <1>0, <1>1, LogsAlone
  <1>5. QED BY <1>2, <1>3, <1>4 DEF JInv

\* The other users of the files.
LEMMA OthersKeep ==
    ASSUME JInv, TempFile \/ \E l \in JLogs : _rollover(l)
    PROVE  JInv'
  <1>0. JType /\ LogsInOrder
    BY DEF JInv
  <1>1. JSame /\ UNCHANGED <<req, start, stored, dropped>>
    BY DEF JSame, TempFile, _rollover, jReqVars
  <1>2. logf' = logf \/ \E l \in JLogs : logf[l] = "none" /\ logf' = [logf EXCEPT ![l] = "unsaved"]
    BY DEF TempFile, _rollover
  <1>3. JType'
    BY <1>0, <1>1, <1>2 DEF JType, JSame, LogStates
  <1>4. slow' = 0 => InStep'
    BY <1>1 DEF JInv, JSame, InStep, Quiet, LeftOver, Asked, Told, InDb
  <1>5. LogsInOrder'
    BY <1>0, <1>1, <1>2 DEF JSame, LogsInOrder, JType
  <1>6. QED BY <1>3, <1>4, <1>5 DEF JInv

\* A state in which nothing has changed.
LEMMA JStutters ==
    ASSUME JInv, UNCHANGED jVars
    PROVE  JInv'
  BY DEF jVars, JInv, JType, InStep, LogsInOrder, Quiet, LeftOver, Asked, Told, InDb

\* Nothing is under way before the first cycle.
LEMMA JInitially ==
    ASSUME JInit
    PROVE  JInv
  <1>1. jan = [pc |-> "cycle", ids |-> {}, del |-> {}, ask |-> 0]
    BY DEF JInit, Off
  <1>2. JType
    BY <1>1 DEF JInit, JType, Pcs, ReqStates, LogStates
  <1>3. InStep
    BY <1>1 DEF JInit, InStep, Quiet, Waits
  <1>4. LogsInOrder
    BY DEF JInit, LogsInOrder
  <1>5. QED BY <1>2, <1>3, <1>4 DEF JInv

\* The steps of the Janitor and of the server keep the invariant.
LEMMA JStepsKeep ==
    ASSUME JInv, [JNext]_jVars
    PROVE  JInv'
  <1>1. CASE \E r \in JReqs : addRequestToDb(r) \/ updateRequestDb(r) \/ Expire(r)
    BY <1>1, RequestsKeep
  <1>2. CASE triggerEvents
    BY <1>2, EventsKeep
  <1>3. CASE janitorQueThread
    BY <1>3, QueueKeeps
  <1>4. CASE JanitorCycle \/ ReceiveIds \/ AskRequest \/ ReceiveRequest \/ ReceiveDeleted
    BY <1>4, CycleKeeps, IdsKeep, AskKeeps, RequestKeeps, DeletedKeeps
  <1>5. CASE checkCleanDirs \/ CheckEmptyDir \/ RemoveDir
    BY <1>5, CleanKeeps
  <1>6. CASE MoveLog \/ try_archiving \/ RemoveLogs
    BY <1>6, MoveKeeps, ArchivingKeeps, RemoveKeeps
  <1>7. CASE AskEvents \/ ReceiveEvents \/ EndIdle
    BY <1>7, AskEventsKeeps, GetEventsKeeps, EndIdleKeeps
  <1>8. CASE KillJanitor \/ startJanitorThread
    BY <1>8, KillKeeps, RestartKeeps
  <1>9. CASE TempFile \/ \E l \in JLogs : _rollover(l)
    BY <1>9, OthersKeep
  <1>10. CASE UNCHANGED jVars
    BY <1>10, JStutters
  <1>11. QED BY <1>1, <1>2, <1>3, <1>4, <1>5, <1>6, <1>7, <1>8, <1>9, <1>10 DEF JNext

\* What the invariant says of the requests, of the log files and of the queues.
LEMMA JInvSuffices ==
    ASSUME JInv
    PROVE  JanitorCareful
  <1>1. OnlyOldRequestsDeleted /\ OldRequestsDeleted
    BY DEF JInv, InStep, OnlyOldRequestsDeleted, OldRequestsDeleted
  <1>2. LogsArchived
    BY DEF JInv, LogsInOrder, LogsArchived
  <1>3. ASSUME slow = 0 PROVE served /\ Len(toSrv) + Len(toJan) <= 1
    <2>1. InStep /\ JType
      BY <1>3 DEF JInv
    <2>2. Quiet => Len(toSrv) + Len(toJan) <= 1
      BY DEF Quiet
    <2>3. \A name, item : Asked(name, item) => Len(toSrv) + Len(toJan) <= 1
      BY DEF Asked
    <2>4. \A kind, val : Told(kind, val) => Len(toSrv) + Len(toJan) <= 1
      BY DEF Told
    <2>5. LeftOver => Len(toSrv) + Len(toJan) <= 1
      <3>1. toSrv = <<>> /\ Len(toJan) = 1 => Len(toSrv) + Len(toJan) <= 1
        OBVIOUS
      <3>2. QED BY <2>2, <2>3, <3>1, Zenon DEF LeftOver
    <2>6. QED BY <2>1, <2>2, <2>3, <2>4, <2>5 DEF InStep, JType, Pcs, Waits
  <1>4. ServedWhileInStep
    BY <1>3 DEF ServedWhileInStep
  <1>5. QED BY <1>1, <1>2, <1>4 DEF JanitorCareful

\* For every number of requests, log files, cycles and waits that end early: the Janitor
\* (ngamsJanitorThread.py and its plug-ins) deletes the requests that were old when it looked
\* at them and no other, removes no log file before its archiving came to an end, and takes
\* each answer for its own question until a wait ends early.
THEOREM JanitorCarefulCorrect == JSpec => []JanitorCareful
  <1>1. JInit => JInv
    BY JInitially
  <1>2. JInv /\ [JNext]_jVars => JInv'
    BY JStepsKeep
  <1>3. JInv => JanitorCareful
    BY JInvSuffices
  <1>4. QED BY <1>1, <1>2, <1>3, PTL DEF JSpec

\* The temporary files, as a record.
TempType == tmpf = [file |-> tmpf.file, inner |-> tmpf.inner, dir |-> tmpf.dir]

\* The fields of the record after a step.
LEMMA TempFields ==
    ASSUME TempType, NEW f, NEW i, NEW d, NEW t
    PROVE  /\ t = [tmpf EXCEPT !.file = f, !.inner = i] =>
                t = [file |-> f, inner |-> i, dir |-> tmpf.dir]
           /\ t = [tmpf EXCEPT !.dir = d, !.inner = i] =>
                t = [file |-> tmpf.file, inner |-> i, dir |-> d]
  <1>1. /\ [tmpf EXCEPT !.file = f] = [file |-> f, inner |-> tmpf.inner, dir |-> tmpf.dir]
        /\ [tmpf EXCEPT !.dir = d] = [file |-> tmpf.file, inner |-> tmpf.inner, dir |-> d]
    BY DEF TempType
  <1>2. /\ [tmpf EXCEPT !.file = f, !.inner = i] = [[tmpf EXCEPT !.file = f] EXCEPT !.inner = i]
        /\ [tmpf EXCEPT !.dir = d, !.inner = i] = [[tmpf EXCEPT !.dir = d] EXCEPT !.inner = i]
    OBVIOUS
  <1>3. /\ [[file |-> f, inner |-> tmpf.inner, dir |-> tmpf.dir] EXCEPT !.inner = i]
             = [file |-> f, inner |-> i, dir |-> tmpf.dir]
        /\ [[file |-> tmpf.file, inner |-> tmpf.inner, dir |-> d] EXCEPT !.inner = i]
             = [file |-> tmpf.file, inner |-> i, dir |-> d]
    OBVIOUS
  <1>4. QED BY <1>1, <1>2, <1>3, Zenon

\* What a step may do to the temporary files.
Spared == /\ tmpf'.file = "removed" => tmpf.file \in {"stale", "removed"}
          /\ tmpf'.inner = "removed" => tmpf.inner \in {"stale", "removed"} \/ caught'

\* Every step of the Janitor and of the other users of the directories.
LEMMA TempSteps ==
    ASSUME TempType, [JNext]_jVars
    PROVE  TempType' /\ (JNext => Spared)
  <1>1. ASSUME tmpf' = tmpf PROVE TempType' /\ Spared
    BY <1>1 DEF TempType, Spared
  <1>2. CASE checkCleanDirs
    <2>1. PICK f, i : /\ tmpf' = [tmpf EXCEPT !.file = f, !.inner = i]
                      /\ f = "removed" => tmpf.file \in {"stale", "removed"}
                      /\ i = "removed" => tmpf.inner \in {"stale", "removed"}
      BY <1>2 DEF checkCleanDirs, RemovesFile
    <2>2. tmpf' = [file |-> f, inner |-> i, dir |-> tmpf.dir]
      BY <2>1, TempFields
    <2>3. QED BY <2>1, <2>2 DEF TempType, Spared
  <1>3. CASE RemoveDir
    <2>1. PICK i : /\ tmpf' = [tmpf EXCEPT !.dir = "gone", !.inner = i]
                   /\ i = "removed" => tmpf.inner \in {"used", "stale", "removed"}
                   /\ caught' = (caught \/ tmpf.inner = "used")
      BY <1>3 DEF RemoveDir
    <2>2. tmpf' = [file |-> tmpf.file, inner |-> i, dir |-> "gone"]
      BY <2>1, TempFields
    <2>3. QED BY <2>1, <2>2 DEF TempType, Spared
  <1>4. CASE TempFile
    <2>1. tmpf' \in {[tmpf EXCEPT !.inner = "used"], [tmpf EXCEPT !.dir = "old"],
                     [tmpf EXCEPT !.file = "stale"], [tmpf EXCEPT !.inner = "stale"]}
      BY <1>4 DEF TempFile
    <2>2. TempType'
      BY <2>1 DEF TempType
    <2>3. Spared
      BY <2>1 DEF TempType, Spared
    <2>4. QED BY <2>2, <2>3
  <1>5. CASE /\ [JNext]_jVars /\ ~checkCleanDirs /\ ~RemoveDir /\ ~TempFile
    <2>1. tmpf' = tmpf
      BY <1>5 DEF JNext, addRequestToDb, updateRequestDb, Expire, triggerEvents, janitorQueThread,
            JanitorCycle, ReceiveIds, AskRequest, ReceiveRequest, ReceiveDeleted, CheckEmptyDir, MoveLog,
            try_archiving, RemoveLogs, AskEvents, ReceiveEvents, EndIdle, KillJanitor,
            startJanitorThread, _rollover, jFileVars, jVars
    <2>2. QED BY <1>1, <2>1
  <1>6. QED BY <1>2, <1>3, <1>4, <1>5

\* For every behaviour of the Janitor and of the users of the temporary directories:
\* checkCleanDirs removes a file only if it was not used for long, or if it was written into
\* an old directory after the Janitor had found that empty.
THEOREM TempFilesSpared == JSpec => TempFileKept
  <1>1. JInit => TempType
    BY DEF JInit, TempType
  <1>2. TempType /\ [JNext]_jVars => TempType'
    BY TempSteps
  <1>3. TempType /\ [JNext]_jVars => [Spared]_jVars
    BY TempSteps
  <1>4. QED BY <1>1, <1>2, <1>3, PTL DEF JSpec, TempFileKept, Spared

-----------------------------------------------------------------------------
(* The start and stop of the servers.                                      *)


MainSteps == {"none", "check", "create", "online", "bind", "serving", "ended"}
ShutSteps == {"none", "stop", "offline", "row", "unlink", "ended"}
CtlSteps == {"idle", "stop", "wait", "start", "acquire", "done"}

SelfType == [daemon : BOOLEAN, force : BOOLEAN, mine : BOOLEAN, online : BOOLEAN]
CtlType == [step : CtlSteps, cmd : {"none", "start", "stop", "restart"}, force : BOOLEAN,
            pid : StProcs \cup {StNone}, res : 0 .. 3]
OddType == [two : BOOLEAN, refused : BOOLEAN, early : SUBSET StProcs,
            killed : SUBSET StProcs, stuck : SUBSET StProcs]

\* The shape of the state.
StType ==
    /\ stMain \in [StProcs -> MainSteps]
    /\ stShut \in [StProcs -> [Shutters -> ShutSteps]]
    /\ stSelf \in [StProcs -> SelfType]
    /\ stPid \in StProcs \cup {StNone}
    /\ stLock \in StProcs \cup {StNone}
    /\ stPort \in StProcs \cup {StNone}
    /\ stCtl \in [StCtls -> CtlType]
    /\ stOdd \in OddType

\* A Shutdown thread that still has something to do.
Busy(p, s) == stShut[p][s] \in {"stop", "offline", "row", "unlink"}

\* The port is let go with the main thread's loop.
PortServes == \A p \in StProcs : stPort = p => stMain[p] = "serving"

\* How far a process got says whether it wrote the PID file and went Online.
MineByStep ==
    \A p \in StProcs :
        /\ stMain[p] \in {"online", "bind", "serving"} => stSelf[p].mine
        /\ stSelf[p].mine => stMain[p] \notin {"none", "check", "create"}
        /\ stSelf[p].online => stSelf[p].mine /\ stMain[p] # "online"
        /\ stPid = p => stSelf[p].mine

\* The Shutdown thread of a failed start-up begins when the main thread ends; the one
\* of a signal finds the main thread serving, and ends it, or came too early.
ShutByStep ==
    \A p \in StProcs :
        /\ stMain[p] = "none" => \A s \in Shutters : stShut[p][s] = "none"
        /\ stShut[p]["failure"] # "none" => stMain[p] = "ended"
        /\ stShut[p]["signal"] # "none" => stMain[p] \in {"serving", "ended"} \/ p \in stOdd.early
        /\ stShut[p]["signal"] \notin {"none", "stop"} => stMain[p] = "ended" \/ p \in stOdd.early

\* A process whose main thread ended and that has its PID file is about to remove it.
LeavingUnlinks ==
    \A p \in StProcs :
        stMain[p] = "ended" /\ stPid = p /\ p \notin stOdd.killed \cup stOdd.stuck
            => \E s \in Shutters : Busy(p, s)

\* The lock file and the commands name processes that were started.
NamedStarted ==
    /\ stLock # StNone => stMain[stLock] # "none"
    /\ \A c \in StCtls : stCtl[c].pid # StNone => stMain[stCtl[c].pid] # "none"

\* A stop ends, successfully only if the process it waited for is gone.
StopAnswers ==
    \A c \in StCtls :
        /\ stCtl[c].cmd = "stop" => stCtl[c].step \in {"stop", "wait", "done"}
        /\ stCtl[c].step = "wait" => stCtl[c].pid # StNone
        /\ stCtl[c].step = "stop" => stCtl[c].pid = StNone
        /\ stCtl[c].step = "done" /\ stCtl[c].cmd = "stop" /\ stCtl[c].res = 0 /\ stCtl[c].pid # StNone
              => Dead(stCtl[c].pid)

\* Without the causes of an overlap the PID file names the one instance that is up or
\* going down, and a process that may write it finds nobody.
Exclusive ==
    ~Overlap =>
        \A p \in StProcs :
            /\ ~stSelf[p].force
            /\ stSelf[p].mine /\ ~Dead(p) => stPid = p
            /\ stMain[p] = "create" => stPid = StNone /\ \A q \in StProcs : stMain[q] = "create" => q = p
            /\ ~(Busy(p, "signal") /\ Busy(p, "failure"))

\* If no instance was refused either, only instances that were up shut down, and the
\* one that is up and Online is so in the database.
OnlineTold ==
    ~Overlap /\ ~stOdd.refused =>
        \A p \in StProcs :
            /\ \A s \in Shutters : Busy(p, s) => stSelf[p].mine
            /\ stMain[p] \in {"bind", "serving"} /\ stSelf[p].online /\ ~ToldToStop(p)
                  => stRow = "ONLINE" /\ stMounted

\* The inductive invariant.
StInv ==
    /\ StType /\ PortServes /\ MineByStep /\ ShutByStep /\ LeavingUnlinks /\ NamedStarted
    /\ StopAnswers /\ Exclusive /\ OnlineTold

-----------------------------------------------------------------------------
(* Each step keeps the invariant: what it does, then each conjunct.        *)

\* A command that goes on to another step keeps the process it is about.
LEMMA CtlWritten ==
    ASSUME StType, NEW c \in StCtls, NEW l \in CtlSteps, NEW r \in 0 .. 3,
           stCtl' = [stCtl EXCEPT ![c] = [@ EXCEPT !.step = l, !.res = r]]
    PROVE  /\ stCtl' \in [StCtls -> CtlType] /\ \A d \in StCtls : d # c => stCtl'[d] = stCtl[d]
           /\ stCtl'[c].pid = stCtl[c].pid /\ stCtl'[c].cmd = stCtl[c].cmd
           /\ stCtl'[c].step = l
  <1>1. stCtl[c] \in CtlType
    BY DEF StType
  <1>2. PICK n \in CtlType : n = [stCtl[c] EXCEPT !.step = l, !.res = r]
    BY <1>1 DEF CtlType
  <1>3. n.step = l /\ n.pid = stCtl[c].pid /\ n.cmd = stCtl[c].cmd
    BY <1>1, <1>2 DEF CtlType
  <1>4. stCtl' = [stCtl EXCEPT ![c] = n]
    BY <1>2, Zenon
  <1>5. QED BY <1>3, <1>4 DEF StType

\* And it notes its answer.
LEMMA ResWritten ==
    ASSUME StType, NEW c \in StCtls, NEW l, NEW r,
           stCtl' = [stCtl EXCEPT ![c] = [@ EXCEPT !.step = l, !.res = r]]
    PROVE  stCtl'[c].res = r
  BY DEF StType, CtlType

\* The PID file is written.
LEMMA PidFileStep ==
    ASSUME StInv, NEW p \in StProcs, pidFile(p)
    PROVE  StInv'
  <1> USE DEF StInv
  <1>1. /\ stMain[p] = "create" /\ stMain' = [stMain EXCEPT ![p] = "online"]
        /\ stPid' = p
        /\ UNCHANGED <<stShut, stLock, stPort, stRow, stMounted, stCtl, stOdd>>
    BY Zenon DEF pidFile, stHost
  <1>2. stSelf' = [stSelf EXCEPT ![p].mine = TRUE]
    BY Zenon DEF pidFile
  <1>3. /\ stSelf' \in [StProcs -> SelfType]
        /\ stSelf'[p].mine /\ stSelf'[p].force = stSelf[p].force /\ stSelf'[p].online = stSelf[p].online
        /\ \A q \in StProcs : q # p => stSelf'[q] = stSelf[q]
    BY <1>2 DEF StType, SelfType
  <1>4. StType'
    BY <1>1, <1>2, <1>3 DEF StType, MainSteps, ShutSteps, CtlSteps, Shutters
  <1>5. PortServes' /\ MineByStep' /\ ShutByStep' /\ NamedStarted'
    BY <1>1, <1>2, <1>3, StConfig DEF StType, PortServes, MineByStep, ShutByStep, NamedStarted,
       Shutters
  <1>6. LeavingUnlinks' /\ StopAnswers'
    BY <1>1, <1>2, <1>3, StConfig DEF StType, LeavingUnlinks, StopAnswers, Dead, Busy, Shutters,
       ShutByStep, MineByStep, NamedStarted
  <1>7. Exclusive'
    BY <1>1, <1>2, <1>3, StConfig DEF StType, Exclusive, Overlap, Dead, Busy, Shutters,
       MineByStep, ShutByStep
  <1>8. OnlineTold'
    BY <1>1, <1>2, <1>3, StConfig DEF StType, OnlineTold, Exclusive, Overlap, Dead, Busy,
       ToldToStop, Shutters, MineByStep, ShutByStep
  <1>9. QED BY <1>4, <1>5, <1>6, <1>7, <1>8

\* The host is brought Online.
LEMMA OnlineStep ==
    ASSUME StInv, NEW p \in StProcs, StOnline(p)
    PROVE  StInv'
  <1> USE DEF StInv
  <1>1. /\ stMain[p] = "online" /\ stMain' = [stMain EXCEPT ![p] = "bind"]
        /\ stMounted' = TRUE /\ stRow' = "ONLINE"
        /\ UNCHANGED <<stShut, stPid, stLock, stPort, stCtl, stOdd>>
    BY Zenon DEF StOnline
  <1>2. stSelf' = [stSelf EXCEPT ![p].online = TRUE]
    BY Zenon DEF StOnline
  <1>3. /\ stSelf' \in [StProcs -> SelfType]
        /\ stSelf'[p].mine = stSelf[p].mine /\ stSelf'[p].force = stSelf[p].force /\ stSelf'[p].online
        /\ \A q \in StProcs : q # p => stSelf'[q] = stSelf[q]
    BY <1>2 DEF StType, SelfType
  <1>4. StType'
    BY <1>1, <1>2, <1>3 DEF StType, MainSteps, ShutSteps, CtlSteps, Shutters
  <1>5. PortServes' /\ MineByStep' /\ ShutByStep' /\ NamedStarted'
    BY <1>1, <1>2, <1>3, StConfig DEF StType, PortServes, MineByStep, ShutByStep, NamedStarted,
       Shutters
  <1>6. LeavingUnlinks' /\ StopAnswers'
    BY <1>1, <1>2, <1>3, StConfig DEF StType, LeavingUnlinks, StopAnswers, Dead, Busy, Shutters,
       ShutByStep, MineByStep, NamedStarted
  <1>7. Exclusive'
    BY <1>1, <1>2, <1>3, StConfig DEF StType, Exclusive, Overlap, Dead, Busy, Shutters,
       MineByStep, ShutByStep
  <1>8. OnlineTold'
    BY <1>1, <1>2, <1>3, StConfig DEF StType, OnlineTold, Exclusive, Overlap, Dead, Busy,
       ToldToStop, Shutters, MineByStep, ShutByStep
  <1>9. QED BY <1>4, <1>5, <1>6, <1>7, <1>8

\* The server starts without going Online.
LEMMA StandbyStep ==
    ASSUME StInv, NEW p \in StProcs, StStandby(p)
    PROVE  StInv'
  <1> USE DEF StInv
  <1>1. /\ stMain[p] = "online" /\ stMain' = [stMain EXCEPT ![p] = "bind"]
        /\ UNCHANGED <<stShut, stSelf, stPid, stLock, stPort, stRow, stMounted, stCtl, stOdd>>
    BY Zenon DEF StStandby, stHost
  <1>2. StType'
    BY <1>1 DEF StType, MainSteps, ShutSteps, CtlSteps, Shutters
  <1>3. PortServes' /\ MineByStep' /\ ShutByStep' /\ NamedStarted'
    BY <1>1, StConfig DEF StType, PortServes, MineByStep, ShutByStep, NamedStarted, Shutters
  <1>4. LeavingUnlinks' /\ StopAnswers'
    BY <1>1, StConfig DEF StType, LeavingUnlinks, StopAnswers, Dead, Busy, Shutters, ShutByStep,
       MineByStep, NamedStarted
  <1>5. Exclusive'
    BY <1>1, StConfig DEF StType, Exclusive, Overlap, Dead, Busy, Shutters, MineByStep, ShutByStep
  <1>6. OnlineTold'
    BY <1>1, StConfig DEF StType, OnlineTold, Exclusive, Overlap, Dead, Busy, ToldToStop,
       Shutters, MineByStep, ShutByStep
  <1>7. QED BY <1>2, <1>3, <1>4, <1>5, <1>6

\* A start-up fails before the PID file is looked for.
LEMMA LoadFailsStep ==
    ASSUME StInv, NEW p \in StProcs, StLoadFails(p)
    PROVE  StInv'
  <1> USE DEF StInv
  <1>1. /\ stMain[p] = "check"
        /\ stMain' = [stMain EXCEPT ![p] = "ended"]
        /\ stShut' = [stShut EXCEPT ![p]["failure"] = "stop"]
        /\ stLock' \in {stLock, StNone}
        /\ UNCHANGED <<stSelf, stPid, stPort, stRow, stMounted, stCtl>>
    BY DEF StLoadFails, StFail, terminate, Leave, stHost
  <1>2. stOdd' = [stOdd EXCEPT !.refused = TRUE]
    BY Zenon DEF StLoadFails
  <1>3. /\ stOdd' \in OddType /\ stOdd'.two = stOdd.two /\ stOdd'.refused /\ stOdd'.early = stOdd.early
        /\ stOdd'.killed = stOdd.killed /\ stOdd'.stuck = stOdd.stuck
    BY <1>2 DEF StType, OddType
  <1>4. StType'
    BY <1>1, <1>2, <1>3 DEF StType, MainSteps, ShutSteps, CtlSteps, Shutters
  <1>5. PortServes' /\ MineByStep' /\ ShutByStep' /\ NamedStarted'
    BY <1>1, <1>2, <1>3, StConfig DEF StType, PortServes, MineByStep, ShutByStep, NamedStarted,
       Shutters
  <1>6. LeavingUnlinks' /\ StopAnswers'
    BY <1>1, <1>2, <1>3, StConfig DEF StType, LeavingUnlinks, StopAnswers, Dead, Busy, Shutters,
       ShutByStep, MineByStep, NamedStarted
  <1>7. Exclusive'
    BY <1>1, <1>2, <1>3, StConfig DEF StType, Exclusive, Overlap, Dead, Busy, Shutters,
       MineByStep, ShutByStep
  <1>8. OnlineTold'
    BY <1>1, <1>2, <1>3, StConfig DEF StType, OnlineTold, Exclusive, Overlap, Dead, Busy,
       ToldToStop, Shutters, MineByStep, ShutByStep
  <1>9. QED BY <1>4, <1>5, <1>6, <1>7, <1>8

\* A start-up finds a PID file and fails.
LEMMA RefusedStep ==
    ASSUME StInv, NEW p \in StProcs, handleStartUp(p), ~FreeToStart(p)
    PROVE  StInv'
  <1> USE DEF StInv
  <1>1. /\ stMain[p] = "check"
        /\ stMain' = [stMain EXCEPT ![p] = "ended"]
        /\ stShut' = [stShut EXCEPT ![p]["failure"] = "stop"]
        /\ stLock' \in {stLock, StNone}
        /\ UNCHANGED <<stSelf, stPid, stPort, stRow, stMounted, stCtl>>
    BY DEF handleStartUp, StFail, terminate, Leave, stHost
  <1>2. stOdd' = [stOdd EXCEPT !.refused = TRUE]
    BY Zenon DEF handleStartUp
  <1>3. /\ stOdd' \in OddType /\ stOdd'.two = stOdd.two /\ stOdd'.refused /\ stOdd'.early = stOdd.early
        /\ stOdd'.killed = stOdd.killed /\ stOdd'.stuck = stOdd.stuck
    BY <1>2 DEF StType, OddType
  <1>4. StType'
    BY <1>1, <1>2, <1>3 DEF StType, MainSteps, ShutSteps, CtlSteps, Shutters
  <1>5. PortServes' /\ MineByStep' /\ ShutByStep' /\ NamedStarted'
    BY <1>1, <1>2, <1>3, StConfig DEF StType, PortServes, MineByStep, ShutByStep, NamedStarted,
       Shutters
  <1>6. LeavingUnlinks' /\ StopAnswers'
    BY <1>1, <1>2, <1>3, StConfig DEF StType, LeavingUnlinks, StopAnswers, Dead, Busy, Shutters,
       ShutByStep, MineByStep, NamedStarted
  <1>7. Exclusive'
    BY <1>1, <1>2, <1>3, StConfig DEF StType, Exclusive, Overlap, Dead, Busy, Shutters,
       MineByStep, ShutByStep
  <1>8. OnlineTold'
    BY <1>1, <1>2, <1>3, StConfig DEF StType, OnlineTold, Exclusive, Overlap, Dead, Busy,
       ToldToStop, Shutters, MineByStep, ShutByStep
  <1>9. QED BY <1>4, <1>5, <1>6, <1>7, <1>8

\* A start-up finds no PID file, or is forced; the ghost notes that another is about
\* to write one.
LEMMA AdmittedStep ==
    ASSUME StInv, NEW p \in StProcs, handleStartUp(p), FreeToStart(p)
    PROVE  StInv'
  <1> USE DEF StInv
  <1>1. /\ stMain[p] = "check" /\ stMain' = [stMain EXCEPT ![p] = "create"]
        /\ UNCHANGED <<stShut, stSelf, stPid, stLock, stPort, stRow, stMounted, stCtl>>
    BY Zenon DEF handleStartUp, stHost
  <1>2. PICK b \in BOOLEAN : b = (stOdd.two \/ \E q \in StProcs : stMain[q] = "create")
    OBVIOUS
  <1>3. stOdd' = [stOdd EXCEPT !.two = b]
    BY <1>2, Zenon DEF handleStartUp
  <1>4. /\ stOdd' \in OddType /\ stOdd'.refused = stOdd.refused /\ stOdd'.early = stOdd.early
        /\ stOdd'.killed = stOdd.killed /\ stOdd'.stuck = stOdd.stuck
        /\ stOdd'.two = b
    BY <1>2, <1>3 DEF StType, OddType
  <1>5. stOdd'.two <=> (stOdd.two \/ \E q \in StProcs : stMain[q] = "create")
    BY <1>2, <1>4, Zenon
  <1>6. stSelf[p].force \/ stPid = StNone
    BY DEF FreeToStart
  <1>7. StType'
    BY <1>1, <1>2, <1>3, <1>4, <1>5, <1>6 DEF StType, MainSteps, ShutSteps, CtlSteps, Shutters
  <1>8. PortServes' /\ MineByStep' /\ ShutByStep' /\ NamedStarted'
    BY <1>1, <1>2, <1>3, <1>4, <1>5, <1>6, StConfig DEF StType, PortServes, MineByStep,
       ShutByStep, NamedStarted, Shutters
  <1>9. LeavingUnlinks' /\ StopAnswers'
    BY <1>1, <1>2, <1>3, <1>4, <1>5, <1>6, StConfig DEF StType, LeavingUnlinks, StopAnswers,
       Dead, Busy, Shutters, ShutByStep, MineByStep, NamedStarted
  <1>10. Exclusive'
    BY <1>1, <1>2, <1>3, <1>4, <1>5, <1>6, StConfig DEF StType, Exclusive, Overlap, Dead, Busy,
       Shutters, MineByStep, ShutByStep
  <1>11. OnlineTold'
    BY <1>1, <1>2, <1>3, <1>4, <1>5, <1>6, StConfig DEF StType, OnlineTold, Exclusive, Overlap,
       Dead, Busy, ToldToStop, Shutters, MineByStep, ShutByStep
  <1>12. QED BY <1>7, <1>8, <1>9, <1>10, <1>11

\* Going Online fails and the server ends.
LEMMA OnlineFailsStep ==
    ASSUME StInv, NEW p \in StProcs, StOnlineFails(p, FALSE)
    PROVE  StInv'
  <1> USE DEF StInv
  <1>1. /\ stMain[p] = "online" /\ stMounted' = FALSE
        /\ stMain' = [stMain EXCEPT ![p] = "ended"]
        /\ stShut' = [stShut EXCEPT ![p]["failure"] = "stop"]
        /\ stLock' \in {stLock, StNone}
        /\ UNCHANGED <<stSelf, stPid, stPort, stRow, stCtl, stOdd>>
    BY DEF StOnlineFails, StFail, terminate, Leave
  <1>2. StType'
    BY <1>1 DEF StType, MainSteps, ShutSteps, CtlSteps, Shutters
  <1>3. PortServes' /\ MineByStep' /\ ShutByStep' /\ NamedStarted'
    BY <1>1, StConfig DEF StType, PortServes, MineByStep, ShutByStep, NamedStarted, Shutters
  <1>4. LeavingUnlinks' /\ StopAnswers'
    BY <1>1, StConfig DEF StType, LeavingUnlinks, StopAnswers, Dead, Busy, Shutters, ShutByStep,
       MineByStep, NamedStarted
  <1>5. Exclusive'
    BY <1>1, StConfig DEF StType, Exclusive, Overlap, Dead, Busy, Shutters, MineByStep, ShutByStep
  <1>6. OnlineTold'
    BY <1>1, StConfig DEF StType, OnlineTold, Exclusive, Overlap, Dead, Busy, ToldToStop,
       Shutters, MineByStep, ShutByStep
  <1>7. QED BY <1>2, <1>3, <1>4, <1>5, <1>6

\* Going Online fails and the server goes on Offline.
LEMMA OfflineStartStep ==
    ASSUME StInv, NEW p \in StProcs, StOnlineFails(p, TRUE)
    PROVE  StInv'
  <1> USE DEF StInv
  <1>1. /\ stMain[p] = "online" /\ stMounted' = FALSE /\ stMain' = [stMain EXCEPT ![p] = "bind"]
        /\ UNCHANGED <<stShut, stLock, stSelf, stPid, stPort, stRow, stCtl, stOdd>>
    BY Zenon DEF StOnlineFails
  <1>2. StType'
    BY <1>1 DEF StType, MainSteps, ShutSteps, CtlSteps, Shutters
  <1>3. PortServes' /\ MineByStep' /\ ShutByStep' /\ NamedStarted'
    BY <1>1, StConfig DEF StType, PortServes, MineByStep, ShutByStep, NamedStarted, Shutters
  <1>4. LeavingUnlinks' /\ StopAnswers'
    BY <1>1, StConfig DEF StType, LeavingUnlinks, StopAnswers, Dead, Busy, Shutters, ShutByStep,
       MineByStep, NamedStarted
  <1>5. Exclusive'
    BY <1>1, StConfig DEF StType, Exclusive, Overlap, Dead, Busy, Shutters, MineByStep, ShutByStep
  <1>6. OnlineTold'
    BY <1>1, StConfig DEF StType, OnlineTold, Exclusive, Overlap, Dead, Busy, ToldToStop,
       Shutters, MineByStep, ShutByStep
  <1>7. QED BY <1>2, <1>3, <1>4, <1>5, <1>6

\* The server takes the port.
LEMMA ServeStep ==
    ASSUME StInv, NEW p \in StProcs, serve(p), stPort = StNone
    PROVE  StInv'
  <1> USE DEF StInv
  <1>1. /\ stMain[p] = "bind" /\ stMain' = [stMain EXCEPT ![p] = "serving"] /\ stPort' = p
        /\ UNCHANGED <<stShut, stLock, stSelf, stPid, stRow, stMounted, stCtl, stOdd>>
    BY Zenon DEF serve, stHost
  <1>2. StType'
    BY <1>1 DEF StType, MainSteps, ShutSteps, CtlSteps, Shutters
  <1>3. PortServes' /\ MineByStep' /\ ShutByStep' /\ NamedStarted'
    BY <1>1, StConfig DEF StType, PortServes, MineByStep, ShutByStep, NamedStarted, Shutters
  <1>4. LeavingUnlinks' /\ StopAnswers'
    BY <1>1, StConfig DEF StType, LeavingUnlinks, StopAnswers, Dead, Busy, Shutters, ShutByStep,
       MineByStep, NamedStarted
  <1>5. Exclusive'
    BY <1>1, StConfig DEF StType, Exclusive, Overlap, Dead, Busy, Shutters, MineByStep, ShutByStep
  <1>6. OnlineTold'
    BY <1>1, StConfig DEF StType, OnlineTold, Exclusive, Overlap, Dead, Busy, ToldToStop,
       Shutters, MineByStep, ShutByStep
  <1>7. QED BY <1>2, <1>3, <1>4, <1>5, <1>6

\* The port is taken and the server ends.
LEMMA ServeFailsStep ==
    ASSUME StInv, NEW p \in StProcs, serve(p), stPort # StNone
    PROVE  StInv'
  <1> USE DEF StInv
  <1>1. /\ stMain[p] = "bind"
        /\ stMain' = [stMain EXCEPT ![p] = "ended"]
        /\ stShut' = [stShut EXCEPT ![p]["failure"] = "stop"]
        /\ stLock' \in {stLock, StNone}
        /\ UNCHANGED <<stPort, stSelf, stPid, stRow, stMounted, stCtl, stOdd>>
    BY DEF serve, StFail, terminate, Leave, stHost
  <1>2. StType'
    BY <1>1 DEF StType, MainSteps, ShutSteps, CtlSteps, Shutters
  <1>3. PortServes' /\ MineByStep' /\ ShutByStep' /\ NamedStarted'
    BY <1>1, StConfig DEF StType, PortServes, MineByStep, ShutByStep, NamedStarted, Shutters
  <1>4. LeavingUnlinks' /\ StopAnswers'
    BY <1>1, StConfig DEF StType, LeavingUnlinks, StopAnswers, Dead, Busy, Shutters, ShutByStep,
       MineByStep, NamedStarted
  <1>5. Exclusive'
    BY <1>1, StConfig DEF StType, Exclusive, Overlap, Dead, Busy, Shutters, MineByStep, ShutByStep
  <1>6. OnlineTold'
    BY <1>1, StConfig DEF StType, OnlineTold, Exclusive, Overlap, Dead, Busy, ToldToStop,
       Shutters, MineByStep, ShutByStep
  <1>7. QED BY <1>2, <1>3, <1>4, <1>5, <1>6

\* A server is started from the command line.
LEMMA StartStep ==
    ASSUME StInv, NEW p \in StProcs, NEW daemon \in BOOLEAN, NEW force \in BOOLEAN,
           StartAs(p, daemon, force), UNCHANGED <<stShut, stPid, stPort, stRow, stMounted, stCtl>>,
           stLock' = stLock
    PROVE  StInv'
  <1> USE DEF StInv
  <1>1. /\ stMain[p] = "none" /\ stMain' = [stMain EXCEPT ![p] = "check"]
        /\ UNCHANGED <<stShut, stPid, stPort, stRow, stMounted, stCtl>> /\ stLock' = stLock
    BY Zenon DEF StartAs
  <1>2. stSelf' = [stSelf EXCEPT ![p] = [daemon |-> daemon, force |-> force, mine |-> FALSE, online |-> FALSE]]
    BY Zenon DEF StartAs
  <1>3. /\ stSelf' \in [StProcs -> SelfType] /\ stSelf'[p].force = force /\ ~stSelf'[p].mine /\ ~stSelf'[p].online
        /\ \A q \in StProcs : q # p => stSelf'[q] = stSelf[q]
    BY <1>2 DEF StType, SelfType
  <1>4. PICK b \in BOOLEAN : b = (stOdd.two \/ force)
    OBVIOUS
  <1>5. stOdd' = [stOdd EXCEPT !.two = b]
    BY <1>4, Zenon DEF StartAs
  <1>6. /\ stOdd' \in OddType /\ stOdd'.refused = stOdd.refused /\ stOdd'.early = stOdd.early
        /\ stOdd'.killed = stOdd.killed /\ stOdd'.stuck = stOdd.stuck
        /\ stOdd'.two = b
    BY <1>4, <1>5 DEF StType, OddType
  <1>7. stOdd'.two <=> (stOdd.two \/ force)
    BY <1>4, <1>6, Zenon
  <1>8. StType'
    BY <1>1, <1>2, <1>3, <1>4, <1>5, <1>6, <1>7 DEF StType, MainSteps, ShutSteps, CtlSteps, Shutters
  <1>9. PortServes' /\ MineByStep' /\ ShutByStep' /\ NamedStarted'
    BY <1>1, <1>2, <1>3, <1>4, <1>5, <1>6, <1>7, StConfig DEF StType, PortServes, MineByStep,
       ShutByStep, NamedStarted, Shutters
  <1>10. LeavingUnlinks' /\ StopAnswers'
    BY <1>1, <1>2, <1>3, <1>4, <1>5, <1>6, <1>7, StConfig DEF StType, LeavingUnlinks,
       StopAnswers, Dead, Busy, Shutters, ShutByStep, MineByStep, NamedStarted
  <1>11. Exclusive'
    BY <1>1, <1>2, <1>3, <1>4, <1>5, <1>6, <1>7, StConfig DEF StType, Exclusive, Overlap, Dead,
       Busy, Shutters, MineByStep, ShutByStep
  <1>12. OnlineTold'
    BY <1>1, <1>2, <1>3, <1>4, <1>5, <1>6, <1>7, StConfig DEF StType, OnlineTold, Exclusive,
       Overlap, Dead, Busy, ToldToStop, Shutters, MineByStep, ShutByStep
  <1>13. QED BY <1>8, <1>9, <1>10, <1>11, <1>12

\* A signal starts the Shutdown thread; the ghost notes one that comes before the server serves.
LEMMA SignalStep ==
    ASSUME StInv, NEW p \in StProcs, stMain[p] # "none", ~Dead(p), ngamsExitHandler(p),
           UNCHANGED <<stMain, stSelf, stPid, stLock, stPort, stRow, stMounted>>,
           UNCHANGED stCtl
    PROVE  StInv'
  <1> USE DEF StInv
  <1>1. /\ stShut[p]["signal"] = "none" /\ stShut' = [stShut EXCEPT ![p]["signal"] = "stop"]
        /\ UNCHANGED <<stMain, stSelf, stPid, stLock, stPort, stRow, stMounted, stCtl>>
    BY Zenon DEF ngamsExitHandler
  <1>2. PICK S \in SUBSET StProcs : S = IF stMain[p] = "serving" THEN stOdd.early ELSE stOdd.early \cup {p}
    BY DEF StType, OddType
  <1>3. stOdd' = [stOdd EXCEPT !.early = S]
    BY <1>2, Zenon DEF ngamsExitHandler
  <1>4. /\ stOdd' \in OddType /\ stOdd'.two = stOdd.two /\ stOdd'.refused = stOdd.refused
        /\ stOdd'.early = S /\ stOdd'.killed = stOdd.killed /\ stOdd'.stuck = stOdd.stuck
    BY <1>2, <1>3 DEF StType, OddType
  <1>5. Overlap => Overlap'
    BY <1>2, <1>4 DEF Overlap
  <1>6. stMain[p] = "serving" \/ Overlap'
    BY <1>2, <1>4 DEF Overlap
  <1>7. StType'
    BY <1>1, <1>2, <1>3, <1>4, <1>5, <1>6 DEF StType, MainSteps, ShutSteps, CtlSteps, Shutters
  <1>8. PortServes' /\ MineByStep' /\ ShutByStep' /\ NamedStarted'
    BY <1>1, <1>2, <1>3, <1>4, <1>5, <1>6, StConfig DEF StType, PortServes, MineByStep,
       ShutByStep, NamedStarted, Shutters
  <1>9. LeavingUnlinks' /\ StopAnswers'
    BY <1>1, <1>2, <1>3, <1>4, <1>5, <1>6, StConfig DEF StType, LeavingUnlinks, StopAnswers,
       Dead, Busy, Shutters, ShutByStep, MineByStep, NamedStarted
  <1>10. Exclusive'
    BY <1>1, <1>2, <1>3, <1>4, <1>5, <1>6, StConfig DEF StType, Exclusive, Overlap, Dead, Busy,
       Shutters, MineByStep, ShutByStep
  <1>11. OnlineTold'
    BY <1>1, <1>2, <1>3, <1>4, <1>5, <1>6, StConfig DEF StType, OnlineTold, Exclusive, Overlap,
       Dead, Busy, ToldToStop, Shutters, MineByStep, ShutByStep
  <1>12. QED BY <1>7, <1>8, <1>9, <1>10, <1>11

\* A Shutdown thread stops the HTTP server, and with it the main thread if that is serving.
LEMMA StopServerStep ==
    ASSUME StInv, NEW p \in StProcs, NEW s \in Shutters, StStopServer(p, s), stMain[p] = "serving"
    PROVE  StInv'
  <1> USE DEF StInv
  <1>1. /\ stShut[p][s] = "stop" /\ stShut' = [stShut EXCEPT ![p][s] = "offline"]
        /\ stMain' = [stMain EXCEPT ![p] = "ended"] /\ stLock' \in {stLock, StNone}
        /\ UNCHANGED <<stSelf, stPid, stRow, stMounted, stCtl, stOdd>>
    BY DEF StStopServer, stopServer, Leave, stHost
  <1>2. stPort' = IF stPort = p THEN StNone ELSE stPort
    BY <1>1 DEF StStopServer, StType
  <1>3. StType'
    BY <1>1, <1>2 DEF StType, MainSteps, ShutSteps, CtlSteps, Shutters
  <1>4. PortServes' /\ MineByStep' /\ ShutByStep' /\ NamedStarted'
    BY <1>1, <1>2, StConfig DEF StType, PortServes, MineByStep, ShutByStep, NamedStarted, Shutters
  <1>5. LeavingUnlinks' /\ StopAnswers'
    BY <1>1, <1>2, StConfig DEF StType, LeavingUnlinks, StopAnswers, Dead, Busy, Shutters,
       ShutByStep, MineByStep, NamedStarted
  <1>6. Exclusive'
    BY <1>1, <1>2, StConfig DEF StType, Exclusive, Overlap, Dead, Busy, Shutters, MineByStep,
       ShutByStep
  <1>7. OnlineTold'
    BY <1>1, <1>2, StConfig DEF StType, OnlineTold, Exclusive, Overlap, Dead, Busy, ToldToStop,
       Shutters, MineByStep, ShutByStep
  <1>8. QED BY <1>3, <1>4, <1>5, <1>6, <1>7

\* A Shutdown thread finds no HTTP server to stop.
LEMMA StopNothingStep ==
    ASSUME StInv, NEW p \in StProcs, NEW s \in Shutters, StStopServer(p, s), stMain[p] # "serving"
    PROVE  StInv'
  <1> USE DEF StInv
  <1>1. /\ stShut[p][s] = "stop" /\ stShut' = [stShut EXCEPT ![p][s] = "offline"]
        /\ UNCHANGED <<stMain, stLock, stSelf, stPid, stRow, stMounted, stCtl, stOdd>>
    BY DEF StStopServer, stopServer, stHost
  <1>2. stPort' \in {stPort, StNone}
    BY DEF StStopServer
  <1>3. StType'
    BY <1>1, <1>2 DEF StType, MainSteps, ShutSteps, CtlSteps, Shutters
  <1>4. PortServes' /\ MineByStep' /\ ShutByStep' /\ NamedStarted'
    BY <1>1, <1>2, StConfig DEF StType, PortServes, MineByStep, ShutByStep, NamedStarted, Shutters
  <1>5. LeavingUnlinks' /\ StopAnswers'
    BY <1>1, <1>2, StConfig DEF StType, LeavingUnlinks, StopAnswers, Dead, Busy, Shutters,
       ShutByStep, MineByStep, NamedStarted
  <1>6. Exclusive'
    BY <1>1, <1>2, StConfig DEF StType, Exclusive, Overlap, Dead, Busy, Shutters, MineByStep,
       ShutByStep
  <1>7. OnlineTold'
    BY <1>1, <1>2, StConfig DEF StType, OnlineTold, Exclusive, Overlap, Dead, Busy, ToldToStop,
       Shutters, MineByStep, ShutByStep
  <1>8. QED BY <1>3, <1>4, <1>5, <1>6, <1>7

\* A Shutdown thread unmounts the disks.
LEMMA OfflineStep ==
    ASSUME StInv, NEW p \in StProcs, NEW s \in Shutters, StOffline(p, s)
    PROVE  StInv'
  <1> USE DEF StInv
  <1>1. /\ stShut[p][s] = "offline" /\ stShut' = [stShut EXCEPT ![p][s] = "row"]
        /\ UNCHANGED <<stMain, stSelf, stPid, stLock, stPort, stRow, stCtl, stOdd>>
    BY Zenon DEF StOffline
  <1>2. stSelf[p].online \/ stMounted' = stMounted
    BY DEF StOffline
  <1>3. StType'
    BY <1>1, <1>2 DEF StType, MainSteps, ShutSteps, CtlSteps, Shutters
  <1>4. PortServes' /\ MineByStep' /\ ShutByStep' /\ NamedStarted'
    BY <1>1, <1>2, StConfig DEF StType, PortServes, MineByStep, ShutByStep, NamedStarted, Shutters
  <1>5. LeavingUnlinks' /\ StopAnswers'
    BY <1>1, <1>2, StConfig DEF StType, LeavingUnlinks, StopAnswers, Dead, Busy, Shutters,
       ShutByStep, MineByStep, NamedStarted
  <1>6. Exclusive'
    BY <1>1, <1>2, StConfig DEF StType, Exclusive, Overlap, Dead, Busy, Shutters, MineByStep,
       ShutByStep
  <1>7. OnlineTold'
    BY <1>1, <1>2, StConfig DEF StType, OnlineTold, Exclusive, Overlap, Dead, Busy, ToldToStop,
       Shutters, MineByStep, ShutByStep
  <1>8. QED BY <1>3, <1>4, <1>5, <1>6, <1>7

\* A Shutdown thread writes the row of the host.
LEMMA HostRowStep ==
    ASSUME StInv, NEW p \in StProcs, NEW s \in Shutters, ngamsBaseExitHandler(p, s)
    PROVE  StInv'
  <1> USE DEF StInv
  <1>1. /\ stShut[p][s] = "row" /\ stShut' = [stShut EXCEPT ![p][s] = "unlink"]
        /\ UNCHANGED <<stMain, stSelf, stPid, stLock, stPort, stMounted, stCtl, stOdd>>
    BY Zenon DEF ngamsBaseExitHandler
  <1>2. StType'
    BY <1>1 DEF StType, MainSteps, ShutSteps, CtlSteps, Shutters
  <1>3. PortServes' /\ MineByStep' /\ ShutByStep' /\ NamedStarted'
    BY <1>1, StConfig DEF StType, PortServes, MineByStep, ShutByStep, NamedStarted, Shutters
  <1>4. LeavingUnlinks' /\ StopAnswers'
    BY <1>1, StConfig DEF StType, LeavingUnlinks, StopAnswers, Dead, Busy, Shutters, ShutByStep,
       MineByStep, NamedStarted
  <1>5. Exclusive'
    BY <1>1, StConfig DEF StType, Exclusive, Overlap, Dead, Busy, Shutters, MineByStep, ShutByStep
  <1>6. OnlineTold'
    BY <1>1, StConfig DEF StType, OnlineTold, Exclusive, Overlap, Dead, Busy, ToldToStop,
       Shutters, MineByStep, ShutByStep
  <1>7. QED BY <1>2, <1>3, <1>4, <1>5, <1>6

\* A Shutdown thread removes the PID file and ends.
LEMMA UnlinkStep ==
    ASSUME StInv, NEW p \in StProcs, NEW s \in Shutters, StUnlink(p, s)
    PROVE  StInv'
  <1> USE DEF StInv
  <1>1. /\ stShut[p][s] = "unlink" /\ stShut' = [stShut EXCEPT ![p][s] = "ended"]
        /\ UNCHANGED <<stMain, stSelf, stLock, stPort, stRow, stMounted, stCtl, stOdd>>
    BY Zenon DEF StUnlink, stHost
  <1>2. stPid' = IF stSelf[p].mine THEN StNone ELSE stPid
    BY DEF StUnlink, Unlink
  <1>3. ~Overlap => Dead(p)'
    BY <1>1 DEF StType, Exclusive, ShutByStep, Overlap, Dead, Busy, Shutters, ShutSteps
  <1>4. ~Overlap /\ stSelf[p].mine => stPid = p
    BY <1>1 DEF StType, Exclusive, Dead, Shutters
  <1>5. StType'
    BY <1>1, <1>2, <1>3, <1>4 DEF StType, MainSteps, ShutSteps, CtlSteps, Shutters
  <1>6. PortServes' /\ MineByStep' /\ ShutByStep' /\ NamedStarted'
    BY <1>1, <1>2, <1>3, <1>4, StConfig DEF StType, PortServes, MineByStep, ShutByStep,
       NamedStarted, Shutters
  <1>7. LeavingUnlinks' /\ StopAnswers'
    BY <1>1, <1>2, <1>3, <1>4, StConfig DEF StType, LeavingUnlinks, StopAnswers, Dead, Busy,
       Shutters, ShutByStep, MineByStep, NamedStarted
  <1>8. Exclusive'
    BY <1>1, <1>2, <1>3, <1>4, StConfig DEF StType, Exclusive, Overlap, Dead, Busy, Shutters,
       MineByStep, ShutByStep
  <1>9. OnlineTold'
    BY <1>1, <1>2, <1>3, <1>4, StConfig DEF StType, OnlineTold, Exclusive, Overlap, Dead, Busy,
       ToldToStop, Shutters, MineByStep, ShutByStep
  <1>10. QED BY <1>5, <1>6, <1>7, <1>8, <1>9

\* A Shutdown thread fails.
LEMMA ShutdownFailsStep ==
    ASSUME StInv, NEW p \in StProcs, NEW s \in Shutters, StShutdownFails(p, s)
    PROVE  StInv'
  <1> USE DEF StInv
  <1>1. /\ stShut[p][s] \in {"offline", "row"} /\ stShut' = [stShut EXCEPT ![p][s] = "ended"]
        /\ UNCHANGED <<stMain, stSelf, stPid, stLock, stPort, stRow, stMounted, stCtl>>
    BY Zenon DEF StShutdownFails, stHost
  <1>2. PICK S \in SUBSET StProcs : S = stOdd.stuck \cup {p}
    BY DEF StType, OddType
  <1>3. stOdd' = [stOdd EXCEPT !.stuck = S]
    BY <1>2, Zenon DEF StShutdownFails
  <1>4. /\ stOdd' \in OddType /\ stOdd'.two = stOdd.two /\ stOdd'.refused = stOdd.refused
        /\ stOdd'.early = stOdd.early /\ stOdd'.killed = stOdd.killed /\ stOdd'.stuck = S
    BY <1>2, <1>3 DEF StType, OddType
  <1>5. StType'
    BY <1>1, <1>2, <1>3, <1>4 DEF StType, MainSteps, ShutSteps, CtlSteps, Shutters
  <1>6. PortServes' /\ MineByStep' /\ ShutByStep' /\ NamedStarted'
    BY <1>1, <1>2, <1>3, <1>4, StConfig DEF StType, PortServes, MineByStep, ShutByStep,
       NamedStarted, Shutters
  <1>7. LeavingUnlinks' /\ StopAnswers'
    BY <1>1, <1>2, <1>3, <1>4, StConfig DEF StType, LeavingUnlinks, StopAnswers, Dead, Busy,
       Shutters, ShutByStep, MineByStep, NamedStarted
  <1>8. Exclusive'
    BY <1>1, <1>2, <1>3, <1>4, StConfig DEF StType, Exclusive, Overlap, Dead, Busy, Shutters,
       MineByStep, ShutByStep
  <1>9. OnlineTold'
    BY <1>1, <1>2, <1>3, <1>4, StConfig DEF StType, OnlineTold, Exclusive, Overlap, Dead, Busy,
       ToldToStop, Shutters, MineByStep, ShutByStep
  <1>10. QED BY <1>5, <1>6, <1>7, <1>8, <1>9

\* The process is killed.
LEMMA CrashStep ==
    ASSUME StInv, NEW p \in StProcs, StCrash(p)
    PROVE  StInv'
  <1> USE DEF StInv
  <1>1. /\ ~Dead(p) /\ stMain' = [stMain EXCEPT ![p] = "ended"]
        /\ stShut' = [stShut EXCEPT ![p] = [s \in Shutters |-> "ended"]]
        /\ stPort' = IF stPort = p THEN StNone ELSE stPort
        /\ UNCHANGED <<stSelf, stPid, stLock, stRow, stMounted, stCtl>>
    BY Zenon DEF StCrash, StKilled, stHost
  <1>2. PICK S \in SUBSET StProcs : S = stOdd.killed \cup {p}
    BY DEF StType, OddType
  <1>3. stOdd' = [stOdd EXCEPT !.killed = S]
    BY <1>2, Zenon DEF StCrash, StKilled
  <1>4. /\ stOdd' \in OddType /\ stOdd'.two = stOdd.two /\ stOdd'.refused = stOdd.refused
        /\ stOdd'.early = stOdd.early /\ stOdd'.killed = S /\ stOdd'.stuck = stOdd.stuck
    BY <1>2, <1>3 DEF StType, OddType
  <1>5. StType'
    BY <1>1, <1>2, <1>3, <1>4 DEF StType, MainSteps, ShutSteps, CtlSteps, Shutters
  <1>6. PortServes' /\ MineByStep' /\ ShutByStep' /\ NamedStarted'
    BY <1>1, <1>2, <1>3, <1>4, StConfig DEF StType, PortServes, MineByStep, ShutByStep,
       NamedStarted, Shutters
  <1>7. LeavingUnlinks' /\ StopAnswers'
    BY <1>1, <1>2, <1>3, <1>4, StConfig DEF StType, LeavingUnlinks, StopAnswers, Dead, Busy,
       Shutters, ShutByStep, MineByStep, NamedStarted
  <1>8. Exclusive'
    BY <1>1, <1>2, <1>3, <1>4, StConfig DEF StType, Exclusive, Overlap, Dead, Busy, Shutters,
       MineByStep, ShutByStep
  <1>9. OnlineTold'
    BY <1>1, <1>2, <1>3, <1>4, StConfig DEF StType, OnlineTold, Exclusive, Overlap, Dead, Busy,
       ToldToStop, Shutters, MineByStep, ShutByStep
  <1>10. QED BY <1>5, <1>6, <1>7, <1>8, <1>9

\* A command of ngamsDaemon begins.
LEMMA CommandStep ==
    ASSUME StInv, NEW c \in StCtls, DaemonCommand(c)
    PROVE  StInv'
  <1> USE DEF StInv
  <1>1. PICK cmd \in {"start", "stop", "restart"}, force \in BOOLEAN :
            stCtl' = [stCtl EXCEPT ![c] =
                        [cmd |-> cmd, force |-> force, pid |-> StNone, res |-> 0,
                         step |-> IF cmd = "start" /\ ~(force /\ stLock # StNone) THEN "start" ELSE "stop"]]
    BY Zenon DEF DaemonCommand
  <1>2. UNCHANGED <<stMain, stShut, stSelf, stPid, stLock, stPort, stRow, stMounted, stOdd>>
    BY Zenon DEF DaemonCommand, stHost
  <1>3. /\ stCtl' \in [StCtls -> CtlType] /\ \A d \in StCtls : d # c => stCtl'[d] = stCtl[d]
        /\ stCtl'[c].pid = StNone /\ stCtl'[c].step \in {"start", "stop"}
        /\ stCtl'[c].cmd = "stop" => stCtl'[c].step = "stop"
    BY <1>1 DEF StType, CtlType, CtlSteps
  <1>4. StType'
    BY <1>1, <1>2, <1>3 DEF StType, MainSteps, ShutSteps, CtlSteps, Shutters
  <1>5. PortServes' /\ MineByStep' /\ ShutByStep' /\ NamedStarted'
    BY <1>1, <1>2, <1>3, StConfig DEF StType, PortServes, MineByStep, ShutByStep, NamedStarted,
       Shutters
  <1>6. LeavingUnlinks' /\ StopAnswers'
    BY <1>1, <1>2, <1>3, StConfig DEF StType, LeavingUnlinks, StopAnswers, Dead, Busy, Shutters,
       ShutByStep, MineByStep, NamedStarted
  <1>7. Exclusive'
    BY <1>1, <1>2, <1>3, StConfig DEF StType, Exclusive, Overlap, Dead, Busy, Shutters,
       MineByStep, ShutByStep
  <1>8. OnlineTold'
    BY <1>1, <1>2, <1>3, StConfig DEF StType, OnlineTold, Exclusive, Overlap, Dead, Busy,
       ToldToStop, Shutters, MineByStep, ShutByStep
  <1>9. QED BY <1>4, <1>5, <1>6, <1>7, <1>8

\* A stop finds no lock file, or one that names a process that is gone.
LEMMA StopNobodyStep ==
    ASSUME StInv, NEW c \in StCtls, stop(c), stLock = StNone \/ Dead(stLock)
    PROVE  StInv'
  <1> USE DEF StInv
  <1>1. /\ stCtl[c].step = "stop" /\ StopReturns(c, 1) /\ stLock' = StNone
        /\ UNCHANGED <<stMain, stShut, stSelf, stPid, stPort, stRow, stMounted, stOdd>>
    BY Zenon DEF stop, stHost
  <1>2. PICK l \in {"done", "start"} : l = IF stCtl[c].cmd = "stop" THEN "done" ELSE "start"
    OBVIOUS
  <1>3. stCtl' = [stCtl EXCEPT ![c] = [@ EXCEPT !.step = l, !.res = 1]]
    BY <1>1, <1>2 DEF StopReturns
  <1>4. /\ stCtl' \in [StCtls -> CtlType] /\ \A d \in StCtls : d # c => stCtl'[d] = stCtl[d]
        /\ stCtl'[c].pid = stCtl[c].pid /\ stCtl'[c].cmd = stCtl[c].cmd
        /\ stCtl'[c].step = l
    <2>1. StType /\ l \in CtlSteps /\ 1 \in 0 .. 3
      BY <1>2 DEF CtlSteps
    <2>2. QED BY <1>3, <2>1, CtlWritten, Zenon
  <1>5. stCtl'[c].res = 1
    BY <1>3, ResWritten, Zenon
  <1>6. StType'
    BY <1>1, <1>2, <1>3, <1>4, <1>5 DEF StType, MainSteps, ShutSteps, CtlSteps, Shutters
  <1>7. PortServes' /\ MineByStep' /\ ShutByStep' /\ NamedStarted'
    BY <1>1, <1>2, <1>3, <1>4, <1>5, StConfig DEF StType, PortServes, MineByStep, ShutByStep,
       NamedStarted, Shutters
  <1>8. LeavingUnlinks' /\ StopAnswers'
    BY <1>1, <1>2, <1>3, <1>4, <1>5, StConfig DEF StType, LeavingUnlinks, StopAnswers, Dead,
       Busy, Shutters, ShutByStep, MineByStep, NamedStarted
  <1>9. Exclusive'
    BY <1>1, <1>2, <1>3, <1>4, <1>5, StConfig DEF StType, Exclusive, Overlap, Dead, Busy,
       Shutters, MineByStep, ShutByStep
  <1>10. OnlineTold'
    BY <1>1, <1>2, <1>3, <1>4, <1>5, StConfig DEF StType, OnlineTold, Exclusive, Overlap, Dead,
       Busy, ToldToStop, Shutters, MineByStep, ShutByStep
  <1>11. QED BY <1>6, <1>7, <1>8, <1>9, <1>10

\* A stop finds a process that was told to stop before, and waits for it.
LEMMA StopAgainStep ==
    ASSUME StInv, NEW c \in StCtls, stop(c), stLock # StNone, ~Dead(stLock),
           stShut[stLock]["signal"] # "none"
    PROVE  StInv'
  <1> USE DEF StInv
  <1>1. /\ stCtl[c].step = "stop" /\ UNCHANGED <<stMain, stShut, stSelf, stPid, stLock, stPort, stRow, stMounted, stOdd>>
    BY Zenon DEF stop, stHost
  <1>2. stCtl' = [stCtl EXCEPT ![c] = [@ EXCEPT !.step = "wait", !.pid = stLock]]
    BY Zenon DEF stop
  <1>3. /\ stCtl' \in [StCtls -> CtlType] /\ \A d \in StCtls : d # c => stCtl'[d] = stCtl[d]
        /\ stCtl'[c].pid = stLock /\ stCtl'[c].cmd = stCtl[c].cmd /\ stCtl'[c].step = "wait"
    BY <1>2 DEF StType, CtlType, CtlSteps
  <1>4. StType'
    BY <1>1, <1>2, <1>3 DEF StType, MainSteps, ShutSteps, CtlSteps, Shutters
  <1>5. PortServes' /\ MineByStep' /\ ShutByStep' /\ NamedStarted'
    BY <1>1, <1>2, <1>3, StConfig DEF StType, PortServes, MineByStep, ShutByStep, NamedStarted,
       Shutters
  <1>6. LeavingUnlinks' /\ StopAnswers'
    BY <1>1, <1>2, <1>3, StConfig DEF StType, LeavingUnlinks, StopAnswers, Dead, Busy, Shutters,
       ShutByStep, MineByStep, NamedStarted
  <1>7. Exclusive'
    BY <1>1, <1>2, <1>3, StConfig DEF StType, Exclusive, Overlap, Dead, Busy, Shutters,
       MineByStep, ShutByStep
  <1>8. OnlineTold'
    BY <1>1, <1>2, <1>3, StConfig DEF StType, OnlineTold, Exclusive, Overlap, Dead, Busy,
       ToldToStop, Shutters, MineByStep, ShutByStep
  <1>9. QED BY <1>4, <1>5, <1>6, <1>7, <1>8

\* A stop tells the process of the lock file to stop, and waits for it.
LEMMA StopSignalsStep ==
    ASSUME StInv, NEW c \in StCtls, stop(c), stLock # StNone, ~Dead(stLock),
           stShut[stLock]["signal"] = "none"
    PROVE  StInv'
  <1> USE DEF StInv
  <1>1. PICK p \in StProcs : p = stLock
    BY DEF StType
  <1>2. /\ stCtl[c].step = "stop" /\ stLock = p /\ stMain[p] # "none" /\ ~Dead(p)
        /\ stShut[p]["signal"] = "none" /\ stShut' = [stShut EXCEPT ![p]["signal"] = "stop"]
        /\ UNCHANGED <<stMain, stSelf, stPid, stLock, stPort, stRow, stMounted>>
    BY <1>1, Zenon DEF stop, ngamsExitHandler, stHost, NamedStarted
  <1>3. stCtl' = [stCtl EXCEPT ![c] = [@ EXCEPT !.step = "wait", !.pid = p]]
    BY <1>1, Zenon DEF stop
  <1>4. /\ stCtl' \in [StCtls -> CtlType] /\ \A d \in StCtls : d # c => stCtl'[d] = stCtl[d]
        /\ stCtl'[c].pid = p /\ stCtl'[c].cmd = stCtl[c].cmd /\ stCtl'[c].step = "wait"
    BY <1>3 DEF StType, CtlType, CtlSteps
  <1>5. PICK S \in SUBSET StProcs : S = IF stMain[p] = "serving" THEN stOdd.early ELSE stOdd.early \cup {p}
    BY DEF StType, OddType
  <1>6. stOdd' = [stOdd EXCEPT !.early = S]
    BY <1>1, <1>5, Zenon DEF stop, ngamsExitHandler
  <1>7. /\ stOdd' \in OddType /\ stOdd'.two = stOdd.two /\ stOdd'.refused = stOdd.refused
        /\ stOdd'.early = S /\ stOdd'.killed = stOdd.killed /\ stOdd'.stuck = stOdd.stuck
    BY <1>5, <1>6 DEF StType, OddType
  <1>8. Overlap => Overlap'
    BY <1>5, <1>7 DEF Overlap
  <1>9. stMain[p] = "serving" \/ Overlap'
    BY <1>5, <1>7 DEF Overlap
  <1>10. StType'
    BY <1>1, <1>2, <1>3, <1>4, <1>5, <1>6, <1>7, <1>8, <1>9 DEF StType, MainSteps, ShutSteps,
       CtlSteps, Shutters
  <1>11. PortServes' /\ MineByStep' /\ ShutByStep' /\ NamedStarted'
    BY <1>1, <1>2, <1>3, <1>4, <1>5, <1>6, <1>7, <1>8, <1>9, StConfig DEF StType, PortServes,
       MineByStep, ShutByStep, NamedStarted, Shutters
  <1>12. LeavingUnlinks' /\ StopAnswers'
    BY <1>1, <1>2, <1>3, <1>4, <1>5, <1>6, <1>7, <1>8, <1>9, StConfig DEF StType,
       LeavingUnlinks, StopAnswers, Dead, Busy, Shutters, ShutByStep, MineByStep, NamedStarted
  <1>13. Exclusive'
    BY <1>1, <1>2, <1>3, <1>4, <1>5, <1>6, <1>7, <1>8, <1>9, StConfig DEF StType, Exclusive,
       Overlap, Dead, Busy, Shutters, MineByStep, ShutByStep
  <1>14. OnlineTold'
    BY <1>1, <1>2, <1>3, <1>4, <1>5, <1>6, <1>7, <1>8, <1>9, StConfig DEF StType, OnlineTold,
       Exclusive, Overlap, Dead, Busy, ToldToStop, Shutters, MineByStep, ShutByStep
  <1>15. QED BY <1>10, <1>11, <1>12, <1>13, <1>14

\* The process that a stop waits for is gone.
LEMMA WaitEndsStep ==
    ASSUME StInv, NEW c \in StCtls, kill_and_wait(c)
    PROVE  StInv'
  <1> USE DEF StInv
  <1>1. /\ stCtl[c].step = "wait" /\ Dead(stCtl[c].pid) /\ stLock' = StNone
        /\ StopReturns(c, IF stLock # StNone THEN 2 ELSE 0)
        /\ UNCHANGED <<stMain, stShut, stSelf, stPid, stPort, stRow, stMounted, stOdd>>
    BY Zenon DEF kill_and_wait, Ended, stHost
  <1>2. PICK r \in {0, 2} : r = IF stLock # StNone THEN 2 ELSE 0
    OBVIOUS
  <1>3. PICK l \in {"done", "start"} : l = IF stCtl[c].cmd = "stop" THEN "done" ELSE "start"
    OBVIOUS
  <1>4. stCtl' = [stCtl EXCEPT ![c] = [@ EXCEPT !.step = l, !.res = r]]
    BY <1>1, <1>2, <1>3, Zenon DEF StopReturns
  <1>5. /\ stCtl' \in [StCtls -> CtlType] /\ \A d \in StCtls : d # c => stCtl'[d] = stCtl[d]
        /\ stCtl'[c].pid = stCtl[c].pid /\ stCtl'[c].cmd = stCtl[c].cmd
        /\ stCtl'[c].step = l
    <2>1. StType /\ l \in CtlSteps /\ r \in 0 .. 3
      BY <1>2, <1>3 DEF CtlSteps
    <2>2. QED BY <1>4, <2>1, CtlWritten, Zenon
  <1>6. StType'
    BY <1>1, <1>2, <1>3, <1>4, <1>5 DEF StType, MainSteps, ShutSteps, CtlSteps, Shutters
  <1>7. PortServes' /\ MineByStep' /\ ShutByStep' /\ NamedStarted'
    BY <1>1, <1>2, <1>3, <1>4, <1>5, StConfig DEF StType, PortServes, MineByStep, ShutByStep,
       NamedStarted, Shutters
  <1>8. LeavingUnlinks' /\ StopAnswers'
    BY <1>1, <1>2, <1>3, <1>4, <1>5, StConfig DEF StType, LeavingUnlinks, StopAnswers, Dead,
       Busy, Shutters, ShutByStep, MineByStep, NamedStarted
  <1>9. Exclusive'
    BY <1>1, <1>2, <1>3, <1>4, <1>5, StConfig DEF StType, Exclusive, Overlap, Dead, Busy,
       Shutters, MineByStep, ShutByStep
  <1>10. OnlineTold'
    BY <1>1, <1>2, <1>3, <1>4, <1>5, StConfig DEF StType, OnlineTold, Exclusive, Overlap, Dead,
       Busy, ToldToStop, Shutters, MineByStep, ShutByStep
  <1>11. QED BY <1>6, <1>7, <1>8, <1>9, <1>10

\* A stop that waited too long kills the process.
LEMMA GiveUpStep ==
    ASSUME StInv, NEW c \in StCtls, StGiveUp(c)
    PROVE  StInv'
  <1> USE DEF StInv
  <1>1. PICK p \in StProcs : p = stCtl[c].pid
    BY DEF StType, CtlType, StGiveUp, StopAnswers
  <1>2. /\ stCtl[c].step = "wait" /\ ~Dead(p) /\ stMain' = [stMain EXCEPT ![p] = "ended"]
        /\ stShut' = [stShut EXCEPT ![p] = [s \in Shutters |-> "ended"]]
        /\ stPort' = IF stPort = p THEN StNone ELSE stPort
        /\ stLock' = StNone /\ StopReturns(c, IF stLock # StNone THEN 3 ELSE 1)
        /\ UNCHANGED <<stSelf, stPid, stRow, stMounted>>
    BY <1>1, Zenon DEF StGiveUp, StKilled, stHost
  <1>3. PICK r \in {1, 3} : r = IF stLock # StNone THEN 3 ELSE 1
    OBVIOUS
  <1>4. PICK l \in {"done", "start"} : l = IF stCtl[c].cmd = "stop" THEN "done" ELSE "start"
    OBVIOUS
  <1>5. stCtl' = [stCtl EXCEPT ![c] = [@ EXCEPT !.step = l, !.res = r]]
    BY <1>2, <1>3, <1>4, Zenon DEF StopReturns
  <1>6. /\ stCtl' \in [StCtls -> CtlType] /\ \A d \in StCtls : d # c => stCtl'[d] = stCtl[d]
        /\ stCtl'[c].pid = stCtl[c].pid /\ stCtl'[c].cmd = stCtl[c].cmd
        /\ stCtl'[c].step = l
    <2>1. StType /\ l \in CtlSteps /\ r \in 0 .. 3
      BY <1>3, <1>4 DEF CtlSteps
    <2>2. QED BY <1>5, <2>1, CtlWritten, Zenon
  <1>7. stCtl'[c].res = r
    BY <1>5, ResWritten, Zenon
  <1>8. PICK S \in SUBSET StProcs : S = stOdd.killed \cup {p}
    BY DEF StType, OddType
  <1>9. stOdd' = [stOdd EXCEPT !.killed = S]
    BY <1>1, <1>8, Zenon DEF StGiveUp, StKilled
  <1>10. /\ stOdd' \in OddType /\ stOdd'.two = stOdd.two /\ stOdd'.refused = stOdd.refused
        /\ stOdd'.early = stOdd.early /\ stOdd'.killed = S /\ stOdd'.stuck = stOdd.stuck
    BY <1>8, <1>9 DEF StType, OddType
  <1>11. StType'
    BY <1>1, <1>2, <1>3, <1>4, <1>5, <1>6, <1>7, <1>8, <1>9, <1>10 DEF StType, MainSteps,
       ShutSteps, CtlSteps, Shutters
  <1>12. PortServes' /\ MineByStep' /\ ShutByStep' /\ NamedStarted'
    BY <1>1, <1>2, <1>3, <1>4, <1>5, <1>6, <1>7, <1>8, <1>9, <1>10, StConfig DEF StType,
       PortServes, MineByStep, ShutByStep, NamedStarted, Shutters
  <1>13. LeavingUnlinks' /\ StopAnswers'
    BY <1>1, <1>2, <1>3, <1>4, <1>5, <1>6, <1>7, <1>8, <1>9, <1>10, StConfig DEF StType,
       LeavingUnlinks, StopAnswers, Dead, Busy, Shutters, ShutByStep, MineByStep, NamedStarted
  <1>14. Exclusive'
    BY <1>1, <1>2, <1>3, <1>4, <1>5, <1>6, <1>7, <1>8, <1>9, <1>10, StConfig DEF StType,
       Exclusive, Overlap, Dead, Busy, Shutters, MineByStep, ShutByStep
  <1>15. OnlineTold'
    BY <1>1, <1>2, <1>3, <1>4, <1>5, <1>6, <1>7, <1>8, <1>9, <1>10, StConfig DEF StType,
       OnlineTold, Exclusive, Overlap, Dead, Busy, ToldToStop, Shutters, MineByStep, ShutByStep
  <1>16. QED BY <1>11, <1>12, <1>13, <1>14, <1>15

\* A start respects a lock file that is there.
LEMMA StartCommandStep ==
    ASSUME StInv, NEW c \in StCtls, start_daemon(c)
    PROVE  StInv'
  <1> USE DEF StInv
  <1>1. /\ stCtl[c].step = "start"
        /\ UNCHANGED <<stMain, stShut, stSelf, stPid, stLock, stPort, stRow, stMounted, stOdd>>
    BY Zenon DEF start_daemon, stHost
  <1>2. PICK l \in {"done", "acquire"}, r \in {0, 1} :
              l = (IF stLock # StNone THEN "done" ELSE "acquire") /\ r = IF stLock # StNone THEN 1 ELSE 0
    OBVIOUS
  <1>3. stCtl' = [stCtl EXCEPT ![c] = [@ EXCEPT !.step = l, !.res = r]]
    BY <1>2, Zenon DEF start_daemon
  <1>4. /\ stCtl' \in [StCtls -> CtlType] /\ \A d \in StCtls : d # c => stCtl'[d] = stCtl[d]
        /\ stCtl'[c].pid = stCtl[c].pid /\ stCtl'[c].cmd = stCtl[c].cmd
        /\ stCtl'[c].step = l
    <2>1. StType /\ l \in CtlSteps /\ r \in 0 .. 3
      BY <1>2 DEF CtlSteps
    <2>2. QED BY <1>3, <2>1, CtlWritten, Zenon
  <1>5. StType'
    BY <1>1, <1>2, <1>3, <1>4 DEF StType, MainSteps, ShutSteps, CtlSteps, Shutters
  <1>6. PortServes' /\ MineByStep' /\ ShutByStep' /\ NamedStarted'
    BY <1>1, <1>2, <1>3, <1>4, StConfig DEF StType, PortServes, MineByStep, ShutByStep,
       NamedStarted, Shutters
  <1>7. LeavingUnlinks' /\ StopAnswers'
    BY <1>1, <1>2, <1>3, <1>4, StConfig DEF StType, LeavingUnlinks, StopAnswers, Dead, Busy,
       Shutters, ShutByStep, MineByStep, NamedStarted
  <1>8. Exclusive'
    BY <1>1, <1>2, <1>3, <1>4, StConfig DEF StType, Exclusive, Overlap, Dead, Busy, Shutters,
       MineByStep, ShutByStep
  <1>9. OnlineTold'
    BY <1>1, <1>2, <1>3, <1>4, StConfig DEF StType, OnlineTold, Exclusive, Overlap, Dead, Busy,
       ToldToStop, Shutters, MineByStep, ShutByStep
  <1>10. QED BY <1>5, <1>6, <1>7, <1>8, <1>9

\* The lock file was taken meanwhile: the child ends.
LEMMA AcquireNotStep ==
    ASSUME StInv, NEW c \in StCtls, stCtl[c].step = "acquire",
           stCtl' = [stCtl EXCEPT ![c].step = "done"],
           UNCHANGED <<stMain, stShut, stSelf, stPid, stLock, stPort, stRow, stMounted, stOdd>>
    PROVE  StInv'
  <1> USE DEF StInv
  <1>1. /\ stCtl' \in [StCtls -> CtlType] /\ \A d \in StCtls : d # c => stCtl'[d] = stCtl[d]
        /\ stCtl'[c].pid = stCtl[c].pid /\ stCtl'[c].cmd = stCtl[c].cmd
        /\ stCtl'[c].step = "done"
    BY DEF StType, CtlType, CtlSteps
  <1>2. StType'
    BY <1>1 DEF StType, MainSteps, ShutSteps, CtlSteps, Shutters
  <1>3. PortServes' /\ MineByStep' /\ ShutByStep' /\ NamedStarted'
    BY <1>1, StConfig DEF StType, PortServes, MineByStep, ShutByStep, NamedStarted, Shutters
  <1>4. LeavingUnlinks' /\ StopAnswers'
    BY <1>1, StConfig DEF StType, LeavingUnlinks, StopAnswers, Dead, Busy, Shutters, ShutByStep,
       MineByStep, NamedStarted
  <1>5. Exclusive'
    BY <1>1, StConfig DEF StType, Exclusive, Overlap, Dead, Busy, Shutters, MineByStep, ShutByStep
  <1>6. OnlineTold'
    BY <1>1, StConfig DEF StType, OnlineTold, Exclusive, Overlap, Dead, Busy, ToldToStop,
       Shutters, MineByStep, ShutByStep
  <1>7. QED BY <1>2, <1>3, <1>4, <1>5, <1>6

\* The child of ngamsDaemon takes the lock file and starts a server.
LEMMA AcquireStep ==
    ASSUME StInv, NEW c \in StCtls, NEW p \in StProcs, NEW daemon \in BOOLEAN, NEW force \in BOOLEAN,
           StartAs(p, daemon, force), UNCHANGED <<stShut, stPid, stPort, stRow, stMounted>>,
           stLock' = p, stCtl[c].step = "acquire", stCtl' = [stCtl EXCEPT ![c].step = "done"]
    PROVE  StInv'
  <1> USE DEF StInv
  <1>1. /\ stMain[p] = "none" /\ stMain' = [stMain EXCEPT ![p] = "check"]
        /\ UNCHANGED <<stShut, stPid, stPort, stRow, stMounted>> /\ stLock' = p
    BY Zenon DEF StartAs
  <1>2. stSelf' = [stSelf EXCEPT ![p] = [daemon |-> daemon, force |-> force, mine |-> FALSE, online |-> FALSE]]
    BY Zenon DEF StartAs
  <1>3. /\ stSelf' \in [StProcs -> SelfType] /\ stSelf'[p].force = force /\ ~stSelf'[p].mine /\ ~stSelf'[p].online
        /\ \A q \in StProcs : q # p => stSelf'[q] = stSelf[q]
    BY <1>2 DEF StType, SelfType
  <1>4. PICK b \in BOOLEAN : b = (stOdd.two \/ force)
    OBVIOUS
  <1>5. stOdd' = [stOdd EXCEPT !.two = b]
    BY <1>4, Zenon DEF StartAs
  <1>6. /\ stOdd' \in OddType /\ stOdd'.refused = stOdd.refused /\ stOdd'.early = stOdd.early
        /\ stOdd'.killed = stOdd.killed /\ stOdd'.stuck = stOdd.stuck
        /\ stOdd'.two = b
    BY <1>4, <1>5 DEF StType, OddType
  <1>7. stOdd'.two <=> (stOdd.two \/ force)
    BY <1>4, <1>6, Zenon
  <1>8. /\ stCtl' \in [StCtls -> CtlType] /\ \A d \in StCtls : d # c => stCtl'[d] = stCtl[d]
        /\ stCtl'[c].pid = stCtl[c].pid /\ stCtl'[c].cmd = stCtl[c].cmd
        /\ stCtl'[c].step = "done"
    BY DEF StType, CtlType, CtlSteps
  <1>9. StType'
    BY <1>1, <1>2, <1>3, <1>4, <1>5, <1>6, <1>7, <1>8 DEF StType, MainSteps, ShutSteps,
       CtlSteps, Shutters
  <1>10. PortServes' /\ MineByStep' /\ ShutByStep' /\ NamedStarted'
    BY <1>1, <1>2, <1>3, <1>4, <1>5, <1>6, <1>7, <1>8, StConfig DEF StType, PortServes,
       MineByStep, ShutByStep, NamedStarted, Shutters
  <1>11. LeavingUnlinks' /\ StopAnswers'
    BY <1>1, <1>2, <1>3, <1>4, <1>5, <1>6, <1>7, <1>8, StConfig DEF StType, LeavingUnlinks,
       StopAnswers, Dead, Busy, Shutters, ShutByStep, MineByStep, NamedStarted
  <1>12. Exclusive'
    BY <1>1, <1>2, <1>3, <1>4, <1>5, <1>6, <1>7, <1>8, StConfig DEF StType, Exclusive, Overlap,
       Dead, Busy, Shutters, MineByStep, ShutByStep
  <1>13. OnlineTold'
    BY <1>1, <1>2, <1>3, <1>4, <1>5, <1>6, <1>7, <1>8, StConfig DEF StType, OnlineTold,
       Exclusive, Overlap, Dead, Busy, ToldToStop, Shutters, MineByStep, ShutByStep
  <1>14. QED BY <1>9, <1>10, <1>11, <1>12, <1>13

\* The command returns.
LEMMA ReturnStep ==
    ASSUME StInv, NEW c \in StCtls, StReturn(c)
    PROVE  StInv'
  <1> USE DEF StInv
  <1>1. /\ UNCHANGED <<stMain, stShut, stSelf, stPid, stLock, stPort, stRow, stMounted, stOdd>>
        /\ stCtl' = [stCtl EXCEPT ![c] = StIdle]
    BY Zenon DEF StReturn, stHost
  <1>2. /\ stCtl' \in [StCtls -> CtlType] /\ \A d \in StCtls : d # c => stCtl'[d] = stCtl[d]
        /\ stCtl'[c].pid = StNone /\ stCtl'[c].cmd = "none" /\ stCtl'[c].step = "idle"
    BY <1>1 DEF StType, CtlType, CtlSteps, StIdle
  <1>3. StType'
    BY <1>1, <1>2 DEF StType, MainSteps, ShutSteps, CtlSteps, Shutters
  <1>4. PortServes' /\ MineByStep' /\ ShutByStep' /\ NamedStarted'
    BY <1>1, <1>2, StConfig DEF StType, PortServes, MineByStep, ShutByStep, NamedStarted, Shutters
  <1>5. LeavingUnlinks' /\ StopAnswers'
    BY <1>1, <1>2, StConfig DEF StType, LeavingUnlinks, StopAnswers, Dead, Busy, Shutters,
       ShutByStep, MineByStep, NamedStarted
  <1>6. Exclusive'
    BY <1>1, <1>2, StConfig DEF StType, Exclusive, Overlap, Dead, Busy, Shutters, MineByStep,
       ShutByStep
  <1>7. OnlineTold'
    BY <1>1, <1>2, StConfig DEF StType, OnlineTold, Exclusive, Overlap, Dead, Busy, ToldToStop,
       Shutters, MineByStep, ShutByStep
  <1>8. QED BY <1>3, <1>4, <1>5, <1>6, <1>7

-----------------------------------------------------------------------------
(* The theorems.                                                           *)

\* No process was started: the invariant holds.
LEMMA StInitInv == StInit => StInv
  <1> SUFFICES ASSUME StInit PROVE StInv
    OBVIOUS
  <1>1. StType
    <2>1. stOdd \in OddType
      BY DEF StInit, OddType
    <2>2. stCtl \in [StCtls -> CtlType]
      BY DEF StInit, CtlType, CtlSteps, StIdle
    <2>3. stSelf \in [StProcs -> SelfType]
      BY DEF StInit, SelfType
    <2>4. QED BY <2>1, <2>2, <2>3 DEF StInit, StType, MainSteps, ShutSteps
  <1>2. PortServes /\ MineByStep /\ ShutByStep /\ LeavingUnlinks
    BY StConfig DEF StInit, PortServes, MineByStep, ShutByStep, LeavingUnlinks, Shutters
  <1>3. NamedStarted /\ StopAnswers
    BY StConfig DEF StInit, NamedStarted, StopAnswers, StIdle
  <1>4. Exclusive
    BY StConfig DEF StInit, Exclusive, Busy, Shutters
  <1>5. OnlineTold
    BY StConfig DEF StInit, OnlineTold, Busy, Shutters
  <1>6. QED BY <1>1, <1>2, <1>3, <1>4, <1>5 DEF StInv

\* A step of a process keeps the invariant.
LEMMA ProcessStep ==
    ASSUME StInv, NEW p \in StProcs,
           \/ StRun(p) \/ StLoadFails(p) \/ handleStartUp(p) \/ pidFile(p)
           \/ StOnline(p) \/ StStandby(p) \/ serve(p) \/ StSignal(p) \/ StCrash(p)
           \/ \E noautoexit \in BOOLEAN : StOnlineFails(p, noautoexit)
    PROVE  StInv'
  <1>1. CASE StRun(p)
    <2>1. PICK force \in BOOLEAN : StartAs(p, FALSE, force)
      BY <1>1, Zenon DEF StRun
    <2>2. UNCHANGED <<stShut, stPid, stPort, stRow, stMounted, stCtl>> /\ stLock' = stLock
      BY <1>1, Zenon DEF StRun, stHost
    <2>3. QED BY <2>1, <2>2, StartStep, Zenon
  <1>2. CASE handleStartUp(p)
    BY <1>2, RefusedStep, AdmittedStep, Zenon
  <1>3. CASE serve(p)
    BY <1>3, ServeStep, ServeFailsStep, Zenon
  <1>4. CASE StSignal(p)
    <2>1. /\ ngamsExitHandler(p) /\ UNCHANGED stCtl
          /\ UNCHANGED <<stMain, stSelf, stPid, stLock, stPort, stRow, stMounted>>
      BY <1>4, Zenon DEF StSignal, stHost
    <2>2. stMain[p] # "none" /\ ~Dead(p)
      BY <1>4 DEF StSignal, Dead
    <2>3. QED BY <2>1, <2>2, SignalStep, Zenon
  <1>5. CASE \E noautoexit \in BOOLEAN : StOnlineFails(p, noautoexit)
    BY <1>5, OnlineFailsStep, OfflineStartStep, Zenon
  <1>6. CASE StLoadFails(p) \/ pidFile(p) \/ StOnline(p) \/ StStandby(p) \/ StCrash(p)
    BY <1>6, LoadFailsStep, PidFileStep, OnlineStep, StandbyStep, CrashStep, Zenon
  <1>7. QED BY <1>1, <1>2, <1>3, <1>4, <1>5, <1>6, Zenon

\* A step of ngamsDaemon keeps the invariant.
LEMMA DaemonStep ==
    ASSUME StInv, NEW c \in StCtls,
           \/ DaemonCommand(c) \/ stop(c) \/ kill_and_wait(c) \/ StGiveUp(c) \/ start_daemon(c)
           \/ StAcquire(c) \/ StReturn(c)
    PROVE  StInv'
  <1>1. CASE stop(c)
    BY <1>1, StopNobodyStep, StopAgainStep, StopSignalsStep, Zenon
  <1>2. CASE StAcquire(c)
    <2>1. /\ stCtl[c].step = "acquire" /\ stCtl' = [stCtl EXCEPT ![c].step = "done"]
          /\ UNCHANGED <<stShut, stPid, stPort, stRow, stMounted>>
      BY <1>2, Zenon DEF StAcquire, stHost
    <2>2. CASE UNCHANGED <<stLock, stMain, stSelf, stOdd>>
      BY <2>1, <2>2, AcquireNotStep, Zenon
    <2>3. CASE \E p \in StProcs : StartAs(p, TRUE, stCtl[c].force) /\ stLock' = p
      <3>1. PICK p \in StProcs : StartAs(p, TRUE, stCtl[c].force) /\ stLock' = p
        BY <2>3
      <3>2. stCtl[c].force \in BOOLEAN
        BY DEF StInv, StType, CtlType
      <3>3. QED BY <2>1, <3>1, <3>2, AcquireStep, Zenon
    <2>4. QED BY <1>2, <2>2, <2>3, Zenon DEF StAcquire
  <1>3. CASE DaemonCommand(c) \/ kill_and_wait(c) \/ StGiveUp(c) \/ start_daemon(c) \/ StReturn(c)
    BY <1>3, CommandStep, WaitEndsStep, GiveUpStep, StartCommandStep, ReturnStep, Zenon
  <1>4. QED BY <1>1, <1>2, <1>3, Zenon

\* Every step keeps the invariant.
LEMMA StStepInv == StInv /\ [StNext]_stVars => StInv'
  <1> SUFFICES ASSUME StInv, [StNext]_stVars PROVE StInv'
    OBVIOUS
  <1>1. ASSUME NEW p \in StProcs, NEW s \in Shutters,
               \/ StStopServer(p, s) \/ StOffline(p, s) \/ ngamsBaseExitHandler(p, s)
               \/ StUnlink(p, s) \/ StShutdownFails(p, s)
        PROVE  StInv'
    BY <1>1, StopServerStep, StopNothingStep, OfflineStep, HostRowStep, UnlinkStep,
       ShutdownFailsStep, Zenon
  <1>2. CASE UNCHANGED stVars
    <2>1. UNCHANGED <<stMain, stShut, stSelf, stPid, stLock, stPort, stRow, stMounted, stCtl, stOdd>>
      BY <1>2, Zenon DEF stVars
    <2>2. StType' /\ PortServes' /\ MineByStep' /\ ShutByStep' /\ LeavingUnlinks' /\ NamedStarted'
      BY <2>1 DEF StInv, StType, PortServes, MineByStep, ShutByStep, LeavingUnlinks,
         NamedStarted, Busy
    <2>3. StopAnswers' /\ Exclusive' /\ OnlineTold'
      BY <2>1 DEF StInv, StopAnswers, Exclusive, OnlineTold, Overlap, Dead, Busy, ToldToStop
    <2>4. QED BY <2>2, <2>3 DEF StInv
  <1>3. CASE StNext
    BY <1>1, <1>3, ProcessStep, DaemonStep, Zenon DEF StNext
  <1>4. QED BY <1>2, <1>3

\* The invariant says what the checked property says.
LEMMA StInvTells == StInv => OneServerToldOf
  <1> SUFFICES ASSUME StInv PROVE OneServerToldOf
    OBVIOUS
  <1> USE StConfig DEF StInv
  <1>1. OneInstance
    BY DEF OneInstance, Exclusive
  <1>2. PidFileKept
    BY DEF PidFileKept, Exclusive, MineByStep, Dead
  <1>3. ToldOnline
    BY DEF ToldOnline, OnlineTold
  <1>4. GoneLeavesNothing
    BY DEF GoneLeavesNothing, LeavingUnlinks, Dead, Busy
  <1>5. StopMeansStopped
    <2> SUFFICES ASSUME NEW c \in StCtls, stCtl[c].step = "done", stCtl[c].cmd = "stop",
                        stCtl[c].res = 0, stCtl[c].pid # StNone, NEW p, p = stCtl[c].pid
                 PROVE  Dead(p) /\ stPort # p /\ (stPid # p \/ p \in stOdd.killed \cup stOdd.stuck)
      BY DEF StopMeansStopped
    <2>1. p \in StProcs /\ Dead(p)
      BY DEF StType, CtlType, StopAnswers
    <2>2. stMain[p] = "ended"
      BY <2>1 DEF NamedStarted, Dead
    <2>3. QED BY <1>4, <2>1, <2>2 DEF PortServes, GoneLeavesNothing
  <1>6. ShutdownStops
    BY DEF ShutdownStops, ShutByStep, Shutters
  <1>7. QED BY <1>1, <1>2, <1>3, <1>4, <1>5, <1>6 DEF OneServerToldOf

\* However instances of the server and ngamsDaemon commands overlap, fail or are killed:
\* one instance is up unless a forced start, two looks for the PID file at once or an early
\* signal let two overlap; its PID file and its row are its own and true; a process that
\* ends by itself leaves nothing; a stop that answers 0 has stopped the server.
THEOREM OneServerCorrect == StSpec => []OneServerToldOf
  <1>1. QED BY StInitInv, StStepInv, StInvTells, PTL DEF StSpec

-----------------------------------------------------------------------------
(* The disks.                                                              *)

DkSteps == {"off", "write", "raise", "on"}
DkTodos == {<<>>, <<"M">>, <<"R">>, <<"M", "R">>}
DkServers == [step : DkSteps, known : [DkSlots -> DkIdentities \cup {DkNone}], todo : DkTodos, num : Nat]

DkOdds == {o \in [crashed : SUBSET DkHosts, kept : SUBSET DkHosts, names : BOOLEAN, stale : SUBSET DkDisks] : o.stale # {} => o.names}
DkHelds == [host : DkHosts, disk : DkDisks, row : DkRows, what : {"status", "full", "dump"}]

Step(h) == dkSrv[h].step
KnownAs(h, s) == dkSrv[h].known[s]
Has(todo, s) == \E i \in DOMAIN todo : todo[i] = s
Pending(h, s) == Has(dkSrv[h].todo, s)

\* The state keeps its shape, and a place holds one disk.
DkTypeOK ==
    /\ dkAt \in [DkDisks -> Places \cup {DkNone}]
    /\ dkRow \in [DkDisks -> DkRows \cup {DkNone}]
    /\ dkInfo \in [DkDisks -> DkFiles \cup {DkNone}]
    /\ dkSrv \in [DkHosts -> DkServers]
    /\ dkHeld \subseteq DkHelds /\ \A r \in dkHeld : r.row.place \in Places /\ r.row.place[1] = r.host
    /\ dkOdd \in DkOdds
    /\ dkEvents \in Nat
OneEach == \A d, e \in DkDisks : d # e => dkAt[d] = DkNone \/ dkAt[d] # dkAt[e]

\* There is something to do only while a server comes up.
TodoThere(h) == Step(h) \notin {"write", "raise"} => dkSrv[h].todo = <<>>

\* What a server knows of a slot it read from the disk there, while it comes up.
KnownThere(h) ==
    \A s \in DkSlots : KnownAs(h, s) # DkNone => Step(h) \in {"write", "raise"} /\ InSlot(h, s) # DkNone

\* What a server that is not down has mounted is in one of its slots ...
MountedHere(h) ==
    \A d \in Vouched(h) : Step(h) # "off" => dkAt[d] # DkNone /\ dkAt[d][1] = h

\* ... which is the one its row names, or one that is still to be updated.
PlacedOrPending(h) ==
    \A d \in Vouched(h) :
        h \notin dkOdd.kept /\ Step(h) \in {"write", "on"}
        => dkAt[d] = dkRow[d].place \/ Pending(h, dkAt[d][2])

\* Disks are used in their role once their slot is updated.
RoleOrPending(h) ==
    \A d \in Vouched(h) :
        /\ h \in DkArchiving \ dkOdd.kept /\ Step(h) \in {"write", "on"}
        /\ ~dkRow[d].done /\ dkAt[d] = dkRow[d].place /\ ~Pending(h, dkAt[d][2])
        => dkRow[d].name.cat \in {dkAt[d][2], "X"}
KnownRole(h) ==
    \A s \in DkSlots :
        h \in DkArchiving /\ Step(h) = "write" /\ Pending(h, s) /\ KnownAs(h, s) # DkNone
        => KnownAs(h, s).done \/ KnownAs(h, s).name.cat = s

\* A number is asked for a disk that nothing is known of.
NumPending(h) ==
    dkSrv[h].num # 0 =>
        /\ Updating(h) /\ InSlot(h, Current(h)) # DkNone /\ KnownAs(h, Current(h)) = DkNone
        /\ h \notin DkArchiving => dkRow[InSlot(h, Current(h))] = DkNone \/ InSlot(h, Current(h)) \in dkOdd.stale

DownClean(h) == h \notin dkOdd.crashed /\ Step(h) = "off" => Vouched(h) = {}

\* Where the rows of disks are.
HostSound(h) ==
    /\ TodoThere(h) /\ KnownThere(h) /\ MountedHere(h) /\ PlacedOrPending(h) /\ RoleOrPending(h)
    /\ KnownRole(h) /\ NumPending(h) /\ DownClean(h)
WhereInv == DkTypeOK /\ OneEach /\ \A h \in DkHosts : HostSound(h)

-----------------------------------------------------------------------------
(* The operators.                                                          *)

\* The disk in a slot is the only one there.
LEMMA InSlotIs ==
    ASSUME DkTypeOK, OneEach, NEW h \in DkHosts, NEW s \in DkSlots
    PROVE  /\ InSlot(h, s) # DkNone => InSlot(h, s) \in DkDisks /\ dkAt[InSlot(h, s)] = <<h, s>>
           /\ \A d \in DkDisks : dkAt[d] = <<h, s>> => InSlot(h, s) = d
  <1>1. <<h, s>> \in Places /\ <<h, s>> # DkNone
    BY DkConfig DEF Places
  <1>2. QED BY <1>1, DkConfig DEF InSlot, OneEach

\* The places of a host.
LEMMA PlaceOf ==
    ASSUME NEW p \in Places
    PROVE  p[1] \in DkHosts /\ p[2] \in DkSlots /\ p = <<p[1], p[2]>> /\ p # DkNone
  BY DkConfig DEF Places

\* The slot that is updated is the one that is not to be updated any more.
LEMMA TodoTail ==
    ASSUME NEW todo \in DkTodos, todo # <<>>
    PROVE  /\ todo[1] \in DkSlots /\ Tail(todo) \in DkTodos /\ Has(todo, todo[1])
           /\ \A s \in DkSlots : Has(Tail(todo), s) <=> Has(todo, s) /\ s # todo[1]
  <1>1. CASE todo = <<"M">>
    BY <1>1 DEF DkTodos, DkSlots, Has
  <1>2. CASE todo = <<"R">>
    BY <1>2 DEF DkTodos, DkSlots, Has
  <1>3. CASE todo = <<"M", "R">>
    <2>1. Tail(todo) = <<"R">> /\ todo[1] = "M" /\ todo[2] = "R" /\ DOMAIN todo = 1 .. 2
      BY <1>3
    <2>2. QED BY <2>1 DEF DkTodos, DkSlots, Has
  <1>4. QED BY <1>1, <1>2, <1>3 DEF DkTodos

\* Every slot with a disk is updated.
LEMMA ToUpdateAll ==
    ASSUME NEW h \in DkHosts
    PROVE  /\ ToUpdate(h) \in DkTodos
           /\ \A s \in Found(h) : Has(ToUpdate(h), s)
  <1>1. Found(h) \subseteq DkSlots
    BY DEF Found
  <1>2. CASE Found(h) = {}
    BY <1>2 DEF ToUpdate, DkTodos
  <1>3. CASE Found(h) # {} /\ (h \in DkArchiving \/ Found(h) = DkSlots)
    BY <1>1, <1>3 DEF ToUpdate, DkTodos, DkSlots, Has
  <1>4. CASE Found(h) # {} /\ ~(h \in DkArchiving \/ Found(h) = DkSlots)
    <2>1. PICK s \in DkSlots : Found(h) = {s}
      BY <1>1, <1>4 DEF DkSlots
    <2>2. ToUpdate(h) = <<s>>
      BY <1>4, <2>1 DEF ToUpdate
    <2>3. QED BY <2>1, <2>2 DEF DkTodos, DkSlots, Has
  <1>5. QED BY <1>2, <1>3, <1>4

\* A mounted disk has a row, which names a place of its host.
LEMMA MountedIs ==
    ASSUME DkTypeOK, NEW h \in DkHosts, NEW d \in MountedAt(dkRow, h)
    PROVE  d \in DkDisks /\ dkRow[d] \in DkRows /\ dkRow[d] # DkNone /\ dkRow[d].place \in Places /\ dkRow[d].place[1] = h
  BY DEF MountedAt, DkTypeOK, DkRows

\* Finitely many numbers have a bound, and a bounded set of numbers a maximum.
LEMMA FinitelyBounded ==
    ASSUME NEW D, IsFiniteSet(D), NEW f \in [D -> Nat]
    PROVE  \E m \in Nat : \A d \in D : f[d] <= m
  <1> DEFINE Bounded(E) == \E m \in Nat : \A d \in E : f[d] <= m
             Bad == {n \in Nat : \E E \in SUBSET D : Cardinality(E) = n /\ ~Bounded(E)}
  <1>1. SUFFICES ASSUME Bad # {} PROVE FALSE
    <2>1. ASSUME Bad = {} PROVE Bounded(D)
      <3>1. Cardinality(D) \in Nat
        BY FS_CardinalityType
      <3>2. QED BY <2>1, <3>1
    <2>2. QED BY <1>1, <2>1
  <1>2. PICK n \in Bad : \A k \in Bad : ~(<<k, n>> \in OpToRel(<, Nat))
    BY <1>1, NatLessThanWellFounded, WFMin
  <1>3. PICK E \in SUBSET D : Cardinality(E) = n /\ ~Bounded(E)
    BY <1>2
  <1>4. IsFiniteSet(E) /\ n \in Nat
    BY <1>2, <1>3, FS_Subset
  <1>5. PICK x \in E : TRUE
    <2>1. E = {} => \A d \in E : f[d] <= 0
      OBVIOUS
    <2>2. QED BY <1>3, <2>1
  <1>6. IsFiniteSet(E \ {x}) /\ Cardinality(E \ {x}) = n - 1 /\ Cardinality(E \ {x}) \in Nat
    BY <1>3, <1>4, <1>5, FS_RemoveElement, FS_CardinalityType
  <1>7. n - 1 \in Nat /\ E \ {x} \in SUBSET D
    BY <1>6
  <1>8. n - 1 \notin Bad
    <2>1. <<n - 1, n>> \in OpToRel(<, Nat)
      BY <1>4, <1>7 DEF OpToRel
    <2>2. QED BY <1>2, <2>1
  <1>9. Bounded(E \ {x})
    BY <1>6, <1>7, <1>8
  <1>10. PICK m \in Nat : \A d \in E \ {x} : f[d] <= m
    BY <1>9
  <1>11. f[x] \in Nat /\ m + f[x] \in Nat /\ \A d \in E : f[d] <= m + f[x]
    <2>1. \A d \in E : f[d] \in Nat
      BY <1>3
    <2>2. f[x] \in Nat
      BY <2>1, <1>5
    <2>3. QED BY <2>1, <2>2, <1>10
  <1>12. QED BY <1>3, <1>11

\* A bounded set of numbers has a greatest one, which Max returns.
LEMMA MaxOfBounded ==
    ASSUME NEW S \in SUBSET Nat, S # {}, NEW b \in Nat, \A x \in S : x <= b
    PROVE  Max(S) \in S /\ \A x \in S : x <= Max(S)
  <1> DEFINE T == {n \in Nat : \A x \in S : x <= n}
  <1>1. PICK m \in T : \A k \in T : ~(<<k, m>> \in OpToRel(<, Nat))
    <2>1. b \in T
      OBVIOUS
    <2>2. QED BY <2>1, NatLessThanWellFounded, WFMin
  <1>2. m \in Nat /\ \A x \in S : x \in Nat /\ x <= m
    BY <1>1
  <1>3. m \in S
    <2>1. SUFFICES ASSUME m \notin S PROVE FALSE
      OBVIOUS
    <2>2. PICK x \in S : TRUE
      OBVIOUS
    <2>3. \A y \in S : y \in Nat /\ y < m
      BY <1>2, <2>1
    <2>4. m - 1 \in Nat /\ \A y \in S : y <= m - 1
      BY <1>2, <2>2, <2>3
    <2>5. m - 1 \in T /\ <<m - 1, m>> \in OpToRel(<, Nat)
      BY <1>2, <2>4 DEF OpToRel
    <2>6. QED BY <1>1, <2>5
  <1>4. \E x \in S : \A y \in S : x >= y
    BY <1>2, <1>3
  <1>5. Max(S) \in S /\ \A y \in S : Max(S) >= y
    BY <1>4 DEF Max
  <1>6. QED BY <1>2, <1>5

\* getMaxDiskNumber, and the latest installation date.
LEMMA MaxOfRows ==
    ASSUME DkTypeOK, NEW f \in [DkDisks -> Nat], NEW S, S = {f[d] : d \in {e \in DkDisks : dkRow[e] # DkNone}}
    PROVE  Max({0} \cup S) \in Nat /\ \A d \in DkDisks : dkRow[d] # DkNone => f[d] <= Max({0} \cup S)
  <1> DEFINE U == {0} \cup S
  <1>1. PICK b \in Nat : \A d \in DkDisks : f[d] <= b
    BY DkConfig, FinitelyBounded
  <1>2. U \in SUBSET Nat /\ U # {} /\ \A x \in U : x <= b
    BY <1>1
  <1> HIDE DEF U
  <1>3. Max(U) \in U /\ \A x \in U : x <= Max(U)
    BY <1>2, MaxOfBounded
  <1>4. \A d \in DkDisks : dkRow[d] # DkNone => f[d] \in U
    BY DEF U
  <1>5. Max(U) \in Nat /\ \A d \in DkDisks : dkRow[d] # DkNone => f[d] <= Max(U)
    BY <1>2, <1>3, <1>4
  <1>6. QED BY <1>5 DEF U

\* getMaxDiskNumber is not below the number of any row.
LEMMA NewNumber ==
    ASSUME DkTypeOK
    PROVE  /\ getMaxDiskNumber \in Nat
           /\ \A d \in DkDisks : dkRow[d] # DkNone => dkRow[d].name.num <= getMaxDiskNumber
  <1> DEFINE f == [d \in DkDisks |-> IF dkRow[d] = DkNone THEN 0 ELSE dkRow[d].name.num]
             E == {e \in DkDisks : dkRow[e] # DkNone}
             S == {dkRow[d].name.num : d \in E}
  <1>1. f \in [DkDisks -> Nat]
    BY DEF DkTypeOK, DkRows, DkNames
  <1>2. S = {f[d] : d \in E}
    OBVIOUS
  <1>3. \A d \in DkDisks : dkRow[d] # DkNone => f[d] = dkRow[d].name.num
    OBVIOUS
  <1>4. getMaxDiskNumber = Max({0} \cup S)
    BY DEF getMaxDiskNumber
  <1> HIDE DEF f, S
  <1>5. Max({0} \cup S) \in Nat /\ \A d \in DkDisks : dkRow[d] # DkNone => f[d] <= Max({0} \cup S)
    BY <1>1, <1>2, MaxOfRows
  <1>6. QED BY <1>3, <1>4, <1>5

\* The date a disk is registered with is a date.
LEMMA NewDate ==
    ASSUME DkTypeOK
    PROVE  Max({0} \cup {dkRow[d].inst : d \in {e \in DkDisks : dkRow[e] # DkNone}}) + 1 \in Nat
  <1> DEFINE f == [d \in DkDisks |-> IF dkRow[d] = DkNone THEN 0 ELSE dkRow[d].inst]
             E == {e \in DkDisks : dkRow[e] # DkNone}
             S == {dkRow[d].inst : d \in E}
  <1>1. f \in [DkDisks -> Nat]
    BY DEF DkTypeOK, DkRows
  <1>2. S = {f[d] : d \in E}
    OBVIOUS
  <1> HIDE DEF f, S
  <1>3. Max({0} \cup S) \in Nat /\ \A d \in DkDisks : dkRow[d] # DkNone => f[d] <= Max({0} \cup S)
    BY <1>1, <1>2, MaxOfRows
  <1>4. QED BY <1>3 DEF S

-----------------------------------------------------------------------------
(* What a step leaves a host.                                              *)

\* But for rows that are written back late, nothing becomes mounted on the host, what is mounted there stays as it is but
\* for being completed or labelled, and no disk in its slots is registered.
RowsLeft(g) ==
    \A d \in DkDisks \ dkOdd'.stale :
        /\ d \in MountedAt(dkRow', g) =>
            /\ d \in MountedAt(dkRow, g) /\ dkRow'[d].place = dkRow[d].place
            /\ (dkRow[d].done => dkRow'[d].done) /\ dkRow'[d].name.cat \in {dkRow[d].name.cat, "X"}
        /\ dkAt[d] # DkNone /\ dkAt[d][1] = g /\ dkRow[d] = DkNone => dkRow'[d] = DkNone
Left(g) ==
    /\ dkAt' = dkAt /\ dkSrv'[g] = dkSrv[g] /\ RowsLeft(g)
    /\ g \in dkOdd'.kept <=> g \in dkOdd.kept
    /\ g \in dkOdd.crashed => g \in dkOdd'.crashed
    /\ dkOdd.stale \subseteq dkOdd'.stale

\* What a step leaves a host keeps it sound.
LEMMA LeftSound ==
    ASSUME DkTypeOK, DkTypeOK', OneEach, NEW g \in DkHosts, HostSound(g), Left(g)
    PROVE  HostSound(g)'
  <1>1. \A s \in DkSlots : InSlot(g, s)' = InSlot(g, s)
    BY DEF InSlot, Left
  <1>2. dkSrv'[g] = dkSrv[g] /\ dkAt' = dkAt
    BY DEF Left
  <1>3. \A d \in Vouched(g)' :
            /\ d \in DkDisks /\ d \in Vouched(g) /\ dkRow'[d].place = dkRow[d].place
            /\ (dkRow[d].done => dkRow'[d].done) /\ dkRow'[d].name.cat \in {dkRow[d].name.cat, "X"}
    BY DEF Left, RowsLeft, MountedAt, Vouched
  <1>5. TodoThere(g)' /\ KnownThere(g)' /\ KnownRole(g)'
    BY <1>1, <1>2 DEF HostSound, TodoThere, KnownThere, KnownRole, Step, KnownAs, Pending, Has
  <1>6. MountedHere(g)' /\ PlacedOrPending(g)' /\ RoleOrPending(g)'
    <2>1. MountedHere(g)'
      BY <1>2, <1>3 DEF HostSound, MountedHere, Step
    <2>2. PlacedOrPending(g)'
      BY <1>2, <1>3 DEF HostSound, PlacedOrPending, Step, Pending, Left
    <2>3. RoleOrPending(g)'
      BY <1>2, <1>3 DEF HostSound, RoleOrPending, Step, Pending, Left
    <2>4. QED BY <2>1, <2>2, <2>3
  <1>7. NumPending(g)'
    <2>1. SUFFICES ASSUME dkSrv'[g].num # 0
                   PROVE  /\ Updating(g)' /\ InSlot(g, Current(g))' # DkNone /\ KnownAs(g, Current(g))' = DkNone
                          /\ g \notin DkArchiving => dkRow'[InSlot(g, Current(g))'] = DkNone \/ InSlot(g, Current(g))' \in dkOdd'.stale
      BY DEF NumPending
    <2>2. Updating(g) /\ InSlot(g, Current(g)) # DkNone /\ KnownAs(g, Current(g)) = DkNone
      BY <2>1, <1>2 DEF HostSound, NumPending
    <2>3. Current(g) \in DkSlots /\ Current(g)' = Current(g) /\ Updating(g)'
      BY <2>2, <1>2, TodoTail DEF Updating, Current, DkTypeOK, DkServers
    <2>4. InSlot(g, Current(g))' = InSlot(g, Current(g)) /\ KnownAs(g, Current(g))' = KnownAs(g, Current(g))
      BY <2>3, <1>1, <1>2 DEF KnownAs, InSlot
    <2>5. InSlot(g, Current(g)) \in DkDisks /\ dkAt[InSlot(g, Current(g))] = <<g, Current(g)>>
      BY <2>2, <2>3, InSlotIs
    <2>6. <<g, Current(g)>> # DkNone
      BY <2>3, DkConfig DEF Places
    <2>7. g \notin DkArchiving => dkRow[InSlot(g, Current(g))] = DkNone \/ InSlot(g, Current(g)) \in dkOdd.stale
      BY <2>1, <1>2 DEF HostSound, NumPending
    <2>8. \A d \in DkDisks : dkAt[d] = <<g, Current(g)>> /\ dkRow[d] = DkNone => dkRow'[d] = DkNone \/ d \in dkOdd'.stale
      <3>1. <<g, Current(g)>>[1] = g
        OBVIOUS
      <3>2. \A d \in DkDisks \ dkOdd'.stale : dkAt[d] # DkNone /\ dkAt[d][1] = g /\ dkRow[d] = DkNone => dkRow'[d] = DkNone
        BY DEF Left, RowsLeft
      <3>3. QED BY <2>6, <3>1, <3>2
    <2>9. g \notin DkArchiving => dkRow'[InSlot(g, Current(g))] = DkNone \/ InSlot(g, Current(g)) \in dkOdd'.stale
      BY <2>5, <2>7, <2>8 DEF Left
    <2>10. QED BY <2>2, <2>3, <2>4, <2>9
  <1>8. DownClean(g)'
    BY <1>2, <1>3 DEF HostSound, DownClean, Step, Left, DkTypeOK
  <1>9. QED BY <1>5, <1>6, <1>7, <1>8 DEF HostSound

\* The step of one host.
LEMMA OneHost ==
    ASSUME WhereInv, DkTypeOK', dkAt' = dkAt, NEW h \in DkHosts, HostSound(h)',
           \A g \in DkHosts \ {h} : Left(g)
    PROVE  WhereInv'
  <1>1. OneEach'
    BY DEF WhereInv, OneEach
  <1>2. ASSUME NEW g \in DkHosts PROVE HostSound(g)'
    BY LeftSound DEF WhereInv
  <1>3. QED BY <1>1, <1>2 DEF WhereInv

\* dkSrv[h] is replaced, the rest of dkSrv stays.
LEMMA SetServer ==
    ASSUME DkTypeOK, NEW h \in DkHosts, NEW r \in DkServers, dkSrv' = [dkSrv EXCEPT ![h] = r]
    PROVE  dkSrv' \in [DkHosts -> DkServers] /\ dkSrv'[h] = r /\ \A g \in DkHosts \ {h} : dkSrv'[g] = dkSrv[g]
  BY DEF DkTypeOK

\* A server that is down or has just come up has the shape of a server.
LEMMA DownIs == DkDown \in DkServers /\ [DkDown EXCEPT !.step = "on"] \in DkServers
  BY DEF DkDown, DkServers, DkSteps, DkTodos

\* Only rows that are no more mounted change, or that become mounted on the host that
\* writes them and are of a disk it has.
LEMMA RowsLeftBy ==
    ASSUME DkTypeOK, NEW h \in DkHosts, NEW g \in DkHosts \ {h},
           \A d \in DkDisks :
              \/ d \in dkOdd'.stale
              \/ dkRow'[d] = dkRow[d]
              \/ dkRow[d] # DkNone /\ dkRow'[d].place = DkNone
              \/ dkRow'[d].place = dkAt[d] /\ dkAt[d] # DkNone /\ dkAt[d][1] = h
    PROVE  RowsLeft(g)
  <1>1. DkNone \notin Places /\ DkNone \notin DkRows
    BY DkConfig
  <1> SUFFICES ASSUME NEW d \in DkDisks \ dkOdd'.stale
               PROVE  /\ d \in MountedAt(dkRow', g) =>
                           /\ d \in MountedAt(dkRow, g) /\ dkRow'[d].place = dkRow[d].place
                           /\ (dkRow[d].done => dkRow'[d].done) /\ dkRow'[d].name.cat \in {dkRow[d].name.cat, "X"}
                      /\ dkAt[d] # DkNone /\ dkAt[d][1] = g /\ dkRow[d] = DkNone => dkRow'[d] = DkNone
    BY DEF RowsLeft
  <1>2. CASE dkRow'[d] = dkRow[d]
    BY <1>2 DEF MountedAt
  <1>3. CASE dkRow[d] # DkNone /\ dkRow'[d].place = DkNone
    BY <1>3 DEF MountedAt
  <1>4. CASE dkRow'[d].place = dkAt[d] /\ dkAt[d] # DkNone /\ dkAt[d][1] = h
    BY <1>4 DEF MountedAt
  <1>5. QED BY <1>2, <1>3, <1>4

\* What checkDisks knows of a slot it knows of a disk that is there.
LEMMA KnownIs ==
    ASSUME DkTypeOK, OneEach, NEW h \in DkHosts, NEW s \in DkSlots
    PROVE  /\ Known(h, s) \in DkIdentities \cup {DkNone}
           /\ Known(h, s) # DkNone => InSlot(h, s) # DkNone
  <1>1. CASE InSlot(h, s) = DkNone
    BY <1>1 DEF Known
  <1>2. CASE InSlot(h, s) # DkNone
    <2>1. InSlot(h, s) \in DkDisks
      BY <1>2, InSlotIs
    <2> DEFINE d == InSlot(h, s)
    <2>2. /\ dkRow[d] # DkNone => Identity(dkRow[d]) \in DkIdentities
          /\ dkInfo[d] # DkNone => Identity(dkInfo[d]) \in DkIdentities
      BY <2>1 DEF DkTypeOK, Identity, DkRows, DkFiles, DkIdentities
    <2>3. QED BY <1>2, <2>2 DEF Known
  <1>3. QED BY <1>1, <1>2

\* MarkUnmounted clears places only, and leaves mounted on the host what is in its slots.
LEMMA UnmountedRows ==
    ASSUME DkTypeOK, NEW h \in DkHosts, dkRow' = MarkUnmounted(h, dkRow)
    PROVE  /\ dkRow' \in [DkDisks -> DkRows \cup {DkNone}]
           /\ \A d \in DkDisks :
                \/ dkRow'[d] = dkRow[d]
                \/ dkRow[d] # DkNone /\ dkRow'[d] = [dkRow[d] EXCEPT !.place = DkNone] /\ d \in MountedAt(dkRow, h)
           /\ \A d \in MountedAt(dkRow', h) :
                d \in DkDisks /\ dkRow'[d] = dkRow[d] /\ dkAt[d] # DkNone /\ dkAt[d][1] = h
  <1>1. \A d \in DkDisks : dkRow[d] # DkNone => dkRow[d] \in DkRows /\ [dkRow[d] EXCEPT !.place = DkNone] \in DkRows
                                                /\ [dkRow[d] EXCEPT !.place = DkNone].place = DkNone
    BY DEF DkTypeOK, DkRows
  <1>2. \A d \in DkDisks : dkRow'[d] = IF d \in MountedAt(dkRow, h) /\ (dkAt[d] = DkNone \/ dkAt[d][1] # h)
                                       THEN [dkRow[d] EXCEPT !.place = DkNone] ELSE dkRow[d]
    BY DEF MarkUnmounted
  <1>3. \A d \in MountedAt(dkRow, h) : d \in DkDisks /\ dkRow[d] # DkNone
    BY DEF MountedAt
  <1>4. dkRow' \in [DkDisks -> DkRows \cup {DkNone}]
    <2>1. \A d \in DkDisks : dkRow'[d] \in DkRows \cup {DkNone}
      BY <1>1, <1>2, <1>3 DEF DkTypeOK
    <2>2. DOMAIN dkRow' = DkDisks /\ dkRow' = [d \in DOMAIN dkRow' |-> dkRow'[d]]
      BY DEF MarkUnmounted
    <2>3. QED BY <2>1, <2>2
  <1>5. \A d \in MountedAt(dkRow', h) : d \in DkDisks /\ dkRow'[d].place # DkNone /\ dkRow'[d] # DkNone /\ dkRow'[d].place[1] = h
    BY DEF MountedAt
  <1>6. \A d \in MountedAt(dkRow', h) : dkRow'[d] = dkRow[d] /\ d \in MountedAt(dkRow, h)
    BY <1>1, <1>2, <1>3, <1>5 DEF MountedAt
  <1>7. \A d \in MountedAt(dkRow', h) : dkAt[d] # DkNone /\ dkAt[d][1] = h
    <2>1. SUFFICES ASSUME NEW d \in MountedAt(dkRow', h), ~(dkAt[d] # DkNone /\ dkAt[d][1] = h) PROVE FALSE
      OBVIOUS
    <2>2. d \in DkDisks /\ d \in MountedAt(dkRow, h) /\ dkRow[d] # DkNone
      BY <2>1, <1>3, <1>6
    <2>3. dkRow'[d] = [dkRow[d] EXCEPT !.place = DkNone]
      BY <2>1, <2>2, <1>2
    <2>4. dkRow'[d].place = DkNone
      BY <2>2, <2>3, <1>1
    <2>5. QED BY <2>1, <2>4, <1>5
  <1>8. \A d \in DkDisks :
            \/ dkRow'[d] = dkRow[d]
            \/ dkRow[d] # DkNone /\ dkRow'[d] = [dkRow[d] EXCEPT !.place = DkNone] /\ d \in MountedAt(dkRow, h)
    BY <1>2, <1>3
  <1>9. QED BY <1>4, <1>5, <1>6, <1>7, <1>8

\* checkDisks: what stays mounted is in a slot, and every slot with a disk is to be updated
\* unless the set was kept as it was.
LEMMA WhereCheck ==
    ASSUME WhereInv, NEW h \in DkHosts, checkDisks(h)
    PROVE  WhereInv'
  <1>1. PICK bad \in SUBSET Found(h) :
          LET known == [s \in DkSlots |-> Known(h, s)]
              drop == h \in DkArchiving /\ Rejected(h, known, bad) # {}
              raise == h \in DkArchiving /\ Illegal(h, known, bad)
          IN  /\ (IF bad = {} THEN UNCHANGED dkEvents ELSE DkEvent)
              /\ dkRow' = MarkUnmounted(h, dkRow)
              /\ dkSrv' = [dkSrv EXCEPT ![h] =
                            [step |-> IF raise THEN "raise" ELSE "write", known |-> known,
                             todo |-> IF drop \/ raise THEN <<>> ELSE ToUpdate(h), num |-> 0]]
              /\ LET kept == drop /\ MountedAt(dkRow', h) # {}
                 IN  dkOdd' = [dkOdd EXCEPT !.crashed = @ \ {h}, !.kept = IF kept THEN @ \cup {h} ELSE @ \ {h}]
    BY DEF checkDisks
  <1> DEFINE known == [s \in DkSlots |-> Known(h, s)]
             drop == h \in DkArchiving /\ Rejected(h, known, bad) # {}
             raise == h \in DkArchiving /\ Illegal(h, known, bad)
             r == [step |-> IF raise THEN "raise" ELSE "write", known |-> known,
                   todo |-> IF drop \/ raise THEN <<>> ELSE ToUpdate(h), num |-> 0]
             kept == drop /\ MountedAt(dkRow', h) # {}
  <1>2. /\ dkRow' = MarkUnmounted(h, dkRow) /\ dkSrv' = [dkSrv EXCEPT ![h] = r]
        /\ dkOdd' = [dkOdd EXCEPT !.crashed = @ \ {h}, !.kept = IF kept THEN @ \cup {h} ELSE @ \ {h}]
    BY <1>1
  <1>3. UNCHANGED <<dkHeld, dkAt, dkInfo>> /\ dkEvents' \in Nat
    BY <1>1 DEF checkDisks, DkEvent, WhereInv, DkTypeOK
  <1>4. DkTypeOK /\ OneEach /\ HostSound(h)
    BY DEF WhereInv
  <1>5. known \in [DkSlots -> DkIdentities \cup {DkNone}] /\ \A s \in DkSlots : known[s] # DkNone => InSlot(h, s) # DkNone
    BY <1>4, KnownIs
  <1> HIDE DEF known
  <1>6. r \in DkServers /\ r.step \in {"raise", "write"} /\ r.num = 0 /\ r.known = known
    BY <1>5, ToUpdateAll DEF DkServers, DkSteps, DkTodos
  <1>7. r.todo # <<>> \/ (r.step = "write" /\ ~drop) => r.todo = ToUpdate(h) /\ ~drop
    OBVIOUS
  <1> HIDE DEF r
  <1>8. dkSrv' \in [DkHosts -> DkServers] /\ dkSrv'[h] = r /\ \A g \in DkHosts \ {h} : dkSrv'[g] = dkSrv[g]
    BY <1>2, <1>4, <1>6, SetServer
  <1>9. /\ dkRow' \in [DkDisks -> DkRows \cup {DkNone}]
        /\ \A d \in DkDisks :
                \/ dkRow'[d] = dkRow[d]
                \/ dkRow[d] # DkNone /\ dkRow'[d] = [dkRow[d] EXCEPT !.place = DkNone] /\ d \in MountedAt(dkRow, h)
        /\ \A d \in MountedAt(dkRow', h) :
                d \in DkDisks /\ dkRow'[d] = dkRow[d] /\ dkAt[d] # DkNone /\ dkAt[d][1] = h
    BY <1>2, <1>4, UnmountedRows
  <1> HIDE DEF drop
  <1>10. /\ dkOdd' \in DkOdds
         /\ \A g \in DkHosts \ {h} : /\ g \in dkOdd'.kept <=> g \in dkOdd.kept
                                     /\ g \in dkOdd.crashed => g \in dkOdd'.crashed
         /\ dkOdd'.stale = dkOdd.stale
         /\ h \notin dkOdd'.kept => ~kept
    BY <1>2, <1>4 DEF DkTypeOK, DkOdds
  <1>11. DkTypeOK'
    BY <1>3, <1>4, <1>8, <1>9, <1>10 DEF DkTypeOK
  <1>12. ASSUME NEW g \in DkHosts \ {h} PROVE Left(g)
    <2>1. \A d \in DkDisks : dkRow'[d] = dkRow[d] \/ (dkRow[d] # DkNone /\ dkRow'[d].place = DkNone)
      BY <1>4, <1>9 DEF DkTypeOK, DkRows
    <2>2. RowsLeft(g)
      BY <1>4, <2>1, RowsLeftBy
    <2>3. QED BY <1>3, <1>8, <1>10, <2>2 DEF Left
  <1>13. \A d \in MountedAt(dkRow', h) : dkAt[d][2] \in Found(h) /\ dkAt[d][2] \in DkSlots
    <2>1. \A d \in MountedAt(dkRow', h) : dkAt[d] \in Places /\ dkAt[d] = <<h, dkAt[d][2]>> /\ dkAt[d][2] \in DkSlots
      BY <1>4, <1>9, PlaceOf DEF DkTypeOK
    <2>2. \A d \in MountedAt(dkRow', h) : InSlot(h, dkAt[d][2]) = d /\ d # DkNone
      BY <1>4, <1>9, <2>1, InSlotIs, DkConfig
    <2>3. QED BY <2>1, <2>2 DEF Found
  <1>14. \A d \in MountedAt(dkRow', h) : h \notin dkOdd'.kept /\ r.step = "write" => Pending(h, dkAt[d][2])'
    <2>1. \A d \in MountedAt(dkRow', h) : h \notin dkOdd'.kept /\ r.step = "write" => r.todo = ToUpdate(h)
      BY <1>7, <1>10
    <2>2. QED BY <1>3, <1>8, <1>13, <2>1, ToUpdateAll DEF Pending
  <1>15. \A s \in DkSlots : InSlot(h, s)' = InSlot(h, s)
    BY <1>3 DEF InSlot
  <1>16. Vouched(h)' \subseteq MountedAt(dkRow', h)
    BY DEF Vouched
  <1>17. HostSound(h)'
    <2>1. TodoThere(h)' /\ KnownThere(h)' /\ DownClean(h)' /\ NumPending(h)'
      BY <1>5, <1>6, <1>8, <1>15 DEF TodoThere, KnownThere, DownClean, NumPending, Step, KnownAs
    <2>2. MountedHere(h)'
      BY <1>3, <1>9, <1>16 DEF MountedHere
    <2>3. PlacedOrPending(h)' /\ RoleOrPending(h)'
      BY <1>6, <1>8, <1>14, <1>16 DEF PlacedOrPending, RoleOrPending, Step
    <2>4. KnownRole(h)'
      <3>1. SUFFICES ASSUME NEW s \in DkSlots, h \in DkArchiving, Step(h)' = "write", Pending(h, s)', KnownAs(h, s)' # DkNone
                     PROVE  known[s].done \/ known[s].name.cat = s
        BY <1>6, <1>8 DEF KnownRole, KnownAs
      <3>2. r.todo # <<>>
        BY <3>1, <1>8 DEF Pending, Has
      <3>3. known[s] # DkNone /\ Rejected(h, known, bad) = {}
        BY <3>1, <3>2, <1>6, <1>7, <1>8 DEF KnownAs, drop
      <3>4. s \in Found(h)
        BY <3>3, <1>5 DEF Found
      <3>5. QED BY <3>3, <3>4 DEF Rejected, Done, Misused
    <2>5. QED BY <2>1, <2>2, <2>3, <2>4 DEF HostSound
  <1>18. QED BY <1>3, <1>11, <1>12, <1>17, OneHost

\* A server writes the row of the disk in the slot it is at.
LEMMA WhereWrite ==
    ASSUME WhereInv, NEW h \in DkHosts, Updating(h), InSlot(h, Current(h)) # DkNone,
           NEW k \in DkIdentities, h \in DkArchiving => k.done \/ k.name.cat = Current(h),
           Write(h, k), UNCHANGED <<dkHeld, dkAt, dkInfo, dkOdd, dkEvents>>
    PROVE  WhereInv'
  <1> DEFINE s == Current(h)
             d0 == InSlot(h, s)
             row == [name |-> k.name, inst |-> k.inst, done |-> k.done, place |-> <<h, s>>]
             r == [dkSrv[h] EXCEPT !.todo = Tail(@), !.num = 0]
  <1>1. DkTypeOK /\ OneEach /\ HostSound(h) /\ dkSrv[h] \in DkServers /\ dkSrv[h].todo \in DkTodos /\ dkSrv[h].todo # <<>>
    BY DEF WhereInv, DkTypeOK, DkServers, Updating
  <1>2. s \in DkSlots /\ Tail(dkSrv[h].todo) \in DkTodos
    BY <1>1, TodoTail DEF Current
  <1>3. d0 \in DkDisks /\ dkAt[d0] = <<h, s>> /\ \A d \in DkDisks : dkAt[d] = <<h, s>> => d = d0
    BY <1>1, <1>2, InSlotIs
  <1>4. <<h, s>> \in Places /\ <<h, s>> # DkNone /\ <<h, s>>[1] = h /\ <<h, s>>[2] = s
    BY <1>2, DkConfig DEF Places
  <1>5. dkRow' = [dkRow EXCEPT ![d0] = row]
    BY DEF Write
  <1>6. row \in DkRows /\ row # DkNone /\ row.place = <<h, s>> /\ row.done = k.done /\ row.name = k.name
    BY <1>4, DkConfig DEF DkRows, DkIdentities
  <1>7. r \in DkServers /\ r.step = dkSrv[h].step /\ r.todo = Tail(dkSrv[h].todo) /\ r.num = 0 /\ r.known = dkSrv[h].known
    BY <1>1, <1>2 DEF DkServers
  <1>8. dkSrv' = [dkSrv EXCEPT ![h] = r]
    BY <1>1 DEF Write, DkTypeOK
  <1> HIDE DEF s, d0, row, r
  <1>9. dkSrv' \in [DkHosts -> DkServers] /\ dkSrv'[h] = r /\ \A g \in DkHosts \ {h} : dkSrv'[g] = dkSrv[g]
    BY <1>1, <1>7, <1>8, SetServer
  <1>10. dkRow' \in [DkDisks -> DkRows \cup {DkNone}] /\ dkRow'[d0] = row /\ \A d \in DkDisks \ {d0} : dkRow'[d] = dkRow[d]
    BY <1>1, <1>3, <1>5, <1>6 DEF DkTypeOK
  <1>11. DkTypeOK'
    BY <1>1, <1>9, <1>10 DEF DkTypeOK
  <1>12. ASSUME NEW g \in DkHosts \ {h} PROVE Left(g)
    <2>1. RowsLeft(g)
      BY <1>1, <1>3, <1>4, <1>6, <1>10, RowsLeftBy
    <2>2. QED BY <1>9, <2>1 DEF Left
  <1>13. \A d \in Vouched(h)' : d \in DkDisks /\ (d = d0 \/ (d # d0 /\ d \in Vouched(h) /\ dkRow'[d] = dkRow[d]))
    BY <1>10 DEF MountedAt, Vouched
  <1>14. \A x \in DkSlots : Pending(h, x)' <=> Pending(h, x) /\ x # s
    BY <1>1, <1>7, <1>9, TodoTail DEF Pending, s, Current
  <1>15. \A d \in Vouched(h) : d # d0 => dkAt[d] # DkNone /\ dkAt[d][1] = h /\ dkAt[d][2] \in DkSlots /\ dkAt[d][2] # s
    <2>1. \A d \in Vouched(h) : d \in DkDisks /\ dkAt[d] # DkNone /\ dkAt[d][1] = h
      BY <1>1 DEF HostSound, MountedHere, MountedAt, Vouched, Updating, Step
    <2>2. \A d \in Vouched(h) : dkAt[d] = <<h, dkAt[d][2]>> /\ dkAt[d][2] \in DkSlots
      BY <2>1, <1>1, PlaceOf DEF DkTypeOK
    <2>3. QED BY <1>3, <2>1, <2>2
  <1>16. Step(h) = "write" /\ Step(h)' = "write"
    BY <1>7, <1>9 DEF Step, Updating
  <1>17. \A x \in DkSlots : InSlot(h, x)' = InSlot(h, x) /\ KnownAs(h, x)' = KnownAs(h, x)
    BY <1>7, <1>9 DEF InSlot, KnownAs
  <1>18. HostSound(h)'
    <2>1. TodoThere(h)' /\ DownClean(h)' /\ NumPending(h)'
      BY <1>7, <1>9, <1>16 DEF TodoThere, DownClean, NumPending
    <2>2. KnownThere(h)' /\ KnownRole(h)'
      BY <1>1, <1>14, <1>16, <1>17 DEF HostSound, KnownThere, KnownRole
    <2>3. MountedHere(h)'
      BY <1>3, <1>4, <1>13, <1>15, <1>17 DEF MountedHere
    <2>4. PlacedOrPending(h)'
      BY <1>1, <1>3, <1>6, <1>10, <1>13, <1>14, <1>15, <1>16, <1>17 DEF HostSound, PlacedOrPending
    <2>5. RoleOrPending(h)'
      <3>1. SUFFICES ASSUME NEW d \in Vouched(h)', h \in DkArchiving \ dkOdd.kept, ~dkRow'[d].done,
                            dkAt[d] = dkRow'[d].place, ~Pending(h, dkAt[d][2])'
                     PROVE  dkRow'[d].name.cat \in {dkAt[d][2], "X"}
        BY <1>17 DEF RoleOrPending
      <3>2. CASE d = d0
        BY <3>1, <3>2, <1>3, <1>4, <1>6, <1>10 DEF s
      <3>3. CASE d # d0
        BY <3>1, <3>3, <1>1, <1>13, <1>14, <1>15, <1>16 DEF HostSound, RoleOrPending
      <3>4. QED BY <3>2, <3>3
    <2>6. QED BY <2>1, <2>2, <2>3, <2>4, <2>5 DEF HostSound
  <1>19. QED BY <1>11, <1>12, <1>18, OneHost

\* What is known of the disk at the slot, from the row if the host does not archive.
LEMMA SourceIs ==
    ASSUME WhereInv, NEW h \in DkHosts, Updating(h), InSlot(h, Current(h)) # DkNone
    PROVE  /\ Source(h) \in DkIdentities \cup {DkNone}
           /\ Source(h) # DkNone /\ h \in DkArchiving => Source(h).done \/ Source(h).name.cat = Current(h)
           /\ Source(h) = DkNone =>
                KnownAs(h, Current(h)) = DkNone /\ (h \notin DkArchiving => dkRow[InSlot(h, Current(h))] = DkNone)
           /\ \/ Source(h) = KnownAs(h, Current(h))
              \/ h \notin DkArchiving /\ dkRow[InSlot(h, Current(h))] # DkNone /\ Source(h) = Identity(dkRow[InSlot(h, Current(h))])
  <1>1. DkTypeOK /\ OneEach /\ HostSound(h) /\ dkSrv[h] \in DkServers /\ dkSrv[h].todo \in DkTodos /\ dkSrv[h].todo # <<>>
    BY DEF WhereInv, DkTypeOK, DkServers, Updating
  <1>2. Current(h) \in DkSlots /\ Pending(h, Current(h))
    BY <1>1, TodoTail DEF Current, Pending
  <1>3. InSlot(h, Current(h)) \in DkDisks
    BY <1>1, <1>2, InSlotIs
  <1>4. KnownAs(h, Current(h)) \in DkIdentities \cup {DkNone}
    BY <1>1, <1>2 DEF KnownAs, DkServers
  <1>5. dkRow[InSlot(h, Current(h))] # DkNone =>
            Identity(dkRow[InSlot(h, Current(h))]) \in DkIdentities /\ Identity(dkRow[InSlot(h, Current(h))]) # DkNone
    BY <1>1, <1>3, DkConfig DEF DkTypeOK, Identity, DkRows, DkIdentities
  <1>6. Source(h) = IF h \notin DkArchiving /\ dkRow[InSlot(h, Current(h))] # DkNone
                    THEN Identity(dkRow[InSlot(h, Current(h))]) ELSE KnownAs(h, Current(h))
    BY DEF Source, KnownAs
  <1>7. h \in DkArchiving /\ KnownAs(h, Current(h)) # DkNone
            => KnownAs(h, Current(h)).done \/ KnownAs(h, Current(h)).name.cat = Current(h)
    BY <1>1, <1>2 DEF HostSound, KnownRole, Updating, Step
  <1>8. QED BY <1>4, <1>5, <1>6, <1>7

\* updateDiskInDb writes the row of a known disk where the disk is.
LEMMA WhereUpdate ==
    ASSUME WhereInv, NEW h \in DkHosts, updateDiskInDb(h)
    PROVE  WhereInv'
  <1>1. Updating(h) /\ InSlot(h, Current(h)) # DkNone /\ Source(h) # DkNone /\ Write(h, Source(h))
        /\ UNCHANGED <<dkHeld, dkAt, dkInfo, dkOdd, dkEvents>>
    BY DEF updateDiskInDb
  <1>2. Source(h) \in DkIdentities /\ (h \in DkArchiving => Source(h).done \/ Source(h).name.cat = Current(h))
    BY <1>1, SourceIs
  <1>3. QED BY <1>1, <1>2, WhereWrite

\* What addDiskInDb registers.
NewRow(h) ==
    [name |-> [cat |-> Current(h), num |-> dkSrv[h].num],
     inst |-> Max({0} \cup {dkRow[d].inst : d \in {e \in DkDisks : dkRow[e] # DkNone}}) + 1, done |-> FALSE]

\* addDiskInDb registers a disk that nothing is known of, in the role of its slot.
LEMMA NewRowIs ==
    ASSUME WhereInv, NEW h \in DkHosts, addDiskInDb(h)
    PROVE  /\ Updating(h) /\ InSlot(h, Current(h)) # DkNone /\ KnownAs(h, Current(h)) = DkNone /\ Current(h) \in DkSlots
           /\ NewRow(h) \in DkIdentities /\ NewRow(h).name.cat = Current(h) /\ Write(h, NewRow(h))
  <1>1. Updating(h) /\ dkSrv[h].num # 0 /\ Write(h, NewRow(h))
    BY DEF addDiskInDb, NewRow
  <1>2. DkTypeOK /\ HostSound(h) /\ dkSrv[h].num \in Nat /\ dkSrv[h].todo \in DkTodos
    BY DEF WhereInv, DkTypeOK, DkServers
  <1>3. InSlot(h, Current(h)) # DkNone /\ KnownAs(h, Current(h)) = DkNone
    BY <1>1, <1>2 DEF HostSound, NumPending
  <1>4. Current(h) \in DkSlots
    BY <1>1, <1>2, TodoTail DEF Updating, Current
  <1> DEFINE date == Max({0} \cup {dkRow[d].inst : d \in {e \in DkDisks : dkRow[e] # DkNone}}) + 1
  <1>5. date \in Nat
    BY <1>2, NewDate
  <1>6. NewRow(h) = [name |-> [cat |-> Current(h), num |-> dkSrv[h].num], inst |-> date, done |-> FALSE]
    BY DEF NewRow
  <1> HIDE DEF date
  <1>7. NewRow(h) \in DkIdentities /\ NewRow(h).name.cat = Current(h)
    BY <1>2, <1>4, <1>5, <1>6 DEF DkIdentities, DkNames, DkSlots
  <1>8. QED BY <1>1, <1>3, <1>4, <1>7

\* addDiskInDb writes the row of a new disk where the disk is.
LEMMA WhereAdd ==
    ASSUME WhereInv, NEW h \in DkHosts, addDiskInDb(h)
    PROVE  WhereInv'
  <1>1. UNCHANGED <<dkHeld, dkAt, dkInfo, dkOdd, dkEvents>>
    BY DEF addDiskInDb
  <1>2. QED BY <1>1, NewRowIs, WhereWrite

\* A server that asks for a number, or stops coming up, leaves the rows alone.
LEMMA WhereAsk ==
    ASSUME WhereInv, NEW h \in DkHosts, UNCHANGED <<dkHeld, dkAt, dkRow>>, NEW r \in DkServers,
           dkSrv' = [dkSrv EXCEPT ![h] = r], r.todo = dkSrv[h].todo, r.known = dkSrv[h].known, Updating(h),
           r.step \in {"write", "raise"}, r.step = "raise" => r.num = 0,
           r.num # 0 => /\ InSlot(h, Current(h)) # DkNone /\ KnownAs(h, Current(h)) = DkNone
                        /\ h \notin DkArchiving => dkRow[InSlot(h, Current(h))] = DkNone \/ InSlot(h, Current(h)) \in dkOdd.stale,
           dkInfo' = dkInfo, dkEvents' = dkEvents, dkOdd'.kept = dkOdd.kept, dkOdd'.crashed = dkOdd.crashed, dkOdd'.stale = dkOdd.stale,
           dkOdd' \in DkOdds
    PROVE  WhereInv'
  <1>1. DkTypeOK /\ OneEach /\ HostSound(h) /\ dkSrv[h].todo # <<>> /\ Step(h) = "write"
    BY DEF WhereInv, Updating, Step
  <1>2. dkSrv' \in [DkHosts -> DkServers] /\ dkSrv'[h] = r /\ \A g \in DkHosts \ {h} : dkSrv'[g] = dkSrv[g]
    BY <1>1, SetServer
  <1>3. DkTypeOK'
    BY <1>1, <1>2 DEF DkTypeOK
  <1>4. ASSUME NEW g \in DkHosts \ {h} PROVE Left(g)
    <2>1. RowsLeft(g)
      BY <1>1, RowsLeftBy
    <2>2. QED BY <1>2, <2>1 DEF Left
  <1>5. /\ Vouched(h)' = Vouched(h)
        /\ \A x \in DkSlots : InSlot(h, x)' = InSlot(h, x) /\ KnownAs(h, x)' = KnownAs(h, x)
    BY <1>2 DEF Vouched, MountedAt, InSlot, KnownAs
  <1>6. (\A x : Pending(h, x)' <=> Pending(h, x)) /\ Step(h)' \in {"write", "raise"} /\ Current(h)' = Current(h)
    BY <1>2 DEF Pending, Step, Current
  <1>7. HostSound(h)'
    <2>1. TodoThere(h)' /\ DownClean(h)' /\ KnownThere(h)'
      BY <1>1, <1>5, <1>6 DEF HostSound, TodoThere, DownClean, KnownThere
    <2>2. KnownRole(h)' /\ MountedHere(h)' /\ PlacedOrPending(h)' /\ RoleOrPending(h)'
      BY <1>1, <1>5, <1>6 DEF HostSound, KnownRole, MountedHere, PlacedOrPending, RoleOrPending
    <2>3. NumPending(h)'
      <3>1. r.num # 0 => r.step = "write" /\ Updating(h)'
        BY <1>2 DEF Updating
      <3>2. InSlot(h, Current(h))' = InSlot(h, Current(h)) /\ KnownAs(h, Current(h))' = KnownAs(h, Current(h))
        BY <1>2, <1>6 DEF InSlot, KnownAs
      <3>3. QED BY <1>2, <3>1, <3>2 DEF NumPending
    <2>4. QED BY <2>1, <2>2, <2>3 DEF HostSound
  <1>8. QED BY <1>3, <1>4, <1>7, OneHost

\* genLogicalName asks for a number, or gives up when there is no Main Disk.
LEMMA AskedNumber ==
    ASSUME WhereInv, NEW h \in DkHosts, genLogicalName(h)
    PROVE  \/ \E n \in Nat : /\ dkSrv' = [dkSrv EXCEPT ![h].num = n]
                             /\ Current(h) = "M" => n = getMaxDiskNumber + 1
           \/ dkSrv' = [dkSrv EXCEPT ![h].step = "raise"]
  <1>1. DkTypeOK
    BY DEF WhereInv
  <1>2. getMaxDiskNumber + 1 \in Nat
    BY <1>1, NewNumber
  <1>3. \A d \in MainHere(h) : dkRow[d].name.num \in Nat
    BY <1>1, MountedIs DEF MainHere, DkRows, DkNames
  <1>4. CASE Current(h) = "M"
    BY <1>2, <1>4 DEF genLogicalName
  <1>5. CASE Current(h) # "M"
    BY <1>3, <1>5 DEF genLogicalName
  <1>6. QED BY <1>4, <1>5

\* genLogicalName asks only for a disk without a row and a name that is used.
LEMMA WhereGenName ==
    ASSUME WhereInv, NEW h \in DkHosts, genLogicalName(h)
    PROVE  WhereInv'
  <1>1. /\ Updating(h) /\ InSlot(h, Current(h)) # DkNone /\ Source(h) = DkNone /\ dkSrv[h].num = 0
        /\ UNCHANGED <<dkHeld, dkAt, dkRow, dkInfo, dkEvents>>
    BY DEF genLogicalName
  <1>2. DkTypeOK /\ dkSrv[h] \in DkServers /\ dkSrv[h].step = "write"
    BY <1>1 DEF WhereInv, DkTypeOK, Updating
  <1>3. /\ dkOdd'.kept = dkOdd.kept /\ dkOdd'.crashed = dkOdd.crashed /\ dkOdd'.stale = dkOdd.stale
        /\ dkOdd' \in DkOdds
    BY <1>2 DEF genLogicalName, DkTypeOK, DkOdds
  <1>4. KnownAs(h, Current(h)) = DkNone /\ (h \notin DkArchiving => dkRow[InSlot(h, Current(h))] = DkNone)
    BY <1>1, SourceIs
  <1>5. ASSUME NEW n \in Nat, dkSrv' = [dkSrv EXCEPT ![h].num = n] PROVE WhereInv'
    <2> DEFINE r == [dkSrv[h] EXCEPT !.num = n]
    <2>1. dkSrv' = [dkSrv EXCEPT ![h] = r]
      BY <1>2, <1>5 DEF DkTypeOK
    <2>2. /\ r \in DkServers /\ r.todo = dkSrv[h].todo /\ r.known = dkSrv[h].known /\ r.step = "write"
      BY <1>2 DEF DkServers
    <2> HIDE DEF r
    <2>3. QED BY <1>1, <1>3, <1>4, <2>1, <2>2, WhereAsk
  <1>6. ASSUME dkSrv' = [dkSrv EXCEPT ![h].step = "raise"] PROVE WhereInv'
    <2> DEFINE r == [dkSrv[h] EXCEPT !.step = "raise"]
    <2>1. dkSrv' = [dkSrv EXCEPT ![h] = r]
      BY <1>2, <1>6 DEF DkTypeOK
    <2>2. r \in DkServers /\ r.todo = dkSrv[h].todo /\ r.known = dkSrv[h].known /\ r.step = "raise" /\ r.num = 0
      BY <1>1, <1>2 DEF DkServers, DkSteps
    <2> HIDE DEF r
    <2>3. QED BY <1>1, <1>3, <2>1, <2>2, WhereAsk
  <1>7. QED BY <1>5, <1>6, AskedNumber

\* A slot without a disk ends the update.
LEMMA WhereMissing ==
    ASSUME WhereInv, NEW h \in DkHosts, MissingSlot(h)
    PROVE  WhereInv'
  <1>1. DkTypeOK /\ HostSound(h) /\ dkSrv[h] \in DkServers /\ Updating(h) /\ InSlot(h, Current(h)) = DkNone
        /\ UNCHANGED <<dkHeld, dkAt, dkRow, dkInfo, dkOdd, dkEvents>>
    BY DEF WhereInv, DkTypeOK, MissingSlot
  <1> DEFINE r == [dkSrv[h] EXCEPT !.step = "raise"]
  <1>2. dkSrv' = [dkSrv EXCEPT ![h] = r]
    BY <1>1 DEF DkTypeOK, MissingSlot
  <1>3. dkSrv[h].num = 0
    BY <1>1 DEF HostSound, NumPending
  <1>4. r \in DkServers /\ r.todo = dkSrv[h].todo /\ r.known = dkSrv[h].known /\ r.step = "raise" /\ r.num = 0
    BY <1>1, <1>3 DEF DkServers, DkSteps
  <1>5. dkOdd' = dkOdd /\ dkOdd \in DkOdds
    BY <1>1 DEF DkTypeOK
  <1> HIDE DEF r
  <1>6. QED BY <1>1, <1>2, <1>4, <1>5, WhereAsk

\* A file is written to a disk of the host that writes it, with the row of a disk it has mounted.
FileOf(e) == [name |-> dkRow[e].name, inst |-> dkRow[e].inst, done |-> dkRow[e].done, id |-> e]
Dumped(h) ==
    /\ dkInfo' \in [DkDisks -> DkFiles \cup {DkNone}]
    /\ \A d \in DkDisks :
        dkInfo'[d] = dkInfo[d] \/ \E e \in DumpedAt(h, d) : dkInfo'[d] = FileOf(e) /\ dkAt[d][1] = h /\ dkAt[d] # DkNone
    /\ dkOdd' \in DkOdds
    /\ dkOdd'.kept = dkOdd.kept /\ dkOdd'.crashed = dkOdd.crashed /\ dkOdd'.stale = dkOdd.stale
    /\ dkOdd'.names <=> dkOdd.names \/ \E d \in DkDisks : ~(DumpedAt(h, d) \subseteq {d})

\* dumpDiskInfoAllDisks writes to disks in the slots of the host only.
LEMMA DumpIs ==
    ASSUME DkTypeOK, NEW h \in DkHosts, dumpDiskInfoAllDisks(h)
    PROVE  Dumped(h)
  <1>1. ASSUME NEW d \in DkDisks, DumpedAt(h, d) # {}
        PROVE  \E e \in DumpedAt(h, d) : dkInfo'[d] = FileOf(e) /\ dkAt[d][1] = h /\ dkAt[d] # DkNone
    <2> DEFINE e == CHOOSE x \in DumpedAt(h, d) : TRUE
    <2>1. e \in DumpedAt(h, d)
      BY <1>1
    <2>2. dkInfo'[d] = FileOf(e)
      BY <1>1 DEF dumpDiskInfoAllDisks, FileOf
    <2>3. e \in MountedAt(dkRow, h) /\ dkAt[d] = dkRow[e].place
      BY <2>1 DEF DumpedAt
    <2>4. dkAt[d] # DkNone /\ dkAt[d][1] = h
      BY <2>3 DEF MountedAt
    <2>5. QED BY <2>1, <2>2, <2>4
  <1>2. \A d \in DkDisks : DumpedAt(h, d) = {} => dkInfo'[d] = dkInfo[d]
    BY DEF dumpDiskInfoAllDisks
  <1>3. \A d \in DkDisks : \A e \in DumpedAt(h, d) : FileOf(e) \in DkFiles
    BY MountedIs DEF DumpedAt, FileOf, DkFiles, DkRows
  <1>4. dkInfo' \in [DkDisks -> DkFiles \cup {DkNone}]
    <2>1. \A d \in DkDisks : dkInfo'[d] \in DkFiles \cup {DkNone}
      BY <1>1, <1>2, <1>3 DEF DkTypeOK
    <2>2. DOMAIN dkInfo' = DkDisks /\ dkInfo' = [d \in DOMAIN dkInfo' |-> dkInfo'[d]]
      BY DEF dumpDiskInfoAllDisks
    <2>3. QED BY <2>1, <2>2
  <1> DEFINE odd == \E d \in DkDisks : ~(DumpedAt(h, d) \subseteq {d})
  <1>5. dkOdd' = [dkOdd EXCEPT !.names = @ \/ odd] /\ odd \in BOOLEAN
    BY DEF dumpDiskInfoAllDisks
  <1> HIDE DEF odd
  <1>6. /\ dkOdd' \in DkOdds
        /\ dkOdd'.kept = dkOdd.kept /\ dkOdd'.crashed = dkOdd.crashed /\ dkOdd'.stale = dkOdd.stale /\ dkOdd'.names = (dkOdd.names \/ odd)
    BY <1>5 DEF DkTypeOK, DkOdds
  <1>7. QED BY <1>1, <1>2, <1>4, <1>6 DEF Dumped, odd

\* A server that has nothing to do any more goes on, or goes down and leaves no row mounted.
Settled(h, r) ==
    /\ r \in DkServers /\ r.todo = <<>> /\ r.num = 0 /\ r.known = [s \in DkSlots |-> DkNone]
    /\ \A d \in DkDisks : dkRow'[d] = dkRow[d] \/ d \in MountedAt(dkRow, h)
    /\ \/ /\ r.step = "on" /\ Step(h) \in {"write", "on"} /\ dkSrv[h].todo = <<>>
          /\ \A d \in MountedAt(dkRow, h) :
                /\ dkRow'[d].place = dkRow[d].place /\ dkRow'[d].name = dkRow[d].name
                /\ dkRow[d].done => dkRow'[d].done
       \/ r.step = "off" /\ \A d \in MountedAt(dkRow, h) : dkRow'[d].place = DkNone

\* A server that goes on with its rows, or down without any, stays sound.
LEMMA WhereSettle ==
    ASSUME WhereInv, NEW h \in DkHosts, NEW r, Settled(h, r), dkSrv' = [dkSrv EXCEPT ![h] = r], dkAt' = dkAt, dkHeld' = dkHeld,
           dkRow' \in [DkDisks -> DkRows \cup {DkNone}], dkInfo' \in [DkDisks -> DkFiles \cup {DkNone}], dkEvents' \in Nat,
           dkOdd' \in DkOdds,
           dkOdd'.kept = dkOdd.kept, dkOdd.crashed = dkOdd'.crashed, dkOdd'.stale = dkOdd.stale
    PROVE  WhereInv'
  <1>1. DkTypeOK /\ OneEach /\ HostSound(h) /\ r \in DkServers
    BY DEF WhereInv, Settled
  <1>2. dkSrv' \in [DkHosts -> DkServers] /\ dkSrv'[h] = r /\ \A g \in DkHosts \ {h} : dkSrv'[g] = dkSrv[g]
    BY <1>1, SetServer
  <1>3. DkTypeOK'
    BY <1>1, <1>2 DEF DkTypeOK
  <1>4. \A d \in MountedAt(dkRow, h) : dkRow'[d].place = dkRow[d].place \/ dkRow'[d].place = DkNone
    BY DEF Settled
  <1>5. ASSUME NEW g \in DkHosts \ {h} PROVE Left(g)
    <2>1. RowsLeft(g)
      <3>1. \A d \in DkDisks : d \in MountedAt(dkRow', g) => dkRow'[d] = dkRow[d]
        BY <1>4 DEF Settled, MountedAt
      <3>2. \A d \in DkDisks : dkRow[d] = DkNone => dkRow'[d] = DkNone
        BY DEF Settled, MountedAt
      <3>3. \A d \in DkDisks : d \in MountedAt(dkRow', g) => d \in MountedAt(dkRow, g)
        BY <3>1 DEF MountedAt
      <3>4. QED BY <3>1, <3>2, <3>3 DEF RowsLeft
    <2>2. QED BY <1>2, <2>1 DEF Left
  <1>6. /\ Vouched(h)' \subseteq MountedAt(dkRow', h) /\ Vouched(h)' \subseteq Vouched(h)
        /\ MountedAt(dkRow', h) \subseteq MountedAt(dkRow, h)
    BY DEF MountedAt, Settled, Vouched
  <1>7. \A x \in DkSlots : KnownAs(h, x)' = DkNone /\ ~Pending(h, x)'
    BY <1>2 DEF KnownAs, Pending, Has, Settled
  <1>8. dkSrv'[h].num = 0 /\ dkSrv'[h].todo = <<>> /\ Step(h)' = r.step
    BY <1>2 DEF Settled, Step
  <1>9. TodoThere(h)' /\ KnownThere(h)' /\ KnownRole(h)' /\ NumPending(h)'
    BY <1>7, <1>8 DEF TodoThere, KnownThere, KnownRole, NumPending
  <1>10. CASE r.step = "off" /\ \A d \in MountedAt(dkRow, h) : dkRow'[d].place = DkNone
    <2>1. MountedAt(dkRow', h) = {}
      BY <1>6, <1>10 DEF MountedAt
    <2>2. DownClean(h)' /\ MountedHere(h)' /\ PlacedOrPending(h)' /\ RoleOrPending(h)'
      BY <1>6, <2>1 DEF DownClean, MountedHere, PlacedOrPending, RoleOrPending
    <2>3. QED BY <1>3, <1>5, <1>9, <2>2, OneHost DEF HostSound
  <1>11. CASE /\ r.step = "on" /\ Step(h) \in {"write", "on"} /\ dkSrv[h].todo = <<>>
              /\ \A d \in MountedAt(dkRow, h) :
                    /\ dkRow'[d].place = dkRow[d].place /\ dkRow'[d].name = dkRow[d].name
                    /\ dkRow[d].done => dkRow'[d].done
    <2>1. \A x : ~Pending(h, x)
      BY <1>11 DEF Pending, Has
    <2>2. DownClean(h)' /\ MountedHere(h)'
      BY <1>1, <1>6, <1>8, <1>11 DEF Vouched, HostSound, DownClean, MountedHere
    <2>3. PlacedOrPending(h)' /\ RoleOrPending(h)'
      BY <1>1, <1>6, <1>11, <2>1 DEF Vouched, HostSound, PlacedOrPending, RoleOrPending
    <2>4. QED BY <1>3, <1>5, <1>9, <2>2, <2>3, OneHost DEF HostSound
  <1>12. QED BY <1>10, <1>11 DEF Settled

\* With every slot updated, the server is Online.
LEMMA WhereOnline ==
    ASSUME WhereInv, NEW h \in DkHosts, DkOnline(h)
    PROVE  WhereInv'
  <1> DEFINE r == [DkDown EXCEPT !.step = "on"]
  <1>1. /\ Step(h) = "write" /\ dkSrv[h].todo = <<>> /\ dumpDiskInfoAllDisks(h)
        /\ dkSrv' = [dkSrv EXCEPT ![h] = r] /\ UNCHANGED <<dkHeld, dkAt, dkRow, dkEvents>>
    BY DEF DkOnline, Step
  <1>2. r.todo = <<>> /\ r.num = 0 /\ r.known = [s \in DkSlots |-> DkNone] /\ r.step = "on" /\ r \in DkServers
    BY DownIs DEF DkDown
  <1> HIDE DEF r
  <1>3. Settled(h, r)
    BY <1>1, <1>2 DEF Settled
  <1>4. DkTypeOK /\ Dumped(h)
    BY <1>1, DumpIs DEF WhereInv
  <1>5. QED BY <1>1, <1>3, <1>4, WhereSettle DEF Dumped, DkTypeOK

\* markDisksAsUnmountedInDb clears the places of the host and nothing else.
LEMMA UnmountedAll ==
    ASSUME DkTypeOK, NEW h \in DkHosts, markDisksAsUnmountedInDb(h)
    PROVE  /\ dkRow' \in [DkDisks -> DkRows \cup {DkNone}]
           /\ \A d \in DkDisks : dkRow'[d] = dkRow[d] \/ d \in MountedAt(dkRow, h)
           /\ \A d \in MountedAt(dkRow, h) : dkRow'[d] = [dkRow[d] EXCEPT !.place = DkNone] /\ dkRow'[d].place = DkNone
  <1>1. \A d \in DkDisks : dkRow'[d] = IF d \in MountedAt(dkRow, h) THEN [dkRow[d] EXCEPT !.place = DkNone] ELSE dkRow[d]
    BY DEF markDisksAsUnmountedInDb
  <1>2. \A d \in MountedAt(dkRow, h) : /\ d \in DkDisks /\ [dkRow[d] EXCEPT !.place = DkNone] \in DkRows
                                       /\ [dkRow[d] EXCEPT !.place = DkNone].place = DkNone
    BY MountedIs DEF DkRows
  <1>3. \A d \in DkDisks : dkRow'[d] \in DkRows \cup {DkNone}
    BY <1>1, <1>2 DEF DkTypeOK
  <1>4. DOMAIN dkRow' = DkDisks /\ dkRow' = [d \in DOMAIN dkRow' |-> dkRow'[d]]
    BY DEF markDisksAsUnmountedInDb
  <1>5. QED BY <1>1, <1>2, <1>3, <1>4

\* A server that goes down leaves none mounted.
LEMMA WhereGoDown ==
    ASSUME WhereInv, NEW h \in DkHosts, DkGoDown(h)
    PROVE  WhereInv'
  <1>1. /\ dumpDiskInfoAllDisks(h) /\ markDisksAsUnmountedInDb(h)
        /\ dkSrv' = [dkSrv EXCEPT ![h] = DkDown] /\ UNCHANGED <<dkHeld, dkAt, dkEvents>>
    BY DEF DkGoDown
  <1>2. DkDown.todo = <<>> /\ DkDown.num = 0 /\ DkDown.known = [s \in DkSlots |-> DkNone] /\ DkDown.step = "off"
    BY DEF DkDown
  <1>3. DkTypeOK /\ Dumped(h)
    BY <1>1, DumpIs DEF WhereInv
  <1>4. Settled(h, DkDown)
    BY <1>1, <1>2, <1>3, DownIs, UnmountedAll DEF Settled
  <1>5. QED BY <1>1, <1>3, <1>4, UnmountedAll, WhereSettle DEF Dumped, DkTypeOK

\* The operators leave every host what it has, but for rows that are labelled or lost.
LEMMA AllLeft ==
    ASSUME WhereInv, DkTypeOK', \A g \in DkHosts : Left(g), dkAt' = dkAt
    PROVE  WhereInv'
  <1>1. OneEach'
    BY DEF WhereInv, OneEach
  <1>2. \A g \in DkHosts : HostSound(g)'
    BY LeftSound DEF WhereInv
  <1>3. QED BY <1>1, <1>2 DEF WhereInv

\* A request that reads a row changes nothing.
LEMMA WhereRead ==
    ASSUME WhereInv, NEW h \in DkHosts, DkRead(h)
    PROVE  WhereInv'
  <1>1. DkTypeOK /\ dkEvents' \in Nat /\ UNCHANGED <<dkAt, dkRow, dkInfo, dkSrv, dkOdd>>
    BY DEF DkRead, WhereInv, DkTypeOK, DkEvent
  <1>2. PICK d \in MountedAt(dkRow, h), what \in {"status", "full"} :
            dkHeld' = dkHeld \cup {[host |-> h, disk |-> d, row |-> dkRow[d], what |-> what]}
    BY DEF DkRead
  <1>3. d \in DkDisks /\ dkRow[d] \in DkRows /\ dkRow[d].place \in Places /\ dkRow[d].place[1] = h
    BY <1>1, MountedIs
  <1>4. dkHeld' \subseteq DkHelds /\ \A r \in dkHeld' : r.row.place \in Places /\ r.row.place[1] = r.host
    BY <1>1, <1>2, <1>3 DEF DkTypeOK, DkHelds
  <1>5. DkTypeOK'
    BY <1>1, <1>4 DEF DkTypeOK
  <1>6. \A g \in DkHosts : Left(g)
    BY <1>1 DEF Left, RowsLeft
  <1>7. QED BY <1>1, <1>5, <1>6, AllLeft

\* What a request has read and writes back has the shape of a row.
LEMMA HeldIs ==
    ASSUME DkTypeOK, NEW r \in dkHeld
    PROVE  /\ r \in DkHelds /\ r.host \in DkHosts /\ r.disk \in DkDisks /\ r.row \in DkRows
           /\ r.row.place \in Places /\ r.row.place[1] = r.host /\ r.row.place # DkNone
           /\ WrittenBack(r) \in DkRows /\ WrittenBack(r) # DkNone
           /\ WrittenBack(r).name = r.row.name /\ WrittenBack(r).inst = r.row.inst /\ WrittenBack(r).place = r.row.place
           /\ r.row.done => WrittenBack(r).done
  <1>1. /\ r \in DkHelds /\ r.host \in DkHosts /\ r.disk \in DkDisks /\ r.row \in DkRows
        /\ r.row.place \in Places /\ r.row.place[1] = r.host
    BY DEF DkTypeOK, DkHelds
  <1>2. [r.row EXCEPT !.done = TRUE] \in DkRows /\ [r.row EXCEPT !.done = TRUE].done
    BY <1>1 DEF DkRows
  <1>3. /\ [r.row EXCEPT !.done = TRUE].name = r.row.name /\ [r.row EXCEPT !.done = TRUE].inst = r.row.inst
        /\ [r.row EXCEPT !.done = TRUE].place = r.row.place
    BY <1>1 DEF DkRows
  <1>4. QED BY <1>1, <1>2, <1>3, DkConfig DEF WrittenBack

\* A row that is written back in time is only completed; one that is written back late is
\* not vouched for any more.
LEMMA WrittenBackIs ==
    ASSUME WhereInv, NEW r \in dkHeld, DkWriteBack(r)
    PROVE  /\ dkRow' \in [DkDisks -> DkRows \cup {DkNone}] /\ dkRow'[r.disk] = WrittenBack(r)
           /\ \A d \in DkDisks \ {r.disk} : dkRow'[d] = dkRow[d]
           /\ dkOdd' \in DkOdds /\ dkOdd'.kept = dkOdd.kept /\ dkOdd'.crashed = dkOdd.crashed
           /\ dkOdd.stale \subseteq dkOdd'.stale
           /\ dkOdd.names => dkOdd'.names
           /\ ~dkOdd'.names => dkRow[r.disk] # DkNone /\ dkRow[r.disk].name = r.row.name
           /\ r.disk \notin dkOdd'.stale =>
                /\ Step(r.host) = "on" /\ dkRow[r.disk] \in DkRows /\ dkRow[r.disk] # DkNone
                /\ dkRow[r.disk].name = r.row.name /\ dkRow[r.disk].inst = r.row.inst
                /\ dkRow[r.disk].place = r.row.place /\ (dkRow[r.disk].done => WrittenBack(r).done)
                /\ r.disk \in Vouched(r.host)
  <1>1. DkTypeOK
    BY DEF WhereInv
  <1>2. dkRow' = [dkRow EXCEPT ![r.disk] = WrittenBack(r)]
    BY DEF DkWriteBack
  <1>3. /\ dkRow' \in [DkDisks -> DkRows \cup {DkNone}] /\ dkRow'[r.disk] = WrittenBack(r)
        /\ \A d \in DkDisks \ {r.disk} : dkRow'[d] = dkRow[d]
    BY <1>1, <1>2, HeldIs DEF DkTypeOK
  <1> DEFINE odd == ~InTime(r)
  <1>4. dkOdd' = [dkOdd EXCEPT !.stale = Stale(r, {r.disk}), !.names = @ \/ odd] /\ odd \in BOOLEAN
    BY DEF DkWriteBack
  <1>5. Stale(r, {r.disk}) \in SUBSET DkDisks /\ dkOdd.stale \subseteq Stale(r, {r.disk})
        /\ (Stale(r, {r.disk}) # {} => dkOdd.stale # {} \/ odd)
        /\ (r.disk \notin Stale(r, {r.disk}) => InTime(r) /\ r.disk \notin dkOdd.stale)
    BY <1>1, HeldIs DEF Stale, DkTypeOK, DkOdds
  <1> HIDE DEF odd
  <1>6. /\ dkOdd' \in DkOdds /\ dkOdd'.kept = dkOdd.kept /\ dkOdd'.crashed = dkOdd.crashed
        /\ dkOdd'.stale = Stale(r, {r.disk}) /\ dkOdd'.names = (dkOdd.names \/ odd)
    BY <1>1, <1>4, <1>5 DEF DkTypeOK, DkOdds
  <1>7. ASSUME r.disk \notin dkOdd'.stale
        PROVE  /\ Step(r.host) = "on" /\ dkRow[r.disk] \in DkRows /\ dkRow[r.disk] # DkNone
               /\ dkRow[r.disk].name = r.row.name /\ dkRow[r.disk].inst = r.row.inst
               /\ dkRow[r.disk].place = r.row.place /\ (dkRow[r.disk].done => WrittenBack(r).done)
               /\ r.disk \in Vouched(r.host)
    <2>1. InTime(r) /\ r.disk \notin dkOdd.stale
      BY <1>5, <1>6, <1>7
    <2>2. dkRow[r.disk] = r.row \/ dkRow[r.disk] = WrittenBack(r)
      BY <2>1 DEF InTime
    <2>3. QED BY <1>1, <2>1, <2>2, HeldIs, DkConfig DEF InTime, Step, Vouched, MountedAt
  <1>8. ASSUME ~dkOdd'.names PROVE dkRow[r.disk] # DkNone /\ dkRow[r.disk].name = r.row.name
    <2>1. dkRow[r.disk] = r.row \/ dkRow[r.disk] = WrittenBack(r)
      BY <1>4, <1>6, <1>8 DEF odd, InTime
    <2>2. QED BY <1>1, <2>1, HeldIs, DkConfig
  <1>9. QED BY <1>3, <1>4, <1>5, <1>6, <1>7, <1>8

\* A request that writes a row back leaves the hosts what they have.
LEMMA WhereWriteBack ==
    ASSUME WhereInv, NEW r \in dkHeld, DkWriteBack(r)
    PROVE  WhereInv'
  <1>1. DkTypeOK /\ UNCHANGED <<dkAt, dkInfo, dkSrv, dkEvents>>
    BY DEF WhereInv, DkWriteBack
  <1> DEFINE D == {[x EXCEPT !.row = WrittenBack(r), !.what = "dump"] : x \in {y \in {r} : y.what = "full"}}
  <1>2. \A x \in D : x \in DkHelds /\ x.row = WrittenBack(r) /\ x.host = r.host
    BY <1>1, HeldIs DEF DkHelds
  <1>3. dkHeld' \subseteq dkHeld \cup D
    BY DEF DkWriteBack
  <1> HIDE DEF D
  <1>4. dkHeld' \subseteq DkHelds /\ \A x \in dkHeld' : x.row.place \in Places /\ x.row.place[1] = x.host
    BY <1>1, <1>2, <1>3, HeldIs DEF DkTypeOK
  <1>5. DkTypeOK'
    BY <1>1, <1>4, WrittenBackIs DEF DkTypeOK
  <1>6. ASSUME NEW g \in DkHosts PROVE Left(g)
    <2>1. RowsLeft(g)
      <3>1. SUFFICES ASSUME NEW d \in DkDisks \ dkOdd'.stale
                     PROVE  /\ d \in MountedAt(dkRow', g) =>
                                 /\ d \in MountedAt(dkRow, g) /\ dkRow'[d].place = dkRow[d].place
                                 /\ (dkRow[d].done => dkRow'[d].done) /\ dkRow'[d].name.cat \in {dkRow[d].name.cat, "X"}
                            /\ dkAt[d] # DkNone /\ dkAt[d][1] = g /\ dkRow[d] = DkNone => dkRow'[d] = DkNone
        BY DEF RowsLeft
      <3>2. CASE d # r.disk
        BY <3>2, WrittenBackIs DEF MountedAt
      <3>3. CASE d = r.disk
        BY <1>1, <3>1, <3>3, WrittenBackIs, HeldIs DEF MountedAt
      <3>4. QED BY <3>2, <3>3
    <2>2. QED BY <1>1, <2>1, WrittenBackIs DEF Left
  <1>7. QED BY <1>1, <1>5, <1>6, AllLeft

\* A file that a request writes: to the disk in the place that the request knows, which
\* belongs to its host.
LEMMA DumpedToIs ==
    ASSUME WhereInv, NEW r \in dkHeld, DkDump(r)
    PROVE  /\ dkInfo' \in [DkDisks -> DkFiles \cup {DkNone}]
           /\ \A d \in DkDisks : d \notin DumpedTo(r) => dkInfo'[d] = dkInfo[d]
           /\ \A d \in DumpedTo(r) : /\ dkInfo'[d] = FileOf(r.disk) /\ dkRow[r.disk] \in DkRows /\ dkRow[r.disk] # DkNone
                                     /\ dkInfo'[d] # DkNone /\ dkAt[d] = r.row.place /\ dkAt[d][1] = r.host
           /\ dkOdd' \in DkOdds /\ dkOdd'.kept = dkOdd.kept /\ dkOdd'.crashed = dkOdd.crashed
           /\ dkOdd.stale \subseteq dkOdd'.stale
           /\ dkOdd.names => dkOdd'.names
           /\ ~dkOdd'.names => DumpedTo(r) \subseteq {r.disk}
           /\ \A d \in DumpedTo(r) : d \notin dkOdd'.stale => Step(r.host) = "on"
  <1>1. DkTypeOK
    BY DEF WhereInv
  <1>2. \A d \in DumpedTo(r) : d \in DkDisks /\ dkRow[r.disk] \in DkRows /\ dkRow[r.disk] # DkNone /\ dkAt[d] = r.row.place
    BY <1>1, HeldIs DEF DumpedTo, DkTypeOK
  <1>3. \A d \in DumpedTo(r) : FileOf(r.disk) \in DkFiles /\ dkAt[d][1] = r.host
    BY <1>1, <1>2, HeldIs DEF FileOf, DkFiles, DkRows
  <1>4. /\ \A d \in DkDisks : d \notin DumpedTo(r) => dkInfo'[d] = dkInfo[d]
        /\ \A d \in DumpedTo(r) : dkInfo'[d] = FileOf(r.disk)
        /\ DOMAIN dkInfo' = DkDisks /\ dkInfo' = [d \in DOMAIN dkInfo' |-> dkInfo'[d]]
    BY <1>2 DEF DkDump, FileOf
  <1>5. dkInfo' \in [DkDisks -> DkFiles \cup {DkNone}]
    <2>1. \A d \in DkDisks : dkInfo'[d] \in DkFiles \cup {DkNone}
      BY <1>1, <1>3, <1>4 DEF DkTypeOK
    <2>2. QED BY <1>4, <2>1
  <1> DEFINE odd == ~InTime(r) \/ ~(DumpedTo(r) \subseteq {r.disk})
  <1>6. dkOdd' = [dkOdd EXCEPT !.stale = Stale(r, DumpedTo(r)), !.names = @ \/ odd] /\ odd \in BOOLEAN
    <2>1. dkOdd' = [dkOdd EXCEPT !.stale = Stale(r, DumpedTo(r)), !.names = @ \/ ~InTime(r) \/ ~(DumpedTo(r) \subseteq {r.disk})]
      BY DEF DkDump
    <2>2. QED BY <1>1, <2>1 DEF DkTypeOK, DkOdds
  <1>7. Stale(r, DumpedTo(r)) \in SUBSET DkDisks /\ dkOdd.stale \subseteq Stale(r, DumpedTo(r))
        /\ (Stale(r, DumpedTo(r)) # {} => dkOdd.stale # {} \/ odd)
        /\ \A d \in DumpedTo(r) : d \notin Stale(r, DumpedTo(r)) => Step(r.host) = "on"
    BY <1>1, <1>2 DEF Stale, DkTypeOK, DkOdds, InTime, Step
  <1> HIDE DEF odd
  <1>8. /\ dkOdd' \in DkOdds /\ dkOdd'.kept = dkOdd.kept /\ dkOdd'.crashed = dkOdd.crashed
        /\ dkOdd'.stale = Stale(r, DumpedTo(r)) /\ dkOdd'.names = (dkOdd.names \/ odd)
    BY <1>1, <1>6, <1>7 DEF DkTypeOK, DkOdds
  <1>9. \A d \in DumpedTo(r) : dkInfo'[d] # DkNone
    BY <1>3, <1>4, DkConfig
  <1>10. QED BY <1>2, <1>3, <1>4, <1>5, <1>7, <1>8, <1>9 DEF odd

\* The file of a completed disk leaves the rows alone.
LEMMA WhereDump ==
    ASSUME WhereInv, NEW r \in dkHeld, DkDump(r)
    PROVE  WhereInv'
  <1>1. DkTypeOK /\ UNCHANGED <<dkAt, dkRow, dkSrv, dkEvents>> /\ dkHeld' \subseteq dkHeld
    BY DEF WhereInv, DkDump
  <1>2. DkTypeOK'
    BY <1>1, DumpedToIs DEF DkTypeOK
  <1>3. \A g \in DkHosts : Left(g)
    BY <1>1, DumpedToIs DEF Left, RowsLeft, MountedAt
  <1>4. QED BY <1>1, <1>2, <1>3, AllLeft

\* A crash leaves rows mounted, and is remembered.
LEMMA WhereCrash ==
    ASSUME WhereInv, NEW h \in DkHosts, DkCrash(h)
    PROVE  WhereInv'
  <1>1. /\ DkTypeOK /\ dkSrv' = [dkSrv EXCEPT ![h] = DkDown] /\ dkEvents' \in Nat /\ UNCHANGED <<dkAt, dkRow, dkInfo>>
        /\ dkHeld' \subseteq dkHeld
        /\ dkOdd' = [dkOdd EXCEPT !.crashed = @ \cup {h}]
    BY DEF DkCrash, WhereInv, DkTypeOK, DkEvent
  <1>2. dkSrv' \in [DkHosts -> DkServers] /\ dkSrv'[h] = DkDown /\ \A g \in DkHosts \ {h} : dkSrv'[g] = dkSrv[g]
    BY <1>1, DownIs, SetServer
  <1>3. /\ dkOdd' \in DkOdds
        /\ dkOdd'.kept = dkOdd.kept /\ h \in dkOdd'.crashed /\ dkOdd.crashed \subseteq dkOdd'.crashed /\ dkOdd'.stale = dkOdd.stale
    BY <1>1 DEF DkTypeOK, DkOdds
  <1>4. DkTypeOK'
    BY <1>1, <1>2, <1>3 DEF DkTypeOK
  <1>5. ASSUME NEW g \in DkHosts \ {h} PROVE Left(g)
    <2>1. RowsLeft(g)
      BY <1>1, RowsLeftBy
    <2>2. QED BY <1>1, <1>2, <1>3, <2>1 DEF Left
  <1>6. /\ DkDown.todo = <<>> /\ DkDown.num = 0 /\ DkDown.step = "off" /\ \A s \in DkSlots : DkDown.known[s] = DkNone
    BY DEF DkDown
  <1>7. Step(h)' = "off" /\ dkSrv'[h].num = 0 /\ dkSrv'[h].todo = <<>> /\ \A s \in DkSlots : KnownAs(h, s)' = DkNone
    BY <1>2, <1>6 DEF Step, KnownAs
  <1>8. HostSound(h)'
    BY <1>3, <1>7 DEF HostSound, TodoThere, KnownThere, MountedHere, PlacedOrPending, RoleOrPending, KnownRole, NumPending, DownClean
  <1>9. QED BY <1>1, <1>4, <1>5, <1>8, OneHost

\* A label takes the role from a disk and nothing else.
LEMMA WhereLabel ==
    ASSUME WhereInv, NEW d \in DkDisks, LABEL(d)
    PROVE  WhereInv'
  <1>1. /\ DkTypeOK /\ dkRow[d] # DkNone /\ dkRow' = [dkRow EXCEPT ![d].name.cat = "X"] /\ dkEvents' \in Nat
        /\ UNCHANGED <<dkHeld, dkAt, dkInfo, dkSrv, dkOdd>>
    BY DEF LABEL, WhereInv, DkTypeOK, DkEvent
  <1>2. dkRow[d] \in DkRows
    BY <1>1 DEF DkTypeOK
  <1>3. /\ dkRow'[d] \in DkRows /\ dkRow'[d].place = dkRow[d].place /\ dkRow'[d].done = dkRow[d].done /\ dkRow'[d].name.cat = "X"
        /\ \A e \in DkDisks \ {d} : dkRow'[e] = dkRow[e]
    BY <1>1, <1>2 DEF DkTypeOK, DkRows, DkNames
  <1>4. dkRow' \in [DkDisks -> DkRows \cup {DkNone}]
    BY <1>1, <1>3 DEF DkTypeOK
  <1>5. DkTypeOK'
    BY <1>1, <1>4 DEF DkTypeOK
  <1>6. ASSUME NEW g \in DkHosts PROVE Left(g)
    <2>1. \A e \in DkDisks : e \in MountedAt(dkRow', g) => e \in MountedAt(dkRow, g)
      BY <1>1, <1>3 DEF MountedAt
    <2>2. RowsLeft(g)
      BY <1>1, <1>3, <2>1 DEF RowsLeft
    <2>3. QED BY <1>1, <2>2 DEF Left
  <1>7. QED BY <1>1, <1>5, <1>6, AllLeft

\* A lost file or row mounts nothing.
LEMMA WhereLost ==
    ASSUME WhereInv, NEW d \in DkDisks, DkLost(d)
    PROVE  WhereInv'
  <1>1. DkTypeOK /\ dkEvents' \in Nat /\ UNCHANGED <<dkHeld, dkAt, dkSrv>>
    BY DEF DkLost, WhereInv, DkTypeOK, DkEvent
  <1>2. /\ dkRow' \in [DkDisks -> DkRows \cup {DkNone}] /\ \A e \in DkDisks : dkRow'[e] \in {dkRow[e], DkNone}
        /\ dkInfo' \in [DkDisks -> DkFiles \cup {DkNone}]
    BY <1>1 DEF DkLost, DkTypeOK
  <1>3. /\ dkOdd' \in DkOdds
        /\ dkOdd'.kept = dkOdd.kept /\ dkOdd'.crashed = dkOdd.crashed /\ dkOdd'.stale = dkOdd.stale
    BY <1>1 DEF DkLost, DkTypeOK, DkOdds
  <1>4. DkTypeOK'
    BY <1>1, <1>2, <1>3 DEF DkTypeOK
  <1>5. ASSUME NEW g \in DkHosts PROVE Left(g)
    <2>1. RowsLeft(g)
      BY <1>2 DEF RowsLeft, MountedAt
    <2>2. QED BY <1>1, <1>3, <2>1 DEF Left
  <1>6. QED BY <1>1, <1>4, <1>5, AllLeft

\* Disks are exchanged between the shelf and hosts that are down.
LEMMA ExchangeIs ==
    ASSUME WhereInv, NEW d \in DkDisks, NEW p \in Places \cup {DkNone}, DkExchange(d, p)
    PROVE  /\ dkAt' \in [DkDisks -> Places \cup {DkNone}] /\ OneEach'
           /\ \A e \in DkDisks : \A h \in DkHosts : \A s \in DkSlots :
                Step(h) # "off" => (dkAt'[e] = <<h, s>> <=> dkAt[e] = <<h, s>>)
           /\ \A e \in DkDisks : dkAt'[e] = dkAt[e] \/ (dkAt[e] \in DkReachable /\ dkAt'[e] \in DkReachable)
  <1>1. dkAt \in [DkDisks -> Places \cup {DkNone}] /\ OneEach
    BY DEF WhereInv, DkTypeOK
  <1>2. /\ p \in DkReachable /\ dkAt[d] \in DkReachable /\ dkAt[d] # p
        /\ dkAt' = [e \in DkDisks |-> IF e = d THEN p ELSE IF dkAt[e] = p /\ p # DkNone THEN dkAt[d] ELSE dkAt[e]]
    BY DEF DkExchange
  <1>3. dkAt' \in [DkDisks -> Places \cup {DkNone}]
    BY <1>1, <1>2
  <1>4. \A e \in DkDisks : dkAt'[e] = dkAt[e] \/ (dkAt[e] \in DkReachable /\ dkAt'[e] \in DkReachable)
    BY <1>2
  <1>5. OneEach'
    BY <1>1, <1>2 DEF OneEach
  <1>6. \A h \in DkHosts : \A s \in DkSlots : Step(h) # "off" => <<h, s>> \notin DkReachable
    <2>1. \A h \in DkHosts : \A s \in DkSlots : <<h, s>> \in Places /\ <<h, s>> # DkNone /\ <<h, s>>[1] = h
      BY DkConfig DEF Places
    <2>2. QED BY <2>1 DEF DkReachable, Step
  <1>7. QED BY <1>3, <1>4, <1>5, <1>6

\* Exchanging disks of hosts that are down leaves the others theirs.
LEMMA WhereExchange ==
    ASSUME WhereInv, NEW d \in DkDisks, NEW p \in Places \cup {DkNone}, DkExchange(d, p)
    PROVE  WhereInv'
  <1>1. DkTypeOK /\ OneEach /\ dkEvents' \in Nat /\ UNCHANGED <<dkHeld, dkRow, dkInfo, dkSrv, dkOdd>>
    BY DEF DkExchange, WhereInv, DkTypeOK, DkEvent
  <1>2. dkAt' \in [DkDisks -> Places \cup {DkNone}] /\ OneEach'
    BY ExchangeIs
  <1>3. DkTypeOK'
    BY <1>1, <1>2 DEF DkTypeOK
  <1>4. ASSUME NEW h \in DkHosts PROVE HostSound(h)'
    <2>1. HostSound(h)
      BY DEF WhereInv
    <2>2. Step(h)' = Step(h) /\ dkSrv'[h] = dkSrv[h] /\ Vouched(h)' = Vouched(h) /\ dkOdd' = dkOdd /\ dkRow' = dkRow
      BY <1>1 DEF Step, Vouched, MountedAt
    <2>3. \A s \in DkSlots : KnownAs(h, s)' = KnownAs(h, s) /\ (Pending(h, s)' <=> Pending(h, s))
      BY <1>1 DEF KnownAs, Pending
    <2>4. CASE Step(h) = "off"
      <3>1. dkSrv[h].num = 0
        BY <2>1, <2>4 DEF HostSound, NumPending, Updating, Step
      <3>2. TodoThere(h)' /\ KnownThere(h)' /\ MountedHere(h)' /\ PlacedOrPending(h)' /\ RoleOrPending(h)'
        BY <2>1, <2>2, <2>3, <2>4 DEF HostSound, TodoThere, KnownThere, MountedHere, PlacedOrPending, RoleOrPending
      <3>3. KnownRole(h)' /\ NumPending(h)' /\ DownClean(h)'
        BY <2>1, <2>2, <2>4, <3>1 DEF HostSound, KnownRole, NumPending, DownClean
      <3>4. QED BY <3>2, <3>3 DEF HostSound
    <2>5. CASE Step(h) # "off"
      <3>1. \A e \in DkDisks : \A s \in DkSlots : dkAt'[e] = <<h, s>> <=> dkAt[e] = <<h, s>>
        BY <2>5, ExchangeIs
      <3>2. \A s \in DkSlots : InSlot(h, s)' = InSlot(h, s)
        <4> TAKE s \in DkSlots
        <4>1. InSlot(h, s) # DkNone => InSlot(h, s) \in DkDisks /\ dkAt[InSlot(h, s)] = <<h, s>>
          BY <1>1, InSlotIs
        <4>2. CASE InSlot(h, s) # DkNone
          <5>1. dkAt'[InSlot(h, s)] = <<h, s>> /\ <<h, s>> # DkNone
            BY <4>1, <4>2, <3>1, DkConfig DEF Places
          <5>2. \A e \in DkDisks : dkAt'[e] = <<h, s>> => e = InSlot(h, s)
            BY <4>1, <4>2, <5>1, <1>2 DEF OneEach
          <5>3. QED BY <4>1, <4>2, <5>1, <5>2 DEF InSlot
        <4>3. CASE InSlot(h, s) = DkNone
          <5>1. \A e \in DkDisks : dkAt[e] # <<h, s>>
            BY <4>3, <1>1, InSlotIs, DkConfig
          <5>2. \A e \in DkDisks : dkAt'[e] # <<h, s>>
            BY <5>1, <3>1
          <5>3. QED BY <4>3, <5>2 DEF InSlot
        <4>4. QED BY <4>2, <4>3
      <3>3. \A e \in Vouched(h) : dkAt'[e] = dkAt[e] /\ e \in DkDisks /\ dkAt[e] # DkNone /\ dkAt[e][1] = h
        <4>1. \A e \in Vouched(h) : e \in DkDisks /\ dkAt[e] # DkNone /\ dkAt[e][1] = h
          BY <2>1, <2>5 DEF HostSound, MountedHere, Vouched, MountedAt
        <4>2. \A e \in Vouched(h) : dkAt[e] = <<h, dkAt[e][2]>> /\ dkAt[e][2] \in DkSlots
          BY <4>1, <1>1, PlaceOf DEF DkTypeOK
        <4>3. QED BY <4>1, <4>2, <3>1
      <3>4. \A e \in Vouched(h) : dkAt[e][2] \in DkSlots
        BY <3>3, <1>1, PlaceOf DEF DkTypeOK
      <3>5. TodoThere(h)' /\ KnownThere(h)' /\ KnownRole(h)' /\ DownClean(h)' /\ MountedHere(h)'
        BY <2>1, <2>2, <2>3, <2>5, <3>2, <3>3 DEF HostSound, TodoThere, KnownThere, KnownRole, DownClean, MountedHere
      <3>6. PlacedOrPending(h)' /\ RoleOrPending(h)'
        BY <2>1, <2>2, <2>3, <3>3, <3>4 DEF HostSound, PlacedOrPending, RoleOrPending
      <3>7. NumPending(h)'
        <4>1. SUFFICES ASSUME dkSrv[h].num # 0
                       PROVE  /\ Updating(h)' /\ InSlot(h, Current(h))' # DkNone /\ KnownAs(h, Current(h))' = DkNone
                              /\ h \notin DkArchiving => dkRow'[InSlot(h, Current(h))'] = DkNone \/ InSlot(h, Current(h))' \in dkOdd'.stale
          BY <2>2 DEF NumPending
        <4>2. /\ Updating(h) /\ InSlot(h, Current(h)) # DkNone /\ KnownAs(h, Current(h)) = DkNone
              /\ h \notin DkArchiving => dkRow[InSlot(h, Current(h))] = DkNone \/ InSlot(h, Current(h)) \in dkOdd.stale
          BY <2>1, <4>1 DEF HostSound, NumPending
        <4>3. Current(h) \in DkSlots /\ Current(h)' = Current(h) /\ Updating(h)'
          BY <4>2, <1>1, TodoTail DEF Updating, Current, DkTypeOK, DkServers
        <4>4. InSlot(h, Current(h))' = InSlot(h, Current(h))
          <5> DEFINE c == Current(h)
          <5>1. InSlot(h, Current(h))' = InSlot(h, c)'
            BY <4>3 DEF InSlot
          <5>2. QED BY <4>3, <5>1, <3>2
        <4>5. KnownAs(h, Current(h))' = KnownAs(h, Current(h))
          BY <4>3, <2>2 DEF KnownAs
        <4>6. QED BY <4>2, <4>3, <4>4, <4>5, <2>2
      <3>8. QED BY <3>5, <3>6, <3>7 DEF HostSound
    <2>6. QED BY <2>4, <2>5
  <1>5. QED BY <1>2, <1>3, <1>4 DEF WhereInv

\* The first state is sound.
LEMMA WhereInit == DkInit => WhereInv
  <1> SUFFICES ASSUME DkInit PROVE WhereInv
    OBVIOUS
  <1>1. /\ dkAt \in [DkDisks -> Places \cup {DkNone}] /\ OneEach
        /\ dkRow = [d \in DkDisks |-> DkNone] /\ dkInfo = [d \in DkDisks |-> DkNone]
        /\ dkSrv = [h \in DkHosts |-> DkDown] /\ dkOdd = [crashed |-> {}, kept |-> {}, names |-> FALSE, stale |-> {}] /\ dkHeld = {} /\ dkEvents = 0
    BY DEF DkInit, OneEach
  <1>2. DkTypeOK
    BY <1>1, DownIs DEF DkTypeOK, DkOdds
  <1>3. DkDown.todo = <<>> /\ DkDown.num = 0 /\ DkDown.step = "off" /\ \A s \in DkSlots : DkDown.known[s] = DkNone
    BY DEF DkDown
  <1>4. ASSUME NEW h \in DkHosts PROVE HostSound(h)
    <2>1. Step(h) = "off" /\ dkSrv[h].num = 0 /\ dkSrv[h].todo = <<>> /\ \A s \in DkSlots : KnownAs(h, s) = DkNone
      BY <1>1, <1>3 DEF Step, KnownAs
    <2>2. MountedAt(dkRow, h) = {}
      BY <1>1 DEF MountedAt
    <2>3. QED BY <2>1, <2>2 DEF Vouched, HostSound, TodoThere, KnownThere, MountedHere, PlacedOrPending, RoleOrPending, KnownRole, NumPending, DownClean
  <1>5. QED BY <1>1, <1>2, <1>4 DEF WhereInv

\* Every step keeps the rows where the disks are.
LEMMA WhereStep == WhereInv /\ [DkNext]_dkVars => WhereInv'
  <1> SUFFICES ASSUME WhereInv, [DkNext]_dkVars PROVE WhereInv'
    OBVIOUS
  <1>1. CASE UNCHANGED dkVars
    <2>1. DkTypeOK' /\ OneEach'
      BY <1>1 DEF dkVars, WhereInv, DkTypeOK, OneEach
    <2>2. \A g \in DkHosts : Left(g)
      BY <1>1 DEF dkVars, Left, RowsLeft
    <2>3. QED BY <1>1, <2>1, <2>2, AllLeft DEF dkVars
  <1>2. ASSUME NEW h \in DkHosts,
               \/ checkDisks(h) \/ updateDiskInDb(h) \/ genLogicalName(h) \/ addDiskInDb(h) \/ MissingSlot(h)
               \/ DkOnline(h) \/ DkOffline(h) \/ DkRaised(h) \/ DkRead(h) \/ DkCrash(h)
        PROVE  WhereInv'
    BY <1>2, WhereCheck, WhereUpdate, WhereGenName, WhereAdd, WhereMissing, WhereOnline, WhereGoDown, WhereRead, WhereCrash DEF DkOffline, DkRaised
  <1>3. ASSUME NEW d \in DkDisks, DkLost(d) \/ LABEL(d) \/ \E p \in Places \cup {DkNone} : DkExchange(d, p)
        PROVE  WhereInv'
    BY <1>3, WhereLost, WhereLabel, WhereExchange
  <1>4. ASSUME NEW r \in dkHeld, DkWriteBack(r) \/ DkDump(r) PROVE WhereInv'
    BY <1>4, WhereWriteBack, WhereDump
  <1>5. QED BY <1>1, <1>2, <1>3, <1>4 DEF DkNext

-----------------------------------------------------------------------------
(* What the files on the disks and the servers know of them.               *)

\* The file of a disk is not younger than its row, unless a request was late.
NotYounger(d) ==
    d \notin dkOdd.stale /\ dkInfo[d] # DkNone /\ dkInfo[d].id = d /\ dkRow[d] # DkNone => dkInfo[d].inst <= dkRow[d].inst

\* A server knows the disks it is about to update that have a file, not from an older
\* one, and knows when they are completed.
Knows(h, s, d) ==
    dkInfo[d] # DkNone =>
        /\ KnownAs(h, s) # DkNone
        /\ dkInfo[d].id = d => dkInfo[d].inst <= KnownAs(h, s).inst
        /\ dkInfo[d].id = d /\ dkRow[d] # DkNone /\ dkRow[d].done => KnownAs(h, s).done
FilesKnown(h) ==
    \A s \in DkSlots : \A d \in DkDisks \ dkOdd.stale :
        Step(h) = "write" /\ Pending(h, s) /\ dkAt[d] = <<h, s>> => Knows(h, s, d)

FileInv == (\A d \in DkDisks : NotYounger(d)) /\ \A h \in DkHosts : FilesKnown(h)

\* Files of a host that comes up may be lost, and no disk of it becomes completed.
FilesLeft(g) ==
    /\ dkSrv'[g] = dkSrv[g]
    /\ \A d \in DkDisks \ dkOdd'.stale : \A s \in DkSlots :
        Step(g) = "write" /\ dkAt'[d] = <<g, s>> =>
            /\ dkAt[d] = <<g, s>> /\ dkInfo'[d] \in {dkInfo[d], DkNone}
            /\ dkRow'[d] # DkNone /\ dkRow'[d].done => dkRow[d] # DkNone /\ dkRow[d].done

\* What a step leaves a host keeps what it knows.
LEMMA FilesLeftKnown ==
    ASSUME dkOdd.stale \subseteq dkOdd'.stale, NEW g \in DkHosts, FilesKnown(g), FilesLeft(g)
    PROVE  FilesKnown(g)'
  BY DEF FilesKnown, FilesLeft, Knows, Step, Pending, KnownAs

\* A host that does not come up any more has nothing to know.
LEMMA FilesOneHost ==
    ASSUME FileInv, dkOdd.stale \subseteq dkOdd'.stale, NEW h \in DkHosts, Step(h)' # "write", \A g \in DkHosts \ {h} : FilesLeft(g),
           \A d \in DkDisks : NotYounger(d)'
    PROVE  FileInv'
  <1>1. FilesKnown(h)'
    BY DEF FilesKnown
  <1>2. ASSUME NEW g \in DkHosts PROVE FilesKnown(g)'
    BY <1>1, FilesLeftKnown DEF FileInv
  <1>3. QED BY <1>2 DEF FileInv

\* checkDisks takes the younger of row and file, so it knows what is completed.
LEMMA FileCheck ==
    ASSUME WhereInv, FileInv, dkOdd.stale \subseteq dkOdd'.stale, NEW h \in DkHosts, checkDisks(h)
    PROVE  FileInv'
  <1>1. DkTypeOK /\ OneEach
    BY DEF WhereInv
  <1>2. UNCHANGED <<dkAt, dkInfo>> /\ dkRow' = MarkUnmounted(h, dkRow)
    BY DEF checkDisks
  <1>3. \A g \in DkHosts \ {h} : dkSrv'[g] = dkSrv[g]
    BY <1>1 DEF checkDisks, DkTypeOK
  <1>4. \A s \in DkSlots : KnownAs(h, s)' = Known(h, s)
    BY <1>1 DEF checkDisks, DkTypeOK, KnownAs
  <1>5. \A d \in DkDisks : /\ dkRow'[d] = DkNone <=> dkRow[d] = DkNone
                           /\ dkRow[d] # DkNone => dkRow'[d].inst = dkRow[d].inst /\ dkRow'[d].done = dkRow[d].done
    <2>1. \A d \in DkDisks :
            \/ dkRow'[d] = dkRow[d]
            \/ dkRow[d] # DkNone /\ dkRow'[d] = [dkRow[d] EXCEPT !.place = DkNone]
      BY <1>1, <1>2, UnmountedRows
    <2>2. \A d \in DkDisks : dkRow[d] # DkNone =>
            /\ [dkRow[d] EXCEPT !.place = DkNone] # DkNone
            /\ [dkRow[d] EXCEPT !.place = DkNone].inst = dkRow[d].inst
            /\ [dkRow[d] EXCEPT !.place = DkNone].done = dkRow[d].done
      BY <1>1, DkConfig DEF DkTypeOK, DkRows
    <2>3. QED BY <2>1, <2>2
  <1>6. \A d \in DkDisks : NotYounger(d)'
    BY <1>2, <1>5 DEF FileInv, NotYounger
  <1>7. ASSUME NEW g \in DkHosts \ {h} PROVE FilesKnown(g)'
    <2>1. FilesLeft(g)
      BY <1>2, <1>3, <1>5 DEF FilesLeft
    <2>2. QED BY <2>1, FilesLeftKnown DEF FileInv
  <1>8. FilesKnown(h)'
    <2>1. SUFFICES ASSUME NEW s \in DkSlots, NEW d \in DkDisks \ dkOdd.stale, dkAt[d] = <<h, s>>, dkInfo[d] # DkNone
                   PROVE  /\ Known(h, s) # DkNone
                          /\ dkInfo[d].id = d => dkInfo[d].inst <= Known(h, s).inst
                          /\ dkInfo[d].id = d /\ dkRow'[d] # DkNone /\ dkRow'[d].done => Known(h, s).done
      BY <1>2, <1>4 DEF FilesKnown, Knows
    <2>2. InSlot(h, s) = d /\ d # DkNone
      BY <2>1, <1>1, InSlotIs, DkConfig
    <2>3. Known(h, s) = IF dkRow[d] = DkNone \/ dkInfo[d].inst > dkRow[d].inst THEN Identity(dkInfo[d]) ELSE Identity(dkRow[d])
      BY <2>1, <2>2 DEF Known
    <2>4. dkInfo[d].inst \in Nat /\ (dkRow[d] # DkNone => dkRow[d].inst \in Nat)
      BY <2>1, <1>1 DEF DkTypeOK, DkFiles, DkRows
    <2>5. Known(h, s) # DkNone
      BY <2>1, <2>3, <1>1, DkConfig DEF Identity, DkIdentities, DkTypeOK, DkFiles, DkRows
    <2>6. NotYounger(d)
      BY DEF FileInv
    <2>7. QED BY <2>1, <2>3, <2>4, <2>5, <2>6, <1>5 DEF Identity, NotYounger
  <1>9. QED BY <1>6, <1>7, <1>8 DEF FileInv

\* A row that is written is not older than the file of its disk.
LEMMA FileWrite ==
    ASSUME WhereInv, FileInv, dkOdd.stale \subseteq dkOdd'.stale, NEW h \in DkHosts, Updating(h), InSlot(h, Current(h)) # DkNone, NEW k \in DkIdentities,
           InSlot(h, Current(h)) \notin dkOdd.stale /\ dkInfo[InSlot(h, Current(h))] # DkNone /\ dkInfo[InSlot(h, Current(h))].id = InSlot(h, Current(h))
              => dkInfo[InSlot(h, Current(h))].inst <= k.inst,
           Write(h, k), UNCHANGED <<dkAt, dkInfo>>
    PROVE  FileInv'
  <1> DEFINE d0 == InSlot(h, Current(h))
  <1>1. DkTypeOK /\ OneEach /\ dkSrv[h] \in DkServers /\ dkSrv[h].todo \in DkTodos /\ dkSrv[h].todo # <<>>
    BY DEF WhereInv, DkTypeOK, DkServers, Updating
  <1>2. Current(h) \in DkSlots
    BY <1>1, TodoTail DEF Current
  <1>3. d0 \in DkDisks /\ dkAt[d0] = <<h, Current(h)>>
    BY <1>1, <1>2, InSlotIs
  <1>4. dkRow'[d0] = [name |-> k.name, inst |-> k.inst, done |-> k.done, place |-> <<h, Current(h)>>]
        /\ \A d \in DkDisks \ {d0} : dkRow'[d] = dkRow[d]
    BY <1>1, <1>3 DEF Write, DkTypeOK
  <1>5. dkRow'[d0].inst = k.inst
    BY <1>4
  <1>6. /\ dkSrv'[h].todo = Tail(dkSrv[h].todo) /\ dkSrv'[h].step = dkSrv[h].step /\ dkSrv'[h].known = dkSrv[h].known
        /\ \A g \in DkHosts \ {h} : dkSrv'[g] = dkSrv[g]
    BY <1>1 DEF Write, DkTypeOK, DkServers
  <1> HIDE DEF d0
  <1>7. ASSUME NEW d \in DkDisks PROVE NotYounger(d)'
    <2>1. CASE d = d0
      BY <2>1, <1>5 DEF NotYounger, d0
    <2>2. CASE d # d0
      BY <2>2, <1>4 DEF NotYounger, FileInv
    <2>3. QED BY <2>1, <2>2
  <1>8. ASSUME NEW g \in DkHosts \ {h} PROVE FilesKnown(g)'
    <2>1. \A s \in DkSlots : <<g, s>> # <<h, Current(h)>>
      OBVIOUS
    <2>2. FilesLeft(g)
      BY <1>3, <1>4, <1>6, <2>1 DEF FilesLeft
    <2>3. QED BY <2>2, FilesLeftKnown DEF FileInv
  <1>9. \A x \in DkSlots : Pending(h, x)' <=> Pending(h, x) /\ x # Current(h)
    BY <1>1, <1>6, TodoTail DEF Pending, Current
  <1>10. FilesKnown(h)'
    <2>1. SUFFICES ASSUME NEW s \in DkSlots, NEW d \in DkDisks \ dkOdd'.stale, Step(h)' = "write", Pending(h, s)', dkAt[d] = <<h, s>>
                   PROVE  Knows(h, s, d)'
      BY DEF FilesKnown
    <2>2. s # Current(h) /\ Pending(h, s) /\ Step(h) = "write" /\ KnownAs(h, s)' = KnownAs(h, s)
      BY <2>1, <1>6, <1>9 DEF Step, KnownAs
    <2>3. d # d0 /\ dkRow'[d] = dkRow[d]
      BY <2>1, <2>2, <1>3, <1>4
    <2>4. Knows(h, s, d)
      BY <2>1, <2>2 DEF FileInv, FilesKnown
    <2>5. QED BY <2>2, <2>3, <2>4 DEF Knows
  <1>11. QED BY <1>7, <1>8, <1>10 DEF FileInv

\* What is known of the disk whose row is written next.
LEMMA KnowsCurrent ==
    ASSUME WhereInv, FileInv, NEW h \in DkHosts, Updating(h), InSlot(h, Current(h)) # DkNone
    PROVE  (InSlot(h, Current(h)) \notin dkOdd.stale => Knows(h, Current(h), InSlot(h, Current(h)))) /\ InSlot(h, Current(h)) \in DkDisks
  <1>1. DkTypeOK /\ OneEach /\ dkSrv[h].todo \in DkTodos /\ dkSrv[h].todo # <<>> /\ Step(h) = "write"
    BY DEF WhereInv, DkTypeOK, DkServers, Updating, Step
  <1>2. Current(h) \in DkSlots /\ Pending(h, Current(h))
    BY <1>1, TodoTail DEF Current, Pending
  <1>3. InSlot(h, Current(h)) \in DkDisks /\ dkAt[InSlot(h, Current(h))] = <<h, Current(h)>>
    BY <1>1, <1>2, InSlotIs
  <1>4. QED BY <1>1, <1>2, <1>3 DEF FileInv, FilesKnown

\* updateDiskInDb writes what is known, which is not older than the file.
LEMMA FileUpdate ==
    ASSUME WhereInv, FileInv, dkOdd.stale \subseteq dkOdd'.stale, NEW h \in DkHosts, updateDiskInDb(h)
    PROVE  FileInv'
  <1> DEFINE d0 == InSlot(h, Current(h))
  <1>1. Updating(h) /\ d0 # DkNone /\ Source(h) # DkNone /\ Write(h, Source(h)) /\ UNCHANGED <<dkAt, dkInfo>>
    BY DEF updateDiskInDb
  <1>2. /\ Source(h) \in DkIdentities
        /\ Source(h) = KnownAs(h, Current(h)) \/ (dkRow[d0] # DkNone /\ Source(h) = Identity(dkRow[d0]))
    BY <1>1, SourceIs
  <1>3. (d0 \notin dkOdd.stale => Knows(h, Current(h), d0)) /\ d0 \in DkDisks
    BY <1>1, KnowsCurrent
  <1>4. NotYounger(d0)
    BY <1>3 DEF FileInv
  <1> HIDE DEF d0
  <1>5. d0 \notin dkOdd.stale /\ dkInfo[d0] # DkNone /\ dkInfo[d0].id = d0 => dkInfo[d0].inst <= Source(h).inst
    BY <1>2, <1>3, <1>4 DEF Knows, NotYounger, Identity
  <1>6. QED BY <1>1, <1>2, <1>5, FileWrite DEF d0

\* addDiskInDb registers a disk without a file, unless a request wrote one late.
LEMMA FileAdd ==
    ASSUME WhereInv, FileInv, dkOdd.stale \subseteq dkOdd'.stale, NEW h \in DkHosts, addDiskInDb(h)
    PROVE  FileInv' /\ (InSlot(h, Current(h)) \notin dkOdd.stale => dkInfo[InSlot(h, Current(h))] = DkNone)
  <1>1. UNCHANGED <<dkAt, dkInfo>>
    BY DEF addDiskInDb
  <1>2. /\ Updating(h) /\ InSlot(h, Current(h)) # DkNone /\ KnownAs(h, Current(h)) = DkNone
        /\ NewRow(h) \in DkIdentities /\ Write(h, NewRow(h))
    BY NewRowIs
  <1>3. InSlot(h, Current(h)) \notin dkOdd.stale => dkInfo[InSlot(h, Current(h))] = DkNone
    BY <1>2, KnowsCurrent DEF Knows
  <1>4. QED BY <1>1, <1>2, <1>3, FileWrite

\* genLogicalName and MissingSlot change nothing a server knows.
LEMMA FileAsk ==
    ASSUME WhereInv, FileInv, dkOdd.stale \subseteq dkOdd'.stale, NEW h \in DkHosts, genLogicalName(h) \/ MissingSlot(h)
    PROVE  FileInv'
  <1>1. UNCHANGED <<dkAt, dkRow, dkInfo>> /\ DkTypeOK /\ dkSrv[h] \in DkServers
    BY DEF genLogicalName, MissingSlot, WhereInv, DkTypeOK
  <1>2. \/ \E n \in Nat : dkSrv' = [dkSrv EXCEPT ![h].num = n]
        \/ dkSrv' = [dkSrv EXCEPT ![h].step = "raise"]
    BY AskedNumber DEF MissingSlot
  <1>3. /\ dkSrv'[h].todo = dkSrv[h].todo /\ dkSrv'[h].known = dkSrv[h].known
        /\ dkSrv'[h].step \in {dkSrv[h].step, "raise"} /\ \A g \in DkHosts \ {h} : dkSrv'[g] = dkSrv[g]
    BY <1>1, <1>2 DEF DkTypeOK, DkServers
  <1>4. \A d \in DkDisks : NotYounger(d)'
    BY <1>1 DEF FileInv, NotYounger
  <1>5. FilesKnown(h)'
    BY <1>1, <1>3 DEF FileInv, FilesKnown, Knows, Step, Pending, KnownAs
  <1>6. ASSUME NEW g \in DkHosts \ {h} PROVE FilesKnown(g)'
    <2>1. FilesLeft(g)
      BY <1>1, <1>3 DEF FilesLeft
    <2>2. QED BY <2>1, FilesLeftKnown DEF FileInv
  <1>7. QED BY <1>4, <1>5, <1>6 DEF FileInv

\* Files that are written are those of rows, and a row keeps its date when its place is cleared.
LEMMA FileDump ==
    ASSUME WhereInv, FileInv, dkOdd.stale \subseteq dkOdd'.stale, NEW h \in DkHosts, Dumped(h), dkAt' = dkAt, Step(h)' # "write",
           \A g \in DkHosts \ {h} : dkSrv'[g] = dkSrv[g],
           \A d \in DkDisks : /\ dkRow'[d] = DkNone <=> dkRow[d] = DkNone
                              /\ dkRow[d] # DkNone => dkRow'[d].inst = dkRow[d].inst /\ dkRow'[d].done = dkRow[d].done
    PROVE  FileInv'
  <1>1. DkTypeOK
    BY DEF WhereInv
  <1>2. ASSUME NEW d \in DkDisks PROVE NotYounger(d)'
    <2>1. CASE dkInfo'[d] = dkInfo[d]
      BY <2>1 DEF FileInv, NotYounger
    <2>2. ASSUME NEW e \in DumpedAt(h, d), dkInfo'[d] = FileOf(e) PROVE NotYounger(d)'
      <3>1. dkInfo'[d].id = e /\ dkInfo'[d].inst = dkRow[e].inst
        BY <2>2 DEF FileOf
      <3>2. dkRow[d] # DkNone => dkRow[d].inst \in Nat
        BY <1>1 DEF DkTypeOK, DkRows
      <3>3. QED BY <3>1, <3>2 DEF NotYounger
    <2>3. QED BY <2>1, <2>2 DEF Dumped
  <1>3. ASSUME NEW g \in DkHosts \ {h} PROVE FilesLeft(g)
    <2>1. \A d \in DkDisks : \A s \in DkSlots : dkAt[d] = <<g, s>> => dkInfo'[d] = dkInfo[d]
      <3> SUFFICES ASSUME NEW d \in DkDisks, NEW s \in DkSlots, dkAt[d] = <<g, s>> PROVE dkInfo'[d] = dkInfo[d]
        OBVIOUS
      <3>1. dkAt[d][1] # h
        OBVIOUS
      <3>2. QED BY <3>1 DEF Dumped
    <2>2. QED BY <2>1 DEF FilesLeft
  <1>4. QED BY <1>2, <1>3, FilesOneHost

\* Rows whose place only is cleared.
LEMMA PlaceCleared ==
    ASSUME DkTypeOK, NEW d \in DkDisks, dkRow'[d] = dkRow[d] \/ (dkRow[d] # DkNone /\ dkRow'[d] = [dkRow[d] EXCEPT !.place = DkNone])
    PROVE  /\ dkRow'[d] = DkNone <=> dkRow[d] = DkNone
           /\ dkRow[d] # DkNone => dkRow'[d].inst = dkRow[d].inst /\ dkRow'[d].done = dkRow[d].done /\ dkRow'[d].name = dkRow[d].name
  <1>1. dkRow[d] # DkNone =>
            /\ [dkRow[d] EXCEPT !.place = DkNone] # DkNone
            /\ [dkRow[d] EXCEPT !.place = DkNone].inst = dkRow[d].inst
            /\ [dkRow[d] EXCEPT !.place = DkNone].done = dkRow[d].done
            /\ [dkRow[d] EXCEPT !.place = DkNone].name = dkRow[d].name
    BY DkConfig DEF DkTypeOK, DkRows
  <1>2. QED BY <1>1

\* Going Online and going down write the files.
Dumping(h) ==
    /\ Dumped(h) /\ dkAt' = dkAt /\ Step(h)' # "write" /\ dkSrv'[h].num = 0 /\ (\A s \in DkSlots : KnownAs(h, s)' = DkNone)
    /\ \A g \in DkHosts \ {h} : dkSrv'[g] = dkSrv[g]
    /\ \A d \in DkDisks :
        /\ dkRow'[d] = DkNone <=> dkRow[d] = DkNone
        /\ dkRow[d] # DkNone => dkRow'[d].inst = dkRow[d].inst /\ dkRow'[d].done = dkRow[d].done /\ dkRow'[d].name = dkRow[d].name

\* Which steps write the files, and what else they may change.
LEMMA DumpingIs ==
    ASSUME WhereInv, NEW h \in DkHosts, DkOnline(h) \/ DkGoDown(h)
    PROVE  Dumping(h)
  <1>1. DkTypeOK /\ HostSound(h) /\ dkSrv[h] \in DkServers
    BY DEF WhereInv, DkTypeOK
  <1>2. Dumped(h) /\ dkAt' = dkAt
    BY <1>1, DumpIs DEF DkOnline, DkGoDown
  <1>3. \A g \in DkHosts \ {h} : dkSrv'[g] = dkSrv[g]
    BY <1>1 DEF DkOnline, DkGoDown, DkTypeOK
  <1>4. Step(h)' # "write" /\ dkSrv'[h].num = 0 /\ \A s \in DkSlots : KnownAs(h, s)' = DkNone
    <2>1. CASE DkOnline(h)
      <3>1. dkSrv'[h] = [DkDown EXCEPT !.step = "on"]
        BY <2>1, <1>1 DEF DkOnline, DkTypeOK
      <3>2. QED BY <3>1 DEF DkDown, Step, KnownAs
    <2>2. CASE DkGoDown(h)
      <3>1. dkSrv'[h] = DkDown
        BY <2>2, <1>1 DEF DkGoDown, DkTypeOK
      <3>2. QED BY <3>1 DEF DkDown, Step, KnownAs
    <2>3. QED BY <2>1, <2>2
  <1>5. \A d \in DkDisks : dkRow'[d] = dkRow[d] \/ (dkRow[d] # DkNone /\ dkRow'[d] = [dkRow[d] EXCEPT !.place = DkNone])
    <2>1. CASE DkGoDown(h)
      <3>1. \A d \in MountedAt(dkRow, h) : dkRow[d] # DkNone
        BY DEF MountedAt
      <3>2. QED BY <2>1, <3>1, <1>1, UnmountedAll DEF DkGoDown
    <2>2. CASE DkOnline(h)
      BY <2>2 DEF DkOnline
    <2>3. QED BY <2>1, <2>2
  <1>6. \A d \in DkDisks :
            /\ dkRow'[d] = DkNone <=> dkRow[d] = DkNone
            /\ dkRow[d] # DkNone => dkRow'[d].inst = dkRow[d].inst /\ dkRow'[d].done = dkRow[d].done /\ dkRow'[d].name = dkRow[d].name
    BY <1>1, <1>5, PlaceCleared
  <1>7. QED BY <1>2, <1>3, <1>4, <1>6 DEF Dumping

\* Writing the files makes them as young as the rows.
LEMMA FileDumping ==
    ASSUME WhereInv, FileInv, dkOdd.stale \subseteq dkOdd'.stale, NEW h \in DkHosts, Dumping(h)
    PROVE  FileInv'
  BY FileDump DEF Dumping

\* The rows requests write back late are not vouched for any more, and no step vouches for
\* one again.
LEMMA StaleGrows ==
    ASSUME WhereInv, DkNext
    PROVE  dkOdd.stale \subseteq dkOdd'.stale
  <1>1. DkTypeOK
    BY DEF WhereInv
  <1>2. ASSUME NEW h \in DkHosts,
               \/ checkDisks(h) \/ updateDiskInDb(h) \/ genLogicalName(h) \/ addDiskInDb(h) \/ MissingSlot(h)
               \/ DkRead(h) \/ DkCrash(h)
        PROVE  dkOdd'.stale = dkOdd.stale
    BY <1>1, <1>2 DEF checkDisks, updateDiskInDb, genLogicalName, addDiskInDb, MissingSlot, DkRead, DkCrash, DkTypeOK, DkOdds
  <1>3. ASSUME NEW h \in DkHosts, DkOnline(h) \/ DkOffline(h) \/ DkRaised(h) PROVE dkOdd'.stale = dkOdd.stale
    BY <1>1, <1>3, DumpIs DEF DkOnline, DkOffline, DkRaised, DkGoDown, Dumped
  <1>4. ASSUME NEW r \in dkHeld, DkWriteBack(r) \/ DkDump(r) PROVE dkOdd.stale \subseteq dkOdd'.stale
    BY <1>4, WrittenBackIs, DumpedToIs
  <1>5. ASSUME NEW d \in DkDisks, DkLost(d) \/ LABEL(d) \/ \E p \in Places \cup {DkNone} : DkExchange(d, p)
        PROVE  dkOdd'.stale = dkOdd.stale
    BY <1>1, <1>5 DEF DkLost, LABEL, DkExchange, DkTypeOK, DkOdds
  <1>6. QED BY <1>2, <1>3, <1>4, <1>5 DEF DkNext

\* A request completes a disk of a host that is not coming up, or is late.
LEMMA FileRequest ==
    ASSUME WhereInv, FileInv, dkOdd.stale \subseteq dkOdd'.stale, NEW r \in dkHeld, DkWriteBack(r) \/ DkDump(r)
    PROVE  FileInv'
  <1>1. DkTypeOK /\ HostSound(r.host) /\ dkAt' = dkAt /\ dkSrv' = dkSrv /\ r.host \in DkHosts /\ r.disk \in DkDisks
    BY HeldIs DEF WhereInv, DkWriteBack, DkDump
  <1>2. CASE DkWriteBack(r)
    <2>1. dkInfo' = dkInfo
      BY <1>2 DEF DkWriteBack
    <2>2. ASSUME NEW d \in DkDisks PROVE NotYounger(d)'
      <3>1. CASE d # r.disk
        BY <1>2, <2>1, <3>1, WrittenBackIs DEF FileInv, NotYounger
      <3>2. CASE d = r.disk
        BY <1>1, <1>2, <2>1, <3>2, WrittenBackIs, HeldIs DEF FileInv, NotYounger
      <3>3. QED BY <3>1, <3>2
    <2>3. r.disk \notin dkOdd'.stale => dkAt[r.disk] # DkNone /\ dkAt[r.disk][1] = r.host /\ Step(r.host) = "on"
      BY <1>1, <1>2, WrittenBackIs DEF HostSound, MountedHere
    <2>4. ASSUME NEW g \in DkHosts PROVE FilesLeft(g)
      <3>1. \A d \in DkDisks \ {r.disk} : dkRow'[d] = dkRow[d]
        BY <1>2, WrittenBackIs
      <3>2. r.disk \notin dkOdd'.stale => \A s \in DkSlots : ~(Step(g) = "write" /\ dkAt[r.disk] = <<g, s>>)
        BY <2>3
      <3>3. QED BY <1>1, <2>1, <3>1, <3>2 DEF FilesLeft
    <2>5. QED BY <2>2, <2>4, FilesLeftKnown DEF FileInv
  <1>3. CASE DkDump(r)
    <2>1. dkRow' = dkRow
      BY <1>3 DEF DkDump
    <2>2. ASSUME NEW d \in DkDisks PROVE NotYounger(d)'
      <3>1. CASE d \notin DumpedTo(r)
        BY <1>3, <2>1, <3>1, DumpedToIs DEF FileInv, NotYounger
      <3>2. CASE d \in DumpedTo(r)
        <4>1. dkInfo'[d] = FileOf(r.disk) /\ dkRow[r.disk] \in DkRows
          BY <1>3, <3>2, DumpedToIs
        <4>2. dkInfo'[d].id = r.disk /\ dkInfo'[d].inst = dkRow[r.disk].inst /\ dkRow[r.disk].inst \in Nat
          BY <4>1 DEF FileOf, DkRows
        <4>3. QED BY <2>1, <4>2 DEF NotYounger
      <3>3. QED BY <3>1, <3>2
    <2>3. ASSUME NEW g \in DkHosts PROVE FilesLeft(g)
      <3>1. \A d \in DumpedTo(r) : d \notin dkOdd'.stale => \A s \in DkSlots : ~(Step(g) = "write" /\ dkAt[d] = <<g, s>>)
        BY <1>3, DumpedToIs
      <3>2. \A d \in DkDisks : d \notin DumpedTo(r) => dkInfo'[d] = dkInfo[d]
        BY <1>3, DumpedToIs
      <3>3. QED BY <1>1, <2>1, <3>1, <3>2 DEF FilesLeft
    <2>4. QED BY <2>2, <2>3, FilesLeftKnown DEF FileInv
  <1>4. QED BY <1>2, <1>3

\* A server that crashed has to read the files again; one that serves has read them.
LEMMA FileCrash ==
    ASSUME WhereInv, FileInv, dkOdd.stale \subseteq dkOdd'.stale, NEW h \in DkHosts, DkCrash(h) \/ DkRead(h)
    PROVE  FileInv'
  <1>1. DkTypeOK /\ UNCHANGED <<dkAt, dkRow, dkInfo>>
    BY DEF DkCrash, DkRead, WhereInv
  <1>2. Step(h)' # "write" /\ \A g \in DkHosts \ {h} : dkSrv'[g] = dkSrv[g]
    BY <1>1 DEF DkCrash, DkRead, DkTypeOK, Step, DkDown
  <1>3. \A d \in DkDisks : NotYounger(d)'
    BY <1>1 DEF FileInv, NotYounger
  <1>4. ASSUME NEW g \in DkHosts \ {h} PROVE FilesLeft(g)
    BY <1>1, <1>2 DEF FilesLeft
  <1>5. QED BY <1>2, <1>3, <1>4, FilesOneHost

\* The operators make no file younger and complete no disk.
LEMMA FileOperators ==
    ASSUME WhereInv, FileInv, dkOdd.stale \subseteq dkOdd'.stale, NEW d \in DkDisks,
           DkLost(d) \/ LABEL(d) \/ \E p \in Places \cup {DkNone} : DkExchange(d, p)
    PROVE  FileInv'
  <1>1. DkTypeOK
    BY DEF WhereInv
  <1>2. CASE DkLost(d)
    <2>1. UNCHANGED <<dkAt, dkSrv>> /\ \A e \in DkDisks : dkRow'[e] \in {dkRow[e], DkNone} /\ dkInfo'[e] \in {dkInfo[e], DkNone}
      BY <1>1, <1>2 DEF DkLost, DkTypeOK
    <2>2. \A e \in DkDisks : NotYounger(e)'
      BY <2>1 DEF FileInv, NotYounger
    <2>3. \A g \in DkHosts : FilesLeft(g)
      BY <2>1 DEF FilesLeft
    <2>4. QED BY <2>2, <2>3, FilesLeftKnown DEF FileInv
  <1>3. CASE LABEL(d)
    <2>1. UNCHANGED <<dkAt, dkInfo, dkSrv>> /\ dkRow[d] # DkNone /\ dkRow' = [dkRow EXCEPT ![d].name.cat = "X"] /\ dkRow[d] \in DkRows
      BY <1>1, <1>3 DEF LABEL, DkTypeOK
    <2>2. dkRow'[d].inst = dkRow[d].inst /\ dkRow'[d].done = dkRow[d].done /\ \A e \in DkDisks \ {d} : dkRow'[e] = dkRow[e]
      BY <1>1, <2>1 DEF DkTypeOK, DkRows
    <2>3. \A e \in DkDisks : NotYounger(e)'
      BY <2>1, <2>2 DEF FileInv, NotYounger
    <2>4. \A g \in DkHosts : FilesLeft(g)
      BY <2>1, <2>2 DEF FilesLeft
    <2>5. QED BY <2>3, <2>4, FilesLeftKnown DEF FileInv
  <1>4. ASSUME NEW p \in Places \cup {DkNone}, DkExchange(d, p) PROVE FileInv'
    <2>1. UNCHANGED <<dkRow, dkInfo, dkSrv>>
      BY <1>4 DEF DkExchange
    <2>2. \A e \in DkDisks : NotYounger(e)'
      BY <2>1 DEF FileInv, NotYounger
    <2>3. \A e \in DkDisks : \A h \in DkHosts : \A s \in DkSlots : Step(h) # "off" => (dkAt'[e] = <<h, s>> <=> dkAt[e] = <<h, s>>)
      BY <1>4, ExchangeIs
    <2>4. \A g \in DkHosts : FilesLeft(g)
      BY <2>1, <2>3 DEF FilesLeft
    <2>5. QED BY <2>2, <2>4, FilesLeftKnown DEF FileInv
  <1>5. QED BY <1>2, <1>3, <1>4

\* There are no files in the first state.
LEMMA FileInit == DkInit => FileInv
  BY DEF DkInit, FileInv, NotYounger, FilesKnown, Step, DkDown

\* Every step keeps the files not younger than the rows and known.
LEMMA FileStep == WhereInv /\ FileInv /\ [DkNext]_dkVars => FileInv'
  <1> SUFFICES ASSUME WhereInv, FileInv, [DkNext]_dkVars PROVE FileInv'
    OBVIOUS
  <1>1. CASE UNCHANGED dkVars
    <2>1. \A d \in DkDisks : NotYounger(d)'
      BY <1>1 DEF dkVars, FileInv, NotYounger
    <2>2. \A g \in DkHosts : FilesLeft(g)
      BY <1>1 DEF dkVars, FilesLeft
    <2>3. QED BY <1>1, <2>1, <2>2, FilesLeftKnown DEF FileInv, dkVars
  <1>2. ASSUME NEW h \in DkHosts,
               \/ checkDisks(h) \/ updateDiskInDb(h) \/ genLogicalName(h) \/ addDiskInDb(h) \/ MissingSlot(h)
               \/ DkOnline(h) \/ DkOffline(h) \/ DkRaised(h) \/ DkRead(h) \/ DkCrash(h)
        PROVE  FileInv'
    <2>1. dkOdd.stale \subseteq dkOdd'.stale
      BY <1>2, StaleGrows DEF DkNext
    <2>2. QED BY <1>2, <2>1, FileCheck, FileUpdate, FileAsk, FileAdd, DumpingIs, FileDumping, FileCrash DEF DkOffline, DkRaised
  <1>3. ASSUME NEW d \in DkDisks, DkLost(d) \/ LABEL(d) \/ \E p \in Places \cup {DkNone} : DkExchange(d, p)
        PROVE  FileInv'
    <2>1. dkOdd.stale \subseteq dkOdd'.stale
      BY <1>3, StaleGrows DEF DkNext
    <2>2. QED BY <1>3, <2>1, FileOperators
  <1>4. ASSUME NEW r \in dkHeld, DkWriteBack(r) \/ DkDump(r) PROVE FileInv'
    BY <1>4, FileRequest, WrittenBackIs, DumpedToIs
  <1>5. QED BY <1>1, <1>2, <1>3, <1>4 DEF DkNext

-----------------------------------------------------------------------------
(* A completed disk stays completed.                                       *)

StaysDone(d) ==
    dkRow[d] # DkNone /\ dkRow[d].done /\ dkInfo[d] # DkNone /\ dkInfo[d].id = d => dkRow'[d] = DkNone \/ dkRow'[d].done \/ d \in dkOdd'.stale

\* Rows of other disks than the one whose slot is updated are not written.
LEMMA WrittenRow ==
    ASSUME WhereInv, NEW h \in DkHosts, Updating(h), InSlot(h, Current(h)) # DkNone, NEW k, Write(h, k)
    PROVE  /\ InSlot(h, Current(h)) \in DkDisks /\ dkAt[InSlot(h, Current(h))] = <<h, Current(h)>> /\ Current(h) \in DkSlots
           /\ dkRow'[InSlot(h, Current(h))].done = k.done /\ dkRow'[InSlot(h, Current(h))].name = k.name
           /\ \A d \in DkDisks : d # InSlot(h, Current(h)) => dkRow'[d] = dkRow[d]
  <1>1. DkTypeOK /\ OneEach /\ dkSrv[h].todo \in DkTodos /\ dkSrv[h].todo # <<>>
    BY DEF WhereInv, DkTypeOK, DkServers, Updating
  <1>2. Current(h) \in DkSlots
    BY <1>1, TodoTail DEF Current
  <1>3. InSlot(h, Current(h)) \in DkDisks /\ dkAt[InSlot(h, Current(h))] = <<h, Current(h)>>
    BY <1>1, <1>2, InSlotIs
  <1>4. QED BY <1>1, <1>2, <1>3 DEF Write, DkTypeOK

\* No step takes the completion of a disk back.
LEMMA StaysStep ==
    ASSUME WhereInv, FileInv, [DkNext]_dkVars, NEW d \in DkDisks
    PROVE  StaysDone(d)
  <1>1. DkTypeOK
    BY DEF WhereInv
  <1>2. CASE UNCHANGED dkVars
    BY <1>2 DEF dkVars, StaysDone
  <1>3. ASSUME NEW h \in DkHosts,
               \/ checkDisks(h) \/ updateDiskInDb(h) \/ genLogicalName(h) \/ addDiskInDb(h) \/ MissingSlot(h)
               \/ DkOnline(h) \/ DkOffline(h) \/ DkRaised(h) \/ DkRead(h) \/ DkCrash(h)
        PROVE  StaysDone(d)
    <2>1. CASE checkDisks(h)
      <3>1. dkRow' = MarkUnmounted(h, dkRow)
        BY <2>1 DEF checkDisks
      <3>2. dkRow'[d] = dkRow[d] \/ (dkRow[d] # DkNone /\ dkRow'[d] = [dkRow[d] EXCEPT !.place = DkNone])
        BY <1>1, <3>1, UnmountedRows
      <3>3. QED BY <1>1, <3>2, PlaceCleared DEF StaysDone
    <2>2. CASE updateDiskInDb(h)
      <3>1. Updating(h) /\ InSlot(h, Current(h)) # DkNone /\ Source(h) # DkNone /\ Write(h, Source(h))
        BY <2>2 DEF updateDiskInDb
      <3>2. CASE d # InSlot(h, Current(h))
        BY <3>1, <3>2, WrittenRow DEF StaysDone
      <3>3. CASE d = InSlot(h, Current(h))
        <4>1. (d \notin dkOdd.stale => Knows(h, Current(h), d)) /\ dkRow'[d].done = Source(h).done
          BY <3>1, <3>3, KnowsCurrent, WrittenRow
        <4>2. Source(h) = KnownAs(h, Current(h)) \/ Source(h) = Identity(dkRow[d])
          BY <3>1, <3>3, SourceIs
        <4>3. QED BY <4>1, <4>2, StaleGrows, <1>3 DEF DkNext, Knows, Identity, StaysDone
      <3>4. QED BY <3>2, <3>3
    <2>3. CASE addDiskInDb(h)
      <3>1. (InSlot(h, Current(h)) \notin dkOdd.stale => dkInfo[InSlot(h, Current(h))] = DkNone) /\ dkOdd' = dkOdd /\ Updating(h) /\ InSlot(h, Current(h)) # DkNone /\ Write(h, NewRow(h))
        BY <2>3, FileAdd, NewRowIs DEF addDiskInDb
      <3>2. \A e \in DkDisks : e # InSlot(h, Current(h)) => dkRow'[e] = dkRow[e]
        BY <3>1, WrittenRow
      <3>3. QED BY <3>1, <3>2 DEF StaysDone
    <2>4. CASE genLogicalName(h) \/ MissingSlot(h) \/ DkCrash(h) \/ DkRead(h)
      BY <2>4 DEF genLogicalName, MissingSlot, DkCrash, DkRead, StaysDone
    <2>5. CASE DkOnline(h) \/ DkOffline(h) \/ DkRaised(h)
      <3>1. Dumping(h)
        BY <2>5, DumpingIs DEF DkOffline, DkRaised
      <3>2. QED BY <3>1 DEF Dumping, StaysDone
    <2>6. QED BY <1>3, <2>1, <2>2, <2>3, <2>4, <2>5
  <1>4. ASSUME NEW e \in DkDisks, DkLost(e) \/ LABEL(e) \/ \E p \in Places \cup {DkNone} : DkExchange(e, p)
        PROVE  StaysDone(d)
    <2>1. CASE DkLost(e)
      <3>1. dkRow'[d] \in {dkRow[d], DkNone}
        BY <2>1, <1>1 DEF DkLost, DkTypeOK
      <3>2. QED BY <3>1 DEF StaysDone
    <2>2. CASE LABEL(e)
      <3>1. dkRow[e] # DkNone /\ dkRow' = [dkRow EXCEPT ![e].name.cat = "X"] /\ dkRow[e] \in DkRows
        BY <2>2, <1>1 DEF LABEL, DkTypeOK
      <3>2. dkRow'[e].done = dkRow[e].done /\ \A x \in DkDisks \ {e} : dkRow'[x] = dkRow[x]
        BY <1>1, <3>1 DEF DkTypeOK, DkRows
      <3>3. QED BY <3>2 DEF StaysDone
    <2>3. CASE \E p \in Places \cup {DkNone} : DkExchange(e, p)
      BY <2>3 DEF DkExchange, StaysDone
    <2>4. QED BY <1>4, <2>1, <2>2, <2>3
  <1>5. ASSUME NEW r \in dkHeld, DkWriteBack(r) \/ DkDump(r) PROVE StaysDone(d)
    <2>1. CASE DkDump(r)
      BY <2>1 DEF DkDump, StaysDone
    <2>2. CASE DkWriteBack(r)
      BY <1>1, <2>2, WrittenBackIs, HeldIs DEF StaysDone
    <2>3. QED BY <1>5, <2>1, <2>2
  <1>6. QED BY <1>2, <1>3, <1>4, <1>5 DEF DkNext

\* A completed disk that carries its own NgasDiskInfo is never made writable
\* again by checkDisks or addDiskInDb, whatever was moved, crashed or lost, but
\* by a request that writes an older row back.
THEOREM CompletedDisksStay == DkSpec => CompletedStays
  <1>1. DkInit => WhereInv /\ FileInv
    BY WhereInit, FileInit
  <1>2. WhereInv /\ FileInv /\ [DkNext]_dkVars => (WhereInv /\ FileInv)'
    BY WhereStep, FileStep
  <1>3. WhereInv /\ FileInv /\ [DkNext]_dkVars
            => [\A d \in DkDisks :
                    /\ dkRow[d] # DkNone /\ dkRow[d].done
                    /\ dkInfo[d] # DkNone /\ dkInfo[d].id = d
                    => dkRow'[d] = DkNone \/ dkRow'[d].done \/ d \in dkOdd'.stale]_dkVars
    BY StaysStep DEF StaysDone
  <1>4. QED BY <1>1, <1>2, <1>3, PTL DEF DkSpec, CompletedStays

-----------------------------------------------------------------------------
(* The logical names of disks.                                             *)

\* The names a disk has: in its row, in its file, and with the server whose slot it is in.
Labelled(d, x) ==
    \/ dkRow[d] # DkNone /\ x = dkRow[d].name
    \/ dkInfo[d] # DkNone /\ x = dkInfo[d].name
    \/ \E h \in DkHosts : \E s \in DkSlots : dkAt[d] = <<h, s>> /\ KnownAs(h, s) # DkNone /\ x = KnownAs(h, s).name

\* A disk with a name has a row, all its names have one number, and no other disk has that
\* number as a Main Disk.
Registered == \A d \in DkDisks : \A x \in DkNames : Labelled(d, x) => dkRow[d] # DkNone
OneNumberEach == \A d \in DkDisks : \A x, y \in DkNames : Labelled(d, x) /\ Labelled(d, y) => x.num = y.num
MainsDiffer ==
    \A d, e \in DkDisks : \A x, y \in DkNames :
        d # e /\ Labelled(d, x) /\ Labelled(e, y) /\ x.cat = "M" /\ y.cat = "M" => x.num # y.num

\* One host at a time has asked for a number, which no disk has yet if it is for a Main Disk.
OneAsks == \A g, h \in DkHosts : dkSrv[g].num # 0 /\ dkSrv[h].num # 0 => g = h
NumberFresh ==
    \A h \in DkHosts : dkSrv[h].num # 0 /\ Current(h) = "M" =>
        \A e \in DkDisks : dkRow[e] # DkNone => dkRow[e].name.num < dkSrv[h].num

NamesOwn == Registered /\ OneNumberEach /\ MainsDiffer /\ OneAsks /\ NumberFresh
NamesInv == dkOdd.names \/ NamesOwn

\* A name is passed on within a disk; LABEL makes it one of no Main Disk.
Inherited(d, x) == \E y \in DkNames : Labelled(d, y) /\ y.num = x.num /\ (x.cat = "M" => y.cat = "M")
Inherits(d) ==
    /\ dkRow[d] # DkNone => dkRow'[d] # DkNone
    /\ dkRow'[d] # DkNone => Inherited(d, dkRow'[d].name)
    /\ dkInfo'[d] # DkNone => Inherited(d, dkInfo'[d].name)
    /\ \A h \in DkHosts : \A s \in DkSlots :
        dkAt'[d] = <<h, s>> /\ KnownAs(h, s)' # DkNone => Inherited(d, KnownAs(h, s)'.name)

\* The names in rows, in files and with servers are the names of their disk.
LEMMA LabelTypes ==
    ASSUME DkTypeOK, NEW d \in DkDisks
    PROVE  /\ dkRow[d] # DkNone => dkRow[d].name \in DkNames /\ Labelled(d, dkRow[d].name) /\ Inherited(d, dkRow[d].name)
           /\ dkInfo[d] # DkNone => dkInfo[d].name \in DkNames /\ Labelled(d, dkInfo[d].name) /\ Inherited(d, dkInfo[d].name)
           /\ \A h \in DkHosts : \A s \in DkSlots :
                dkAt[d] = <<h, s>> /\ KnownAs(h, s) # DkNone =>
                    /\ KnownAs(h, s).name \in DkNames /\ Labelled(d, KnownAs(h, s).name) /\ Inherited(d, KnownAs(h, s).name)
  <1>1. /\ dkRow[d] # DkNone => dkRow[d].name \in DkNames /\ Labelled(d, dkRow[d].name)
        /\ dkInfo[d] # DkNone => dkInfo[d].name \in DkNames /\ Labelled(d, dkInfo[d].name)
    BY DEF DkTypeOK, DkRows, DkFiles, Labelled
  <1>2. \A h \in DkHosts : \A s \in DkSlots : KnownAs(h, s) # DkNone => KnownAs(h, s).name \in DkNames
    <2>1. \A h \in DkHosts : \A s \in DkSlots : KnownAs(h, s) \in DkIdentities \cup {DkNone}
      BY DEF DkTypeOK, DkServers, KnownAs
    <2>2. QED BY <2>1 DEF DkIdentities
  <1>3. \A h \in DkHosts : \A s \in DkSlots : dkAt[d] = <<h, s>> /\ KnownAs(h, s) # DkNone => Labelled(d, KnownAs(h, s).name)
    BY DEF Labelled
  <1>4. \A x \in DkNames : Labelled(d, x) => Inherited(d, x)
    BY DEF Inherited
  <1>5. QED BY <1>1, <1>2, <1>3, <1>4

\* Every new name of a disk is inherited.
LEMMA InheritedNames ==
    ASSUME NEW d \in DkDisks, Inherits(d), NEW x \in DkNames, Labelled(d, x)'
    PROVE  Inherited(d, x)
  BY DEF Labelled, Inherits

\* When every disk inherits its names, they stay its own.
LEMMA NamesInherit ==
    ASSUME DkTypeOK, DkTypeOK', NamesOwn, \A d \in DkDisks : Inherits(d),
           \A h \in DkHosts : dkSrv'[h].num # 0 => dkSrv'[h].num = dkSrv[h].num /\ dkSrv'[h].todo = dkSrv[h].todo
    PROVE  NamesOwn'
  <1>1. \A d \in DkDisks : \A x \in DkNames : Labelled(d, x)' => Inherited(d, x)
    BY InheritedNames
  <1>2. Registered'
    <2>1. SUFFICES ASSUME NEW d \in DkDisks, NEW x \in DkNames, Labelled(d, x)' PROVE dkRow'[d] # DkNone
      BY DEF Registered
    <2>2. PICK y \in DkNames : Labelled(d, y)
      BY <2>1, <1>1 DEF Inherited
    <2>3. QED BY <2>2 DEF NamesOwn, Registered, Inherits
  <1>3. OneNumberEach'
    <2>1. SUFFICES ASSUME NEW d \in DkDisks, NEW x \in DkNames, NEW y \in DkNames, Labelled(d, x)', Labelled(d, y)' PROVE x.num = y.num
      BY DEF OneNumberEach
    <2>2. PICK u \in DkNames : Labelled(d, u) /\ u.num = x.num
      BY <2>1, <1>1 DEF Inherited
    <2>3. PICK v \in DkNames : Labelled(d, v) /\ v.num = y.num
      BY <2>1, <1>1 DEF Inherited
    <2>4. u.num = v.num
      BY <2>2, <2>3 DEF NamesOwn, OneNumberEach
    <2>5. QED BY <2>2, <2>3, <2>4
  <1>4. MainsDiffer'
    <2>1. SUFFICES ASSUME NEW d \in DkDisks, NEW e \in DkDisks, NEW x \in DkNames, NEW y \in DkNames,
                          d # e, Labelled(d, x)', Labelled(e, y)', x.cat = "M", y.cat = "M"
                   PROVE  x.num # y.num
      BY DEF MainsDiffer
    <2>2. PICK u \in DkNames : Labelled(d, u) /\ u.num = x.num /\ u.cat = "M"
      BY <2>1, <1>1 DEF Inherited
    <2>3. PICK v \in DkNames : Labelled(e, v) /\ v.num = y.num /\ v.cat = "M"
      BY <2>1, <1>1 DEF Inherited
    <2>4. u.num # v.num
      BY <2>1, <2>2, <2>3 DEF NamesOwn, MainsDiffer
    <2>5. QED BY <2>2, <2>3, <2>4
  <1>5. OneAsks'
    BY DEF NamesOwn, OneAsks
  <1>6. NumberFresh'
    <2>1. SUFFICES ASSUME NEW h \in DkHosts, dkSrv'[h].num # 0, Current(h)' = "M", NEW e \in DkDisks, dkRow'[e] # DkNone
                   PROVE  dkRow'[e].name.num < dkSrv'[h].num
      BY DEF NumberFresh
    <2>2. dkSrv'[h].num = dkSrv[h].num /\ Current(h) = "M"
      BY <2>1 DEF Current
    <2>3. PICK y \in DkNames : Labelled(e, y) /\ y.num = dkRow'[e].name.num
      BY <2>1 DEF Inherits, Inherited
    <2>4. dkRow[e] # DkNone /\ dkRow[e].name.num = y.num
      BY <2>3, LabelTypes DEF NamesOwn, Registered, OneNumberEach
    <2>5. QED BY <2>1, <2>2, <2>3, <2>4 DEF NamesOwn, NumberFresh
  <1>7. QED BY <1>2, <1>3, <1>4, <1>5, <1>6 DEF NamesOwn

\* What a disk has is what it had.
LEMMA InheritsSame ==
    ASSUME DkTypeOK, NEW d \in DkDisks,
           (dkRow'[d] = DkNone <=> dkRow[d] = DkNone) /\ (dkRow[d] # DkNone => dkRow'[d].name = dkRow[d].name),
           dkInfo'[d] \in {dkInfo[d], DkNone} \/ (dkInfo'[d] # DkNone /\ dkRow[d] # DkNone /\ dkInfo'[d].name = dkRow[d].name),
           \A h \in DkHosts : \A s \in DkSlots :
              dkAt'[d] = <<h, s>> /\ KnownAs(h, s)' # DkNone => dkAt[d] = <<h, s>> /\ KnownAs(h, s)' = KnownAs(h, s)
    PROVE  Inherits(d)
  <1>1. dkRow'[d] # DkNone => Inherited(d, dkRow'[d].name)
    BY LabelTypes
  <1>2. dkInfo'[d] # DkNone => Inherited(d, dkInfo'[d].name)
    BY LabelTypes
  <1>3. \A h \in DkHosts : \A s \in DkSlots :
            dkAt'[d] = <<h, s>> /\ KnownAs(h, s)' # DkNone => Inherited(d, KnownAs(h, s)'.name)
    BY LabelTypes
  <1>4. QED BY <1>1, <1>2, <1>3 DEF Inherits

NumLeft(h) == dkSrv'[h].num # 0 => dkSrv'[h].num = dkSrv[h].num /\ dkSrv'[h].todo = dkSrv[h].todo

\* The same, for the steps after which the names are still vouched for.
LEMMA NamesKept ==
    ASSUME WhereInv, WhereInv', NamesInv, dkOdd.names => dkOdd'.names,
           ~dkOdd'.names => (\A d \in DkDisks : Inherits(d)) /\ \A h \in DkHosts : NumLeft(h)
    PROVE  NamesInv'
  <1>1. DkTypeOK /\ DkTypeOK'
    BY DEF WhereInv
  <1>2. ASSUME ~dkOdd'.names PROVE NamesOwn'
    BY <1>1, <1>2, NamesInherit DEF NamesInv, NumLeft
  <1>3. QED BY <1>2 DEF NamesInv

\* checkDisks learns the names of a disk from its row or file.
LEMMA NamesCheck ==
    ASSUME WhereInv, WhereInv', NamesInv, NEW h \in DkHosts, checkDisks(h)
    PROVE  NamesInv'
  <1>1. DkTypeOK /\ OneEach
    BY DEF WhereInv
  <1>2. UNCHANGED <<dkAt, dkInfo>> /\ dkRow' = MarkUnmounted(h, dkRow)
    BY DEF checkDisks
  <1>3. dkOdd'.names = dkOdd.names
    BY <1>1 DEF checkDisks, DkTypeOK, DkOdds
  <1>4. dkSrv'[h].num = 0 /\ \A g \in DkHosts \ {h} : dkSrv'[g] = dkSrv[g]
    BY <1>1 DEF checkDisks, DkTypeOK, DkOdds
  <1>5. /\ \A s \in DkSlots : KnownAs(h, s)' = Known(h, s)
        /\ \A g \in DkHosts \ {h} : \A s \in DkSlots : KnownAs(g, s)' = KnownAs(g, s)
    BY <1>1 DEF checkDisks, DkTypeOK, DkOdds, KnownAs
  <1>6. ASSUME NEW d \in DkDisks PROVE Inherits(d)
    <2>1. dkRow'[d] = dkRow[d] \/ (dkRow[d] # DkNone /\ dkRow'[d] = [dkRow[d] EXCEPT !.place = DkNone])
      BY <1>1, <1>2, UnmountedRows
    <2>2. (dkRow'[d] = DkNone <=> dkRow[d] = DkNone) /\ (dkRow[d] # DkNone => dkRow'[d].name = dkRow[d].name)
      BY <1>1, <2>1, PlaceCleared
    <2>3. dkRow'[d] # DkNone => Inherited(d, dkRow'[d].name)
      BY <1>1, <2>2, LabelTypes
    <2>4. dkInfo'[d] # DkNone => Inherited(d, dkInfo'[d].name)
      BY <1>1, <1>2, LabelTypes
    <2>5. ASSUME NEW g \in DkHosts, NEW s \in DkSlots, dkAt[d] = <<g, s>>, KnownAs(g, s)' # DkNone
          PROVE  Inherited(d, KnownAs(g, s)'.name)
      <3>1. CASE g # h
        BY <1>1, <1>5, <2>5, <3>1, LabelTypes
      <3>2. CASE g = h
        <4>1. InSlot(h, s) = d /\ Known(h, s) # DkNone
          BY <1>1, <1>5, <2>5, <3>2, InSlotIs
        <4>2. \/ dkInfo[d] # DkNone /\ Known(h, s) = Identity(dkInfo[d])
              \/ dkRow[d] # DkNone /\ Known(h, s) = Identity(dkRow[d])
          BY <4>1 DEF Known
        <4>3. \/ dkInfo[d] # DkNone /\ Known(h, s).name = dkInfo[d].name
              \/ dkRow[d] # DkNone /\ Known(h, s).name = dkRow[d].name
          BY <4>2 DEF Identity
        <4>4. KnownAs(g, s)' = Known(h, s)
          BY <1>5, <3>2
        <4>5. QED BY <1>1, <4>3, <4>4, LabelTypes
      <3>3. QED BY <3>1, <3>2
    <2>6. QED BY <1>2, <2>2, <2>3, <2>4, <2>5 DEF Inherits
  <1>7. \A g \in DkHosts : NumLeft(g)
    BY <1>4 DEF NumLeft
  <1>8. QED BY <1>3, <1>6, <1>7, NamesKept

\* The servers after a row is written.
LEMMA WrittenServer ==
    ASSUME DkTypeOK, NEW h \in DkHosts, NEW k, Write(h, k)
    PROVE  /\ dkSrv'[h].num = 0 /\ \A g \in DkHosts \ {h} : dkSrv'[g] = dkSrv[g]
           /\ \A g \in DkHosts : \A s \in DkSlots : KnownAs(g, s)' = KnownAs(g, s)
  <1>1. dkSrv[h] \in DkServers
    BY DEF DkTypeOK
  <1>2. dkSrv'[h].num = 0 /\ dkSrv'[h].known = dkSrv[h].known /\ \A g \in DkHosts \ {h} : dkSrv'[g] = dkSrv[g]
    BY <1>1 DEF DkTypeOK, DkServers, Write
  <1>3. QED BY <1>2 DEF KnownAs

\* updateDiskInDb gives a disk a name it has.
LEMMA NamesUpdate ==
    ASSUME WhereInv, WhereInv', NamesInv, NEW h \in DkHosts, updateDiskInDb(h)
    PROVE  NamesInv'
  <1>1. /\ DkTypeOK /\ DkTypeOK' /\ Updating(h) /\ InSlot(h, Current(h)) # DkNone /\ Source(h) # DkNone /\ Write(h, Source(h))
        /\ UNCHANGED <<dkAt, dkInfo, dkOdd>>
    BY DEF updateDiskInDb, WhereInv
  <1>2. /\ InSlot(h, Current(h)) \in DkDisks /\ dkAt[InSlot(h, Current(h))] = <<h, Current(h)>> /\ Current(h) \in DkSlots
        /\ dkRow'[InSlot(h, Current(h))].name = Source(h).name
        /\ \A d \in DkDisks : d # InSlot(h, Current(h)) => dkRow'[d] = dkRow[d]
    BY <1>1, WrittenRow
  <1>3. /\ dkSrv'[h].num = 0 /\ \A g \in DkHosts \ {h} : dkSrv'[g] = dkSrv[g]
        /\ \A g \in DkHosts : \A s \in DkSlots : KnownAs(g, s)' = KnownAs(g, s)
    BY <1>1, WrittenServer
  <1>4. ASSUME NEW d \in DkDisks PROVE Inherits(d)
    <2>1. CASE d # InSlot(h, Current(h))
      BY <2>1, <1>1, <1>2, <1>3, InheritsSame
    <2>2. CASE d = InSlot(h, Current(h))
      <3>1. \/ Source(h) = KnownAs(h, Current(h))
            \/ dkRow[d] # DkNone /\ Source(h) = Identity(dkRow[d])
        BY <1>1, <2>2, SourceIs
      <3>2. ASSUME Source(h) = KnownAs(h, Current(h)) PROVE Inherited(d, Source(h).name)
        BY <1>1, <1>2, <2>2, <3>2, LabelTypes
      <3>3. ASSUME dkRow[d] # DkNone, Source(h) = Identity(dkRow[d]) PROVE Inherited(d, Source(h).name)
        <4>1. Source(h).name = dkRow[d].name
          BY <3>3 DEF Identity
        <4>2. QED BY <1>1, <3>3, <4>1, LabelTypes
      <3>4. Inherited(d, Source(h).name)
        BY <3>1, <3>2, <3>3
      <3>5. dkRow'[d] # DkNone
        <4>1. Source(h) \in DkIdentities /\ <<h, Current(h)>> \in Places
          BY <1>1, <1>2, SourceIs DEF Places
        <4>2. dkRow'[d] = [name |-> Source(h).name, inst |-> Source(h).inst, done |-> Source(h).done, place |-> <<h, Current(h)>>]
          BY <1>1, <1>2, <2>2 DEF Write, DkTypeOK
        <4>3. dkRow'[d] \in DkRows
          BY <4>1, <4>2 DEF DkIdentities, DkRows
        <4>4. QED BY <4>3, DkConfig
      <3>6. dkInfo'[d] # DkNone => Inherited(d, dkInfo'[d].name)
        BY <1>1, LabelTypes
      <3>7. \A g \in DkHosts : \A s \in DkSlots :
                dkAt'[d] = <<g, s>> /\ KnownAs(g, s)' # DkNone => Inherited(d, KnownAs(g, s)'.name)
        BY <1>1, <1>3, LabelTypes
      <3>8. QED BY <1>2, <2>2, <3>4, <3>5, <3>6, <3>7 DEF Inherits
    <2>3. QED BY <2>1, <2>2
  <1>5. \A g \in DkHosts : NumLeft(g)
    BY <1>3 DEF NumLeft
  <1>6. QED BY <1>1, <1>4, <1>5, NamesKept

\* A disk that is registered gets a number that no disk has, if it is a Main Disk.
LEMMA NamesAdd ==
    ASSUME WhereInv, WhereInv', FileInv, NamesInv, NEW h \in DkHosts, addDiskInDb(h)
    PROVE  NamesInv'
  <1>0. PICK d0 : d0 = InSlot(h, Current(h))
    OBVIOUS
  <1>1. DkTypeOK /\ DkTypeOK' /\ UNCHANGED <<dkAt, dkInfo, dkOdd>> /\ dkSrv[h].num # 0
        /\ (~dkOdd.names => dkInfo[d0] = DkNone)
    BY <1>0, FileAdd DEF addDiskInDb, WhereInv, DkTypeOK, DkOdds
  <1>2. Updating(h) /\ d0 # DkNone /\ KnownAs(h, Current(h)) = DkNone /\ Current(h) \in DkSlots /\ Write(h, NewRow(h))
    BY <1>0, NewRowIs
  <1>3. /\ d0 \in DkDisks /\ dkAt[d0] = <<h, Current(h)>> /\ dkRow'[d0].name = NewRow(h).name
        /\ \A d \in DkDisks : d # d0 => dkRow'[d] = dkRow[d]
    BY <1>0, <1>2, WrittenRow
  <1>4. /\ dkSrv'[h].num = 0 /\ \A g \in DkHosts \ {h} : dkSrv'[g] = dkSrv[g]
        /\ \A g \in DkHosts : \A s \in DkSlots : KnownAs(g, s)' = KnownAs(g, s)
    BY <1>1, <1>2, WrittenServer
  <1>5. NewRow(h).name = [cat |-> Current(h), num |-> dkSrv[h].num] /\ NewRow(h).name.cat = Current(h) /\ NewRow(h).name.num = dkSrv[h].num
    BY DEF NewRow
  <1>6. \A x \in DkNames : ~dkOdd.names /\ Labelled(d0, x)' => x = NewRow(h).name /\ dkRow'[d0] # DkNone
    <2>1. \A g \in DkHosts : \A s \in DkSlots : dkAt[d0] = <<g, s>> => g = h /\ s = Current(h)
      BY <1>3
    <2>2. \A g \in DkHosts : \A s \in DkSlots : dkAt'[d0] = <<g, s>> => KnownAs(g, s)' = DkNone
      BY <1>1, <1>2, <1>4, <2>1
    <2>3. QED BY <1>1, <1>3, <2>2 DEF Labelled
  <1>7. \A d \in DkDisks \ {d0} : \A x \in DkNames : Labelled(d, x)' => Labelled(d, x)
    BY <1>1, <1>3, <1>4 DEF Labelled
  <1>8. ASSUME NamesOwn, ~dkOdd.names PROVE NamesOwn'
    <2>1. Registered'
      BY <1>3, <1>6, <1>7, <1>8 DEF NamesOwn, Registered
    <2>2. OneNumberEach'
      BY <1>3, <1>6, <1>7, <1>8 DEF NamesOwn, OneNumberEach
    <2>3. \A e \in DkDisks \ {d0} : \A y \in DkNames : Labelled(e, y)' /\ Current(h) = "M" => y.num < dkSrv[h].num
      <3> SUFFICES ASSUME NEW e \in DkDisks \ {d0}, NEW y \in DkNames, Labelled(e, y)', Current(h) = "M" PROVE y.num < dkSrv[h].num
        OBVIOUS
      <3>1. Labelled(e, y)
        BY <1>7
      <3>2. dkRow[e] # DkNone /\ dkRow[e].name.num = y.num
        BY <1>1, <1>8, <3>1, LabelTypes DEF NamesOwn, Registered, OneNumberEach
      <3>3. QED BY <1>1, <1>8, <3>2 DEF NamesOwn, NumberFresh
    <2>4. \A e \in DkDisks \ {d0} : \A y \in DkNames : Labelled(e, y)' /\ Current(h) = "M" => y.num # dkSrv[h].num
      <3>1. dkSrv[h].num \in Nat /\ \A y \in DkNames : y.num \in Nat
        BY <1>1 DEF DkTypeOK, DkServers, DkNames
      <3>2. QED BY <2>3, <3>1
    <2>5. MainsDiffer'
      <3>1. SUFFICES ASSUME NEW d \in DkDisks, NEW e \in DkDisks, NEW x \in DkNames, NEW y \in DkNames,
                            d # e, Labelled(d, x)', Labelled(e, y)', x.cat = "M", y.cat = "M"
                     PROVE  x.num # y.num
        BY DEF MainsDiffer
      <3>2. CASE d = d0
        BY <3>1, <3>2, <1>5, <1>6, <1>8, <2>4
      <3>3. CASE e = d0
        BY <3>1, <3>3, <1>5, <1>6, <1>8, <2>4
      <3>4. CASE d # d0 /\ e # d0
        BY <3>1, <3>4, <1>7, <1>8 DEF NamesOwn, MainsDiffer
      <3>5. QED BY <3>2, <3>3, <3>4
    <2>6. \A g \in DkHosts : dkSrv'[g].num = 0
      BY <1>1, <1>4, <1>8 DEF NamesOwn, OneAsks
    <2>7. OneAsks' /\ NumberFresh'
      BY <2>6 DEF OneAsks, NumberFresh
    <2>8. QED BY <2>1, <2>2, <2>5, <2>7 DEF NamesOwn
  <1>9. QED BY <1>1, <1>8 DEF NamesInv

\* What genLogicalName and MissingSlot leave alone; a number is above those of all rows.
LEMMA NamesAsk ==
    ASSUME WhereInv, WhereInv', NamesInv, NEW h \in DkHosts, genLogicalName(h) \/ MissingSlot(h)
    PROVE  NamesInv'
  <1>1. UNCHANGED <<dkAt, dkRow, dkInfo>> /\ DkTypeOK /\ DkTypeOK' /\ dkSrv[h] \in DkServers
    BY DEF genLogicalName, MissingSlot, WhereInv, DkTypeOK, DkOdds
  <1>2. /\ dkOdd'.names \in BOOLEAN /\ dkOdd.names \in BOOLEAN
        /\ MissingSlot(h) => dkOdd' = dkOdd
        /\ genLogicalName(h) => (dkOdd'.names <=> dkOdd.names \/ \E g \in DkHosts : dkSrv[g].num # 0)
    <2>1. genLogicalName(h) => (dkOdd'.names <=> dkOdd.names \/ \E g \in DkHosts : dkSrv[g].num # 0)
      <3> DEFINE asked == \E g \in DkHosts : dkSrv[g].num # 0
      <3>1. genLogicalName(h) => dkOdd' = [dkOdd EXCEPT !.names = @ \/ asked]
        BY DEF genLogicalName
      <3> HIDE DEF asked
      <3>2. genLogicalName(h) => dkOdd'.names = (dkOdd.names \/ asked)
        BY <1>1, <3>1 DEF DkTypeOK, DkOdds
      <3>3. QED BY <3>2 DEF asked
    <2>2. QED BY <1>1, <2>1 DEF DkTypeOK, DkOdds, MissingSlot
  <1>3. \/ /\ genLogicalName(h)
           /\ \E n \in Nat : dkSrv' = [dkSrv EXCEPT ![h].num = n] /\ (Current(h) = "M" => n = getMaxDiskNumber + 1)
        \/ dkSrv' = [dkSrv EXCEPT ![h].step = "raise"]
    BY AskedNumber DEF MissingSlot
  <1>4. /\ dkSrv'[h].todo = dkSrv[h].todo /\ dkSrv'[h].known = dkSrv[h].known
        /\ \A g \in DkHosts \ {h} : dkSrv'[g] = dkSrv[g]
    BY <1>1, <1>3 DEF DkTypeOK, DkServers
  <1>5. \A g \in DkHosts : \A s \in DkSlots : KnownAs(g, s)' = KnownAs(g, s)
    BY <1>4 DEF KnownAs
  <1>6. \A d \in DkDisks : Inherits(d)
    BY <1>1, <1>5, InheritsSame
  <1>7. CASE dkSrv' = [dkSrv EXCEPT ![h].step = "raise"]
    <2>1. \A g \in DkHosts : NumLeft(g)
      BY <1>1, <1>4, <1>7 DEF NumLeft, DkTypeOK, DkServers
    <2>2. dkOdd.names => dkOdd'.names
      BY <1>2
    <2>3. QED BY <1>6, <2>1, <2>2, NamesKept
  <1>8. ASSUME genLogicalName(h), NEW n \in Nat, dkSrv' = [dkSrv EXCEPT ![h].num = n], Current(h) = "M" => n = getMaxDiskNumber + 1,
               ~dkOdd'.names
        PROVE  NamesOwn'
    <2>1. ~dkOdd.names /\ \A g \in DkHosts : dkSrv[g].num = 0
      BY <1>2, <1>8
    <2>2. NamesOwn
      BY <2>1 DEF NamesInv
    <2>3. dkSrv'[h].num = n /\ \A g \in DkHosts \ {h} : dkSrv'[g].num = 0
      BY <1>1, <1>4, <1>8, <2>1 DEF DkTypeOK, DkServers
    <2>4. OneAsks'
      BY <2>3 DEF OneAsks
    <2>5. NumberFresh'
      <3>1. SUFFICES ASSUME NEW g \in DkHosts, dkSrv'[g].num # 0, Current(g)' = "M", NEW e \in DkDisks, dkRow[e] # DkNone
                     PROVE  dkRow[e].name.num < dkSrv'[g].num
        BY <1>1 DEF NumberFresh
      <3>2. g = h /\ Current(h) = "M"
        BY <3>1, <2>3, <1>4 DEF Current
      <3>3. n = getMaxDiskNumber + 1 /\ dkRow[e].name.num <= getMaxDiskNumber /\ getMaxDiskNumber \in Nat /\ dkRow[e].name.num \in Nat
        BY <3>1, <3>2, <1>1, <1>8, NewNumber DEF DkTypeOK, DkRows, DkNames
      <3>4. QED BY <3>2, <3>3, <2>3
    <2>6. \A d \in DkDisks : \A x \in DkNames : Labelled(d, x)' => Labelled(d, x)
      BY <1>1, <1>5 DEF Labelled
    <2>7. Registered' /\ OneNumberEach' /\ MainsDiffer'
      BY <1>1, <2>2, <2>6 DEF NamesOwn, Registered, OneNumberEach, MainsDiffer
    <2>8. QED BY <2>4, <2>5, <2>7 DEF NamesOwn
  <1>9. QED BY <1>3, <1>7, <1>8 DEF NamesInv

\* A file that is written to its own disk has the name of the row.
LEMMA NamesDumping ==
    ASSUME WhereInv, WhereInv', NamesInv, NEW h \in DkHosts, Dumping(h)
    PROVE  NamesInv'
  <1>1. DkTypeOK /\ Dumped(h) /\ dkAt' = dkAt
    BY DEF WhereInv, Dumping
  <1>2. dkOdd.names => dkOdd'.names
    BY <1>1 DEF Dumped
  <1>3. ASSUME ~dkOdd'.names, NEW d \in DkDisks PROVE Inherits(d)
    <2>1. DumpedAt(h, d) \subseteq {d}
      BY <1>1, <1>3 DEF Dumped
    <2>2. dkInfo'[d] = dkInfo[d] \/ (d \in DumpedAt(h, d) /\ dkInfo'[d] = FileOf(d))
      BY <1>1, <2>1 DEF Dumped
    <2>3. d \in DumpedAt(h, d) => dkRow[d] # DkNone /\ FileOf(d).name = dkRow[d].name /\ FileOf(d) # DkNone
      <3>1. d \in DumpedAt(h, d) => dkRow[d] # DkNone /\ dkRow[d] \in DkRows
        BY <1>1, MountedIs DEF DumpedAt
      <3>2. d \in DumpedAt(h, d) => FileOf(d) \in DkFiles
        BY <3>1 DEF FileOf, DkRows, DkFiles
      <3>3. QED BY <3>1, <3>2, DkConfig DEF FileOf
    <2>4. dkInfo'[d] \in {dkInfo[d], DkNone} \/ (dkInfo'[d] # DkNone /\ dkRow[d] # DkNone /\ dkInfo'[d].name = dkRow[d].name)
      BY <2>2, <2>3
    <2>5. \A g \in DkHosts : \A s \in DkSlots : KnownAs(g, s)' # DkNone => KnownAs(g, s)' = KnownAs(g, s)
      BY DEF Dumping, KnownAs
    <2>6. (dkRow'[d] = DkNone <=> dkRow[d] = DkNone) /\ (dkRow[d] # DkNone => dkRow'[d].name = dkRow[d].name)
      BY DEF Dumping
    <2>7. QED BY <1>1, <2>4, <2>5, <2>6, InheritsSame
  <1>4. \A g \in DkHosts : NumLeft(g)
    BY DEF Dumping, NumLeft
  <1>5. QED BY <1>2, <1>3, <1>4, NamesKept

\* Neither a crash nor reading a row renames a disk.
LEMMA NamesReadCrash ==
    ASSUME WhereInv, WhereInv', NamesInv, NEW h \in DkHosts, DkRead(h) \/ DkCrash(h)
    PROVE  NamesInv'
  <1>1. DkTypeOK /\ dkSrv[h] \in DkServers /\ UNCHANGED <<dkAt, dkInfo, dkRow>>
    BY DEF WhereInv, DkTypeOK, DkRead, DkCrash
  <1>2. dkOdd'.names = dkOdd.names
    BY <1>1 DEF DkRead, DkCrash, DkTypeOK, DkOdds
  <1>3. (\A g \in DkHosts \ {h} : dkSrv'[g] = dkSrv[g]) /\ dkSrv'[h] \in {DkDown, dkSrv[h]}
    BY <1>1 DEF DkRead, DkCrash, DkTypeOK
  <1>4. /\ dkSrv'[h].num = 0 \/ (dkSrv'[h].num = dkSrv[h].num /\ dkSrv'[h].todo = dkSrv[h].todo)
        /\ \A s \in DkSlots : dkSrv'[h].known[s] \in {DkNone, dkSrv[h].known[s]}
    BY <1>1, <1>3 DEF DkDown, DkServers
  <1>5. \A g \in DkHosts : \A s \in DkSlots : KnownAs(g, s)' # DkNone => KnownAs(g, s)' = KnownAs(g, s)
    BY <1>3, <1>4 DEF KnownAs
  <1>6. \A d \in DkDisks : Inherits(d)
    BY <1>1, <1>5, InheritsSame
  <1>7. \A g \in DkHosts : NumLeft(g)
    BY <1>3, <1>4 DEF NumLeft
  <1>8. QED BY <1>2, <1>6, <1>7, NamesKept

\* A request writes the name it read, or is remembered.
LEMMA NamesRequest ==
    ASSUME WhereInv, WhereInv', NamesInv, NEW r \in dkHeld, DkWriteBack(r) \/ DkDump(r)
    PROVE  NamesInv'
  <1>1. DkTypeOK /\ dkSrv' = dkSrv /\ dkAt' = dkAt
    BY DEF WhereInv, DkWriteBack, DkDump
  <1>2. /\ \A h \in DkHosts : NumLeft(h)
        /\ \A h \in DkHosts : \A s \in DkSlots : KnownAs(h, s)' = KnownAs(h, s)
    BY <1>1 DEF NumLeft, KnownAs
  <1>3. dkOdd.names => dkOdd'.names
    BY WrittenBackIs, DumpedToIs
  <1>4. ASSUME ~dkOdd'.names, NEW d \in DkDisks PROVE Inherits(d)
    <2>1. CASE DkWriteBack(r)
      <3>1. dkInfo' = dkInfo /\ dkRow[r.disk] # DkNone /\ dkRow[r.disk].name = r.row.name
        BY <1>4, <2>1, WrittenBackIs DEF DkWriteBack
      <3>2. (dkRow'[d] = DkNone <=> dkRow[d] = DkNone) /\ (dkRow[d] # DkNone => dkRow'[d].name = dkRow[d].name)
        BY <1>1, <2>1, <3>1, WrittenBackIs, HeldIs
      <3>3. QED BY <1>1, <1>2, <3>1, <3>2, InheritsSame
    <2>2. CASE DkDump(r)
      <3>1. dkRow' = dkRow /\ DumpedTo(r) \subseteq {r.disk}
        BY <1>4, <2>2, DumpedToIs DEF DkDump
      <3>2. d \in DumpedTo(r) => dkInfo'[d].name = dkRow[d].name
        <4>1. d \in DumpedTo(r) => d = r.disk /\ dkInfo'[d] = FileOf(d)
          BY <2>2, <3>1, DumpedToIs
        <4>2. FileOf(d).name = dkRow[d].name
          BY DEF FileOf
        <4>3. QED BY <4>1, <4>2
      <3>3. dkInfo'[d] \in {dkInfo[d], DkNone} \/ (dkInfo'[d] # DkNone /\ dkRow[d] # DkNone /\ dkInfo'[d].name = dkRow[d].name)
        BY <2>2, <3>1, <3>2, DumpedToIs
      <3>4. QED BY <1>1, <1>2, <3>1, <3>3, InheritsSame
    <2>3. QED BY <2>1, <2>2
  <1>5. QED BY <1>2, <1>3, <1>4, NamesKept

\* LABEL takes the role only; lost files and exchanged disks leave the names.
LEMMA NamesOperators ==
    ASSUME WhereInv, WhereInv', NamesInv, NEW d \in DkDisks,
           DkLost(d) \/ LABEL(d) \/ \E p \in Places \cup {DkNone} : DkExchange(d, p)
    PROVE  NamesInv'
  <1>1. DkTypeOK /\ dkSrv' = dkSrv
    BY DEF WhereInv, DkLost, LABEL, DkExchange
  <1>2. /\ \A h \in DkHosts : NumLeft(h)
        /\ \A h \in DkHosts : \A s \in DkSlots : KnownAs(h, s)' = KnownAs(h, s)
    BY <1>1 DEF NumLeft, KnownAs
  <1>3. dkOdd.names => dkOdd'.names
    BY <1>1 DEF DkLost, LABEL, DkExchange, DkTypeOK, DkOdds
  <1>4. ASSUME ~dkOdd'.names, NEW e \in DkDisks PROVE Inherits(e)
    <2>1. CASE DkLost(d)
      <3>1. dkAt' = dkAt
        BY <2>1 DEF DkLost
      <3>2. CASE dkInfo' = [dkInfo EXCEPT ![d] = DkNone] /\ dkRow' = dkRow
        <4>1. dkInfo'[e] \in {dkInfo[e], DkNone}
          BY <1>1, <3>2 DEF DkTypeOK
        <4>2. QED BY <1>1, <1>2, <3>1, <3>2, <4>1, InheritsSame
      <3>3. CASE dkOdd' = [dkOdd EXCEPT !.names = TRUE]
        BY <1>1, <1>4, <3>3 DEF DkTypeOK
      <3>4. QED BY <2>1, <3>2, <3>3 DEF DkLost
    <2>2. CASE LABEL(d)
      <3>1. UNCHANGED <<dkAt, dkInfo>> /\ dkRow[d] # DkNone /\ dkRow' = [dkRow EXCEPT ![d].name.cat = "X"] /\ dkRow[d] \in DkRows
        BY <1>1, <2>2 DEF LABEL, DkTypeOK
      <3>2. CASE e # d
        <4>1. dkRow'[e] = dkRow[e]
          BY <1>1, <3>1, <3>2 DEF DkTypeOK
        <4>2. QED BY <1>1, <1>2, <3>1, <4>1, InheritsSame
      <3>3. CASE e = d
        <4>1. dkRow'[d].name.num = dkRow[d].name.num /\ dkRow'[d].name.cat = "X" /\ dkRow'[d] \in DkRows
          BY <1>1, <3>1 DEF DkTypeOK, DkRows, DkNames
        <4>2. dkRow[d].name \in DkNames /\ Labelled(d, dkRow[d].name)
          BY <1>1, <3>1, LabelTypes
        <4>3. Inherited(d, dkRow'[d].name) /\ dkRow'[d] # DkNone
          BY <4>1, <4>2, DkConfig DEF Inherited
        <4>4. dkInfo'[d] # DkNone => Inherited(d, dkInfo'[d].name)
          BY <1>1, <3>1, LabelTypes
        <4>5. \A h \in DkHosts : \A s \in DkSlots :
                dkAt'[d] = <<h, s>> /\ KnownAs(h, s)' # DkNone => Inherited(d, KnownAs(h, s)'.name)
          BY <1>1, <1>2, <3>1, LabelTypes
        <4>6. QED BY <3>3, <4>3, <4>4, <4>5 DEF Inherits
      <3>4. QED BY <3>2, <3>3
    <2>3. ASSUME NEW p \in Places \cup {DkNone}, DkExchange(d, p) PROVE Inherits(e)
      <3>1. UNCHANGED <<dkRow, dkInfo>>
        BY <2>3 DEF DkExchange
      <3>2. \A h \in DkHosts : \A s \in DkSlots : KnownAs(h, s) # DkNone => Step(h) # "off"
        BY DEF WhereInv, HostSound, KnownThere
      <3>3. \A h \in DkHosts : \A s \in DkSlots : Step(h) # "off" => (dkAt'[e] = <<h, s>> <=> dkAt[e] = <<h, s>>)
        BY <2>3, ExchangeIs
      <3>4. QED BY <1>1, <1>2, <3>1, <3>2, <3>3, InheritsSame
    <2>4. QED BY <2>1, <2>2, <2>3
  <1>5. QED BY <1>2, <1>3, <1>4, NamesKept

\* No disk has a name in the first state.
LEMMA NamesInit == DkInit => NamesInv
  <1> SUFFICES ASSUME DkInit PROVE NamesOwn
    BY DEF NamesInv
  <1>1. \A d \in DkDisks : dkRow[d] = DkNone /\ dkInfo[d] = DkNone
    BY DEF DkInit
  <1>2. \A h \in DkHosts : dkSrv[h].num = 0 /\ \A s \in DkSlots : KnownAs(h, s) = DkNone
    BY DEF DkInit, DkDown, KnownAs
  <1>3. \A d \in DkDisks : \A x \in DkNames : ~Labelled(d, x)
    BY <1>1, <1>2 DEF Labelled
  <1>4. QED BY <1>2, <1>3 DEF NamesOwn, Registered, OneNumberEach, MainsDiffer, OneAsks, NumberFresh

\* Every step keeps the names of Main Disks apart.
LEMMA NamesStep == WhereInv /\ FileInv /\ NamesInv /\ [DkNext]_dkVars => NamesInv'
  <1> SUFFICES ASSUME WhereInv, FileInv, NamesInv, [DkNext]_dkVars PROVE NamesInv'
    OBVIOUS
  <1>1. WhereInv'
    BY WhereStep
  <1>2. CASE UNCHANGED dkVars
    <2>1. \A h \in DkHosts : NumLeft(h) /\ \A s \in DkSlots : KnownAs(h, s)' = KnownAs(h, s)
      BY <1>2 DEF dkVars, NumLeft, KnownAs
    <2>2. \A d \in DkDisks : Inherits(d)
      BY <1>2, <2>1, InheritsSame DEF dkVars, WhereInv
    <2>3. QED BY <1>1, <1>2, <2>1, <2>2, NamesKept DEF dkVars
  <1>3. ASSUME NEW h \in DkHosts,
               \/ checkDisks(h) \/ updateDiskInDb(h) \/ genLogicalName(h) \/ addDiskInDb(h) \/ MissingSlot(h)
               \/ DkOnline(h) \/ DkOffline(h) \/ DkRaised(h) \/ DkRead(h) \/ DkCrash(h)
        PROVE  NamesInv'
    BY <1>1, <1>3, NamesCheck, NamesUpdate, NamesAsk, NamesAdd, DumpingIs, NamesDumping, NamesReadCrash DEF DkOffline, DkRaised
  <1>4. ASSUME NEW d \in DkDisks, DkLost(d) \/ LABEL(d) \/ \E p \in Places \cup {DkNone} : DkExchange(d, p)
        PROVE  NamesInv'
    BY <1>1, <1>4, NamesOperators
  <1>5. ASSUME NEW r \in dkHeld, DkWriteBack(r) \/ DkDump(r) PROVE NamesInv'
    BY <1>1, <1>5, NamesRequest
  <1>6. QED BY <1>2, <1>3, <1>4, <1>5 DEF DkNext

-----------------------------------------------------------------------------
(* The rows of ngas_disks.                                                 *)

\* The invariants say of the rows what DiskRowsTrue says.
LEMMA RowsTrue == WhereInv /\ NamesInv => DiskRowsTrue
  <1> SUFFICES ASSUME WhereInv, NamesInv PROVE DiskRowsTrue
    OBVIOUS
  <1>1. DkTypeOK /\ \A h \in DkHosts : HostSound(h)
    BY DEF WhereInv
  <1>2. \A h \in DkHosts : Step(h) = "on" => \A x : ~Pending(h, x)
    BY <1>1 DEF HostSound, TodoThere, Pending, Has
  <1>3. MountedIsThere
    BY <1>1, <1>2 DEF MountedIsThere, HostSound, PlacedOrPending, Step
  <1>4. RoleRespected
    <2>1. SUFFICES ASSUME NEW h \in DkArchiving \ dkOdd.kept, NEW d \in Vouched(h), dkSrv[h].step = "on", ~dkRow[d].done
                   PROVE  dkRow[d].name.cat \in {dkRow[d].place[2], "X"}
      BY DEF RoleRespected
    <2>2. h \in DkHosts /\ HostSound(h) /\ Step(h) = "on"
      BY <1>1, <2>1, DkConfig DEF Step
    <2>3. dkAt[d] = dkRow[d].place
      BY <2>1, <2>2, <1>2 DEF HostSound, PlacedOrPending
    <2>4. QED BY <2>1, <2>2, <2>3, <1>2 DEF HostSound, RoleOrPending
  <1>5. DownHasNone
    BY <1>1 DEF DownHasNone, HostSound, DownClean, Step
  <1>6. MainNamesUnique
    <2>1. SUFFICES ASSUME NEW d \in DkDisks, NEW e \in DkDisks, d # e, dkRow[d] # DkNone, dkRow[e] # DkNone, ~dkOdd.names,
                          dkRow[d].name = dkRow[e].name
                   PROVE  dkRow[d].name.cat # "M"
      BY DEF MainNamesUnique
    <2>2. NamesOwn
      BY <2>1 DEF NamesInv
    <2>3. /\ dkRow[d].name \in DkNames /\ Labelled(d, dkRow[d].name)
          /\ dkRow[e].name \in DkNames /\ Labelled(e, dkRow[e].name)
      BY <1>1, <2>1, LabelTypes
    <2>4. QED BY <2>1, <2>2, <2>3 DEF NamesOwn, MainsDiffer
  <1>7. QED BY <1>3, <1>4, <1>5, <1>6 DEF DiskRowsTrue

\* The rows of ngas_disks say which disks are mounted where and as what, however
\* many hosts and disks there are, whatever is moved, crashes or is lost, and
\* wherever checkDisks fails; and no two Main Disks get one logical name.  Rows that
\* requests wrote back late are left out.
THEOREM DiskRowsCorrect == DkSpec => []DiskRowsTrue
  <1>1. DkInit => WhereInv /\ FileInv /\ NamesInv
    BY WhereInit, FileInit, NamesInit
  <1>2. WhereInv /\ FileInv /\ NamesInv /\ [DkNext]_dkVars => (WhereInv /\ FileInv /\ NamesInv)'
    BY WhereStep, FileStep, NamesStep
  <1>3. QED BY <1>1, <1>2, RowsTrue, PTL DEF DkSpec

=============================================================================
