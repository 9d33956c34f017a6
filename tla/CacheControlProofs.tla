------------------------ MODULE CacheControlProofs -------------------------
(***************************************************************************)
(* Proofs about CacheControl for any number of copies and plug-in threads, *)
(* any limits of the cache and any number of faults.                       *)
(***************************************************************************)
EXTENDS CacheControl, FiniteSetTheorems, WellFoundedInduction, TLAPS

Removing == pc \in {"row", "unlink", "drop", "rdrop"}
Distinct(s) == \A i, j \in DOMAIN s : s[i].copy = s[j].copy => i = j

\* What the type invariant leaves open.
Shape ==
    /\ TypeOK
    /\ cache \in Seq(Entries) /\ todo \in Seq(Entries) /\ piQueue \in Seq(Copies)
    /\ IsFiniteSet(DOMAIN piDel)
    /\ Removing \/ pc = "add" => todo # <<>>

\* The incarnations ngas_files knows and cache control chose were archived.
Ages == \A c \in Copies : row[c] <= born[c] /\ chosen[c] <= born[c]

\* What ngas_cache lists has a row, or was chosen.
Explained == \A c \in Copies : c \in rcache \/ In(cache, c) => row[c] # 0 \/ chosen[c] # 0

\* What is marked, and what the thread is removing, was chosen.
MarkedChosen == \A i \in DOMAIN cache : cache[i].del => chosen[cache[i].copy] # 0
TodoChosen == Removing => \A i \in DOMAIN todo : chosen[todo[i].copy] # 0

\* A file that has no row yet is younger than what was chosen.
MovedFresh ==
    \A c \in Copies : arch[c] = "moved" =>
        /\ row[c] = 0 /\ chosen[c] < born[c]
        /\ file[c] = born[c] \/ c \in lost \/ chosen[c] \in 1 .. born[c] - 1

\* Between the deletion of its row and that of its entry, a file has no row or is a new one,
\* which has been or will be announced.
Replaced ==
    pc \in {"unlink", "drop"} =>
        LET c == Head(todo).copy
        IN  c \in lost \/ row[c] = 0 \/ (chosen[c] < row[c] /\ (arch[c] = "stored" \/ c \in newFiles))

\* An entry without a filename gets one from its row at start-up, or was chosen.
Unnamed ==
    \A i \in DOMAIN cache :
        \/ cache[i].named \/ chosen[cache[i].copy] # 0
        \/ Starting /\ row[cache[i].copy] # 0

\* The inductive invariant.
CacheInv ==
    /\ Shape /\ Ages /\ Explained /\ MarkedChosen /\ TodoChosen /\ MovedFresh
    /\ Replaced /\ Unnamed /\ Registered /\ RowBacked

-----------------------------------------------------------------------------
(* The operators on the entries of the local DBMS.                         *)

\* A set of numbers has a least member.
LEMMA LeastIndex ==
    ASSUME NEW S \in SUBSET Nat, S # {}
    PROVE  \E x \in S : \A y \in S : x <= y
  <1>1. PICK x \in S : \A y \in S : ~(<<y, x>> \in OpToRel(<, Nat))
    BY NatLessThanWellFounded, WFMin
  <1>2. \A y \in S : ~(y < x)
    BY <1>1 DEF OpToRel
  <1>3. QED BY <1>2

\* The orders of a finite set are sequences that list each member once.
LEMMA Orders ==
    ASSUME NEW S, IsFiniteSet(S), NEW q \in SetToSeqs(S)
    PROVE  /\ q \in Seq(S) /\ Len(q) = Cardinality(S) /\ DOMAIN q = 1 .. Len(q)
           /\ \A i, j \in DOMAIN q : q[i] = q[j] => i = j
           /\ \A x \in S : \E i \in DOMAIN q : q[i] = x
  <1> DEFINE n == Cardinality(S)
  <1>1. n \in Nat
    BY FS_CardinalityType
  <1>2. q \in [1 .. n -> S] /\ \A i, j \in 1 .. n : i # j => q[i] # q[j]
    BY DEF SetToSeqs
  <1>3. q \in Seq(S) /\ Len(q) = n /\ DOMAIN q = 1 .. Len(q)
    BY <1>1, <1>2
  <1>4. IsFiniteSet(1 .. n) /\ Cardinality(1 .. n) = n
    BY <1>1, FS_Interval
  <1>5. q \in Injection(1 .. n, S)
    BY <1>2 DEF Injection, IsInjective
  <1>6. q \in Surjection(1 .. n, S)
    BY <1>4, <1>5, FS_Injection
  <1>7. \A x \in S : \E i \in 1 .. n : q[i] = x
    BY <1>6 DEF Surjection
  <1>8. QED BY <1>2, <1>3, <1>7

\* The entries of the copies in cs that have none in s.
Fresh(s, cs, named) == {Entry(c, named) : c \in {d \in cs : ~In(s, d)}}

\* t has the entries of s, and entries for the other copies in cs.
Added(s, cs, named, t) ==
    /\ t \in Seq(Entries) /\ Distinct(t)
    /\ \A c \in Copies : In(t, c) <=> In(s, c) \/ c \in cs
    /\ \A i \in DOMAIN t : \/ \E j \in DOMAIN s : t[i] = s[j]
                           \/ \E c \in cs : ~In(s, c) /\ t[i] = Entry(c, named)

\* Entries for copies that have none are put behind the others.
LEMMA EntriesAdded ==
    ASSUME NEW s \in Seq(Entries), Distinct(s), NEW cs \in SUBSET Copies, NEW named \in BOOLEAN,
           NEW new \in SetToSeqs(Fresh(s, cs, named)), NEW t, t = s \o new
    PROVE  /\ Added(s, cs, named, t)
           /\ {e.copy : e \in Range(new)} = {d \in cs : ~In(s, d)}
  <1> DEFINE add == {d \in cs : ~In(s, d)}
             S == {Entry(c, named) : c \in add}
  <1>1. IsFiniteSet(add)
    BY CacheConfig, FS_Subset
  <1>2. IsFiniteSet(S)
    <2>1. [c \in add |-> Entry(c, named)] \in Surjection(add, S)
      BY DEF Surjection
    <2>2. QED BY <1>1, <2>1, FS_Surjection
  <1>3. /\ new \in Seq(S) /\ DOMAIN new = 1 .. Len(new)
        /\ \A i, j \in DOMAIN new : new[i] = new[j] => i = j
        /\ \A x \in S : \E i \in DOMAIN new : new[i] = x
    BY <1>2, Orders DEF Fresh
  <1>4. S \subseteq Entries /\ \A x \in S : x.copy \in add /\ x = Entry(x.copy, named)
    <2>1. \A c \in add : Entry(c, named).copy = c /\ Entry(c, named) \in Entries
      BY DEF Entries, Entry
    <2> HIDE DEF add
    <2>2. QED BY <2>1
  <1>5. new \in Seq(Entries)
    BY <1>3, <1>4
  <1>6. /\ t \in Seq(Entries) /\ Len(t) = Len(s) + Len(new) /\ DOMAIN t = 1 .. Len(t)
        /\ \A i \in 1 .. Len(s) : t[i] = s[i]
        /\ \A i \in 1 .. Len(new) : t[Len(s) + i] = new[i]
        /\ DOMAIN s = 1 .. Len(s) /\ Len(s) \in Nat /\ Len(new) \in Nat
    BY <1>5
  <1>7. \A i \in DOMAIN t : i \in DOMAIN s \/ (i - Len(s) \in DOMAIN new /\ t[i] = new[i - Len(s)])
    BY <1>3, <1>6
  <1>8. \A i \in DOMAIN new : new[i] \in S
    BY <1>3
  <1>9. \A i \in DOMAIN t :
            \/ i \in DOMAIN s /\ t[i] = s[i]
            \/ i - Len(s) \in DOMAIN new /\ t[i] = new[i - Len(s)] /\ t[i].copy \in add /\ t[i] = Entry(t[i].copy, named)
    BY <1>4, <1>6, <1>7, <1>8
  <1>10. Distinct(t)
    <2> SUFFICES ASSUME NEW i \in DOMAIN t, NEW j \in DOMAIN t, t[i].copy = t[j].copy
                 PROVE  i = j
      BY DEF Distinct
    <2>1. CASE i \in DOMAIN s /\ j \in DOMAIN s
      BY <2>1, <1>6 DEF Distinct
    <2>2. CASE i \in DOMAIN s /\ j \notin DOMAIN s
      BY <2>2, <1>9, <1>6 DEF In
    <2>3. CASE i \notin DOMAIN s /\ j \in DOMAIN s
      BY <2>3, <1>9, <1>6 DEF In
    <2>4. CASE i \notin DOMAIN s /\ j \notin DOMAIN s
      <3>1. new[i - Len(s)] = new[j - Len(s)] /\ i - Len(s) \in DOMAIN new /\ j - Len(s) \in DOMAIN new
        BY <2>4, <1>9
      <3>2. i - Len(s) = j - Len(s)
        BY <3>1, <1>3
      <3>3. QED BY <3>2, <1>6
    <2>5. QED BY <2>1, <2>2, <2>3, <2>4
  <1>11. ASSUME NEW c \in Copies
         PROVE  In(t, c) <=> In(s, c) \/ c \in cs
    <2>1. ASSUME In(t, c)
          PROVE  In(s, c) \/ c \in cs
      BY <2>1, <1>9 DEF In
    <2>2. ASSUME In(s, c)
          PROVE  In(t, c)
      BY <2>2, <1>6 DEF In
    <2>3. ASSUME c \in add
          PROVE  In(t, c)
      <3>1. PICK i \in DOMAIN new : new[i] = Entry(c, named)
        BY <2>3, <1>3
      <3>2. Len(s) + i \in DOMAIN t /\ t[Len(s) + i].copy = c
        BY <3>1, <1>3, <1>6 DEF Entry
      <3>3. QED BY <3>2 DEF In
    <2>4. QED BY <2>1, <2>2, <2>3
  <1>12. {e.copy : e \in Range(new)} = add
    <2>1. \A d \in add : \E e \in Range(new) : e.copy = d
      <3>1. \A d \in add : Entry(d, named) \in Range(new) /\ Entry(d, named).copy = d
        BY <1>3 DEF Range, Entry
      <3>2. QED BY <3>1
    <2>2. \A e \in Range(new) : e.copy \in add
      BY <1>4, <1>8 DEF Range
    <2>3. QED BY <2>1, <2>2
  <1>13. \A i \in DOMAIN t : \/ \E j \in DOMAIN s : t[i] = s[j]
                             \/ \E c \in cs : ~In(s, c) /\ t[i] = Entry(c, named)
    BY <1>9
  <1>14. QED BY <1>6, <1>10, <1>11, <1>12, <1>13 DEF Added

\* The part of a sequence behind an index.
LEMMA RestOfSeq ==
    ASSUME NEW S, NEW s \in Seq(S), NEW k \in 1 .. Len(s)
    PROVE  /\ SubSeq(s, k + 1, Len(s)) \in Seq(S) /\ Len(SubSeq(s, k + 1, Len(s))) = Len(s) - k
           /\ \A i \in 1 .. Len(s) - k : SubSeq(s, k + 1, Len(s))[i] = s[k + i]
  OBVIOUS

\* Two sequences one after the other.
LEMMA Joined ==
    ASSUME NEW S, NEW a \in Seq(S), NEW b \in Seq(S)
    PROVE  /\ a \o b \in Seq(S) /\ Len(a \o b) = Len(a) + Len(b)
           /\ \A i \in 1 .. Len(a) + Len(b) : (a \o b)[i] = IF i <= Len(a) THEN a[i] ELSE b[i - Len(a)]
  OBVIOUS

\* t has the entries of s but that of c.
Dropped(s, c, t) ==
    /\ t \in Seq(Entries) /\ Distinct(t)
    /\ \A d \in Copies : In(t, d) <=> In(s, d) /\ d # c
    /\ \A i \in DOMAIN t : \E j \in DOMAIN s : t[i] = s[j]

\* The entry of a copy is taken out, the others stay.
LEMMA EntryDropped ==
    ASSUME NEW s \in Seq(Entries), Distinct(s), NEW c \in Copies
    PROVE  Dropped(s, c, Without(s, c))
  <1>1. CASE ~In(s, c)
    BY <1>1 DEF Without, Dropped
  <1>2. CASE In(s, c)
    <2> DEFINE k == CHOOSE i \in DOMAIN s : s[i].copy = c
               t == RemoveAt(s, k)
    <2>1. k \in DOMAIN s /\ s[k].copy = c
      BY <1>2 DEF In
    <2>2. k \in 1 .. Len(s) /\ Len(s) \in Nat /\ DOMAIN s = 1 .. Len(s)
      BY <2>1
    <2> HIDE DEF k, t
    <2>3. /\ SubSeq(s, 1, k - 1) \in Seq(Entries) /\ Len(SubSeq(s, 1, k - 1)) = k - 1
          /\ \A i \in 1 .. k - 1 : SubSeq(s, 1, k - 1)[i] = s[i]
      BY <2>2
    <2>4. /\ SubSeq(s, k + 1, Len(s)) \in Seq(Entries) /\ Len(SubSeq(s, k + 1, Len(s))) = Len(s) - k
          /\ \A i \in 1 .. Len(s) - k : SubSeq(s, k + 1, Len(s))[i] = s[k + i]
      BY <2>2, RestOfSeq
    <2>5. /\ t \in Seq(Entries) /\ Len(t) = Len(s) - 1 /\ DOMAIN t = 1 .. Len(s) - 1
          /\ \A i \in 1 .. Len(s) - 1 : t[i] = IF i < k THEN s[i] ELSE s[i + 1]
      <3> DEFINE a == SubSeq(s, 1, k - 1)
                 b == SubSeq(s, k + 1, Len(s))
      <3>1. t = a \o b
        BY DEF t, RemoveAt
      <3> HIDE DEF a, b
      <3>2. /\ a \in Seq(Entries) /\ Len(a) = k - 1 /\ \A i \in 1 .. k - 1 : a[i] = s[i]
            /\ b \in Seq(Entries) /\ Len(b) = Len(s) - k /\ \A i \in 1 .. Len(s) - k : b[i] = s[k + i]
        BY <2>3, <2>4 DEF a, b
      <3>3. /\ t \in Seq(Entries) /\ Len(t) = Len(s) - 1 /\ DOMAIN t = 1 .. Len(s) - 1
            /\ \A i \in 1 .. Len(s) - 1 : t[i] = IF i <= k - 1 THEN a[i] ELSE b[i - (k - 1)]
        <4>1. /\ t \in Seq(Entries) /\ Len(t) = Len(a) + Len(b)
              /\ \A i \in 1 .. Len(a) + Len(b) : t[i] = IF i <= Len(a) THEN a[i] ELSE b[i - Len(a)]
          BY <3>1, <3>2, Joined
        <4>2. Len(a) + Len(b) = Len(s) - 1 /\ DOMAIN t = 1 .. Len(t)
          BY <4>1, <3>2, <2>2
        <4>3. QED BY <4>1, <4>2, <3>2
      <3>4. ASSUME NEW i \in 1 .. Len(s) - 1
            PROVE  t[i] = IF i < k THEN s[i] ELSE s[i + 1]
        <4>1. CASE i < k
          BY <4>1, <3>2, <3>3, <2>2
        <4>2. CASE ~(i < k)
          <5>1. i - (k - 1) \in 1 .. Len(s) - k /\ k + (i - (k - 1)) = i + 1
            BY <4>2, <2>2
          <5>2. b[i - (k - 1)] = s[i + 1]
            BY <5>1, <3>2
          <5>3. QED BY <4>2, <5>2, <3>3, <2>2
        <4>3. QED BY <4>1, <4>2
      <3>5. QED BY <3>3, <3>4
    <2>6. Without(s, c) = t
      BY <1>2 DEF Without, k, t
    <2>7. \A i \in DOMAIN t : \E j \in DOMAIN s : t[i] = s[j] /\ j # k /\ j = (IF i < k THEN i ELSE i + 1)
      BY <2>2, <2>5
    <2>8. Distinct(t)
      BY <2>2, <2>5, <2>7 DEF Distinct
    <2>9. ASSUME NEW d \in Copies
          PROVE  In(t, d) <=> In(s, d) /\ d # c
      <3>1. In(t, d) => In(s, d) /\ d # c
        BY <2>1, <2>7 DEF In, Distinct
      <3>2. ASSUME In(s, d), d # c
            PROVE  In(t, d)
        <4>1. PICK j \in DOMAIN s : s[j].copy = d
          BY <3>2 DEF In
        <4>2. j # k
          BY <4>1, <3>2, <2>1
        <4>3. CASE j < k
          BY <4>1, <4>3, <2>2, <2>5 DEF In
        <4>4. CASE j > k
          <5>1. j - 1 \in DOMAIN t /\ t[j - 1] = s[j]
            BY <4>4, <2>2, <2>5
          <5>2. QED BY <5>1, <4>1 DEF In
        <4>5. QED BY <4>2, <4>3, <4>4, <2>2
      <3>3. QED BY <3>1, <3>2
    <2>10. QED BY <2>5, <2>6, <2>7, <2>8, <2>9 DEF Dropped
  <1>3. QED BY <1>1, <1>2

\* Entries are marked, and their copies chosen if they were not before.
LEMMA EntriesMarked ==
    ASSUME Shape, NEW cs, scheduleFileForDeletion(cs)
    PROVE  /\ cache' \in Seq(Entries) /\ Distinct(cache') /\ DOMAIN cache' = DOMAIN cache
           /\ \A i \in DOMAIN cache :
                 /\ cache'[i].copy = cache[i].copy /\ cache'[i].named = cache[i].named
                 /\ cache'[i].del => cache[i].del \/ cache[i].copy \in cs
           /\ \A c \in Copies : In(cache', c) <=> In(cache, c)
           /\ chosen' \in [Copies -> Nat]
           /\ \A c \in Copies : chosen'[c] = IF c \in cs /\ In(cache, c) /\ chosen[c] = 0
                                             THEN born[c] ELSE chosen[c]
  <1>1. cache \in Seq(Entries) /\ Distinct(cache) /\ born \in [Copies -> Nat] /\ chosen \in [Copies -> Nat]
    BY DEF Shape, TypeOK, Distinct
  <1>2. /\ Len(cache) \in Nat /\ DOMAIN cache = 1 .. Len(cache) /\ \A i \in DOMAIN cache : cache[i] \in Entries
    BY <1>1
  <1>3. /\ DOMAIN cache' = DOMAIN cache
        /\ \A i \in DOMAIN cache : cache'[i] =
              IF cache[i].copy \in cs THEN [cache[i] EXCEPT !.del = TRUE] ELSE cache[i]
        /\ cache' = [i \in 1 .. Len(cache) |-> cache'[i]]
    BY <1>2 DEF scheduleFileForDeletion
  <1>4. \A i \in DOMAIN cache :
            /\ cache'[i].copy = cache[i].copy /\ cache'[i].named = cache[i].named
            /\ cache'[i].del => cache[i].del \/ cache[i].copy \in cs
            /\ cache'[i] \in Entries
    BY <1>2, <1>3 DEF Entries
  <1>5. cache' \in Seq(Entries)
    BY <1>2, <1>3, <1>4
  <1>6. Distinct(cache') /\ \A c \in Copies : In(cache', c) <=> In(cache, c)
    <2>1. \A i \in DOMAIN cache : cache'[i].copy = cache[i].copy
      BY <1>4
    <2>2. Distinct(cache')
      BY <1>1, <1>3, <2>1 DEF Distinct
    <2>3. \A c \in Copies : In(cache', c) <=> In(cache, c)
      BY <1>3, <2>1 DEF In
    <2>4. QED BY <2>2, <2>3
  <1>7. /\ chosen' \in [Copies -> Nat]
        /\ \A c \in Copies : chosen'[c] = IF c \in cs /\ In(cache, c) /\ chosen[c] = 0
                                          THEN born[c] ELSE chosen[c]
    BY <1>1 DEF scheduleFileForDeletion
  <1>8. QED BY <1>3, <1>4, <1>5, <1>6, <1>7

\* Whether a copy has an entry: by its index.
LEMMA EntryIn ==
    ASSUME NEW s \in Seq(Entries), NEW i \in DOMAIN s
    PROVE  s[i] \in Entries /\ s[i].copy \in Copies /\ In(s, s[i].copy)
  <1>1. s[i] \in Entries
    OBVIOUS
  <1>2. QED BY <1>1 DEF Entries, In

-----------------------------------------------------------------------------
(* The steps that leave the files and the entries alone.                   *)

files == <<row, file, born, arch, newFiles, cache, rcache, chosen, lost>>

\* The parts of the invariant that say nothing of the thread.
LEMMA FilesAlone ==
    ASSUME CacheInv, UNCHANGED files
    PROVE  Ages' /\ Explained' /\ MarkedChosen' /\ MovedFresh' /\ RowBacked'
  BY DEF CacheInv, files, Ages, Explained, MarkedChosen, MovedFresh, RowBacked, In

\* The thread goes on to a step before the removals.
LEMMA QuietStep ==
    ASSUME CacheInv, UNCHANGED files, Shape', ~Removing',
           Starting' <=> Starting, pc = "add" => pc' = "add" /\ todo' = todo
    PROVE  CacheInv'
  <1>1. TodoChosen'
    BY DEF TodoChosen
  <1>2. Replaced'
    BY DEF Replaced, Removing
  <1>3. Unnamed'
    BY DEF CacheInv, Unnamed, files
  <1>4. Registered'
    BY DEF CacheInv, Registered, files, In, Starting
  <1>5. QED BY <1>1, <1>2, <1>3, <1>4, FilesAlone DEF CacheInv

\* The thread stays where it is.
LEMMA ThreadAlone ==
    ASSUME CacheInv, UNCHANGED <<files, pc, todo>>, Shape'
    PROVE  CacheInv'
  <1>1. TodoChosen' /\ Replaced' /\ Unnamed' /\ Registered'
    BY DEF CacheInv, files, TodoChosen, Replaced, Unnamed, Registered, In, Starting, Removing
  <1>2. QED BY <1>1, FilesAlone DEF CacheInv, files

\* An event is counted, or is none.
LEMMA Counted ==
    ASSUME Shape, NEW k, Event(k) \/ UNCHANGED events
    PROVE  events' \in 0 .. MaxEvents
  BY CacheConfig DEF Shape, TypeOK, Event

\* The shape is kept by the requests ...
LEMMA RequestsShape ==
    ASSUME Shape, NEW c \in Copies,
           \/ ArchiveMove(c) \/ ArchiveStore(c) \/ addEntryNewFilesDbm(c) \/ AddToCache
           \/ requestFileForDeletion(c) \/ Expire(c)
    PROVE  Shape'
  <1>1. CASE ArchiveMove(c)
    BY <1>1 DEF Shape, TypeOK, ArchiveMove, db, local, plug, ghost, Removing
  <1>2. CASE ArchiveStore(c)
    BY <1>2 DEF Shape, TypeOK, ArchiveStore, local, plug, ghost, Removing
  <1>3. CASE addEntryNewFilesDbm(c)
    BY <1>3 DEF Shape, TypeOK, addEntryNewFilesDbm, db, local, plug, ghost, Removing
  <1>4. CASE AddToCache
    BY <1>4, Counted DEF Shape, TypeOK, AddToCache, db, local, plug, ghost, Removing
  <1>5. CASE requestFileForDeletion(c)
    BY <1>5, Counted DEF Shape, TypeOK, requestFileForDeletion, arr, local, plug, ghost, Removing
  <1>6. CASE Expire(c)
    BY <1>6, Counted DEF Shape, TypeOK, Expire, db, arr, plug, ghost, Removing
  <1>7. QED BY <1>1, <1>2, <1>3, <1>4, <1>5, <1>6

\* ... by start-up and pauses ...
LEMMA StartShape ==
    ASSUME Shape, createCacheDbms \/ Crash \/ cacheControlThread
    PROVE  Shape'
  <1>1. CASE createCacheDbms
    <2>1. DOMAIN Empty = {}
      BY DEF Empty
    <2>2. IsFiniteSet(DOMAIN piDel')
      BY <1>1, <2>1, FS_EmptySet DEF createCacheDbms
    <2>3. QED BY <1>1, <2>2 DEF Shape, TypeOK, createCacheDbms, db, local, ghost, Removing
  <1>2. CASE Crash
    <2>1. pi' \in [PlugIns -> [pc : {"wait", "count", "add"}, copy : Copies \cup {None}, key : Nat]]
      BY <1>2 DEF Crash, Idle
    <2>2. events' \in 0 .. MaxEvents
      BY <1>2, Counted DEF Crash
    <2>3. arch' \in [Copies -> {"idle", "moved", "stored"}] /\ pc' = "create" /\ todo' = <<>>
      BY <1>2 DEF Crash
    <2>4. todo' \in Seq(Entries) /\ Range(todo') \subseteq Entries
      BY <2>3 DEF Range
    <2>5. QED BY <1>2, <2>1, <2>2, <2>3, <2>4 DEF Shape, TypeOK, Crash, db, local, ghost, Removing
  <1>3. CASE cacheControlThread
    BY <1>3, Counted DEF Shape, TypeOK, cacheControlThread, db, arr, local, plug, ghost, Removing
  <1>4. QED BY <1>1, <1>2, <1>3

\* ... and by the plug-in threads, which touch nothing else.
LEMMA PlugInShape ==
    ASSUME Shape, NEW t \in PlugIns, PlugIn(t)
    PROVE  Shape' /\ UNCHANGED <<files, pc, todo>>
  <1>1. UNCHANGED <<files, pc, todo>> /\ UNCHANGED <<avail, expired, asked, events>>
    BY DEF PlugIn, _cacheCtrlPlugInThread, IncKey, AddKey, files, db, arr, local, ghost
  <1> DEFINE Doing == [pc : {"wait", "count", "add"}, copy : Copies \cup {None}, key : Nat]
  <1>2. pi \in [PlugIns -> Doing] /\ piQueue \in Seq(Copies) /\ IsFiniteSet(DOMAIN piDel)
    BY DEF Shape, TypeOK
  <1>3. pi' \in [PlugIns -> Doing] /\ piQueue' \in Seq(Copies) /\ IsFiniteSet(DOMAIN piDel')
    <2>1. CASE _cacheCtrlPlugInThread(t)
      <3>1. piQueue # <<>> /\ Head(piQueue) \in Copies /\ piQueue' = Tail(piQueue) /\ Tail(piQueue) \in Seq(Copies)
        BY <2>1, <1>2 DEF _cacheCtrlPlugInThread, _getEntryCacheCtrlPlugInDbm
      <3>2. pi' \in [PlugIns -> Doing] /\ piDel' = piDel
        BY <2>1, <1>2, <3>1 DEF _cacheCtrlPlugInThread
      <3>3. QED BY <1>2, <3>1, <3>2
    <2>2. CASE IncKey(t)
      <3>1. Cardinality(DOMAIN piDel) + 1 \in Nat
        BY <1>2, FS_CardinalityType
      <3>2. QED BY <2>2, <3>1, <1>2 DEF IncKey
    <2>3. CASE AddKey(t)
      <3>1. DOMAIN piDel' = DOMAIN piDel \cup {pi[t].key}
        BY <2>3 DEF AddKey
      <3>2. IsFiniteSet(DOMAIN piDel')
        <4>1. IsFiniteSet(DOMAIN piDel \cup {pi[t].key})
          BY <1>2, FS_AddElement
        <4>2. QED BY <3>1, <4>1
      <3>3. QED BY <2>3, <3>2, <1>2 DEF AddKey, Idle
    <2>4. QED BY <2>1, <2>2, <2>3 DEF PlugIn
  <1>4. QED BY <1>1, <1>3 DEF Shape, TypeOK, files, Removing

-----------------------------------------------------------------------------
(* The requests.                                                           *)

\* What the invariant says of one copy, wherever the thread is.
LEMMA OfCopy ==
    ASSUME CacheInv, NEW c \in Copies
    PROVE  /\ row[c] \in Nat /\ file[c] \in Nat /\ born[c] \in Nat /\ chosen[c] \in Nat
           /\ arch[c] \in {"idle", "moved", "stored"}
           /\ row[c] <= born[c] /\ chosen[c] <= born[c]
           /\ c \in rcache \/ In(cache, c) => row[c] # 0 \/ chosen[c] # 0
           /\ arch[c] = "moved" =>
                 /\ row[c] = 0 /\ chosen[c] < born[c]
                 /\ file[c] = born[c] \/ c \in lost \/ chosen[c] \in 1 .. born[c] - 1
           /\ row[c] # 0 => file[c] = row[c] \/ c \in lost \/ chosen[c] \in 1 .. row[c] - 1
  BY DEF CacheInv, Shape, TypeOK, Ages, Explained, MovedFresh, RowBacked

\* The entry the thread is removing.
LEMMA HeadCopy ==
    ASSUME Shape, Removing
    PROVE  /\ todo \in Seq(Entries) /\ todo # <<>> /\ Head(todo) = todo[1] /\ 1 \in DOMAIN todo
           /\ Head(todo) \in Entries /\ Head(todo).copy \in Copies /\ Head(todo).named \in BOOLEAN
  <1>1. todo \in Seq(Entries) /\ todo # <<>>
    BY DEF Shape
  <1>2. Head(todo) = todo[1] /\ 1 \in DOMAIN todo /\ Head(todo) \in Entries
    BY <1>1
  <1>3. QED BY <1>1, <1>2 DEF Entries

\* A file goes to its place: under a version that has no row.
LEMMA MoveInv ==
    ASSUME CacheInv, NEW c \in Copies, ArchiveMove(c)
    PROVE  CacheInv'
  <1> USE OfCopy
  <1>1. Shape /\ Shape'
    BY RequestsShape DEF CacheInv
  <1>2. /\ born' = [born EXCEPT ![c] = @ + 1] /\ file' = [file EXCEPT ![c] = born[c] + 1]
        /\ arch' = [arch EXCEPT ![c] = "moved"] /\ arch[c] = "idle" /\ row[c] = 0
        /\ UNCHANGED <<row, rcache, newFiles, cache, pc, todo, chosen, lost>>
    BY <1>1 DEF ArchiveMove, db, local, ghost, Shape, TypeOK
  <1>3. /\ born \in [Copies -> Nat] /\ file \in [Copies -> Nat]
        /\ arch \in [Copies -> {"idle", "moved", "stored"}]
    BY <1>1 DEF Shape, TypeOK
  <1>4. /\ born'[c] = born[c] + 1 /\ file'[c] = born[c] + 1 /\ arch'[c] = "moved"
        /\ \A d \in Copies \ {c} : born'[d] = born[d] /\ file'[d] = file[d] /\ arch'[d] = arch[d]
    BY <1>2, <1>3
  <1>5. Ages' /\ Explained' /\ MarkedChosen' /\ TodoChosen' /\ Unnamed'
    BY <1>2, <1>4 DEF CacheInv, Ages, Explained, MarkedChosen, TodoChosen, Unnamed, In, Starting, Removing
  <1>6. MovedFresh' /\ RowBacked'
    BY <1>2, <1>4 DEF MovedFresh, RowBacked
  <1>7. Replaced'
    <2>1. CASE pc \in {"unlink", "drop"}
      <3>1. Head(todo).copy \in Copies
        BY <1>1, <2>1, HeadCopy DEF Removing
      <3>2. QED BY <1>2, <1>4, <3>1 DEF CacheInv, Replaced
    <2>2. CASE pc \notin {"unlink", "drop"}
      BY <2>2, <1>2 DEF Replaced
    <2>3. QED BY <2>1, <2>2
  <1>8. Registered'
    BY <1>2, <1>4 DEF CacheInv, Registered, In, Starting
  <1>9. QED BY <1>1, <1>5, <1>6, <1>7, <1>8 DEF CacheInv

\* Its row is written: it is younger than what was chosen under its version.
LEMMA StoreInv ==
    ASSUME CacheInv, NEW c \in Copies, ArchiveStore(c)
    PROVE  CacheInv'
  <1> USE OfCopy
  <1>1. Shape /\ Shape'
    BY RequestsShape DEF CacheInv
  <1>2. /\ row' = [row EXCEPT ![c] = born[c]] /\ arch' = [arch EXCEPT ![c] = "stored"] /\ arch[c] = "moved"
        /\ UNCHANGED <<file, born, rcache, newFiles, cache, pc, todo, chosen, lost>>
    BY DEF ArchiveStore, local, ghost
  <1>3. /\ row'[c] = born[c] /\ arch'[c] = "stored" /\ chosen[c] < born[c]
        /\ \A d \in Copies \ {c} : row'[d] = row[d] /\ arch'[d] = arch[d]
    BY <1>1, <1>2 DEF Shape, TypeOK
  <1>4. Ages' /\ Explained' /\ MarkedChosen' /\ TodoChosen'
    BY <1>2, <1>3 DEF CacheInv, Ages, Explained, MarkedChosen, TodoChosen, In, Removing
  <1>5. Unnamed'
    <2>1. \A i \in DOMAIN cache : cache[i].copy \in Copies
      BY <1>1, EntryIn DEF Shape
    <2>2. QED BY <1>2, <1>3, <2>1 DEF CacheInv, Unnamed, Starting
  <1>6. MovedFresh' /\ RowBacked'
    BY <1>2, <1>3 DEF MovedFresh, RowBacked
  <1>7. Replaced'
    <2>1. CASE pc \in {"unlink", "drop"}
      <3>1. Head(todo).copy \in Copies
        BY <1>1, <2>1, HeadCopy DEF Removing
      <3>2. QED BY <1>2, <1>3, <3>1 DEF CacheInv, Replaced
    <2>2. CASE pc \notin {"unlink", "drop"}
      BY <2>2, <1>2 DEF Replaced
    <2>3. QED BY <2>1, <2>2
  <1>8. Registered'
    BY <1>2, <1>3 DEF CacheInv, Registered, In, Starting
  <1>9. QED BY <1>1, <1>4, <1>5, <1>6, <1>7, <1>8 DEF CacheInv

\* A file is announced: by the request that stored it, or again.
LEMMA AnnounceInv ==
    ASSUME CacheInv, NEW c \in Copies, addEntryNewFilesDbm(c) \/ AddToCache
    PROVE  CacheInv'
  <1> USE OfCopy
  <1>1. Shape /\ Shape'
    BY RequestsShape DEF CacheInv
  <1>2. /\ newFiles \subseteq newFiles' /\ UNCHANGED <<row, file, born, rcache, cache, pc, todo, chosen, lost>>
        /\ \A d \in Copies : arch'[d] = arch[d] \/ (arch'[d] = "idle" /\ d \in newFiles')
    BY <1>1 DEF addEntryNewFilesDbm, AddToCache, db, local, ghost, Shape, TypeOK
  <1>3. Ages' /\ Explained' /\ MarkedChosen' /\ TodoChosen' /\ Unnamed'
    BY <1>2 DEF CacheInv, Ages, Explained, MarkedChosen, TodoChosen, In, Removing, Unnamed, Starting
  <1>4. MovedFresh' /\ RowBacked'
    BY <1>2 DEF MovedFresh, RowBacked
  <1>5. Replaced'
    <2>1. CASE pc \in {"unlink", "drop"}
      <3>1. Head(todo).copy \in Copies
        BY <1>1, <2>1, HeadCopy DEF Removing
      <3>2. QED BY <1>2, <3>1 DEF CacheInv, Replaced
    <2>2. CASE pc \notin {"unlink", "drop"}
      BY <2>2, <1>2 DEF Replaced
    <2>3. QED BY <2>1, <2>2
  <1>6. Registered'
    BY <1>2 DEF CacheInv, Registered, In, Starting
  <1>7. QED BY <1>1, <1>3, <1>4, <1>5, <1>6 DEF CacheInv

\* Files are scheduled, by CACHEDEL or by the thread.
LEMMA ScheduleInv ==
    ASSUME CacheInv, NEW cs, scheduleFileForDeletion(cs), Shape',
           UNCHANGED <<row, file, born, arch, newFiles, rcache, lost, todo>>,
           Starting' <=> Starting, Removing' => pc' = pc, pc = "add" => pc' = "add"
    PROVE  CacheInv'
  <1>1. /\ cache' \in Seq(Entries) /\ Distinct(cache') /\ DOMAIN cache' = DOMAIN cache
        /\ \A i \in DOMAIN cache :
              /\ cache'[i].copy = cache[i].copy /\ cache'[i].named = cache[i].named
              /\ cache'[i].del => cache[i].del \/ cache[i].copy \in cs
        /\ \A c \in Copies : In(cache', c) <=> In(cache, c)
        /\ \A c \in Copies : chosen'[c] = IF c \in cs /\ In(cache, c) /\ chosen[c] = 0
                                          THEN born[c] ELSE chosen[c]
    BY EntriesMarked DEF CacheInv
  <1>2. \A i \in DOMAIN cache : cache[i].copy \in Copies /\ In(cache, cache[i].copy)
    BY EntryIn DEF CacheInv, Shape
  <1>3. \A c \in Copies : /\ chosen[c] # 0 => chosen'[c] = chosen[c]
                          /\ chosen[c] = 0 /\ chosen'[c] # 0 => row[c] # 0 /\ chosen'[c] = born[c]
                          /\ In(cache, c) => born[c] # 0
                          /\ chosen'[c] \in Nat /\ chosen'[c] <= born[c]
    BY <1>1, OfCopy
  <1>4. Ages' /\ Explained' /\ RowBacked'
    BY <1>1, <1>3, OfCopy DEF Ages, Explained, RowBacked
  <1>5. MarkedChosen'
    BY <1>1, <1>2, <1>3 DEF CacheInv, MarkedChosen
  <1>6. TodoChosen'
    <2>1. CASE Removing'
      <3>1. Removing /\ todo \in Seq(Entries)
        BY <2>1 DEF Removing, CacheInv, Shape
      <3>2. \A i \in DOMAIN todo : todo[i].copy \in Copies
        BY <3>1, EntryIn
      <3>3. QED BY <3>1, <3>2, <1>3 DEF CacheInv, TodoChosen
    <2>2. QED BY <2>1 DEF TodoChosen
  <1>7. MovedFresh'
    BY <1>3, OfCopy DEF MovedFresh
  <1>8. Replaced'
    <2>1. CASE pc' \in {"unlink", "drop"}
      <3>1. pc' = pc /\ Removing
        BY <2>1 DEF Removing
      <3>2. Head(todo).copy \in Copies /\ chosen[Head(todo).copy] # 0
        BY <3>1, HeadCopy DEF CacheInv, TodoChosen
      <3>3. QED BY <3>1, <3>2, <1>3 DEF CacheInv, Replaced
    <2>2. QED BY <2>1 DEF Replaced
  <1>9. Unnamed'
    BY <1>1, <1>2, <1>3 DEF CacheInv, Unnamed
  <1>10. Registered'
    BY <1>1 DEF CacheInv, Registered, Starting
  <1>11. QED BY <1>4, <1>5, <1>6, <1>7, <1>8, <1>9, <1>10 DEF CacheInv

\* A marked cache keeps the type.
LEMMA ScheduleShape ==
    ASSUME Shape, NEW cs, scheduleFileForDeletion(cs)
    PROVE  /\ cache' \in Seq(Entries) /\ Range(cache') \subseteq Entries
           /\ \A i, j \in DOMAIN cache' : cache'[i].copy = cache'[j].copy => i = j
           /\ chosen' \in [Copies -> Nat]
  <1>1. cache' \in Seq(Entries) /\ Distinct(cache') /\ chosen' \in [Copies -> Nat]
    BY EntriesMarked
  <1>2. Range(cache') \subseteq Entries
    BY <1>1 DEF Range
  <1>3. QED BY <1>1, <1>2 DEF Distinct

\* CACHEDEL.
LEMMA CacheDelInv ==
    ASSUME CacheInv, NEW c \in Copies, cacheDel(c)
    PROVE  CacheInv'
  <1>1. Shape
    BY DEF CacheInv
  <1>2. scheduleFileForDeletion({c}) /\ events' \in 0 .. MaxEvents
    BY <1>1, Counted DEF cacheDel
  <1>3. asked' \in [Copies -> Nat]
    BY <1>1 DEF cacheDel, Shape, TypeOK
  <1>4. Shape'
    BY <1>1, <1>2, <1>3, ScheduleShape DEF cacheDel, Shape, TypeOK, Removing, db, arr, plug
  <1>5. QED BY <1>2, <1>4, ScheduleInv DEF cacheDel, db, arr, Starting, Removing

-----------------------------------------------------------------------------
(* The thread: start-up and new files.                                     *)

\* What the addition of entries does to the invariant: the copies have a row, or the
\* thread is starting and they come from the RDBMS.
LEMMA AddInv ==
    ASSUME CacheInv, NEW cs \in SUBSET Copies, NEW named \in BOOLEAN, NEW ok \in BOOLEAN,
           addEntriesInCacheDbms(cs, named, ok),
           \A c \in cs : c \in rcache \/ row[c] # 0,
           ~named => Starting'
    PROVE  /\ cache' \in Seq(Entries) /\ Distinct(cache') /\ Range(cache') \subseteq Entries
           /\ expired' \subseteq Copies /\ rcache' \subseteq Copies /\ events' \in 0 .. MaxEvents
           /\ \A c \in Copies : In(cache', c) <=> In(cache, c) \/ c \in cs
           /\ \A c \in Copies : c \in rcache' \/ In(cache', c) => row[c] # 0 \/ chosen[c] # 0
           /\ \A i \in DOMAIN cache' : cache'[i].del => chosen[cache'[i].copy] # 0
           /\ \A i \in DOMAIN cache' : \/ \E j \in DOMAIN cache : cache'[i] = cache[j]
                                       \/ cache'[i].named
                                       \/ chosen[cache'[i].copy] # 0
                                       \/ Starting' /\ row[cache'[i].copy] # 0
  <1>1. PICK new \in SetToSeqs({Entry(c, named) : c \in {d \in cs : ~In(cache, d)}}), ins \in SUBSET cs :
            /\ cache' = cache \o new /\ expired' = expired \ {c \in cs : ~In(cache, c)}
            /\ rcache' = rcache \cup ins /\ Db(ok /\ ins = cs)
    BY DEF addEntriesInCacheDbms
  <1>0. events' \in 0 .. MaxEvents
    BY <1>1, Counted DEF Db, CacheInv
  <1>2. cache \in Seq(Entries) /\ Distinct(cache) /\ expired \subseteq Copies /\ rcache \subseteq Copies
    BY DEF CacheInv, Shape, TypeOK, Distinct
  <1>3. /\ cache' \in Seq(Entries) /\ Distinct(cache')
        /\ \A c \in Copies : In(cache', c) <=> In(cache, c) \/ c \in cs
        /\ \A i \in DOMAIN cache' : \/ \E j \in DOMAIN cache : cache'[i] = cache[j]
                                    \/ \E c \in cs : ~In(cache, c) /\ cache'[i] = Entry(c, named)
    <2>1. new \in SetToSeqs(Fresh(cache, cs, named))
      BY <1>1 DEF Fresh
    <2>2. cache' = cache \o new
      BY <1>1
    <2>3. Added(cache, cs, named, cache')
      BY <1>2, <2>1, <2>2, EntriesAdded
    <2>4. QED BY <2>3 DEF Added
  <1>4. Range(cache') \subseteq Entries
    BY <1>3 DEF Range
  <1>5. \A c \in cs : row[c] # 0 \/ chosen[c] # 0
    BY OfCopy
  <1>6. \A c \in Copies : c \in rcache' \/ In(cache', c) => row[c] # 0 \/ chosen[c] # 0
    BY <1>1, <1>3, <1>5, OfCopy
  <1>7. \A c \in cs : Entry(c, named).copy = c /\ ~Entry(c, named).del /\ Entry(c, named).named = named
    BY DEF Entry
  <1>8. \A i \in DOMAIN cache' : cache'[i].del => chosen[cache'[i].copy] # 0
    BY <1>3, <1>7 DEF CacheInv, MarkedChosen
  <1>9. \A i \in DOMAIN cache' : \/ \E j \in DOMAIN cache : cache'[i] = cache[j]
                                 \/ cache'[i].named
                                 \/ chosen[cache'[i].copy] # 0
                                 \/ Starting' /\ row[cache'[i].copy] # 0
    BY <1>3, <1>5, <1>7
  <1>10. QED BY <1>0, <1>1, <1>2, <1>3, <1>4, <1>6, <1>8, <1>9

\* The DBMs are created anew.
LEMMA CreateInv ==
    ASSUME CacheInv, createCacheDbms
    PROVE  CacheInv'
  <1>1. Shape' /\ Starting /\ Starting' /\ ~Removing' /\ pc' = "adopt"
        /\ UNCHANGED <<row, file, born, arch, cache, rcache, chosen, lost>>
    BY StartShape DEF CacheInv, createCacheDbms, Starting, Removing, db, local, ghost
  <1>2. Ages' /\ Explained' /\ MarkedChosen' /\ MovedFresh' /\ RowBacked'
    BY <1>1 DEF CacheInv, Ages, Explained, MarkedChosen, MovedFresh, RowBacked, In
  <1>3. TodoChosen' /\ Replaced' /\ Registered'
    BY <1>1 DEF TodoChosen, Replaced, Registered
  <1>4. Unnamed'
    BY <1>1 DEF CacheInv, Unnamed
  <1>5. QED BY <1>1, <1>2, <1>3, <1>4 DEF CacheInv

\* The server dies.
LEMMA CrashInv ==
    ASSUME CacheInv, Crash
    PROVE  CacheInv'
  <1>1. Shape' /\ Starting' /\ ~Removing' /\ pc' = "create"
        /\ UNCHANGED <<row, file, born, cache, rcache, chosen, lost>>
        /\ arch' = [c \in Copies |-> "idle"]
    BY StartShape DEF CacheInv, Crash, Starting, Removing, db, local, ghost
  <1>2. Ages' /\ Explained' /\ MarkedChosen' /\ MovedFresh' /\ RowBacked'
    BY <1>1 DEF CacheInv, Ages, Explained, MarkedChosen, MovedFresh, RowBacked, In
  <1>3. TodoChosen' /\ Replaced' /\ Registered'
    BY <1>1 DEF TodoChosen, Replaced, Registered
  <1>4. Unnamed'
    BY <1>1 DEF CacheInv, Unnamed
  <1>5. QED BY <1>1, <1>2, <1>3, <1>4 DEF CacheInv

\* Entries of the RDBMS are taken over; they may have no filename.
LEMMA AdoptInv ==
    ASSUME CacheInv, AdoptEntries
    PROVE  CacheInv'
  <1>1. /\ pc' \in {"scan", "dead"} /\ Starting /\ Starting' /\ ~Removing'
        /\ UNCHANGED <<row, avail, file, born, arch, newFiles, todo, piQueue, piDel, pi, asked, chosen, lost>>
    BY DEF AdoptEntries, Starting, Removing, arr, plug, ghost
  <1>0. PICK cs \in SUBSET rcache : addEntriesInCacheDbms(cs, FALSE, pc' = "scan")
    BY DEF AdoptEntries
  <1>2. Shape /\ rcache \in SUBSET Copies /\ cs \in SUBSET Copies
    BY <1>0 DEF CacheInv, Shape, TypeOK
  <1>3. /\ cache' \in Seq(Entries) /\ Distinct(cache') /\ Range(cache') \subseteq Entries
        /\ expired' \subseteq Copies /\ rcache' \subseteq Copies /\ events' \in 0 .. MaxEvents
        /\ \A c \in Copies : c \in rcache' \/ In(cache', c) => row[c] # 0 \/ chosen[c] # 0
        /\ \A i \in DOMAIN cache' : cache'[i].del => chosen[cache'[i].copy] # 0
        /\ \A i \in DOMAIN cache' : \/ \E j \in DOMAIN cache : cache'[i] = cache[j]
                                    \/ cache'[i].named
                                    \/ chosen[cache'[i].copy] # 0
                                    \/ Starting' /\ row[cache'[i].copy] # 0
    <2>1. (pc' = "scan") \in BOOLEAN /\ FALSE \in BOOLEAN /\ \A c \in cs : c \in rcache
      BY <1>0
    <2>2. QED BY <1>0, <1>1, <1>2, <2>1, AddInv
  <1>4. Shape'
    BY <1>1, <1>2, <1>3 DEF Shape, TypeOK, Distinct
  <1>5. Ages' /\ MovedFresh' /\ RowBacked'
    BY <1>1 DEF CacheInv, Ages, MovedFresh, RowBacked
  <1>6. Explained' /\ MarkedChosen'
    BY <1>1, <1>3 DEF Explained, MarkedChosen
  <1>7. Unnamed'
    BY <1>1, <1>3 DEF CacheInv, Unnamed
  <1>8. TodoChosen' /\ Replaced' /\ Registered'
    BY <1>1 DEF TodoChosen, Replaced, Registered
  <1>9. QED BY <1>4, <1>5, <1>6, <1>7, <1>8 DEF CacheInv

\* The rows of ngas_files are gone through.
LEMMA ScanInv ==
    ASSUME CacheInv, initCacheArchive
    PROVE  CacheInv'
  <1>1. /\ pc = "scan" /\ pc' \in {"new", "dead"} /\ Starting /\ ~Removing' /\ (Starting' <=> pc' = "dead")
        /\ UNCHANGED <<row, avail, file, born, arch, newFiles, todo, piQueue, piDel, pi, asked, chosen, lost>>
    BY DEF initCacheArchive, Starting, Removing, arr, plug, ghost
  <1>a. PICK cs \in SUBSET {c \in Copies : row[c] # 0}, half \in SUBSET Copies :
            /\ pc' = "new" => cs = {c \in Copies : row[c] # 0} /\ half = {}
            /\ \E new \in SetToSeqs({Entry(c, TRUE) : c \in {d \in cs : ~In(cache, d)}}),
                  ins \in SUBSET cs :
                  /\ cache' = [i \in DOMAIN cache |-> Filled(cache[i], cs, half)] \o new
                  /\ rcache' = rcache \cup ins
                  /\ expired' = expired \ {e.copy : e \in Range(new)}
                  /\ Db(pc' = "new" /\ ins = {e.copy : e \in Range(new)})
    BY DEF initCacheArchive
  <1> DEFINE known == [i \in DOMAIN cache |-> Filled(cache[i], cs, half)]
  <1>2. PICK new \in SetToSeqs({Entry(c, TRUE) : c \in {d \in cs : ~In(cache, d)}}), ins \in SUBSET cs :
            /\ cache' = known \o new /\ rcache' = rcache \cup ins
            /\ expired' = expired \ {e.copy : e \in Range(new)}
            /\ Db(pc' = "new" /\ ins = {e.copy : e \in Range(new)})
    BY <1>a
  <1>b. events' \in 0 .. MaxEvents
    BY <1>2, Counted DEF Db, CacheInv
  <1>3. Shape /\ cache \in Seq(Entries) /\ Distinct(cache) /\ rcache \subseteq Copies /\ expired \subseteq Copies
    BY DEF CacheInv, Shape, TypeOK, Distinct
  <1>4. \A i \in DOMAIN cache : cache[i] \in Entries /\ cache[i].copy \in Copies
    BY <1>3, EntryIn
  <1>5. /\ DOMAIN known = DOMAIN cache
        /\ \A i \in DOMAIN cache :
              /\ known[i] \in Entries /\ known[i].copy = cache[i].copy /\ (known[i].del <=> cache[i].del)
              /\ known[i].named <=> cache[i].copy \in cs \cup half \/ cache[i].named
    <2> SUFFICES ASSUME NEW i \in DOMAIN cache
                 PROVE  /\ known[i] \in Entries /\ known[i].copy = cache[i].copy /\ (known[i].del <=> cache[i].del)
                        /\ known[i].named <=> cache[i].copy \in cs \cup half \/ cache[i].named
      OBVIOUS
    <2>1. known[i] = Filled(cache[i], cs, half)
      OBVIOUS
    <2>2. CASE cache[i].copy \in cs \cup half /\ ~cache[i].named
      <3>1. known[i] = [cache[i] EXCEPT !.named = TRUE, !.obj = cache[i].copy \in cs]
        BY <2>1, <2>2 DEF Filled
      <3>2. (cache[i].copy \in cs) \in BOOLEAN
        OBVIOUS
      <3>3. PICK o \in BOOLEAN : known[i] = [cache[i] EXCEPT !.named = TRUE, !.obj = o]
        BY <3>1, <3>2
      <3>4. QED BY <1>4, <2>2, <3>3 DEF Entries
    <2>3. CASE ~(cache[i].copy \in cs \cup half /\ ~cache[i].named)
      <3>1. known[i] = cache[i]
        BY <2>1, <2>3 DEF Filled
      <3>2. QED BY <1>4, <2>3, <3>1 DEF Entries
    <2>4. QED BY <2>2, <2>3
  <1>6. known \in Seq(Entries)
    <2>1. known \in [1 .. Len(cache) -> Entries] /\ Len(cache) \in Nat
      <3>1. DOMAIN cache = 1 .. Len(cache) /\ Len(cache) \in Nat
        BY <1>3
      <3>2. known = [i \in 1 .. Len(cache) |-> known[i]]
        BY <3>1
      <3> HIDE DEF known
      <3>3. QED BY <3>1, <3>2, <1>5
    <2>2. QED BY <2>1
  <1> HIDE DEF known
  <1>7. Distinct(known) /\ \A c \in Copies : In(known, c) <=> In(cache, c)
    BY <1>3, <1>5 DEF Distinct, In
  <1>8. {d \in cs : ~In(cache, d)} = {d \in cs : ~In(known, d)}
    BY <1>7
  <1>9. /\ cache' \in Seq(Entries) /\ Distinct(cache')
        /\ \A c \in Copies : In(cache', c) <=> In(known, c) \/ c \in cs
        /\ \A i \in DOMAIN cache' : \/ \E j \in DOMAIN known : cache'[i] = known[j]
                                    \/ \E c \in cs : ~In(known, c) /\ cache'[i] = Entry(c, TRUE)
        /\ {e.copy : e \in Range(new)} = {d \in cs : ~In(known, d)}
    <2>1. new \in SetToSeqs(Fresh(known, cs, TRUE)) /\ cs \in SUBSET Copies
      BY <1>8 DEF Fresh
    <2>2. cache' = known \o new /\ Distinct(known) /\ TRUE \in BOOLEAN
      BY <1>2, <1>7
    <2>3. Added(known, cs, TRUE, cache') /\ {e.copy : e \in Range(new)} = {d \in cs : ~In(known, d)}
      BY <2>1, <2>2, <1>6, EntriesAdded
    <2>4. QED BY <2>3 DEF Added
  <1>10. Range(cache') \subseteq Entries /\ rcache' \subseteq Copies /\ expired' \subseteq Copies
    BY <1>2, <1>3, <1>9 DEF Range
  <1>11. Shape'
    BY <1>1, <1>3, <1>9, <1>10, <1>b DEF Shape, TypeOK, Distinct
  <1>12. Ages' /\ MovedFresh' /\ RowBacked'
    BY <1>1 DEF CacheInv, Ages, MovedFresh, RowBacked
  <1>13. Explained'
    BY <1>1, <1>2, <1>7, <1>9, OfCopy DEF Explained
  <1>14. \A c \in cs : Entry(c, TRUE).copy = c /\ ~Entry(c, TRUE).del /\ Entry(c, TRUE).named
    BY DEF Entry
  <1>15. MarkedChosen'
    <2>1. \A i \in DOMAIN cache' : cache'[i].del =>
              \E j \in DOMAIN cache : cache'[i].copy = cache[j].copy /\ cache[j].del
      BY <1>5, <1>9, <1>14
    <2>2. QED BY <1>1, <2>1 DEF CacheInv, MarkedChosen
  <1>16. Unnamed'
    <2> SUFFICES ASSUME NEW i \in DOMAIN cache', ~cache'[i].named
                 PROVE  chosen[cache'[i].copy] # 0 \/ (Starting' /\ row[cache'[i].copy] # 0)
      BY <1>1 DEF Unnamed
    <2>1. PICK j \in DOMAIN cache : cache'[i] = known[j]
      BY <1>5, <1>9, <1>14
    <2>2. /\ cache'[i].copy = cache[j].copy /\ ~(cache[j].copy \in cs) /\ ~cache[j].named
          /\ cache[j].copy \in Copies
      BY <1>4, <1>5, <2>1
    <2>3. chosen[cache[j].copy] # 0 \/ row[cache[j].copy] # 0
      BY <2>2 DEF CacheInv, Unnamed
    <2>4. pc' = "new" => row[cache[j].copy] = 0
      BY <1>a, <2>2
    <2>5. QED BY <1>1, <2>2, <2>3, <2>4
  <1>17. Registered'
    BY <1>1, <1>a, <1>9 DEF Registered
  <1>18. TodoChosen' /\ Replaced'
    BY <1>1 DEF TodoChosen, Replaced
  <1>19. QED BY <1>11, <1>12, <1>13, <1>15, <1>16, <1>17, <1>18 DEF CacheInv

\* The thread takes an announcement out ...
LEMMA NextNewInv ==
    ASSUME CacheInv, getEntryNewFilesDbm
    PROVE  CacheInv'
  <1>1. /\ pc = "new" /\ ~Starting /\ ~Starting' /\ ~Removing'
        /\ UNCHANGED <<row, avail, file, born, arch, cache, rcache, expired, piQueue, piDel, pi, asked, chosen, lost, events>>
    BY DEF getEntryNewFilesDbm, Starting, Removing, db, local, plug, ghost
  <1>2. \/ newFiles' = newFiles /\ pc' = "time" /\ todo' = todo
        \/ \E c \in newFiles : newFiles' = newFiles \ {c} /\ pc' = "add" /\ todo' = <<Entry(c, TRUE)>>
    BY DEF getEntryNewFilesDbm
  <1>3. Shape /\ newFiles \subseteq Copies
    BY DEF CacheInv, Shape, TypeOK
  <1>4. todo' \in Seq(Entries) /\ Range(todo') \subseteq Entries /\ (pc' = "add" => todo' # <<>>)
    <2>1. \A c \in newFiles : Entry(c, TRUE) \in Entries
      BY <1>3 DEF Entry, Entries
    <2>2. todo \in Seq(Entries) /\ \A e \in Entries : <<e>> \in Seq(Entries) /\ <<e>> # <<>>
      BY <1>3 DEF Shape
    <2>3. todo' \in Seq(Entries) /\ (pc' = "add" => todo' # <<>>)
      BY <1>2, <2>1, <2>2
    <2>4. QED BY <2>3 DEF Range
  <1>5. Shape'
    BY <1>1, <1>2, <1>3, <1>4 DEF Shape, TypeOK
  <1>6. Ages' /\ Explained' /\ MarkedChosen' /\ MovedFresh' /\ RowBacked'
    BY <1>1 DEF CacheInv, Ages, Explained, MarkedChosen, MovedFresh, RowBacked, In
  <1>7. TodoChosen' /\ Replaced'
    BY <1>1, <1>2 DEF TodoChosen, Replaced
  <1>8. Unnamed'
    BY <1>1 DEF CacheInv, Unnamed
  <1>9. Registered'
    <2>1. \A c \in newFiles \ newFiles' : pc' = "add" /\ todo'[1].copy = c
      BY <1>2 DEF Entry
    <2>2. QED BY <1>1, <2>1 DEF CacheInv, Registered, Starting, In
  <1>10. QED BY <1>5, <1>6, <1>7, <1>8, <1>9 DEF CacheInv

\* ... and enters the file, if it still has a row.
LEMMA CheckNewInv ==
    ASSUME CacheInv, checkNewFilesDbm
    PROVE  CacheInv'
  <1> DEFINE c == todo[1].copy
  <1>1. /\ pc = "add" /\ ~Starting /\ ~Starting'
        /\ UNCHANGED <<row, avail, file, born, arch, newFiles, piQueue, piDel, pi, asked, chosen>>
    BY DEF checkNewFilesDbm, Fails, Starting, arr, plug
  <1>2. Shape /\ todo \in Seq(Entries) /\ todo # <<>>
    BY <1>1 DEF CacheInv, Shape
  <1>3. todo[1] \in Entries /\ c \in Copies
    <2>1. todo[1] \in Entries
      BY <1>2
    <2>2. QED BY <2>1 DEF Entries
  <1>4. todo' = <<>> /\ todo' \in Seq(Entries) /\ Range(todo') \subseteq Entries
    <2>1. todo' = <<>>
      BY DEF checkNewFilesDbm, Fails
    <2>2. QED BY <2>1 DEF Range
  <1>5. CASE row[c] # 0 /\ addEntriesInCacheDbms({c}, TRUE, TRUE) /\ pc' = "new" /\ UNCHANGED lost
    <2>1. /\ cache' \in Seq(Entries) /\ Distinct(cache') /\ Range(cache') \subseteq Entries
          /\ expired' \subseteq Copies /\ rcache' \subseteq Copies /\ events' \in 0 .. MaxEvents
          /\ \A d \in Copies : In(cache', d) <=> In(cache, d) \/ d \in {c}
          /\ \A d \in Copies : d \in rcache' \/ In(cache', d) => row[d] # 0 \/ chosen[d] # 0
          /\ \A i \in DOMAIN cache' : cache'[i].del => chosen[cache'[i].copy] # 0
          /\ \A i \in DOMAIN cache' : \/ \E j \in DOMAIN cache : cache'[i] = cache[j]
                                      \/ cache'[i].named
                                      \/ chosen[cache'[i].copy] # 0
                                      \/ Starting' /\ row[cache'[i].copy] # 0
      <3>1. {c} \in SUBSET Copies /\ \A d \in {c} : d \in rcache \/ row[d] # 0
        BY <1>3, <1>5
      <3>2. addEntriesInCacheDbms({c}, TRUE, TRUE) /\ TRUE \in BOOLEAN
        BY <1>5
      <3> HIDE DEF c
      <3>3. QED BY <3>1, <3>2, AddInv
    <2> HIDE DEF c
    <2>2. Shape'
      BY <1>1, <1>2, <1>4, <1>5, <2>1 DEF Shape, TypeOK, Distinct, Removing
    <2>3. Ages' /\ MovedFresh' /\ RowBacked'
      BY <1>1, <1>5 DEF CacheInv, Ages, MovedFresh, RowBacked
    <2>4. Explained' /\ MarkedChosen' /\ Unnamed'
      BY <1>1, <2>1 DEF CacheInv, Explained, MarkedChosen, Unnamed
    <2>5. TodoChosen' /\ Replaced'
      BY <1>5 DEF TodoChosen, Replaced, Removing
    <2>6. Registered'
      BY <1>1, <1>5, <2>1 DEF CacheInv, Registered, c
    <2>7. QED BY <2>2, <2>3, <2>4, <2>5, <2>6 DEF CacheInv
  <1>6. CASE /\ pc' = "pause" /\ lost \subseteq lost' /\ lost' \subseteq lost \cup {c} /\ (row[c] = 0 \/ c \in lost')
             /\ UNCHANGED <<cache, expired, rcache>> /\ events' \in 0 .. MaxEvents
    <2> HIDE DEF c
    <2>1. Shape'
      BY <1>1, <1>2, <1>3, <1>4, <1>6 DEF Shape, TypeOK, Removing
    <2>2. Ages' /\ MovedFresh' /\ RowBacked'
      BY <1>1, <1>6 DEF CacheInv, Ages, MovedFresh, RowBacked
    <2>3. Explained' /\ MarkedChosen' /\ Unnamed'
      BY <1>1, <1>6 DEF CacheInv, Explained, MarkedChosen, Unnamed, In
    <2>4. TodoChosen' /\ Replaced'
      BY <1>6 DEF TodoChosen, Replaced, Removing
    <2>5. Registered'
      BY <1>1, <1>6 DEF CacheInv, Registered, c, In
    <2>6. QED BY <2>1, <2>2, <2>3, <2>4, <2>5 DEF CacheInv
  <1>7. QED
    <2>1. CASE row[c] # 0 /\ addEntriesInCacheDbms({c}, TRUE, TRUE) /\ pc' = "new" /\ todo' = <<>> /\ UNCHANGED lost
      BY <1>5, <2>1
    <2>2. CASE row[c] = 0 /\ Fails({}) /\ UNCHANGED <<local, rcache, events>>
      <3>1. events' \in 0 .. MaxEvents
        BY <2>2, <1>2, Counted
      <3>2. QED BY <1>6, <2>2, <3>1 DEF Fails, local
    <2>3. CASE Event("db") /\ Fails({c}) /\ UNCHANGED <<local, rcache>>
      <3>1. events' \in 0 .. MaxEvents
        BY <2>3, <1>2, Counted
      <3>2. QED BY <1>6, <2>3, <3>1 DEF Fails, local
    <2>4. QED BY <2>1, <2>2, <2>3 DEF checkNewFilesDbm

-----------------------------------------------------------------------------
(* The thread: which files have to go.                                     *)

\* The three criteria.
LEMMA SelectsInv ==
    ASSUME CacheInv, SelectExpired \/ SelectTooMuch \/ SelectTooMany
    PROVE  CacheInv'
  <1>1. ASSUME NEW from \in {"time", "size", "files"}, NEW to \in {"size", "files", "select", "queue"}, NEW cs,
               Selects(from, to, cs)
        PROVE  CacheInv'
    <2>1. /\ pc = from /\ pc' \in {to, "pause"} /\ ~Starting /\ ~Starting' /\ ~Removing' /\ pc # "add" /\ pc' # "add"
          /\ UNCHANGED <<row, avail, rcache, file, born, arch, newFiles, expired, todo, piQueue, piDel, pi, asked, lost>>
      BY <1>1 DEF Selects, Starting, Removing, db, arr, plug
    <2>2. Shape /\ events' \in 0 .. MaxEvents
      BY <1>1, Counted DEF Selects, CacheInv
    <2>3. PICK ds : scheduleFileForDeletion(ds)
      BY <1>1 DEF Selects
    <2>4. Shape'
      BY <2>1, <2>2, <2>3, ScheduleShape DEF Shape, TypeOK
    <2>5. QED BY <2>1, <2>3, <2>4, ScheduleInv
  <1>2. CASE SelectExpired
    BY <1>1, <1>2 DEF SelectExpired
  <1>3. CASE SelectTooMuch
    BY <1>1, <1>3 DEF SelectTooMuch
  <1>4. CASE SelectTooMany
    BY <1>1, <1>4 DEF SelectTooMany
  <1>5. QED BY <1>2, <1>3, <1>4

\* The entries go to the plug-ins ...
LEMMA QueueInv ==
    ASSUME CacheInv, _addEntryCacheCtrlPlugInDbm
    PROVE  CacheInv'
  <1> DEFINE bad == {i \in DOMAIN cache : ~cache[i].obj}
             n == IF bad = {} THEN Len(cache) ELSE (CHOOSE i \in bad : \A j \in bad : i <= j) - 1
             q == [i \in 1 .. n |-> cache[i].copy]
  <1>1. Shape /\ cache \in Seq(Entries) /\ piQueue \in Seq(Copies)
    BY DEF CacheInv, Shape
  <1>2. Len(cache) \in Nat /\ DOMAIN cache = 1 .. Len(cache) /\ \A i \in DOMAIN cache : cache[i].copy \in Copies
    BY <1>1, EntryIn
  <1>3. n \in 0 .. Len(cache)
    <2>1. CASE bad # {}
      <3>1. bad \in SUBSET Nat
        BY <1>2
      <3>2. \E i \in bad : \A j \in bad : i <= j
        BY <2>1, <3>1, LeastIndex
      <3>3. (CHOOSE i \in bad : \A j \in bad : i <= j) \in bad
        BY <3>2
      <3>4. QED BY <2>1, <3>3, <1>2
    <2>2. QED BY <2>1, <1>2
  <1> HIDE DEF n
  <1>4. q \in Seq(Copies)
    BY <1>2, <1>3
  <1>5. piQueue' = piQueue \o q
    BY DEF _addEntryCacheCtrlPlugInDbm, n
  <1>6. piQueue' \in Seq(Copies)
    BY <1>1, <1>4, <1>5
  <1>7. /\ UNCHANGED <<files, avail, expired, todo, piDel, pi, asked, events>>
        /\ pc = "queue" /\ pc' \in {"plugins", "pause"}
    BY DEF _addEntryCacheCtrlPlugInDbm, files, db, arr, local, ghost
  <1>8. Shape'
    BY <1>1, <1>6, <1>7 DEF Shape, TypeOK, files, Removing
  <1>9. QED BY <1>7, <1>8, QuietStep DEF Starting, Removing

\* ... and their decisions are applied.
LEMMA DecideInv ==
    ASSUME CacheInv, _getCountCacheCtrlPlugInDbm \/ ApplyDecisions
    PROVE  CacheInv'
  <1>1. Shape
    BY DEF CacheInv
  <1>2. CASE _getCountCacheCtrlPlugInDbm
    <2>1. UNCHANGED <<files, avail, expired, todo, piQueue, piDel, pi, asked, events>> /\ pc = "plugins" /\ pc' = "decide"
      BY <1>2 DEF _getCountCacheCtrlPlugInDbm, files, db, arr, local, plug, ghost
    <2>2. Shape'
      BY <1>1, <2>1 DEF Shape, TypeOK, files, Removing
    <2>3. QED BY <2>1, <2>2, QuietStep DEF Starting, Removing
  <1>3. CASE ApplyDecisions
    <2>1. /\ UNCHANGED <<row, avail, rcache, file, born, arch, newFiles, expired, todo, piQueue, pi, asked, lost, events>>
          /\ pc = "decide"
      BY <1>3 DEF ApplyDecisions, db, arr
    <2>2. ASSUME NEW k \in DOMAIN piDel, scheduleFileForDeletion({piDel[k]}), piDel' = Less(piDel, k), pc' = pc
          PROVE  CacheInv'
      <3>1. IsFiniteSet(DOMAIN piDel')
        <4>1. DOMAIN piDel' = DOMAIN piDel \ {k}
          BY <2>2 DEF Less
        <4>2. IsFiniteSet(DOMAIN piDel \ {k})
          BY <1>1, FS_RemoveElement DEF Shape
        <4>3. QED BY <4>1, <4>2
      <3>2. Shape'
        BY <1>1, <2>1, <2>2, <3>1, ScheduleShape DEF Shape, TypeOK, Removing
      <3>3. QED BY <2>1, <2>2, <3>2, ScheduleInv DEF Starting, Removing
    <2>3. CASE pc' = "select" /\ UNCHANGED <<piDel, cache, chosen>>
      <3>1. Shape'
        BY <1>1, <2>1, <2>3 DEF Shape, TypeOK, Removing
      <3>2. QED BY <2>1, <2>3, <3>1, QuietStep DEF Starting, Removing, files
    <2>4. QED BY <1>3, <2>2, <2>3 DEF ApplyDecisions
  <1>4. QED BY <1>2, <1>3

-----------------------------------------------------------------------------
(* The thread: the removals.                                               *)

\* The marked entries are picked up.
LEMMA SelectInv ==
    ASSUME CacheInv, SelectScheduled
    PROVE  CacheInv'
  <1>1. /\ UNCHANGED <<files, avail, expired, piQueue, piDel, pi, asked, events>>
        /\ pc = "select" /\ pc' = (IF todo' = <<>> THEN "pause" ELSE "row") /\ todo' \in SetToSeqs(Scheduled)
    BY DEF SelectScheduled, files, db, arr, local, plug, ghost
  <1>2. Shape /\ cache \in Seq(Entries)
    BY DEF CacheInv, Shape
  <1>3. IsFiniteSet(Scheduled)
    <2>1. IsFiniteSet(DOMAIN cache)
      <3>1. Len(cache) \in Nat /\ DOMAIN cache = 1 .. Len(cache)
        BY <1>2
      <3>2. QED BY <3>1, FS_Interval
    <2>2. cache \in Surjection(DOMAIN cache, Range(cache))
      BY <1>2 DEF Surjection, Range
    <2>3. IsFiniteSet(Range(cache))
      BY <2>1, <2>2, FS_Surjection
    <2>4. QED BY <2>3, FS_Subset DEF Scheduled
  <1>4. todo' \in Seq(Scheduled)
    BY <1>1, <1>3, Orders
  <1>5. /\ Scheduled \subseteq Entries
        /\ \A e \in Scheduled : chosen[e.copy] # 0
    BY <1>2 DEF Scheduled, Range, CacheInv, MarkedChosen
  <1>6. todo' \in Seq(Entries) /\ Range(todo') \subseteq Entries /\ \A i \in DOMAIN todo' : chosen[todo'[i].copy] # 0
    <2>1. \A i \in DOMAIN todo' : todo'[i] \in Scheduled
      BY <1>4
    <2>2. todo' \in Seq(Entries)
      BY <1>4, <1>5
    <2>3. QED BY <2>1, <2>2, <1>5 DEF Range
  <1>7. Shape'
    BY <1>1, <1>2, <1>6 DEF Shape, TypeOK, files, Removing
  <1>8. TodoChosen' /\ Replaced'
    BY <1>1, <1>6 DEF TodoChosen, Replaced, files
  <1>9. Unnamed' /\ Registered'
    BY <1>1 DEF CacheInv, Unnamed, Registered, files, Starting, In
  <1>10. QED BY <1>1, <1>7, <1>8, <1>9, FilesAlone DEF CacheInv

\* The row goes, unless the statement fails.
LEMMA DeleteRowInv ==
    ASSUME CacheInv, deleteFileInfo
    PROVE  CacheInv'
  <1> DEFINE c == Head(todo).copy
  <1>1. /\ pc = "row" /\ pc' = "unlink" /\ ~Starting /\ ~Starting' /\ Removing
        /\ UNCHANGED <<rcache, file, born, arch, newFiles, cache, expired, todo, piQueue, piDel, pi, asked, chosen>>
    BY DEF deleteFileInfo, Starting, Removing, arr, local, plug
  <1>2. Shape /\ todo # <<>> /\ c \in Copies /\ chosen[c] # 0
    BY <1>1, HeadCopy DEF CacheInv, TodoChosen
  <1>3. \/ row' = [row EXCEPT ![c] = 0] /\ avail' \subseteq avail /\ lost' = lost
        \/ row' = row /\ avail' = avail /\ lost' = lost \cup {c}
    BY DEF deleteFileInfo
  <1>4. events' \in 0 .. MaxEvents
    BY <1>2, Counted DEF deleteFileInfo
  <1> HIDE DEF c
  <1>5. /\ row' \in [Copies -> Nat] /\ lost \subseteq lost' /\ lost' \subseteq Copies
        /\ row'[c] = 0 \/ c \in lost'
        /\ \A d \in Copies : row'[d] = row[d] \/ (d = c /\ row'[d] = 0)
    BY <1>2, <1>3 DEF Shape, TypeOK
  <1>6. Shape'
    BY <1>1, <1>2, <1>3, <1>4, <1>5 DEF Shape, TypeOK
  <1>7. Ages' /\ Explained' /\ MovedFresh' /\ RowBacked'
    <2>1. \A d \in Copies : In(cache', d) <=> In(cache, d)
      BY <1>1 DEF In
    <2>2. QED BY <1>1, <1>2, <1>5, <2>1, OfCopy DEF Ages, Explained, MovedFresh, RowBacked
  <1>8. MarkedChosen' /\ TodoChosen' /\ Unnamed'
    BY <1>1 DEF CacheInv, MarkedChosen, TodoChosen, Unnamed, Removing
  <1>9. Replaced'
    BY <1>1, <1>5 DEF Replaced, c
  <1>10. Registered'
    BY <1>1, <1>5 DEF CacheInv, Registered, Starting, In
  <1>11. QED BY <1>6, <1>7, <1>8, <1>9, <1>10 DEF CacheInv

\* The file goes, or the whole volume.
LEMMA RemoveInv ==
    ASSUME CacheInv, removeFile
    PROVE  CacheInv'
  <1> DEFINE c == Head(todo).copy
  <1>1. /\ pc = "unlink" /\ pc' = "drop" /\ ~Starting /\ ~Starting' /\ Removing
        /\ UNCHANGED <<row, avail, rcache, born, arch, newFiles, cache, expired, todo, piQueue, piDel, pi, asked, chosen, events>>
        /\ file' = [d \in Copies |-> IF ~Head(todo).named \/ d = c THEN 0 ELSE file[d]]
        /\ lost' = IF Head(todo).named THEN lost ELSE lost \cup {d \in Copies : file[d] # 0}
    BY DEF removeFile, Starting, Removing, db, arr, local, plug
  <1>2. Shape /\ todo # <<>> /\ c \in Copies /\ chosen[c] # 0
    BY <1>1, HeadCopy DEF CacheInv, TodoChosen
  <1>3. c \in lost \/ row[c] = 0 \/ (chosen[c] < row[c] /\ (arch[c] = "stored" \/ c \in newFiles))
    BY <1>1 DEF CacheInv, Replaced
  <1>4. /\ file' \in [Copies -> Nat] /\ lost \subseteq lost' /\ lost' \subseteq Copies
        /\ \A d \in Copies : file'[d] = file[d] \/ d \in lost' \/ d = c
    BY <1>1, <1>2 DEF Shape, TypeOK
  <1> HIDE DEF c
  <1>5. Shape'
    BY <1>1, <1>2, <1>4 DEF Shape, TypeOK
  <1>6. MovedFresh' /\ RowBacked'
    <2> SUFFICES ASSUME NEW d \in Copies
                 PROVE  /\ arch[d] = "moved" =>
                              /\ row[d] = 0 /\ chosen[d] < born[d]
                              /\ file'[d] = born[d] \/ d \in lost' \/ chosen[d] \in 1 .. born[d] - 1
                        /\ row[d] # 0 => file'[d] = row[d] \/ d \in lost' \/ chosen[d] \in 1 .. row[d] - 1
      BY <1>1 DEF MovedFresh, RowBacked
    <2>1. CASE d = c
      BY <1>2, <1>3, <1>4, <2>1, OfCopy
    <2>2. CASE d # c
      BY <1>4, <2>2, OfCopy
    <2>3. QED BY <2>1, <2>2
  <1>7. Ages' /\ Explained' /\ MarkedChosen' /\ TodoChosen' /\ Unnamed'
    BY <1>1 DEF CacheInv, Ages, Explained, MarkedChosen, TodoChosen, Unnamed, Removing, In
  <1>8. Replaced'
    BY <1>1, <1>3, <1>4 DEF Replaced, c
  <1>9. Registered'
    BY <1>1, <1>4 DEF CacheInv, Registered, Starting, In
  <1>10. QED BY <1>5, <1>6, <1>7, <1>8, <1>9 DEF CacheInv

\* The entry goes from the local DBMS.
LEMMA DropInv ==
    ASSUME CacheInv, delEntryFromCacheDbms
    PROVE  CacheInv'
  <1> DEFINE c == Head(todo).copy
  <1>1. /\ pc = "drop" /\ pc' = "rdrop" /\ ~Starting /\ ~Starting' /\ Removing
        /\ UNCHANGED <<row, avail, rcache, file, born, arch, newFiles, todo, piQueue, piDel, pi, asked, chosen, lost, events>>
        /\ cache' = Without(cache, c) /\ expired' \subseteq expired
    BY DEF delEntryFromCacheDbms, Starting, Removing, db, arr, plug, ghost
  <1>2. Shape /\ todo # <<>> /\ c \in Copies /\ cache \in Seq(Entries) /\ Distinct(cache)
    BY <1>1, HeadCopy DEF CacheInv, Shape, TypeOK, Distinct
  <1>3. c \in lost \/ row[c] = 0 \/ arch[c] = "stored" \/ c \in newFiles
    BY <1>1 DEF CacheInv, Replaced
  <1> HIDE DEF c
  <1>4. /\ cache' \in Seq(Entries) /\ Distinct(cache')
        /\ \A d \in Copies : In(cache', d) <=> In(cache, d) /\ d # c
        /\ \A i \in DOMAIN cache' : \E j \in DOMAIN cache : cache'[i] = cache[j]
    <2>1. Dropped(cache, c, cache')
      BY <1>1, <1>2, EntryDropped
    <2>2. QED BY <2>1 DEF Dropped
  <1>5. Range(cache') \subseteq Entries
    BY <1>4 DEF Range
  <1>6. Shape'
    BY <1>1, <1>2, <1>4, <1>5 DEF Shape, TypeOK, Distinct
  <1>7. Ages' /\ MovedFresh' /\ RowBacked' /\ TodoChosen'
    BY <1>1 DEF CacheInv, Ages, MovedFresh, RowBacked, TodoChosen
  <1>8. Explained' /\ MarkedChosen' /\ Unnamed'
    BY <1>1, <1>4 DEF CacheInv, Explained, MarkedChosen, Unnamed
  <1>9. Replaced'
    BY <1>1 DEF Replaced
  <1>10. Registered'
    BY <1>1, <1>3, <1>4 DEF CacheInv, Registered, Starting
  <1>11. QED BY <1>6, <1>7, <1>8, <1>9, <1>10 DEF CacheInv

\* The entry goes from the RDBMS, and the thread turns to the next one.
LEMMA DropRowInv ==
    ASSUME CacheInv, deleteCacheEntry
    PROVE  CacheInv'
  <1>1. /\ pc = "rdrop" /\ pc' = (IF Tail(todo) = <<>> THEN "pause" ELSE "row") /\ todo' = Tail(todo)
        /\ ~Starting /\ ~Starting' /\ Removing
        /\ UNCHANGED <<row, avail, file, born, arch, newFiles, cache, expired, piQueue, piDel, pi, asked, chosen>>
        /\ rcache' \subseteq rcache /\ lost \subseteq lost' /\ lost' \subseteq lost \cup {Head(todo).copy}
    BY DEF deleteCacheEntry, Starting, Removing, arr, local, plug
  <1>2. Shape /\ todo \in Seq(Entries) /\ todo # <<>> /\ Head(todo).copy \in Copies
    BY <1>1, HeadCopy DEF CacheInv
  <1>3. events' \in 0 .. MaxEvents
    BY <1>2, Counted DEF deleteCacheEntry
  <1>4. /\ todo' \in Seq(Entries)
        /\ \A i \in DOMAIN todo' : i + 1 \in DOMAIN todo /\ todo'[i] = todo[i + 1]
    BY <1>1, <1>2
  <1>5. Range(todo') \subseteq Entries
    BY <1>4 DEF Range
  <1>6. Shape'
    BY <1>1, <1>2, <1>3, <1>4, <1>5 DEF Shape, TypeOK, Removing
  <1>7. Ages' /\ MovedFresh' /\ RowBacked' /\ Explained' /\ MarkedChosen' /\ Unnamed'
    BY <1>1 DEF CacheInv, Ages, MovedFresh, RowBacked, Explained, MarkedChosen, Unnamed, In
  <1>8. TodoChosen'
    BY <1>1, <1>4 DEF CacheInv, TodoChosen
  <1>9. Replaced'
    BY <1>1 DEF Replaced
  <1>10. Registered'
    BY <1>1 DEF CacheInv, Registered, Starting, In
  <1>11. QED BY <1>6, <1>7, <1>8, <1>9, <1>10 DEF CacheInv

-----------------------------------------------------------------------------
(* The theorems.                                                           *)

\* The invariant holds initially ...
LEMMA CacheInit == Init => CacheInv
  <1> SUFFICES ASSUME Init
               PROVE  CacheInv
    OBVIOUS
  <1>1. DOMAIN piDel = {} /\ IsFiniteSet(DOMAIN piDel)
    BY FS_EmptySet DEF Init, Empty
  <1>2. cache = <<>> /\ todo = <<>> /\ piQueue = <<>> /\ pc = "create" /\ rcache = {} /\ Starting /\ ~Removing
    BY DEF Init, Starting, Removing
  <1>3. pi \in [PlugIns -> [pc : {"wait", "count", "add"}, copy : Copies \cup {None}, key : Nat]]
    BY DEF Init, Idle
  <1>4. cache \in Seq(Entries) /\ Range(cache) = {} /\ Range(todo) = {} /\ DOMAIN cache = {}
    BY <1>2 DEF Range
  <1>5. TypeOK
    BY <1>2, <1>3, <1>4, CacheConfig DEF Init, TypeOK
  <1>6. Shape
    BY <1>1, <1>2, <1>4, <1>5 DEF Shape
  <1>7. Ages /\ Explained /\ MovedFresh /\ RowBacked
    BY <1>2, <1>4 DEF Init, Ages, Explained, MovedFresh, RowBacked, In
  <1>8. MarkedChosen /\ TodoChosen /\ Replaced /\ Unnamed /\ Registered
    BY <1>2, <1>4 DEF MarkedChosen, TodoChosen, Replaced, Unnamed, Registered
  <1>9. QED BY <1>6, <1>7, <1>8 DEF CacheInv

\* ... and is kept by every step.
LEMMA CacheStep == CacheInv /\ [Next]_vars => CacheInv'
  <1> SUFFICES ASSUME CacheInv, [Next]_vars
               PROVE  CacheInv'
    OBVIOUS
  <1>1. Shape
    BY DEF CacheInv
  <1>2. CASE Thread
    <2>1. CASE cacheControlThread
      <3>1. Shape' /\ UNCHANGED files /\ UNCHANGED todo /\ pc = "pause" /\ pc' \in {"new", "stopped"}
        BY <1>1, <2>1, StartShape DEF cacheControlThread, files, db, arr, local, ghost
      <3>2. QED BY <3>1, QuietStep DEF Starting, Removing
    <2>2. QED BY <1>2, <2>1, CreateInv, AdoptInv, ScanInv, NextNewInv, CheckNewInv, SelectsInv, QueueInv,
                 DecideInv, SelectInv, DeleteRowInv, RemoveInv, DropInv, DropRowInv DEF Thread
  <1>3. ASSUME NEW t \in PlugIns, PlugIn(t)
        PROVE  CacheInv'
    BY <1>1, <1>3, PlugInShape, ThreadAlone
  <1>4. ASSUME NEW c \in Copies, requestFileForDeletion(c) \/ Expire(c)
        PROVE  CacheInv'
    <2>1. Shape' /\ UNCHANGED <<files, pc, todo>>
      BY <1>1, <1>4, RequestsShape DEF requestFileForDeletion, Expire, files, db, arr, local, ghost
    <2>2. QED BY <2>1, ThreadAlone
  <1>5. CASE AddToCache
    <2>1. CASE Copies = {}
      <3>1. Shape' /\ UNCHANGED <<files, pc, todo>>
        BY <1>1, <1>5, <2>1, Counted DEF AddToCache, files, db, local, ghost, plug, Shape, TypeOK, Removing
      <3>2. QED BY <3>1, ThreadAlone
    <2>2. QED BY <1>5, <2>1, AnnounceInv
  <1>6. CASE UNCHANGED vars
    BY <1>1, <1>6, ThreadAlone DEF vars, files, Shape, TypeOK, Removing
  <1>7. QED BY <1>2, <1>3, <1>4, <1>5, <1>6, MoveInv, StoreInv, AnnounceInv, CacheDelInv, CrashInv DEF Next

\* The local DBMS, ngas_cache, ngas_files and the volume agree on the files of the cache, for
\* any number of copies, plug-in threads and faults: every file with a row is in the view of
\* cache control, an entry without a filename is what an interrupted removal left, and a row
\* is backed by its file unless the RDBMS failed or the version was archived again.
THEOREM CacheIsConsistent == Spec => []CacheConsistent
  <1>1. CacheInv => CacheConsistent
    BY DEF CacheInv, Shape, CacheConsistent, Unnamed, OrphansWereRemoved, Starting
  <1>2. QED BY <1>1, CacheInit, CacheStep, PTL DEF Spec

\* Cache control removes no file that was never selected.
THEOREM OnlyScheduledGo == Spec => OnlyScheduledRemoved
  <1> DEFINE Selected == \A c \in Copies : file[c] # 0 /\ file'[c] = 0 => chosen[c] # 0 \/ ~Head(todo).named
  <1>1. ASSUME CacheInv, [Next]_vars
        PROVE  [Selected]_vars
    <2>1. CASE removeFile
      <3>1. chosen[Head(todo).copy] # 0
        BY <1>1, <2>1, HeadCopy DEF CacheInv, TodoChosen, Removing, removeFile
      <3>2. QED BY <2>1, <3>1 DEF removeFile
    <2>2. ASSUME NEW c \in Copies, ArchiveMove(c)
          PROVE  Selected
      BY <1>1, <2>2, OfCopy DEF ArchiveMove, CacheInv, Shape, TypeOK
    <2>3. CASE file' = file
      BY <2>3
    <2>4. QED
      BY <1>1, <2>1, <2>2, <2>3 DEF Next, Thread, PlugIn, vars, createCacheDbms, AdoptEntries, initCacheArchive,
         getEntryNewFilesDbm, checkNewFilesDbm, SelectExpired, SelectTooMuch, SelectTooMany, Selects,
         _addEntryCacheCtrlPlugInDbm, _getCountCacheCtrlPlugInDbm, ApplyDecisions, SelectScheduled,
         deleteFileInfo, delEntryFromCacheDbms, deleteCacheEntry, cacheControlThread, _cacheCtrlPlugInThread,
         IncKey, AddKey, Crash, AddToCache, ArchiveStore, addEntryNewFilesDbm, requestFileForDeletion,
         cacheDel, Expire
  <1>2. QED BY <1>1, CacheInit, CacheStep, PTL DEF Spec, OnlyScheduledRemoved

=============================================================================
