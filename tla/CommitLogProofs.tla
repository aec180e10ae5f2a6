-------------------------- MODULE CommitLogProofs --------------------------
(***************************************************************************)
(* The commit log keeps its types and its pointers, for any number of      *)
(* goroutines that append and truncate at once, any bounds, crashes and    *)
(* failed removals.  With one goroutine and no failed removal its segments *)
(* also stay in order and the active one stays in the list, whatever       *)
(* crashes and restarts; no read then returns another record than the one  *)
(* asked for, and what was answered and not truncated is found again.      *)
(***************************************************************************)
EXTENDS CommitLog, TLAPS, SequenceTheorems, WellFoundedInduction

-----------------------------------------------------------------------------
(* Files.                                                                  *)

LEMMA ContentsType ==
    ASSUME NEW S, NEW file, FileOf(file, S), NEW base
    PROVE  Contents(file, base) \in Seq(S)
<1> QED BY EmptySeq DEF Contents, FileOf

LEMMA PutType ==
    ASSUME NEW S, NEW file, FileOf(file, S), NEW base \in Nat, NEW c \in Seq(S)
    PROVE  FileOf(Put(file, base, c), S)
<1> QED BY DEF Put, FileOf

LEMMA DeleteType ==
    ASSUME NEW S, NEW file, FileOf(file, S), NEW base
    PROVE  FileOf(Delete(file, base), S)
<1> QED BY DEF Delete, FileOf

LEMMA GrownType ==
    ASSUME NEW S, NEW file, FileOf(file, S), NEW base, NEW c \in Seq(S)
    PROVE  FileOf(Grown(file, base, c), S)
<1>1. \A b \in DOMAIN file : file[b] \o c \in Seq(S)
  BY ConcatProperties DEF FileOf
<1> QED BY <1>1 DEF Grown, FileOf

(* Resizing and writing an index keeps it a sequence of entries.           *)
LEMMA ResizedType ==
    ASSUME NEW ix \in Seq(Entry), NEW n \in Nat
    PROVE  Resized(ix, n) \in Seq(Entry)
<1>1. ASSUME NEW slot \in 1 .. n
      PROVE  EntryAt(ix, slot) \in Entry
  <2>1. ZeroEntry \in Entry
    BY DEF ZeroEntry, Entry
  <2>2. slot \in DOMAIN ix => ix[slot] \in Entry
    BY ElementOfSeq, LenProperties
  <2> QED BY <2>1, <2>2 DEF EntryAt
<1> QED BY <1>1 DEF Resized

LEMMA WrittenType ==
    ASSUME NEW ix \in Seq(Entry), NEW n, NEW e \in Entry
    PROVE  Written(ix, n, e) \in Seq(Entry)
<1>1. CASE n \in DOMAIN ix
  BY <1>1, ExceptSeq, LenProperties DEF Written
<1>2. CASE n \notin DOMAIN ix
  BY <1>2 DEF Written
<1> QED BY <1>1, <1>2

LEMMA CutType ==
    ASSUME NEW file, FileOf(file, Entry), NEW s \in SegmentObject
    PROVE  FileOf(Cut(file, s), Entry)
<1>1. s.indexSize \in Nat
  BY DEF SegmentObject, SegmentRecord
<1>2. \A b \in DOMAIN file : Resized(file[b], s.indexSize) \in Seq(Entry)
  BY <1>1, ResizedType DEF FileOf
<1> QED BY <1>2 DEF Cut, FileOf

-----------------------------------------------------------------------------
(* Segment objects.                                                        *)

LEMMA FramedType ==
    ASSUME NEW s \in SegmentObject, NEW r \in Records
    PROVE  Framed(s, r) \in Seq(Chunk)
<1> DEFINE chunk(part) == [part |-> part, off |-> s.nextOffset, val |-> r]
<1>1. chunk("length") \in Chunk /\ chunk("body") \in Chunk
  BY DEF Chunk, SegmentObject, SegmentRecord
<1> HIDE DEF chunk
<1>2. <<chunk("length"), chunk("body")>> \in Seq(Chunk)
  BY <1>1
<1> QED BY <1>2 DEF Framed, chunk

LEMMA StoreAppendedType ==
    ASSUME NEW s \in SegmentObject, NEW r \in Records
    PROVE  StoreAppended(s, r) \in SegmentObject
<1> DEFINE chunks == s.buf \o Framed(s, r)
           bytes  == s.size + 2
<1>1. chunks \in Seq(Chunk)
  BY FramedType, ConcatProperties DEF SegmentObject, SegmentRecord
<1>2. bytes \in Nat
  BY DEF SegmentObject, SegmentRecord
<1> HIDE DEF chunks, bytes
<1>3. [s EXCEPT !.buf = chunks, !.size = bytes] \in SegmentObject
  BY <1>1, <1>2 DEF SegmentObject, SegmentRecord
<1> QED BY <1>3 DEF StoreAppended, chunks, bytes

LEMMA AppendedType ==
    ASSUME NEW s \in SegmentObject, NEW r \in Records
    PROVE  Appended(s, r) \in SegmentObject
<1> DEFINE t == StoreAppended(s, r)
<1>1. t \in SegmentObject
  BY StoreAppendedType
<1> HIDE DEF t
<1> DEFINE entries == t.indexSize + 1
           next    == t.nextOffset + 1
<1>2. entries \in Nat /\ next \in Nat /\ t.baseOffset <= next
  BY <1>1 DEF SegmentObject, SegmentRecord
<1> HIDE DEF entries, next
<1>3. [t EXCEPT !.indexSize = entries, !.nextOffset = next] \in SegmentObject
  BY <1>1, <1>2 DEF SegmentObject, SegmentRecord
<1> QED BY <1>3 DEF Appended, t, entries, next

LEMMA WithIndexType ==
    ASSUME NEW s \in SegmentObject, NEW ix \in Seq(Entry)
    PROVE  WithIndex(s, ix) \in SegmentObject
<1> DEFINE next == IF ix = <<>> THEN s.baseOffset ELSE s.baseOffset + ix[Len(ix)].off + 1
<1>1. Len(ix) \in Nat
  BY LenProperties
<1>2. next \in Nat /\ s.baseOffset <= next
  <2>1. s.baseOffset \in Nat
    BY DEF SegmentObject, SegmentRecord
  <2>2. CASE ix # <<>>
    <3>1. ix[Len(ix)] \in Entry
      BY <2>2, EmptySeq, ElementOfSeq
    <3>2. ix[Len(ix)].off \in Nat
      BY <3>1 DEF Entry
    <3> QED BY <2>1, <2>2, <3>2
  <2> QED BY <2>1, <2>2
<1> HIDE DEF next
<1>3. [s EXCEPT !.indexSize = Len(ix), !.nextOffset = next] \in SegmentObject
  BY <1>1, <1>2 DEF SegmentObject, SegmentRecord
<1> QED BY <1>3 DEF WithIndex, next

LEMMA EmptiedType ==
    ASSUME NEW s \in SegmentObject
    PROVE  Flushed(s) \in SegmentObject /\ Closed(s) \in SegmentObject
<1> QED BY EmptySeq DEF Flushed, Closed, SegmentObject, SegmentRecord

LEMMA NewStoreType ==
    ASSUME DiskOK, NEW base \in Nat
    PROVE  NewStore(base, storeFile) \in SegmentObject
<1>1. Contents(storeFile, base) \in Seq(Chunk)
  BY ContentsType DEF DiskOK
<1>2. Len(Contents(storeFile, base)) \in Nat
  BY <1>1, LenProperties
<1>3. <<>> \in Seq(Chunk)
  BY EmptySeq
<1> QED BY <1>2, <1>3 DEF NewStore, SegmentObject, SegmentRecord

LEMMA NewSegmentType ==
    ASSUME DiskOK, NEW base \in Nat
    PROVE  NewSegment(base, storeFile, indexFile) \in SegmentObject
<1>1. Contents(indexFile, base) \in Seq(Entry)
  BY ContentsType DEF DiskOK
<1> QED BY <1>1, NewStoreType, WithIndexType DEF NewSegment

-----------------------------------------------------------------------------
LEMMA NewEntryType ==
    ASSUME NEW s \in SegmentObject
    PROVE  NewEntry(s) \in Entry
<1>1. s.nextOffset - s.baseOffset \in Nat /\ s.size \in Nat
  BY DEF SegmentObject, SegmentRecord
<1> QED BY <1>1 DEF NewEntry, Entry

-----------------------------------------------------------------------------
(* Pointers: they stay valid when the heap grows or an object changes.     *)

LEMMA HeapGrows ==
    ASSUME LogOK, NEW s \in SegmentObject
    PROVE  /\ Append(heap, s) \in Seq(SegmentObject)
           /\ DOMAIN heap \subseteq DOMAIN Append(heap, s)
           /\ Len(heap) + 1 \in DOMAIN Append(heap, s)
           /\ Len(heap) + 1 # 0
<1> QED BY AppendProperties, LenProperties DEF LogOK

LEMMA HeapUpdated ==
    ASSUME LogOK, NEW p \in DOMAIN heap, NEW s \in SegmentObject
    PROVE  /\ [heap EXCEPT ![p] = s] \in Seq(SegmentObject)
           /\ DOMAIN [heap EXCEPT ![p] = s] = DOMAIN heap
<1> QED BY ExceptSeq, LenProperties DEF LogOK

LEMMA Dereference ==
    ASSUME LogOK, NEW p \in DOMAIN heap
    PROVE  heap[p] \in SegmentObject
<1> QED BY ElementOfSeq, LenProperties DEF LogOK

LEMMA PointersGrow ==
    ASSUME NEW P, NEW Q, P \subseteq Q
    PROVE  LocalOf(P) \subseteq LocalOf(Q) /\ Seq(P) \subseteq Seq(Q)
<1>1. Seq(P) \subseteq Seq(Q)
  BY SeqMonotonic
<1> QED BY <1>1 DEF LocalOf

LEMMA BlankType ==
    ASSUME NEW P
    PROVE  Blank \in LocalOf(P)
<1>1. <<>> \in Seq(P)
  BY EmptySeq
<1> QED BY <1>1 DEF Blank, LocalOf

Inv == TypeOK /\ PointersSet

(* A goroutine takes a step: what it goes on with must be of the types.    *)
LEMMA StepsType ==
    ASSUME ThreadsOK, LocalsSet, NEW t \in Threads, NEW from, NEW to \in Operation,
           DOMAIN heap \subseteq DOMAIN heap',
           NEW c \in LocalOf(DOMAIN heap'),
           Steps(t, from, to, c), status' = status,
           to \in {"index", "publish", "activate"} => c.fresh # 0,
           to \in {"flush", "remove", "unlink"} => c.left # <<>>
    PROVE  ThreadsOK' /\ LocalsSet'
<1>1. local \in [Threads -> LocalOf(DOMAIN heap')]
  BY PointersGrow DEF ThreadsOK
<1>2. ThreadsOK'
  BY <1>1 DEF ThreadsOK, Steps
<1>3. LocalsSet'
  BY <1>1 DEF ThreadsOK, LocalsSet, Steps
<1> QED BY <1>2, <1>3

(* The lists of pointers when no object goes away.                         *)
LEMMA ListsType ==
    ASSUME LogOK, ProcessOK, DOMAIN heap \subseteq DOMAIN heap'
    PROVE  /\ segments \in Seq(DOMAIN heap')
           /\ active \in DOMAIN heap' \cup {0}
           /\ pending \in Seq(DOMAIN heap')
<1> QED BY PointersGrow DEF LogOK, ProcessOK

(* The goroutines when they do nothing.                                    *)
LEMMA ThreadsKept ==
    ASSUME ThreadsOK, LocalsSet, DOMAIN heap \subseteq DOMAIN heap',
           UNCHANGED threads,
           status' = status \/ (\A t \in Threads : pc[t] = "idle")
    PROVE  ThreadsOK' /\ LocalsSet'
<1>1. local \in [Threads -> LocalOf(DOMAIN heap')]
  BY PointersGrow DEF ThreadsOK
<1>2. pc' = pc /\ local' = local
  BY DEF threads
<1> QED BY <1>1, <1>2 DEF ThreadsOK, LocalsSet

LEMMA DieType ==
    ASSUME Inv, NEW how \in {"down", "panicked"}, Die(how), BoundsOK'
    PROVE  Inv'
<1>1. DiskOK' /\ HistoryOK'
  BY DEF Inv, TypeOK, DiskOK, HistoryOK, Die, disk, history
<1>2. LogOK' /\ ProcessOK'
  BY EmptySeq DEF LogOK, ProcessOK, Die
<1>3. ThreadsOK'
  BY BlankType DEF ThreadsOK, Die, Operation
<1>4. PointersSet'
  BY DEF PointersSet, ActiveSet, LocalsSet, Die
<1> QED BY <1>1, <1>2, <1>3, <1>4 DEF Inv, TypeOK

(* A step that only moves a goroutine on.                                  *)
LEMMA StillOK ==
    ASSUME Inv, ThreadsOK', LocalsSet',
           UNCHANGED <<disk, log, mu, process, bounds, history>>
    PROVE  Inv'
<1>1. DiskOK' /\ LogOK' /\ ProcessOK' /\ BoundsOK' /\ HistoryOK'
  BY DEF Inv, TypeOK, DiskOK, LogOK, ProcessOK, BoundsOK, HistoryOK,
         disk, log, process, bounds, history
<1>2. ActiveSet'
  BY DEF Inv, PointersSet, ActiveSet, log, process
<1> QED BY <1>1, <1>2 DEF Inv, TypeOK, PointersSet

-----------------------------------------------------------------------------
(* Setup.                                                                  *)

LEMMA OpenSegmentType ==
    ASSUME DiskOK, LogOK, NEW base \in Nat, OpenSegment(base)
    PROVE  /\ DiskOK' /\ LogOK'
           /\ DOMAIN heap \subseteq DOMAIN heap'
           /\ active' # 0
<1> DEFINE s == NewSegment(base, storeFile, indexFile)
<1>1. s \in SegmentObject
  BY NewSegmentType
<1> HIDE DEF s
<1>2. heap' = Append(heap, s) /\ active' = Len(heap) + 1
  BY DEF OpenSegment, s
<1>3. /\ heap' \in Seq(SegmentObject)
      /\ DOMAIN heap \subseteq DOMAIN heap'
      /\ active' \in DOMAIN heap' /\ active' # 0
  BY <1>1, <1>2, HeapGrows
<1>4. segments' \in Seq(DOMAIN heap')
  <2>1. segments \in Seq(DOMAIN heap')
    BY <1>3, SeqMonotonic DEF LogOK
  <2>2. segments' = Append(segments, active')
    BY DEF OpenSegment
  <2> QED BY <1>3, <2>1, <2>2, AppendProperties
<1>5. DiskOK'
  <2>1. Contents(storeFile, base) \in Seq(Chunk)
    BY ContentsType DEF DiskOK
  <2>2. Resized(Contents(indexFile, base), MaxIndexBytes) \in Seq(Entry)
    BY ContentsType, ResizedType, SegmentAssumption DEF DiskOK
  <2> QED BY <2>1, <2>2, PutType DEF DiskOK, OpenSegment
<1> QED BY <1>3, <1>4, <1>5 DEF LogOK

LEMMA FirstNameIsName ==
    ASSUME NEW names, names # {}, names \subseteq Nat \X {"index", "store"}
    PROVE  /\ FirstName(names) \in names /\ FirstName(names)[1] \in Nat
           /\ \A m \in names : FirstName(names)[1] <= m[1]
<1> DEFINE offsets == {n[1] : n \in names}
           less    == OpToRel(<, Nat)
<1>1. offsets \subseteq Nat /\ offsets # {}
  OBVIOUS
<1>2. IsWellFoundedOn(less, Nat)
  BY NatLessThanWellFounded
<1> HIDE DEF offsets, less
<1>3. \E x \in offsets : \A y \in offsets : ~ (<<y, x>> \in less)
  BY <1>1, <1>2, WFMin
<1>4. \A x, y \in Nat : y < x => <<y, x>> \in less
  BY Zenon DEF less, OpToRel
<1>5. \E x \in offsets : \A y \in offsets : x <= y
  <2>1. PICK x \in offsets : \A y \in offsets : ~ (<<y, x>> \in less)
    BY <1>3
  <2>2. \A y \in offsets : ~ (y < x)
    BY <1>1, <1>4, <2>1, Zenon
  <2>3. \A y \in offsets : x <= y
    BY <1>1, <2>2
  <2> QED BY <2>3
<1>6. \E n \in names : \A m \in names : n[1] <= m[1]
  BY <1>5 DEF offsets
<1>7. /\ FirstName(names) \in names
      /\ \A m \in names : FirstName(names)[1] <= m[1]
  BY <1>6 DEF FirstName
<1> QED BY <1>7

LEMMA SetupBeginType == ASSUME Inv, SetupBegin PROVE Inv'
<1> USE DEF Inv, TypeOK
<1>1. DiskOK' /\ LogOK' /\ BoundsOK' /\ HistoryOK' /\ heap' = heap /\ UNCHANGED threads
  BY DEF SetupBegin, DiskOK, LogOK, BoundsOK, HistoryOK, disk, log, bounds, history
<1>2. ProcessOK'
  <2>1. NamesOnDisk \subseteq Nat \X {"index", "store"}
    BY DEF NamesOnDisk, DiskOK, FileOf
  <2> QED BY <2>1 DEF SetupBegin, ProcessOK, log
<1>3. \A t \in Threads : pc[t] = "idle"
  BY DEF PointersSet, LocalsSet, SetupBegin
<1>4. ThreadsOK' /\ LocalsSet'
  BY <1>1, <1>3, ThreadsKept DEF PointersSet
<1>5. ActiveSet'
  BY DEF SetupBegin, PointersSet, ActiveSet, log
<1> QED BY <1>1, <1>2, <1>4, <1>5 DEF PointersSet

LEMMA SetupSegmentType == ASSUME Inv, SetupSegment PROVE Inv'
<1> USE DEF Inv, TypeOK
<1> DEFINE name == FirstName(todo)
<1>1. name \in todo /\ name[1] \in Nat
  <2>1. todo # {} /\ todo \subseteq Nat \X {"index", "store"}
    BY DEF SetupSegment, ProcessOK
  <2> QED BY <2>1, FirstNameIsName
<1>2. OpenSegment(name[1]) /\ todo' \subseteq todo
  BY DEF SetupSegment
<1> HIDE DEF name
<1>3. /\ DiskOK' /\ LogOK' /\ active' # 0
      /\ DOMAIN heap \subseteq DOMAIN heap'
  BY <1>1, <1>2, OpenSegmentType
<1>4. /\ UNCHANGED <<mu, status, pending>> /\ UNCHANGED threads
      /\ UNCHANGED bounds /\ UNCHANGED history
  BY DEF SetupSegment
<1>5. ProcessOK'
  BY <1>2, <1>3, <1>4, ListsType DEF ProcessOK
<1>6. ThreadsOK' /\ LocalsSet'
  BY <1>3, <1>4, ThreadsKept DEF PointersSet
<1>7. BoundsOK' /\ HistoryOK'
  BY <1>4 DEF BoundsOK, HistoryOK, bounds, history
<1> QED BY <1>3, <1>5, <1>6, <1>7 DEF PointersSet, ActiveSet

LEMMA SetupDoneType == ASSUME Inv, SetupDone PROVE Inv'
<1> USE DEF Inv, TypeOK
<1>1. /\ DiskOK' /\ LogOK' /\ active' # 0
      /\ DOMAIN heap \subseteq DOMAIN heap'
  <2>1. CASE segments = <<>>
    BY <2>1, OpenSegmentType, CommitLogAssumption DEF SetupDone
  <2>2. CASE segments # <<>>
    BY <2>2 DEF SetupDone, DiskOK, LogOK, PointersSet, ActiveSet, disk, log
  <2> QED BY <2>1, <2>2
<1>2. /\ UNCHANGED <<mu, todo, pending>> /\ UNCHANGED threads
      /\ UNCHANGED bounds /\ UNCHANGED history /\ status' = "up"
  BY DEF SetupDone
<1>3. ProcessOK'
  BY <1>1, <1>2, ListsType DEF ProcessOK
<1>4. \A t \in Threads : pc[t] = "idle"
  BY DEF PointersSet, LocalsSet, SetupDone
<1>5. ThreadsOK' /\ LocalsSet'
  BY <1>1, <1>2, <1>4, ThreadsKept DEF PointersSet
<1>6. BoundsOK' /\ HistoryOK'
  BY <1>2 DEF BoundsOK, HistoryOK, bounds, history
<1> QED BY <1>1, <1>3, <1>5, <1>6 DEF PointersSet, ActiveSet

-----------------------------------------------------------------------------
(* Append.                                                                 *)

LEMMA AppendHighestType ==
    ASSUME Inv, NEW t \in Appenders, AppendHighest(t)
    PROVE  Inv'
<1> USE DEF Inv, TypeOK
<1>1. t \in Threads
  BY DEF Threads
<1>2. HighestOffset \in Nat
  <2>1. Last(segments) \in DOMAIN heap
    BY EmptySeq, ElementOfSeq DEF AppendHighest, LogOK, Last
  <2>2. heap[Last(segments)].nextOffset \in Nat
    BY <2>1, Dereference DEF SegmentObject, SegmentRecord
  <2> QED BY <2>2 DEF HighestOffset
<1> DEFINE c == [Blank EXCEPT !.high = HighestOffset]
<1>3. c \in LocalOf(DOMAIN heap)
  BY <1>2, BlankType DEF LocalOf
<1>4. /\ Steps(t, "idle", "check", c)
      /\ UNCHANGED <<disk, log, mu, process, bounds, history>>
  BY DEF AppendHighest
<1> HIDE DEF c
<1>5. heap' = heap /\ status' = status
  BY <1>4 DEF log, process
<1>6. ThreadsOK' /\ LocalsSet'
  BY <1>1, <1>3, <1>4, <1>5, StepsType DEF PointersSet, Operation
<1> QED BY <1>4, <1>6, StillOK

LEMMA AppendCheckType ==
    ASSUME Inv, NEW t \in Appenders, AppendCheck(t)
    PROVE  Inv'
<1> USE DEF Inv, TypeOK
<1>1. t \in Threads
  BY DEF Threads
<1>2. /\ UNCHANGED <<disk, log, mu, process, bounds, history>>
      /\ \/ Steps(t, "check", "store", local[t])
         \/ Steps(t, "check", "write", Blank)
  BY DEF AppendCheck
<1>3. heap' = heap /\ status' = status
  BY <1>2 DEF log, process
<1>4. local[t] \in LocalOf(DOMAIN heap') /\ Blank \in LocalOf(DOMAIN heap')
  BY <1>1, <1>3, BlankType DEF ThreadsOK
<1>5. ThreadsOK' /\ LocalsSet'
  BY <1>1, <1>2, <1>3, <1>4, StepsType DEF PointersSet, Operation
<1> QED BY <1>2, <1>5, StillOK

LEMMA AppendPanicType ==
    ASSUME Inv, NEW t \in Appenders, AppendPanic(t)
    PROVE  Inv'
<1>1. BoundsOK'
  BY DEF Inv, TypeOK, AppendPanic, BoundsOK, bounds
<1> QED BY <1>1, DieType DEF AppendPanic

LEMMA RollStoreType ==
    ASSUME Inv, NEW t \in Appenders, RollStore(t)
    PROVE  Inv'
<1> USE DEF Inv, TypeOK
<1> DEFINE base == local[t].high + 1
           s    == NewStore(base, storeFile)
           c    == [local[t] EXCEPT !.fresh = Len(heap) + 1]
<1>1. t \in Threads /\ local[t] \in LocalOf(DOMAIN heap)
  BY DEF Threads, ThreadsOK
<1>2. base \in Nat
  BY <1>1 DEF LocalOf
<1>3. s \in SegmentObject /\ Contents(storeFile, base) \in Seq(Chunk)
  BY <1>2, NewStoreType, ContentsType DEF DiskOK
<1>4. /\ Steps(t, "store", "index", c)
      /\ storeFile' = Put(storeFile, base, Contents(storeFile, base))
      /\ heap' = Append(heap, s)
      /\ UNCHANGED <<indexFile, segments, active, mu, process, bounds, history>>
  BY DEF RollStore
<1>5. c = [local[t] EXCEPT !.fresh = Len(heap) + 1]
  OBVIOUS
<1> HIDE DEF base, s, c
<1>6. /\ heap' \in Seq(SegmentObject)
      /\ DOMAIN heap \subseteq DOMAIN heap'
      /\ Len(heap) + 1 \in DOMAIN heap' /\ Len(heap) + 1 # 0
  BY <1>3, <1>4, HeapGrows
<1>7. local[t] \in LocalOf(DOMAIN heap')
  BY <1>1, <1>6, PointersGrow
<1>8. c \in LocalOf(DOMAIN heap') /\ c.fresh # 0
  BY <1>5, <1>6, <1>7 DEF LocalOf
<1>9. ThreadsOK' /\ LocalsSet'
  BY <1>1, <1>4, <1>6, <1>8, StepsType DEF PointersSet, Operation, process
<1>10. DiskOK'
  BY <1>2, <1>3, <1>4, PutType DEF DiskOK
<1>11. LogOK' /\ ProcessOK' /\ BoundsOK' /\ HistoryOK' /\ ActiveSet'
  BY <1>4, <1>6, ListsType
     DEF LogOK, ProcessOK, BoundsOK, HistoryOK, PointersSet, ActiveSet,
         process, bounds, history
<1> QED BY <1>9, <1>10, <1>11 DEF PointersSet

(* One object of the heap changes and the lists of pointers do not.        *)
LEMMA ObjectChanged ==
    ASSUME Inv, NEW p \in DOMAIN heap, NEW s \in SegmentObject,
           heap' = [heap EXCEPT ![p] = s],
           UNCHANGED <<segments, active, mu, status, todo>>,
           pending' \in Seq(DOMAIN heap)
    PROVE  LogOK' /\ ProcessOK' /\ ActiveSet' /\ DOMAIN heap' = DOMAIN heap
<1> USE DEF Inv, TypeOK
<1>1. heap' \in Seq(SegmentObject) /\ DOMAIN heap' = DOMAIN heap
  BY HeapUpdated
<1>2. LogOK'
  BY <1>1 DEF LogOK
<1>3. ProcessOK'
  BY <1>1 DEF ProcessOK
<1>4. ActiveSet'
  BY DEF PointersSet, ActiveSet
<1> QED BY <1>1, <1>2, <1>3, <1>4

LEMMA RollIndexType ==
    ASSUME Inv, NEW t \in Appenders, RollIndex(t)
    PROVE  Inv'
<1> USE DEF Inv, TypeOK
<1> DEFINE p  == local[t].fresh
           ix == Contents(indexFile, heap[p].baseOffset)
           s  == WithIndex(heap[p], ix)
           c  == [local[t] EXCEPT !.list = segments]
<1>1. t \in Threads /\ local[t] \in LocalOf(DOMAIN heap)
  BY DEF Threads, ThreadsOK
<1>2. /\ Steps(t, "index", "publish", c)
      /\ indexFile' = Put(indexFile, heap[p].baseOffset, Resized(ix, MaxIndexBytes))
      /\ heap' = [heap EXCEPT ![p] = s]
      /\ UNCHANGED <<storeFile, segments, active, mu, process, bounds, history>>
  BY DEF RollIndex
<1>3. p # 0 /\ p \in DOMAIN heap
  BY <1>1, <1>2 DEF Steps, PointersSet, LocalsSet, LocalOf
<1>4. ix \in Seq(Entry) /\ heap[p] \in SegmentObject
  BY <1>3, ContentsType, Dereference DEF DiskOK
<1>5. s \in SegmentObject
  BY <1>4, WithIndexType
<1>6. /\ Resized(ix, MaxIndexBytes) \in Seq(Entry)
      /\ heap[p].baseOffset \in Nat
  BY <1>4, ResizedType, SegmentAssumption DEF SegmentObject, SegmentRecord
<1>7. c \in LocalOf(DOMAIN heap) /\ c.fresh # 0
  BY <1>1, <1>3 DEF LocalOf, LogOK
<1> HIDE DEF p, ix, s, c
<1>8. LogOK' /\ ProcessOK' /\ ActiveSet' /\ DOMAIN heap' = DOMAIN heap
  BY <1>2, <1>3, <1>5, ObjectChanged DEF process, ProcessOK
<1>9. ThreadsOK' /\ LocalsSet'
  BY <1>1, <1>2, <1>7, <1>8, StepsType DEF PointersSet, Operation, process
<1>10. DiskOK'
  BY <1>2, <1>6, PutType DEF DiskOK
<1>11. BoundsOK' /\ HistoryOK'
  BY <1>2 DEF BoundsOK, HistoryOK, bounds, history
<1> QED BY <1>8, <1>9, <1>10, <1>11 DEF PointersSet

LEMMA RollFailsType ==
    ASSUME Inv, NEW t \in Appenders, RollFails(t)
    PROVE  Inv'
<1> USE DEF Inv, TypeOK
<1> DEFINE b == heap[local[t].fresh].baseOffset
<1>1. t \in Threads
  BY DEF Threads
<1>2. /\ pc[t] \in {"store", "index"} /\ Fault
      /\ \/ indexFile' = indexFile
         \/ pc[t] = "index" /\ indexFile' = Put(indexFile, b, Contents(indexFile, b))
      /\ Steps(t, pc[t], "idle", Blank)
      /\ UNCHANGED <<storeFile, log, mu, process, crashes, closes, history>>
  BY DEF RollFails
<1>3. ThreadsOK' /\ LocalsSet'
  BY <1>1, <1>2, BlankType, StepsType DEF PointersSet, Operation, process, log
<1>4. DiskOK'
  <2>1. CASE indexFile' = indexFile
    BY <1>2, <2>1 DEF DiskOK
  <2>2. CASE pc[t] = "index" /\ indexFile' = Put(indexFile, b, Contents(indexFile, b))
    <3>1. local[t].fresh \in DOMAIN heap
      BY <1>1, <2>2 DEF PointersSet, LocalsSet, ThreadsOK, LocalOf
    <3>2. b \in Nat
      BY <3>1, Dereference DEF SegmentObject, SegmentRecord
    <3> HIDE DEF b
    <3> QED BY <1>2, <2>2, <3>2, ContentsType, PutType DEF DiskOK
  <2> QED BY <1>2, <2>1, <2>2
<1>5. BoundsOK'
  BY <1>2, CommitLogAssumption DEF BoundsOK, Fault
<1>6. LogOK' /\ ProcessOK' /\ HistoryOK' /\ ActiveSet'
  BY <1>2 DEF LogOK, ProcessOK, HistoryOK, PointersSet, ActiveSet, log, process, history
<1> QED BY <1>3, <1>4, <1>5, <1>6 DEF PointersSet

LEMMA RollPublishType ==
    ASSUME Inv, NEW t \in Appenders, RollPublish(t)
    PROVE  Inv'
<1> USE DEF Inv, TypeOK
<1> DEFINE c == [local[t] EXCEPT !.list = <<>>]
<1>1. t \in Threads /\ local[t] \in LocalOf(DOMAIN heap)
  BY DEF Threads, ThreadsOK
<1>2. /\ Steps(t, "publish", "activate", c)
      /\ segments' = Append(local[t].list, local[t].fresh)
      /\ UNCHANGED <<disk, heap, active, mu, process, bounds, history>>
  BY DEF RollPublish
<1>3. /\ status = "up" /\ local[t].fresh # 0
      /\ local[t].fresh \in DOMAIN heap
  BY <1>1, <1>2 DEF Steps, PointersSet, LocalsSet, LocalOf
<1>4. c \in LocalOf(DOMAIN heap) /\ c.fresh # 0
  BY <1>1, <1>3, EmptySeq DEF LocalOf
<1>5. segments' \in Seq(DOMAIN heap)
  BY <1>1, <1>2, <1>3, AppendProperties DEF LocalOf
<1> HIDE DEF c
<1>6. ThreadsOK' /\ LocalsSet'
  BY <1>1, <1>2, <1>4, StepsType DEF PointersSet, Operation, process
<1>7. LogOK' /\ ActiveSet'
  BY <1>2, <1>3, <1>5 DEF LogOK, PointersSet, ActiveSet, process
<1>8. DiskOK' /\ ProcessOK' /\ BoundsOK' /\ HistoryOK'
  BY <1>2 DEF DiskOK, ProcessOK, BoundsOK, HistoryOK, disk, process, bounds, history
<1> QED BY <1>6, <1>7, <1>8 DEF PointersSet

LEMMA RollActivateType ==
    ASSUME Inv, NEW t \in Appenders, RollActivate(t)
    PROVE  Inv'
<1> USE DEF Inv, TypeOK
<1>1. t \in Threads /\ local[t] \in LocalOf(DOMAIN heap)
  BY DEF Threads, ThreadsOK
<1>2. /\ Steps(t, "activate", "write", Blank)
      /\ active' = local[t].fresh
      /\ UNCHANGED <<disk, heap, segments, mu, process, bounds, history>>
  BY DEF RollActivate
<1>3. local[t].fresh # 0 /\ local[t].fresh \in DOMAIN heap
  BY <1>1, <1>2 DEF Steps, PointersSet, LocalsSet, LocalOf
<1>4. ThreadsOK' /\ LocalsSet'
  BY <1>1, <1>2, BlankType, StepsType DEF PointersSet, Operation, process
<1>5. LogOK' /\ ActiveSet'
  BY <1>2, <1>3 DEF LogOK, ActiveSet
<1>6. DiskOK' /\ ProcessOK' /\ BoundsOK' /\ HistoryOK'
  BY <1>2 DEF DiskOK, ProcessOK, BoundsOK, HistoryOK, disk, process, bounds, history
<1> QED BY <1>4, <1>5, <1>6 DEF PointersSet

LEMMA AppendWriteType ==
    ASSUME Inv, NEW t \in Appenders, NEW r \in Records, AppendWrite(t, r)
    PROVE  Inv'
<1> USE DEF Inv, TypeOK
<1> DEFINE s == heap[active]
<1>1. t \in Threads
  BY DEF Threads
<1>2. active \in DOMAIN heap
  BY DEF AppendWrite, Steps, LogOK, PointersSet, ActiveSet
<1>3. s \in SegmentObject
  BY <1>2, Dereference
<1>4. /\ Steps(t, "write", "idle", Blank)
      /\ UNCHANGED <<segments, active, mu, process, bounds, floor>>
  BY DEF AppendWrite
<1>5. PICK n \in SpillSizes \cap 0 .. Len(s.buf) + 2 :
        IF IndexIsMaxed(s)
        THEN /\ StoreWrite(StoreAppended(s, r), n)
             /\ UNCHANGED <<indexFile, acked>>
        ELSE /\ StoreWrite(Appended(s, r), n)
             /\ indexFile' =
                  [b \in DOMAIN indexFile |->
                     IF b = s.baseOffset
                     THEN Written(indexFile[b], s.indexSize + 1, NewEntry(s))
                     ELSE indexFile[b]]
             /\ acked' = acked \cup {[off |-> s.nextOffset, val |-> r]}
  BY DEF AppendWrite
<1>6. PICK w \in SegmentObject : StoreWrite(w, n) /\ Len(w.buf) = Len(s.buf) + 2
  <2>1. Len(s.buf \o Framed(s, r)) = Len(s.buf) + 2
    BY <1>3, FramedType, ConcatProperties DEF SegmentObject, SegmentRecord, Framed
  <2>2. /\ StoreAppended(s, r).buf = s.buf \o Framed(s, r)
        /\ Appended(s, r).buf = s.buf \o Framed(s, r)
    BY <1>3 DEF StoreAppended, Appended, SegmentObject, SegmentRecord
  <2> QED BY <1>3, <1>5, <2>1, <2>2, StoreAppendedType, AppendedType
<1>7. w.buf \in Seq(Chunk) /\ n \in 0 .. Len(w.buf)
  BY <1>3, <1>6 DEF SegmentObject, SegmentRecord
<1>8. /\ SubSeq(w.buf, 1, n) \in Seq(Chunk)
      /\ SubSeq(w.buf, n + 1, Len(w.buf)) \in Seq(Chunk)
  BY <1>7, SubSeqProperties, ElementOfSeq, LenProperties
<1> DEFINE o == [w EXCEPT !.buf = SubSeq(w.buf, n + 1, Len(w.buf))]
<1>9. o \in SegmentObject
  BY <1>8 DEF SegmentObject, SegmentRecord
<1>10. heap' = [heap EXCEPT ![active] = o]
  BY <1>6 DEF StoreWrite
<1>11. FileOf(storeFile', Chunk)
  BY <1>6, <1>8, GrownType DEF StoreWrite, DiskOK
<1> HIDE DEF o
<1>12. LogOK' /\ ProcessOK' /\ ActiveSet' /\ DOMAIN heap' = DOMAIN heap
  BY <1>2, <1>4, <1>9, <1>10, ObjectChanged DEF process, ProcessOK
<1>13. FileOf(indexFile', Entry) /\ HistoryOK'
  <2>1. NewEntry(s) \in Entry /\ [off |-> s.nextOffset, val |-> r] \in [off : Nat, val : Records]
    BY <1>3, NewEntryType DEF SegmentObject, SegmentRecord
  <2>2. \A b \in DOMAIN indexFile :
           Written(indexFile[b], s.indexSize + 1, NewEntry(s)) \in Seq(Entry)
    BY <2>1, WrittenType DEF DiskOK, FileOf
  <2>3. CASE IndexIsMaxed(s)
    BY <1>4, <1>5, <2>3 DEF DiskOK, HistoryOK
  <2>4. CASE ~ IndexIsMaxed(s)
    <3> HIDE DEF s
    <3>1. FileOf(indexFile', Entry)
      BY <1>5, <2>2, <2>4 DEF DiskOK, FileOf
    <3>2. HistoryOK'
      BY <1>4, <1>5, <2>1, <2>4 DEF HistoryOK
    <3> QED BY <3>1, <3>2
  <2> QED BY <2>3, <2>4
<1>14. ThreadsOK' /\ LocalsSet'
  BY <1>1, <1>4, <1>12, BlankType, StepsType DEF PointersSet, Operation, process
<1>15. BoundsOK'
  BY <1>4 DEF BoundsOK, bounds
<1> QED BY <1>11, <1>12, <1>13, <1>14, <1>15 DEF PointersSet, DiskOK

LEMMA ReadType == ASSUME Inv, NEW off, Read(off) PROVE Inv'
<1> USE DEF Inv, TypeOK
<1>1. PICK p \in Found(off) :
        /\ heap' = [heap EXCEPT ![p] = Flushed(heap[p])]
        /\ storeFile' = Grown(storeFile, heap[p].baseOffset, heap[p].buf)
  BY DEF Read
<1>2. UNCHANGED <<indexFile, segments, active, mu, process, threads, bounds, history>>
  BY DEF Read
<1>3. p \in DOMAIN heap
  BY ElementOfSeq, LenProperties DEF Found, Holders, LogOK
<1>4. heap[p] \in SegmentObject /\ heap[p].buf \in Seq(Chunk)
  BY <1>3, Dereference DEF SegmentObject, SegmentRecord
<1>5. LogOK' /\ ProcessOK' /\ ActiveSet' /\ DOMAIN heap' = DOMAIN heap
  BY <1>1, <1>2, <1>3, <1>4, EmptiedType, ObjectChanged DEF process, ProcessOK
<1>6. ThreadsOK' /\ LocalsSet'
  BY <1>2, <1>5, ThreadsKept DEF PointersSet, process
<1>7. DiskOK'
  BY <1>1, <1>2, <1>4, GrownType DEF DiskOK
<1>8. BoundsOK' /\ HistoryOK'
  BY <1>2 DEF BoundsOK, HistoryOK, bounds, history
<1> QED BY <1>5, <1>6, <1>7, <1>8 DEF PointersSet
-----------------------------------------------------------------------------
(* Truncate.                                                               *)

LEMMA TruncateBeginType ==
    ASSUME Inv, NEW t \in Truncators, NEW low \in Nat, TruncateBegin(t, low)
    PROVE  Inv'
<1> USE DEF Inv, TypeOK
<1> DEFINE c == [Blank EXCEPT !.low = low, !.left = segments]
<1>1. t \in Threads
  BY DEF Threads
<1>2. /\ Steps(t, "idle", "truncate", c)
      /\ mu' = t /\ floor' \in {floor, low + 1}
      /\ UNCHANGED <<disk, log, process, bounds, acked>>
  BY DEF TruncateBegin
<1>3. c \in LocalOf(DOMAIN heap)
  BY EmptySeq DEF Blank, LocalOf, LogOK
<1> HIDE DEF c
<1>4. ThreadsOK' /\ LocalsSet'
  BY <1>1, <1>2, <1>3, StepsType DEF PointersSet, Operation, process, log
<1>5. DiskOK' /\ LogOK' /\ ProcessOK' /\ BoundsOK' /\ HistoryOK' /\ ActiveSet'
  BY <1>1, <1>2 DEF DiskOK, LogOK, ProcessOK, BoundsOK, HistoryOK, PointersSet,
                    ActiveSet, disk, log, process, bounds
<1> QED BY <1>4, <1>5 DEF PointersSet

(* The segment the loop is at, and the local variables when it is past it. *)
LEMMA LoopType ==
    ASSUME Inv, NEW t \in Threads, local[t].left # <<>>
    PROVE  /\ Head(local[t].left) \in DOMAIN heap
           /\ heap[Head(local[t].left)] \in SegmentObject
           /\ local[t] \in LocalOf(DOMAIN heap)
           /\ [local[t] EXCEPT !.left = Tail(local[t].left)] \in LocalOf(DOMAIN heap)
           /\ [local[t] EXCEPT !.list = Append(local[t].list, Head(local[t].left)),
                               !.left = Tail(local[t].left)] \in LocalOf(DOMAIN heap)
<1> DEFINE left == Tail(local[t].left)
           list == Append(local[t].list, Head(local[t].left))
<1>1. local[t] \in LocalOf(DOMAIN heap)
  BY DEF Inv, TypeOK, ThreadsOK
<1>2. Head(local[t].left) \in DOMAIN heap /\ left \in Seq(DOMAIN heap)
  BY <1>1, HeadTailProperties DEF LocalOf
<1>3. list \in Seq(DOMAIN heap)
  BY <1>1, <1>2, AppendProperties DEF LocalOf
<1>4. heap[Head(local[t].left)] \in SegmentObject
  BY <1>2, Dereference DEF Inv, TypeOK
<1> HIDE DEF left, list
<1>5. /\ [local[t] EXCEPT !.left = left] \in LocalOf(DOMAIN heap)
      /\ [local[t] EXCEPT !.list = list, !.left = left] \in LocalOf(DOMAIN heap)
  BY <1>1, <1>2, <1>3 DEF LocalOf
<1> QED BY <1>1, <1>2, <1>4, <1>5 DEF left, list

LEMMA TruncateKeepType ==
    ASSUME Inv, NEW t \in Truncators, TruncateKeep(t)
    PROVE  Inv'
<1> DEFINE c == [local[t] EXCEPT !.list = Append(local[t].list, Head(local[t].left)),
                                 !.left = Tail(local[t].left)]
<1>1. t \in Threads
  BY DEF Threads
<1>2. /\ Steps(t, "truncate", "truncate", c)
      /\ UNCHANGED <<disk, log, mu, process, bounds, history>>
  BY DEF TruncateKeep
<1>3. c \in LocalOf(DOMAIN heap)
  BY <1>1, LoopType DEF TruncateKeep
<1> HIDE DEF c
<1>4. ThreadsOK' /\ LocalsSet'
  BY <1>1, <1>2, <1>3, StepsType
     DEF Inv, TypeOK, PointersSet, Operation, process, log
<1> QED BY <1>2, <1>4, StillOK

LEMMA TruncateCloseType ==
    ASSUME Inv, NEW t \in Truncators, TruncateCloseIndex(t) \/ TruncateCloseStore(t)
    PROVE  Inv'
<1> USE DEF Inv, TypeOK
<1> DEFINE p == Head(local[t].left)
           s == heap[p]
<1>1. t \in Threads
  BY DEF Threads
<1>2. /\ local[t].left # <<>>
      /\ UNCHANGED <<segments, active, mu, process, bounds, history>>
  BY <1>1 DEF TruncateCloseIndex, TruncateCloseStore, PointersSet, LocalsSet
<1>3. p \in DOMAIN heap /\ s \in SegmentObject /\ local[t] \in LocalOf(DOMAIN heap)
  BY <1>1, <1>2, LoopType
<1>4. s.buf \in Seq(Chunk)
  BY <1>3 DEF SegmentObject, SegmentRecord
<1>5. PICK o \in SegmentObject, from \in Operation, to \in {"flush", "remove"} :
        /\ heap' = [heap EXCEPT ![p] = o]
        /\ Steps(t, from, to, local[t])
        /\ DiskOK'
  <2>1. CASE TruncateCloseIndex(t)
    <3>1. /\ heap' = [heap EXCEPT ![p] = [s EXCEPT !.files = "half"]]
          /\ indexFile' = Cut(indexFile, s) /\ storeFile' = storeFile
          /\ Steps(t, "truncate", "flush", local[t])
      BY <2>1 DEF TruncateCloseIndex
    <3>2. [s EXCEPT !.files = "half"] \in SegmentObject
      BY <1>3 DEF SegmentObject, SegmentRecord
    <3>3. DiskOK'
      BY <1>3, <3>1, CutType DEF DiskOK
    <3> QED BY <3>1, <3>2, <3>3 DEF Operation
  <2>2. CASE TruncateCloseStore(t)
    <3>1. /\ heap' = [heap EXCEPT ![p] = Closed(s)]
          /\ storeFile' = Grown(storeFile, s.baseOffset, s.buf) /\ indexFile' = indexFile
          /\ Steps(t, "flush", "remove", local[t])
      BY <2>2 DEF TruncateCloseStore
    <3>2. Closed(s) \in SegmentObject
      BY <1>3, EmptiedType
    <3>3. DiskOK'
      BY <1>4, <3>1, GrownType DEF DiskOK
    <3> QED BY <3>1, <3>2, <3>3 DEF Operation
  <2> QED BY <2>1, <2>2
<1> HIDE DEF p, s
<1>6. LogOK' /\ ProcessOK' /\ ActiveSet' /\ DOMAIN heap' = DOMAIN heap
  BY <1>2, <1>3, <1>5, ObjectChanged DEF process, ProcessOK
<1>7. ThreadsOK' /\ LocalsSet'
  BY <1>1, <1>2, <1>3, <1>5, <1>6, StepsType DEF PointersSet, Operation, process
<1>8. BoundsOK' /\ HistoryOK'
  BY <1>2 DEF BoundsOK, HistoryOK, bounds, history
<1> QED BY <1>5, <1>6, <1>7, <1>8 DEF PointersSet

LEMMA TruncateRemoveType ==
    ASSUME Inv, NEW t \in Truncators, TruncateRemove(t)
    PROVE  Inv'
<1> USE DEF Inv, TypeOK
<1>1. t \in Threads
  BY DEF Threads
<1>2. /\ pc[t] = "remove"
      /\ Steps(t, "remove", "unlink", local[t])
      /\ indexFile' = Delete(indexFile, BaseAt(t))
      /\ UNCHANGED <<storeFile, log, mu, process, bounds, history>>
  BY DEF TruncateRemove
<1>3. local[t] \in LocalOf(DOMAIN heap) /\ local[t].left # <<>>
  BY <1>1, <1>2, LoopType DEF PointersSet, LocalsSet
<1>4. ThreadsOK' /\ LocalsSet'
  BY <1>1, <1>2, <1>3, StepsType DEF PointersSet, Operation, process, log
<1>5. DiskOK'
  BY <1>2, DeleteType DEF DiskOK
<1>6. LogOK' /\ ProcessOK' /\ BoundsOK' /\ HistoryOK' /\ ActiveSet'
  BY <1>2 DEF LogOK, ProcessOK, BoundsOK, HistoryOK, PointersSet, ActiveSet,
              log, process, bounds, history
<1> QED BY <1>4, <1>5, <1>6 DEF PointersSet

LEMMA TruncateUnlinkType ==
    ASSUME Inv, NEW t \in Truncators, TruncateUnlink(t)
    PROVE  Inv'
<1> USE DEF Inv, TypeOK
<1> DEFINE c == [local[t] EXCEPT !.left = Tail(local[t].left)]
<1>1. t \in Threads
  BY DEF Threads
<1>2. /\ pc[t] = "unlink"
      /\ Steps(t, "unlink", "truncate", c)
      /\ storeFile' = Delete(storeFile, BaseAt(t))
      /\ UNCHANGED <<indexFile, log, mu, process, bounds, history>>
  BY DEF TruncateUnlink
<1>3. c \in LocalOf(DOMAIN heap)
  BY <1>1, <1>2, LoopType DEF PointersSet, LocalsSet
<1> HIDE DEF c
<1>4. ThreadsOK' /\ LocalsSet'
  BY <1>1, <1>2, <1>3, StepsType DEF PointersSet, Operation, process, log
<1>5. DiskOK'
  BY <1>2, DeleteType DEF DiskOK
<1>6. LogOK' /\ ProcessOK' /\ BoundsOK' /\ HistoryOK' /\ ActiveSet'
  BY <1>2 DEF LogOK, ProcessOK, BoundsOK, HistoryOK, PointersSet, ActiveSet,
              log, process, bounds, history
<1> QED BY <1>4, <1>5, <1>6 DEF PointersSet

(* Truncate returns: the goroutine is idle and the lock free.              *)
LEMMA ReturnType ==
    ASSUME Inv, NEW t \in Threads, Return(t), status' = status,
           DOMAIN heap \subseteq DOMAIN heap'
    PROVE  ThreadsOK' /\ LocalsSet' /\ mu' = NoThread
<1>1. Steps(t, pc[t], "idle", Blank) /\ mu' = NoThread
  BY DEF Return
<1> QED BY <1>1, BlankType, StepsType DEF Inv, TypeOK, PointersSet, Operation

LEMMA TruncateErrorType ==
    ASSUME Inv, NEW t \in Truncators, TruncateClosed(t) \/ TruncateStuck(t)
    PROVE  Inv'
<1> USE DEF Inv, TypeOK
<1>1. t \in Threads
  BY DEF Threads
<1>2. Return(t) /\ UNCHANGED <<disk, log, process, crashes, closes, history>>
  BY DEF TruncateClosed, TruncateStuck, bounds
<1>3. ThreadsOK' /\ LocalsSet' /\ mu' = NoThread
  BY <1>1, <1>2, ReturnType DEF log, process
<1>4. BoundsOK'
  BY <1>2, CommitLogAssumption
     DEF BoundsOK, TruncateClosed, TruncateStuck, Fault, bounds
<1>5. DiskOK' /\ LogOK' /\ ProcessOK' /\ HistoryOK' /\ ActiveSet'
  BY <1>2, <1>3 DEF DiskOK, LogOK, ProcessOK, HistoryOK, PointersSet, ActiveSet,
                    disk, log, process, history
<1> QED BY <1>3, <1>4, <1>5 DEF PointersSet

LEMMA TruncateEndType ==
    ASSUME Inv, NEW t \in Truncators, TruncateEnd(t)
    PROVE  Inv'
<1> USE DEF Inv, TypeOK
<1>1. t \in Threads
  BY DEF Threads
<1>2. /\ segments' = local[t].list /\ pc[t] = "truncate"
      /\ Return(t)
      /\ UNCHANGED <<disk, heap, active, process, bounds, history>>
  BY DEF TruncateEnd
<1>3. ThreadsOK' /\ LocalsSet' /\ mu' = NoThread
  BY <1>1, <1>2, ReturnType DEF process
<1>4. status = "up" /\ segments' \in Seq(DOMAIN heap)
  BY <1>1, <1>2 DEF ThreadsOK, LocalOf, PointersSet, LocalsSet
<1>5. LogOK' /\ ActiveSet'
  BY <1>2, <1>4 DEF LogOK, PointersSet, ActiveSet, process
<1>6. DiskOK' /\ ProcessOK' /\ BoundsOK' /\ HistoryOK'
  BY <1>2, <1>3 DEF DiskOK, ProcessOK, BoundsOK, HistoryOK,
                    disk, process, bounds, history
<1> QED BY <1>3, <1>5, <1>6 DEF PointersSet
-----------------------------------------------------------------------------
(* Close and crashes.                                                      *)

LEMMA CloseBeginType == ASSUME Inv, CloseBegin PROVE Inv'
<1> USE DEF Inv, TypeOK
<1>1. /\ \A t \in Threads : pc[t] = "idle"
      /\ closes < MaxCloses /\ closes' = closes + 1
      /\ status' = "closing" /\ pending' = segments
      /\ UNCHANGED <<disk, log, mu, todo, threads, crashes, faults, history>>
  BY DEF CloseBegin
<1>2. ThreadsOK' /\ LocalsSet'
  BY <1>1, ThreadsKept DEF PointersSet, log
<1>3. DiskOK' /\ LogOK' /\ ProcessOK' /\ HistoryOK' /\ ActiveSet'
  BY <1>1 DEF DiskOK, LogOK, ProcessOK, HistoryOK, PointersSet, ActiveSet,
              disk, log, history
<1>4. BoundsOK'
  BY <1>1, CommitLogAssumption DEF BoundsOK
<1> QED BY <1>2, <1>3, <1>4 DEF PointersSet

LEMMA CloseSegmentType == ASSUME Inv, CloseIndex \/ CloseStore PROVE Inv'
<1> USE DEF Inv, TypeOK
<1> DEFINE p == Head(pending)
           s == heap[p]
<1>1. /\ pending # <<>>
      /\ UNCHANGED <<segments, active, mu, status, todo, threads, bounds, history>>
  BY DEF CloseIndex, CloseStore, process
<1>2. p \in DOMAIN heap /\ Tail(pending) \in Seq(DOMAIN heap)
  BY <1>1, HeadTailProperties DEF ProcessOK
<1>3. s \in SegmentObject /\ s.buf \in Seq(Chunk)
  BY <1>2, Dereference DEF SegmentObject, SegmentRecord
<1>4. PICK o \in SegmentObject :
        /\ heap' = [heap EXCEPT ![p] = o]
        /\ pending' \in {pending, Tail(pending)}
        /\ DiskOK'
  <2>1. CASE CloseIndex
    <3>1. /\ heap' = [heap EXCEPT ![p] = [s EXCEPT !.files = "half"]]
          /\ indexFile' = Cut(indexFile, s)
          /\ pending' = pending /\ storeFile' = storeFile
      BY <2>1 DEF CloseIndex, process
    <3>2. [s EXCEPT !.files = "half"] \in SegmentObject
      BY <1>3 DEF SegmentObject, SegmentRecord
    <3>3. DiskOK'
      BY <1>3, <3>1, CutType DEF DiskOK
    <3> QED BY <3>1, <3>2, <3>3
  <2>2. CASE CloseStore
    <3>1. /\ heap' = [heap EXCEPT ![p] = Closed(s)]
          /\ storeFile' = Grown(storeFile, s.baseOffset, s.buf)
          /\ pending' = Tail(pending) /\ indexFile' = indexFile
      BY <2>2 DEF CloseStore
    <3>2. Closed(s) \in SegmentObject
      BY <1>3, EmptiedType
    <3>3. DiskOK'
      BY <1>3, <3>1, GrownType DEF DiskOK
    <3> QED BY <3>1, <3>2, <3>3
  <2> QED BY <2>1, <2>2
<1>5. pending' \in Seq(DOMAIN heap)
  BY <1>2, <1>4 DEF ProcessOK
<1> HIDE DEF p, s
<1>6. LogOK' /\ ProcessOK' /\ ActiveSet' /\ DOMAIN heap' = DOMAIN heap
  BY <1>1, <1>2, <1>4, <1>5, ObjectChanged
<1>7. ThreadsOK' /\ LocalsSet'
  BY <1>1, <1>6, ThreadsKept DEF PointersSet
<1>8. BoundsOK' /\ HistoryOK'
  BY <1>1 DEF BoundsOK, HistoryOK, bounds, history
<1> QED BY <1>4, <1>6, <1>7, <1>8 DEF PointersSet

LEMMA EndType == ASSUME Inv, CloseError \/ CloseEnd \/ Crash PROVE Inv'
<1>1. Die("down")
  BY DEF CloseError, CloseEnd, Crash
<1>2. BoundsOK'
  BY CommitLogAssumption DEF Inv, TypeOK, BoundsOK, CloseError, CloseEnd, Crash, bounds
<1> QED BY <1>1, <1>2, DieType

-----------------------------------------------------------------------------
LEMMA InitType == Init => Inv
<1> SUFFICES ASSUME Init PROVE Inv
  OBVIOUS
<1> USE DEF Init
<1>1. DiskOK
  BY DEF DiskOK, FileOf
<1>2. LogOK /\ ProcessOK
  BY EmptySeq DEF LogOK, ProcessOK
<1>3. ThreadsOK
  BY BlankType DEF ThreadsOK, Operation
<1>4. BoundsOK /\ HistoryOK
  BY CommitLogAssumption DEF BoundsOK, HistoryOK
<1>5. PointersSet
  BY DEF PointersSet, ActiveSet, LocalsSet
<1> QED BY <1>1, <1>2, <1>3, <1>4, <1>5 DEF Inv, TypeOK

LEMMA StepKeepsInv == Inv /\ [Next]_vars => Inv'
<1> SUFFICES ASSUME Inv, [Next]_vars PROVE Inv'
  OBVIOUS
<1>1. CASE SetupBegin \/ SetupSegment \/ SetupDone
  BY <1>1, SetupBeginType, SetupSegmentType, SetupDoneType
<1>2. ASSUME NEW t \in Appenders, AppendHighest(t) \/ AppendPanic(t) \/ AppendStep(t)
      PROVE  Inv'
  BY <1>2, AppendHighestType, AppendPanicType, AppendCheckType, RollStoreType,
     RollIndexType, RollFailsType, RollPublishType, RollActivateType, AppendWriteType DEF AppendStep
<1>3. ASSUME NEW t \in Truncators, NEW low \in 0 .. MaxOffset, TruncateBegin(t, low)
      PROVE  Inv'
  BY <1>3, TruncateBeginType, CommitLogAssumption
<1>4. ASSUME NEW t \in Truncators, TruncateStep(t)
      PROVE  Inv'
  BY <1>4, TruncateKeepType, TruncateCloseType, TruncateRemoveType, TruncateUnlinkType,
     TruncateErrorType, TruncateEndType DEF TruncateStep
<1>5. ASSUME NEW off \in 0 .. MaxOffset, Read(off)
      PROVE  Inv'
  BY <1>5, ReadType
<1>6. CASE CloseBegin \/ CloseIndex \/ CloseStore
  BY <1>6, CloseBeginType, CloseSegmentType
<1>7. CASE CloseError \/ CloseEnd \/ Crash
  BY <1>7, EndType
<1>8. CASE UNCHANGED vars
  <2>1. UNCHANGED <<disk, log, mu, process, bounds, history>> /\ UNCHANGED threads
    BY <1>8 DEF vars
  <2>2. ThreadsOK' /\ LocalsSet'
    BY <2>1, ThreadsKept DEF Inv, TypeOK, PointersSet, log, process
  <2> QED BY <2>1, <2>2, StillOK
<1> QED BY <1>1, <1>2, <1>3, <1>4, <1>5, <1>6, <1>7, <1>8 DEF Next

(* Type correctness, for all values of the constants.                      *)
THEOREM CommitLogTypeOK == Spec => []TypeOK
<1>1. Inv => TypeOK
  BY DEF Inv
<1> QED BY <1>1, InitType, StepKeepsInv, PTL DEF Spec

(* No step follows a pointer that is not there: Append always finds an     *)
(* active segment, and a roll the segment that it is building, whatever    *)
(* the truncations and crashes that run into it.                           *)
THEOREM CommitLogPointersSet == Spec => []PointersSet
<1>1. Inv => PointersSet
  BY DEF Inv
<1> QED BY <1>1, InitType, StepKeepsInv, PTL DEF Spec

-----------------------------------------------------------------------------
(* The order of the segments when one goroutine calls the log, as the FSM  *)
(* goroutine of a node calls its record log: any number of crashes, orderly *)
(* restarts, rolls and truncations that spare the newest offset.           *)

Sequential ==
    /\ \A t, u \in Threads : t = u
    /\ TrailingLogs # 0 /\ MaxFaults = 0

Elements(s) == {s[i] : i \in DOMAIN s}

Increasing(s) == \A i, j \in DOMAIN s : i < j => s[i] < s[j]

IsOpen(p) == heap[p].files = "open"

AllOpen(s) == \A p \in Elements(s) : IsOpen(p)

(* Every object that still has its files is one of S.                      *)
Holding(S) == \A p \in DOMAIN heap : heap[p].files # "closed" => p \in S

Rolling(t)    == pc[t] \in {"index", "publish", "activate"}
Truncating(t) == pc[t] \in {"truncate", "flush", "remove", "unlink"}

(* The base offset of the segment whose index file is not yet created, and *)
(* of the closed segment whose files are being removed: the moments when   *)
(* a store file may be alone.                                              *)
Creating(b) == \E t \in Threads : pc[t] = "index" /\ b = heap[local[t].fresh].baseOffset
Removing(b) == \E t \in Threads : pc[t] \in {"remove", "unlink"} /\ b = BaseAt(t)

ControlOK ==
    /\ status # "panicked" /\ faults = 0
    /\ status = "down" => heap = <<>> /\ segments = <<>>
    /\ status \in {"up", "closing"} => heap # <<>>
    /\ \A t \in Threads : Truncating(t) => mu = t
    /\ (\A t \in Threads : ~Truncating(t)) => mu = NoThread

(* The objects of a process lie one after the other in the order in which  *)
(* they were created.                                                      *)
Precedes(r, s) == r.nextOffset <= s.baseOffset /\ r.baseOffset < s.baseOffset

HeapOrdered == \A p, q \in DOMAIN heap : p < q => Precedes(heap[p], heap[q])

(* l.segments has the open objects, in their order; the newest is active.  *)
ListOK ==
    /\ Increasing(segments)
    /\ status = "setup" =>
         /\ \A p \in DOMAIN heap : IsOpen(p) /\ p \in Elements(segments)
         /\ heap # <<>> => active = Len(heap)
    /\ status = "up" =>
         /\ active \in Elements(segments) /\ IsOpen(active)
         /\ (\A t \in Threads : pc[t] # "flush") => \A p \in DOMAIN heap : heap[p].files # "half"
         /\ (\A t \in Threads : ~Rolling(t)) => active = Len(heap)
         /\ (\A t \in Threads : ~Truncating(t)) => AllOpen(segments)
         /\ (\A t \in Threads : pc[t] \notin {"index", "publish"}) =>
                Holding(Elements(segments))

RollOK ==
    \A t \in Threads :
        /\ pc[t] = "check" =>
             \/ local[t].high + 1 = heap[active].nextOffset
             \/ local[t].high = 0 /\ heap[active].nextOffset = 0
        /\ pc[t] = "store" =>
             /\ local[t].high + 1 = heap[active].nextOffset
             /\ heap[active].baseOffset < heap[active].nextOffset
        /\ Rolling(t) =>
             local[t].fresh = Len(heap) /\ active < Len(heap) /\ IsOpen(Len(heap))
        /\ pc[t] = "index" =>
             /\ heap[Len(heap)].indexSize = 0
             /\ heap[Len(heap)].baseOffset \notin DOMAIN indexFile
        /\ pc[t] \in {"index", "publish"} =>
             /\ Holding(Elements(segments) \cup {Len(heap)})
             /\ \A p \in Elements(segments) : p < Len(heap)
        /\ pc[t] = "publish" => local[t].list = segments
        /\ pc[t] = "activate" => Len(heap) \in Elements(segments)

(* The loop of Truncate: what it keeps and what it has not visited are the *)
(* open objects, and the active one is beyond its reach.                   *)
LoopOK ==
    \A t \in Threads : Truncating(t) =>
        LET list == local[t].list
            left == local[t].left
        IN  /\ Increasing(list) /\ Increasing(left)
            /\ \A p \in Elements(list), q \in Elements(left) : p < q
            /\ AllOpen(list)
            /\ \A p \in Elements(left) : IsOpen(p) \/ (pc[t] # "truncate" /\ p = Head(left))
            /\ pc[t] = "flush" => heap[Head(left)].files = "half"
            /\ pc[t] \in {"remove", "unlink"} => heap[Head(left)].files = "closed"
            /\ pc[t] = "remove" => BaseAt(t) \in DOMAIN indexFile
            /\ pc[t] = "unlink" => BaseAt(t) \in DOMAIN storeFile \ DOMAIN indexFile
            /\ Holding(Elements(list) \cup Elements(left))
            /\ local[t].low + 2 <= heap[active].nextOffset

CloseOK ==
    status = "closing" =>
        /\ Increasing(pending) /\ Holding(Elements(pending))
        /\ \A p \in Elements(pending) :
              IsOpen(p) \/ (heap[p].files = "half" /\ p = Head(pending))

(* Where newSegment takes the next offset to be.                           *)
EndOf(ix, base) == IF ix = <<>> THEN base ELSE base + ix[Len(ix)].off + 1

(* The files between any two steps, and so after a crash.  At most one     *)
(* store file is without its index: setup can skip only the second name of *)
(* a pair.  The newest of all has no records when its index has no entry.  *)
FilesOK ==
    /\ DOMAIN indexFile \subseteq DOMAIN storeFile
    /\ \A b \in DOMAIN indexFile : Len(indexFile[b]) <= MaxIndexBytes
    /\ \A b, c \in DOMAIN storeFile \ DOMAIN indexFile : b = c
    /\ \A b \in DOMAIN indexFile, c \in DOMAIN storeFile :
          b < c => EndOf(indexFile[b], b) <= c
    /\ \A b \in DOMAIN storeFile :
          (\A c \in DOMAIN storeFile : c <= b) /\ Contents(indexFile, b) = <<>>
             => storeFile[b] = <<>>

(* A file for each object and an object for each file.                     *)
ObjectFiles ==
    /\ \A p \in DOMAIN heap : heap[p].files # "closed" =>
          /\ heap[p].baseOffset \in DOMAIN storeFile
          /\ heap[p].baseOffset \in DOMAIN indexFile \/ Creating(heap[p].baseOffset)
    /\ status = "up" => \A p \in DOMAIN heap :
          heap[p].files = "closed"
            /\ heap[p].baseOffset \in DOMAIN storeFile \cup DOMAIN indexFile
          => Removing(heap[p].baseOffset)
    /\ status \in {"up", "closing"} =>
          /\ \A b \in DOMAIN storeFile : \E p \in DOMAIN heap : heap[p].baseOffset = b
          /\ \A b \in DOMAIN storeFile \ DOMAIN indexFile : Removing(b) \/ Creating(b)

(* An object agrees with its files.                                        *)
IndexFits(s, ix) ==
    /\ s.indexSize <= Len(ix)
    /\ s.indexSize > 0 => s.baseOffset + ix[s.indexSize].off + 1 = s.nextOffset
    /\ EndOf(ix, s.baseOffset) <= s.nextOffset \/ EndOf(ix, s.baseOffset) <= s.baseOffset + 1
    /\ s.files = "open" => Len(ix) = MaxIndexBytes

Fits(s, store, index) ==
    LET b == s.baseOffset
    IN  /\ s.size = Len(store[b]) + Len(s.buf)
        /\ s.indexSize = 0 => s.nextOffset = b
        /\ (\A c \in DOMAIN store : c <= b) /\ s.indexSize = 0 => s.size = 0
        /\ b \in DOMAIN index => IndexFits(s, index[b])

ObjectsFit ==
    \A p \in DOMAIN heap : heap[p].files # "closed" => Fits(heap[p], storeFile, indexFile)

(* Setup: the names that are left lie above the objects, and at most one   *)
(* of them is without the other name of its segment.                       *)
Single(n, names) == \A m \in names : m[1] = n[1] => m = n

SetupOK ==
    status = "setup" =>
        /\ \A n, m \in todo : Single(n, todo) /\ Single(m, todo) => n = m
        /\ \A n \in todo : n[1] \in DOMAIN storeFile
        /\ \A b \in DOMAIN storeFile :
              \/ \E n \in todo : n[1] = b
              \/ /\ b \in DOMAIN indexFile
                 /\ \E p \in DOMAIN heap : heap[p].baseOffset = b
        /\ \A p \in DOMAIN heap, n \in todo :
              heap[p].nextOffset <= n[1] /\ heap[p].baseOffset < n[1]

OrderInv ==
    /\ ControlOK /\ HeapOrdered /\ ListOK /\ RollOK /\ LoopOK /\ CloseOK
    /\ FilesOK /\ ObjectFiles /\ ObjectsFit /\ SetupOK
-----------------------------------------------------------------------------
(* Increasing sequences of pointers.                                       *)

LEMMA ElementsType ==
    ASSUME NEW S, NEW s \in Seq(S)
    PROVE  Elements(s) \subseteq S
<1> QED BY ElementOfSeq, LenProperties DEF Elements

LEMMA ElementsOfEmpty == Elements(<<>>) = {} /\ Increasing(<<>>)
<1> QED BY DEF Elements, Increasing

LEMMA ElementsOfAppend ==
    ASSUME NEW S, NEW s \in Seq(S), NEW e \in S
    PROVE  Elements(Append(s, e)) = Elements(s) \cup {e}
<1> DEFINE a == Append(s, e)
<1>1. /\ a \in Seq(S) /\ Len(a) = Len(s) + 1 /\ a[Len(s) + 1] = e
      /\ \A i \in 1 .. Len(s) : a[i] = s[i]
  BY AppendProperties
<1>2. DOMAIN s = 1 .. Len(s) /\ DOMAIN a = 1 .. Len(s) + 1 /\ Len(s) \in Nat
  BY <1>1, LenProperties
<1> HIDE DEF a
<1> QED BY <1>1, <1>2 DEF Elements, a

LEMMA IncreasingAppend ==
    ASSUME NEW s \in Seq(Nat), NEW e \in Nat, Increasing(s), \A p \in Elements(s) : p < e
    PROVE  Increasing(Append(s, e))
<1> DEFINE a == Append(s, e)
<1>1. /\ a \in Seq(Nat) /\ Len(a) = Len(s) + 1 /\ a[Len(s) + 1] = e
      /\ \A i \in 1 .. Len(s) : a[i] = s[i]
  BY AppendProperties
<1>2. DOMAIN s = 1 .. Len(s) /\ DOMAIN a = 1 .. Len(s) + 1 /\ Len(s) \in Nat
  BY <1>1, LenProperties
<1> HIDE DEF a
<1>3. \A i \in DOMAIN s : s[i] < e
  BY DEF Elements
<1> QED BY <1>1, <1>2, <1>3 DEF Increasing, a

LEMMA HeadAndTail ==
    ASSUME NEW s \in Seq(Nat), s # <<>>
    PROVE  /\ Elements(s) = {Head(s)} \cup Elements(Tail(s))
           /\ Head(s) \in Elements(s) /\ Elements(Tail(s)) \subseteq Elements(s)
           /\ Increasing(s) =>
                /\ Increasing(Tail(s))
                /\ \A p \in Elements(Tail(s)) : Head(s) < p
<1>1. /\ Tail(s) \in Seq(Nat) /\ Len(Tail(s)) = Len(s) - 1
      /\ \A i \in 1 .. Len(Tail(s)) : Tail(s)[i] = s[i + 1]
  BY HeadTailProperties
<1>2. /\ DOMAIN s = 1 .. Len(s) /\ DOMAIN Tail(s) = 1 .. Len(s) - 1
      /\ Len(s) \in Nat \ {0} /\ Head(s) = s[1]
  BY <1>1, LenProperties, EmptySeq
<1>3. Elements(s) = {Head(s)} \cup Elements(Tail(s))
  <2>1. ASSUME NEW i \in DOMAIN s
        PROVE  s[i] \in {Head(s)} \cup Elements(Tail(s))
    <3>1. i = 1 \/ (i - 1 \in DOMAIN Tail(s) /\ s[i] = Tail(s)[i - 1])
      BY <1>1, <1>2
    <3> QED BY <1>2, <3>1 DEF Elements
  <2>2. ASSUME NEW i \in DOMAIN Tail(s)
        PROVE  Tail(s)[i] \in Elements(s)
    <3>1. i + 1 \in DOMAIN s /\ Tail(s)[i] = s[i + 1]
      BY <1>1, <1>2
    <3> QED BY <3>1 DEF Elements
  <2>3. Head(s) \in Elements(s)
    BY <1>2 DEF Elements
  <2> QED BY <2>1, <2>2, <2>3 DEF Elements
<1>4. ASSUME Increasing(s)
      PROVE  Increasing(Tail(s)) /\ \A p \in Elements(Tail(s)) : Head(s) < p
  <2>1. Increasing(Tail(s))
    BY <1>1, <1>2, <1>4 DEF Increasing
  <2>2. ASSUME NEW i \in DOMAIN Tail(s)
        PROVE  Head(s) < Tail(s)[i]
    BY <1>1, <1>2, <1>4 DEF Increasing
  <2> QED BY <2>1, <2>2 DEF Elements
<1> QED BY <1>3, <1>4

(* The last pointer is the newest object when that is one of the elements. *)
LEMMA LastIsNewest ==
    ASSUME NEW n \in Nat, NEW s \in Seq(1 .. n), Increasing(s), n \in Elements(s)
    PROVE  s # <<>> /\ Last(s) = n
<1>1. /\ DOMAIN s = 1 .. Len(s) /\ Len(s) \in Nat
      /\ s \in [1 .. Len(s) -> 1 .. n]
  BY LenProperties
<1>2. PICK i \in 1 .. Len(s) : s[i] = n
  BY <1>1 DEF Elements
<1>3. i < Len(s) => n < s[Len(s)]
  BY <1>1, <1>2 DEF Increasing
<1>4. s[Len(s)] \in 1 .. n
  <2>1. Len(s) \in 1 .. Len(s)
    BY <1>1, <1>2
  <2> QED BY <1>1, <2>1
<1>5. s[Len(s)] = n
  <2>1. ~ (n < s[Len(s)])
    BY <1>4
  <2>2. ~ (i < Len(s))
    BY <1>3, <2>1
  <2>3. \A k \in Nat : i \in 1 .. k /\ ~ (i < k) => i = k
    OBVIOUS
  <2>4. i = Len(s)
    BY <1>1, <1>2, <2>2, <2>3, Zenon
  <2> QED BY <1>2, <2>4
<1>6. s # <<>>
  BY <1>2, EmptySeq
<1> QED BY <1>2, <1>5, <1>6 DEF Last

LEMMA PointersAreNumbers ==
    ASSUME LogOK
    PROVE  /\ DOMAIN heap = 1 .. Len(heap) /\ Len(heap) \in Nat
           /\ Seq(DOMAIN heap) \subseteq Seq(Nat)
           /\ heap # <<>> => Len(heap) \in DOMAIN heap
           /\ \A p \in DOMAIN heap : p < Len(heap) \/ p = Len(heap)
           /\ \A p, q \in DOMAIN heap : p < q \/ p = q \/ q < p
<1>1. DOMAIN heap = 1 .. Len(heap) /\ Len(heap) \in Nat
  BY LenProperties DEF LogOK
<1>2. DOMAIN heap \subseteq Nat
  BY <1>1
<1>3. Seq(DOMAIN heap) \subseteq Seq(Nat)
  BY <1>2, SeqMonotonic
<1>4. heap # <<>> => Len(heap) # 0
  BY EmptySeq DEF LogOK
<1>5. \A n \in Nat : \A p \in 1 .. n : p < n \/ p = n
  OBVIOUS
<1>6. \A p \in DOMAIN heap : p < Len(heap) \/ p = Len(heap)
  BY <1>1, <1>5, Zenon
<1>7. \A p, q \in DOMAIN heap : p < q \/ p = q \/ q < p
  BY <1>2
<1> QED BY <1>1, <1>3, <1>4, <1>6, <1>7

(* One goroutine: what the others do is what this one does.                *)
LEMMA OnlyThread ==
    ASSUME Sequential, ThreadsOK, NEW t \in Threads,
           NEW from, NEW to, NEW c, Steps(t, from, to, c)
    PROVE  /\ \A u \in Threads : u = t
           /\ pc[t] = from /\ status = "up"
           /\ pc'[t] = to /\ local'[t] = c
<1> QED BY DEF Sequential, ThreadsOK, Steps

LEMMA NoFaults == Sequential /\ Inv => faults = 0 /\ ~ Fault
<1> QED BY CommitLogAssumption DEF Sequential, Inv, TypeOK, BoundsOK, Fault

LEMMA RollFailsNever == ASSUME Sequential, Inv, NEW t, RollFails(t) PROVE FALSE
<1> QED BY NoFaults DEF RollFails

(* The active object while no roll is under way.                           *)
LEMMA ActiveIsLast ==
    ASSUME Inv, ListOK, status = "up", \A t \in Threads : ~ Rolling(t)
    PROVE  /\ active = Len(heap) /\ active \in DOMAIN heap
           /\ segments # <<>> /\ Last(segments) = active
           /\ heap[active] \in SegmentObject /\ IsOpen(active)
<1>1. /\ active = Len(heap) /\ active \in Elements(segments)
      /\ Increasing(segments) /\ IsOpen(active)
  BY DEF ListOK
<1>2. /\ DOMAIN heap = 1 .. Len(heap) /\ Len(heap) \in Nat
      /\ segments \in Seq(DOMAIN heap)
  BY PointersAreNumbers DEF Inv, TypeOK, LogOK
<1>3. active \in DOMAIN heap
  BY <1>1, <1>2, ElementsType
<1>4. segments # <<>> /\ Last(segments) = Len(heap)
  BY <1>1, <1>2, LastIsNewest
<1> QED BY <1>1, <1>3, <1>4, Dereference DEF Inv, TypeOK

(* What stays true when a step leaves the files and the objects alone.     *)
LEMMA DiskAndHeapKept ==
    ASSUME OrderInv, UNCHANGED <<disk, heap, status, todo>>
    PROVE  HeapOrdered' /\ FilesOK' /\ ObjectsFit' /\ SetupOK'
<1> QED BY DEF OrderInv, HeapOrdered, FilesOK, ObjectsFit, SetupOK, disk

LEMMA AppendHighestOrder ==
    ASSUME Sequential, Inv, OrderInv, NEW t \in Appenders, AppendHighest(t)
    PROVE  OrderInv'
<1> USE DEF Inv, TypeOK
<1>1. t \in Threads
  BY DEF Threads
<1>2. /\ Steps(t, "idle", "check", [Blank EXCEPT !.high = HighestOffset])
      /\ UNCHANGED <<storeFile, indexFile, heap, segments, active, mu, status, todo, pending, faults>>
  BY DEF AppendHighest, disk, log, process, bounds
<1>3. /\ \A u \in Threads : u = t
      /\ pc[t] = "idle" /\ status = "up"
      /\ pc'[t] = "check" /\ local'[t].high = HighestOffset
  BY <1>1, <1>2, OnlyThread DEF Blank
<1>4. /\ active \in DOMAIN heap /\ heap[active] \in SegmentObject
      /\ Last(segments) = active
  BY <1>3, ActiveIsLast DEF Rolling, OrderInv
<1>5. \/ local'[t].high + 1 = heap[active].nextOffset
      \/ local'[t].high = 0 /\ heap[active].nextOffset = 0
  BY <1>3, <1>4 DEF HighestOffset, SegmentObject, SegmentRecord
<1>6. HeapOrdered' /\ FilesOK' /\ ObjectsFit' /\ SetupOK'
  BY <1>2, DiskAndHeapKept DEF disk
<1>7. ControlOK' /\ LoopOK' /\ CloseOK'
  BY <1>2, <1>3 DEF OrderInv, ControlOK, LoopOK, CloseOK, Truncating
<1>8. ListOK'
  BY <1>2, <1>3 DEF OrderInv, ListOK, Truncating, Rolling, Holding, AllOpen, IsOpen
<1>9. RollOK'
  BY <1>2, <1>3, <1>5 DEF RollOK, Rolling
<1>10. ObjectFiles'
  BY <1>2, <1>3 DEF OrderInv, ObjectFiles, Creating, Removing
<1> QED BY <1>6, <1>7, <1>8, <1>9, <1>10 DEF OrderInv

(* No file lies above the newest object.                                   *)
LEMMA NewestIsTop ==
    ASSUME Inv, OrderInv, status \in {"up", "closing"}
    PROVE  /\ Len(heap) \in DOMAIN heap
           /\ \A b \in DOMAIN storeFile : b <= heap[Len(heap)].baseOffset
<1>1. /\ Len(heap) \in DOMAIN heap
      /\ \A p \in DOMAIN heap : p < Len(heap) \/ p = Len(heap)
  BY PointersAreNumbers DEF Inv, TypeOK, OrderInv, ControlOK
<1>2. ASSUME NEW b \in DOMAIN storeFile
      PROVE  b <= heap[Len(heap)].baseOffset
  <2>1. PICK p \in DOMAIN heap : heap[p].baseOffset = b
    BY DEF OrderInv, ObjectFiles
  <2>2. p < Len(heap) => Precedes(heap[p], heap[Len(heap)])
    BY <1>1 DEF OrderInv, HeapOrdered
  <2>3. b \in Nat /\ heap[Len(heap)].baseOffset \in Nat
    BY <1>1, <2>1, Dereference DEF Inv, TypeOK, SegmentObject, SegmentRecord
  <2>4. CASE p < Len(heap)
    BY <2>1, <2>2, <2>3, <2>4 DEF Precedes
  <2>5. CASE p = Len(heap)
    BY <2>1, <2>3, <2>5
  <2> QED BY <1>1, <2>4, <2>5
<1> QED BY <1>1, <1>2

(* Entries bring the next offset above the base offset.                    *)
LEMMA EntriesAdvance ==
    ASSUME NEW s \in SegmentObject, NEW ix \in Seq(Entry), IndexFits(s, ix),
           s.indexSize # 0
    PROVE  s.baseOffset < s.nextOffset
<1>1. s.indexSize \in 1 .. Len(ix) /\ s.baseOffset \in Nat
  <2>1. s.indexSize \in Nat /\ s.baseOffset \in Nat
    BY DEF SegmentObject, SegmentRecord
  <2>2. Len(ix) \in Nat
    BY LenProperties
  <2>3. s.indexSize <= Len(ix)
    BY DEF IndexFits
  <2> QED BY <2>1, <2>2, <2>3
<1>2. ix[s.indexSize] \in Entry
  BY <1>1, ElementOfSeq
<1>3. ix[s.indexSize].off \in Nat
  BY <1>2 DEF Entry
<1> QED BY <1>1, <1>3 DEF IndexFits

(* A segment that is full has an offset in use, so the next one begins     *)
(* above it.                                                               *)
LEMMA MaxedAdvances ==
    ASSUME Inv, OrderInv, status = "up", \A t \in Threads : ~ Rolling(t),
           IsMaxed(heap[active])
    PROVE  heap[active].baseOffset < heap[active].nextOffset
<1> DEFINE s == heap[active]
<1>1. /\ active = Len(heap) /\ active \in DOMAIN heap
      /\ s \in SegmentObject /\ s.files = "open"
  BY ActiveIsLast DEF OrderInv, IsOpen
<1>2. Fits(s, storeFile, indexFile)
  BY <1>1 DEF OrderInv, ObjectsFit
<1>3. s.indexSize # 0
  <2>1. s.indexSize = 0 => s.size = 0
    BY <1>1, <1>2, NewestIsTop DEF Fits
  <2> QED BY <1>1, <2>1, SegmentAssumption
          DEF IsMaxed, IndexIsMaxed, SegmentObject, SegmentRecord
<1>4. s.baseOffset \in DOMAIN indexFile
  BY <1>1 DEF OrderInv, ObjectFiles, Creating, Rolling
<1>5. IndexFits(s, indexFile[s.baseOffset]) /\ indexFile[s.baseOffset] \in Seq(Entry)
  BY <1>2, <1>4 DEF Fits, Inv, TypeOK, DiskOK, FileOf
<1> QED BY <1>1, <1>3, <1>5, EntriesAdvance

LEMMA AppendCheckOrder ==
    ASSUME Sequential, Inv, OrderInv, NEW t \in Appenders, AppendCheck(t)
    PROVE  OrderInv'
<1> USE DEF Inv, TypeOK
<1>1. t \in Threads
  BY DEF Threads
<1>2. /\ \/ Steps(t, "check", "store", local[t]) /\ IsMaxed(heap[active])
         \/ Steps(t, "check", "write", Blank)
      /\ UNCHANGED <<storeFile, indexFile, heap, segments, active, mu, status, todo, pending, faults>>
  BY DEF AppendCheck, disk, log, process, bounds
<1>3. /\ \A u \in Threads : u = t
      /\ pc[t] = "check" /\ status = "up"
      /\ \/ pc'[t] = "store" /\ local'[t] = local[t] /\ IsMaxed(heap[active])
         \/ pc'[t] = "write"
  BY <1>1, <1>2, OnlyThread
<1>4. HeapOrdered' /\ FilesOK' /\ ObjectsFit' /\ SetupOK'
  BY <1>2, DiskAndHeapKept DEF disk
<1>5. ControlOK' /\ LoopOK' /\ CloseOK'
  BY <1>2, <1>3 DEF OrderInv, ControlOK, LoopOK, CloseOK, Truncating
<1>6. ListOK'
  BY <1>2, <1>3 DEF OrderInv, ListOK, Truncating, Rolling, Holding, AllOpen, IsOpen
<1>7. RollOK'
  <2>1. CASE pc'[t] = "store" /\ local'[t] = local[t] /\ IsMaxed(heap[active])
    <3>1. heap[active].baseOffset < heap[active].nextOffset
      BY <1>3, <2>1, MaxedAdvances DEF Rolling
    <3>2. heap[active] \in SegmentObject
      BY <1>3, ActiveIsLast DEF OrderInv, Rolling
    <3>3. local[t].high + 1 = heap[active].nextOffset
      BY <1>1, <1>3, <3>1, <3>2 DEF OrderInv, RollOK, SegmentObject, SegmentRecord
    <3> QED BY <1>2, <1>3, <2>1, <3>1, <3>3 DEF RollOK, Rolling
  <2>2. CASE pc'[t] = "write"
    BY <1>3, <2>2 DEF RollOK, Rolling
  <2> QED BY <1>3, <2>1, <2>2
<1>8. ObjectFiles'
  BY <1>2, <1>3 DEF OrderInv, ObjectFiles, Creating, Removing
<1> QED BY <1>4, <1>5, <1>6, <1>7, <1>8 DEF OrderInv

(* A new object at the end of the heap.                                    *)
LEMMA HeapExtended ==
    ASSUME LogOK, NEW s \in SegmentObject, heap' = Append(heap, s)
    PROVE  /\ Len(heap') = Len(heap) + 1 /\ Len(heap') \in DOMAIN heap'
           /\ DOMAIN heap' = DOMAIN heap \cup {Len(heap')}
           /\ heap' # <<>> /\ heap'[Len(heap')] = s
           /\ \A p \in DOMAIN heap : heap'[p] = heap[p] /\ p < Len(heap')
           /\ Len(heap') \notin DOMAIN heap
<1>1. /\ heap' \in Seq(SegmentObject) /\ heap' # <<>> /\ Len(heap') = Len(heap) + 1
      /\ \A p \in 1 .. Len(heap) : heap'[p] = heap[p]
      /\ heap'[Len(heap) + 1] = s
  BY AppendProperties DEF LogOK
<1>2. /\ DOMAIN heap = 1 .. Len(heap) /\ Len(heap) \in Nat
      /\ DOMAIN heap' = 1 .. Len(heap) + 1
  BY <1>1, LenProperties DEF LogOK
<1> QED BY <1>1, <1>2

LEMMA OrderExtended ==
    ASSUME LogOK, HeapOrdered, NEW s \in SegmentObject, heap' = Append(heap, s),
           \A p \in DOMAIN heap : Precedes(heap[p], s)
    PROVE  HeapOrdered'
<1>1. /\ DOMAIN heap' = DOMAIN heap \cup {Len(heap')}
      /\ heap'[Len(heap')] = s
      /\ \A p \in DOMAIN heap : heap'[p] = heap[p] /\ p < Len(heap')
  BY HeapExtended
<1>2. ASSUME NEW p \in DOMAIN heap', NEW q \in DOMAIN heap', p < q
      PROVE  Precedes(heap'[p], heap'[q])
  <2>1. CASE p \in DOMAIN heap /\ q \in DOMAIN heap
    BY <1>1, <1>2, <2>1 DEF HeapOrdered
  <2>2. CASE p \in DOMAIN heap /\ q = Len(heap')
    BY <1>1, <2>2
  <2>3. CASE p = Len(heap')
    <3>1. /\ q \in DOMAIN heap => q < p
          /\ p \in Nat /\ q \in Nat
      BY <1>1, <2>3, HeapExtended, PointersAreNumbers
    <3> QED BY <1>1, <1>2, <2>3, <3>1
  <2> QED BY <1>1, <2>1, <2>2, <2>3
<1> QED BY <1>2 DEF HeapOrdered

(* The objects that do not own the base offset see no change of its files. *)
LEMMA FitsElsewhere ==
    ASSUME NEW s, NEW store, NEW index, NEW store2, NEW index2,
           Fits(s, store, index),
           store2[s.baseOffset] = store[s.baseOffset],
           s.baseOffset \in DOMAIN index2 =>
              s.baseOffset \in DOMAIN index /\ index2[s.baseOffset] = index[s.baseOffset],
           (\A c \in DOMAIN store2 : c <= s.baseOffset) =>
              \A c \in DOMAIN store : c <= s.baseOffset
    PROVE  Fits(s, store2, index2)
<1> QED BY DEF Fits

LEMMA EndOfType ==
    ASSUME NEW ix \in Seq(Entry), NEW b \in Nat
    PROVE  EndOf(ix, b) \in Nat /\ b <= EndOf(ix, b)
<1>1. CASE ix = <<>>
  BY <1>1 DEF EndOf
<1>2. CASE ix # <<>>
  <2>1. ix[Len(ix)] \in Entry
    BY <1>2, EmptySeq, ElementOfSeq
  <2>2. ix[Len(ix)].off \in Nat
    BY <2>1 DEF Entry
  <2> QED BY <1>2, <2>2 DEF EndOf
<1> QED BY <1>1, <1>2

LEMMA RollStoreOrder ==
    ASSUME Sequential, Inv, Inv', OrderInv, NEW t \in Appenders, RollStore(t)
    PROVE  OrderInv'
<1> DEFINE base == local[t].high + 1
           s    == NewStore(base, storeFile)
           n    == Len(heap')
<1>1. t \in Threads
  BY DEF Threads
<1>2. /\ Steps(t, "store", "index", [local[t] EXCEPT !.fresh = Len(heap) + 1])
      /\ storeFile' = Put(storeFile, base, Contents(storeFile, base))
      /\ heap' = Append(heap, s)
      /\ UNCHANGED <<indexFile, segments, active, mu, status, todo, pending, faults>>
  BY DEF RollStore, process, bounds
<1>3. /\ \A u \in Threads : u = t
      /\ pc[t] = "store" /\ status = "up"
      /\ pc'[t] = "index" /\ local'[t].fresh = Len(heap) + 1
      /\ local[t] \in LocalOf(DOMAIN heap)
  <2>1. local[t] \in LocalOf(DOMAIN heap)
    BY <1>1 DEF Inv, TypeOK, ThreadsOK
  <2> QED BY <1>1, <1>2, <2>1, OnlyThread DEF Inv, TypeOK, LocalOf
<1>4. /\ active = Len(heap) /\ active \in DOMAIN heap
      /\ active \in Elements(segments)
      /\ heap[active] \in SegmentObject /\ IsOpen(active)
  BY <1>3, ActiveIsLast DEF Rolling, OrderInv, ListOK
<1>5. /\ base = heap[active].nextOffset /\ heap[active].baseOffset < base
      /\ base \in Nat /\ heap[active].baseOffset \in Nat
  BY <1>1, <1>3, <1>4 DEF OrderInv, RollOK, SegmentObject, SegmentRecord
<1>6. \A b \in DOMAIN storeFile : b < base
  <2>1. \A b \in DOMAIN storeFile : b \in Nat /\ b <= heap[active].baseOffset
    BY <1>3, <1>4, NewestIsTop DEF Inv, TypeOK, DiskOK, FileOf
  <2> QED BY <1>5, <2>1
<1>7. base \notin DOMAIN storeFile
  BY <1>5, <1>6
<1>8. /\ DOMAIN storeFile' = DOMAIN storeFile \cup {base}
      /\ storeFile'[base] = <<>>
      /\ \A b \in DOMAIN storeFile : storeFile'[b] = storeFile[b]
  BY <1>2, <1>7 DEF Put, Contents
<1>9. /\ s.baseOffset = base /\ s.nextOffset = base /\ s.size = 0
      /\ s.buf = <<>> /\ s.indexSize = 0 /\ s.files = "open"
  BY <1>7 DEF NewStore, Contents
<1>10. s \in SegmentObject
  BY <1>5, NewStoreType DEF Inv, TypeOK
<1> HIDE DEF s, base
<1>11. /\ n = Len(heap) + 1 /\ n \in DOMAIN heap' /\ n \notin DOMAIN heap
       /\ DOMAIN heap' = DOMAIN heap \cup {n}
       /\ heap' # <<>> /\ heap'[n] = s
       /\ \A p \in DOMAIN heap : heap'[p] = heap[p] /\ p < n
  BY <1>2, <1>10, HeapExtended DEF Inv, TypeOK
<1> HIDE DEF n
<1>12. \A p \in DOMAIN heap : Precedes(heap[p], s)
  <2> SUFFICES ASSUME NEW p \in DOMAIN heap PROVE Precedes(heap[p], s)
    OBVIOUS
  <2>1. heap[p].baseOffset \in Nat /\ heap[p].nextOffset \in Nat
    BY Dereference DEF Inv, TypeOK, SegmentObject, SegmentRecord
  <2>2. p = active \/ Precedes(heap[p], heap[active])
    BY <1>4, PointersAreNumbers DEF Inv, TypeOK, OrderInv, HeapOrdered
  <2> QED BY <1>5, <1>9, <2>1, <2>2 DEF Precedes
<1>13. HeapOrdered'
  BY <1>2, <1>10, <1>12, OrderExtended DEF Inv, TypeOK, OrderInv
<1>14. ControlOK' /\ LoopOK' /\ CloseOK' /\ SetupOK'
  BY <1>2, <1>3, <1>11 DEF OrderInv, ControlOK, LoopOK, CloseOK, SetupOK, Truncating
<1>15. segments \in Seq(DOMAIN heap) /\ Elements(segments) \subseteq DOMAIN heap
  BY ElementsType DEF Inv, TypeOK, LogOK
<1>16. ListOK'
  BY <1>1, <1>2, <1>3, <1>4, <1>9, <1>11, <1>15
     DEF OrderInv, ListOK, Truncating, Rolling, AllOpen, IsOpen
<1>17. RollOK'
  <2>1. Holding(Elements(segments))
    BY <1>3 DEF OrderInv, ListOK
  <2>2. \A p \in DOMAIN heap' :
           heap'[p].files # "closed" => p \in Elements(segments) \cup {n}
    BY <1>11, <2>1 DEF Holding
  <2>3. \A p \in Elements(segments) : p < n
    BY <1>11, <1>15
  <2>4. base \notin DOMAIN indexFile
    BY <1>7 DEF OrderInv, FilesOK
  <2> QED BY <1>2, <1>3, <1>4, <1>9, <1>11, <2>2, <2>3, <2>4 DEF RollOK, Rolling, IsOpen, Holding, n
<1>18. FilesOK'
  <2>1. \A b \in DOMAIN storeFile : b \in DOMAIN indexFile
    BY <1>3 DEF OrderInv, ObjectFiles, Removing, Creating
  <2>2. ASSUME NEW b \in DOMAIN indexFile
        PROVE  EndOf(indexFile[b], b) <= base
    <3>1. b \in DOMAIN storeFile
      BY DEF OrderInv, FilesOK
    <3>2. PICK p \in DOMAIN heap : heap[p].baseOffset = b
      BY <1>3, <3>1 DEF OrderInv, ObjectFiles
    <3>3. heap[p].files # "closed"
      BY <1>3, <3>2 DEF OrderInv, ObjectFiles, Removing
    <3>4. IndexFits(heap[p], indexFile[b])
      BY <3>2, <3>3 DEF OrderInv, ObjectsFit, Fits
    <3>5. heap[p].nextOffset <= base /\ b < base
      BY <1>9, <1>12, <3>2 DEF Precedes
    <3>6. heap[p].nextOffset \in Nat /\ b \in Nat
      BY <3>2, Dereference DEF Inv, TypeOK, SegmentObject, SegmentRecord
    <3>7. EndOf(indexFile[b], b) \in Nat
      BY <3>6, EndOfType DEF Inv, TypeOK, DiskOK, FileOf
    <3> QED BY <1>5, <3>2, <3>4, <3>5, <3>6, <3>7 DEF IndexFits
  <2>3. \A b \in DOMAIN indexFile, c \in DOMAIN storeFile' :
           b < c => EndOf(indexFile[b], b) <= c
    BY <1>8, <2>2 DEF OrderInv, FilesOK
  <2>4. \A b \in DOMAIN storeFile' : (\A c \in DOMAIN storeFile' : c <= b) => b = base
    BY <1>5, <1>6, <1>8 DEF Inv, TypeOK, DiskOK, FileOf
  <2> QED BY <1>2, <1>8, <2>1, <2>3, <2>4 DEF OrderInv, FilesOK
<1>19. ObjectsFit'
  <2>1. ASSUME NEW p \in DOMAIN heap, heap[p].files # "closed"
        PROVE  Fits(heap[p], storeFile', indexFile)
    <3>1. heap[p].baseOffset \in DOMAIN storeFile
      BY <2>1 DEF OrderInv, ObjectFiles
    <3>2. heap[p].baseOffset < base /\ heap[p].baseOffset \in Nat
      BY <1>6, <3>1 DEF Inv, TypeOK, DiskOK, FileOf
    <3>3. ~ (\A c \in DOMAIN storeFile' : c <= heap[p].baseOffset)
      BY <1>5, <1>8, <3>2
    <3> QED BY <1>8, <2>1, <3>1, <3>3, FitsElsewhere DEF OrderInv, ObjectsFit
  <2>2. Fits(s, storeFile', indexFile)
    BY <1>7, <1>8, <1>9 DEF Fits, OrderInv, FilesOK
  <2> QED BY <1>2, <1>11, <2>1, <2>2 DEF ObjectsFit
<1>20. ObjectFiles'
  <2>1. ASSUME NEW b, b = base PROVE Creating(b)'
    BY <2>1, <1>1, <1>3, <1>9, <1>11 DEF Creating, n
  <2>2. \A b : ~ Creating(b) /\ ~ Removing(b)
    BY <1>3 DEF Creating, Removing
  <2>3. \A p \in DOMAIN heap : heap[p].baseOffset # base
    <3>1. \A p \in DOMAIN heap : heap[p].baseOffset \in Nat
      BY Dereference DEF Inv, TypeOK, SegmentObject, SegmentRecord
    <3> QED BY <1>5, <1>9, <1>12, <3>1 DEF Precedes
  <2>4. \A p \in DOMAIN heap' : heap'[p].files # "closed" =>
           /\ heap'[p].baseOffset \in DOMAIN storeFile'
           /\ heap'[p].baseOffset \in DOMAIN indexFile \/ heap'[p].baseOffset = base
    BY <1>8, <1>9, <1>11, <2>2 DEF OrderInv, ObjectFiles
  <2>5. \A p \in DOMAIN heap' : heap'[p].files = "closed" =>
           heap'[p].baseOffset \notin DOMAIN storeFile' \cup DOMAIN indexFile
    BY <1>3, <1>8, <1>9, <1>11, <2>2, <2>3 DEF OrderInv, ObjectFiles
  <2>6. \A b \in DOMAIN storeFile' : \E p \in DOMAIN heap' : heap'[p].baseOffset = b
    BY <1>3, <1>8, <1>9, <1>11 DEF OrderInv, ObjectFiles
  <2>7. \A b \in DOMAIN storeFile' \ DOMAIN indexFile : b = base
    BY <1>3, <1>8, <2>2 DEF OrderInv, ObjectFiles
  <2> QED BY <1>2, <2>1, <2>4, <2>5, <2>6, <2>7 DEF ObjectFiles
<1> QED BY <1>13, <1>14, <1>16, <1>17, <1>18, <1>19, <1>20 DEF OrderInv

(* One object changes, and keeps its place.                                *)
LEMMA HeapChanged ==
    ASSUME LogOK, NEW p \in DOMAIN heap, NEW s \in SegmentObject,
           heap' = [heap EXCEPT ![p] = s]
    PROVE  /\ DOMAIN heap' = DOMAIN heap /\ Len(heap') = Len(heap)
           /\ heap' # <<>> /\ heap # <<>>
           /\ heap'[p] = s
           /\ \A q \in DOMAIN heap : q # p => heap'[q] = heap[q]
<1>1. DOMAIN heap = 1 .. Len(heap) /\ Len(heap) \in Nat
  BY PointersAreNumbers
<1>2. /\ heap' \in Seq(SegmentObject) /\ Len(heap') = Len(heap)
      /\ heap'[p] = s
      /\ \A q \in DOMAIN heap : q # p => heap'[q] = heap[q]
  BY <1>1, ExceptSeq DEF LogOK
<1>3. DOMAIN heap' = 1 .. Len(heap)
  BY <1>2, LenProperties
<1>4. heap' # <<>> /\ heap # <<>>
  BY <1>1, <1>2, <1>3
<1> QED BY <1>1, <1>2, <1>3, <1>4

LEMMA OrderChanged ==
    ASSUME LogOK, HeapOrdered, NEW p \in DOMAIN heap, NEW s \in SegmentObject,
           heap' = [heap EXCEPT ![p] = s],
           s.baseOffset = heap[p].baseOffset,
           s.nextOffset = heap[p].nextOffset \/ p = Len(heap)
    PROVE  HeapOrdered'
<1>1. /\ DOMAIN heap' = DOMAIN heap /\ heap'[p] = s
      /\ \A q \in DOMAIN heap : q # p => heap'[q] = heap[q]
      /\ \A q \in DOMAIN heap : ~ (Len(heap) < q)
  BY HeapChanged, PointersAreNumbers
<1>2. ASSUME NEW q \in DOMAIN heap, NEW r \in DOMAIN heap, q < r
      PROVE  Precedes(heap'[q], heap'[r])
  <2>1. Precedes(heap[q], heap[r])
    BY <1>2 DEF HeapOrdered
  <2>2. q # r
    BY <1>2, PointersAreNumbers
  <2> QED BY <1>1, <1>2, <2>1, <2>2 DEF Precedes
<1> QED BY <1>1, <1>2 DEF HeapOrdered

LEMMA BasesDiffer ==
    ASSUME LogOK, HeapOrdered, NEW p \in DOMAIN heap, NEW q \in DOMAIN heap, p # q
    PROVE  heap[p].baseOffset # heap[q].baseOffset
<1>1. p < q \/ q < p
  BY PointersAreNumbers
<1>2. heap[p].baseOffset \in Nat /\ heap[q].baseOffset \in Nat
  BY Dereference DEF SegmentObject, SegmentRecord
<1> QED BY <1>1, <1>2 DEF HeapOrdered, Precedes

(* The files of one base offset change: the other objects still fit.       *)
LEMMA OthersFit ==
    ASSUME Inv, OrderInv, NEW p \in DOMAIN heap, NEW s \in SegmentObject,
           heap' = [heap EXCEPT ![p] = s],
           NEW b, b = heap[p].baseOffset,
           DOMAIN storeFile' = DOMAIN storeFile,
           DOMAIN indexFile' \subseteq DOMAIN indexFile \cup {b},
           \A c \in DOMAIN storeFile \ {b} : storeFile'[c] = storeFile[c],
           \A c \in DOMAIN indexFile' \ {b} : indexFile'[c] = indexFile[c],
           s.files # "closed" => Fits(s, storeFile', indexFile')
    PROVE  ObjectsFit'
<1>1. /\ DOMAIN heap' = DOMAIN heap /\ heap'[p] = s
      /\ \A q \in DOMAIN heap : q # p => heap'[q] = heap[q]
  BY HeapChanged DEF Inv, TypeOK
<1>2. ASSUME NEW q \in DOMAIN heap, q # p, heap[q].files # "closed"
      PROVE  Fits(heap[q], storeFile', indexFile')
  <2>1. heap[q].baseOffset # b
    BY <1>2, BasesDiffer DEF OrderInv, Inv, TypeOK
  <2>2. Fits(heap[q], storeFile, indexFile) /\ heap[q].baseOffset \in DOMAIN storeFile
    BY <1>2 DEF OrderInv, ObjectsFit, ObjectFiles
  <2> QED BY <2>1, <2>2, FitsElsewhere
<1> QED BY <1>1, <1>2 DEF ObjectsFit

(* The index file that newIndex makes ends as the old one or in a zero.    *)
LEMMA ResizedEnd ==
    ASSUME NEW ix \in Seq(Entry), NEW b \in Nat, Len(ix) <= MaxIndexBytes
    PROVE  LET rx == Resized(ix, MaxIndexBytes)
           IN  /\ Len(rx) = MaxIndexBytes /\ rx # <<>>
               /\ \A i \in 1 .. Len(ix) : rx[i] = ix[i]
               /\ EndOf(rx, b) = EndOf(ix, b) \/ EndOf(rx, b) = b + 1
<1> DEFINE rx == Resized(ix, MaxIndexBytes)
<1>1. MaxIndexBytes \in Nat \ {0} /\ Len(ix) \in Nat /\ DOMAIN ix = 1 .. Len(ix)
  BY SegmentAssumption, LenProperties
<1>2. rx \in Seq(Entry) /\ DOMAIN rx = 1 .. MaxIndexBytes
  BY <1>1, ResizedType DEF Resized
<1>3. Len(rx) = MaxIndexBytes
  BY <1>1, <1>2, LenProperties
<1>4. \A i \in 1 .. Len(ix) : rx[i] = ix[i]
  BY <1>1 DEF Resized, EntryAt
<1>5. rx[MaxIndexBytes] = EntryAt(ix, MaxIndexBytes)
  BY <1>1 DEF Resized
<1>6. rx # <<>>
  BY <1>1, <1>3, EmptySeq
<1> HIDE DEF rx
<1>7. EndOf(rx, b) = EndOf(ix, b) \/ EndOf(rx, b) = b + 1
  <2>1. CASE MaxIndexBytes \in DOMAIN ix
    <3>1. \A m, n \in Nat : m <= n /\ n \in 1 .. m => m = n
      OBVIOUS
    <3>2. Len(ix) = MaxIndexBytes
      BY <1>1, <2>1, <3>1, Zenon
    <3>3. ix # <<>>
      BY <1>1, <2>1
    <3> QED BY <1>3, <1>5, <1>6, <2>1, <3>2, <3>3 DEF EndOf, EntryAt
  <2>2. CASE MaxIndexBytes \notin DOMAIN ix
    BY <1>3, <1>5, <1>6, <2>2 DEF EndOf, EntryAt, ZeroEntry
  <2> QED BY <2>1, <2>2
<1> QED BY <1>3, <1>4, <1>6, <1>7 DEF rx

LEMMA RollIndexOrder ==
    ASSUME Sequential, Inv, Inv', OrderInv, NEW t \in Appenders, RollIndex(t)
    PROVE  OrderInv'
<1> DEFINE p    == local[t].fresh
           base == heap[p].baseOffset
           ix   == Contents(indexFile, base)
           rx   == Resized(ix, MaxIndexBytes)
           s    == WithIndex(heap[p], ix)
<1>1. t \in Threads
  BY DEF Threads
<1>2. /\ Steps(t, "index", "publish", [local[t] EXCEPT !.list = segments])
      /\ indexFile' = Put(indexFile, base, rx)
      /\ heap' = [heap EXCEPT ![p] = s]
      /\ UNCHANGED <<storeFile, segments, active, mu, status, todo, pending, faults>>
  BY DEF RollIndex, process, bounds
<1>3. local[t] \in LocalOf(DOMAIN heap)
  BY <1>1 DEF Inv, TypeOK, ThreadsOK
<1>4. /\ \A u \in Threads : u = t
      /\ pc[t] = "index" /\ status = "up"
      /\ pc'[t] = "publish" /\ local'[t].fresh = p /\ local'[t].list = segments
  BY <1>1, <1>2, <1>3, OnlyThread DEF Inv, TypeOK, LocalOf
<1>5. /\ p = Len(heap) /\ active < p /\ IsOpen(p) /\ p \in DOMAIN heap
      /\ heap[p].indexSize = 0 /\ base \notin DOMAIN indexFile
      /\ Holding(Elements(segments) \cup {p})
      /\ \A q \in Elements(segments) : q < p
  BY <1>1, <1>4, NewestIsTop DEF OrderInv, RollOK, Rolling
<1>6. /\ heap[p] \in SegmentObject /\ base \in Nat
      /\ base \in DOMAIN storeFile
      /\ Fits(heap[p], storeFile, indexFile)
      /\ \A b \in DOMAIN storeFile : b <= base
  <2>1. heap[p] \in SegmentObject
    BY <1>5, Dereference DEF Inv, TypeOK
  <2> QED BY <1>4, <1>5, <2>1, NewestIsTop
          DEF OrderInv, ObjectsFit, ObjectFiles, IsOpen, SegmentObject, SegmentRecord
<1>7. ix = <<>> /\ ix \in Seq(Entry) /\ Len(ix) = 0
  BY <1>5, EmptySeq DEF Contents
<1>8. /\ s \in SegmentObject /\ s.baseOffset = base /\ s.nextOffset = base
      /\ s.size = heap[p].size /\ s.buf = heap[p].buf
      /\ s.files = "open" /\ s.indexSize = 0
  BY <1>5, <1>6, <1>7, WithIndexType DEF WithIndex, IsOpen, SegmentObject, SegmentRecord
<1>9. /\ rx # <<>> /\ Len(rx) = MaxIndexBytes
      /\ EndOf(rx, base) = base \/ EndOf(rx, base) = base + 1
  <2>1. Len(ix) <= MaxIndexBytes /\ EndOf(ix, base) = base
    BY <1>7, SegmentAssumption DEF EndOf
  <2>2. base \in Nat /\ ix \in Seq(Entry)
    BY <1>6, <1>7
  <2> HIDE DEF base, ix
  <2> QED BY <2>1, <2>2, ResizedEnd
<1>10. /\ DOMAIN indexFile' = DOMAIN indexFile \cup {base} /\ indexFile'[base] = rx
       /\ \A b \in DOMAIN indexFile : indexFile'[b] = indexFile[b]
  BY <1>2, <1>5 DEF Put
<1> HIDE DEF p, base, ix, rx, s
<1>11. /\ DOMAIN heap' = DOMAIN heap /\ Len(heap') = Len(heap) /\ heap' # <<>>
       /\ heap'[p] = s /\ \A q \in DOMAIN heap : q # p => heap'[q] = heap[q]
  BY <1>2, <1>5, <1>8, HeapChanged DEF Inv, TypeOK
<1>12. HeapOrdered'
  BY <1>2, <1>5, <1>8, OrderChanged DEF Inv, TypeOK, OrderInv, base
<1>13. ControlOK' /\ LoopOK' /\ CloseOK' /\ SetupOK'
  BY <1>2, <1>4, <1>11 DEF OrderInv, ControlOK, LoopOK, CloseOK, SetupOK, Truncating
<1>14. \A q \in DOMAIN heap : heap'[q].files = heap[q].files
  BY <1>5, <1>8, <1>11 DEF IsOpen
<1>15. segments \in Seq(DOMAIN heap) /\ Elements(segments) \subseteq DOMAIN heap
  BY ElementsType DEF Inv, TypeOK, LogOK
<1>16. ListOK'
  <2>1. active \in DOMAIN heap /\ AllOpen(segments)
    BY <1>4, <1>15 DEF OrderInv, ListOK, Truncating
  <2> QED BY <1>1, <1>2, <1>4, <1>11, <1>14, <1>15, <2>1
          DEF OrderInv, ListOK, Truncating, Rolling, AllOpen, IsOpen
<1>17. RollOK'
  <2>1. Holding(Elements(segments) \cup {p})'
    BY <1>2, <1>4, <1>5, <1>11, <1>14 DEF Holding, p
  <2>2. IsOpen(p)'
    BY <1>2, <1>4, <1>5, <1>8, <1>11 DEF IsOpen, p
  <2> QED BY <1>2, <1>4, <1>5, <1>11, <2>1, <2>2 DEF RollOK, Rolling, p
<1>18. FilesOK'
  <2>1. \A b \in DOMAIN indexFile' : Len(indexFile'[b]) <= MaxIndexBytes
    BY <1>9, <1>10, SegmentAssumption DEF OrderInv, FilesOK
  <2>2. ASSUME NEW b \in DOMAIN indexFile', NEW c \in DOMAIN storeFile, b < c
        PROVE  EndOf(indexFile'[b], b) <= c
    <3>1. b # base
      BY <1>6, <2>2 DEF Inv, TypeOK, DiskOK, FileOf
    <3> QED BY <1>10, <2>2, <3>1 DEF OrderInv, FilesOK
  <2>3. \A b \in DOMAIN storeFile : Contents(indexFile', b) = <<>> =>
            Contents(indexFile, b) = <<>>
    BY <1>9, <1>10 DEF Contents
  <2> QED BY <1>2, <1>6, <1>10, <2>1, <2>2, <2>3 DEF OrderInv, FilesOK
<1>19. ObjectsFit'
  <2>1. Fits(s, storeFile, indexFile')
    <3>1. IndexFits(s, rx)
      BY <1>6, <1>8, <1>9, SegmentAssumption DEF IndexFits
    <3>2. heap[p].nextOffset = base
      BY <1>5, <1>6 DEF Fits, base
    <3> QED BY <1>5, <1>6, <1>8, <1>10, <3>1 DEF Fits, base
  <2> QED BY <1>2, <1>5, <1>8, <1>10, <2>1, OthersFit DEF base
<1>20. ObjectFiles'
  <2>1. \A b : Creating(b) => b = base
    BY <1>4 DEF Creating, p, base
  <2>2. \A b : ~ Removing(b)
    BY <1>4 DEF Removing
  <2>3. \A q \in DOMAIN heap : heap'[q].baseOffset = heap[q].baseOffset
    BY <1>8, <1>11 DEF base
  <2>4. \A q \in DOMAIN heap : q # p => heap[q].baseOffset # base
    BY <1>5, BasesDiffer DEF Inv, TypeOK, OrderInv, base
  <2>5. \A q \in DOMAIN heap' : heap'[q].files # "closed" =>
           heap'[q].baseOffset \in DOMAIN storeFile \cap DOMAIN indexFile'
    BY <1>10, <1>11, <1>14, <2>1, <2>3 DEF OrderInv, ObjectFiles
  <2>6. \A q \in DOMAIN heap' : heap'[q].files = "closed" =>
           heap'[q].baseOffset \notin DOMAIN storeFile \cup DOMAIN indexFile'
    BY <1>4, <1>5, <1>10, <1>11, <1>14, <2>2, <2>3, <2>4
       DEF OrderInv, ObjectFiles, IsOpen
  <2>7. /\ \A b \in DOMAIN storeFile : \E q \in DOMAIN heap' : heap'[q].baseOffset = b
        /\ DOMAIN storeFile \ DOMAIN indexFile' = {}
    BY <1>4, <1>10, <1>11, <2>1, <2>2, <2>3 DEF OrderInv, ObjectFiles
  <2> QED BY <1>2, <2>5, <2>6, <2>7 DEF ObjectFiles
<1> QED BY <1>12, <1>13, <1>16, <1>17, <1>18, <1>19, <1>20 DEF OrderInv

LEMMA RollPublishOrder ==
    ASSUME Sequential, Inv, Inv', OrderInv, NEW t \in Appenders, RollPublish(t)
    PROVE  OrderInv'
<1> DEFINE n == Len(heap)
<1>1. t \in Threads /\ local[t] \in LocalOf(DOMAIN heap)
  BY DEF Threads, Inv, TypeOK, ThreadsOK
<1>2. /\ Steps(t, "publish", "activate", [local[t] EXCEPT !.list = <<>>])
      /\ segments' = Append(local[t].list, local[t].fresh)
      /\ UNCHANGED <<storeFile, indexFile, heap, active, mu, status, todo, pending, faults>>
  BY DEF RollPublish, disk, process, bounds
<1>3. /\ \A u \in Threads : u = t
      /\ pc[t] = "publish" /\ status = "up"
      /\ pc'[t] = "activate" /\ local'[t].fresh = local[t].fresh
  BY <1>1, <1>2, OnlyThread DEF Inv, TypeOK, LocalOf
<1>4. /\ local[t].fresh = n /\ active < n /\ IsOpen(n)
      /\ Holding(Elements(segments) \cup {n})
      /\ \A p \in Elements(segments) : p < n
      /\ segments' = Append(segments, n)
  BY <1>1, <1>2, <1>3 DEF OrderInv, RollOK, Rolling
<1>5. /\ n \in DOMAIN heap /\ n \in Nat
      /\ segments \in Seq(DOMAIN heap) /\ segments \in Seq(Nat)
  BY <1>3, NewestIsTop, PointersAreNumbers DEF Inv, TypeOK, LogOK
<1> HIDE DEF n
<1>6. Elements(segments') = Elements(segments) \cup {n}
  BY <1>4, <1>5, ElementsOfAppend
<1>7. Increasing(segments')
  BY <1>4, <1>5, IncreasingAppend DEF OrderInv, ListOK
<1>8. HeapOrdered' /\ FilesOK' /\ ObjectsFit' /\ SetupOK'
  BY <1>2, DiskAndHeapKept DEF disk
<1>9. ControlOK' /\ LoopOK' /\ CloseOK'
  BY <1>2, <1>3 DEF OrderInv, ControlOK, LoopOK, CloseOK, Truncating
<1>10. ListOK'
  <2>1. AllOpen(segments) /\ active \in Elements(segments) /\ IsOpen(active)
    BY <1>3 DEF OrderInv, ListOK, Truncating
  <2> QED BY <1>1, <1>2, <1>3, <1>4, <1>6, <1>7, <2>1
          DEF OrderInv, ListOK, Truncating, Rolling, Holding, AllOpen, IsOpen
<1>11. RollOK'
  BY <1>2, <1>3, <1>4, <1>6 DEF RollOK, Rolling, IsOpen, n
<1>12. ObjectFiles'
  BY <1>2, <1>3 DEF OrderInv, ObjectFiles, Creating, Removing
<1> QED BY <1>8, <1>9, <1>10, <1>11, <1>12 DEF OrderInv

LEMMA RollActivateOrder ==
    ASSUME Sequential, Inv, Inv', OrderInv, NEW t \in Appenders, RollActivate(t)
    PROVE  OrderInv'
<1>1. t \in Threads
  BY DEF Threads
<1>2. /\ Steps(t, "activate", "write", Blank)
      /\ active' = local[t].fresh
      /\ UNCHANGED <<storeFile, indexFile, heap, segments, mu, status, todo, pending, faults>>
  BY DEF RollActivate, disk, process, bounds
<1>3. /\ \A u \in Threads : u = t
      /\ pc[t] = "activate" /\ status = "up" /\ pc'[t] = "write"
  BY <1>1, <1>2, OnlyThread DEF Inv, TypeOK
<1>4. active' = Len(heap) /\ IsOpen(Len(heap)) /\ Len(heap) \in Elements(segments)
  BY <1>1, <1>2, <1>3 DEF OrderInv, RollOK, Rolling
<1>5. HeapOrdered' /\ FilesOK' /\ ObjectsFit' /\ SetupOK'
  BY <1>2, DiskAndHeapKept DEF disk
<1>6. ControlOK' /\ LoopOK' /\ CloseOK'
  BY <1>2, <1>3 DEF OrderInv, ControlOK, LoopOK, CloseOK, Truncating
<1>7. ListOK'
  BY <1>1, <1>2, <1>3, <1>4
     DEF OrderInv, ListOK, Truncating, Rolling, Holding, AllOpen, IsOpen
<1>8. RollOK'
  BY <1>2, <1>3 DEF RollOK, Rolling
<1>9. ObjectFiles'
  BY <1>2, <1>3 DEF OrderInv, ObjectFiles, Creating, Removing
<1> QED BY <1>5, <1>6, <1>7, <1>8, <1>9 DEF OrderInv

(* The process ends and the files are all that is left.                    *)
LEMMA DieOrder ==
    ASSUME Inv, Inv', OrderInv, Die("down"), faults' = faults
    PROVE  OrderInv'
<1>1. /\ UNCHANGED <<storeFile, indexFile, faults>>
      /\ status' = "down" /\ heap' = <<>> /\ segments' = <<>> /\ mu' = NoThread
      /\ \A t \in Threads : pc'[t] = "idle"
      /\ DOMAIN heap' = {}
  BY DEF Die, disk
<1>2. ControlOK' /\ HeapOrdered' /\ CloseOK' /\ SetupOK' /\ ObjectsFit'
  BY <1>1 DEF OrderInv, ControlOK, HeapOrdered, CloseOK, SetupOK, ObjectsFit, Truncating
<1>3. ListOK' /\ RollOK' /\ LoopOK'
  BY <1>1, ElementsOfEmpty DEF ListOK, RollOK, LoopOK, Truncating, Rolling
<1>4. FilesOK' /\ ObjectFiles'
  BY <1>1 DEF OrderInv, FilesOK, ObjectFiles
<1> QED BY <1>2, <1>3, <1>4 DEF OrderInv

LEMMA CloseBeginOrder ==
    ASSUME Inv, Inv', OrderInv, CloseBegin
    PROVE  OrderInv'
<1>1. /\ status = "up" /\ \A t \in Threads : pc[t] = "idle"
      /\ status' = "closing" /\ pending' = segments
      /\ UNCHANGED <<storeFile, indexFile, heap, segments, active, mu, todo, pc, local, faults>>
  BY DEF CloseBegin, disk, log, threads
<1>2. \A t \in Threads : ~ Rolling(t) /\ ~ Truncating(t)
  BY <1>1 DEF Rolling, Truncating
<1>3. HeapOrdered' /\ FilesOK' /\ ObjectsFit' /\ ControlOK'
  BY <1>1 DEF OrderInv, HeapOrdered, FilesOK, ObjectsFit, ControlOK, Truncating
<1>4. ListOK' /\ SetupOK' /\ RollOK' /\ LoopOK'
  BY <1>1 DEF OrderInv, ListOK, SetupOK, RollOK, LoopOK, Rolling, Truncating
<1>5. CloseOK'
  BY <1>1, <1>2 DEF OrderInv, ListOK, CloseOK, AllOpen, IsOpen, Holding
<1>6. ObjectFiles'
  BY <1>1 DEF OrderInv, ObjectFiles, Creating, Removing
<1> QED BY <1>3, <1>4, <1>5, <1>6 DEF OrderInv

LEMMA StutterOrder == ASSUME OrderInv, UNCHANGED vars PROVE OrderInv'
<1>1. UNCHANGED <<storeFile, indexFile, heap, segments, active, mu, status, todo, pending,
                  pc, local, faults>>
  BY DEF vars, disk, log, process, threads, bounds
<1>2. HeapOrdered' /\ FilesOK' /\ ObjectsFit' /\ SetupOK'
  BY <1>1, DiskAndHeapKept DEF disk
<1>3. ControlOK' /\ LoopOK' /\ CloseOK'
  BY <1>1 DEF OrderInv, ControlOK, LoopOK, CloseOK, BaseAt, Truncating, AllOpen, IsOpen, Holding
<1>4. ListOK' /\ RollOK'
  BY <1>1 DEF OrderInv, ListOK, RollOK, Truncating, Rolling, AllOpen, IsOpen, Holding
<1>5. ObjectFiles'
  BY <1>1 DEF OrderInv, ObjectFiles, Creating, Removing, BaseAt
<1> QED BY <1>2, <1>3, <1>4, <1>5 DEF OrderInv

LEMMA InitOrder == Init => OrderInv
<1> SUFFICES ASSUME Init PROVE OrderInv
  OBVIOUS
<1>1. /\ storeFile = <<>> /\ indexFile = <<>> /\ heap = <<>> /\ segments = <<>>
      /\ status = "down" /\ mu = NoThread /\ faults = 0
      /\ \A t \in Threads : pc[t] = "idle"
      /\ DOMAIN heap = {} /\ DOMAIN storeFile = {} /\ DOMAIN indexFile = {}
  BY DEF Init
<1>2. ControlOK /\ HeapOrdered /\ CloseOK /\ SetupOK /\ ObjectsFit
  BY <1>1 DEF ControlOK, HeapOrdered, CloseOK, SetupOK, ObjectsFit, Truncating
<1>3. ListOK /\ RollOK /\ LoopOK
  BY <1>1, ElementsOfEmpty DEF ListOK, RollOK, LoopOK, Truncating, Rolling
<1>4. FilesOK /\ ObjectFiles
  BY <1>1 DEF FilesOK, ObjectFiles
<1> QED BY <1>2, <1>3, <1>4 DEF OrderInv

(* An open object takes or writes out chunks: nothing else changes place.  *)
LEMMA ObjectWritten ==
    ASSUME Inv, Inv', OrderInv, status \in {"up", "closing"},
           NEW p \in DOMAIN heap, heap[p].files # "closed",
           NEW o \in SegmentObject, heap' = [heap EXCEPT ![p] = o],
           NEW b, b = heap[p].baseOffset, b \in DOMAIN indexFile,
           o.baseOffset = b,
           o.nextOffset = heap[p].nextOffset \/ p = Len(heap),
           NEW chunks \in Seq(Chunk), storeFile' = Grown(storeFile, b, chunks),
           Len(storeFile[b]) + Len(chunks) + Len(o.buf) = o.size,
           o.indexSize = 0 => o.nextOffset = b,
           (\A c \in DOMAIN storeFile : c <= b) /\ o.indexSize = 0 => o.size = 0,
           DOMAIN indexFile' = DOMAIN indexFile,
           \A c \in DOMAIN indexFile \ {b} : indexFile'[c] = indexFile[c],
           IndexFits(o, indexFile'[b]), Len(indexFile'[b]) <= MaxIndexBytes,
           indexFile' = indexFile \/ p = Len(heap),
           Contents(indexFile', b) = <<>> => o.indexSize = 0
    PROVE  HeapOrdered' /\ FilesOK' /\ ObjectsFit'
<1>1. b \in DOMAIN storeFile /\ storeFile[b] \in Seq(Chunk) /\ o.buf \in Seq(Chunk)
  BY DEF OrderInv, FilesOK, Inv, TypeOK, DiskOK, FileOf, SegmentObject, SegmentRecord
<1>2. /\ storeFile[b] \o chunks \in Seq(Chunk)
      /\ Len(storeFile[b] \o chunks) = Len(storeFile[b]) + Len(chunks)
  BY <1>1, ConcatProperties
<1>3. /\ DOMAIN storeFile' = DOMAIN storeFile
      /\ storeFile'[b] = storeFile[b] \o chunks
      /\ \A c \in DOMAIN storeFile \ {b} : storeFile'[c] = storeFile[c]
  BY <1>1 DEF Grown
<1>4. HeapOrdered'
  BY OrderChanged DEF Inv, TypeOK, OrderInv
<1>5. Fits(o, storeFile', indexFile')
  BY <1>2, <1>3 DEF Fits
<1>6. ObjectsFit'
  BY <1>3, <1>5, OthersFit
<1>7. FilesOK'
  <2>1. \A c \in DOMAIN indexFile' : Len(indexFile'[c]) <= MaxIndexBytes
    BY DEF OrderInv, FilesOK
  <2>2. ASSUME NEW c \in DOMAIN indexFile', NEW d \in DOMAIN storeFile', c < d
        PROVE  EndOf(indexFile'[c], c) <= d
    <3>1. CASE indexFile'[c] = indexFile[c]
      BY <1>3, <2>2, <3>1 DEF OrderInv, FilesOK
    <3>2. CASE c = b /\ p = Len(heap)
      <4>1. d <= b /\ d \in Nat /\ b \in Nat
        BY <1>1, <1>3, <3>2, NewestIsTop DEF Inv, TypeOK, DiskOK, FileOf
      <4> QED BY <2>2, <3>2, <4>1
    <3> QED BY <3>1, <3>2
  <2>3. ASSUME NEW c \in DOMAIN storeFile',
               \A d \in DOMAIN storeFile' : d <= c, Contents(indexFile', c) = <<>>
        PROVE  storeFile'[c] = <<>>
    <3>1. CASE c = b
      <4>1. o.size = 0
        BY <1>3, <2>3, <3>1
      <4>2. Len(storeFile'[b]) = 0 /\ storeFile'[b] \in Seq(Chunk)
        <5>1. Len(storeFile[b]) \in Nat /\ Len(chunks) \in Nat /\ Len(o.buf) \in Nat
          BY <1>1, LenProperties
        <5>2. \A k, l, m \in Nat : k + l + m = 0 => k + l = 0
          OBVIOUS
        <5>3. Len(storeFile[b]) + Len(chunks) = 0
          BY <4>1, <5>1, <5>2, Zenon
        <5> QED BY <1>2, <1>3, <5>3
      <4> QED BY <3>1, <4>2, EmptySeq
    <3>2. CASE c # b
      BY <1>3, <2>3, <3>2 DEF OrderInv, FilesOK, Contents
    <3> QED BY <3>1, <3>2
  <2>4. \A c, d \in DOMAIN storeFile' \ DOMAIN indexFile' : c = d
    BY <1>3 DEF OrderInv, FilesOK
  <2>5. DOMAIN indexFile' \subseteq DOMAIN storeFile'
    BY <1>3 DEF OrderInv, FilesOK
  <2> QED BY <2>1, <2>2, <2>3, <2>4, <2>5 DEF FilesOK
<1> QED BY <1>4, <1>6, <1>7

(* No file and no object comes or goes.                                    *)
LEMMA ObjectFilesKept ==
    ASSUME ObjectFiles, status' = status,
           DOMAIN storeFile' = DOMAIN storeFile, DOMAIN indexFile' = DOMAIN indexFile,
           DOMAIN heap' = DOMAIN heap,
           \A q \in DOMAIN heap :
              /\ heap'[q].files = "closed" <=> heap[q].files = "closed"
              /\ heap'[q].baseOffset = heap[q].baseOffset,
           \A b : Creating(b) => Creating(b)',
           \A b : Removing(b) => Removing(b)'
    PROVE  ObjectFiles'
<1>1. /\ \A p \in DOMAIN heap' : heap'[p].files # "closed" =>
           /\ heap'[p].baseOffset \in DOMAIN storeFile'
           /\ heap'[p].baseOffset \in DOMAIN indexFile' \/ Creating(heap[p].baseOffset)
      /\ status' = "up" => \A p \in DOMAIN heap' :
           heap'[p].files = "closed"
             /\ heap'[p].baseOffset \in DOMAIN storeFile' \cup DOMAIN indexFile'
           => Removing(heap[p].baseOffset)
  BY DEF ObjectFiles
<1>2. ASSUME NEW p \in DOMAIN heap', NEW b, b = heap[p].baseOffset
      PROVE  /\ Creating(b) => Creating(heap[p].baseOffset)'
             /\ Removing(b) => Removing(heap[p].baseOffset)'
  <2>1. b = heap'[p].baseOffset
    BY <1>2
  <2>2. (Creating(b) => Creating(b)') /\ (Removing(b) => Removing(b)')
    OBVIOUS
  <2>3. /\ Creating(b)' => Creating(heap[p].baseOffset)'
        /\ Removing(b)' => Removing(heap[p].baseOffset)'
    BY <2>1 DEF Creating, Removing
  <2> QED BY <2>2, <2>3
<1>3. status' \in {"up", "closing"} =>
         /\ \A b \in DOMAIN storeFile' : \E p \in DOMAIN heap' : heap'[p].baseOffset = b
         /\ \A b \in DOMAIN storeFile' \ DOMAIN indexFile' : Removing(b)' \/ Creating(b)'
  BY DEF ObjectFiles
<1> QED BY <1>1, <1>2, <1>3 DEF ObjectFiles

(* The chunks that bufio writes out and those it keeps.                    *)
LEMMA BufferSplit ==
    ASSUME NEW file \in Seq(Chunk), NEW buf \in Seq(Chunk), NEW n \in 0 .. Len(buf)
    PROVE  LET out == SubSeq(buf, 1, n)
               kept == SubSeq(buf, n + 1, Len(buf))
           IN  /\ out \in Seq(Chunk) /\ kept \in Seq(Chunk)
               /\ (file \o out) \o kept = file \o buf
               /\ Len(file) + Len(out) + Len(kept) = Len(file) + Len(buf)
<1> DEFINE out  == SubSeq(buf, 1, n)
           kept == SubSeq(buf, n + 1, Len(buf))
<1>1. Len(buf) \in Nat /\ n \in Nat
  BY LenProperties
<1>2. out \in Seq(Chunk) /\ kept \in Seq(Chunk)
  BY <1>1, SubSeqProperties, ElementOfSeq, LenProperties
<1>3. out \o kept = buf
  <2>1. 1 \in 1 .. Len(buf) + 1 /\ n \in 1 - 1 .. Len(buf) /\ Len(buf) \in n .. Len(buf)
    BY <1>1
  <2>2. SubSeq(buf, 1, n) \o SubSeq(buf, n + 1, Len(buf)) = SubSeq(buf, 1, Len(buf))
    BY <2>1, ConcatAdjacentSubSeq, Zenon
  <2>3. SubSeq(buf, 1, Len(buf)) = buf
    BY SubSeqFull
  <2> QED BY <2>2, <2>3
<1> HIDE DEF out, kept
<1>4. (file \o out) \o kept = file \o buf
  <2>1. (file \o out) \o kept = file \o (out \o kept)
    BY <1>2, ConcatAssociative
  <2> QED BY <1>3, <2>1
<1>5. Len(out) + Len(kept) = Len(buf)
  BY <1>2, <1>3, ConcatProperties
<1>6. Len(file) \in Nat /\ Len(out) \in Nat /\ Len(kept) \in Nat
  BY <1>2, LenProperties
<1>7. Len(file) + Len(out) + Len(kept) = Len(file) + Len(buf)
  BY <1>1, <1>5, <1>6
<1> QED BY <1>2, <1>4, <1>7 DEF out, kept

LEMMA AppendWriteOrder ==
    ASSUME Sequential, Inv, Inv', OrderInv, NEW t \in Appenders, NEW r \in Records,
           AppendWrite(t, r)
    PROVE  OrderInv'
<1> DEFINE s    == heap[active]
           base == s.baseOffset
           ix   == indexFile[base]
<1>1. t \in Threads
  BY DEF Threads
<1>2. /\ Steps(t, "write", "idle", Blank)
      /\ UNCHANGED <<segments, active, mu, status, todo, pending, faults>>
  BY DEF AppendWrite, process, bounds
<1>3. /\ \A u \in Threads : u = t
      /\ pc[t] = "write" /\ status = "up" /\ pc'[t] = "idle"
  BY <1>1, <1>2, OnlyThread DEF Inv, TypeOK
<1>4. /\ active = Len(heap) /\ active \in DOMAIN heap
      /\ s \in SegmentObject /\ s.files = "open"
  BY <1>3, ActiveIsLast DEF Rolling, OrderInv, IsOpen
<1>5. /\ base \in DOMAIN indexFile /\ base \in DOMAIN storeFile
      /\ ix \in Seq(Entry) /\ storeFile[base] \in Seq(Chunk)
      /\ Fits(s, storeFile, indexFile) /\ IndexFits(s, ix)
  <2>1. base \in DOMAIN storeFile /\ (base \in DOMAIN indexFile \/ Creating(base))
    BY <1>4 DEF OrderInv, ObjectFiles
  <2>2. base \in DOMAIN indexFile
    BY <1>3, <2>1 DEF Creating
  <2>3. Fits(s, storeFile, indexFile)
    BY <1>4 DEF OrderInv, ObjectsFit
  <2> QED BY <2>1, <2>2, <2>3 DEF Fits, Inv, TypeOK, DiskOK, FileOf
<1>6. Len(ix) = MaxIndexBytes /\ ix # <<>>
  <2>1. Len(ix) = MaxIndexBytes
    BY <1>4, <1>5 DEF IndexFits
  <2> QED BY <1>5, <2>1, EmptySeq, SegmentAssumption
<1>7. PICK n \in SpillSizes \cap 0 .. Len(s.buf) + 2 :
        IF IndexIsMaxed(s)
        THEN /\ StoreWrite(StoreAppended(s, r), n)
             /\ UNCHANGED <<indexFile, acked>>
        ELSE /\ StoreWrite(Appended(s, r), n)
             /\ indexFile' =
                  [b \in DOMAIN indexFile |->
                     IF b = s.baseOffset
                     THEN Written(indexFile[b], s.indexSize + 1, NewEntry(s))
                     ELSE indexFile[b]]
             /\ acked' = acked \cup {[off |-> s.nextOffset, val |-> r]}
  BY DEF AppendWrite
<1>8. PICK w \in SegmentObject :
        /\ StoreWrite(w, n) /\ w.files = "open"
        /\ w.baseOffset = base /\ w.size = s.size + 2
        /\ w.buf = s.buf \o Framed(s, r)
        /\ \/ /\ IndexIsMaxed(s) /\ indexFile' = indexFile
              /\ w.indexSize = s.indexSize /\ w.nextOffset = s.nextOffset
           \/ /\ ~ IndexIsMaxed(s)
              /\ indexFile' = [b \in DOMAIN indexFile |->
                                 IF b = base
                                 THEN Written(indexFile[b], s.indexSize + 1, NewEntry(s))
                                 ELSE indexFile[b]]
              /\ w.indexSize = s.indexSize + 1 /\ w.nextOffset = s.nextOffset + 1
  <2>1. CASE IndexIsMaxed(s)
    <3>1. StoreAppended(s, r) \in SegmentObject
      BY <1>4, StoreAppendedType
    <3> QED BY <1>4, <1>7, <2>1, <3>1 DEF StoreAppended, SegmentObject, SegmentRecord
  <2>2. CASE ~ IndexIsMaxed(s)
    <3>1. Appended(s, r) \in SegmentObject
      BY <1>4, AppendedType
    <3>2. /\ Appended(s, r).files = "open" /\ Appended(s, r).baseOffset = base
          /\ Appended(s, r).size = s.size + 2
          /\ Appended(s, r).buf = s.buf \o Framed(s, r)
          /\ Appended(s, r).indexSize = s.indexSize + 1
          /\ Appended(s, r).nextOffset = s.nextOffset + 1
      BY <1>4 DEF Appended, StoreAppended, SegmentObject, SegmentRecord
    <3> QED BY <1>7, <2>2, <3>1, <3>2
  <2> QED BY <2>1, <2>2
<1> DEFINE out  == SubSeq(w.buf, 1, n)
           kept == SubSeq(w.buf, n + 1, Len(w.buf))
           o    == [w EXCEPT !.buf = kept]
           ix2  == indexFile'[base]
<1>9. /\ w.buf \in Seq(Chunk) /\ Len(w.buf) = Len(s.buf) + 2 /\ n \in 0 .. Len(w.buf)
      /\ Len(s.buf) \in Nat
  <2>1. s.buf \in Seq(Chunk) /\ w.buf \in Seq(Chunk)
    BY <1>4 DEF SegmentObject, SegmentRecord
  <2>2. Len(s.buf \o Framed(s, r)) = Len(s.buf) + 2
    BY <1>4, <2>1, FramedType, ConcatProperties DEF Framed
  <2> QED BY <1>8, <2>1, <2>2, LenProperties
<1>10. /\ out \in Seq(Chunk) /\ kept \in Seq(Chunk)
       /\ Len(storeFile[base]) + Len(out) + Len(kept) = Len(storeFile[base]) + Len(w.buf)
  <2> HIDE DEF base
  <2> QED BY <1>5, <1>9, BufferSplit
<1>11. /\ heap' = [heap EXCEPT ![active] = o]
       /\ storeFile' = Grown(storeFile, base, out)
  BY <1>8 DEF StoreWrite
<1>12. /\ o \in SegmentObject /\ o.files = "open" /\ o.baseOffset = base
       /\ o.size = s.size + 2 /\ o.buf = kept
       /\ o.indexSize = w.indexSize /\ o.nextOffset = w.nextOffset
  BY <1>8, <1>10 DEF SegmentObject, SegmentRecord
<1>13. Len(storeFile[base]) + Len(out) + Len(o.buf) = o.size
  <2>1. Len(storeFile[base]) \in Nat
    BY <1>5, LenProperties
  <2>2. s.size = Len(storeFile[base]) + Len(s.buf)
    BY <1>5 DEF Fits
  <2>3. \A k, l \in Nat : k + (l + 2) = (k + l) + 2
    OBVIOUS
  <2>4. Len(storeFile[base]) + Len(w.buf) = s.size + 2
    BY <1>9, <2>1, <2>2, <2>3, Zenon
  <2> QED BY <1>10, <1>12, <2>4
<1>14. /\ DOMAIN indexFile' = DOMAIN indexFile
       /\ \A c \in DOMAIN indexFile \ {base} : indexFile'[c] = indexFile[c]
  BY <1>8
<1>15. /\ IndexFits(o, ix2) /\ o.indexSize # 0
       /\ Len(ix2) = MaxIndexBytes /\ ix2 # <<>>
  <2> HIDE DEF o, ix
  <2>1. CASE IndexIsMaxed(s) /\ indexFile' = indexFile
             /\ w.indexSize = s.indexSize /\ w.nextOffset = s.nextOffset
    <3>1. IndexFits(o, ix)
      BY <1>4, <1>5, <1>12, <2>1 DEF IndexFits
    <3>2. o.indexSize # 0
      BY <1>4, <1>12, <2>1, SegmentAssumption DEF IndexIsMaxed, SegmentObject, SegmentRecord
    <3> QED BY <1>6, <2>1, <3>1, <3>2 DEF ix
  <2>2. CASE /\ ~ IndexIsMaxed(s)
             /\ indexFile' = [b \in DOMAIN indexFile |->
                                 IF b = base
                                 THEN Written(indexFile[b], s.indexSize + 1, NewEntry(s))
                                 ELSE indexFile[b]]
             /\ w.indexSize = s.indexSize + 1 /\ w.nextOffset = s.nextOffset + 1
    <3> DEFINE k == s.indexSize + 1
               e == NewEntry(s)
    <3>1. ix2 = Written(ix, k, e)
      BY <1>5, <2>2 DEF ix
    <3>2. k \in 1 .. MaxIndexBytes /\ s.indexSize \in Nat
      BY <1>4, <2>2, SegmentAssumption DEF IndexIsMaxed, SegmentObject, SegmentRecord
    <3>3. DOMAIN ix = 1 .. MaxIndexBytes /\ Len(ix) \in Nat
      BY <1>5, <1>6, LenProperties
    <3>4. e \in Entry
      BY <1>4, NewEntryType
    <3>5. e.off = s.nextOffset - base
      BY DEF NewEntry
    <3> HIDE DEF e
    <3>6. ix2 = [ix EXCEPT ![k] = e]
      BY <3>1, <3>2, <3>3 DEF Written
    <3> HIDE DEF k
    <3>7. /\ ix2 \in Seq(Entry) /\ Len(ix2) = Len(ix) /\ ix2[k] = e
          /\ \A i \in 1 .. Len(ix) : i # k => ix2[i] = ix[i]
      BY <1>5, <1>6, <3>2, <3>3, <3>4, <3>6, ExceptSeq
    <3>8. base + ix2[k].off + 1 = o.nextOffset
      <4>1. base \in Nat /\ s.nextOffset \in Nat
        BY <1>4 DEF SegmentObject, SegmentRecord
      <4>2. ix2[k].off = s.nextOffset - base /\ o.nextOffset = s.nextOffset + 1
        BY <1>12, <2>2, <3>5, <3>7
      <4> HIDE DEF base, ix2
      <4> QED BY <4>1, <4>2
    <3>9. EndOf(ix2, base) <= o.nextOffset \/ EndOf(ix2, base) <= base + 1
      <4>0. ix2 # <<>>
        BY <1>6, <3>7, EmptySeq, SegmentAssumption
      <4>1. CASE k = Len(ix)
        <5>1. EndOf(ix2, base) = o.nextOffset
          BY <3>7, <3>8, <4>0, <4>1 DEF EndOf
        <5> QED BY <1>12, <5>1 DEF SegmentObject, SegmentRecord
      <4>2. CASE k # Len(ix)
        <5>1. Len(ix) \in 1 .. Len(ix)
          BY <1>6, <3>3, SegmentAssumption
        <5>2. EndOf(ix2, base) = EndOf(ix, base)
          BY <1>6, <3>7, <4>0, <4>2, <5>1 DEF EndOf
        <5>3. EndOf(ix, base) \in Nat /\ base \in Nat
          BY <1>4, <1>5, EndOfType DEF SegmentObject, SegmentRecord
        <5>4. EndOf(ix, base) <= s.nextOffset \/ EndOf(ix, base) <= base + 1
          BY <1>5 DEF IndexFits
        <5> QED BY <1>4, <1>12, <2>2, <5>2, <5>3, <5>4 DEF SegmentObject, SegmentRecord
      <4> QED BY <4>1, <4>2
    <3>10. Len(ix2) = MaxIndexBytes /\ ix2 # <<>>
      BY <1>6, <3>7, EmptySeq, SegmentAssumption
    <3>11. o.indexSize = k /\ k <= MaxIndexBytes
      BY <1>12, <2>2, <3>2 DEF k
    <3>12. IndexFits(o, ix2)
      BY <1>12, <3>8, <3>9, <3>10, <3>11 DEF IndexFits
    <3> QED BY <3>2, <3>10, <3>11, <3>12
  <2> QED BY <1>8, <2>1, <2>2
<1>16. Contents(indexFile', base) # <<>>
  BY <1>5, <1>14, <1>15 DEF Contents
<1> HIDE DEF s, base, ix, out, kept, o, ix2
<1>17. HeapOrdered' /\ FilesOK' /\ ObjectsFit'
  <2>1. base = heap[active].baseOffset /\ heap[active].files # "closed"
    BY <1>4 DEF s, base
  <2>2. IndexFits(o, indexFile'[base]) /\ Len(indexFile'[base]) <= MaxIndexBytes
    BY <1>15, SegmentAssumption DEF ix2
  <2>3. active \in DOMAIN heap /\ active = Len(heap) /\ status = "up"
    BY <1>3, <1>4
  <2> QED BY <1>5, <1>10, <1>11, <1>12, <1>13, <1>14, <1>15, <1>16, <2>1, <2>2, <2>3,
             ObjectWritten
<1>18. /\ DOMAIN heap' = DOMAIN heap /\ Len(heap') = Len(heap) /\ heap' # <<>>
       /\ DOMAIN storeFile' = DOMAIN storeFile
       /\ \A q \in DOMAIN heap : /\ heap'[q].files = heap[q].files
                                 /\ heap'[q].baseOffset = heap[q].baseOffset
  <2>1. /\ DOMAIN heap' = DOMAIN heap /\ Len(heap') = Len(heap) /\ heap' # <<>>
        /\ heap'[active] = o
        /\ \A q \in DOMAIN heap : q # active => heap'[q] = heap[q]
    BY <1>4, <1>11, <1>12, HeapChanged DEF Inv, TypeOK
  <2> QED BY <1>4, <1>11, <1>12, <2>1 DEF Grown, s, base
<1>19. ControlOK' /\ LoopOK' /\ CloseOK' /\ SetupOK' /\ RollOK'
  BY <1>2, <1>3, <1>18
     DEF OrderInv, ControlOK, LoopOK, CloseOK, SetupOK, RollOK, Truncating, Rolling
<1>20. ListOK'
  <2>1. Elements(segments) \subseteq DOMAIN heap
    BY ElementsType DEF Inv, TypeOK, LogOK
  <2> QED BY <1>2, <1>3, <1>4, <1>18, <2>1
          DEF OrderInv, ListOK, Truncating, Rolling, Holding, AllOpen, IsOpen
<1>21. ObjectFiles'
  <2>1. \A b : ~ Creating(b) /\ ~ Removing(b)
    BY <1>3 DEF Creating, Removing
  <2> QED BY <1>2, <1>14, <1>18, <2>1, ObjectFilesKept DEF OrderInv
<1> QED BY <1>17, <1>19, <1>20, <1>21 DEF OrderInv

LEMMA ReadOrder ==
    ASSUME Inv, Inv', OrderInv, NEW off, Read(off)
    PROVE  OrderInv'
<1>1. PICK p \in Found(off) :
        /\ heap[p].files = "open"
        /\ heap' = [heap EXCEPT ![p] = Flushed(heap[p])]
        /\ storeFile' = Grown(storeFile, heap[p].baseOffset, heap[p].buf)
  BY DEF Read
<1>2. /\ status = "up" /\ mu = NoThread
      /\ UNCHANGED <<indexFile, segments, active, mu, status, todo, pending, pc, local, faults>>
  BY DEF Read, process, threads, bounds
<1>3. p \in Elements(segments)
  BY DEF Found, Holders, Elements
<1>4. Elements(segments) \subseteq DOMAIN heap
  BY ElementsType DEF Inv, TypeOK, LogOK
<1> DEFINE s == heap[p]
           b == s.baseOffset
           o == Flushed(s)
<1>5. p \in DOMAIN heap /\ s \in SegmentObject /\ s.files = "open"
  BY <1>1, <1>3, <1>4, Dereference DEF Inv, TypeOK
<1>6. b \in DOMAIN indexFile
  <2>1. ASSUME NEW u \in Threads, pc[u] = "index", b = heap[local[u].fresh].baseOffset
        PROVE  FALSE
    <3>1. local[u].fresh = Len(heap) /\ p < Len(heap) /\ Len(heap) \in DOMAIN heap
      BY <1>2, <1>3, <2>1, NewestIsTop DEF OrderInv, RollOK, Rolling
    <3>2. p # Len(heap)
      BY <1>5, <3>1, PointersAreNumbers DEF Inv, TypeOK
    <3> QED BY <1>5, <2>1, <3>1, <3>2, BasesDiffer DEF Inv, TypeOK, OrderInv
  <2> QED BY <1>5, <2>1 DEF OrderInv, ObjectFiles, Creating
<1>7. /\ b \in DOMAIN storeFile /\ storeFile[b] \in Seq(Chunk)
      /\ indexFile[b] \in Seq(Entry)
      /\ Fits(s, storeFile, indexFile) /\ IndexFits(s, indexFile[b])
  BY <1>5, <1>6 DEF OrderInv, FilesOK, ObjectsFit, Fits, Inv, TypeOK, DiskOK, FileOf
<1>8. /\ o \in SegmentObject /\ o.buf = <<>> /\ o.baseOffset = b
      /\ o.nextOffset = s.nextOffset /\ o.size = s.size
      /\ o.indexSize = s.indexSize /\ o.files = "open" /\ s.buf \in Seq(Chunk)
  BY <1>5, EmptiedType DEF Flushed, SegmentObject, SegmentRecord
<1>9. Len(storeFile[b]) + Len(s.buf) + Len(o.buf) = o.size
  <2>1. Len(storeFile[b]) \in Nat /\ Len(s.buf) \in Nat /\ Len(o.buf) = 0
    BY <1>7, <1>8, LenProperties, EmptySeq
  <2>2. \A k, l \in Nat : k + l + 0 = k + l
    OBVIOUS
  <2> QED BY <1>7, <1>8, <2>1, <2>2, Zenon DEF Fits
<1>10. IndexFits(o, indexFile[b]) /\ Len(indexFile[b]) = MaxIndexBytes
  BY <1>5, <1>7, <1>8 DEF IndexFits
<1>11. Contents(indexFile, b) # <<>>
  BY <1>6, <1>7, <1>10, EmptySeq, SegmentAssumption DEF Contents
<1>12. o.indexSize = 0 => o.nextOffset = b
  BY <1>7, <1>8 DEF Fits
<1>13. (\A c \in DOMAIN storeFile : c <= b) /\ o.indexSize = 0 => o.size = 0
  BY <1>7, <1>8 DEF Fits
<1>14. heap[p].files # "closed" /\ b = heap[p].baseOffset /\ s = heap[p]
  BY <1>5
<1> HIDE DEF s, b, o
<1>15. heap' = [heap EXCEPT ![p] = o] /\ storeFile' = Grown(storeFile, b, s.buf)
  BY <1>1 DEF s, b, o
<1>16. HeapOrdered' /\ FilesOK' /\ ObjectsFit'
  <2>1. Len(indexFile'[b]) <= MaxIndexBytes /\ MaxIndexBytes \in Nat
    BY <1>2, <1>10, SegmentAssumption
  <2> QED BY <1>2, <1>5, <1>6, <1>8, <1>9, <1>10, <1>11, <1>12, <1>13, <1>14, <1>15,
             <2>1, ObjectWritten
<1>17. /\ DOMAIN heap' = DOMAIN heap /\ Len(heap') = Len(heap) /\ heap' # <<>>
       /\ DOMAIN storeFile' = DOMAIN storeFile
       /\ \A q \in DOMAIN heap :
             /\ heap'[q].files = heap[q].files
             /\ heap'[q].baseOffset = heap[q].baseOffset
             /\ heap'[q].nextOffset = heap[q].nextOffset
             /\ heap'[q].indexSize = heap[q].indexSize
  <2>1. /\ DOMAIN heap' = DOMAIN heap /\ Len(heap') = Len(heap) /\ heap' # <<>>
        /\ heap'[p] = o
        /\ \A q \in DOMAIN heap : q # p => heap'[q] = heap[q]
    BY <1>5, <1>8, <1>15, HeapChanged DEF Inv, TypeOK
  <2> QED BY <1>5, <1>8, <1>14, <1>15, <2>1 DEF Grown
<1>18. \A t \in Threads : ~ Truncating(t)
  BY <1>2, CommitLogAssumption DEF OrderInv, ControlOK
<1>19. ControlOK' /\ LoopOK' /\ CloseOK' /\ SetupOK'
  BY <1>2, <1>17, <1>18 DEF OrderInv, ControlOK, LoopOK, CloseOK, SetupOK, Truncating
<1>20. active \in DOMAIN heap /\ Len(heap) \in DOMAIN heap
  <2>1. active \in Elements(segments)
    BY <1>2 DEF OrderInv, ListOK
  <2> QED BY <1>2, <1>4, <2>1, NewestIsTop
<1>21. ListOK'
  BY <1>2, <1>4, <1>17, <1>20
     DEF OrderInv, ListOK, Truncating, Rolling, Holding, AllOpen, IsOpen
<1>22. RollOK'
  BY <1>2, <1>17, <1>20 DEF OrderInv, RollOK, Rolling, Holding, IsOpen
<1>23. ObjectFiles'
  <2>1. \A u \in Threads : pc[u] = "index" => local[u].fresh = Len(heap)
    BY DEF OrderInv, RollOK, Rolling
  <2>2. ASSUME NEW c, Creating(c) PROVE Creating(c)'
    BY <1>2, <1>17, <1>20, <2>1, <2>2 DEF Creating
  <2>3. \A c : ~ Removing(c)
    BY <1>18 DEF Removing, Truncating
  <2> QED BY <1>2, <1>17, <2>2, <2>3, ObjectFilesKept DEF OrderInv
<1> QED BY <1>16, <1>19, <1>21, <1>22, <1>23 DEF OrderInv

LEMMA AppendPanicNever ==
    ASSUME Sequential, Inv, OrderInv, NEW t \in Appenders, AppendPanic(t)
    PROVE  FALSE
<1>1. /\ status = "up" /\ segments = <<>> /\ pc[t] = "idle" /\ t \in Threads
  BY DEF AppendPanic, Threads
<1>2. \A u \in Threads : ~ Rolling(u)
  BY <1>1 DEF Sequential, Rolling
<1> QED BY <1>1, <1>2, ActiveIsLast DEF OrderInv

LEMMA TruncateBeginOrder ==
    ASSUME Sequential, Inv, Inv', OrderInv, NEW t \in Truncators, NEW low \in Nat,
           TruncateBegin(t, low)
    PROVE  OrderInv'
<1> DEFINE c == [Blank EXCEPT !.low = low, !.left = segments]
<1>1. t \in Threads
  BY DEF Threads
<1>2. /\ Steps(t, "idle", "truncate", c)
      /\ mu' = t /\ low + TrailingLogs <= HighestOffset
      /\ UNCHANGED <<storeFile, indexFile, heap, segments, active, status, todo, pending, faults>>
  BY DEF TruncateBegin, disk, log, process, bounds
<1>3. /\ \A u \in Threads : u = t
      /\ pc[t] = "idle" /\ status = "up" /\ pc'[t] = "truncate"
      /\ local'[t].low = low /\ local'[t].left = segments /\ local'[t].list = <<>>
  <2>1. c.low = low /\ c.left = segments /\ c.list = <<>>
    BY DEF Blank
  <2> HIDE DEF c
  <2> QED BY <1>1, <1>2, <2>1, OnlyThread DEF Inv, TypeOK
<1> HIDE DEF c
<1>4. /\ active \in DOMAIN heap /\ heap[active] \in SegmentObject
      /\ Last(segments) = active
  BY <1>3, ActiveIsLast DEF Rolling, OrderInv
<1>5. low + 2 <= heap[active].nextOffset
  <2>1. TrailingLogs \in Nat /\ TrailingLogs # 0
    BY CommitLogAssumption DEF Sequential
  <2>2. heap[active].nextOffset \in Nat
    BY <1>4 DEF SegmentObject, SegmentRecord
  <2> QED BY <1>2, <1>4, <2>1, <2>2 DEF HighestOffset
<1>6. HeapOrdered' /\ FilesOK' /\ ObjectsFit' /\ SetupOK'
  BY <1>2, DiskAndHeapKept DEF disk
<1>7. ControlOK' /\ CloseOK'
  BY <1>1, <1>2, <1>3 DEF OrderInv, ControlOK, CloseOK, Truncating
<1>8. /\ AllOpen(segments) /\ Increasing(segments) /\ Holding(Elements(segments))
  BY <1>3 DEF OrderInv, ListOK, Truncating
<1>9. ListOK'
  BY <1>2, <1>3 DEF OrderInv, ListOK, Truncating, Rolling, Holding, AllOpen, IsOpen
<1>10. RollOK'
  BY <1>2, <1>3 DEF RollOK, Rolling
<1>11. LoopOK'
  BY <1>2, <1>3, <1>5, <1>8, ElementsOfEmpty
     DEF LoopOK, AllOpen, IsOpen, Holding
<1>12. ObjectFiles'
  BY <1>2, <1>3 DEF OrderInv, ObjectFiles, Creating, Removing
<1> QED BY <1>6, <1>7, <1>9, <1>10, <1>11, <1>12 DEF OrderInv

(* What a step of the loop of Truncate starts from.                        *)
LEMMA LoopState ==
    ASSUME Sequential, Inv, OrderInv, NEW t \in Threads, Truncating(t)
    PROVE  LET list == local[t].list
               left == local[t].left
           IN  /\ \A u \in Threads : u = t
               /\ status = "up" /\ mu = t
               /\ active = Len(heap) /\ active \in DOMAIN heap /\ IsOpen(active)
               /\ heap[active] \in SegmentObject
               /\ active \in Elements(segments)
               /\ \A p \in DOMAIN heap :
                     heap[p].files = "half" => pc[t] = "flush" /\ p = Head(left)
               /\ local[t] \in LocalOf(DOMAIN heap)
               /\ list \in Seq(DOMAIN heap) /\ left \in Seq(DOMAIN heap)
               /\ list \in Seq(Nat) /\ left \in Seq(Nat)
               /\ Elements(list) \subseteq DOMAIN heap /\ Elements(left) \subseteq DOMAIN heap
               /\ Increasing(list) /\ Increasing(left) /\ AllOpen(list)
               /\ \A p \in Elements(list), q \in Elements(left) : p < q
               /\ Holding(Elements(list) \cup Elements(left))
               /\ pc[t] = "truncate" => AllOpen(left)
               /\ pc[t] # "truncate" =>
                    /\ left # <<>> /\ ~ IsOpen(Head(left))
                    /\ \A p \in Elements(left) : IsOpen(p) \/ p = Head(left)
               /\ pc[t] = "flush" => heap[Head(left)].files = "half"
               /\ pc[t] \in {"remove", "unlink"} => heap[Head(left)].files = "closed"
               /\ pc[t] = "remove" => BaseAt(t) \in DOMAIN indexFile
               /\ pc[t] = "unlink" => BaseAt(t) \in DOMAIN storeFile \ DOMAIN indexFile
               /\ local[t].low + 2 <= heap[active].nextOffset
<1> DEFINE list == local[t].list
           left == local[t].left
<1>1. \A u \in Threads : u = t
  BY DEF Sequential
<1>2. status = "up" /\ (pc[t] # "truncate" => left # <<>>)
  BY DEF Inv, PointersSet, LocalsSet, Truncating
<1>3. mu = t
  BY DEF OrderInv, ControlOK
<1>4. \A u \in Threads : ~ Rolling(u) /\ pc[u] \notin {"index", "publish"}
  BY <1>1 DEF Rolling, Truncating
<1>5. /\ active = Len(heap) /\ active \in DOMAIN heap /\ IsOpen(active)
      /\ heap[active] \in SegmentObject
  BY <1>2, <1>4, ActiveIsLast DEF OrderInv
<1>6. active \in Elements(segments)
  BY <1>2 DEF OrderInv, ListOK
<1>8. local[t] \in LocalOf(DOMAIN heap)
  BY DEF Inv, TypeOK, ThreadsOK
<1>9. list \in Seq(DOMAIN heap) /\ left \in Seq(DOMAIN heap)
  BY <1>8 DEF LocalOf
<1>10. list \in Seq(Nat) /\ left \in Seq(Nat)
  BY <1>9, PointersAreNumbers DEF Inv, TypeOK
<1>11. Elements(list) \subseteq DOMAIN heap /\ Elements(left) \subseteq DOMAIN heap
  BY <1>9, ElementsType
<1>12. /\ Increasing(list) /\ Increasing(left) /\ AllOpen(list)
       /\ \A p \in Elements(list), q \in Elements(left) : p < q
       /\ Holding(Elements(list) \cup Elements(left))
       /\ \A p \in Elements(left) : IsOpen(p) \/ (pc[t] # "truncate" /\ p = Head(left))
       /\ pc[t] = "flush" => heap[Head(left)].files = "half"
       /\ pc[t] \in {"remove", "unlink"} => heap[Head(left)].files = "closed"
       /\ pc[t] = "remove" => BaseAt(t) \in DOMAIN indexFile
       /\ pc[t] = "unlink" => BaseAt(t) \in DOMAIN storeFile \ DOMAIN indexFile
       /\ local[t].low + 2 <= heap[active].nextOffset
  BY DEF OrderInv, LoopOK
<1>13. pc[t] = "truncate" => AllOpen(left)
  BY <1>12 DEF AllOpen
<1>14. pc[t] # "truncate" => ~ IsOpen(Head(left))
  BY <1>12 DEF IsOpen, Truncating
<1>7. ASSUME NEW p \in DOMAIN heap, heap[p].files = "half"
      PROVE  pc[t] = "flush" /\ p = Head(left)
  <2>1. pc[t] = "flush"
    BY <1>1, <1>2, <1>7 DEF OrderInv, ListOK
  <2>2. p \in Elements(list) \cup Elements(left)
    BY <1>7, <1>12 DEF Holding
  <2> QED BY <1>7, <1>12, <2>1, <2>2 DEF AllOpen, IsOpen
<1> QED BY <1>1, <1>2, <1>3, <1>5, <1>6, <1>7, <1>8, <1>9, <1>10, <1>11, <1>12, <1>13, <1>14

LEMMA TruncateKeepOrder ==
    ASSUME Sequential, Inv, Inv', OrderInv, NEW t \in Truncators, TruncateKeep(t)
    PROVE  OrderInv'
<1> DEFINE list == local[t].list
           left == local[t].left
           p    == Head(left)
           c    == [local[t] EXCEPT !.list = Append(list, p), !.left = Tail(left)]
<1>1. t \in Threads
  BY DEF Threads
<1>2. /\ Steps(t, "truncate", "truncate", c)
      /\ left # <<>> /\ pc[t] = "truncate"
      /\ UNCHANGED <<storeFile, indexFile, heap, segments, active, mu, status, todo, pending, faults>>
  BY DEF TruncateKeep, disk, log, process, bounds, Steps
<1>3. /\ \A u \in Threads : u = t
      /\ status = "up"
      /\ list \in Seq(Nat) /\ left \in Seq(Nat) /\ local[t] \in LocalOf(DOMAIN heap)
      /\ Increasing(list) /\ Increasing(left) /\ AllOpen(list) /\ AllOpen(left)
      /\ \A q \in Elements(list), r \in Elements(left) : q < r
      /\ Holding(Elements(list) \cup Elements(left))
      /\ local[t].low + 2 <= heap[active].nextOffset
  BY <1>1, <1>2, LoopState DEF Truncating
<1>4. /\ pc'[t] = "truncate" /\ local'[t].low = local[t].low
      /\ local'[t].list = Append(list, p) /\ local'[t].left = Tail(left)
  <2>1. c.low = local[t].low /\ c.list = Append(list, p) /\ c.left = Tail(left)
    BY <1>3 DEF LocalOf
  <2> HIDE DEF c
  <2> QED BY <1>1, <1>2, <2>1, OnlyThread DEF Inv, TypeOK
<1> HIDE DEF list, left, p, c
<1>5. /\ Elements(left) = {p} \cup Elements(Tail(left))
      /\ p \in Elements(left) /\ p \in Nat
      /\ Increasing(Tail(left)) /\ \A q \in Elements(Tail(left)) : p < q
  <2>1. p \in Elements(left)
    BY <1>2, <1>3, HeadAndTail DEF p
  <2>2. p \in Nat
    BY <1>3, <2>1, ElementsType
  <2> QED BY <1>2, <1>3, <2>2, HeadAndTail DEF p
<1>6. /\ Elements(Append(list, p)) = Elements(list) \cup {p}
      /\ Increasing(Append(list, p))
  <2>1. list \in Seq(Nat) /\ p \in Nat /\ Increasing(list)
    BY <1>3, <1>5
  <2>2. \A q \in Elements(list) : q < p
    BY <1>3, <1>5
  <2> QED BY <2>1, <2>2, ElementsOfAppend, IncreasingAppend
<1>7. HeapOrdered' /\ FilesOK' /\ ObjectsFit' /\ SetupOK'
  BY <1>2, DiskAndHeapKept DEF disk
<1>8. ControlOK' /\ CloseOK'
  BY <1>1, <1>2, <1>3, <1>4 DEF OrderInv, ControlOK, CloseOK, Truncating
<1>9. ListOK'
  BY <1>2, <1>3, <1>4 DEF OrderInv, ListOK, Truncating, Rolling, Holding, AllOpen, IsOpen
<1>10. RollOK'
  BY <1>3, <1>4 DEF RollOK, Rolling
<1>11. LoopOK'
  <2>1. AllOpen(Append(list, p)) /\ AllOpen(Tail(left))
    BY <1>3, <1>5, <1>6 DEF AllOpen
  <2>2. Holding(Elements(Append(list, p)) \cup Elements(Tail(left)))
    BY <1>3, <1>5, <1>6 DEF Holding
  <2>3. \A q \in Elements(Append(list, p)), r \in Elements(Tail(left)) : q < r
    BY <1>3, <1>5, <1>6
  <2> QED BY <1>2, <1>3, <1>4, <1>5, <1>6, <2>1, <2>2, <2>3
          DEF LoopOK, AllOpen, IsOpen, Holding
<1>12. ObjectFiles'
  <2>1. \A b : ~ Creating(b) /\ ~ Removing(b)
    BY <1>2, <1>3 DEF Creating, Removing
  <2> QED BY <1>2, <2>1, ObjectFilesKept DEF OrderInv
<1> QED BY <1>7, <1>8, <1>9, <1>10, <1>11, <1>12 DEF OrderInv

(* The index file that Close leaves ends where the object does.            *)
LEMMA CutEnd ==
    ASSUME NEW s \in SegmentObject, NEW ix \in Seq(Entry), IndexFits(s, ix),
           s.indexSize = 0 => s.nextOffset = s.baseOffset,
           Len(ix) <= MaxIndexBytes
    PROVE  LET cut == Resized(ix, s.indexSize)
           IN  /\ cut \in Seq(Entry) /\ Len(cut) = s.indexSize
               /\ \A i \in 1 .. s.indexSize : cut[i] = ix[i]
               /\ EndOf(cut, s.baseOffset) = s.nextOffset
               /\ Len(cut) <= MaxIndexBytes
               /\ cut = <<>> => s.indexSize = 0
<1> DEFINE k   == s.indexSize
           cut == Resized(ix, k)
<1>1. /\ k \in Nat /\ Len(ix) \in Nat /\ DOMAIN ix = 1 .. Len(ix)
      /\ k <= Len(ix)
  BY LenProperties DEF SegmentObject, SegmentRecord, IndexFits
<1>2. cut \in Seq(Entry) /\ DOMAIN cut = 1 .. k
  BY <1>1, ResizedType DEF Resized
<1>3. Len(cut) = k
  BY <1>1, <1>2, LenProperties
<1>4. \A i \in 1 .. k : cut[i] = ix[i]
  BY <1>1 DEF Resized, EntryAt
<1>5. k <= MaxIndexBytes
  BY <1>1, SegmentAssumption
<1> HIDE DEF cut
<1>6. EndOf(cut, s.baseOffset) = s.nextOffset
  <2>1. CASE k = 0
    BY <1>2, <1>3, <2>1, EmptySeq DEF EndOf
  <2>2. CASE k # 0
    <3>1. k \in 1 .. k /\ cut # <<>>
      BY <1>1, <1>2, <2>2
    <3>2. s.baseOffset + ix[k].off + 1 = s.nextOffset
      BY <1>1, <2>2 DEF IndexFits
    <3> QED BY <1>3, <1>4, <3>1, <3>2 DEF EndOf
  <2> QED BY <2>1, <2>2
<1>7. cut = <<>> => k = 0
  BY <1>3, EmptySeq
<1> QED BY <1>2, <1>3, <1>4, <1>5, <1>6, <1>7 DEF cut

(* index.Close of an open segment, in Truncate or in Close.                *)
LEMMA CutOrder ==
    ASSUME Inv, OrderInv, status \in {"up", "closing"},
           NEW p \in DOMAIN heap, IsOpen(p),
           NEW b, b = heap[p].baseOffset, b \in DOMAIN indexFile,
           heap' = [heap EXCEPT ![p].files = "half"],
           indexFile' = Cut(indexFile, heap[p]), storeFile' = storeFile
    PROVE  /\ HeapOrdered' /\ FilesOK' /\ ObjectsFit'
           /\ DOMAIN indexFile' = DOMAIN indexFile
           /\ DOMAIN heap' = DOMAIN heap /\ Len(heap') = Len(heap) /\ heap' # <<>>
           /\ heap'[p].files = "half" /\ heap'[p].baseOffset = b
           /\ heap'[p].nextOffset = heap[p].nextOffset
           /\ \A q \in DOMAIN heap : q # p => heap'[q] = heap[q]
<1> DEFINE s   == heap[p]
           o   == [s EXCEPT !.files = "half"]
           cut == Resized(indexFile[b], s.indexSize)
<1>1. /\ s.files = "open" /\ s.baseOffset = b
      /\ heap' = [heap EXCEPT ![p] = o]
      /\ indexFile' = Cut(indexFile, s)
  BY DEF IsOpen
<1>2. /\ s \in SegmentObject
      /\ b \in DOMAIN storeFile /\ b \in DOMAIN indexFile
      /\ storeFile[b] \in Seq(Chunk) /\ indexFile[b] \in Seq(Entry)
      /\ Fits(s, storeFile, indexFile) /\ IndexFits(s, indexFile[b])
  <2>1. s \in SegmentObject
    BY Dereference DEF Inv, TypeOK
  <2>2. b \in DOMAIN storeFile /\ Fits(s, storeFile, indexFile)
    BY <1>1 DEF OrderInv, ObjectFiles, ObjectsFit
  <2> QED BY <1>1, <2>1, <2>2 DEF Fits, Inv, TypeOK, DiskOK, FileOf
<1>3. /\ o \in SegmentObject /\ o.baseOffset = b /\ o.nextOffset = s.nextOffset
      /\ o.size = s.size /\ o.buf = s.buf /\ o.indexSize = s.indexSize /\ o.files = "half"
      /\ b \in Nat /\ s.nextOffset \in Nat /\ s.buf \in Seq(Chunk) /\ s.size \in Nat
  BY <1>2 DEF SegmentObject, SegmentRecord
<1>4. s.indexSize = 0 => s.nextOffset = b
  BY <1>2 DEF Fits
<1>5. /\ cut \in Seq(Entry) /\ Len(cut) = s.indexSize
      /\ \A i \in 1 .. s.indexSize : cut[i] = indexFile[b][i]
      /\ EndOf(cut, b) = s.nextOffset /\ Len(cut) <= MaxIndexBytes
      /\ cut = <<>> => s.indexSize = 0
  <2>1. Len(indexFile[b]) <= MaxIndexBytes
    BY <1>2 DEF OrderInv, FilesOK
  <2> QED BY <1>2, <1>4, <2>1, CutEnd
<1>6. /\ DOMAIN indexFile' = DOMAIN indexFile /\ indexFile'[b] = cut
      /\ \A c \in DOMAIN indexFile \ {b} : indexFile'[c] = indexFile[c]
  BY <1>1, <1>2 DEF Cut
<1>7. s = heap[p] /\ b = heap[p].baseOffset
  OBVIOUS
<1>8. IndexFits(o, cut)
  BY <1>2, <1>3, <1>5 DEF IndexFits
<1> HIDE DEF s, o, cut
<1>9. /\ DOMAIN heap' = DOMAIN heap /\ Len(heap') = Len(heap) /\ heap' # <<>>
      /\ heap'[p] = o
      /\ \A q \in DOMAIN heap : q # p => heap'[q] = heap[q]
  BY <1>1, <1>2, <1>3, HeapChanged DEF Inv, TypeOK
<1>10. HeapOrdered'
  <2>1. /\ o \in SegmentObject /\ heap' = [heap EXCEPT ![p] = o]
        /\ o.baseOffset = heap[p].baseOffset /\ o.nextOffset = heap[p].nextOffset
    BY <1>1, <1>3, <1>7
  <2>2. LogOK /\ HeapOrdered
    BY DEF Inv, TypeOK, OrderInv
  <2> QED BY <2>1, <2>2, OrderChanged
<1>11. Len(storeFile[b]) \in Nat /\ Len(s.buf) \in Nat
  BY <1>2, <1>3, LenProperties
<1>12. FilesOK'
  <2>1. \A c \in DOMAIN indexFile' : Len(indexFile'[c]) <= MaxIndexBytes
    BY <1>5, <1>6 DEF OrderInv, FilesOK
  <2>2. ASSUME NEW c \in DOMAIN indexFile', NEW d \in DOMAIN storeFile, c < d
        PROVE  EndOf(indexFile'[c], c) <= d
    <3>1. CASE c # b
      BY <1>6, <2>2, <3>1 DEF OrderInv, FilesOK
    <3>2. CASE c = b
      <4>1. PICK q \in DOMAIN heap : heap[q].baseOffset = d
        BY <1>1 DEF OrderInv, ObjectFiles
      <4>2. d \in Nat /\ ~ (d < b)
        BY <1>3, <2>2, <3>2, <4>1, Dereference DEF Inv, TypeOK, SegmentObject, SegmentRecord
      <4>3. p < q \/ q < p
        BY <1>2, <1>3, <1>7, <2>2, <3>2, <4>1, PointersAreNumbers DEF Inv, TypeOK
      <4>4. p < q
        BY <1>2, <1>7, <4>1, <4>2, <4>3 DEF OrderInv, HeapOrdered, Precedes
      <4>5. s.nextOffset <= d
        BY <1>2, <1>7, <4>1, <4>4 DEF OrderInv, HeapOrdered, Precedes
      <4> QED BY <1>5, <1>6, <3>2, <4>5
    <3> QED BY <3>1, <3>2
  <2>3. ASSUME NEW c \in DOMAIN storeFile, \A d \in DOMAIN storeFile : d <= c,
               Contents(indexFile', c) = <<>>
        PROVE  storeFile[c] = <<>>
    <3>1. CASE c # b
      BY <1>6, <2>3, <3>1 DEF OrderInv, FilesOK, Contents
    <3>2. CASE c = b
      <4>1. s.indexSize = 0
        BY <1>2, <1>5, <1>6, <2>3, <3>2 DEF Contents
      <4>2. s.size = 0 /\ s.size = Len(storeFile[b]) + Len(s.buf)
        BY <1>2, <1>7, <2>3, <3>2, <4>1 DEF Fits
      <4>3. \A k, l \in Nat : k + l = 0 => k = 0
        OBVIOUS
      <4>4. Len(storeFile[b]) = 0
        BY <1>11, <4>2, <4>3, Zenon
      <4> QED BY <1>2, <3>2, <4>4, EmptySeq
    <3> QED BY <3>1, <3>2
  <2> QED BY <1>1, <1>6, <2>1, <2>2, <2>3 DEF OrderInv, FilesOK
<1>13. ObjectsFit'
  <2>1. Fits(o, storeFile', indexFile')
    BY <1>1, <1>2, <1>3, <1>6, <1>7, <1>8 DEF Fits
  <2>2. heap' = [heap EXCEPT ![p] = o] /\ DOMAIN storeFile' = DOMAIN storeFile
    BY <1>1
  <2>3. \A c \in DOMAIN storeFile \ {b} : storeFile'[c] = storeFile[c]
    BY <1>1
  <2>4. DOMAIN indexFile' \subseteq DOMAIN indexFile \cup {b}
    BY <1>6
  <2>5. \A c \in DOMAIN indexFile' \ {b} : indexFile'[c] = indexFile[c]
    BY <1>6
  <2> QED BY <1>2, <1>3, <1>7, <2>1, <2>2, <2>3, <2>4, <2>5, OthersFit
<1>14. heap'[p].files = "half" /\ heap'[p].baseOffset = b /\ heap'[p].nextOffset = heap[p].nextOffset
  BY <1>3, <1>7, <1>9
<1> QED BY <1>6, <1>9, <1>10, <1>12, <1>13, <1>14

(* store.Close after index.Close.                                          *)
LEMMA FlushOrder ==
    ASSUME Inv, OrderInv, NEW p \in DOMAIN heap, heap[p].files = "half",
           NEW b, b = heap[p].baseOffset, b \in DOMAIN indexFile,
           heap' = [heap EXCEPT ![p] = Closed(@)],
           storeFile' = Grown(storeFile, b, heap[p].buf), indexFile' = indexFile
    PROVE  /\ HeapOrdered' /\ FilesOK' /\ ObjectsFit'
           /\ DOMAIN storeFile' = DOMAIN storeFile
           /\ DOMAIN heap' = DOMAIN heap /\ Len(heap') = Len(heap) /\ heap' # <<>>
           /\ heap'[p].files = "closed" /\ heap'[p].baseOffset = b
           /\ heap'[p].nextOffset = heap[p].nextOffset
           /\ \A q \in DOMAIN heap : q # p => heap'[q] = heap[q]
<1> DEFINE s == heap[p]
           o == Closed(s)
<1>1. /\ s.files = "half" /\ s.baseOffset = b
      /\ heap' = [heap EXCEPT ![p] = o]
      /\ storeFile' = Grown(storeFile, b, s.buf)
  OBVIOUS
<1>2. /\ s \in SegmentObject
      /\ b \in DOMAIN storeFile /\ b \in DOMAIN indexFile
      /\ storeFile[b] \in Seq(Chunk) /\ indexFile[b] \in Seq(Entry)
      /\ Fits(s, storeFile, indexFile) /\ IndexFits(s, indexFile[b])
  <2>1. s \in SegmentObject
    BY Dereference DEF Inv, TypeOK
  <2>2. b \in DOMAIN storeFile /\ Fits(s, storeFile, indexFile)
    BY <1>1 DEF OrderInv, ObjectFiles, ObjectsFit
  <2> QED BY <1>1, <2>1, <2>2 DEF Fits, Inv, TypeOK, DiskOK, FileOf
<1>3. /\ o \in SegmentObject /\ o.baseOffset = b /\ o.nextOffset = s.nextOffset
      /\ o.files = "closed"
      /\ s.buf \in Seq(Chunk) /\ s.size \in Nat /\ s.indexSize \in Nat
  <2>1. o \in SegmentObject
    BY <1>2, EmptiedType
  <2>2. o.baseOffset = s.baseOffset /\ o.nextOffset = s.nextOffset /\ o.files = "closed"
    BY <1>2 DEF Closed, SegmentObject, SegmentRecord
  <2>3. s.buf \in Seq(Chunk) /\ s.size \in Nat /\ s.indexSize \in Nat
    BY <1>2 DEF SegmentObject, SegmentRecord
  <2> QED BY <1>1, <2>1, <2>2, <2>3
<1>4. s = heap[p] /\ b = heap[p].baseOffset
  OBVIOUS
<1> HIDE DEF s, o
<1>5. /\ DOMAIN heap' = DOMAIN heap /\ Len(heap') = Len(heap) /\ heap' # <<>>
      /\ heap'[p] = o
      /\ \A q \in DOMAIN heap : q # p => heap'[q] = heap[q]
  BY <1>1, <1>2, <1>3, HeapChanged DEF Inv, TypeOK
<1>6. /\ DOMAIN storeFile' = DOMAIN storeFile
      /\ storeFile'[b] = storeFile[b] \o s.buf
      /\ \A c \in DOMAIN storeFile \ {b} : storeFile'[c] = storeFile[c]
  BY <1>1, <1>2 DEF Grown
<1>7. HeapOrdered'
  <2>1. /\ o \in SegmentObject /\ heap' = [heap EXCEPT ![p] = o]
        /\ o.baseOffset = heap[p].baseOffset /\ o.nextOffset = heap[p].nextOffset
    BY <1>1, <1>3, <1>4
  <2>2. LogOK /\ HeapOrdered
    BY DEF Inv, TypeOK, OrderInv
  <2> QED BY <2>1, <2>2, OrderChanged
<1>8. FilesOK'
  <2>1. ASSUME NEW c \in DOMAIN storeFile, \A d \in DOMAIN storeFile : d <= c,
               Contents(indexFile, c) = <<>>
        PROVE  storeFile'[c] = <<>>
    <3>1. CASE c # b
      BY <1>6, <2>1, <3>1 DEF OrderInv, FilesOK
    <3>2. CASE c = b
      <4>1. indexFile[b] = <<>>
        BY <1>2, <2>1, <3>2 DEF Contents
      <4>2. s.indexSize = 0
        BY <1>2, <1>3, <4>1, EmptySeq DEF IndexFits
      <4>3. s.size = 0 /\ s.size = Len(storeFile[b]) + Len(s.buf)
        BY <1>2, <1>4, <2>1, <3>2, <4>2 DEF Fits
      <4>4. Len(storeFile[b] \o s.buf) = 0 /\ storeFile[b] \o s.buf \in Seq(Chunk)
        BY <1>2, <1>3, <4>3, ConcatProperties
      <4> QED BY <1>6, <3>2, <4>4, EmptySeq
    <3> QED BY <3>1, <3>2
  <2> QED BY <1>1, <1>6, <2>1 DEF OrderInv, FilesOK
<1>9. ObjectsFit'
  <2>1. o.files # "closed" => Fits(o, storeFile', indexFile')
    BY <1>3
  <2>2. heap' = [heap EXCEPT ![p] = o] /\ DOMAIN storeFile' = DOMAIN storeFile
    BY <1>1, <1>6
  <2>3. DOMAIN indexFile' \subseteq DOMAIN indexFile \cup {b}
    BY <1>1
  <2>4. \A c \in DOMAIN indexFile' \ {b} : indexFile'[c] = indexFile[c]
    BY <1>1
  <2> QED BY <1>2, <1>3, <1>4, <1>6, <2>1, <2>2, <2>3, <2>4, OthersFit
<1>10. heap'[p].files = "closed" /\ heap'[p].baseOffset = b /\ heap'[p].nextOffset = heap[p].nextOffset
  BY <1>3, <1>4, <1>5
<1> QED BY <1>5, <1>6, <1>7, <1>8, <1>9, <1>10

LEMMA TruncateCloseIndexOrder ==
    ASSUME Sequential, Inv, Inv', OrderInv, NEW t \in Truncators, TruncateCloseIndex(t)
    PROVE  OrderInv'
<1> DEFINE list == local[t].list
           left == local[t].left
           p    == Head(left)
           b    == heap[p].baseOffset
<1>1. t \in Threads
  BY DEF Threads
<1>2. /\ Steps(t, "truncate", "flush", local[t])
      /\ left # <<>> /\ pc[t] = "truncate"
      /\ Removable(heap[p], local[t].low) /\ IsOpen(p)
      /\ heap' = [heap EXCEPT ![p].files = "half"]
      /\ indexFile' = Cut(indexFile, heap[p])
      /\ UNCHANGED <<storeFile, segments, active, mu, status, todo, pending, faults>>
  BY DEF TruncateCloseIndex, process, bounds, Steps, IsOpen
<1>3. /\ \A u \in Threads : u = t
      /\ status = "up" /\ mu = t
      /\ active = Len(heap) /\ active \in DOMAIN heap /\ IsOpen(active)
      /\ heap[active] \in SegmentObject /\ active \in Elements(segments)
      /\ left \in Seq(Nat) /\ local[t] \in LocalOf(DOMAIN heap)
      /\ Elements(list) \subseteq DOMAIN heap /\ Elements(left) \subseteq DOMAIN heap
      /\ Increasing(list) /\ Increasing(left) /\ AllOpen(list) /\ AllOpen(left)
      /\ \A q \in Elements(list), r \in Elements(left) : q < r
      /\ Holding(Elements(list) \cup Elements(left))
      /\ local[t].low + 2 <= heap[active].nextOffset
  BY <1>1, <1>2, LoopState DEF Truncating
<1>4. pc'[t] = "flush" /\ local'[t] = local[t]
  BY <1>1, <1>2, OnlyThread DEF Inv, TypeOK
<1>5. p \in Elements(left) /\ p \in DOMAIN heap /\ heap[p] \in SegmentObject
  <2>1. p \in Elements(left)
    BY <1>2, <1>3, HeadAndTail
  <2> QED BY <1>3, <2>1, Dereference DEF Inv, TypeOK
<1>6. p # active
  <2>1. local[t].low \in Nat /\ heap[p].nextOffset \in Nat
    BY <1>3, <1>5 DEF LocalOf, SegmentObject, SegmentRecord
  <2>2. heap[p].nextOffset <= local[t].low + 1
    BY <1>2 DEF Removable
  <2>3. ~ (local[t].low + 2 <= heap[p].nextOffset)
    BY <2>1, <2>2
  <2> QED BY <1>3, <2>3
<1>7. b = heap[p].baseOffset /\ p = Head(local[t].left)
  OBVIOUS
<1> HIDE DEF list, left, p, b
<1>8. \A c : ~ Creating(c) /\ ~ Removing(c)
  BY <1>2, <1>3 DEF Creating, Removing
<1>9. b \in DOMAIN indexFile
  BY <1>2, <1>5, <1>7, <1>8 DEF OrderInv, ObjectFiles, IsOpen
<1>10. /\ HeapOrdered' /\ FilesOK' /\ ObjectsFit'
       /\ DOMAIN indexFile' = DOMAIN indexFile
       /\ DOMAIN heap' = DOMAIN heap /\ Len(heap') = Len(heap) /\ heap' # <<>>
       /\ heap'[p].files = "half" /\ heap'[p].baseOffset = b
       /\ \A q \in DOMAIN heap : q # p => heap'[q] = heap[q]
  BY <1>2, <1>3, <1>5, <1>7, <1>9, CutOrder
<1>11. ControlOK' /\ CloseOK' /\ SetupOK'
  BY <1>1, <1>2, <1>3, <1>4, <1>10 DEF OrderInv, ControlOK, CloseOK, SetupOK, Truncating
<1>12. ListOK'
  BY <1>1, <1>2, <1>3, <1>4, <1>5, <1>6, <1>10
     DEF OrderInv, ListOK, Truncating, Rolling, Holding, IsOpen
<1>13. RollOK'
  BY <1>3, <1>4 DEF RollOK, Rolling
<1>14. LoopOK'
  <2>1. \A q \in Elements(list) : q \in DOMAIN heap /\ q # p
    BY <1>3, <1>5, PointersAreNumbers DEF Inv, TypeOK
  <2>2. AllOpen(list)'
    BY <1>3, <1>4, <1>10, <2>1 DEF AllOpen, IsOpen, list
  <2>3. Holding(Elements(list) \cup Elements(left))'
    BY <1>3, <1>4, <1>5, <1>10 DEF Holding, list, left
  <2>4. \A q \in Elements(left) : heap'[q].files = "open" \/ q = p
    BY <1>3, <1>10 DEF AllOpen, IsOpen
  <2>5. local[t].low + 2 <= heap'[active'].nextOffset
    BY <1>2, <1>3, <1>6, <1>10
  <2> QED BY <1>3, <1>4, <1>7, <1>10, <2>2, <2>3, <2>4, <2>5
          DEF LoopOK, IsOpen, list, left
<1>15. ObjectFiles'
  <2>1. \A q \in DOMAIN heap :
           /\ heap'[q].files = "closed" <=> heap[q].files = "closed"
           /\ heap'[q].baseOffset = heap[q].baseOffset
    BY <1>2, <1>7, <1>10 DEF IsOpen
  <2> QED BY <1>2, <1>8, <1>10, <2>1, ObjectFilesKept DEF OrderInv
<1> QED BY <1>10, <1>11, <1>12, <1>13, <1>14, <1>15 DEF OrderInv

LEMMA TruncateCloseStoreOrder ==
    ASSUME Sequential, Inv, Inv', OrderInv, NEW t \in Truncators, TruncateCloseStore(t)
    PROVE  OrderInv'
<1> DEFINE list == local[t].list
           left == local[t].left
           p    == Head(left)
           b    == heap[p].baseOffset
<1>1. t \in Threads
  BY DEF Threads
<1>2. /\ Steps(t, "flush", "remove", local[t])
      /\ pc[t] = "flush"
      /\ heap' = [heap EXCEPT ![p] = Closed(@)]
      /\ storeFile' = Grown(storeFile, b, heap[p].buf)
      /\ UNCHANGED <<indexFile, segments, active, mu, status, todo, pending, faults>>
  BY DEF TruncateCloseStore, process, bounds
<1>3. /\ \A u \in Threads : u = t
      /\ status = "up" /\ mu = t
      /\ active = Len(heap) /\ active \in DOMAIN heap /\ IsOpen(active)
      /\ active \in Elements(segments)
      /\ \A q \in DOMAIN heap : heap[q].files = "half" => q = p
      /\ left \in Seq(Nat) /\ left # <<>>
      /\ Elements(list) \subseteq DOMAIN heap /\ Elements(left) \subseteq DOMAIN heap
      /\ Increasing(list) /\ Increasing(left) /\ AllOpen(list)
      /\ \A q \in Elements(left) : IsOpen(q) \/ q = p
      /\ \A q \in Elements(list), r \in Elements(left) : q < r
      /\ Holding(Elements(list) \cup Elements(left))
      /\ heap[p].files = "half"
      /\ local[t].low + 2 <= heap[active].nextOffset
  BY <1>1, <1>2, LoopState DEF Truncating
<1>4. pc'[t] = "remove" /\ local'[t] = local[t]
  BY <1>1, <1>2, OnlyThread DEF Inv, TypeOK
<1>5. p \in Elements(left) /\ p \in DOMAIN heap
  <2>1. p \in Elements(left)
    BY <1>3, HeadAndTail
  <2> QED BY <1>3, <2>1
<1>6. p # active /\ b = heap[p].baseOffset /\ p = Head(local[t].left)
  BY <1>3 DEF IsOpen
<1> HIDE DEF list, left, p, b
<1>8. \A c : ~ Creating(c) /\ ~ Removing(c)
  BY <1>2, <1>3 DEF Creating, Removing
<1>9. b \in DOMAIN indexFile
  BY <1>3, <1>5, <1>6, <1>8 DEF OrderInv, ObjectFiles
<1>10. /\ HeapOrdered' /\ FilesOK' /\ ObjectsFit'
       /\ DOMAIN storeFile' = DOMAIN storeFile
       /\ DOMAIN heap' = DOMAIN heap /\ Len(heap') = Len(heap) /\ heap' # <<>>
       /\ heap'[p].files = "closed" /\ heap'[p].baseOffset = b
       /\ \A q \in DOMAIN heap : q # p => heap'[q] = heap[q]
  BY <1>2, <1>3, <1>5, <1>6, <1>9, FlushOrder
<1>11. ControlOK' /\ CloseOK' /\ SetupOK'
  BY <1>1, <1>2, <1>3, <1>4, <1>10 DEF OrderInv, ControlOK, CloseOK, SetupOK, Truncating
<1>12. ListOK'
  BY <1>1, <1>2, <1>3, <1>4, <1>5, <1>6, <1>10
     DEF OrderInv, ListOK, Truncating, Rolling, Holding, IsOpen
<1>13. RollOK'
  BY <1>3, <1>4 DEF RollOK, Rolling
<1>14. LoopOK'
  <2>1. \A q \in Elements(list) : q \in DOMAIN heap /\ q # p
    BY <1>3, <1>5, PointersAreNumbers DEF Inv, TypeOK
  <2>2. AllOpen(list)'
    BY <1>3, <1>4, <1>10, <2>1 DEF AllOpen, IsOpen, list
  <2>3. Holding(Elements(list) \cup Elements(left))'
    BY <1>3, <1>4, <1>5, <1>10 DEF Holding, list, left
  <2>4. \A q \in Elements(left) : heap'[q].files = "open" \/ q = p
    BY <1>3, <1>10 DEF IsOpen
  <2>5. local[t].low + 2 <= heap'[active'].nextOffset
    BY <1>2, <1>3, <1>6, <1>10
  <2>6. BaseAt(t)' \in DOMAIN indexFile'
    BY <1>2, <1>4, <1>6, <1>9, <1>10 DEF BaseAt
  <2> QED BY <1>3, <1>4, <1>6, <1>10, <2>2, <2>3, <2>4, <2>5, <2>6
          DEF LoopOK, IsOpen, list, left
<1>15. ObjectFiles'
  <2>1. ASSUME NEW c, c = b PROVE Removing(c)'
    BY <1>1, <1>4, <1>6, <1>10, <2>1 DEF Removing, BaseAt
  <2>2. \A q \in DOMAIN heap' :
           /\ heap'[q].baseOffset = heap[q].baseOffset
           /\ heap'[q].files # "closed" => heap[q].files # "closed"
           /\ heap'[q].files = "closed" => heap[q].files = "closed" \/ q = p
    BY <1>6, <1>10
  <2>3. \A q \in DOMAIN heap' : heap'[q].files # "closed" =>
           heap'[q].baseOffset \in DOMAIN storeFile' \cap DOMAIN indexFile'
    BY <1>2, <1>8, <1>10, <2>2 DEF OrderInv, ObjectFiles
  <2>4. \A q \in DOMAIN heap' : heap'[q].files = "closed" =>
           heap'[q].baseOffset \notin DOMAIN storeFile' \cup DOMAIN indexFile'
             \/ heap'[q].baseOffset = b
    BY <1>2, <1>3, <1>8, <1>10, <2>2 DEF OrderInv, ObjectFiles
  <2>5. \A c \in DOMAIN storeFile' : /\ c \in DOMAIN indexFile'
                                     /\ \E q \in DOMAIN heap' : heap'[q].baseOffset = c
    BY <1>2, <1>3, <1>8, <1>10, <2>2 DEF OrderInv, ObjectFiles
  <2> QED BY <1>2, <2>1, <2>3, <2>4, <2>5 DEF ObjectFiles
<1> QED BY <1>10, <1>11, <1>12, <1>13, <1>14, <1>15 DEF OrderInv

LEMMA TruncateRemoveOrder ==
    ASSUME Sequential, Inv, Inv', OrderInv, NEW t \in Truncators, TruncateRemove(t)
    PROVE  OrderInv'
<1> DEFINE list == local[t].list
           left == local[t].left
           p    == Head(left)
           b    == heap[p].baseOffset
           top  == heap[active].baseOffset
<1>1. t \in Threads
  BY DEF Threads
<1>2. /\ Steps(t, "remove", "unlink", local[t])
      /\ pc[t] = "remove" /\ indexFile' = Delete(indexFile, b)
      /\ UNCHANGED <<storeFile, heap, segments, active, mu, status, todo, pending, faults>>
  BY DEF TruncateRemove, BaseAt, log, process, bounds
<1>3. /\ \A u \in Threads : u = t
      /\ status = "up" /\ mu = t
      /\ active = Len(heap) /\ active \in DOMAIN heap /\ IsOpen(active)
      /\ heap[active] \in SegmentObject /\ active \in Elements(segments)
      /\ \A q \in DOMAIN heap : heap[q].files # "half"
      /\ left \in Seq(Nat) /\ left # <<>>
      /\ Elements(left) \subseteq DOMAIN heap
      /\ Increasing(list) /\ Increasing(left) /\ AllOpen(list)
      /\ \A q \in Elements(left) : IsOpen(q) \/ q = p
      /\ \A q \in Elements(list), r \in Elements(left) : q < r
      /\ Holding(Elements(list) \cup Elements(left))
      /\ heap[p].files = "closed" /\ b \in DOMAIN indexFile
      /\ local[t].low + 2 <= heap[active].nextOffset
  BY <1>1, <1>2, LoopState DEF Truncating, BaseAt
<1>4. pc'[t] = "unlink" /\ local'[t] = local[t]
  BY <1>1, <1>2, OnlyThread DEF Inv, TypeOK
<1>5. p \in DOMAIN heap
  BY <1>3, HeadAndTail
<1>6. p # active /\ b = heap[p].baseOffset /\ p = Head(local[t].left)
  BY <1>3 DEF IsOpen
<1>7. (\A d : Removing(d) => d = b) /\ (\A d : ~ Creating(d))
  BY <1>2, <1>3 DEF Removing, Creating, BaseAt
<1>8. ASSUME NEW d, d = b PROVE Removing(d)'
  BY <1>1, <1>2, <1>4, <1>6, <1>8 DEF Removing, BaseAt
<1> HIDE DEF list, left, p, b, top
<1>9. \A q \in DOMAIN heap : q # p => heap[q].baseOffset # b
  BY <1>5, <1>6, BasesDiffer DEF Inv, TypeOK, OrderInv
<1>10. ObjectFiles /\ FilesOK /\ ObjectsFit
  BY DEF OrderInv
<1>11. /\ top \in DOMAIN storeFile /\ top # b /\ top \in Nat
       /\ b \in DOMAIN storeFile /\ \A d \in DOMAIN storeFile : d <= top /\ d \in Nat
  <2>1. top \in DOMAIN storeFile
    BY <1>3, <1>10 DEF ObjectFiles, IsOpen, top
  <2>2. top # b
    BY <1>3, <1>6, <1>9 DEF top
  <2>3. \A d \in DOMAIN storeFile : d <= top
    BY <1>3, NewestIsTop DEF top
  <2>4. b \in DOMAIN storeFile
    BY <1>3, <1>10 DEF FilesOK
  <2> QED BY <2>1, <2>2, <2>3, <2>4 DEF Inv, TypeOK, DiskOK, FileOf
<1>12. /\ DOMAIN indexFile' = DOMAIN indexFile \ {b}
       /\ \A d \in DOMAIN indexFile' : indexFile'[d] = indexFile[d]
  BY <1>2 DEF Delete
<1>13. \A d \in DOMAIN storeFile : d \in DOMAIN indexFile
  BY <1>3, <1>7, <1>10 DEF ObjectFiles
<1>14. FilesOK'
  <2>1. ASSUME NEW c \in DOMAIN storeFile, \A d \in DOMAIN storeFile : d <= c,
               Contents(indexFile', c) = <<>>
        PROVE  storeFile[c] = <<>>
    <3>1. c # b
      <4>1. top <= c /\ b <= top /\ c \in Nat /\ b \in Nat
        BY <1>11, <2>1
      <4> QED BY <1>11, <4>1
    <3>2. Contents(indexFile, c) = <<>>
      BY <1>12, <2>1, <3>1 DEF Contents
    <3> QED BY <1>10, <2>1, <3>2 DEF FilesOK
  <2> QED BY <1>2, <1>10, <1>12, <1>13, <2>1 DEF FilesOK
<1>15. ObjectsFit'
  <2>1. ASSUME NEW q \in DOMAIN heap, heap[q].files # "closed"
        PROVE  Fits(heap[q], storeFile, indexFile')
    <3>1. heap[q].baseOffset # b /\ heap[q].baseOffset \in DOMAIN storeFile
      BY <1>3, <1>9, <1>10, <2>1 DEF ObjectFiles
    <3>2. Fits(heap[q], storeFile, indexFile)
      BY <1>10, <2>1 DEF ObjectsFit
    <3> QED BY <1>12, <3>1, <3>2, FitsElsewhere
  <2> QED BY <1>2, <2>1 DEF ObjectsFit
<1>16. HeapOrdered' /\ ControlOK' /\ CloseOK' /\ SetupOK'
  BY <1>1, <1>2, <1>3, <1>4
     DEF OrderInv, HeapOrdered, ControlOK, CloseOK, SetupOK, Truncating
<1>17. ListOK'
  BY <1>1, <1>2, <1>3, <1>4
     DEF OrderInv, ListOK, Truncating, Rolling, Holding, IsOpen
<1>18. RollOK'
  BY <1>3, <1>4 DEF RollOK, Rolling
<1>19. LoopOK'
  <2>1. BaseAt(t)' \in DOMAIN storeFile' \ DOMAIN indexFile'
    BY <1>2, <1>4, <1>6, <1>11, <1>12 DEF BaseAt
  <2> QED BY <1>2, <1>3, <1>4, <1>6, <2>1
          DEF LoopOK, AllOpen, IsOpen, Holding, list, left
<1>20. ObjectFiles'
  <2>1. \A q \in DOMAIN heap : heap[q].files # "closed" =>
           heap[q].baseOffset \in DOMAIN storeFile \cap DOMAIN indexFile'
    BY <1>3, <1>7, <1>9, <1>10, <1>12 DEF ObjectFiles
  <2>2. \A q \in DOMAIN heap : heap[q].files = "closed" =>
           heap[q].baseOffset \notin DOMAIN storeFile \cup DOMAIN indexFile'
             \/ heap[q].baseOffset = b
    BY <1>3, <1>7, <1>10, <1>12 DEF ObjectFiles
  <2>3. \A d \in DOMAIN storeFile : \E q \in DOMAIN heap : heap[q].baseOffset = d
    BY <1>3, <1>10 DEF ObjectFiles
  <2>4. \A d \in DOMAIN storeFile \ DOMAIN indexFile' : d = b
    BY <1>12, <1>13
  <2> QED BY <1>2, <1>8, <2>1, <2>2, <2>3, <2>4 DEF ObjectFiles
<1> QED BY <1>14, <1>15, <1>16, <1>17, <1>18, <1>19, <1>20 DEF OrderInv

LEMMA TruncateUnlinkOrder ==
    ASSUME Sequential, Inv, Inv', OrderInv, NEW t \in Truncators, TruncateUnlink(t)
    PROVE  OrderInv'
<1> DEFINE list == local[t].list
           left == local[t].left
           p    == Head(left)
           b    == heap[p].baseOffset
           top  == heap[active].baseOffset
           c    == [local[t] EXCEPT !.left = Tail(left)]
<1>1. t \in Threads
  BY DEF Threads
<1>2. /\ Steps(t, "unlink", "truncate", c)
      /\ pc[t] = "unlink" /\ storeFile' = Delete(storeFile, b)
      /\ UNCHANGED <<indexFile, heap, segments, active, mu, status, todo, pending, faults>>
  BY DEF TruncateUnlink, BaseAt, log, process, bounds
<1>3. /\ \A u \in Threads : u = t
      /\ status = "up" /\ mu = t
      /\ active = Len(heap) /\ active \in DOMAIN heap /\ IsOpen(active)
      /\ heap[active] \in SegmentObject /\ active \in Elements(segments)
      /\ \A q \in DOMAIN heap : heap[q].files # "half"
      /\ left \in Seq(Nat) /\ local[t] \in LocalOf(DOMAIN heap)
      /\ Elements(left) \subseteq DOMAIN heap
      /\ Increasing(list) /\ Increasing(left) /\ AllOpen(list)
      /\ \A q \in Elements(list), r \in Elements(left) : q < r
      /\ Holding(Elements(list) \cup Elements(left))
      /\ left # <<>> /\ heap[p].files = "closed" /\ b \notin DOMAIN indexFile
      /\ \A q \in Elements(left) : IsOpen(q) \/ q = p
      /\ local[t].low + 2 <= heap[active].nextOffset
  BY <1>1, <1>2, LoopState DEF Truncating, BaseAt
<1>4. /\ pc'[t] = "truncate" /\ local'[t].low = local[t].low
      /\ local'[t].list = list /\ local'[t].left = Tail(left)
  <2>1. c.low = local[t].low /\ c.list = list /\ c.left = Tail(left)
    BY <1>3 DEF LocalOf
  <2> HIDE DEF c
  <2> QED BY <1>1, <1>2, <2>1, OnlyThread DEF Inv, TypeOK
<1>5. /\ Elements(left) = {p} \cup Elements(Tail(left))
      /\ p \in Elements(left) /\ p \in DOMAIN heap
      /\ Increasing(Tail(left)) /\ \A q \in Elements(Tail(left)) : p < q
  BY <1>3, HeadAndTail
<1>6. (\A d : Removing(d) => d = b) /\ (\A d : ~ Creating(d))
  BY <1>2, <1>3 DEF Removing, Creating, BaseAt
<1> HIDE DEF list, left, p, b, c, top
<1>7. /\ heap[p].files = "closed" /\ p # active /\ b = heap[p].baseOffset
      /\ \A q \in Elements(Tail(left)) : q \in Nat /\ q # p
  <2>1. Elements(Tail(left)) \subseteq Nat /\ p \in Nat
    BY <1>3, <1>5, PointersAreNumbers DEF Inv, TypeOK
  <2> QED BY <1>3, <1>5, <2>1 DEF IsOpen, b
<1>8. \A q \in DOMAIN heap : q # p => heap[q].baseOffset # b
  BY <1>5, <1>7, BasesDiffer DEF Inv, TypeOK, OrderInv
<1>9. ObjectFiles /\ FilesOK /\ ObjectsFit
  BY DEF OrderInv
<1>10. /\ b \notin DOMAIN indexFile
       /\ top \in DOMAIN storeFile /\ top # b /\ top \in Nat
       /\ \A d \in DOMAIN storeFile : d <= top /\ d \in Nat
  <2>1. b \notin DOMAIN indexFile
    BY <1>3
  <2>2. top \in DOMAIN storeFile
    BY <1>3, <1>9 DEF ObjectFiles, IsOpen, top
  <2>3. top # b
    BY <1>3, <1>7, <1>8 DEF top
  <2>4. \A d \in DOMAIN storeFile : d <= top
    BY <1>3, NewestIsTop DEF top
  <2> QED BY <2>1, <2>2, <2>3, <2>4 DEF Inv, TypeOK, DiskOK, FileOf
<1>11. /\ DOMAIN storeFile' = DOMAIN storeFile \ {b}
       /\ \A d \in DOMAIN storeFile' : storeFile'[d] = storeFile[d]
  BY <1>2 DEF Delete
<1>12. \A d \in DOMAIN storeFile' :
          (\A e \in DOMAIN storeFile' : e <= d) => (\A e \in DOMAIN storeFile : e <= d)
  <2> SUFFICES ASSUME NEW d \in DOMAIN storeFile', \A e \in DOMAIN storeFile' : e <= d,
                      NEW e \in DOMAIN storeFile
               PROVE  e <= d
    OBVIOUS
  <2>1. top <= d /\ e <= top /\ top \in Nat /\ d \in Nat /\ e \in Nat
    BY <1>10, <1>11
  <2> QED BY <2>1
<1>13. FilesOK'
  <2>1. DOMAIN indexFile' \subseteq DOMAIN storeFile'
    BY <1>2, <1>9, <1>10, <1>11 DEF FilesOK
  <2>2. \A d \in DOMAIN storeFile' :
          (\A e \in DOMAIN storeFile' : e <= d) /\ Contents(indexFile', d) = <<>>
             => storeFile'[d] = <<>>
    BY <1>2, <1>9, <1>11, <1>12 DEF FilesOK
  <2> QED BY <1>2, <1>9, <1>11, <2>1, <2>2 DEF FilesOK
<1>14. ObjectsFit'
  <2>1. ASSUME NEW q \in DOMAIN heap, heap[q].files # "closed"
        PROVE  Fits(heap[q], storeFile', indexFile)
    <3>1. heap[q].baseOffset \in DOMAIN storeFile'
      BY <1>7, <1>8, <1>9, <1>11, <2>1 DEF ObjectFiles
    <3>2. Fits(heap[q], storeFile, indexFile)
      BY <1>9, <2>1 DEF ObjectsFit
    <3> QED BY <1>11, <1>12, <3>1, <3>2, FitsElsewhere
  <2> QED BY <1>2, <2>1 DEF ObjectsFit
<1>15. HeapOrdered' /\ ControlOK' /\ CloseOK' /\ SetupOK'
  BY <1>1, <1>2, <1>3, <1>4
     DEF OrderInv, HeapOrdered, ControlOK, CloseOK, SetupOK, Truncating
<1>16. ListOK'
  BY <1>1, <1>2, <1>3, <1>4
     DEF OrderInv, ListOK, Truncating, Rolling, Holding, IsOpen
<1>17. RollOK'
  BY <1>3, <1>4 DEF RollOK, Rolling
<1>18. LoopOK'
  <2>1. \A q \in Elements(Tail(left)) : IsOpen(q) /\ q \in Elements(left)
    BY <1>3, <1>5, <1>7
  <2>2. Holding(Elements(list) \cup Elements(Tail(left)))
    BY <1>3, <1>5, <1>7 DEF Holding
  <2> QED BY <1>2, <1>3, <1>4, <1>5, <2>1, <2>2
          DEF LoopOK, AllOpen, IsOpen, Holding
<1>19. ObjectFiles'
  <2>1. \A q \in DOMAIN heap : heap[q].files # "closed" =>
           heap[q].baseOffset \in DOMAIN storeFile' \cap DOMAIN indexFile
    BY <1>1, <1>6, <1>7, <1>8, <1>9, <1>11 DEF ObjectFiles
  <2>2. \A q \in DOMAIN heap : heap[q].files = "closed" =>
           heap[q].baseOffset \notin DOMAIN storeFile' \cup DOMAIN indexFile
    BY <1>1, <1>3, <1>6, <1>9, <1>11 DEF ObjectFiles
  <2>3. \A d \in DOMAIN storeFile' :
           /\ \E q \in DOMAIN heap : heap[q].baseOffset = d
           /\ d \in DOMAIN indexFile
    BY <1>1, <1>3, <1>6, <1>9, <1>11 DEF ObjectFiles
  <2> QED BY <1>2, <2>1, <2>2, <2>3 DEF ObjectFiles
<1> QED BY <1>13, <1>14, <1>15, <1>16, <1>17, <1>18, <1>19 DEF OrderInv

(* Remove is only called on an open segment whose files are there, and no  *)
(* file operation fails.                                                   *)
LEMMA TruncateErrorNever ==
    ASSUME Sequential, Inv, OrderInv, NEW t \in Truncators,
           TruncateClosed(t) \/ TruncateStuck(t)
    PROVE  FALSE
<1> DEFINE left == local[t].left
<1>1. t \in Threads /\ ~ Fault
  BY NoFaults DEF Threads
<1>2. CASE TruncateClosed(t)
  <2>1. pc[t] = "truncate" /\ left # <<>> /\ ~ IsOpen(Head(left))
    BY <1>2 DEF TruncateClosed, IsOpen
  <2>2. left \in Seq(Nat) /\ AllOpen(left)
    BY <1>1, <2>1, LoopState DEF Truncating
  <2> QED BY <2>1, <2>2, HeadAndTail DEF AllOpen
<1>3. CASE TruncateStuck(t)
  <2>1. /\ pc[t] \in {"remove", "unlink"}
        /\ BaseAt(t) \notin DOMAIN (IF pc[t] = "remove" THEN indexFile ELSE storeFile)
    BY <1>1, <1>3 DEF TruncateStuck
  <2> QED BY <1>1, <2>1, LoopState DEF Truncating
<1> QED BY <1>2, <1>3

LEMMA TruncateEndOrder ==
    ASSUME Sequential, Inv, Inv', OrderInv, NEW t \in Truncators, TruncateEnd(t)
    PROVE  OrderInv'
<1> DEFINE list == local[t].list
<1>1. t \in Threads
  BY DEF Threads
<1>2. /\ Steps(t, "truncate", "idle", Blank) /\ mu' = NoThread
      /\ pc[t] = "truncate" /\ local[t].left = <<>> /\ segments' = list
      /\ UNCHANGED <<storeFile, indexFile, heap, active, status, todo, pending, faults>>
  BY DEF TruncateEnd, Return, disk, process, bounds
<1>3. /\ \A u \in Threads : u = t
      /\ status = "up"
      /\ active = Len(heap) /\ active \in DOMAIN heap /\ IsOpen(active)
      /\ Increasing(list) /\ AllOpen(list)
      /\ Holding(Elements(list) \cup Elements(local[t].left))
  BY <1>1, <1>2, LoopState DEF Truncating
<1>4. pc'[t] = "idle"
  BY <1>1, <1>2, OnlyThread DEF Inv, TypeOK
<1>5. Holding(Elements(list)) /\ active \in Elements(list)
  BY <1>2, <1>3, ElementsOfEmpty DEF Holding, IsOpen
<1>6. HeapOrdered' /\ FilesOK' /\ ObjectsFit' /\ SetupOK'
  BY <1>2, DiskAndHeapKept DEF disk
<1>7. ControlOK' /\ CloseOK' /\ RollOK' /\ LoopOK'
  BY <1>2, <1>3, <1>4
     DEF OrderInv, ControlOK, CloseOK, RollOK, LoopOK, Truncating, Rolling
<1>8. ListOK'
  BY <1>2, <1>3, <1>4, <1>5 DEF OrderInv, ListOK, Holding, AllOpen, IsOpen
<1>9. ObjectFiles'
  <2>1. \A b : ~ Creating(b) /\ ~ Removing(b)
    BY <1>2, <1>3 DEF Creating, Removing
  <2> QED BY <1>2, <2>1, ObjectFilesKept DEF OrderInv
<1> QED BY <1>6, <1>7, <1>8, <1>9 DEF OrderInv

(* The segment that Close is at, with its files.                           *)
LEMMA CloseState ==
    ASSUME Inv, OrderInv, status = "closing", pending # <<>>
    PROVE  LET p == Head(pending)
               s == heap[p]
               b == s.baseOffset
           IN  /\ p \in DOMAIN heap /\ s \in SegmentObject
               /\ s.files \in {"open", "half"}
               /\ pending \in Seq(Nat) /\ Elements(pending) \subseteq DOMAIN heap
               /\ Elements(pending) = {p} \cup Elements(Tail(pending))
               /\ Increasing(Tail(pending))
               /\ \A q \in Elements(Tail(pending)) : q # p /\ IsOpen(q)
               /\ b \in DOMAIN storeFile /\ b \in DOMAIN indexFile
               /\ storeFile[b] \in Seq(Chunk) /\ indexFile[b] \in Seq(Entry)
               /\ Fits(s, storeFile, indexFile) /\ IndexFits(s, indexFile[b])
               /\ \A c : ~ Creating(c) /\ ~ Removing(c)
               /\ \A t \in Threads : ~ Truncating(t) /\ ~ Rolling(t) /\ pc[t] = "idle"
<1> DEFINE p == Head(pending)
           s == heap[p]
           b == s.baseOffset
<1>1. pending \in Seq(DOMAIN heap) /\ pending \in Seq(Nat)
  BY PointersAreNumbers DEF Inv, TypeOK, ProcessOK
<1>2. Elements(pending) \subseteq DOMAIN heap
  BY <1>1, ElementsType
<1>3. /\ Increasing(pending) /\ Holding(Elements(pending))
      /\ \A q \in Elements(pending) :
            IsOpen(q) \/ (heap[q].files = "half" /\ q = Head(pending))
  BY DEF OrderInv, CloseOK
<1>4. /\ p \in Elements(pending) /\ Increasing(Tail(pending))
      /\ Elements(pending) = {p} \cup Elements(Tail(pending))
      /\ \A q \in Elements(Tail(pending)) : p < q
  BY <1>1, <1>3, HeadAndTail
<1>5. p \in DOMAIN heap /\ s \in SegmentObject /\ s.files \in {"open", "half"}
  BY <1>2, <1>3, <1>4, Dereference DEF Inv, TypeOK, IsOpen
<1>6. \A q \in Elements(Tail(pending)) : q # p /\ IsOpen(q)
  <2>1. Elements(pending) \subseteq Nat
    BY <1>1, ElementsType
  <2> HIDE DEF p
  <2>2. \A q \in Elements(Tail(pending)) : q # p
    BY <1>4, <2>1
  <2> QED BY <1>3, <1>4, <2>2 DEF p
<1>7. \A t \in Threads : pc[t] = "idle"
  BY DEF Inv, PointersSet, LocalsSet
<1>8. \A t \in Threads : ~ Truncating(t) /\ ~ Rolling(t)
  BY <1>7 DEF Truncating, Rolling
<1>9. \A c : ~ Creating(c) /\ ~ Removing(c)
  BY <1>7 DEF Creating, Removing
<1>10. b \in DOMAIN storeFile /\ b \in DOMAIN indexFile
  BY <1>5, <1>9 DEF OrderInv, ObjectFiles
<1>11. Fits(s, storeFile, indexFile)
  BY <1>5 DEF OrderInv, ObjectsFit
<1>12. /\ storeFile[b] \in Seq(Chunk) /\ indexFile[b] \in Seq(Entry)
       /\ IndexFits(s, indexFile[b])
  BY <1>10, <1>11 DEF Fits, Inv, TypeOK, DiskOK, FileOf
<1> QED BY <1>1, <1>2, <1>4, <1>5, <1>6, <1>7, <1>8, <1>9, <1>10, <1>11, <1>12

LEMMA CloseIndexOrder ==
    ASSUME Inv, Inv', OrderInv, CloseIndex
    PROVE  OrderInv'
<1> DEFINE p == Head(pending)
           b == heap[p].baseOffset
<1>1. /\ status = "closing" /\ pending # <<>> /\ IsOpen(p)
      /\ heap' = [heap EXCEPT ![p].files = "half"]
      /\ indexFile' = Cut(indexFile, heap[p])
      /\ UNCHANGED <<storeFile, segments, active, mu, status, todo, pending, pc, local, faults>>
  BY DEF CloseIndex, process, threads, bounds, IsOpen
<1>2. /\ p \in DOMAIN heap /\ b \in DOMAIN indexFile
      /\ Elements(pending) \subseteq DOMAIN heap
      /\ \A q \in Elements(pending) : q = p \/ IsOpen(q)
      /\ \A c : ~ Creating(c) /\ ~ Removing(c)
      /\ \A t \in Threads : ~ Truncating(t) /\ ~ Rolling(t) /\ pc[t] = "idle"
  BY <1>1, CloseState
<1>3. b = heap[p].baseOffset /\ p = Head(pending)
  OBVIOUS
<1> HIDE DEF p, b
<1>4. /\ HeapOrdered' /\ FilesOK' /\ ObjectsFit'
      /\ DOMAIN indexFile' = DOMAIN indexFile
      /\ DOMAIN heap' = DOMAIN heap /\ Len(heap') = Len(heap) /\ heap' # <<>>
      /\ heap'[p].files = "half" /\ heap'[p].baseOffset = b
      /\ \A q \in DOMAIN heap : q # p => heap'[q] = heap[q]
  BY <1>1, <1>2, <1>3, CutOrder
<1>5. ControlOK' /\ SetupOK' /\ ListOK'
  BY <1>1, <1>4 DEF OrderInv, ControlOK, SetupOK, ListOK, Truncating
<1>6. RollOK' /\ LoopOK'
  BY <1>1, <1>2 DEF RollOK, LoopOK, Rolling, Truncating
<1>7. CloseOK'
  BY <1>1, <1>2, <1>3, <1>4 DEF OrderInv, CloseOK, Holding, IsOpen
<1>8. ObjectFiles'
  <2>1. \A q \in DOMAIN heap :
           /\ heap'[q].files = "closed" <=> heap[q].files = "closed"
           /\ heap'[q].baseOffset = heap[q].baseOffset
    BY <1>1, <1>3, <1>4 DEF IsOpen
  <2> QED BY <1>1, <1>2, <1>4, <2>1, ObjectFilesKept DEF OrderInv
<1> QED BY <1>4, <1>5, <1>6, <1>7, <1>8 DEF OrderInv

LEMMA CloseStoreOrder ==
    ASSUME Inv, Inv', OrderInv, CloseStore
    PROVE  OrderInv'
<1> DEFINE p == Head(pending)
           b == heap[p].baseOffset
<1>1. /\ status = "closing" /\ pending # <<>> /\ heap[p].files = "half"
      /\ heap' = [heap EXCEPT ![p] = Closed(@)]
      /\ storeFile' = Grown(storeFile, b, heap[p].buf)
      /\ pending' = Tail(pending)
      /\ UNCHANGED <<indexFile, segments, active, mu, status, todo, pc, local, faults>>
  BY DEF CloseStore, threads, bounds
<1>2. /\ p \in DOMAIN heap /\ b \in DOMAIN indexFile
      /\ Elements(pending) \subseteq DOMAIN heap
      /\ Elements(pending) = {p} \cup Elements(Tail(pending))
      /\ Increasing(Tail(pending))
      /\ \A q \in Elements(Tail(pending)) : q # p /\ IsOpen(q)
      /\ \A c : ~ Creating(c) /\ ~ Removing(c)
      /\ \A t \in Threads : ~ Truncating(t) /\ ~ Rolling(t) /\ pc[t] = "idle"
  BY <1>1, CloseState
<1>3. b = heap[p].baseOffset /\ p = Head(pending)
  OBVIOUS
<1> HIDE DEF p, b
<1>4. /\ HeapOrdered' /\ FilesOK' /\ ObjectsFit'
      /\ DOMAIN storeFile' = DOMAIN storeFile
      /\ DOMAIN heap' = DOMAIN heap /\ Len(heap') = Len(heap) /\ heap' # <<>>
      /\ heap'[p].files = "closed" /\ heap'[p].baseOffset = b
      /\ \A q \in DOMAIN heap : q # p => heap'[q] = heap[q]
  BY <1>1, <1>2, <1>3, FlushOrder
<1>5. ControlOK' /\ SetupOK' /\ ListOK'
  BY <1>1, <1>4 DEF OrderInv, ControlOK, SetupOK, ListOK, Truncating
<1>6. RollOK' /\ LoopOK'
  BY <1>1, <1>2 DEF RollOK, LoopOK, Rolling, Truncating
<1>7. CloseOK'
  <2>1. \A q \in Elements(Tail(pending)) : q \in DOMAIN heap /\ heap'[q].files = "open"
    BY <1>2, <1>4 DEF IsOpen
  <2>2. \A q \in DOMAIN heap' : heap'[q].files # "closed" => q \in Elements(Tail(pending))
    BY <1>1, <1>2, <1>4 DEF OrderInv, CloseOK, Holding
  <2> QED BY <1>1, <1>2, <2>1, <2>2 DEF CloseOK, Holding, IsOpen
<1>8. ObjectFiles'
  <2>1. ObjectFiles
    BY DEF OrderInv
  <2>2. \A q \in DOMAIN heap' : heap'[q].baseOffset = heap[q].baseOffset
    BY <1>3, <1>4
  <2>3. \A q \in DOMAIN heap' : heap'[q].files # "closed" =>
           heap'[q].baseOffset \in DOMAIN storeFile \cap DOMAIN indexFile
    BY <1>2, <1>4, <2>1 DEF ObjectFiles
  <2>4. \A c \in DOMAIN storeFile : c \in DOMAIN indexFile
            /\ \E q \in DOMAIN heap' : heap'[q].baseOffset = c
    BY <1>1, <1>2, <1>4, <2>1, <2>2 DEF ObjectFiles
  <2> QED BY <1>1, <1>4, <2>3, <2>4 DEF ObjectFiles
<1> QED BY <1>4, <1>5, <1>6, <1>7, <1>8 DEF OrderInv

LEMMA CloseErrorNever == ASSUME Inv, OrderInv, CloseError PROVE FALSE
<1>1. status = "closing" /\ pending # <<>> /\ heap[Head(pending)].files = "closed"
  BY DEF CloseError
<1> QED BY <1>1, CloseState

LEMMA EndOrder ==
    ASSUME Inv, Inv', OrderInv, CloseEnd \/ Crash
    PROVE  OrderInv'
<1>1. Die("down") /\ faults' = faults
  BY DEF CloseEnd, Crash, bounds
<1> QED BY <1>1, DieOrder

(* A segment opened above all others.                                      *)
LEMMA OpenSegmentOrder ==
    ASSUME Inv, Inv', OrderInv, status = "setup", NEW y \in Nat, OpenSegment(y),
           \A p \in DOMAIN heap : heap[p].nextOffset <= y /\ heap[p].baseOffset < y,
           y \in DOMAIN storeFile \/ DOMAIN storeFile = {}
    PROVE  /\ HeapOrdered' /\ FilesOK' /\ ObjectsFit'
           /\ DOMAIN storeFile' = DOMAIN storeFile \cup {y}
           /\ DOMAIN indexFile' = DOMAIN indexFile \cup {y}
           /\ heap' # <<>> /\ Len(heap') \in DOMAIN heap' /\ active' = Len(heap')
           /\ DOMAIN heap' = DOMAIN heap \cup {Len(heap')}
           /\ \A p \in DOMAIN heap : heap'[p] = heap[p]
           /\ heap'[Len(heap')].baseOffset = y /\ heap'[Len(heap')].files = "open"
           /\ heap'[Len(heap')].nextOffset = EndOf(Contents(indexFile, y), y)
           /\ Elements(segments') = DOMAIN heap' /\ Increasing(segments')
           /\ \A p \in DOMAIN heap' :
                 /\ heap'[p].files = "open"
                 /\ heap'[p].baseOffset \in DOMAIN storeFile' \cap DOMAIN indexFile'
<1> DEFINE s  == NewSegment(y, storeFile, indexFile)
           ix == Contents(indexFile, y)
           rx == Resized(ix, MaxIndexBytes)
           f  == Contents(storeFile, y)
           n  == Len(heap) + 1
<1>1. /\ storeFile' = Put(storeFile, y, f) /\ indexFile' = Put(indexFile, y, rx)
      /\ heap' = Append(heap, s)
      /\ segments' = Append(segments, n) /\ active' = n
  BY DEF OpenSegment
<1>2. FilesOK /\ HeapOrdered /\ ObjectsFit /\ ObjectFiles
  BY DEF OrderInv
<1>3. ix \in Seq(Entry) /\ f \in Seq(Chunk) /\ Len(ix) \in Nat /\ Len(f) \in Nat
  BY ContentsType, LenProperties DEF Inv, TypeOK, DiskOK
<1>4. Len(ix) <= MaxIndexBytes
  <2>1. CASE y \in DOMAIN indexFile
    BY <1>2, <2>1 DEF FilesOK, Contents
  <2>2. CASE y \notin DOMAIN indexFile
    BY <2>2, SegmentAssumption, EmptySeq DEF Contents
  <2> QED BY <2>1, <2>2
<1>5. s \in SegmentObject
  BY NewSegmentType DEF Inv, TypeOK
<1>6. /\ s.baseOffset = y /\ s.nextOffset = EndOf(ix, y) /\ s.size = Len(f)
      /\ s.buf = <<>> /\ s.indexSize = Len(ix) /\ s.files = "open"
  <2> DEFINE m == NewStore(y, storeFile)
  <2>1. /\ m \in SegmentObject /\ m.baseOffset = y /\ m.size = Len(f) /\ m.buf = <<>>
        /\ m.files = "open"
    BY NewStoreType DEF NewStore, Inv, TypeOK
  <2>2. s = WithIndex(m, ix)
    BY DEF NewSegment
  <2> HIDE DEF m, s, ix, f
  <2> QED BY <2>1, <2>2 DEF WithIndex, EndOf, SegmentObject, SegmentRecord
<1>7. /\ Len(rx) = MaxIndexBytes /\ rx # <<>>
      /\ \A i \in 1 .. Len(ix) : rx[i] = ix[i]
      /\ EndOf(rx, y) = EndOf(ix, y) \/ EndOf(rx, y) = y + 1
  <2> HIDE DEF ix
  <2> QED BY <1>3, <1>4, ResizedEnd
<1>8. EndOf(ix, y) \in Nat /\ y <= EndOf(ix, y)
  <2> HIDE DEF ix
  <2> QED BY <1>3, EndOfType
<1>9. /\ y \in DOMAIN indexFile => ix = indexFile[y]
      /\ y \notin DOMAIN indexFile => ix = <<>> /\ EndOf(ix, y) = y
      /\ y \in DOMAIN storeFile => f = storeFile[y]
      /\ y \notin DOMAIN storeFile => f = <<>> /\ Len(f) = 0
  BY EmptySeq DEF Contents, EndOf
<1> HIDE DEF s, ix, rx, f
<1>10. /\ DOMAIN storeFile' = DOMAIN storeFile \cup {y} /\ storeFile'[y] = f
       /\ \A c \in DOMAIN storeFile : storeFile'[c] = storeFile[c]
       /\ DOMAIN indexFile' = DOMAIN indexFile \cup {y} /\ indexFile'[y] = rx
       /\ \A c \in DOMAIN indexFile : c # y => indexFile'[c] = indexFile[c]
  BY <1>1, <1>9 DEF Put
<1>11. /\ Len(heap') = n /\ n \in DOMAIN heap'
       /\ DOMAIN heap' = DOMAIN heap \cup {n}
       /\ heap' # <<>> /\ heap'[n] = s
       /\ \A p \in DOMAIN heap : heap'[p] = heap[p] /\ p < n
  BY <1>1, <1>5, HeapExtended DEF Inv, TypeOK
<1>12. \A p \in DOMAIN heap : Precedes(heap[p], s)
  BY <1>6 DEF Precedes
<1>13. HeapOrdered'
  BY <1>1, <1>2, <1>5, <1>12, OrderExtended DEF Inv, TypeOK
<1>14. \A p \in DOMAIN heap :
          /\ heap[p].files = "open" /\ p \in Elements(segments)
          /\ heap[p].baseOffset \in DOMAIN storeFile \cap DOMAIN indexFile
          /\ heap[p].baseOffset # y
  <2>1. \A c : ~ Creating(c)
    BY DEF Creating, Inv, PointersSet, LocalsSet
  <2>2. \A p \in DOMAIN heap : heap[p].files = "open" /\ p \in Elements(segments)
    BY DEF OrderInv, ListOK, IsOpen
  <2>3. \A p \in DOMAIN heap : heap[p].baseOffset # y
    BY Dereference DEF Inv, TypeOK, SegmentObject, SegmentRecord
  <2> QED BY <1>2, <2>1, <2>2, <2>3 DEF ObjectFiles
<1>15. FilesOK'
  <2>1. \A c \in DOMAIN indexFile' : Len(indexFile'[c]) <= MaxIndexBytes
    <3>1. MaxIndexBytes \in Nat
      BY SegmentAssumption
    <3> QED BY <1>2, <1>7, <1>10, <3>1 DEF FilesOK
  <2>2. ASSUME NEW c \in DOMAIN indexFile', NEW d \in DOMAIN storeFile', c < d
        PROVE  EndOf(indexFile'[c], c) <= d
    <3>1. c \in Nat /\ d \in Nat
      BY DEF Inv, TypeOK, DiskOK, FileOf
    <3>2. CASE c = y
      <4>1. d \in DOMAIN storeFile
        BY <1>10, <2>2, <3>1, <3>2
      <4>2. EndOf(ix, y) <= d
        BY <1>2, <1>9, <2>2, <3>1, <3>2, <4>1 DEF FilesOK
      <4> QED BY <1>7, <1>10, <2>2, <3>1, <3>2, <4>2
    <3>3. CASE c # y
      <4>1. c \in DOMAIN indexFile /\ c \in DOMAIN storeFile
        BY <1>2, <1>10, <3>3 DEF FilesOK
      <4>2. d \in DOMAIN storeFile
        BY <1>10, <4>1
      <4> QED BY <1>2, <1>10, <2>2, <3>3, <4>1, <4>2 DEF FilesOK
    <3> QED BY <3>2, <3>3
  <2>3. ASSUME NEW c \in DOMAIN storeFile', \A d \in DOMAIN storeFile' : d <= c,
               Contents(indexFile', c) = <<>>
        PROVE  storeFile'[c] = <<>>
    <3>1. c # y
      BY <1>7, <1>10, <2>3 DEF Contents
    <3>2. Contents(indexFile, c) = <<>>
      BY <1>10, <2>3, <3>1 DEF Contents
    <3> QED BY <1>2, <1>10, <2>3, <3>1, <3>2 DEF FilesOK
  <2> QED BY <1>2, <1>10, <2>1, <2>2, <2>3 DEF FilesOK
<1>16. ObjectsFit'
  <2>1. ASSUME NEW p \in DOMAIN heap
        PROVE  Fits(heap[p], storeFile', indexFile')
    <3>1. Fits(heap[p], storeFile, indexFile)
      BY <1>2, <1>14 DEF ObjectsFit
    <3> QED BY <1>10, <1>14, <3>1, FitsElsewhere
  <2>2. Fits(s, storeFile', indexFile')
    <3>1. IndexFits(s, rx)
      <4>1. s.indexSize > 0 => s.baseOffset + rx[s.indexSize].off + 1 = s.nextOffset
        <5>1. SUFFICES ASSUME Len(ix) > 0
                       PROVE  y + rx[Len(ix)].off + 1 = EndOf(ix, y)
          BY <1>6
        <5>2. Len(ix) \in 1 .. Len(ix) /\ ix # <<>>
          BY <1>3, <5>1, EmptySeq
        <5> QED BY <1>7, <5>2 DEF EndOf
      <4>2. EndOf(rx, y) <= EndOf(ix, y) \/ EndOf(rx, y) <= y + 1
        BY <1>7, <1>8
      <4>3. Len(ix) <= Len(rx)
        BY <1>4, <1>7
      <4> QED BY <1>6, <1>7, <4>1, <4>2, <4>3 DEF IndexFits
    <3>2. s.size = Len(storeFile'[y]) + Len(s.buf)
      <4>1. Len(<<>>) = 0
        BY EmptySeq
      <4> QED BY <1>3, <1>6, <1>10, <4>1
    <3>3. s.indexSize = 0 => ix = <<>> /\ s.nextOffset = y
      BY <1>3, <1>6, EmptySeq DEF EndOf
    <3>4. ASSUME \A c \in DOMAIN storeFile' : c <= y, s.indexSize = 0
          PROVE  s.size = 0
      <4>1. CASE y \in DOMAIN storeFile
        <5>1. Contents(indexFile, y) = <<>>
          BY <3>3, <3>4 DEF ix
        <5>2. storeFile[y] = <<>>
          BY <1>2, <1>10, <3>4, <4>1, <5>1 DEF FilesOK
        <5> QED BY <1>6, <1>9, <4>1, <5>2, EmptySeq
      <4>2. CASE y \notin DOMAIN storeFile
        BY <1>6, <1>9, <4>2
      <4> QED BY <4>1, <4>2
    <3> QED BY <1>6, <1>10, <3>1, <3>2, <3>3, <3>4 DEF Fits
  <2> QED BY <1>11, <2>1, <2>2 DEF ObjectsFit
<1>17. segments \in Seq(DOMAIN heap) /\ Elements(segments) = DOMAIN heap
  <2>1. segments \in Seq(DOMAIN heap)
    BY DEF Inv, TypeOK, LogOK
  <2>2. Elements(segments) \subseteq DOMAIN heap
    BY <2>1, ElementsType
  <2> QED BY <1>14, <2>1, <2>2
<1>18. Elements(segments') = DOMAIN heap' /\ Increasing(segments')
  <2>1. segments \in Seq(Nat) /\ n \in Nat
    BY <1>17, PointersAreNumbers DEF Inv, TypeOK
  <2>2. Increasing(segments) /\ \A p \in Elements(segments) : p < n
    BY <1>11, <1>17 DEF OrderInv, ListOK
  <2> HIDE DEF n
  <2>3. Elements(segments') = Elements(segments) \cup {n}
    BY <1>1, <2>1, ElementsOfAppend
  <2>4. Increasing(segments')
    BY <1>1, <2>1, <2>2, IncreasingAppend
  <2> QED BY <1>11, <1>17, <2>3, <2>4
<1>19. \A p \in DOMAIN heap' :
          /\ heap'[p].files = "open"
          /\ heap'[p].baseOffset \in DOMAIN storeFile' \cap DOMAIN indexFile'
  BY <1>6, <1>10, <1>11, <1>14
<1>20. active' = n
  BY <1>1
<1> HIDE DEF n
<1> QED BY <1>6, <1>10, <1>11, <1>13, <1>15, <1>16, <1>18, <1>19, <1>20 DEF ix

LEMMA SetupBeginOrder ==
    ASSUME Inv, Inv', OrderInv, SetupBegin
    PROVE  OrderInv'
<1>1. /\ status = "down" /\ heap = <<>> /\ segments = <<>>
      /\ status' = "setup" /\ todo' = NamesOnDisk
      /\ UNCHANGED <<storeFile, indexFile, heap, segments, active, mu, pc, local, faults>>
      /\ DOMAIN heap = {}
  BY DEF SetupBegin, OrderInv, ControlOK, disk, log, threads, bounds
<1>2. \A t \in Threads : pc[t] = "idle"
  BY <1>1 DEF Inv, PointersSet, LocalsSet
<1>3. ControlOK' /\ HeapOrdered' /\ FilesOK' /\ ObjectsFit' /\ ObjectFiles'
  BY <1>1 DEF OrderInv, ControlOK, HeapOrdered, FilesOK, ObjectsFit, ObjectFiles, Truncating
<1>4. ListOK' /\ RollOK' /\ LoopOK' /\ CloseOK'
  BY <1>1, <1>2, ElementsOfEmpty DEF ListOK, RollOK, LoopOK, CloseOK, Truncating, Rolling
<1>5. SetupOK'
  <2>1. ASSUME NEW n \in NamesOnDisk, Single(n, NamesOnDisk)
        PROVE  n[1] \in DOMAIN storeFile \ DOMAIN indexFile /\ n = <<n[1], "store">>
    <3>1. DOMAIN indexFile \subseteq DOMAIN storeFile
      BY DEF OrderInv, FilesOK
    <3>2. n[1] \in DOMAIN storeFile
      BY <3>1 DEF NamesOnDisk
    <3>3. <<n[1], "store">> \in NamesOnDisk
      BY <3>2 DEF NamesOnDisk
    <3>4. n = <<n[1], "store">>
      BY <2>1, <3>3 DEF Single
    <3>5. n[1] \in DOMAIN indexFile => <<n[1], "index">> \in NamesOnDisk
      BY DEF NamesOnDisk
    <3>6. <<n[1], "index">> # n
      BY <3>4
    <3> QED BY <2>1, <3>2, <3>4, <3>5, <3>6 DEF Single
  <2>2. \A n, m \in NamesOnDisk : Single(n, NamesOnDisk) /\ Single(m, NamesOnDisk) => n = m
    <3> SUFFICES ASSUME NEW n \in NamesOnDisk, NEW m \in NamesOnDisk,
                        Single(n, NamesOnDisk), Single(m, NamesOnDisk)
                 PROVE  n = m
      OBVIOUS
    <3>1. n[1] = m[1]
      BY <2>1 DEF OrderInv, FilesOK
    <3> QED BY <3>1 DEF Single
  <2>3. \A n \in NamesOnDisk : n[1] \in DOMAIN storeFile
    BY DEF NamesOnDisk, OrderInv, FilesOK
  <2>4. \A b \in DOMAIN storeFile : \E n \in NamesOnDisk : n[1] = b
    <3> SUFFICES ASSUME NEW b \in DOMAIN storeFile PROVE \E n \in NamesOnDisk : n[1] = b
      OBVIOUS
    <3>1. <<b, "store">> \in NamesOnDisk
      BY DEF NamesOnDisk
    <3> QED BY <3>1
  <2> QED BY <1>1, <2>2, <2>3, <2>4 DEF SetupOK, Single
<1> QED BY <1>3, <1>4, <1>5 DEF OrderInv

(* What setup takes from the names and what it leaves.                     *)
Takes(names, name, left) ==
    /\ name = FirstName(names)
    /\ left = LET rest == names \ {name}
              IN  IF rest = {} THEN {} ELSE rest \ {FirstName(rest)}

LEMMA NamesLeft ==
    ASSUME NEW names, names # {}, names \subseteq Nat \X {"index", "store"},
           \A n, m \in names : Single(n, names) /\ Single(m, names) => n = m,
           NEW name, NEW left, Takes(names, name, left)
    PROVE  /\ name \in names /\ name[1] \in Nat /\ left \subseteq names
           /\ \A n \in left : name[1] < n[1]
           /\ \A n \in names : n[1] = name[1] \/ \E m \in left : m[1] = n[1]
           /\ \A n, m \in left : Single(n, left) /\ Single(m, left) => n = m
<1>0. PICK rest : /\ rest = names \ {name} /\ name = FirstName(names)
                  /\ left = IF rest = {} THEN {} ELSE rest \ {FirstName(rest)}
  BY DEF Takes
<1>1. /\ name \in names /\ name[1] \in Nat
      /\ \A n \in names : name[1] <= n[1] /\ n[1] \in Nat
  BY <1>0, FirstNameIsName
<1>2. CASE rest = {}
  BY <1>0, <1>1, <1>2
<1>3. CASE rest # {}
  <2> DEFINE g == FirstName(rest)
  <2>1. /\ g \in rest /\ \A n \in rest : g[1] <= n[1]
    <3>1. rest \subseteq Nat \X {"index", "store"}
      BY <1>0
    <3> QED BY <1>3, <3>1, FirstNameIsName
  <2>2. left = rest \ {g}
    BY <1>0, <1>3
  <2> HIDE DEF g
  <2>3. g \in names /\ g # name /\ left = names \ {name, g}
    BY <1>0, <2>1, <2>2
  <2>4. \A n, m, k \in names : n[1] = m[1] /\ m[1] = k[1] => n = m \/ m = k \/ n = k
    <3>1. \A n \in names : n = <<n[1], "index">> \/ n = <<n[1], "store">>
      OBVIOUS
    <3> QED BY <3>1
  <2>5. ASSUME NEW n \in left PROVE name[1] < n[1]
    <3>1. n \in names /\ n # g /\ n # name /\ n \in rest
      BY <1>0, <2>3
    <3>2. n[1] \in Nat /\ g[1] \in Nat /\ g[1] <= n[1] /\ name[1] <= g[1] /\ name[1] <= n[1]
      BY <1>1, <2>1, <2>3, <3>1
    <3>3. n[1] # name[1]
      <4> SUFFICES ASSUME n[1] = name[1] PROVE FALSE
        OBVIOUS
      <4>1. g[1] = n[1]
        BY <1>1, <3>2
      <4> QED BY <1>1, <2>3, <2>4, <3>1, <4>1
    <3> QED BY <1>1, <3>2, <3>3
  <2>6. CASE g[1] = name[1]
    <3>1. \A n \in names : n[1] # name[1] => n \in left
      BY <2>3, <2>6
    <3>2. \A n \in left : Single(n, left) => Single(n, names)
      <4> SUFFICES ASSUME NEW n \in left, Single(n, left), NEW m \in names, m[1] = n[1]
                   PROVE  m = n
        BY DEF Single
      <4>1. n[1] # name[1]
        BY <1>1, <2>3, <2>5
      <4> QED BY <3>1, <4>1 DEF Single
    <3> QED BY <1>1, <2>3, <2>5, <3>1, <3>2
  <2>7. CASE g[1] # name[1]
    <3>1. Single(name, names)
      <4> SUFFICES ASSUME NEW m \in names, m[1] = name[1], m # name PROVE FALSE
        BY DEF Single
      <4>1. g[1] <= name[1] /\ name[1] <= g[1] /\ g[1] \in Nat
        BY <1>0, <1>1, <2>1, <2>3
      <4> QED BY <1>1, <2>7, <4>1
    <3>2. \A n \in names : Single(n, names) => n = name
      BY <1>1, <3>1
    <3>3. ASSUME NEW n \in names, n[1] # name[1]
          PROVE  \E m \in left : m[1] = n[1]
      <4>1. CASE n \in left
        BY <4>1
      <4>2. CASE n \notin left
        <5>1. n = g
          BY <2>3, <3>3, <4>2
        <5>2. PICK m \in names : m[1] = g[1] /\ m # g
          BY <2>3, <2>7, <3>2 DEF Single
        <5>3. m \in left
          BY <2>3, <2>7, <5>2
        <5> QED BY <5>1, <5>2, <5>3
      <4> QED BY <4>1, <4>2
    <3>4. ASSUME NEW n \in left, Single(n, left)
          PROVE  n[1] = g[1]
      <4>1. n \in names /\ n # name /\ n[1] # name[1]
        BY <1>1, <2>3, <2>5
      <4>2. PICK m \in names : m[1] = n[1] /\ m # n
        BY <3>2, <4>1 DEF Single
      <4>3. m \notin left
        BY <3>4, <4>2 DEF Single
      <4>4. m = g
        BY <2>3, <4>1, <4>2, <4>3
      <4> QED BY <4>2, <4>4
    <3>5. ASSUME NEW n \in left, NEW m \in left, Single(n, left), Single(m, left)
          PROVE  n = m
      <4>1. n[1] = g[1] /\ m[1] = g[1]
        BY <3>4, <3>5
      <4>2. n \in names /\ m \in names /\ n # g /\ m # g
        BY <2>3
      <4> QED BY <2>3, <2>4, <4>1, <4>2
    <3> QED BY <1>1, <2>3, <2>5, <3>3, <3>5
  <2> QED BY <2>6, <2>7
<1> QED BY <1>2, <1>3

LEMMA SetupSegmentOrder ==
    ASSUME Inv, Inv', OrderInv, SetupSegment
    PROVE  OrderInv'
<1> DEFINE name == FirstName(todo)
           y    == name[1]
<1>1. /\ status = "setup" /\ todo # {} /\ OpenSegment(y)
      /\ todo' = IF todo \ {name} = {} THEN {}
                 ELSE (todo \ {name}) \ {FirstName(todo \ {name})}
      /\ UNCHANGED <<mu, status, pending, pc, local, faults>>
  BY DEF SetupSegment, threads, bounds
<1>2. /\ \A n, m \in todo : Single(n, todo) /\ Single(m, todo) => n = m
      /\ \A n \in todo : n[1] \in DOMAIN storeFile
      /\ \A b \in DOMAIN storeFile :
            \/ \E n \in todo : n[1] = b
            \/ /\ b \in DOMAIN indexFile
               /\ \E p \in DOMAIN heap : heap[p].baseOffset = b
      /\ \A p \in DOMAIN heap, n \in todo :
            heap[p].nextOffset <= n[1] /\ heap[p].baseOffset < n[1]
  BY <1>1 DEF OrderInv, SetupOK
<1>3. /\ name \in todo /\ y \in Nat /\ todo' \subseteq todo
      /\ \A n \in todo' : y < n[1]
      /\ \A n \in todo : n[1] = y \/ \E m \in todo' : m[1] = n[1]
      /\ \A n, m \in todo' : Single(n, todo') /\ Single(m, todo') => n = m
  <2>1. todo \subseteq Nat \X {"index", "store"}
    BY DEF Inv, TypeOK, ProcessOK
  <2>2. Takes(todo, name, todo')
    BY <1>1 DEF Takes
  <2>3. /\ todo # {}
        /\ \A n, m \in todo : Single(n, todo) /\ Single(m, todo) => n = m
    BY <1>1, <1>2
  <2> HIDE DEF name
  <2>4. /\ name \in todo /\ name[1] \in Nat /\ todo' \subseteq todo
        /\ \A n \in todo' : name[1] < n[1]
        /\ \A n \in todo : n[1] = name[1] \/ \E m \in todo' : m[1] = n[1]
        /\ \A n, m \in todo' : Single(n, todo') /\ Single(m, todo') => n = m
    BY <2>1, <2>2, <2>3, NamesLeft
  <2> QED BY <2>4
<1> HIDE DEF name, y
<1>4. /\ y \in DOMAIN storeFile
      /\ \A p \in DOMAIN heap : heap[p].nextOffset <= y /\ heap[p].baseOffset < y
  BY <1>2, <1>3 DEF y
<1>5. /\ HeapOrdered' /\ FilesOK' /\ ObjectsFit'
      /\ DOMAIN storeFile' = DOMAIN storeFile \cup {y}
      /\ DOMAIN indexFile' = DOMAIN indexFile \cup {y}
      /\ heap' # <<>> /\ Len(heap') \in DOMAIN heap' /\ active' = Len(heap')
      /\ DOMAIN heap' = DOMAIN heap \cup {Len(heap')}
      /\ \A p \in DOMAIN heap : heap'[p] = heap[p]
      /\ heap'[Len(heap')].baseOffset = y /\ heap'[Len(heap')].files = "open"
      /\ heap'[Len(heap')].nextOffset = EndOf(Contents(indexFile, y), y)
      /\ Elements(segments') = DOMAIN heap' /\ Increasing(segments')
      /\ \A p \in DOMAIN heap' :
            /\ heap'[p].files = "open"
            /\ heap'[p].baseOffset \in DOMAIN storeFile' \cap DOMAIN indexFile'
  BY <1>1, <1>3, <1>4, OpenSegmentOrder
<1>6. \A t \in Threads : pc[t] = "idle"
  BY <1>1 DEF Inv, PointersSet, LocalsSet
<1>7. ControlOK' /\ RollOK' /\ LoopOK' /\ CloseOK'
  BY <1>1, <1>6
     DEF OrderInv, ControlOK, RollOK, LoopOK, CloseOK, Truncating, Rolling
<1>8. ListOK'
  BY <1>1, <1>5 DEF ListOK, IsOpen
<1>9. ObjectFiles'
  BY <1>1, <1>5 DEF ObjectFiles
<1>10. SetupOK'
  <2>1. \A n \in todo' : n[1] \in DOMAIN storeFile'
    BY <1>2, <1>3, <1>5
  <2>2. ASSUME NEW b \in DOMAIN storeFile', ~ \E n \in todo' : n[1] = b
        PROVE  /\ b \in DOMAIN indexFile'
               /\ \E p \in DOMAIN heap' : heap'[p].baseOffset = b
    <3>1. CASE b = y
      BY <1>5, <3>1
    <3>2. CASE b # y
      <4>1. b \in DOMAIN storeFile /\ ~ \E n \in todo : n[1] = b
        BY <1>3, <1>5, <2>2, <3>2
      <4>2. PICK p \in DOMAIN heap : heap[p].baseOffset = b /\ b \in DOMAIN indexFile
        BY <1>2, <4>1
      <4> QED BY <1>5, <4>2
    <3> QED BY <3>1, <3>2
  <2>3. ASSUME NEW n \in todo'
        PROVE  EndOf(Contents(indexFile, y), y) <= n[1]
    <3>1. n[1] \in DOMAIN storeFile /\ y < n[1] /\ n[1] \in Nat
      BY <1>2, <1>3 DEF Inv, TypeOK, DiskOK, FileOf
    <3>2. CASE y \in DOMAIN indexFile
      BY <3>1, <3>2 DEF OrderInv, FilesOK, Contents
    <3>3. CASE y \notin DOMAIN indexFile
      BY <1>3, <3>1, <3>3 DEF Contents, EndOf
    <3> QED BY <3>2, <3>3
  <2>4. \A p \in DOMAIN heap', n \in todo' :
           heap'[p].nextOffset <= n[1] /\ heap'[p].baseOffset < n[1]
    BY <1>2, <1>3, <1>5, <2>3
  <2>5. \A n, m \in todo' : Single(n, todo') /\ Single(m, todo') => n = m
    BY <1>3
  <2> QED BY <2>1, <2>2, <2>4, <2>5 DEF SetupOK, Single
<1> QED BY <1>5, <1>7, <1>8, <1>9, <1>10 DEF OrderInv

LEMMA SetupDoneOrder ==
    ASSUME Inv, Inv', OrderInv, SetupDone
    PROVE  OrderInv'
<1>1. /\ status = "setup" /\ todo = {} /\ status' = "up"
      /\ UNCHANGED <<mu, todo, pending, pc, local, faults>>
      /\ segments = <<>> => OpenSegment(InitialOffset)
      /\ segments # <<>> => UNCHANGED <<storeFile, indexFile, heap, segments, active>>
  BY DEF SetupDone, disk, log, threads, bounds
<1>2. \A t \in Threads : pc[t] = "idle"
  BY <1>1 DEF Inv, PointersSet, LocalsSet
<1>3. \A b : ~ Creating(b) /\ ~ Removing(b)
  BY <1>2 DEF Creating, Removing
<1>4. /\ \A b \in DOMAIN storeFile : /\ b \in DOMAIN indexFile
                                     /\ \E p \in DOMAIN heap : heap[p].baseOffset = b
      /\ \A p \in DOMAIN heap : heap[p].files = "open" /\ p \in Elements(segments)
      /\ heap # <<>> => active = Len(heap)
      /\ Increasing(segments)
      /\ Elements(segments) \subseteq DOMAIN heap
  <2>1. Elements(segments) \subseteq DOMAIN heap
    BY ElementsType DEF Inv, TypeOK, LogOK
  <2> QED BY <1>1, <2>1 DEF OrderInv, SetupOK, ListOK, IsOpen
<1>5. /\ HeapOrdered' /\ FilesOK' /\ ObjectsFit'
      /\ heap' # <<>> /\ Len(heap') \in DOMAIN heap' /\ active' = Len(heap')
      /\ Elements(segments') = DOMAIN heap' /\ Increasing(segments')
      /\ \A p \in DOMAIN heap' :
            /\ heap'[p].files = "open"
            /\ heap'[p].baseOffset \in DOMAIN storeFile' \cap DOMAIN indexFile'
      /\ \A b \in DOMAIN storeFile' : /\ b \in DOMAIN indexFile'
                                      /\ \E p \in DOMAIN heap' : heap'[p].baseOffset = b
  <2>1. CASE segments = <<>>
    <3>1. DOMAIN heap = {} /\ DOMAIN storeFile = {}
      BY <1>4, <2>1, ElementsOfEmpty
    <3>2. InitialOffset \in Nat
      BY CommitLogAssumption
    <3>3. /\ HeapOrdered' /\ FilesOK' /\ ObjectsFit'
          /\ DOMAIN storeFile' = DOMAIN storeFile \cup {InitialOffset}
          /\ DOMAIN indexFile' = DOMAIN indexFile \cup {InitialOffset}
          /\ heap' # <<>> /\ Len(heap') \in DOMAIN heap' /\ active' = Len(heap')
          /\ heap'[Len(heap')].baseOffset = InitialOffset
          /\ Elements(segments') = DOMAIN heap' /\ Increasing(segments')
          /\ \A p \in DOMAIN heap' :
                /\ heap'[p].files = "open"
                /\ heap'[p].baseOffset \in DOMAIN storeFile' \cap DOMAIN indexFile'
      BY <1>1, <2>1, <3>1, <3>2, OpenSegmentOrder
    <3> QED BY <3>1, <3>3
  <2>2. CASE segments # <<>>
    <3>1. /\ UNCHANGED <<storeFile, indexFile, heap, segments, active>>
      BY <1>1, <2>2
    <3>2. segments \in Seq(DOMAIN heap) /\ heap \in Seq(SegmentObject)
      BY DEF Inv, TypeOK, LogOK
    <3>3. heap # <<>>
      <4>1. Head(segments) \in DOMAIN heap
        BY <2>2, <3>2, HeadTailProperties
      <4> QED BY <4>1
    <3>4. Len(heap) \in DOMAIN heap
      BY <3>3, PointersAreNumbers DEF Inv, TypeOK
    <3>5. \A p \in DOMAIN heap : heap[p].baseOffset \in DOMAIN storeFile \cap DOMAIN indexFile
      BY <1>3, <1>4 DEF OrderInv, ObjectFiles
    <3>6. HeapOrdered' /\ FilesOK' /\ ObjectsFit'
      BY <3>1 DEF OrderInv, HeapOrdered, FilesOK, ObjectsFit
    <3> QED BY <1>4, <3>1, <3>3, <3>4, <3>5, <3>6
  <2> QED BY <2>1, <2>2
<1>6. ControlOK' /\ RollOK' /\ LoopOK' /\ CloseOK' /\ SetupOK'
  BY <1>1, <1>2, <1>5
     DEF OrderInv, ControlOK, RollOK, LoopOK, CloseOK, SetupOK, Truncating, Rolling
<1>7. ListOK'
  BY <1>1, <1>5 DEF ListOK, IsOpen, AllOpen, Holding
<1>8. ObjectFiles'
  BY <1>1, <1>5 DEF ObjectFiles
<1> QED BY <1>5, <1>6, <1>7, <1>8 DEF OrderInv

-----------------------------------------------------------------------------
LEMMA StepKeepsOrder ==
    Sequential /\ Inv /\ Inv' /\ OrderInv /\ [Next]_vars => OrderInv'
<1> SUFFICES ASSUME Sequential, Inv, Inv', OrderInv, [Next]_vars PROVE OrderInv'
  OBVIOUS
<1>1. CASE SetupBegin \/ SetupSegment \/ SetupDone
  BY <1>1, SetupBeginOrder, SetupSegmentOrder, SetupDoneOrder
<1>2. ASSUME NEW t \in Appenders, AppendHighest(t) \/ AppendPanic(t)
      PROVE  OrderInv'
  BY <1>2, AppendHighestOrder, AppendPanicNever
<1>3. ASSUME NEW t \in Appenders, AppendStep(t)
      PROVE  OrderInv'
  BY <1>3, AppendCheckOrder, RollStoreOrder, RollIndexOrder, RollFailsNever,
     RollPublishOrder, RollActivateOrder, AppendWriteOrder DEF AppendStep
<1>4. ASSUME NEW t \in Truncators, NEW low \in 0 .. MaxOffset, TruncateBegin(t, low)
      PROVE  OrderInv'
  BY <1>4, TruncateBeginOrder, CommitLogAssumption
<1>5. ASSUME NEW t \in Truncators, TruncateStep(t)
      PROVE  OrderInv'
  BY <1>5, TruncateKeepOrder, TruncateCloseIndexOrder, TruncateCloseStoreOrder,
     TruncateRemoveOrder, TruncateUnlinkOrder, TruncateErrorNever, TruncateEndOrder
     DEF TruncateStep
<1>6. ASSUME NEW off \in 0 .. MaxOffset, Read(off)
      PROVE  OrderInv'
  BY <1>6, ReadOrder
<1>7. CASE CloseBegin \/ CloseIndex \/ CloseStore \/ CloseError
  BY <1>7, CloseBeginOrder, CloseIndexOrder, CloseStoreOrder, CloseErrorNever
<1>8. CASE CloseEnd \/ Crash
  BY <1>8, EndOrder
<1>9. CASE UNCHANGED vars
  BY <1>9, StutterOrder
<1> QED BY <1>1, <1>2, <1>3, <1>4, <1>5, <1>6, <1>7, <1>8, <1>9 DEF Next

LEMMA OrderIsInvariant ==
    ASSUME Sequential
    PROVE  Spec => [](Inv /\ OrderInv)
<1>1. Inv /\ OrderInv /\ [Next]_vars => (Inv /\ OrderInv)'
  BY StepKeepsInv, StepKeepsOrder
<1> QED BY <1>1, InitType, InitOrder, PTL DEF Spec

(* The segments in l.segments do not overlap and are in increasing order,  *)
(* which Read and HighestOffset take for granted, whatever crashes,        *)
(* restarts, rolls and truncations came before.  One goroutine calls the   *)
(* log, as the FSM goroutine of a node calls its record log, and no file   *)
(* operation fails.                                                        *)
THEOREM CommitLogSegmentsOrdered ==
    ASSUME Sequential
    PROVE  Spec => []SegmentsOrdered
<1>1. ASSUME Inv, OrderInv PROVE SegmentsOrdered
  <2> SUFFICES ASSUME NEW i \in DOMAIN segments, NEW j \in DOMAIN segments, i < j
               PROVE  heap[segments[i]].nextOffset <= heap[segments[j]].baseOffset
    BY DEF SegmentsOrdered
  <2>1. segments[i] < segments[j]
    BY <1>1 DEF OrderInv, ListOK, Increasing
  <2>2. segments[i] \in DOMAIN heap /\ segments[j] \in DOMAIN heap
    <3>1. Elements(segments) \subseteq DOMAIN heap
      BY <1>1, ElementsType DEF Inv, TypeOK, LogOK
    <3> QED BY <3>1 DEF Elements
  <2> QED BY <1>1, <2>1, <2>2 DEF OrderInv, HeapOrdered, Precedes
<1> QED BY <1>1, OrderIsInvariant, PTL

(* Truncation never closes the segment that appends go to, as long as its  *)
(* caller spares the newest offset.                                        *)
THEOREM CommitLogActiveNeverRemoved ==
    ASSUME Sequential
    PROVE  Spec => []ActiveNeverRemoved
<1>1. OrderInv => ActiveNeverRemoved
  BY DEF OrderInv, ListOK, ActiveNeverRemoved, IsOpen
<1> QED BY <1>1, OrderIsInvariant, PTL

-----------------------------------------------------------------------------
(* What the files and the objects hold.  A crash pads an index and loses   *)
(* what bufio holds, an orderly Close does neither.  With both at once (a  *)
(* crash inside Close) the statements below are false.                     *)

OneKindOfEnd == MaxCrashes = 0 \/ MaxCloses = 0

IsBody(S, i) == i \in DOMAIN S /\ S[i].part = "body"

(* A store S and an index ix of base offset b, from which no read can      *)
(* return another record than the one asked for, nor one outside A.        *)
Honest(b, S, ix, A) ==
    /\ \A i \in DOMAIN S : S[i].part = "body" => [off |-> S[i].off, val |-> S[i].val] \in A
    /\ IsBody(S, 2) => S[2].off = b
    /\ \A j \in DOMAIN ix : ix[j] # ZeroEntry => \A i \in 1 .. j : ix[i].off + 1 = i
    /\ \A j \in DOMAIN ix :
          ix[j].off + 1 = j /\ IsBody(S, ix[j].pos + 2) => S[ix[j].pos + 2].off + 1 = b + j

(* The first n entries are those of the offsets in turn, within the store. *)
Reaches(ix, n, S) ==
    \A j \in 1 .. n : j \in DOMAIN ix /\ ix[j].off + 1 = j /\ ix[j].pos + 2 \in DOMAIN S

(* An index of this size was not padded by a crash.                        *)
Trusted(n) == n < MaxIndexBytes \/ MaxCrashes = 0

Exact(s, S, ix) ==
    /\ s.files = "half" => Len(ix) = s.indexSize
    /\ Trusted(s.indexSize) =>
          /\ s.nextOffset = s.baseOffset + s.indexSize
          /\ Reaches(ix, s.indexSize, S)
          /\ \A j \in DOMAIN ix : s.indexSize < j => ix[j] = ZeroEntry

(* The same without the store: an index that was cut to its entries before *)
(* a crash lost the buffer of its store.                                   *)
Counts(ix, n) == \A j \in 1 .. n : j \in DOMAIN ix /\ ix[j].off + 1 = j

Counted(s, ix) ==
    /\ s.files = "half" => Len(ix) = s.indexSize
    /\ Trusted(s.indexSize) =>
          /\ s.nextOffset = s.baseOffset + s.indexSize
          /\ Counts(ix, s.indexSize)
          /\ \A j \in DOMAIN ix : s.indexSize < j => ix[j] = ZeroEntry

(* Only Truncate cuts an index before a crash, and never the newest one.   *)
Whole(b) == MaxCrashes = 0 \/ \A c \in DOMAIN storeFile : c <= b

StoredFor(s) == storeFile[s.baseOffset] \o s.buf

Held(b) == \E p \in DOMAIN heap : heap[p].files # "closed" /\ heap[p].baseOffset = b

FilesHonest ==
    \A b \in DOMAIN storeFile : Honest(b, storeFile[b], Contents(indexFile, b), acked)

ObjectsHonest ==
    \A p \in DOMAIN heap : heap[p].files # "closed" =>
        LET s  == heap[p]
            ix == Contents(indexFile, s.baseOffset)
        IN  /\ Honest(s.baseOffset, StoredFor(s), ix, acked)
            /\ Counted(s, ix)
            /\ Whole(s.baseOffset) => Exact(s, StoredFor(s), ix)

(* The files that no object has.                                           *)
RestExact ==
    \A b \in DOMAIN indexFile :
        ~Held(b) /\ Trusted(Len(indexFile[b])) =>
            /\ Counts(indexFile[b], Len(indexFile[b]))
            /\ Whole(b) => Reaches(indexFile[b], Len(indexFile[b]), storeFile[b])

EndOK == MaxCloses = 0 => status # "closing"

WriteOK ==
    \A t \in Threads :
        /\ pc[t] \in {"publish", "activate"} => heap[Len(heap)].indexSize = 0
        /\ pc[t] = "write" => heap[active].indexSize < MaxIndexBytes

HonestInv == FilesHonest /\ ObjectsHonest /\ RestExact /\ EndOK /\ WriteOK

LEMMA ConcatIndexing ==
    ASSUME NEW T \in Seq(Chunk), NEW U \in Seq(Chunk)
    PROVE  /\ T \o U \in Seq(Chunk) /\ Len(T \o U) = Len(T) + Len(U)
           /\ DOMAIN T = 1 .. Len(T) /\ DOMAIN (T \o U) = 1 .. Len(T) + Len(U)
           /\ DOMAIN T \subseteq DOMAIN (T \o U)
           /\ \A i \in DOMAIN T : (T \o U)[i] = T[i]
           /\ \A i \in DOMAIN U : Len(T) + i \in DOMAIN (T \o U) /\ (T \o U)[Len(T) + i] = U[i]
           /\ \A i \in DOMAIN (T \o U) :
                i \in DOMAIN T \/ \E k \in DOMAIN U : i = Len(T) + k
<1>1. /\ T \o U \in Seq(Chunk) /\ Len(T \o U) = Len(T) + Len(U)
      /\ \A i \in 1 .. Len(T) + Len(U) :
            (T \o U)[i] = IF i <= Len(T) THEN T[i] ELSE U[i - Len(T)]
  BY ConcatProperties
<1>2. /\ Len(T) \in Nat /\ Len(U) \in Nat /\ DOMAIN T = 1 .. Len(T) /\ DOMAIN U = 1 .. Len(U)
      /\ DOMAIN (T \o U) = 1 .. Len(T) + Len(U)
  BY <1>1, LenProperties
<1> DEFINE both == T \o U
           m == Len(T)
           n == Len(U)
<1> HIDE DEF both, m, n
<1>3. /\ \A i \in 1 .. m : i \in 1 .. m + n /\ i <= m
      /\ \A i \in 1 .. n : m + i \in 1 .. m + n /\ ~(m + i <= m) /\ m + i - m = i
      /\ \A i \in 1 .. m + n : i \in 1 .. m \/ (i - m \in 1 .. n /\ i = m + (i - m))
  BY <1>2 DEF m, n
<1>7. \A i \in 1 .. m + n : i \in 1 .. m \/ \E k \in 1 .. n : i = m + k
  BY <1>3
<1>4. \A i \in DOMAIN T : both[i] = T[i]
  BY <1>1, <1>2, <1>3 DEF both, m, n
<1>5. \A i \in DOMAIN U : m + i \in DOMAIN both /\ both[m + i] = U[i]
  BY <1>1, <1>2, <1>3 DEF both, m, n
<1>6. \A i \in DOMAIN both : i \in DOMAIN T \/ \E k \in DOMAIN U : i = m + k
  BY <1>2, <1>7 DEF both, m, n
<1> QED BY <1>1, <1>2, <1>3, <1>4, <1>5, <1>6 DEF both, m, n

(* What a crash leaves of a store is as honest as the whole.               *)
LEMMA HonestPrefix ==
    ASSUME NEW b, NEW T \in Seq(Chunk), NEW U \in Seq(Chunk), NEW ix, NEW A,
           Honest(b, T \o U, ix, A)
    PROVE  Honest(b, T, ix, A)
<1> DEFINE S == T \o U
<1>1. DOMAIN T \subseteq DOMAIN S /\ \A i \in DOMAIN T : S[i] = T[i]
  BY ConcatIndexing
<1>2. Honest(b, S, ix, A)
  OBVIOUS
<1> HIDE DEF S
<1>3. \A i : IsBody(T, i) => IsBody(S, i) /\ S[i] = T[i]
  BY <1>1 DEF IsBody
<1> QED BY <1>1, <1>2, <1>3 DEF Honest

LEMMA HonestMore ==
    ASSUME NEW b, NEW S, NEW ix, NEW A, NEW B, A \subseteq B, Honest(b, S, ix, A)
    PROVE  Honest(b, S, ix, B)
<1> QED BY DEF Honest

LEMMA HonestResized ==
    ASSUME NEW b \in Nat, NEW S, NEW ix \in Seq(Entry), NEW A, Honest(b, S, ix, A), NEW n \in Nat
    PROVE  Honest(b, S, Resized(ix, n), A)
<1> DEFINE rx == Resized(ix, n)
<1>1. /\ DOMAIN rx = 1 .. n
      /\ \A j \in 1 .. n : (rx[j] = ix[j] /\ j \in DOMAIN ix) \/ rx[j] = ZeroEntry
      /\ \A j \in 1 .. n : j \in DOMAIN ix => rx[j] = ix[j]
      /\ DOMAIN ix = 1 .. Len(ix) /\ Len(ix) \in Nat
  BY LenProperties DEF Resized, EntryAt
<1> HIDE DEF rx
<1>2. ASSUME NEW j \in DOMAIN rx, rx[j] # ZeroEntry, NEW i \in 1 .. j
      PROVE  rx[i].off + 1 = i
  <2>1. j \in DOMAIN ix /\ rx[j] = ix[j] /\ i \in 1 .. n /\ i \in DOMAIN ix /\ j \in 1 .. n
    BY <1>1, <1>2
  <2> QED BY <1>1, <1>2, <2>1 DEF Honest
<1>3. ASSUME NEW j \in DOMAIN rx, rx[j].off + 1 = j, IsBody(S, rx[j].pos + 2)
      PROVE  S[rx[j].pos + 2].off + 1 = b + j
  <2>1. CASE j \in DOMAIN ix /\ rx[j] = ix[j]
    BY <1>3, <2>1 DEF Honest
  <2>2. CASE rx[j] = ZeroEntry
    BY <1>3, <2>2 DEF ZeroEntry, Honest
  <2> QED BY <1>1, <2>1, <2>2
<1> QED BY <1>2, <1>3 DEF Honest, rx

(* What is exact is counted, and within its store.                         *)
LEMMA ExactIsCounted ==
    ASSUME NEW s, NEW S, NEW ix
    PROVE  Exact(s, S, ix)
             <=> Counted(s, ix) /\ (Trusted(s.indexSize) => Reaches(ix, s.indexSize, S))
<1> QED BY DEF Exact, Counted, Reaches, Counts

LEMMA CountsResized ==
    ASSUME NEW ix \in Seq(Entry), NEW m \in Nat, NEW n \in Nat, m <= n, Counts(ix, m)
    PROVE  Counts(Resized(ix, n), m)
<1> SUFFICES ASSUME NEW j \in 1 .. m
             PROVE  /\ j \in DOMAIN Resized(ix, n) /\ Resized(ix, n)[j] = ix[j]
  BY DEF Counts
<1>1. j \in DOMAIN ix /\ j \in 1 .. n
  BY DEF Counts
<1> QED BY <1>1 DEF Resized, EntryAt

LEMMA ReachesResized ==
    ASSUME NEW S, NEW ix \in Seq(Entry), NEW m \in Nat, NEW n \in Nat, m <= n, Reaches(ix, m, S)
    PROVE  Reaches(Resized(ix, n), m, S)
<1> SUFFICES ASSUME NEW j \in 1 .. m
             PROVE  /\ j \in DOMAIN Resized(ix, n) /\ Resized(ix, n)[j] = ix[j]
  BY DEF Reaches
<1>1. j \in DOMAIN ix /\ j \in 1 .. n
  BY DEF Reaches
<1> QED BY <1>1 DEF Resized, EntryAt

LEMMA FrameAdded ==
    ASSUME NEW s \in SegmentObject, NEW S \in Seq(Chunk), NEW r \in Records
    PROVE  /\ Len(S) \in Nat /\ DOMAIN S = 1 .. Len(S)
           /\ S \o Framed(s, r) \in Seq(Chunk)
           /\ DOMAIN (S \o Framed(s, r)) = 1 .. Len(S) + 2
           /\ \A i \in DOMAIN S : (S \o Framed(s, r))[i] = S[i]
           /\ (S \o Framed(s, r))[Len(S) + 1] = [part |-> "length", off |-> s.nextOffset, val |-> r]
           /\ (S \o Framed(s, r))[Len(S) + 2] = [part |-> "body",   off |-> s.nextOffset, val |-> r]
<1> DEFINE F == Framed(s, r)
           T == S \o F
<1>7. F \in Seq(Chunk) /\ Len(F) = 2 /\ DOMAIN F = 1 .. 2
      /\ F[1] = [part |-> "length", off |-> s.nextOffset, val |-> r]
      /\ F[2] = [part |-> "body",   off |-> s.nextOffset, val |-> r]
  <2> DEFINE c == [part |-> "length", off |-> s.nextOffset, val |-> r]
             d == [part |-> "body",   off |-> s.nextOffset, val |-> r]
  <2>1. c \in Chunk /\ d \in Chunk
    BY DEF Chunk, SegmentObject, SegmentRecord
  <2>2. F = <<c, d>>
    BY DEF Framed
  <2> HIDE DEF c, d, F
  <2>3. F \in Seq(Chunk) /\ Len(F) = 2 /\ F[1] = c /\ F[2] = d
    BY <2>1, <2>2
  <2> QED BY <2>3, LenProperties DEF c, d
<1> HIDE DEF F
<1>8. /\ Len(S) \in Nat /\ DOMAIN S = 1 .. Len(S) /\ DOMAIN T = 1 .. Len(S) + 2
      /\ \A i \in DOMAIN S : T[i] = S[i]
      /\ T[Len(S) + 1] = F[1] /\ T[Len(S) + 2] = F[2]
  <2>1. 1 \in DOMAIN F /\ 2 \in DOMAIN F
    BY <1>7
  <2>2. /\ DOMAIN S = 1 .. Len(S) /\ DOMAIN T = 1 .. Len(S) + Len(F)
        /\ \A i \in DOMAIN S : T[i] = S[i]
        /\ \A i \in DOMAIN F : T[Len(S) + i] = F[i]
    BY <1>7, ConcatIndexing
  <2>3. Len(S) \in Nat
    BY LenProperties
  <2> HIDE DEF T
  <2> QED BY <1>7, <2>1, <2>2, <2>3
<1> QED BY <1>7, <1>8, ConcatIndexing DEF T, F

(* A record that is appended: where it can be read, and that all else can  *)
(* be read as before.                                                      *)
LEMMA WriteState ==
    ASSUME NEW s \in SegmentObject, NEW S \in Seq(Chunk), NEW ix \in Seq(Entry),
           s.size = Len(S), s.indexSize < MaxIndexBytes,
           Len(ix) = MaxIndexBytes, Exact(s, S, ix)
    PROVE  LET k  == s.indexSize
               wx == Written(ix, k + 1, NewEntry(s))
           IN  /\ k \in Nat /\ k + 1 \in DOMAIN ix /\ DOMAIN wx = DOMAIN ix
               /\ s.baseOffset \in Nat /\ s.nextOffset = s.baseOffset + k
               /\ Reaches(ix, k, S)
               /\ \A j \in DOMAIN ix : j > k + 1 => wx[j] = ZeroEntry
               /\ \A j \in 1 .. k : wx[j] = ix[j] /\ ix[j].pos + 2 \in DOMAIN S
               /\ wx[k + 1] = [off |-> k, pos |-> Len(S)]
               /\ \A j \in DOMAIN ix : j \in 1 .. k \/ j = k + 1 \/ j > k + 1
               /\ DOMAIN ix \subseteq Nat \ {0}
               /\ \A j \in DOMAIN ix : ix[j].off \in Nat /\ ix[j].pos \in Nat
<1> DEFINE k  == s.indexSize
           b  == s.baseOffset
           e  == NewEntry(s)
           wx == Written(ix, k + 1, e)
<1>1. /\ k \in Nat /\ b \in Nat /\ s.nextOffset \in Nat /\ k < MaxIndexBytes
      /\ MaxIndexBytes \in Nat
  BY SegmentAssumption DEF SegmentObject, SegmentRecord
<1>2. /\ s.nextOffset = b + k /\ Reaches(ix, k, S)
      /\ \A j \in DOMAIN ix : k < j => ix[j] = ZeroEntry
  BY DEF Exact, Trusted
<1>3. DOMAIN ix = 1 .. MaxIndexBytes /\ ix \in [DOMAIN ix -> Entry]
  BY LenProperties
<1>4. k + 1 \in DOMAIN ix /\ DOMAIN ix \subseteq Nat \ {0}
  <2> HIDE DEF k
  <2> QED BY <1>1, <1>3
<1>5. e = [off |-> k, pos |-> Len(S)]
  <2>1. s.nextOffset - b = k
    <3>1. \A m, n \in Nat : (m + n) - m = n
      OBVIOUS
    <3> QED BY <1>1, <1>2, <3>1
  <2> QED BY <2>1 DEF NewEntry
<1>6. /\ DOMAIN wx = DOMAIN ix /\ wx[k + 1] = e
      /\ \A j \in DOMAIN ix : j # k + 1 => wx[j] = ix[j]
  <2> HIDE DEF e, k
  <2> QED BY <1>4 DEF Written
<1> HIDE DEF e, wx
<1>9. \A j \in 1 .. k : wx[j] = ix[j] /\ ix[j].pos + 2 \in DOMAIN S
  <2>1. \A j \in 1 .. k : j \in DOMAIN ix /\ ix[j].pos + 2 \in DOMAIN S
    BY <1>2 DEF Reaches
  <2>2. \A j \in 1 .. k : j # k + 1
    BY <1>1
  <2> QED BY <1>6, <2>1, <2>2
<1>10. \A j \in DOMAIN ix : j > k + 1 => wx[j] = ZeroEntry
  <2> SUFFICES ASSUME NEW j \in DOMAIN ix, j > k + 1 PROVE wx[j] = ZeroEntry
    OBVIOUS
  <2>1. k < j /\ j # k + 1
    BY <1>1, <1>4
  <2> QED BY <1>2, <1>6, <2>1
<1>11. \A j \in DOMAIN ix : j \in 1 .. k \/ j = k + 1 \/ j > k + 1
  BY <1>1, <1>4
<1>12. \A j \in DOMAIN ix : ix[j].off \in Nat /\ ix[j].pos \in Nat
  BY <1>3 DEF Entry
<1> QED BY <1>1, <1>2, <1>4, <1>5, <1>6, <1>9, <1>10, <1>11, <1>12 DEF e, wx

LEMMA HonestWrite ==
    ASSUME NEW s \in SegmentObject, NEW S \in Seq(Chunk), NEW ix \in Seq(Entry), NEW A,
           NEW r \in Records, s.size = Len(S), s.indexSize < MaxIndexBytes,
           Len(ix) = MaxIndexBytes, Exact(s, S, ix), Honest(s.baseOffset, S, ix, A)
    PROVE  LET T  == S \o Framed(s, r)
               wx == Written(ix, s.indexSize + 1, NewEntry(s))
           IN  /\ Honest(s.baseOffset, T, wx, A \cup {[off |-> s.nextOffset, val |-> r]})
               /\ \A o \in SegmentObject :
                     o.files = "open" /\ o.baseOffset = s.baseOffset /\ o.indexSize = s.indexSize + 1
                     /\ o.nextOffset = s.nextOffset + 1 => Exact(o, T, wx)
<1> DEFINE T  == S \o Framed(s, r)
           wx == Written(ix, s.indexSize + 1, NewEntry(s))
           b  == s.baseOffset
           k  == s.indexSize
           m  == Len(S)
<1>3. /\ k \in Nat /\ k + 1 \in DOMAIN ix /\ DOMAIN wx = DOMAIN ix
      /\ b \in Nat /\ s.nextOffset = b + k
      /\ Reaches(ix, k, S)
      /\ \A j \in DOMAIN ix : j > k + 1 => wx[j] = ZeroEntry
      /\ \A j \in 1 .. k : wx[j] = ix[j] /\ ix[j].pos + 2 \in DOMAIN S
      /\ wx[k + 1] = [off |-> k, pos |-> m]
      /\ \A j \in DOMAIN ix : j \in 1 .. k \/ j = k + 1 \/ j > k + 1
      /\ DOMAIN ix \subseteq Nat \ {0}
      /\ \A j \in DOMAIN ix : ix[j].off \in Nat /\ ix[j].pos \in Nat
  BY WriteState
<1>14. /\ m \in Nat /\ DOMAIN S = 1 .. m
       /\ DOMAIN T = 1 .. m + 2 /\ \A i \in DOMAIN S : T[i] = S[i]
       /\ T[m + 1] = [part |-> "length", off |-> s.nextOffset, val |-> r]
       /\ T[m + 2] = [part |-> "body",   off |-> s.nextOffset, val |-> r]
  BY FrameAdded
<1>15. Honest(b, S, ix, A)
  OBVIOUS
<1>1. k = s.indexSize /\ b = s.baseOffset
  OBVIOUS
<1> HIDE DEF k, m, b, T, wx
<1>4. /\ m \in Nat /\ DOMAIN S = 1 .. m
      /\ DOMAIN T = 1 .. m + 2 /\ \A i \in DOMAIN S : T[i] = S[i]
      /\ T[m + 1] = [part |-> "length", off |-> b + k, val |-> r]
      /\ T[m + 2] = [part |-> "body",   off |-> b + k, val |-> r]
  BY <1>3, <1>14
<1>5. Reaches(ix, k, S)
  BY <1>3
<1>6. \A i \in DOMAIN T : i \in DOMAIN S \/ i = m + 1 \/ i = m + 2
  <2>1. \A i \in 1 .. m + 2 : i \in 1 .. m \/ i = m + 1 \/ i = m + 2
    BY <1>4
  <2> QED BY <1>4, <2>1
<1>7. \A i : IsBody(T, i) => (IsBody(S, i) /\ T[i] = S[i]) \/ (i = m + 2 /\ T[i].off = b + k)
  BY <1>4, <1>6 DEF IsBody
<1>8. \A i \in DOMAIN T : T[i].part = "body" =>
         [off |-> T[i].off, val |-> T[i].val] \in A \cup {[off |-> b + k, val |-> r]}
  BY <1>4, <1>6, <1>15 DEF Honest
<1>9. IsBody(T, 2) => T[2].off = b
  <2> SUFFICES ASSUME IsBody(T, 2), 2 = m + 2, T[2].off = b + k PROVE T[2].off = b
    BY <1>7, <1>15 DEF Honest
  <2>1. m = 0 /\ DOMAIN S = {}
    BY <1>4
  <2>2. k = 0
    <3> SUFFICES ASSUME k # 0 PROVE FALSE
      OBVIOUS
    <3>1. 1 \in 1 .. k
      BY <1>3
    <3> QED BY <1>3, <2>1, <3>1
  <2> QED BY <1>3, <2>2
<1>10. ASSUME NEW j \in DOMAIN wx, wx[j] # ZeroEntry, NEW i \in 1 .. j
       PROVE  wx[i].off + 1 = i
  <2>1. i \in 1 .. k \/ i = k + 1
    BY <1>3, <1>10
  <2>2. CASE i \in 1 .. k
    BY <1>3, <1>5, <2>2 DEF Reaches
  <2>3. CASE i = k + 1
    BY <1>3, <2>3
  <2> QED BY <2>1, <2>2, <2>3
<1>11. ASSUME NEW j \in DOMAIN wx, wx[j].off + 1 = j, IsBody(T, wx[j].pos + 2)
       PROVE  T[wx[j].pos + 2].off + 1 = b + j
  <2>1. CASE j \in 1 .. k
    <3>1. wx[j] = ix[j] /\ ix[j].pos + 2 \in DOMAIN S /\ j \in DOMAIN ix
      BY <1>3, <2>1
    <3>2. T[ix[j].pos + 2] = S[ix[j].pos + 2]
      BY <1>4, <3>1
    <3>3. IsBody(S, ix[j].pos + 2)
      BY <1>11, <3>1, <3>2 DEF IsBody
    <3> QED BY <1>11, <1>15, <3>1, <3>2, <3>3 DEF Honest
  <2>2. CASE j = k + 1
    <3>1. wx[j].pos = m /\ T[m + 2].off = b + k
      BY <1>3, <1>4, <2>2
    <3> QED BY <1>3, <2>2, <3>1
  <2>3. CASE j > k + 1
    <3>1. wx[j] = ZeroEntry /\ j \in Nat
      BY <1>3, <2>3
    <3> QED BY <1>3, <1>11, <2>3, <3>1 DEF ZeroEntry
  <2> QED BY <1>3, <2>1, <2>2, <2>3
<1>12. ASSUME NEW o \in SegmentObject, o.files = "open", o.baseOffset = b, o.indexSize = k + 1,
              o.nextOffset = s.nextOffset + 1
       PROVE  Exact(o, T, wx)
  <2>1. o.nextOffset = b + o.indexSize
    <3>1. \A x, y \in Nat : (x + y) + 1 = x + (y + 1)
      OBVIOUS
    <3> QED BY <1>3, <1>12, <3>1
  <2>2. Reaches(wx, k + 1, T)
    <3> SUFFICES ASSUME NEW j \in 1 .. k + 1
                 PROVE  j \in DOMAIN wx /\ wx[j].off + 1 = j /\ wx[j].pos + 2 \in DOMAIN T
      BY DEF Reaches
    <3>1. CASE j \in 1 .. k
      BY <1>3, <1>4, <1>5, <3>1 DEF Reaches
    <3>2. CASE j = k + 1
      BY <1>3, <1>4, <3>2
    <3> QED BY <1>3, <3>1, <3>2
  <2>3. \A j \in DOMAIN wx : k + 1 < j => wx[j] = ZeroEntry
    BY <1>3
  <2> QED BY <1>12, <2>1, <2>2, <2>3 DEF Exact
<1>13. Honest(b, T, wx, A \cup {[off |-> s.nextOffset, val |-> r]})
  BY <1>3, <1>8, <1>9, <1>10, <1>11 DEF Honest
<1> QED BY <1>1, <1>12, <1>13 DEF k, b, T, wx

(* A step that leaves files, objects and answers alone.                    *)
LEMMA ContentsKept ==
    ASSUME HonestInv, UNCHANGED <<storeFile, indexFile, heap, acked>>
    PROVE  FilesHonest' /\ ObjectsHonest' /\ RestExact'
<1> QED BY DEF HonestInv, FilesHonest, ObjectsHonest, RestExact, StoredFor, Held, Whole, Contents

(* A step that touches one object and the files of its base offset.        *)
LEMMA HonestElsewhere ==
    ASSUME OrderInv, HonestInv,
           NEW b, NEW p \in DOMAIN heap', heap'[p].baseOffset = b,
           p \in DOMAIN heap => heap[p].baseOffset = b,
           \A q \in DOMAIN heap' \ {p} :
              q \in DOMAIN heap /\ heap'[q] = heap[q] /\ heap[q].baseOffset # b,
           \A q \in DOMAIN heap : q \in DOMAIN heap',
           acked \subseteq acked',
           DOMAIN storeFile \subseteq DOMAIN storeFile',
           DOMAIN storeFile' \subseteq DOMAIN storeFile \cup {b},
           DOMAIN indexFile \subseteq DOMAIN indexFile' \cup {b},
           DOMAIN indexFile' \subseteq DOMAIN indexFile \cup {b},
           \A c \in DOMAIN storeFile : c # b => storeFile'[c] = storeFile[c],
           \A c \in DOMAIN indexFile : c # b => indexFile'[c] = indexFile[c],
           b \in DOMAIN storeFile' =>
              Honest(b, storeFile'[b], Contents(indexFile', b), acked'),
           heap'[p].files # "closed" =>
              /\ Honest(b, storeFile'[b] \o heap'[p].buf, Contents(indexFile', b), acked')
              /\ Counted(heap'[p], Contents(indexFile', b))
              /\ Whole(b)' =>
                    Exact(heap'[p], storeFile'[b] \o heap'[p].buf, Contents(indexFile', b)),
           heap'[p].files = "closed" /\ b \in DOMAIN indexFile' /\ Trusted(Len(indexFile'[b]))
              => /\ Counts(indexFile'[b], Len(indexFile'[b]))
                 /\ Whole(b)' => Reaches(indexFile'[b], Len(indexFile'[b]), storeFile'[b])
    PROVE  FilesHonest' /\ ObjectsHonest' /\ RestExact'
<1>1. \A c : c # b => Contents(indexFile', c) = Contents(indexFile, c)
  BY DEF Contents
<1>5. ASSUME NEW c, Whole(c)' PROVE Whole(c)
  BY <1>5 DEF Whole
<1>2. FilesHonest'
  <2> SUFFICES ASSUME NEW c \in DOMAIN storeFile'
               PROVE  Honest(c, storeFile'[c], Contents(indexFile', c), acked')
    BY DEF FilesHonest, Contents
  <2>1. CASE c = b
    BY <2>1
  <2>2. CASE c # b
    <3>1. Honest(c, storeFile[c], Contents(indexFile, c), acked) /\ storeFile'[c] = storeFile[c]
      BY <2>2 DEF HonestInv, FilesHonest
    <3> QED BY <1>1, <2>2, <3>1, HonestMore
  <2> QED BY <2>1, <2>2
<1>3. ObjectsHonest'
  <2> SUFFICES ASSUME NEW q \in DOMAIN heap', heap'[q].files # "closed",
                      NEW c, c = heap'[q].baseOffset,
                      NEW ix, ix = Contents(indexFile', c)
               PROVE  /\ Honest(c, storeFile'[c] \o heap'[q].buf, ix, acked')
                      /\ Counted(heap'[q], ix)
                      /\ Whole(c)' => Exact(heap'[q], storeFile'[c] \o heap'[q].buf, ix)
    BY DEF ObjectsHonest, StoredFor, Contents, Whole
  <2>1. CASE q = p
    BY <2>1
  <2>2. CASE q # p
    <3>1. q \in DOMAIN heap /\ heap'[q] = heap[q] /\ c # b /\ heap[q].files # "closed"
          /\ c = heap[q].baseOffset
      BY <2>2
    <3>2. c \in DOMAIN storeFile /\ storeFile'[c] = storeFile[c]
      BY <3>1 DEF OrderInv, ObjectFiles
    <3>3. ix = Contents(indexFile, c)
      BY <1>1, <3>1
    <3>4. /\ Honest(c, storeFile[c] \o heap[q].buf, ix, acked)
          /\ Counted(heap[q], ix)
          /\ Whole(c) => Exact(heap[q], storeFile[c] \o heap[q].buf, ix)
      BY <3>1, <3>3 DEF HonestInv, ObjectsHonest, StoredFor
    <3> QED BY <1>5, <3>1, <3>2, <3>4, HonestMore
  <2> QED BY <2>1, <2>2
<1>4. RestExact'
  <2> SUFFICES ASSUME NEW c \in DOMAIN indexFile', ~ Held(c)', Trusted(Len(indexFile'[c]))
               PROVE  /\ Counts(indexFile'[c], Len(indexFile'[c]))
                      /\ Whole(c)' => Reaches(indexFile'[c], Len(indexFile'[c]), storeFile'[c])
    BY DEF RestExact, Held, Whole
  <2>1. CASE c = b
    BY <2>1 DEF Held
  <2>2. CASE c # b
    <3>1. c \in DOMAIN indexFile /\ c \in DOMAIN storeFile
      BY <2>2 DEF OrderInv, FilesOK
    <3>2. indexFile'[c] = indexFile[c] /\ storeFile'[c] = storeFile[c]
      BY <2>2, <3>1
    <3>3. ~ Held(c)
      BY <2>2 DEF Held
    <3> QED BY <1>5, <3>1, <3>2, <3>3 DEF HonestInv, RestExact
  <2> QED BY <2>1, <2>2
<1> QED BY <1>2, <1>3, <1>4

(* The same when no file and no object comes or goes.                      *)
LEMMA HonestAt ==
    ASSUME OrderInv, HonestInv,
           NEW p \in DOMAIN heap, NEW b, b = heap[p].baseOffset, heap'[p].baseOffset = b,
           DOMAIN heap' = DOMAIN heap,
           \A q \in DOMAIN heap : q # p => heap'[q] = heap[q] /\ heap[q].baseOffset # b,
           acked' = acked,
           DOMAIN storeFile' = DOMAIN storeFile, DOMAIN indexFile' = DOMAIN indexFile,
           \A c \in DOMAIN storeFile : c # b => storeFile'[c] = storeFile[c],
           \A c \in DOMAIN indexFile : c # b => indexFile'[c] = indexFile[c],
           Honest(b, storeFile'[b], Contents(indexFile', b), acked),
           Honest(b, storeFile'[b] \o heap'[p].buf, Contents(indexFile', b), acked),
           Counted(heap'[p], Contents(indexFile', b)),
           Whole(b) =>
             Exact(heap'[p], storeFile'[b] \o heap'[p].buf, Contents(indexFile', b)),
           heap'[p].files = "closed" /\ b \in DOMAIN indexFile /\ Trusted(Len(indexFile'[b]))
              => /\ Counts(indexFile'[b], Len(indexFile'[b]))
                 /\ Whole(b) => Reaches(indexFile'[b], Len(indexFile'[b]), storeFile'[b])
    PROVE  FilesHonest' /\ ObjectsHonest' /\ RestExact'
<1>1. Whole(b)' => Whole(b)
  BY DEF Whole
<1>3. /\ p \in DOMAIN heap' /\ heap'[p].baseOffset = b
      /\ \A q \in DOMAIN heap' \ {p} :
            q \in DOMAIN heap /\ heap'[q] = heap[q] /\ heap[q].baseOffset # b
      /\ \A q \in DOMAIN heap : q \in DOMAIN heap'
      /\ acked \subseteq acked'
      /\ DOMAIN storeFile \subseteq DOMAIN storeFile'
      /\ DOMAIN storeFile' \subseteq DOMAIN storeFile \cup {b}
      /\ DOMAIN indexFile \subseteq DOMAIN indexFile' \cup {b}
      /\ DOMAIN indexFile' \subseteq DOMAIN indexFile \cup {b}
  OBVIOUS
<1>4. Honest(b, storeFile'[b], Contents(indexFile', b), acked')
  OBVIOUS
<1>5. /\ Honest(b, storeFile'[b] \o heap'[p].buf, Contents(indexFile', b), acked')
      /\ Counted(heap'[p], Contents(indexFile', b))
      /\ Whole(b)' =>
            Exact(heap'[p], storeFile'[b] \o heap'[p].buf, Contents(indexFile', b))
  BY <1>1
<1>6. ASSUME heap'[p].files = "closed", b \in DOMAIN indexFile', Trusted(Len(indexFile'[b]))
      PROVE  /\ Counts(indexFile'[b], Len(indexFile'[b]))
             /\ Whole(b)' => Reaches(indexFile'[b], Len(indexFile'[b]), storeFile'[b])
  BY <1>1, <1>6
<1> QED BY <1>3, <1>4, <1>5, <1>6, HonestElsewhere

LEMMA OtherStep ==
    ASSUME Sequential, Inv, NEW t \in Threads, NEW from, NEW to, NEW c,
           Steps(t, from, to, c), to \notin {"publish", "activate", "write"}
    PROVE  WriteOK'
<1>1. (\A u \in Threads : u = t) /\ pc'[t] = to
  BY OnlyThread DEF Inv, TypeOK
<1> QED BY <1>1 DEF WriteOK

(* Steps that only move a goroutine.                                       *)
LEMMA QuietHonest ==
    ASSUME Sequential, Inv, HonestInv, NEW t \in Threads, NEW from, NEW to, NEW c,
           Steps(t, from, to, c), to \notin {"publish", "activate", "write"},
           UNCHANGED <<storeFile, indexFile, heap, acked, status>>
    PROVE  HonestInv'
<1>1. EndOK'
  BY DEF HonestInv, EndOK
<1> QED BY <1>1, ContentsKept, OtherStep DEF HonestInv

LEMMA AppendHighestHonest ==
    ASSUME Sequential, Inv, HonestInv, NEW t \in Appenders, AppendHighest(t)
    PROVE  HonestInv'
<1>1. t \in Threads /\ UNCHANGED <<storeFile, indexFile, heap, acked, status>>
      /\ Steps(t, "idle", "check", [Blank EXCEPT !.high = HighestOffset])
  BY DEF AppendHighest, Threads, disk, log, process, history
<1> QED BY <1>1, QuietHonest

LEMMA AppendCheckHonest ==
    ASSUME Sequential, Inv, HonestInv, NEW t \in Appenders, AppendCheck(t)
    PROVE  HonestInv'
<1>1. t \in Threads /\ UNCHANGED <<storeFile, indexFile, heap, active, acked, status>>
      /\ \/ Steps(t, "check", "store", local[t])
         \/ Steps(t, "check", "write", Blank) /\ ~ IsMaxed(heap[active])
  BY DEF AppendCheck, Threads, disk, log, process, history
<1>2. CASE Steps(t, "check", "store", local[t])
  BY <1>1, <1>2, QuietHonest
<1>3. CASE Steps(t, "check", "write", Blank) /\ ~ IsMaxed(heap[active])
  <2>1. (\A u \in Threads : u = t) /\ pc'[t] = "write" /\ status = "up"
    BY <1>1, <1>3, OnlyThread DEF Inv, TypeOK
  <2>2. active \in DOMAIN heap
    BY <2>1 DEF Inv, TypeOK, LogOK, PointersSet, ActiveSet
  <2>3. heap[active].indexSize \in Nat /\ MaxIndexBytes \in Nat
    BY <2>2, Dereference, SegmentAssumption DEF Inv, TypeOK, SegmentObject, SegmentRecord
  <2>4. heap[active].indexSize < MaxIndexBytes
    BY <1>3, <2>3 DEF IsMaxed, IndexIsMaxed
  <2>5. WriteOK'
    BY <1>1, <2>1, <2>4 DEF WriteOK
  <2>6. EndOK'
    BY <1>1 DEF HonestInv, EndOK
  <2> QED BY <1>1, <2>5, <2>6, ContentsKept DEF HonestInv
<1> QED BY <1>1, <1>2, <1>3

LEMMA RollPublishHonest ==
    ASSUME Sequential, Inv, OrderInv, HonestInv, NEW t \in Appenders,
           RollPublish(t) \/ RollActivate(t)
    PROVE  HonestInv'
<1>1. t \in Threads /\ UNCHANGED <<storeFile, indexFile, heap, acked, status>>
      /\ \/ \E c : Steps(t, "publish", "activate", c)
         \/ Steps(t, "activate", "write", Blank) /\ active' = local[t].fresh
  BY DEF RollPublish, RollActivate, Threads, disk, process, history
<1>2. WriteOK'
  <2>1. CASE \E c : Steps(t, "publish", "activate", c)
    <3>1. (\A u \in Threads : u = t) /\ pc'[t] = "activate" /\ pc[t] = "publish"
      BY <1>1, <2>1, OnlyThread DEF Inv, TypeOK
    <3> QED BY <1>1, <3>1 DEF WriteOK, HonestInv
  <2>2. CASE Steps(t, "activate", "write", Blank) /\ active' = local[t].fresh
    <3>1. (\A u \in Threads : u = t) /\ pc'[t] = "write" /\ pc[t] = "activate"
      BY <1>1, <2>2, OnlyThread DEF Inv, TypeOK
    <3>2. active' = Len(heap)
      BY <1>1, <2>2, <3>1 DEF OrderInv, RollOK, Rolling
    <3> QED BY <1>1, <3>1, <3>2, SegmentAssumption DEF WriteOK, HonestInv
  <2> QED BY <1>1, <2>1, <2>2
<1>3. EndOK'
  BY <1>1 DEF HonestInv, EndOK
<1> QED BY <1>1, <1>2, <1>3, ContentsKept DEF HonestInv

LEMMA TruncateQuietHonest ==
    ASSUME Sequential, Inv, HonestInv, NEW t \in Truncators,
           (\E low \in 0 .. MaxOffset : TruncateBegin(t, low)) \/ TruncateKeep(t) \/ TruncateEnd(t)
    PROVE  HonestInv'
<1>1. t \in Threads /\ UNCHANGED <<storeFile, indexFile, heap, acked, status>>
      /\ \E from, c : \E to \in {"truncate", "idle"} : Steps(t, from, to, c)
  <2>1. t \in Threads
    BY DEF Threads
  <2>2. CASE \E low \in 0 .. MaxOffset : TruncateBegin(t, low)
    BY <2>1, <2>2 DEF TruncateBegin, disk, log, process
  <2>3. CASE TruncateKeep(t)
    BY <2>1, <2>3 DEF TruncateKeep, disk, log, process, history
  <2>4. CASE TruncateEnd(t)
    BY <2>1, <2>4 DEF TruncateEnd, Return, disk, process, history
  <2> QED BY <2>2, <2>3, <2>4
<1> QED BY <1>1, QuietHonest

(* The process begins, ends, or begins to end.                             *)
LEMMA SetupBeginHonest ==
    ASSUME Inv, OrderInv, HonestInv, SetupBegin
    PROVE  HonestInv'
<1>1. /\ UNCHANGED <<storeFile, indexFile, heap, acked, pc>>
      /\ status' = "setup" /\ status # "up"
  BY DEF SetupBegin, disk, log, threads, history
<1>2. \A t \in Threads : pc'[t] = "idle"
  BY <1>1 DEF Inv, PointersSet, LocalsSet
<1>3. WriteOK' /\ EndOK'
  BY <1>1, <1>2 DEF HonestInv, EndOK, WriteOK
<1> QED BY <1>1, <1>3, ContentsKept DEF HonestInv

LEMMA CloseBeginHonest ==
    ASSUME Inv, OrderInv, HonestInv, CloseBegin
    PROVE  HonestInv'
<1>1. /\ UNCHANGED <<storeFile, indexFile, heap, acked, pc>>
      /\ \A t \in Threads : pc[t] = "idle"
      /\ closes < MaxCloses
  BY DEF CloseBegin, disk, log, threads, history
<1>2. MaxCloses # 0
  BY <1>1, CommitLogAssumption DEF Inv, TypeOK, BoundsOK
<1>3. WriteOK' /\ EndOK'
  BY <1>1, <1>2 DEF EndOK, WriteOK
<1> QED BY <1>1, <1>3, ContentsKept DEF HonestInv

(* The object that Truncate closes is not the newest.                      *)
LEMMA HalfBelow ==
    ASSUME Sequential, Inv, OrderInv, status = "up",
           NEW p \in DOMAIN heap, heap[p].files = "half"
    PROVE  \E c \in DOMAIN storeFile : ~ (c <= heap[p].baseOffset)
<1>1. PICK t \in Threads : pc[t] = "flush"
  BY DEF OrderInv, ListOK
<1>2. active = Len(heap) /\ active \in DOMAIN heap /\ IsOpen(active)
  BY <1>1, LoopState DEF Truncating
<1>3. p < active
  BY <1>2, PointersAreNumbers DEF Inv, TypeOK, IsOpen
<1>4. /\ heap[active].baseOffset \in DOMAIN storeFile
      /\ heap[p].baseOffset < heap[active].baseOffset
  BY <1>2, <1>3 DEF OrderInv, ObjectFiles, HeapOrdered, Precedes, IsOpen
<1>5. heap[p].baseOffset \in Nat /\ heap[active].baseOffset \in Nat
  BY <1>2, Dereference DEF Inv, TypeOK, SegmentObject, SegmentRecord
<1>6. ~ (heap[active].baseOffset <= heap[p].baseOffset)
  BY <1>4, <1>5
<1> QED BY <1>4, <1>6

(* After a crash an index that is trusted and was in use is one that       *)
(* Truncate cut; after an orderly Close no object has files.               *)
LEMMA EndHonest ==
    ASSUME Sequential, OneKindOfEnd, Inv, OrderInv, HonestInv, CloseEnd \/ Crash
    PROVE  HonestInv'
<1>1. /\ UNCHANGED <<storeFile, indexFile, acked>>
      /\ heap' = <<>> /\ status' = "down" /\ \A t \in Threads : pc'[t] = "idle"
  BY DEF CloseEnd, Crash, Die, disk, history
<1>2. FilesHonest'
  BY <1>1 DEF HonestInv, FilesHonest, Contents
<1>3. ObjectsHonest'
  BY <1>1 DEF ObjectsHonest
<1>4. RestExact'
  <2> SUFFICES ASSUME NEW b \in DOMAIN indexFile, Trusted(Len(indexFile[b]))
               PROVE  /\ Counts(indexFile[b], Len(indexFile[b]))
                      /\ Whole(b) => Reaches(indexFile[b], Len(indexFile[b]), storeFile[b])
    BY <1>1 DEF RestExact, Whole
  <2>1. CASE ~ Held(b)
    BY <2>1 DEF HonestInv, RestExact
  <2>2. CASE Held(b)
    <3>1. PICK p \in DOMAIN heap : heap[p].files # "closed" /\ heap[p].baseOffset = b
      BY <2>2 DEF Held
    <3>2. status # "closing" \/ pending # <<>>
      BY <3>1, ElementsOfEmpty DEF OrderInv, CloseOK, Holding
    <3>3. Crash
      BY <3>2 DEF CloseEnd
    <3>4. MaxCrashes # 0 /\ status # "closing"
      BY <3>3, CommitLogAssumption
         DEF Crash, Inv, TypeOK, BoundsOK, OneKindOfEnd, HonestInv, EndOK
    <3>5. heap[p] \in SegmentObject /\ ~ IsOpen(p)
      <4>1. Len(indexFile[b]) # MaxIndexBytes
        BY <3>4, SegmentAssumption DEF Trusted
      <4>2. heap[p] \in SegmentObject
        BY <3>1, Dereference DEF Inv, TypeOK
      <4> QED BY <3>1, <4>1, <4>2 DEF OrderInv, ObjectsFit, Fits, IndexFits, IsOpen
    <3>6. heap[p].files = "half" /\ status = "up"
      <4>1. heap[p].files = "half"
        BY <3>1, <3>5 DEF SegmentObject, SegmentRecord, IsOpen
      <4> QED BY <3>3, <3>4, <3>5, <4>1 DEF Crash, OrderInv, ListOK
    <3>7. ~ Whole(b)
      BY <3>1, <3>4, <3>6, HalfBelow DEF Whole
    <3>8. Counted(heap[p], indexFile[b])
      BY <3>1 DEF HonestInv, ObjectsHonest, Contents
    <3> QED BY <3>6, <3>7, <3>8 DEF Counted
  <2> QED BY <2>1, <2>2
<1>5. WriteOK' /\ EndOK'
  BY <1>1 DEF EndOK, WriteOK
<1> QED BY <1>2, <1>3, <1>4, <1>5 DEF HonestInv

(* Opening files: the object that NewSegment makes is as exact as they are. *)
LEMMA ContentsHonest ==
    ASSUME Inv, OrderInv, HonestInv, NEW b
    PROVE  Honest(b, Contents(storeFile, b), Contents(indexFile, b), acked)
<1>1. CASE b \in DOMAIN storeFile
  BY <1>1 DEF HonestInv, FilesHonest, Contents
<1>2. CASE b \notin DOMAIN storeFile
  <2>1. Contents(storeFile, b) = <<>> /\ Contents(indexFile, b) = <<>>
    BY <1>2 DEF Contents, OrderInv, FilesOK
  <2> QED BY <2>1 DEF Honest, IsBody
<1> QED BY <1>1, <1>2

LEMMA CountedOpened ==
    ASSUME NEW ix \in Seq(Entry), NEW n \in Nat, Len(ix) <= n, NEW s,
           s.files = "open", s.baseOffset \in Nat, s.indexSize = Len(ix),
           s.nextOffset = IF ix = <<>> THEN s.baseOffset
                          ELSE s.baseOffset + ix[Len(ix)].off + 1,
           Trusted(Len(ix)) => Counts(ix, Len(ix))
    PROVE  Counted(s, Resized(ix, n))
<1> SUFFICES ASSUME Trusted(Len(ix))
             PROVE  /\ s.nextOffset = s.baseOffset + Len(ix)
                    /\ Counts(Resized(ix, n), Len(ix))
                    /\ \A j \in DOMAIN Resized(ix, n) :
                          Len(ix) < j => Resized(ix, n)[j] = ZeroEntry
  BY DEF Counted
<1>1. Counts(ix, Len(ix)) /\ Len(ix) \in Nat /\ DOMAIN ix = 1 .. Len(ix)
  BY LenProperties
<1>2. Counts(Resized(ix, n), Len(ix))
  BY <1>1, CountsResized
<1>3. s.nextOffset = s.baseOffset + Len(ix)
  <2>1. CASE ix = <<>>
    BY <2>1
  <2>2. CASE ix # <<>>
    <3>1. Len(ix) \in 1 .. Len(ix)
      BY <1>1, <2>2, EmptySeq
    <3>5. ix[Len(ix)] \in Entry
      BY <3>1, ElementOfSeq
    <3>2. ix[Len(ix)].off + 1 = Len(ix) /\ ix[Len(ix)].off \in Nat
      BY <1>1, <3>1, <3>5 DEF Counts, Entry
    <3> DEFINE m == Len(ix)
               k == ix[m].off
               b == s.baseOffset
    <3>3. s.nextOffset = b + k + 1 /\ k + 1 = m /\ k \in Nat /\ b \in Nat
      BY <2>2, <3>2
    <3> HIDE DEF m, k, b
    <3>4. s.nextOffset = b + m
      BY <3>3
    <3> QED BY <3>4 DEF m, b
  <2> QED BY <2>1, <2>2
<1>4. \A j \in DOMAIN Resized(ix, n) : Len(ix) < j => Resized(ix, n)[j] = ZeroEntry
  BY <1>1 DEF Resized, EntryAt
<1> QED BY <1>2, <1>3, <1>4

LEMMA EmptyTail ==
    ASSUME NEW S \in Seq(Chunk)
    PROVE  S \o <<>> = S
<1> QED BY EmptySeq, ConcatEmptySeq

LEMMA RollStoreHonest ==
    ASSUME Sequential, Inv, Inv', OrderInv, OrderInv', HonestInv,
           NEW t \in Appenders, RollStore(t)
    PROVE  HonestInv'
<1> DEFINE b == local[t].high + 1
           s == NewStore(b, storeFile)
           p == Len(heap')
           S == Contents(storeFile, b)
<1>1. /\ t \in Threads /\ UNCHANGED <<indexFile, acked, status>>
      /\ \E c : Steps(t, "store", "index", c)
      /\ storeFile' = Put(storeFile, b, S) /\ heap' = Append(heap, s)
  BY DEF RollStore, Threads, process, history
<1>2. WriteOK' /\ EndOK' /\ pc'[t] = "index"
  BY <1>1, OtherStep, OnlyThread DEF HonestInv, EndOK, Inv, TypeOK
<1>3. b \in Nat /\ s \in SegmentObject /\ s.baseOffset = b /\ s.nextOffset = b
      /\ s.indexSize = 0 /\ s.buf = <<>> /\ S \in Seq(Chunk)
  <2>1. b \in Nat
    BY <1>1 DEF Inv, TypeOK, ThreadsOK, LocalOf
  <2>2. S \in Seq(Chunk)
    BY ContentsType DEF Inv, TypeOK, DiskOK
  <2> QED BY <2>1, <2>2, NewStoreType DEF NewStore, Inv, TypeOK, DiskOK
<1> HIDE DEF b, s, S
<1>4. /\ p \in DOMAIN heap' /\ DOMAIN heap' = DOMAIN heap \cup {p} /\ heap'[p] = s
      /\ p \notin DOMAIN heap
      /\ \A q \in DOMAIN heap : heap'[q] = heap[q] /\ q < p
  BY <1>1, <1>3, HeapExtended DEF Inv, TypeOK
<1> HIDE DEF p
<1>5. \A q \in DOMAIN heap : heap[q].baseOffset # b
  <2> SUFFICES ASSUME NEW q \in DOMAIN heap PROVE heap[q].baseOffset # b
    OBVIOUS
  <2>1. heap[q].baseOffset < b
    BY <1>3, <1>4 DEF OrderInv, HeapOrdered, Precedes
  <2>2. heap[q].baseOffset \in Nat
    BY Dereference DEF Inv, TypeOK, SegmentObject, SegmentRecord
  <2> QED BY <1>3, <2>1, <2>2
<1>6. b \notin DOMAIN indexFile
  BY <1>1, <1>2, <1>3, <1>4 DEF OrderInv, RollOK, p
<1>7. /\ DOMAIN storeFile' = DOMAIN storeFile \cup {b} /\ storeFile'[b] = S
      /\ \A c \in DOMAIN storeFile : c # b => storeFile'[c] = storeFile[c]
  BY <1>1 DEF Put
<1>8. Contents(indexFile', b) = <<>> /\ Contents(indexFile, b) = <<>>
  BY <1>1, <1>6 DEF Contents
<1>9. Honest(b, S, <<>>, acked) /\ S \o s.buf = S
  BY <1>3, <1>8, ContentsHonest, EmptyTail DEF S
<1>11. s.files = "open"
  BY DEF s, NewStore
<1>10. Exact(s, S, <<>>) /\ Counted(s, <<>>)
  BY <1>3, <1>11, ExactIsCounted DEF Exact, Reaches
<1>12. FilesHonest' /\ ObjectsHonest' /\ RestExact'
  <2>1. /\ p \in DOMAIN heap' /\ heap'[p].baseOffset = b /\ p \notin DOMAIN heap
        /\ \A q \in DOMAIN heap' \ {p} :
              q \in DOMAIN heap /\ heap'[q] = heap[q] /\ heap[q].baseOffset # b
        /\ \A q \in DOMAIN heap : q \in DOMAIN heap'
    BY <1>3, <1>4, <1>5
  <2>2. /\ acked \subseteq acked' /\ DOMAIN indexFile' = DOMAIN indexFile
        /\ \A c \in DOMAIN indexFile : c # b => indexFile'[c] = indexFile[c]
    BY <1>1
  <2>3. /\ Honest(b, storeFile'[b], Contents(indexFile', b), acked')
        /\ heap'[p].files # "closed"
        /\ Honest(b, storeFile'[b] \o heap'[p].buf, Contents(indexFile', b), acked')
        /\ Exact(heap'[p], storeFile'[b] \o heap'[p].buf, Contents(indexFile', b))
        /\ Counted(heap'[p], Contents(indexFile', b))
    BY <1>1, <1>4, <1>7, <1>8, <1>9, <1>10, <1>11
  <2> QED BY <1>7, <2>1, <2>2, <2>3, HonestElsewhere
<1> QED BY <1>2, <1>12 DEF HonestInv

LEMMA RollIndexHonest ==
    ASSUME Sequential, Inv, Inv', OrderInv, OrderInv', HonestInv,
           NEW t \in Appenders, RollIndex(t)
    PROVE  HonestInv'
<1> DEFINE p  == local[t].fresh
           b  == heap[p].baseOffset
           o  == WithIndex(heap[p], Contents(indexFile, b))
           rx == Resized(Contents(indexFile, b), MaxIndexBytes)
           S  == storeFile[b]
<1>1. /\ t \in Threads /\ UNCHANGED <<storeFile, acked, status>>
      /\ \E c : Steps(t, "index", "publish", c)
      /\ indexFile' = Put(indexFile, b, rx) /\ heap' = [heap EXCEPT ![p] = o]
  BY DEF RollIndex, Threads, process, history
<1>2. /\ \A u \in Threads : u = t
      /\ pc[t] = "index" /\ pc'[t] = "publish" /\ status = "up"
  BY <1>1, OnlyThread DEF Inv, TypeOK
<1>3. p = Len(heap) /\ p \in DOMAIN heap /\ heap[p] \in SegmentObject /\ IsOpen(p)
      /\ b \in DOMAIN storeFile /\ b \notin DOMAIN indexFile /\ heap[p].indexSize = 0
  <2>1. p = Len(heap) /\ IsOpen(p) /\ b \notin DOMAIN indexFile /\ heap[p].indexSize = 0
    BY <1>1, <1>2 DEF OrderInv, RollOK, Rolling
  <2>2. p \in DOMAIN heap
    BY <1>2, <2>1, NewestIsTop
  <2> QED BY <2>1, <2>2, Dereference DEF OrderInv, ObjectFiles, IsOpen, Inv, TypeOK
<1>4. Contents(indexFile, b) = <<>>
  BY <1>3 DEF Contents
<1>5. /\ o.baseOffset = b /\ o.nextOffset = b /\ o.indexSize = 0 /\ o.files = "open"
      /\ o.buf = heap[p].buf /\ b \in Nat /\ S \in Seq(Chunk) /\ o.buf \in Seq(Chunk)
      /\ o \in SegmentObject
  <2>1. heap[p].baseOffset \in Nat /\ heap[p].buf \in Seq(Chunk) /\ heap[p].files = "open"
    BY <1>3 DEF SegmentObject, SegmentRecord, IsOpen
  <2>2. S \in Seq(Chunk)
    BY <1>3 DEF Inv, TypeOK, DiskOK, FileOf
  <2>3. o = [heap[p] EXCEPT !.indexSize = 0, !.nextOffset = b]
    BY <1>4 DEF WithIndex
  <2>4. b \in Nat /\ heap[p] \in SegmentRecord /\ heap[p].baseOffset = b
    BY <1>3, <2>1 DEF SegmentObject
  <2> HIDE DEF o, b, p
  <2>5. o \in SegmentRecord /\ o.baseOffset = b /\ o.nextOffset = b /\ o.indexSize = 0
        /\ o.buf = heap[p].buf /\ o.files = heap[p].files
    BY <2>3, <2>4 DEF SegmentRecord
  <2> QED BY <2>1, <2>2, <2>4, <2>5 DEF SegmentObject
<1>6. rx = Resized(<<>>, MaxIndexBytes) /\ MaxIndexBytes \in Nat /\ <<>> \in Seq(Entry)
      /\ Len(rx) = MaxIndexBytes
  BY <1>4, SegmentAssumption DEF Resized
<1> HIDE DEF o, rx, b
<1>7. /\ DOMAIN indexFile' = DOMAIN indexFile \cup {b} /\ indexFile'[b] = rx
      /\ \A c \in DOMAIN indexFile : indexFile'[c] = indexFile[c]
      /\ Contents(indexFile', b) = rx
  BY <1>1, <1>3 DEF Put, Contents
<1>8. Honest(b, S, <<>>, acked) /\ Honest(b, S \o o.buf, <<>>, acked)
  BY <1>3, <1>4, <1>5 DEF HonestInv, FilesHonest, ObjectsHonest, StoredFor, IsOpen, b
<1>9. Honest(b, S, rx, acked) /\ Honest(b, S \o o.buf, rx, acked)
  BY <1>5, <1>6, <1>8, HonestResized
<1>10. Exact(o, S \o o.buf, rx) /\ Counted(o, rx)
  <2>1. Exact(o, S \o o.buf, rx)
    BY <1>5, <1>6 DEF Exact, Reaches, Resized, EntryAt
  <2> QED BY <2>1, ExactIsCounted
<1>11. /\ DOMAIN heap' = DOMAIN heap /\ heap'[p] = o /\ Len(heap') = Len(heap)
       /\ \A q \in DOMAIN heap : q # p => heap'[q] = heap[q] /\ heap[q].baseOffset # b
  BY <1>1, <1>3, <1>5, HeapChanged, BasesDiffer DEF Inv, TypeOK, OrderInv, b
<1>12. FilesHonest' /\ ObjectsHonest' /\ RestExact'
  <2>1. b = heap[p].baseOffset
    BY DEF b
  <2> HIDE DEF p
  <2> QED BY <1>1, <1>3, <1>5, <1>7, <1>9, <1>10, <1>11, <2>1, HonestElsewhere
<1>13. WriteOK'
  BY <1>1, <1>2, <1>3, <1>5, <1>11 DEF WriteOK
<1>14. EndOK'
  BY <1>1 DEF HonestInv, EndOK
<1> QED BY <1>12, <1>13, <1>14 DEF HonestInv

(* Setup opens a segment above all others.                                 *)
LEMMA OpenSegmentHonest ==
    ASSUME Inv, Inv', OrderInv, OrderInv', HonestInv, status = "setup",
           NEW y \in Nat, OpenSegment(y),
           \A p \in DOMAIN heap : heap[p].baseOffset < y,
           status' # "closing", acked' = acked, pc' = pc
    PROVE  HonestInv'
<1> DEFINE s  == NewSegment(y, storeFile, indexFile)
           ix == Contents(indexFile, y)
           rx == Resized(ix, MaxIndexBytes)
           S  == Contents(storeFile, y)
           p  == Len(heap')
<1>1. /\ storeFile' = Put(storeFile, y, S) /\ indexFile' = Put(indexFile, y, rx)
      /\ heap' = Append(heap, s)
  BY DEF OpenSegment
<1>2. /\ s \in SegmentObject /\ ix \in Seq(Entry) /\ S \in Seq(Chunk)
      /\ Len(ix) <= MaxIndexBytes /\ Len(rx) = MaxIndexBytes /\ MaxIndexBytes \in Nat
  <2>1. ix \in Seq(Entry) /\ S \in Seq(Chunk) /\ s \in SegmentObject
    BY ContentsType, NewSegmentType DEF Inv, TypeOK, DiskOK
  <2>2. Len(ix) <= MaxIndexBytes
    <3>1. CASE y \in DOMAIN indexFile
      BY <3>1 DEF OrderInv, FilesOK, Contents
    <3>2. CASE y \notin DOMAIN indexFile
      BY <3>2, SegmentAssumption, EmptySeq DEF Contents
    <3> QED BY <3>1, <3>2
  <2>3. Len(rx) = MaxIndexBytes /\ MaxIndexBytes \in Nat
    <3>1. MaxIndexBytes \in Nat
      BY SegmentAssumption
    <3> HIDE DEF ix
    <3> QED BY <3>1 DEF Resized
  <2> QED BY <2>1, <2>2, <2>3
<1>3. /\ s.baseOffset = y /\ s.indexSize = Len(ix) /\ s.buf = <<>> /\ s.files = "open"
      /\ s.nextOffset = IF ix = <<>> THEN y ELSE y + ix[Len(ix)].off + 1
  <2> DEFINE m == NewStore(y, storeFile)
  <2>1. m \in SegmentObject /\ m.baseOffset = y /\ m.buf = <<>> /\ m.files = "open"
    BY NewStoreType DEF NewStore, Inv, TypeOK
  <2>2. s = WithIndex(m, ix)
    BY DEF NewSegment
  <2> HIDE DEF m, s, ix
  <2> QED BY <2>1, <2>2 DEF WithIndex, SegmentObject, SegmentRecord
<1>4. Honest(y, S, ix, acked)
  BY ContentsHonest
<1>5. \A q \in DOMAIN heap : heap[q].baseOffset # y
  <2>1. \A q \in DOMAIN heap : heap[q].baseOffset \in Nat
    BY Dereference DEF Inv, TypeOK, SegmentObject, SegmentRecord
  <2> QED BY <2>1
<1>6. Trusted(Len(ix)) => Counts(ix, Len(ix)) /\ (Whole(y) => Reaches(ix, Len(ix), S))
  <2>1. CASE y \in DOMAIN indexFile
    <3>1. ~ Held(y) /\ y \in DOMAIN storeFile
      BY <1>5, <2>1 DEF Held, OrderInv, FilesOK
    <3> QED BY <2>1, <3>1 DEF HonestInv, RestExact, Contents
  <2>2. CASE y \notin DOMAIN indexFile
    BY <2>2, EmptySeq DEF Contents, Reaches, Counts
  <2> QED BY <2>1, <2>2
<1> HIDE DEF s, ix, S
<1>7. Honest(y, S, rx, acked)
  BY <1>2, <1>4, HonestResized
<1>8. Counted(s, rx)
  BY <1>2, <1>3, <1>6, CountedOpened
<1>15. Whole(y) => Exact(s, S, rx)
  <2> SUFFICES ASSUME Whole(y), Trusted(s.indexSize) PROVE Reaches(rx, s.indexSize, S)
    BY <1>8, ExactIsCounted
  <2>1. Reaches(ix, Len(ix), S) /\ Len(ix) \in Nat
    BY <1>2, <1>3, <1>6, LenProperties
  <2> QED BY <1>2, <1>3, <2>1, ReachesResized
<1> HIDE DEF rx
<1>9. S \o s.buf = S
  BY <1>2, <1>3, EmptyTail
<1>10. /\ p \in DOMAIN heap' /\ DOMAIN heap' = DOMAIN heap \cup {p} /\ heap'[p] = s
       /\ p \notin DOMAIN heap
       /\ \A q \in DOMAIN heap : heap'[q] = heap[q] /\ q < p
  BY <1>1, <1>2, HeapExtended DEF Inv, TypeOK
<1> HIDE DEF p
<1>11. /\ DOMAIN storeFile' = DOMAIN storeFile \cup {y} /\ storeFile'[y] = S
       /\ \A c \in DOMAIN storeFile : c # y => storeFile'[c] = storeFile[c]
       /\ DOMAIN indexFile' = DOMAIN indexFile \cup {y} /\ indexFile'[y] = rx
       /\ \A c \in DOMAIN indexFile : c # y => indexFile'[c] = indexFile[c]
       /\ Contents(indexFile', y) = rx
  BY <1>1 DEF Put, Contents
<1>12. FilesHonest' /\ ObjectsHonest' /\ RestExact'
  <2>1. /\ p \in DOMAIN heap' /\ heap'[p].baseOffset = y /\ p \notin DOMAIN heap
        /\ \A q \in DOMAIN heap' \ {p} :
              q \in DOMAIN heap /\ heap'[q] = heap[q] /\ heap[q].baseOffset # y
        /\ \A q \in DOMAIN heap : q \in DOMAIN heap'
    BY <1>3, <1>5, <1>10
  <2>2. /\ Honest(y, storeFile'[y], Contents(indexFile', y), acked')
        /\ heap'[p].files # "closed"
        /\ Honest(y, storeFile'[y] \o heap'[p].buf, Contents(indexFile', y), acked')
        /\ Counted(heap'[p], Contents(indexFile', y))
        /\ Whole(y)' => Exact(heap'[p], storeFile'[y] \o heap'[p].buf, Contents(indexFile', y))
    <3>1. Whole(y)' => Whole(y)
      BY <1>11 DEF Whole
    <3> QED BY <1>3, <1>7, <1>8, <1>9, <1>10, <1>11, <1>15, <3>1
  <2>3. acked \subseteq acked'
    OBVIOUS
  <2> QED BY <1>11, <2>1, <2>2, <2>3, HonestElsewhere
<1>13. EndOK'
  BY DEF EndOK
<1>14. WriteOK'
  BY DEF WriteOK, Inv, PointersSet, LocalsSet
<1> QED BY <1>12, <1>13, <1>14 DEF HonestInv

LEMMA SetupHonest ==
    ASSUME Inv, Inv', OrderInv, OrderInv', HonestInv, SetupSegment \/ SetupDone
    PROVE  HonestInv'
<1>1. CASE SetupSegment
  <2> DEFINE y == FirstName(todo)[1]
  <2>1. /\ status = "setup" /\ todo # {} /\ OpenSegment(y)
        /\ status' = status /\ acked' = acked /\ pc' = pc
    BY <1>1 DEF SetupSegment, threads, history
  <2>2. FirstName(todo) \in todo /\ y \in Nat
    BY <2>1, FirstNameIsName DEF Inv, TypeOK, ProcessOK
  <2>3. \A p \in DOMAIN heap : heap[p].baseOffset < y
    BY <2>1, <2>2 DEF OrderInv, SetupOK
  <2> HIDE DEF y
  <2> QED BY <2>1, <2>2, <2>3, OpenSegmentHonest
<1>2. CASE SetupDone
  <2>1. /\ status = "setup" /\ status' = "up" /\ acked' = acked /\ pc' = pc
        /\ segments = <<>> => OpenSegment(InitialOffset)
        /\ segments # <<>> => UNCHANGED <<storeFile, indexFile, heap>>
    BY <1>2 DEF SetupDone, threads, history, disk, log
  <2>2. CASE segments = <<>>
    <3>1. \A p \in DOMAIN heap : p \in Elements(segments)
      BY <2>1 DEF OrderInv, ListOK
    <3>2. DOMAIN heap = {}
      BY <2>2, <3>1, ElementsOfEmpty
    <3> QED BY <2>1, <2>2, <3>2, CommitLogAssumption, OpenSegmentHonest
  <2>3. CASE segments # <<>>
    <3>1. WriteOK' /\ EndOK'
      BY <2>1, <2>3 DEF HonestInv, EndOK, WriteOK, Inv, PointersSet, LocalsSet
    <3> QED BY <2>1, <2>3, <3>1, ContentsKept DEF HonestInv
  <2> QED BY <2>2, <2>3
<1> QED BY <1>1, <1>2

LEMMA ExactSame ==
    ASSUME NEW s, NEW o, NEW S, NEW ix,
           o.baseOffset = s.baseOffset, o.nextOffset = s.nextOffset,
           o.indexSize = s.indexSize, o.files = "half" => s.files = "half"
    PROVE  /\ Exact(s, S, ix) => Exact(o, S, ix)
           /\ Counted(s, ix) => Counted(o, ix)
<1> QED BY DEF Exact, Counted

(* Read and the two Closes write out what bufio holds.                     *)
LEMMA FlushHonest ==
    ASSUME Inv, Inv', OrderInv, HonestInv,
           NEW p \in DOMAIN heap, heap[p].files # "closed",
           NEW o \in SegmentObject, heap' = [heap EXCEPT ![p] = o],
           o.baseOffset = heap[p].baseOffset, o.nextOffset = heap[p].nextOffset,
           o.indexSize = heap[p].indexSize, o.buf = <<>>,
           o.files = heap[p].files \/ (o.files = "closed" /\ heap[p].files = "half"),
           storeFile' = Grown(storeFile, heap[p].baseOffset, heap[p].buf),
           UNCHANGED <<indexFile, acked>>
    PROVE  FilesHonest' /\ ObjectsHonest' /\ RestExact'
<1> DEFINE s  == heap[p]
           b  == s.baseOffset
           S  == storeFile[b] \o s.buf
           ix == Contents(indexFile, b)
<1>1. /\ s \in SegmentObject /\ b \in Nat /\ s.buf \in Seq(Chunk)
      /\ b \in DOMAIN storeFile /\ S \in Seq(Chunk)
  <2>1. s \in SegmentObject
    BY Dereference DEF Inv, TypeOK
  <2>2. b \in Nat /\ s.buf \in Seq(Chunk)
    BY <2>1 DEF SegmentObject, SegmentRecord
  <2>3. b \in DOMAIN storeFile
    BY DEF OrderInv, ObjectFiles
  <2>4. storeFile[b] \in Seq(Chunk)
    BY <2>3 DEF Inv, TypeOK, DiskOK, FileOf
  <2> QED BY <2>1, <2>2, <2>3, <2>4, ConcatProperties
<1>2. Honest(b, S, ix, acked) /\ Counted(s, ix) /\ (Whole(b) => Exact(s, S, ix))
  BY DEF HonestInv, ObjectsHonest, StoredFor
<1>3. /\ DOMAIN storeFile' = DOMAIN storeFile /\ storeFile'[b] = S
      /\ \A c \in DOMAIN storeFile : c # b => storeFile'[c] = storeFile[c]
  BY <1>1 DEF Grown
<1>4. /\ DOMAIN heap' = DOMAIN heap /\ heap'[p] = o
      /\ \A q \in DOMAIN heap : q # p => heap'[q] = heap[q] /\ heap[q].baseOffset # b
  BY HeapChanged, BasesDiffer DEF Inv, TypeOK, OrderInv
<1>5. Counted(o, ix) /\ (Whole(b) => Exact(o, S, ix))
  BY <1>2, ExactSame
<1>6. S \o o.buf = S
  BY <1>1, EmptyTail
<1>7. ASSUME o.files = "closed", b \in DOMAIN indexFile, Trusted(Len(ix))
      PROVE  Counts(ix, Len(ix)) /\ (Whole(b) => Reaches(ix, Len(ix), S))
  BY <1>2, <1>7 DEF Exact, Counted
<1>8. Contents(indexFile', b) = ix /\ b = heap[p].baseOffset
  BY DEF Contents
<1> HIDE DEF s, b, S, ix
<1>9. /\ Honest(b, S, ix, acked) /\ Honest(b, S \o o.buf, ix, acked)
      /\ Whole(b) => Exact(o, S \o o.buf, ix)
  BY <1>2, <1>5, <1>6
<1>10. /\ DOMAIN indexFile' = DOMAIN indexFile /\ acked' = acked
       /\ \A c \in DOMAIN indexFile : c # b => indexFile'[c] = indexFile[c]
       /\ o.baseOffset = b
  BY <1>8
<1>11. /\ Honest(b, storeFile'[b], Contents(indexFile', b), acked)
       /\ Honest(b, storeFile'[b] \o heap'[p].buf, Contents(indexFile', b), acked)
       /\ Counted(heap'[p], Contents(indexFile', b))
       /\ Whole(b) =>
             Exact(heap'[p], storeFile'[b] \o heap'[p].buf, Contents(indexFile', b))
  BY <1>3, <1>4, <1>5, <1>8, <1>9
<1>12. heap'[p].files = "closed" /\ b \in DOMAIN indexFile /\ Trusted(Len(indexFile'[b]))
          => /\ Counts(indexFile'[b], Len(indexFile'[b]))
             /\ Whole(b) => Reaches(indexFile'[b], Len(indexFile'[b]), storeFile'[b])
  BY <1>3, <1>4, <1>7, <1>8 DEF Contents
<1>13. heap'[p].baseOffset = b
  BY <1>4, <1>10
<1> QED BY <1>3, <1>4, <1>8, <1>10, <1>11, <1>12, <1>13, HonestAt

LEMMA ReadHonest ==
    ASSUME Inv, Inv', OrderInv, HonestInv, NEW off, Read(off)
    PROVE  HonestInv'
<1>1. PICK p \in Found(off) :
        /\ heap[p].files = "open"
        /\ heap' = [heap EXCEPT ![p] = Flushed(heap[p])]
        /\ storeFile' = Grown(storeFile, heap[p].baseOffset, heap[p].buf)
  BY DEF Read
<1>2. status = "up" /\ UNCHANGED <<indexFile, active, status, pc, acked>>
  BY DEF Read, process, threads, history
<1>3. p \in DOMAIN heap
  <2>1. p \in Elements(segments)
    BY <1>1 DEF Found, Holders, Elements
  <2> QED BY <2>1, ElementsType DEF Inv, TypeOK, LogOK
<1> DEFINE o == Flushed(heap[p])
<1>4. /\ heap[p] \in SegmentObject /\ o \in SegmentObject /\ o.buf = <<>>
      /\ o.baseOffset = heap[p].baseOffset /\ o.nextOffset = heap[p].nextOffset
      /\ o.indexSize = heap[p].indexSize /\ o.files = heap[p].files
  <2>1. heap[p] \in SegmentObject
    BY <1>3, Dereference DEF Inv, TypeOK
  <2> QED BY <2>1, EmptiedType DEF Flushed, SegmentObject, SegmentRecord
<1> HIDE DEF o
<1>5. heap' = [heap EXCEPT ![p] = o]
  BY <1>1 DEF o
<1>6. FilesHonest' /\ ObjectsHonest' /\ RestExact'
  BY <1>1, <1>2, <1>3, <1>4, <1>5, FlushHonest
<1>7. WriteOK'
  <2>1. /\ Len(heap') = Len(heap) /\ DOMAIN heap' = DOMAIN heap
        /\ \A q \in DOMAIN heap : heap'[q].indexSize = heap[q].indexSize
    BY <1>3, <1>4, <1>5, HeapChanged DEF Inv, TypeOK
  <2>2. active \in DOMAIN heap /\ Len(heap) \in DOMAIN heap
    <3>1. active \in Elements(segments)
      BY <1>2 DEF OrderInv, ListOK
    <3>2. Elements(segments) \subseteq DOMAIN heap
      BY ElementsType DEF Inv, TypeOK, LogOK
    <3> QED BY <1>2, <3>1, <3>2, NewestIsTop
  <2> QED BY <1>2, <2>1, <2>2 DEF HonestInv, WriteOK
<1>8. EndOK'
  BY <1>2 DEF HonestInv, EndOK
<1> QED BY <1>6, <1>7, <1>8 DEF HonestInv

LEMMA CloseStoreHonest ==
    ASSUME Inv, Inv', OrderInv, HonestInv, CloseStore
    PROVE  HonestInv'
<1> DEFINE p == Head(pending)
           o == Closed(heap[p])
<1>1. /\ status = "closing" /\ pending # <<>> /\ heap[p].files = "half"
      /\ heap' = [heap EXCEPT ![p] = o]
      /\ storeFile' = Grown(storeFile, heap[p].baseOffset, heap[p].buf)
      /\ UNCHANGED <<indexFile, status, pc, acked>>
  BY DEF CloseStore, threads, history
<1>2. p \in DOMAIN heap /\ heap[p] \in SegmentObject
  BY <1>1, CloseState
<1>3. /\ o \in SegmentObject /\ o.buf = <<>> /\ o.files = "closed"
      /\ o.baseOffset = heap[p].baseOffset /\ o.nextOffset = heap[p].nextOffset
      /\ o.indexSize = heap[p].indexSize
  BY <1>2, EmptiedType DEF Closed, SegmentObject, SegmentRecord
<1> HIDE DEF p, o
<1>4. FilesHonest' /\ ObjectsHonest' /\ RestExact'
  BY <1>1, <1>2, <1>3, FlushHonest
<1>5. WriteOK'
  BY <1>1 DEF WriteOK, Inv, PointersSet, LocalsSet
<1>6. EndOK'
  BY <1>1 DEF HonestInv, EndOK
<1> QED BY <1>4, <1>5, <1>6 DEF HonestInv

LEMMA HonestUnindexed ==
    ASSUME NEW b, NEW S, NEW ix, NEW A, Honest(b, S, ix, A)
    PROVE  Honest(b, S, <<>>, A)
<1> QED BY DEF Honest

(* The object that an action works on, its store and its index.            *)
LEMMA ObjectState ==
    ASSUME Inv, OrderInv, HonestInv, NEW p \in DOMAIN heap, heap[p].files # "closed"
    PROVE  LET s  == heap[p]
               b  == s.baseOffset
               S  == storeFile[b] \o s.buf
               ix == Contents(indexFile, b)
           IN  /\ s \in SegmentObject /\ b \in Nat /\ s.buf \in Seq(Chunk)
               /\ s.indexSize \in Nat /\ s.nextOffset \in Nat
               /\ b \in DOMAIN storeFile /\ storeFile[b] \in Seq(Chunk) /\ S \in Seq(Chunk)
               /\ ix \in Seq(Entry) /\ (b \in DOMAIN indexFile => ix = indexFile[b])
               /\ Honest(b, S, ix, acked) /\ Honest(b, storeFile[b], ix, acked)
               /\ Counted(s, ix) /\ (Whole(b) => Exact(s, S, ix))
               /\ s.size = Len(S)
               /\ \A q \in DOMAIN heap : q # p => heap[q].baseOffset # b
<1> DEFINE s == heap[p]
           b == s.baseOffset
<1>1. s \in SegmentObject
  BY Dereference DEF Inv, TypeOK
<1>2. b \in Nat /\ s.buf \in Seq(Chunk) /\ s.indexSize \in Nat /\ s.nextOffset \in Nat
  BY <1>1 DEF SegmentObject, SegmentRecord
<1>3. b \in DOMAIN storeFile
  BY DEF OrderInv, ObjectFiles
<1>4. storeFile[b] \in Seq(Chunk)
  BY <1>3 DEF Inv, TypeOK, DiskOK, FileOf
<1>5. Contents(indexFile, b) \in Seq(Entry)
  BY ContentsType DEF Inv, TypeOK, DiskOK
<1>6. /\ Honest(b, storeFile[b] \o s.buf, Contents(indexFile, b), acked)
      /\ Counted(s, Contents(indexFile, b))
      /\ Whole(b) => Exact(s, storeFile[b] \o s.buf, Contents(indexFile, b))
      /\ Honest(b, storeFile[b], Contents(indexFile, b), acked)
  BY <1>3 DEF HonestInv, ObjectsHonest, FilesHonest, StoredFor
<1>7. s.size = Len(storeFile[b]) + Len(s.buf)
  BY DEF OrderInv, ObjectsFit, Fits
<1>8. \A q \in DOMAIN heap : q # p => heap[q].baseOffset # b
  BY BasesDiffer DEF Inv, TypeOK, OrderInv
<1>9. /\ storeFile[b] \o s.buf \in Seq(Chunk)
      /\ Len(storeFile[b] \o s.buf) = Len(storeFile[b]) + Len(s.buf)
  BY <1>2, <1>4, ConcatProperties
<1>10. b \in DOMAIN indexFile => Contents(indexFile, b) = indexFile[b]
  BY DEF Contents
<1> QED BY <1>1, <1>2, <1>3, <1>4, <1>5, <1>6, <1>7, <1>8, <1>9, <1>10

(* index.Close of an open segment, in Truncate or in Close.                *)
LEMMA HalfObject ==
    ASSUME Inv, NEW p \in DOMAIN heap, heap' = [heap EXCEPT ![p].files = "half"]
    PROVE  \E o \in SegmentObject :
             /\ heap' = [heap EXCEPT ![p] = o] /\ o.files = "half"
             /\ o.baseOffset = heap[p].baseOffset /\ o.nextOffset = heap[p].nextOffset
             /\ o.buf = heap[p].buf /\ o.indexSize = heap[p].indexSize
<1> DEFINE o == [heap[p] EXCEPT !.files = "half"]
<1>1. heap[p] \in SegmentObject
  BY Dereference DEF Inv, TypeOK
<1>2. /\ o \in SegmentObject /\ o.files = "half"
      /\ o.baseOffset = heap[p].baseOffset /\ o.nextOffset = heap[p].nextOffset
      /\ o.buf = heap[p].buf /\ o.indexSize = heap[p].indexSize
  BY <1>1 DEF SegmentObject, SegmentRecord
<1>3. heap' = [heap EXCEPT ![p] = o]
  OBVIOUS
<1> HIDE DEF o
<1> QED BY <1>2, <1>3

LEMMA CutHonest ==
    ASSUME Inv, Inv', OrderInv, HonestInv, NEW p \in DOMAIN heap, heap[p].files = "open",
           NEW b, b = heap[p].baseOffset, b \in DOMAIN indexFile,
           NEW o \in SegmentObject, heap' = [heap EXCEPT ![p] = o], o.files = "half",
           o.baseOffset = b, o.nextOffset = heap[p].nextOffset,
           o.buf = heap[p].buf, o.indexSize = heap[p].indexSize,
           indexFile' = Cut(indexFile, heap[p]),
           UNCHANGED <<storeFile, acked>>
    PROVE  FilesHonest' /\ ObjectsHonest' /\ RestExact'
<1> DEFINE s   == heap[p]
           S   == storeFile[b] \o s.buf
           ix  == indexFile[b]
           cut == Resized(ix, s.indexSize)
<1>1. /\ s.files = "open" /\ s.baseOffset = b
      /\ heap' = [heap EXCEPT ![p] = o] /\ indexFile' = Cut(indexFile, s)
      /\ UNCHANGED <<storeFile, acked>>
  OBVIOUS
<1>2. p \in DOMAIN heap /\ b \in DOMAIN indexFile
  OBVIOUS
<1>3. /\ s \in SegmentObject /\ b \in Nat /\ s.indexSize \in Nat /\ b \in DOMAIN storeFile
      /\ ix \in Seq(Entry) /\ Honest(b, S, ix, acked) /\ Honest(b, storeFile[b], ix, acked)
      /\ Counted(s, ix) /\ (Whole(b) => Exact(s, S, ix))
      /\ \A q \in DOMAIN heap : q # p => heap[q].baseOffset # b
  BY <1>1, <1>2, ObjectState
<1>4. /\ o \in SegmentObject /\ o.baseOffset = b /\ o.nextOffset = s.nextOffset
      /\ o.buf = s.buf /\ o.indexSize = s.indexSize /\ o.files = "half"
  OBVIOUS
<1>5. /\ DOMAIN indexFile' = DOMAIN indexFile /\ indexFile'[b] = cut
      /\ \A c \in DOMAIN indexFile : c # b => indexFile'[c] = indexFile[c]
      /\ Contents(indexFile', b) = cut
  BY <1>1, <1>2 DEF Cut, Contents
<1>6. b = heap[p].baseOffset /\ b = s.baseOffset
  BY <1>1
<1> HIDE DEF s, S, ix
<1>7. Honest(b, S, cut, acked) /\ Honest(b, storeFile[b], cut, acked)
  BY <1>3, HonestResized
<1>8. Counted(o, cut) /\ (Whole(b) => Exact(o, S, cut))
  <2>1. Trusted(s.indexSize) =>
          /\ s.nextOffset = b + s.indexSize /\ Counts(ix, s.indexSize)
    BY <1>3, <1>6 DEF Counted
  <2>2. Trusted(s.indexSize) => Counts(cut, s.indexSize)
    BY <1>3, <2>1, CountsResized
  <2>3. DOMAIN cut = 1 .. s.indexSize /\ Len(cut) = s.indexSize
    BY <1>3 DEF Resized
  <2>4. \A j \in DOMAIN cut : ~(s.indexSize < j)
    BY <1>3, <2>3
  <2>5. Whole(b) /\ Trusted(s.indexSize) => Reaches(ix, s.indexSize, S)
    BY <1>3 DEF Exact
  <2>6. Whole(b) /\ Trusted(s.indexSize) => Reaches(cut, s.indexSize, S)
    BY <1>3, <2>5, ReachesResized
  <2> HIDE DEF cut
  <2>7. Counted(o, cut)
    BY <1>4, <2>1, <2>2, <2>3, <2>4 DEF Counted
  <2> QED BY <1>4, <2>6, <2>7, ExactIsCounted
<1> HIDE DEF cut
<1>9. /\ DOMAIN heap' = DOMAIN heap /\ heap'[p] = o
      /\ \A q \in DOMAIN heap : q # p => heap'[q] = heap[q] /\ heap[q].baseOffset # b
  BY <1>1, <1>2, <1>3, <1>4, HeapChanged DEF Inv, TypeOK
<1>10. /\ Honest(b, S, cut, acked) /\ S = storeFile'[b] \o o.buf
       /\ DOMAIN storeFile' = DOMAIN storeFile /\ acked' = acked
       /\ \A c \in DOMAIN storeFile : c # b => storeFile'[c] = storeFile[c]
       /\ o.files # "closed"
  BY <1>1, <1>4, <1>7 DEF S
<1>11. /\ Honest(b, storeFile'[b], Contents(indexFile', b), acked)
       /\ Honest(b, storeFile'[b] \o heap'[p].buf, Contents(indexFile', b), acked)
       /\ Counted(heap'[p], Contents(indexFile', b))
       /\ Whole(b) =>
             Exact(heap'[p], storeFile'[b] \o heap'[p].buf, Contents(indexFile', b))
       /\ heap'[p].baseOffset = b /\ heap'[p].files # "closed"
  BY <1>1, <1>4, <1>5, <1>7, <1>8, <1>9, <1>10
<1>12. heap'[p].files = "closed" /\ b \in DOMAIN indexFile /\ Trusted(Len(indexFile'[b]))
          => /\ Counts(indexFile'[b], Len(indexFile'[b]))
             /\ Whole(b) => Reaches(indexFile'[b], Len(indexFile'[b]), storeFile'[b])
  BY <1>11
<1>13. /\ DOMAIN heap' = DOMAIN heap
       /\ \A q \in DOMAIN heap : q # p => heap'[q] = heap[q] /\ heap[q].baseOffset # b
  BY <1>9
<1>14. /\ DOMAIN indexFile' = DOMAIN indexFile
       /\ \A c \in DOMAIN indexFile : c # b => indexFile'[c] = indexFile[c]
  BY <1>5
<1>15. /\ DOMAIN storeFile' = DOMAIN storeFile /\ acked' = acked
       /\ \A c \in DOMAIN storeFile : c # b => storeFile'[c] = storeFile[c]
  BY <1>10
<1>16. p \in DOMAIN heap /\ b = heap[p].baseOffset
  OBVIOUS
<1> QED BY <1>11, <1>12, <1>13, <1>14, <1>15, <1>16, HonestAt

LEMMA CloseIndexHonest ==
    ASSUME Inv, Inv', OrderInv, HonestInv, CloseIndex
    PROVE  HonestInv'
<1> DEFINE p == Head(pending)
           b == heap[p].baseOffset
<1>1. /\ status = "closing" /\ pending # <<>> /\ heap[p].files = "open"
      /\ heap' = [heap EXCEPT ![p].files = "half"] /\ indexFile' = Cut(indexFile, heap[p])
      /\ UNCHANGED <<storeFile, status, pc, acked>>
  BY DEF CloseIndex, process, threads, history
<1>2. p \in DOMAIN heap /\ b \in DOMAIN indexFile
  BY <1>1, CloseState
<1> HIDE DEF p
<1>3. FilesHonest' /\ ObjectsHonest' /\ RestExact'
  BY <1>1, <1>2, HalfObject, CutHonest
<1>4. WriteOK' /\ EndOK'
  BY <1>1 DEF WriteOK, Inv, PointersSet, LocalsSet, HonestInv, EndOK
<1> QED BY <1>3, <1>4 DEF HonestInv

LEMMA TruncateCloseIndexHonest ==
    ASSUME Sequential, Inv, Inv', OrderInv, HonestInv, NEW t \in Truncators,
           TruncateCloseIndex(t)
    PROVE  HonestInv'
<1> DEFINE left == local[t].left
           p    == Head(left)
           b    == heap[p].baseOffset
<1>1. /\ t \in Threads /\ Steps(t, "truncate", "flush", local[t])
      /\ left # <<>> /\ pc[t] = "truncate" /\ heap[p].files = "open"
      /\ heap' = [heap EXCEPT ![p].files = "half"] /\ indexFile' = Cut(indexFile, heap[p])
      /\ UNCHANGED <<storeFile, status, acked>>
  BY DEF TruncateCloseIndex, process, history, Steps, Threads
<1>2. /\ \A u \in Threads : u = t
      /\ left \in Seq(Nat) /\ Elements(left) \subseteq DOMAIN heap
  BY <1>1, LoopState DEF Truncating
<1>3. p \in DOMAIN heap
  BY <1>1, <1>2, HeadAndTail
<1>4. b \in DOMAIN indexFile
  BY <1>1, <1>2, <1>3 DEF OrderInv, ObjectFiles, Creating
<1> HIDE DEF left, p
<1>5. FilesHonest' /\ ObjectsHonest' /\ RestExact'
  BY <1>1, <1>3, <1>4, HalfObject, CutHonest
<1>6. WriteOK' /\ EndOK'
  BY <1>1, OtherStep DEF HonestInv, EndOK
<1> QED BY <1>5, <1>6 DEF HonestInv

LEMMA TruncateCloseStoreHonest ==
    ASSUME Sequential, Inv, Inv', OrderInv, HonestInv, NEW t \in Truncators,
           TruncateCloseStore(t)
    PROVE  HonestInv'
<1> DEFINE left == local[t].left
           p    == Head(left)
           o    == Closed(heap[p])
<1>1. /\ t \in Threads /\ Steps(t, "flush", "remove", local[t]) /\ pc[t] = "flush"
      /\ heap' = [heap EXCEPT ![p] = o]
      /\ storeFile' = Grown(storeFile, heap[p].baseOffset, heap[p].buf)
      /\ UNCHANGED <<indexFile, status, acked>>
  BY DEF TruncateCloseStore, process, history, Threads
<1>2. p \in DOMAIN heap /\ heap[p].files = "half"
  <2>1. /\ left \in Seq(Nat) /\ left # <<>> /\ Elements(left) \subseteq DOMAIN heap
        /\ heap[p].files = "half"
    BY <1>1, LoopState DEF Truncating
  <2> QED BY <2>1, HeadAndTail
<1>3. /\ o \in SegmentObject /\ o.buf = <<>> /\ o.files = "closed"
      /\ o.baseOffset = heap[p].baseOffset /\ o.nextOffset = heap[p].nextOffset
      /\ o.indexSize = heap[p].indexSize
  <2>1. heap[p] \in SegmentObject
    BY <1>2, Dereference DEF Inv, TypeOK
  <2> HIDE DEF p
  <2> QED BY <2>1, EmptiedType DEF Closed, SegmentObject, SegmentRecord
<1> HIDE DEF left, p, o
<1>4. FilesHonest' /\ ObjectsHonest' /\ RestExact'
  BY <1>1, <1>2, <1>3, FlushHonest
<1>5. WriteOK' /\ EndOK'
  BY <1>1, OtherStep DEF HonestInv, EndOK
<1> QED BY <1>4, <1>5 DEF HonestInv

LEMMA TruncateRemoveHonest ==
    ASSUME Sequential, Inv, Inv', OrderInv, HonestInv, NEW t \in Truncators, TruncateRemove(t)
    PROVE  HonestInv'
<1> DEFINE b == BaseAt(t)
<1>1. /\ t \in Threads /\ Steps(t, "remove", "unlink", local[t]) /\ pc[t] = "remove"
      /\ indexFile' = Delete(indexFile, b)
      /\ UNCHANGED <<storeFile, heap, status, acked>>
  BY DEF TruncateRemove, log, process, history, Threads
<1>2. \A p \in DOMAIN heap : heap[p].files # "closed" => heap[p].baseOffset # b
  <2> DEFINE q == Head(local[t].left)
  <2>1. q \in DOMAIN heap /\ heap[q].files = "closed"
    <3>1. /\ local[t].left \in Seq(Nat) /\ local[t].left # <<>>
          /\ Elements(local[t].left) \subseteq DOMAIN heap /\ heap[q].files = "closed"
      BY <1>1, LoopState DEF Truncating
    <3> QED BY <3>1, HeadAndTail
  <2>2. b = heap[q].baseOffset
    BY DEF BaseAt
  <2> HIDE DEF q, b
  <2>3. \A p \in DOMAIN heap : p # q => heap[p].baseOffset # b
    BY <2>1, <2>2, BasesDiffer DEF Inv, TypeOK, OrderInv
  <2> QED BY <2>1, <2>3
<1> HIDE DEF b
<1>3. /\ DOMAIN indexFile' = DOMAIN indexFile \ {b}
      /\ \A c \in DOMAIN indexFile' : indexFile'[c] = indexFile[c]
      /\ Contents(indexFile', b) = <<>>
      /\ \A c : c # b => Contents(indexFile', c) = Contents(indexFile, c)
  BY <1>1 DEF Delete, Contents
<1>4. FilesHonest'
  <2> SUFFICES ASSUME NEW c \in DOMAIN storeFile
               PROVE  Honest(c, storeFile[c], Contents(indexFile', c), acked)
    BY <1>1 DEF FilesHonest, Contents
  <2>1. Honest(c, storeFile[c], Contents(indexFile, c), acked)
    BY DEF HonestInv, FilesHonest
  <2> QED BY <1>3, <2>1, HonestUnindexed
<1>5. ObjectsHonest'
  <2> SUFFICES ASSUME NEW p \in DOMAIN heap, heap[p].files # "closed",
                      NEW c, c = heap[p].baseOffset,
                      NEW ix, ix = Contents(indexFile', c)
               PROVE  /\ Honest(c, storeFile[c] \o heap[p].buf, ix, acked)
                      /\ Counted(heap[p], ix)
                      /\ Whole(c) => Exact(heap[p], storeFile[c] \o heap[p].buf, ix)
    BY <1>1 DEF ObjectsHonest, StoredFor, Contents, Whole
  <2>1. ix = Contents(indexFile, c)
    BY <1>2, <1>3
  <2> QED BY <2>1 DEF HonestInv, ObjectsHonest, StoredFor
<1>6. RestExact'
  BY <1>1, <1>3 DEF HonestInv, RestExact, Held, Whole
<1>7. WriteOK' /\ EndOK'
  BY <1>1, OtherStep DEF HonestInv, EndOK
<1> QED BY <1>4, <1>5, <1>6, <1>7 DEF HonestInv

LEMMA TruncateUnlinkHonest ==
    ASSUME Sequential, Inv, Inv', OrderInv, OrderInv', HonestInv,
           NEW t \in Truncators, TruncateUnlink(t)
    PROVE  HonestInv'
<1> DEFINE b == BaseAt(t)
<1>1. /\ t \in Threads /\ \E c : Steps(t, "unlink", "truncate", c) /\ pc[t] = "unlink"
      /\ storeFile' = Delete(storeFile, b)
      /\ UNCHANGED <<indexFile, heap, status, acked>>
  BY DEF TruncateUnlink, log, process, history, Threads
<1>8. \A d \in Nat : Whole(d)' => Whole(d)
  <2> DEFINE top == heap[active].baseOffset
  <2>1. /\ status = "up" /\ active = Len(heap) /\ active \in DOMAIN heap /\ IsOpen(active)
    BY <1>1, LoopState DEF Truncating
  <2>2. top \in DOMAIN storeFile'
    BY <1>1, <2>1 DEF OrderInv, ObjectFiles, IsOpen
  <2>3. \A d \in DOMAIN storeFile : d <= top
    BY <2>1, NewestIsTop
  <2>4. \A d \in DOMAIN storeFile : d \in Nat
    BY DEF Inv, TypeOK, DiskOK, FileOf
  <2>5. DOMAIN storeFile' \subseteq DOMAIN storeFile
    BY <1>1 DEF Delete
  <2> HIDE DEF top
  <2> SUFFICES ASSUME NEW d \in Nat, \A c \in DOMAIN storeFile' : c <= d
               PROVE  \A c \in DOMAIN storeFile : c <= d
    BY DEF Whole
  <2>6. top <= d /\ top \in Nat
    BY <2>2, <2>4, <2>5
  <2> QED BY <2>3, <2>4, <2>6
<1> HIDE DEF b
<1>2. /\ DOMAIN storeFile' \subseteq DOMAIN storeFile
      /\ \A c \in DOMAIN storeFile' : storeFile'[c] = storeFile[c]
  BY <1>1 DEF Delete
<1>3. FilesHonest'
  BY <1>1, <1>2 DEF HonestInv, FilesHonest, Contents
<1>4. ObjectsHonest'
  <2>1. \A p \in DOMAIN heap : heap[p].files # "closed" =>
           storeFile'[heap[p].baseOffset] = storeFile[heap[p].baseOffset]
    BY <1>1, <1>2 DEF OrderInv, ObjectFiles
  <2>2. \A p \in DOMAIN heap : heap[p].baseOffset \in Nat
    BY Dereference DEF Inv, TypeOK, SegmentObject, SegmentRecord
  <2> QED BY <1>1, <1>8, <2>1, <2>2 DEF HonestInv, ObjectsHonest, StoredFor, Contents
<1>5. RestExact'
  <2>1. \A c \in DOMAIN indexFile : storeFile'[c] = storeFile[c]
    BY <1>1, <1>2 DEF OrderInv, FilesOK
  <2>2. \A c \in DOMAIN indexFile : c \in Nat
    BY DEF Inv, TypeOK, DiskOK, FileOf
  <2> QED BY <1>1, <1>8, <2>1, <2>2 DEF HonestInv, RestExact, Held
<1>6. WriteOK'
  BY <1>1, OtherStep
<1>7. EndOK'
  BY <1>1 DEF HonestInv, EndOK
<1> QED BY <1>3, <1>4, <1>5, <1>6, <1>7 DEF HonestInv

(* What Append writes: the frame of the record, of which bufio keeps some, *)
(* and its entry, behind all the others.                                   *)
LEMMA AppendWriteState ==
    ASSUME Sequential, Inv, OrderInv, HonestInv, NEW t \in Appenders, NEW r \in Records,
           AppendWrite(t, r)
    PROVE  LET s  == heap[active]
               b  == s.baseOffset
               S  == storeFile[b] \o s.buf
               ix == indexFile[b]
           IN  /\ active \in DOMAIN heap /\ s \in SegmentObject /\ s.files = "open"
               /\ b \in DOMAIN indexFile /\ b \in DOMAIN storeFile
               /\ storeFile[b] \in Seq(Chunk) /\ S \in Seq(Chunk) /\ ix \in Seq(Entry)
               /\ Len(ix) = MaxIndexBytes /\ s.indexSize < MaxIndexBytes
               /\ s.size = Len(S) /\ Exact(s, S, ix) /\ Honest(b, S, ix, acked)
               /\ \A q \in DOMAIN heap : q # active => heap[q].baseOffset # b
               /\ indexFile' = [c \in DOMAIN indexFile |->
                                   IF c = b THEN Written(ix, s.indexSize + 1, NewEntry(s))
                                   ELSE indexFile[c]]
               /\ acked' = acked \cup {[off |-> s.nextOffset, val |-> r]}
               /\ \E out \in Seq(Chunk), o \in SegmentObject :
                     /\ o.files = "open" /\ o.baseOffset = b
                     /\ o.indexSize = s.indexSize + 1 /\ o.nextOffset = s.nextOffset + 1
                     /\ (storeFile[b] \o out) \o o.buf = S \o Framed(s, r)
                     /\ heap' = [heap EXCEPT ![active] = o]
                     /\ storeFile' = Grown(storeFile, b, out)
<1> DEFINE s  == heap[active]
           b  == s.baseOffset
           S  == storeFile[b] \o s.buf
           ix == indexFile[b]
<1>1. /\ t \in Threads /\ \E c : Steps(t, "write", "idle", c)
      /\ \A u \in Threads : u = t
      /\ pc[t] = "write" /\ status = "up"
  <2>1. t \in Threads /\ Steps(t, "write", "idle", Blank)
    BY DEF AppendWrite, Threads
  <2> QED BY <2>1, OnlyThread DEF Inv, TypeOK
<1>2. active \in DOMAIN heap /\ s \in SegmentObject /\ s.files = "open"
  BY <1>1, ActiveIsLast DEF Rolling, OrderInv, IsOpen
<1>3. /\ b \in DOMAIN storeFile /\ storeFile[b] \in Seq(Chunk) /\ S \in Seq(Chunk)
      /\ s.size = Len(S) /\ s.indexSize \in Nat /\ s.buf \in Seq(Chunk)
      /\ \A q \in DOMAIN heap : q # active => heap[q].baseOffset # b
      /\ Exact(s, S, Contents(indexFile, b)) /\ Honest(b, S, Contents(indexFile, b), acked)
      /\ Contents(indexFile, b) \in Seq(Entry)
  <2>1. heap[active].files # "closed"
    BY <1>2
  <2>2. Whole(b)
    BY <1>1, ActiveIsLast, NewestIsTop DEF Whole, Rolling, OrderInv
  <2> QED BY <1>2, <2>1, <2>2, ObjectState
<1>4. b \in DOMAIN indexFile /\ Len(ix) = MaxIndexBytes
  <2>1. b \in DOMAIN indexFile \/ Creating(b)
    BY <1>2 DEF OrderInv, ObjectFiles
  <2>2. b \in DOMAIN indexFile
    BY <1>1, <2>1 DEF Creating
  <2> QED BY <1>2, <2>2 DEF OrderInv, ObjectsFit, Fits, IndexFits
<1>5. Contents(indexFile, b) = ix
  BY <1>4 DEF Contents
<1>6. s.indexSize < MaxIndexBytes
  BY <1>1 DEF HonestInv, WriteOK
<1>7. ~ IndexIsMaxed(s)
  BY <1>3, <1>6, SegmentAssumption DEF IndexIsMaxed
<1>8. PICK n \in SpillSizes \cap 0 .. Len(s.buf) + 2 :
        /\ StoreWrite(Appended(s, r), n)
        /\ indexFile' = [c \in DOMAIN indexFile |->
                            IF c = b THEN Written(indexFile[c], s.indexSize + 1, NewEntry(s))
                            ELSE indexFile[c]]
        /\ acked' = acked \cup {[off |-> s.nextOffset, val |-> r]}
  BY <1>7 DEF AppendWrite
<1> DEFINE w    == Appended(s, r)
           out  == SubSeq(w.buf, 1, n)
           kept == SubSeq(w.buf, n + 1, Len(w.buf))
           o    == [w EXCEPT !.buf = kept]
<1>9. /\ w \in SegmentObject /\ w.files = "open" /\ w.baseOffset = b
      /\ w.buf = s.buf \o Framed(s, r) /\ w.buf \in Seq(Chunk)
      /\ w.indexSize = s.indexSize + 1 /\ w.nextOffset = s.nextOffset + 1
  <2>1. w \in SegmentObject
    BY <1>2, AppendedType
  <2>2. /\ w.files = "open" /\ w.baseOffset = b /\ w.buf = s.buf \o Framed(s, r)
        /\ w.indexSize = s.indexSize + 1 /\ w.nextOffset = s.nextOffset + 1
    BY <1>2 DEF Appended, StoreAppended, SegmentObject, SegmentRecord
  <2> QED BY <2>1, <2>2 DEF SegmentObject, SegmentRecord
<1>10. heap' = [heap EXCEPT ![active] = o] /\ storeFile' = Grown(storeFile, b, out)
  BY <1>8, <1>9 DEF StoreWrite
<1> HIDE DEF w
<1>11. n \in 0 .. Len(w.buf)
  <2>1. Len(s.buf \o Framed(s, r)) = Len(s.buf) + 2
    BY <1>2, <1>3, FramedType, ConcatProperties DEF Framed
  <2> QED BY <1>8, <1>9, <2>1
<1> HIDE DEF b, s
<1>12. /\ out \in Seq(Chunk) /\ kept \in Seq(Chunk)
       /\ (storeFile[b] \o out) \o kept = storeFile[b] \o w.buf
  BY <1>3, <1>9, <1>11, BufferSplit
<1>13. storeFile[b] \o w.buf = S \o Framed(s, r)
  <2> DEFINE F == Framed(s, r)
  <2>1. F \in Seq(Chunk)
    BY <1>2, FramedType
  <2> HIDE DEF F
  <2>3. storeFile[b] \in Seq(Chunk) /\ s.buf \in Seq(Chunk)
    BY <1>3
  <2>2. storeFile[b] \o (s.buf \o F) = (storeFile[b] \o s.buf) \o F
    <3> DEFINE X == storeFile[b]
               Y == s.buf
    <3>1. X \in Seq(Chunk) /\ Y \in Seq(Chunk)
      BY <2>3
    <3> HIDE DEF X, Y
    <3>2. (X \o Y) \o F = X \o (Y \o F)
      BY <2>1, <3>1, ConcatAssociative
    <3> QED BY <3>2 DEF X, Y
  <2> QED BY <1>9, <2>2 DEF F
<1>14. /\ o \in SegmentObject /\ o.files = "open" /\ o.baseOffset = b /\ o.buf = kept
       /\ o.indexSize = s.indexSize + 1 /\ o.nextOffset = s.nextOffset + 1
  BY <1>9, <1>12 DEF SegmentObject, SegmentRecord
<1> HIDE DEF out, kept, o, S, ix
<1>15. indexFile' = [c \in DOMAIN indexFile |->
                       IF c = b THEN Written(ix, s.indexSize + 1, NewEntry(s)) ELSE indexFile[c]]
  BY <1>8 DEF ix
<1>16. \E w2 \in Seq(Chunk), o2 \in SegmentObject :
         /\ o2.files = "open" /\ o2.baseOffset = b
         /\ o2.indexSize = s.indexSize + 1 /\ o2.nextOffset = s.nextOffset + 1
         /\ (storeFile[b] \o w2) \o o2.buf = S \o Framed(s, r)
         /\ heap' = [heap EXCEPT ![active] = o2]
         /\ storeFile' = Grown(storeFile, b, w2)
  BY <1>10, <1>12, <1>13, <1>14
<1>17. Exact(s, S, ix) /\ Honest(b, S, ix, acked) /\ ix \in Seq(Entry)
  BY <1>3, <1>5 DEF S
<1> QED BY <1>2, <1>3, <1>4, <1>6, <1>8, <1>15, <1>16, <1>17 DEF s, b, S, ix

LEMMA AppendWriteHonest ==
    ASSUME Sequential, Inv, Inv', OrderInv, HonestInv, NEW t \in Appenders, NEW r \in Records,
           AppendWrite(t, r)
    PROVE  HonestInv'
<1> DEFINE s  == heap[active]
           b  == s.baseOffset
           S  == storeFile[b] \o s.buf
           ix == indexFile[b]
           T  == S \o Framed(s, r)
           wx == Written(ix, s.indexSize + 1, NewEntry(s))
           new == [off |-> s.nextOffset, val |-> r]
<1>1. /\ active \in DOMAIN heap /\ s \in SegmentObject /\ s.files = "open"
      /\ b \in DOMAIN indexFile /\ b \in DOMAIN storeFile
      /\ storeFile[b] \in Seq(Chunk) /\ S \in Seq(Chunk) /\ ix \in Seq(Entry)
      /\ Len(ix) = MaxIndexBytes /\ s.indexSize < MaxIndexBytes
      /\ s.size = Len(S) /\ Exact(s, S, ix) /\ Honest(b, S, ix, acked)
      /\ \A q \in DOMAIN heap : q # active => heap[q].baseOffset # b
      /\ indexFile' = [c \in DOMAIN indexFile |-> IF c = b THEN wx ELSE indexFile[c]]
      /\ acked' = acked \cup {new}
  BY AppendWriteState
<1>2. PICK out \in Seq(Chunk), o \in SegmentObject :
         /\ o.files = "open" /\ o.baseOffset = b
         /\ o.indexSize = s.indexSize + 1 /\ o.nextOffset = s.nextOffset + 1
         /\ (storeFile[b] \o out) \o o.buf = T
         /\ heap' = [heap EXCEPT ![active] = o]
         /\ storeFile' = Grown(storeFile, b, out)
  BY AppendWriteState
<1>3. /\ t \in Threads /\ Steps(t, "write", "idle", Blank) /\ status' = status
  BY DEF AppendWrite, Threads, process
<1>4. b = heap[active].baseOffset
  OBVIOUS
<1>5. Honest(b, T, wx, acked') /\ Exact(o, T, wx)
  <2> HIDE DEF S, ix
  <2>1. /\ Honest(s.baseOffset, T, wx, acked \cup {new})
        /\ \A z \in SegmentObject :
              z.files = "open" /\ z.baseOffset = s.baseOffset /\ z.indexSize = s.indexSize + 1
              /\ z.nextOffset = s.nextOffset + 1 => Exact(z, T, wx)
    BY <1>1, HonestWrite
  <2> QED BY <1>1, <1>2, <2>1
<1> HIDE DEF s, b, S, ix, T, wx, new
<1>7. /\ DOMAIN heap' = DOMAIN heap /\ heap'[active] = o
      /\ \A q \in DOMAIN heap : q # active => heap'[q] = heap[q] /\ heap[q].baseOffset # b
  BY <1>1, <1>2, HeapChanged DEF Inv, TypeOK
<1>8. /\ DOMAIN storeFile' = DOMAIN storeFile /\ storeFile'[b] = storeFile[b] \o out
      /\ \A c \in DOMAIN storeFile : c # b => storeFile'[c] = storeFile[c]
  BY <1>1, <1>2 DEF Grown
<1>9. /\ DOMAIN indexFile' = DOMAIN indexFile /\ indexFile'[b] = wx
      /\ \A c \in DOMAIN indexFile : c # b => indexFile'[c] = indexFile[c]
      /\ Contents(indexFile', b) = wx
  BY <1>1 DEF Contents
<1>10. storeFile'[b] \in Seq(Chunk) /\ o.buf \in Seq(Chunk)
  BY <1>1, <1>2, <1>8 DEF Inv, TypeOK, DiskOK, FileOf, SegmentObject, SegmentRecord
<1>11. storeFile'[b] \o o.buf = T
  BY <1>2, <1>8
<1>12. Honest(b, storeFile'[b], wx, acked')
  BY <1>5, <1>10, <1>11, HonestPrefix
<1>13. FilesHonest' /\ ObjectsHonest' /\ RestExact'
  <2>1. /\ active \in DOMAIN heap' /\ heap'[active].baseOffset = b
        /\ \A q \in DOMAIN heap' \ {active} :
               q \in DOMAIN heap /\ heap'[q] = heap[q] /\ heap[q].baseOffset # b
        /\ \A q \in DOMAIN heap : q \in DOMAIN heap'
    BY <1>1, <1>2, <1>7
  <2>2. /\ Honest(b, storeFile'[b], Contents(indexFile', b), acked')
        /\ Honest(b, storeFile'[b] \o heap'[active].buf, Contents(indexFile', b), acked')
        /\ Exact(heap'[active], storeFile'[b] \o heap'[active].buf, Contents(indexFile', b))
        /\ Counted(heap'[active], Contents(indexFile', b))
        /\ heap'[active].files # "closed"
    BY <1>2, <1>5, <1>7, <1>9, <1>11, <1>12, ExactIsCounted
  <2>3. /\ acked \subseteq acked'
        /\ DOMAIN indexFile \subseteq DOMAIN indexFile' \cup {b}
        /\ DOMAIN indexFile' \subseteq DOMAIN indexFile \cup {b}
        /\ DOMAIN storeFile \subseteq DOMAIN storeFile'
        /\ DOMAIN storeFile' \subseteq DOMAIN storeFile \cup {b}
        /\ \A c \in DOMAIN storeFile : c # b => storeFile'[c] = storeFile[c]
        /\ \A c \in DOMAIN indexFile : c # b => indexFile'[c] = indexFile[c]
    BY <1>1, <1>8, <1>9
  <2> QED BY <1>4, <2>1, <2>2, <2>3, HonestElsewhere
<1>14. WriteOK'
  BY <1>3, OtherStep
<1>15. EndOK'
  BY <1>3 DEF HonestInv, EndOK
<1> QED BY <1>13, <1>14, <1>15 DEF HonestInv

LEMMA InitHonest == Init => HonestInv
<1> SUFFICES ASSUME Init PROVE HonestInv
  OBVIOUS
<1>1. /\ DOMAIN storeFile = {} /\ DOMAIN indexFile = {} /\ DOMAIN heap = {}
      /\ status = "down" /\ \A t \in Threads : pc[t] = "idle"
  BY DEF Init
<1> QED BY <1>1
        DEF HonestInv, FilesHonest, ObjectsHonest, RestExact, EndOK, WriteOK

LEMMA StepKeepsHonest ==
    ASSUME Sequential, OneKindOfEnd,
           Inv, Inv', OrderInv, OrderInv', HonestInv, [Next]_vars
    PROVE  HonestInv'
<1>1. CASE SetupBegin \/ SetupSegment \/ SetupDone
  BY <1>1, SetupBeginHonest, SetupHonest
<1>2. ASSUME NEW t \in Appenders, AppendHighest(t) \/ AppendPanic(t)
      PROVE  HonestInv'
  BY <1>2, AppendHighestHonest, AppendPanicNever
<1>3. ASSUME NEW t \in Appenders, AppendStep(t)
      PROVE  HonestInv'
  BY <1>3, AppendCheckHonest, RollStoreHonest, RollIndexHonest, RollFailsNever,
     RollPublishHonest, AppendWriteHonest DEF AppendStep
<1>4. ASSUME NEW t \in Truncators, NEW low \in 0 .. MaxOffset, TruncateBegin(t, low)
      PROVE  HonestInv'
  BY <1>4, TruncateQuietHonest
<1>5. ASSUME NEW t \in Truncators, TruncateStep(t)
      PROVE  HonestInv'
  BY <1>5, TruncateQuietHonest, TruncateCloseIndexHonest, TruncateCloseStoreHonest,
     TruncateRemoveHonest, TruncateUnlinkHonest, TruncateErrorNever DEF TruncateStep
<1>6. ASSUME NEW off \in 0 .. MaxOffset, Read(off)
      PROVE  HonestInv'
  BY <1>6, ReadHonest
<1>7. CASE CloseBegin \/ CloseIndex \/ CloseStore \/ CloseError
  BY <1>7, CloseBeginHonest, CloseIndexHonest, CloseStoreHonest, CloseErrorNever
<1>8. CASE CloseEnd \/ Crash
  BY <1>8, EndHonest
<1>9. CASE UNCHANGED vars
  <2>1. WriteOK' /\ EndOK'
    BY <1>9 DEF vars, disk, log, process, threads, HonestInv, WriteOK, EndOK
  <2> QED BY <1>9, <2>1, ContentsKept DEF vars, disk, log, history, HonestInv
<1> QED BY <1>1, <1>2, <1>3, <1>4, <1>5, <1>6, <1>7, <1>8, <1>9 DEF Next

LEMMA HonestIsInvariant ==
    ASSUME Sequential, OneKindOfEnd
    PROVE  Spec => [](Inv /\ OrderInv /\ HonestInv)
<1>1. Inv /\ OrderInv /\ HonestInv /\ [Next]_vars => (Inv /\ OrderInv /\ HonestInv)'
  BY StepKeepsInv, StepKeepsOrder, StepKeepsHonest
<1> QED BY <1>1, InitType, InitOrder, InitHonest, PTL DEF Spec

(* An object that is read: the entry of the offset asked for is its own.   *)
LEMMA EntryOfOffset ==
    ASSUME NEW s \in SegmentObject, NEW S, NEW ix \in Seq(Entry), NEW A,
           s.files = "open", IndexFits(s, ix), Counted(s, ix),
           Honest(s.baseOffset, S, ix, A),
           NEW j \in 1 .. s.indexSize, s.baseOffset + j <= s.nextOffset
    PROVE  j \in DOMAIN ix /\ ix[j].off + 1 = j
<1>1. /\ s.indexSize \in Nat /\ s.baseOffset \in Nat /\ s.nextOffset \in Nat
      /\ MaxIndexBytes \in Nat /\ Len(ix) = MaxIndexBytes /\ s.indexSize <= MaxIndexBytes
      /\ DOMAIN ix = 1 .. MaxIndexBytes
  BY SegmentAssumption, LenProperties DEF SegmentObject, SegmentRecord, IndexFits
<1>2. j \in DOMAIN ix
  BY <1>1
<1>3. CASE Trusted(s.indexSize)
  BY <1>2, <1>3 DEF Counted, Counts
<1>4. CASE ~ Trusted(s.indexSize)
  <2> DEFINE n == MaxIndexBytes
  <2>1. s.indexSize = n /\ n \in DOMAIN ix /\ j \in 1 .. n
    BY <1>1, <1>4 DEF Trusted
  <2>2. CASE ix[n] # ZeroEntry
    BY <1>2, <2>1, <2>2 DEF Honest
  <2>3. CASE ix[n] = ZeroEntry
    <3>1. ix[n].off = 0
      BY <2>3 DEF ZeroEntry
    <3>2. s.baseOffset + 1 = s.nextOffset
      BY <1>1, <2>1, <3>1 DEF IndexFits
    <3>3. j = 1
      BY <1>1, <2>1, <3>2
    <3>4. CASE ix[1] = ZeroEntry
      BY <1>2, <3>3, <3>4 DEF ZeroEntry
    <3>5. CASE ix[1] # ZeroEntry
      BY <1>2, <3>3, <3>5 DEF Honest
    <3> QED BY <3>4, <3>5
  <2> QED BY <2>2, <2>3
<1> QED BY <1>2, <1>3, <1>4

(* A read that succeeds returns a record that was appended with the very   *)
(* offset asked for (log.go, Read), although a crash pads the index with   *)
(* entries that point to the first record and loses what bufio held.       *)
THEOREM CommitLogReadsNeverLie ==
    ASSUME Sequential, OneKindOfEnd
    PROVE  Spec => []ReadsNeverLie
<1>1. ASSUME Inv, OrderInv, HonestInv PROVE ReadsNeverLie
  <2> SUFFICES ASSUME status = "up", NEW off \in 0 .. MaxOffset + 1, NEW c \in ReadOf(off)
               PROVE  c.off = off /\ [off |-> c.off, val |-> c.val] \in acked
    BY DEF ReadsNeverLie, Readable
  <2>1. PICK p \in Found(off) : c \in ReadBack(heap[p], off)
    BY DEF ReadOf
  <2> DEFINE s  == heap[p]
             b  == s.baseOffset
             S  == storeFile[b] \o s.buf
             ix == indexFile[b]
             j  == off - b + 1
  <2>2. p \in Elements(segments) /\ Holds(s, off)
    BY <2>1 DEF Found, Holders, Elements
  <2>3. p \in DOMAIN heap
    BY <1>1, <2>2, ElementsType DEF Inv, TypeOK, LogOK
  <2>4. /\ b \in DOMAIN indexFile /\ s.files = "open" /\ j <= s.indexSize
        /\ c \in StoreRead(S, EntryAt(ix, j).pos)
    BY <2>1 DEF ReadBack, SegmentRead, Indexed
  <2>5. /\ s \in SegmentObject /\ b \in Nat /\ s.indexSize \in Nat /\ s.nextOffset \in Nat
        /\ ix \in Seq(Entry) /\ Honest(b, S, ix, acked) /\ Counted(s, ix)
    BY <1>1, <2>3, <2>4, ObjectState
  <2>6. IndexFits(s, ix)
    BY <1>1, <2>3, <2>4 DEF OrderInv, ObjectsFit, Fits
  <2>7. off \in Nat /\ b <= off /\ off < s.nextOffset
    BY <2>2, CommitLogAssumption DEF Holds
  <2>8. j \in 1 .. s.indexSize /\ b + j <= s.nextOffset /\ off + 1 = b + j
    <3> HIDE DEF b, s
    <3> QED BY <2>4, <2>5, <2>7
  <2> HIDE DEF j, S, ix
  <2>9. j \in DOMAIN ix /\ ix[j].off + 1 = j
    BY <2>4, <2>5, <2>6, <2>8, EntryOfOffset
  <2> DEFINE i == ix[j].pos + 2
  <2>10. i \in DOMAIN S /\ S[i].part = "body" /\ c = S[i]
    BY <2>4, <2>9 DEF StoreRead, EntryAt
  <2>11. S[i].off + 1 = b + j
    BY <2>5, <2>9, <2>10 DEF Honest, IsBody
  <2>12. [off |-> S[i].off, val |-> S[i].val] \in acked
    BY <2>5, <2>10 DEF Honest
  <2>13. S[i].off \in Nat
    <3>1. \A a \in acked : a.off \in Nat
      BY <1>1 DEF Inv, TypeOK, HistoryOK
    <3> DEFINE a == [off |-> S[i].off, val |-> S[i].val]
    <3>2. a.off = S[i].off
      OBVIOUS
    <3> QED BY <2>12, <3>1, <3>2
  <2>14. S[i].off = off
    <3> DEFINE k == S[i].off
    <3> HIDE DEF k
    <3>1. k + 1 = off + 1 /\ k \in Nat
      BY <2>8, <2>11, <2>13 DEF k
    <3> QED BY <2>7, <3>1 DEF k
  <2> QED BY <2>10, <2>12, <2>14
<1> QED BY <1>1, HonestIsInvariant, PTL

-----------------------------------------------------------------------------
(* Where the acknowledged records are, when the process never crashes.     *)

(* Where an acknowledged record is.                                        *)
FrameAt(S, pos, a) ==
    /\ IsBody(S, pos + 2)
    /\ S[pos + 2] = [part |-> "body", off |-> a.off, val |-> a.val]
    /\ S[pos + 1] = [part |-> "length", off |-> a.off, val |-> a.val]

At(a, b, S, ix, n) ==
    \E j \in DOMAIN ix : j <= n /\ a.off + 1 = b + j /\ FrameAt(S, ix[j].pos, a)

Covered(a) ==
    \/ \E b \in DOMAIN indexFile :
          ~Held(b) /\ At(a, b, storeFile[b], indexFile[b], Len(indexFile[b]))
    \/ \E p \in DOMAIN heap :
          LET s == heap[p]
          IN  /\ s.files # "closed" /\ s.baseOffset \in DOMAIN indexFile
              /\ At(a, s.baseOffset, StoredFor(s), indexFile[s.baseOffset], s.indexSize)

(* What Truncate removes is below the floor: a segment that it is closing, *)
(* and all the entries of an index that it is about to remove.             *)
FloorOK ==
    \A t \in Threads : Truncating(t) =>
        /\ local[t].low < floor
        /\ pc[t] = "flush" => heap[Head(local[t].left)].nextOffset <= local[t].low + 1
        /\ pc[t] = "remove" =>
             /\ BaseAt(t) \in DOMAIN indexFile
             /\ BaseAt(t) + Len(indexFile[BaseAt(t)]) <= local[t].low + 1

AllCovered == \A a \in acked : a.off >= floor => Covered(a)

CoverInv == FloorOK /\ AllCovered

(* Where a record was, it still is in a store that only grew under an      *)
(* index with the same entries.                                            *)
LEMMA AtKept ==
    ASSUME NEW a, NEW b, NEW S \in Seq(Chunk), NEW T, NEW ix \in Seq(Entry), NEW jx,
           NEW n \in Nat, NEW m \in Nat, n <= m, At(a, b, S, ix, n),
           \A i \in DOMAIN S : i \in DOMAIN T /\ T[i] = S[i],
           \A j \in DOMAIN ix : j <= n => j \in DOMAIN jx /\ jx[j] = ix[j]
    PROVE  At(a, b, T, jx, m)
<1>1. PICK j \in DOMAIN ix : j <= n /\ a.off + 1 = b + j /\ FrameAt(S, ix[j].pos, a)
  BY DEF At
<1>2. j \in Nat /\ ix[j].pos \in Nat
  <2>1. DOMAIN ix = 1 .. Len(ix) /\ ix \in [DOMAIN ix -> Entry]
    BY LenProperties
  <2> QED BY <2>1 DEF Entry
<1> DEFINE pos == ix[j].pos
<1>3. pos + 2 \in DOMAIN S /\ pos + 1 \in DOMAIN S
  <2>1. pos + 2 \in DOMAIN S
    BY <1>1 DEF FrameAt, IsBody
  <2>2. DOMAIN S = 1 .. Len(S) /\ Len(S) \in Nat
    BY LenProperties
  <2> HIDE DEF pos
  <2>3. pos \in Nat
    BY <1>2 DEF pos
  <2> QED BY <2>1, <2>2, <2>3
<1>4. FrameAt(T, pos, a)
  BY <1>1, <1>3 DEF FrameAt, IsBody
<1>5. j \in DOMAIN jx /\ jx[j].pos = pos /\ j <= m
  BY <1>1, <1>2
<1> QED BY <1>1, <1>4, <1>5 DEF At

(* A step that touches one object and the files of its base offset.        *)
LEMMA CoveredElsewhere ==
    ASSUME OrderInv,
           NEW b, NEW p \in DOMAIN heap', heap'[p].baseOffset = b,
           p \in DOMAIN heap => heap[p].baseOffset = b,
           \A q \in DOMAIN heap' \ {p} :
              q \in DOMAIN heap /\ heap'[q] = heap[q] /\ heap[q].baseOffset # b,
           \A q \in DOMAIN heap : q \in DOMAIN heap',
           DOMAIN indexFile \subseteq DOMAIN indexFile' \cup {b},
           \A c \in DOMAIN storeFile : c # b => storeFile'[c] = storeFile[c],
           \A c \in DOMAIN indexFile : c # b => indexFile'[c] = indexFile[c],
           NEW a, Covered(a),
           b \in DOMAIN indexFile /\ ~ Held(b)
             /\ At(a, b, storeFile[b], indexFile[b], Len(indexFile[b])) => Covered(a)',
           p \in DOMAIN heap /\ heap[p].files # "closed" /\ b \in DOMAIN indexFile
             /\ At(a, b, storeFile[b] \o heap[p].buf, indexFile[b], heap[p].indexSize)
             => Covered(a)'
    PROVE  Covered(a)'
<1>1. ASSUME NEW c \in DOMAIN indexFile, ~ Held(c),
             At(a, c, storeFile[c], indexFile[c], Len(indexFile[c]))
      PROVE  Covered(a)'
  <2>1. CASE c = b
    BY <1>1, <2>1
  <2>2. CASE c # b
    <3>1. /\ c \in DOMAIN indexFile' /\ indexFile'[c] = indexFile[c]
          /\ storeFile'[c] = storeFile[c]
      BY <2>2 DEF OrderInv, FilesOK
    <3>2. ~ Held(c)'
      BY <1>1, <2>2 DEF Held
    <3> QED BY <1>1, <3>1, <3>2 DEF Covered
  <2> QED BY <2>1, <2>2
<1>2. ASSUME NEW q \in DOMAIN heap, heap[q].files # "closed",
             NEW c, c = heap[q].baseOffset, c \in DOMAIN indexFile,
             At(a, c, storeFile[c] \o heap[q].buf, indexFile[c], heap[q].indexSize)
      PROVE  Covered(a)'
  <2>1. CASE q = p
    BY <1>2, <2>1
  <2>2. CASE q # p
    <3>1. q \in DOMAIN heap' /\ heap'[q] = heap[q] /\ c # b
      BY <1>2, <2>2
    <3>2. /\ c \in DOMAIN indexFile' /\ indexFile'[c] = indexFile[c]
          /\ storeFile'[c] = storeFile[c]
      BY <1>2, <3>1 DEF OrderInv, FilesOK
    <3> QED BY <1>2, <3>1, <3>2 DEF Covered, StoredFor
  <2> QED BY <2>1, <2>2
<1> QED BY <1>1, <1>2 DEF Covered, StoredFor

(* The record is where the object p now finds it.                          *)
LEMMA CoveredBy ==
    ASSUME NEW p \in DOMAIN heap', heap'[p].files # "closed",
           NEW b, b = heap'[p].baseOffset, b \in DOMAIN indexFile', NEW a,
           At(a, b, storeFile'[b] \o heap'[p].buf, indexFile'[b], heap'[p].indexSize)
    PROVE  Covered(a)'
<1> QED BY DEF Covered, StoredFor

(* Steps that leave the files and the objects alone.                       *)
LEMMA QuietKeeps ==
    ASSUME UNCHANGED <<storeFile, indexFile, heap>>, NEW a, Covered(a)
    PROVE  Covered(a)'
<1> QED BY DEF Covered, Held, StoredFor

LEMMA QuietCover ==
    ASSUME CoverInv, UNCHANGED <<storeFile, indexFile, heap, acked>>,
           floor \in Nat, floor' \in Nat, floor <= floor', FloorOK',
           \A a \in acked : a.off \in Nat
    PROVE  CoverInv'
<1>1. ASSUME NEW a \in acked, a.off >= floor' PROVE Covered(a)'
  <2>1. a.off >= floor
    BY <1>1
  <2>2. Covered(a)
    BY <2>1 DEF CoverInv, AllCovered
  <2> QED BY <2>2, QuietKeeps
<1> QED BY <1>1 DEF CoverInv, AllCovered

(* A step that loses no record and acknowledges none.                      *)
LEMMA CoverKept ==
    ASSUME CoverInv, UNCHANGED <<acked, floor>>, FloorOK',
           \A a \in acked : a.off >= floor /\ Covered(a) => Covered(a)'
    PROVE  CoverInv'
<1> QED BY DEF CoverInv, AllCovered

LEMMA FloorKept ==
    ASSUME FloorOK, floor' = floor,
           \A t \in Threads : Truncating(t)' =>
               Truncating(t) /\ local'[t].low = local[t].low /\ pc'[t] \notin {"flush", "remove"}
    PROVE  FloorOK'
<1> QED BY DEF FloorOK, Truncating

LEMMA HistoryState ==
    ASSUME Inv PROVE floor \in Nat /\ \A a \in acked : a.off \in Nat
<1> QED BY DEF Inv, TypeOK, HistoryOK

LEMMA FloorIdle ==
    ASSUME \A t \in Threads : pc'[t] = "idle"
    PROVE  FloorOK'
<1> QED BY DEF FloorOK, Truncating

(* An Append, which no Truncate can run with.                              *)
LEMMA FloorOfAppend ==
    ASSUME Sequential, Inv, NEW t \in Threads, NEW from, NEW to, NEW c,
           Steps(t, from, to, c), to \notin {"truncate", "flush", "remove", "unlink"}
    PROVE  FloorOK'
<1>1. (\A u \in Threads : u = t) /\ pc'[t] = to
  BY OnlyThread DEF Inv, TypeOK
<1> QED BY <1>1 DEF FloorOK, Truncating

(* A Truncate that goes on, but not to close or remove a segment.          *)
LEMMA FloorOfTruncate ==
    ASSUME Sequential, Inv, CoverInv, NEW t \in Threads, Truncating(t), floor' = floor,
           NEW from, NEW to, NEW c, Steps(t, from, to, c), c.low = local[t].low, to \notin {"flush", "remove"}
    PROVE  FloorOK'
<1>1. (\A u \in Threads : u = t) /\ pc'[t] = to /\ local'[t] = c
  BY OnlyThread DEF Inv, TypeOK
<1> QED BY <1>1, FloorKept DEF CoverInv

(* No call of Truncate is under way.                                       *)
LEMMA FloorOfOthers ==
    ASSUME UNCHANGED pc, \A t \in Threads : ~ Truncating(t)
    PROVE  FloorOK'
<1> QED BY DEF FloorOK, Truncating

(* Append and Truncate when they only move.                                *)
LEMMA AppendQuietCover ==
    ASSUME Sequential, Inv, Inv', CoverInv, NEW t \in Appenders,
           AppendHighest(t) \/ AppendCheck(t) \/ RollPublish(t) \/ RollActivate(t)
    PROVE  CoverInv'
<1>1. /\ t \in Threads /\ UNCHANGED <<storeFile, indexFile, heap, acked, floor>>
      /\ \E from, c : \E to \in {"check", "store", "write", "activate"} : Steps(t, from, to, c)
  <2>1. t \in Threads
    BY DEF Threads
  <2>2. CASE AppendHighest(t)
    BY <2>1, <2>2 DEF AppendHighest, disk, log, history
  <2>3. CASE AppendCheck(t)
    BY <2>1, <2>3 DEF AppendCheck, disk, log, history
  <2>4. CASE RollPublish(t)
    BY <2>1, <2>4 DEF RollPublish, disk, history
  <2>5. CASE RollActivate(t)
    BY <2>1, <2>5 DEF RollActivate, disk, history
  <2> QED BY <2>2, <2>3, <2>4, <2>5
<1>2. FloorOK'
  BY <1>1, FloorOfAppend
<1>3. floor <= floor'
  BY <1>1, HistoryState
<1> QED BY <1>1, <1>2, <1>3, HistoryState, QuietCover

LEMMA TruncateQuietCover ==
    ASSUME Sequential, Inv, Inv', CoverInv, NEW t \in Truncators,
           (\E low \in 0 .. MaxOffset : TruncateBegin(t, low)) \/ TruncateKeep(t) \/ TruncateEnd(t)
    PROVE  CoverInv'
<1>1. t \in Threads /\ UNCHANGED <<storeFile, indexFile, heap, acked>>
      /\ floor \in Nat /\ floor' \in Nat
  BY HistoryState DEF TruncateBegin, TruncateKeep, TruncateEnd, disk, log, history, Threads,
     Inv, TypeOK, HistoryOK
<1>2. FloorOK' /\ floor <= floor'
  <2>1. CASE \E low \in 0 .. MaxOffset : TruncateBegin(t, low)
    <3>1. PICK low \in 0 .. MaxOffset : TruncateBegin(t, low)
      BY <2>1
    <3>2. /\ Steps(t, "idle", "truncate", [Blank EXCEPT !.low = low, !.left = segments])
          /\ floor' = IF low >= floor THEN low + 1 ELSE floor
      BY <3>1 DEF TruncateBegin
    <3>3. (\A u \in Threads : u = t) /\ local'[t].low = low /\ low \in Nat
      <4>1. /\ \A u \in Threads : u = t
            /\ local'[t] = [Blank EXCEPT !.low = low, !.left = segments]
        BY <1>1, <3>2, OnlyThread DEF Inv, TypeOK
      <4> QED BY <4>1, CommitLogAssumption DEF Blank
    <3>4. low < floor' /\ floor <= floor'
      BY <1>1, <3>2, <3>3
    <3>5. pc'[t] = "truncate"
      BY <1>1, <3>2, OnlyThread DEF Inv, TypeOK
    <3> QED BY <3>3, <3>4, <3>5 DEF FloorOK
  <2>2. CASE TruncateKeep(t)
    <3>1. /\ floor' = floor /\ pc[t] = "truncate"
          /\ Steps(t, "truncate", "truncate",
                   [local[t] EXCEPT !.list = Append(@, Head(local[t].left)), !.left = Tail(@)])
      BY <2>2 DEF TruncateKeep, history, Steps
    <3> DEFINE c == [local[t] EXCEPT !.list = Append(@, Head(local[t].left)), !.left = Tail(@)]
    <3>2. c.low = local[t].low
      <4>1. local[t] \in LocalOf(DOMAIN heap)
        BY <1>1 DEF Inv, TypeOK, ThreadsOK
      <4> QED BY <4>1 DEF LocalOf
    <3>3. Truncating(t) /\ Steps(t, "truncate", "truncate", c)
      BY <3>1 DEF Truncating
    <3> HIDE DEF c
    <3> QED BY <1>1, <3>1, <3>2, <3>3, FloorOfTruncate
  <2>3. CASE TruncateEnd(t)
    <3>1. floor' = floor /\ Steps(t, "truncate", "idle", Blank)
      BY <2>3 DEF TruncateEnd, Return, history
    <3> QED BY <1>1, <3>1, FloorOfAppend
  <2> QED BY <2>1, <2>2, <2>3
<1> QED BY <1>1, <1>2, HistoryState, QuietCover

(* Setup opens a segment over the files it finds.                          *)
LEMMA OpenSegmentKeeps ==
    ASSUME Inv, Inv', OrderInv, NEW y \in Nat, OpenSegment(y),
           \A p \in DOMAIN heap : heap[p].baseOffset < y,
           NEW a, Covered(a)
    PROVE  Covered(a)'
<1> DEFINE s  == NewSegment(y, storeFile, indexFile)
           ix == Contents(indexFile, y)
           rx == Resized(ix, MaxIndexBytes)
           S  == Contents(storeFile, y)
           p  == Len(heap')
<1>1. /\ storeFile' = Put(storeFile, y, S) /\ indexFile' = Put(indexFile, y, rx)
      /\ heap' = Append(heap, s)
  BY DEF OpenSegment
<1>2. s \in SegmentObject /\ ix \in Seq(Entry) /\ S \in Seq(Chunk)
  BY ContentsType, NewSegmentType DEF Inv, TypeOK, DiskOK
<1>3. s.baseOffset = y /\ s.indexSize = Len(ix) /\ s.buf = <<>> /\ s.files = "open"
  BY DEF NewSegment, WithIndex, NewStore
<1>4. \A q \in DOMAIN heap : heap[q].baseOffset # y
  <2>1. \A q \in DOMAIN heap : heap[q].baseOffset \in Nat
    BY Dereference DEF Inv, TypeOK, SegmentObject, SegmentRecord
  <2> QED BY <2>1
<1>5. \A j \in DOMAIN ix : j <= MaxIndexBytes => j \in DOMAIN rx /\ rx[j] = ix[j]
  <2>1. DOMAIN ix = 1 .. Len(ix) /\ Len(ix) \in Nat
    BY <1>2, LenProperties
  <2>2. \A j \in DOMAIN ix : j <= MaxIndexBytes => j \in 1 .. MaxIndexBytes
    BY <2>1, SegmentAssumption
  <2> QED BY <2>2 DEF Resized, EntryAt
<1>6. Len(ix) \in Nat /\ \A j \in DOMAIN ix : j <= Len(ix) => j <= MaxIndexBytes
  <2>0. Len(ix) \in Nat
    BY <1>2, LenProperties
  <2>1. Len(ix) <= MaxIndexBytes
    <3>1. CASE y \in DOMAIN indexFile
      BY <3>1 DEF OrderInv, FilesOK, Contents
    <3>2. CASE y \notin DOMAIN indexFile
      BY <3>2, SegmentAssumption, EmptySeq DEF Contents
    <3> QED BY <3>1, <3>2
  <2>2. DOMAIN ix = 1 .. Len(ix)
    BY <1>2, LenProperties
  <2>3. \A l, m \in Nat : l <= m => \A j \in 1 .. l : j <= m
    OBVIOUS
  <2> QED BY <2>0, <2>1, <2>2, <2>3, SegmentAssumption
<1>15. (y \in DOMAIN indexFile => ix = indexFile[y] /\ S = storeFile[y])
  BY DEF Contents, OrderInv, FilesOK
<1> HIDE DEF s, ix, rx, S
<1>7. S \o s.buf = S
  BY <1>2, <1>3, EmptyTail
<1>8. /\ p \in DOMAIN heap' /\ DOMAIN heap' = DOMAIN heap \cup {p} /\ heap'[p] = s
      /\ p \notin DOMAIN heap
      /\ \A q \in DOMAIN heap : heap'[q] = heap[q] /\ q < p
  BY <1>1, <1>2, HeapExtended DEF Inv, TypeOK
<1> HIDE DEF p
<1>9. /\ storeFile'[y] = S
      /\ \A c \in DOMAIN storeFile : c # y => storeFile'[c] = storeFile[c]
      /\ DOMAIN indexFile' = DOMAIN indexFile \cup {y} /\ indexFile'[y] = rx
      /\ \A c \in DOMAIN indexFile : c # y => indexFile'[c] = indexFile[c]
  BY <1>1 DEF Put
<1>10. /\ p \in DOMAIN heap' /\ heap'[p].baseOffset = y
       /\ \A q \in DOMAIN heap' \ {p} :
             q \in DOMAIN heap /\ heap'[q] = heap[q] /\ heap[q].baseOffset # y
       /\ \A q \in DOMAIN heap : q \in DOMAIN heap'
       /\ DOMAIN indexFile \subseteq DOMAIN indexFile' \cup {y}
  BY <1>3, <1>4, <1>8, <1>9
<1>11. Covered(a)'
  <2>1. Covered(a)
    OBVIOUS
  <2>2. ASSUME y \in DOMAIN indexFile,
               At(a, y, storeFile[y], indexFile[y], Len(indexFile[y]))
        PROVE  Covered(a)'
    <3>1. At(a, y, S, ix, Len(ix))
      BY <1>15, <2>2
    <3>2. At(a, y, S, rx, Len(ix))
      <4>1. \A j \in DOMAIN ix : j <= Len(ix) => j \in DOMAIN rx /\ rx[j] = ix[j]
        BY <1>5, <1>6
      <4>2. \A i \in DOMAIN S : i \in DOMAIN S /\ S[i] = S[i]
        OBVIOUS
      <4>3. Len(ix) <= Len(ix)
        BY <1>6
      <4> QED BY <1>2, <1>6, <3>1, <4>1, <4>2, <4>3, AtKept
    <3>3. /\ y \in DOMAIN indexFile' /\ heap'[p].files # "closed"
          /\ At(a, y, storeFile'[y] \o heap'[p].buf, indexFile'[y], heap'[p].indexSize)
      BY <1>3, <1>7, <1>8, <1>9, <3>2
    <3> QED BY <1>10, <3>3, CoveredBy
  <2> QED BY <1>8, <1>9, <1>10, <2>1, <2>2, CoveredElsewhere
<1> QED BY <1>11

LEMMA SetupKeeps ==
    ASSUME Inv, Inv', OrderInv, SetupSegment \/ SetupDone, NEW a, Covered(a)
    PROVE  Covered(a)'
<1>1. status = "setup"
  BY DEF SetupSegment, SetupDone
<1>2. CASE SetupSegment
  <2> DEFINE y == FirstName(todo)[1]
  <2>1. todo # {} /\ OpenSegment(y)
    BY <1>2 DEF SetupSegment
  <2>2. FirstName(todo) \in todo /\ y \in Nat
    BY <2>1, FirstNameIsName DEF Inv, TypeOK, ProcessOK
  <2>3. \A p \in DOMAIN heap : heap[p].baseOffset < y
    BY <1>1, <2>2 DEF OrderInv, SetupOK
  <2> HIDE DEF y
  <2> QED BY <2>1, <2>2, <2>3, OpenSegmentKeeps
<1>3. CASE SetupDone
  <2>1. /\ segments = <<>> => OpenSegment(InitialOffset)
        /\ segments # <<>> => UNCHANGED <<storeFile, indexFile, heap>>
    BY <1>3 DEF SetupDone, disk, log
  <2>2. CASE segments = <<>>
    <3>1. DOMAIN heap = {}
      BY <1>1, <2>2, ElementsOfEmpty DEF OrderInv, ListOK
    <3> QED BY <2>1, <2>2, <3>1, CommitLogAssumption, OpenSegmentKeeps
  <2>3. CASE segments # <<>>
    BY <2>1, <2>3, QuietKeeps
  <2> QED BY <2>2, <2>3
<1> QED BY <1>2, <1>3

LEMMA SetupCover ==
    ASSUME Inv, Inv', OrderInv, CoverInv, SetupSegment \/ SetupDone
    PROVE  CoverInv'
<1>1. status = "setup" /\ UNCHANGED <<pc, acked, floor>>
  BY DEF SetupSegment, SetupDone, threads, history
<1>2. \A t \in Threads : pc'[t] = "idle"
  BY <1>1 DEF Inv, PointersSet, LocalsSet
<1> QED BY <1>1, <1>2, FloorIdle, SetupKeeps, CoverKept

(* A roll: nothing was kept under the base offset of the new segment.      *)
LEMMA RollKeeps ==
    ASSUME Sequential, Inv, Inv', OrderInv, OrderInv', NEW t \in Appenders,
           RollStore(t) \/ RollIndex(t), NEW a, Covered(a)
    PROVE  Covered(a)'
<1>1. t \in Threads
  BY DEF Threads
<1>3. PICK p, b :
         /\ p \in DOMAIN heap' /\ heap'[p].baseOffset = b /\ b \notin DOMAIN indexFile
         /\ p \in DOMAIN heap => heap[p].baseOffset = b
         /\ \A q \in DOMAIN heap' \ {p} :
              q \in DOMAIN heap /\ heap'[q] = heap[q] /\ heap[q].baseOffset # b
         /\ \A q \in DOMAIN heap : q \in DOMAIN heap'
         /\ DOMAIN indexFile \subseteq DOMAIN indexFile'
         /\ \A c \in DOMAIN storeFile : c # b => storeFile'[c] = storeFile[c]
         /\ \A c \in DOMAIN indexFile : c # b => indexFile'[c] = indexFile[c]
  <2>1. CASE RollStore(t)
    <3> DEFINE b == local[t].high + 1
               s == NewStore(b, storeFile)
               p == Len(heap')
    <3>1. /\ indexFile' = indexFile
          /\ Steps(t, "store", "index", [local[t] EXCEPT !.fresh = Len(heap) + 1])
          /\ storeFile' = Put(storeFile, b, Contents(storeFile, b))
          /\ heap' = Append(heap, s)
      BY <2>1 DEF RollStore
    <3>2. b \in Nat /\ s \in SegmentObject /\ s.baseOffset = b
      <4>1. b \in Nat
        BY <1>1 DEF Inv, TypeOK, ThreadsOK, LocalOf
      <4> QED BY <4>1, NewStoreType DEF NewStore, Inv, TypeOK
    <3> HIDE DEF b, s
    <3>3. /\ p \in DOMAIN heap' /\ DOMAIN heap' = DOMAIN heap \cup {p} /\ heap'[p] = s
          /\ p \notin DOMAIN heap
          /\ \A q \in DOMAIN heap : heap'[q] = heap[q] /\ q < p
      BY <3>1, <3>2, HeapExtended DEF Inv, TypeOK
    <3> HIDE DEF p
    <3>4. pc'[t] = "index"
      BY <1>1, <3>1, OnlyThread DEF Inv, TypeOK
    <3>5. b \notin DOMAIN indexFile
      <4>1. heap'[Len(heap')].baseOffset \notin DOMAIN indexFile'
        BY <1>1, <3>4 DEF OrderInv, RollOK
      <4> QED BY <3>1, <3>2, <3>3, <4>1 DEF p
    <3>6. \A q \in DOMAIN heap : heap[q].baseOffset # b
      <4>1. \A q \in DOMAIN heap : heap'[q].baseOffset # heap'[p].baseOffset
        <5>1. LogOK' /\ HeapOrdered'
          BY DEF Inv, TypeOK, OrderInv
        <5>2. \A q \in DOMAIN heap : q < p /\ q \in DOMAIN heap' /\ p \in DOMAIN heap'
          BY <3>3
        <5>3. \A q \in DOMAIN heap : heap'[q].baseOffset < heap'[p].baseOffset
          BY <5>1, <5>2 DEF HeapOrdered, Precedes
        <5>4. heap'[p].baseOffset \in Nat
          BY <3>2, <3>3
        <5> QED BY <5>3, <5>4
      <4> QED BY <3>2, <3>3, <4>1
    <3>7. \A c \in DOMAIN storeFile : c # b => storeFile'[c] = storeFile[c]
      BY <3>1 DEF Put
    <3> QED BY <3>1, <3>2, <3>3, <3>5, <3>6, <3>7
  <2>2. CASE RollIndex(t)
    <3> DEFINE p == local[t].fresh
               b == heap[p].baseOffset
               o == WithIndex(heap[p], Contents(indexFile, b))
    <3>1. /\ storeFile' = storeFile
          /\ \E c : Steps(t, "index", "publish", c)
          /\ indexFile' = Put(indexFile, b, Resized(Contents(indexFile, b), MaxIndexBytes))
          /\ heap' = [heap EXCEPT ![p] = o]
      BY <2>2 DEF RollIndex
    <3>2. pc[t] = "index" /\ status = "up"
      BY <3>1 DEF Steps
    <3>3. p = Len(heap) /\ b \notin DOMAIN indexFile
      BY <1>1, <3>2 DEF OrderInv, RollOK, Rolling
    <3>4. p \in DOMAIN heap
      BY <3>2, <3>3, NewestIsTop
    <3>5. heap[p] \in SegmentObject /\ o \in SegmentObject /\ o.baseOffset = b
      <4>1. heap[p] \in SegmentObject
        BY <3>4, Dereference DEF Inv, TypeOK
      <4>2. Contents(indexFile, b) \in Seq(Entry)
        BY ContentsType DEF Inv, TypeOK, DiskOK
      <4> QED BY <4>1, <4>2, WithIndexType DEF WithIndex, SegmentObject, SegmentRecord
    <3>8. b = heap[p].baseOffset
      OBVIOUS
    <3> HIDE DEF p, b, o
    <3>6. /\ DOMAIN heap' = DOMAIN heap /\ heap'[p] = o
          /\ \A q \in DOMAIN heap : q # p => heap'[q] = heap[q]
      BY <3>1, <3>4, <3>5, HeapChanged DEF Inv, TypeOK
    <3>7. \A q \in DOMAIN heap : q # p => heap[q].baseOffset # b
      BY <3>4, <3>8, BasesDiffer DEF Inv, TypeOK, OrderInv
    <3>9. /\ DOMAIN indexFile \subseteq DOMAIN indexFile'
          /\ \A c \in DOMAIN indexFile : c # b => indexFile'[c] = indexFile[c]
      BY <3>1 DEF Put
    <3> QED BY <3>1, <3>3, <3>4, <3>5, <3>6, <3>7, <3>8, <3>9
  <2> QED BY <2>1, <2>2
<1>4. Covered(a)'
  <2>1. Covered(a)
    OBVIOUS
  <2>2. DOMAIN indexFile \subseteq DOMAIN indexFile' \cup {b}
    BY <1>3
  <2> QED BY <1>3, <2>1, <2>2, CoveredElsewhere
<1> QED BY <1>4

LEMMA RollCover ==
    ASSUME Sequential, Inv, Inv', OrderInv, OrderInv', CoverInv, NEW t \in Appenders,
           RollStore(t) \/ RollIndex(t)
    PROVE  CoverInv'
<1>1. t \in Threads /\ UNCHANGED <<acked, floor>>
      /\ \E from, c : \E to \in {"index", "publish"} : Steps(t, from, to, c)
  <2>1. t \in Threads
    BY DEF Threads
  <2>2. CASE RollStore(t)
    BY <2>1, <2>2 DEF RollStore, history
  <2>3. CASE RollIndex(t)
    BY <2>1, <2>3 DEF RollIndex, history
  <2> QED BY <2>2, <2>3
<1>2. FloorOK'
  BY <1>1, FloorOfAppend
<1> QED BY <1>1, <1>2, RollKeeps, CoverKept

(* Read and Close write out what bufio holds.                              *)
LEMMA FlushKeeps ==
    ASSUME Inv, Inv', OrderInv, HonestInv,
           NEW p \in DOMAIN heap, heap[p].files # "closed",
           NEW b, b = heap[p].baseOffset,
           NEW o \in SegmentObject, heap' = [heap EXCEPT ![p] = o],
           o.baseOffset = heap[p].baseOffset,
           o.indexSize = heap[p].indexSize, o.buf = <<>>,
           o.files = heap[p].files \/ (o.files = "closed" /\ heap[p].files = "half"),
           storeFile' = Grown(storeFile, heap[p].baseOffset, heap[p].buf),
           indexFile' = indexFile, NEW a, Covered(a)
    PROVE  Covered(a)'
<1> DEFINE s  == heap[p]
           S  == storeFile[b] \o s.buf
           ix == indexFile[b]
<1>1. /\ b \in DOMAIN storeFile /\ S \in Seq(Chunk)
      /\ Counted(s, Contents(indexFile, b))
      /\ \A q \in DOMAIN heap : q # p => heap[q].baseOffset # b
  BY ObjectState
<1>2. /\ DOMAIN heap' = DOMAIN heap /\ heap'[p] = o
      /\ \A q \in DOMAIN heap : q # p => heap'[q] = heap[q]
  BY HeapChanged DEF Inv, TypeOK
<1>3. b = heap[p].baseOffset
  OBVIOUS
<1>4. storeFile'[b] = S /\ \A c \in DOMAIN storeFile : c # b => storeFile'[c] = storeFile[c]
  BY <1>1 DEF Grown
<1>5. S \o <<>> = S
  BY <1>1, EmptyTail
<1>6. s.files = "half" /\ b \in DOMAIN indexFile => Len(ix) = s.indexSize
  BY <1>1 DEF Counted, Contents
<1>8. o.baseOffset = b /\ o.indexSize = s.indexSize
      /\ (o.files = s.files \/ (o.files = "closed" /\ s.files = "half")) /\ s.files # "closed"
  OBVIOUS
<1> HIDE DEF s, S, ix
<1>7. Covered(a)'
  <2>1. Covered(a)
    OBVIOUS
  <2>2. Held(b)
    BY <1>3, <1>8 DEF Held, s
  <2>3. ASSUME b \in DOMAIN indexFile, At(a, b, S, ix, s.indexSize) PROVE Covered(a)'
    <3>1. CASE o.files # "closed"
      <4>1. /\ heap'[p].files # "closed" /\ b = heap'[p].baseOffset /\ p \in DOMAIN heap'
            /\ b \in DOMAIN indexFile'
            /\ At(a, b, storeFile'[b] \o heap'[p].buf, indexFile'[b], heap'[p].indexSize)
        BY <1>2, <1>4, <1>5, <1>8, <2>3, <3>1 DEF ix
      <4> QED BY <4>1, CoveredBy
    <3>2. CASE o.files = "closed"
      <4>1. ~ Held(b)'
        BY <1>1, <1>2, <3>2 DEF Held
      <4>2. At(a, b, storeFile'[b], indexFile'[b], Len(indexFile'[b]))
        BY <1>4, <1>6, <1>8, <2>3, <3>2 DEF ix
      <4> QED BY <2>3, <4>1, <4>2 DEF Covered
    <3> QED BY <3>1, <3>2
  <2>4. /\ p \in DOMAIN heap' /\ heap'[p].baseOffset = b
        /\ \A q \in DOMAIN heap' \ {p} :
             q \in DOMAIN heap /\ heap'[q] = heap[q] /\ heap[q].baseOffset # b
        /\ \A q \in DOMAIN heap : q \in DOMAIN heap'
        /\ DOMAIN indexFile \subseteq DOMAIN indexFile' \cup {b}
        /\ \A c \in DOMAIN indexFile : c # b => indexFile'[c] = indexFile[c]
    BY <1>1, <1>2, <1>8
  <2>5. At(a, b, storeFile[b] \o heap[p].buf, indexFile[b], heap[p].indexSize)
          /\ b \in DOMAIN indexFile => Covered(a)'
    BY <2>3 DEF S, ix, s
  <2> QED BY <1>3, <1>4, <2>1, <2>2, <2>4, <2>5, CoveredElsewhere
<1> QED BY <1>7

LEMMA ReadKeeps ==
    ASSUME Inv, Inv', OrderInv, HonestInv, NEW off, Read(off), NEW a, Covered(a)
    PROVE  Covered(a)'
<1>1. PICK p \in Found(off) :
        /\ heap[p].files = "open"
        /\ heap' = [heap EXCEPT ![p] = Flushed(heap[p])]
        /\ storeFile' = Grown(storeFile, heap[p].baseOffset, heap[p].buf)
  BY DEF Read
<1>2. indexFile' = indexFile
  BY DEF Read
<1>3. p \in DOMAIN heap
  <2>1. p \in Elements(segments)
    BY <1>1 DEF Found, Holders, Elements
  <2> QED BY <2>1, ElementsType DEF Inv, TypeOK, LogOK
<1> DEFINE o == Flushed(heap[p])
<1>4. /\ o \in SegmentObject /\ o.buf = <<>>
      /\ o.baseOffset = heap[p].baseOffset
      /\ o.indexSize = heap[p].indexSize /\ o.files = heap[p].files
  <2>1. heap[p] \in SegmentObject
    BY <1>3, Dereference DEF Inv, TypeOK
  <2> QED BY <2>1, EmptiedType DEF Flushed, SegmentObject, SegmentRecord
<1>5. heap' = [heap EXCEPT ![p] = o]
  BY <1>1
<1> HIDE DEF o
<1> QED BY <1>1, <1>2, <1>3, <1>4, <1>5, FlushKeeps

LEMMA CloseStoreKeeps ==
    ASSUME Inv, Inv', OrderInv, HonestInv, CloseStore, NEW a, Covered(a)
    PROVE  Covered(a)'
<1> DEFINE p == Head(pending)
           o == Closed(heap[p])
<1>1. /\ status = "closing" /\ pending # <<>> /\ heap[p].files = "half"
      /\ heap' = [heap EXCEPT ![p] = o]
      /\ storeFile' = Grown(storeFile, heap[p].baseOffset, heap[p].buf)
      /\ indexFile' = indexFile
  BY DEF CloseStore
<1>2. p \in DOMAIN heap /\ heap[p] \in SegmentObject
  BY <1>1, CloseState
<1>3. /\ o \in SegmentObject /\ o.buf = <<>> /\ o.files = "closed"
      /\ o.baseOffset = heap[p].baseOffset
      /\ o.indexSize = heap[p].indexSize
  BY <1>2, EmptiedType DEF Closed, SegmentObject, SegmentRecord
<1> HIDE DEF p, o
<1> QED BY <1>1, <1>2, <1>3, FlushKeeps

(* Cutting the index to the entries written keeps all of them.             *)
LEMMA CutKeeps ==
    ASSUME Inv, Inv', OrderInv, HonestInv, NEW p \in DOMAIN heap, heap[p].files = "open",
           NEW b, b = heap[p].baseOffset, b \in DOMAIN indexFile,
           NEW o \in SegmentObject, heap' = [heap EXCEPT ![p] = o], o.files = "half",
           o.baseOffset = b, o.buf = heap[p].buf, o.indexSize = heap[p].indexSize,
           indexFile' = Cut(indexFile, heap[p]), storeFile' = storeFile,
           NEW a, Covered(a)
    PROVE  Covered(a)'
<1> DEFINE s   == heap[p]
           S   == storeFile[b] \o s.buf
           ix  == indexFile[b]
           cut == Resized(ix, s.indexSize)
<1>1. /\ s.files = "open" /\ s.baseOffset = b
      /\ heap' = [heap EXCEPT ![p] = o] /\ indexFile' = Cut(indexFile, s)
      /\ UNCHANGED storeFile
  OBVIOUS
<1>2. p \in DOMAIN heap /\ b \in DOMAIN indexFile
  OBVIOUS
<1>3. /\ s \in SegmentObject /\ s.indexSize \in Nat
      /\ ix \in Seq(Entry) /\ S \in Seq(Chunk)
      /\ \A q \in DOMAIN heap : q # p => heap[q].baseOffset # b
  BY <1>1, <1>2, ObjectState
<1>4. /\ o \in SegmentObject /\ o.baseOffset = b
      /\ o.buf = s.buf /\ o.indexSize = s.indexSize /\ o.files = "half"
  OBVIOUS
<1>5. /\ DOMAIN indexFile' = DOMAIN indexFile /\ indexFile'[b] = cut
      /\ \A c \in DOMAIN indexFile : c # b => indexFile'[c] = indexFile[c]
  BY <1>1, <1>2 DEF Cut
<1>6. \A j \in DOMAIN ix : j <= s.indexSize => j \in DOMAIN cut /\ cut[j] = ix[j]
  <2>1. DOMAIN ix = 1 .. Len(ix) /\ Len(ix) \in Nat
    BY <1>3, LenProperties
  <2>2. \A j \in DOMAIN ix : j <= s.indexSize => j \in 1 .. s.indexSize
    BY <1>3, <2>1
  <2> QED BY <2>2 DEF Resized, EntryAt
<1>7. b = heap[p].baseOffset
  OBVIOUS
<1> HIDE DEF s, ix, cut
<1>8. /\ DOMAIN heap' = DOMAIN heap /\ heap'[p] = o
      /\ \A q \in DOMAIN heap : q # p => heap'[q] = heap[q]
  BY <1>1, <1>2, <1>4, HeapChanged DEF Inv, TypeOK
<1>9. Covered(a)'
  <2>1. Covered(a)
    OBVIOUS
  <2>2. Held(b)
    BY <1>1, <1>2, <1>7 DEF Held, s
  <2>3. ASSUME At(a, b, S, ix, s.indexSize) PROVE Covered(a)'
    <3>1. At(a, b, S, cut, s.indexSize)
      <4> HIDE DEF S
      <4>1. s.indexSize <= s.indexSize
        BY <1>3
      <4>2. \A i \in DOMAIN S : i \in DOMAIN S /\ S[i] = S[i]
        OBVIOUS
      <4> QED BY <1>3, <1>6, <2>3, <4>1, <4>2, AtKept
    <3>2. /\ p \in DOMAIN heap' /\ heap'[p].files # "closed" /\ b = heap'[p].baseOffset
          /\ b \in DOMAIN indexFile'
          /\ At(a, b, storeFile'[b] \o heap'[p].buf, indexFile'[b], heap'[p].indexSize)
      BY <1>1, <1>2, <1>4, <1>5, <1>8, <3>1 DEF S
    <3> QED BY <3>2, CoveredBy
  <2>4. At(a, b, storeFile[b] \o heap[p].buf, indexFile[b], heap[p].indexSize) => Covered(a)'
    BY <2>3 DEF S, ix, s
  <2>5. /\ p \in DOMAIN heap' /\ heap'[p].baseOffset = b
        /\ \A q \in DOMAIN heap' \ {p} :
             q \in DOMAIN heap /\ heap'[q] = heap[q] /\ heap[q].baseOffset # b
        /\ \A q \in DOMAIN heap : q \in DOMAIN heap'
        /\ DOMAIN indexFile \subseteq DOMAIN indexFile' \cup {b}
        /\ \A c \in DOMAIN storeFile : c # b => storeFile'[c] = storeFile[c]
    BY <1>1, <1>2, <1>3, <1>4, <1>5, <1>8
  <2> QED BY <1>5, <1>7, <2>1, <2>2, <2>4, <2>5, CoveredElsewhere
<1> QED BY <1>9

LEMMA CloseIndexKeeps ==
    ASSUME Inv, Inv', OrderInv, HonestInv, CloseIndex, NEW a, Covered(a)
    PROVE  Covered(a)'
<1> DEFINE p == Head(pending)
           b == heap[p].baseOffset
<1>1. /\ status = "closing" /\ pending # <<>> /\ heap[p].files = "open"
      /\ heap' = [heap EXCEPT ![p].files = "half"] /\ indexFile' = Cut(indexFile, heap[p])
      /\ storeFile' = storeFile
  BY DEF CloseIndex
<1>2. p \in DOMAIN heap /\ b \in DOMAIN indexFile
  BY <1>1, CloseState
<1> HIDE DEF p
<1> QED BY <1>1, <1>2, HalfObject, CutKeeps

LEMMA FilesCover ==
    ASSUME Inv, Inv', OrderInv, HonestInv, CoverInv,
           (\E off : Read(off)) \/ CloseIndex \/ CloseStore
    PROVE  CoverInv'
<1>1. UNCHANGED <<pc, local, acked, floor>>
  BY DEF Read, CloseIndex, CloseStore, threads, history
<1>2. FloorOK'
  <2>1. \A t \in Threads : ~ Truncating(t)
    BY CommitLogAssumption DEF Read, CloseIndex, CloseStore, OrderInv, ControlOK, Truncating,
       Inv, PointersSet, LocalsSet
  <2> QED BY <1>1, <2>1, FloorOfOthers
<1> QED BY <1>1, <1>2, ReadKeeps, CloseIndexKeeps, CloseStoreKeeps, CoverKept

(* Truncate closes a segment.                                              *)
LEMMA TruncateIndexState ==
    ASSUME Sequential, Inv, Inv', OrderInv, NEW t \in Truncators, TruncateCloseIndex(t)
    PROVE  LET p == Head(local[t].left)
               b == heap[p].baseOffset
           IN  /\ t \in Threads /\ Steps(t, "truncate", "flush", local[t]) /\ Truncating(t)
               /\ p \in DOMAIN heap /\ heap[p].files = "open" /\ b \in DOMAIN indexFile
               /\ heap[p].nextOffset <= local[t].low + 1
               /\ heap' = [heap EXCEPT ![p].files = "half"]
               /\ indexFile' = Cut(indexFile, heap[p])
               /\ UNCHANGED <<storeFile, active, status, acked, floor>>
<1> DEFINE left == local[t].left
           p    == Head(left)
           b    == heap[p].baseOffset
<1>1. /\ t \in Threads /\ Steps(t, "truncate", "flush", local[t])
      /\ left # <<>> /\ pc[t] = "truncate" /\ heap[p].files = "open"
      /\ Truncating(t) /\ heap[p].nextOffset <= local[t].low + 1
      /\ heap' = [heap EXCEPT ![p].files = "half"] /\ indexFile' = Cut(indexFile, heap[p])
      /\ UNCHANGED <<storeFile, active, status, acked, floor>>
  BY DEF TruncateCloseIndex, Removable, process, history, Steps, Threads, Truncating
<1>2. left \in Seq(Nat) /\ Elements(left) \subseteq DOMAIN heap
  BY <1>1, LoopState
<1>3. p \in DOMAIN heap
  BY <1>1, <1>2, HeadAndTail
<1>4. b \in DOMAIN indexFile
  <2>1. \A u \in Threads : u = t
    BY <1>1 DEF Sequential
  <2> QED BY <1>1, <1>3, <2>1 DEF OrderInv, ObjectFiles, Creating
<1> QED BY <1>1, <1>3, <1>4

LEMMA TruncateCloseIndexKeeps ==
    ASSUME Sequential, Inv, Inv', OrderInv, HonestInv,
           NEW t \in Truncators, TruncateCloseIndex(t), NEW a, Covered(a)
    PROVE  Covered(a)'
<1> DEFINE p == Head(local[t].left)
           b == heap[p].baseOffset
<1>1. /\ p \in DOMAIN heap /\ heap[p].files = "open" /\ b \in DOMAIN indexFile
      /\ heap' = [heap EXCEPT ![p].files = "half"] /\ indexFile' = Cut(indexFile, heap[p])
      /\ UNCHANGED storeFile
  BY TruncateIndexState
<1> HIDE DEF p
<1> QED BY <1>1, HalfObject, CutKeeps

LEMMA TruncateCloseIndexCover ==
    ASSUME Sequential, Inv, Inv', OrderInv, HonestInv, CoverInv,
           NEW t \in Truncators, TruncateCloseIndex(t)
    PROVE  CoverInv'
<1> DEFINE p == Head(local[t].left)
<1>1. /\ t \in Threads /\ Steps(t, "truncate", "flush", local[t]) /\ Truncating(t)
      /\ p \in DOMAIN heap /\ heap[p].nextOffset <= local[t].low + 1
      /\ heap' = [heap EXCEPT ![p].files = "half"]
      /\ UNCHANGED <<acked, floor>>
  BY TruncateIndexState
<1>2. /\ \A u \in Threads : u = t
      /\ local'[t] = local[t] /\ pc'[t] = "flush" /\ local[t].low < floor
  BY <1>1, OnlyThread DEF Inv, TypeOK, CoverInv, FloorOK
<1>3. PICK o \in SegmentObject :
        heap' = [heap EXCEPT ![p] = o] /\ o.nextOffset = heap[p].nextOffset
  BY <1>1, HalfObject
<1>4. heap'[p].nextOffset <= local[t].low + 1
  BY <1>1, <1>3, HeapChanged DEF Inv, TypeOK
<1>5. FloorOK'
  BY <1>1, <1>2, <1>4 DEF FloorOK
<1> QED BY <1>1, <1>5, TruncateCloseIndexKeeps, CoverKept

LEMMA TruncateStoreState ==
    ASSUME Sequential, Inv, Inv', OrderInv, NEW t \in Truncators, TruncateCloseStore(t)
    PROVE  LET p == Head(local[t].left)
               b == heap[p].baseOffset
               o == Closed(heap[p])
           IN  /\ t \in Threads /\ Steps(t, "flush", "remove", local[t]) /\ Truncating(t)
               /\ pc[t] = "flush"
               /\ p \in DOMAIN heap /\ heap[p].files = "half" /\ b \in DOMAIN indexFile
               /\ heap' = [heap EXCEPT ![p] = o]
               /\ o \in SegmentObject /\ o.buf = <<>> /\ o.files = "closed"
               /\ o.baseOffset = b /\ o.indexSize = heap[p].indexSize
               /\ o.nextOffset = heap[p].nextOffset
               /\ storeFile' = Grown(storeFile, b, heap[p].buf)
               /\ UNCHANGED <<indexFile, active, status, acked, floor>>
<1> DEFINE left == local[t].left
           p    == Head(left)
           b    == heap[p].baseOffset
           o    == Closed(heap[p])
<1>1. /\ t \in Threads /\ Steps(t, "flush", "remove", local[t]) /\ pc[t] = "flush"
      /\ Truncating(t) /\ heap' = [heap EXCEPT ![p] = o]
      /\ storeFile' = Grown(storeFile, b, heap[p].buf)
      /\ UNCHANGED <<indexFile, active, status, acked, floor>>
  BY DEF TruncateCloseStore, process, history, Threads, Truncating
<1>2. p \in DOMAIN heap /\ heap[p].files = "half"
  <2>1. /\ left \in Seq(Nat) /\ left # <<>> /\ Elements(left) \subseteq DOMAIN heap
        /\ heap[p].files = "half"
    BY <1>1, LoopState
  <2> QED BY <2>1, HeadAndTail
<1>3. heap[p] \in SegmentObject
  BY <1>2, Dereference DEF Inv, TypeOK
<1>4. /\ o \in SegmentObject /\ o.buf = <<>> /\ o.files = "closed"
      /\ o.baseOffset = b /\ o.indexSize = heap[p].indexSize
      /\ o.nextOffset = heap[p].nextOffset
  BY <1>3, EmptiedType DEF Closed, SegmentObject, SegmentRecord
<1>5. b \in DOMAIN indexFile
  <2>1. \A u \in Threads : u = t
    BY <1>1 DEF Sequential
  <2> QED BY <1>1, <1>2, <2>1 DEF OrderInv, ObjectFiles, Creating
<1> HIDE DEF o
<1> QED BY <1>1, <1>2, <1>4, <1>5 DEF o

LEMMA TruncateCloseStoreKeeps ==
    ASSUME Sequential, Inv, Inv', OrderInv, HonestInv,
           NEW t \in Truncators, TruncateCloseStore(t), NEW a, Covered(a)
    PROVE  Covered(a)'
<1> DEFINE p == Head(local[t].left)
           b == heap[p].baseOffset
           o == Closed(heap[p])
<1>1. /\ p \in DOMAIN heap /\ heap[p].files = "half"
      /\ heap' = [heap EXCEPT ![p] = o]
      /\ o \in SegmentObject /\ o.buf = <<>> /\ o.files = "closed"
      /\ o.baseOffset = b /\ o.indexSize = heap[p].indexSize
      /\ storeFile' = Grown(storeFile, b, heap[p].buf) /\ indexFile' = indexFile
  BY TruncateStoreState
<1> HIDE DEF p, o
<1> QED BY <1>1, FlushKeeps

(* A closed segment ends where its index ends.                             *)
LEMMA ClosedEnds ==
    ASSUME MaxCrashes = 0, Inv, OrderInv, HonestInv,
           NEW p \in DOMAIN heap, heap[p].files = "half",
           NEW b, b = heap[p].baseOffset, b \in DOMAIN indexFile
    PROVE  heap[p].nextOffset = b + Len(indexFile[b])
<1>1. Counted(heap[p], indexFile[b]) /\ Trusted(heap[p].indexSize)
  BY ObjectState DEF Trusted, Contents
<1> QED BY <1>1 DEF Counted

LEMMA TruncateCloseStoreCover ==
    ASSUME Sequential, MaxCrashes = 0, Inv, Inv', OrderInv, HonestInv, CoverInv,
           NEW t \in Truncators, TruncateCloseStore(t)
    PROVE  CoverInv'
<1> DEFINE p == Head(local[t].left)
           b == heap[p].baseOffset
           o == Closed(heap[p])
<1>1. /\ t \in Threads /\ Steps(t, "flush", "remove", local[t]) /\ Truncating(t)
      /\ pc[t] = "flush"
      /\ p \in DOMAIN heap /\ heap[p].files = "half" /\ b \in DOMAIN indexFile
      /\ heap' = [heap EXCEPT ![p] = o] /\ o \in SegmentObject /\ o.baseOffset = b
      /\ UNCHANGED <<indexFile, acked, floor>>
  BY TruncateStoreState
<1>2. /\ \A u \in Threads : u = t
      /\ local'[t] = local[t] /\ pc'[t] = "remove"
      /\ local[t].low < floor /\ heap[p].nextOffset <= local[t].low + 1
  BY <1>1, OnlyThread DEF Inv, TypeOK, CoverInv, FloorOK
<1>3. b + Len(indexFile[b]) = heap[p].nextOffset
  BY <1>1, ClosedEnds
<1>4. BaseAt(t)' = b
  <2>1. heap'[p] = o
    BY <1>1, HeapChanged DEF Inv, TypeOK
  <2> QED BY <1>1, <1>2, <2>1 DEF BaseAt
<1> HIDE DEF p, b, o
<1>5. /\ BaseAt(t)' \in DOMAIN indexFile'
      /\ BaseAt(t)' + Len(indexFile'[BaseAt(t)']) <= local'[t].low + 1
  BY <1>1, <1>2, <1>3, <1>4
<1>6. FloorOK'
  BY <1>1, <1>2, <1>5 DEF FloorOK
<1> QED BY <1>1, <1>6, TruncateCloseStoreKeeps, CoverKept

(* An index that Truncate removes has entries for a prefix of the log.     *)
LEMMA TruncateRemoveState ==
    ASSUME Sequential, Inv, Inv', OrderInv, NEW t \in Truncators, TruncateRemove(t)
    PROVE  LET p == Head(local[t].left)
               b == heap[p].baseOffset
           IN  /\ t \in Threads /\ Steps(t, "remove", "unlink", local[t]) /\ Truncating(t)
               /\ pc[t] = "remove" /\ status = "up"
               /\ b = BaseAt(t) /\ b \in DOMAIN indexFile /\ b \in Nat
               /\ p \in DOMAIN heap /\ heap[p].files = "closed"
               /\ \A q \in DOMAIN heap : q # p => heap[q].baseOffset # b
               /\ indexFile' = Delete(indexFile, b)
               /\ UNCHANGED <<storeFile, heap, active, status, acked, floor>>
<1> DEFINE p == Head(local[t].left)
           b == heap[p].baseOffset
<1>1. /\ t \in Threads /\ Steps(t, "remove", "unlink", local[t]) /\ pc[t] = "remove"
      /\ Truncating(t) /\ BaseAt(t) = b /\ b \in DOMAIN indexFile /\ status = "up"
      /\ indexFile' = Delete(indexFile, b)
      /\ UNCHANGED <<storeFile, heap, active, status, acked, floor>>
  BY DEF TruncateRemove, log, process, history, Threads, Steps, Truncating, BaseAt
<1>2. p \in DOMAIN heap /\ heap[p].files = "closed" /\ b \in Nat
  <2>1. /\ local[t].left \in Seq(Nat) /\ local[t].left # <<>>
        /\ Elements(local[t].left) \subseteq DOMAIN heap
        /\ ~ IsOpen(p) /\ \A q \in DOMAIN heap : heap[q].files # "half"
    BY <1>1, LoopState
  <2>2. p \in DOMAIN heap
    BY <2>1, HeadAndTail
  <2>3. heap[p].files \in {"open", "half", "closed"} /\ b \in Nat
    BY <2>2, Dereference DEF Inv, TypeOK, SegmentObject, SegmentRecord
  <2> QED BY <2>1, <2>2, <2>3 DEF IsOpen
<1>3. \A q \in DOMAIN heap : q # p => heap[q].baseOffset # b
  BY <1>2, BasesDiffer DEF Inv, TypeOK, OrderInv
<1> QED BY <1>1, <1>2, <1>3

LEMMA TruncateRemoveKeeps ==
    ASSUME Sequential, Inv, Inv', OrderInv, NEW t \in Truncators, TruncateRemove(t),
           NEW a, Covered(a), a.off \in Nat,
           BaseAt(t) + Len(indexFile[BaseAt(t)]) <= a.off
    PROVE  Covered(a)'
<1> DEFINE p  == Head(local[t].left)
           b  == heap[p].baseOffset
           ix == indexFile[b]
<1>1. /\ b = BaseAt(t) /\ b \in DOMAIN indexFile /\ b \in Nat
      /\ heap[p].files = "closed" /\ \A q \in DOMAIN heap : q # p => heap[q].baseOffset # b
      /\ indexFile' = Delete(indexFile, b) /\ UNCHANGED <<storeFile, heap>>
  BY TruncateRemoveState
<1>2. ix \in Seq(Entry) /\ b + Len(ix) <= a.off
  BY <1>1 DEF Inv, TypeOK, DiskOK, FileOf
<1> HIDE DEF b, ix
<1>3. \A c \in DOMAIN indexFile : c # b => c \in DOMAIN indexFile' /\ indexFile'[c] = indexFile[c]
  BY <1>1 DEF Delete
<1>4. ~ At(a, b, storeFile[b], ix, Len(ix))
  <2> SUFFICES ASSUME NEW j \in DOMAIN ix, j <= Len(ix), a.off + 1 = b + j PROVE FALSE
    BY DEF At
  <2>1. j \in Nat /\ Len(ix) \in Nat
    BY <1>2, LenProperties
  <2> QED BY <1>1, <1>2, <2>1
<1>5. ASSUME NEW c \in DOMAIN indexFile, ~ Held(c),
             At(a, c, storeFile[c], indexFile[c], Len(indexFile[c]))
      PROVE  Covered(a)'
  <2>1. c # b
    BY <1>4, <1>5 DEF ix
  <2> QED BY <1>1, <1>3, <1>5, <2>1 DEF Covered, Held
<1>6. ASSUME NEW q \in DOMAIN heap, heap[q].files # "closed",
             NEW c, c = heap[q].baseOffset, c \in DOMAIN indexFile,
             At(a, c, storeFile[c] \o heap[q].buf, indexFile[c], heap[q].indexSize)
      PROVE  Covered(a)'
  <2>1. c # b
    BY <1>1, <1>6
  <2> QED BY <1>1, <1>3, <1>6, <2>1 DEF Covered, StoredFor
<1> QED BY <1>5, <1>6 DEF Covered, StoredFor

LEMMA TruncateRemoveCover ==
    ASSUME Sequential, Inv, Inv', OrderInv, CoverInv,
           NEW t \in Truncators, TruncateRemove(t)
    PROVE  CoverInv'
<1>1. /\ t \in Threads /\ Steps(t, "remove", "unlink", local[t]) /\ Truncating(t)
      /\ pc[t] = "remove" /\ BaseAt(t) \in DOMAIN indexFile /\ BaseAt(t) \in Nat
      /\ UNCHANGED <<acked, floor>>
  BY TruncateRemoveState
<1> DEFINE end == BaseAt(t) + Len(indexFile[BaseAt(t)])
<1>2. end <= local[t].low + 1 /\ local[t].low < floor
  BY <1>1 DEF CoverInv, FloorOK
<1>3. local[t].low \in Nat /\ floor \in Nat
  BY <1>1, HistoryState DEF Inv, TypeOK, ThreadsOK, LocalOf
<1>4. end \in Nat
  <2>1. indexFile[BaseAt(t)] \in Seq(Entry)
    BY <1>1 DEF Inv, TypeOK, DiskOK, FileOf
  <2> QED BY <1>1, <2>1, LenProperties
<1>5. ASSUME NEW a \in acked, a.off >= floor PROVE a.off \in Nat /\ end <= a.off
  <2>1. a.off \in Nat
    BY HistoryState
  <2> HIDE DEF end
  <2> QED BY <1>2, <1>3, <1>4, <1>5, <2>1
<1>6. \A a \in acked : a.off >= floor /\ Covered(a) => Covered(a)'
  BY <1>5, TruncateRemoveKeeps
<1>7. FloorOK'
  BY <1>1, FloorOfTruncate
<1> QED BY <1>1, <1>6, <1>7, CoverKept

LEMMA TruncateUnlinkKeeps ==
    ASSUME OrderInv, OrderInv', NEW t \in Truncators, TruncateUnlink(t), NEW a, Covered(a)
    PROVE  Covered(a)'
<1> DEFINE b == BaseAt(t)
<1>1. storeFile' = Delete(storeFile, b) /\ UNCHANGED <<indexFile, heap>>
  BY DEF TruncateUnlink, log
<1> HIDE DEF b
<1>2. \A d \in DOMAIN indexFile : storeFile'[d] = storeFile[d]
  <2>1. \A d \in DOMAIN storeFile' : storeFile'[d] = storeFile[d]
    BY <1>1 DEF Delete
  <2>2. DOMAIN indexFile \subseteq DOMAIN storeFile'
    BY <1>1 DEF OrderInv, FilesOK
  <2> QED BY <2>1, <2>2
<1> QED BY <1>1, <1>2 DEF Covered, Held, StoredFor

LEMMA TruncateUnlinkCover ==
    ASSUME Sequential, Inv, Inv', OrderInv, OrderInv', CoverInv,
           NEW t \in Truncators, TruncateUnlink(t)
    PROVE  CoverInv'
<1> DEFINE c == [local[t] EXCEPT !.left = Tail(@)]
<1>1. /\ t \in Threads /\ Steps(t, "unlink", "truncate", c) /\ pc[t] = "unlink"
      /\ UNCHANGED <<acked, floor>>
  BY DEF TruncateUnlink, history, Threads, Steps
<1>2. c.low = local[t].low
  <2>1. local[t] \in LocalOf(DOMAIN heap)
    BY <1>1 DEF Inv, TypeOK, ThreadsOK
  <2> QED BY <2>1 DEF LocalOf
<1> HIDE DEF c
<1>3. FloorOK'
  <2>1. Truncating(t)
    BY <1>1 DEF Truncating
  <2> QED BY <1>1, <1>2, <2>1, FloorOfTruncate
<1> QED BY <1>1, <1>3, TruncateUnlinkKeeps, CoverKept

LEMMA AppendWriteKeeps ==
    ASSUME Sequential, Inv, Inv', OrderInv, HonestInv,
           NEW t \in Appenders, NEW r \in Records, AppendWrite(t, r),
           NEW a, Covered(a) \/ a = [off |-> heap[active].nextOffset, val |-> r]
    PROVE  Covered(a)'
<1> DEFINE s  == heap[active]
           b  == s.baseOffset
           k  == s.indexSize
           S  == storeFile[b] \o s.buf
           ix == indexFile[b]
           T  == S \o Framed(s, r)
           wx == Written(ix, k + 1, NewEntry(s))
           new == [off |-> s.nextOffset, val |-> r]
<1>1. /\ active \in DOMAIN heap /\ s \in SegmentObject /\ s.files = "open"
      /\ b \in DOMAIN indexFile /\ b \in DOMAIN storeFile
      /\ S \in Seq(Chunk) /\ ix \in Seq(Entry)
      /\ Len(ix) = MaxIndexBytes /\ k < MaxIndexBytes
      /\ s.size = Len(S) /\ Exact(s, S, ix)
      /\ \A q \in DOMAIN heap : q # active => heap[q].baseOffset # b
      /\ indexFile' = [c \in DOMAIN indexFile |-> IF c = b THEN wx ELSE indexFile[c]]
  BY AppendWriteState
<1>2. PICK out \in Seq(Chunk), o \in SegmentObject :
         /\ o.files = "open" /\ o.baseOffset = b
         /\ o.indexSize = k + 1 /\ o.nextOffset = s.nextOffset + 1
         /\ (storeFile[b] \o out) \o o.buf = T
         /\ heap' = [heap EXCEPT ![active] = o]
         /\ storeFile' = Grown(storeFile, b, out)
  BY AppendWriteState
<1>4. b = heap[active].baseOffset
  OBVIOUS
<1>5. /\ k \in Nat /\ k + 1 \in DOMAIN ix /\ DOMAIN wx = DOMAIN ix
      /\ b \in Nat /\ s.nextOffset = b + k
      /\ \A j \in 1 .. k : wx[j] = ix[j]
      /\ wx[k + 1] = [off |-> k, pos |-> Len(S)]
      /\ DOMAIN ix \subseteq Nat \ {0}
  <2> HIDE DEF S, ix
  <2> QED BY <1>1, WriteState
<1>6. /\ Len(S) \in Nat /\ DOMAIN S = 1 .. Len(S) /\ DOMAIN T = 1 .. Len(S) + 2
      /\ \A i \in DOMAIN S : T[i] = S[i]
      /\ T[Len(S) + 1] = [part |-> "length", off |-> s.nextOffset, val |-> r]
      /\ T[Len(S) + 2] = [part |-> "body",   off |-> s.nextOffset, val |-> r]
  <2> HIDE DEF S
  <2> QED BY <1>1, FrameAdded
<1> DEFINE m == Len(S)
           next == s.nextOffset
<1>16. k = heap[active].indexSize /\ S = storeFile[b] \o heap[active].buf
  OBVIOUS
<1>17. new = [off |-> next, val |-> r]
  OBVIOUS
<1>18. At(new, b, T, wx, k + 1)
  <2> DEFINE z == k + 1
  <2>0. z \in DOMAIN wx /\ z <= k + 1
    BY <1>5
  <2>1. FrameAt(T, m, new)
    <3>1. \A x \in Nat : x + 2 \in 1 .. x + 2
      OBVIOUS
    <3>2. m \in Nat
      BY <1>6
    <3>3. m + 2 \in 1 .. m + 2
      BY <3>1, <3>2, Zenon
    <3>4. /\ DOMAIN T = 1 .. m + 2
          /\ T[m + 1] = [part |-> "length", off |-> next, val |-> r]
          /\ T[m + 2] = [part |-> "body",   off |-> next, val |-> r]
      BY <1>6
    <3>5. new.off = next /\ new.val = r
      OBVIOUS
    <3> HIDE DEF m, T, next, new
    <3>6. /\ T[m + 1] = [part |-> "length", off |-> new.off, val |-> new.val]
          /\ T[m + 2] = [part |-> "body",   off |-> new.off, val |-> new.val]
      BY <3>4, <3>5, Zenon
    <3>7. m + 2 \in DOMAIN T /\ T[m + 2].part = "body"
      BY <3>3, <3>4
    <3> QED BY <3>6, <3>7 DEF FrameAt, IsBody
  <2>2. wx[z].pos = m
    <3>1. wx[z] = [off |-> k, pos |-> m]
      BY <1>5
    <3> HIDE DEF wx, m, z, k
    <3> QED BY <3>1
  <2>3. new.off + 1 = b + z
    <3>1. \A x, y \in Nat : (x + y) + 1 = x + (y + 1)
      OBVIOUS
    <3> HIDE DEF b, k
    <3> QED BY <1>5, <3>1
  <2> HIDE DEF z, new, wx, T, m
  <2>4. z \in DOMAIN wx /\ z <= k + 1 /\ new.off + 1 = b + z /\ FrameAt(T, wx[z].pos, new)
    BY <2>0, <2>1, <2>2, <2>3
  <2> QED BY <2>4 DEF At
<1>19. Covered(a) \/ a = new
  OBVIOUS
<1> HIDE DEF s, b, k, S, ix, T, wx, new, m, next
<1>7. /\ DOMAIN heap' = DOMAIN heap /\ heap'[active] = o
      /\ \A q \in DOMAIN heap : q # active => heap'[q] = heap[q]
  BY <1>1, <1>2, HeapChanged DEF Inv, TypeOK
<1>8. /\ storeFile'[b] = storeFile[b] \o out
      /\ \A c \in DOMAIN storeFile : c # b => storeFile'[c] = storeFile[c]
  BY <1>1, <1>2 DEF Grown
<1>9. /\ DOMAIN indexFile' = DOMAIN indexFile /\ indexFile'[b] = wx
      /\ \A c \in DOMAIN indexFile : c # b => indexFile'[c] = indexFile[c]
  BY <1>1
<1>10. storeFile'[b] \o o.buf = T
  BY <1>2, <1>8
<1>11. ASSUME At(a, b, T, wx, k + 1) PROVE Covered(a)'
  <2>1. /\ active \in DOMAIN heap' /\ heap'[active].files # "closed"
        /\ b = heap'[active].baseOffset /\ b \in DOMAIN indexFile'
        /\ At(a, b, storeFile'[b] \o heap'[active].buf, indexFile'[b], heap'[active].indexSize)
    BY <1>1, <1>2, <1>7, <1>9, <1>10, <1>11
  <2> QED BY <2>1, CoveredBy
<1>12. ASSUME Covered(a) PROVE Covered(a)'
  <2>1. Covered(a)
    BY <1>12
  <2>2. Held(b)
    BY <1>1, <1>4 DEF Held, s
  <2>3. ASSUME At(a, b, S, ix, k) PROVE Covered(a)'
    <3>1. \A i \in DOMAIN S : i \in DOMAIN T /\ T[i] = S[i]
      <4>1. \A x \in Nat : 1 .. x \subseteq 1 .. x + 2
        OBVIOUS
      <4> QED BY <1>6, <4>1
    <3>2. \A j \in DOMAIN ix : j <= k => j \in DOMAIN wx /\ wx[j] = ix[j]
      <4>1. \A j \in DOMAIN ix : j <= k => j \in 1 .. k
        BY <1>5
      <4> QED BY <1>5, <4>1
    <3>3. k \in Nat /\ k + 1 \in Nat /\ k <= k + 1
      BY <1>5
    <3>4. At(a, b, T, wx, k + 1)
      BY <1>1, <2>3, <3>1, <3>2, <3>3, AtKept
    <3> QED BY <1>11, <3>4
  <2>4. At(a, b, storeFile[b] \o heap[active].buf, indexFile[b], heap[active].indexSize)
           => Covered(a)'
    BY <1>16, <2>3 DEF ix
  <2>5. /\ active \in DOMAIN heap' /\ heap'[active].baseOffset = b
        /\ \A q \in DOMAIN heap' \ {active} :
             q \in DOMAIN heap /\ heap'[q] = heap[q] /\ heap[q].baseOffset # b
        /\ \A q \in DOMAIN heap : q \in DOMAIN heap'
        /\ DOMAIN indexFile \subseteq DOMAIN indexFile' \cup {b}
    BY <1>1, <1>2, <1>7, <1>9
  <2> QED BY <1>4, <1>8, <1>9, <2>1, <2>2, <2>4, <2>5, CoveredElsewhere
<1> QED BY <1>11, <1>12, <1>18, <1>19

LEMMA AppendWriteCover ==
    ASSUME Sequential, Inv, Inv', OrderInv, HonestInv, CoverInv,
           NEW t \in Appenders, NEW r \in Records, AppendWrite(t, r)
    PROVE  CoverInv'
<1>1. acked' = acked \cup {[off |-> heap[active].nextOffset, val |-> r]}
  BY AppendWriteState
<1>2. t \in Threads /\ Steps(t, "write", "idle", Blank) /\ floor' = floor
  BY DEF AppendWrite, Threads
<1>3. FloorOK'
  BY <1>2, FloorOfAppend
<1>4. ASSUME NEW a \in acked', a.off >= floor' PROVE Covered(a)'
  <2>1. Covered(a) \/ a = [off |-> heap[active].nextOffset, val |-> r]
    BY <1>1, <1>2, <1>4 DEF CoverInv, AllCovered
  <2> QED BY <2>1, AppendWriteKeeps
<1> QED BY <1>3, <1>4 DEF CoverInv, AllCovered

LEMMA BeginCover ==
    ASSUME Inv, Inv', CoverInv, SetupBegin \/ CloseBegin
    PROVE  CoverInv'
<1>1. /\ UNCHANGED <<storeFile, indexFile, heap, pc, local, acked, floor>>
  BY DEF SetupBegin, CloseBegin, disk, log, threads, history
<1>2. FloorOK' /\ floor <= floor'
  <2>1. \A t \in Threads : ~ Truncating(t)
    BY DEF SetupBegin, CloseBegin, Truncating, Inv, PointersSet, LocalsSet
  <2> QED BY <1>1, <2>1, HistoryState, FloorOfOthers
<1> QED BY <1>1, <1>2, HistoryState, QuietCover

LEMMA EndKeeps ==
    ASSUME MaxCrashes = 0, Inv, OrderInv, CloseEnd \/ Crash, NEW a, Covered(a)
    PROVE  Covered(a)'
<1>1. CloseEnd
  <2>1. ~ Crash
    BY CommitLogAssumption DEF Crash, Inv, TypeOK, BoundsOK
  <2> QED BY <2>1
<1>2. /\ UNCHANGED <<storeFile, indexFile>> /\ heap' = <<>>
      /\ status = "closing" /\ pending = <<>>
  BY <1>1 DEF CloseEnd, Die, disk
<1>3. \A p \in DOMAIN heap : heap[p].files = "closed"
  BY <1>2, ElementsOfEmpty DEF OrderInv, CloseOK, Holding
<1> QED BY <1>2, <1>3 DEF Covered, Held

LEMMA EndCover ==
    ASSUME MaxCrashes = 0, Inv, Inv', OrderInv, CoverInv, CloseEnd \/ Crash
    PROVE  CoverInv'
<1>1. UNCHANGED <<acked, floor>> /\ \A t \in Threads : pc'[t] = "idle"
  BY DEF CloseEnd, Crash, Die, history
<1> QED BY <1>1, FloorIdle, EndKeeps, CoverKept

LEMMA StutterCover == ASSUME CoverInv, UNCHANGED vars PROVE CoverInv'
<1>1. UNCHANGED <<storeFile, indexFile, heap, pc, local, acked, floor>>
  BY DEF vars, disk, log, threads, history
<1>2. FloorOK'
  BY <1>1 DEF CoverInv, FloorOK, Truncating, BaseAt
<1>3. AllCovered'
  BY <1>1 DEF CoverInv, AllCovered, Covered, Held, StoredFor
<1> QED BY <1>2, <1>3 DEF CoverInv

LEMMA InitCover == Init => CoverInv
<1> QED BY DEF Init, CoverInv, FloorOK, AllCovered, Truncating

LEMMA StepKeepsCover ==
    ASSUME Sequential, MaxCrashes = 0,
           Inv, Inv', OrderInv, OrderInv', HonestInv, CoverInv, [Next]_vars
    PROVE  CoverInv'
<1>1. CASE SetupBegin \/ SetupSegment \/ SetupDone
  BY <1>1, BeginCover, SetupCover
<1>2. ASSUME NEW t \in Appenders, AppendHighest(t) \/ AppendPanic(t)
      PROVE  CoverInv'
  BY <1>2, AppendQuietCover, AppendPanicNever
<1>3. ASSUME NEW t \in Appenders, AppendStep(t)
      PROVE  CoverInv'
  BY <1>3, AppendQuietCover, RollCover, RollFailsNever, AppendWriteCover DEF AppendStep
<1>4. ASSUME NEW t \in Truncators, NEW low \in 0 .. MaxOffset, TruncateBegin(t, low)
      PROVE  CoverInv'
  BY <1>4, TruncateQuietCover
<1>5. ASSUME NEW t \in Truncators, TruncateStep(t)
      PROVE  CoverInv'
  BY <1>5, TruncateQuietCover, TruncateCloseIndexCover, TruncateCloseStoreCover,
     TruncateRemoveCover, TruncateUnlinkCover, TruncateErrorNever DEF TruncateStep
<1>6. ASSUME NEW off \in 0 .. MaxOffset, Read(off)
      PROVE  CoverInv'
  BY <1>6, FilesCover
<1>7. CASE CloseBegin \/ CloseIndex \/ CloseStore \/ CloseError
  BY <1>7, BeginCover, FilesCover, CloseErrorNever
<1>8. CASE CloseEnd \/ Crash
  BY <1>8, EndCover
<1>9. CASE UNCHANGED vars
  BY <1>9, StutterCover
<1> QED BY <1>1, <1>2, <1>3, <1>4, <1>5, <1>6, <1>7, <1>8, <1>9 DEF Next

LEMMA CoverIsInvariant ==
    ASSUME Sequential, MaxCrashes = 0
    PROVE  Spec => [](Inv /\ OrderInv /\ HonestInv /\ CoverInv)
<1>1. Inv /\ OrderInv /\ HonestInv /\ CoverInv /\ [Next]_vars
        => (Inv /\ OrderInv /\ HonestInv /\ CoverInv)'
  BY StepKeepsInv, StepKeepsOrder, StepKeepsHonest, StepKeepsCover DEF OneKindOfEnd
<1> QED BY <1>1, InitType, InitOrder, InitHonest, InitCover, PTL DEF Spec

(* The object that a record is in is one that Read looks at.               *)
LEMMA CoveredIsListed ==
    ASSUME Inv, OrderInv, HonestInv, Readable, NEW a, Covered(a)
    PROVE  \E p \in Elements(segments) :
              /\ p \in DOMAIN heap /\ heap[p].files = "open"
              /\ heap[p].baseOffset \in DOMAIN indexFile
              /\ At(a, heap[p].baseOffset, StoredFor(heap[p]),
                    indexFile[heap[p].baseOffset], heap[p].indexSize)
<1>1. status = "up" /\ \A t \in Threads : ~ Truncating(t)
  BY CommitLogAssumption DEF Readable, OrderInv, ControlOK
<1>2. PICK p \in DOMAIN heap :
        /\ heap[p].files # "closed"
        /\ heap[p].baseOffset \in DOMAIN indexFile
        /\ At(a, heap[p].baseOffset, StoredFor(heap[p]),
              indexFile[heap[p].baseOffset], heap[p].indexSize)
  <2>1. ASSUME NEW b \in DOMAIN indexFile, ~ Held(b) PROVE FALSE
    <3>1. PICK q \in DOMAIN heap : heap[q].baseOffset = b
      BY <1>1, <2>1 DEF OrderInv, FilesOK, ObjectFiles
    <3>2. heap[q].files = "closed"
      BY <2>1, <3>1 DEF Held
    <3>3. \A t \in Threads : pc[t] \notin {"remove", "unlink"}
      BY <1>1 DEF Truncating
    <3> QED BY <1>1, <2>1, <3>1, <3>2, <3>3 DEF OrderInv, ObjectFiles, Removing
  <2> QED BY <2>1 DEF Covered
<1>3. heap[p].files = "open"
  <2>1. heap[p].files \in {"open", "half", "closed"}
    BY <1>2, Dereference DEF Inv, TypeOK, SegmentObject, SegmentRecord
  <2>2. \A t \in Threads : pc[t] # "flush"
    BY <1>1 DEF Truncating
  <2> QED BY <1>1, <1>2, <2>1, <2>2 DEF OrderInv, ListOK
<1>4. heap[p].indexSize # 0
  <2> SUFFICES ASSUME heap[p].indexSize = 0 PROVE FALSE
    OBVIOUS
  <2>1. PICK j \in DOMAIN indexFile[heap[p].baseOffset] : j <= 0
    BY <1>2 DEF At
  <2>2. indexFile[heap[p].baseOffset] \in Seq(Entry)
    BY <1>2 DEF Inv, TypeOK, DiskOK, FileOf
  <2> QED BY <2>1, <2>2, LenProperties
<1>5. p \in Elements(segments)
  <2>1. CASE \E t \in Threads : pc[t] \in {"index", "publish"}
    <3>1. PICK t \in Threads : pc[t] \in {"index", "publish"}
      BY <2>1
    <3>2. p \in Elements(segments) \cup {Len(heap)}
      BY <1>2, <3>1 DEF OrderInv, RollOK, Holding
    <3>3. heap[Len(heap)].indexSize = 0
      BY <3>1 DEF OrderInv, RollOK, HonestInv, WriteOK
    <3> QED BY <1>4, <3>2, <3>3
  <2>2. CASE \A t \in Threads : pc[t] \notin {"index", "publish"}
    BY <1>1, <1>2, <2>2 DEF OrderInv, ListOK, Holding
  <2> QED BY <2>1, <2>2
<1> QED BY <1>2, <1>3, <1>5

(* Every append that succeeded can be read back at the offset it returned, *)
(* until a Truncate at or above that offset (log.go, Append and Read),     *)
(* over any number of rolls, truncations and orderly restarts.             *)
THEOREM CommitLogAckedReadable ==
    ASSUME Sequential, MaxCrashes = 0
    PROVE  Spec => []AckedReadable
<1>1. ASSUME Inv, OrderInv, HonestInv, CoverInv, SegmentsOrdered PROVE AckedReadable
  <2> SUFFICES ASSUME Readable, NEW a \in acked, a.off >= floor
               PROVE  \E c \in ReadOf(a.off) : c.off = a.off /\ c.val = a.val
    BY DEF AckedReadable
  <2>1. Covered(a)
    BY <1>1 DEF CoverInv, AllCovered
  <2>2. PICK p \in Elements(segments) :
          /\ p \in DOMAIN heap /\ heap[p].files = "open"
          /\ heap[p].baseOffset \in DOMAIN indexFile
          /\ At(a, heap[p].baseOffset, StoredFor(heap[p]),
                indexFile[heap[p].baseOffset], heap[p].indexSize)
    BY <1>1, <2>1, CoveredIsListed
  <2> DEFINE s  == heap[p]
             b  == s.baseOffset
             S  == storeFile[b] \o s.buf
             ix == indexFile[b]
  <2>3. PICK j \in DOMAIN ix :
          j <= s.indexSize /\ a.off + 1 = b + j /\ FrameAt(S, ix[j].pos, a)
    BY <2>2 DEF At, StoredFor
  <2>4. /\ b \in Nat /\ s.indexSize \in Nat /\ s.nextOffset \in Nat /\ b \in DOMAIN storeFile
        /\ S \in Seq(Chunk) /\ ix \in Seq(Entry) /\ Counted(s, ix)
    BY <1>1, <2>2, ObjectState
  <2>5. s.nextOffset = b + s.indexSize
    BY <2>4 DEF Counted, Trusted
  <2>6. j \in Nat \ {0} /\ ix[j].pos \in Nat
    <3>1. DOMAIN ix = 1 .. Len(ix) /\ ix \in [DOMAIN ix -> Entry]
      BY <2>4, LenProperties
    <3> HIDE DEF ix
    <3> QED BY <3>1 DEF Entry
  <2>7. a.off \in Nat
    BY <1>1, HistoryState
  <2>8. b <= a.off /\ a.off < s.nextOffset /\ a.off - b + 1 = j
    <3> HIDE DEF b, s, ix, S
    <3> QED BY <2>3, <2>4, <2>5, <2>6, <2>7
  <2>9. PICK i \in DOMAIN segments : segments[i] = p
    BY DEF Elements
  <2>10. i \in Holders(a.off)
    BY <2>8, <2>9 DEF Holders, Holds
  <2>11. ASSUME NEW k \in Holders(a.off) PROVE i <= k
    <3>1. /\ k \in DOMAIN segments /\ segments[k] \in DOMAIN heap
          /\ heap[segments[k]].baseOffset <= a.off /\ a.off < heap[segments[k]].nextOffset
      <4>1. Elements(segments) \subseteq DOMAIN heap
        BY <1>1, ElementsType DEF Inv, TypeOK, LogOK
      <4> QED BY <4>1 DEF Holders, Holds, Elements
    <3>2. i \in Nat /\ k \in Nat
      <4>1. segments \in Seq(DOMAIN heap)
        BY <1>1 DEF Inv, TypeOK, LogOK
      <4> QED BY <2>9, <3>1, <4>1, LenProperties
    <3>3. ~ (k < i)
      <4> SUFFICES ASSUME k < i PROVE FALSE
        OBVIOUS
      <4>1. heap[segments[k]].nextOffset <= b
        BY <1>1, <2>9, <3>1 DEF SegmentsOrdered, Readable
      <4>2. heap[segments[k]].nextOffset \in Nat
        BY <1>1, <3>1, Dereference DEF Inv, TypeOK, SegmentObject, SegmentRecord
      <4> HIDE DEF b
      <4> QED BY <2>4, <2>7, <2>8, <3>1, <4>1, <4>2
    <3> QED BY <3>2, <3>3
  <2>12. p \in Found(a.off)
    BY <2>9, <2>10, <2>11 DEF Found
  <2> DEFINE z == ix[j].pos + 2
             c == S[z]
  <2>13. c \in StoreRead(S, ix[j].pos)
    <3>1. /\ z \in DOMAIN S /\ c = [part |-> "body", off |-> a.off, val |-> a.val]
          /\ S[ix[j].pos + 1] = [part |-> "length", off |-> a.off, val |-> a.val]
      BY <2>3 DEF FrameAt, IsBody
    <3>2. z - 1 = ix[j].pos + 1
      <4>1. \A x \in Nat : (x + 2) - 1 = x + 1
        OBVIOUS
      <4> QED BY <2>6, <4>1
    <3>3. [c EXCEPT !.part = "length"] = [part |-> "length", off |-> a.off, val |-> a.val]
      BY <3>1
    <3> HIDE DEF S, ix
    <3> QED BY <3>1, <3>2, <3>3 DEF StoreRead
  <2>14. c.off = a.off /\ c.val = a.val
    BY <2>3 DEF FrameAt
  <2>15. c \in ReadBack(heap[p], a.off)
    <3>1. EntryAt(ix, a.off - b + 1) = ix[j] /\ Indexed(s, a.off)
      BY <2>3, <2>8 DEF EntryAt, Indexed
    <3>2. b \in (DOMAIN storeFile) \cap (DOMAIN indexFile) /\ s.files = "open"
      BY <2>2, <2>4
    <3> QED BY <2>13, <3>1, <3>2 DEF ReadBack, SegmentRead
  <2>16. c \in ReadOf(a.off)
    BY <2>12, <2>15 DEF ReadOf
  <2> QED BY <2>14, <2>16
<1>2. Spec => []SegmentsOrdered
  BY CommitLogSegmentsOrdered
<1> QED BY <1>1, <1>2, CoverIsInvariant, PTL
=============================================================================
