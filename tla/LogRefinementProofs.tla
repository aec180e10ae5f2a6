-------------------- MODULE LogRefinementProofs --------------------
(***************************************************************************)
(* CommitLog implements AbstractLog: for one goroutine at a time, without  *)
(* a failed removal and without a crash, every step of the code appends    *)
(* one record to the log's window, drops a prefix of it, or leaves it.     *)
(* The window therefore never has a hole.                                  *)
(***************************************************************************)
EXTENDS LogRefinement, CommitLogProofs

-----------------------------------------------------------------------------
(* The window of records that the files, the objects and their buffers     *)
(* stand for, and what a step does to it.                                  *)

(* How many offsets the segment of a base offset has.                      *)
SizeOf(b) == ObjectOf(b).indexSize

Spans(off) == \E b \in DOMAIN indexFile : b <= off /\ off < b + SizeOf(b)

Rec(off, r) == [off |-> off, val |-> r]

(* Each offset of the window has a record.                                 *)
AllFramed ==
    \A off \in 0 .. MaxOffset + 1 : Spans(off) => \E r \in Records : Covered(Rec(off, r))

Newest(b) == b \in DOMAIN indexFile /\ \A c \in DOMAIN indexFile : c <= b

HasNewest == indexFile = <<>> \/ \E b \in DOMAIN indexFile : Newest(b)

(* What the loop of Truncate has kept stays, how much it spares, and what  *)
(* it removes.                                                             *)
LoopSpares ==
    \A t \in Threads : Truncating(t) =>
        LET s == heap[Head(local[t].left)]
        IN  /\ \A p \in Elements(local[t].list) : ~ Removable(heap[p], local[t].low)
            /\ local[t].low + 1 + TrailingLogs <= heap[active].nextOffset
            /\ pc[t] \in {"flush", "remove"} => Removable(s, local[t].low)
            /\ pc[t] = "remove" =>
                 s.nextOffset = s.baseOffset + Len(indexFile[s.baseOffset])

(* An Append ends within the offsets that are looked at.                   *)
RoomLeft ==
    \A t \in Threads :
        pc[t] # "idle" /\ ~ Truncating(t) => heap[Len(heap)].nextOffset <= MaxOffset

(* Without crashes only a goroutine that works leaves a store alone.       *)
BothFiles ==
    status \in {"down", "setup", "closing"} => DOMAIN storeFile \subseteq DOMAIN indexFile

(* Half a segment follows on the active one.                               *)
RollNext ==
    \A t \in Threads : pc[t] = "index" =>
        active + 1 = Len(heap) /\ heap[Len(heap)].baseOffset = heap[active].nextOffset

ControlInv == LoopSpares /\ RoomLeft /\ BothFiles /\ RollNext

WindowInv == ControlInv /\ HasNewest /\ AllFramed

LogInv == Inv /\ OrderInv /\ HonestInv /\ WindowInv

(* The segment of a base offset that an object has open, or none has.      *)
LEMMA ObjectHeld ==
    ASSUME Inv, OrderInv, NEW p \in DOMAIN heap, heap[p].files # "closed",
           NEW b, b = heap[p].baseOffset
    PROVE  ObjectOf(b) = heap[p] /\ SizeOf(b) = heap[p].indexSize
<1>1. DOMAIN heap \subseteq Nat
  BY PointersAreNumbers DEF Inv, TypeOK
<1>2. \A q \in DOMAIN heap : q # p => heap[q].baseOffset # b
  BY BasesDiffer DEF Inv, TypeOK, OrderInv
<1>3. OpenObjects(b) = {p}
  BY <1>2 DEF OpenObjects
<1>4. (CHOOSE q \in OpenObjects(b) : \A o \in OpenObjects(b) : o <= q) = p
  BY <1>1, <1>3
<1> QED BY <1>3, <1>4 DEF ObjectOf, SizeOf

LEMMA ObjectRest ==
    ASSUME NEW b, ~ Held(b)
    PROVE  /\ ObjectOf(b) = NewSegment(b, storeFile, indexFile)
           /\ b \in DOMAIN indexFile => SizeOf(b) = Len(indexFile[b])
<1>1. OpenObjects(b) = {}
  BY DEF Held, OpenObjects
<1> QED BY <1>1 DEF ObjectOf, SizeOf, NewSegment, WithIndex, NewStore, Contents

LEMMA ObjectTypes ==
    ASSUME Inv, OrderInv, NEW b \in DOMAIN indexFile
    PROVE  /\ ObjectOf(b) \in SegmentObject /\ ObjectOf(b).baseOffset = b
           /\ b \in Nat /\ SizeOf(b) \in Nat /\ b \in DOMAIN storeFile
<1>1. b \in Nat /\ b \in DOMAIN storeFile
  BY DEF Inv, TypeOK, DiskOK, FileOf, OrderInv, FilesOK
<1>2. ObjectOf(b) \in SegmentObject /\ ObjectOf(b).baseOffset = b
  <2>1. CASE ~ Held(b)
    <3>1. ObjectOf(b) = NewSegment(b, storeFile, indexFile)
      BY <2>1, ObjectRest
    <3>2. NewSegment(b, storeFile, indexFile) \in SegmentObject
      BY <1>1, NewSegmentType DEF Inv, TypeOK
    <3>3. NewSegment(b, storeFile, indexFile).baseOffset = b
      BY DEF NewSegment, WithIndex, NewStore
    <3> QED BY <3>1, <3>2, <3>3
  <2>2. CASE Held(b)
    <3>1. PICK p \in DOMAIN heap : heap[p].files # "closed" /\ heap[p].baseOffset = b
      BY <2>2 DEF Held
    <3> QED BY <3>1, ObjectHeld, Dereference DEF Inv, TypeOK
  <2> QED BY <2>1, <2>2
<1> QED BY <1>1, <1>2 DEF SizeOf, SegmentObject, SegmentRecord

(* Without crashes a segment ends where its index says.                    *)
LEMMA ObjectEnds ==
    ASSUME MaxCrashes = 0, Inv, OrderInv, HonestInv, NEW b \in DOMAIN indexFile
    PROVE  ObjectOf(b).nextOffset = b + SizeOf(b)
<1>1. CASE Held(b)
  <2>1. PICK p \in DOMAIN heap : heap[p].files # "closed" /\ heap[p].baseOffset = b
    BY <1>1 DEF Held
  <2>2. Counted(heap[p], Contents(indexFile, b))
    BY <2>1 DEF HonestInv, ObjectsHonest
  <2> QED BY <2>1, <2>2, ObjectHeld DEF Counted, Trusted
<1>2. CASE ~ Held(b)
  <2> DEFINE ix == indexFile[b]
             n  == Len(ix)
  <2>1. Counts(ix, n)
    BY <1>2 DEF HonestInv, RestExact, Trusted
  <2>2. ix \in Seq(Entry) /\ n \in Nat /\ b \in Nat
    BY LenProperties, ObjectTypes DEF Inv, TypeOK, DiskOK, FileOf
  <2>3. ObjectOf(b) = WithIndex(NewStore(b, storeFile), ix) /\ SizeOf(b) = n
    BY <1>2, ObjectRest DEF NewSegment, Contents
  <2>4. ObjectOf(b).nextOffset = IF ix = <<>> THEN b ELSE b + ix[n].off + 1
    BY <2>3 DEF WithIndex, NewStore
  <2>5. CASE ix = <<>>
    <3>1. n = 0
      BY <2>5, EmptySeq
    <3> HIDE DEF n, ix
    <3> QED BY <2>2, <2>3, <2>4, <2>5, <3>1
  <2>6. CASE ix # <<>>
    <3>1. n # 0
      BY <2>2, <2>6, EmptySeq
    <3>2. n \in 1 .. n
      <4> HIDE DEF n
      <4> QED BY <2>2, <3>1
    <3>3. ix[n].off + 1 = n /\ ix[n].off \in Nat
      <4>1. n \in DOMAIN ix /\ ix[n].off + 1 = n
        BY <2>1, <3>2 DEF Counts
      <4>2. ix[n] \in Entry
        BY <2>2, <4>1, ElementOfSeq, LenProperties
      <4> QED BY <4>1, <4>2 DEF Entry
    <3> DEFINE last == ix[n].off
    <3>4. last + 1 = n /\ last \in Nat /\ ObjectOf(b).nextOffset = b + last + 1
      BY <2>4, <2>6, <3>3
    <3> HIDE DEF n, last
    <3> QED BY <2>2, <2>3, <3>4
  <2> QED BY <2>5, <2>6
<1> QED BY <1>1, <1>2

LEMMA NewestEnds ==
    ASSUME MaxCrashes = 0, Inv, OrderInv, HonestInv, NEW b, Newest(b)
    PROVE  LogNext = b + SizeOf(b) /\ LogNext \in Nat
<1>1. b \in DOMAIN indexFile /\ \A c \in DOMAIN indexFile : c <= b /\ c \in Nat
  BY ObjectTypes DEF Newest
<1>2. indexFile # <<>>
  BY <1>1
<1>3. (CHOOSE d \in DOMAIN indexFile : \A c \in DOMAIN indexFile : c <= d) = b
  BY <1>1
<1> QED BY <1>1, <1>2, <1>3, ObjectEnds, ObjectTypes DEF LogNext

(* The segments do not overlap.                                            *)
LEMMA SegmentsApart ==
    ASSUME MaxCrashes = 0, Inv, OrderInv, HonestInv,
           NEW b \in DOMAIN indexFile, NEW c \in DOMAIN indexFile, b < c
    PROVE  b + SizeOf(b) <= c
<1>1. ObjectOf(b).nextOffset = b + SizeOf(b) /\ b \in Nat /\ c \in Nat
      /\ c \in DOMAIN storeFile /\ SizeOf(b) \in Nat
  BY ObjectEnds, ObjectTypes
<1>2. CASE ~ Held(b)
  <2>1. EndOf(indexFile[b], b) <= c
    BY <1>1 DEF OrderInv, FilesOK
  <2>2. ObjectOf(b).nextOffset = EndOf(indexFile[b], b)
    BY <1>2, ObjectRest DEF NewSegment, WithIndex, NewStore, EndOf, Contents
  <2> QED BY <1>1, <2>1, <2>2
<1>3. CASE Held(b)
  <2>1. PICK p \in DOMAIN heap : heap[p].files # "closed" /\ heap[p].baseOffset = b
    BY <1>3 DEF Held
  <2>2. heap[p].nextOffset = b + SizeOf(b)
    BY <1>1, <2>1, ObjectHeld
  <2>3. ASSUME NEW q \in DOMAIN heap, heap[q].baseOffset = c
        PROVE  heap[p].nextOffset <= c
    <3>1. p < q \/ q < p \/ p = q
      BY PointersAreNumbers DEF Inv, TypeOK
    <3>2. ~ (q < p) /\ p # q
      <4>1. q < p => c < b
        BY <2>1, <2>3 DEF OrderInv, HeapOrdered, Precedes
      <4> QED BY <1>1, <2>1, <2>3, <4>1
    <3> QED BY <2>3, <3>1, <3>2 DEF OrderInv, HeapOrdered, Precedes
  <2>4. status \in {"setup", "up", "closing"}
    <3>1. status # "down"
      <4>1. status = "down" => DOMAIN heap = {}
        BY EmptySeq DEF OrderInv, ControlOK
      <4> QED BY <2>1, <4>1
    <3> QED BY <3>1 DEF OrderInv, ControlOK, Inv, TypeOK, ProcessOK
  <2>5. CASE \E q \in DOMAIN heap : heap[q].baseOffset = c
    BY <2>2, <2>3, <2>5
  <2>6. CASE ~ \E q \in DOMAIN heap : heap[q].baseOffset = c
    <3>1. status = "setup"
      BY <1>1, <2>4, <2>6 DEF OrderInv, ObjectFiles
    <3>2. PICK n \in todo : n[1] = c
      BY <1>1, <2>6, <3>1 DEF OrderInv, SetupOK
    <3> QED BY <2>1, <2>2, <3>1, <3>2 DEF OrderInv, SetupOK
  <2> QED BY <2>5, <2>6
<1> QED BY <1>2, <1>3

LEMMA OneSpan ==
    ASSUME MaxCrashes = 0, Inv, OrderInv, HonestInv,
           NEW b \in DOMAIN indexFile, NEW c \in DOMAIN indexFile, NEW off \in Nat,
           b <= off, off < b + SizeOf(b), c <= off, off < c + SizeOf(c)
    PROVE  b = c
<1>1. /\ b \in Nat /\ c \in Nat /\ SizeOf(b) \in Nat /\ SizeOf(c) \in Nat
      /\ b < c => b + SizeOf(b) <= c
      /\ c < b => c + SizeOf(c) <= b
  BY SegmentsApart, ObjectTypes
<1> QED BY <1>1

(* What is stored under a base offset, as the refinement mapping sees it.  *)
DataOf(b) == Contents(storeFile, b) \o ObjectOf(b).buf

LEMMA DataTypes ==
    ASSUME Inv, OrderInv, NEW b \in DOMAIN indexFile
    PROVE  /\ DataOf(b) \in Seq(Chunk) /\ indexFile[b] \in Seq(Entry)
           /\ ~ Held(b) => DataOf(b) = storeFile[b]
           /\ \A p \in DOMAIN heap : heap[p].files # "closed" /\ heap[p].baseOffset = b
                => DataOf(b) = StoredFor(heap[p])
<1>1. /\ b \in DOMAIN storeFile /\ storeFile[b] \in Seq(Chunk)
      /\ ObjectOf(b) \in SegmentObject /\ indexFile[b] \in Seq(Entry)
  BY ObjectTypes DEF Inv, TypeOK, DiskOK, FileOf
<1>2. Contents(storeFile, b) = storeFile[b]
  BY <1>1 DEF Contents
<1>3. DataOf(b) \in Seq(Chunk)
  BY <1>1, <1>2, ConcatProperties DEF DataOf, SegmentObject, SegmentRecord
<1>4. ~ Held(b) => DataOf(b) = storeFile[b]
  <2> SUFFICES ASSUME ~ Held(b) PROVE DataOf(b) = storeFile[b]
    OBVIOUS
  <2>1. ObjectOf(b) = NewSegment(b, storeFile, indexFile)
    BY ObjectRest
  <2>2. NewSegment(b, storeFile, indexFile).buf = <<>>
    BY DEF NewSegment, WithIndex, NewStore
  <2> QED BY <1>1, <1>2, <2>1, <2>2, EmptyTail DEF DataOf
<1>5. ASSUME NEW p \in DOMAIN heap, heap[p].files # "closed", heap[p].baseOffset = b
      PROVE  DataOf(b) = StoredFor(heap[p])
  BY <1>2, <1>5, ObjectHeld DEF DataOf, StoredFor
<1> QED BY <1>1, <1>3, <1>4, <1>5

(* A record is where the mapping looks for its offset.                     *)
LEMMA CoveredWhere ==
    ASSUME Inv, OrderInv, NEW a, a.off \in Nat, Covered(a)
    PROVE  \E b \in DOMAIN indexFile :
              /\ At(a, b, DataOf(b), indexFile[b], SizeOf(b))
              /\ b <= a.off /\ a.off < b + SizeOf(b)
<1>1. PICK b \in DOMAIN indexFile : At(a, b, DataOf(b), indexFile[b], SizeOf(b))
  <2>1. ASSUME NEW b \in DOMAIN indexFile, ~ Held(b),
               At(a, b, storeFile[b], indexFile[b], Len(indexFile[b]))
        PROVE  At(a, b, DataOf(b), indexFile[b], SizeOf(b))
    <3>1. DataOf(b) = storeFile[b]
      BY <2>1, DataTypes
    <3>2. SizeOf(b) = Len(indexFile[b])
      BY <2>1, ObjectRest
    <3> QED BY <2>1, <3>1, <3>2
  <2>2. ASSUME NEW p \in DOMAIN heap, heap[p].files # "closed",
               NEW b \in DOMAIN indexFile, heap[p].baseOffset = b,
               At(a, b, StoredFor(heap[p]), indexFile[b], heap[p].indexSize)
        PROVE  At(a, b, DataOf(b), indexFile[b], SizeOf(b))
    <3>1. DataOf(b) = StoredFor(heap[p])
      BY <2>2, DataTypes
    <3>2. SizeOf(b) = heap[p].indexSize
      BY <2>2, ObjectHeld
    <3> QED BY <2>2, <3>1, <3>2
  <2> QED BY <2>1, <2>2 DEF Covered
<1>2. PICK j \in DOMAIN indexFile[b] : j <= SizeOf(b) /\ a.off + 1 = b + j
  BY <1>1 DEF At
<1>3. j \in Nat \ {0}
  <2>1. indexFile[b] \in Seq(Entry)
    BY DataTypes
  <2>2. \A k \in Nat : \A i \in 1 .. k : i \in Nat \ {0}
    OBVIOUS
  <2> QED BY <2>1, <2>2, LenProperties
<1>4. b \in Nat /\ SizeOf(b) \in Nat
  BY ObjectTypes
<1>5. b <= a.off /\ a.off < b + SizeOf(b)
  BY <1>2, <1>3, <1>4
<1> QED BY <1>1, <1>5

LEMMA CoveredSpans ==
    ASSUME Inv, OrderInv, NEW a, a.off \in Nat, Covered(a)
    PROVE  Spans(a.off)
<1> QED BY CoveredWhere DEF Spans

(* What Stored finds of a record.                                          *)
LEMMA StoredFrame ==
    ASSUME Inv, OrderInv, NEW b \in DOMAIN indexFile, NEW a, a.off \in Nat, b <= a.off,
           At(a, b, DataOf(b), indexFile[b], SizeOf(b))
    PROVE  Stored(ObjectOf(b), a.off) = {[part |-> "body", off |-> a.off, val |-> a.val]}
<1> DEFINE S  == DataOf(b)
           ix == indexFile[b]
           c  == [part |-> "body", off |-> a.off, val |-> a.val]
<1>1. PICK j \in DOMAIN ix : a.off + 1 = b + j /\ FrameAt(S, ix[j].pos, a)
  BY DEF At
<1>2. ix \in Seq(Entry) /\ S \in Seq(Chunk) /\ b \in Nat /\ ObjectOf(b).baseOffset = b
  BY DataTypes, ObjectTypes
<1>3. j \in Nat /\ ix[j].pos \in Nat
  <2>1. DOMAIN ix = 1 .. Len(ix) /\ ix \in [DOMAIN ix -> Entry]
    BY <1>2, LenProperties
  <2> HIDE DEF ix
  <2> QED BY <2>1 DEF Entry
<1>4. a.off - b + 1 = j
  BY <1>1, <1>2, <1>3
<1>5. Stored(ObjectOf(b), a.off) = StoreRead(S, ix[j].pos)
  BY <1>1, <1>2, <1>4 DEF Stored, EntryAt, DataOf
<1> DEFINE pos == ix[j].pos
           z   == pos + 2
<1>6. /\ z \in DOMAIN S /\ S[z] = c
      /\ S[pos + 1] = [part |-> "length", off |-> a.off, val |-> a.val]
  BY <1>1 DEF FrameAt, IsBody
<1>7. z - 1 = pos + 1
  BY <1>3
<1>8. [c EXCEPT !.part = "length"] = [part |-> "length", off |-> a.off, val |-> a.val]
  OBVIOUS
<1>9. c.part = "body"
  OBVIOUS
<1> HIDE DEF S, ix, c
<1>10. StoreRead(S, pos) = {S[z]}
  BY <1>6, <1>7, <1>8, <1>9 DEF StoreRead
<1> QED BY <1>5, <1>6, <1>10 DEF c

(* The refinement mapping finds the records that are covered.              *)
LEMMA RecordsAre ==
    ASSUME MaxCrashes = 0, Inv, OrderInv, HonestInv, AllFramed
    PROVE  /\ DOMAIN LogRecords = {off \in 0 .. MaxOffset + 1 : Spans(off)}
           /\ \A off \in DOMAIN LogRecords : \A r :
                 Covered(Rec(off, r)) => LogRecords[off] = r
           /\ LogRecords = [off \in DOMAIN LogRecords |-> LogRecords[off]]
<1> DEFINE objects == {ObjectOf(base) : base \in DOMAIN indexFile}
           found   == [off \in 0 .. MaxOffset + 1 |->
                          UNION {Stored(s, off) : s \in {o \in objects : Holds(o, off)}}]
<1>1. ASSUME NEW off \in 0 .. MaxOffset + 1, NEW o \in objects, Holds(o, off)
      PROVE  Spans(off)
  <2>1. PICK b \in DOMAIN indexFile : o = ObjectOf(b)
    OBVIOUS
  <2>2. o.baseOffset = b /\ o.nextOffset = b + SizeOf(b)
    BY <2>1, ObjectTypes, ObjectEnds
  <2> QED BY <1>1, <2>2 DEF Holds, Spans
<1>2. ASSUME NEW off \in 0 .. MaxOffset + 1, NEW r, Covered(Rec(off, r))
      PROVE  found[off] = {[part |-> "body", off |-> off, val |-> r]}
  <2> DEFINE a == Rec(off, r)
  <2>1. a.off = off /\ a.val = r /\ off \in Nat
    BY CommitLogAssumption DEF Rec
  <2> HIDE DEF a
  <2>2. PICK b \in DOMAIN indexFile :
               /\ At(a, b, DataOf(b), indexFile[b], SizeOf(b))
               /\ b <= off /\ off < b + SizeOf(b)
    BY <1>2, <2>1, CoveredWhere DEF a
  <2>3. Stored(ObjectOf(b), off) = {[part |-> "body", off |-> off, val |-> r]}
    BY <2>1, <2>2, StoredFrame
  <2>4. Holds(ObjectOf(b), off)
    BY <2>2, ObjectTypes, ObjectEnds DEF Holds
  <2>5. ASSUME NEW o \in objects, Holds(o, off) PROVE o = ObjectOf(b)
    <3>1. PICK c \in DOMAIN indexFile : o = ObjectOf(c)
      OBVIOUS
    <3>2. o.baseOffset = c /\ o.nextOffset = c + SizeOf(c)
      BY <3>1, ObjectTypes, ObjectEnds
    <3>3. c <= off /\ off < c + SizeOf(c)
      BY <2>5, <3>2 DEF Holds
    <3> QED BY <2>1, <2>2, <3>1, <3>3, OneSpan
  <2>6. {o \in objects : Holds(o, off)} = {ObjectOf(b)}
    BY <2>4, <2>5
  <2>7. found[off] = UNION {Stored(s, off) : s \in {o \in objects : Holds(o, off)}}
    OBVIOUS
  <2> HIDE DEF objects, found
  <2> QED BY <2>3, <2>6, <2>7
<1>3. ASSUME NEW off \in 0 .. MaxOffset + 1 PROVE found[off] # {} <=> Spans(off)
  <2>1. CASE Spans(off)
    <3>1. PICK r \in Records : Covered(Rec(off, r))
      BY <2>1 DEF AllFramed
    <3>2. found[off] = {[part |-> "body", off |-> off, val |-> r]}
      BY <1>2, <3>1
    <3> HIDE DEF found
    <3> QED BY <2>1, <3>2
  <2>2. CASE ~ Spans(off)
    <3>1. {o \in objects : Holds(o, off)} = {}
      BY <1>1, <2>2
    <3>2. found[off] = UNION {Stored(s, off) : s \in {o \in objects : Holds(o, off)}}
      OBVIOUS
    <3> HIDE DEF objects, found
    <3> QED BY <2>2, <3>1, <3>2
  <2> QED BY <2>1, <2>2
<1>4. DOMAIN found = 0 .. MaxOffset + 1
  OBVIOUS
<1>5. LogRecords = [off \in {o \in DOMAIN found : found[o] # {}} |->
                       (CHOOSE c \in found[off] : TRUE).val]
  BY Zenon DEF LogRecords
<1> HIDE DEF found
<1>6. DOMAIN LogRecords = {off \in 0 .. MaxOffset + 1 : Spans(off)}
  BY <1>3, <1>4, <1>5
<1>7. ASSUME NEW off \in DOMAIN LogRecords, NEW r, Covered(Rec(off, r))
      PROVE  LogRecords[off] = r
  <2> DEFINE c == [part |-> "body", off |-> off, val |-> r]
  <2>1. off \in 0 .. MaxOffset + 1
    BY <1>6
  <2>2. found[off] = {c}
    BY <1>2, <1>7, <2>1
  <2>3. LogRecords[off] = (CHOOSE d \in found[off] : TRUE).val
    BY <1>4, <1>5, <1>6, <1>7, <2>2
  <2>4. (CHOOSE d \in {c} : TRUE) = c
    OBVIOUS
  <2>5. c.val = r
    OBVIOUS
  <2> HIDE DEF c
  <2> QED BY <2>2, <2>3, <2>4, <2>5
<1>8. LogRecords = [off \in DOMAIN LogRecords |-> LogRecords[off]]
  BY <1>5
<1> QED BY <1>6, <1>7, <1>8

(* The same of the next state.                                             *)
LEMMA RecordsAreNext ==
    ASSUME MaxCrashes = 0
    PROVE  (Inv /\ OrderInv /\ HonestInv /\ AllFramed)' =>
              (/\ DOMAIN LogRecords = {off \in 0 .. MaxOffset + 1 : Spans(off)}
               /\ \A off \in DOMAIN LogRecords : \A r :
                     Covered(Rec(off, r)) => LogRecords[off] = r
               /\ LogRecords = [off \in DOMAIN LogRecords |-> LogRecords[off]])'
<1>1. Inv /\ OrderInv /\ HonestInv /\ AllFramed =>
              /\ DOMAIN LogRecords = {off \in 0 .. MaxOffset + 1 : Spans(off)}
              /\ \A off \in DOMAIN LogRecords : \A r :
                    Covered(Rec(off, r)) => LogRecords[off] = r
              /\ LogRecords = [off \in DOMAIN LogRecords |-> LogRecords[off]]
  BY RecordsAre
<1> QED BY <1>1, PTL

LEMMA NewestEndsNext ==
    ASSUME MaxCrashes = 0
    PROVE  (Inv /\ OrderInv /\ HonestInv)' =>
              (\A b : Newest(b) => LogNext = b + SizeOf(b) /\ LogNext \in Nat)'
<1>1. Inv /\ OrderInv /\ HonestInv =>
         \A b : Newest(b) => LogNext = b + SizeOf(b) /\ LogNext \in Nat
  BY NewestEnds
<1> QED BY <1>1, PTL

LEMMA ObjectHeldNext ==
    (Inv /\ OrderInv)' =>
        (\A p \in DOMAIN heap : \A b :
            heap[p].files # "closed" /\ b = heap[p].baseOffset => SizeOf(b) = heap[p].indexSize)'
<1>1. Inv /\ OrderInv =>
        \A p \in DOMAIN heap : \A b :
            heap[p].files # "closed" /\ b = heap[p].baseOffset => SizeOf(b) = heap[p].indexSize
  BY ObjectHeld
<1> QED BY <1>1, PTL

LEMMA ObjectRestNext ==
    (\A b \in DOMAIN indexFile : ~ Held(b) => SizeOf(b) = Len(indexFile[b]))'
<1>1. \A b \in DOMAIN indexFile : ~ Held(b) => SizeOf(b) = Len(indexFile[b])
  BY ObjectRest
<1> QED BY <1>1, PTL

(* A step that touches one object and the files of its base offset.        *)
LEMMA SizesElsewhere ==
    ASSUME Inv, OrderInv, Inv', OrderInv',
           NEW b, NEW p \in DOMAIN heap', heap'[p].baseOffset = b,
           p \in DOMAIN heap => heap[p].baseOffset = b,
           \A q \in DOMAIN heap' \ {p} :
              q \in DOMAIN heap /\ heap'[q] = heap[q] /\ heap[q].baseOffset # b,
           \A q \in DOMAIN heap : q \in DOMAIN heap',
           NEW c \in DOMAIN indexFile, c # b, c \in DOMAIN indexFile',
           indexFile'[c] = indexFile[c]
    PROVE  SizeOf(c)' = SizeOf(c)
<1>1. CASE Held(c)
  <2>1. PICK q \in DOMAIN heap : heap[q].files # "closed" /\ heap[q].baseOffset = c
    BY <1>1 DEF Held
  <2>2. q \in DOMAIN heap' /\ heap'[q] = heap[q]
    BY <2>1
  <2>3. SizeOf(c) = heap[q].indexSize
    BY <2>1, ObjectHeld
  <2>4. SizeOf(c)' = heap'[q].indexSize
    BY <2>1, <2>2, ObjectHeldNext
  <2> QED BY <2>2, <2>3, <2>4
<1>2. CASE ~ Held(c)
  <2>1. ~ Held(c)'
    BY <1>2 DEF Held
  <2>2. SizeOf(c) = Len(indexFile[c])
    BY <1>2, ObjectRest
  <2>3. SizeOf(c)' = Len(indexFile'[c])
    BY <2>1, ObjectRestNext
  <2> QED BY <2>2, <2>3
<1> QED BY <1>1, <1>2

(* A step after which every segment has the size it had.                   *)
LEMMA SizesKept ==
    ASSUME MaxCrashes = 0, Inv, OrderInv, HonestInv, Inv', OrderInv', HonestInv', HasNewest,
           DOMAIN indexFile' = DOMAIN indexFile, indexFile = <<>> => indexFile' = <<>>,
           \A b \in DOMAIN indexFile : SizeOf(b)' = SizeOf(b)
    PROVE  /\ HasNewest' /\ LogNext' = LogNext
           /\ \A off : Spans(off)' <=> Spans(off)
<1>1. \A off : Spans(off)' <=> Spans(off)
  BY DEF Spans
<1>2. CASE indexFile = <<>>
  BY <1>1, <1>2 DEF HasNewest, LogNext
<1>3. CASE indexFile # <<>>
  <2>1. PICK b \in DOMAIN indexFile : Newest(b)
    BY <1>3 DEF HasNewest
  <2>2. Newest(b)'
    BY <2>1 DEF Newest
  <2>3. LogNext = b + SizeOf(b)
    BY <2>1, NewestEnds
  <2>4. LogNext' = b + SizeOf(b)'
    BY <2>2, NewestEndsNext
  <2>5. SizeOf(b)' = SizeOf(b)
    BY <2>1
  <2>6. HasNewest'
    BY <2>1, <2>2 DEF HasNewest
  <2> QED BY <1>1, <2>3, <2>4, <2>5, <2>6
<1> QED BY <1>2, <1>3

(* A step that adds an empty segment at the next offset.                   *)
LEMMA SizesGrown ==
    ASSUME MaxCrashes = 0, Inv, OrderInv, HonestInv, Inv', OrderInv', HonestInv',
           NEW y \in Nat, y = LogNext, y \notin DOMAIN indexFile,
           DOMAIN indexFile' = DOMAIN indexFile \cup {y},
           \A b \in DOMAIN indexFile : SizeOf(b)' = SizeOf(b) /\ b <= y,
           SizeOf(y)' = 0
    PROVE  /\ HasNewest' /\ LogNext' = LogNext
           /\ \A off \in Nat : Spans(off)' <=> Spans(off)
<1>1. Newest(y)'
  BY DEF Newest
<1>2. LogNext' = y + SizeOf(y)'
  BY <1>1, NewestEndsNext
<1>3. HasNewest'
  BY <1>1 DEF HasNewest, Newest
<1>4. \A off \in Nat : Spans(off)' <=> Spans(off)
  BY DEF Spans
<1> QED BY <1>2, <1>3, <1>4

(* The records after a step that moves none, that adds one, that drops the *)
(* oldest.                                                                 *)
LEMMA WindowKept ==
    ASSUME MaxCrashes = 0, LogInv, Inv', OrderInv', HonestInv',
           \A off \in Nat : Spans(off)' <=> Spans(off),
           \A a : Covered(a) => Covered(a)'
    PROVE  AllFramed' /\ LogRecords' = LogRecords
<1>0. \A off \in 0 .. MaxOffset + 1 : off \in Nat
  BY CommitLogAssumption
<1>1. AllFramed'
  BY <1>0 DEF LogInv, WindowInv, AllFramed
<1>2. DOMAIN LogRecords = {off \in 0 .. MaxOffset + 1 : Spans(off)}
      /\ LogRecords = [off \in DOMAIN LogRecords |-> LogRecords[off]]
  BY RecordsAre DEF LogInv, WindowInv
<1>3. DOMAIN LogRecords' = {off \in 0 .. MaxOffset + 1 : Spans(off)'}
      /\ LogRecords' = [off \in DOMAIN LogRecords' |-> LogRecords'[off]]
  BY <1>1, RecordsAreNext
<1>4. DOMAIN LogRecords' = DOMAIN LogRecords
  BY <1>0, <1>2, <1>3
<1>5. ASSUME NEW off \in DOMAIN LogRecords PROVE LogRecords'[off] = LogRecords[off]
  <2>1. PICK r \in Records : Covered(Rec(off, r))
    BY <1>2, <1>5 DEF LogInv, WindowInv, AllFramed
  <2>2. LogRecords[off] = r
    BY <1>5, <2>1, RecordsAre DEF LogInv, WindowInv
  <2>3. Covered(Rec(off, r))'
    BY <2>1
  <2>4. LogRecords'[off] = r
    BY <1>1, <1>4, <1>5, <2>3, RecordsAreNext DEF Rec
  <2> QED BY <2>2, <2>4
<1>6. LogRecords' = LogRecords
  BY <1>2, <1>3, <1>4, <1>5, Zenon
<1> QED BY <1>1, <1>6

LEMMA WindowGrown ==
    ASSUME MaxCrashes = 0, LogInv, Inv', OrderInv', HonestInv',
           NEW r \in Records, NEW n \in 0 .. MaxOffset + 1,
           \A off \in Nat : Spans(off)' <=> Spans(off) \/ off = n,
           \A a : Covered(a) \/ a = Rec(n, r) => Covered(a)'
    PROVE  /\ AllFramed'
           /\ LogRecords' = [off \in DOMAIN LogRecords \cup {n} |->
                                IF off = n THEN r ELSE LogRecords[off]]
<1>0. \A off \in 0 .. MaxOffset + 1 : off \in Nat
  BY CommitLogAssumption
<1>1. AllFramed'
  <2>1. ASSUME NEW off \in 0 .. MaxOffset + 1, Spans(off)'
        PROVE  \E x \in Records : Covered(Rec(off, x))'
    <3>1. CASE off = n
      BY <3>1
    <3>2. CASE off # n
      <4>1. PICK x \in Records : Covered(Rec(off, x))
        BY <1>0, <2>1, <3>2 DEF LogInv, WindowInv, AllFramed
      <4> QED BY <4>1
    <3> QED BY <3>1, <3>2
  <2> QED BY <2>1 DEF AllFramed
<1>2. DOMAIN LogRecords = {off \in 0 .. MaxOffset + 1 : Spans(off)}
  BY RecordsAre DEF LogInv, WindowInv
<1>3. DOMAIN LogRecords' = {off \in 0 .. MaxOffset + 1 : Spans(off)'}
      /\ LogRecords' = [off \in DOMAIN LogRecords' |-> LogRecords'[off]]
  BY <1>1, RecordsAreNext
<1>4. DOMAIN LogRecords' = DOMAIN LogRecords \cup {n}
  BY <1>0, <1>2, <1>3
<1>5. ASSUME NEW off \in DOMAIN LogRecords \cup {n}
      PROVE  LogRecords'[off] = IF off = n THEN r ELSE LogRecords[off]
  <2>1. CASE off = n
    <3>1. Covered(Rec(off, r))'
      BY <2>1
    <3> QED BY <1>1, <1>4, <1>5, <2>1, <3>1, RecordsAreNext DEF Rec
  <2>2. CASE off # n
    <3>1. PICK x \in Records : Covered(Rec(off, x))
      BY <1>2, <1>5, <2>2 DEF LogInv, WindowInv, AllFramed
    <3>2. LogRecords[off] = x
      BY <1>5, <2>2, <3>1, RecordsAre DEF LogInv, WindowInv
    <3>3. Covered(Rec(off, x))'
      BY <3>1
    <3>4. LogRecords'[off] = x
      BY <1>1, <1>4, <1>5, <3>3, RecordsAreNext DEF Rec
    <3> QED BY <2>2, <3>2, <3>4
  <2> QED BY <2>1, <2>2
<1>6. LogRecords' = [off \in DOMAIN LogRecords \cup {n} |-> LogRecords'[off]]
  BY <1>3, <1>4
<1>7. LogRecords' = [off \in DOMAIN LogRecords \cup {n} |->
                        IF off = n THEN r ELSE LogRecords[off]]
  BY <1>5, <1>6, Zenon
<1> QED BY <1>1, <1>7

LEMMA WindowDropped ==
    ASSUME MaxCrashes = 0, LogInv, Inv', OrderInv', HonestInv', NEW first,
           \A off \in Nat : Spans(off)' <=> Spans(off) /\ first <= off,
           \A a : Covered(a) /\ a.off \in Nat /\ first <= a.off => Covered(a)'
    PROVE  /\ AllFramed'
           /\ LogRecords' = [off \in {o \in DOMAIN LogRecords : first <= o} |-> LogRecords[off]]
<1>0. \A off \in 0 .. MaxOffset + 1 : off \in Nat /\ \A r : Rec(off, r).off = off
  BY CommitLogAssumption DEF Rec
<1>1. AllFramed'
  <2>1. ASSUME NEW off \in 0 .. MaxOffset + 1, Spans(off)'
        PROVE  \E x \in Records : Covered(Rec(off, x))'
    <3>1. PICK x \in Records : Covered(Rec(off, x))
      BY <1>0, <2>1 DEF LogInv, WindowInv, AllFramed
    <3> QED BY <1>0, <2>1, <3>1
  <2> QED BY <2>1 DEF AllFramed
<1>2. DOMAIN LogRecords = {off \in 0 .. MaxOffset + 1 : Spans(off)}
  BY RecordsAre DEF LogInv, WindowInv
<1>3. DOMAIN LogRecords' = {off \in 0 .. MaxOffset + 1 : Spans(off)'}
      /\ LogRecords' = [off \in DOMAIN LogRecords' |-> LogRecords'[off]]
  BY <1>1, RecordsAreNext
<1> DEFINE D == {o \in DOMAIN LogRecords : first <= o}
<1>4. DOMAIN LogRecords' = D
  BY <1>0, <1>2, <1>3
<1>5. ASSUME NEW off \in D PROVE LogRecords'[off] = LogRecords[off]
  <2>1. PICK r \in Records : Covered(Rec(off, r))
    BY <1>2, <1>5 DEF LogInv, WindowInv, AllFramed
  <2>2. LogRecords[off] = r
    BY <1>5, <2>1, RecordsAre DEF LogInv, WindowInv
  <2>3. Covered(Rec(off, r))'
    BY <1>0, <1>2, <1>5, <2>1
  <2>4. LogRecords'[off] = r
    BY <1>1, <1>4, <1>5, <2>3, RecordsAreNext DEF Rec
  <2> QED BY <2>2, <2>4
<1> HIDE DEF D
<1>6. LogRecords' = [off \in D |-> LogRecords'[off]]
  BY <1>3, <1>4
<1>7. LogRecords' = [off \in D |-> LogRecords[off]]
  BY <1>5, <1>6, Zenon
<1> QED BY <1>1, <1>7 DEF D

-----------------------------------------------------------------------------
(* The control part of the invariant.                                      *)

LEMMA IdleControl ==
    ASSUME \A t \in Threads : pc'[t] = "idle", BothFiles'
    PROVE  ControlInv'
<1> QED BY DEF ControlInv, LoopSpares, RoomLeft, RollNext, Truncating

LEMMA SetupControl ==
    ASSUME Inv, OrderInv, ControlInv, SetupBegin \/ SetupSegment \/ SetupDone
    PROVE  ControlInv'
<1>1. \A t \in Threads : pc'[t] = "idle"
  BY DEF SetupBegin, SetupSegment, SetupDone, threads, Inv, PointersSet, LocalsSet
<1>2. BothFiles'
  <2>1. CASE SetupBegin
    <3>1. status = "down"
      BY <2>1 DEF SetupBegin, OrderInv, ControlOK
    <3> QED BY <2>1, <3>1 DEF SetupBegin, disk, ControlInv, BothFiles
  <2>2. CASE SetupSegment
    <3>1. status = "setup" /\ OpenSegment(FirstName(todo)[1])
      BY <2>2 DEF SetupSegment
    <3>2. /\ DOMAIN storeFile' = DOMAIN storeFile \cup {FirstName(todo)[1]}
          /\ DOMAIN indexFile' = DOMAIN indexFile \cup {FirstName(todo)[1]}
      BY <3>1 DEF OpenSegment, Put
    <3> QED BY <3>1, <3>2 DEF ControlInv, BothFiles
  <2>3. CASE SetupDone
    BY <2>3 DEF SetupDone, BothFiles
  <2> QED BY <2>1, <2>2, <2>3
<1> QED BY <1>1, <1>2, IdleControl

LEMMA CloseControl ==
    ASSUME MaxCrashes = 0, Inv, OrderInv, ControlInv,
           CloseBegin \/ CloseIndex \/ CloseStore \/ CloseEnd \/ Crash
    PROVE  ControlInv'
<1>1. ~ Crash
  BY CommitLogAssumption DEF Crash, Inv, TypeOK, BoundsOK
<1>2. \A t \in Threads : pc'[t] = "idle"
  BY <1>1 DEF CloseBegin, CloseIndex, CloseStore, CloseEnd, Die, threads, Inv, PointersSet, LocalsSet
<1>3. BothFiles'
  <2>1. CASE CloseBegin
    <3>1. /\ status = "up" /\ \A t \in Threads : pc[t] = "idle"
          /\ storeFile' = storeFile /\ indexFile' = indexFile
      BY <2>1 DEF CloseBegin, disk
    <3>2. \A b : ~ Removing(b) /\ ~ Creating(b)
      BY <3>1 DEF Removing, Creating
    <3> QED BY <3>1, <3>2 DEF OrderInv, ObjectFiles, BothFiles
  <2>2. CASE CloseIndex \/ CloseStore
    <3>1. status = "closing" /\ DOMAIN storeFile' = DOMAIN storeFile
          /\ DOMAIN indexFile' = DOMAIN indexFile
      BY <2>2 DEF CloseIndex, CloseStore, Cut, Grown
    <3> QED BY <3>1 DEF ControlInv, BothFiles
  <2>3. CASE CloseEnd
    BY <2>3 DEF CloseEnd, Die, disk, ControlInv, BothFiles
  <2> QED BY <1>1, <2>1, <2>2, <2>3
<1> QED BY <1>2, <1>3, IdleControl

LEMMA ReadControl ==
    ASSUME Inv, OrderInv, ControlInv, NEW off, Read(off)
    PROVE  ControlInv'
<1>1. PICK p \in Found(off) : heap' = [heap EXCEPT ![p] = Flushed(heap[p])]
  BY DEF Read
<1>2. /\ UNCHANGED <<indexFile, segments, active, status, pc, local>>
      /\ status = "up" /\ mu = NoThread
  BY DEF Read, process, threads
<1>3. p \in DOMAIN heap
  <2>1. p \in Elements(segments)
    BY <1>1 DEF Found, Holders, Elements
  <2> QED BY <2>1, ElementsType DEF Inv, TypeOK, LogOK
<1>4. heap[p] \in SegmentObject /\ Flushed(heap[p]) \in SegmentObject
  BY <1>3, Dereference, EmptiedType DEF Inv, TypeOK
<1>5. /\ DOMAIN heap' = DOMAIN heap /\ Len(heap') = Len(heap)
      /\ heap'[p] = Flushed(heap[p])
      /\ \A q \in DOMAIN heap : q # p => heap'[q] = heap[q]
  BY <1>1, <1>3, <1>4, HeapChanged DEF Inv, TypeOK
<1>6. \A q \in DOMAIN heap : heap'[q].nextOffset = heap[q].nextOffset
                           /\ heap'[q].baseOffset = heap[q].baseOffset
  BY <1>4, <1>5 DEF Flushed, SegmentObject, SegmentRecord
<1>7. Len(heap) \in DOMAIN heap /\ active \in DOMAIN heap
  BY <1>2, NewestIsTop DEF Inv, PointersSet, ActiveSet, TypeOK, LogOK
<1>8. \A t \in Threads : ~ Truncating(t) /\ ~ Truncating(t)'
  <2>1. \A t \in Threads : ~ Truncating(t)
    BY <1>2, CommitLogAssumption DEF OrderInv, ControlOK
  <2> QED BY <1>2, <2>1 DEF Truncating
<1>9. LoopSpares' /\ BothFiles'
  BY <1>2, <1>8 DEF LoopSpares, BothFiles
<1>10. RoomLeft' /\ RollNext'
  BY <1>2, <1>5, <1>6, <1>7, <1>8 DEF ControlInv, RoomLeft, RollNext
<1> QED BY <1>9, <1>10 DEF ControlInv

(* A step of the one goroutine inside Append.                              *)
LEMMA AppendControl ==
    ASSUME Sequential, Inv, Inv', OrderInv, OrderInv', ControlInv, NEW t \in Appenders,
           AppendHighest(t) \/ AppendStep(t)
    PROVE  ControlInv'
<1>0. ~ RollFails(t)
  BY RollFailsNever
<1>1. PICK from, to, c : t \in Threads /\ Steps(t, from, to, c)
                         /\ to \in {"idle", "check", "store", "index", "publish", "activate", "write"}
  BY <1>0 DEF AppendHighest, AppendStep, AppendCheck, RollStore, RollIndex, RollPublish,
         RollActivate, AppendWrite, Threads
<1>2. /\ \A u \in Threads : u = t
      /\ status = "up" /\ pc[t] = from /\ pc'[t] = to /\ local'[t] = c
  BY <1>1, OnlyThread DEF Inv, TypeOK
<1>3. status' = "up"
  BY <1>0, <1>2 DEF AppendHighest, AppendStep, AppendCheck, RollStore, RollIndex,
         RollPublish, RollActivate, AppendWrite, process
<1>4. LoopSpares' /\ BothFiles'
  BY <1>1, <1>2, <1>3 DEF LoopSpares, BothFiles, Truncating
<1>5. ASSUME ~ Rolling(t)
      PROVE  active = Len(heap) /\ active \in DOMAIN heap /\ segments # <<>> /\ Last(segments) = active
  BY <1>2, <1>5, ActiveIsLast DEF OrderInv
<1>6. /\ Len(heap) \in DOMAIN heap /\ heap[Len(heap)] \in SegmentObject
      /\ heap[Len(heap)].nextOffset \in Nat /\ heap[Len(heap)].baseOffset \in Nat
  BY <1>2, NewestIsTop, Dereference DEF Inv, TypeOK, SegmentObject, SegmentRecord
<1>7. CASE AppendHighest(t)
  <2>1. /\ Steps(t, "idle", "check", [Blank EXCEPT !.high = HighestOffset])
        /\ HighestOffset < MaxOffset /\ heap' = heap /\ active' = active
    BY <1>7 DEF AppendHighest, log
  <2>2. pc[t] = "idle" /\ pc'[t] = "check"
    BY <1>1, <2>1, OnlyThread DEF Inv, TypeOK
  <2>3. heap[Len(heap)].nextOffset <= MaxOffset
    <3>1. heap[Len(heap)] = heap[Last(segments)]
      BY <1>5, <2>2 DEF Rolling
    <3> DEFINE next == heap[Len(heap)].nextOffset
    <3>2. (IF next = 0 THEN 0 ELSE next - 1) < MaxOffset
      BY <2>1, <3>1 DEF HighestOffset
    <3> HIDE DEF next
    <3>3. next <= MaxOffset
      BY <1>6, <3>2, CommitLogAssumption DEF next
    <3> QED BY <3>3 DEF next
  <2> QED BY <1>2, <1>4, <2>1, <2>2, <2>3 DEF ControlInv, RoomLeft, RollNext
<1>8. CASE AppendCheck(t) \/ RollPublish(t) \/ RollActivate(t)
  <2>1. heap' = heap /\ from # "idle" /\ to # "index" /\ pc[t] # "idle" /\ ~ Truncating(t)
    <3>1. CASE AppendCheck(t)
      <4>1. heap' = heap /\ pc[t] = "check" /\ pc'[t] \in {"store", "write"}
        BY <1>1, <3>1, OnlyThread DEF AppendCheck, log, Inv, TypeOK
      <4> QED BY <1>2, <4>1 DEF Truncating
    <3>2. CASE RollPublish(t)
      <4>1. heap' = heap /\ pc[t] = "publish" /\ pc'[t] = "activate"
        BY <1>1, <3>2, OnlyThread DEF RollPublish, Inv, TypeOK
      <4> QED BY <1>2, <4>1 DEF Truncating
    <3>3. CASE RollActivate(t)
      <4>1. heap' = heap /\ pc[t] = "activate" /\ pc'[t] = "write"
        BY <1>1, <3>3, OnlyThread DEF RollActivate, Inv, TypeOK
      <4> QED BY <1>2, <4>1 DEF Truncating
    <3> QED BY <1>8, <3>1, <3>2, <3>3
  <2>2. heap[Len(heap)].nextOffset <= MaxOffset
    BY <1>1, <2>1 DEF ControlInv, RoomLeft
  <2> QED BY <1>2, <1>4, <2>1, <2>2 DEF ControlInv, RoomLeft, RollNext
<1>9. CASE RollStore(t)
  <2> DEFINE b == local[t].high + 1
             s == NewStore(b, storeFile)
  <2>1. /\ Steps(t, "store", "index", [local[t] EXCEPT !.fresh = Len(heap) + 1])
        /\ heap' = Append(heap, s) /\ active' = active
    BY <1>9 DEF RollStore
  <2>2. pc[t] = "store" /\ pc'[t] = "index"
    BY <1>1, <2>1, OnlyThread DEF Inv, TypeOK
  <2>3. /\ b = heap[active].nextOffset /\ b \in Nat
        /\ active = Len(heap) /\ active \in DOMAIN heap
        /\ heap[Len(heap)].nextOffset <= MaxOffset
    BY <1>1, <1>5, <1>6, <2>2 DEF OrderInv, RollOK, Rolling, ControlInv, RoomLeft, Truncating
  <2>4. s \in SegmentObject /\ s.baseOffset = b /\ s.nextOffset = b
    BY <2>3, NewStoreType DEF NewStore, Inv, TypeOK
  <2> HIDE DEF b, s
  <2>5. /\ Len(heap') = Len(heap) + 1 /\ heap'[Len(heap')] = s
        /\ \A p \in DOMAIN heap : heap'[p] = heap[p]
    BY <2>1, <2>4, HeapExtended DEF Inv, TypeOK
  <2>6. heap'[Len(heap')].nextOffset <= MaxOffset
    BY <2>3, <2>4, <2>5
  <2>7. active' + 1 = Len(heap') /\ heap'[Len(heap')].baseOffset = heap'[active'].nextOffset
    BY <2>1, <2>3, <2>4, <2>5
  <2> QED BY <1>2, <1>4, <2>6, <2>7 DEF ControlInv, RoomLeft, RollNext
<1>10. CASE RollIndex(t)
  <2> DEFINE p  == local[t].fresh
             ix == Contents(indexFile, heap[p].baseOffset)
             o  == WithIndex(heap[p], ix)
  <2>1. /\ \E d : Steps(t, "index", "publish", d)
        /\ heap' = [heap EXCEPT ![p] = o]
    BY <1>10 DEF RollIndex
  <2>2. pc[t] = "index" /\ pc'[t] = "publish"
    BY <1>1, <2>1, OnlyThread DEF Inv, TypeOK
  <2>3. p = Len(heap) /\ heap[p].baseOffset \notin DOMAIN indexFile
    BY <1>1, <2>2 DEF OrderInv, RollOK, Rolling
  <2>4. o.nextOffset = heap[p].baseOffset
    <3>1. ix = <<>>
      BY <2>3 DEF Contents
    <3>2. heap[p] \in SegmentObject
      BY <1>6, <2>3
    <3> QED BY <3>1, <3>2 DEF WithIndex, SegmentObject, SegmentRecord
  <2>5. o \in SegmentObject
    <3>1. ix \in Seq(Entry)
      BY ContentsType DEF Inv, TypeOK, DiskOK
    <3> QED BY <1>6, <2>3, <3>1, WithIndexType
  <2>6. heap[Len(heap)].nextOffset <= MaxOffset
    BY <1>1, <2>2 DEF ControlInv, RoomLeft, Truncating
  <2>7. heap[Len(heap)].baseOffset <= heap[Len(heap)].nextOffset
    BY <1>6 DEF SegmentObject, SegmentRecord
  <2> HIDE DEF p, o
  <2>8. Len(heap') = Len(heap) /\ heap'[p] = o
    BY <1>6, <2>1, <2>3, <2>5, HeapChanged DEF Inv, TypeOK
  <2>9. heap'[Len(heap')].nextOffset <= MaxOffset
    BY <1>6, <2>3, <2>4, <2>6, <2>7, <2>8, CommitLogAssumption
  <2> QED BY <1>2, <1>4, <2>2, <2>9 DEF ControlInv, RoomLeft, RollNext
<1>11. CASE \E r \in Records : AppendWrite(t, r)
  <2>1. Steps(t, "write", "idle", Blank)
    BY <1>11 DEF AppendWrite
  <2>2. pc'[t] = "idle"
    BY <1>1, <2>1, OnlyThread DEF Inv, TypeOK
  <2> QED BY <1>2, <1>4, <2>2 DEF ControlInv, RoomLeft, RollNext
<1> QED BY <1>0, <1>7, <1>8, <1>9, <1>10, <1>11 DEF AppendStep

LEMMA TruncateBeginControl ==
    ASSUME Sequential, Inv, Inv', OrderInv, ControlInv, NEW t \in Truncators,
           NEW low \in Nat, TruncateBegin(t, low)
    PROVE  ControlInv'
<1> DEFINE c == [Blank EXCEPT !.low = low, !.left = segments]
<1>1. /\ t \in Threads /\ Steps(t, "idle", "truncate", c)
      /\ low + TrailingLogs <= HighestOffset
      /\ UNCHANGED <<heap, active, status>>
  BY DEF TruncateBegin, log, process, Threads
<1>2. c.low = low /\ c.list = <<>>
  BY DEF Blank
<1> HIDE DEF c
<1>3. /\ \A u \in Threads : u = t
      /\ pc[t] = "idle" /\ status = "up" /\ pc'[t] = "truncate" /\ local'[t] = c
  BY <1>1, OnlyThread DEF Inv, TypeOK
<1>4. active = Len(heap) /\ heap[active] \in SegmentObject /\ Last(segments) = active
  <2>1. \A u \in Threads : ~ Rolling(u)
    BY <1>3 DEF Rolling
  <2> QED BY <1>3, <2>1, ActiveIsLast DEF OrderInv
<1> DEFINE next == heap[active].nextOffset
<1>5. low + 1 + TrailingLogs <= next
  <2>1. next \in Nat /\ TrailingLogs \in Nat /\ TrailingLogs # 0
    BY <1>4, CommitLogAssumption DEF SegmentObject, SegmentRecord, Sequential
  <2>2. HighestOffset = IF next = 0 THEN 0 ELSE next - 1
    BY <1>4 DEF HighestOffset
  <2> HIDE DEF next
  <2> QED BY <1>1, <2>1, <2>2
<1>6. Elements(local'[t].list) = {}
  BY <1>2, <1>3, ElementsOfEmpty
<1>7. LoopSpares'
  BY <1>1, <1>2, <1>3, <1>5, <1>6 DEF LoopSpares
<1>8. RoomLeft' /\ BothFiles' /\ RollNext'
  BY <1>1, <1>3 DEF RoomLeft, BothFiles, RollNext, Truncating
<1> QED BY <1>7, <1>8 DEF ControlInv

LEMMA TruncateKeepControl ==
    ASSUME Sequential, Inv, Inv', OrderInv, ControlInv, NEW t \in Truncators, TruncateKeep(t)
    PROVE  ControlInv'
<1> DEFINE list == local[t].list
           left == local[t].left
           p    == Head(left)
           c    == [local[t] EXCEPT !.list = Append(list, p), !.left = Tail(left)]
<1>1. /\ t \in Threads /\ Steps(t, "truncate", "truncate", c)
      /\ left # <<>> /\ pc[t] = "truncate" /\ ~ Removable(heap[p], local[t].low)
      /\ UNCHANGED <<heap, active, status>>
  BY DEF TruncateKeep, log, process, Steps, Threads
<1>2. /\ \A u \in Threads : u = t
      /\ status = "up" /\ local[t] \in LocalOf(DOMAIN heap)
      /\ list \in Seq(Nat) /\ left \in Seq(Nat)
  BY <1>1, LoopState DEF Truncating
<1>3. c.low = local[t].low /\ c.list = Append(list, p)
  BY <1>2 DEF LocalOf
<1>4. Elements(Append(list, p)) = Elements(list) \cup {p}
  <2>1. p \in Elements(left)
    BY <1>1, <1>2, HeadAndTail
  <2>2. p \in Nat
    BY <1>2, <2>1, ElementsType
  <2> QED BY <1>2, <2>2, ElementsOfAppend
<1> HIDE DEF c
<1>5. pc'[t] = "truncate" /\ local'[t] = c
  BY <1>1, OnlyThread DEF Inv, TypeOK
<1>6. LoopSpares'
  <2>1. /\ \A q \in Elements(list) : ~ Removable(heap[q], local[t].low)
        /\ local[t].low + 1 + TrailingLogs <= heap[active].nextOffset
    BY <1>1 DEF ControlInv, LoopSpares, Truncating
  <2> HIDE DEF list, p
  <2>2. \A q \in Elements(local'[t].list) : ~ Removable(heap[q], local[t].low)
    BY <1>1, <1>3, <1>4, <1>5, <2>1 DEF p, left
  <2> QED BY <1>1, <1>2, <1>3, <1>5, <2>1, <2>2 DEF LoopSpares
<1>7. RoomLeft' /\ BothFiles' /\ RollNext'
  BY <1>1, <1>2, <1>5 DEF RoomLeft, BothFiles, RollNext, Truncating
<1> QED BY <1>6, <1>7 DEF ControlInv

(* A step of the removal of a segment that only closes it, or only removes *)
(* its index.                                                              *)
LEMMA ClosingControl ==
    ASSUME Sequential, Inv, OrderInv, ControlInv, NEW t \in Threads, Truncating(t),
           NEW from, NEW to, Steps(t, from, to, local[t]), UNCHANGED <<active, status>>,
           NEW p \in DOMAIN heap, p = Head(local[t].left), NEW o \in SegmentObject,
           heap' = [heap EXCEPT ![p] = o],
           o.nextOffset = heap[p].nextOffset, o.baseOffset = heap[p].baseOffset,
           to \in {"flush", "remove", "unlink"},
           to \in {"flush", "remove"} => o.nextOffset <= local[t].low + 1,
           to = "remove" => o.nextOffset = o.baseOffset + Len(indexFile'[o.baseOffset])
    PROVE  ControlInv'
<1>1. /\ \A u \in Threads : u = t
      /\ status = "up" /\ active \in DOMAIN heap
      /\ Elements(local[t].list) \subseteq DOMAIN heap
  BY LoopState
<1>2. /\ heap'[p] = o
      /\ \A q \in DOMAIN heap : q # p => heap'[q] = heap[q]
  BY HeapChanged DEF Inv, TypeOK
<1>3. \A q \in DOMAIN heap : heap'[q].nextOffset = heap[q].nextOffset
  BY <1>2
<1>4. pc'[t] = to /\ local'[t] = local[t]
  BY OnlyThread DEF Inv, TypeOK
<1>5. /\ \A q \in Elements(local[t].list) : ~ Removable(heap[q], local[t].low)
      /\ local[t].low + 1 + TrailingLogs <= heap[active].nextOffset
  BY DEF ControlInv, LoopSpares
<1>6. /\ \A q \in Elements(local'[t].list) : ~ Removable(heap'[q], local'[t].low)
      /\ local'[t].low + 1 + TrailingLogs <= heap'[active'].nextOffset
  BY <1>1, <1>3, <1>4, <1>5 DEF Removable
<1>7. /\ to \in {"flush", "remove"} => Removable(heap'[Head(local'[t].left)], local'[t].low)
      /\ to = "remove" =>
           heap'[Head(local'[t].left)].nextOffset =
             heap'[Head(local'[t].left)].baseOffset
               + Len(indexFile'[heap'[Head(local'[t].left)].baseOffset])
  BY <1>2, <1>4 DEF Removable
<1>8. LoopSpares'
  BY <1>1, <1>4, <1>6, <1>7 DEF LoopSpares, Removable
<1>9. RoomLeft' /\ BothFiles' /\ RollNext'
  BY <1>1, <1>4 DEF RoomLeft, BothFiles, RollNext, Truncating
<1> QED BY <1>8, <1>9 DEF ControlInv

LEMMA TruncateCloseIndexControl ==
    ASSUME Sequential, Inv, Inv', OrderInv, ControlInv,
           NEW t \in Truncators, TruncateCloseIndex(t)
    PROVE  ControlInv'
<1> DEFINE p == Head(local[t].left)
<1>1. /\ t \in Threads /\ Steps(t, "truncate", "flush", local[t]) /\ Truncating(t)
      /\ p \in DOMAIN heap /\ heap[p].nextOffset <= local[t].low + 1
      /\ heap' = [heap EXCEPT ![p].files = "half"]
      /\ UNCHANGED <<active, status>>
  BY TruncateIndexState
<1>2. /\ t \in Threads /\ Steps(t, "truncate", "flush", local[t]) /\ Truncating(t)
      /\ p \in DOMAIN heap /\ UNCHANGED <<active, status>>
  BY <1>1
<1>5. p = Head(local[t].left)
  OBVIOUS
<1> HIDE DEF p
<1>3. PICK o \in SegmentObject :
        /\ heap' = [heap EXCEPT ![p] = o]
        /\ o.baseOffset = heap[p].baseOffset /\ o.nextOffset = heap[p].nextOffset
  BY <1>1, HalfObject
<1>4. o.nextOffset <= local[t].low + 1
  BY <1>1, <1>3
<1> QED BY <1>2, <1>3, <1>4, <1>5, ClosingControl

LEMMA TruncateCloseStoreControl ==
    ASSUME Sequential, MaxCrashes = 0, Inv, Inv', OrderInv, HonestInv, ControlInv,
           NEW t \in Truncators, TruncateCloseStore(t)
    PROVE  ControlInv'
<1> DEFINE p == Head(local[t].left)
           b == heap[p].baseOffset
           o == Closed(heap[p])
<1>1. /\ t \in Threads /\ Steps(t, "flush", "remove", local[t]) /\ Truncating(t)
      /\ pc[t] = "flush"
      /\ p \in DOMAIN heap /\ heap[p].files = "half" /\ b \in DOMAIN indexFile
      /\ heap' = [heap EXCEPT ![p] = o] /\ o \in SegmentObject
      /\ o.baseOffset = b /\ o.nextOffset = heap[p].nextOffset
      /\ UNCHANGED <<indexFile, active, status>>
  BY TruncateStoreState
<1>2. p = Head(local[t].left) /\ b = heap[p].baseOffset
  OBVIOUS
<1>3. heap[p].nextOffset <= local[t].low + 1
  BY <1>1 DEF ControlInv, LoopSpares, Removable
<1> HIDE DEF p, b, o
<1>4. heap[p].nextOffset = b + Len(indexFile[b])
  BY <1>1, <1>2, ClosedEnds
<1>5. /\ o.nextOffset <= local[t].low + 1
      /\ o.nextOffset = o.baseOffset + Len(indexFile'[o.baseOffset])
  BY <1>1, <1>3, <1>4
<1> QED BY <1>1, <1>2, <1>5, ClosingControl

LEMMA TruncateRemoveControl ==
    ASSUME Sequential, Inv, Inv', OrderInv, ControlInv, NEW t \in Truncators, TruncateRemove(t)
    PROVE  ControlInv'
<1>1. /\ t \in Threads /\ Steps(t, "remove", "unlink", local[t]) /\ Truncating(t)
      /\ status = "up" /\ UNCHANGED <<heap, active, status>>
  BY TruncateRemoveState
<1>2. (\A u \in Threads : u = t) /\ pc'[t] = "unlink" /\ local'[t] = local[t]
  BY <1>1, OnlyThread DEF Inv, TypeOK
<1>3. LoopSpares'
  BY <1>1, <1>2 DEF ControlInv, LoopSpares
<1>4. RoomLeft' /\ BothFiles' /\ RollNext'
  BY <1>1, <1>2 DEF RoomLeft, BothFiles, RollNext, Truncating
<1> QED BY <1>3, <1>4 DEF ControlInv

LEMMA TruncateUnlinkControl ==
    ASSUME Sequential, Inv, Inv', OrderInv, ControlInv, NEW t \in Truncators, TruncateUnlink(t)
    PROVE  ControlInv'
<1> DEFINE c == [local[t] EXCEPT !.left = Tail(local[t].left)]
<1>1. /\ t \in Threads /\ Steps(t, "unlink", "truncate", c) /\ pc[t] = "unlink"
      /\ UNCHANGED <<heap, active, status>>
  BY DEF TruncateUnlink, log, process, Threads
<1>2. status = "up" /\ local[t] \in LocalOf(DOMAIN heap)
  BY <1>1, LoopState DEF Truncating
<1>3. c.low = local[t].low /\ c.list = local[t].list
  BY <1>2 DEF LocalOf
<1> HIDE DEF c
<1>4. (\A u \in Threads : u = t) /\ pc'[t] = "truncate" /\ local'[t] = c
  BY <1>1, OnlyThread DEF Inv, TypeOK
<1>5. LoopSpares'
  BY <1>1, <1>3, <1>4 DEF ControlInv, LoopSpares, Truncating
<1>6. RoomLeft' /\ BothFiles' /\ RollNext'
  BY <1>1, <1>2, <1>4 DEF RoomLeft, BothFiles, RollNext, Truncating
<1> QED BY <1>5, <1>6 DEF ControlInv

LEMMA TruncateEndControl ==
    ASSUME Sequential, Inv, OrderInv, ControlInv, NEW t \in Truncators, TruncateEnd(t)
    PROVE  ControlInv'
<1>1. /\ t \in Threads /\ Steps(t, "truncate", "idle", Blank) /\ status' = status
  BY DEF TruncateEnd, Return, process, Threads
<1>2. (\A u \in Threads : u = t) /\ pc'[t] = "idle" /\ status = "up"
  BY <1>1, OnlyThread DEF Inv, TypeOK
<1> QED BY <1>1, <1>2, IdleControl DEF BothFiles

-----------------------------------------------------------------------------
(* What each step does to the window.                                      *)

LEMMA StillWindow ==
    ASSUME MaxCrashes = 0, LogInv, Inv', OrderInv', HonestInv',
           DOMAIN indexFile' = DOMAIN indexFile, indexFile = <<>> => indexFile' = <<>>,
           \A b \in DOMAIN indexFile : SizeOf(b)' = SizeOf(b),
           \A a : Covered(a) => Covered(a)'
    PROVE  HasNewest' /\ AllFramed' /\ UNCHANGED <<LogRecords, LogNext>>
<1>1. /\ HasNewest' /\ LogNext' = LogNext
      /\ \A off : Spans(off)' <=> Spans(off)
  BY SizesKept DEF LogInv, WindowInv
<1>2. AllFramed' /\ LogRecords' = LogRecords
  BY <1>1, WindowKept
<1> QED BY <1>1, <1>2

LEMMA QuietWindow ==
    ASSUME MaxCrashes = 0, LogInv, Inv', OrderInv', HonestInv', UNCHANGED <<indexFile, heap>>,
           \A a : Covered(a) => Covered(a)'
    PROVE  HasNewest' /\ AllFramed' /\ UNCHANGED <<LogRecords, LogNext>>
<1>1. ASSUME NEW b \in DOMAIN indexFile PROVE SizeOf(b)' = SizeOf(b)
  <2>1. CASE Held(b)
    <3>1. PICK p \in DOMAIN heap : heap[p].files # "closed" /\ heap[p].baseOffset = b
      BY <2>1 DEF Held
    <3>2. SizeOf(b) = heap[p].indexSize
      BY <3>1, ObjectHeld DEF LogInv
    <3>3. SizeOf(b)' = heap'[p].indexSize
      BY <3>1, ObjectHeldNext
    <3> QED BY <3>2, <3>3
  <2>2. CASE ~ Held(b)
    <3>1. ~ Held(b)'
      BY <2>2 DEF Held
    <3> QED BY <2>2, <3>1, ObjectRest, ObjectRestNext
  <2> QED BY <2>1, <2>2
<1> QED BY <1>1, StillWindow

(* One object changes and keeps its size.                                  *)
LEMMA HeldWindow ==
    ASSUME MaxCrashes = 0, LogInv, Inv', OrderInv', HonestInv',
           NEW p \in DOMAIN heap, heap[p].files # "closed",
           NEW b, b = heap[p].baseOffset, b \in DOMAIN indexFile,
           NEW o \in SegmentObject, heap' = [heap EXCEPT ![p] = o], o.baseOffset = b,
           o.indexSize = heap[p].indexSize,
           o.files # "closed" \/ Len(indexFile'[b]) = o.indexSize,
           DOMAIN indexFile' = DOMAIN indexFile,
           \A c \in DOMAIN indexFile : c # b => indexFile'[c] = indexFile[c],
           \A a : Covered(a) => Covered(a)'
    PROVE  HasNewest' /\ AllFramed' /\ UNCHANGED <<LogRecords, LogNext>>
<1>1. Inv /\ OrderInv
  BY DEF LogInv
<1>2. /\ DOMAIN heap' = DOMAIN heap /\ heap'[p] = o
      /\ \A q \in DOMAIN heap : q # p => heap'[q] = heap[q]
  BY <1>1, HeapChanged DEF Inv, TypeOK
<1>3. \A q \in DOMAIN heap : q # p => heap[q].baseOffset # b
  BY <1>1, BasesDiffer DEF Inv, TypeOK, OrderInv
<1>4. SizeOf(b) = heap[p].indexSize
  BY <1>1, ObjectHeld
<1>5. SizeOf(b)' = o.indexSize
  <2>1. CASE o.files # "closed"
    BY <1>2, <2>1, ObjectHeldNext
  <2>2. CASE o.files = "closed"
    <3>1. ~ Held(b)'
      BY <1>2, <1>3, <2>2 DEF Held
    <3> QED BY <2>2, <3>1, ObjectRestNext
  <2> QED BY <2>1, <2>2
<1>6. ASSUME NEW c \in DOMAIN indexFile, c # b PROVE SizeOf(c)' = SizeOf(c)
  <2>1. /\ p \in DOMAIN heap' /\ heap'[p].baseOffset = b
        /\ \A q \in DOMAIN heap' \ {p} :
             q \in DOMAIN heap /\ heap'[q] = heap[q] /\ heap[q].baseOffset # b
        /\ \A q \in DOMAIN heap : q \in DOMAIN heap'
    BY <1>2, <1>3
  <2>2. c \in DOMAIN indexFile' /\ indexFile'[c] = indexFile[c]
    BY <1>6
  <2> QED BY <1>1, <1>6, <2>1, <2>2, SizesElsewhere
<1>7. \A c \in DOMAIN indexFile : SizeOf(c)' = SizeOf(c)
  BY <1>4, <1>5, <1>6
<1>8. indexFile # <<>>
  OBVIOUS
<1> QED BY <1>7, <1>8, StillWindow

LEMMA ReadWindow ==
    ASSUME MaxCrashes = 0, LogInv, Inv', OrderInv', HonestInv', NEW off, Read(off)
    PROVE  HasNewest' /\ AllFramed' /\ UNCHANGED <<LogRecords, LogNext>>
<1>1. PICK p \in Found(off) :
        /\ heap[p].files = "open" /\ heap[p].buf # <<>>
        /\ heap' = [heap EXCEPT ![p] = Flushed(heap[p])]
  BY DEF Read
<1>2. indexFile' = indexFile /\ Inv /\ OrderInv /\ HonestInv /\ status = "up"
  BY DEF Read, LogInv
<1>3. p \in Elements(segments) /\ p \in DOMAIN heap
  <2>1. p \in Elements(segments)
    BY <1>1 DEF Found, Holders, Elements
  <2> QED BY <1>2, <2>1, ElementsType DEF Inv, TypeOK, LogOK
<1> DEFINE o == Flushed(heap[p])
           b == heap[p].baseOffset
<1>4. /\ o \in SegmentObject /\ o.files = "open"
      /\ o.baseOffset = b /\ o.indexSize = heap[p].indexSize
  <2>1. heap[p] \in SegmentObject
    BY <1>2, <1>3, Dereference DEF Inv, TypeOK
  <2> QED BY <1>1, <2>1, EmptiedType DEF Flushed, SegmentObject, SegmentRecord
<1>5. heap' = [heap EXCEPT ![p] = o]
  BY <1>1
<1>6. \A a : Covered(a) => Covered(a)'
  BY <1>2, ReadKeeps
<1>7. CASE b \in DOMAIN indexFile
  <2> HIDE DEF o
  <2> QED BY <1>1, <1>2, <1>3, <1>4, <1>5, <1>6, <1>7, HeldWindow
<1>8. CASE b \notin DOMAIN indexFile
  <2>1. PICK t \in Threads : pc[t] = "index" /\ b = heap[local[t].fresh].baseOffset
    BY <1>1, <1>2, <1>3, <1>8 DEF OrderInv, ObjectFiles, Creating
  <2>2. local[t].fresh = Len(heap) /\ Len(heap) \in DOMAIN heap /\ p < Len(heap)
    BY <1>2, <1>3, <2>1, NewestIsTop DEF OrderInv, RollOK, Rolling
  <2>3. p # Len(heap)
    BY <1>2, <1>3, <2>2, PointersAreNumbers DEF Inv, TypeOK
  <2>4. heap[Len(heap)].baseOffset # heap[p].baseOffset
    BY <1>2, <1>3, <2>2, <2>3, BasesDiffer DEF Inv, TypeOK, OrderInv
  <2> QED BY <2>1, <2>2, <2>4
<1> QED BY <1>7, <1>8

(* The two halves of the close of a segment.                               *)
LEMMA CutWindow ==
    ASSUME MaxCrashes = 0, LogInv, Inv', OrderInv', HonestInv',
           NEW p \in DOMAIN heap, heap[p].files = "open",
           NEW b, b = heap[p].baseOffset, b \in DOMAIN indexFile,
           NEW o \in SegmentObject, heap' = [heap EXCEPT ![p] = o], o.files = "half",
           o.baseOffset = b, o.indexSize = heap[p].indexSize,
           indexFile' = Cut(indexFile, heap[p]),
           \A a : Covered(a) => Covered(a)'
    PROVE  HasNewest' /\ AllFramed' /\ UNCHANGED <<LogRecords, LogNext>>
<1>1. o.files # "closed"
  OBVIOUS
<1>2. /\ DOMAIN indexFile' = DOMAIN indexFile
      /\ \A c \in DOMAIN indexFile : c # b => indexFile'[c] = indexFile[c]
  BY DEF Cut
<1> QED BY <1>1, <1>2, HeldWindow

LEMMA FlushWindow ==
    ASSUME MaxCrashes = 0, LogInv, Inv', OrderInv', HonestInv',
           NEW p \in DOMAIN heap, heap[p].files = "half",
           NEW b, b = heap[p].baseOffset, b \in DOMAIN indexFile,
           heap' = [heap EXCEPT ![p] = Closed(heap[p])], indexFile' = indexFile,
           \A a : Covered(a) => Covered(a)'
    PROVE  HasNewest' /\ AllFramed' /\ UNCHANGED <<LogRecords, LogNext>>
<1> DEFINE o == Closed(heap[p])
<1>1. Inv /\ OrderInv /\ HonestInv
  BY DEF LogInv
<1>2. o \in SegmentObject /\ o.baseOffset = b /\ o.indexSize = heap[p].indexSize
  <2>1. heap[p] \in SegmentObject
    BY <1>1, Dereference DEF Inv, TypeOK
  <2> QED BY <2>1, EmptiedType DEF Closed, SegmentObject, SegmentRecord
<1>3. Len(indexFile[b]) = heap[p].indexSize
  BY <1>1 DEF HonestInv, ObjectsHonest, Counted, Contents
<1>4. heap' = [heap EXCEPT ![p] = o]
  OBVIOUS
<1> HIDE DEF o
<1>5. o.files # "closed" \/ Len(indexFile'[b]) = o.indexSize
  BY <1>2, <1>3
<1> QED BY <1>2, <1>4, <1>5, HeldWindow

LEMMA CloseIndexWindow ==
    ASSUME MaxCrashes = 0, LogInv, Inv', OrderInv', HonestInv', CloseIndex
    PROVE  HasNewest' /\ AllFramed' /\ UNCHANGED <<LogRecords, LogNext>>
<1> DEFINE p == Head(pending)
<1>0. Inv /\ OrderInv /\ HonestInv
  BY DEF LogInv
<1>1. /\ status = "closing" /\ pending # <<>> /\ heap[p].files = "open"
      /\ heap' = [heap EXCEPT ![p].files = "half"] /\ indexFile' = Cut(indexFile, heap[p])
  BY DEF CloseIndex
<1>2. p \in DOMAIN heap /\ heap[p].baseOffset \in DOMAIN indexFile
  BY <1>0, <1>1, CloseState
<1>3. \A a : Covered(a) => Covered(a)'
  BY <1>0, CloseIndexKeeps
<1> HIDE DEF p
<1> QED BY <1>0, <1>1, <1>2, <1>3, HalfObject, CutWindow

LEMMA CloseStoreWindow ==
    ASSUME MaxCrashes = 0, LogInv, Inv', OrderInv', HonestInv', CloseStore
    PROVE  HasNewest' /\ AllFramed' /\ UNCHANGED <<LogRecords, LogNext>>
<1> DEFINE p == Head(pending)
<1>0. Inv /\ OrderInv /\ HonestInv
  BY DEF LogInv
<1>1. /\ status = "closing" /\ pending # <<>> /\ heap[p].files = "half"
      /\ heap' = [heap EXCEPT ![p] = Closed(heap[p])] /\ indexFile' = indexFile
  BY DEF CloseStore
<1>2. p \in DOMAIN heap /\ heap[p].baseOffset \in DOMAIN indexFile
  BY <1>0, <1>1, CloseState
<1>3. \A a : Covered(a) => Covered(a)'
  BY <1>0, CloseStoreKeeps
<1> HIDE DEF p
<1> QED BY <1>1, <1>2, <1>3, FlushWindow

LEMMA TruncateCloseWindow ==
    ASSUME Sequential, MaxCrashes = 0, LogInv, Inv', OrderInv', HonestInv',
           NEW t \in Truncators, TruncateCloseIndex(t) \/ TruncateCloseStore(t)
    PROVE  HasNewest' /\ AllFramed' /\ UNCHANGED <<LogRecords, LogNext>>
<1> DEFINE p == Head(local[t].left)
<1>0. Inv /\ OrderInv /\ HonestInv
  BY DEF LogInv
<1>1. CASE TruncateCloseIndex(t)
  <2>1. /\ p \in DOMAIN heap /\ heap[p].files = "open" /\ heap[p].baseOffset \in DOMAIN indexFile
        /\ heap' = [heap EXCEPT ![p].files = "half"] /\ indexFile' = Cut(indexFile, heap[p])
    BY <1>0, <1>1, TruncateIndexState
  <2>2. \A a : Covered(a) => Covered(a)'
    BY <1>0, <1>1, TruncateCloseIndexKeeps
  <2> HIDE DEF p
  <2> QED BY <1>0, <2>1, <2>2, HalfObject, CutWindow
<1>2. CASE TruncateCloseStore(t)
  <2>1. /\ p \in DOMAIN heap /\ heap[p].files = "half" /\ heap[p].baseOffset \in DOMAIN indexFile
        /\ heap' = [heap EXCEPT ![p] = Closed(heap[p])] /\ indexFile' = indexFile
    BY <1>0, <1>2, TruncateStoreState
  <2>2. \A a : Covered(a) => Covered(a)'
    BY <1>0, <1>2, TruncateCloseStoreKeeps
  <2> HIDE DEF p
  <2> QED BY <2>1, <2>2, FlushWindow
<1> QED BY <1>1, <1>2

LEMMA CloseEndWindow ==
    ASSUME MaxCrashes = 0, LogInv, Inv', OrderInv', HonestInv', CloseEnd
    PROVE  HasNewest' /\ AllFramed' /\ UNCHANGED <<LogRecords, LogNext>>
<1>0. Inv /\ OrderInv /\ HonestInv
  BY DEF LogInv
<1>1. indexFile' = indexFile /\ heap' = <<>> /\ status = "closing" /\ pending = <<>>
  BY DEF CloseEnd, Die, disk
<1>2. \A p \in DOMAIN heap : heap[p].files = "closed"
  BY <1>0, <1>1, ElementsOfEmpty DEF OrderInv, CloseOK, Holding
<1>3. \A b : ~ Held(b) /\ ~ Held(b)'
  BY <1>1, <1>2 DEF Held
<1>4. \A b \in DOMAIN indexFile : SizeOf(b)' = SizeOf(b)
  BY <1>1, <1>3, ObjectRest, ObjectRestNext
<1>5. \A a : Covered(a) => Covered(a)'
  BY <1>0, EndKeeps
<1> QED BY <1>1, <1>4, <1>5, StillWindow

(* Setup finds both files of every segment and opens it with its size.     *)
LEMMA SetupSegmentWindow ==
    ASSUME MaxCrashes = 0, LogInv, Inv', OrderInv', HonestInv', SetupSegment
    PROVE  HasNewest' /\ AllFramed' /\ UNCHANGED <<LogRecords, LogNext>>
<1> SUFFICES ASSUME NEW y, y = FirstName(todo)[1]
             PROVE  HasNewest' /\ AllFramed' /\ UNCHANGED <<LogRecords, LogNext>>
  OBVIOUS
<1> DEFINE s == NewSegment(y, storeFile, indexFile)
           ix == Contents(indexFile, y)
<1>0. Inv /\ OrderInv /\ HonestInv /\ BothFiles
  BY DEF LogInv, WindowInv, ControlInv
<1>1. status = "setup" /\ todo # {} /\ OpenSegment(y)
  BY DEF SetupSegment
<1>2. FirstName(todo) \in todo /\ y \in Nat
  BY <1>0, <1>1, FirstNameIsName DEF Inv, TypeOK, ProcessOK
<1>3. y \in DOMAIN indexFile /\ \A p \in DOMAIN heap : heap[p].baseOffset < y
  BY <1>0, <1>1, <1>2 DEF OrderInv, SetupOK, BothFiles
<1>4. \A q \in DOMAIN heap : heap[q].baseOffset # y
  <2>1. \A q \in DOMAIN heap : heap[q].baseOffset \in Nat
    BY <1>0, Dereference DEF Inv, TypeOK, SegmentObject, SegmentRecord
  <2> QED BY <1>2, <1>3, <2>1
<1>5. s \in SegmentObject /\ s.baseOffset = y /\ s.indexSize = Len(ix) /\ s.files = "open"
  BY <1>0, <1>2, NewSegmentType DEF NewSegment, WithIndex, NewStore, Inv, TypeOK
<1>6. ix = indexFile[y]
  BY <1>3 DEF Contents
<1>7. /\ DOMAIN indexFile' = DOMAIN indexFile
      /\ \A c \in DOMAIN indexFile : c # y => indexFile'[c] = indexFile[c]
      /\ heap' = Append(heap, s)
  BY <1>1, <1>3 DEF OpenSegment, Put
<1> HIDE DEF s, ix
<1> DEFINE p == Len(heap')
<1>8. /\ p \in DOMAIN heap' /\ DOMAIN heap' = DOMAIN heap \cup {p} /\ heap'[p] = s
      /\ p \notin DOMAIN heap
      /\ \A q \in DOMAIN heap : heap'[q] = heap[q]
  BY <1>0, <1>5, <1>7, HeapExtended DEF Inv, TypeOK
<1> HIDE DEF p
<1>9. SizeOf(y)' = SizeOf(y)
  <2>1. SizeOf(y) = Len(ix)
    <3>1. ~ Held(y)
      BY <1>4 DEF Held
    <3> QED BY <1>3, <1>6, <3>1, ObjectRest
  <2>2. SizeOf(y)' = heap'[p].indexSize
    BY <1>5, <1>8, ObjectHeldNext
  <2> QED BY <1>5, <1>8, <2>1, <2>2
<1>10. ASSUME NEW c \in DOMAIN indexFile, c # y PROVE SizeOf(c)' = SizeOf(c)
  <2>1. /\ p \in DOMAIN heap' /\ heap'[p].baseOffset = y
        /\ p \in DOMAIN heap => heap[p].baseOffset = y
        /\ \A q \in DOMAIN heap' \ {p} :
             q \in DOMAIN heap /\ heap'[q] = heap[q] /\ heap[q].baseOffset # y
        /\ \A q \in DOMAIN heap : q \in DOMAIN heap'
    BY <1>4, <1>5, <1>8
  <2>2. c \in DOMAIN indexFile' /\ indexFile'[c] = indexFile[c]
    BY <1>7, <1>10
  <2> QED BY <1>0, <1>10, <2>1, <2>2, SizesElsewhere
<1>11. \A c \in DOMAIN indexFile : SizeOf(c)' = SizeOf(c)
  BY <1>9, <1>10
<1>12. indexFile # <<>>
  BY <1>3
<1>13. \A a : Covered(a) => Covered(a)'
  BY <1>0, SetupKeeps
<1> QED BY <1>7, <1>11, <1>12, <1>13, StillWindow

(* A new, empty segment at the next offset.                                *)
LEMMA EmptyWindow ==
    ASSUME MaxCrashes = 0, LogInv, Inv', OrderInv', HonestInv',
           NEW y \in Nat, y = LogNext, y \notin DOMAIN indexFile,
           DOMAIN indexFile' = DOMAIN indexFile \cup {y},
           \A b \in DOMAIN indexFile : SizeOf(b)' = SizeOf(b) /\ b <= y,
           SizeOf(y)' = 0, \A a : Covered(a) => Covered(a)'
    PROVE  HasNewest' /\ AllFramed' /\ UNCHANGED <<LogRecords, LogNext>>
<1>1. /\ HasNewest' /\ LogNext' = LogNext
      /\ \A off \in Nat : Spans(off)' <=> Spans(off)
  BY SizesGrown DEF LogInv
<1>2. AllFramed' /\ LogRecords' = LogRecords
  BY <1>1, WindowKept
<1> QED BY <1>1, <1>2

LEMMA SetupDoneWindow ==
    ASSUME MaxCrashes = 0, LogInv, Inv', OrderInv', HonestInv', SetupDone
    PROVE  HasNewest' /\ AllFramed' /\ UNCHANGED <<LogRecords, LogNext>>
<1>0. Inv /\ OrderInv /\ HonestInv /\ HasNewest
  BY DEF LogInv, WindowInv
<1>1. /\ status = "setup" /\ todo = {}
      /\ segments = <<>> => OpenSegment(InitialOffset)
      /\ segments # <<>> => UNCHANGED <<storeFile, indexFile, heap>>
  BY DEF SetupDone, disk, log
<1>2. \A a : Covered(a) => Covered(a)'
  BY <1>0, SetupKeeps
<1>3. CASE segments # <<>>
  BY <1>1, <1>2, <1>3, QuietWindow
<1>4. CASE segments = <<>>
  <2> DEFINE y == InitialOffset
             s == NewSegment(y, storeFile, indexFile)
             ix == Contents(indexFile, y)
             p == Len(heap')
  <2>1. DOMAIN heap = {}
    BY <1>0, <1>1, <1>4, ElementsOfEmpty DEF OrderInv, ListOK
  <2>2. DOMAIN indexFile = {}
    BY <1>0, <1>1, <2>1 DEF OrderInv, SetupOK, FilesOK
  <2>3. LogNext = y /\ y \in Nat
    BY <1>0, <2>2, CommitLogAssumption DEF HasNewest, LogNext
  <2>4. /\ DOMAIN indexFile' = DOMAIN indexFile \cup {y}
        /\ heap' = Append(heap, s)
    BY <1>1, <1>4 DEF OpenSegment, Put
  <2>5. s \in SegmentObject /\ s.baseOffset = y /\ s.indexSize = 0 /\ s.files = "open"
    <3>1. ix = <<>> /\ Len(<<>>) = 0
      BY <2>2, EmptySeq DEF Contents
    <3> QED BY <1>0, <2>3, <3>1, NewSegmentType DEF NewSegment, WithIndex, NewStore, Inv, TypeOK
  <2> HIDE DEF s
  <2>6. p \in DOMAIN heap' /\ heap'[p] = s
    BY <1>0, <2>4, <2>5, HeapExtended DEF Inv, TypeOK
  <2> HIDE DEF p
  <2>7. SizeOf(y)' = 0
    BY <2>5, <2>6, ObjectHeldNext
  <2> HIDE DEF y
  <2> QED BY <1>2, <2>2, <2>3, <2>4, <2>7, EmptyWindow
<1> QED BY <1>3, <1>4

(* The segment that appends go to is the newest, or half a segment is.     *)
LEMMA ActiveNewest ==
    ASSUME Sequential, MaxCrashes = 0, LogInv, NEW t \in Threads, status = "up",
           ~ Rolling(t) \/ pc[t] = "index"
    PROVE  /\ active \in DOMAIN heap /\ heap[active].files = "open"
           /\ Newest(heap[active].baseOffset) /\ LogNext = heap[active].nextOffset
           /\ LogNext \in Nat
<1>0. Inv /\ OrderInv /\ HonestInv /\ RollNext /\ \A u \in Threads : u = t
  BY DEF LogInv, WindowInv, ControlInv, Sequential
<1> DEFINE top == Len(heap)
           b   == heap[active].baseOffset
<1>1. /\ active \in DOMAIN heap /\ heap[active].files = "open" /\ active \in Elements(segments)
  <2>1. active \in Elements(segments) /\ IsOpen(active)
    BY <1>0 DEF OrderInv, ListOK
  <2> QED BY <1>0, <2>1, ElementsType DEF IsOpen, Inv, TypeOK, LogOK
<1>2. top \in DOMAIN heap /\ \A c \in DOMAIN storeFile : c <= heap[top].baseOffset
  BY <1>0, NewestIsTop
<1>3. pc[t] = "index" => /\ local[t].fresh = top /\ active < top /\ active + 1 = top
                         /\ heap[top].baseOffset \notin DOMAIN indexFile
  BY <1>0 DEF OrderInv, RollOK, Rolling, RollNext
<1>4. pc[t] # "index" => active = top
  BY <1>0 DEF OrderInv, ListOK
<1>5. active # top => active < top /\ pc[t] = "index" /\ heap[top].baseOffset # b
  <2> SUFFICES ASSUME active # top PROVE heap[top].baseOffset # b
    BY <1>3, <1>4
  <2> QED BY <1>0, <1>1, <1>2, BasesDiffer DEF Inv, TypeOK, OrderInv
<1>6. b \in DOMAIN indexFile
  <2> SUFFICES ASSUME b \notin DOMAIN indexFile PROVE FALSE
    OBVIOUS
  <2>1. Creating(b)
    BY <1>0, <1>1 DEF OrderInv, ObjectFiles
  <2>2. pc[t] = "index" /\ b = heap[top].baseOffset
    BY <1>0, <1>3, <2>1 DEF Creating
  <2>3. active # top
    BY <1>0, <1>1, <1>3, <2>2, PointersAreNumbers DEF Inv, TypeOK
  <2> QED BY <1>5, <2>2, <2>3
<1>7. ASSUME NEW c \in DOMAIN indexFile PROVE c <= b
  <2>1. CASE active = top
    BY <1>0, <1>2, <2>1 DEF OrderInv, FilesOK
  <2>2. CASE active # top
    <3>1. PICK q \in DOMAIN heap : heap[q].baseOffset = c
      BY <1>0 DEF OrderInv, FilesOK, ObjectFiles
    <3>2. q # top
      BY <1>3, <1>5, <2>2, <3>1
    <3>3. q < active \/ q = active
      <4>1. active + 1 = top /\ q < top /\ active \in Nat /\ q \in Nat
        BY <1>0, <1>1, <1>3, <1>5, <2>2, <3>2, PointersAreNumbers DEF Inv, TypeOK
      <4> QED BY <4>1
    <3>4. heap[q].baseOffset \in Nat /\ b \in Nat
      BY <1>0, <1>1, Dereference DEF Inv, TypeOK, SegmentObject, SegmentRecord
    <3>5. q < active => c < b
      BY <1>0, <1>1, <3>1 DEF OrderInv, HeapOrdered, Precedes
    <3> QED BY <3>1, <3>3, <3>4, <3>5
  <2> QED BY <2>1, <2>2
<1>8. Newest(b)
  BY <1>6, <1>7 DEF Newest
<1>9. LogNext = heap[active].nextOffset /\ LogNext \in Nat
  <2>1. LogNext = b + SizeOf(b) /\ LogNext \in Nat
    BY <1>0, <1>8, NewestEnds
  <2>2. ObjectOf(b) = heap[active]
    BY <1>0, <1>1, ObjectHeld
  <2>3. ObjectOf(b).nextOffset = b + SizeOf(b)
    BY <1>0, <1>6, ObjectEnds
  <2> QED BY <2>1, <2>2, <2>3
<1> QED BY <1>1, <1>8, <1>9

LEMMA BasesDifferNext ==
    (LogOK /\ HeapOrdered)' =>
        (\A p, q \in DOMAIN heap : p # q => heap[p].baseOffset # heap[q].baseOffset)'
<1>1. LogOK /\ HeapOrdered =>
        \A p, q \in DOMAIN heap : p # q => heap[p].baseOffset # heap[q].baseOffset
  BY BasesDiffer
<1> QED BY <1>1, PTL

(* A roll leaves the window alone.                                         *)
LEMMA RollStoreWindow ==
    ASSUME Sequential, MaxCrashes = 0, LogInv, Inv', OrderInv', HonestInv',
           NEW t \in Appenders, RollStore(t)
    PROVE  HasNewest' /\ AllFramed' /\ UNCHANGED <<LogRecords, LogNext>>
<1>0. Inv /\ OrderInv /\ HonestInv
  BY DEF LogInv
<1> DEFINE b == local[t].high + 1
           s == NewStore(b, storeFile)
           p == Len(heap')
<1>1. /\ t \in Threads /\ indexFile' = indexFile
      /\ Steps(t, "store", "index", [local[t] EXCEPT !.fresh = Len(heap) + 1])
      /\ heap' = Append(heap, s)
  BY DEF RollStore, Threads
<1>2. b \in Nat /\ s \in SegmentObject /\ s.baseOffset = b
  <2>1. b \in Nat
    BY <1>0, <1>1 DEF Inv, TypeOK, ThreadsOK, LocalOf
  <2> QED BY <1>0, <2>1, NewStoreType DEF NewStore, Inv, TypeOK
<1> HIDE DEF b, s
<1>3. /\ p \in DOMAIN heap' /\ DOMAIN heap' = DOMAIN heap \cup {p} /\ heap'[p] = s
      /\ p \notin DOMAIN heap
      /\ \A q \in DOMAIN heap : heap'[q] = heap[q]
  BY <1>0, <1>1, <1>2, HeapExtended DEF Inv, TypeOK
<1>4. pc'[t] = "index"
  BY <1>0, <1>1, OnlyThread DEF Inv, TypeOK
<1>5. b \notin DOMAIN indexFile
  <2>1. heap'[Len(heap')].baseOffset \notin DOMAIN indexFile'
    BY <1>1, <1>4 DEF OrderInv, RollOK
  <2> QED BY <1>1, <1>2, <1>3, <2>1
<1>6. \A q \in DOMAIN heap : heap[q].baseOffset # b
  <2>1. LogOK' /\ HeapOrdered'
    BY DEF Inv, TypeOK, OrderInv
  <2>2. \A q, r \in DOMAIN heap' : q # r => heap'[q].baseOffset # heap'[r].baseOffset
    BY <2>1, BasesDifferNext
  <2> QED BY <1>2, <1>3, <2>2
<1> HIDE DEF p
<1>7. ASSUME NEW c \in DOMAIN indexFile PROVE SizeOf(c)' = SizeOf(c)
  <2>1. /\ p \in DOMAIN heap' /\ heap'[p].baseOffset = b
        /\ p \in DOMAIN heap => heap[p].baseOffset = b
        /\ \A q \in DOMAIN heap' \ {p} :
             q \in DOMAIN heap /\ heap'[q] = heap[q] /\ heap[q].baseOffset # b
        /\ \A q \in DOMAIN heap : q \in DOMAIN heap'
    BY <1>2, <1>3, <1>6
  <2>2. c # b /\ c \in DOMAIN indexFile' /\ indexFile'[c] = indexFile[c]
    BY <1>1, <1>5
  <2> QED BY <1>0, <2>1, <2>2, SizesElsewhere
<1>8. \A a : Covered(a) => Covered(a)'
  BY <1>0, RollKeeps
<1> QED BY <1>1, <1>7, <1>8, StillWindow

LEMMA RollIndexWindow ==
    ASSUME Sequential, MaxCrashes = 0, LogInv, Inv', OrderInv', HonestInv',
           NEW t \in Appenders, RollIndex(t)
    PROVE  HasNewest' /\ AllFramed' /\ UNCHANGED <<LogRecords, LogNext>>
<1>0. Inv /\ OrderInv /\ HonestInv /\ RollNext
  BY DEF LogInv, WindowInv, ControlInv
<1> SUFFICES ASSUME NEW p, p = local[t].fresh, NEW y, y = heap[p].baseOffset
             PROVE  HasNewest' /\ AllFramed' /\ UNCHANGED <<LogRecords, LogNext>>
  OBVIOUS
<1> DEFINE ix == Contents(indexFile, y)
           o  == WithIndex(heap[p], ix)
<1>1. /\ t \in Threads /\ pc[t] = "index" /\ status = "up"
      /\ indexFile' = Put(indexFile, y, Resized(ix, MaxIndexBytes))
      /\ heap' = [heap EXCEPT ![p] = o]
  BY DEF RollIndex, Threads, Steps
<1>2. /\ p = Len(heap) /\ IsOpen(p) /\ y \notin DOMAIN indexFile
      /\ y = heap[active].nextOffset
  BY <1>0, <1>1 DEF OrderInv, RollOK, Rolling, RollNext
<1>3. p \in DOMAIN heap
  BY <1>0, <1>1, <1>2, NewestIsTop
<1>4. ix = <<>> /\ Len(ix) = 0
  BY <1>2, EmptySeq DEF Contents
<1>5. o \in SegmentObject /\ o.baseOffset = y /\ o.indexSize = 0 /\ o.files = "open"
  <2>1. heap[p] \in SegmentObject /\ ix \in Seq(Entry)
    BY <1>0, <1>3, Dereference, ContentsType DEF Inv, TypeOK, DiskOK
  <2>2. o \in SegmentObject
    BY <2>1, WithIndexType
  <2>3. heap[p].baseOffset = y /\ heap[p].files = "open"
    BY <1>2 DEF IsOpen
  <2> HIDE DEF ix
  <2>4. o = [heap[p] EXCEPT !.indexSize = 0, !.nextOffset = heap[p].baseOffset]
    BY <1>4 DEF WithIndex
  <2> QED BY <2>1, <2>2, <2>3, <2>4 DEF SegmentObject, SegmentRecord
<1>6. /\ DOMAIN indexFile' = DOMAIN indexFile \cup {y}
      /\ \A c \in DOMAIN indexFile : c # y => indexFile'[c] = indexFile[c]
  BY <1>1 DEF Put
<1>7. \A q \in DOMAIN heap : q # p => heap[q].baseOffset # y
  BY <1>0, <1>3, BasesDiffer DEF Inv, TypeOK, OrderInv
<1>8. y = heap[p].baseOffset
  OBVIOUS
<1> HIDE DEF o, ix
<1>9. /\ DOMAIN heap' = DOMAIN heap /\ heap'[p] = o
      /\ \A q \in DOMAIN heap : q # p => heap'[q] = heap[q]
  BY <1>0, <1>1, <1>3, <1>5, HeapChanged DEF Inv, TypeOK
<1>10. y = LogNext /\ y \in Nat /\ \A c \in DOMAIN indexFile : c <= y
  <2>1. /\ Newest(heap[active].baseOffset) /\ LogNext = heap[active].nextOffset
        /\ LogNext \in Nat /\ active \in DOMAIN heap
    BY <1>1, ActiveNewest
  <2>2. heap[active].baseOffset <= heap[active].nextOffset /\ heap[active].baseOffset \in Nat
    BY <1>0, <2>1, Dereference DEF Inv, TypeOK, SegmentObject, SegmentRecord
  <2>3. \A c \in DOMAIN indexFile : c <= heap[active].baseOffset /\ c \in Nat
    BY <1>0, <2>1 DEF Newest, Inv, TypeOK, DiskOK, FileOf
  <2>4. \A c \in DOMAIN indexFile : c <= LogNext
    BY <2>1, <2>2, <2>3
  <2> QED BY <1>2, <2>1, <2>4
<1>11. SizeOf(y)' = 0
  BY <1>3, <1>5, <1>9, ObjectHeldNext
<1>12. ASSUME NEW c \in DOMAIN indexFile PROVE SizeOf(c)' = SizeOf(c)
  <2>1. /\ p \in DOMAIN heap' /\ heap'[p].baseOffset = y
        /\ p \in DOMAIN heap => heap[p].baseOffset = y
        /\ \A q \in DOMAIN heap' \ {p} :
             q \in DOMAIN heap /\ heap'[q] = heap[q] /\ heap[q].baseOffset # y
        /\ \A q \in DOMAIN heap : q \in DOMAIN heap'
    BY <1>3, <1>5, <1>7, <1>8, <1>9
  <2>2. c # y /\ c \in DOMAIN indexFile' /\ indexFile'[c] = indexFile[c]
    BY <1>2, <1>6
  <2> QED BY <1>0, <2>1, <2>2, SizesElsewhere
<1>13. \A a : Covered(a) => Covered(a)'
  BY <1>0, RollKeeps
<1> QED BY <1>2, <1>6, <1>10, <1>11, <1>12, <1>13, EmptyWindow

(* An append that returns adds its record at the next offset.              *)
LEMMA AppendWriteWindow ==
    ASSUME Sequential, MaxCrashes = 0, LogInv, Inv', OrderInv', HonestInv',
           NEW t \in Appenders, NEW r \in Records, AppendWrite(t, r)
    PROVE  HasNewest' /\ AllFramed' /\ Abstract!Append(r)
<1> SUFFICES ASSUME NEW b, b = heap[active].baseOffset, NEW n, n = LogNext
             PROVE  HasNewest' /\ AllFramed' /\ Abstract!Append(r)
  OBVIOUS
<1>0. Inv /\ OrderInv /\ HonestInv /\ RoomLeft
  BY DEF LogInv, WindowInv, ControlInv
<1>1. t \in Threads /\ pc[t] = "write" /\ status = "up"
  BY DEF AppendWrite, Steps, Threads
<1>2. (\A u \in Threads : u = t) /\ ~ Rolling(t)
  BY <1>1 DEF Sequential, Rolling
<1>3. active = Len(heap)
  BY <1>1, <1>2, <1>0 DEF OrderInv, ListOK
<1>4. /\ active \in DOMAIN heap /\ heap[active].files = "open" /\ Newest(b)
      /\ n = heap[active].nextOffset /\ n \in Nat
  BY <1>1, <1>2, ActiveNewest
<1>5. n \in 0 .. MaxOffset + 1
  <2>1. n <= MaxOffset
    BY <1>0, <1>1, <1>3, <1>4 DEF RoomLeft, Truncating
  <2> QED BY <1>4, <2>1, CommitLogAssumption
<1> DEFINE k == heap[active].indexSize
           wx == Written(indexFile[b], k + 1, NewEntry(heap[active]))
<1>6. /\ \A q \in DOMAIN heap : q # active => heap[q].baseOffset # b
      /\ indexFile' = [c \in DOMAIN indexFile |-> IF c = b THEN wx ELSE indexFile[c]]
  BY <1>0, AppendWriteState
<1>7. PICK o \in SegmentObject :
         /\ o.files = "open" /\ o.baseOffset = b /\ o.indexSize = k + 1
         /\ heap' = [heap EXCEPT ![active] = o]
  BY <1>0, AppendWriteState
<1>8. /\ DOMAIN heap' = DOMAIN heap /\ heap'[active] = o
      /\ \A q \in DOMAIN heap : q # active => heap'[q] = heap[q]
  BY <1>0, <1>4, <1>7, HeapChanged DEF Inv, TypeOK
<1>9. /\ DOMAIN indexFile' = DOMAIN indexFile /\ b \in DOMAIN indexFile
      /\ \A c \in DOMAIN indexFile : c # b => indexFile'[c] = indexFile[c]
  BY <1>4, <1>6 DEF Newest
<1>10. SizeOf(b) = k /\ b \in Nat /\ k \in Nat
  <2>1. SizeOf(b) = k
    BY <1>0, <1>4, ObjectHeld
  <2> QED BY <1>0, <1>9, <2>1, ObjectTypes
<1>11. SizeOf(b)' = k + 1
  BY <1>4, <1>7, <1>8, ObjectHeldNext
<1>12. ASSUME NEW c \in DOMAIN indexFile, c # b PROVE SizeOf(c)' = SizeOf(c)
  <2>1. /\ active \in DOMAIN heap' /\ heap'[active].baseOffset = b
        /\ heap[active].baseOffset = b
        /\ \A q \in DOMAIN heap' \ {active} :
             q \in DOMAIN heap /\ heap'[q] = heap[q] /\ heap[q].baseOffset # b
        /\ \A q \in DOMAIN heap : q \in DOMAIN heap'
    BY <1>4, <1>6, <1>7, <1>8
  <2>2. c \in DOMAIN indexFile' /\ indexFile'[c] = indexFile[c]
    BY <1>9, <1>12
  <2> QED BY <1>0, <1>12, <2>1, <2>2, SizesElsewhere
<1> HIDE DEF k, wx
<1>13. n = b + k
  <2>1. LogNext = b + SizeOf(b)
    BY <1>0, <1>4, NewestEnds
  <2> QED BY <1>10, <2>1
<1>14. Newest(b)'
  BY <1>4, <1>9 DEF Newest
<1>15. HasNewest' /\ LogNext' = n + 1
  <2>1. LogNext' = b + SizeOf(b)'
    BY <1>14, NewestEndsNext
  <2>2. HasNewest'
    BY <1>9, <1>14 DEF HasNewest
  <2> QED BY <1>10, <1>11, <1>13, <2>1, <2>2
<1>16. ASSUME NEW off \in Nat PROVE Spans(off)' <=> Spans(off) \/ off = n
  <2>1. off < b + (k + 1) <=> off < b + k \/ off = b + k
    BY <1>10
  <2>2. b <= b + k
    BY <1>10
  <2>3. \A c \in DOMAIN indexFile : c # b =>
           (c <= off /\ off < c + SizeOf(c)' <=> c <= off /\ off < c + SizeOf(c))
    BY <1>12
  <2>4. (b <= off /\ off < b + SizeOf(b)') <=> (b <= off /\ off < b + SizeOf(b)) \/ off = n
    BY <1>10, <1>11, <1>13, <2>1, <2>2
  <2> QED BY <1>9, <2>3, <2>4 DEF Spans
<1>17. \A a : Covered(a) \/ a = Rec(n, r) => Covered(a)'
  BY <1>0, <1>4, AppendWriteKeeps DEF Rec
<1>18. /\ AllFramed'
       /\ LogRecords' = [off \in DOMAIN LogRecords \cup {n} |->
                            IF off = n THEN r ELSE LogRecords[off]]
  BY <1>5, <1>16, <1>17, WindowGrown
<1> QED BY <1>15, <1>18 DEF Abstract!Append

(* The segment that Truncate removes is the oldest, and spares enough.     *)
LEMMA TruncateRemoveWindow ==
    ASSUME Sequential, MaxCrashes = 0, LogInv, Inv', OrderInv', HonestInv',
           NEW t \in Truncators, TruncateRemove(t)
    PROVE  HasNewest' /\ AllFramed' /\ \E first \in 0 .. LogNext : Abstract!Drop(first)
<1> DEFINE Goal == HasNewest' /\ AllFramed' /\ \E first \in 0 .. LogNext : Abstract!Drop(first)
<1> SUFFICES ASSUME NEW p, p = Head(local[t].left), NEW b, b = heap[p].baseOffset,
                    NEW first, first = heap[p].nextOffset,
                    NEW ab, ab = heap[active].baseOffset
             PROVE  Goal
  OBVIOUS
<1>0. Inv /\ OrderInv /\ HonestInv /\ LoopSpares
  BY DEF LogInv, WindowInv, ControlInv
<1> DEFINE low  == local[t].low
           list == local[t].list
           left == local[t].left
<1>1. /\ t \in Threads /\ pc[t] = "remove" /\ Truncating(t) /\ status = "up"
      /\ b = BaseAt(t) /\ b \in DOMAIN indexFile
      /\ p \in DOMAIN heap /\ heap[p].files = "closed"
      /\ \A q \in DOMAIN heap : q # p => heap[q].baseOffset # b
      /\ indexFile' = Delete(indexFile, b) /\ UNCHANGED heap
  BY <1>0, TruncateRemoveState
<1>2. /\ list \in Seq(Nat) /\ left \in Seq(Nat)
      /\ Elements(list) \subseteq DOMAIN heap /\ Elements(left) \subseteq DOMAIN heap
      /\ Increasing(left) /\ low \in Nat
      /\ \A r \in Elements(list), q \in Elements(left) : r < q
      /\ Holding(Elements(list) \cup Elements(left)) /\ left # <<>>
  <2>1. local[t] \in LocalOf(DOMAIN heap)
    BY <1>0, <1>1, LoopState
  <2> QED BY <1>0, <1>1, <2>1, LoopState DEF LocalOf
<1>3. /\ p \in Elements(left)
      /\ \A q \in Elements(left) : q = p \/ p < q
  BY <1>2, HeadAndTail
<1>4. /\ active \in DOMAIN heap /\ Newest(ab)
      /\ LogNext = heap[active].nextOffset /\ LogNext \in Nat
  <2>1. ~ Rolling(t)
    BY <1>1 DEF Rolling
  <2> QED BY <1>1, <2>1, ActiveNewest
<1>5. /\ heap[p] \in SegmentObject /\ first \in Nat /\ b \in Nat /\ b <= first
  BY <1>0, <1>1, Dereference DEF Inv, TypeOK, SegmentObject, SegmentRecord
<1>6. /\ \A q \in Elements(list) : ~ Removable(heap[q], low)
      /\ low + 1 + TrailingLogs <= LogNext
      /\ first <= low + 1 /\ first = b + Len(indexFile[b])
  BY <1>0, <1>1, <1>4 DEF LoopSpares, Removable
<1> HIDE DEF low, list, left, Goal
<1>7. first + TrailingLogs <= LogNext /\ first \in 0 .. LogNext
  <2>1. first \in Nat /\ low \in Nat /\ LogNext \in Nat /\ first <= low + 1
    BY <1>2, <1>4, <1>5, <1>6
  <2>2. TrailingLogs \in Nat /\ low + 1 + TrailingLogs <= LogNext
    BY <1>6, CommitLogAssumption
  <2>3. \A i, j, k, n \in Nat : i <= j + 1 /\ j + 1 + k <= n => i + k <= n /\ i \in 0 .. n
    OBVIOUS
  <2> QED BY <2>1, <2>2, <2>3
<1>8. p # active
  <2> SUFFICES ASSUME p = active PROVE FALSE
    OBVIOUS
  <2>1. TrailingLogs \in Nat \ {0}
    BY CommitLogAssumption DEF Sequential
  <2> QED BY <1>4, <1>5, <1>7, <2>1
<1>9. \A c : Removing(c) => c = b
  BY <1>0, <1>1 DEF Removing, Sequential
<1>10. ASSUME NEW c \in DOMAIN indexFile, c # b PROVE first <= c
  <2>1. PICK q \in DOMAIN heap : heap[q].baseOffset = c
    BY <1>0, <1>1 DEF OrderInv, FilesOK, ObjectFiles
  <2>2. heap[q].files # "closed"
    BY <1>0, <1>1, <1>9, <1>10, <2>1 DEF OrderInv, ObjectFiles
  <2>3. q \in Elements(list) \cup Elements(left) /\ q # p
    BY <1>2, <1>10, <2>1, <2>2 DEF Holding
  <2>4. q \notin Elements(list)
    <3> SUFFICES ASSUME q \in Elements(list) PROVE FALSE
      OBVIOUS
    <3>1. q < p
      BY <1>2, <1>3
    <3>2. heap[q].nextOffset <= b
      BY <1>0, <1>1, <2>1, <3>1 DEF OrderInv, HeapOrdered, Precedes
    <3>3. heap[q].nextOffset \in Nat
      BY <1>0, <2>1, Dereference DEF Inv, TypeOK, SegmentObject, SegmentRecord
    <3>4. heap[q].nextOffset <= low + 1
      <4>1. low \in Nat /\ b \in Nat /\ first \in Nat /\ b <= first /\ first <= low + 1
        BY <1>2, <1>5, <1>6
      <4>2. \A i, j, k, l \in Nat : i <= j /\ j <= k /\ k <= l + 1 => i <= l + 1
        OBVIOUS
      <4> QED BY <3>2, <3>3, <4>1, <4>2
    <3>5. ~ Removable(heap[q], low)
      BY <1>6
    <3> QED BY <3>4, <3>5 DEF Removable
  <2>5. p < q
    BY <1>3, <2>3, <2>4
  <2> QED BY <1>0, <1>1, <2>1, <2>5 DEF OrderInv, HeapOrdered, Precedes
<1>13. /\ DOMAIN indexFile' = DOMAIN indexFile \ {b}
       /\ \A c \in DOMAIN indexFile : c # b => indexFile'[c] = indexFile[c]
  BY <1>1 DEF Delete
<1>14. ASSUME NEW c \in DOMAIN indexFile, c # b PROVE SizeOf(c)' = SizeOf(c)
  <2>1. /\ p \in DOMAIN heap' /\ heap'[p].baseOffset = b
        /\ heap[p].baseOffset = b
        /\ \A q \in DOMAIN heap' \ {p} :
             q \in DOMAIN heap /\ heap'[q] = heap[q] /\ heap[q].baseOffset # b
        /\ \A q \in DOMAIN heap : q \in DOMAIN heap'
    BY <1>1
  <2>2. c \in DOMAIN indexFile' /\ indexFile'[c] = indexFile[c]
    BY <1>13, <1>14
  <2> QED BY <1>0, <1>14, <2>1, <2>2, SizesElsewhere
<1>15. first = b + SizeOf(b)
  <2>1. ~ Held(b)
    BY <1>1 DEF Held
  <2> QED BY <1>1, <1>6, <2>1, ObjectRest
<1>16. ASSUME NEW off \in Nat PROVE Spans(off)' <=> Spans(off) /\ first <= off
  <2>1. ASSUME NEW c \in DOMAIN indexFile', c <= off, off < c + SizeOf(c)'
        PROVE  Spans(off) /\ first <= off
    <3>1. c \in DOMAIN indexFile /\ c # b /\ SizeOf(c)' = SizeOf(c) /\ first <= c
      BY <1>10, <1>13, <1>14
    <3>2. c \in Nat
      BY <1>0, <3>1, ObjectTypes
    <3>3. first <= off
      BY <1>5, <2>1, <3>1, <3>2
    <3> QED BY <2>1, <3>1, <3>3 DEF Spans
  <2>2. ASSUME NEW c \in DOMAIN indexFile, c <= off, off < c + SizeOf(c), first <= off
        PROVE  Spans(off)'
    <3>1. c # b
      <4>1. c + SizeOf(c) = first => off < first
        BY <2>2
      <4>2. ~ off < first
        BY <1>5, <1>16, <2>2
      <4> QED BY <1>15, <4>1, <4>2
    <3>2. c \in DOMAIN indexFile' /\ SizeOf(c)' = SizeOf(c)
      BY <1>13, <1>14, <3>1
    <3> QED BY <2>2, <3>2 DEF Spans
  <2> QED BY <2>1, <2>2 DEF Spans
<1>17. HasNewest' /\ LogNext' = LogNext
  <2>1. ab # b /\ ab \in DOMAIN indexFile
    BY <1>1, <1>4, <1>8 DEF Newest
  <2>2. Newest(ab)' /\ HasNewest'
    BY <1>4, <1>13, <2>1 DEF Newest, HasNewest
  <2>3. LogNext = ab + SizeOf(ab)
    BY <1>0, <1>4, NewestEnds
  <2>4. LogNext' = ab + SizeOf(ab)'
    BY <2>2, NewestEndsNext
  <2> QED BY <1>14, <2>1, <2>2, <2>3, <2>4
<1>18. \A a : Covered(a) /\ a.off \in Nat /\ first <= a.off => Covered(a)'
  BY <1>0, <1>1, <1>6, TruncateRemoveKeeps
<1>19. /\ AllFramed'
       /\ LogRecords' = [off \in {x \in DOMAIN LogRecords : first <= x} |-> LogRecords[off]]
  BY <1>16, <1>18, WindowDropped
<1>20. Abstract!Drop(first)
  BY <1>7, <1>17, <1>19 DEF Abstract!Drop
<1> QED BY <1>7, <1>17, <1>19, <1>20 DEF Goal

LEMMA QuietSteps ==
    ASSUME MaxCrashes = 0, LogInv, Inv', OrderInv', HonestInv',
           \/ SetupBegin \/ CloseBegin \/ UNCHANGED vars
           \/ \E t \in Appenders :
                 AppendHighest(t) \/ AppendCheck(t) \/ RollPublish(t) \/ RollActivate(t)
           \/ \E t \in Truncators :
                 \/ \E low \in 0 .. MaxOffset : TruncateBegin(t, low)
                 \/ TruncateKeep(t) \/ TruncateUnlink(t) \/ TruncateEnd(t)
    PROVE  HasNewest' /\ AllFramed' /\ UNCHANGED <<LogRecords, LogNext>>
<1>1. UNCHANGED <<indexFile, heap>>
  BY DEF SetupBegin, CloseBegin, vars, AppendHighest, AppendCheck, RollPublish, RollActivate,
     TruncateBegin, TruncateKeep, TruncateUnlink, TruncateEnd, disk, log
<1>2. ASSUME NEW a, Covered(a) PROVE Covered(a)'
  <2>1. CASE \E t \in Truncators : TruncateUnlink(t)
    BY <1>2, <2>1, TruncateUnlinkKeeps DEF LogInv
  <2>2. CASE ~ \E t \in Truncators : TruncateUnlink(t)
    <3>1. storeFile' = storeFile
      BY <2>2 DEF SetupBegin, CloseBegin, vars, AppendHighest, AppendCheck, RollPublish,
         RollActivate, TruncateBegin, TruncateKeep, TruncateEnd, disk
    <3> QED BY <1>1, <1>2, <3>1, QuietKeeps
  <2> QED BY <2>1, <2>2
<1> QED BY <1>1, <1>2, QuietWindow

(* Every step is one of the abstract log or leaves the window alone.       *)
LEMMA StepImplements ==
    ASSUME Sequential, MaxCrashes = 0, LogInv, Inv', OrderInv', HonestInv', [Next]_vars
    PROVE  HasNewest' /\ AllFramed' /\ [Abstract!Next]_<<LogRecords, LogNext>>
<1>0. Inv /\ OrderInv /\ HonestInv
  BY DEF LogInv
<1> DEFINE Still == HasNewest' /\ AllFramed' /\ UNCHANGED <<LogRecords, LogNext>>
           Goal  == HasNewest' /\ AllFramed' /\ [Abstract!Next]_<<LogRecords, LogNext>>
<1>1. Still => Goal
  OBVIOUS
<1>2. CASE SetupBegin \/ SetupSegment \/ SetupDone
  BY <1>2, QuietSteps, SetupSegmentWindow, SetupDoneWindow
<1>3. ASSUME NEW t \in Appenders, AppendHighest(t) \/ AppendPanic(t)
      PROVE  Still
  BY <1>0, <1>3, QuietSteps, AppendPanicNever
<1>4. ASSUME NEW t \in Appenders, AppendStep(t)
      PROVE  Goal
  <2>1. CASE AppendCheck(t) \/ RollPublish(t) \/ RollActivate(t)
    BY <2>1, QuietSteps
  <2>4. ~ RollFails(t)
    BY <1>0, RollFailsNever
  <2>2. CASE RollStore(t) \/ RollIndex(t)
    BY <2>2, RollStoreWindow, RollIndexWindow
  <2>3. ASSUME NEW r \in Records, AppendWrite(t, r)
        PROVE  Goal
    <3>1. HasNewest' /\ AllFramed' /\ Abstract!Append(r)
      BY <2>3, AppendWriteWindow
    <3> QED BY <3>1 DEF Abstract!Next
  <2> QED BY <1>4, <2>1, <2>2, <2>3, <2>4 DEF AppendStep
<1>5. ASSUME NEW t \in Truncators, NEW low \in 0 .. MaxOffset, TruncateBegin(t, low)
      PROVE  Still
  BY <1>5, QuietSteps
<1>6. ASSUME NEW t \in Truncators, TruncateStep(t)
      PROVE  Goal
  <2>1. CASE TruncateKeep(t) \/ TruncateUnlink(t) \/ TruncateEnd(t)
    BY <2>1, QuietSteps
  <2>2. CASE TruncateRemove(t)
    <3>1. HasNewest' /\ AllFramed' /\ \E first \in 0 .. LogNext : Abstract!Drop(first)
      BY <2>2, TruncateRemoveWindow
    <3> QED BY <3>1 DEF Abstract!Next
  <2>3. CASE TruncateCloseIndex(t) \/ TruncateCloseStore(t)
    BY <2>3, TruncateCloseWindow
  <2> QED BY <1>0, <1>6, <2>1, <2>2, <2>3, TruncateErrorNever DEF TruncateStep
<1>7. ASSUME NEW off \in 0 .. MaxOffset, Read(off)
      PROVE  Still
  BY <1>7, ReadWindow
<1>8. CASE CloseBegin \/ CloseIndex \/ CloseStore \/ CloseError \/ CloseEnd
  BY <1>0, <1>8, QuietSteps, CloseIndexWindow, CloseStoreWindow, CloseEndWindow, CloseErrorNever
<1>9. ~ Crash
  BY <1>0, CommitLogAssumption DEF Crash, Inv, TypeOK, BoundsOK
<1>10. CASE UNCHANGED vars
  BY <1>10, QuietSteps
<1> QED BY <1>1, <1>2, <1>3, <1>4, <1>5, <1>6, <1>7, <1>8, <1>9, <1>10 DEF Next

LEMMA StepKeepsControl ==
    ASSUME Sequential, MaxCrashes = 0, LogInv, Inv', OrderInv', [Next]_vars
    PROVE  ControlInv'
<1>0. Inv /\ OrderInv /\ HonestInv /\ ControlInv
  BY DEF LogInv, WindowInv
<1>1. CASE SetupBegin \/ SetupSegment \/ SetupDone
  BY <1>0, <1>1, SetupControl
<1>2. ASSUME NEW t \in Appenders, AppendHighest(t) \/ AppendPanic(t) \/ AppendStep(t)
      PROVE  ControlInv'
  BY <1>0, <1>2, AppendControl, AppendPanicNever
<1>3. ASSUME NEW t \in Truncators, NEW low \in 0 .. MaxOffset, TruncateBegin(t, low)
      PROVE  ControlInv'
  <2>1. low \in Nat
    BY CommitLogAssumption
  <2> QED BY <1>0, <1>3, <2>1, TruncateBeginControl
<1>4. ASSUME NEW t \in Truncators, TruncateStep(t)
      PROVE  ControlInv'
  BY <1>0, <1>4, TruncateKeepControl, TruncateCloseIndexControl, TruncateCloseStoreControl,
     TruncateRemoveControl, TruncateUnlinkControl, TruncateEndControl, TruncateErrorNever
     DEF TruncateStep
<1>5. ASSUME NEW off \in 0 .. MaxOffset, Read(off)
      PROVE  ControlInv'
  BY <1>0, <1>5, ReadControl
<1>6. CASE CloseBegin \/ CloseIndex \/ CloseStore \/ CloseError \/ CloseEnd \/ Crash
  BY <1>0, <1>6, CloseControl, CloseErrorNever
<1>7. CASE UNCHANGED vars
  <2>1. UNCHANGED <<storeFile, indexFile, heap, active, status, pc, local>>
    BY <1>7 DEF vars, disk, log, process, threads
  <2> QED BY <1>0, <2>1 DEF ControlInv, LoopSpares, RoomLeft, BothFiles, RollNext,
             Truncating, Removable
<1> QED BY <1>1, <1>2, <1>3, <1>4, <1>5, <1>6, <1>7 DEF Next

LEMMA InitLog ==
    ASSUME MaxCrashes = 0
    PROVE  Init => LogInv /\ Abstract!Init
<1> SUFFICES ASSUME Init PROVE LogInv /\ Abstract!Init
  OBVIOUS
<1>1. Inv /\ OrderInv /\ HonestInv
  BY InitType, InitOrder, InitHonest
<1>2. /\ indexFile = <<>> /\ storeFile = <<>> /\ DOMAIN indexFile = {}
      /\ \A t \in Threads : pc[t] = "idle"
  BY EmptySeq DEF Init
<1>3. ControlInv
  BY <1>2 DEF ControlInv, LoopSpares, RoomLeft, BothFiles, RollNext, Truncating
<1>4. \A off : ~ Spans(off)
  BY <1>2 DEF Spans
<1>5. HasNewest /\ AllFramed
  BY <1>2, <1>4 DEF HasNewest, AllFramed
<1>6. LogNext = InitialOffset
  BY <1>2 DEF LogNext
<1>7. LogRecords = <<>>
  <2>1. DOMAIN LogRecords = {} /\ LogRecords = [off \in DOMAIN LogRecords |-> LogRecords[off]]
    BY <1>1, <1>4, <1>5, RecordsAre
  <2>2. \A f : f = [off \in {} |-> f[off]] => f = <<>>
    OBVIOUS
  <2> QED BY <2>1, <2>2
<1> QED BY <1>1, <1>3, <1>5, <1>6, <1>7 DEF LogInv, WindowInv, Abstract!Init

(* With one goroutine and no crash the log keeps the promise of the        *)
(* abstract one: what its files, its objects and their buffers hold at any *)
(* moment is a window of records that an Append extends by one record at   *)
(* the next offset, that a Truncate shortens at the old end, sparing the   *)
(* newest, and that nothing else changes: no half of a roll, no read, no   *)
(* half of a shutdown, no step of a recovery (log.go, all of it).          *)
THEOREM CommitLogImplements ==
    ASSUME Sequential, MaxCrashes = 0
    PROVE  Spec => Implements
<1>1. Init => LogInv /\ Abstract!Init
  BY InitLog
<1>2. LogInv /\ [Next]_vars => LogInv' /\ [Abstract!Next]_<<LogRecords, LogNext>>
  <2> SUFFICES ASSUME LogInv, [Next]_vars
               PROVE  LogInv' /\ [Abstract!Next]_<<LogRecords, LogNext>>
    OBVIOUS
  <2>1. Inv /\ OrderInv /\ HonestInv
    BY DEF LogInv
  <2>2. Inv' /\ OrderInv' /\ HonestInv'
    BY <2>1, StepKeepsInv, StepKeepsOrder, StepKeepsHonest DEF OneKindOfEnd
  <2>3. ControlInv'
    BY <2>2, StepKeepsControl
  <2>4. HasNewest' /\ AllFramed' /\ [Abstract!Next]_<<LogRecords, LogNext>>
    BY <2>2, StepImplements
  <2> QED BY <2>2, <2>3, <2>4 DEF LogInv, WindowInv
<1> QED BY <1>1, <1>2, PTL DEF Spec, Implements, Abstract!Spec, Abstract!vars

-----------------------------------------------------------------------------
(* The window has no hole: what the abstract log keeps of itself.          *)

Window == Abstract!TypeOK /\ Abstract!Contiguous

LEMMA AppendKeepsWindow ==
    ASSUME Window, NEW r \in Records, Abstract!Append(r)
    PROVE  Window'
<1>1. LogNext' = LogNext + 1 /\ DOMAIN LogRecords' = DOMAIN LogRecords \cup {LogNext}
  BY DEF Abstract!Append
<1>2. LogNext \in Nat /\ DOMAIN LogRecords \subseteq Nat
  BY DEF Window, Abstract!TypeOK
<1>3. Abstract!TypeOK'
  <2>1. \A off \in DOMAIN LogRecords' : LogRecords'[off] \in Records
    BY DEF Window, Abstract!TypeOK, Abstract!Append
  <2> QED BY <1>1, <1>2, <2>1 DEF Abstract!TypeOK
<1>4. ASSUME NEW off \in DOMAIN LogRecords'
      PROVE  off < LogNext' /\ off .. LogNext' - 1 \subseteq DOMAIN LogRecords'
  <2>1. CASE off = LogNext
    BY <1>1, <1>2, <2>1
  <2>2. CASE off # LogNext
    <3>1. off < LogNext /\ off .. LogNext - 1 \subseteq DOMAIN LogRecords
      BY <1>1, <1>4, <2>2 DEF Window, Abstract!Contiguous
    <3> QED BY <1>1, <1>2, <1>4, <3>1
  <2> QED BY <2>1, <2>2
<1> QED BY <1>3, <1>4 DEF Window, Abstract!Contiguous

LEMMA DropKeepsWindow ==
    ASSUME Window, NEW first \in 0 .. LogNext, Abstract!Drop(first)
    PROVE  Window'
<1>1. LogNext' = LogNext /\ DOMAIN LogRecords' = {o \in DOMAIN LogRecords : first <= o}
  BY DEF Abstract!Drop
<1>2. LogNext \in Nat /\ first \in Nat /\ DOMAIN LogRecords \subseteq Nat
  BY DEF Window, Abstract!TypeOK
<1>3. Abstract!TypeOK'
  <2>1. \A off \in DOMAIN LogRecords' : LogRecords'[off] \in Records
    BY DEF Window, Abstract!TypeOK, Abstract!Drop
  <2> QED BY <1>1, <1>2, <2>1 DEF Abstract!TypeOK
<1>4. ASSUME NEW off \in DOMAIN LogRecords'
      PROVE  off < LogNext' /\ off .. LogNext' - 1 \subseteq DOMAIN LogRecords'
  <2>1. off \in DOMAIN LogRecords /\ first <= off
    BY <1>1
  <2>2. off < LogNext /\ off .. LogNext - 1 \subseteq DOMAIN LogRecords
    BY <2>1 DEF Window, Abstract!Contiguous
  <2>3. \A o \in off .. LogNext - 1 : first <= o
    BY <1>2, <2>1
  <2> QED BY <1>1, <2>2, <2>3
<1> QED BY <1>3, <1>4 DEF Window, Abstract!Contiguous

LEMMA AbstractContiguous == Abstract!Spec => []Abstract!Contiguous
<1>1. Abstract!Init => Window
  BY CommitLogAssumption DEF Abstract!Init, Window, Abstract!TypeOK, Abstract!Contiguous
<1>2. Window /\ [Abstract!Next]_<<LogRecords, LogNext>> => Window'
  <2> SUFFICES ASSUME Window, [Abstract!Next]_<<LogRecords, LogNext>> PROVE Window'
    OBVIOUS
  <2>1. CASE UNCHANGED <<LogRecords, LogNext>>
    BY <2>1 DEF Window, Abstract!TypeOK, Abstract!Contiguous
  <2>2. CASE Abstract!Forget
    BY <2>2, CommitLogAssumption DEF Abstract!Forget, Window, Abstract!TypeOK, Abstract!Contiguous
  <2> QED BY <2>1, <2>2, AppendKeepsWindow, DropKeepsWindow DEF Abstract!Next
<1>3. Window => Abstract!Contiguous
  BY DEF Window
<1> QED BY <1>1, <1>2, <1>3, PTL DEF Abstract!Spec, Abstract!vars

(* The log never has a hole: from any offset it holds, every offset up to  *)
(* the newest is held too, so a consumer that reads upwards misses nothing *)
(* (log.go, Append, Read and Truncate).                                    *)
THEOREM CommitLogContiguous ==
    ASSUME Sequential, MaxCrashes = 0
    PROVE  Spec => []Abstract!Contiguous
<1> QED BY CommitLogImplements, AbstractContiguous DEF Implements

=============================================================================
