--------------------------- MODULE LogRefinement ---------------------------
(***************************************************************************)
(* CommitLog implements AbstractLog: which window of records the files,    *)
(* the segment objects and their buffers stand for, at every moment, the   *)
(* moments between an orderly shutdown and the next start included.        *)
(***************************************************************************)
EXTENDS CommitLog

(* The segment of a base offset: the object over its files while one is    *)
(* open, or what newSegment would make of the files.                       *)
OpenObjects(base) ==
    {p \in DOMAIN heap : heap[p].baseOffset = base /\ heap[p].files # "closed"}

ObjectOf(base) ==
    IF OpenObjects(base) = {}
    THEN NewSegment(base, storeFile, indexFile)
    ELSE heap[CHOOSE p \in OpenObjects(base) : \A q \in OpenObjects(base) : q <= p]

(* What a read of an offset would find, in whichever segments hold it.     *)
Stored(s, off) ==
    StoreRead(Contents(storeFile, s.baseOffset) \o s.buf,
              EntryAt(indexFile[s.baseOffset], off - s.baseOffset + 1).pos)

LogRecords ==
    LET objects == {ObjectOf(base) : base \in DOMAIN indexFile}
        found   == [off \in 0 .. MaxOffset + 1 |->
                       UNION {Stored(s, off) : s \in {o \in objects : Holds(o, off)}}]
        kept    == {off \in DOMAIN found : found[off] # {}}
    IN  [off \in kept |-> (CHOOSE c \in found[off] : TRUE).val]

LogNext ==
    IF indexFile = <<>>
    THEN InitialOffset
    ELSE LET newest == CHOOSE b \in DOMAIN indexFile : \A c \in DOMAIN indexFile : c <= b
         IN  ObjectOf(newest).nextOffset

Abstract == INSTANCE AbstractLog WITH records <- LogRecords, next <- LogNext

(* With one goroutine at a time and no crash, every step of the log, each  *)
(* half of a roll, a truncation, a shutdown and a recovery included, is a  *)
(* step of the abstract log or changes nothing of it (log.go, all of it).  *)
Implements == Abstract!Spec
=============================================================================
