------------------------------ MODULE Segment ------------------------------
(***************************************************************************)
(* One segment of the commit log: the store file that holds the records,   *)
(* the memory-mapped index file that says where each record starts, and    *)
(* the in-memory object over the two (internal/log/store.go, index.go and  *)
(* segment.go).  This module has no state of its own: it defines what the  *)
(* operations of a segment compute, and CommitLog applies them to the      *)
(* files on disk and to the segment objects of the running process.        *)
(*                                                                         *)
(* Data abstraction.  A record takes two chunks of a store file, its       *)
(* length prefix and its body, because store.Append writes the two apart   *)
(* and a crash can keep one without the other: positions and MaxStoreBytes *)
(* count chunks.  An (offset, position) entry is one unit of an index      *)
(* file, so MaxIndexBytes counts entries.                                  *)
(***************************************************************************)
EXTENDS Naturals, Sequences

CONSTANTS
    Records,        \* the record values that clients append
    MaxStoreBytes,  \* Config.Segment.MaxStoreBytes, in chunks
    MaxIndexBytes   \* Config.Segment.MaxIndexBytes, in index entries

ASSUME SegmentAssumption ==
    /\ MaxStoreBytes \in Nat \ {0}
    /\ MaxIndexBytes \in Nat \ {0}

Chunk == [part : {"length", "body"}, off : Nat, val : Records]

Entry == [off : Nat, pos : Nat]

(* What a file that os.Truncate made longer reads back as.                 *)
ZeroEntry == [off |-> 0, pos |-> 0]

(* files says how far Close went: it closes the index, then the store.  An *)
(* index entry holds nextOffset - baseOffset, which must not be negative.  *)
SegmentRecord ==
    [baseOffset : Nat, nextOffset : Nat,
     size       : Nat, buf : Seq(Chunk),  \* store: size and unflushed bufio
     indexSize  : Nat,                    \* index: size
     files      : {"open", "half", "closed"}]

SegmentObject == {s \in SegmentRecord : s.baseOffset <= s.nextOffset}

-----------------------------------------------------------------------------
(* Files, as partial functions from the base offset in the file name.      *)

Contents(file, base) == IF base \in DOMAIN file THEN file[base] ELSE <<>>

Put(file, base, contents) ==
    [b \in DOMAIN file \cup {base} |-> IF b = base THEN contents ELSE file[b]]

Delete(file, base) == [b \in DOMAIN file \ {base} |-> file[b]]

-----------------------------------------------------------------------------
(* The index.  Its file is mapped shared: what Write stores is in the file *)
(* at once, whatever happens to the process.                               *)

EntryAt(ix, slot) == IF slot \in DOMAIN ix THEN ix[slot] ELSE ZeroEntry

(* Truncate, up to MaxIndexBytes in newIndex, to the size used in Close.   *)
Resized(ix, n) == [slot \in 1..n |-> EntryAt(ix, slot)]

(* index.Write at a slot; past the end of a file cut by Close it is lost.  *)
Written(ix, slot, e) == IF slot \in DOMAIN ix THEN [ix EXCEPT ![slot] = e] ELSE ix

IndexIsMaxed(s) == s.indexSize >= MaxIndexBytes

-----------------------------------------------------------------------------
(* newStore: the object trusts the size that the file has.                 *)
NewStore(base, storeFile) ==
    [baseOffset |-> base, nextOffset |-> base,
     size       |-> Len(Contents(storeFile, base)), buf |-> <<>>,
     indexSize  |-> 0,
     files      |-> "open"]

(* Mutant: the last offset is taken for the next one.                      *)
WithIndexLast(s, ix) ==
    [s EXCEPT !.indexSize  = Len(ix),
              !.nextOffset = IF ix = <<>>
                             THEN s.baseOffset
                             ELSE s.baseOffset + ix[Len(ix)].off]

(* newIndex and the end of newSegment: the index size is the size of the   *)
(* file before it is extended, and the next offset follows the last entry. *)
WithIndex(s, ix) ==
    [s EXCEPT !.indexSize  = Len(ix),
              !.nextOffset = IF ix = <<>>
                             THEN s.baseOffset
                             ELSE s.baseOffset + ix[Len(ix)].off + 1]

NewSegment(base, storeFile, indexFile) ==
    WithIndex(NewStore(base, storeFile), Contents(indexFile, base))

(* Mutant: only the store can be full.                                     *)
IsMaxedStore(s) == s.size >= MaxStoreBytes

IsMaxed(s) == s.size >= MaxStoreBytes \/ IndexIsMaxed(s)

(* segment.Append, in two parts.  store.Append always happens; the index   *)
(* entry is written only while the index has room, and an append that      *)
(* finds it full leaves the frame in the store and the offset unused.      *)
Framed(s, r) ==
    <<[part |-> "length", off |-> s.nextOffset, val |-> r],
      [part |-> "body",   off |-> s.nextOffset, val |-> r]>>

StoreAppended(s, r) ==
    [s EXCEPT !.buf = @ \o Framed(s, r), !.size = @ + 2]

NewEntry(s) == [off |-> s.nextOffset - s.baseOffset, pos |-> s.size]

Appended(s, r) ==
    [StoreAppended(s, r) EXCEPT !.indexSize = @ + 1, !.nextOffset = @ + 1]

(* store.Read and store.ReadAt flush the buffer before they read.          *)
Flushed(s) == [s EXCEPT !.buf = <<>>]

Holds(s, off) == s.baseOffset <= off /\ off < s.nextOffset

(* The index entry of an offset is within the index (else it is io.EOF).   *)
Indexed(s, off) == off - s.baseOffset + 1 <= s.indexSize

(* store.Read: the length at a position and the body that follows it.  All *)
(* that fails (the end of the file, bytes that are not a record) is the    *)
(* empty set, and a record that is read is a singleton.                    *)
StoreRead(stored, pos) ==
    {stored[i] : i \in {j \in DOMAIN stored :
        /\ j = pos + 2
        /\ stored[j].part = "body"
        /\ stored[j - 1] = [stored[j] EXCEPT !.part = "length"]}}

(* segment.Read of an offset the segment holds.                            *)
SegmentRead(s, off, stored, ix) ==
    IF s.files = "open" /\ Indexed(s, off)
    THEN StoreRead(stored, EntryAt(ix, off - s.baseOffset + 1).pos)
    ELSE {}
=============================================================================
