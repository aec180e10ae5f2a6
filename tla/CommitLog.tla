----------------------------- MODULE CommitLog -----------------------------
(***************************************************************************)
(* The commit log of internal/log/log.go: a list of segments over the      *)
(* files of one directory.  A node keeps two of them, the log of the       *)
(* records (written by the FSM goroutine of raft) and raft's own log       *)
(* (written by raft's main goroutine and truncated by its snapshot         *)
(* goroutine).                                                             *)
(*                                                                         *)
(* Every call is cut where another goroutine or a crash can get in between *)
(* its effects.  Append takes the lock of the log twice and changes        *)
(* l.segments between the two, with no lock held.  Truncate holds the lock *)
(* over all its file operations.  The files survive the process; segment   *)
(* objects, buffers and locks do not.                                      *)
(***************************************************************************)
EXTENDS Segment

CONSTANTS
    Appenders,     \* the goroutines that call Append
    Truncators,    \* the goroutines that call Truncate
    InitialOffset, \* Config.Segment.InitialOffset
    TrailingLogs,  \* how many of the newest offsets a caller never truncates
    SpillSizes,    \* how many chunks bufio may write out on its own in Append
    MaxOffset,     \* bound: no append once the highest offset is MaxOffset
    MaxOpened,     \* bound: no append once the process opened so many segments
    MaxCrashes,    \* bound on the crashes of the process
    MaxCloses,     \* bound on the orderly shutdowns
    MaxFaults,     \* bound on the creations and removals that fail
    NoThread       \* the holder of the lock when it is free

Threads == Appenders \cup Truncators

ASSUME CommitLogAssumption ==
    /\ InitialOffset \in Nat /\ TrailingLogs \in Nat /\ MaxOffset \in Nat
    /\ MaxOpened \in Nat
    /\ MaxCrashes \in Nat /\ MaxCloses \in Nat /\ MaxFaults \in Nat
    /\ SpillSizes \subseteq Nat
    /\ NoThread \notin Threads

VARIABLES
    storeFile, indexFile,      \* the directory: base offset -> contents
    heap, segments, active,    \* segment objects, l.segments, l.activeSegment
    mu,                        \* who holds l.mu for writing
    status, todo, pending,     \* the process; file names left; segments to close
    pc, local,                 \* each goroutine's place and local variables
    crashes, closes, faults,   \* how much of the bounds is used
    acked, floor               \* history: appends that succeeded; the offsets
                               \* below floor were truncated

disk    == <<storeFile, indexFile>>
log     == <<heap, segments, active>>
process == <<status, todo, pending>>
threads == <<pc, local>>
bounds  == <<crashes, closes, faults>>
history == <<acked, floor>>
vars    == <<disk, log, mu, process, threads, bounds, history>>

(* What a goroutine has in local variables: highestOffset and the new      *)
(* segment of Append, the slice it builds, the argument of Truncate and    *)
(* the segments its loop has not visited.                                  *)
Blank == [high |-> 0, fresh |-> 0, list |-> <<>>, low |-> 0, left |-> <<>>]

Operation == {"idle", "check", "store", "index", "publish", "activate",
              "write", "truncate", "flush", "remove", "unlink"}

Last(s) == s[Len(s)]

(* Mutant: no test for an empty log.                                       *)
HighestOffsetUnchecked == heap[Last(segments)].nextOffset - 1

(* One below the next offset, and 0 for an empty log that starts at 0.     *)
HighestOffset ==
    LET next == heap[Last(segments)].nextOffset
    IN  IF next = 0 THEN 0 ELSE next - 1

-----------------------------------------------------------------------------
(* NewLog and setup: two names at a time in the order of the offsets.  The *)
(* second is taken for the other file of the same segment.                 *)

NamesOnDisk == ((DOMAIN indexFile) \X {"index"}) \cup ((DOMAIN storeFile) \X {"store"})

FirstName(names) == CHOOSE n \in names : \A m \in names : n[1] <= m[1]

OpenSegment(base) ==
    /\ storeFile' = Put(storeFile, base, Contents(storeFile, base))
    /\ indexFile' = Put(indexFile, base, Resized(Contents(indexFile, base), MaxIndexBytes))
    /\ heap' = Append(heap, NewSegment(base, storeFile, indexFile))
    /\ segments' = Append(segments, Len(heap) + 1)
    /\ active' = Len(heap) + 1

SetupBegin ==
    /\ status \in {"down", "panicked"}
    /\ status' = "setup"
    /\ todo' = NamesOnDisk
    /\ UNCHANGED <<disk, log, mu, pending, threads, bounds, history>>

SetupSegment ==
    /\ status = "setup" /\ todo # {}
    /\ LET name == FirstName(todo)
           rest == todo \ {name}
       IN  /\ OpenSegment(name[1])
           /\ todo' = IF rest = {} THEN {} ELSE rest \ {FirstName(rest)}
    /\ UNCHANGED <<mu, status, pending, threads, bounds, history>>

SetupDone ==
    /\ status = "setup" /\ todo = {}
    /\ IF segments = <<>> THEN OpenSegment(InitialOffset) ELSE UNCHANGED <<disk, log>>
    /\ status' = "up"
    /\ UNCHANGED <<mu, todo, pending, threads, bounds, history>>

-----------------------------------------------------------------------------
(* The process ends: what bufio still holds is lost, the files stay.       *)
Die(how) ==
    /\ status' = how
    /\ heap' = <<>> /\ segments' = <<>> /\ active' = 0
    /\ mu' = NoThread /\ todo' = {} /\ pending' = <<>>
    /\ pc' = [t \in Threads |-> "idle"]
    /\ local' = [t \in Threads |-> Blank]
    /\ UNCHANGED <<disk, history>>

Crash ==
    /\ status \in {"setup", "up", "closing"}
    /\ crashes < MaxCrashes
    /\ crashes' = crashes + 1
    /\ Die("down")
    /\ UNCHANGED <<closes, faults>>

-----------------------------------------------------------------------------
(* Append.                                                                 *)

Steps(t, from, to, change) ==
    /\ status = "up"
    /\ pc[t] = from
    /\ pc' = [pc EXCEPT ![t] = to]
    /\ local' = [local EXCEPT ![t] = change]

(* HighestOffset, under the read lock; the active segment's IsMaxed and    *)
(* all of newSegment run with no lock.                                     *)
AppendHighest(t) ==
    /\ mu = NoThread /\ segments # <<>>
    /\ HighestOffset < MaxOffset /\ Len(heap) < MaxOpened
    /\ Steps(t, "idle", "check", [Blank EXCEPT !.high = HighestOffset])
    /\ UNCHANGED <<disk, log, mu, process, bounds, history>>

(* An empty l.segments: the index -1 is out of range and the program ends. *)
AppendPanic(t) ==
    /\ status = "up" /\ pc[t] = "idle"
    /\ mu = NoThread /\ segments = <<>>
    /\ Die("panicked")
    /\ UNCHANGED bounds

AppendCheck(t) ==
    /\ pc[t] = "check"
    /\ IF IsMaxed(heap[active])
       THEN Steps(t, "check", "store", local[t])
       ELSE Steps(t, "check", "write", Blank)
    /\ UNCHANGED <<disk, log, mu, process, bounds, history>>

(* Mutant: the new segment starts at the highest offset, not after it.     *)
RollStoreAtHighest(t) ==
    LET base == local[t].high
    IN  /\ Steps(t, "store", "index", [local[t] EXCEPT !.fresh = Len(heap) + 1])
        /\ storeFile' = Put(storeFile, base, Contents(storeFile, base))
        /\ heap' = Append(heap, NewStore(base, storeFile))
        /\ UNCHANGED <<indexFile, segments, active, mu, process, bounds, history>>

RollStore(t) ==
    LET base == local[t].high + 1
    IN  /\ Steps(t, "store", "index", [local[t] EXCEPT !.fresh = Len(heap) + 1])
        /\ storeFile' = Put(storeFile, base, Contents(storeFile, base))
        /\ heap' = Append(heap, NewStore(base, storeFile))
        /\ UNCHANGED <<indexFile, segments, active, mu, process, bounds, history>>

(* The rest of newSegment, and l.segments read for the append to it.       *)
RollIndex(t) ==
    LET p    == local[t].fresh
        base == heap[p].baseOffset
        ix   == Contents(indexFile, base)
    IN  /\ Steps(t, "index", "publish", [local[t] EXCEPT !.list = segments])
        /\ indexFile' = Put(indexFile, base, Resized(ix, MaxIndexBytes))
        /\ heap' = [heap EXCEPT ![p] = WithIndex(@, ix)]
        /\ UNCHANGED <<storeFile, segments, active, mu, process, bounds, history>>

Fault == faults < MaxFaults /\ faults' = faults + 1

(* newSegment fails at its store file, or at its index file, which it may  *)
(* have created, and Append returns the error.                             *)
RollFails(t) ==
    /\ pc[t] \in {"store", "index"}
    /\ Fault
    /\ LET base == heap[local[t].fresh].baseOffset
       IN  indexFile' \in
             {indexFile} \cup (IF pc[t] = "index"
                               THEN {Put(indexFile, base, Contents(indexFile, base))} ELSE {})
    /\ Steps(t, pc[t], "idle", Blank)
    /\ UNCHANGED <<storeFile, log, mu, process, crashes, closes, history>>

RollPublish(t) ==
    /\ Steps(t, "publish", "activate", [local[t] EXCEPT !.list = <<>>])
    /\ segments' = Append(local[t].list, local[t].fresh)
    /\ UNCHANGED <<disk, heap, active, mu, process, bounds, history>>

RollActivate(t) ==
    /\ Steps(t, "activate", "write", Blank)
    /\ active' = local[t].fresh
    /\ UNCHANGED <<disk, heap, segments, mu, process, bounds, history>>

(* What is written through an object whose file was removed is lost.       *)
Grown(file, base, chunks) ==
    [b \in DOMAIN file |-> IF b = base THEN file[b] \o chunks ELSE file[b]]

(* The new state of the active segment's store; bufio writes the first n   *)
(* chunks of its buffer to the file.                                       *)
StoreWrite(s, n) ==
    /\ heap' = [heap EXCEPT ![active] = [s EXCEPT !.buf = SubSeq(@, n + 1, Len(@))]]
    /\ storeFile' = Grown(storeFile, s.baseOffset, SubSeq(s.buf, 1, n))

(* segment.Append under the lock.  A full index is an error after the      *)
(* store has the record.                                                   *)
AppendWrite(t, r) ==
    /\ mu = NoThread
    /\ Steps(t, "write", "idle", Blank)
    /\ LET s    == heap[active]
           base == s.baseOffset
       IN  \E n \in SpillSizes \cap 0 .. Len(s.buf) + 2 :
             /\ s.files # "open" => n = 0
             /\ IF IndexIsMaxed(s)
                THEN /\ StoreWrite(StoreAppended(s, r), n)
                     /\ UNCHANGED <<indexFile, acked>>
                ELSE /\ StoreWrite(Appended(s, r), n)
                     /\ indexFile' =
                          [b \in DOMAIN indexFile |->
                             IF b = base
                             THEN Written(indexFile[b], s.indexSize + 1, NewEntry(s))
                             ELSE indexFile[b]]
                     /\ acked' = acked \cup {[off |-> s.nextOffset, val |-> r]}
    /\ UNCHANGED <<segments, active, mu, process, bounds, floor>>

-----------------------------------------------------------------------------
(* Read, under the read lock: the first segment that holds the offset.     *)

Holders(off) == {i \in DOMAIN segments : Holds(heap[segments[i]], off)}

(* The pointer of that segment, in a set that is empty when there is none. *)
Found(off) ==
    {segments[i] : i \in {j \in Holders(off) : \A k \in Holders(off) : j <= k}}

(* What an object still finds in a file that was removed through another   *)
(* object over it is left out.                                             *)
ReadBack(s, off) ==
    IF s.baseOffset \in (DOMAIN storeFile) \cap (DOMAIN indexFile)
    THEN SegmentRead(s, off, storeFile[s.baseOffset] \o s.buf, indexFile[s.baseOffset])
    ELSE {}

(* What Read(off) returns: {} for every error, or the record as {frame}.   *)
ReadOf(off) == UNION {ReadBack(heap[p], off) : p \in Found(off)}

Read(off) ==
    /\ status = "up" /\ mu = NoThread
    /\ \E p \in Found(off) :
         /\ heap[p].files = "open" /\ Indexed(heap[p], off)
         /\ heap[p].buf # <<>>
         /\ heap' = [heap EXCEPT ![p] = Flushed(@)]
         /\ storeFile' = Grown(storeFile, heap[p].baseOffset, heap[p].buf)
    /\ UNCHANGED <<indexFile, segments, active, mu, process, threads, bounds, history>>

-----------------------------------------------------------------------------
(* Truncate(low), under the lock from its first line to its last.          *)

TruncateBegin(t, low) ==
    /\ mu = NoThread /\ segments # <<>>
    /\ low + TrailingLogs <= HighestOffset
    /\ Steps(t, "idle", "truncate", [Blank EXCEPT !.low = low, !.left = segments])
    /\ mu' = t
    /\ floor' = IF low >= floor THEN low + 1 ELSE floor
    /\ UNCHANGED <<disk, log, process, bounds, acked>>

(* Mutant: one offset too many.                                            *)
RemovableOneMore(s, low) == s.nextOffset <= low + 2

Removable(s, low) == s.nextOffset <= low + 1

TruncateKeep(t) ==
    /\ local[t].left # <<>>
    /\ ~Removable(heap[Head(local[t].left)], local[t].low)
    /\ Steps(t, "truncate", "truncate",
             [local[t] EXCEPT !.list = Append(@, Head(local[t].left)), !.left = Tail(@)])
    /\ UNCHANGED <<disk, log, mu, process, bounds, history>>

(* index.Close cuts the file to the entries written.                       *)
Cut(file, s) ==
    [b \in DOMAIN file |->
        IF b = s.baseOffset THEN Resized(file[b], s.indexSize) ELSE file[b]]

Closed(s) == [s EXCEPT !.buf = <<>>, !.files = "closed"]

(* segment.Remove: index.Close, store.Close, and the removal of the two    *)
(* files.  What a crash after the first of them loses is the buffer of a   *)
(* store whose index is complete.                                          *)
TruncateCloseIndex(t) ==
    /\ local[t].left # <<>>
    /\ LET p == Head(local[t].left)
           s == heap[p]
       IN  /\ Removable(s, local[t].low) /\ s.files = "open"
           /\ heap' = [heap EXCEPT ![p].files = "half"]
           /\ indexFile' = Cut(indexFile, s)
    /\ Steps(t, "truncate", "flush", local[t])
    /\ UNCHANGED <<storeFile, segments, active, mu, process, bounds, history>>

TruncateCloseStore(t) ==
    /\ pc[t] = "flush"
    /\ LET p == Head(local[t].left)
       IN  /\ heap' = [heap EXCEPT ![p] = Closed(@)]
           /\ storeFile' = Grown(storeFile, heap[p].baseOffset, heap[p].buf)
    /\ Steps(t, "flush", "remove", local[t])
    /\ UNCHANGED <<indexFile, segments, active, mu, process, bounds, history>>

(* The base offset of the segment that Truncate is at.                     *)
BaseAt(t) == heap[Head(local[t].left)].baseOffset

TruncateRemove(t) ==
    /\ pc[t] = "remove" /\ BaseAt(t) \in DOMAIN indexFile
    /\ indexFile' = Delete(indexFile, BaseAt(t))
    /\ Steps(t, "remove", "unlink", local[t])
    /\ UNCHANGED <<storeFile, log, mu, process, bounds, history>>

TruncateUnlink(t) ==
    /\ pc[t] = "unlink" /\ BaseAt(t) \in DOMAIN storeFile
    /\ storeFile' = Delete(storeFile, BaseAt(t))
    /\ Steps(t, "unlink", "truncate", [local[t] EXCEPT !.left = Tail(@)])
    /\ UNCHANGED <<indexFile, log, mu, process, bounds, history>>

(* Mutant: the error path does not release the lock.                       *)
ReturnLocked(t) ==
    /\ Steps(t, pc[t], "idle", Blank)
    /\ mu' = IF local[t].left = <<>> THEN NoThread ELSE mu

(* Truncate gives up the lock on every path out.                           *)
Return(t) ==
    /\ Steps(t, pc[t], "idle", Blank)
    /\ mu' = NoThread

(* Truncate returns an error and leaves l.segments as it was: Remove of a  *)
(* segment that is closed already fails at index.Close; the removal of a   *)
(* file may fail, also because the file is gone (an object over the same   *)
(* files was removed before).                                              *)
TruncateClosed(t) ==
    /\ pc[t] = "truncate" /\ local[t].left # <<>>
    /\ LET s == heap[Head(local[t].left)]
       IN  Removable(s, local[t].low) /\ s.files # "open"
    /\ Return(t)
    /\ UNCHANGED <<disk, log, process, bounds, history>>

TruncateStuck(t) ==
    /\ pc[t] \in {"remove", "unlink"}
    /\ IF BaseAt(t) \in DOMAIN (IF pc[t] = "remove" THEN indexFile ELSE storeFile)
       THEN Fault
       ELSE UNCHANGED faults
    /\ Return(t)
    /\ UNCHANGED <<disk, log, process, crashes, closes, history>>

TruncateEnd(t) ==
    /\ pc[t] = "truncate" /\ local[t].left = <<>>
    /\ segments' = local[t].list
    /\ Return(t)
    /\ UNCHANGED <<disk, heap, active, process, bounds, history>>

-----------------------------------------------------------------------------
(* Close, after the goroutines are done: index then store of each segment, *)
(* and the end of the process.                                             *)

CloseBegin ==
    /\ status = "up" /\ mu = NoThread
    /\ \A t \in Threads : pc[t] = "idle"
    /\ closes < MaxCloses
    /\ closes' = closes + 1
    /\ status' = "closing"
    /\ pending' = segments
    /\ UNCHANGED <<disk, log, mu, todo, threads, crashes, faults, history>>

CloseIndex ==
    /\ status = "closing" /\ pending # <<>>
    /\ LET p == Head(pending)
           s == heap[p]
       IN  /\ s.files = "open"
           /\ heap' = [heap EXCEPT ![p].files = "half"]
           /\ indexFile' = Cut(indexFile, s)
    /\ UNCHANGED <<storeFile, segments, active, mu, process, threads, bounds, history>>

CloseStore ==
    /\ status = "closing" /\ pending # <<>>
    /\ LET p == Head(pending)
           s == heap[p]
       IN  /\ s.files = "half"
           /\ heap' = [heap EXCEPT ![p] = Closed(@)]
           /\ storeFile' = Grown(storeFile, s.baseOffset, s.buf)
    /\ pending' = Tail(pending)
    /\ UNCHANGED <<indexFile, segments, active, mu, status, todo, threads, bounds, history>>

(* A segment that a failed Truncate closed fails at its index; Close       *)
(* returns the error and the segments after it are never closed.           *)
CloseError ==
    /\ status = "closing" /\ pending # <<>>
    /\ heap[Head(pending)].files = "closed"
    /\ Die("down")
    /\ UNCHANGED bounds

CloseEnd ==
    /\ status = "closing" /\ pending = <<>>
    /\ Die("down")
    /\ UNCHANGED bounds

-----------------------------------------------------------------------------
Init ==
    /\ storeFile = <<>> /\ indexFile = <<>>
    /\ heap = <<>> /\ segments = <<>> /\ active = 0
    /\ mu = NoThread
    /\ status = "down" /\ todo = {} /\ pending = <<>>
    /\ pc = [t \in Threads |-> "idle"]
    /\ local = [t \in Threads |-> Blank]
    /\ crashes = 0 /\ closes = 0 /\ faults = 0
    /\ acked = {} /\ floor = 0

AppendStep(t) ==
    \/ AppendCheck(t) \/ RollStore(t) \/ RollIndex(t) \/ RollFails(t)
    \/ RollPublish(t) \/ RollActivate(t)
    \/ \E r \in Records : AppendWrite(t, r)

TruncateStep(t) ==
    \/ TruncateKeep(t) \/ TruncateCloseIndex(t) \/ TruncateCloseStore(t)
    \/ TruncateRemove(t) \/ TruncateUnlink(t)
    \/ TruncateClosed(t) \/ TruncateStuck(t) \/ TruncateEnd(t)

Next ==
    \/ SetupBegin \/ SetupSegment \/ SetupDone
    \/ \E t \in Appenders : AppendHighest(t) \/ AppendPanic(t) \/ AppendStep(t)
    \/ \E t \in Truncators : \/ \E low \in 0 .. MaxOffset : TruncateBegin(t, low)
                             \/ TruncateStep(t)
    \/ \E off \in 0 .. MaxOffset : Read(off)
    \/ CloseBegin \/ CloseIndex \/ CloseStore \/ CloseError \/ CloseEnd
    \/ Crash

Spec == Init /\ [][Next]_vars

(* A goroutine inside a call goes on.  sync.RWMutex does not starve a      *)
(* waiter, so a call that waits for the lock gets it when it is released   *)
(* again and again: strong fairness for the one step that takes it.        *)
Fairness ==
    /\ \A t \in Appenders : SF_vars(AppendStep(t))
    /\ \A t \in Truncators : WF_vars(TruncateStep(t))

FairSpec == Spec /\ Fairness

-----------------------------------------------------------------------------
(* Shape of the state: the files, the pointers into the heap, the          *)
(* goroutines' local variables.                                            *)
FileOf(file, S) == DOMAIN file \subseteq Nat /\ \A b \in DOMAIN file : file[b] \in Seq(S)

DiskOK == FileOf(storeFile, Chunk) /\ FileOf(indexFile, Entry)

LogOK ==
    /\ heap \in Seq(SegmentObject)
    /\ segments \in Seq(DOMAIN heap)
    /\ active \in DOMAIN heap \cup {0}

ProcessOK ==
    /\ mu \in Threads \cup {NoThread}
    /\ status \in {"down", "setup", "up", "closing", "panicked"}
    /\ todo \subseteq Nat \X {"index", "store"}
    /\ pending \in Seq(DOMAIN heap)

LocalOf(pointers) ==
    [high : Nat, fresh : pointers \cup {0}, list : Seq(pointers),
     low : Nat, left : Seq(pointers)]

ThreadsOK ==
    /\ pc \in [Threads -> Operation]
    /\ local \in [Threads -> LocalOf(DOMAIN heap)]

BoundsOK ==
    /\ crashes \in 0 .. MaxCrashes
    /\ closes \in 0 .. MaxCloses
    /\ faults \in 0 .. MaxFaults

HistoryOK == acked \subseteq [off : Nat, val : Records] /\ floor \in Nat

TypeOK == DiskOK /\ LogOK /\ ProcessOK /\ ThreadsOK /\ BoundsOK /\ HistoryOK

(* What the code takes for granted when it follows a pointer: a log that   *)
(* is up or has segments has an active one (Append reads l.activeSegment   *)
(* with no test), a goroutine in the middle of a roll has its new segment, *)
(* and one in the middle of a removal knows which it removes.              *)
ActiveSet == status = "up" \/ segments # <<>> => active # 0

LocalsSet ==
    \A t \in Threads :
        /\ pc[t] \in {"index", "publish", "activate"} => local[t].fresh # 0
        /\ pc[t] \in {"flush", "remove", "unlink"} => local[t].left # <<>>
        /\ pc[t] # "idle" => status = "up"

PointersSet == ActiveSet /\ LocalsSet

(* No goroutine is inside Truncate or Close.                               *)
Readable == status = "up" /\ mu = NoThread

(* Every append that succeeded can be read back at the offset it returned, *)
(* until a Truncate at or above that offset (log.go, Append and Read),     *)
(* over any number of rolls, truncations and orderly restarts.             *)
AckedReadable ==
    Readable =>
        \A a \in acked :
            a.off >= floor =>
                \E c \in ReadOf(a.off) : c.off = a.off /\ c.val = a.val

(* A read that succeeds returns a record that was appended with the very   *)
(* offset asked for (log.go, Read), whatever crashes came before.  A crash *)
(* in the middle of Close breaks it, and so does one in the middle of the  *)
(* removal of the newest segment (TrailingLogs = 0).                       *)
ReadsNeverLie ==
    Readable =>
        \A off \in 0 .. MaxOffset + 1 : \A c \in ReadOf(off) :
            c.off = off /\ [off |-> c.off, val |-> c.val] \in acked

(* The segments in l.segments cover offset ranges that do not overlap, in  *)
(* increasing order: Read takes the first that holds an offset and         *)
(* HighestOffset asks the last (log.go, setup, Append and Truncate).       *)
SegmentsOrdered ==
    status = "up" =>
        \A i, j \in DOMAIN segments :
            i < j => heap[segments[i]].nextOffset <= heap[segments[j]].baseOffset

(* Truncation, even one that fails halfway, never closes the segment that  *)
(* appends go to while the caller spares the newest offset.                *)
ActiveNeverRemoved ==
    status = "up" => heap[active].files = "open"

(* Every Append and every Truncate returns (or the process ends): the lock *)
(* is released on each path out, the errors included.                      *)
CallsReturn == \A t \in Threads : pc[t] # "idle" ~> pc[t] = "idle"
=============================================================================
