------------------------------ MODULE Snapshot ------------------------------
(***************************************************************************)
(* Snapshots of one node's record log, internal/log/distributed.go         *)
(* (Snapshot, Persist, Restore) over internal/log/log.go (Reader, Reset).  *)
(* The FSM goroutine applies entries and says what a snapshot is to hold;  *)
(* raft's snapshot goroutine copies it while entries go on being applied,  *)
(* and then compacts the raft log; a process that starts restores it.      *)
(*                                                                         *)
(* Data abstraction.  The units of the record log are numbered from 1 in   *)
(* the order they were appended; a record is two of them, its length and   *)
(* its body, since a copy may stop between the two.  A store is a range of *)
(* units.  Crashes are the subject of CommitLog: here a process is closed. *)
(***************************************************************************)
EXTENDS Naturals, Sequences, FiniteSets

CONSTANTS
    MaxStoreBytes, \* Config.Segment.MaxStoreBytes, in units
    CopyBytes,     \* the buffer of io.Copy, in units
    TrailingLogs,  \* raft.Config.TrailingLogs
    MaxIndex,      \* bound on the entries
    MaxSnapshots,  \* bound on the snapshots that are begun
    MaxStarts      \* bound on the starts of the process

ASSUME SnapshotAssumption ==
    /\ MaxStoreBytes \in Nat \ {0} /\ CopyBytes \in Nat \ {0}
    /\ TrailingLogs \in Nat
    /\ MaxIndex \in Nat /\ MaxSnapshots \in Nat /\ MaxStarts \in Nat

VARIABLES
    entries,   \* the types of the committed raft entries, by index
    first,     \* FirstIndex of the raft log
    applied,   \* the index of the last entry given to the FSM
    stores,    \* the stores of the record log; none when its directory is gone
    copy,      \* what the snapshot goroutine does
    snapshot,  \* the newest one in the FileSnapshotStore, in a set
    status,    \* the process
    begun, starts  \* how much of the bounds is used

raft   == <<entries, first, applied>>
bounds == <<begun, starts>>
vars   == <<raft, stores, copy, snapshot, status, bounds>>

EntryType == {"command", "other"}

(* The units after from up to to; those up to flushed are in the file.     *)
Store == [from : Nat, to : Nat, flushed : Nat]

NewStore(from) == [from |-> from, to |-> from, flushed |-> from]

(* cur and last are the numbers of the store that is read and of the last  *)
(* one of the list that Reader made; off is originReader.off; held says    *)
(* how many units the record log had at that moment (history).             *)
Copy == [step : {"idle", "copy", "compact"}, index : Nat, held : Nat,
         cur : Nat, last : Nat, off : Nat, sink : Seq(Nat)]

NoCopy == [step |-> "idle", index |-> 0, held |-> 0,
           cur |-> 0, last |-> 0, off |-> 0, sink |-> <<>>]

Written == stores[Len(stores)].to

LeastOf(a, b) == IF a <= b THEN a ELSE b

-----------------------------------------------------------------------------
(* Raft commits an entry; its FSM goroutine applies the next one.          *)

Commit(type) ==
    /\ status = "up" /\ Len(entries) < MaxIndex
    /\ entries' = Append(entries, type)
    /\ UNCHANGED <<first, applied, stores, copy, snapshot, status, bounds>>

IsMaxed(s) == s.to - s.from >= MaxStoreBytes

(* Log.Append in one step (CommitLog cuts it): roll, then two more units   *)
(* in the buffer, of which bufio may write some.                           *)
Appended(s) == {[s EXCEPT !.to = @ + 2, !.flushed = f] : f \in s.flushed .. s.to + 2}

LogAppend ==
    LET n == Len(stores)
    IN  IF IsMaxed(stores[n])
        THEN \E s \in Appended(NewStore(Written)) : stores' = Append(stores, s)
        ELSE \E s \in Appended(stores[n]) : stores' = [stores EXCEPT ![n] = s]

Apply ==
    /\ status = "up" /\ applied < Len(entries)
    /\ applied + 1 >= first
    /\ applied' = applied + 1
    /\ IF entries[applied + 1] = "command" THEN LogAppend ELSE UNCHANGED stores
    /\ UNCHANGED <<entries, first, copy, snapshot, status, bounds>>

-----------------------------------------------------------------------------
(* The snapshot goroutine.  fsm.Snapshot runs between two calls of Apply;  *)
(* Log.Reader makes the list of the stores there are.                      *)

TakeSnapshot ==
    /\ status = "up" /\ copy.step = "idle" /\ begun < MaxSnapshots
    /\ applied > 0
    /\ begun' = begun + 1
    /\ copy' = [step |-> "copy", index |-> applied, held |-> Written,
                cur |-> 1, last |-> Len(stores), off |-> 0, sink |-> <<>>]
    /\ UNCHANGED <<raft, stores, snapshot, status, starts>>

(* Mutant: ReadAt does not flush.                                          *)
FlushedNot(s) == s

(* store.ReadAt flushes before it reads, with the lock of the store.       *)
Flushed(s) == [s EXCEPT !.flushed = s.to]

(* Mutant: the list of the stores is looked up again at the end of it.     *)
LastOfListLive == Len(stores)

LastOfList == copy.last

(* originReader.Read in Persist's io.Copy: as much as fits the buffer.  A  *)
(* short read is the end of the file, and io.MultiReader goes on with the  *)
(* next store.                                                             *)
PersistRead ==
    /\ copy.step = "copy" /\ copy.cur <= LastOfList
    /\ LET s    == Flushed(stores[copy.cur])
           pos  == s.from + copy.off
           stop == LeastOf(pos + CopyBytes, s.flushed)
       IN  /\ stores' = [stores EXCEPT ![copy.cur] = s]
           /\ copy' = [copy EXCEPT
                 !.sink = @ \o [i \in 1 .. stop - pos |-> pos + i],
                 !.cur  = IF stop < pos + CopyBytes THEN @ + 1 ELSE @,
                 !.off  = IF stop < pos + CopyBytes THEN 0 ELSE @ + CopyBytes]
    /\ UNCHANGED <<raft, snapshot, status, bounds>>

(* sink.Close: the snapshot counts, and the older ones are reaped.         *)
PersistClose ==
    /\ copy.step = "copy" /\ copy.cur > LastOfList
    /\ snapshot' = {[index |-> copy.index, held |-> copy.held, units |-> copy.sink]}
    /\ copy' = [copy EXCEPT !.step = "compact"]
    /\ UNCHANGED <<raft, stores, status, bounds>>

(* Mutant: Persist does not return the error, and raft goes on.            *)
PersistSwallows ==
    /\ copy.step = "copy"
    /\ copy' = [copy EXCEPT !.step = "compact"]
    /\ UNCHANGED <<raft, stores, snapshot, status, bounds>>

(* A read or a write fails: sink.Cancel, and raft leaves it at that.       *)
PersistFails ==
    /\ copy.step = "copy"
    /\ copy' = NoCopy
    /\ UNCHANGED <<raft, stores, snapshot, status, bounds>>

(* raft.compactLogs calls DeleteRange up to the index of the snapshot but  *)
(* for the trailing entries; Truncate removes whole segments, so that what *)
(* is left begins at one of them, at most after the last entry named.      *)
Compact ==
    /\ copy.step = "compact"
    /\ copy' = NoCopy
    /\ IF Len(entries) <= TrailingLogs THEN UNCHANGED first
       ELSE \E base \in first .. LeastOf(copy.index, Len(entries) - TrailingLogs) + 1 :
               first' = base
    /\ UNCHANGED <<entries, applied, stores, snapshot, status, bounds>>

-----------------------------------------------------------------------------
(* DistributedLog.Close: raft.Shutdown waits for its goroutines, then both *)
(* logs are flushed and closed.                                            *)
Close ==
    /\ status = "up" /\ copy.step = "idle"
    /\ status' = "closed"
    /\ stores' = [k \in DOMAIN stores |-> Flushed(stores[k])]
    /\ UNCHANGED <<raft, copy, snapshot, bounds>>

(* Mutant: an empty directory is left without a segment.                   *)
StartBare ==
    /\ status \in {"closed", "failed"} /\ starts < MaxStarts
    /\ starts' = starts + 1
    /\ status' = "starting"
    /\ UNCHANGED <<raft, stores, copy, snapshot, begun>>

(* NewDistributedLog up to NewRaft: the directory is made if it is gone,   *)
(* and a log without segments gets one.                                    *)
Start ==
    /\ status \in {"closed", "failed"} /\ starts < MaxStarts
    /\ starts' = starts + 1
    /\ status' = "starting"
    /\ stores' = IF stores = <<>> THEN <<NewStore(0)>> ELSE stores
    /\ UNCHANGED <<raft, copy, snapshot, begun>>

(* No snapshot, or one with no record in it: Restore finds the end of the  *)
(* file at once and leaves the record log as it is.                        *)
RestoreNothing ==
    /\ status = "starting"
    /\ \A s \in snapshot : s.units = <<>>
    /\ status' = "up"
    /\ applied' = IF snapshot = {} THEN 0 ELSE (CHOOSE s \in snapshot : TRUE).index
    /\ UNCHANGED <<entries, first, stores, copy, snapshot, bounds>>

(* Mutant: raft starts at the snapshot although Restore failed.            *)
RestoreIgnored ==
    /\ status = "starting"
    /\ \E s \in snapshot : s.units # <<>> /\ applied' = s.index
    /\ stores' = <<NewStore(0)>> /\ status' = "up"
    /\ UNCHANGED <<entries, first, copy, snapshot, bounds>>

(* The first record of a snapshot: Reset closes the log and removes its    *)
(* directory, then setup reads the directory, which fails.  Restore        *)
(* returns the error, NewRaft has no other snapshot and fails too.         *)
Restore ==
    /\ status = "starting"
    /\ \E s \in snapshot : s.units # <<>>
    /\ stores' = <<>> /\ status' = "failed"
    /\ UNCHANGED <<raft, copy, snapshot, bounds>>

-----------------------------------------------------------------------------
Init ==
    /\ entries = <<>> /\ first = 1 /\ applied = 0
    /\ stores = <<NewStore(0)>>
    /\ copy = NoCopy /\ snapshot = {}
    /\ status = "up"
    /\ begun = 0 /\ starts = 0

Next ==
    \/ \E type \in EntryType : Commit(type)
    \/ Apply
    \/ TakeSnapshot \/ PersistRead \/ PersistClose \/ PersistFails \/ Compact
    \/ Close \/ Start \/ RestoreNothing \/ Restore

Spec == Init /\ [][Next]_vars

-----------------------------------------------------------------------------
SnapshotRecord == [index : Nat, held : Nat, units : Seq(Nat)]

(* Shape of the state.                                                     *)
TypeOK ==
    /\ entries \in Seq(EntryType) /\ first \in Nat /\ applied \in Nat
    /\ stores \in Seq(Store) /\ (status # "failed" => stores # <<>>)
    /\ copy \in Copy
    /\ snapshot \subseteq SnapshotRecord
    /\ status \in {"up", "closed", "starting", "failed"}
    /\ begun \in 0 .. MaxSnapshots /\ starts \in 0 .. MaxStarts

(* A finished snapshot is the beginning of the record log, without a gap,  *)
(* to the end of a record, and has at least what was in the log when the   *)
(* FSM was asked, although it was copied while appends and rolls went on   *)
(* (distributed.go, Persist; log.go, Reader; store.go, ReadAt).            *)
SnapshotFaithful ==
    \A s \in snapshot :
        /\ s.units = [i \in 1 .. Len(s.units) |-> i]
        /\ Len(s.units) % 2 = 0
        /\ s.held <= Len(s.units)

(* The copy cannot run after a writer for ever: beyond what was there when *)
(* it began it holds at most one segment (log.go, Reader).                 *)
SnapshotBounded ==
    \A s \in snapshot : Len(s.units) <= s.held + MaxStoreBytes + 1

(* Compaction never takes an entry that is not in a finished snapshot: the *)
(* entry that raft applies next, now or after a restart, is in the log     *)
(* (distributed.go, Persist and DeleteRange).                              *)
EntriesKept ==
    /\ status = "up" => first <= applied + 1
    /\ IF snapshot = {} THEN first = 1 ELSE \A s \in snapshot : first <= s.index + 1

CommandsIn(n) == {i \in 1 .. n : entries[i] = "command"}

(* A node that serves has the record of every command it applied, whatever *)
(* snapshots and restarts came before (distributed.go, Apply and Restore). *)
ServesAllApplied ==
    status = "up" => 2 * Cardinality(CommandsIn(applied)) <= Written
=============================================================================
