--------------------------- MODULE SnapshotProofs ---------------------------
(***************************************************************************)
(* The invariants of Snapshot for any sizes, bounds and number of copies.  *)
(* The copy is inductive only together with the stores: they are one run   *)
(* of units without a gap (Contiguous), the sink ends where the copy is,   *)
(* and stores only grow (Grows), so that what was copied stays copied      *)
(* right.  Compaction is safe since what it is told to take is in the      *)
(* snapshot before it begins (KeptOK).                                     *)
(***************************************************************************)
EXTENDS Snapshot, FiniteSetTheorems, SequenceTheorems, TLAPS

StoreOK(s) ==
    /\ s.from <= s.flushed /\ s.flushed <= s.to
    /\ s.from % 2 = 0 /\ s.to % 2 = 0
    /\ s.to <= s.from + MaxStoreBytes + 1

Contiguous ==
    \A k \in 1 .. Len(stores) :
        StoreOK(stores[k]) /\ (k > 1 => stores[k].from = stores[k - 1].to)

FromStart == stores # <<>> => stores[1].from = 0

(* The first n units.                                                      *)
Run(n) == [i \in 1 .. n |-> i]

CopyOK ==
    /\ copy.step # "idle" => status = "up"
    /\ copy.step = "copy" =>
          /\ copy.last \in 1 .. Len(stores) /\ copy.cur \in 1 .. copy.last + 1
          /\ copy.sink = Run(Len(copy.sink))
          /\ stores[copy.last].from <= copy.held /\ copy.held <= stores[copy.last].to
          /\ IF copy.cur <= copy.last
             THEN /\ Len(copy.sink) = stores[copy.cur].from + copy.off
                  /\ Len(copy.sink) <= stores[copy.cur].to
             ELSE /\ Len(copy.sink) % 2 = 0
                  /\ copy.held <= Len(copy.sink)
                  /\ Len(copy.sink) <= copy.held + MaxStoreBytes + 1

SnapshotOK == SnapshotFaithful /\ SnapshotBounded

KeptOK ==
    /\ EntriesKept
    /\ \A s, t \in snapshot : s = t
    /\ status = "up" => \A s \in snapshot : s.index <= applied
    /\ copy.step # "idle" => copy.index <= applied
    /\ copy.step = "copy" => first <= copy.index + 1
    /\ copy.step = "compact" => snapshot # {} /\ \A s \in snapshot : s.index = copy.index

(* What was applied has its record, at any index that is remembered.       *)
RecordsOK ==
    /\ applied <= Len(entries)
    /\ ServesAllApplied
    /\ copy.step = "copy" =>
          copy.index <= Len(entries) /\ 2 * Cardinality(CommandsIn(copy.index)) <= copy.held
    /\ \A s \in snapshot :
          s.index <= Len(entries) /\ 2 * Cardinality(CommandsIn(s.index)) <= s.held

IInv == TypeOK /\ Contiguous /\ FromStart /\ CopyOK /\ SnapshotOK /\ KeptOK /\ RecordsOK

(* Stores only get longer, at the end, and new ones come behind.           *)
Grows ==
    /\ Len(stores) <= Len(stores')
    /\ \A k \in 1 .. Len(stores) :
          /\ stores'[k].from = stores[k].from /\ stores[k].to <= stores'[k].to
          /\ k < Len(stores) => stores'[k].to = stores[k].to

-----------------------------------------------------------------------------
LEMMA Initially == Init => IInv
  <1> SUFFICES ASSUME Init PROVE IInv
    OBVIOUS
  <1> USE SnapshotAssumption DEF Init
  <1>1. NewStore(0) \in Store
    BY DEF NewStore, Store
  <1>2. stores \in Seq(Store) /\ stores # <<>>
    BY <1>1
  <1>3. copy \in Copy
    BY DEF NoCopy, Copy
  <1>4. TypeOK
    BY <1>2, <1>3 DEF TypeOK
  <1>5. Contiguous /\ FromStart
    BY DEF Contiguous, FromStart, StoreOK, NewStore
  <1>6. CopyOK /\ SnapshotOK /\ KeptOK
    BY DEF CopyOK, SnapshotOK, SnapshotFaithful, SnapshotBounded, KeptOK, EntriesKept, NoCopy
  <1>7. CommandsIn(applied) = {}
    BY DEF CommandsIn
  <1>8. Cardinality(CommandsIn(applied)) = 0
    BY <1>7, FS_EmptySet
  <1>9. RecordsOK
    BY <1>8 DEF RecordsOK, ServesAllApplied, Written, NewStore, NoCopy
  <1> QED
    BY <1>4, <1>5, <1>6, <1>9 DEF IInv

(* The list of commands up to an index is finite, and stays what it is     *)
(* when entries come behind it.                                            *)
LEMMA CommandsFinite ==
    ASSUME NEW n \in Nat PROVE IsFiniteSet(CommandsIn(n)) /\ Cardinality(CommandsIn(n)) \in Nat
  <1>1. IsFiniteSet(1 .. n)
    BY FS_Interval
  <1>2. CommandsIn(n) \subseteq 1 .. n
    BY DEF CommandsIn
  <1> QED
    BY <1>1, <1>2, FS_Subset, FS_CardinalityType

LEMMA CommandsNext ==
    ASSUME NEW n \in Nat
    PROVE  /\ entries[n + 1] = "command" =>
                Cardinality(CommandsIn(n + 1)) = Cardinality(CommandsIn(n)) + 1
           /\ entries[n + 1] # "command" => CommandsIn(n + 1) = CommandsIn(n)
  <1>1. CASE entries[n + 1] = "command"
    <2>1. CommandsIn(n + 1) = CommandsIn(n) \cup {n + 1} /\ n + 1 \notin CommandsIn(n)
      BY <1>1 DEF CommandsIn
    <2> QED
      BY <1>1, <2>1, CommandsFinite, FS_AddElement
  <1>2. CASE entries[n + 1] # "command"
    BY <1>2 DEF CommandsIn
  <1> QED
    BY <1>1, <1>2

LEMMA CommandsKept ==
    ASSUME entries \in Seq(EntryType), NEW type \in EntryType, NEW n \in 0 .. Len(entries),
           entries' = Append(entries, type)
    PROVE  CommandsIn(n)' = CommandsIn(n)
  BY DEF CommandsIn

LEMMA RunAppend ==
    ASSUME NEW n \in Nat, NEW m \in Nat, n <= m
    PROVE  Run(n) \o [i \in 1 .. m - n |-> n + i] = Run(m)
  <1> DEFINE tail == [i \in 1 .. m - n |-> n + i]
  <1>1. Run(n) \in Seq(Nat) /\ Len(Run(n)) = n
    BY DEF Run
  <1>2. tail \in Seq(Nat) /\ Len(tail) = m - n
    OBVIOUS
  <1>3. Run(n) \o tail \in Seq(Nat) /\ Len(Run(n) \o tail) = m
    BY <1>1, <1>2
  <1>4. Run(m) \in Seq(Nat) /\ Len(Run(m)) = m
    BY DEF Run
  <1>5. ASSUME NEW i \in 1 .. m PROVE (Run(n) \o tail)[i] = Run(m)[i]
    BY <1>1, <1>2 DEF Run
  <1> HIDE DEF tail
  <1>6. \A i \in 1 .. m : (Run(n) \o tail)[i] = Run(m)[i]
    BY <1>5
  <1>7. Run(n) \o tail = Run(m)
    BY <1>3, <1>4, <1>6, SeqEqual
  <1> QED
    BY <1>7 DEF tail

-----------------------------------------------------------------------------
(* An append keeps the stores one run, and makes it two units longer.      *)
LEMMA AppendedOK ==
    ASSUME NEW s \in Store, StoreOK(s), ~IsMaxed(s), NEW t \in Appended(s)
    PROVE  t \in Store /\ StoreOK(t) /\ t.from = s.from /\ t.to = s.to + 2
  <1>1. PICK f \in s.flushed .. s.to + 2 : t = [s EXCEPT !.to = @ + 2, !.flushed = f]
    BY DEF Appended
  <1>2. t = [from |-> s.from, to |-> s.to + 2, flushed |-> f]
    BY <1>1 DEF Store
  <1> QED
    BY <1>2, SnapshotAssumption DEF Store, StoreOK, IsMaxed

LEMMA LogAppendOK ==
    ASSUME IInv, stores # <<>>, LogAppend
    PROVE  /\ stores' \in Seq(Store) /\ stores' # <<>> /\ Contiguous' /\ FromStart' /\ Grows
           /\ Written' = Written + 2
  <1> DEFINE n == Len(stores)
  <1>1. stores \in Seq(Store) /\ n \in Nat /\ n >= 1 /\ \A k \in 1 .. n : stores[k] \in Store
    BY DEF IInv, TypeOK
  <1>2. Written \in Nat /\ Written % 2 = 0
    BY <1>1 DEF IInv, Contiguous, StoreOK, Written, Store
  <1>3. CASE IsMaxed(stores[n])
    <2>1. PICK t \in Appended(NewStore(Written)) : stores' = Append(stores, t)
      BY <1>3 DEF LogAppend
    <2>2. NewStore(Written) \in Store /\ StoreOK(NewStore(Written)) /\ ~IsMaxed(NewStore(Written))
      BY <1>2, SnapshotAssumption DEF NewStore, Store, StoreOK, IsMaxed
    <2>3. t \in Store /\ StoreOK(t) /\ t.from = Written /\ t.to = Written + 2
      BY <2>2, AppendedOK DEF NewStore
    <2>4. stores' \in Seq(Store) /\ Len(stores') = n + 1 /\ stores'[n + 1] = t
      BY <1>1, <2>1, <2>3
    <2>5. \A k \in 1 .. n : stores'[k] = stores[k]
      BY <1>1, <2>1, <2>3
    <2>6. Contiguous'
      BY <1>1, <2>3, <2>4, <2>5 DEF IInv, Contiguous, Written, StoreOK
    <2>7. FromStart' /\ Written' = Written + 2
      BY <1>1, <2>3, <2>4, <2>5 DEF IInv, FromStart, Written
    <2>8. ASSUME NEW k \in 1 .. n
          PROVE  stores'[k].from = stores[k].from /\ stores[k].to <= stores'[k].to
                 /\ stores'[k].to = stores[k].to
      <3>1. stores[k].to \in Nat /\ stores'[k] = stores[k]
        BY <1>1, <2>5 DEF Store
      <3> QED
        BY <3>1
    <2>9. Grows
      BY <1>1, <2>4, <2>8 DEF Grows
    <2> QED
      BY <2>4, <2>6, <2>7, <2>9, <1>1
  <1>4. CASE ~IsMaxed(stores[n])
    <2>1. PICK t \in Appended(stores[n]) : stores' = [stores EXCEPT ![n] = t]
      BY <1>4 DEF LogAppend
    <2>2. t \in Store /\ StoreOK(t) /\ t.from = stores[n].from /\ t.to = stores[n].to + 2
      BY <1>1, <1>4, AppendedOK DEF IInv, Contiguous
    <2>3. stores' \in Seq(Store) /\ Len(stores') = n /\ stores'[n] = t
      BY <1>1, <2>1, <2>2
    <2>4. \A k \in 1 .. n : k # n => stores'[k] = stores[k]
      BY <1>1, <2>1, <2>2
    <2>5. Contiguous'
      BY <1>1, <2>2, <2>3, <2>4 DEF IInv, Contiguous, StoreOK
    <2>6. FromStart' /\ Written' = Written + 2
      BY <1>1, <2>2, <2>3, <2>4 DEF IInv, FromStart, Written
    <2>7. ASSUME NEW k \in 1 .. n
          PROVE  /\ stores'[k].from = stores[k].from /\ stores[k].to <= stores'[k].to
                 /\ k < n => stores'[k].to = stores[k].to
      <3>1. stores[k] \in Store /\ stores[k].to \in Nat
        BY <1>1 DEF Store
      <3>2. k # n => stores'[k] = stores[k]
        BY <2>4
      <3> QED
        BY <1>1, <2>2, <2>3, <3>1, <3>2
    <2>8. Grows
      BY <1>1, <2>3, <2>7 DEF Grows
    <2> QED
      BY <2>3, <2>5, <2>6, <2>8, <1>1
  <1> QED
    BY <1>3, <1>4

-----------------------------------------------------------------------------
LEMMA StoreFacts ==
    ASSUME TypeOK
    PROVE  /\ Len(stores) \in Nat /\ (stores # <<>> => Len(stores) >= 1 /\ Written \in Nat)
           /\ \A k \in 1 .. Len(stores) :
                 /\ stores[k] \in Store
                 /\ stores[k].from \in Nat /\ stores[k].to \in Nat /\ stores[k].flushed \in Nat
  <1>1. stores \in Seq(Store) /\ Len(stores) \in Nat
    BY DEF TypeOK
  <1>2. ASSUME NEW k \in 1 .. Len(stores)
        PROVE  /\ stores[k] \in Store
               /\ stores[k].from \in Nat /\ stores[k].to \in Nat /\ stores[k].flushed \in Nat
    <2>1. stores[k] \in Store
      BY <1>1
    <2> QED
      BY <2>1 DEF Store
  <1>3. stores # <<>> => Len(stores) >= 1 /\ Written \in Nat
    BY <1>1, <1>2 DEF Written
  <1> QED
    BY <1>1, <1>2, <1>3

LEMMA IndexFacts ==
    ASSUME TypeOK
    PROVE  /\ applied \in Nat /\ first \in Nat /\ Len(entries) \in Nat
           /\ copy.index \in Nat /\ copy.held \in Nat /\ copy.off \in Nat
           /\ copy.cur \in Nat /\ copy.last \in Nat /\ copy.sink \in Seq(Nat)
           /\ \A s \in snapshot : s.index \in Nat /\ s.held \in Nat /\ s.units \in Seq(Nat)
  BY DEF TypeOK, Copy, SnapshotRecord

(* What is remembered of an index holds while the entries are the same.    *)
LEMMA RememberedKept ==
    ASSUME IInv, UNCHANGED <<entries, copy, snapshot>>, applied' <= Len(entries'), ServesAllApplied'
    PROVE  RecordsOK'
  <1>1. ASSUME NEW n \in Nat PROVE CommandsIn(n)' = CommandsIn(n)
    BY DEF CommandsIn
  <1>2. (copy.step = "copy" =>
           copy.index <= Len(entries) /\ 2 * Cardinality(CommandsIn(copy.index)) <= copy.held)'
    <2>1. CommandsIn(copy.index)' = CommandsIn(copy.index)
      BY <1>1, IndexFacts DEF IInv
    <2> QED
      BY <2>1 DEF IInv, RecordsOK
  <1>3. (\A s \in snapshot :
           s.index <= Len(entries) /\ 2 * Cardinality(CommandsIn(s.index)) <= s.held)'
    <2>1. \A s \in snapshot : CommandsIn(s.index)' = CommandsIn(s.index)
      BY <1>1, IndexFacts DEF IInv
    <2> QED
      BY <2>1 DEF IInv, RecordsOK
  <1> QED
    BY <1>2, <1>3 DEF RecordsOK

(* What was copied stays copied right while the stores grow.               *)
LEMMA GrowsKeepsCopy ==
    ASSUME IInv, Grows, stores' \in Seq(Store), UNCHANGED <<copy, status>>
    PROVE  CopyOK'
  <1>1. copy.step # "idle" => status = "up"
    BY DEF IInv, CopyOK
  <1>2. SUFFICES ASSUME copy.step = "copy"
                 PROVE  /\ copy.last \in 1 .. Len(stores') /\ copy.cur \in 1 .. copy.last + 1
                        /\ copy.sink = Run(Len(copy.sink))
                        /\ stores'[copy.last].from <= copy.held
                        /\ copy.held <= stores'[copy.last].to
                        /\ IF copy.cur <= copy.last
                           THEN /\ Len(copy.sink) = stores'[copy.cur].from + copy.off
                                /\ Len(copy.sink) <= stores'[copy.cur].to
                           ELSE /\ Len(copy.sink) % 2 = 0
                                /\ copy.held <= Len(copy.sink)
                                /\ Len(copy.sink) <= copy.held + MaxStoreBytes + 1
    BY <1>1 DEF CopyOK, Run
  <1>3. /\ copy.last \in 1 .. Len(stores) /\ copy.cur \in 1 .. copy.last + 1
        /\ copy.sink = Run(Len(copy.sink))
        /\ stores[copy.last].from <= copy.held /\ copy.held <= stores[copy.last].to
        /\ IF copy.cur <= copy.last
           THEN /\ Len(copy.sink) = stores[copy.cur].from + copy.off
                /\ Len(copy.sink) <= stores[copy.cur].to
           ELSE /\ Len(copy.sink) % 2 = 0
                /\ copy.held <= Len(copy.sink)
                /\ Len(copy.sink) <= copy.held + MaxStoreBytes + 1
    BY <1>2 DEF IInv, CopyOK
  <1>4. copy.last \in Nat /\ copy.cur \in Nat /\ copy.held \in Nat /\ Len(copy.sink) \in Nat
    BY DEF IInv, TypeOK, Copy
  <1>5. Len(stores) \in Nat /\ Len(stores') \in Nat /\ Len(stores) <= Len(stores')
    BY DEF Grows, IInv, TypeOK
  <1>6. \A k \in 1 .. Len(stores) :
           /\ stores[k].to \in Nat /\ stores'[k].to \in Nat
           /\ stores'[k].from = stores[k].from /\ stores[k].to <= stores'[k].to
    <2> SUFFICES ASSUME NEW k \in 1 .. Len(stores)
                 PROVE  /\ stores[k].to \in Nat /\ stores'[k].to \in Nat
                        /\ stores'[k].from = stores[k].from /\ stores[k].to <= stores'[k].to
      OBVIOUS
    <2>1. stores[k] \in Store /\ stores'[k] \in Store
      BY <1>5 DEF IInv, TypeOK
    <2> QED
      BY <2>1 DEF Grows, Store
  <1>7. /\ stores'[copy.last].from <= copy.held /\ copy.held <= stores'[copy.last].to
    BY <1>3, <1>4, <1>6
  <1>8. CASE copy.cur <= copy.last
    <2>1. copy.cur \in 1 .. Len(stores)
      BY <1>3, <1>4, <1>5, <1>8
    <2>2. copy.last \in 1 .. Len(stores')
      BY <1>3, <1>4, <1>5
    <2>3. stores'[copy.cur].from = stores[copy.cur].from
          /\ Len(copy.sink) <= stores'[copy.cur].to
      BY <1>3, <1>4, <1>6, <1>8, <2>1
    <2>4. Len(copy.sink) = stores'[copy.cur].from + copy.off
      BY <1>3, <1>8, <2>3
    <2> QED
      BY <1>3, <1>7, <1>8, <2>2, <2>3, <2>4
  <1>9. CASE ~(copy.cur <= copy.last)
    <2>1. copy.last \in 1 .. Len(stores')
      BY <1>3, <1>4, <1>5
    <2> QED
      BY <1>3, <1>7, <1>9, <2>1
  <1> QED
    BY <1>8, <1>9

LEMMA CommitKeeps ==
    ASSUME IInv, NEW type \in EntryType, Commit(type)
    PROVE  IInv'
  <1> USE DEF Commit, IInv, bounds
  <1>1. entries \in Seq(EntryType) /\ applied \in Nat
    BY DEF TypeOK
  <1>2. entries' \in Seq(EntryType) /\ Len(entries') = Len(entries) + 1
    BY <1>1
  <1>3. TypeOK'
    BY <1>2 DEF TypeOK
  <1>4. Contiguous' /\ FromStart' /\ CopyOK' /\ SnapshotOK'
    BY DEF Contiguous, FromStart, CopyOK, SnapshotOK, SnapshotFaithful, SnapshotBounded, Run
  <1>5. KeptOK'
    BY DEF KeptOK, EntriesKept
  <1>6. \A n \in 0 .. Len(entries) : CommandsIn(n)' = CommandsIn(n)
    BY <1>1, CommandsKept
  <1>7. ServesAllApplied' /\ applied' <= Len(entries')
    BY <1>1, <1>2, <1>6 DEF RecordsOK, ServesAllApplied, Written
  <1>8. copy'.step = "copy" =>
           copy'.index <= Len(entries') /\ 2 * Cardinality(CommandsIn(copy.index)') <= copy'.held
    BY <1>1, <1>2, <1>6 DEF RecordsOK, TypeOK, Copy
  <1>9. \A s \in snapshot' :
           s.index <= Len(entries') /\ 2 * Cardinality(CommandsIn(s.index)') <= s.held
    BY <1>1, <1>2, <1>6 DEF RecordsOK, TypeOK, SnapshotRecord
  <1> QED
    BY <1>3, <1>4, <1>5, <1>7, <1>8, <1>9 DEF RecordsOK

(* The one that counts: a command that is applied makes the log longer by  *)
(* its record.                                                             *)
LEMMA ApplyKeeps ==
    ASSUME IInv, Apply
    PROVE  IInv'
  <1> USE DEF Apply, IInv, bounds
  <1>1. /\ entries \in Seq(EntryType) /\ applied \in Nat /\ stores \in Seq(Store) /\ stores # <<>>
        /\ Written \in Nat
    BY StoreFacts DEF TypeOK
  <1>2. \/ entries[applied + 1] = "command" /\ LogAppend
        \/ entries[applied + 1] # "command" /\ UNCHANGED stores
    OBVIOUS
  <1>3. Contiguous' /\ FromStart' /\ Grows /\ stores' \in Seq(Store) /\ stores' # <<>>
    <2>1. CASE LogAppend
      BY <1>1, <2>1, LogAppendOK
    <2>2. CASE UNCHANGED stores
      <3>1. Len(stores) \in Nat /\ \A k \in 1 .. Len(stores) : stores[k].to \in Nat
        BY StoreFacts
      <3> QED
        BY <1>1, <2>2, <3>1 DEF Contiguous, FromStart, Grows
    <2> QED
      BY <1>2, <2>1, <2>2
  <1>4. TypeOK'
    BY <1>1, <1>3 DEF TypeOK
  <1>5. CopyOK'
    BY <1>3, GrowsKeepsCopy
  <1>6. SnapshotOK'
    BY DEF SnapshotOK, SnapshotFaithful, SnapshotBounded
  <1>7. KeptOK'
    BY IndexFacts DEF KeptOK, EntriesKept
  <1>8. ASSUME NEW n \in Nat PROVE CommandsIn(n)' = CommandsIn(n)
    <2>1. entries' = entries
      OBVIOUS
    <2> QED
      BY <2>1 DEF CommandsIn
  <1>9. 2 * Cardinality(CommandsIn(applied)) <= Written
    BY DEF RecordsOK, ServesAllApplied
  <1>10. 2 * Cardinality(CommandsIn(applied + 1)) <= Written'
    <2>1. CASE LogAppend /\ entries[applied + 1] = "command"
      <3>1. Cardinality(CommandsIn(applied + 1)) = Cardinality(CommandsIn(applied)) + 1
        BY <1>1, <2>1, CommandsNext
      <3>2. Written' = Written + 2
        BY <1>1, <2>1, LogAppendOK
      <3>3. Cardinality(CommandsIn(applied)) \in Nat
        BY <1>1, CommandsFinite
      <3> QED
        BY <1>1, <1>9, <3>1, <3>2, <3>3
    <2>2. CASE UNCHANGED stores /\ entries[applied + 1] # "command"
      BY <1>1, <1>9, <2>2, CommandsNext DEF Written
    <2> QED
      BY <1>2, <2>1, <2>2
  <1>11. ServesAllApplied' /\ applied' <= Len(entries')
    BY <1>1, <1>8, <1>10 DEF ServesAllApplied
  <1>12. RecordsOK'
    BY <1>11, RememberedKept
  <1> QED
    BY <1>3, <1>4, <1>5, <1>6, <1>7, <1>12

(* A copy begins with an empty sink at the first unit there is.            *)
LEMMA TakeSnapshotKeeps ==
    ASSUME IInv, TakeSnapshot
    PROVE  IInv'
  <1> USE DEF TakeSnapshot, IInv, raft
  <1>1. stores # <<>> /\ Len(stores) \in Nat /\ Len(stores) >= 1 /\ Written \in Nat
    BY StoreFacts DEF TypeOK
  <1>2. copy' \in Copy
    BY <1>1, IndexFacts DEF Copy
  <1>3. TypeOK'
    BY <1>2, SnapshotAssumption DEF TypeOK
  <1>4. Contiguous' /\ FromStart' /\ SnapshotOK'
    BY DEF Contiguous, FromStart, SnapshotOK, SnapshotFaithful, SnapshotBounded
  <1>5. CopyOK'
    <2>1. copy'.sink = Run(Len(copy'.sink)) /\ Len(copy'.sink) = 0
      BY DEF Run
    <2>2. stores[Len(stores)].from <= Written
      BY <1>1, StoreFacts DEF Contiguous, StoreOK, Written
    <2>3. stores[1].from = 0 /\ stores[1].to \in Nat
      BY <1>1, StoreFacts DEF FromStart
    <2> QED
      BY <1>1, <2>1, <2>2, <2>3 DEF CopyOK, Written
  <1>6. KeptOK'
    BY IndexFacts DEF KeptOK, EntriesKept
  <1>7. ASSUME NEW n \in Nat PROVE CommandsIn(n)' = CommandsIn(n)
    BY DEF CommandsIn
  <1>8. applied' <= Len(entries') /\ ServesAllApplied'
    BY <1>7, IndexFacts DEF RecordsOK, ServesAllApplied, Written
  <1>9. (copy.step = "copy" =>
           copy.index <= Len(entries) /\ 2 * Cardinality(CommandsIn(copy.index)) <= copy.held)'
    <2>1. copy'.index = applied /\ copy'.held = Written
      OBVIOUS
    <2>2. CommandsIn(copy.index)' = CommandsIn(applied)
      BY <2>1 DEF CommandsIn
    <2> QED
      BY <2>1, <2>2 DEF RecordsOK, ServesAllApplied
  <1>10. (\A s \in snapshot :
            s.index <= Len(entries) /\ 2 * Cardinality(CommandsIn(s.index)) <= s.held)'
    BY <1>7, IndexFacts DEF RecordsOK
  <1>11. RecordsOK'
    BY <1>8, <1>9, <1>10 DEF RecordsOK
  <1> QED
    BY <1>3, <1>4, <1>5, <1>6, <1>11

(* A read appends the units from where the sink ends up to where it stops, *)
(* and stops behind the last unit of a store before the copy goes on.      *)
LEMMA PersistReadKeeps ==
    ASSUME IInv, PersistRead
    PROVE  IInv'
  <1> USE DEF IInv
  <1> DEFINE c == copy.cur
             s == Flushed(stores[c])
             pos == s.from + copy.off
             stop == LeastOf(pos + CopyBytes, s.flushed)
             tail == [i \in 1 .. stop - pos |-> pos + i]
             units == copy.sink \o tail
             cur == IF stop < pos + CopyBytes THEN c + 1 ELSE c
             off == IF stop < pos + CopyBytes THEN 0 ELSE copy.off + CopyBytes
  <1>0. /\ copy.off \in Nat /\ c \in Nat /\ copy.last \in Nat /\ copy.held \in Nat
        /\ Len(copy.sink) \in Nat /\ Len(stores) \in Nat
        /\ CopyBytes \in Nat \ {0} /\ MaxStoreBytes \in Nat
    BY IndexFacts, StoreFacts, SnapshotAssumption
  <1>1. /\ copy.step = "copy" /\ c <= copy.last
        /\ UNCHANGED <<entries, first, applied, snapshot, status, begun, starts>>
        /\ stores' = [stores EXCEPT ![c] = s]
        /\ copy' = [copy EXCEPT !.sink = units, !.cur = cur, !.off = off]
    BY DEF PersistRead, LastOfList, raft, bounds
  <1>2. /\ status = "up" /\ copy.last \in 1 .. Len(stores) /\ c \in 1 .. Len(stores)
        /\ copy.sink = Run(Len(copy.sink))
        /\ stores[copy.last].from <= copy.held /\ copy.held <= stores[copy.last].to
        /\ Len(copy.sink) = stores[c].from + copy.off
        /\ Len(copy.sink) <= stores[c].to
    BY <1>1, StoreFacts, IndexFacts DEF CopyOK
  <1>3. /\ stores[c] \in Store /\ stores[c].from \in Nat /\ stores[c].to \in Nat
        /\ StoreOK(stores[c])
    BY <1>2, StoreFacts DEF Contiguous
  <1>4. s = [from |-> stores[c].from, to |-> stores[c].to, flushed |-> stores[c].to]
    BY <1>3 DEF Flushed, Store
  <1>5. /\ s \in Store /\ StoreOK(s) /\ s.from = stores[c].from /\ s.to = stores[c].to
        /\ s.flushed = stores[c].to
    BY <1>3, <1>4 DEF Store, StoreOK
  <1>6. /\ stores' \in Seq(Store) /\ Len(stores') = Len(stores) /\ stores'[c] = s
        /\ \A k \in 1 .. Len(stores) : k # c => stores'[k] = stores[k]
    BY <1>1, <1>2, <1>5 DEF TypeOK
  <1>7. ASSUME NEW k \in 1 .. Len(stores)
        PROVE  /\ stores'[k].from = stores[k].from /\ stores'[k].to = stores[k].to
               /\ StoreOK(stores'[k])
    BY <1>5, <1>6 DEF Contiguous
  <1>8. Contiguous' /\ FromStart'
    BY <1>6, <1>7, StoreFacts DEF Contiguous, FromStart
  <1>9. Written' = Written
    BY <1>2, <1>6, <1>7, StoreFacts DEF Written
  <1>10. pos = Len(copy.sink) /\ pos \in Nat /\ pos <= stores[c].to /\ pos + CopyBytes \in Nat
    BY <1>0, <1>2, <1>3, <1>5
  <1> HIDE DEF pos
  <1>11. /\ stop \in Nat /\ pos <= stop /\ stop <= stores[c].to
         /\ (stop < pos + CopyBytes => stop = stores[c].to)
         /\ (~(stop < pos + CopyBytes) => stop = pos + CopyBytes)
    BY <1>3, <1>5, <1>10, SnapshotAssumption DEF LeastOf
  <1> HIDE DEF s, stop
  <1>12. Run(stop) \in Seq(Nat) /\ Len(Run(stop)) = stop
    BY <1>11 DEF Run
  <1>13. /\ copy'.step = copy.step /\ copy'.index = copy.index /\ copy'.held = copy.held
         /\ copy'.last = copy.last /\ copy'.sink = Run(stop)
         /\ copy'.cur = (IF stop < pos + CopyBytes THEN c + 1 ELSE c)
         /\ copy'.off = (IF stop < pos + CopyBytes THEN 0 ELSE copy.off + CopyBytes)
         /\ copy' \in Copy
    <2>1. copy \in Copy
      BY DEF TypeOK
    <2>2. units = Run(stop)
      <3>1. copy.sink = Run(pos)
        BY <1>2, <1>10
      <3>2. Run(pos) \o tail = Run(stop)
        BY <1>10, <1>11, RunAppend
      <3> HIDE DEF tail
      <3> QED
        BY <3>1, <3>2
    <2>3. cur \in Nat /\ off \in Nat
      <3> HIDE DEF tail, units
      <3>1. c + 1 \in Nat /\ copy.off + CopyBytes \in Nat
        BY <1>0
      <3> QED
        BY <1>0, <3>1
    <2> DEFINE one == [copy EXCEPT !.sink = units]
               two == [one EXCEPT !.cur = cur]
    <2> HIDE DEF units
    <2>4. one \in Copy /\ one.sink = Run(stop) /\ one.step = copy.step
          /\ one.index = copy.index /\ one.held = copy.held /\ one.last = copy.last
          /\ one.off = copy.off
      BY <1>12, <2>1, <2>2 DEF Copy
    <2>5. copy' = [two EXCEPT !.off = off]
      BY <1>1, <2>1 DEF Copy
    <2> HIDE DEF one, cur, off
    <2>6. two \in Copy /\ two.sink = one.sink /\ two.step = one.step /\ two.index = one.index
          /\ two.held = one.held /\ two.last = one.last /\ two.cur = cur
      BY <2>3, <2>4 DEF Copy
    <2> HIDE DEF two
    <2>7. copy' \in Copy /\ copy'.sink = two.sink /\ copy'.step = two.step
          /\ copy'.index = two.index /\ copy'.held = two.held /\ copy'.last = two.last
          /\ copy'.cur = two.cur /\ copy'.off = off
      BY <2>3, <2>5, <2>6 DEF Copy
    <2> QED
      BY <2>4, <2>6, <2>7 DEF cur, off
  <1>14. TypeOK'
    <2>1. stores' # <<>>
      BY <1>2, <1>6
    <2> QED
      BY <1>1, <1>6, <1>13, <2>1 DEF TypeOK
  <1>15. CopyOK'
    <2>1. /\ copy'.step = "copy" /\ status' = "up" /\ copy'.last \in 1 .. Len(stores')
          /\ copy'.cur \in 1 .. copy'.last + 1
          /\ copy'.sink = Run(Len(copy'.sink)) /\ Len(copy'.sink) = stop
      <3>1. Len(copy'.sink) = stop /\ copy'.sink = Run(stop)
        BY <1>12, <1>13
      <3>2. c \in 1 .. copy.last /\ c + 1 \in 1 .. copy.last + 1
        <4>1. c <= copy.last
          BY <1>1
        <4> QED
          BY <1>0, <1>2, <4>1
      <3>3. copy'.cur \in 1 .. copy'.last + 1
        <4>1. copy'.cur \in {c, c + 1} /\ copy'.last = copy.last
          BY <1>13
        <4> QED
          BY <1>0, <3>2, <4>1
      <3>4. copy'.last \in 1 .. Len(stores')
        BY <1>2, <1>6, <1>13
      <3>5. copy'.step = "copy" /\ status' = "up"
        BY <1>1, <1>2, <1>13
      <3> QED
        BY <3>1, <3>3, <3>4, <3>5
    <2>2. stores'[copy'.last].from <= copy'.held /\ copy'.held <= stores'[copy'.last].to
      BY <1>2, <1>7, <1>13
    <2>3. CASE ~(stop < pos + CopyBytes)
      <3>1. copy'.cur = c /\ copy'.cur <= copy'.last /\ copy'.off = copy.off + CopyBytes
        BY <1>1, <1>13, <2>3
      <3>2. stop = stores[c].from + copy'.off
        BY <1>0, <1>2, <1>3, <1>10, <1>11, <2>3, <3>1
      <3>3. stop = stores'[copy'.cur].from + copy'.off /\ stop <= stores'[copy'.cur].to
        BY <1>2, <1>7, <1>11, <3>1, <3>2
      <3> QED
        BY <2>1, <2>2, <3>1, <3>3 DEF CopyOK, Run
    <2>4. CASE stop < pos + CopyBytes /\ c < copy.last
      <3>1. c + 1 \in 1 .. Len(stores) /\ stores[c + 1].from = stores[c].to /\ stores[c + 1].to \in Nat
            /\ stores[c + 1].from <= stores[c + 1].to
        <4>1. c + 1 \in 1 .. Len(stores) /\ c + 1 > 1 /\ (c + 1) - 1 = c
          BY <1>0, <1>2, <2>4
        <4>2. StoreOK(stores[c + 1]) /\ stores[c + 1].from = stores[c].to
          BY <4>1 DEF Contiguous
        <4>3. /\ stores[c + 1].from \in Nat /\ stores[c + 1].to \in Nat
              /\ stores[c + 1].flushed \in Nat
          BY <4>1, StoreFacts
        <4> QED
          BY <4>1, <4>2, <4>3 DEF StoreOK
      <3>2. copy'.cur = c + 1 /\ copy'.cur <= copy'.last /\ copy'.off = 0
        BY <1>2, <1>13, <2>4, IndexFacts
      <3>3. stop = stores'[copy'.cur].from + copy'.off /\ stop <= stores'[copy'.cur].to
        BY <1>3, <1>7, <1>11, <2>4, <3>1, <3>2
      <3> QED
        BY <2>1, <2>2, <3>2, <3>3 DEF CopyOK, Run
    <2>5. CASE stop < pos + CopyBytes /\ c = copy.last
      <3>1. ~(copy'.cur <= copy'.last)
        BY <1>13, <2>5, IndexFacts
      <3>2. stop = stores[c].to /\ stop % 2 = 0 /\ copy.held <= stop
            /\ stop <= copy.held + MaxStoreBytes + 1
        <4>1. stop = stores[c].to /\ copy.held <= stores[c].to /\ stores[c].from <= copy.held
          BY <1>2, <1>11, <2>5
        <4>2. stores[c].to % 2 = 0 /\ stores[c].to <= stores[c].from + MaxStoreBytes + 1
          BY <1>3 DEF StoreOK
        <4> QED
          BY <1>0, <1>3, <4>1, <4>2
      <3> QED
        BY <1>13, <2>1, <2>2, <3>1, <3>2 DEF CopyOK, Run
    <2> QED
      BY <1>1, <2>3, <2>4, <2>5, IndexFacts
  <1>16. SnapshotOK'
    BY <1>1 DEF SnapshotOK, SnapshotFaithful, SnapshotBounded
  <1>17. KeptOK'
    BY <1>1, <1>13 DEF KeptOK, EntriesKept
  <1>18. RecordsOK'
    <2>1. ASSUME NEW n \in Nat PROVE CommandsIn(n)' = CommandsIn(n)
      BY <1>1 DEF CommandsIn
    <2>2. applied' <= Len(entries') /\ ServesAllApplied'
      BY <1>1, <1>9, <2>1, IndexFacts DEF RecordsOK, ServesAllApplied
    <2>3. (copy.step = "copy" =>
             copy.index <= Len(entries) /\ 2 * Cardinality(CommandsIn(copy.index)) <= copy.held)'
      BY <1>1, <1>13, <2>1, IndexFacts DEF RecordsOK
    <2>4. (\A t \in snapshot :
             t.index <= Len(entries) /\ 2 * Cardinality(CommandsIn(t.index)) <= t.held)'
      BY <1>1, <2>1, IndexFacts DEF RecordsOK
    <2> QED
      BY <2>2, <2>3, <2>4 DEF RecordsOK
  <1> QED
    BY <1>8, <1>14, <1>15, <1>16, <1>17, <1>18

-----------------------------------------------------------------------------
(* The steps that leave the stores alone.                                  *)

LEMMA PersistCloseKeeps ==
    ASSUME IInv, PersistClose
    PROVE  IInv'
  <1> USE DEF IInv
  <1> DEFINE s == [index |-> copy.index, held |-> copy.held, units |-> copy.sink]
  <1>1. /\ copy.step = "copy" /\ ~(copy.cur <= copy.last)
        /\ snapshot' = {s} /\ copy' = [copy EXCEPT !.step = "compact"]
        /\ UNCHANGED <<entries, first, applied, stores, status, begun, starts>>
    BY IndexFacts DEF PersistClose, LastOfList, raft, bounds
  <1>2. /\ status = "up" /\ copy.sink = Run(Len(copy.sink)) /\ Len(copy.sink) % 2 = 0
        /\ copy.held <= Len(copy.sink) /\ Len(copy.sink) <= copy.held + MaxStoreBytes + 1
    BY <1>1 DEF CopyOK
  <1>3. s \in SnapshotRecord
    BY IndexFacts DEF SnapshotRecord
  <1>4. copy' \in Copy /\ copy'.step = "compact" /\ copy'.index = copy.index
    BY <1>1 DEF TypeOK, Copy
  <1>5. TypeOK'
    BY <1>1, <1>3, <1>4 DEF TypeOK
  <1>6. Contiguous' /\ FromStart'
    BY <1>1 DEF Contiguous, FromStart
  <1>7. CopyOK'
    <2>1. status' = "up" /\ copy'.step # "copy"
      BY <1>1, <1>2, <1>4
    <2> QED
      BY <2>1 DEF CopyOK
  <1>8. SnapshotOK'
    <2>1. \A t \in snapshot' : t.units = copy.sink /\ t.held = copy.held
      BY <1>1
    <2> QED
      BY <1>2, <2>1 DEF SnapshotOK, SnapshotFaithful, SnapshotBounded, Run
  <1>9. KeptOK'
    <2>1. first <= copy.index + 1 /\ copy.index <= applied /\ first <= applied + 1
      BY <1>1, <1>2 DEF KeptOK, EntriesKept
    <2>2. snapshot' # {} /\ \A t, u \in snapshot' : t = u /\ t.index = copy.index
      BY <1>1
    <2> QED
      BY <1>1, <1>4, <2>1, <2>2 DEF KeptOK, EntriesKept
  <1>10. RecordsOK'
    <2>1. ASSUME NEW n \in Nat PROVE CommandsIn(n)' = CommandsIn(n)
      BY <1>1 DEF CommandsIn
    <2>2. copy.index <= Len(entries) /\ 2 * Cardinality(CommandsIn(copy.index)) <= copy.held
      BY <1>1 DEF RecordsOK
    <2>3. (\A t \in snapshot :
             t.index <= Len(entries) /\ 2 * Cardinality(CommandsIn(t.index)) <= t.held)'
      BY <1>1, <2>1, <2>2, IndexFacts
    <2>4. applied' <= Len(entries') /\ ServesAllApplied'
      BY <1>1, <2>1, IndexFacts DEF RecordsOK, ServesAllApplied, Written
    <2> QED
      BY <1>4, <2>3, <2>4 DEF RecordsOK
  <1> QED
    BY <1>5, <1>6, <1>7, <1>8, <1>9, <1>10

(* A copy that is given up, and a compaction: the copy is over, and the    *)
(* raft log may begin later than it did, but not behind the snapshot.      *)
LEMMA CopyEnds ==
    ASSUME IInv, copy' = NoCopy, first' \in Nat, KeptOK',
           UNCHANGED <<entries, applied, stores, snapshot, status, begun, starts>>
    PROVE  IInv'
  <1> USE DEF IInv
  <1>1. copy' \in Copy /\ copy'.step = "idle"
    BY DEF NoCopy, Copy
  <1>2. TypeOK'
    BY <1>1 DEF TypeOK
  <1>3. Contiguous' /\ FromStart' /\ SnapshotOK' /\ CopyOK'
    BY <1>1 DEF Contiguous, FromStart, SnapshotOK, SnapshotFaithful, SnapshotBounded, CopyOK
  <1>4. ASSUME NEW n \in Nat PROVE CommandsIn(n)' = CommandsIn(n)
    BY DEF CommandsIn
  <1>5. applied' <= Len(entries') /\ ServesAllApplied'
    BY <1>4, IndexFacts DEF RecordsOK, ServesAllApplied, Written
  <1>6. (\A s \in snapshot :
           s.index <= Len(entries) /\ 2 * Cardinality(CommandsIn(s.index)) <= s.held)'
    BY <1>4, IndexFacts DEF RecordsOK
  <1>7. RecordsOK'
    BY <1>1, <1>5, <1>6 DEF RecordsOK
  <1> QED
    BY <1>2, <1>3, <1>7

LEMMA PersistFailsKeeps ==
    ASSUME IInv, PersistFails
    PROVE  IInv'
  <1>1. KeptOK'
    BY DEF PersistFails, raft, NoCopy, IInv, KeptOK, EntriesKept
  <1>2. first' \in Nat
    BY IndexFacts DEF PersistFails, raft, IInv
  <1> QED
    BY <1>1, <1>2, CopyEnds DEF PersistFails, raft, bounds

LEMMA CompactKeeps ==
    ASSUME IInv, Compact
    PROVE  IInv'
  <1>1. first' \in Nat /\ (first' = first \/ first' <= copy.index + 1)
    <2>1. CASE Len(entries) <= TrailingLogs
      BY <2>1, IndexFacts DEF Compact, IInv
    <2>2. CASE ~(Len(entries) <= TrailingLogs)
      <3>1. PICK base \in first .. LeastOf(copy.index, Len(entries) - TrailingLogs) + 1 :
               first' = base
        BY <2>2 DEF Compact
      <3>2. LeastOf(copy.index, Len(entries) - TrailingLogs) \in Int
            /\ LeastOf(copy.index, Len(entries) - TrailingLogs) <= copy.index
        BY <2>2, IndexFacts, SnapshotAssumption DEF LeastOf, IInv
      <3> QED
        BY <3>1, <3>2, IndexFacts DEF IInv
    <2> QED
      BY <2>1, <2>2
  <1>2. KeptOK'
    <2>1. copy.step = "compact" /\ copy' = NoCopy /\ UNCHANGED <<applied, snapshot, status>>
      BY DEF Compact
    <2>2. snapshot # {} /\ \A s \in snapshot : s.index = copy.index
      BY <2>1 DEF IInv, KeptOK
    <2>3. copy.index <= applied /\ EntriesKept /\ status = "up"
      BY <2>1 DEF IInv, KeptOK, CopyOK
    <2>4. EntriesKept'
      BY <1>1, <2>1, <2>2, <2>3, IndexFacts DEF EntriesKept, IInv
    <2> QED
      BY <2>1, <2>4 DEF IInv, KeptOK, NoCopy
  <1> QED
    BY <1>1, <1>2, CopyEnds DEF Compact, bounds

-----------------------------------------------------------------------------
(* The end and the start of the process.                                   *)

LEMMA CloseKeeps ==
    ASSUME IInv, Close
    PROVE  IInv'
  <1> USE DEF IInv
  <1>1. /\ status = "up" /\ status' = "closed" /\ copy.step = "idle"
        /\ stores' = [k \in DOMAIN stores |-> Flushed(stores[k])]
        /\ UNCHANGED <<entries, first, applied, copy, snapshot, begun, starts>>
    BY DEF Close, raft, bounds
  <1>2. stores # <<>> /\ stores \in Seq(Store) /\ DOMAIN stores = 1 .. Len(stores)
    BY <1>1 DEF TypeOK
  <1>3. ASSUME NEW k \in 1 .. Len(stores)
        PROVE  /\ Flushed(stores[k]) \in Store /\ StoreOK(Flushed(stores[k]))
               /\ Flushed(stores[k]).from = stores[k].from /\ Flushed(stores[k]).to = stores[k].to
    <2>1. stores[k] \in Store /\ StoreOK(stores[k])
      BY StoreFacts DEF Contiguous
    <2>2. Flushed(stores[k]) = [from |-> stores[k].from, to |-> stores[k].to,
                                flushed |-> stores[k].to]
      BY <2>1 DEF Flushed, Store
    <2> QED
      BY <2>1, <2>2 DEF Store, StoreOK
  <1>4. /\ stores' \in Seq(Store) /\ Len(stores') = Len(stores) /\ stores' # <<>>
        /\ \A k \in 1 .. Len(stores) : stores'[k] = Flushed(stores[k])
    BY <1>1, <1>2, <1>3
  <1>5. TypeOK'
    BY <1>1, <1>4 DEF TypeOK
  <1>6. Contiguous' /\ FromStart'
    BY <1>3, <1>4, StoreFacts DEF Contiguous, FromStart
  <1>7. CopyOK' /\ SnapshotOK' /\ KeptOK'
    BY <1>1 DEF CopyOK, SnapshotOK, SnapshotFaithful, SnapshotBounded, KeptOK, EntriesKept
  <1>8. RecordsOK'
    BY <1>1, RememberedKept DEF RecordsOK, ServesAllApplied
  <1> QED
    BY <1>5, <1>6, <1>7, <1>8

LEMMA StartKeeps ==
    ASSUME IInv, Start
    PROVE  IInv'
  <1> USE DEF IInv
  <1>1. /\ status # "up" /\ status' = "starting"
        /\ stores' = IF stores = <<>> THEN <<NewStore(0)>> ELSE stores
        /\ starts < MaxStarts /\ starts' = starts + 1
        /\ UNCHANGED <<entries, first, applied, copy, snapshot, begun>>
    BY DEF Start, raft
  <1>2. NewStore(0) \in Store /\ StoreOK(NewStore(0)) /\ NewStore(0).from = 0
    BY SnapshotAssumption DEF NewStore, Store, StoreOK
  <1>3. stores' \in Seq(Store) /\ stores' # <<>> /\ Contiguous' /\ FromStart'
    BY <1>1, <1>2 DEF TypeOK, Contiguous, FromStart
  <1>4. TypeOK'
    <2>1. starts' \in 0 .. MaxStarts
      BY <1>1, SnapshotAssumption DEF TypeOK
    <2> QED
      BY <1>1, <1>3, <2>1 DEF TypeOK
  <1>5. CopyOK' /\ SnapshotOK' /\ KeptOK'
    BY <1>1 DEF CopyOK, SnapshotOK, SnapshotFaithful, SnapshotBounded, KeptOK, EntriesKept
  <1>6. RecordsOK'
    BY <1>1, RememberedKept DEF RecordsOK, ServesAllApplied
  <1> QED
    BY <1>3, <1>4, <1>5, <1>6

(* A node that starts with a snapshot in which there is no record begins   *)
(* with an index up to which there was no command.                         *)
LEMMA RestoreNothingKeeps ==
    ASSUME IInv, RestoreNothing
    PROVE  IInv'
  <1> USE DEF IInv
  <1>1. /\ status = "starting" /\ status' = "up" /\ \A s \in snapshot : s.units = <<>>
        /\ applied' = IF snapshot = {} THEN 0 ELSE (CHOOSE s \in snapshot : TRUE).index
        /\ UNCHANGED <<entries, first, stores, copy, snapshot, begun, starts>>
    BY DEF RestoreNothing, bounds
  <1>2. copy.step = "idle" /\ stores # <<>>
    BY <1>1 DEF CopyOK, TypeOK, Copy
  <1>3. \/ snapshot = {} /\ applied' = 0
        \/ \E s \in snapshot : applied' = s.index
    BY <1>1
  <1>4. applied' \in Nat /\ applied' <= Len(entries)
    BY <1>3, IndexFacts DEF RecordsOK
  <1>5. TypeOK'
    BY <1>1, <1>2, <1>4 DEF TypeOK
  <1>6. Contiguous' /\ FromStart' /\ CopyOK' /\ SnapshotOK'
    BY <1>1, <1>2 DEF Contiguous, FromStart, CopyOK, SnapshotOK, SnapshotFaithful, SnapshotBounded
  <1>7. KeptOK'
    <2>1. CASE snapshot = {} /\ applied' = 0
      BY <1>1, <1>2, <2>1 DEF KeptOK, EntriesKept
    <2>2. ASSUME NEW s \in snapshot, applied' = s.index
          PROVE  KeptOK'
      <3>1. snapshot = {s} /\ first <= s.index + 1 /\ s.index <= s.index
        BY <2>2, IndexFacts DEF KeptOK, EntriesKept
      <3> QED
        BY <1>1, <1>2, <2>2, <3>1 DEF KeptOK, EntriesKept
    <2> QED
      BY <1>3, <2>1, <2>2
  <1>8. 2 * Cardinality(CommandsIn(applied')) <= Written
    <2>1. CASE snapshot = {} /\ applied' = 0
      <3>1. CommandsIn(applied') = {}
        BY <2>1 DEF CommandsIn
      <3> QED
        BY <1>2, <3>1, FS_EmptySet, StoreFacts
    <2>2. ASSUME NEW s \in snapshot, applied' = s.index
          PROVE  2 * Cardinality(CommandsIn(applied')) <= Written
      <3>1. 2 * Cardinality(CommandsIn(s.index)) <= s.held /\ s.held <= Len(s.units)
        BY DEF RecordsOK, SnapshotOK, SnapshotFaithful
      <3>2. Len(s.units) = 0 /\ s.held \in Nat /\ Written \in Nat
        BY <1>1, <1>2, IndexFacts, StoreFacts
      <3>3. Cardinality(CommandsIn(s.index)) \in Nat
        BY CommandsFinite, IndexFacts
      <3> QED
        BY <2>2, <3>1, <3>2, <3>3
    <2> QED
      BY <1>3, <2>1, <2>2
  <1>9. ServesAllApplied'
    BY <1>1, <1>8 DEF ServesAllApplied, CommandsIn, Written
  <1>10. RecordsOK'
    BY <1>1, <1>4, <1>9, RememberedKept
  <1> QED
    BY <1>5, <1>6, <1>7, <1>10

LEMMA RestoreKeeps ==
    ASSUME IInv, Restore
    PROVE  IInv'
  <1> USE DEF IInv
  <1>1. /\ status = "starting" /\ status' = "failed" /\ stores' = <<>>
        /\ UNCHANGED <<entries, first, applied, copy, snapshot, begun, starts>>
    BY DEF Restore, raft, bounds
  <1>2. copy.step = "idle"
    BY <1>1 DEF CopyOK, TypeOK, Copy
  <1>3. TypeOK'
    BY <1>1 DEF TypeOK
  <1>4. Contiguous' /\ FromStart'
    BY <1>1 DEF Contiguous, FromStart
  <1>5. CopyOK' /\ SnapshotOK' /\ KeptOK'
    BY <1>1, <1>2 DEF CopyOK, SnapshotOK, SnapshotFaithful, SnapshotBounded, KeptOK, EntriesKept
  <1>6. RecordsOK'
    BY <1>1, RememberedKept DEF RecordsOK, ServesAllApplied
  <1> QED
    BY <1>3, <1>4, <1>5, <1>6

-----------------------------------------------------------------------------
LEMMA StepKeeps == IInv /\ [Next]_vars => IInv'
  <1> SUFFICES ASSUME IInv, [Next]_vars PROVE IInv'
    OBVIOUS
  <1>1. CASE UNCHANGED vars
    <2>1. UNCHANGED <<entries, first, applied, stores, copy, snapshot, status, begun, starts>>
      BY <1>1 DEF vars, raft, bounds
    <2>2. TypeOK' /\ Contiguous' /\ FromStart' /\ CopyOK' /\ SnapshotOK' /\ KeptOK'
      BY <2>1 DEF IInv, TypeOK, Contiguous, FromStart, CopyOK, SnapshotOK, SnapshotFaithful,
                  SnapshotBounded, KeptOK, EntriesKept, Run
    <2>3. ASSUME NEW n PROVE CommandsIn(n)' = CommandsIn(n)
      BY <2>1 DEF CommandsIn
    <2>4. ServesAllApplied' /\ applied' <= Len(entries')
      BY <2>1, <2>3 DEF IInv, RecordsOK, ServesAllApplied, Written
    <2> QED
      BY <2>1, <2>2, <2>4, RememberedKept DEF IInv
  <1>2. ASSUME NEW type \in EntryType, Commit(type) PROVE IInv'
    BY <1>2, CommitKeeps
  <1>3. CASE Apply
    BY <1>3, ApplyKeeps
  <1>4. CASE TakeSnapshot
    BY <1>4, TakeSnapshotKeeps
  <1>5. CASE PersistRead
    BY <1>5, PersistReadKeeps
  <1>6. CASE PersistClose
    BY <1>6, PersistCloseKeeps
  <1>7. CASE PersistFails
    BY <1>7, PersistFailsKeeps
  <1>8. CASE Compact
    BY <1>8, CompactKeeps
  <1>9. CASE Close
    BY <1>9, CloseKeeps
  <1>10. CASE Start
    BY <1>10, StartKeeps
  <1>11. CASE RestoreNothing
    BY <1>11, RestoreNothingKeeps
  <1>12. CASE Restore
    BY <1>12, RestoreKeeps
  <1> QED
    BY <1>1, <1>2, <1>3, <1>4, <1>5, <1>6, <1>7, <1>8, <1>9, <1>10, <1>11, <1>12 DEF Next

LEMMA Invariance == Spec => []IInv
  BY Initially, StepKeeps, PTL DEF Spec

(* Every variable keeps its shape; in particular a store that a copy or an *)
(* append indexes is in the list (Log.Reader, Log.Append).                 *)
THEOREM SnapshotTypeOK == Spec => []TypeOK
  <1>1. IInv => TypeOK
    BY DEF IInv
  <1> QED
    BY <1>1, Invariance, PTL

(* A snapshot is the beginning of the record log to the end of a record    *)
(* and has all that was there when it began, for any sizes of segments and *)
(* of the buffer that copies them (snapshot.Persist, originReader.Read).   *)
THEOREM SnapshotIsFaithful == Spec => []SnapshotFaithful
  <1>1. IInv => SnapshotFaithful
    BY DEF IInv, SnapshotOK
  <1> QED
    BY <1>1, Invariance, PTL

(* It has at most one segment more than that (Log.Reader).                 *)
THEOREM SnapshotIsBounded == Spec => []SnapshotBounded
  <1>1. IInv => SnapshotBounded
    BY DEF IInv, SnapshotOK
  <1> QED
    BY <1>1, Invariance, PTL

(* Compaction takes no entry that raft must still apply (DeleteRange).     *)
THEOREM SnapshotEntriesKept == Spec => []EntriesKept
  <1>1. IInv => EntriesKept
    BY DEF IInv, KeptOK
  <1> QED
    BY <1>1, Invariance, PTL

(* A node that is up has the record of every command that it applied,      *)
(* after any number of snapshots and restarts (fsm.Apply, fsm.Restore).    *)
THEOREM SnapshotServesAllApplied == Spec => []ServesAllApplied
  <1>1. IInv => ServesAllApplied
    BY DEF IInv, RecordsOK
  <1> QED
    BY <1>1, Invariance, PTL
=============================================================================
