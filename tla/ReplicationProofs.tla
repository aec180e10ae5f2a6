------------------------- MODULE ReplicationProofs -------------------------
(***************************************************************************)
(* The theorems about Replication, for any nodes, records and bounds.      *)
(*                                                                         *)
(* Types: raft never hands the state machine an index beyond the log store *)
(* (CommitOK), although DeleteRange empties it, and an index that a client *)
(* waits for is that of a command (WaitingOK), so that what is answered is *)
(* a record.                                                               *)
(*                                                                         *)
(* Order: a record log ends with the commands that its process was given.  *)
(*                                                                         *)
(* Agreement, while no process is restarted: raft's own argument (RaftOK)  *)
(* holds over this log store, and the record logs follow (AgreeInv).       *)
(***************************************************************************)
EXTENDS Replication, WellFoundedInduction, FiniteSetTheorems, TLAPS

(* The entries that are stored: a command has a record.                    *)
Stores == {e \in Entries : e.type = "command" => e.val \in Records}

CommitOK == \A n \in Nodes : status[n] = "up" => commit[n] <= Len(raftLog[n])

WaitingOK ==
    \A n \in Nodes :
        /\ role[n] = "follower" => waiting[n] = {}
        /\ \A i \in waiting[n] : i \in 1 .. Len(raftLog[n]) /\ raftLog[n][i].type = "command"

(* TypeOK without the raft logs.                                           *)
TypesBeside ==
    /\ recordLog \in [Nodes -> Seq(Records \cup {Hole})]
    /\ term \in [Nodes -> 1 .. MaxTerm] /\ role \in [Nodes -> {"leader", "follower"}]
    /\ commit \in [Nodes -> Nat] /\ applied \in [Nodes -> Nat]
    /\ waiting \in [Nodes -> SUBSET Nat]
    /\ status \in [Nodes -> {"up", "closed", "panicked"}]
    /\ restarts \in 0 .. MaxRestarts
    /\ acked \subseteq [off : Nat, val : Records]
    /\ committed \subseteq [index : Nat, entry : Entries, term : 1 .. MaxTerm]

IInv ==
    /\ TypeOK
    /\ raftLog \in [Nodes -> Seq(Stores)]
    /\ CommitOK /\ WaitingOK

-----------------------------------------------------------------------------
LEMMA Shapes ==
    ASSUME IInv, NEW n \in Nodes
    PROVE  /\ raftLog[n] \in Seq(Stores) /\ Len(raftLog[n]) \in Nat
           /\ recordLog[n] \in Seq(Records \cup {Hole}) /\ Len(recordLog[n]) \in Nat
           /\ term[n] \in 1 .. MaxTerm /\ term[n] \in Nat
           /\ commit[n] \in Nat /\ applied[n] \in Nat
           /\ \A i \in 1 .. Len(raftLog[n]) : raftLog[n][i] \in Stores
  <1>1. /\ raftLog[n] \in Seq(Stores) /\ recordLog[n] \in Seq(Records \cup {Hole})
        /\ term[n] \in 1 .. MaxTerm /\ commit[n] \in Nat /\ applied[n] \in Nat
    BY DEF IInv, TypeOK
  <1> QED
    BY <1>1

LEMMA StoresAre ==
    /\ Stores \subseteq Entries
    /\ \A t \in 1 .. MaxTerm :
          /\ Entry(t, "config", NoRecord) \in Stores /\ Entry(t, "noop", NoRecord) \in Stores
          /\ \A r \in Records :
                Entry(t, "command", r) \in Stores /\ Entry(t, "command", r).type = "command"
    /\ \A e \in Stores : e.type = "command" => e.val \in Records
  BY DEF Stores, Entries, Entry

LEMMA LogTypes ==
    ASSUME NEW entries \in [Nodes -> Seq(Stores)]
    PROVE  entries \in [Nodes -> Seq(Entries)]
  <1>1. \A n \in Nodes : entries[n] \in Seq(Entries)
    <2> SUFFICES ASSUME NEW n \in Nodes PROVE entries[n] \in Seq(Entries)
      OBVIOUS
    <2>1. entries[n] \in Seq(Stores) /\ Stores \subseteq Entries
      BY StoresAre
    <2> HIDE DEF Stores
    <2> QED
      BY <2>1
  <1> QED
    BY <1>1

(* Numbers that are bounded have a greatest one.                           *)
LEMMA GreatestIs ==
    ASSUME NEW S, S \subseteq Nat, S # {}, NEW b \in Nat, \A x \in S : x <= b
    PROVE  \E t \in S : \A x \in S : x <= t
  <1> DEFINE gaps == {b - x : x \in S}
  <1>1. gaps \subseteq Nat /\ gaps # {}
    <2>1. \A x \in S : b - x \in Nat
      OBVIOUS
    <2>2. PICK x \in S : TRUE
      OBVIOUS
    <2>3. b - x \in gaps
      OBVIOUS
    <2> QED
      BY <2>1, <2>3
  <1> DEFINE less == OpToRel(<, Nat)
  <1>2. IsWellFoundedOn(less, Nat)
    BY NatLessThanWellFounded
  <1> HIDE DEF gaps, less
  <1>3. PICK g \in gaps : \A y \in gaps : ~ (<<y, g>> \in less)
    BY <1>1, <1>2, WFMin
  <1>4. \A x, y \in Nat : y < x => <<y, x>> \in less
    BY Zenon DEF less, OpToRel
  <1>5. \A y \in gaps : ~ (y < g)
    BY <1>1, <1>3, <1>4, Zenon
  <1>6. PICK t \in S : g = b - t
    BY <1>3 DEF gaps
  <1>7. ASSUME NEW x \in S
        PROVE  x <= t
    <2>1. b - x \in gaps
      BY DEF gaps
    <2>2. ~ (b - x < b - t)
      BY <1>5, <1>6, <2>1
    <2> QED
      BY <2>2
  <1> QED
    BY <1>7

LEMMA MatchingIs ==
    ASSUME NEW mine \in Seq(Stores), NEW yours \in Seq(Stores)
    PROVE  /\ Matching(mine, yours) \in Nat
           /\ Matching(mine, yours) <= Len(mine) /\ Matching(mine, yours) <= Len(yours)
  <1> DEFINE common == {i \in DOMAIN mine \cap DOMAIN yours : mine[i].term = yours[i].term}
             S == common \cup {0}
  <1>1. /\ S \subseteq Nat /\ S # {} /\ Len(mine) \in Nat /\ Len(yours) \in Nat
        /\ \A x \in S : x <= Len(mine) /\ x <= Len(yours)
    BY DEF Stores
  <1>2. \E t \in S : \A x \in S : x <= t
    <2> HIDE DEF S
    <2> QED
      BY <1>1, GreatestIs
  <1>3. Matching(mine, yours) \in S
    BY <1>2 DEF Matching
  <1> QED
    BY <1>1, <1>3

-----------------------------------------------------------------------------
LEMMA Initially == Init => IInv
  <1> SUFFICES ASSUME Init PROVE IInv
    OBVIOUS
  <1> USE DEF Init
  <1>1. 1 \in 1 .. MaxTerm /\ 0 \in 0 .. MaxRestarts
    BY ReplicationAssumption
  <1> DEFINE e == Entry(1, "config", NoRecord)
  <1>2. e \in Stores /\ e \in Entries
    BY <1>1, StoresAre
  <1> HIDE DEF e
  <1>3. raftLog \in [Nodes -> Seq(Stores)]
    BY <1>2 DEF e
  <1>4. committed \subseteq [index : Nat, entry : Entries, term : 1 .. MaxTerm]
    BY <1>1, <1>2 DEF e
  <1>5. TypeOK
    <2>1. raftLog \in [Nodes -> Seq(Entries)]
      BY <1>3, LogTypes
    <2>2. /\ recordLog \in [Nodes -> Seq(Records \cup {Hole})]
          /\ term \in [Nodes -> 1 .. MaxTerm] /\ role \in [Nodes -> {"leader", "follower"}]
          /\ commit \in [Nodes -> Nat] /\ applied \in [Nodes -> Nat]
          /\ waiting \in [Nodes -> SUBSET Nat]
          /\ status \in [Nodes -> {"up", "closed", "panicked"}]
      BY <1>1
    <2>3. restarts \in 0 .. MaxRestarts /\ acked \subseteq [off : Nat, val : Records]
      BY <1>1
    <2> QED
      BY <1>4, <2>1, <2>2, <2>3 DEF TypeOK
  <1>6. CommitOK /\ WaitingOK
    BY DEF CommitOK, WaitingOK
  <1> QED
    BY <1>3, <1>5, <1>6 DEF IInv

-----------------------------------------------------------------------------
LEMMA Assembled ==
    ASSUME raftLog' \in [Nodes -> Seq(Stores)], TypesBeside', CommitOK', WaitingOK'
    PROVE  IInv'
  <1>1. raftLog' \in [Nodes -> Seq(Entries)]
    BY LogTypes
  <1>2. TypeOK'
    BY <1>1 DEF TypeOK, TypesBeside
  <1> QED
    BY <1>2 DEF IInv

LEMMA Typed == IInv => TypesBeside /\ raftLog \in [Nodes -> Seq(Stores)] /\ CommitOK /\ WaitingOK
  BY DEF IInv, TypeOK, TypesBeside

(* A raft log that grew at its end still has what it had.                  *)
LEMMA Grown ==
    ASSUME NEW old \in Seq(Stores), NEW e \in Stores
    PROVE  /\ Append(old, e) \in Seq(Stores) /\ Len(Append(old, e)) = Len(old) + 1
           /\ \A i \in 1 .. Len(old) : Append(old, e)[i] = old[i]
           /\ Append(old, e)[Len(old) + 1] = e
  <1> HIDE DEF Stores
  <1> QED
    OBVIOUS

(* DeleteRange up to the last index leaves nothing, so a follower that     *)
(* does not panic had nothing to delete.                                   *)
LEMMA StoredIs ==
    ASSUME IInv, NEW l \in Nodes, NEW f \in Nodes, ~ Panics(l, f)
    PROVE  Stored(l, f) = raftLog[f]
  <1> DEFINE prev == Matching(raftLog[l], raftLog[f])
             last == Len(raftLog[f])
  <1>1. prev \in Nat /\ last \in Nat /\ raftLog[f] \in Seq(Stores)
    BY Shapes, MatchingIs
  <1>2. ASSUME last > prev
        PROVE  Panics(l, f)
    <2>1. Stored(l, f) = SubSeq(raftLog[f], last + 1, last)
      BY <1>2 DEF Stored, DeleteRange, LastIndex
    <2>2. SubSeq(raftLog[f], last + 1, last) = <<>>
      BY <1>1
    <2>3. raftLog[f] # <<>>
      BY <1>1, <1>2
    <2> QED
      BY <2>1, <2>2, <2>3 DEF Panics
  <1>3. ~ (last > prev)
    BY <1>2
  <1> QED
    BY <1>3 DEF Stored, LastIndex

-----------------------------------------------------------------------------
(* An election of n by Q in term t, with what raft makes of it.            *)
ElectedIn(n, Q, t) ==
    /\ Q \subseteq Nodes /\ n \in Q /\ raftLog[n] # <<>>
    /\ \A q \in Q : term[q] < t /\ status[q] = "up" /\ UpToDate(raftLog[n], raftLog[q])
    /\ term' = [q \in Nodes |-> IF q \in Q THEN t ELSE term[q]]
    /\ role' = [q \in Nodes |-> IF q = n THEN "leader"
                                ELSE IF q \in Q THEN "follower" ELSE role[q]]
    /\ waiting' = [q \in Nodes |-> IF q \in Q THEN {} ELSE waiting[q]]
    /\ raftLog' = [raftLog EXCEPT ![n] = Append(raftLog[n], Entry(t, "noop", NoRecord))]
    /\ UNCHANGED <<recordLog, commit, applied, status, restarts, acked, committed>>

LEMMA ElectIs ==
    ASSUME IInv, NEW n \in Nodes, NEW Q \in Quorums, Elect(n, Q)
    PROVE  \E t \in 1 .. MaxTerm : ElectedIn(n, Q, t)
  <1> DEFINE terms == {term[q] : q \in Q}
             old   == CHOOSE t \in terms : \A q \in Q : term[q] <= t
  <1>1. Q \subseteq Nodes /\ n \in Q
    BY DEF Quorums, Elect
  <1>2. old \in 1 .. MaxTerm /\ \A q \in Q : term[q] <= old
    <2>1. terms \subseteq Nat /\ terms # {} /\ \A x \in terms : x <= MaxTerm /\ x \in 1 .. MaxTerm
      BY <1>1, Shapes, ReplicationAssumption
    <2>2. \E t \in terms : \A x \in terms : x <= t
      <3> HIDE DEF terms
      <3> QED
        BY <2>1, GreatestIs, ReplicationAssumption
    <2>3. \E t \in terms : \A q \in Q : term[q] <= t
      BY <2>2
    <2>4. old \in terms /\ \A q \in Q : term[q] <= old
      <3> HIDE DEF terms
      <3> QED
        BY <2>3
    <2> QED
      BY <2>1, <2>4
  <1>3. /\ old < MaxTerm /\ raftLog[n] # <<>>
        /\ \A q \in Q : status[q] = "up" /\ UpToDate(raftLog[n], raftLog[q])
        /\ term' = [q \in Nodes |-> IF q \in Q THEN old + 1 ELSE term[q]]
        /\ role' = [q \in Nodes |-> IF q = n THEN "leader"
                                    ELSE IF q \in Q THEN "follower" ELSE role[q]]
        /\ waiting' = [q \in Nodes |-> IF q \in Q THEN {} ELSE waiting[q]]
        /\ raftLog' = [raftLog EXCEPT ![n] = Append(raftLog[n], Entry(old + 1, "noop", NoRecord))]
        /\ UNCHANGED <<recordLog, commit, applied, status, restarts, acked, committed>>
    BY DEF Elect, StoreLog, history
  <1> HIDE DEF old
  <1>4. old + 1 \in 1 .. MaxTerm /\ \A q \in Q : term[q] < old + 1
    <2>1. \A q \in Q : term[q] \in Nat
      BY <1>1, Shapes
    <2> QED
      BY <1>2, <1>3, <2>1, ReplicationAssumption
  <1> QED
    BY <1>1, <1>3, <1>4 DEF ElectedIn

LEMMA ElectKeeps ==
    ASSUME IInv, NEW n \in Nodes, NEW Q \in Quorums, Elect(n, Q)
    PROVE  IInv'
  <1>1. PICK t \in 1 .. MaxTerm : ElectedIn(n, Q, t)
    BY ElectIs
  <1> DEFINE e == Entry(t, "noop", NoRecord)
  <1>3. /\ Q \subseteq Nodes /\ n \in Q
        /\ term' = [q \in Nodes |-> IF q \in Q THEN t ELSE term[q]]
        /\ role' = [q \in Nodes |-> IF q = n THEN "leader"
                                    ELSE IF q \in Q THEN "follower" ELSE role[q]]
        /\ waiting' = [q \in Nodes |-> IF q \in Q THEN {} ELSE waiting[q]]
        /\ raftLog' = [raftLog EXCEPT ![n] = Append(raftLog[n], e)]
        /\ UNCHANGED <<recordLog, commit, applied, status, restarts, acked, committed>>
    BY <1>1 DEF ElectedIn
  <1>5. e \in Stores
    BY StoresAre
  <1> HIDE DEF e
  <1>6. /\ TypesBeside /\ raftLog \in [Nodes -> Seq(Stores)] /\ CommitOK /\ WaitingOK
    BY Typed
  <1>7. raftLog[n] \in Seq(Stores) /\ Append(raftLog[n], e) \in Seq(Stores)
        /\ Len(raftLog[n]) \in Nat /\ Len(Append(raftLog[n], e)) = Len(raftLog[n]) + 1
    BY <1>5, Shapes, Grown
  <1>8. raftLog' \in [Nodes -> Seq(Stores)]
    BY <1>3, <1>6, <1>7
  <1>9. TypesBeside'
    BY <1>3, <1>6 DEF TypesBeside
  <1>10. CommitOK'
    <2> SUFFICES ASSUME NEW m \in Nodes, status[m] = "up"
                 PROVE  commit[m] <= Len(raftLog'[m])
      BY <1>3 DEF CommitOK
    <2>1. commit[m] <= Len(raftLog[m]) /\ commit[m] \in Nat
      BY <1>6, Shapes DEF CommitOK
    <2>2. CASE m = n
      BY <1>3, <1>6, <1>7, <2>1, <2>2
    <2>3. CASE m # n
      BY <1>3, <1>6, <2>1, <2>3
    <2> QED
      BY <2>2, <2>3
  <1>11. WaitingOK'
    <2>1. \A m \in Nodes : m \notin Q => waiting'[m] = waiting[m] /\ raftLog'[m] = raftLog[m]
                                        /\ role'[m] = role[m]
      BY <1>3, <1>6
    <2>2. \A m \in Q : waiting'[m] = {}
      BY <1>3
    <2> QED
      BY <1>6, <2>1, <2>2 DEF WaitingOK
  <1> QED
    BY <1>8, <1>9, <1>10, <1>11, Assembled

LEMMA StepDownKeeps ==
    ASSUME IInv, NEW n \in Nodes, StepDown(n)
    PROVE  IInv'
  <1>1. /\ TypesBeside /\ raftLog \in [Nodes -> Seq(Stores)] /\ CommitOK /\ WaitingOK
    BY Typed
  <1>2. /\ role' = [role EXCEPT ![n] = "follower"]
        /\ waiting' = [waiting EXCEPT ![n] = {}]
        /\ UNCHANGED <<raftLog, recordLog, term, commit, applied, status, restarts, history>>
    BY DEF StepDown
  <1>3. TypesBeside'
    BY <1>1, <1>2 DEF TypesBeside, history
  <1>4. CommitOK'
    BY <1>1, <1>2 DEF CommitOK
  <1>5. WaitingOK'
    BY <1>1, <1>2 DEF WaitingOK, TypesBeside
  <1> QED
    BY <1>1, <1>2, <1>3, <1>4, <1>5, Assembled

(* What an exchange does to the role of a follower and to its calls.       *)
LEMMA FollowIs ==
    ASSUME IInv, NEW l \in Nodes, NEW f \in Nodes, Follow(l, f)
    PROVE  /\ term' \in [Nodes -> 1 .. MaxTerm] /\ role' \in [Nodes -> {"leader", "follower"}]
           /\ waiting' \in [Nodes -> SUBSET Nat] /\ waiting'[f] = {}
           /\ \A m \in Nodes \ {f} : waiting'[m] = waiting[m] /\ role'[m] = role[m]
  <1>1. TypesBeside /\ WaitingOK /\ term[l] \in 1 .. MaxTerm
    BY Typed, Shapes
  <1>2. /\ term' = [term EXCEPT ![f] = term[l]] /\ role' = [role EXCEPT ![f] = "follower"]
        /\ waiting' = [waiting EXCEPT ![f] = IF role[f] = "leader" THEN {} ELSE @]
    BY DEF Follow
  <1>3. /\ term \in [Nodes -> 1 .. MaxTerm] /\ role \in [Nodes -> {"leader", "follower"}]
        /\ waiting \in [Nodes -> SUBSET Nat]
    BY <1>1 DEF TypesBeside
  <1>4. role[f] # "leader" => waiting[f] = {}
    BY <1>1, <1>3 DEF WaitingOK
  <1>5. waiting' = [waiting EXCEPT ![f] = {}]
    BY <1>2, <1>3, <1>4
  <1> QED
    BY <1>1, <1>2, <1>3, <1>5

(* What a leader sends is in its log.                                      *)
LEMMA SentIs ==
    ASSUME IInv, NEW l \in Nodes, NEW f \in Nodes, Replicate(l, f)
    PROVE  LET next == Matching(raftLog[l], raftLog[f]) + 1
           IN  next \in 1 .. Len(raftLog[l]) /\ raftLog[l][next] \in Stores
  <1>1. Matching(raftLog[l], raftLog[f]) \in Nat /\ Len(raftLog[l]) \in Nat
        /\ Matching(raftLog[l], raftLog[f]) < Len(raftLog[l])
    BY Shapes, MatchingIs DEF Replicate, Sends, LastIndex
  <1>2. Matching(raftLog[l], raftLog[f]) + 1 \in 1 .. Len(raftLog[l])
    BY <1>1
  <1> QED
    BY <1>2, Shapes

LEMMA ReplicateKeeps ==
    ASSUME IInv, NEW l \in Nodes, NEW f \in Nodes, Replicate(l, f)
    PROVE  IInv'
  <1> DEFINE next == Matching(raftLog[l], raftLog[f]) + 1
             e    == raftLog[l][next]
  <1>1. /\ Follow(l, f) /\ UNCHANGED <<recordLog, commit, applied, status, restarts, history>>
        /\ raftLog' = [raftLog EXCEPT ![f] = Append(raftLog[f], e)]
    BY StoredIs DEF Replicate, StoreLog, GetLog
  <1>2. e \in Stores
    BY SentIs
  <1> HIDE DEF e
  <1>3. /\ TypesBeside /\ raftLog \in [Nodes -> Seq(Stores)] /\ CommitOK /\ WaitingOK
    BY Typed
  <1>4. Append(raftLog[f], e) \in Seq(Stores) /\ Len(raftLog[f]) \in Nat
        /\ Len(Append(raftLog[f], e)) = Len(raftLog[f]) + 1
    BY <1>2, Shapes, Grown
  <1>5. raftLog' \in [Nodes -> Seq(Stores)]
    BY <1>1, <1>3, <1>4
  <1>6. TypesBeside'
    BY <1>1, <1>3, FollowIs DEF TypesBeside, history
  <1>7. CommitOK'
    <2> SUFFICES ASSUME NEW m \in Nodes, status[m] = "up"
                 PROVE  commit[m] <= Len(raftLog'[m])
      BY <1>1 DEF CommitOK
    <2>1. commit[m] <= Len(raftLog[m]) /\ commit[m] \in Nat
      BY <1>3, Shapes DEF CommitOK
    <2>2. CASE m = f
      BY <1>1, <1>3, <1>4, <2>1, <2>2
    <2>3. CASE m # f
      BY <1>1, <1>3, <2>1, <2>3
    <2> QED
      BY <2>2, <2>3
  <1>8. WaitingOK'
    <2>1. \A m \in Nodes \ {f} : raftLog'[m] = raftLog[m]
      BY <1>1, <1>3
    <2> QED
      BY <1>1, <1>3, <2>1, FollowIs DEF WaitingOK
  <1> QED
    BY <1>5, <1>6, <1>7, <1>8, Assembled

LEMMA ReplicatePanicKeeps ==
    ASSUME IInv, NEW l \in Nodes, NEW f \in Nodes, ReplicatePanic(l, f)
    PROVE  IInv'
  <1>1. /\ Follow(l, f) /\ UNCHANGED <<recordLog, commit, applied, restarts, history>>
        /\ raftLog' = [raftLog EXCEPT ![f] = <<>>]
        /\ status' = [status EXCEPT ![f] = "panicked"]
    BY DEF ReplicatePanic
  <1>2. /\ TypesBeside /\ raftLog \in [Nodes -> Seq(Stores)] /\ CommitOK /\ WaitingOK
    BY Typed
  <1>3. raftLog' \in [Nodes -> Seq(Stores)]
    BY <1>1, <1>2
  <1>4. TypesBeside'
    BY <1>1, <1>2, FollowIs DEF TypesBeside, history
  <1>5. \A m \in Nodes \ {f} : raftLog'[m] = raftLog[m] /\ status'[m] = status[m]
    BY <1>1, <1>2 DEF TypesBeside
  <1>6. CommitOK'
    <2>1. status'[f] # "up"
      BY <1>1, <1>2 DEF TypesBeside
    <2> QED
      BY <1>1, <1>2, <1>5, <2>1 DEF CommitOK
  <1>7. WaitingOK'
    BY <1>1, <1>2, <1>5, FollowIs DEF WaitingOK
  <1> QED
    BY <1>3, <1>4, <1>6, <1>7, Assembled

LEMMA ReplicateCommitKeeps ==
    ASSUME IInv, NEW l \in Nodes, NEW f \in Nodes, ReplicateCommit(l, f)
    PROVE  IInv'
  <1> DEFINE prev == Matching(raftLog[l], raftLog[f])
             new  == IF commit[l] < prev THEN commit[l] ELSE prev
             max  == IF commit[f] < new THEN new ELSE commit[f]
  <1>1. /\ Follow(l, f) /\ UNCHANGED <<raftLog, recordLog, applied, status, restarts, history>>
        /\ commit' = [commit EXCEPT ![f] = max]
    BY DEF ReplicateCommit
  <1>2. /\ TypesBeside /\ raftLog \in [Nodes -> Seq(Stores)] /\ CommitOK /\ WaitingOK
    BY Typed
  <1>3. prev \in Nat /\ prev <= Len(raftLog[f]) /\ Len(raftLog[f]) \in Nat
        /\ commit[l] \in Nat /\ commit[f] \in Nat
    BY Shapes, MatchingIs
  <1> HIDE DEF prev
  <1>4. new \in Nat /\ new <= Len(raftLog[f])
    BY <1>3
  <1>5. max \in Nat /\ (status[f] = "up" => max <= Len(raftLog[f]))
    BY <1>2, <1>3, <1>4 DEF CommitOK
  <1> HIDE DEF max
  <1>6. TypesBeside'
    BY <1>1, <1>2, <1>5, FollowIs DEF TypesBeside, history
  <1>7. CommitOK'
    <2> SUFFICES ASSUME NEW m \in Nodes, status[m] = "up"
                 PROVE  commit'[m] <= Len(raftLog[m])
      BY <1>1 DEF CommitOK
    <2> QED
      BY <1>1, <1>2, <1>5 DEF CommitOK, TypesBeside
  <1>8. WaitingOK'
    BY <1>1, <1>2, FollowIs DEF WaitingOK
  <1> QED
    BY <1>1, <1>2, <1>6, <1>7, <1>8, Assembled

LEMMA CommitKeeps ==
    ASSUME IInv, NEW l \in Nodes, NEW index \in 1 .. MaxIndex, Commit(l, index)
    PROVE  IInv'
  <1> DEFINE new == {[index |-> i, entry |-> raftLog[l][i], term |-> term[l]] :
                        i \in commit[l] + 1 .. index}
  <1>1. /\ commit' = [commit EXCEPT ![l] = index] /\ committed' = committed \cup new
        /\ index <= Len(raftLog[l])
        /\ UNCHANGED <<raftLog, recordLog, term, role, applied, waiting, status, restarts, acked>>
    BY DEF Commit, LastIndex
  <1>2. /\ TypesBeside /\ raftLog \in [Nodes -> Seq(Stores)] /\ CommitOK /\ WaitingOK
    BY Typed
  <1>3. new \subseteq [index : Nat, entry : Entries, term : 1 .. MaxTerm]
    <2> SUFFICES ASSUME NEW i \in commit[l] + 1 .. index
                 PROVE  [index |-> i, entry |-> raftLog[l][i], term |-> term[l]]
                            \in [index : Nat, entry : Entries, term : 1 .. MaxTerm]
      OBVIOUS
    <2>1. i \in Nat /\ i \in 1 .. Len(raftLog[l])
      BY <1>1, Shapes, ReplicationAssumption
    <2>2. raftLog[l][i] \in Entries /\ term[l] \in 1 .. MaxTerm
      BY <2>1, Shapes, StoresAre
    <2> HIDE DEF Entries
    <2> QED
      BY <2>1, <2>2
  <1> HIDE DEF new
  <1>4. TypesBeside'
    <2>1. commit' \in [Nodes -> Nat]
      BY <1>1, <1>2 DEF TypesBeside
    <2>2. committed' \subseteq [index : Nat, entry : Entries, term : 1 .. MaxTerm]
      <3>1. committed \subseteq [index : Nat, entry : Entries, term : 1 .. MaxTerm]
        BY <1>2 DEF TypesBeside
      <3> QED
        BY <1>1, <1>3, <3>1, Zenon
    <2> QED
      BY <1>1, <1>2, <2>1, <2>2 DEF TypesBeside
  <1>5. CommitOK'
    BY <1>1, <1>2 DEF CommitOK, TypesBeside
  <1>6. WaitingOK'
    BY <1>1, <1>2 DEF WaitingOK
  <1> QED
    BY <1>1, <1>2, <1>4, <1>5, <1>6, Assembled

LEMMA DistributedAppendKeeps ==
    ASSUME IInv, NEW n \in Nodes, NEW r \in Records, DistributedAppend(n, r)
    PROVE  IInv'
  <1> DEFINE e   == Entry(term[n], "command", r)
             new == Len(raftLog[n]) + 1
  <1>1. /\ raftLog' = [raftLog EXCEPT ![n] = Append(raftLog[n], e)]
        /\ waiting' = [waiting EXCEPT ![n] = waiting[n] \cup {new}]
        /\ role[n] = "leader"
        /\ UNCHANGED <<recordLog, raft, status, restarts, history>>
    BY DEF DistributedAppend, StoreLog, LastIndex
  <1>2. /\ TypesBeside /\ raftLog \in [Nodes -> Seq(Stores)] /\ CommitOK /\ WaitingOK
    BY Typed
  <1>3. e \in Stores /\ e.type = "command"
    BY Shapes, StoresAre
  <1> HIDE DEF e
  <1>4. /\ raftLog[n] \in Seq(Stores) /\ Append(raftLog[n], e) \in Seq(Stores)
        /\ Len(raftLog[n]) \in Nat /\ Len(Append(raftLog[n], e)) = new
        /\ \A i \in 1 .. Len(raftLog[n]) : Append(raftLog[n], e)[i] = raftLog[n][i]
        /\ Append(raftLog[n], e)[new] = e
    BY <1>3, Shapes, Grown
  <1>5. raftLog' \in [Nodes -> Seq(Stores)]
    BY <1>1, <1>2, <1>4
  <1>6. TypesBeside'
    BY <1>1, <1>2, <1>4 DEF TypesBeside, history, raft
  <1>7. raftLog'[n] = Append(raftLog[n], e) /\ waiting'[n] = waiting[n] \cup {new}
        /\ \A m \in Nodes \ {n} : raftLog'[m] = raftLog[m] /\ waiting'[m] = waiting[m]
    BY <1>1, <1>2 DEF TypesBeside
  <1>8. CommitOK'
    <2> SUFFICES ASSUME NEW m \in Nodes, status[m] = "up"
                 PROVE  commit[m] <= Len(raftLog'[m])
      BY <1>1 DEF CommitOK, raft
    <2>1. commit[m] <= Len(raftLog[m]) /\ commit[m] \in Nat
      BY <1>2, Shapes DEF CommitOK
    <2> QED
      BY <1>4, <1>7, <2>1
  <1>9. WaitingOK'
    <2>1. \A i \in waiting'[n] : i \in 1 .. Len(raftLog'[n]) /\ raftLog'[n][i].type = "command"
      <3> SUFFICES ASSUME NEW i \in waiting[n] \cup {new}
                   PROVE  i \in 1 .. Len(raftLog'[n]) /\ raftLog'[n][i].type = "command"
        BY <1>7
      <3>1. CASE i = new
        BY <1>3, <1>4, <1>7, <3>1
      <3>2. CASE i \in waiting[n]
        <4>1. i \in 1 .. Len(raftLog[n]) /\ raftLog[n][i].type = "command"
          BY <1>2, <3>2 DEF WaitingOK
        <4> QED
          BY <1>4, <1>7, <4>1
      <3> QED
        BY <3>1, <3>2
    <2> QED
      BY <1>1, <1>2, <1>7, <2>1 DEF WaitingOK, raft
  <1> QED
    BY <1>5, <1>6, <1>8, <1>9, Assembled

LEMMA AppliesRecord ==
    ASSUME IInv, NEW n \in Nodes, status[n] = "up", applied[n] < commit[n]
    PROVE  LET e == raftLog[n][applied[n] + 1]
           IN  /\ applied[n] + 1 \in 1 .. Len(raftLog[n])
               /\ e \in Stores /\ (e.type = "command" => e.val \in Records)
  <1>1. commit[n] <= Len(raftLog[n])
    BY DEF IInv, CommitOK
  <1>2. commit[n] \in Nat /\ applied[n] \in Nat /\ Len(raftLog[n]) \in Nat
    BY Shapes
  <1>3. applied[n] + 1 \in 1 .. Len(raftLog[n])
    BY <1>1, <1>2
  <1> QED
    BY <1>3, Shapes, StoresAre

(* The index that is applied is in the log, by CommitOK, and what is       *)
(* answered is the record of a command, by WaitingOK.                      *)
LEMMA FsmApplyKeeps ==
    ASSUME IInv, NEW n \in Nodes, FsmApply(n)
    PROVE  IInv'
  <1> DEFINE index == applied[n] + 1
             e     == raftLog[n][index]
             ack   == [off |-> Len(recordLog[n]), val |-> e.val]
  <1>1. /\ status[n] = "up" /\ applied[n] < commit[n]
        /\ applied' = [applied EXCEPT ![n] = index]
        /\ recordLog' = IF IsCommand(e) THEN [recordLog EXCEPT ![n] = Append(recordLog[n], e.val)]
                                        ELSE recordLog
        /\ acked' = IF index \in waiting[n] THEN acked \cup {ack} ELSE acked
        /\ waiting' = [waiting EXCEPT ![n] = waiting[n] \ {index}]
        /\ UNCHANGED <<raftLog, term, role, commit, status, restarts, committed>>
    BY DEF FsmApply, GetLog
  <1>2. /\ TypesBeside /\ raftLog \in [Nodes -> Seq(Stores)] /\ CommitOK /\ WaitingOK
    BY Typed
  <1>3. e \in Stores
    BY <1>1, AppliesRecord
  <1>4. IsCommand(e) => e.val \in Records
    BY <1>1, AppliesRecord DEF IsCommand
  <1>5. index \in waiting[n] => IsCommand(e)
    BY <1>2 DEF WaitingOK, IsCommand
  <1>6. index \in Nat /\ Len(recordLog[n]) \in Nat /\ recordLog[n] \in Seq(Records \cup {Hole})
    BY Shapes
  <1>7. index \in waiting[n] => ack \in [off : Nat, val : Records]
    BY <1>4, <1>5, <1>6
  <1>8. recordLog' \in [Nodes -> Seq(Records \cup {Hole})]
    <2>1. recordLog \in [Nodes -> Seq(Records \cup {Hole})]
      BY <1>2 DEF TypesBeside
    <2>2. IsCommand(e) => Append(recordLog[n], e.val) \in Seq(Records \cup {Hole})
      BY <1>4, <1>6
    <2> HIDE DEF e
    <2>3. CASE IsCommand(e)
      BY <1>1, <2>1, <2>2, <2>3
    <2>4. CASE ~ IsCommand(e)
      BY <1>1, <2>1, <2>4
    <2> QED
      BY <2>3, <2>4
  <1>9. waiting' \in [Nodes -> SUBSET Nat] /\ waiting'[n] = waiting[n] \ {index}
        /\ \A m \in Nodes \ {n} : waiting'[m] = waiting[m]
    BY <1>1, <1>2 DEF TypesBeside
  <1>10. acked' \subseteq [off : Nat, val : Records]
    <2>1. acked \subseteq [off : Nat, val : Records]
      BY <1>2 DEF TypesBeside
    <2> HIDE DEF ack
    <2> QED
      BY <1>1, <1>7, <2>1
  <1>11. TypesBeside'
    <2>1. applied' \in [Nodes -> Nat]
      BY <1>1, <1>2, <1>6 DEF TypesBeside
    <2> QED
      BY <1>1, <1>2, <1>8, <1>9, <1>10, <2>1 DEF TypesBeside
  <1>12. CommitOK'
    BY <1>1, <1>2 DEF CommitOK
  <1>13. WaitingOK'
    <2>1. \A m \in Nodes : waiting'[m] \subseteq waiting[m]
      BY <1>9
    <2> QED
      BY <1>1, <1>2, <2>1 DEF WaitingOK
  <1> QED
    BY <1>1, <1>2, <1>11, <1>12, <1>13, Assembled

LEMMA CloseKeeps ==
    ASSUME IInv, NEW n \in Nodes, Close(n)
    PROVE  IInv'
  <1>1. /\ TypesBeside /\ raftLog \in [Nodes -> Seq(Stores)] /\ CommitOK /\ WaitingOK
    BY Typed
  <1>2. /\ status' = [status EXCEPT ![n] = "closed"] /\ role' = [role EXCEPT ![n] = "follower"]
        /\ waiting' = [waiting EXCEPT ![n] = {}]
        /\ UNCHANGED <<raftLog, recordLog, term, commit, applied, restarts, history>>
    BY DEF Close
  <1>3. TypesBeside'
    BY <1>1, <1>2 DEF TypesBeside, history
  <1>4. CommitOK'
    BY <1>1, <1>2 DEF CommitOK, TypesBeside
  <1>5. WaitingOK'
    BY <1>1, <1>2 DEF WaitingOK, TypesBeside
  <1> QED
    BY <1>1, <1>2, <1>3, <1>4, <1>5, Assembled

LEMMA RecoveredIs ==
    ASSUME NEW records \in Seq(Records \cup {Hole})
    PROVE  Recovered(records) \subseteq Seq(Records \cup {Hole})
  <1> SUFFICES ASSUME NEW k \in 0 .. Len(records) + 1, NEW kept \in SUBSET DOMAIN records
               PROVE  [i \in 1 .. k |-> IF i \in kept THEN records[i] ELSE Hole]
                          \in Seq(Records \cup {Hole})
    BY DEF Recovered
  <1>1. k \in Nat
    OBVIOUS
  <1>2. \A i \in 1 .. k : (IF i \in kept THEN records[i] ELSE Hole) \in Records \cup {Hole}
    OBVIOUS
  <1> QED
    BY <1>1, <1>2

LEMMA NewDistributedLogKeeps ==
    ASSUME IInv, NEW n \in Nodes, NewDistributedLog(n)
    PROVE  IInv'
  <1>1. /\ TypesBeside /\ raftLog \in [Nodes -> Seq(Stores)] /\ CommitOK /\ WaitingOK
    BY Typed
  <1>2. /\ restarts < MaxRestarts /\ restarts' = restarts + 1
        /\ status' = [status EXCEPT ![n] = "up"] /\ commit' = [commit EXCEPT ![n] = 0]
        /\ applied' = [applied EXCEPT ![n] = 0]
        /\ UNCHANGED <<raftLog, term, role, waiting, history>>
    BY DEF NewDistributedLog, LastApplied
  <1>3. recordLog' \in [Nodes -> Seq(Records \cup {Hole})]
    <2>1. recordLog \in [Nodes -> Seq(Records \cup {Hole})]
      BY <1>1 DEF TypesBeside
    <2>2. Recovered(recordLog[n]) \subseteq Seq(Records \cup {Hole})
      BY <2>1, RecoveredIs
    <2>3. \/ UNCHANGED recordLog
          \/ \E records \in Recovered(recordLog[n]) :
                recordLog' = [recordLog EXCEPT ![n] = records]
      BY DEF NewDistributedLog
    <2> QED
      BY <2>1, <2>2, <2>3
  <1>4. restarts' \in 0 .. MaxRestarts
    BY <1>1, <1>2, ReplicationAssumption DEF TypesBeside
  <1>5. TypesBeside'
    BY <1>1, <1>2, <1>3, <1>4 DEF TypesBeside, history
  <1>6. CommitOK'
    <2> SUFFICES ASSUME NEW m \in Nodes, status'[m] = "up"
                 PROVE  commit'[m] <= Len(raftLog[m])
      BY <1>2 DEF CommitOK
    <2>1. CASE m = n
      BY <1>1, <1>2, <2>1, Shapes DEF TypesBeside
    <2>2. CASE m # n
      BY <1>1, <1>2, <2>2 DEF CommitOK, TypesBeside
    <2> QED
      BY <2>1, <2>2
  <1>7. WaitingOK'
    BY <1>1, <1>2 DEF WaitingOK
  <1> QED
    BY <1>1, <1>2, <1>5, <1>6, <1>7, Assembled

-----------------------------------------------------------------------------
LEMMA StepKeeps == IInv /\ [Next]_vars => IInv'
  <1> SUFFICES ASSUME IInv, [Next]_vars PROVE IInv'
    OBVIOUS
  <1>1. CASE \E n \in Nodes : \E Q \in Quorums : Elect(n, Q)
    BY <1>1, ElectKeeps
  <1>2. CASE \E n \in Nodes : StepDown(n)
    BY <1>2, StepDownKeeps
  <1>3. CASE \E n \in Nodes : \E index \in 1 .. MaxIndex : Commit(n, index)
    BY <1>3, CommitKeeps
  <1>4. CASE \E n \in Nodes : \E r \in Records : DistributedAppend(n, r)
    BY <1>4, DistributedAppendKeeps
  <1>5. CASE \E n \in Nodes : FsmApply(n)
    BY <1>5, FsmApplyKeeps
  <1>6. CASE \E n \in Nodes : Close(n)
    BY <1>6, CloseKeeps
  <1>7. CASE \E n \in Nodes : NewDistributedLog(n)
    BY <1>7, NewDistributedLogKeeps
  <1>8. CASE \E l, f \in Nodes : Replicate(l, f)
    BY <1>8, ReplicateKeeps
  <1>9. CASE \E l, f \in Nodes : ReplicatePanic(l, f)
    BY <1>9, ReplicatePanicKeeps
  <1>10. CASE \E l, f \in Nodes : ReplicateCommit(l, f)
    BY <1>10, ReplicateCommitKeeps
  <1>11. CASE UNCHANGED vars
    <2>1. /\ TypesBeside /\ raftLog \in [Nodes -> Seq(Stores)] /\ CommitOK /\ WaitingOK
      BY Typed
    <2>2. UNCHANGED <<raftLog, recordLog, term, role, commit, applied, waiting, status, restarts,
                      acked, committed>>
      BY <1>11 DEF vars, raft, history
    <2>3. TypesBeside'
      BY <2>1, <2>2 DEF TypesBeside
    <2>4. CommitOK' /\ WaitingOK'
      BY <2>1, <2>2 DEF CommitOK, WaitingOK
    <2> QED
      BY <2>1, <2>2, <2>3, <2>4, Assembled
  <1> QED
    BY <1>1, <1>2, <1>3, <1>4, <1>5, <1>6, <1>7, <1>8, <1>9, <1>10, <1>11 DEF Next, Exchange

LEMMA Invariance == Spec => []IInv
  BY Initially, StepKeeps, PTL DEF Spec

(* Every reachable state is well shaped (distributed.go): in particular    *)
(* each state machine is given indexes that its log store has, although    *)
(* DeleteRange deletes all of it, and an acknowledgement names a record.   *)
THEOREM ReplicationTypeOK == Spec => []TypeOK
  <1>1. IInv => TypeOK
    BY DEF IInv
  <1> QED
    BY <1>1, Invariance, PTL

-----------------------------------------------------------------------------
(* The record log of a node follows its raft log: no step but FsmApply     *)
(* touches what was applied, and that one puts the next command at the end.*)

AppliedOK == \A n \in Nodes : status[n] = "up" => applied[n] <= commit[n]

OrderInv == IInv /\ AppliedOK /\ AppliedInOrder

(* The log of a node that stays up gets longer.                            *)
Longer(n) ==
    /\ Len(raftLog[n]) <= Len(raftLog'[n])
    /\ \A i \in 1 .. Len(raftLog[n]) : raftLog'[n][i] = raftLog[n][i]

Untouched(n) ==
    /\ status[n] = "up" /\ Longer(n)
    /\ recordLog'[n] = recordLog[n] /\ applied'[n] = applied[n] /\ commit[n] <= commit'[n]

Fresh(n) == applied'[n] = 0 /\ commit'[n] = 0

(* What an action does to the logs: an entry more on one node.             *)
LEMMA OneLonger ==
    ASSUME IInv, NEW n \in Nodes, NEW e \in Stores,
           raftLog' = [raftLog EXCEPT ![n] = Append(raftLog[n], e)]
    PROVE  /\ raftLog'[n] = Append(raftLog[n], e) /\ Len(raftLog'[n]) = Len(raftLog[n]) + 1
           /\ raftLog'[n][Len(raftLog[n]) + 1] = e
           /\ \A m \in Nodes \ {n} : raftLog'[m] = raftLog[m]
           /\ \A m \in Nodes : Longer(m)
  <1>1. raftLog'[n] = Append(raftLog[n], e) /\ \A m \in Nodes \ {n} : raftLog'[m] = raftLog[m]
    BY DEF IInv
  <1>2. /\ Len(Append(raftLog[n], e)) = Len(raftLog[n]) + 1
        /\ \A i \in 1 .. Len(raftLog[n]) : Append(raftLog[n], e)[i] = raftLog[n][i]
        /\ Append(raftLog[n], e)[Len(raftLog[n]) + 1] = e
    BY Shapes, Grown
  <1>3. \A m \in Nodes : Len(raftLog[m]) \in Nat
    BY Shapes
  <1>4. Longer(n)
    BY <1>1, <1>2, <1>3 DEF Longer
  <1>5. \A m \in Nodes \ {n} : Longer(m)
    BY <1>1, <1>3 DEF Longer
  <1> QED
    BY <1>1, <1>2, <1>4, <1>5

LEMMA SameLonger ==
    ASSUME IInv, NEW n \in Nodes, raftLog'[n] = raftLog[n]
    PROVE  Longer(n)
  BY Shapes DEF Longer

LEMMA LongerUntouched ==
    ASSUME IInv, \A m \in Nodes : Longer(m),
           UNCHANGED <<recordLog, applied, commit, status>>
    PROVE  \A m \in Nodes : status'[m] = "up" => Untouched(m)
  <1>1. \A m \in Nodes : commit[m] \in Nat
    BY Shapes
  <1>2. ASSUME NEW m \in Nodes, status'[m] = "up" PROVE Untouched(m)
    <2>1. status[m] = "up" /\ recordLog'[m] = recordLog[m] /\ applied'[m] = applied[m]
      BY <1>2
    <2>2. commit[m] <= commit'[m]
      BY <1>1
    <2> QED
      BY <2>1, <2>2 DEF Untouched
  <1> QED
    BY <1>2

LEMMA UntouchedKeeps ==
    ASSUME OrderInv, NEW n \in Nodes, Untouched(n), commit'[n] \in Nat
    PROVE  applied'[n] <= commit'[n] /\ EndsWithApplied(n)'
  <1>1. applied[n] \in Nat /\ commit[n] \in Nat /\ Len(raftLog[n]) \in Nat
    BY Shapes DEF OrderInv
  <1>2. applied[n] <= commit[n] /\ commit[n] <= Len(raftLog[n]) /\ EndsWithApplied(n)
    BY DEF OrderInv, IInv, AppliedOK, AppliedInOrder, CommitOK, Untouched
  <1>3. \A i \in 1 .. applied[n] : raftLog'[n][i] = raftLog[n][i]
    BY <1>1, <1>2 DEF Untouched, Longer
  <1>4. CommandsUpTo(raftLog'[n], applied[n]) = CommandsUpTo(raftLog[n], applied[n])
    BY <1>3 DEF CommandsUpTo
  <1>5. \A i \in CommandsUpTo(raftLog[n], applied[n]) : raftLog'[n][i].val = raftLog[n][i].val
    BY <1>3 DEF CommandsUpTo
  <1>6. EndsWithApplied(n)'
    BY <1>2, <1>4, <1>5 DEF EndsWithApplied, Untouched
  <1> QED
    BY <1>1, <1>2, <1>6 DEF Untouched

LEMMA FreshKeeps ==
    ASSUME NEW n \in Nodes, Fresh(n), IInv'
    PROVE  applied'[n] <= commit'[n] /\ EndsWithApplied(n)'
  <1>1. recordLog'[n] \in Seq(Records \cup {Hole}) /\ Len(recordLog'[n]) \in Nat
    BY DEF IInv, TypeOK
  <1>2. CommandsUpTo(raftLog'[n], applied'[n]) = {}
    BY DEF CommandsUpTo, Fresh
  <1>3. Cardinality({}) = 0
    BY FS_EmptySet
  <1>4. EndsWithApplied(n)'
    BY <1>1, <1>2, <1>3 DEF EndsWithApplied
  <1> QED
    BY <1>4 DEF Fresh

(* An exchange leaves what was applied alone on every node that stays up.  *)
LEMMA ExchangeTouches ==
    ASSUME IInv, NEW l \in Nodes, NEW f \in Nodes, Exchange(l, f)
    PROVE  \A n \in Nodes : status'[n] = "up" => Untouched(n)
  <1>0. \A n \in Nodes : commit[n] \in Nat
    BY Shapes
  <1>1. CASE Replicate(l, f)
    <2> DEFINE e == raftLog[l][Matching(raftLog[l], raftLog[f]) + 1]
    <2>1. /\ UNCHANGED <<recordLog, commit, applied, status>>
          /\ raftLog' = [raftLog EXCEPT ![f] = Append(raftLog[f], e)]
      BY <1>1, StoredIs DEF Replicate, StoreLog, GetLog
    <2>2. e \in Stores
      BY <1>1, SentIs
    <2> HIDE DEF e
    <2>3. \A n \in Nodes : Longer(n)
      BY <2>1, <2>2, OneLonger
    <2> QED
      BY <2>1, <2>3, LongerUntouched
  <1>2. CASE ReplicatePanic(l, f)
    <2>1. /\ UNCHANGED <<recordLog, commit, applied>>
          /\ raftLog' = [raftLog EXCEPT ![f] = <<>>]
          /\ status' = [status EXCEPT ![f] = "panicked"]
      BY <1>2 DEF ReplicatePanic
    <2>2. \A n \in Nodes : status'[n] = "up" => n # f /\ status[n] = "up" /\ raftLog'[n] = raftLog[n]
      BY <2>1 DEF IInv, TypeOK
    <2> QED
      BY <1>0, <2>1, <2>2, SameLonger DEF Untouched
  <1>3. CASE ReplicateCommit(l, f)
    <2>1. /\ UNCHANGED <<recordLog, raftLog, applied, status>>
          /\ \A n \in Nodes : commit[n] <= commit'[n]
      <3> DEFINE prev == Matching(raftLog[l], raftLog[f])
                 new  == IF commit[l] < prev THEN commit[l] ELSE prev
      <3>1. /\ UNCHANGED <<recordLog, raftLog, applied, status>>
            /\ commit' = [commit EXCEPT ![f] = IF @ < new THEN new ELSE @]
        BY <1>3 DEF ReplicateCommit
      <3>2. new \in Nat
        BY <1>0, Shapes, MatchingIs
      <3> HIDE DEF new
      <3>3. commit \in [Nodes -> Nat]
        BY DEF IInv, TypeOK
      <3> QED
        BY <3>1, <3>2, <3>3
    <2> QED
      BY <2>1, SameLonger DEF Untouched
  <1> QED
    BY <1>1, <1>2, <1>3 DEF Exchange

LEMMA OthersTouch ==
    ASSUME IInv, NEW n \in Nodes,
           \/ \E Q \in Quorums : Elect(n, Q)
           \/ StepDown(n) \/ Close(n) \/ NewDistributedLog(n)
           \/ \E index \in 1 .. MaxIndex : Commit(n, index)
           \/ \E r \in Records : DistributedAppend(n, r)
    PROVE  \A m \in Nodes : status'[m] = "up" => Untouched(m) \/ Fresh(m)
  <1>0. \A m \in Nodes : commit[m] \in Nat
    BY Shapes
  <1>1. CASE \E Q \in Quorums : Elect(n, Q)
    <2>1. PICK Q \in Quorums : Elect(n, Q)
      BY <1>1
    <2>2. PICK t \in 1 .. MaxTerm : ElectedIn(n, Q, t)
      BY <2>1, ElectIs
    <2>3. Entry(t, "noop", NoRecord) \in Stores
      BY StoresAre
    <2>4. /\ raftLog' = [raftLog EXCEPT ![n] = Append(raftLog[n], Entry(t, "noop", NoRecord))]
          /\ UNCHANGED <<recordLog, commit, applied, status>>
      BY <2>2 DEF ElectedIn
    <2>5. \A m \in Nodes : Longer(m)
      BY <2>3, <2>4, OneLonger
    <2> QED
      BY <2>4, <2>5, LongerUntouched
  <1>2. CASE StepDown(n)
    BY <1>0, <1>2, SameLonger DEF StepDown, Untouched
  <1>3. CASE Close(n)
    <2>1. \A m \in Nodes : status'[m] = "up" => status[m] = "up"
      BY <1>3 DEF Close, IInv, TypeOK
    <2> QED
      BY <1>0, <1>3, <2>1, SameLonger DEF Close, Untouched
  <1>4. CASE NewDistributedLog(n)
    <2>1. /\ raftLog' = raftLog /\ status' = [status EXCEPT ![n] = "up"]
          /\ commit' = [commit EXCEPT ![n] = 0] /\ applied' = [applied EXCEPT ![n] = 0]
          /\ \A m \in Nodes \ {n} : recordLog'[m] = recordLog[m]
      BY <1>4 DEF NewDistributedLog, LastApplied, IInv, TypeOK
    <2>2. Fresh(n)
      BY <2>1 DEF Fresh, IInv, TypeOK
    <2>3. ASSUME NEW m \in Nodes \ {n}, status'[m] = "up"
          PROVE  Untouched(m)
      <3>1. /\ status \in [Nodes -> {"up", "closed", "panicked"}]
            /\ commit \in [Nodes -> Nat] /\ applied \in [Nodes -> Nat]
        BY DEF IInv, TypeOK
      <3>2. status[m] = "up" /\ applied'[m] = applied[m] /\ commit'[m] = commit[m]
        BY <2>1, <2>3, <3>1
      <3>3. raftLog'[m] = raftLog[m] /\ recordLog'[m] = recordLog[m] /\ commit[m] <= commit[m]
        BY <1>0, <2>1
      <3>4. Longer(m)
        BY <3>3, SameLonger
      <3> QED
        BY <3>2, <3>3, <3>4 DEF Untouched
    <2> QED
      BY <2>2, <2>3
  <1>5. CASE \E index \in 1 .. MaxIndex : Commit(n, index)
    <2>1. PICK index \in 1 .. MaxIndex : Commit(n, index)
      BY <1>5
    <2>2. \A m \in Nodes : commit[m] <= commit'[m]
      <3>1. commit' = [commit EXCEPT ![n] = index] /\ commit[n] < index
        BY <2>1 DEF Commit
      <3>2. commit \in [Nodes -> Nat]
        BY DEF IInv, TypeOK
      <3> QED
        BY <1>0, <3>1, <3>2
    <2>3. UNCHANGED <<raftLog, recordLog, applied, status>>
      BY <2>1 DEF Commit
    <2>4. \A m \in Nodes : Longer(m)
      BY <2>3, SameLonger
    <2> QED
      BY <2>2, <2>3, <2>4 DEF Untouched
  <1>6. CASE \E r \in Records : DistributedAppend(n, r)
    <2>1. PICK r \in Records : DistributedAppend(n, r)
      BY <1>6
    <2>2. Entry(term[n], "command", r) \in Stores
      BY Shapes, StoresAre
    <2>3. /\ raftLog' = [raftLog EXCEPT ![n] = Append(raftLog[n], Entry(term[n], "command", r))]
          /\ UNCHANGED <<recordLog, commit, applied, status>>
      BY <2>1 DEF DistributedAppend, StoreLog, raft
    <2>4. \A m \in Nodes : Longer(m)
      BY <2>2, <2>3, OneLonger
    <2> QED
      BY <2>3, <2>4, LongerUntouched
  <1> QED
    BY <1>1, <1>2, <1>3, <1>4, <1>5, <1>6

LEMMA FsmApplyOrders ==
    ASSUME OrderInv, NEW n \in Nodes, FsmApply(n), NEW m \in Nodes, status'[m] = "up"
    PROVE  applied'[m] <= commit'[m] /\ EndsWithApplied(m)'
  <1> DEFINE index == applied[n] + 1
             e     == raftLog[n][index]
             old   == CommandsUpTo(raftLog[n], applied[n])
             new   == CommandsUpTo(raftLog[n], index)
             size  == Len(recordLog[n])
  <1>1. /\ status[n] = "up" /\ applied[n] < commit[n]
        /\ applied' = [applied EXCEPT ![n] = index]
        /\ recordLog' = IF e.type = "command"
                        THEN [recordLog EXCEPT ![n] = Append(recordLog[n], e.val)]
                        ELSE recordLog
        /\ UNCHANGED <<raftLog, commit, status>>
    BY DEF FsmApply, GetLog, IsCommand
  <1>2. /\ applied[n] \in Nat /\ commit[n] \in Nat /\ size \in Nat
        /\ recordLog[n] \in Seq(Records \cup {Hole})
    BY Shapes DEF OrderInv
  <1>3. IInv /\ AppliedOK /\ AppliedInOrder
    BY DEF OrderInv
  <1>4. applied \in [Nodes -> Nat] /\ recordLog \in [Nodes -> Seq(Records \cup {Hole})]
    BY <1>3 DEF IInv, TypeOK
  <1>5. CASE m # n
    <2>1. /\ applied'[m] = applied[m] /\ recordLog'[m] = recordLog[m] /\ raftLog'[m] = raftLog[m]
          /\ commit'[m] = commit[m] /\ status[m] = "up"
      BY <1>1, <1>4, <1>5
    <2> QED
      BY <1>3, <2>1 DEF AppliedOK, AppliedInOrder, EndsWithApplied
  <1>6. CASE m = n
    <2>1. applied'[n] = index /\ index <= commit'[n]
      BY <1>1, <1>2, <1>4
    <2>2. /\ IsFiniteSet(old) /\ Cardinality(old) \in Nat /\ index \notin old
          /\ \A i \in old : i \in 1 .. applied[n] /\ i <= index
      <3>1. IsFiniteSet(1 .. applied[n]) /\ old \subseteq 1 .. applied[n]
        <4>1. 1 \in Int /\ applied[n] \in Int
          BY <1>2
        <4>2. IsFiniteSet(1 .. applied[n])
          BY <4>1, FS_Interval
        <4>3. old \subseteq 1 .. applied[n]
          BY DEF CommandsUpTo
        <4> QED
          BY <4>2, <4>3
      <3>2. IsFiniteSet(old) /\ Cardinality(old) \in Nat
        BY <3>1, FS_Subset, FS_CardinalityType
      <3> QED
        BY <1>2, <3>1, <3>2
    <2>3. EndsWithApplied(n)
      BY <1>1, <1>3 DEF AppliedInOrder
    <2> DEFINE older == size - Cardinality(old)
    <2>4. /\ older >= 0 /\ older \in Nat
          /\ \A i \in old :
                recordLog[n][older + Cardinality({j \in old : j <= i})] = raftLog[n][i].val
      <3>1. older >= 0
        BY <2>3 DEF EndsWithApplied
      <3>2. \A i \in old :
                recordLog[n][older + Cardinality({j \in old : j <= i})] = raftLog[n][i].val
        BY <2>3 DEF EndsWithApplied
      <3>3. older \in Nat
        <4> DEFINE c == Cardinality(old)
        <4>1. c \in Nat /\ size \in Nat /\ size - c >= 0
          BY <1>2, <2>2, <3>1
        <4> HIDE DEF c, size
        <4>2. size - c \in Nat
          BY <4>1
        <4> QED
          BY <4>2 DEF c
      <3> QED
        BY <3>1, <3>2, <3>3
    <2>5. CASE e.type = "command"
      <3>1. new = old \cup {index}
        BY <1>2, <2>5 DEF CommandsUpTo
      <3>2. Cardinality(new) = Cardinality(old) + 1
        BY <2>2, <3>1, FS_AddElement
      <3>3. /\ recordLog'[n] = Append(recordLog[n], e.val)
            /\ Len(recordLog'[n]) = size + 1 /\ recordLog'[n][size + 1] = e.val
            /\ \A k \in 1 .. size : recordLog'[n][k] = recordLog[n][k]
        <4>1. e.val \in Records
          BY <1>1, <1>2, <1>3, <2>5, AppliesRecord
        <4>2. recordLog'[n] = Append(recordLog[n], e.val)
          BY <1>1, <1>4, <2>5
        <4> DEFINE v == e.val
                   s == recordLog[n]
        <4>3. v \in Records \cup {Hole} /\ s \in Seq(Records \cup {Hole})
          BY <1>2, <4>1
        <4> HIDE DEF v, s
        <4>4. /\ Len(Append(s, v)) = Len(s) + 1 /\ Append(s, v)[Len(s) + 1] = v
              /\ \A k \in 1 .. Len(s) : Append(s, v)[k] = s[k]
          BY <4>3
        <4> QED
          BY <4>2, <4>4 DEF s, v
      <3>4. Len(recordLog'[n]) - Cardinality(new) = older
        <4> DEFINE c == Cardinality(old)
        <4>1. c \in Nat /\ size \in Nat /\ Cardinality(new) = c + 1 /\ Len(recordLog'[n]) = size + 1
          BY <1>2, <2>2, <3>2, <3>3
        <4> HIDE DEF c, size, new
        <4>2. Len(recordLog'[n]) - Cardinality(new) = size - c
          BY <4>1
        <4> QED
          BY <4>2 DEF c
      <3>5. ASSUME NEW i \in old
            PROVE  recordLog'[n][older + Cardinality({j \in new : j <= i})] = raftLog[n][i].val
        <4> DEFINE before == {j \in old : j <= i}
        <4>1. {j \in new : j <= i} = before
          BY <1>2, <2>2, <3>1
        <4>2. IsFiniteSet(before) /\ Cardinality(before) \in Nat
              /\ Cardinality(before) <= Cardinality(old)
          BY <2>2, FS_Subset, FS_CardinalityType
        <4>3. before # {}
          BY <2>2, <3>5
        <4>4. Cardinality(before) # 0
          BY <4>2, <4>3, FS_EmptySet
        <4> HIDE DEF before
        <4>5. older + Cardinality(before) \in 1 .. size
          BY <1>2, <2>2, <2>4, <4>2, <4>4
        <4>6. recordLog[n][older + Cardinality(before)] = raftLog[n][i].val
          BY <2>4 DEF before
        <4> QED
          BY <3>3, <4>1, <4>5, <4>6
      <3>6. recordLog'[n][older + Cardinality({j \in new : j <= index})] = raftLog[n][index].val
        <4>1. {j \in new : j <= index} = new
          BY <1>2, <2>2, <3>1
        <4>2. older + Cardinality(new) = size + 1
          BY <1>2, <2>2, <3>2
        <4> QED
          BY <3>3, <4>1, <4>2
      <3> HIDE DEF new, old, older, e, index
      <3>7. /\ Len(recordLog'[n]) - Cardinality(new) >= 0
            /\ \A i \in new :
                  recordLog'[n][Len(recordLog'[n]) - Cardinality(new)
                                + Cardinality({j \in new : j <= i})] = raftLog[n][i].val
        BY <2>4, <3>1, <3>4, <3>5, <3>6
      <3>8. EndsWithApplied(n)'
        BY <1>1, <2>1, <3>7 DEF EndsWithApplied, new
      <3> QED
        BY <1>6, <2>1, <3>8
    <2>6. CASE e.type # "command"
      <3>1. new = old
        BY <1>2, <2>6 DEF CommandsUpTo
      <3>2. recordLog'[n] = recordLog[n]
        BY <1>1, <2>6
      <3>3. EndsWithApplied(n)'
        BY <1>1, <2>1, <2>3, <3>1, <3>2 DEF EndsWithApplied
      <3> QED
        BY <1>6, <2>1, <3>3
    <2> QED
      BY <2>5, <2>6
  <1> QED
    BY <1>5, <1>6

LEMMA OrderInitially == Init => OrderInv
  <1> SUFFICES ASSUME Init PROVE AppliedOK /\ AppliedInOrder
    BY Initially DEF OrderInv
  <1> USE DEF Init
  <1>1. AppliedOK
    BY DEF AppliedOK
  <1>2. ASSUME NEW n \in Nodes
        PROVE  EndsWithApplied(n)
    <2>1. CommandsUpTo(raftLog[n], applied[n]) = {}
      BY DEF CommandsUpTo, Entry
    <2>2. Len(recordLog[n]) = 0 /\ Cardinality({}) = 0
      BY FS_EmptySet
    <2>3. recordLog[n] = <<>>
      OBVIOUS
    <2> DEFINE done == CommandsUpTo(raftLog[n], applied[n])
    <2> DEFINE length == Len(recordLog[n])
    <2>4. done = {} /\ length = 0 /\ Cardinality(done) = 0
      BY <2>1, <2>2
    <2> HIDE DEF done, length, Init
    <2>5. /\ Len(recordLog[n]) - Cardinality(done) >= 0
          /\ \A i \in done :
                recordLog[n][Len(recordLog[n]) - Cardinality(done)
                             + Cardinality({j \in done : j <= i})] = raftLog[n][i].val
      BY <2>4 DEF length
    <2> QED
      BY <2>5 DEF EndsWithApplied, done
  <1> QED
    BY <1>1, <1>2 DEF AppliedInOrder

LEMMA OrderKept == OrderInv /\ [Next]_vars => OrderInv'
  <1> SUFFICES ASSUME OrderInv, [Next]_vars PROVE OrderInv'
    OBVIOUS
  <1>1. IInv /\ IInv'
    BY StepKeeps DEF OrderInv
  <1>2. ASSUME NEW m \in Nodes, status'[m] = "up"
        PROVE  applied'[m] <= commit'[m] /\ EndsWithApplied(m)'
    <2>1. CASE \E n \in Nodes : FsmApply(n)
      BY <1>2, <2>1, FsmApplyOrders
    <2>2. CASE UNCHANGED vars
      BY <1>2, <2>2 DEF vars, raft, OrderInv, AppliedOK, AppliedInOrder, EndsWithApplied
    <2>3. CASE Untouched(m) \/ Fresh(m)
      <3>1. commit'[m] \in Nat
        BY <1>1 DEF IInv, TypeOK
      <3> QED
        BY <1>1, <2>3, <3>1, UntouchedKeeps, FreshKeeps
    <2>4. CASE \E l, f \in Nodes : Exchange(l, f)
      BY <1>1, <1>2, <2>3, <2>4, ExchangeTouches
    <2>5. CASE \E n \in Nodes :
                  \/ \E Q \in Quorums : Elect(n, Q)
                  \/ StepDown(n) \/ Close(n) \/ NewDistributedLog(n)
                  \/ \E index \in 1 .. MaxIndex : Commit(n, index)
                  \/ \E r \in Records : DistributedAppend(n, r)
      BY <1>1, <1>2, <2>3, <2>5, OthersTouch
    <2> QED
      BY <2>1, <2>2, <2>4, <2>5 DEF Next
  <1> QED
    BY <1>1, <1>2 DEF OrderInv, AppliedOK, AppliedInOrder

(* Whatever records of its log a crash left unreadable, a node's process   *)
(* adds the commands of the raft log in their order and nothing else       *)
(* (fsm.Apply), for any nodes, elections, conflicts and restarts.          *)
THEOREM ReplicationAppliedInOrder == Spec => []AppliedInOrder
  <1>1. OrderInv => AppliedInOrder
    BY DEF OrderInv
  <1> QED
    BY <1>1, OrderInitially, OrderKept, PTL DEF Spec

-----------------------------------------------------------------------------
(* Without restarts no committed entry is lost (LeaderComplete).  A log    *)
(* only grows while its node is up, and a node that panicked votes no      *)
(* more, so that the argument of raft holds.                               *)

Agreed(t) == \E Q \in Quorums : \A q \in Q : t <= term[q]

TermsAgreed ==
    /\ \A l \in Nodes : role[l] = "leader" => Agreed(term[l])
    /\ \A m \in Nodes : \A i \in 1 .. Len(raftLog[m]) : Agreed(raftLog[m][i].term)

OneLeader ==
    \A l, n \in Nodes : role[l] = "leader" /\ role[n] = "leader" /\ term[l] = term[n] => l = n

TermsOrdered ==
    \A m \in Nodes : \A i \in 1 .. Len(raftLog[m]) :
        /\ raftLog[m][i].term <= term[m]
        /\ \A j \in 1 .. i : raftLog[m][j].term <= raftLog[m][i].term

SameUpTo(m, n, i) ==
    /\ i <= Len(raftLog[m]) /\ i <= Len(raftLog[n])
    /\ \A k \in 1 .. i : raftLog[m][k] = raftLog[n][k]

LogMatching ==
    \A m, n \in Nodes : \A i \in 1 .. Len(raftLog[m]) : \A j \in 1 .. Len(raftLog[n]) :
        i <= j /\ raftLog[m][i].term = raftLog[n][j].term => SameUpTo(m, n, i)

(* Nobody has more of a term than its leader.                              *)
HasTerm(l, t) ==
    \A m \in Nodes : \A i \in 1 .. Len(raftLog[m]) :
        raftLog[m][i].term = t => SameUpTo(m, l, i)

LeaderHasTerm == \A l \in Nodes : role[l] = "leader" => HasTerm(l, term[l])

Holds(m, c) ==
    /\ 1 <= c.index /\ c.index <= Len(raftLog[m])
    /\ raftLog[m][c.index] = c.entry

(* The quorum that stored c has not gone back.                             *)
Keeps(q, c) ==
    /\ c.term <= term[q]
    /\ status[q] = "up" =>
          /\ Holds(q, c)
          /\ \E i \in 1 .. Len(raftLog[q]) : c.index <= i /\ raftLog[q][i].term = c.term

QuorumHolds == \A c \in committed : \E Q \in Quorums : \A q \in Q : Keeps(q, c)

LaterHold ==
    \A c \in committed : \A m \in Nodes : \A i \in 1 .. Len(raftLog[m]) :
        raftLog[m][i].term > c.term => c.index < i /\ Holds(m, c)

LeaderHolds ==
    \A c \in committed : \A l \in Nodes :
        role[l] = "leader" /\ c.term <= term[l] => Holds(l, c)

RaftOK ==
    /\ TermsAgreed /\ OneLeader /\ TermsOrdered
    /\ LogMatching /\ LeaderHasTerm
    /\ QuorumHolds /\ LaterHold /\ LeaderHolds

-----------------------------------------------------------------------------
LEMMA EntriesAre ==
    ASSUME IInv, NEW m \in Nodes, NEW i \in 1 .. Len(raftLog[m])
    PROVE  /\ i \in Nat /\ raftLog[m][i].term \in 1 .. MaxTerm /\ raftLog[m][i].term \in Nat
  <1>1. raftLog[m][i] \in Stores /\ Len(raftLog[m]) \in Nat
    BY Shapes
  <1>2. raftLog[m][i].term \in 1 .. MaxTerm
    BY <1>1 DEF Stores, Entries
  <1> QED
    BY <1>1, <1>2, ReplicationAssumption

LEMMA CommittedAre ==
    ASSUME IInv, NEW c \in committed
    PROVE  c.index \in Nat /\ c.term \in Nat /\ c.term \in 1 .. MaxTerm
  <1>1. c \in [index : Nat, entry : Entries, term : 1 .. MaxTerm]
    BY DEF IInv, TypeOK
  <1>2. c.index \in Nat /\ c.term \in 1 .. MaxTerm
    BY <1>1
  <1> QED
    BY <1>2, ReplicationAssumption

(* What a step leaves is as well shaped.                                   *)
LEMMA ShapesThen ==
    ASSUME IInv', NEW m \in Nodes
    PROVE  /\ term'[m] \in 1 .. MaxTerm /\ term'[m] \in Nat
           /\ raftLog'[m] \in Seq(Stores) /\ Len(raftLog'[m]) \in Nat
           /\ \A i \in 1 .. Len(raftLog'[m]) :
                 /\ i \in Nat /\ raftLog'[m][i].term \in Nat
                 /\ raftLog'[m][i].term \in 1 .. MaxTerm
  <1>1. term' \in [Nodes -> 1 .. MaxTerm] /\ raftLog' \in [Nodes -> Seq(Stores)]
    BY DEF IInv, TypeOK
  <1>2. term'[m] \in 1 .. MaxTerm /\ raftLog'[m] \in Seq(Stores)
    BY <1>1
  <1>3. term'[m] \in Nat /\ \A t \in 1 .. MaxTerm : t \in Nat
    BY <1>2, ReplicationAssumption
  <1>4. \A e \in Stores : e.term \in 1 .. MaxTerm
    BY DEF Stores, Entries
  <1>5. Len(raftLog'[m]) \in Nat /\ \A i \in 1 .. Len(raftLog'[m]) : raftLog'[m][i] \in Stores
    BY <1>2
  <1> QED
    BY <1>2, <1>3, <1>4, <1>5

(* Two quorums have a node in common.                                      *)
LEMMA QuorumsMeet ==
    ASSUME NEW P \in Quorums, NEW Q \in Quorums
    PROVE  \E q \in Nodes : q \in P /\ q \in Q
  <1>1. /\ P \subseteq Nodes /\ 2 * Cardinality(P) > Cardinality(Nodes)
        /\ Q \subseteq Nodes /\ 2 * Cardinality(Q) > Cardinality(Nodes)
        /\ IsFiniteSet(Nodes)
    BY ReplicationAssumption DEF Quorums
  <1>2. IsFiniteSet(P) /\ IsFiniteSet(Q)
    BY <1>1, FS_Subset
  <1>3. Cardinality(P) \in Nat /\ Cardinality(Q) \in Nat /\ Cardinality(Nodes) \in Nat
    BY <1>1, <1>2, FS_CardinalityType
  <1>4. Cardinality(P) + Cardinality(Q) > Cardinality(Nodes)
    BY <1>1, <1>3
  <1> QED
    BY <1>1, <1>4, FS_MajoritiesIntersect

(* A term that a whole quorum has not reached is nobody's.                 *)
LEMMA NotAgreed ==
    ASSUME IInv, NEW Q \in Quorums, NEW t \in Nat, \A q \in Q : term[q] < t
    PROVE  ~ Agreed(t)
  <1> SUFFICES ASSUME Agreed(t) PROVE FALSE
    OBVIOUS
  <1>1. PICK P \in Quorums : \A q \in P : t <= term[q]
    BY DEF Agreed
  <1>2. PICK q \in Nodes : q \in P /\ q \in Q
    BY QuorumsMeet
  <1>3. term[q] \in Nat /\ t <= term[q] /\ term[q] < t
    BY <1>1, <1>2, Shapes
  <1> QED
    BY <1>3

-----------------------------------------------------------------------------
(* What most steps do to raft: each log becomes a copy of the beginning of *)
(* one that was there, and no one begins to lead.                          *)
TermsGrow == \A m \in Nodes : term[m] <= term'[m]

CopyOf(m, s) ==
    /\ term[s] <= term'[m] /\ Len(raftLog'[m]) <= Len(raftLog[s])
    /\ \A k \in 1 .. Len(raftLog'[m]) : raftLog'[m][k] = raftLog[s][k]

LeadsOn(l) == role[l] = "leader" /\ term'[l] = term[l] /\ raftLog'[l] = raftLog[l]

Calm ==
    /\ TermsGrow /\ \A m \in Nodes : \E s \in Nodes : CopyOf(m, s)
    /\ \A l \in Nodes : role'[l] = "leader" => LeadsOn(l)
    /\ \A m \in Nodes : status'[m] = "up" => status[m] = "up" /\ Longer(m)
    /\ committed' = committed

LEMMA AgreedStays ==
    ASSUME IInv, IInv', TermsGrow
    PROVE  \A t \in Nat : Agreed(t) => \E Q \in Quorums : \A q \in Q : t <= term'[q]
  <1> SUFFICES ASSUME NEW t \in Nat, Agreed(t)
               PROVE  \E Q \in Quorums : \A q \in Q : t <= term'[q]
    OBVIOUS
  <1>1. PICK Q \in Quorums : \A q \in Q : t <= term[q]
    BY DEF Agreed
  <1>2. ASSUME NEW q \in Q PROVE t <= term'[q]
    <2>1. q \in Nodes
      BY DEF Quorums
    <2>2. term[q] \in Nat /\ t <= term[q] /\ term[q] <= term'[q]
      BY <1>1, <2>1, Shapes DEF TermsGrow
    <2>3. term'[q] \in Nat
      BY <2>1, ShapesThen
    <2> QED
      BY <2>2, <2>3
  <1> QED
    BY <1>2

(* What a node that stays up held, it holds.                               *)
LEMMA KeepsOn ==
    ASSUME IInv, IInv', TermsGrow, NEW q \in Nodes, NEW c \in committed, Keeps(q, c),
           status'[q] = "up" => status[q] = "up" /\ Longer(q)
    PROVE  /\ c.term <= term'[q]
           /\ status'[q] = "up" =>
                 /\ 1 <= c.index /\ c.index <= Len(raftLog'[q]) /\ raftLog'[q][c.index] = c.entry
                 /\ \E i \in 1 .. Len(raftLog'[q]) :
                       c.index <= i /\ raftLog'[q][i].term = c.term
  <1>1. /\ c.index \in Nat /\ c.term \in Nat /\ term[q] \in Nat
        /\ Len(raftLog[q]) \in Nat
    BY CommittedAre, Shapes
  <1>2. term'[q] \in Nat /\ raftLog'[q] \in Seq(Stores)
    BY ShapesThen
  <1>3. c.term <= term'[q]
    BY <1>1, <1>2 DEF TermsGrow, Keeps
  <1>4. CASE status'[q] = "up"
    <2>1. Holds(q, c) /\ Longer(q)
      BY <1>4 DEF Keeps
    <2>2. PICK i \in 1 .. Len(raftLog[q]) : c.index <= i /\ raftLog[q][i].term = c.term
      BY <1>4 DEF Keeps
    <2>3. Len(raftLog'[q]) \in Nat
      BY <1>2
    <2>4. i \in 1 .. Len(raftLog'[q]) /\ raftLog'[q][i] = raftLog[q][i]
      BY <1>1, <2>1, <2>3 DEF Longer
    <2>5. /\ 1 <= c.index /\ c.index <= Len(raftLog'[q])
          /\ raftLog'[q][c.index] = raftLog[q][c.index]
      BY <1>1, <2>1, <2>3 DEF Longer, Holds
    <2> QED
      BY <1>3, <2>1, <2>2, <2>4, <2>5 DEF Holds
  <1> QED
    BY <1>3, <1>4

LEMMA CalmKeepsTerms ==
    ASSUME IInv, IInv', RaftOK, Calm
    PROVE  TermsAgreed' /\ OneLeader' /\ TermsOrdered'
  <1>1. TermsAgreed /\ OneLeader /\ TermsOrdered
    BY DEF RaftOK
  <1>2. TermsGrow /\ \A l \in Nodes : role'[l] = "leader" => LeadsOn(l)
    BY DEF Calm
  <1>3. \A t \in Nat : Agreed(t) => \E Q \in Quorums : \A q \in Q : t <= term'[q]
    BY <1>2, AgreedStays
  <1>4. ASSUME NEW l \in Nodes, role'[l] = "leader"
        PROVE  \E Q \in Quorums : \A q \in Q : term'[l] <= term'[q]
    <2>1. role[l] = "leader" /\ term'[l] = term[l] /\ term[l] \in Nat
      BY <1>2, <1>4, Shapes DEF LeadsOn
    <2>2. Agreed(term[l])
      BY <1>1, <2>1 DEF TermsAgreed
    <2> QED
      BY <1>3, <2>1, <2>2
  <1>5. ASSUME NEW m \in Nodes, NEW i \in 1 .. Len(raftLog'[m])
        PROVE  /\ \E Q \in Quorums : \A q \in Q : raftLog'[m][i].term <= term'[q]
               /\ raftLog'[m][i].term <= term'[m]
               /\ \A j \in 1 .. i : raftLog'[m][j].term <= raftLog'[m][i].term
    <2>1. PICK s \in Nodes : CopyOf(m, s)
      BY DEF Calm
    <2>2. /\ Len(raftLog'[m]) \in Nat /\ Len(raftLog[s]) \in Nat /\ term'[m] \in Nat
          /\ term[s] \in Nat
      BY Shapes, ShapesThen
    <2>3. /\ i \in 1 .. Len(raftLog[s]) /\ raftLog'[m][i] = raftLog[s][i]
          /\ \A j \in 1 .. i : raftLog'[m][j] = raftLog[s][j]
      BY <2>1, <2>2 DEF CopyOf
    <2>4. /\ Agreed(raftLog[s][i].term) /\ raftLog[s][i].term <= term[s]
          /\ \A j \in 1 .. i : raftLog[s][j].term <= raftLog[s][i].term
      BY <1>1, <2>3 DEF TermsAgreed, TermsOrdered
    <2>5. raftLog[s][i].term \in Nat /\ term[s] <= term'[m]
      BY <2>1, <2>3, EntriesAre DEF CopyOf
    <2>6. raftLog[s][i].term <= term'[m]
      BY <2>2, <2>4, <2>5
    <2> QED
      BY <1>3, <2>3, <2>4, <2>5, <2>6
  <1>6. OneLeader'
    BY <1>1, <1>2 DEF OneLeader, LeadsOn
  <1> QED
    BY <1>4, <1>5, <1>6 DEF TermsAgreed, TermsOrdered, Agreed

(* An entry of a log after a calm step, and what is below it.              *)
LEMMA Copied ==
    ASSUME IInv, IInv', Calm, NEW m \in Nodes
    PROVE  \E s \in Nodes : \A i \in 1 .. Len(raftLog'[m]) :
              i \in 1 .. Len(raftLog[s]) /\ \A k \in 1 .. i : raftLog'[m][k] = raftLog[s][k]
  <1>1. PICK s \in Nodes : CopyOf(m, s)
    BY DEF Calm
  <1>2. Len(raftLog'[m]) \in Nat /\ Len(raftLog[s]) \in Nat
    BY Shapes, ShapesThen
  <1> QED
    BY <1>1, <1>2 DEF CopyOf

LEMMA CalmKeepsLogs ==
    ASSUME IInv, IInv', RaftOK, Calm
    PROVE  LogMatching' /\ LeaderHasTerm'
  <1>1. LogMatching /\ LeaderHasTerm
    BY DEF RaftOK
  <1>2. ASSUME NEW m \in Nodes, NEW n \in Nodes, NEW i \in 1 .. Len(raftLog'[m]),
               NEW j \in 1 .. Len(raftLog'[n]),
               i <= j, raftLog'[m][i].term = raftLog'[n][j].term
        PROVE  /\ i <= Len(raftLog'[m]) /\ i <= Len(raftLog'[n])
               /\ \A k \in 1 .. i : raftLog'[m][k] = raftLog'[n][k]
    <2>1. PICK s \in Nodes : \A x \in 1 .. Len(raftLog'[m]) :
              x \in 1 .. Len(raftLog[s]) /\ \A k \in 1 .. x : raftLog'[m][k] = raftLog[s][k]
      BY Copied
    <2>2. PICK t \in Nodes : \A x \in 1 .. Len(raftLog'[n]) :
              x \in 1 .. Len(raftLog[t]) /\ \A k \in 1 .. x : raftLog'[n][k] = raftLog[t][k]
      BY Copied
    <2>3. i \in Nat /\ j \in Nat /\ Len(raftLog'[m]) \in Nat /\ Len(raftLog'[n]) \in Nat
      BY ShapesThen
    <2>4. /\ i \in 1 .. Len(raftLog[s]) /\ j \in 1 .. Len(raftLog[t])
          /\ raftLog'[m][i] = raftLog[s][i] /\ raftLog'[n][j] = raftLog[t][j]
      BY <2>1, <2>2, <2>3
    <2>5. SameUpTo(s, t, i)
      BY <1>1, <1>2, <2>4 DEF LogMatching
    <2>6. \A k \in 1 .. i : /\ raftLog'[m][k] = raftLog[s][k] /\ raftLog'[n][k] = raftLog[t][k]
                            /\ raftLog[s][k] = raftLog[t][k]
      BY <1>2, <2>1, <2>2, <2>3, <2>5 DEF SameUpTo
    <2> QED
      BY <1>2, <2>3, <2>6
  <1>3. ASSUME NEW l \in Nodes, role'[l] = "leader", NEW m \in Nodes,
               NEW i \in 1 .. Len(raftLog'[m]), raftLog'[m][i].term = term'[l]
        PROVE  /\ i <= Len(raftLog'[m]) /\ i <= Len(raftLog'[l])
               /\ \A k \in 1 .. i : raftLog'[m][k] = raftLog'[l][k]
    <2>1. role[l] = "leader" /\ term'[l] = term[l] /\ raftLog'[l] = raftLog[l]
      BY <1>3 DEF Calm, LeadsOn
    <2>2. PICK s \in Nodes : \A x \in 1 .. Len(raftLog'[m]) :
              x \in 1 .. Len(raftLog[s]) /\ \A k \in 1 .. x : raftLog'[m][k] = raftLog[s][k]
      BY Copied
    <2>3. i \in Nat /\ Len(raftLog'[m]) \in Nat
      BY ShapesThen
    <2>4. i \in 1 .. Len(raftLog[s]) /\ raftLog'[m][i] = raftLog[s][i]
      BY <2>2, <2>3
    <2>5. SameUpTo(s, l, i)
      BY <1>1, <1>3, <2>1, <2>4 DEF LeaderHasTerm, HasTerm
    <2> QED
      BY <2>1, <2>2, <2>3, <2>5 DEF SameUpTo
  <1>4. LogMatching'
    BY <1>2 DEF LogMatching, SameUpTo
  <1>5. LeaderHasTerm'
    BY <1>3 DEF LeaderHasTerm, HasTerm, SameUpTo
  <1> QED
    BY <1>4, <1>5

LEMMA CalmKeepsCommitted ==
    ASSUME IInv, IInv', RaftOK, Calm
    PROVE  QuorumHolds' /\ LaterHold' /\ LeaderHolds'
  <1>1. QuorumHolds /\ LaterHold /\ LeaderHolds /\ committed' = committed /\ TermsGrow
    BY DEF RaftOK, Calm
  <1>2. ASSUME NEW c \in committed
        PROVE  \E Q \in Quorums : \A q \in Q :
                  /\ c.term <= term'[q]
                  /\ status'[q] = "up" =>
                        /\ 1 <= c.index /\ c.index <= Len(raftLog'[q])
                        /\ raftLog'[q][c.index] = c.entry
                        /\ \E i \in 1 .. Len(raftLog'[q]) :
                              c.index <= i /\ raftLog'[q][i].term = c.term
    <2>1. PICK Q \in Quorums : \A q \in Q : Keeps(q, c)
      BY <1>1 DEF QuorumHolds
    <2>2. \A q \in Q : q \in Nodes /\ (status'[q] = "up" => status[q] = "up" /\ Longer(q))
      BY DEF Quorums, Calm
    <2> QED
      BY <1>1, <2>1, <2>2, KeepsOn
  <1>3. ASSUME NEW c \in committed, NEW m \in Nodes, NEW i \in 1 .. Len(raftLog'[m]),
               raftLog'[m][i].term > c.term
        PROVE  /\ c.index < i /\ 1 <= c.index /\ c.index <= Len(raftLog'[m])
               /\ raftLog'[m][c.index] = c.entry
    <2>1. PICK s \in Nodes : \A x \in 1 .. Len(raftLog'[m]) :
              x \in 1 .. Len(raftLog[s]) /\ \A k \in 1 .. x : raftLog'[m][k] = raftLog[s][k]
      BY Copied
    <2>2. i \in Nat /\ Len(raftLog'[m]) \in Nat /\ c.index \in Nat
      BY ShapesThen, CommittedAre
    <2>3. i \in 1 .. Len(raftLog[s]) /\ raftLog'[m][i] = raftLog[s][i]
      BY <2>1, <2>2
    <2>4. c.index < i /\ Holds(s, c)
      BY <1>1, <1>3, <2>3 DEF LaterHold
    <2>5. 1 <= c.index /\ raftLog[s][c.index] = c.entry
      BY <2>4 DEF Holds
    <2>6. c.index \in 1 .. i /\ c.index <= Len(raftLog'[m])
      BY <2>2, <2>4, <2>5
    <2> QED
      BY <2>1, <2>4, <2>5, <2>6
  <1>4. ASSUME NEW c \in committed, NEW l \in Nodes, role'[l] = "leader", c.term <= term'[l]
        PROVE  1 <= c.index /\ c.index <= Len(raftLog'[l]) /\ raftLog'[l][c.index] = c.entry
    BY <1>1, <1>4 DEF Calm, LeadsOn, LeaderHolds, Holds
  <1>5. QuorumHolds'
    BY <1>1, <1>2 DEF QuorumHolds, Keeps, Holds
  <1>6. LaterHold'
    BY <1>1, <1>3 DEF LaterHold, Holds
  <1>7. LeaderHolds'
    BY <1>1, <1>4 DEF LeaderHolds, Holds
  <1> QED
    BY <1>5, <1>6, <1>7

-----------------------------------------------------------------------------
(* What a leader does to raft, an old one or a new one: it appends an      *)
(* entry of its own term, of which nobody has more.                        *)
Added(n, t, e) ==
    /\ raftLog' = [raftLog EXCEPT ![n] = Append(raftLog[n], e)]
    /\ e.term = t /\ term'[n] = t /\ HasTerm(n, t)
    /\ \E Q \in Quorums : \A q \in Q : t <= term'[q]
    /\ \A c \in committed : c.term <= t => Holds(n, c)
    /\ \A l \in Nodes \ {n} :
          role'[l] = "leader" => role[l] = "leader" /\ term'[l] = term[l] /\ term[l] # t
    /\ TermsGrow /\ status' = status /\ committed' = committed

LEMMA AddedIs ==
    ASSUME IInv, NEW n \in Nodes, NEW t \in 1 .. MaxTerm, NEW e \in Stores, Added(n, t, e)
    PROVE  /\ \A m \in Nodes : Longer(m) /\ Len(raftLog[m]) \in Nat
           /\ Len(raftLog'[n]) = Len(raftLog[n]) + 1
           /\ \A m \in Nodes \ {n} : raftLog'[m] = raftLog[m]
           /\ \A m \in Nodes : \A i \in 1 .. Len(raftLog'[m]) :
                 \/ i \in 1 .. Len(raftLog[m]) /\ raftLog'[m][i] = raftLog[m][i]
                 \/ m = n /\ i = Len(raftLog[n]) + 1 /\ raftLog'[m][i] = e
  <1>1. /\ Len(raftLog'[n]) = Len(raftLog[n]) + 1
        /\ raftLog'[n][Len(raftLog[n]) + 1] = e
        /\ \A m \in Nodes \ {n} : raftLog'[m] = raftLog[m]
        /\ \A m \in Nodes : Longer(m)
    BY OneLonger DEF Added
  <1>2. \A m \in Nodes : Len(raftLog[m]) \in Nat
    BY Shapes
  <1>3. ASSUME NEW m \in Nodes, NEW i \in 1 .. Len(raftLog'[m])
        PROVE  \/ i \in 1 .. Len(raftLog[m]) /\ raftLog'[m][i] = raftLog[m][i]
               \/ m = n /\ i = Len(raftLog[n]) + 1 /\ raftLog'[m][i] = e
    <2>1. CASE m # n
      BY <1>1, <2>1
    <2>2. CASE m = n
      <3>1. i \in 1 .. Len(raftLog[n]) \/ i = Len(raftLog[n]) + 1
        BY <1>1, <1>2, <2>2
      <3> QED
        BY <1>1, <2>2, <3>1 DEF Longer
    <2> QED
      BY <2>1, <2>2
  <1> QED
    BY <1>1, <1>2, <1>3

LEMMA AddedKeepsTerms ==
    ASSUME IInv, IInv', RaftOK, NEW n \in Nodes, NEW t \in 1 .. MaxTerm, NEW e \in Stores,
           Added(n, t, e)
    PROVE  TermsAgreed' /\ OneLeader' /\ TermsOrdered'
  <1>1. TermsAgreed /\ OneLeader /\ TermsOrdered
    BY DEF RaftOK
  <1>2. /\ TermsGrow /\ e.term = t /\ term'[n] = t
        /\ \E Q \in Quorums : \A q \in Q : t <= term'[q]
        /\ \A l \in Nodes \ {n} :
              role'[l] = "leader" => role[l] = "leader" /\ term'[l] = term[l] /\ term[l] # t
    BY DEF Added
  <1>3. \A x \in Nat : Agreed(x) => \E Q \in Quorums : \A q \in Q : x <= term'[q]
    BY <1>2, AgreedStays
  <1>4. ASSUME NEW l \in Nodes, role'[l] = "leader"
        PROVE  \E Q \in Quorums : \A q \in Q : term'[l] <= term'[q]
    <2>1. CASE l = n
      BY <1>2, <2>1
    <2>2. CASE l # n
      <3>1. role[l] = "leader" /\ term'[l] = term[l] /\ term[l] \in Nat
        BY <1>2, <1>4, <2>2, Shapes
      <3>2. Agreed(term[l])
        BY <1>1, <3>1 DEF TermsAgreed
      <3> QED
        BY <1>3, <3>1, <3>2
    <2> QED
      BY <2>1, <2>2
  <1>5. \A m \in Nodes : \A i \in 1 .. Len(raftLog'[m]) :
            \/ i \in 1 .. Len(raftLog[m]) /\ raftLog'[m][i] = raftLog[m][i]
            \/ m = n /\ i = Len(raftLog[n]) + 1 /\ raftLog'[m][i] = e
    BY AddedIs
  <1>6. ASSUME NEW m \in Nodes, NEW i \in 1 .. Len(raftLog'[m])
        PROVE  /\ \E Q \in Quorums : \A q \in Q : raftLog'[m][i].term <= term'[q]
               /\ raftLog'[m][i].term <= term'[m]
               /\ \A j \in 1 .. i : raftLog'[m][j].term <= raftLog'[m][i].term
    <2>1. \A j \in 1 .. Len(raftLog[m]) :
              /\ raftLog[m][j].term \in Nat /\ raftLog[m][j].term <= term'[m]
              /\ raftLog'[m][j] = raftLog[m][j]
      <3>1. TAKE j \in 1 .. Len(raftLog[m])
      <3>2. raftLog[m][j].term \in Nat /\ raftLog[m][j].term <= term[m]
        BY <1>1, EntriesAre DEF TermsOrdered
      <3>3. term[m] \in Nat /\ term'[m] \in Nat /\ term[m] <= term'[m]
        BY <1>2, Shapes, ShapesThen DEF TermsGrow
      <3>4. Longer(m)
        BY AddedIs
      <3> QED
        BY <3>2, <3>3, <3>4 DEF Longer
    <2>2. CASE i \in 1 .. Len(raftLog[m]) /\ raftLog'[m][i] = raftLog[m][i]
      <3>1. /\ Agreed(raftLog[m][i].term)
            /\ \A j \in 1 .. i : raftLog[m][j].term <= raftLog[m][i].term
        BY <1>1, <2>2 DEF TermsAgreed, TermsOrdered
      <3>2. Len(raftLog[m]) \in Nat /\ \A j \in 1 .. i : raftLog'[m][j] = raftLog[m][j]
        BY <2>1, <2>2, Shapes
      <3> QED
        BY <1>3, <2>1, <2>2, <3>1, <3>2
    <2>3. CASE m = n /\ i = Len(raftLog[n]) + 1 /\ raftLog'[m][i] = e
      <3>1. Len(raftLog[n]) \in Nat /\ t \in Nat
        BY Shapes, ReplicationAssumption
      <3>2. ASSUME NEW j \in 1 .. i PROVE raftLog'[m][j].term <= t
        <4>1. CASE j \in 1 .. Len(raftLog[m])
          <5>1. raftLog'[m][j] = raftLog[m][j] /\ raftLog[m][j].term <= term'[m]
            BY <2>1, <4>1
          <5> QED
            BY <1>2, <2>3, <5>1
        <4>2. CASE j = i
          BY <1>2, <2>3, <3>1, <4>2
        <4> QED
          BY <2>3, <3>1, <4>1, <4>2
      <3>3. \A j \in 1 .. i : raftLog'[m][j].term <= t
        BY <3>2
      <3> QED
        BY <1>2, <2>3, <3>1, <3>3
    <2> QED
      BY <1>5, <2>2, <2>3
  <1>7. OneLeader'
    <2> SUFFICES ASSUME NEW l \in Nodes, NEW m \in Nodes, role'[l] = "leader",
                        role'[m] = "leader", term'[l] = term'[m]
                 PROVE  l = m
      BY DEF OneLeader
    <2> QED
      BY <1>1, <1>2 DEF OneLeader
  <1> QED
    BY <1>4, <1>6, <1>7 DEF TermsAgreed, TermsOrdered, Agreed

LEMMA AddedKeepsLogs ==
    ASSUME IInv, IInv', RaftOK, NEW n \in Nodes, NEW t \in 1 .. MaxTerm, NEW e \in Stores,
           Added(n, t, e)
    PROVE  LogMatching' /\ LeaderHasTerm'
  <1> DEFINE last == Len(raftLog[n]) + 1
  <1>1. LogMatching /\ LeaderHasTerm /\ HasTerm(n, t) /\ e.term = t /\ term'[n] = t
    BY DEF RaftOK, Added
  <1>2. /\ \A m \in Nodes : Longer(m) /\ Len(raftLog[m]) \in Nat
        /\ Len(raftLog'[n]) = last /\ \A m \in Nodes \ {n} : raftLog'[m] = raftLog[m]
        /\ \A m \in Nodes : \A i \in 1 .. Len(raftLog'[m]) :
              \/ i \in 1 .. Len(raftLog[m]) /\ raftLog'[m][i] = raftLog[m][i]
              \/ m = n /\ i = last /\ raftLog'[m][i] = e
    BY AddedIs
  <1>3. last \in Nat /\ \A m \in Nodes : Len(raftLog'[m]) \in Nat
    BY <1>2, ShapesThen
  <1> HIDE DEF last
  (* What two logs shared they share still. *)
  <1>4. ASSUME NEW m \in Nodes, NEW x \in Nodes, NEW i \in Nat, SameUpTo(m, x, i)
        PROVE  /\ i <= Len(raftLog'[m]) /\ i <= Len(raftLog'[x])
               /\ \A k \in 1 .. i : raftLog'[m][k] = raftLog'[x][k]
    BY <1>2, <1>3, <1>4 DEF SameUpTo, Longer
  <1>5. ASSUME NEW m \in Nodes, NEW i \in 1 .. Len(raftLog[m]), raftLog[m][i].term = t
        PROVE  /\ i <= Len(raftLog'[m]) /\ i <= Len(raftLog'[n])
               /\ \A k \in 1 .. i : raftLog'[m][k] = raftLog'[n][k]
    <2>1. SameUpTo(m, n, i) /\ i \in Nat
      BY <1>1, <1>5, EntriesAre DEF HasTerm
    <2> QED
      BY <1>4, <2>1
  <1>6. ASSUME NEW m \in Nodes, NEW x \in Nodes, NEW i \in 1 .. Len(raftLog'[m]),
               NEW j \in 1 .. Len(raftLog'[x]),
               i <= j, raftLog'[m][i].term = raftLog'[x][j].term
        PROVE  /\ i <= Len(raftLog'[m]) /\ i <= Len(raftLog'[x])
               /\ \A k \in 1 .. i : raftLog'[m][k] = raftLog'[x][k]
    <2>1. i \in Nat /\ j \in Nat
      BY <1>3
    <2>2. CASE m = n /\ i = last /\ raftLog'[m][i] = e
      <3>1. CASE x = n
        BY <1>2, <1>3, <1>6, <2>1, <2>2, <3>1
      <3>2. CASE x # n
        <4>1. j \in 1 .. Len(raftLog[x]) /\ raftLog[x][j].term = t
          BY <1>1, <1>2, <1>6, <2>2, <3>2
        <4>2. SameUpTo(x, n, j)
          BY <1>1, <4>1 DEF HasTerm
        <4>3. j <= Len(raftLog[n]) /\ Len(raftLog[n]) \in Nat /\ last = Len(raftLog[n]) + 1
          BY <1>2, <4>2 DEF SameUpTo, last
        <4> QED
          BY <1>6, <2>1, <2>2, <4>3
      <3> QED
        BY <3>1, <3>2
    <2>3. CASE i \in 1 .. Len(raftLog[m]) /\ raftLog'[m][i] = raftLog[m][i]
      <3>1. CASE j \in 1 .. Len(raftLog[x]) /\ raftLog'[x][j] = raftLog[x][j]
        <4>1. SameUpTo(m, x, i)
          BY <1>1, <1>6, <2>3, <3>1 DEF LogMatching
        <4> QED
          BY <1>4, <2>1, <4>1
      <3>2. CASE x = n /\ j = last /\ raftLog'[x][j] = e
        <4>1. raftLog[m][i].term = t
          BY <1>1, <1>6, <2>3, <3>2
        <4> QED
          BY <1>5, <2>3, <3>2, <4>1
      <3> QED
        BY <1>2, <3>1, <3>2
    <2> QED
      BY <1>2, <2>2, <2>3
  <1>7. ASSUME NEW l \in Nodes, role'[l] = "leader", NEW m \in Nodes,
               NEW i \in 1 .. Len(raftLog'[m]), raftLog'[m][i].term = term'[l]
        PROVE  /\ i <= Len(raftLog'[m]) /\ i <= Len(raftLog'[l])
               /\ \A k \in 1 .. i : raftLog'[m][k] = raftLog'[l][k]
    <2>1. i \in Nat /\ i <= Len(raftLog'[m])
      BY <1>3
    <2>2. CASE l = n
      <3>1. CASE i \in 1 .. Len(raftLog[m]) /\ raftLog'[m][i] = raftLog[m][i]
        BY <1>1, <1>5, <1>7, <2>2, <3>1
      <3>2. CASE m = n /\ i = last
        BY <1>2, <2>1, <2>2, <3>2
      <3> QED
        BY <1>2, <3>1, <3>2
    <2>3. CASE l # n
      <3>1. role[l] = "leader" /\ term'[l] = term[l] /\ term[l] # t
        BY <1>7, <2>3 DEF Added
      <3>2. i \in 1 .. Len(raftLog[m]) /\ raftLog'[m][i] = raftLog[m][i]
        BY <1>1, <1>2, <1>7, <3>1
      <3>3. SameUpTo(m, l, i)
        BY <1>1, <1>7, <3>1, <3>2 DEF LeaderHasTerm, HasTerm
      <3> QED
        BY <1>4, <2>1, <3>3
    <2> QED
      BY <2>2, <2>3
  <1>8. LogMatching'
    BY <1>6 DEF LogMatching, SameUpTo
  <1>9. LeaderHasTerm'
    BY <1>7 DEF LeaderHasTerm, HasTerm, SameUpTo
  <1> QED
    BY <1>8, <1>9

LEMMA AddedKeepsCommitted ==
    ASSUME IInv, IInv', RaftOK, NEW n \in Nodes, NEW t \in 1 .. MaxTerm, NEW e \in Stores,
           Added(n, t, e)
    PROVE  QuorumHolds' /\ LaterHold' /\ LeaderHolds'
  <1>1. /\ QuorumHolds /\ LaterHold /\ LeaderHolds /\ committed' = committed /\ TermsGrow
        /\ status' = status /\ e.term = t /\ term'[n] = t
        /\ \A c \in committed : c.term <= t => Holds(n, c)
    BY DEF RaftOK, Added
  <1>2. /\ \A m \in Nodes : Longer(m) /\ Len(raftLog[m]) \in Nat
        /\ \A m \in Nodes : \A i \in 1 .. Len(raftLog'[m]) :
              \/ i \in 1 .. Len(raftLog[m]) /\ raftLog'[m][i] = raftLog[m][i]
              \/ m = n /\ i = Len(raftLog[n]) + 1 /\ raftLog'[m][i] = e
    BY AddedIs
  <1>3. t \in Nat /\ \A m \in Nodes : Len(raftLog'[m]) \in Nat
    BY ShapesThen, ReplicationAssumption
  <1>4. ASSUME NEW m \in Nodes, NEW c \in committed, Holds(m, c)
        PROVE  1 <= c.index /\ c.index <= Len(raftLog'[m]) /\ raftLog'[m][c.index] = c.entry
    <2>1. c.index \in Nat
      BY CommittedAre
    <2>2. c.index \in 1 .. Len(raftLog[m]) /\ raftLog[m][c.index] = c.entry
      BY <1>2, <1>4, <2>1 DEF Holds
    <2> QED
      BY <1>2, <1>3, <2>1, <2>2 DEF Longer
  <1>5. ASSUME NEW c \in committed
        PROVE  \E Q \in Quorums : \A q \in Q :
                  /\ c.term <= term'[q]
                  /\ status'[q] = "up" =>
                        /\ 1 <= c.index /\ c.index <= Len(raftLog'[q])
                        /\ raftLog'[q][c.index] = c.entry
                        /\ \E i \in 1 .. Len(raftLog'[q]) :
                              c.index <= i /\ raftLog'[q][i].term = c.term
    <2>1. PICK Q \in Quorums : \A q \in Q : Keeps(q, c)
      BY <1>1 DEF QuorumHolds
    <2>2. \A q \in Q : q \in Nodes /\ (status'[q] = "up" => status[q] = "up" /\ Longer(q))
      BY <1>1, <1>2 DEF Quorums
    <2> QED
      BY <1>1, <2>1, <2>2, KeepsOn
  <1>6. ASSUME NEW c \in committed, NEW m \in Nodes, NEW i \in 1 .. Len(raftLog'[m]),
               raftLog'[m][i].term > c.term
        PROVE  /\ c.index < i /\ 1 <= c.index /\ c.index <= Len(raftLog'[m])
               /\ raftLog'[m][c.index] = c.entry
    <2>1. c.index \in Nat /\ c.term \in Nat
      BY CommittedAre
    <2>2. CASE i \in 1 .. Len(raftLog[m]) /\ raftLog'[m][i] = raftLog[m][i]
      <3>1. c.index < i /\ Holds(m, c)
        BY <1>1, <1>6, <2>2 DEF LaterHold
      <3> QED
        BY <1>4, <3>1
    <2>3. CASE m = n /\ i = Len(raftLog[n]) + 1 /\ raftLog'[m][i] = e
      <3>1. Holds(n, c)
        BY <1>1, <1>3, <1>6, <2>1, <2>3
      <3>2. c.index <= Len(raftLog[n]) /\ Len(raftLog[n]) \in Nat
        BY <1>2, <3>1 DEF Holds
      <3>3. c.index < i
        BY <2>1, <2>3, <3>2
      <3> QED
        BY <1>4, <2>3, <3>1, <3>3
    <2> QED
      BY <1>2, <2>2, <2>3
  <1>7. ASSUME NEW c \in committed, NEW l \in Nodes, role'[l] = "leader", c.term <= term'[l]
        PROVE  1 <= c.index /\ c.index <= Len(raftLog'[l]) /\ raftLog'[l][c.index] = c.entry
    <2>1. CASE l = n
      BY <1>1, <1>4, <1>7, <2>1
    <2>2. CASE l # n
      <3>1. role[l] = "leader" /\ term'[l] = term[l]
        BY <1>7, <2>2 DEF Added
      <3>2. Holds(l, c)
        BY <1>1, <1>7, <3>1 DEF LeaderHolds
      <3> QED
        BY <1>4, <3>2
    <2> QED
      BY <2>1, <2>2
  <1>8. QuorumHolds'
    BY <1>1, <1>5 DEF QuorumHolds, Keeps, Holds
  <1>9. LaterHold'
    BY <1>1, <1>6 DEF LaterHold, Holds
  <1>10. LeaderHolds'
    BY <1>1, <1>7 DEF LeaderHolds, Holds
  <1> QED
    BY <1>8, <1>9, <1>10

-----------------------------------------------------------------------------
(* What a leader commits: the entries up to the index that it found on a   *)
(* quorum of its own term.                                                 *)
CommittedBy(l, index) ==
    {[index |-> i, entry |-> raftLog[l][i], term |-> term[l]] : i \in commit[l] + 1 .. index}

LEMMA CommittedByIs ==
    ASSUME IInv, RaftOK, NEW l \in Nodes, NEW index \in 1 .. MaxIndex, Commit(l, index)
    PROVE  /\ committed' = committed \cup CommittedBy(l, index)
           /\ index \in 1 .. Len(raftLog[l])
           /\ \A c \in CommittedBy(l, index) :
                 /\ c.index \in 1 .. index /\ commit[l] < c.index /\ c.term = term[l]
                 /\ c.entry = raftLog[l][c.index] /\ Holds(l, c)
           /\ \E Q \in Quorums : \A q \in Q :
                 /\ q \in Nodes /\ term[q] = term[l] /\ index \in 1 .. Len(raftLog[q])
                 /\ raftLog[q][index].term = term[l]
                 /\ \A k \in 1 .. index : raftLog[q][k] = raftLog[l][k]
  <1>1. /\ committed' = committed \cup CommittedBy(l, index)
        /\ index <= Len(raftLog[l]) /\ raftLog[l][index].term = term[l]
    BY DEF Commit, CommittedBy, LastIndex
  <1>2. index \in Nat /\ 1 <= index /\ commit[l] \in Nat /\ Len(raftLog[l]) \in Nat
    BY Shapes, ReplicationAssumption
  <1>3. index \in 1 .. Len(raftLog[l])
    BY <1>1, <1>2
  <1>4. ASSUME NEW c \in CommittedBy(l, index)
        PROVE  /\ c.index \in 1 .. index /\ commit[l] < c.index /\ c.term = term[l]
               /\ c.entry = raftLog[l][c.index] /\ Holds(l, c)
    <2>1. PICK i \in commit[l] + 1 .. index :
              c = [index |-> i, entry |-> raftLog[l][i], term |-> term[l]]
      BY DEF CommittedBy
    <2>2. i \in 1 .. index /\ commit[l] < i /\ 1 <= i /\ i <= Len(raftLog[l])
      BY <1>1, <1>2
    <2>3. c.index = i /\ c.entry = raftLog[l][i] /\ c.term = term[l]
      BY <2>1
    <2> QED
      BY <2>2, <2>3 DEF Holds
  <1>5. PICK Q \in Quorums : \A q \in Q :
            /\ term[q] = term[l]
            /\ index <= Len(raftLog[q]) /\ raftLog[q][index] = raftLog[l][index]
    BY DEF Commit, LastIndex
  <1>6. ASSUME NEW q \in Q
        PROVE  /\ q \in Nodes /\ term[q] = term[l] /\ index \in 1 .. Len(raftLog[q])
               /\ raftLog[q][index].term = term[l]
               /\ \A k \in 1 .. index : raftLog[q][k] = raftLog[l][k]
    <2>1. q \in Nodes
      BY DEF Quorums
    <2>2. index \in 1 .. Len(raftLog[q])
      BY <1>2, <1>5, <2>1, Shapes
    <2>3. SameUpTo(q, l, index)
      BY <1>2, <1>3, <1>5, <2>1, <2>2 DEF RaftOK, LogMatching
    <2> QED
      BY <1>1, <1>5, <2>1, <2>2, <2>3 DEF SameUpTo
  <1> QED
    BY <1>1, <1>3, <1>4, <1>5, <1>6

(* While a quorum is in this term, nobody leads a later one, and no entry  *)
(* or commitment of a later one exists.                                    *)
LEMMA NoneLater ==
    ASSUME IInv, RaftOK, NEW Q \in Quorums, NEW t \in Nat, \A q \in Q : term[q] = t
    PROVE  /\ \A l \in Nodes : role[l] = "leader" => term[l] <= t
           /\ \A m \in Nodes : \A i \in 1 .. Len(raftLog[m]) : raftLog[m][i].term <= t
           /\ \A c \in committed : c.term <= t
  <1>1. TermsAgreed /\ QuorumHolds
    BY DEF RaftOK
  <1>2. ASSUME NEW x \in Nat, Agreed(x) PROVE x <= t
    <2>1. x <= t \/ \A q \in Q : term[q] < x
      OBVIOUS
    <2> QED
      BY <1>2, <2>1, NotAgreed
  <1>3. ASSUME NEW l \in Nodes, role[l] = "leader" PROVE term[l] <= t
    BY <1>1, <1>2, <1>3, Shapes DEF TermsAgreed
  <1>4. ASSUME NEW m \in Nodes, NEW i \in 1 .. Len(raftLog[m])
        PROVE  raftLog[m][i].term <= t
    BY <1>1, <1>2, EntriesAre DEF TermsAgreed
  <1>5. ASSUME NEW c \in committed PROVE c.term <= t
    <2>1. c.term \in Nat
      BY CommittedAre
    <2>2. Agreed(c.term)
      BY <1>1 DEF QuorumHolds, Keeps, Agreed
    <2> QED
      BY <1>2, <2>1, <2>2
  <1> QED
    BY <1>3, <1>4, <1>5

LEMMA CommitKeepsRaft ==
    ASSUME IInv, RaftOK, NEW l \in Nodes, NEW index \in 1 .. MaxIndex, Commit(l, index)
    PROVE  RaftOK'
  <1>1. /\ UNCHANGED <<raftLog, term, role, status>> /\ role[l] = "leader"
    BY DEF Commit
  <1>2. /\ TermsAgreed /\ OneLeader /\ TermsOrdered /\ LogMatching /\ LeaderHasTerm
        /\ QuorumHolds /\ LaterHold /\ LeaderHolds
    BY DEF RaftOK
  <1>3. /\ TermsAgreed' /\ OneLeader' /\ TermsOrdered' /\ LogMatching' /\ LeaderHasTerm'
    <2>1. TermsAgreed'
      BY <1>1, <1>2 DEF TermsAgreed, Agreed
    <2>2. OneLeader' /\ TermsOrdered'
      BY <1>1, <1>2 DEF OneLeader, TermsOrdered
    <2>3. \A m, n, i : SameUpTo(m, n, i)' = SameUpTo(m, n, i)
      BY <1>1 DEF SameUpTo
    <2>4. LogMatching'
      BY <1>1, <1>2, <2>3 DEF LogMatching
    <2>5. LeaderHasTerm'
      BY <1>1, <1>2, <2>3 DEF LeaderHasTerm, HasTerm
    <2> QED
      BY <2>1, <2>2, <2>4, <2>5
  <1> DEFINE new == CommittedBy(l, index)
  <1>4. /\ committed' = committed \cup new
        /\ \A c \in new :
              /\ c.index \in 1 .. index /\ c.term = term[l]
              /\ c.entry = raftLog[l][c.index] /\ Holds(l, c)
    BY CommittedByIs
  <1>5. PICK Q \in Quorums : \A q \in Q :
            /\ q \in Nodes /\ term[q] = term[l] /\ index \in 1 .. Len(raftLog[q])
            /\ raftLog[q][index].term = term[l]
            /\ \A k \in 1 .. index : raftLog[q][k] = raftLog[l][k]
    BY CommittedByIs
  <1>6. term[l] \in Nat
    BY Shapes
  <1>7. /\ \A n \in Nodes : role[n] = "leader" => term[n] <= term[l]
        /\ \A m \in Nodes : \A i \in 1 .. Len(raftLog[m]) : raftLog[m][i].term <= term[l]
    BY <1>5, <1>6, NoneLater
  <1> HIDE DEF new
  <1>8. ASSUME NEW c \in new, NEW q \in Q
        PROVE  Keeps(q, c)
    <2>1. /\ c.index \in 1 .. index /\ c.term = term[l] /\ c.entry = raftLog[l][c.index]
      BY <1>4
    <2>2. /\ q \in Nodes /\ term[q] = term[l] /\ index \in 1 .. Len(raftLog[q])
          /\ raftLog[q][index].term = term[l]
          /\ raftLog[q][c.index] = raftLog[l][c.index]
      BY <1>5, <2>1
    <2>3. Len(raftLog[q]) \in Nat
      BY <2>2, Shapes
    <2>4. c.index <= index /\ 1 <= c.index /\ c.index <= Len(raftLog[q])
      BY <2>1, <2>2, <2>3
    <2>5. Holds(q, c)
      BY <2>1, <2>2, <2>4 DEF Holds
    <2> QED
      BY <1>6, <2>1, <2>2, <2>4, <2>5 DEF Keeps
  <1>9. \A c \in committed \cup new : \E P \in Quorums : \A q \in P : Keeps(q, c)
    BY <1>2, <1>8 DEF QuorumHolds
  <1>10. ASSUME NEW c \in new, NEW m \in Nodes, NEW i \in 1 .. Len(raftLog[m]),
                raftLog[m][i].term > c.term
         PROVE  FALSE
    <2>1. raftLog[m][i].term <= term[l] /\ c.term = term[l] /\ raftLog[m][i].term \in Nat
      BY <1>4, <1>7, EntriesAre
    <2> QED
      BY <1>6, <1>10, <2>1
  <1>11. ASSUME NEW c \in new, NEW n \in Nodes, role[n] = "leader", c.term <= term[n]
         PROVE  Holds(n, c)
    <2>1. term[n] <= term[l] /\ c.term = term[l] /\ term[n] \in Nat
      BY <1>4, <1>7, <1>11, Shapes
    <2>2. term[n] = term[l]
      BY <1>6, <1>11, <2>1
    <2>3. n = l
      BY <1>1, <1>2, <1>11, <2>2 DEF OneLeader
    <2> QED
      BY <1>4, <2>3
  <1>12. QuorumHolds'
    BY <1>1, <1>4, <1>9 DEF QuorumHolds, Keeps, Holds
  <1>13. LaterHold'
    BY <1>1, <1>2, <1>4, <1>10 DEF LaterHold, Holds
  <1>14. LeaderHolds'
    BY <1>1, <1>2, <1>4, <1>11 DEF LeaderHolds, Holds
  <1> QED
    BY <1>3, <1>12, <1>13, <1>14 DEF RaftOK

-----------------------------------------------------------------------------
LEMMA RaftInitially == Init => RaftOK
  <1> SUFFICES ASSUME Init PROVE RaftOK
    OBVIOUS
  <1> DEFINE e == Entry(1, "config", NoRecord)
             c == [index |-> 1, entry |-> e, term |-> 1]
  <1>1. \A n \in Nodes :
            /\ term[n] = 1 /\ role[n] = (IF n = First THEN "leader" ELSE "follower")
            /\ raftLog[n] = <<e>> /\ Len(raftLog[n]) = 1 /\ raftLog[n][1] = e
    BY DEF Init
  <1>2. committed = {c} /\ e.term = 1 /\ c.index = 1 /\ c.entry = e /\ c.term = 1
    BY DEF Init, Entry
  <1> HIDE DEF e, c
  <1>3. 1 .. 1 = {1}
    OBVIOUS
  <1>4. \A n \in Nodes : \A i \in 1 .. Len(raftLog[n]) : i = 1 /\ raftLog[n][i].term = 1
    BY <1>1, <1>2, <1>3
  <1>5. Nodes \in Quorums
    <2>1. Cardinality(Nodes) \in Nat /\ Cardinality(Nodes) # 0
      BY ReplicationAssumption, FS_CardinalityType, FS_EmptySet
    <2>2. 2 * Cardinality(Nodes) > Cardinality(Nodes)
      BY <2>1
    <2> QED
      BY <2>2 DEF Quorums
  <1>6. Agreed(1)
    BY <1>1, <1>5 DEF Agreed
  <1>7. TermsAgreed
    BY <1>1, <1>4, <1>6 DEF TermsAgreed
  <1>8. OneLeader /\ TermsOrdered
    BY <1>1, <1>3, <1>4 DEF OneLeader, TermsOrdered
  <1>9. \A m, n \in Nodes : SameUpTo(m, n, 1)
    BY <1>1, <1>3 DEF SameUpTo
  <1>10. LogMatching /\ LeaderHasTerm
    BY <1>4, <1>9 DEF LogMatching, LeaderHasTerm, HasTerm
  <1>11. \A n \in Nodes : Holds(n, c) /\ Keeps(n, c)
    BY <1>1, <1>2, <1>3 DEF Holds, Keeps
  <1>12. QuorumHolds /\ LaterHold /\ LeaderHolds
    BY <1>2, <1>4, <1>5, <1>11 DEF QuorumHolds, LaterHold, LeaderHolds
  <1> QED
    BY <1>7, <1>8, <1>10, <1>12 DEF RaftOK

(* The raft logs stay as they are.                                         *)
LEMMA CalmWithLogs ==
    ASSUME IInv, UNCHANGED <<raftLog, committed, status>>, TermsGrow,
           \A l \in Nodes : role'[l] = "leader" => role[l] = "leader" /\ term'[l] = term[l]
    PROVE  Calm
  <1>1. \A m \in Nodes : Len(raftLog[m]) \in Nat
    BY Shapes
  <1>2. \A m \in Nodes : CopyOf(m, m) /\ Longer(m)
    BY <1>1 DEF CopyOf, Longer, TermsGrow
  <1> QED
    BY <1>2 DEF Calm, LeadsOn

LEMMA StepDownCalm ==
    ASSUME IInv, NEW n \in Nodes, StepDown(n)
    PROVE  Calm
  <1>1. /\ role' = [role EXCEPT ![n] = "follower"]
        /\ UNCHANGED <<raftLog, committed, status, term>>
    BY DEF StepDown, history
  <1>2. \A m \in Nodes : term[m] \in Nat
    BY Shapes
  <1>3. role \in [Nodes -> {"leader", "follower"}]
    BY DEF IInv, TypeOK
  <1> QED
    BY <1>1, <1>2, <1>3, CalmWithLogs DEF TermsGrow

LEMMA SameRaftCalm ==
    ASSUME IInv, UNCHANGED <<raftLog, committed, status, term, role>>
    PROVE  Calm
  <1>1. \A m \in Nodes : term[m] \in Nat
    BY Shapes
  <1> QED
    BY <1>1, CalmWithLogs DEF TermsGrow

LEMMA FollowTerms ==
    ASSUME IInv, NEW l \in Nodes, NEW f \in Nodes, Replicates(l, f), Follow(l, f)
    PROVE  /\ TermsGrow /\ term'[f] = term[l]
           /\ \A m \in Nodes : role'[m] = "leader" =>
                 m # f /\ role[m] = "leader" /\ term'[m] = term[m]
  <1>1. /\ term' = [term EXCEPT ![f] = term[l]] /\ role' = [role EXCEPT ![f] = "follower"]
        /\ term[f] <= term[l]
    BY DEF Follow, Replicates
  <1>2. term \in [Nodes -> 1 .. MaxTerm] /\ role \in [Nodes -> {"leader", "follower"}]
    BY DEF IInv, TypeOK
  <1>3. \A m \in Nodes : term[m] \in Nat
    BY Shapes
  <1> QED
    BY <1>1, <1>2, <1>3 DEF TermsGrow

(* What a follower has of the leader's log is up to the entry where the    *)
(* terms match the leader's.                                               *)
LEMMA MatchingSame ==
    ASSUME IInv, LogMatching, NEW l \in Nodes, NEW f \in Nodes
    PROVE  LET prev == Matching(raftLog[l], raftLog[f])
           IN  prev \in Nat /\ SameUpTo(f, l, prev)
  <1> DEFINE mine == raftLog[l]
             yours == raftLog[f]
             common == {i \in DOMAIN mine \cap DOMAIN yours : mine[i].term = yours[i].term}
             S == common \cup {0}
             prev == Matching(raftLog[l], raftLog[f])
  <1>1. /\ DOMAIN mine = 1 .. Len(mine) /\ DOMAIN yours = 1 .. Len(yours)
        /\ Len(mine) \in Nat /\ Len(yours) \in Nat
    BY Shapes
  <1>2. S \subseteq Nat /\ S # {} /\ \A x \in S : x <= Len(mine) /\ x <= Len(yours)
    BY <1>1
  <1>3. \E t \in S : \A x \in S : x <= t
    <2> HIDE DEF S
    <2> QED
      BY <1>1, <1>2, GreatestIs
  <1>4. prev \in S
    BY <1>3 DEF Matching
  <1>5. CASE prev = 0
    BY <1>1, <1>5 DEF SameUpTo
  <1>6. CASE prev # 0
    <2>1. /\ prev \in 1 .. Len(raftLog[l]) /\ prev \in 1 .. Len(raftLog[f])
          /\ raftLog[f][prev].term = raftLog[l][prev].term /\ prev \in Nat
      BY <1>1, <1>4, <1>6
    <2> HIDE DEF prev
    <2>2. prev <= prev
      BY <2>1
    <2>3. SameUpTo(f, l, prev)
      BY <2>1, <2>2 DEF LogMatching
    <2> QED
      BY <2>1, <2>3 DEF prev
  <1> QED
    BY <1>5, <1>6

LEMMA ReplicateCalm ==
    ASSUME IInv, LogMatching, NEW l \in Nodes, NEW f \in Nodes, Replicate(l, f)
    PROVE  Calm
  <1> DEFINE prev == Matching(raftLog[l], raftLog[f])
             e == raftLog[l][prev + 1]
  <1>1. prev \in Nat /\ SameUpTo(f, l, prev)
    BY MatchingSame
  <1>2. prev + 1 \in 1 .. Len(raftLog[l]) /\ e \in Stores
    BY SentIs
  <1>3. /\ Replicates(l, f) /\ Follow(l, f) /\ ~ Panics(l, f)
        /\ raftLog' = [raftLog EXCEPT ![f] = Append(Stored(l, f), e)]
        /\ UNCHANGED <<recordLog, commit, applied, status, restarts, history>>
    BY DEF Replicate, StoreLog, GetLog
  <1>4. Stored(l, f) = raftLog[f] /\ Len(raftLog[f]) \in Nat /\ Len(raftLog[f]) <= prev
    <2>1. Stored(l, f) = raftLog[f] /\ Len(raftLog[f]) \in Nat
      BY <1>3, StoredIs, Shapes
    <2>2. ASSUME Len(raftLog[f]) > prev PROVE FALSE
      <3>1. Stored(l, f) = SubSeq(raftLog[f], Len(raftLog[f]) + 1, Len(raftLog[f]))
        BY <2>2 DEF Stored, DeleteRange, LastIndex
      <3>2. SubSeq(raftLog[f], Len(raftLog[f]) + 1, Len(raftLog[f])) = <<>>
        BY <2>1, Shapes
      <3>3. Len(raftLog[f]) = 0
        BY <2>1, <3>1, <3>2
      <3> QED
        BY <1>1, <2>2, <3>3
    <2> QED
      BY <1>1, <2>1, <2>2
  <1> HIDE DEF e, prev
  <1>5. raftLog' = [raftLog EXCEPT ![f] = Append(raftLog[f], e)]
    BY <1>3, <1>4
  <1>6. Len(raftLog[f]) = prev
    BY <1>1, <1>4 DEF SameUpTo
  <1>7. /\ Len(raftLog'[f]) = prev + 1 /\ raftLog'[f][prev + 1] = e
        /\ \A m \in Nodes \ {f} : raftLog'[m] = raftLog[m]
        /\ \A m \in Nodes : Longer(m)
    BY <1>2, <1>5, <1>6, OneLonger
  <1>8. /\ TermsGrow /\ term'[f] = term[l]
        /\ \A m \in Nodes : role'[m] = "leader" =>
              m # f /\ role[m] = "leader" /\ term'[m] = term[m]
    BY <1>3, FollowTerms
  <1>9. CopyOf(f, l)
    <2>1. Len(raftLog[l]) \in Nat /\ term[l] \in Nat
      BY Shapes
    <2>2. term[l] <= term'[f] /\ Len(raftLog'[f]) <= Len(raftLog[l])
      BY <1>2, <1>7, <1>8, <2>1
    <2>3. ASSUME NEW k \in 1 .. Len(raftLog'[f])
          PROVE  raftLog'[f][k] = raftLog[l][k]
      <3>1. CASE k = prev + 1
        BY <1>7, <3>1 DEF e
      <3>2. CASE k # prev + 1
        <4>1. k \in 1 .. prev
          BY <1>1, <1>7, <3>2
        <4>2. raftLog'[f][k] = raftLog[f][k] /\ raftLog[f][k] = raftLog[l][k]
          BY <1>1, <1>6, <1>7, <4>1 DEF Longer, SameUpTo
        <4> QED
          BY <4>2
      <3> QED
        BY <3>1, <3>2
    <2> QED
      BY <2>2, <2>3 DEF CopyOf
  <1>10. \A m \in Nodes \ {f} : CopyOf(m, m)
    <2>1. \A m \in Nodes : Len(raftLog[m]) \in Nat
      BY Shapes
    <2> QED
      BY <1>7, <1>8, <2>1 DEF CopyOf, TermsGrow
  <1>11. committed' = committed /\ status' = status
    BY <1>3 DEF history
  <1> QED
    BY <1>7, <1>8, <1>9, <1>10, <1>11 DEF Calm, LeadsOn

LEMMA ReplicatePanicCalm ==
    ASSUME IInv, NEW l \in Nodes, NEW f \in Nodes, ReplicatePanic(l, f)
    PROVE  Calm
  <1>1. /\ Replicates(l, f) /\ Follow(l, f) /\ committed' = committed
        /\ raftLog' = [raftLog EXCEPT ![f] = <<>>]
        /\ status' = [status EXCEPT ![f] = "panicked"]
    BY DEF ReplicatePanic, history
  <1>2. raftLog \in [Nodes -> Seq(Stores)] /\ status \in [Nodes -> {"up", "closed", "panicked"}]
    BY DEF IInv, TypeOK
  <1>3. /\ raftLog'[f] = <<>> /\ status'[f] = "panicked"
        /\ \A m \in Nodes \ {f} : raftLog'[m] = raftLog[m] /\ status'[m] = status[m]
    BY <1>1, <1>2
  <1>4. /\ TermsGrow
        /\ \A m \in Nodes : role'[m] = "leader" =>
              m # f /\ role[m] = "leader" /\ term'[m] = term[m]
    BY <1>1, FollowTerms
  <1>5. \A m \in Nodes : Len(raftLog[m]) \in Nat
    BY Shapes
  <1>6. CopyOf(f, f)
    <2>1. Len(raftLog'[f]) = 0
      BY <1>3
    <2> QED
      BY <1>4, <1>5, <2>1 DEF CopyOf, TermsGrow
  <1>7. \A m \in Nodes \ {f} : CopyOf(m, m) /\ Longer(m)
    BY <1>3, <1>4, <1>5 DEF CopyOf, Longer, TermsGrow
  <1> QED
    BY <1>1, <1>3, <1>4, <1>6, <1>7 DEF Calm, LeadsOn

LEMMA ReplicateCommitCalm ==
    ASSUME IInv, NEW l \in Nodes, NEW f \in Nodes, ReplicateCommit(l, f)
    PROVE  Calm
  <1>1. Replicates(l, f) /\ Follow(l, f) /\ UNCHANGED <<raftLog, committed, status>>
    BY DEF ReplicateCommit, history
  <1> QED
    BY <1>1, FollowTerms, CalmWithLogs

(* A leader takes a command.                                               *)
LEMMA DistributedAppendAdds ==
    ASSUME IInv, RaftOK, NEW n \in Nodes, NEW r \in Records, DistributedAppend(n, r)
    PROVE  \E t \in 1 .. MaxTerm : \E e \in Stores : Added(n, t, e)
  <1> DEFINE e == Entry(term[n], "command", r)
  <1>1. /\ role[n] = "leader" /\ raftLog' = [raftLog EXCEPT ![n] = Append(raftLog[n], e)]
        /\ UNCHANGED <<term, role, status, committed>>
    BY DEF DistributedAppend, StoreLog, raft, history
  <1>2. term[n] \in 1 .. MaxTerm /\ e \in Stores /\ e.term = term[n]
    BY Shapes, StoresAre DEF Entry
  <1> HIDE DEF e
  <1>3. HasTerm(n, term[n]) /\ Agreed(term[n]) /\ \A c \in committed : c.term <= term[n] => Holds(n, c)
    BY <1>1 DEF RaftOK, LeaderHasTerm, TermsAgreed, LeaderHolds
  <1>4. \A l \in Nodes \ {n} : role'[l] = "leader" =>
            role[l] = "leader" /\ term'[l] = term[l] /\ term[l] # term[n]
    BY <1>1 DEF RaftOK, OneLeader
  <1>5. TermsGrow
    BY <1>1, Shapes DEF TermsGrow
  <1>6. \E Q \in Quorums : \A q \in Q : term[n] <= term'[q]
    BY <1>1, <1>3 DEF Agreed
  <1>7. Added(n, term[n], e)
    BY <1>1, <1>2, <1>3, <1>4, <1>5, <1>6 DEF Added
  <1> QED
    BY <1>2, <1>7

(* A candidate whose log is as good as that of a node which kept c has c:  *)
(* its last entry is of a later term, or both logs are the same up to the  *)
(* last entry of the other.                                                *)
LEMMA UpToDateHolds ==
    ASSUME IInv, RaftOK, NEW n \in Nodes, NEW q \in Nodes, NEW c \in committed,
           Keeps(q, c), status[q] = "up", raftLog[n] # <<>>, UpToDate(raftLog[n], raftLog[q])
    PROVE  Holds(n, c)
  <1> DEFINE ln == Len(raftLog[n])
             lq == Len(raftLog[q])
  <1>1. c.index \in Nat /\ c.term \in Nat /\ ln \in Nat /\ lq \in Nat
    BY CommittedAre, Shapes
  <1>2. PICK i \in 1 .. lq : c.index <= i /\ raftLog[q][i].term = c.term
    BY DEF Keeps
  <1>3. Holds(q, c) /\ TermsOrdered /\ LogMatching /\ LaterHold
    BY DEF Keeps, RaftOK
  <1>4. ln \in 1 .. ln /\ lq \in 1 .. lq
    <2>1. ln # 0
      BY Shapes
    <2> QED
      BY <1>1, <1>2, <2>1
  <1>5. raftLog[q] # <<>>
    BY <1>1, <1>2
  <1> DEFINE tn == raftLog[n][ln].term
             tq == raftLog[q][lq].term
  <1>6. tn \in Nat /\ tq \in Nat
    BY <1>4, EntriesAre
  <1>7. c.term <= tq
    <2>1. i \in 1 .. lq
      BY <1>2
    <2>2. raftLog[q][i].term <= raftLog[q][lq].term
      BY <1>3, <1>4, <2>1 DEF TermsOrdered
    <2> QED
      BY <1>2, <2>2
  <1>8. tn > tq \/ (tn = tq /\ lq <= ln)
    <2>1. LastTerm(raftLog[n]) = tn /\ LastTerm(raftLog[q]) = tq
      BY <1>5 DEF LastTerm
    <2> QED
      BY <1>1, <2>1 DEF UpToDate, LastIndex
  <1>9. CASE tn > c.term
    BY <1>3, <1>4, <1>9 DEF LaterHold
  <1>10. CASE ~ (tn > c.term)
    <2>1. tn = tq /\ lq <= ln
      BY <1>1, <1>6, <1>7, <1>8, <1>10
    <2>2. SameUpTo(q, n, lq)
      BY <1>3, <1>4, <2>1 DEF LogMatching
    <2>3. c.index \in 1 .. lq /\ raftLog[q][c.index] = c.entry
      BY <1>1, <1>3 DEF Holds
    <2>4. raftLog[n][c.index] = c.entry /\ 1 <= c.index /\ c.index <= ln
      BY <1>1, <2>1, <2>2, <2>3 DEF SameUpTo
    <2> QED
      BY <2>4 DEF Holds
  <1> QED
    BY <1>9, <1>10

LEMMA ElectAdds ==
    ASSUME IInv, RaftOK, NEW n \in Nodes, NEW Q \in Quorums, Elect(n, Q)
    PROVE  \E t \in 1 .. MaxTerm : \E e \in Stores : Added(n, t, e)
  <1>1. PICK t \in 1 .. MaxTerm : ElectedIn(n, Q, t)
    BY ElectIs
  <1> DEFINE e == Entry(t, "noop", NoRecord)
  <1>2. /\ Q \subseteq Nodes /\ n \in Q /\ raftLog[n] # <<>>
        /\ \A q \in Q : term[q] < t /\ status[q] = "up" /\ UpToDate(raftLog[n], raftLog[q])
        /\ term' = [q \in Nodes |-> IF q \in Q THEN t ELSE term[q]]
        /\ role' = [q \in Nodes |-> IF q = n THEN "leader"
                                    ELSE IF q \in Q THEN "follower" ELSE role[q]]
        /\ raftLog' = [raftLog EXCEPT ![n] = Append(raftLog[n], e)]
        /\ status' = status /\ committed' = committed
    BY <1>1 DEF ElectedIn
  <1>3. e \in Stores /\ e.term = t /\ t \in Nat
    <2>1. e \in Stores
      BY StoresAre
    <2>2. e.term = t
      BY DEF Entry
    <2>3. t \in Nat
      BY ReplicationAssumption
    <2> QED
      BY <2>1, <2>2, <2>3
  <1> HIDE DEF e
  <1>4. ~ Agreed(t)
    BY <1>2, <1>3, NotAgreed
  <1>5. HasTerm(n, t)
    BY <1>4 DEF RaftOK, TermsAgreed, HasTerm
  <1>6. term'[n] = t /\ \A q \in Q : t <= term'[q]
    BY <1>2, <1>3
  <1>7. \A l \in Nodes \ {n} : role'[l] = "leader" =>
            role[l] = "leader" /\ term'[l] = term[l] /\ term[l] # t
    <2> SUFFICES ASSUME NEW l \in Nodes \ {n}, role'[l] = "leader"
                 PROVE  role[l] = "leader" /\ term'[l] = term[l] /\ term[l] # t
      OBVIOUS
    <2>1. l \notin Q /\ role[l] = "leader" /\ term'[l] = term[l]
      BY <1>2
    <2> QED
      BY <1>4, <2>1 DEF RaftOK, TermsAgreed
  <1>8. TermsGrow
    <2>1. \A m \in Nodes : term[m] \in Nat
      BY Shapes
    <2> QED
      BY <1>2, <1>3, <2>1 DEF TermsGrow
  <1>9. ASSUME NEW c \in committed
        PROVE  Holds(n, c)
    <2>1. PICK P \in Quorums : \A q \in P : Keeps(q, c)
      BY DEF RaftOK, QuorumHolds
    <2>2. PICK q \in Nodes : q \in P /\ q \in Q
      BY QuorumsMeet
    <2> QED
      BY <1>2, <2>1, <2>2, UpToDateHolds
  <1>10. Added(n, t, e)
    BY <1>2, <1>3, <1>5, <1>6, <1>7, <1>8, <1>9 DEF Added
  <1> QED
    BY <1>3, <1>10

LEMMA CalmKeepsRaft ==
    ASSUME IInv, IInv', RaftOK, Calm
    PROVE  RaftOK'
  BY CalmKeepsTerms, CalmKeepsLogs, CalmKeepsCommitted DEF RaftOK

LEMMA AddedKeepsRaft ==
    ASSUME IInv, IInv', RaftOK, NEW n \in Nodes,
           \E t \in 1 .. MaxTerm : \E e \in Stores : Added(n, t, e)
    PROVE  RaftOK'
  <1>1. PICK t \in 1 .. MaxTerm, e \in Stores : Added(n, t, e)
    OBVIOUS
  <1> QED
    BY <1>1, AddedKeepsTerms, AddedKeepsLogs, AddedKeepsCommitted DEF RaftOK

(* Without restarts no process is closed or started.                       *)
LEMMA NoRestarts ==
    ASSUME MaxRestarts = 0, IInv, NEW n \in Nodes
    PROVE  ~ Close(n) /\ ~ NewDistributedLog(n)
  <1>1. restarts = 0 /\ ~ (restarts < MaxRestarts)
    BY DEF IInv, TypeOK
  <1> QED
    BY <1>1 DEF Close, NewDistributedLog

(* Whatever the step, raft is calm, or a leader appends, or one commits.   *)
LEMMA StepsAre ==
    ASSUME MaxRestarts = 0, IInv, RaftOK, [Next]_vars
    PROVE  \/ Calm
           \/ \E n \in Nodes : \E t \in 1 .. MaxTerm : \E e \in Stores : Added(n, t, e)
           \/ \E n \in Nodes : \E index \in 1 .. MaxIndex : Commit(n, index)
  <1>1. CASE \E n \in Nodes : \E Q \in Quorums : Elect(n, Q)
    BY <1>1, ElectAdds
  <1>2. CASE \E n \in Nodes : StepDown(n)
    BY <1>2, StepDownCalm
  <1>3. CASE \E n \in Nodes : \E index \in 1 .. MaxIndex : Commit(n, index)
    BY <1>3
  <1>4. CASE \E n \in Nodes : \E r \in Records : DistributedAppend(n, r)
    BY <1>4, DistributedAppendAdds
  <1>5. CASE \E n \in Nodes : FsmApply(n)
    <2>1. UNCHANGED <<raftLog, committed, status, term, role>>
      BY <1>5 DEF FsmApply
    <2> QED
      BY <2>1, SameRaftCalm
  <1>6. CASE \E n \in Nodes : Close(n) \/ NewDistributedLog(n)
    BY <1>6, NoRestarts
  <1>7. CASE \E l, f \in Nodes : Exchange(l, f)
    BY <1>7, ReplicateCalm, ReplicatePanicCalm, ReplicateCommitCalm DEF Exchange, RaftOK
  <1>8. CASE UNCHANGED vars
    <2>1. UNCHANGED <<raftLog, committed, status, term, role>>
      BY <1>8 DEF vars, raft, history
    <2> QED
      BY <2>1, SameRaftCalm
  <1> QED
    BY <1>1, <1>2, <1>3, <1>4, <1>5, <1>6, <1>7, <1>8 DEF Next

LEMMA RaftKept ==
    ASSUME MaxRestarts = 0
    PROVE  IInv /\ RaftOK /\ [Next]_vars => RaftOK'
  <1> SUFFICES ASSUME IInv, RaftOK, [Next]_vars PROVE RaftOK'
    OBVIOUS
  <1>1. IInv'
    BY StepKeeps
  <1> QED
    BY <1>1, StepsAre, CalmKeepsRaft, AddedKeepsRaft, CommitKeepsRaft

(* However elections and conflicts go, while no process is restarted every *)
(* leader has what was committed in its term or before (distributed.go,    *)
(* StoreLogs and DeleteRange), for any nodes, terms and logs.              *)
THEOREM ReplicationLeaderComplete ==
    ASSUME MaxRestarts = 0
    PROVE  Spec => []LeaderComplete
  <1>1. IInv /\ RaftOK => LeaderComplete
    BY DEF RaftOK, LeaderHolds, Holds, LeaderComplete, LastIndex
  <1>2. Init => IInv /\ RaftOK
    BY Initially, RaftInitially
  <1>3. IInv /\ RaftOK /\ [Next]_vars => (IInv /\ RaftOK)'
    BY StepKeeps, RaftKept
  <1> QED
    BY <1>1, <1>2, <1>3, PTL DEF Spec

-----------------------------------------------------------------------------
(* From there to the record logs: an index is committed to one entry only, *)
(* every node commits a beginning of the same sequence, and the place of a *)
(* record is the rank of its command in it.                                *)

CommittedOnce == \A c, d \in committed : c.index = d.index => c.entry = d.entry

CommittedUpTo(i) == \A k \in 1 .. i : \E c \in committed : c.index = k

NoGaps == \A c \in committed : 1 <= c.index /\ CommittedUpTo(c.index)

CommitIsCommitted ==
    \A n \in Nodes : status[n] = "up" =>
        \A i \in 1 .. commit[n] : \E c \in committed : c.index = i /\ Holds(n, c)

CommandsCommitted(i) ==
    {k \in 1 .. i : \E c \in committed : c.index = k /\ c.entry.type = "command"}

Ranked(v, p) ==
    \E c \in committed :
        /\ c.entry.type = "command" /\ c.entry.val = v
        /\ Cardinality(CommandsCommitted(c.index)) = p

SizeIsRank ==
    \A n \in Nodes : status[n] = "up" =>
        Len(recordLog[n]) = Cardinality(CommandsCommitted(applied[n]))

RecordsRanked == \A n \in Nodes : \A p \in 1 .. Len(recordLog[n]) : Ranked(recordLog[n][p], p)

AnswersKept ==
    \A a \in acked : \E n \in Nodes :
        a.off + 1 \in 1 .. Len(recordLog[n]) /\ recordLog[n][a.off + 1] = a.val

AgreeInv ==
    /\ OrderInv /\ RaftOK
    /\ CommittedOnce /\ NoGaps /\ CommitIsCommitted
    /\ SizeIsRank /\ RecordsRanked /\ AnswersKept

LEMMA CommandsFinite ==
    ASSUME NEW i \in Nat
    PROVE  /\ IsFiniteSet(CommandsCommitted(i)) /\ Cardinality(CommandsCommitted(i)) \in Nat
           /\ CommandsCommitted(i) \subseteq 1 .. i
  <1>1. 1 \in Int /\ i \in Int
    OBVIOUS
  <1>2. IsFiniteSet(1 .. i)
    BY <1>1, FS_Interval
  <1>3. CommandsCommitted(i) \subseteq 1 .. i
    BY DEF CommandsCommitted
  <1>4. IsFiniteSet(CommandsCommitted(i))
    BY <1>2, <1>3, FS_Subset
  <1> QED
    BY <1>3, <1>4, FS_CardinalityType

(* Different indexes have different ranks.                                 *)
LEMMA RankGrows ==
    ASSUME IInv, NEW c \in committed, NEW d \in committed, 1 <= d.index,
           d.entry.type = "command", c.index < d.index
    PROVE  Cardinality(CommandsCommitted(c.index)) # Cardinality(CommandsCommitted(d.index))
  <1>1. c.index \in Nat /\ d.index \in Nat
    BY CommittedAre
  <1>2. d.index \in CommandsCommitted(d.index)
    BY <1>1 DEF CommandsCommitted
  <1>3. d.index \notin CommandsCommitted(c.index)
    BY <1>1 DEF CommandsCommitted
  <1>4. CommandsCommitted(c.index) \subseteq CommandsCommitted(d.index)
    BY <1>1 DEF CommandsCommitted
  <1>5. IsFiniteSet(CommandsCommitted(d.index))
    BY <1>1, CommandsFinite
  <1>6. CommandsCommitted(c.index) # CommandsCommitted(d.index)
    BY <1>2, <1>3
  <1> QED
    BY <1>4, <1>5, <1>6, FS_Subset

LEMMA RankDecides ==
    ASSUME AgreeInv, NEW v, NEW w, NEW p, Ranked(v, p), Ranked(w, p)
    PROVE  v = w
  <1>1. PICK c \in committed :
            /\ c.entry.type = "command" /\ c.entry.val = v
            /\ Cardinality(CommandsCommitted(c.index)) = p
    BY DEF Ranked
  <1>2. PICK d \in committed :
            /\ d.entry.type = "command" /\ d.entry.val = w
            /\ Cardinality(CommandsCommitted(d.index)) = p
    BY DEF Ranked
  <1>3. IInv /\ 1 <= c.index /\ 1 <= d.index
    BY DEF AgreeInv, OrderInv, NoGaps
  <1>4. c.index \in Nat /\ d.index \in Nat
    BY <1>3, CommittedAre
  <1>5. ~ (c.index < d.index) /\ ~ (d.index < c.index)
    BY <1>1, <1>2, <1>3, RankGrows
  <1>6. c.index = d.index
    BY <1>4, <1>5
  <1> QED
    BY <1>1, <1>2, <1>6 DEF AgreeInv, CommittedOnce

(* What is committed later leaves the ranks of before as they were.        *)
LEMMA RankStays ==
    ASSUME IInv, committed \subseteq committed', CommittedOnce', NEW i \in Nat, CommittedUpTo(i)
    PROVE  {k \in 1 .. i : \E c \in committed' : c.index = k /\ c.entry.type = "command"}
              = CommandsCommitted(i)
  <1>1. ASSUME NEW k \in 1 .. i, NEW c \in committed', c.index = k, c.entry.type = "command"
        PROVE  \E d \in committed : d.index = k /\ d.entry.type = "command"
    <2>1. PICK d \in committed : d.index = k
      BY DEF CommittedUpTo
    <2>2. d.entry = c.entry
      BY <1>1, <2>1 DEF CommittedOnce
    <2> QED
      BY <1>1, <2>1, <2>2
  <1> QED
    BY <1>1 DEF CommandsCommitted

-----------------------------------------------------------------------------
LEMMA AgreeInitially == Init => AgreeInv
  <1> SUFFICES ASSUME Init PROVE AgreeInv
    OBVIOUS
  <1> DEFINE e == Entry(1, "config", NoRecord)
             c == [index |-> 1, entry |-> e, term |-> 1]
  <1>1. OrderInv /\ RaftOK
    BY OrderInitially, RaftInitially
  <1>2. \A n \in Nodes :
            /\ commit[n] = 1 /\ applied[n] = 1 /\ recordLog[n] = <<>>
            /\ Len(raftLog[n]) = 1 /\ raftLog[n][1] = e
    BY DEF Init
  <1>3. committed = {c} /\ acked = {} /\ c.index = 1 /\ c.entry = e /\ e.type = "config"
    BY DEF Init, Entry
  <1> HIDE DEF e, c
  <1>4. 1 .. 1 = {1}
    OBVIOUS
  <1>5. CommittedOnce /\ NoGaps
    BY <1>3, <1>4 DEF CommittedOnce, NoGaps, CommittedUpTo
  <1>6. CommitIsCommitted
    BY <1>2, <1>3, <1>4 DEF CommitIsCommitted, Holds
  <1>7. CommandsCommitted(1) = {} /\ Cardinality({}) = 0
    BY <1>3, FS_EmptySet DEF CommandsCommitted
  <1>8. \A n \in Nodes : Len(recordLog[n]) = 0
    BY <1>2
  <1>9. SizeIsRank
    BY <1>2, <1>7, <1>8 DEF SizeIsRank
  <1>10. RecordsRanked /\ AnswersKept
    BY <1>3, <1>8 DEF RecordsRanked, AnswersKept
  <1> QED
    BY <1>1, <1>5, <1>6, <1>9, <1>10 DEF AgreeInv

(* Without restarts a process that is up was up before.                    *)
LEMMA UpStays ==
    ASSUME MaxRestarts = 0, IInv, RaftOK, [Next]_vars
    PROVE  /\ committed \subseteq committed'
           /\ \A m \in Nodes : status'[m] = "up" => status[m] = "up" /\ Longer(m)
  <1>1. CASE Calm
    BY <1>1 DEF Calm
  <1>2. CASE \E n \in Nodes : \E t \in 1 .. MaxTerm : \E e \in Stores : Added(n, t, e)
    <2>1. \A m \in Nodes : Longer(m)
      BY <1>2, AddedIs
    <2> QED
      BY <1>2, <2>1 DEF Added
  <1>3. CASE \E n \in Nodes : \E index \in 1 .. MaxIndex : Commit(n, index)
    <2>1. UNCHANGED <<raftLog, status>> /\ committed \subseteq committed'
      BY <1>3 DEF Commit
    <2> QED
      BY <2>1, SameLonger
  <1> QED
    BY <1>1, <1>2, <1>3, StepsAre

LEMMA CommitSteps ==
    ASSUME MaxRestarts = 0, IInv, [Next]_vars
    PROVE  \/ UNCHANGED <<commit, committed>>
           \/ \E n \in Nodes : \E index \in 1 .. MaxIndex : Commit(n, index)
           \/ \E l, f \in Nodes : ReplicateCommit(l, f)
  <1>1. CASE \E n \in Nodes : Close(n) \/ NewDistributedLog(n)
    BY <1>1, NoRestarts
  <1>2. CASE \E n \in Nodes :
                \/ \E Q \in Quorums : Elect(n, Q)
                \/ StepDown(n) \/ FsmApply(n) \/ \E r \in Records : DistributedAppend(n, r)
    BY <1>2 DEF Elect, StepDown, FsmApply, DistributedAppend, raft, history
  <1>3. CASE \E l, f \in Nodes : Replicate(l, f) \/ ReplicatePanic(l, f)
    BY <1>3 DEF Replicate, ReplicatePanic, history
  <1>4. CASE UNCHANGED vars
    BY <1>4 DEF vars, raft, history
  <1> QED
    BY <1>1, <1>2, <1>3, <1>4 DEF Next, Exchange

LEMMA ApplySteps ==
    ASSUME MaxRestarts = 0, IInv, [Next]_vars
    PROVE  \/ UNCHANGED <<recordLog, applied, acked>>
           \/ \E n \in Nodes : FsmApply(n)
  <1>1. CASE \E n \in Nodes : Close(n) \/ NewDistributedLog(n)
    BY <1>1, NoRestarts
  <1>2. CASE \E n \in Nodes :
                \/ \E Q \in Quorums : Elect(n, Q)
                \/ StepDown(n) \/ \E r \in Records : DistributedAppend(n, r)
                \/ \E index \in 1 .. MaxIndex : Commit(n, index)
    BY <1>2 DEF Elect, StepDown, Commit, DistributedAppend, raft, history
  <1>3. CASE \E l, f \in Nodes : Exchange(l, f)
    BY <1>3 DEF Exchange, Replicate, ReplicatePanic, ReplicateCommit, history
  <1>4. CASE UNCHANGED vars
    BY <1>4 DEF vars, raft, history
  <1> QED
    BY <1>1, <1>2, <1>3, <1>4 DEF Next

(* What a node that stays up held below its old end, it holds.             *)
LEMMA HoldsOn ==
    ASSUME IInv, IInv', NEW m \in Nodes, Longer(m), NEW c \in committed, Holds(m, c)
    PROVE  1 <= c.index /\ c.index <= Len(raftLog'[m]) /\ raftLog'[m][c.index] = c.entry
  <1>1. c.index \in Nat /\ Len(raftLog[m]) \in Nat /\ Len(raftLog'[m]) \in Nat
    BY CommittedAre, Shapes, ShapesThen
  <1>2. c.index \in 1 .. Len(raftLog[m]) /\ raftLog[m][c.index] = c.entry
    BY <1>1 DEF Holds
  <1> QED
    BY <1>1, <1>2 DEF Longer

LEMMA CommitAgrees ==
    ASSUME AgreeInv, IInv', NEW l \in Nodes, NEW index \in 1 .. MaxIndex, Commit(l, index)
    PROVE  CommittedOnce' /\ NoGaps' /\ CommitIsCommitted'
  <1>1. /\ IInv /\ RaftOK /\ CommittedOnce /\ NoGaps /\ CommitIsCommitted
    BY DEF AgreeInv, OrderInv
  <1>2. /\ UNCHANGED <<raftLog, status>> /\ role[l] = "leader" /\ status[l] = "up"
        /\ commit' = [commit EXCEPT ![l] = index]
    BY DEF Commit
  <1> DEFINE new == CommittedBy(l, index)
  <1>3. /\ committed' = committed \cup new
        /\ \A c \in new :
              /\ c.index \in 1 .. index /\ commit[l] < c.index
              /\ c.entry = raftLog[l][c.index] /\ Holds(l, c)
    BY <1>1, CommittedByIs
  <1>4. PICK Q \in Quorums : \A q \in Q : term[q] = term[l]
    BY <1>1, CommittedByIs
  <1>5. term[l] \in Nat /\ commit[l] \in Nat /\ index \in Nat
    BY <1>1, Shapes, ReplicationAssumption
  <1>6. \A i \in 1 .. index : commit[l] < i => \E c \in new : c.index = i
    <2> SUFFICES ASSUME NEW i \in 1 .. index, commit[l] < i
                 PROVE  \E c \in new : c.index = i
      OBVIOUS
    <2> DEFINE c == [index |-> i, entry |-> raftLog[l][i], term |-> term[l]]
    <2>1. i \in commit[l] + 1 .. index
      BY <1>5
    <2>2. c \in new
      BY <2>1 DEF CommittedBy
    <2>3. c.index = i
      OBVIOUS
    <2> QED
      BY <2>2, <2>3
  <1> HIDE DEF new
  <1>7. ASSUME NEW c \in committed
        PROVE  Holds(l, c)
    <2>1. c.term <= term[l]
      BY <1>1, <1>4, <1>5, NoneLater
    <2> QED
      BY <1>1, <1>2, <2>1 DEF RaftOK, LeaderHolds
  <1>8. \A c \in committed \cup new : c.entry = raftLog[l][c.index]
    BY <1>3, <1>7 DEF Holds
  <1>9. CommittedOnce'
    BY <1>3, <1>8 DEF CommittedOnce
  <1>10. \A i \in 1 .. index : \E c \in committed \cup new : c.index = i
    <2> SUFFICES ASSUME NEW i \in 1 .. index
                 PROVE  \E c \in committed \cup new : c.index = i
      OBVIOUS
    <2>1. CASE commit[l] < i
      BY <1>6, <2>1
    <2>2. CASE ~ (commit[l] < i)
      <3>1. i \in 1 .. commit[l]
        BY <1>5, <2>2
      <3> QED
        BY <1>1, <1>2, <3>1 DEF CommitIsCommitted
    <2> QED
      BY <2>1, <2>2
  <1>11. ASSUME NEW c \in new
         PROVE  1 <= c.index /\ \A k \in 1 .. c.index : \E d \in committed \cup new : d.index = k
    <2>1. c.index \in 1 .. index
      BY <1>3
    <2>2. 1 <= c.index /\ \A k \in 1 .. c.index : k \in 1 .. index
      BY <1>5, <2>1
    <2> QED
      BY <1>10, <2>2
  <1>12. NoGaps'
    BY <1>1, <1>3, <1>11 DEF NoGaps, CommittedUpTo
  <1>13. \A c \in committed \cup new : Holds(l, c)
    BY <1>3, <1>7
  <1>14. ASSUME NEW m \in Nodes, status[m] = "up", NEW i \in 1 .. commit'[m]
         PROVE  \E c \in committed \cup new : c.index = i /\ Holds(m, c)
    <2>1. CASE m = l
      <3>1. commit'[m] = index
        BY <1>1, <1>2, <2>1 DEF IInv, TypeOK
      <3> QED
        BY <1>10, <1>13, <2>1, <3>1
    <2>2. CASE m # l
      <3>1. commit'[m] = commit[m]
        BY <1>1, <1>2, <2>2 DEF IInv, TypeOK
      <3> QED
        BY <1>1, <1>14, <3>1 DEF CommitIsCommitted
    <2> QED
      BY <2>1, <2>2
  <1>15. CommitIsCommitted'
    BY <1>2, <1>3, <1>14 DEF CommitIsCommitted, Holds
  <1> QED
    BY <1>9, <1>12, <1>15

(* The follower takes over an index up to which it has what the leader has.*)
LEMMA ReplicateCommitAgrees ==
    ASSUME AgreeInv, NEW l \in Nodes, NEW f \in Nodes, ReplicateCommit(l, f)
    PROVE  CommitIsCommitted'
  <1>1. IInv /\ LogMatching /\ CommitIsCommitted
    BY DEF AgreeInv, OrderInv, RaftOK
  <1> DEFINE prev == Matching(raftLog[l], raftLog[f])
             new  == IF commit[l] < prev THEN commit[l] ELSE prev
  <1>2. prev \in Nat /\ SameUpTo(f, l, prev)
    BY <1>1, MatchingSame
  <1>3. /\ UNCHANGED <<raftLog, status, committed>> /\ status[l] = "up" /\ status[f] = "up"
        /\ commit' = [commit EXCEPT ![f] = IF commit[f] < new THEN new ELSE commit[f]]
    BY DEF ReplicateCommit, Replicates, history
  <1>4. commit[l] \in Nat /\ commit[f] \in Nat /\ commit \in [Nodes -> Nat]
    BY <1>1, Shapes DEF IInv, TypeOK
  <1> HIDE DEF prev
  <1>5. new \in Nat /\ new <= commit[l] /\ new <= prev
    BY <1>2, <1>4
  <1> HIDE DEF new
  <1>6. ASSUME NEW m \in Nodes, status[m] = "up", NEW i \in 1 .. commit'[m]
        PROVE  \E c \in committed : c.index = i /\ Holds(m, c)
    <2>1. CASE i \in 1 .. commit[m]
      BY <1>1, <1>6, <2>1 DEF CommitIsCommitted
    <2>2. CASE i \notin 1 .. commit[m]
      <3>1. m = f /\ commit'[m] = new
        BY <1>3, <1>4, <2>2
      <3>2. i \in 1 .. commit[l] /\ i \in 1 .. prev
        BY <1>2, <1>4, <1>5, <3>1
      <3>3. PICK c \in committed : c.index = i /\ Holds(l, c)
        BY <1>1, <1>3, <3>2 DEF CommitIsCommitted
      <3>4. 1 <= i /\ i <= Len(raftLog[f]) /\ raftLog[f][i] = raftLog[l][i]
        <4>1. Len(raftLog[f]) \in Nat
          BY <1>1, Shapes
        <4> QED
          BY <1>2, <3>2, <4>1 DEF SameUpTo
      <3> QED
        BY <3>1, <3>3, <3>4 DEF Holds
    <2> QED
      BY <2>1, <2>2
  <1> QED
    BY <1>3, <1>6 DEF CommitIsCommitted, Holds

LEMMA CommittedAgrees ==
    ASSUME MaxRestarts = 0, AgreeInv, IInv', [Next]_vars
    PROVE  CommittedOnce' /\ NoGaps' /\ CommitIsCommitted'
  <1>1. IInv /\ RaftOK /\ CommittedOnce /\ NoGaps /\ CommitIsCommitted
    BY DEF AgreeInv, OrderInv
  <1>2. CASE \E n \in Nodes : \E index \in 1 .. MaxIndex : Commit(n, index)
    BY <1>2, CommitAgrees
  <1>3. ASSUME committed' = committed PROVE CommittedOnce' /\ NoGaps'
    BY <1>1, <1>3 DEF CommittedOnce, NoGaps, CommittedUpTo
  <1>4. CASE UNCHANGED <<commit, committed>>
    <2>1. ASSUME NEW m \in Nodes, status'[m] = "up", NEW i \in 1 .. commit[m]
          PROVE  \E c \in committed : c.index = i /\ 1 <= c.index /\ c.index <= Len(raftLog'[m])
                                     /\ raftLog'[m][c.index] = c.entry
      <3>1. status[m] = "up" /\ Longer(m)
        BY <1>1, <2>1, UpStays
      <3>2. PICK c \in committed : c.index = i /\ Holds(m, c)
        BY <1>1, <3>1 DEF CommitIsCommitted
      <3> QED
        BY <1>1, <3>1, <3>2, HoldsOn
    <2>2. CommitIsCommitted'
      BY <1>4, <2>1 DEF CommitIsCommitted, Holds
    <2> QED
      BY <1>3, <1>4, <2>2
  <1>5. CASE \E l, f \in Nodes : ReplicateCommit(l, f)
    <2>1. committed' = committed
      BY <1>5 DEF ReplicateCommit, history
    <2> QED
      BY <1>3, <1>5, <2>1, ReplicateCommitAgrees
  <1> QED
    BY <1>1, <1>2, <1>4, <1>5, CommitSteps

-----------------------------------------------------------------------------
LEMMA CommandsStay ==
    ASSUME AgreeInv, committed \subseteq committed', CommittedOnce'
    PROVE  /\ \A m \in Nodes : status[m] = "up" =>
                 CommandsCommitted(applied[m])
                    = {k \in 1 .. applied[m] :
                          \E c \in committed' : c.index = k /\ c.entry.type = "command"}
           /\ \A d \in committed :
                 CommandsCommitted(d.index)
                    = {k \in 1 .. d.index :
                          \E c \in committed' : c.index = k /\ c.entry.type = "command"}
  <1>1. IInv /\ NoGaps /\ CommitIsCommitted /\ AppliedOK
    BY DEF AgreeInv, OrderInv
  <1>2. ASSUME NEW m \in Nodes, status[m] = "up"
        PROVE  CommittedUpTo(applied[m]) /\ applied[m] \in Nat
    <2>1. applied[m] \in Nat /\ commit[m] \in Nat /\ applied[m] <= commit[m]
      BY <1>1, <1>2, Shapes DEF AppliedOK
    <2>2. \A k \in 1 .. applied[m] : k \in 1 .. commit[m]
      BY <2>1
    <2>3. CommittedUpTo(applied[m])
      BY <1>1, <1>2, <2>2 DEF CommitIsCommitted, CommittedUpTo
    <2> QED
      BY <2>1, <2>3
  <1>3. ASSUME NEW d \in committed
        PROVE  CommittedUpTo(d.index) /\ d.index \in Nat
    BY <1>1, CommittedAre DEF NoGaps
  <1> QED
    BY <1>1, <1>2, <1>3, RankStays

LEMMA SameRecordsAgree ==
    ASSUME AgreeInv, committed \subseteq committed', CommittedOnce',
           \A m \in Nodes : status'[m] = "up" => status[m] = "up",
           UNCHANGED <<recordLog, applied, acked>>
    PROVE  SizeIsRank' /\ RecordsRanked' /\ AnswersKept'
  <1>1. SizeIsRank /\ RecordsRanked /\ AnswersKept
    BY DEF AgreeInv
  <1>2. SizeIsRank'
    BY <1>1, CommandsStay DEF SizeIsRank, CommandsCommitted
  <1>3. ASSUME NEW n \in Nodes, NEW p \in 1 .. Len(recordLog[n])
        PROVE  \E d \in committed' :
                  /\ d.entry.type = "command" /\ d.entry.val = recordLog[n][p]
                  /\ Cardinality({k \in 1 .. d.index :
                          \E c \in committed' : c.index = k /\ c.entry.type = "command"}) = p
    <2>1. PICK d \in committed :
              /\ d.entry.type = "command" /\ d.entry.val = recordLog[n][p]
              /\ Cardinality(CommandsCommitted(d.index)) = p
      BY <1>1 DEF RecordsRanked, Ranked
    <2> QED
      BY <2>1, CommandsStay
  <1>4. RecordsRanked'
    BY <1>3 DEF RecordsRanked, Ranked, CommandsCommitted
  <1>5. AnswersKept'
    BY <1>1 DEF AnswersKept
  <1> QED
    BY <1>2, <1>4, <1>5

(* The record of the next command is put where its rank says, and that is  *)
(* the place that a waiting call hears.                                    *)
LEMMA FsmApplyAgrees ==
    ASSUME AgreeInv, NEW n \in Nodes, FsmApply(n)
    PROVE  SizeIsRank' /\ RecordsRanked' /\ AnswersKept'
  <1> DEFINE index == applied[n] + 1
             e     == raftLog[n][index]
             size  == Len(recordLog[n])
             old   == CommandsCommitted(applied[n])
             new   == CommandsCommitted(index)
  <1>1. /\ status[n] = "up" /\ applied[n] < commit[n]
        /\ applied' = [applied EXCEPT ![n] = index]
        /\ recordLog' = IF e.type = "command"
                        THEN [recordLog EXCEPT ![n] = Append(recordLog[n], e.val)]
                        ELSE recordLog
        /\ acked' = IF index \in waiting[n]
                    THEN acked \cup {[off |-> size, val |-> e.val]} ELSE acked
        /\ UNCHANGED <<raftLog, commit, status, committed>>
    BY DEF FsmApply, GetLog, IsCommand
  <1>2. /\ IInv /\ CommittedOnce /\ CommitIsCommitted
        /\ SizeIsRank /\ RecordsRanked /\ AnswersKept
    BY DEF AgreeInv, OrderInv
  <1>3. /\ applied[n] \in Nat /\ commit[n] \in Nat /\ size \in Nat /\ index \in Nat
        /\ recordLog[n] \in Seq(Records \cup {Hole})
    BY <1>2, Shapes
  <1>4. /\ applied \in [Nodes -> Nat] /\ recordLog \in [Nodes -> Seq(Records \cup {Hole})]
        /\ acked \subseteq [off : Nat, val : Records]
    BY <1>2 DEF IInv, TypeOK
  <1>5. PICK c \in committed : c.index = index /\ c.entry = e
    <2>1. index \in 1 .. commit[n]
      BY <1>1, <1>3
    <2> QED
      BY <1>1, <1>2, <2>1 DEF CommitIsCommitted, Holds
  <1>6. size = Cardinality(old) /\ IsFiniteSet(old) /\ index \notin old
    <2>1. size = Cardinality(old)
      BY <1>1, <1>2 DEF SizeIsRank
    <2>2. IsFiniteSet(old) /\ old \subseteq 1 .. applied[n]
      BY <1>3, CommandsFinite
    <2> QED
      BY <1>3, <2>1, <2>2
  <1>7. \A m \in Nodes \ {n} : applied'[m] = applied[m] /\ recordLog'[m] = recordLog[m]
    BY <1>1, <1>4
  <1>8. applied'[n] = index
    BY <1>1, <1>4
  <1>9. \A i : CommandsCommitted(i)' = CommandsCommitted(i)
    BY <1>1 DEF CommandsCommitted
  <1>10. CASE e.type = "command"
    <2>1. e.val \in Records
      BY <1>1, <1>2, <1>10, AppliesRecord
    <2>2. /\ Len(recordLog'[n]) = size + 1 /\ recordLog'[n][size + 1] = e.val
          /\ \A p \in 1 .. size : recordLog'[n][p] = recordLog[n][p]
      <3>1. recordLog'[n] = Append(recordLog[n], e.val)
        BY <1>1, <1>4, <1>10
      <3> DEFINE v == e.val
                 s == recordLog[n]
      <3>2. v \in Records \cup {Hole} /\ s \in Seq(Records \cup {Hole})
        BY <1>3, <2>1
      <3> HIDE DEF v, s
      <3>3. /\ Len(Append(s, v)) = Len(s) + 1 /\ Append(s, v)[Len(s) + 1] = v
            /\ \A k \in 1 .. Len(s) : Append(s, v)[k] = s[k]
        BY <3>2
      <3> QED
        BY <3>1, <3>3 DEF s, v
    <2>3. new = old \cup {index}
      <3>1. index \in new
        BY <1>3, <1>5, <1>10 DEF CommandsCommitted
      <3>2. old \subseteq new /\ \A k \in new : k \in old \/ k = index
        BY <1>3 DEF CommandsCommitted
      <3> QED
        BY <3>1, <3>2
    <2>4. Cardinality(new) = size + 1
      BY <1>6, <2>3, FS_AddElement
    <2> HIDE DEF e, index, size, old, new
    <2>5. ASSUME NEW m \in Nodes, status[m] = "up"
          PROVE  Len(recordLog'[m]) = Cardinality(CommandsCommitted(applied'[m]))
      <3>1. CASE m = n
        BY <1>8, <2>2, <2>4, <3>1 DEF new
      <3>2. CASE m # n
        BY <1>2, <1>7, <2>5, <3>2 DEF SizeIsRank
      <3> QED
        BY <3>1, <3>2
    <2>6. ASSUME NEW m \in Nodes, NEW p \in 1 .. Len(recordLog'[m])
          PROVE  Ranked(recordLog'[m][p], p)
      <3>1. CASE m = n /\ p = size + 1
        <4>1. recordLog'[m][p] = c.entry.val /\ c.entry.type = "command"
          BY <1>5, <1>10, <2>2, <3>1
        <4>2. Cardinality(CommandsCommitted(c.index)) = p
          BY <1>5, <2>4, <3>1 DEF new
        <4> QED
          BY <4>1, <4>2 DEF Ranked
      <3>2. CASE m = n /\ p # size + 1
        <4>1. p \in 1 .. size
          BY <1>3, <2>2, <3>2
        <4>2. p \in 1 .. Len(recordLog[n]) /\ recordLog'[n][p] = recordLog[n][p]
          BY <2>2, <4>1 DEF size
        <4> QED
          BY <1>2, <3>2, <4>2 DEF RecordsRanked
      <3>3. CASE m # n
        BY <1>2, <1>7, <3>3 DEF RecordsRanked
      <3> QED
        BY <3>1, <3>2, <3>3
    <2>7. ASSUME NEW a \in acked'
          PROVE  \E m \in Nodes : /\ a.off + 1 \in 1 .. Len(recordLog'[m])
                                  /\ recordLog'[m][a.off + 1] = a.val
      <3>1. CASE a \in acked
        <4>1. PICK m \in Nodes : /\ a.off + 1 \in 1 .. Len(recordLog[m])
                                 /\ recordLog[m][a.off + 1] = a.val
          BY <1>2, <3>1 DEF AnswersKept
        <4>2. CASE m # n
          BY <1>7, <4>1, <4>2
        <4>3. CASE m = n
          <5>1. a.off + 1 \in 1 .. size
            BY <4>1, <4>3 DEF size
          <5>2. a.off + 1 \in 1 .. Len(recordLog'[n])
            BY <1>3, <2>2, <5>1
          <5> QED
            BY <2>2, <4>1, <4>3, <5>1, <5>2
        <4> QED
          BY <4>2, <4>3
      <3>2. CASE a = [off |-> size, val |-> e.val]
        <4>1. a.off = size /\ a.val = e.val
          BY <3>2
        <4>2. size + 1 \in 1 .. Len(recordLog'[n])
          BY <1>3, <2>2
        <4> QED
          BY <2>2, <4>1, <4>2
      <3> QED
        BY <1>1, <3>1, <3>2
    <2>8. SizeIsRank'
      BY <1>1, <1>9, <2>5 DEF SizeIsRank
    <2>9. RecordsRanked'
      BY <1>1, <1>9, <2>6 DEF RecordsRanked, Ranked
    <2>10. AnswersKept'
      BY <2>7 DEF AnswersKept
    <2> QED
      BY <2>8, <2>9, <2>10
  <1>11. CASE e.type # "command"
    <2>1. recordLog' = recordLog
      BY <1>1, <1>11
    <2>2. new = old
      <3>1. index \notin new
        BY <1>2, <1>5, <1>11 DEF CommandsCommitted, CommittedOnce
      <3>2. old \subseteq new /\ \A k \in new : k \in old \/ k = index
        BY <1>3 DEF CommandsCommitted
      <3> QED
        BY <3>1, <3>2
    <2>3. acked' = acked
      <3>1. index \notin waiting[n]
        BY <1>2, <1>11 DEF IInv, WaitingOK
      <3> QED
        BY <1>1, <3>1
    <2>4. SizeIsRank'
      <3>1. ASSUME NEW m \in Nodes, status[m] = "up"
            PROVE  Len(recordLog[m]) = Cardinality(CommandsCommitted(applied'[m]))
        <4>1. CASE m = n
          BY <1>6, <1>8, <2>2, <4>1
        <4>2. CASE m # n
          BY <1>2, <1>7, <3>1, <4>2 DEF SizeIsRank
        <4> QED
          BY <4>1, <4>2
      <3> QED
        BY <1>1, <1>9, <2>1, <3>1 DEF SizeIsRank
    <2>5. RecordsRanked' /\ AnswersKept'
      BY <1>1, <1>2, <1>9, <2>1, <2>3 DEF RecordsRanked, Ranked, AnswersKept
    <2> QED
      BY <2>4, <2>5
  <1> QED
    BY <1>10, <1>11

LEMMA AgreeKept ==
    ASSUME MaxRestarts = 0
    PROVE  AgreeInv /\ [Next]_vars => AgreeInv'
  <1> SUFFICES ASSUME AgreeInv, [Next]_vars PROVE AgreeInv'
    OBVIOUS
  <1>1. IInv /\ OrderInv /\ RaftOK
    BY DEF AgreeInv, OrderInv
  <1>2. OrderInv' /\ RaftOK' /\ IInv'
    BY <1>1, OrderKept, RaftKept DEF OrderInv
  <1>3. CommittedOnce' /\ NoGaps' /\ CommitIsCommitted'
    BY <1>2, CommittedAgrees
  <1>4. /\ committed \subseteq committed'
        /\ \A m \in Nodes : status'[m] = "up" => status[m] = "up"
    BY <1>1, UpStays
  <1>5. SizeIsRank' /\ RecordsRanked' /\ AnswersKept'
    BY <1>1, <1>3, <1>4, ApplySteps, FsmApplyAgrees, SameRecordsAgree
  <1> QED
    BY <1>2, <1>3, <1>5 DEF AgreeInv

(* While no process is restarted, no two record logs differ at an offset,  *)
(* and an answer names the record that each of them has there              *)
(* (distributed.go, Append and Apply), for any nodes, elections, conflicts *)
(* and bounds.                                                             *)
THEOREM ReplicationReplicasAgree ==
    ASSUME MaxRestarts = 0
    PROVE  Spec => []ReplicasAgree
  <1>1. ASSUME AgreeInv PROVE ReplicasAgree
    <2>1. RecordsRanked /\ AnswersKept /\ IInv
      BY <1>1 DEF AgreeInv, OrderInv
    <2>2. \A m \in Nodes : DOMAIN recordLog[m] = 1 .. Len(recordLog[m])
      BY <2>1, Shapes
    <2>3. ASSUME NEW m \in Nodes, NEW n \in Nodes,
                 NEW i, i \in DOMAIN recordLog[m], i \in DOMAIN recordLog[n]
          PROVE  recordLog[m][i] = recordLog[n][i]
      <3>1. Ranked(recordLog[m][i], i) /\ Ranked(recordLog[n][i], i)
        BY <2>1, <2>2, <2>3 DEF RecordsRanked
      <3> QED
        BY <1>1, <3>1, RankDecides
    <2>4. ASSUME NEW m \in Nodes, NEW a \in acked, a.off + 1 \in DOMAIN recordLog[m]
          PROVE  recordLog[m][a.off + 1] = a.val
      <3>1. PICK n \in Nodes : /\ a.off + 1 \in 1 .. Len(recordLog[n])
                               /\ recordLog[n][a.off + 1] = a.val
        BY <2>1 DEF AnswersKept
      <3> QED
        BY <2>2, <2>3, <2>4, <3>1
    <2> QED
      BY <2>3, <2>4 DEF ReplicasAgree
  <1>2. AgreeInv /\ [Next]_vars => AgreeInv'
    BY AgreeKept
  <1> QED
    BY <1>1, <1>2, AgreeInitially, PTL DEF Spec
=============================================================================
