---------------------------- MODULE Replication ----------------------------
(***************************************************************************)
(* The replicated log of internal/log/distributed.go: on every node a raft *)
(* log (logStore), a state machine that appends the committed commands to  *)
(* the record log (fsm), and the client calls between the two.             *)
(*                                                                         *)
(* Raft itself is the library hashicorp/raft: its elections, its           *)
(* replication and its commit rule are modelled from the calls this code   *)
(* gives it, one exchange of messages per step, a quorum of votes at a     *)
(* time.  All nodes are voters from the start (membership is a module of   *)
(* its own) and each log begins with the configuration entry that          *)
(* BootstrapCluster wrote.  Snapshots are not taken: raft takes none       *)
(* before 8192 entries.  What a crash does to the files of a log is the    *)
(* subject of CommitLog and comes in here through Recovered.               *)
(***************************************************************************)
EXTENDS Naturals, Sequences, FiniteSets

CONSTANTS
    Nodes,
    First,       \* the node with Config.Raft.Bootstrap, leader of term 1
    Records,     \* the record values that clients append
    NoRecord,    \* the value of an entry that is no command
    Hole,        \* an offset of a recovered log whose record cannot be read
    MaxTerm,     \* bound on elections
    MaxIndex,    \* bound on the length of a raft log
    MaxRestarts  \* bound on the restarts, all nodes together

ASSUME ReplicationAssumption ==
    /\ IsFiniteSet(Nodes) /\ First \in Nodes
    /\ NoRecord \notin Records /\ Hole \notin Records
    /\ MaxTerm \in Nat \ {0} /\ MaxIndex \in Nat /\ MaxRestarts \in Nat

VARIABLES
    raftLog,    \* the entries of the logStore; the position is the index
    recordLog,  \* the records of the Log; the offset is one below the position
    term, role, commit, applied,  \* raft's state
    waiting,    \* the indexes whose Append call waits for its future
    status,     \* the process
    restarts,   \* how much of the bound is used
    acked,      \* history: offset and record of the Appends that succeeded
    committed   \* history: index, entry and term of each commitment

raft    == <<term, role, commit, applied>>
history == <<acked, committed>>
vars    == <<raftLog, recordLog, raft, waiting, status, restarts, history>>

Entry(t, type, val) == [term |-> t, type |-> type, val |-> val]

Entries == [term : 1 .. MaxTerm, type : {"config", "noop", "command"},
            val : Records \cup {NoRecord}]

Quorums == {Q \in SUBSET Nodes : 2 * Cardinality(Q) > Cardinality(Nodes)}

-----------------------------------------------------------------------------
(* raft.LogStore over a Log whose first offset is 1.                       *)

LastIndex(entries) == Len(entries)

GetLog(entries, index) == entries[index]

(* The index that raft gave the entry is not looked at: the Log picks the  *)
(* next offset.                                                            *)
StoreLog(entries, e) == Append(entries, e)

(* Mutant: one entry too many, and the rest stays.                         *)
DeleteRangeOneMore(entries, min, max) == SubSeq(entries, 1, min - 2)

(* Mutant: nothing is deleted.                                             *)
DeleteRangeNothing(entries, min, max) == entries

(* What is left after DeleteRange(min, max) with max the last index, as a  *)
(* follower calls it.  min is ignored: Truncate(max) removes each segment  *)
(* that ends at max or below, which is all of them.                        *)
DeleteRange(entries, min, max) == SubSeq(entries, max + 1, LastIndex(entries))

(* The term and the index of the last entry decide who may lead.           *)
LastTerm(entries) == IF entries = <<>> THEN 0 ELSE entries[Len(entries)].term

UpToDate(mine, yours) ==
    \/ LastTerm(mine) > LastTerm(yours)
    \/ LastTerm(mine) = LastTerm(yours) /\ LastIndex(mine) >= LastIndex(yours)

-----------------------------------------------------------------------------
(* Raft: elections and replication.                                        *)

(* A candidate with a configuration gets the votes of a quorum in a term   *)
(* that is new to all of it, and appends a no-op.                          *)
Elect(n, Q) ==
    LET old == CHOOSE t \in {term[q] : q \in Q} : \A q \in Q : term[q] <= t
    IN  /\ n \in Q /\ role[n] = "follower"
        /\ \A q \in Q : status[q] = "up" /\ UpToDate(raftLog[n], raftLog[q])
        /\ raftLog[n] # <<>>
        /\ old < MaxTerm /\ LastIndex(raftLog[n]) < MaxIndex
        /\ term' = [q \in Nodes |-> IF q \in Q THEN old + 1 ELSE term[q]]
        /\ role' = [q \in Nodes |-> IF q = n THEN "leader"
                                    ELSE IF q \in Q THEN "follower" ELSE role[q]]
        /\ waiting' = [q \in Nodes |-> IF q \in Q THEN {} ELSE waiting[q]]
        /\ raftLog' = [raftLog EXCEPT ![n] = StoreLog(@, Entry(old + 1, "noop", NoRecord))]
        /\ UNCHANGED <<recordLog, commit, applied, status, restarts, history>>

(* A leader that hears of a higher term gives up and fails its futures.    *)
StepDown(n) ==
    /\ status[n] = "up" /\ role[n] = "leader"
    /\ \E m \in Nodes : status[m] = "up" /\ term[m] > term[n]
    /\ role' = [role EXCEPT ![n] = "follower"]
    /\ waiting' = [waiting EXCEPT ![n] = {}]
    /\ UNCHANGED <<raftLog, recordLog, term, commit, applied, status, restarts, history>>

(* The last index up to which the follower's log is the leader's.          *)
Matching(mine, yours) ==
    LET common == {i \in DOMAIN mine \cap DOMAIN yours : mine[i].term = yours[i].term}
    IN  CHOOSE i \in common \cup {0} : \A j \in common : j <= i

Replicates(l, f) ==
    /\ l # f /\ status[l] = "up" /\ status[f] = "up"
    /\ role[l] = "leader" /\ term[f] <= term[l]

Follow(l, f) ==
    /\ term' = [term EXCEPT ![f] = term[l]]
    /\ role' = [role EXCEPT ![f] = "follower"]
    /\ waiting' = [waiting EXCEPT ![f] = IF role[f] = "leader" THEN {} ELSE @]

(* appendEntries at a follower: the entry after the matching ones is       *)
(* stored, after what is in its place was deleted.                         *)
Stored(l, f) ==
    LET prev == Matching(raftLog[l], raftLog[f])
        last == LastIndex(raftLog[f])
    IN  IF last > prev THEN DeleteRange(raftLog[f], prev + 1, last) ELSE raftLog[f]

Sends(l, f) == Matching(raftLog[l], raftLog[f]) < LastIndex(raftLog[l])

(* StoreLogs asks an empty list of segments for its highest offset.        *)
Panics(l, f) == Stored(l, f) = <<>> /\ raftLog[f] # <<>>

Replicate(l, f) ==
    /\ Replicates(l, f) /\ Sends(l, f) /\ ~Panics(l, f)
    /\ LastIndex(Stored(l, f)) < MaxIndex
    /\ LET next == Matching(raftLog[l], raftLog[f]) + 1
       IN  raftLog' = [raftLog EXCEPT ![f] =
                          StoreLog(Stored(l, f), GetLog(raftLog[l], next))]
    /\ Follow(l, f)
    /\ UNCHANGED <<recordLog, commit, applied, status, restarts, history>>

(* The segments of the raft log are removed and the process panics.        *)
ReplicatePanic(l, f) ==
    /\ Replicates(l, f) /\ Sends(l, f) /\ Panics(l, f)
    /\ raftLog' = [raftLog EXCEPT ![f] = <<>>]
    /\ Follow(l, f)
    /\ status' = [status EXCEPT ![f] = "panicked"]
    /\ UNCHANGED <<recordLog, commit, applied, restarts, history>>

(* With nothing to send, the follower learns the term and the commit index *)
(* of the leader, bounded by what it has.                                  *)
ReplicateCommit(l, f) ==
    LET prev == Matching(raftLog[l], raftLog[f])
        new  == IF commit[l] < prev THEN commit[l] ELSE prev
    IN  /\ Replicates(l, f) /\ ~Sends(l, f)
        /\ commit[f] < new \/ term[f] < term[l]
        /\ commit' = [commit EXCEPT ![f] = IF @ < new THEN new ELSE @]
        /\ Follow(l, f)
        /\ UNCHANGED <<raftLog, recordLog, applied, status, restarts, history>>

(* An entry of the leader's own term that a quorum stores is committed.    *)
Commit(l, index) ==
    /\ status[l] = "up" /\ role[l] = "leader"
    /\ commit[l] < index /\ index <= LastIndex(raftLog[l])
    /\ raftLog[l][index].term = term[l]
    /\ \E Q \in Quorums : \A q \in Q :
          /\ term[q] = term[l]
          /\ index <= LastIndex(raftLog[q]) /\ raftLog[q][index] = raftLog[l][index]
    /\ commit' = [commit EXCEPT ![l] = index]
    /\ committed' = committed \cup
          {[index |-> i, entry |-> raftLog[l][i], term |-> term[l]] : i \in commit[l] + 1 .. index}
    /\ UNCHANGED <<raftLog, recordLog, term, role, applied, waiting, status, restarts, acked>>

-----------------------------------------------------------------------------
(* DistributedLog.Append: raft.Apply stores the command on the leader and  *)
(* the call waits for the future; any other node answers ErrNotLeader.     *)
DistributedAppend(n, r) ==
    /\ status[n] = "up" /\ role[n] = "leader"
    /\ LastIndex(raftLog[n]) < MaxIndex
    /\ raftLog' = [raftLog EXCEPT ![n] = StoreLog(@, Entry(term[n], "command", r))]
    /\ waiting' = [waiting EXCEPT ![n] = @ \cup {LastIndex(raftLog[n]) + 1}]
    /\ UNCHANGED <<recordLog, raft, status, restarts, history>>

(* Mutant: every entry is taken for a command.                             *)
IsCommandAll(e) == TRUE

(* raft gives the state machine the commands only, and of those Apply      *)
(* knows one type, the append.                                             *)
IsCommand(e) == e.type = "command"

(* fsm.Apply and applyAppend, and the answer of the future to the call     *)
(* that waits for it: the offset that the record log of this node gave.    *)
FsmApply(n) ==
    LET index == applied[n] + 1
        e     == GetLog(raftLog[n], index)
    IN  /\ status[n] = "up" /\ applied[n] < commit[n]
        /\ applied' = [applied EXCEPT ![n] = index]
        /\ IF IsCommand(e)
           THEN recordLog' = [recordLog EXCEPT ![n] = Append(@, e.val)]
           ELSE UNCHANGED recordLog
        /\ acked' = IF index \in waiting[n]
                    THEN acked \cup {[off |-> Len(recordLog[n]), val |-> e.val]}
                    ELSE acked
        /\ waiting' = [waiting EXCEPT ![n] = @ \ {index}]
        /\ UNCHANGED <<raftLog, term, role, commit, status, restarts, committed>>

-----------------------------------------------------------------------------
(* The log after the process died.  Each segment may have lost what bufio  *)
(* held, and a padded index ends a segment one offset after its base, or   *)
(* reaches to entries whose records are gone: any records may be missing   *)
(* below the highest offset, and that is at most one higher than it was.   *)
Recovered(records) ==
    {[i \in 1 .. k |-> IF i \in kept THEN records[i] ELSE Hole] :
        k \in 0 .. Len(records) + 1, kept \in SUBSET DOMAIN records}

(* DistributedLog.Close: raft first, then both logs.                       *)
Close(n) ==
    /\ status[n] = "up"
    /\ restarts < MaxRestarts
    /\ status' = [status EXCEPT ![n] = "closed"]
    /\ waiting' = [waiting EXCEPT ![n] = {}]
    /\ role' = [role EXCEPT ![n] = "follower"]
    /\ UNCHANGED <<raftLog, recordLog, term, commit, applied, restarts, history>>

(* Mutant: what is in the raft log is taken for applied.                   *)
LastAppliedStored(n) == LastIndex(raftLog[n])

(* With no snapshot, raft hands a new process every entry from the first.  *)
LastApplied(n) == 0

(* NewDistributedLog: setupLog opens the record log as it is, and          *)
(* setupRaft starts raft over the log and the term in the stable store.    *)
NewDistributedLog(n) ==
    /\ status[n] \in {"closed", "panicked"}
    /\ restarts < MaxRestarts
    /\ restarts' = restarts + 1
    /\ IF status[n] = "closed"
       THEN UNCHANGED recordLog
       ELSE \E records \in Recovered(recordLog[n]) :
               recordLog' = [recordLog EXCEPT ![n] = records]
    /\ status' = [status EXCEPT ![n] = "up"]
    /\ commit' = [commit EXCEPT ![n] = 0]
    /\ applied' = [applied EXCEPT ![n] = LastApplied(n)]
    /\ UNCHANGED <<raftLog, term, role, waiting, history>>

-----------------------------------------------------------------------------
Init ==
    /\ raftLog = [n \in Nodes |-> <<Entry(1, "config", NoRecord)>>]
    /\ recordLog = [n \in Nodes |-> <<>>]
    /\ term = [n \in Nodes |-> 1]
    /\ role = [n \in Nodes |-> IF n = First THEN "leader" ELSE "follower"]
    /\ commit = [n \in Nodes |-> 1] /\ applied = [n \in Nodes |-> 1]
    /\ waiting = [n \in Nodes |-> {}]
    /\ status = [n \in Nodes |-> "up"]
    /\ restarts = 0
    /\ acked = {}
    /\ committed = {[index |-> 1, entry |-> Entry(1, "config", NoRecord), term |-> 1]}

Exchange(l, f) == Replicate(l, f) \/ ReplicatePanic(l, f) \/ ReplicateCommit(l, f)

Next ==
    \/ \E n \in Nodes :
          \/ \E Q \in Quorums : Elect(n, Q)
          \/ StepDown(n)
          \/ \E index \in 1 .. MaxIndex : Commit(n, index)
          \/ \E r \in Records : DistributedAppend(n, r)
          \/ FsmApply(n)
          \/ Close(n) \/ NewDistributedLog(n)
    \/ \E l, f \in Nodes : Exchange(l, f)

Spec == Init /\ [][Next]_vars

(* raft's goroutines keep running while the process does: a leader         *)
(* replicates to each follower and commits what a quorum has, and the      *)
(* goroutine of the state machine applies what is committed.  Nothing is   *)
(* assumed of elections or of clients.                                     *)
Fairness ==
    /\ \A l, f \in Nodes : WF_vars(Exchange(l, f))
    /\ \A n \in Nodes : /\ WF_vars(\E index \in 1 .. MaxIndex : Commit(n, index))
                        /\ WF_vars(FsmApply(n))

FairSpec == Spec /\ Fairness

-----------------------------------------------------------------------------
(* Shape of the state.                                                     *)
TypeOK ==
    /\ raftLog \in [Nodes -> Seq(Entries)]
    /\ recordLog \in [Nodes -> Seq(Records \cup {Hole})]
    /\ term \in [Nodes -> 1 .. MaxTerm]
    /\ role \in [Nodes -> {"leader", "follower"}]
    /\ commit \in [Nodes -> Nat] /\ applied \in [Nodes -> Nat]
    /\ waiting \in [Nodes -> SUBSET Nat]
    /\ status \in [Nodes -> {"up", "closed", "panicked"}]
    /\ restarts \in 0 .. MaxRestarts
    /\ acked \subseteq [off : Nat, val : Records]
    /\ committed \subseteq [index : Nat, entry : Entries, term : 1 .. MaxTerm]

(* The record at an offset is the same on every node that has it, and is   *)
(* the one whose Append answered that offset (distributed.go, applyAppend; *)
(* what TestMultipleNodes reads on each node).                             *)
ReplicasAgree ==
    \A m \in Nodes :
        /\ \A n \in Nodes : \A i \in DOMAIN recordLog[m] \cap DOMAIN recordLog[n] :
              recordLog[m][i] = recordLog[n][i]
        /\ \A a \in acked :
              a.off + 1 \in DOMAIN recordLog[m] => recordLog[m][a.off + 1] = a.val

(* What was committed in a term is in the log of every leader of that term *)
(* and the later ones: what raft needs of its log store (distributed.go,   *)
(* StoreLogs and DeleteRange) to never lose an acknowledged record.        *)
LeaderComplete ==
    \A n \in Nodes : status[n] = "up" /\ role[n] = "leader" =>
        \A c \in committed :
            c.term <= term[n] =>
                c.index <= LastIndex(raftLog[n]) /\ raftLog[n][c.index] = c.entry

CommandsUpTo(entries, index) == {i \in 1 .. index : entries[i].type = "command"}

(* Whatever restarts came before, the record log of a node ends with the   *)
(* commands this process applied, in raft's order, none left out and       *)
(* nothing put between them (distributed.go, Apply and GetLog).            *)
EndsWithApplied(n) ==
    LET commands == CommandsUpTo(raftLog[n], applied[n])
        older    == Len(recordLog[n]) - Cardinality(commands)
    IN  /\ older >= 0
        /\ \A i \in commands :
              recordLog[n][older + Cardinality({j \in commands : j <= i})] = raftLog[n][i].val

AppliedInOrder == \A n \in Nodes : status[n] = "up" => EndsWithApplied(n)

Commands(entries) ==
    LET command == SelectSeq(entries, LAMBDA e : e.type = "command")
    IN  [i \in DOMAIN command |-> command[i].val]

EndsWith(s, t) ==
    Len(t) <= Len(s) /\ SubSeq(s, Len(s) - Len(t) + 1, Len(s)) = t

(* While one leader stays, the record log of every node that stays up ends *)
(* with all that the leader committed (distributed.go, Apply and           *)
(* StoreLogs; the require.Eventually of TestMultipleNodes).                *)
Leads(l) ==
    status[l] = "up" /\ role[l] = "leader" /\ \A n \in Nodes : term[n] <= term[l]

EventuallyReplicated ==
    \A l, n \in Nodes :
        <>[](Leads(l) /\ status[n] = "up") =>
            <>[](EndsWith(recordLog[n], Commands(SubSeq(raftLog[l], 1, commit[l]))))
=============================================================================
