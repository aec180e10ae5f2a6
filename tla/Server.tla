-------------------------------- MODULE Server ------------------------------
(***************************************************************************)
(* The gRPC server of every node, internal/server/server.go: the streams   *)
(* that produce to its distributed log and consume from it.  One goroutine *)
(* runs each stream; many streams share the log, which grows under them,   *)
(* lags on followers and changes its leader.                               *)
(*                                                                         *)
(* What Replication shows of the log is taken for granted: committed       *)
(* records have one order, and a node has the first so many of them.  A    *)
(* unary Produce or Consume is one turn of the loop of a stream.           *)
(***************************************************************************)
EXTENDS Naturals, Sequences, FiniteSets

CONSTANTS
    Nodes,
    First,      \* the leader at the beginning
    Producers,  \* ProduceStream calls
    Consumers,  \* ConsumeStream calls
    MaxOffset,  \* bound: no record is sent when the log may pass this offset
    MaxMoves    \* bound on the changes of leader

ASSUME ServerAssumption ==
    /\ First \in Nodes
    /\ MaxOffset \in Nat /\ MaxMoves \in Nat

VARIABLES
    log,       \* the committed records, the one at offset o in place o + 1
    have,      \* how many of them the record log of each node has
    leader, moves,
    policy,    \* the streams whose subject may do what they do, by the ACL
    producer,  \* each ProduceStream
    consumer   \* each ConsumeStream

cluster == <<log, have, leader, moves, policy>>
vars    == <<cluster, producer, consumer>>

(* A record is told from every other by the stream and its number on it:   *)
(* a client that tries again on another stream sends another record,       *)
(* whatever is written in it.                                              *)
Records == [from : Producers, nr : Nat]

(* pos is the place in the log of the record that was committed; the       *)
(* client takes the answers in acks, offsets, for those to what it sent,   *)
(* one after the other.                                                    *)
Producer == [node : Nodes, state : {"idle", "recv", "apply", "lost", "committed", "error"},
             sent : Seq(Records), acks : Seq(Nat), pos : Nat]

(* offset is req.Offset, which ConsumeStream counts up.                    *)
Consumer == [node : Nodes, state : {"idle", "read", "send", "cancelled", "error"},
             start : Nat, offset : Nat, got : Seq(Records)]

Last(s) == s[Len(s)]

(* authenticate puts the common name into the context of the stream, and   *)
(* Authorize asks the policy, a file read once, about it on every turn.    *)
Authorize(stream) == stream \in policy

-----------------------------------------------------------------------------
(* The cluster: the record log of a node gets the next record; leadership  *)
(* moves, and the entries of the old leader that were not committed are    *)
(* with the new one, in some order of their producers, or lost.            *)

(* Mutant: the record is appended twice.                                   *)
ApplyNextTwice(n) ==
    /\ have[n] < Len(log)
    /\ have' = [have EXCEPT ![n] = @ + 2]
    /\ UNCHANGED <<log, leader, moves, policy, producer, consumer>>

ApplyNext(n) ==
    /\ have[n] < Len(log)
    /\ have' = [have EXCEPT ![n] = @ + 1]
    /\ UNCHANGED <<log, leader, moves, policy, producer, consumer>>

Undecided(n) == {p \in Producers : producer[p].state = "apply" /\ producer[p].node # n}

Elect(n, survivors) ==
    /\ n # leader /\ moves < MaxMoves
    /\ moves' = moves + 1
    /\ leader' = n
    /\ log' = log \o [i \in DOMAIN survivors |-> Last(producer[survivors[i]].sent)]
    /\ producer' = [p \in Producers |->
                      IF p \in Undecided(n) THEN [producer[p] EXCEPT !.state = "lost"]
                                            ELSE producer[p]]
    /\ UNCHANGED <<have, policy, consumer>>

(* The undecided producers in some order, each at most once.               *)
Survivors(n) ==
    {s \in UNION {[1 .. k -> Undecided(n)] : k \in 0 .. Cardinality(Undecided(n))} :
        \A i, j \in DOMAIN s : s[i] = s[j] => i = j}

Commit(p) ==
    /\ producer[p].state = "apply" /\ producer[p].node = leader
    /\ log' = Append(log, Last(producer[p].sent))
    /\ producer' = [producer EXCEPT ![p].state = "committed", ![p].pos = Len(log) + 1]
    /\ UNCHANGED <<have, leader, moves, policy, consumer>>

-----------------------------------------------------------------------------
(* ProduceStream: Recv, Produce, Send, over and over.                      *)

OpenProduce(p, n) ==
    /\ producer[p].state = "idle"
    /\ producer' = [producer EXCEPT ![p].state = "recv", ![p].node = n]
    /\ UNCHANGED <<cluster, consumer>>

Bounded ==
    Len(log) + Cardinality({p \in Producers : producer[p].state = "apply"}) <= MaxOffset

(* Recv and Produce up to raft.Apply: not allowed, or not the leader, is   *)
(* the end of the stream, and so is a leader that does not take the record *)
(* in time (ErrEnqueueTimeout).  A leader that was deposed and does not    *)
(* know it takes the record, which is lost.                                *)
ProduceRecv(p) ==
    /\ producer[p].state = "recv" /\ Bounded
    /\ \E state \in IF ~Authorize(p) THEN {"error"}
                    ELSE IF producer[p].node = leader THEN {"apply", "error"}
                    ELSE {"lost", "error"} :
          producer' = [producer EXCEPT
             ![p].state = state,
             ![p].sent  = Append(@, [from |-> p, nr |-> Len(@) + 1])]
    /\ UNCHANGED <<cluster, consumer>>

(* Mutant: the loop goes on after an error.                                *)
ProduceFailsContinue(p) ==
    /\ producer[p].state = "lost"
    /\ producer' = [producer EXCEPT ![p].state = "recv"]
    /\ UNCHANGED <<cluster, consumer>>

(* The future fails when the leader steps down, whatever becomes of the    *)
(* record, and the error ends the stream.                                  *)
ProduceFails(p) ==
    /\ producer[p].state = "lost"
    /\ producer' = [producer EXCEPT ![p].state = "error"]
    /\ UNCHANGED <<cluster, consumer>>

Answer(p, offset) ==
    /\ producer' = [producer EXCEPT ![p].state = "recv", ![p].acks = Append(@, offset)]
    /\ UNCHANGED <<cluster, consumer>>

(* Mutant: the answer is the highest offset at that moment.                *)
ProduceSendHighest(p) ==
    /\ producer[p].state = "committed"
    /\ have[producer[p].node] >= producer[p].pos
    /\ Answer(p, have[producer[p].node] - 1)

(* The FSM of this node applied the record; its answer is the offset.      *)
ProduceSend(p) ==
    /\ producer[p].state = "committed"
    /\ have[producer[p].node] >= producer[p].pos
    /\ Answer(p, producer[p].pos - 1)

-----------------------------------------------------------------------------
(* ConsumeStream: the context, Consume, Send, and the next offset.  A turn *)
(* that finds the offset out of range changes nothing and is repeated.     *)

OpenConsume(s, n, offset) ==
    /\ consumer[s].state = "idle"
    /\ consumer' = [consumer EXCEPT ![s] =
                      [node |-> n, state |-> "read", start |-> offset,
                       offset |-> offset, got |-> <<>>]]
    /\ UNCHANGED <<cluster, producer>>

Cancel(s) ==
    /\ consumer[s].state \in {"read", "send"}
    /\ consumer' = [consumer EXCEPT ![s].state = "cancelled"]
    /\ UNCHANGED <<cluster, producer>>

OutOfRange(s) == consumer[s].offset >= have[consumer[s].node]

(* Mutant: an offset out of range ends the stream like any other error.    *)
ConsumeReadEnds(s) ==
    /\ consumer[s].state = "read"
    /\ consumer' = [consumer EXCEPT ![s].state =
                      IF OutOfRange(s) THEN "error" ELSE "send"]
    /\ UNCHANGED <<cluster, producer>>

(* Mutant: the offset is counted up although nothing was read.             *)
ConsumeReadSkips(s) ==
    /\ consumer[s].state = "read" /\ consumer[s].offset <= MaxOffset
    /\ consumer' = [consumer EXCEPT
          ![s].state  = IF OutOfRange(s) THEN "read" ELSE "send",
          ![s].offset = IF OutOfRange(s) THEN @ + 1 ELSE @]
    /\ UNCHANGED <<cluster, producer>>

ConsumeRead(s) ==
    /\ consumer[s].state = "read"
    /\ Authorize(s) => ~OutOfRange(s)
    /\ consumer' = [consumer EXCEPT ![s].state =
                      IF Authorize(s) THEN "send" ELSE "error"]
    /\ UNCHANGED <<cluster, producer>>

ConsumeSend(s) ==
    /\ consumer[s].state = "send"
    /\ consumer' = [consumer EXCEPT ![s].state = "read",
                                    ![s].got = Append(@, log[consumer[s].offset + 1]),
                                    ![s].offset = @ + 1]
    /\ UNCHANGED <<cluster, producer>>
-----------------------------------------------------------------------------
Init ==
    /\ log = <<>> /\ have = [n \in Nodes |-> 0]
    /\ leader = First /\ moves = 0
    /\ policy \in SUBSET (Producers \cup Consumers)
    /\ producer = [p \in Producers |->
                     [node |-> First, state |-> "idle", sent |-> <<>>, acks |-> <<>>, pos |-> 0]]
    /\ consumer = [s \in Consumers |->
                     [node |-> First, state |-> "idle", start |-> 0, offset |-> 0, got |-> <<>>]]

Produces(p) == Commit(p) \/ ProduceFails(p) \/ ProduceSend(p)

Consumes(s) == ConsumeRead(s) \/ ConsumeSend(s)

Next ==
    \/ \E n \in Nodes :
          \/ ApplyNext(n)
          \/ \E survivors \in Survivors(n) : Elect(n, survivors)
          \/ \E p \in Producers : OpenProduce(p, n)
          \/ \E s \in Consumers, offset \in 0 .. MaxOffset : OpenConsume(s, n, offset)
    \/ \E p \in Producers : Produces(p) \/ ProduceRecv(p)
    \/ \E s \in Consumers : Consumes(s) \/ Cancel(s)

Spec == Init /\ [][Next]_vars

(* The handlers run; raft commits what its leader has or fails the future, *)
(* and every node comes to apply what is committed (EventuallyReplicated   *)
(* of Replication).  Clients need not send, open or cancel anything, but   *)
(* they take what is sent to them: Send waits when gRPC's flow control has *)
(* no room, so that a client that never reads holds its stream.            *)
FairSpec ==
    /\ Spec
    /\ \A n \in Nodes : WF_vars(ApplyNext(n))
    /\ \A p \in Producers : WF_vars(Produces(p))
    /\ \A s \in Consumers : WF_vars(Consumes(s))

-----------------------------------------------------------------------------
(* Shape of the state.                                                     *)
TypeOK ==
    /\ log \in Seq(Records) /\ have \in [Nodes -> 0 .. Len(log)]
    /\ leader \in Nodes /\ moves \in 0 .. MaxMoves
    /\ policy \subseteq Producers \cup Consumers
    /\ producer \in [Producers -> Producer] /\ consumer \in [Consumers -> Consumer]

(* A stream delivers the records of consecutive offsets from the one asked *)
(* for, each once and each the one that was produced there, from whatever  *)
(* node and however far that node is behind (server.go, ConsumeStream).    *)
StreamGapless ==
    \A s \in Consumers :
        LET c == consumer[s]
        IN  /\ c.offset = c.start + Len(c.got)
            /\ \A i \in DOMAIN c.got :
                  c.start + i <= Len(log) /\ c.got[i] = log[c.start + i]

(* The i-th answer of a stream is the offset of the i-th record sent on it *)
(* and of no copy that was sent on another stream, answers increase, and   *)
(* no two streams get the same offset, whatever other streams and changes  *)
(* of leader come between (server.go, ProduceStream and Produce).          *)
AcksTrue ==
    \A p \in Producers :
        LET acks == producer[p].acks
        IN  \A i \in DOMAIN acks :
              /\ i <= Len(producer[p].sent) /\ acks[i] < Len(log)
              /\ log[acks[i] + 1] = producer[p].sent[i]
              /\ \A j \in 1 .. i - 1 : acks[j] < acks[i]
              /\ \A q \in Producers \ {p} : \A j \in DOMAIN producer[q].acks :
                    producer[q].acks[j] # acks[i]

(* A stream gets past every offset that comes to exist: waiting for one is *)
(* no error, and only the client or the policy ends the stream (server.go, *)
(* ConsumeStream).                                                         *)
StreamDelivers ==
    \A s \in Consumers : s \in policy =>
        \A o \in 0 .. MaxOffset :
            consumer[s].state \in {"read", "send"} /\ consumer[s].start <= o /\ o < Len(log)
                ~> consumer[s].offset > o \/ consumer[s].state = "cancelled"

(* A record that was sent is answered, or the stream ends with an error:   *)
(* no change of leader leaves a client without either (server.go,          *)
(* ProduceStream; distributed.go, apply).                                  *)
ProduceAnswered ==
    \A p \in Producers : \A i \in 1 .. MaxOffset + 1 :
        Len(producer[p].sent) >= i
            ~> Len(producer[p].acks) >= i \/ producer[p].state = "error"
=============================================================================
