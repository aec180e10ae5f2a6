---------------------------- MODULE ServerProofs ----------------------------
(***************************************************************************)
(* The safety of Server for any nodes, streams, bounds and policies.  That *)
(* answers are true rests on one of them at most being on its way in each  *)
(* stream (ProducerOK), that they differ on the places of those that are   *)
(* on their way (OffsetsDistinct), and all of it on the log only growing.  *)
(***************************************************************************)
EXTENDS Server, TLAPS

Acks(p) == producer[p].acks
Sent(p) == producer[p].sent

ProducerOK(p) ==
    /\ producer[p].state = "idle" => Acks(p) = <<>>
    /\ producer[p].state \in {"idle", "recv"} => Len(Sent(p)) = Len(Acks(p))
    /\ producer[p].state \in {"apply", "lost", "committed"} => Len(Sent(p)) = Len(Acks(p)) + 1
    /\ Len(Acks(p)) <= Len(Sent(p))
    /\ producer[p].state = "committed" =>
          /\ producer[p].pos \in 1 .. Len(log)
          /\ log[producer[p].pos] = Sent(p)[Len(Sent(p))]
          /\ \A i \in 1 .. Len(Acks(p)) : Acks(p)[i] < producer[p].pos - 1

AcksOK(p) ==
    \A i \in 1 .. Len(Acks(p)) :
        /\ Acks(p)[i] < have[producer[p].node]
        /\ log[Acks(p)[i] + 1] = Sent(p)[i]
        /\ \A j \in 1 .. i - 1 : Acks(p)[j] < Acks(p)[i]

OffsetsDistinct ==
    \A p, q \in Producers : p # q =>
        /\ producer[p].state = "committed" /\ producer[q].state = "committed" =>
              producer[p].pos # producer[q].pos
        /\ producer[p].state = "committed" =>
              \A j \in 1 .. Len(Acks(q)) : Acks(q)[j] # producer[p].pos - 1
        /\ \A i \in 1 .. Len(Acks(p)), j \in 1 .. Len(Acks(q)) : Acks(p)[i] # Acks(q)[j]

ConsumerOK(s) ==
    /\ consumer[s].offset = consumer[s].start + Len(consumer[s].got)
    /\ consumer[s].state = "send" => consumer[s].offset < have[consumer[s].node]
    /\ \A i \in 1 .. Len(consumer[s].got) :
          /\ consumer[s].start + i <= Len(log)
          /\ consumer[s].got[i] = log[consumer[s].start + i]

IInv ==
    /\ TypeOK
    /\ \A p \in Producers : ProducerOK(p) /\ AcksOK(p)
    /\ OffsetsDistinct
    /\ \A s \in Consumers : ConsumerOK(s)

(* The log gets records at its end, and nodes get more of it.              *)
LogGrows ==
    /\ log' \in Seq(Records) /\ Len(log) <= Len(log')
    /\ \A i \in 1 .. Len(log) : log'[i] = log[i]
    /\ have' \in [Nodes -> 0 .. Len(log')]
    /\ \A n \in Nodes : have[n] <= have'[n]

-----------------------------------------------------------------------------
LEMMA Shapes ==
    ASSUME TypeOK
    PROVE  /\ log \in Seq(Records) /\ Len(log) \in Nat
           /\ \A n \in Nodes : have[n] \in Nat /\ have[n] <= Len(log)
           /\ \A p \in Producers :
                 /\ producer[p] \in Producer /\ producer[p].node \in Nodes /\ producer[p].pos \in Nat
                 /\ Sent(p) \in Seq(Records) /\ Len(Sent(p)) \in Nat
                 /\ Acks(p) \in Seq(Nat) /\ Len(Acks(p)) \in Nat
                 /\ \A i \in 1 .. Len(Acks(p)) : Acks(p)[i] \in Nat
           /\ \A s \in Consumers :
                 /\ consumer[s] \in Consumer /\ consumer[s].node \in Nodes
                 /\ consumer[s].start \in Nat /\ consumer[s].offset \in Nat
                 /\ consumer[s].got \in Seq(Records) /\ Len(consumer[s].got) \in Nat
  <1>1. log \in Seq(Records) /\ Len(log) \in Nat
    BY DEF TypeOK
  <1>2. \A n \in Nodes : have[n] \in Nat /\ have[n] <= Len(log)
    BY <1>1 DEF TypeOK
  <1>3. ASSUME NEW p \in Producers
        PROVE  /\ producer[p] \in Producer /\ producer[p].node \in Nodes /\ producer[p].pos \in Nat
               /\ Sent(p) \in Seq(Records) /\ Len(Sent(p)) \in Nat
               /\ Acks(p) \in Seq(Nat) /\ Len(Acks(p)) \in Nat
               /\ \A i \in 1 .. Len(Acks(p)) : Acks(p)[i] \in Nat
    <2>1. producer[p] \in Producer
      BY DEF TypeOK
    <2>2. /\ producer[p].node \in Nodes /\ producer[p].pos \in Nat
          /\ Sent(p) \in Seq(Records) /\ Acks(p) \in Seq(Nat)
      BY <2>1 DEF Producer, Sent, Acks
    <2> QED
      BY <2>1, <2>2
  <1>4. ASSUME NEW s \in Consumers
        PROVE  /\ consumer[s] \in Consumer /\ consumer[s].node \in Nodes
               /\ consumer[s].start \in Nat /\ consumer[s].offset \in Nat
               /\ consumer[s].got \in Seq(Records) /\ Len(consumer[s].got) \in Nat
    <2>1. consumer[s] \in Consumer
      BY DEF TypeOK
    <2> QED
      BY <2>1 DEF Consumer
  <1> QED
    BY <1>1, <1>2, <1>3, <1>4

LEMMA Initially == Init => IInv
  <1> SUFFICES ASSUME Init PROVE IInv
    OBVIOUS
  <1> USE DEF Init
  <1>1. TypeOK
    <2>1. First \in Nodes /\ moves \in 0 .. MaxMoves
      BY ServerAssumption
    <2>2. producer \in [Producers -> Producer]
      BY <2>1 DEF Producer
    <2>3. consumer \in [Consumers -> Consumer]
      BY <2>1 DEF Consumer
    <2>4. log \in Seq(Records) /\ have \in [Nodes -> 0 .. Len(log)]
      OBVIOUS
    <2> QED
      BY <2>1, <2>2, <2>3, <2>4 DEF TypeOK
  <1>2. \A p \in Producers : ProducerOK(p) /\ AcksOK(p)
    BY DEF ProducerOK, AcksOK, Acks, Sent
  <1>3. OffsetsDistinct
    BY DEF OffsetsDistinct, Acks
  <1>4. \A s \in Consumers : ConsumerOK(s)
    BY DEF ConsumerOK
  <1> QED
    BY <1>1, <1>2, <1>3, <1>4 DEF IInv

-----------------------------------------------------------------------------
(* What was answered and delivered stays true while the log grows.         *)

LEMMA GrowsKeepsConsumers ==
    ASSUME IInv, LogGrows, NEW s \in Consumers, consumer'[s] = consumer[s]
    PROVE  ConsumerOK(s)'
  <1>1. ConsumerOK(s)
    BY DEF IInv
  <1>2. /\ consumer[s].node \in Nodes /\ consumer[s].start \in Nat /\ consumer[s].offset \in Nat
        /\ Len(consumer[s].got) \in Nat /\ Len(log) \in Nat /\ Len(log') \in Nat
        /\ Len(log) <= Len(log')
    BY Shapes DEF IInv, LogGrows
  <1>3. have[consumer[s].node] \in Nat /\ have'[consumer[s].node] \in Nat
        /\ have[consumer[s].node] <= have'[consumer[s].node]
    BY <1>2, Shapes DEF IInv, LogGrows
  <1>4. consumer[s].state = "send" => consumer[s].offset < have'[consumer[s].node]
    BY <1>1, <1>2, <1>3 DEF ConsumerOK
  <1>5. ASSUME NEW i \in 1 .. Len(consumer[s].got)
        PROVE  /\ consumer[s].start + i <= Len(log')
               /\ consumer[s].got[i] = log'[consumer[s].start + i]
    <2>1. consumer[s].start + i \in 1 .. Len(log) /\ consumer[s].got[i] = log[consumer[s].start + i]
      BY <1>1, <1>2 DEF ConsumerOK
    <2>2. log'[consumer[s].start + i] = log[consumer[s].start + i]
      BY <2>1 DEF LogGrows
    <2> QED
      BY <1>2, <2>1, <2>2
  <1> QED
    BY <1>1, <1>4, <1>5 DEF ConsumerOK

LEMMA GrowsKeepsAcks ==
    ASSUME IInv, LogGrows, NEW p \in Producers,
           Acks(p)' = Acks(p),
           producer'[p].node = producer[p].node \/ Acks(p) = <<>>,
           \A i \in 1 .. Len(Sent(p)) : Sent(p)'[i] = Sent(p)[i]
    PROVE  AcksOK(p)'
  <1>1. CASE Acks(p) = <<>>
    BY <1>1 DEF AcksOK
  <1>2. CASE producer'[p].node = producer[p].node
    <2> SUFFICES ASSUME NEW i \in 1 .. Len(Acks(p))
                 PROVE  /\ Acks(p)[i] < have'[producer[p].node]
                        /\ log'[Acks(p)[i] + 1] = Sent(p)'[i]
                        /\ \A j \in 1 .. i - 1 : Acks(p)[j] < Acks(p)[i]
      BY <1>2 DEF AcksOK
    <2>1. /\ Acks(p)[i] < have[producer[p].node] /\ log[Acks(p)[i] + 1] = Sent(p)[i]
          /\ \A j \in 1 .. i - 1 : Acks(p)[j] < Acks(p)[i]
      BY DEF IInv, AcksOK
    <2>2. /\ Acks(p)[i] \in Nat /\ producer[p].node \in Nodes /\ i \in 1 .. Len(Sent(p))
      BY Shapes DEF IInv, ProducerOK
    <2>3. /\ have[producer[p].node] \in Nat /\ have[producer[p].node] <= Len(log)
          /\ have'[producer[p].node] \in Nat /\ have[producer[p].node] <= have'[producer[p].node]
      BY <2>2, Shapes DEF IInv, LogGrows
    <2>4. Acks(p)[i] + 1 \in 1 .. Len(log)
      BY <2>1, <2>2, <2>3, Shapes DEF IInv
    <2>5. log'[Acks(p)[i] + 1] = log[Acks(p)[i] + 1]
      BY <2>4 DEF LogGrows
    <2> QED
      BY <2>1, <2>2, <2>3, <2>5
  <1> QED
    BY <1>1, <1>2

LEMMA GrowsKeepsProducer ==
    ASSUME IInv, LogGrows, NEW p \in Producers, producer'[p] = producer[p]
    PROVE  ProducerOK(p)' /\ AcksOK(p)'
  <1>1. AcksOK(p)'
    BY GrowsKeepsAcks DEF Acks, Sent
  <1>2. ProducerOK(p)
    BY DEF IInv
  <1>3. producer[p].state = "committed" =>
           /\ producer[p].pos \in 1 .. Len(log') /\ log'[producer[p].pos] = log[producer[p].pos]
    BY <1>2, Shapes DEF ProducerOK, LogGrows, IInv
  <1> QED
    BY <1>1, <1>2, <1>3 DEF ProducerOK, Acks, Sent

LEMMA DistinctKept ==
    ASSUME IInv,
           \A p \in Producers :
              /\ Acks(p)' = Acks(p)
              /\ producer'[p].state = "committed" =>
                    producer[p].state = "committed" /\ producer'[p].pos = producer[p].pos
    PROVE  OffsetsDistinct'
  BY DEF IInv, OffsetsDistinct

LEMMA LogStays ==
    ASSUME IInv, UNCHANGED <<log, have>>
    PROVE  LogGrows
  BY Shapes DEF IInv, LogGrows, TypeOK

-----------------------------------------------------------------------------
(* The cluster.                                                            *)

LEMMA ApplyNextKeeps ==
    ASSUME IInv, NEW n \in Nodes, ApplyNext(n)
    PROVE  IInv'
  <1> USE DEF ApplyNext
  <1>1. have' \in [Nodes -> 0 .. Len(log)] /\ \A m \in Nodes : have[m] <= have'[m]
    <2>1. have \in [Nodes -> 0 .. Len(log)] /\ Len(log) \in Nat
      BY Shapes DEF IInv, TypeOK
    <2>2. have[n] + 1 \in 0 .. Len(log)
      BY <2>1
    <2> QED
      BY <2>1, <2>2
  <1>2. LogGrows
    BY <1>1, Shapes DEF IInv, LogGrows
  <1>3. TypeOK'
    BY <1>1 DEF IInv, TypeOK
  <1>4. \A p \in Producers : ProducerOK(p)' /\ AcksOK(p)'
    BY <1>2, GrowsKeepsProducer
  <1>5. \A s \in Consumers : ConsumerOK(s)'
    BY <1>2, GrowsKeepsConsumers
  <1>6. OffsetsDistinct'
    BY DistinctKept DEF Acks
  <1> QED
    BY <1>3, <1>4, <1>5, <1>6 DEF IInv

(* The records of undecided producers come to the log; their clients get   *)
(* no answer.                                                              *)
LEMMA ElectKeeps ==
    ASSUME IInv, NEW n \in Nodes, NEW survivors \in Survivors(n), Elect(n, survivors)
    PROVE  IInv'
  <1> DEFINE rec(p) == Last(Sent(p))
             more == [i \in DOMAIN survivors |-> rec(survivors[i])]
  <1>1. PICK k \in Nat : survivors \in [1 .. k -> Undecided(n)]
    BY DEF Survivors
  <1>2. ASSUME NEW p \in Undecided(n)
        PROVE  rec(p) \in Records
    <2>1. p \in Producers /\ producer[p].state = "apply"
      BY DEF Undecided
    <2>2. Len(Sent(p)) \in Nat /\ Len(Sent(p)) >= 1 /\ Sent(p) \in Seq(Records)
      BY <2>1, Shapes DEF IInv, ProducerOK
    <2> QED
      BY <2>2 DEF Last
  <1>3. more \in Seq(Records)
    <2>1. \A i \in 1 .. k : survivors[i] \in Undecided(n) /\ rec(survivors[i]) \in Records
      BY <1>1, <1>2
    <2>2. more = [i \in 1 .. k |-> rec(survivors[i])]
      BY <1>1
    <2> HIDE DEF rec
    <2> QED
      BY <2>1, <2>2
  <1>4. /\ log' = log \o more /\ leader' = n /\ moves < MaxMoves /\ moves' = moves + 1
        /\ producer' = [p \in Producers |->
                          IF p \in Undecided(n) THEN [producer[p] EXCEPT !.state = "lost"]
                                                ELSE producer[p]]
        /\ UNCHANGED <<have, policy, consumer>>
    BY DEF Elect, Sent
  <1> HIDE DEF more
  <1>5. LogGrows
    <2>1. log \in Seq(Records) /\ have \in [Nodes -> 0 .. Len(log)]
      BY DEF IInv, TypeOK
    <2>2. log' \in Seq(Records) /\ Len(log') = Len(log) + Len(more)
          /\ \A i \in 1 .. Len(log) : log'[i] = log[i]
      BY <1>3, <1>4, <2>1
    <2>3. have' \in [Nodes -> 0 .. Len(log')] /\ \A m \in Nodes : have[m] <= have'[m]
      BY <1>3, <1>4, <2>1, <2>2
    <2> QED
      BY <1>3, <2>1, <2>2, <2>3 DEF LogGrows
  <1>6. ASSUME NEW p \in Producers
        PROVE  /\ producer'[p] \in Producer
               /\ Acks(p)' = Acks(p) /\ Sent(p)' = Sent(p) /\ producer'[p].node = producer[p].node
               /\ producer'[p].pos = producer[p].pos
               /\ \/ producer'[p] = producer[p]
                  \/ producer[p].state = "apply" /\ producer'[p].state = "lost"
    <2>1. producer[p] \in Producer
      BY Shapes DEF IInv
    <2>2. CASE p \in Undecided(n)
      <3>1. producer'[p] = [producer[p] EXCEPT !.state = "lost"]
        BY <1>4, <2>2
      <3> QED
        BY <2>1, <2>2, <3>1 DEF Producer, Undecided, Acks, Sent
    <2>3. CASE p \notin Undecided(n)
      BY <1>4, <2>1, <2>3 DEF Acks, Sent
    <2> QED
      BY <2>2, <2>3
  <1>7. TypeOK'
    <2>1. producer' \in [Producers -> Producer]
      BY <1>4, <1>6
    <2>2. moves' \in 0 .. MaxMoves
      BY <1>4, ServerAssumption DEF IInv, TypeOK
    <2> QED
      BY <1>4, <1>5, <2>1, <2>2 DEF IInv, TypeOK, LogGrows
  <1>8. ASSUME NEW p \in Producers
        PROVE  ProducerOK(p)' /\ AcksOK(p)'
    <2>1. CASE producer'[p] = producer[p]
      BY <1>5, <2>1, GrowsKeepsProducer
    <2>2. CASE producer[p].state = "apply" /\ producer'[p].state = "lost"
      <3>1. AcksOK(p)'
        BY <1>5, <1>6, GrowsKeepsAcks
      <3>2. ProducerOK(p)'
        BY <1>6, <2>2 DEF IInv, ProducerOK
      <3> QED
        BY <3>1, <3>2
    <2> QED
      BY <1>6, <2>1, <2>2
  <1>9. OffsetsDistinct'
    BY <1>6, DistinctKept
  <1>10. \A s \in Consumers : ConsumerOK(s)'
    BY <1>4, <1>5, GrowsKeepsConsumers
  <1> QED
    BY <1>7, <1>8, <1>9, <1>10 DEF IInv

(* The place of a record that is committed is behind all that was          *)
(* answered or committed before.                                           *)
LEMMA CommitKeeps ==
    ASSUME IInv, NEW p \in Producers, Commit(p)
    PROVE  IInv'
  <1> DEFINE k == Len(Sent(p))
  <1>1. /\ producer[p].state = "apply" /\ log' = Append(log, Sent(p)[k])
        /\ producer' = [producer EXCEPT ![p] = [@ EXCEPT !.state = "committed", !.pos = Len(log) + 1]]
        /\ UNCHANGED <<have, leader, moves, policy, consumer>>
    BY DEF Commit, Last, Sent
  <1>2. /\ Sent(p) \in Seq(Records) /\ k \in Nat /\ k = Len(Acks(p)) + 1 /\ Sent(p)[k] \in Records
    BY <1>1, Shapes DEF IInv, ProducerOK
  <1>3. log' \in Seq(Records) /\ Len(log') = Len(log) + 1 /\ log'[Len(log) + 1] = Sent(p)[k]
        /\ \A i \in 1 .. Len(log) : log'[i] = log[i]
    BY <1>1, <1>2, Shapes DEF IInv
  <1>4. LogGrows
    <2>1. have' \in [Nodes -> 0 .. Len(log')] /\ \A m \in Nodes : have[m] <= have'[m]
      BY <1>1, <1>3, Shapes DEF IInv, TypeOK
    <2> QED
      BY <1>3, <2>1, Shapes DEF IInv, LogGrows
  <1>5. /\ producer'[p] \in Producer /\ producer'[p].state = "committed"
        /\ producer'[p].pos = Len(log) + 1 /\ producer'[p].node = producer[p].node
        /\ Acks(p)' = Acks(p) /\ Sent(p)' = Sent(p)
    <2>1. producer[p] \in Producer /\ Len(log) + 1 \in Nat /\ producer \in [Producers -> Producer]
      BY Shapes DEF IInv, TypeOK
    <2> QED
      BY <1>1, <2>1 DEF Producer, Acks, Sent
  <1>6. \A q \in Producers \ {p} : producer'[q] = producer[q]
    BY <1>1 DEF IInv, TypeOK
  <1>7. TypeOK'
    <2>1. producer' \in [Producers -> Producer]
      BY <1>1, <1>5, <1>6, Shapes DEF IInv, TypeOK
    <2> QED
      BY <1>1, <1>4, <2>1 DEF IInv, TypeOK, LogGrows
  <1>8. ASSUME NEW q \in Producers, NEW i \in 1 .. Len(Acks(q))
        PROVE  Acks(q)[i] \in Nat /\ Acks(q)[i] < Len(log)
    <2>1. Acks(q)[i] \in Nat /\ Acks(q)[i] < have[producer[q].node]
          /\ producer[q].node \in Nodes
      BY Shapes DEF IInv, AcksOK
    <2>2. have[producer[q].node] \in Nat /\ have[producer[q].node] <= Len(log) /\ Len(log) \in Nat
      BY <2>1, Shapes DEF IInv
    <2> QED
      BY <2>1, <2>2
  <1>9. ProducerOK(p)' /\ AcksOK(p)'
    <2>1. AcksOK(p)'
      BY <1>4, <1>5, GrowsKeepsAcks
    <2>2. Len(log) + 1 \in 1 .. Len(log') /\ Len(log) \in Nat
      BY <1>3, Shapes DEF IInv
    <2>3. \A i \in 1 .. Len(Acks(p)) : Acks(p)[i] < (Len(log) + 1) - 1
      BY <1>8, <2>2
    <2>4. Len(Acks(p)) \in Nat
      BY Shapes DEF IInv
    <2>5. ProducerOK(p)'
      BY <1>2, <1>3, <1>5, <2>2, <2>3, <2>4 DEF ProducerOK
    <2> QED
      BY <2>1, <2>5
  <1>10. \A q \in Producers \ {p} : ProducerOK(q)' /\ AcksOK(q)'
    BY <1>4, <1>6, GrowsKeepsProducer
  <1>11. OffsetsDistinct'
    <2>1. \A q \in Producers : Acks(q)' = Acks(q)
      BY <1>5, <1>6 DEF Acks
    <2>2. \A q \in Producers \ {p} : producer[q].state = "committed" => producer[q].pos # Len(log) + 1
      <3> SUFFICES ASSUME NEW q \in Producers \ {p}, producer[q].state = "committed"
                   PROVE  producer[q].pos # Len(log) + 1
        OBVIOUS
      <3>1. producer[q].pos \in 1 .. Len(log) /\ Len(log) \in Nat
        BY Shapes DEF IInv, ProducerOK
      <3> QED
        BY <3>1
    <2>3. \A q \in Producers : \A j \in 1 .. Len(Acks(q)) : Acks(q)[j] # (Len(log) + 1) - 1
      BY <1>8, Shapes DEF IInv
    <2> QED
      BY <1>5, <1>6, <2>1, <2>2, <2>3 DEF IInv, OffsetsDistinct
  <1>12. \A s \in Consumers : ConsumerOK(s)'
    BY <1>1, <1>4, GrowsKeepsConsumers
  <1> QED
    BY <1>7, <1>9, <1>10, <1>11, <1>12 DEF IInv

-----------------------------------------------------------------------------
(* The streams.  A step changes one of them and not the cluster.           *)

LEMMA OneProducer ==
    ASSUME IInv, NEW p \in Producers, NEW x \in Producer, producer' = [producer EXCEPT ![p] = x],
           UNCHANGED <<log, have, leader, moves, policy, consumer>>,
           ProducerOK(p)', AcksOK(p)', OffsetsDistinct'
    PROVE  IInv'
  <1>1. LogGrows
    BY LogStays
  <1>2. producer' \in [Producers -> Producer] /\ \A q \in Producers \ {p} : producer'[q] = producer[q]
    BY DEF IInv, TypeOK
  <1>3. TypeOK'
    BY <1>2 DEF IInv, TypeOK
  <1>4. \A q \in Producers : ProducerOK(q)' /\ AcksOK(q)'
    BY <1>1, <1>2, GrowsKeepsProducer
  <1>5. \A s \in Consumers : ConsumerOK(s)'
    BY <1>1, GrowsKeepsConsumers
  <1> QED
    BY <1>3, <1>4, <1>5 DEF IInv

(* No answer, and no record that is committed: the state moves on.         *)
LEMMA QuietProducer ==
    ASSUME IInv, NEW p \in Producers, NEW x \in Producer, producer' = [producer EXCEPT ![p] = x],
           UNCHANGED <<log, have, leader, moves, policy, consumer>>,
           x.acks = Acks(p), x.state # "committed",
           x.node = producer[p].node \/ Acks(p) = <<>>,
           \A i \in 1 .. Len(Sent(p)) : x.sent[i] = Sent(p)[i],
           ProducerOK(p)'
    PROVE  IInv'
  <1>1. /\ producer'[p] = x /\ Acks(p)' = Acks(p)
        /\ \A i \in 1 .. Len(Sent(p)) : Sent(p)'[i] = Sent(p)[i]
    BY DEF IInv, TypeOK, Acks, Sent
  <1>2. AcksOK(p)'
    BY <1>1, LogStays, GrowsKeepsAcks
  <1>3. OffsetsDistinct'
    <2>1. \A q \in Producers \ {p} : producer'[q] = producer[q]
      BY DEF IInv, TypeOK
    <2> QED
      BY <1>1, <2>1, DistinctKept DEF Acks
  <1> QED
    BY <1>2, <1>3, OneProducer

LEMMA OpenProduceKeeps ==
    ASSUME IInv, NEW p \in Producers, NEW n \in Nodes, OpenProduce(p, n)
    PROVE  IInv'
  <1> DEFINE x == [producer[p] EXCEPT !.state = "recv", !.node = n]
  <1>1. /\ producer[p].state = "idle" /\ producer' = [producer EXCEPT ![p] = x]
        /\ UNCHANGED <<log, have, leader, moves, policy, consumer>>
    BY DEF OpenProduce, cluster
  <1>2. /\ x \in Producer /\ x.state = "recv" /\ x.acks = Acks(p) /\ x.sent = Sent(p)
        /\ producer'[p] = x
    BY <1>1, Shapes DEF IInv, TypeOK, Producer, Acks, Sent
  <1>3. Acks(p) = <<>> /\ Len(Sent(p)) = Len(Acks(p))
    BY <1>1 DEF IInv, ProducerOK
  <1> HIDE DEF x
  <1>4. ProducerOK(p)'
    BY <1>2, <1>3 DEF ProducerOK, Acks, Sent
  <1> QED
    BY <1>1, <1>2, <1>3, <1>4, QuietProducer

LEMMA ProduceRecvKeeps ==
    ASSUME IInv, NEW p \in Producers, ProduceRecv(p)
    PROVE  IInv'
  <1> DEFINE r == [from |-> p, nr |-> Len(Sent(p)) + 1]
  <1>0. r \in Records
    BY Shapes DEF IInv, Records
  <1>1. PICK state \in {"apply", "lost", "error"} :
           producer' = [producer EXCEPT ![p] =
                          [@ EXCEPT !.state = state, !.sent = Append(Sent(p), r)]]
    BY DEF ProduceRecv, Sent
  <1> DEFINE x == [producer[p] EXCEPT !.state = state, !.sent = Append(Sent(p), r)]
  <1>2. /\ producer[p].state = "recv" /\ producer' = [producer EXCEPT ![p] = x]
        /\ UNCHANGED <<log, have, leader, moves, policy, consumer>>
    BY <1>1 DEF ProduceRecv, cluster
  <1> HIDE DEF r
  <1>3. /\ Append(Sent(p), r) \in Seq(Records) /\ Len(Append(Sent(p), r)) = Len(Sent(p)) + 1
        /\ \A i \in 1 .. Len(Sent(p)) : Append(Sent(p), r)[i] = Sent(p)[i]
    BY <1>0, Shapes DEF IInv
  <1>4. /\ x \in Producer /\ x.state = state /\ x.acks = Acks(p) /\ x.sent = Append(Sent(p), r)
        /\ x.node = producer[p].node /\ producer'[p] = x
    BY <1>2, <1>3, Shapes DEF IInv, TypeOK, Producer, Acks, Sent
  <1>5. Len(Sent(p)) = Len(Acks(p)) /\ Len(Sent(p)) \in Nat
    <2>1. producer[p].state = "recv" /\ ProducerOK(p)
      BY <1>2 DEF IInv
    <2>2. Len(Sent(p)) \in Nat
      BY Shapes DEF IInv
    <2> QED
      BY <2>1, <2>2 DEF ProducerOK
  <1> HIDE DEF x
  <1>6. ProducerOK(p)'
    <2>1. Acks(p)' = Acks(p) /\ Sent(p)' = Append(Sent(p), r) /\ producer'[p].state = state
      BY <1>4 DEF Acks, Sent
    <2>2. Len(Sent(p)') = Len(Acks(p)') + 1 /\ Len(Acks(p)') \in Nat
      BY <1>3, <1>5, <2>1
    <2> QED
      BY <2>1, <2>2 DEF ProducerOK
  <1>7. x.state # "committed" /\ \A i \in 1 .. Len(Sent(p)) : x.sent[i] = Sent(p)[i]
    BY <1>3, <1>4
  <1> QED
    BY <1>2, <1>4, <1>6, <1>7, QuietProducer

LEMMA ProduceFailsKeeps ==
    ASSUME IInv, NEW p \in Producers, ProduceFails(p)
    PROVE  IInv'
  <1> DEFINE x == [producer[p] EXCEPT !.state = "error"]
  <1>1. /\ producer' = [producer EXCEPT ![p] = x]
        /\ UNCHANGED <<log, have, leader, moves, policy, consumer>>
    BY DEF ProduceFails, cluster
  <1>2. /\ x \in Producer /\ x.state = "error" /\ x.acks = Acks(p) /\ x.sent = Sent(p)
        /\ x.node = producer[p].node /\ producer'[p] = x
    BY <1>1, Shapes DEF IInv, TypeOK, Producer, Acks, Sent
  <1>3. Len(Acks(p)) <= Len(Sent(p))
    BY DEF IInv, ProducerOK
  <1> HIDE DEF x
  <1>4. ProducerOK(p)'
    BY <1>2, <1>3 DEF ProducerOK, Acks, Sent
  <1> QED
    BY <1>1, <1>2, <1>4, QuietProducer

(* The answer is the offset of the place, which is beyond the answers      *)
(* before and no other stream's, and the node has that record.             *)
LEMMA ProduceSendKeeps ==
    ASSUME IInv, NEW p \in Producers, ProduceSend(p)
    PROVE  IInv'
  <1> DEFINE k   == Len(Acks(p))
             off == producer[p].pos - 1
             x   == [producer[p] EXCEPT !.state = "recv", !.acks = Append(Acks(p), off)]
  <1>1. /\ producer[p].state = "committed" /\ have[producer[p].node] >= producer[p].pos
        /\ producer' = [producer EXCEPT ![p] = x]
        /\ UNCHANGED <<log, have, leader, moves, policy, consumer>>
    BY DEF ProduceSend, Answer, cluster, Acks
  <1>2. /\ Len(Sent(p)) = k + 1 /\ k \in Nat /\ producer[p].pos \in 1 .. Len(log)
        /\ log[producer[p].pos] = Sent(p)[k + 1]
        /\ \A i \in 1 .. k : Acks(p)[i] < off
        /\ producer[p].pos \in Nat /\ off \in Nat /\ off + 1 = producer[p].pos
        /\ Acks(p) \in Seq(Nat)
    BY <1>1, Shapes DEF IInv, ProducerOK
  <1>3. /\ Append(Acks(p), off) \in Seq(Nat) /\ Len(Append(Acks(p), off)) = k + 1
        /\ Append(Acks(p), off)[k + 1] = off
        /\ \A i \in 1 .. k : Append(Acks(p), off)[i] = Acks(p)[i]
    BY <1>2
  <1>4. /\ x \in Producer /\ x.state = "recv" /\ x.acks = Append(Acks(p), off)
        /\ x.sent = Sent(p) /\ x.node = producer[p].node /\ producer'[p] = x
    BY <1>1, <1>3, Shapes DEF IInv, TypeOK, Producer, Acks, Sent
  <1>5. Sent(p)' = Sent(p) /\ Acks(p)' = Append(Acks(p), off)
    BY <1>4 DEF Sent, Acks
  <1> HIDE DEF x, off
  <1>6. ProducerOK(p)'
    BY <1>2, <1>3, <1>4, <1>5 DEF ProducerOK
  <1>7. AcksOK(p)'
    <2> SUFFICES ASSUME NEW i \in 1 .. k + 1
                 PROVE  /\ Append(Acks(p), off)[i] < have[producer[p].node]
                        /\ log[Append(Acks(p), off)[i] + 1] = Sent(p)[i]
                        /\ \A j \in 1 .. i - 1 : Append(Acks(p), off)[j] < Append(Acks(p), off)[i]
      BY <1>1, <1>3, <1>4, <1>5 DEF AcksOK
    <2>1. have[producer[p].node] \in Nat
      BY Shapes DEF IInv
    <2>2. CASE i = k + 1
      BY <1>1, <1>2, <1>3, <2>1, <2>2
    <2>3. CASE i \in 1 .. k
      <3>1. /\ Acks(p)[i] < have[producer[p].node] /\ log[Acks(p)[i] + 1] = Sent(p)[i]
            /\ \A j \in 1 .. i - 1 : Acks(p)[j] < Acks(p)[i]
        BY <2>3 DEF IInv, AcksOK
      <3>2. \A j \in 1 .. i - 1 : Append(Acks(p), off)[j] = Acks(p)[j]
        BY <1>2, <1>3, <2>3
      <3> QED
        BY <1>3, <2>3, <3>1, <3>2
    <2> QED
      BY <1>2, <2>2, <2>3
  <1>8. OffsetsDistinct'
    <2>1. \A q \in Producers \ {p} : producer'[q] = producer[q] /\ Acks(q)' = Acks(q)
      BY <1>1 DEF Acks, IInv, TypeOK
    <2>2. ASSUME NEW q \in Producers \ {p}
          PROVE  /\ \A j \in 1 .. Len(Acks(q)) : Acks(q)[j] # off
                 /\ producer[q].state = "committed" => producer[q].pos - 1 # off
                 /\ producer[q].state = "committed" =>
                       \A i \in 1 .. k : Acks(p)[i] # producer[q].pos - 1
                 /\ \A i \in 1 .. k, j \in 1 .. Len(Acks(q)) : Acks(p)[i] # Acks(q)[j]
      <3>1. OffsetsDistinct /\ q # p /\ q \in Producers /\ producer[p].state = "committed"
        BY <1>1 DEF IInv
      <3>2. producer[p].pos \in Nat /\ producer[q].pos \in Nat /\ off = producer[p].pos - 1
        BY Shapes DEF IInv, off
      <3>3. \A j \in 1 .. Len(Acks(q)) : Acks(q)[j] # off
        BY <3>1, <3>2 DEF OffsetsDistinct
      <3>4. producer[q].state = "committed" => producer[q].pos # producer[p].pos
        BY <3>1 DEF OffsetsDistinct
      <3>5. producer[q].state = "committed" =>
                \A i \in 1 .. k : Acks(p)[i] # producer[q].pos - 1
        BY <3>1 DEF OffsetsDistinct
      <3>6. \A i \in 1 .. k, j \in 1 .. Len(Acks(q)) : Acks(p)[i] # Acks(q)[j]
        BY <3>1 DEF OffsetsDistinct
      <3> QED
        BY <3>2, <3>3, <3>4, <3>5, <3>6
    <2>3. ASSUME NEW i \in 1 .. k + 1
          PROVE  Append(Acks(p), off)[i] = off \/ (i \in 1 .. k /\ Append(Acks(p), off)[i] = Acks(p)[i])
      BY <1>2, <1>3
    <2>4. ASSUME NEW q \in Producers \ {p}, NEW i \in 1 .. k + 1
          PROVE  /\ producer[q].state = "committed" =>
                       Append(Acks(p), off)[i] # producer[q].pos - 1
                 /\ \A j \in 1 .. Len(Acks(q)) : Append(Acks(p), off)[i] # Acks(q)[j]
      BY <2>2, <2>3
    <2>5. \A q, r \in Producers \ {p} : q # r =>
            /\ producer[q].state = "committed" /\ producer[r].state = "committed" =>
                  producer[q].pos # producer[r].pos
            /\ producer[q].state = "committed" =>
                  \A j \in 1 .. Len(Acks(r)) : Acks(r)[j] # producer[q].pos - 1
            /\ \A i \in 1 .. Len(Acks(q)), j \in 1 .. Len(Acks(r)) : Acks(q)[i] # Acks(r)[j]
      BY DEF IInv, OffsetsDistinct
    <2>6. producer'[p].state = "recv" /\ Acks(p)' = Append(Acks(p), off) /\ Len(Acks(p)') = k + 1
      BY <1>3, <1>4, <1>5
    <2> QED
      BY <2>1, <2>4, <2>5, <2>6 DEF OffsetsDistinct
  <1> QED
    BY <1>1, <1>4, <1>6, <1>7, <1>8, OneProducer

-----------------------------------------------------------------------------
(* The consumer streams.                                                   *)

LEMMA OneConsumer ==
    ASSUME IInv, NEW s \in Consumers, NEW x \in Consumer, consumer' = [consumer EXCEPT ![s] = x],
           UNCHANGED <<log, have, leader, moves, policy, producer>>,
           x.offset = x.start + Len(x.got),
           x.state = "send" => x.offset < have[x.node],
           \A i \in 1 .. Len(x.got) : x.start + i <= Len(log) /\ x.got[i] = log[x.start + i]
    PROVE  IInv'
  <1>1. LogGrows
    BY LogStays
  <1>2. /\ consumer' \in [Consumers -> Consumer] /\ consumer'[s] = x
        /\ \A r \in Consumers \ {s} : consumer'[r] = consumer[r]
    BY DEF IInv, TypeOK
  <1>3. TypeOK'
    BY <1>2 DEF IInv, TypeOK
  <1>4. ConsumerOK(s)'
    BY <1>2 DEF ConsumerOK
  <1>5. \A r \in Consumers : ConsumerOK(r)'
    BY <1>1, <1>2, <1>4, GrowsKeepsConsumers
  <1>6. \A p \in Producers : ProducerOK(p)' /\ AcksOK(p)'
    BY <1>1, GrowsKeepsProducer
  <1>7. OffsetsDistinct'
    BY DistinctKept DEF Acks
  <1> QED
    BY <1>3, <1>5, <1>6, <1>7 DEF IInv

(* Where the stream is changes, what it delivered does not.                *)
LEMMA TurnsConsumer ==
    ASSUME IInv, NEW s \in Consumers, NEW state \in {"read", "send", "cancelled", "error"},
           consumer' = [consumer EXCEPT ![s].state = state],
           UNCHANGED <<log, have, leader, moves, policy, producer>>,
           state = "send" => consumer[s].offset < have[consumer[s].node]
    PROVE  IInv'
  <1> DEFINE x == [consumer[s] EXCEPT !.state = state]
  <1>1. /\ x \in Consumer /\ x.state = state /\ x.node = consumer[s].node
        /\ x.start = consumer[s].start /\ x.offset = consumer[s].offset
        /\ x.got = consumer[s].got
    BY Shapes DEF IInv, Consumer
  <1>2. consumer' = [consumer EXCEPT ![s] = x]
    OBVIOUS
  <1>3. /\ consumer[s].offset = consumer[s].start + Len(consumer[s].got)
        /\ \A i \in 1 .. Len(consumer[s].got) :
              /\ consumer[s].start + i <= Len(log)
              /\ consumer[s].got[i] = log[consumer[s].start + i]
    BY DEF IInv, ConsumerOK
  <1> HIDE DEF x
  <1>4. /\ x.offset = x.start + Len(x.got)
        /\ x.state = "send" => x.offset < have[x.node]
        /\ \A i \in 1 .. Len(x.got) : x.start + i <= Len(log) /\ x.got[i] = log[x.start + i]
    BY <1>1, <1>3
  <1> QED
    BY <1>1, <1>2, <1>4, OneConsumer

LEMMA OpenConsumeKeeps ==
    ASSUME IInv, NEW s \in Consumers, NEW n \in Nodes, NEW offset \in 0 .. MaxOffset,
           OpenConsume(s, n, offset)
    PROVE  IInv'
  <1> DEFINE x == [node |-> n, state |-> "read", start |-> offset,
                   offset |-> offset, got |-> <<>>]
  <1>1. /\ consumer' = [consumer EXCEPT ![s] = x]
        /\ UNCHANGED <<log, have, leader, moves, policy, producer>>
    BY DEF OpenConsume, cluster
  <1>2. /\ x \in Consumer /\ x.state = "read" /\ x.start = offset /\ x.offset = offset
        /\ x.got = <<>> /\ offset \in Nat
    BY ServerAssumption DEF Consumer
  <1> HIDE DEF x
  <1>3. /\ x.offset = x.start + Len(x.got) /\ x.state # "send"
        /\ \A i \in 1 .. Len(x.got) : x.start + i <= Len(log) /\ x.got[i] = log[x.start + i]
    BY <1>2
  <1> QED
    BY <1>1, <1>2, <1>3, OneConsumer

LEMMA CancelKeeps ==
    ASSUME IInv, NEW s \in Consumers, Cancel(s)
    PROVE  IInv'
  BY TurnsConsumer DEF Cancel, cluster

LEMMA ConsumeReadKeeps ==
    ASSUME IInv, NEW s \in Consumers, ConsumeRead(s)
    PROVE  IInv'
  <1>1. UNCHANGED <<log, have, leader, moves, policy, producer>>
    BY DEF ConsumeRead, cluster
  <1>2. CASE Authorize(s)
    <2>1. /\ consumer' = [consumer EXCEPT ![s].state = "send"]
          /\ ~(consumer[s].offset >= have[consumer[s].node])
      BY <1>2 DEF ConsumeRead, OutOfRange
    <2>2. consumer[s].offset < have[consumer[s].node]
      BY <2>1, Shapes DEF IInv
    <2> QED
      BY <1>1, <2>1, <2>2, TurnsConsumer
  <1>3. CASE ~Authorize(s)
    <2>1. consumer' = [consumer EXCEPT ![s].state = "error"]
      BY <1>3 DEF ConsumeRead
    <2> QED
      BY <1>1, <2>1, TurnsConsumer
  <1> QED
    BY <1>2, <1>3

(* The record was there when it was read, and the log only grows.          *)
LEMMA ConsumeSendKeeps ==
    ASSUME IInv, NEW s \in Consumers, ConsumeSend(s)
    PROVE  IInv'
  <1> DEFINE c   == consumer[s]
             rec == log[c.offset + 1]
             x   == [c EXCEPT !.state = "read", !.got = Append(c.got, rec),
                              !.offset = c.offset + 1]
  <1>1. /\ c.state = "send" /\ consumer' = [consumer EXCEPT ![s] = x]
        /\ UNCHANGED <<log, have, leader, moves, policy, producer>>
    BY DEF ConsumeSend, cluster
  <1>2. /\ c \in Consumer /\ c.node \in Nodes /\ c.start \in Nat /\ c.offset \in Nat
        /\ c.got \in Seq(Records) /\ Len(c.got) \in Nat
        /\ log \in Seq(Records) /\ Len(log) \in Nat
    BY Shapes DEF IInv
  <1>3. have[c.node] \in Nat /\ have[c.node] <= Len(log)
    BY <1>2, Shapes DEF IInv
  <1>4. ConsumerOK(s)
    BY DEF IInv
  <1>5. c.offset < have[c.node] /\ c.offset = c.start + Len(c.got)
    BY <1>1, <1>4 DEF ConsumerOK
  <1>6. \A i \in 1 .. Len(c.got) : c.start + i <= Len(log) /\ c.got[i] = log[c.start + i]
    BY <1>4 DEF ConsumerOK
  <1>7. rec \in Records
    BY <1>2, <1>3, <1>5
  <1>8. /\ x \in Consumer /\ x.state = "read" /\ x.start = c.start
        /\ x.offset = c.offset + 1 /\ x.got = Append(c.got, rec)
    <2>1. Append(c.got, rec) \in Seq(Records) /\ c.offset + 1 \in Nat /\ c \in Consumer
      BY <1>2, <1>7
    <2> HIDE DEF rec
    <2> QED
      BY <2>1 DEF Consumer
  <1>9. /\ Len(Append(c.got, rec)) = Len(c.got) + 1
        /\ Append(c.got, rec)[Len(c.got) + 1] = rec
        /\ \A i \in 1 .. Len(c.got) : Append(c.got, rec)[i] = c.got[i]
    BY <1>2, <1>7
  <1> HIDE DEF x
  <1>10. ASSUME NEW i \in 1 .. Len(x.got)
         PROVE  x.start + i <= Len(log) /\ x.got[i] = log[x.start + i]
    <2>1. i \in 1 .. Len(c.got) \/ i = Len(c.got) + 1
      BY <1>2, <1>8, <1>9
    <2>2. CASE i \in 1 .. Len(c.got)
      BY <1>6, <1>8, <1>9, <2>2
    <2>3. CASE i = Len(c.got) + 1
      <3>1. x.start + i = c.offset + 1 /\ c.offset + 1 <= Len(log)
        BY <1>2, <1>3, <1>5, <1>8, <2>3
      <3> QED
        BY <1>8, <1>9, <2>3, <3>1
    <2> QED
      BY <2>1, <2>2, <2>3
  <1>11. x.offset = x.start + Len(x.got)
    BY <1>2, <1>5, <1>8, <1>9
  <1> QED
    BY <1>1, <1>8, <1>10, <1>11, OneConsumer

-----------------------------------------------------------------------------
LEMMA StepKeeps == IInv /\ [Next]_vars => IInv'
  <1> SUFFICES ASSUME IInv, [Next]_vars PROVE IInv'
    OBVIOUS
  <1>1. CASE UNCHANGED vars
    BY <1>1 DEF vars, cluster, IInv, TypeOK, ProducerOK, AcksOK, OffsetsDistinct, ConsumerOK,
                Acks, Sent
  <1>2. ASSUME NEW n \in Nodes, ApplyNext(n) PROVE IInv'
    BY <1>2, ApplyNextKeeps
  <1>3. ASSUME NEW n \in Nodes, NEW survivors \in Survivors(n), Elect(n, survivors) PROVE IInv'
    BY <1>3, ElectKeeps
  <1>4. ASSUME NEW n \in Nodes, NEW p \in Producers, OpenProduce(p, n) PROVE IInv'
    BY <1>4, OpenProduceKeeps
  <1>5. ASSUME NEW n \in Nodes, NEW s \in Consumers, NEW offset \in 0 .. MaxOffset,
               OpenConsume(s, n, offset)
        PROVE  IInv'
    BY <1>5, OpenConsumeKeeps
  <1>6. ASSUME NEW p \in Producers, Produces(p) PROVE IInv'
    BY <1>6, CommitKeeps, ProduceFailsKeeps, ProduceSendKeeps DEF Produces
  <1>7. ASSUME NEW p \in Producers, ProduceRecv(p) PROVE IInv'
    BY <1>7, ProduceRecvKeeps
  <1>8. ASSUME NEW s \in Consumers, Consumes(s) \/ Cancel(s) PROVE IInv'
    BY <1>8, ConsumeReadKeeps, ConsumeSendKeeps, CancelKeeps DEF Consumes
  <1> QED
    BY <1>1, <1>2, <1>3, <1>4, <1>5, <1>6, <1>7, <1>8 DEF Next

LEMMA Invariance == Spec => []IInv
  BY Initially, StepKeeps, PTL DEF Spec

(* The shape of the state, for any number of nodes and streams.            *)
THEOREM ServerTypeOK == Spec => []TypeOK
  <1>1. IInv => TypeOK
    BY DEF IInv
  <1> QED
    BY <1>1, Invariance, PTL

(* A consume stream delivers the records of consecutive offsets, whatever  *)
(* the nodes, the streams beside it and the changes of leader.             *)
THEOREM ServerStreamGapless == Spec => []StreamGapless
  <1>1. IInv => StreamGapless
    <2> SUFFICES ASSUME IInv, NEW s \in Consumers
                 PROVE  /\ consumer[s].offset = consumer[s].start + Len(consumer[s].got)
                        /\ \A i \in DOMAIN consumer[s].got :
                              /\ consumer[s].start + i <= Len(log)
                              /\ consumer[s].got[i] = log[consumer[s].start + i]
      BY DEF StreamGapless
    <2>1. DOMAIN consumer[s].got = 1 .. Len(consumer[s].got)
      BY Shapes DEF IInv
    <2> QED
      BY <2>1 DEF IInv, ConsumerOK
  <1> QED
    BY <1>1, Invariance, PTL

(* Every answer is the offset of the record it answers and of no copy sent *)
(* on another stream, the answers of a stream increase, and no two streams *)
(* get the same offset.                                                    *)
THEOREM ServerAcksTrue == Spec => []AcksTrue
  <1>1. IInv => AcksTrue
    <2> SUFFICES ASSUME IInv, NEW p \in Producers, NEW i \in DOMAIN Acks(p)
                 PROVE  /\ i <= Len(Sent(p)) /\ Acks(p)[i] < Len(log)
                        /\ log[Acks(p)[i] + 1] = Sent(p)[i]
                        /\ \A j \in 1 .. i - 1 : Acks(p)[j] < Acks(p)[i]
                        /\ \A q \in Producers \ {p} : \A j \in DOMAIN Acks(q) :
                              Acks(q)[j] # Acks(p)[i]
      BY DEF AcksTrue, Acks, Sent
    <2>1. \A q \in Producers : DOMAIN Acks(q) = 1 .. Len(Acks(q))
      BY Shapes DEF IInv
    <2>2. i \in 1 .. Len(Acks(p)) /\ Acks(p)[i] \in Nat /\ producer[p].node \in Nodes
          /\ Len(Acks(p)) \in Nat /\ Len(Sent(p)) \in Nat
      BY <2>1, Shapes DEF IInv
    <2>3. i <= Len(Sent(p))
      BY <2>2 DEF IInv, ProducerOK
    <2>4. /\ Acks(p)[i] < have[producer[p].node] /\ log[Acks(p)[i] + 1] = Sent(p)[i]
          /\ \A j \in 1 .. i - 1 : Acks(p)[j] < Acks(p)[i]
      BY <2>2 DEF IInv, AcksOK
    <2>5. Acks(p)[i] < Len(log)
      BY <2>2, <2>4, Shapes DEF IInv
    <2>6. \A q \in Producers \ {p} : \A j \in DOMAIN Acks(q) : Acks(q)[j] # Acks(p)[i]
      BY <2>1, <2>2 DEF IInv, OffsetsDistinct
    <2> QED
      BY <2>3, <2>4, <2>5, <2>6
  <1> QED
    BY <1>1, Invariance, PTL
=============================================================================
