-------------------------- MODULE MembershipProofs --------------------------
(***************************************************************************)
(* The safety of Membership for any agents, addresses and bounds.  It      *)
(* rests on who makes a call: an agent that waits for the future of one is *)
(* the leader, and a call is never about the agent that makes it (CallsOK).*)
(* So the leader, which was a voter at its address when it was elected,    *)
(* stays one (LeaderOK), and what it hears of itself is no news (OwnJoins).*)
(***************************************************************************)
EXTENDS Membership, FiniteSetTheorems, TLAPS

Handler ==
    [op : {"idle", "remove", "add", "leave", "returned"}, id : Nodes,
     addr : Addresses, rest : SUBSET Servers, called : BOOLEAN]

Calling == {"remove", "add", "leave"}

CallsOK ==
    \A n \in Nodes :
        /\ handler[n].op \in Calling => handler[n].id # n
        /\ handler[n].called => leader = n /\ handler[n].op \in Calling
        /\ handler[n].called /\ handler[n].op = "add" =>
              Server(handler[n].id, handler[n].addr) \in servers

LeaderOK ==
    leader # NoNode => Running(leader) /\ Server(leader, addr[leader]) \in servers

OwnJoins ==
    \A n \in Nodes : \A i \in 1 .. Len(events[n]) :
        events[n][i].kind = "join" /\ events[n][i].id = n => events[n][i].addr = addr[n]

IInv == TypeOK /\ CallsOK /\ LeaderOK /\ OwnJoins

-----------------------------------------------------------------------------
LEMMA Shapes ==
    ASSUME TypeOK, NEW n \in Nodes
    PROVE  /\ handler[n] \in Handler /\ handler[n].id \in Nodes /\ handler[n].addr \in Addresses
           /\ handler[n].rest \subseteq Servers /\ handler[n].called \in BOOLEAN
           /\ events[n] \in Seq(Events) /\ Len(events[n]) \in Nat
           /\ addr[n] \in Addresses /\ status[n] \in {"down", "up", "leaving"}
           /\ Server(n, addr[n]) \in Servers
  <1>1. handler[n] \in Handler
    BY DEF TypeOK, Handler
  <1>2. /\ handler[n].id \in Nodes /\ handler[n].addr \in Addresses
        /\ handler[n].rest \subseteq Servers /\ handler[n].called \in BOOLEAN
    BY <1>1 DEF Handler
  <1>3. /\ events[n] \in Seq(Events) /\ addr[n] \in Addresses
        /\ status[n] \in {"down", "up", "leaving"}
    BY DEF TypeOK
  <1>4. Server(n, addr[n]) \in Servers
    BY <1>3 DEF Server, Servers
  <1> QED
    BY <1>1, <1>2, <1>3, <1>4

LEMMA IdleIs ==
    /\ Idle \in Handler /\ Idle.op = "idle" /\ Idle.called = FALSE
    /\ First \in Nodes /\ \E a \in Addresses : TRUE
  <1>1. First \in Nodes
    BY MembershipAssumption
  <1>2. AddressesOf[First] \in (SUBSET Addresses) \ {{}}
    BY <1>1, MembershipAssumption
  <1>3. \E a \in Addresses : TRUE
    BY <1>2
  <1>4. (CHOOSE a \in Addresses : TRUE) \in Addresses
    BY <1>3
  <1> QED
    BY <1>1, <1>3, <1>4 DEF Idle, Handler

LEMMA EventIs ==
    ASSUME NEW kind \in {"join", "leave", "failed"}, NEW n \in Nodes, NEW a \in Addresses
    PROVE  /\ Event(kind, n, a) \in Events /\ Event(kind, n, a).kind = kind
           /\ Event(kind, n, a).id = n /\ Event(kind, n, a).addr = a
  BY DEF Event, Events

LEMMA ServerIs ==
    ASSUME NEW n \in Nodes, NEW a \in Addresses
    PROVE  Server(n, a) \in Servers /\ Server(n, a).id = n /\ Server(n, a).addr = a
  BY DEF Server, Servers

(* An event about another agent, or that is no join, is no join of one's   *)
(* own.                                                                    *)
LEMMA HeardIs ==
    ASSUME TypeOK, OwnJoins, NEW e \in Events
    PROVE  /\ Heard(events, e) \in [Nodes -> Seq(Events)]
           /\ \A n \in Nodes :
                 n # e.id \/ e.kind # "join" \/ ~Running(n) =>
                    \A i \in 1 .. Len(Heard(events, e)[n]) :
                        LET x == Heard(events, e)[n][i]
                        IN  x.kind = "join" /\ x.id = n => x.addr = addr[n]
           /\ \A n \in Nodes : Len(Heard(events, e)[n]) >= Len(events[n])
  <1> SUFFICES ASSUME NEW n \in Nodes
               PROVE  /\ Heard(events, e)[n] \in Seq(Events)
                      /\ n # e.id \/ e.kind # "join" \/ ~Running(n) =>
                            \A i \in 1 .. Len(Heard(events, e)[n]) :
                                LET x == Heard(events, e)[n][i]
                                IN  x.kind = "join" /\ x.id = n => x.addr = addr[n]
                      /\ Len(Heard(events, e)[n]) >= Len(events[n])
    BY DEF Heard
  <1>1. events[n] \in Seq(Events) /\ Len(events[n]) \in Nat
    BY Shapes
  <1>2. \A i \in 1 .. Len(events[n]) :
           events[n][i].kind = "join" /\ events[n][i].id = n => events[n][i].addr = addr[n]
    BY DEF OwnJoins
  <1>3. CASE Running(n)
    <2>1. Heard(events, e)[n] = Append(events[n], e)
      BY <1>3 DEF Heard
    <2>2. /\ Append(events[n], e) \in Seq(Events)
          /\ Len(Append(events[n], e)) = Len(events[n]) + 1
          /\ Append(events[n], e)[Len(events[n]) + 1] = e
          /\ \A i \in 1 .. Len(events[n]) : Append(events[n], e)[i] = events[n][i]
      BY <1>1
    <2>3. ASSUME n # e.id \/ e.kind # "join", NEW i \in 1 .. Len(events[n]) + 1,
                 Append(events[n], e)[i].kind = "join", Append(events[n], e)[i].id = n
          PROVE  Append(events[n], e)[i].addr = addr[n]
      <3>1. i # Len(events[n]) + 1
        BY <2>2, <2>3
      <3>2. i \in 1 .. Len(events[n])
        BY <1>1, <3>1
      <3> QED
        BY <1>2, <2>2, <2>3, <3>2
    <2> QED
      BY <1>1, <1>3, <2>1, <2>2, <2>3
  <1>4. CASE ~Running(n)
    BY <1>1, <1>2, <1>4 DEF Heard
  <1> QED
    BY <1>3, <1>4

LEMMA Initially == Init => IInv
  <1> SUFFICES ASSUME Init PROVE IInv
    OBVIOUS
  <1> USE DEF Init
  <1>1. ASSUME NEW n \in Nodes
        PROVE  addr[n] \in Addresses
    BY MembershipAssumption
  <1>2. addr \in [Nodes -> Addresses]
    BY <1>1
  <1>3. servers \subseteq Servers /\ settled \subseteq Servers
    BY <1>1, MembershipAssumption DEF Server, Servers
  <1>4. TypeOK
    <2>1. handler \in [Nodes -> Handler] /\ leader \in Nodes
      BY IdleIs
    <2>2. starts \in 0 .. MaxStarts /\ elections \in 0 .. MaxElections
      BY MembershipAssumption
    <2>3. /\ status \in [Nodes -> {"down", "up", "leaving"}]
          /\ events \in [Nodes -> Seq(Events)]
      OBVIOUS
    <2> QED
      BY <1>2, <1>3, <2>1, <2>2, <2>3 DEF TypeOK, Handler
  <1>5. CallsOK
    <2>1. \A n \in Nodes : handler[n].op = "idle" /\ handler[n].called = FALSE
      BY IdleIs
    <2> QED
      BY <2>1 DEF CallsOK, Calling
  <1>6. LeaderOK
    <2>1. First \in Initial /\ First \in Nodes
      BY MembershipAssumption
    <2>2. status[First] = "up" /\ leader = First
      BY <2>1
    <2>3. servers = {Server(n, addr[n]) : n \in Initial}
      OBVIOUS
    <2>4. Server(First, addr[First]) \in servers
      BY <2>1, <2>3
    <2> QED
      BY <2>2, <2>4 DEF LeaderOK, Running
  <1>7. OwnJoins
    BY DEF OwnJoins
  <1> QED
    BY <1>4, <1>5, <1>6, <1>7 DEF IInv

-----------------------------------------------------------------------------
(* Serf: agents come and go.                                               *)

LEMMA GreetIs ==
    ASSUME NEW others \in SUBSET Nodes,
           NEW greet,
           greet = CHOOSE s \in [1 .. Cardinality(others) -> others] :
                      \A i, j \in DOMAIN s : s[i] = s[j] => i = j
    PROVE  Cardinality(others) \in Nat /\ greet \in [1 .. Cardinality(others) -> others]
  <1>1. IsFiniteSet(others)
    BY MembershipAssumption, FS_Subset
  <1>2. Cardinality(others) \in Nat
    BY <1>1, FS_CardinalityType
  <1>3. ExistsBijection(1 .. Cardinality(others), others)
    BY <1>1, FS_CardinalityType
  <1>4. PICK s : s \in Bijection(1 .. Cardinality(others), others)
    BY <1>3 DEF ExistsBijection
  <1>5. /\ s \in [1 .. Cardinality(others) -> others]
        /\ \A i, j \in DOMAIN s : s[i] = s[j] => i = j
    BY <1>4 DEF Bijection, Injection, Surjection, IsInjective
  <1> QED
    BY <1>2, <1>5

LEMMA StartKeeps ==
    ASSUME IInv, NEW n \in Nodes, NEW address \in AddressesOf[n], Start(n, address)
    PROVE  IInv'
  <1> DEFINE others == {m \in Nodes : status[m] = "up"}
             greet  == CHOOSE s \in [1 .. Cardinality(others) -> others] :
                          \A i, j \in DOMAIN s : s[i] = s[j] => i = j
             e      == Event("join", n, address)
             hail   == [i \in DOMAIN greet |-> Event("join", greet[i], addr[greet[i]])]
             mine   == <<e>> \o hail
  <1>1. /\ status[n] = "down" /\ starts < MaxStarts /\ starts' = starts + 1
        /\ status' = [status EXCEPT ![n] = "up"] /\ addr' = [addr EXCEPT ![n] = address]
        /\ events' = [Heard(events, e) EXCEPT ![n] = mine]
        /\ handler' = [handler EXCEPT ![n] = Idle]
        /\ UNCHANGED <<leader, servers, settled, elections>>
    BY DEF Start, config
  <1>2. address \in Addresses /\ e \in Events /\ e.kind = "join" /\ e.id = n /\ e.addr = address
    <2>1. address \in Addresses
      BY MembershipAssumption
    <2> QED
      BY <2>1, EventIs
  <1>3. greet \in [1 .. Cardinality(others) -> others] /\ Cardinality(others) \in Nat
        /\ n \notin others /\ others \subseteq Nodes
    BY <1>1, GreetIs
  <1> DEFINE k == Cardinality(others)
  <1> HIDE DEF greet, others, e
  <1>4. /\ hail \in Seq(Events) /\ Len(hail) = k
        /\ \A i \in 1 .. k : hail[i].id # n
    <2>1. ASSUME NEW i \in 1 .. k
          PROVE  /\ Event("join", greet[i], addr[greet[i]]) \in Events
                 /\ Event("join", greet[i], addr[greet[i]]).id # n
      <3>1. greet[i] \in Nodes /\ greet[i] # n
        BY <1>3
      <3>2. addr[greet[i]] \in Addresses
        BY <3>1, Shapes DEF IInv
      <3> QED
        BY <3>1, <3>2, EventIs
    <2>2. hail = [i \in 1 .. k |-> Event("join", greet[i], addr[greet[i]])]
      BY <1>3
    <2> QED
      BY <1>3, <2>1, <2>2
  <1> HIDE DEF hail
  <1>5. /\ mine \in Seq(Events) /\ Len(mine) = k + 1
        /\ \A i \in 1 .. k + 1 : mine[i].id = n => mine[i].addr = address
    <2>1. /\ mine \in Seq(Events) /\ Len(mine) = k + 1 /\ mine[1] = e
          /\ \A i \in 2 .. k + 1 : mine[i] = hail[i - 1]
      BY <1>2, <1>3, <1>4
    <2>2. ASSUME NEW i \in 1 .. k + 1, mine[i].id = n
          PROVE  mine[i].addr = address
      <3>1. CASE i = 1
        BY <1>2, <2>1, <3>1
      <3>2. CASE i # 1
        <4>1. i \in 2 .. k + 1 /\ i - 1 \in 1 .. k
          BY <1>3, <3>2
        <4> QED
          BY <1>4, <2>1, <2>2, <4>1
      <3> QED
        BY <3>1, <3>2
    <2> QED
      BY <2>1, <2>2
  <1> HIDE DEF mine
  <1>6. /\ Heard(events, e) \in [Nodes -> Seq(Events)]
        /\ \A m \in Nodes \ {n} : \A i \in 1 .. Len(Heard(events, e)[m]) :
              LET x == Heard(events, e)[m][i]
              IN  x.kind = "join" /\ x.id = m => x.addr = addr[m]
    BY <1>2, HeardIs DEF IInv
  <1>7. /\ events' \in [Nodes -> Seq(Events)] /\ events'[n] = mine
        /\ \A m \in Nodes \ {n} : events'[m] = Heard(events, e)[m]
    BY <1>1, <1>5, <1>6
  <1>8. /\ addr' \in [Nodes -> Addresses] /\ addr'[n] = address
        /\ status' \in [Nodes -> {"down", "up", "leaving"}]
        /\ handler' \in [Nodes -> Handler] /\ handler'[n] = Idle
        /\ \A m \in Nodes \ {n} : addr'[m] = addr[m] /\ status'[m] = status[m]
                                  /\ handler'[m] = handler[m]
    BY <1>1, <1>2, IdleIs DEF IInv, TypeOK, Handler
  <1>9. TypeOK'
    <2>1. starts' \in 0 .. MaxStarts
      BY <1>1, MembershipAssumption DEF IInv, TypeOK
    <2> QED
      BY <1>1, <1>7, <1>8, <2>1 DEF IInv, TypeOK, Handler
  <1>10. CallsOK'
    BY <1>1, <1>8, IdleIs DEF IInv, CallsOK, Calling
  <1>11. LeaderOK'
    <2>1. leader # n
      BY <1>1, MembershipAssumption DEF IInv, LeaderOK, Running
    <2> QED
      BY <1>1, <1>8, <2>1 DEF IInv, TypeOK, LeaderOK, Running
  <1>12. OwnJoins'
    <2> SUFFICES ASSUME NEW m \in Nodes, NEW i \in 1 .. Len(events'[m]),
                        events'[m][i].kind = "join", events'[m][i].id = m
                 PROVE  events'[m][i].addr = addr'[m]
      BY DEF OwnJoins
    <2>1. CASE m = n
      <3>1. events'[m] = mine /\ addr'[m] = address
        BY <1>7, <1>8, <2>1
      <3>2. i \in 1 .. k + 1 /\ mine[i].id = n
        BY <1>5, <2>1, <3>1
      <3> QED
        BY <1>5, <3>1, <3>2
    <2>2. CASE m # n
      <3>1. events'[m] = Heard(events, e)[m] /\ addr'[m] = addr[m]
        BY <1>7, <1>8, <2>2
      <3> QED
        BY <1>6, <2>2, <3>1
    <2> QED
      BY <2>1, <2>2
  <1> QED
    BY <1>9, <1>10, <1>11, <1>12 DEF IInv

LEMMA SerfLeaveKeeps ==
    ASSUME IInv, NEW n \in Nodes, SerfLeave(n)
    PROVE  IInv'
  <1> DEFINE e == Event("leave", n, addr[n])
  <1>1. /\ status[n] = "up" /\ status' = [status EXCEPT ![n] = "leaving"]
        /\ events' = Heard(events, e)
        /\ UNCHANGED <<addr, handler, leader, servers, settled, starts, elections>>
    BY DEF SerfLeave, config, bounds
  <1>2. e \in Events /\ e.kind = "leave"
    BY Shapes, EventIs DEF IInv
  <1> HIDE DEF e
  <1>3. /\ events' \in [Nodes -> Seq(Events)]
        /\ \A m \in Nodes : \A i \in 1 .. Len(events'[m]) :
              LET x == events'[m][i]
              IN  x.kind = "join" /\ x.id = m => x.addr = addr[m]
    BY <1>1, <1>2, HeardIs DEF IInv
  <1>4. TypeOK'
    BY <1>1, <1>3 DEF IInv, TypeOK
  <1>5. LeaderOK'
    BY <1>1 DEF IInv, TypeOK, LeaderOK, Running
  <1>6. CallsOK' /\ OwnJoins'
    BY <1>1, <1>3 DEF IInv, CallsOK, OwnJoins
  <1> QED
    BY <1>4, <1>5, <1>6 DEF IInv

LEMMA GoneKeeps ==
    ASSUME IInv, NEW n \in Nodes, Gone(n), events' \in [Nodes -> Seq(Events)], OwnJoins'
    PROVE  IInv'
  <1>1. /\ status' = [status EXCEPT ![n] = "down"] /\ handler' = [handler EXCEPT ![n] = Idle]
        /\ leader' = IF leader = n THEN NoNode ELSE leader
        /\ UNCHANGED <<addr, servers, settled, starts, elections>>
    BY DEF Gone, bounds
  <1>2. /\ status' \in [Nodes -> {"down", "up", "leaving"}]
        /\ handler' \in [Nodes -> Handler] /\ handler'[n] = Idle
        /\ \A m \in Nodes \ {n} : status'[m] = status[m] /\ handler'[m] = handler[m]
    BY <1>1, IdleIs DEF IInv, TypeOK, Handler
  <1>3. TypeOK'
    BY <1>1, <1>2 DEF IInv, TypeOK, Handler
  <1>4. CallsOK'
    BY <1>1, <1>2, IdleIs DEF IInv, CallsOK, Calling
  <1>5. LeaderOK'
    BY <1>1, <1>2 DEF IInv, TypeOK, LeaderOK, Running
  <1> QED
    BY <1>3, <1>4, <1>5 DEF IInv

LEMMA AgentEnds ==
    ASSUME IInv, NEW n \in Nodes, LogClose(n) \/ Fail(n)
    PROVE  IInv'
  <1> DEFINE e == Event("failed", n, addr[n])
  <1>1. CASE LogClose(n)
    <2>1. events' = [events EXCEPT ![n] = <<>>] /\ Gone(n) /\ addr' = addr
      BY <1>1 DEF LogClose, Gone
    <2>2. events' \in [Nodes -> Seq(Events)] /\ OwnJoins'
      BY <2>1 DEF IInv, TypeOK, OwnJoins
    <2> QED
      BY <2>1, <2>2, GoneKeeps
  <1>2. CASE Fail(n)
    <2>1. events' = [Heard(events, e) EXCEPT ![n] = <<>>] /\ Gone(n) /\ addr' = addr
      BY <1>2 DEF Fail, Gone
    <2>2. e \in Events /\ e.kind = "failed"
      BY Shapes, EventIs DEF IInv
    <2> HIDE DEF e
    <2>3. /\ Heard(events, e) \in [Nodes -> Seq(Events)]
          /\ \A m \in Nodes : \A i \in 1 .. Len(Heard(events, e)[m]) :
                LET x == Heard(events, e)[m][i]
                IN  x.kind = "join" /\ x.id = m => x.addr = addr[m]
      BY <2>2, HeardIs DEF IInv
    <2>4. events' \in [Nodes -> Seq(Events)] /\ OwnJoins'
      BY <2>1, <2>3 DEF OwnJoins
    <2> QED
      BY <2>1, <2>4, GoneKeeps
  <1> QED
    BY <1>1, <1>2

-----------------------------------------------------------------------------
(* Raft: the leader changes, and the calls at the old one fail.            *)

LEMMA CallsFailedIs ==
    ASSUME IInv
    PROVE  /\ CallsFailed \in [Nodes -> Handler]
           /\ \A n \in Nodes : CallsFailed[n].called = FALSE
           /\ \A n \in Nodes : CallsFailed[n].op \in Calling => CallsFailed[n].id # n
  <1> SUFFICES ASSUME NEW n \in Nodes
               PROVE  /\ CallsFailed[n] \in Handler /\ CallsFailed[n].called = FALSE
                      /\ CallsFailed[n].op \in Calling => CallsFailed[n].id # n
    BY DEF CallsFailed
  <1>1. handler[n] \in Handler /\ handler[n].called \in BOOLEAN
    BY Shapes DEF IInv
  <1>2. CASE handler[n].called
    BY <1>2, IdleIs DEF CallsFailed, Calling
  <1>3. CASE ~handler[n].called
    BY <1>1, <1>3 DEF CallsFailed, IInv, CallsOK
  <1> QED
    BY <1>2, <1>3

LEMMA ElectKeeps ==
    ASSUME IInv, NEW n \in Nodes, NEW voters \in {servers, settled}, Elect(n, voters)
    PROVE  IInv'
  <1>1. /\ Running(n) /\ Server(n, addr[n]) \in voters /\ elections < MaxElections
        /\ elections' = elections + 1 /\ leader' = n /\ servers' = voters /\ settled' = voters
        /\ handler' = CallsFailed /\ UNCHANGED <<status, addr, events, starts>>
    BY DEF Elect, agents
  <1>2. TypeOK'
    <2>1. voters \subseteq Servers /\ elections + 1 \in 0 .. MaxElections
      BY <1>1, MembershipAssumption DEF IInv, TypeOK
    <2>2. /\ CallsFailed \in [Nodes -> Handler] /\ status \in [Nodes -> {"down", "up", "leaving"}]
          /\ addr \in [Nodes -> Addresses] /\ events \in [Nodes -> Seq(Events)]
          /\ starts \in 0 .. MaxStarts
      BY CallsFailedIs DEF IInv, TypeOK
    <2> QED
      BY <1>1, <2>1, <2>2 DEF TypeOK, Handler
  <1>3. CallsOK'
    BY <1>1, CallsFailedIs DEF CallsOK
  <1>4. LeaderOK' /\ OwnJoins'
    BY <1>1 DEF IInv, LeaderOK, Running, OwnJoins
  <1> QED
    BY <1>2, <1>3, <1>4 DEF IInv

LEMMA LoseLeaderKeeps ==
    ASSUME IInv, LoseLeader
    PROVE  IInv'
  <1>1. /\ leader' = NoNode /\ handler' = CallsFailed
        /\ UNCHANGED <<status, addr, events, servers, settled, starts, elections>>
    BY DEF LoseLeader, agents, bounds
  <1>2. TypeOK'
    BY <1>1, CallsFailedIs DEF IInv, TypeOK, Handler
  <1>3. CallsOK'
    BY <1>1, CallsFailedIs DEF CallsOK
  <1>4. LeaderOK' /\ OwnJoins'
    BY <1>1 DEF IInv, LeaderOK, Running, OwnJoins
  <1> QED
    BY <1>2, <1>3, <1>4 DEF IInv

-----------------------------------------------------------------------------
(* eventHandler.                                                           *)

LEMMA HandlerKeeps ==
    ASSUME IInv, NEW n \in Nodes, NEW h \in Handler, handler' = [handler EXCEPT ![n] = h],
           UNCHANGED <<status, addr, leader, servers, starts, elections>>,
           settled' \subseteq Servers, events' \in [Nodes -> Seq(Events)], OwnJoins',
           h.called = FALSE, h.op \in Calling => h.id # n
    PROVE  IInv'
  <1>1. /\ handler' \in [Nodes -> Handler] /\ handler'[n] = h
        /\ \A m \in Nodes \ {n} : handler'[m] = handler[m]
    BY DEF IInv, TypeOK, Handler
  <1>2. TypeOK'
    BY <1>1 DEF IInv, TypeOK, Handler
  <1>3. CallsOK'
    BY <1>1 DEF IInv, CallsOK
  <1>4. LeaderOK'
    BY DEF IInv, LeaderOK, Running
  <1> QED
    BY <1>2, <1>3, <1>4 DEF IInv

LEMMA ReceiveKeeps ==
    ASSUME IInv, NEW n \in Nodes, NEW kinds, Receives(n, kinds),
           NEW h \in Handler, handler' = [handler EXCEPT ![n] = h],
           h.called = FALSE, h.op \in Calling => h.id # n
    PROVE  IInv'
  <1>1. /\ events[n] # <<>> /\ events' = [events EXCEPT ![n] = Tail(events[n])]
        /\ UNCHANGED <<status, addr, leader, servers, settled, starts, elections>>
    BY DEF Receives, config, bounds
  <1>2. events[n] \in Seq(Events) /\ Len(events[n]) \in Nat
    BY Shapes DEF IInv
  <1>3. /\ Tail(events[n]) \in Seq(Events) /\ Len(Tail(events[n])) = Len(events[n]) - 1
        /\ \A i \in 1 .. Len(Tail(events[n])) : Tail(events[n])[i] = events[n][i + 1]
    BY <1>1, <1>2
  <1>4. /\ events' \in [Nodes -> Seq(Events)] /\ events'[n] = Tail(events[n])
        /\ \A m \in Nodes \ {n} : events'[m] = events[m]
    BY <1>1, <1>3 DEF IInv, TypeOK
  <1>5. OwnJoins'
    <2>1. ASSUME NEW i \in 1 .. Len(Tail(events[n])),
                 Tail(events[n])[i].kind = "join", Tail(events[n])[i].id = n
          PROVE  Tail(events[n])[i].addr = addr[n]
      <3>1. i + 1 \in 1 .. Len(events[n])
        BY <1>2, <1>3
      <3> QED
        BY <1>3, <2>1, <3>1 DEF IInv, OwnJoins
    <2> QED
      BY <1>1, <1>4, <2>1 DEF IInv, OwnJoins
  <1> QED
    BY <1>1, <1>4, <1>5, HandlerKeeps DEF IInv, TypeOK

LEMMA HeadIs ==
    ASSUME TypeOK, NEW n \in Nodes, events[n] # <<>>
    PROVE  /\ Head(events[n]) \in Events /\ Head(events[n]) = events[n][1]
           /\ 1 \in 1 .. Len(events[n])
           /\ Head(events[n]).id \in Nodes /\ Head(events[n]).addr \in Addresses
  <1>1. events[n] \in Seq(Events)
    BY Shapes
  <1>2. Head(events[n]) \in Events /\ Head(events[n]) = events[n][1] /\ 1 \in 1 .. Len(events[n])
    BY <1>1
  <1> QED
    BY <1>2 DEF Events

LEMMA HandlesKeep ==
    ASSUME IInv, NEW n \in Nodes, HandleLocal(n) \/ HandleJoin(n) \/ HandleLeave(n)
    PROVE  IInv'
  <1> DEFINE e == Head(events[n])
  <1>1. events[n] # <<>> /\ handler[n].op = "idle"
    BY DEF HandleLocal, HandleJoin, HandleLeave, Receives
  <1>2. e.id \in Nodes /\ e.addr \in Addresses
    BY <1>1, HeadIs DEF IInv
  <1> HIDE DEF e
  <1>3. handler[n].called = FALSE
    <2>1. handler[n].called \in BOOLEAN
      BY Shapes DEF IInv
    <2> QED
      BY <1>1, <2>1 DEF IInv, CallsOK, Calling
  <1>4. CASE HandleLocal(n)
    <2> DEFINE op == IF e.kind = "join" THEN "idle" ELSE "returned"
               h  == [handler[n] EXCEPT !.op = op]
    <2>1. Receives(n, {"join", "leave", "failed"}) /\ handler' = [handler EXCEPT ![n] = h]
      BY <1>4 DEF HandleLocal, e
    <2>2. op \in {"idle", "returned"}
      OBVIOUS
    <2> HIDE DEF op
    <2>3. h \in Handler /\ h.op = op /\ h.called = FALSE
      BY <1>3, <2>2, Shapes DEF IInv, Handler
    <2> HIDE DEF h
    <2> QED
      BY <2>1, <2>2, <2>3, ReceiveKeeps DEF Calling
  <1>5. CASE HandleJoin(n)
    <2> DEFINE same == {s \in servers : s.id = e.id \/ s.addr = e.addr}
               next == [op |-> IF same = {} THEN "add" ELSE "remove",
                        id |-> e.id, addr |-> e.addr, rest |-> same, called |-> FALSE]
    <2>1. /\ Receives(n, {"join"}) /\ e.id # n
          /\ handler' = [handler EXCEPT ![n] = IF Joined(e.id, e.addr) THEN Idle ELSE next]
      BY <1>5 DEF HandleJoin, isLocal, e
    <2>2. same \subseteq Servers
      BY DEF IInv, TypeOK
    <2> HIDE DEF same
    <2>3. next \in Handler /\ next.called = FALSE /\ next.id = e.id
      BY <1>2, <2>2 DEF Handler
    <2> HIDE DEF next
    <2>4. CASE Joined(e.id, e.addr)
      BY <2>1, <2>4, IdleIs, ReceiveKeeps DEF Calling
    <2>5. CASE ~Joined(e.id, e.addr)
      BY <2>1, <2>3, <2>5, ReceiveKeeps
    <2> QED
      BY <2>4, <2>5
  <1>6. CASE HandleLeave(n)
    <2> DEFINE next == [op |-> "leave", id |-> e.id, addr |-> e.addr, rest |-> {}, called |-> FALSE]
    <2>1. /\ Receives(n, {"leave", "failed"}) /\ e.id # n
          /\ handler' = [handler EXCEPT ![n] = next]
      BY <1>6 DEF HandleLeave, isLocal, e
    <2>2. next \in Handler /\ next.called = FALSE /\ next.id = e.id
      BY <1>2 DEF Handler
    <2> HIDE DEF next
    <2> QED
      BY <2>1, <2>2, ReceiveKeeps
  <1> QED
    BY <1>4, <1>5, <1>6

-----------------------------------------------------------------------------
(* The calls of the leader are about others.                               *)

LEMMA CalledIs ==
    ASSUME NEW h \in Handler
    PROVE  LET x == [h EXCEPT !.called = TRUE]
           IN  x \in Handler /\ x.op = h.op /\ x.id = h.id /\ x.addr = h.addr
  BY DEF Handler

CallNext(h, rest, op) == [h EXCEPT !.rest = rest, !.called = FALSE, !.op = op]

LEMMA CallNextIs ==
    ASSUME NEW h \in Handler, NEW rest \in SUBSET h.rest, NEW op \in {"add", "remove"}
    PROVE  /\ CallNext(h, rest, op) \in Handler /\ CallNext(h, rest, op).called = FALSE
           /\ CallNext(h, rest, op).op = op /\ CallNext(h, rest, op).id = h.id
  <1> DEFINE a == [h EXCEPT !.rest = rest]
             b == [a EXCEPT !.called = FALSE]
             c == [b EXCEPT !.op = op]
  <1>1. a \in Handler /\ a.op = h.op /\ a.id = h.id
    BY DEF Handler
  <1> HIDE DEF a
  <1>2. b \in Handler /\ b.called = FALSE /\ b.op = a.op /\ b.id = a.id
    BY <1>1 DEF Handler
  <1> HIDE DEF b
  <1>3. c \in Handler /\ c.called = b.called /\ c.op = op /\ c.id = b.id
    BY <1>2 DEF Handler
  <1>4. CallNext(h, rest, op) = c
    BY DEF a, b, CallNext
  <1> HIDE DEF c
  <1> QED
    BY <1>1, <1>2, <1>3, <1>4

LEMMA LeaderCalls ==
    ASSUME IInv, NEW n \in Nodes, leader = n, handler[n].op \in Calling,
           NEW voters \in SUBSET Servers, servers' = voters,
           Server(n, addr[n]) \in voters,
           handler[n].op = "add" => Server(handler[n].id, handler[n].addr) \in voters,
           handler' = [handler EXCEPT ![n].called = TRUE],
           UNCHANGED <<status, addr, events, leader, settled, starts, elections>>
    PROVE  IInv'
  <1> DEFINE h == [handler[n] EXCEPT !.called = TRUE]
  <1>1. h \in Handler /\ h.op = handler[n].op /\ h.id = handler[n].id /\ h.addr = handler[n].addr
    BY Shapes, CalledIs DEF IInv
  <1>2. handler' = [handler EXCEPT ![n] = h]
    OBVIOUS
  <1> HIDE DEF h
  <1>3. /\ handler' \in [Nodes -> Handler] /\ handler'[n] = h
        /\ \A m \in Nodes \ {n} : handler'[m] = handler[m]
    <2>1. handler \in [Nodes -> Handler]
      BY DEF IInv, TypeOK, Handler
    <2> QED
      BY <1>1, <1>2, <2>1
  <1>4. TypeOK'
    BY <1>3 DEF IInv, TypeOK, Handler
  <1>5. CallsOK'
    BY <1>1, <1>3 DEF IInv, CallsOK
  <1>6. LeaderOK' /\ OwnJoins'
    BY DEF IInv, LeaderOK, OwnJoins, Running
  <1> QED
    BY <1>4, <1>5, <1>6 DEF IInv

LEMMA CallsKeep ==
    ASSUME IInv, NEW n \in Nodes, CallRemove(n) \/ CallAdd(n)
    PROVE  IInv'
  <1> DEFINE id == handler[n].id
             address == handler[n].addr
  <1>1. /\ handler[n].op \in Calling /\ leader = n
        /\ handler' = [handler EXCEPT ![n].called = TRUE]
        /\ UNCHANGED <<status, addr, events, leader, settled, starts, elections>>
    BY DEF CallRemove, CallAdd, Calls, Calling, agents, bounds
  <1>2. id # n /\ id \in Nodes /\ address \in Addresses
    BY <1>1, Shapes DEF IInv, CallsOK
  <1>3. /\ RemoveServer(id) \subseteq Servers
        /\ Server(n, addr[n]) \in RemoveServer(id)
    <2>1. Server(n, addr[n]) \in servers /\ servers \subseteq Servers
      BY <1>1, MembershipAssumption DEF IInv, TypeOK, LeaderOK
    <2>2. Server(n, addr[n]).id = n
      BY ServerIs, Shapes DEF IInv
    <2> QED
      BY <1>2, <2>1, <2>2 DEF RemoveServer
  <1>4. CASE CallRemove(n)
    <2>1. servers' = RemoveServer(id) /\ handler[n].op # "add"
      BY <1>4 DEF CallRemove, Calls
    <2> QED
      BY <1>1, <1>3, <2>1, LeaderCalls
  <1>5. CASE CallAdd(n)
    <2>1. servers' = AddVoter(id, address)
      BY <1>5 DEF CallAdd
    <2>2. /\ AddVoter(id, address) \subseteq Servers
          /\ Server(id, address) \in AddVoter(id, address)
          /\ Server(n, addr[n]) \in AddVoter(id, address)
      BY <1>2, <1>3, ServerIs DEF AddVoter
    <2> QED
      BY <1>1, <2>1, <2>2, LeaderCalls
  <1> QED
    BY <1>4, <1>5

LEMMA CallEnds ==
    ASSUME IInv, NEW n \in Nodes, CallFails(n) \/ CallReturns(n)
    PROVE  IInv'
  <1> DEFINE h == handler[n]
  <1>1. /\ UNCHANGED <<status, addr, events, leader, servers, starts, elections>>
        /\ settled' \in {servers, settled}
    BY DEF CallFails, CallReturns, agents, config, bounds
  <1>2. settled' \subseteq Servers /\ events' \in [Nodes -> Seq(Events)] /\ OwnJoins'
    BY <1>1 DEF IInv, TypeOK, OwnJoins
  <1>3. CASE handler' = [handler EXCEPT ![n] = Idle]
    BY <1>1, <1>2, <1>3, IdleIs, HandlerKeeps DEF Calling
  <1>4. CASE \E s \in h.rest :
                /\ h.op = "remove"
                /\ handler' = [handler EXCEPT ![n] =
                      [h EXCEPT !.rest = @ \ {s}, !.called = FALSE,
                                !.op = IF h.rest = {s} THEN "add" ELSE "remove"]]
    <2>1. PICK s \in h.rest :
             /\ h.op = "remove"
             /\ handler' = [handler EXCEPT ![n] =
                   [h EXCEPT !.rest = @ \ {s}, !.called = FALSE,
                             !.op = IF h.rest = {s} THEN "add" ELSE "remove"]]
      BY <1>4
    <2> DEFINE op == IF h.rest = {s} THEN "add" ELSE "remove"
               x  == CallNext(h, h.rest \ {s}, op)
    <2>2. op \in {"add", "remove"}
      OBVIOUS
    <2>3. handler' = [handler EXCEPT ![n] = x]
      BY <2>1 DEF CallNext
    <2> HIDE DEF op
    <2>4. x \in Handler /\ x.called = FALSE /\ x.op = op /\ x.id = h.id
      <3>1. h \in Handler /\ h.rest \ {s} \in SUBSET h.rest
        BY Shapes DEF IInv
      <3> HIDE DEF h
      <3> QED
        BY <2>2, <3>1, CallNextIs
    <2> HIDE DEF x
    <2>5. x.id # n
      BY <2>1, <2>4 DEF IInv, CallsOK, Calling
    <2> QED
      BY <1>1, <1>2, <2>3, <2>4, <2>5, HandlerKeeps
  <1> QED
    BY <1>3, <1>4 DEF CallFails, CallReturns

-----------------------------------------------------------------------------
LEMMA StepKeeps == IInv /\ [Next]_vars => IInv'
  <1> SUFFICES ASSUME IInv, [Next]_vars PROVE IInv'
    OBVIOUS
  <1>1. CASE UNCHANGED vars
    BY <1>1 DEF vars, agents, config, bounds, IInv, TypeOK, CallsOK, LeaderOK, OwnJoins, Running
  <1>2. ASSUME NEW n \in Nodes, NEW address \in AddressesOf[n], Start(n, address) PROVE IInv'
    BY <1>2, StartKeeps
  <1>3. ASSUME NEW n \in Nodes, SerfLeave(n) \/ LogClose(n) \/ Fail(n) PROVE IInv'
    BY <1>3, SerfLeaveKeeps, AgentEnds
  <1>4. ASSUME NEW n \in Nodes, NEW voters \in {servers, settled}, Elect(n, voters) PROVE IInv'
    BY <1>4, ElectKeeps
  <1>5. ASSUME NEW n \in Nodes, Handle(n) PROVE IInv'
    BY <1>5, HandlesKeep, CallsKeep, CallEnds DEF Handle
  <1>6. CASE LoseLeader
    BY <1>6, LoseLeaderKeeps
  <1> QED
    BY <1>1, <1>2, <1>3, <1>4, <1>5, <1>6 DEF Next

LEMMA Invariance == Spec => []IInv
  BY Initially, StepKeeps, PTL DEF Spec

(* The shape of the state, for any number of agents.                       *)
THEOREM MembershipTypeOK == Spec => []TypeOK
  <1>1. IInv => TypeOK
    BY DEF IInv
  <1> QED
    BY <1>1, Invariance, PTL

(* At no moment of a change is the leader out of the configuration.        *)
THEOREM MembershipLeaderIsServer == Spec => []LeaderIsServer
  <1>1. IInv => LeaderIsServer
    <2> SUFFICES ASSUME IInv, leader # NoNode PROVE \E s \in servers : s.id = leader
      BY DEF LeaderIsServer
    <2>1. leader \in Nodes /\ Server(leader, addr[leader]) \in servers
      BY DEF IInv, TypeOK, LeaderOK
    <2>2. Server(leader, addr[leader]).id = leader
      BY <2>1, Shapes, ServerIs DEF IInv
    <2> QED
      BY <2>1, <2>2
  <1> QED
    BY <1>1, Invariance, PTL

-----------------------------------------------------------------------------
(* What becomes of a join, step by step.                                   *)

JoinDone(l) ==
    leader = l /\ leader' = l /\ Running(l) /\ handler'[l].op = "idle" =>
        \A s \in JoinOf(l) : AddressTaken(s.id, s.addr) \/ s \in servers'

(* It takes a step of the handler to be done with one.                     *)
LEMMA JoinElsewhere ==
    ASSUME TypeOK, NEW l \in Nodes, handler'[l] = handler[l],
           events'[l] \in Seq(Events), Len(events'[l]) >= Len(events[l])
    PROVE  JoinDone(l)
  <1> SUFFICES ASSUME handler[l].op = "idle" PROVE JoinOf(l) = {}
    BY DEF JoinDone
  <1>1. ASSUME events[l] # <<>>, events'[l] = Tail(events[l])
        PROVE  FALSE
    <2>1. events[l] \in Seq(Events) /\ Len(events[l]) \in Nat
      BY Shapes
    <2>2. Len(Tail(events[l])) = Len(events[l]) - 1
      BY <1>1, <2>1
    <2> QED
      BY <1>1, <2>1, <2>2
  <1>2. ~(events[l] # <<>> /\ events'[l] = Tail(events[l]))
    BY <1>1
  <1> QED
    BY <1>2 DEF JoinOf

LEMMA JoinAgents ==
    ASSUME IInv, NEW l \in Nodes, NEW n \in Nodes,
           \/ \E address \in AddressesOf[n] : Start(n, address)
           \/ SerfLeave(n) \/ LogClose(n) \/ Fail(n)
    PROVE  JoinDone(l)
  <1> SUFFICES ASSUME Running(l), leader = l, leader' = l
               PROVE  JoinDone(l)
    BY DEF JoinDone
  <1>1. l # NoNode
    BY MembershipAssumption
  <1>2. \A e \in Events : /\ Heard(events, e) \in [Nodes -> Seq(Events)]
                          /\ Len(Heard(events, e)[l]) >= Len(events[l])
    BY HeardIs DEF IInv
  <1>3. events[l] \in Seq(Events) /\ Len(events[l]) >= Len(events[l]) /\ addr[n] \in Addresses
    BY Shapes DEF IInv
  <1>4. ASSUME NEW address \in AddressesOf[n], Start(n, address)
        PROVE  JoinDone(l)
    <2> DEFINE e == Event("join", n, address)
    <2>1. e \in Events
      BY EventIs, MembershipAssumption
    <2>2. n # l
      BY <1>4 DEF Start, Running
    <2>3. \E mine : events' = [Heard(events, e) EXCEPT ![n] = mine]
      BY <1>4 DEF Start
    <2>4. handler' = [handler EXCEPT ![n] = Idle]
      BY <1>4 DEF Start
    <2> HIDE DEF e
    <2>5. events'[l] = Heard(events, e)[l] /\ handler'[l] = handler[l]
      BY <1>2, <2>1, <2>2, <2>3, <2>4 DEF IInv, TypeOK
    <2> QED
      BY <1>2, <2>1, <2>5, JoinElsewhere DEF IInv
  <1>5. CASE SerfLeave(n)
    <2> DEFINE e == Event("leave", n, addr[n])
    <2>1. e \in Events
      BY <1>3, EventIs
    <2>2. events' = Heard(events, e) /\ handler' = handler
      BY <1>5 DEF SerfLeave
    <2> HIDE DEF e
    <2> QED
      BY <1>2, <2>1, <2>2, JoinElsewhere DEF IInv
  <1>6. CASE LogClose(n)
    <2>1. n # l /\ handler' = [handler EXCEPT ![n] = Idle] /\ events' = [events EXCEPT ![n] = <<>>]
      BY <1>1, <1>6 DEF LogClose, Gone
    <2>2. handler'[l] = handler[l] /\ events'[l] = events[l]
      BY <2>1 DEF IInv, TypeOK
    <2> QED
      BY <1>3, <2>2, JoinElsewhere DEF IInv
  <1>7. CASE Fail(n)
    <2> DEFINE e == Event("failed", n, addr[n])
    <2>1. e \in Events
      BY <1>3, EventIs
    <2>2. n # l /\ handler' = [handler EXCEPT ![n] = Idle]
          /\ events' = [Heard(events, e) EXCEPT ![n] = <<>>]
      BY <1>1, <1>7 DEF Fail, Gone
    <2> HIDE DEF e
    <2>3. handler'[l] = handler[l] /\ events'[l] = Heard(events, e)[l]
      BY <1>2, <2>1, <2>2 DEF IInv, TypeOK
    <2> QED
      BY <1>2, <2>1, <2>3, JoinElsewhere DEF IInv
  <1> QED
    BY <1>4, <1>5, <1>6, <1>7

LEMMA JoinOthersHandle ==
    ASSUME IInv, NEW l \in Nodes, NEW n \in Nodes, n # l, Handle(n)
    PROVE  JoinDone(l)
  <1>1. handler'[l] = handler[l]
    <2>1. \E h : handler' = [handler EXCEPT ![n] = h]
      BY DEF Handle, HandleLocal, HandleJoin, HandleLeave, CallRemove, CallAdd, CallFails,
             CallReturns
    <2> QED
      BY <2>1 DEF IInv, TypeOK
  <1>2. events'[l] = events[l]
    BY DEF Handle, HandleLocal, HandleJoin, HandleLeave, Receives, CallRemove, CallAdd, CallFails,
           CallReturns, agents, IInv, TypeOK
  <1>3. events[l] \in Seq(Events) /\ Len(events[l]) \in Nat
    BY Shapes DEF IInv
  <1> QED
    BY <1>1, <1>2, <1>3, JoinElsewhere DEF IInv

LEMMA JoinHandle ==
    ASSUME IInv, NEW l \in Nodes, Handle(l)
    PROVE  JoinDone(l)
  <1> SUFFICES ASSUME leader = l, leader' = l, handler'[l].op = "idle", NEW s \in JoinOf(l)
               PROVE  AddressTaken(s.id, s.addr) \/ s \in servers'
    BY DEF JoinDone
  <1> DEFINE e == Head(events[l])
             h == handler[l]
  <1>1. /\ h.op \in {"idle", "remove", "add"}
        /\ h.op \in {"remove", "add"} => s = Server(h.id, h.addr)
        /\ h.op = "idle" => /\ s = Server(e.id, e.addr) /\ e.kind = "join" /\ events[l] # <<>>
    BY DEF JoinOf
  <1>2. handler \in [Nodes -> Handler] /\ h \in Handler
    BY Shapes DEF IInv, TypeOK, Handler
  <1>3. CASE HandleLocal(l)
    <2>1. h.op = "idle" /\ e.id = l /\ servers' = servers
      BY <1>3 DEF HandleLocal, Receives, isLocal, config
    <2>2. e = events[l][1] /\ 1 \in 1 .. Len(events[l])
      BY <1>1, <2>1, HeadIs DEF IInv
    <2>3. e.addr = addr[l]
      BY <1>1, <2>1, <2>2 DEF IInv, OwnJoins
    <2>4. Server(l, addr[l]) \in servers
      BY MembershipAssumption DEF IInv, LeaderOK
    <2> QED
      BY <1>1, <2>1, <2>3, <2>4
  <1>4. CASE HandleJoin(l)
    <2> DEFINE same == {x \in servers : x.id = e.id \/ x.addr = e.addr}
               next == [op |-> IF same = {} THEN "add" ELSE "remove",
                        id |-> e.id, addr |-> e.addr, rest |-> same, called |-> FALSE]
    <2>1. /\ h.op = "idle" /\ servers' = servers
          /\ handler' = [handler EXCEPT ![l] = IF Joined(e.id, e.addr) THEN Idle ELSE next]
      BY <1>4 DEF HandleJoin, Receives, config
    <2>2. next.op # "idle"
      OBVIOUS
    <2> HIDE DEF next
    <2>3. Joined(e.id, e.addr)
      BY <1>2, <2>1, <2>2
    <2> QED
      BY <1>1, <2>1, <2>3 DEF Joined
  <1>5. CASE HandleLeave(l)
    BY <1>1, <1>5 DEF HandleLeave, Receives
  <1>6. CASE CallRemove(l) \/ CallAdd(l)
    <2>1. h.op # "idle" /\ handler' = [handler EXCEPT ![l].called = TRUE]
      BY <1>6 DEF CallRemove, CallAdd, Calls
    <2>2. handler'[l].op = h.op
      BY <1>2, <2>1, CalledIs
    <2> QED
      BY <2>1, <2>2
  <1>7. CASE CallFails(l)
    <2>1. h.op = "add" /\ AddressTaken(h.id, h.addr)
      BY <1>7 DEF CallFails
    <2>2. s = Server(h.id, h.addr) /\ h.id \in Nodes /\ h.addr \in Addresses
      BY <1>1, <2>1, Shapes DEF IInv
    <2> HIDE DEF h
    <2>3. s.id = h.id /\ s.addr = h.addr
      BY <2>2, ServerIs
    <2> QED
      BY <2>1, <2>3
  <1>8. CASE CallReturns(l)
    <2>1. h.called /\ servers' = servers
      BY <1>8 DEF CallReturns
    <2>2. h.op # "idle"
      BY <2>1 DEF IInv, CallsOK, Calling
    <2>3. CASE h.op = "add"
      BY <1>1, <2>1, <2>3 DEF IInv, CallsOK
    <2>4. CASE h.op = "remove"
      <3>1. PICK t \in h.rest :
               handler' = [handler EXCEPT ![l] =
                  CallNext(h, h.rest \ {t}, IF h.rest = {t} THEN "add" ELSE "remove")]
        BY <1>8, <2>4 DEF CallReturns, CallNext
      <3> DEFINE op == IF h.rest = {t} THEN "add" ELSE "remove"
      <3>2. op \in {"add", "remove"} /\ h.rest \ {t} \in SUBSET h.rest
        OBVIOUS
      <3> HIDE DEF op, h
      <3>3. CallNext(h, h.rest \ {t}, op).op = op
        BY <1>2, <3>2, CallNextIs
      <3>4. handler'[l] = CallNext(h, h.rest \ {t}, op)
        BY <1>2, <3>1 DEF op
      <3> QED
        BY <3>2, <3>3, <3>4
    <2> QED
      BY <1>1, <2>2, <2>3, <2>4
  <1> QED
    BY <1>3, <1>4, <1>5, <1>6, <1>7, <1>8 DEF Handle

LEMMA JoinStep == IInv /\ [Next]_vars => [\A l \in Nodes : JoinDone(l)]_vars
  <1> SUFFICES ASSUME IInv, Next, NEW l \in Nodes PROVE JoinDone(l)
    OBVIOUS
  <1>1. ASSUME NEW n \in Nodes,
               \/ \E address \in AddressesOf[n] : Start(n, address)
               \/ SerfLeave(n) \/ LogClose(n) \/ Fail(n)
        PROVE  JoinDone(l)
    BY <1>1, JoinAgents
  <1>2. ASSUME NEW n \in Nodes, NEW voters \in {servers, settled}, Elect(n, voters)
        PROVE  JoinDone(l)
    BY <1>2 DEF Elect, JoinDone
  <1>3. ASSUME NEW n \in Nodes, Handle(n) PROVE JoinDone(l)
    BY <1>3, JoinOthersHandle, JoinHandle
  <1>4. CASE LoseLeader
    BY <1>4, MembershipAssumption DEF LoseLeader, JoinDone
  <1> QED
    BY <1>1, <1>2, <1>3, <1>4 DEF Next

(* Done with a join, a leader that stays has the agent for a voter at its  *)
(* address, or another server has that.                                    *)
THEOREM MembershipJoinTakesEffect == Spec => JoinTakesEffect
  <1>1. [\A l \in Nodes : JoinDone(l)]_vars =>
           [\A l \in Nodes :
              leader = l /\ leader' = l /\ Running(l) /\ handler'[l].op = "idle" =>
                 \A s \in JoinOf(l) : AddressTaken(s.id, s.addr) \/ s \in servers']_vars
    BY DEF JoinDone
  <1> QED
    BY <1>1, Invariance, JoinStep, PTL DEF Spec, JoinTakesEffect
=============================================================================
