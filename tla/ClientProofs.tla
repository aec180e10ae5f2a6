---------------------------- MODULE ClientProofs ----------------------------
(***************************************************************************)
(* The safety of Client for any nodes, connections and bounds: what the    *)
(* picker has are the sub-connections, as they are now, of the connection  *)
(* that was built last (BuiltFor), or an old leader (PickerOK), the        *)
(* followers are all different, and the last picks are those that the counter of now stands  *)
(* for (TurnsOK), so that as many in a row as there are followers differ.  *)
(* The lists of addresses are finite (Lists), as the nodes are, and a call *)
(* of the resolver has one list, for a connection there is (Asks).         *)
(***************************************************************************)
EXTENDS Client, FiniteSetTheorems, TLAPS

Followers == picker.followers

Lists == IsFiniteSet(asked) /\ \A c \in Clients : IsFiniteSet(addrs[c])

Asks ==
    /\ \A a, b \in asked : a = b
    /\ resolver.client \in Clients \/ (asked = {} /\ resolver.conn = "closed")

ReadyOpen == \A c \in Clients : ready[c] # {} => client[c] = "open"

Distinct(s) == \A i, j \in DOMAIN s : s[i] = s[j] => i = j

BuiltFor(c) ==
    LET mine      == ReadyConns(c, ready[c])
        followers == {x \in mine : ~x.leads}
    IN  /\ Len(Followers) = Cardinality(followers)
        /\ \A i \in 1 .. Len(Followers) : Followers[i] \in followers
        /\ (\E x \in mine : x.leads) => picker.leader \in mine

PickerOK ==
    /\ picker.leader = NoConn \/ picker.leader.leads
    /\ built \in Clients => client[built] # "none"
    /\ \A c \in Clients : c = built /\ client[c] = "open" => BuiltFor(c)

TurnsOK ==
    /\ Distinct(Followers)
    /\ Len(recent) <= picker.current
    /\ recent # <<>> => Followers # <<>>
    /\ \A i \in 1 .. Len(recent) :
          recent[i] = Followers[((picker.current - Len(recent) + i) % Len(Followers)) + 1]

IInv == TypeOK /\ Lists /\ Asks /\ ReadyOpen /\ PickerOK /\ TurnsOK

-----------------------------------------------------------------------------
LEMMA Shapes ==
    ASSUME TypeOK
    PROVE  /\ Followers \in Seq(Conn) /\ Len(Followers) \in Nat
           /\ picker.current \in Nat /\ picker.current <= MaxPicks
           /\ picker.leader \in Conn \cup {NoConn}
           /\ recent \in Seq(Conn) /\ Len(recent) \in Nat
           /\ \A i \in 1 .. Len(Followers) : Followers[i] \in Conn
  <1>1. /\ Followers \in Seq(Conn) /\ picker.current \in 0 .. MaxPicks
        /\ picker.leader \in Conn \cup {NoConn} /\ recent \in Seq(Conn)
    BY DEF TypeOK, Followers
  <1> QED
    BY <1>1, ClientAssumption

(* A lap of the counter comes to every follower once.                      *)
LEMMA LapsDiffer ==
    ASSUME NEW len \in Nat, len > 0, NEW a \in Nat, NEW b \in Nat, a < b, b < a + len
    PROVE  a % len # b % len
  <1> DEFINE q == a \div len
             r == b \div len
  <1>1. /\ q \in Int /\ r \in Int
        /\ a = len * q + (a % len) /\ b = len * r + (b % len)
        /\ a % len \in 0 .. len - 1 /\ b % len \in 0 .. len - 1
    OBVIOUS
  <1> HIDE DEF q, r
  <1> SUFFICES ASSUME a % len = b % len PROVE FALSE
    OBVIOUS
  <1>2. len * r - len * q > 0 /\ len * r - len * q < len
    BY <1>1
  <1>3. len * (r - q) = len * r - len * q
    BY <1>1
  <1>4. CASE r - q <= 0
    BY <1>1, <1>2, <1>3, <1>4
  <1>5. CASE r - q >= 1
    BY <1>1, <1>2, <1>3, <1>5
  <1> QED
    BY <1>1, <1>4, <1>5

LEMMA RemainderIn ==
    ASSUME NEW len \in Nat, len > 0, NEW a \in Nat
    PROVE  a % len \in 0 .. len - 1 /\ (a % len) + 1 \in 1 .. len
  <1>1. a % len \in 0 .. len - 1
    OBVIOUS
  <1> DEFINE r == a % len
  <1> HIDE DEF r
  <1>2. r \in 0 .. len - 1 => r + 1 \in 1 .. len
    OBVIOUS
  <1> QED
    BY <1>1, <1>2 DEF r

LEMMA OrdersAre ==
    ASSUME NEW conns, IsFiniteSet(conns), NEW s \in OrdersOf(conns)
    PROVE  s \in Seq(conns) /\ Len(s) = Cardinality(conns) /\ Distinct(s)
  <1>1. Cardinality(conns) \in Nat
    BY FS_CardinalityType
  <1> QED
    BY <1>1 DEF OrdersOf, Distinct

(* What Build leaves behind.                                               *)
LEMMA BuildMakes ==
    ASSUME TypeOK, NEW c \in Clients, NEW conns \in SUBSET Conn, IsFiniteSet(conns),
           Build(c, conns)
    PROVE  /\ picker' \in [leader : Conn \cup {NoConn}, followers : Seq(Conn),
                           current : 0 .. MaxPicks]
           /\ Len(Followers') = Cardinality({x \in conns : ~x.leads}) /\ Distinct(Followers')
           /\ \A i \in 1 .. Len(Followers') : Followers'[i] \in {x \in conns : ~x.leads}
           /\ IF \E x \in conns : x.leads
              THEN picker'.leader \in conns /\ picker'.leader.leads
              ELSE picker'.leader = picker.leader
           /\ recent' = <<>> /\ built' = c
  <1> DEFINE leaders == {x \in conns : x.leads}
  <1>1. PICK order \in OrdersOf(conns \ leaders),
             last \in IF leaders = {} THEN {picker.leader} ELSE leaders :
           /\ picker' = [picker EXCEPT !.followers = order, !.leader = last]
           /\ recent' = <<>> /\ built' = c
    BY DEF Build
  <1>2. /\ order \in Seq(conns \ leaders) /\ Len(order) = Cardinality(conns \ leaders)
        /\ Distinct(order)
    <2>1. IsFiniteSet(conns \ leaders)
      BY FS_Subset
    <2> QED
      BY <2>1, OrdersAre
  <1>3. last \in Conn \cup {NoConn}
    BY Shapes
  <1>4. conns \ leaders = {x \in conns : ~x.leads}
    OBVIOUS
  <1>5. order \in Seq(Conn) /\ \A i \in 1 .. Len(order) : order[i] \in conns \ leaders
    <2> DEFINE rest == conns \ leaders
    <2>1. order \in Seq(rest) /\ rest \subseteq Conn
      BY <1>2
    <2> HIDE DEF rest
    <2>2. order \in Seq(Conn) /\ \A i \in 1 .. Len(order) : order[i] \in rest
      BY <2>1
    <2> QED
      BY <2>2 DEF rest
  <1>6. /\ picker' \in [leader : Conn \cup {NoConn}, followers : Seq(Conn),
                        current : 0 .. MaxPicks]
        /\ picker'.leader = last /\ Followers' = order
    BY <1>1, <1>3, <1>5 DEF TypeOK, Followers
  <1>7. IF \E x \in conns : x.leads THEN last \in conns /\ last.leads ELSE last = picker.leader
    BY <1>1
  <1> HIDE DEF leaders
  <1> QED
    BY <1>1, <1>2, <1>4, <1>5, <1>6, <1>7

LEMMA TurnsBegin ==
    ASSUME picker' \in [leader : Conn \cup {NoConn}, followers : Seq(Conn),
                        current : 0 .. MaxPicks],
           Distinct(Followers'), recent' = <<>>
    PROVE  TurnsOK'
  BY ClientAssumption DEF TurnsOK, Followers

LEMMA ReadyConnsAre ==
    ASSUME TypeOK, Lists, NEW c \in Clients, NEW nodes \in SUBSET Nodes
    PROVE  /\ ReadyConns(c, nodes) \in SUBSET Conn /\ IsFiniteSet(ReadyConns(c, nodes))
           /\ \A x \in ReadyConns(c, nodes) :
                 /\ x.client = c /\ x.node \in nodes
                 /\ \E list \in addrs[c] : list[x.node] = x.leads
  <1>1. addrs[c] \in SUBSET [Nodes -> BOOLEAN]
    BY DEF TypeOK
  <1>2. ASSUME NEW n \in nodes, NEW list \in addrs[c]
        PROVE  /\ [client |-> c, node |-> n, leads |-> list[n]] \in Conn
               /\ list[n] \in BOOLEAN
    BY <1>1 DEF Conn
  <1>3. IsFiniteSet(ReadyConns(c, nodes))
    <2> DEFINE pairs == nodes \X addrs[c]
               f == [pair \in pairs |->
                       [client |-> c, node |-> pair[1], leads |-> pair[2][pair[1]]]]
    <2>1. IsFiniteSet(pairs)
      BY ClientAssumption, FS_Subset, FS_Product DEF Lists
    <2>2. \A x \in ReadyConns(c, nodes) : \E pair \in pairs : f[pair] = x
      <3> SUFFICES ASSUME NEW x \in ReadyConns(c, nodes) PROVE \E pair \in pairs : f[pair] = x
        OBVIOUS
      <3>1. PICK n \in nodes, list \in addrs[c] :
               x = [client |-> c, node |-> n, leads |-> list[n]]
        BY DEF ReadyConns
      <3>2. <<n, list>> \in pairs /\ f[<<n, list>>] = x
        BY <3>1
      <3> QED
        BY <3>2
    <2>3. \A pair \in pairs : f[pair] \in ReadyConns(c, nodes)
      BY DEF ReadyConns
    <2>4. f \in Surjection(pairs, ReadyConns(c, nodes))
      BY <2>2, <2>3 DEF Surjection
    <2> QED
      BY <2>1, <2>4, FS_Surjection
  <1> QED
    BY <1>2, <1>3 DEF ReadyConns

-----------------------------------------------------------------------------
LEMMA Initially == Init => IInv
  <1> SUFFICES ASSUME Init PROVE IInv
    OBVIOUS
  <1> USE DEF Init
  <1>1. TypeOK
    <2>1. /\ First \in Nodes /\ 0 \in 0 .. MaxMoves /\ 0 \in 0 .. MaxBreaks /\ 0 \in 0 .. MaxPicks
      BY ClientAssumption
    <2>2. /\ client \in [Clients -> {"none", "open", "closed"}]
          /\ resolver \in [client : Clients \cup {NoClient}, conn : {"open", "closed"}]
      OBVIOUS
    <2>3. /\ addrs \in [Clients -> SUBSET [Nodes -> BOOLEAN]]
          /\ ready \in [Clients -> SUBSET Nodes]
          /\ wanted \subseteq Clients
          /\ asked \subseteq UNION {[known -> BOOLEAN] : known \in SUBSET Nodes}
      OBVIOUS
    <2>4. picker \in [leader : Conn \cup {NoConn}, followers : Seq(Conn), current : 0 .. MaxPicks]
      <3> HIDE DEF NoConn
      <3> QED
        BY <2>1
    <2> QED
      BY <2>1, <2>2, <2>3, <2>4 DEF TypeOK
  <1>2. Lists /\ Asks /\ ReadyOpen
    BY FS_EmptySet DEF Lists, Asks, ReadyOpen
  <1>3. PickerOK /\ TurnsOK
    BY ClientAssumption DEF PickerOK, TurnsOK, Distinct, Followers
  <1> QED
    BY <1>1, <1>2, <1>3 DEF IInv

-----------------------------------------------------------------------------
(* What leaves the picker alone.                                           *)

LEMMA SameTurns ==
    ASSUME TurnsOK, UNCHANGED pick
    PROVE  TurnsOK'
  BY DEF TurnsOK, Distinct, Followers, pick

(* The picker stays right for the connection that was built last while     *)
(* that keeps its sub-connections, or has none, or when it gets closed.    *)
LEMMA SamePicker ==
    ASSUME IInv, Followers' = Followers, picker'.leader = picker.leader, built' = built,
           \A c \in Clients :
              \/ client'[c] = "closed" \/ client[c] = "none"
              \/ /\ client'[c] = client[c]
                 /\ \/ addrs'[c] = addrs[c] /\ ready'[c] = ready[c]
                    \/ ready[c] = {} /\ ready'[c] = {}
    PROVE  PickerOK'
  <1>1. PickerOK
    BY DEF IInv
  <1>2. built \in Clients => client'[built] # "none"
    BY <1>1 DEF PickerOK
  <1>3. ASSUME NEW c \in Clients, c = built, client'[c] = "open"
        PROVE  BuiltFor(c)'
    <2>1. /\ client'[c] = client[c]
          /\ \/ addrs'[c] = addrs[c] /\ ready'[c] = ready[c]
             \/ ready[c] = {} /\ ready'[c] = {}
      BY <1>1, <1>3 DEF PickerOK
    <2>2. ReadyConns(c, ready[c])' = ReadyConns(c, ready[c])
      BY <2>1 DEF ReadyConns
    <2>3. BuiltFor(c)
      BY <1>1, <1>3, <2>1 DEF PickerOK
    <2> QED
      BY <2>2, <2>3 DEF BuiltFor
  <1> QED
    BY <1>1, <1>2, <1>3 DEF PickerOK

LEMMA QuietKeeps ==
    ASSUME IInv, UNCHANGED <<client, addrs, ready, pick>>, TypeOK', IsFiniteSet(asked'), Asks'
    PROVE  IInv'
  <1>1. PickerOK'
    BY SamePicker DEF pick, Followers
  <1>2. TurnsOK'
    BY SameTurns DEF IInv
  <1> QED
    BY <1>1, <1>2 DEF IInv, Lists, ReadyOpen

(* After a Build of c with what is ready at it now.                        *)
LEMMA BuiltIsOK ==
    ASSUME PickerOK, NEW c \in Clients, client'[c] # "none", built' = c,
           NEW conns, ReadyConns(c, ready[c])' = conns,
           Len(Followers') = Cardinality({x \in conns : ~x.leads}),
           \A i \in 1 .. Len(Followers') : Followers'[i] \in {x \in conns : ~x.leads},
           IF \E x \in conns : x.leads
           THEN picker'.leader \in conns /\ picker'.leader.leads
           ELSE picker'.leader = picker.leader
    PROVE  PickerOK'
  <1>1. BuiltFor(c)'
    BY DEF BuiltFor
  <1>2. picker'.leader = NoConn \/ picker'.leader.leads
    BY DEF PickerOK
  <1> QED
    BY <1>1, <1>2 DEF PickerOK

(* Build of those of c that are ready now.                                 *)
LEMMA BuildReady ==
    ASSUME IInv, NEW c \in Clients, NEW nodes \in SUBSET Nodes,
           client[c] = "open", ready' = [ready EXCEPT ![c] = nodes],
           Build(c, ReadyConns(c, nodes)),
           UNCHANGED <<cluster, client, addrs, asked, resolver>>,
           breaks' \in 0 .. MaxBreaks, wanted' \subseteq Clients
    PROVE  IInv'
  <1> DEFINE conns == ReadyConns(c, nodes)
  <1>1. /\ conns \in SUBSET Conn /\ IsFiniteSet(conns)
        /\ \A x \in conns :
              /\ x.client = c /\ x.node \in nodes
              /\ \E list \in addrs[c] : list[x.node] = x.leads
    BY ReadyConnsAre DEF IInv
  <1> HIDE DEF conns
  <1>2. /\ picker' \in [leader : Conn \cup {NoConn}, followers : Seq(Conn),
                        current : 0 .. MaxPicks]
        /\ Len(Followers') = Cardinality({x \in conns : ~x.leads}) /\ Distinct(Followers')
        /\ \A i \in 1 .. Len(Followers') : Followers'[i] \in {x \in conns : ~x.leads}
        /\ IF \E x \in conns : x.leads
           THEN picker'.leader \in conns /\ picker'.leader.leads
           ELSE picker'.leader = picker.leader
        /\ recent' = <<>> /\ built' = c
    BY <1>1, BuildMakes DEF IInv, conns
  <1>3. TypeOK'
    <2>1. ready' \in [Clients -> SUBSET Nodes] /\ recent' \in Seq(Conn)
      BY <1>2 DEF IInv, TypeOK
    <2> QED
      BY <1>2, <2>1 DEF IInv, TypeOK, cluster
  <1>4. ReadyConns(c, ready[c])' = conns
    <2>1. ready'[c] = nodes /\ addrs' = addrs
      BY DEF IInv, TypeOK
    <2> QED
      BY <2>1 DEF ReadyConns, conns
  <1>5. PickerOK'
    BY <1>2, <1>4, BuiltIsOK DEF IInv
  <1>6. TurnsOK'
    BY <1>2, TurnsBegin
  <1>7. Lists' /\ Asks' /\ ReadyOpen'
    BY DEF IInv, Lists, Asks, TypeOK, ReadyOpen
  <1> QED
    BY <1>3, <1>5, <1>6, <1>7 DEF IInv

-----------------------------------------------------------------------------
(* The cluster and the resolver.                                           *)

LEMMA ClusterKeeps ==
    ASSUME IInv, Learn \/ \E n \in Nodes : Elect(n)
    PROVE  IInv'
  <1>1. /\ leader' \in Nodes /\ view' \in Nodes \cup {NoNode} /\ moves' \in 0 .. MaxMoves
        /\ UNCHANGED <<client, resolver, wanted, asked, addrs, ready, breaks, picker, recent, built>>
    BY ClientAssumption DEF Learn, Elect, IInv, TypeOK, resolve, grpc, pick
  <1>2. TypeOK'
    BY <1>1 DEF IInv, TypeOK
  <1>3. IsFiniteSet(asked') /\ Asks'
    BY <1>1 DEF IInv, Lists, Asks
  <1> QED
    BY <1>1, <1>2, <1>3, QuietKeeps DEF pick

LEMMA BuildResolverKeeps ==
    ASSUME IInv, NEW c \in Clients, BuildResolver(c)
    PROVE  IInv'
  <1>1. /\ client[c] = "none" /\ client' = [client EXCEPT ![c] = "open"]
        /\ resolver' = [client |-> c, conn |-> "open"] /\ wanted' = wanted \cup {c}
        /\ UNCHANGED <<leader, view, moves, asked, addrs, ready, breaks, picker, recent, built>>
    BY DEF BuildResolver, cluster, pick
  <1>2. TypeOK'
    BY <1>1 DEF IInv, TypeOK
  <1>4. PickerOK'
    <2>1. Followers' = Followers
      BY <1>1 DEF Followers
    <2>2. \A d \in Clients \ {c} : client'[d] = client[d]
      BY <1>1 DEF IInv, TypeOK
    <2> QED
      BY <1>1, <2>1, <2>2, SamePicker
  <1>5. TurnsOK' /\ Lists'
    BY <1>1, SameTurns DEF IInv, Lists, pick
  <1>6. Asks'
    <2>1. resolver'.client = c /\ asked' = asked
      BY <1>1
    <2>2. \A a, b \in asked : a = b
      BY DEF IInv, Asks
    <2>3. \A a, b \in asked' : a = b
      BY <2>1, <2>2
    <2> QED
      BY <2>1, <2>3 DEF Asks
  <1>7. ReadyOpen'
    BY <1>1 DEF IInv, TypeOK, ReadyOpen
  <1> QED
    BY <1>2, <1>4, <1>5, <1>6, <1>7 DEF IInv

LEMMA ResolveNowKeeps ==
    ASSUME IInv, NEW c \in Clients, ResolveNow(c)
    PROVE  IInv'
  <1> DEFINE none == [m \in {} |-> FALSE]
  <1>1. /\ wanted' = wanted \ {c} /\ asked' = {none} /\ resolver.conn = "open"
        /\ UNCHANGED <<leader, view, moves, client, resolver, addrs, ready, breaks, picker, recent, built>>
    BY DEF ResolveNow, cluster, grpc, pick
  <1>2. none \in [{} -> BOOLEAN]
    OBVIOUS
  <1> HIDE DEF none
  <1>3. asked' \subseteq UNION {[known -> BOOLEAN] : known \in SUBSET Nodes}
    BY <1>1, <1>2
  <1>4. TypeOK'
    BY <1>1, <1>3 DEF IInv, TypeOK
  <1>5. IsFiniteSet(asked') /\ Asks'
    BY <1>1, FS_Singleton DEF IInv, Asks
  <1> QED
    BY <1>1, <1>4, <1>5, QuietKeeps DEF pick

LEMMA AskLeaderKeeps ==
    ASSUME IInv, NEW n \in Nodes, AskLeader(n)
    PROVE  IInv'
  <1>1. PICK list \in asked :
           /\ asked' = {[m \in DOMAIN list \cup {n} |-> IF m = n THEN view = n ELSE list[m]]}
           /\ UNCHANGED <<leader, view, moves, client, resolver, wanted, addrs, ready, breaks,
                          picker, recent, built>>
    BY DEF AskLeader, cluster, grpc, pick
  <1> DEFINE more == [m \in DOMAIN list \cup {n} |-> IF m = n THEN view = n ELSE list[m]]
  <1>2. PICK known \in SUBSET Nodes : list \in [known -> BOOLEAN]
    BY DEF IInv, TypeOK
  <1>3. more \in [known \cup {n} -> BOOLEAN]
    BY <1>2
  <1> HIDE DEF more
  <1>4. asked' \subseteq UNION {[k -> BOOLEAN] : k \in SUBSET Nodes}
    <2>1. known \cup {n} \in SUBSET Nodes
      OBVIOUS
    <2> QED
      BY <1>1, <1>3, <2>1 DEF more
  <1>5. TypeOK'
    BY <1>1, <1>4 DEF IInv, TypeOK
  <1>6. IsFiniteSet(asked') /\ Asks'
    BY <1>1, FS_Singleton DEF IInv, Asks
  <1> QED
    BY <1>1, <1>5, <1>6, QuietKeeps DEF pick

LEMMA ResolveFailsKeeps ==
    ASSUME IInv, ResolveFails
    PROVE  IInv'
  <1>1. /\ wanted' \subseteq Clients /\ asked' = {}
        /\ UNCHANGED <<leader, view, moves, client, resolver, addrs, ready, breaks, picker, recent, built>>
    BY DEF ResolveFails, cluster, grpc, pick, IInv, TypeOK
  <1>2. TypeOK'
    BY <1>1 DEF IInv, TypeOK
  <1>3. IsFiniteSet(asked') /\ Asks'
    BY <1>1, FS_EmptySet DEF IInv, Asks
  <1> QED
    BY <1>1, <1>2, <1>3, QuietKeeps DEF pick

(* The sub-connections of the connection go; they leave the picker with    *)
(* them, or were not in it.                                                *)
LEMMA ResolveUpdateKeeps ==
    ASSUME IInv, ResolveUpdate
    PROVE  IInv'
  <1>1. /\ asked' = {} /\ IsFiniteSet(asked') /\ IsFiniteSet(asked)
        /\ UNCHANGED <<leader, view, moves, client, resolver, wanted, breaks>>
    BY FS_EmptySet DEF ResolveUpdate, cluster, IInv, Lists
  <1>2. PICK told \in asked : DOMAIN told = Nodes
    BY DEF ResolveUpdate
  <1>3. PICK c \in Clients : c = resolver.client
    BY <1>2 DEF IInv, Asks
  <1>4. asked \subseteq [Nodes -> BOOLEAN]
    <2>1. PICK known \in SUBSET Nodes : told \in [known -> BOOLEAN]
      BY DEF IInv, TypeOK
    <2>2. known = Nodes
      BY <1>2, <2>1
    <2> QED
      BY <2>1, <2>2 DEF IInv, Asks
  <1>5. Asks'
    <2>1. asked' = {} /\ resolver'.client \in Clients
      BY <1>1, <1>3
    <2>2. \A a, b \in asked' : a = b
      BY <2>1
    <2> QED
      BY <2>1, <2>2 DEF Asks
  <1>6. CASE client[c] # "open"
    <2>1. UNCHANGED <<addrs, ready, picker, recent, built>>
      BY <1>3, <1>6 DEF ResolveUpdate, pick
    <2>2. TypeOK'
      BY <1>1, <2>1 DEF IInv, TypeOK
    <2> QED
      BY <1>1, <1>5, <2>1, <2>2, QuietKeeps DEF pick
  <1>7. CASE client[c] = "open"
    <2>1. /\ addrs' = [addrs EXCEPT ![c] = asked] /\ ready' = [ready EXCEPT ![c] = {}]
          /\ ready[c] = {} => UNCHANGED pick
          /\ ready[c] # {} => Build(c, {})
      BY <1>3, <1>7 DEF ResolveUpdate
    <2>2. /\ addrs' \in [Clients -> SUBSET [Nodes -> BOOLEAN]]
          /\ ready' \in [Clients -> SUBSET Nodes]
          /\ addrs'[c] = asked /\ ready'[c] = {}
          /\ \A d \in Clients \ {c} : addrs'[d] = addrs[d] /\ ready'[d] = ready[d]
      BY <1>4, <2>1 DEF IInv, TypeOK
    <2>3. Lists' /\ ReadyOpen'
      BY <1>1, <2>2 DEF IInv, Lists, ReadyOpen
    <2>4. CASE ready[c] = {}
      <3>1. UNCHANGED <<picker, recent, built>> /\ Followers' = Followers
        BY <2>1, <2>4 DEF pick, Followers
      <3>2. TypeOK'
        BY <1>1, <2>2, <3>1 DEF IInv, TypeOK
      <3>4. PickerOK'
        BY <1>1, <2>2, <2>4, <3>1, SamePicker
      <3>5. TurnsOK'
        BY <3>1, SameTurns DEF IInv, pick
      <3> QED
        BY <1>5, <2>3, <3>2, <3>4, <3>5 DEF IInv
    <2>5. CASE ready[c] # {}
      <3>1. /\ picker' \in [leader : Conn \cup {NoConn}, followers : Seq(Conn),
                            current : 0 .. MaxPicks]
            /\ Len(Followers') = Cardinality({}) /\ Distinct(Followers')
            /\ \A i \in 1 .. Len(Followers') : Followers'[i] \in {}
            /\ picker'.leader = picker.leader /\ recent' = <<>> /\ built' = c
        <4>1. {x \in {} : ~x.leads} = {}
          OBVIOUS
        <4>2. {} \in SUBSET Conn /\ IsFiniteSet({})
          BY FS_EmptySet
        <4> QED
          BY <2>1, <2>5, <4>1, <4>2, BuildMakes DEF IInv
      <3>2. TypeOK'
        BY <1>1, <2>2, <3>1 DEF IInv, TypeOK
      <3>3. PickerOK'
        <4>1. ReadyConns(c, ready[c])' = {} /\ client'[c] = "open"
          BY <1>1, <1>7, <2>2 DEF ReadyConns
        <4>2. {x \in {} : ~x.leads} = {}
          OBVIOUS
        <4> QED
          BY <3>1, <4>1, <4>2, BuiltIsOK DEF IInv
      <3>4. TurnsOK'
        BY <3>1, TurnsBegin
      <3> QED
        BY <1>5, <2>3, <3>2, <3>3, <3>4 DEF IInv
    <2> QED
      BY <2>4, <2>5
  <1> QED
    BY <1>6, <1>7

LEMMA CloseKeeps ==
    ASSUME IInv, NEW c \in Clients, Close(c)
    PROVE  IInv'
  <1>1. /\ client' = [client EXCEPT ![c] = "closed"]
        /\ resolver' = [resolver EXCEPT !.conn = "closed"]
        /\ ready' = [ready EXCEPT ![c] = {}]
        /\ UNCHANGED <<leader, view, moves, wanted, asked, addrs, breaks, picker, recent, built>>
    BY DEF Close, cluster, pick
  <1>2. TypeOK'
    BY <1>1 DEF IInv, TypeOK
  <1>3. /\ client'[c] = "closed"
        /\ \A d \in Clients \ {c} : client'[d] = client[d] /\ ready'[d] = ready[d]
    BY <1>1 DEF IInv, TypeOK
  <1>4. PickerOK'
    <2>1. Followers' = Followers
      BY <1>1 DEF Followers
    <2> QED
      BY <1>1, <1>3, <2>1, SamePicker
  <1>5. TurnsOK' /\ Lists'
    BY <1>1, SameTurns DEF IInv, Lists, pick
  <1>6. ReadyOpen'
    BY <1>1, <1>3 DEF IInv, TypeOK, ReadyOpen
  <1>7. Asks'
    <2>1. resolver'.client = resolver.client /\ resolver'.conn = "closed" /\ asked' = asked
      BY <1>1 DEF IInv, TypeOK
    <2> QED
      BY <2>1 DEF IInv, Asks
  <1> QED
    BY <1>2, <1>4, <1>5, <1>6, <1>7 DEF IInv

-----------------------------------------------------------------------------
(* The sub-connections and the picks.                                      *)

LEMMA ConnectKeeps ==
    ASSUME IInv, NEW c \in Clients, NEW n \in Nodes, Connect(c, n)
    PROVE  IInv'
  <1> DEFINE nodes == ready[c] \cup {n}
  <1>1. /\ client[c] = "open" /\ ready' = [ready EXCEPT ![c] = nodes]
        /\ Build(c, ReadyConns(c, ready'[c]))
        /\ UNCHANGED <<cluster, client, addrs, asked, resolver, wanted, breaks>>
    BY DEF Connect, resolve
  <1>2. nodes \in SUBSET Nodes /\ ready'[c] = nodes
    BY <1>1 DEF IInv, TypeOK
  <1>3. breaks' \in 0 .. MaxBreaks /\ wanted' \subseteq Clients
    BY <1>1 DEF IInv, TypeOK
  <1> HIDE DEF nodes
  <1> QED
    BY <1>1, <1>2, <1>3, BuildReady

LEMMA BreakKeeps ==
    ASSUME IInv, NEW c \in Clients, NEW n \in Nodes, Break(c, n)
    PROVE  IInv'
  <1> DEFINE nodes == ready[c] \ {n}
  <1>1. /\ breaks < MaxBreaks /\ breaks' = breaks + 1 /\ wanted' = wanted \cup {c}
        /\ ready' = [ready EXCEPT ![c] = nodes]
        /\ Build(c, ReadyConns(c, ready'[c]))
        /\ UNCHANGED <<cluster, client, addrs, asked, resolver>>
        /\ client[c] = "open"
    BY DEF Break, IInv, ReadyOpen
  <1>2. nodes \in SUBSET Nodes /\ ready'[c] = nodes
    BY <1>1 DEF IInv, TypeOK
  <1>3. breaks' \in 0 .. MaxBreaks /\ wanted' \subseteq Clients
    BY <1>1, ClientAssumption DEF IInv, TypeOK
  <1> HIDE DEF nodes
  <1> QED
    BY <1>1, <1>2, <1>3, BuildReady

LEMMA PickConsumeKeeps ==
    ASSUME IInv, PickConsume
    PROVE  IInv'
  <1> DEFINE cur == picker.current
             len == Len(Followers)
             n   == Len(recent)
             nth(a) == Followers[(a % len) + 1]
  <1>1. /\ Followers # <<>> /\ cur < MaxPicks
        /\ picker' = [picker EXCEPT !.current = cur + 1]
        /\ recent' = Append(recent, nth(cur + 1))
        /\ UNCHANGED <<leader, view, moves, client, resolver, wanted, asked, addrs, ready, breaks, built>>
    BY DEF PickConsume, Picked, NextFollower, Followers, cluster, resolve, grpc
  <1>2. /\ Followers \in Seq(Conn) /\ len \in Nat /\ len > 0 /\ cur \in Nat /\ n \in Nat
        /\ recent \in Seq(Conn) /\ n <= cur
        /\ \A i \in 1 .. n : recent[i] = nth(cur - n + i)
    BY <1>1, Shapes DEF IInv, TurnsOK
  <1>3. nth(cur + 1) \in Conn
    BY <1>2
  <1>4. Followers' = Followers /\ picker'.current = cur + 1 /\ picker'.leader = picker.leader
        /\ picker' \in [leader : Conn \cup {NoConn}, followers : Seq(Conn), current : 0 .. MaxPicks]
    <2>1. picker \in [leader : Conn \cup {NoConn}, followers : Seq(Conn), current : 0 .. MaxPicks]
      BY DEF IInv, TypeOK
    <2>2. cur + 1 \in 0 .. MaxPicks
      BY <1>1, <1>2, ClientAssumption
    <2> HIDE DEF cur
    <2>3. picker'.current = cur + 1 /\ picker'.followers = picker.followers
          /\ picker'.leader = picker.leader
          /\ picker' \in [leader : Conn \cup {NoConn}, followers : Seq(Conn),
                           current : 0 .. MaxPicks]
      BY <1>1, <2>1, <2>2
    <2> QED
      BY <2>3 DEF Followers
  <1>5. /\ recent' \in Seq(Conn) /\ Len(recent') = n + 1
        /\ \A i \in 1 .. n : recent'[i] = recent[i]
        /\ recent'[n + 1] = nth(cur + 1)
    BY <1>1, <1>2, <1>3
  <1>6. TypeOK'
    BY <1>1, <1>4, <1>5 DEF IInv, TypeOK
  <1>7. PickerOK'
    BY <1>1, <1>4, SamePicker
  <1>8. Lists' /\ Asks' /\ ReadyOpen'
    BY <1>1 DEF IInv, Lists, Asks, ReadyOpen
  <1>9. TurnsOK'
    <2>1. ASSUME NEW i \in 1 .. n + 1
          PROVE  recent'[i] = nth((cur + 1) - (n + 1) + i)
      <3>1. CASE i \in 1 .. n
        <4>1. (cur + 1) - (n + 1) + i = cur - n + i
          BY <1>2
        <4> QED
          BY <1>2, <1>5, <3>1, <4>1
      <3>2. CASE i = n + 1
        <4>1. (cur + 1) - (n + 1) + i = cur + 1
          BY <1>2, <3>2
        <4> QED
          BY <1>5, <3>2, <4>1, Zenon
      <3> QED
        BY <1>2, <3>1, <3>2
    <2>2. Len(recent') <= picker'.current
      BY <1>2, <1>4, <1>5
    <2>3. Distinct(Followers')
      BY <1>4 DEF IInv, TurnsOK
    <2> QED
      BY <1>1, <1>4, <1>5, <2>1, <2>2, <2>3 DEF TurnsOK
  <1> QED
    BY <1>6, <1>7, <1>8, <1>9 DEF IInv

-----------------------------------------------------------------------------
LEMMA StepKeeps == IInv /\ [Next]_vars => IInv'
  <1> SUFFICES ASSUME IInv, [Next]_vars PROVE IInv'
    OBVIOUS
  <1>1. CASE UNCHANGED vars
    <2>1. UNCHANGED <<leader, view, moves, client, resolver, wanted, asked, addrs, ready, breaks,
                      picker, recent, built>>
      BY <1>1 DEF vars, cluster, resolve, grpc, pick
    <2>2. TypeOK' /\ Asks'
      BY <2>1 DEF IInv, TypeOK, Asks
    <2>3. IsFiniteSet(asked')
      BY <2>1 DEF IInv, Lists
    <2> QED
      BY <2>1, <2>2, <2>3, QuietKeeps DEF pick
  <1>2. CASE Learn \/ ResolveFails \/ ResolveUpdate \/ PickConsume
    BY <1>2, ClusterKeeps, ResolveFailsKeeps, ResolveUpdateKeeps, PickConsumeKeeps
  <1>3. CASE \E n \in Nodes : Elect(n) \/ AskLeader(n)
    BY <1>3, ClusterKeeps, AskLeaderKeeps
  <1>4. ASSUME NEW c \in Clients, BuildResolver(c) \/ ResolveNow(c) \/ Close(c)
        PROVE  IInv'
    BY <1>4, BuildResolverKeeps, ResolveNowKeeps, CloseKeeps
  <1>5. ASSUME NEW c \in Clients, NEW n \in Nodes, Connect(c, n) \/ Break(c, n)
        PROVE  IInv'
    BY <1>5, ConnectKeeps, BreakKeeps
  <1> QED
    BY <1>1, <1>2, <1>3, <1>4, <1>5 DEF Next

LEMMA Invariance == Spec => []IInv
  BY Initially, StepKeeps, PTL DEF Spec

(* The shape of the state, for any number of nodes and connections.        *)
THEOREM ClientTypeOK == Spec => []TypeOK
  <1>1. IInv => TypeOK
    BY DEF IInv
  <1> QED
    BY <1>1, Invariance, PTL

(* However the client connections share the resolver and the picker, a     *)
(* consume goes to the connection built last: to a ready follower, to a    *)
(* ready leader if there is no follower, to an old leader if nothing is    *)
(* ready, which may be gone.                                               *)
THEOREM ClientConsumePicks == Spec => []ConsumePicks
  <1>1. IInv => ConsumePicks
    <2> SUFFICES ASSUME IInv, NEW c \in Clients, c = built, client[c] = "open",
                        NEW mine, mine = ReadyConns(c, ready[c]),
                        NEW followers, followers = {x \in mine : ~x.leads}
                 PROVE  /\ Len(picker.followers) = Cardinality(followers)
                        /\ followers # {} => Picked("Consume") \in followers
                        /\ followers = {} /\ mine # {} => Picked("Consume") \in mine
                        /\ mine = {} =>
                              Picked("Consume") = NoConn \/ Picked("Consume").leads
      BY DEF ConsumePicks
    <2>1. /\ Len(Followers) = Cardinality(followers)
          /\ \A i \in 1 .. Len(Followers) : Followers[i] \in followers
          /\ (\E x \in mine : x.leads) => picker.leader \in mine
          /\ picker.leader = NoConn \/ picker.leader.leads
      BY DEF IInv, PickerOK, BuiltFor
    <2>2. Followers \in Seq(Conn) /\ Len(Followers) \in Nat /\ picker.current \in Nat
      BY Shapes DEF IInv
    <2>3. CASE Followers = <<>>
      <3>1. Picked("Consume") = picker.leader
        BY <2>3 DEF Picked, Followers
      <3>2. Len(Followers) = 0
        BY <2>3
      <3>3. followers = {}
        <4>1. mine \in SUBSET Conn /\ IsFiniteSet(mine)
          BY ReadyConnsAre DEF IInv, TypeOK
        <4>2. IsFiniteSet(followers)
          BY <4>1, FS_Subset
        <4> QED
          BY <2>1, <3>2, <4>2, FS_EmptySet
      <3>4. mine # {} => picker.leader \in mine
        BY <2>1, <3>3
      <3> QED
        BY <2>1, <3>1, <3>3, <3>4 DEF Followers
    <2>4. CASE Followers # <<>>
      <3> DEFINE k == ((picker.current + 1) % Len(Followers)) + 1
      <3>1. Len(Followers) > 0 /\ picker.current + 1 \in Nat
        BY <2>2, <2>4
      <3>2. k \in 1 .. Len(Followers)
        BY <2>2, <3>1, RemainderIn
      <3>3. Picked("Consume") = Followers[k]
        BY <2>4 DEF Picked, NextFollower, Followers
      <3> HIDE DEF k
      <3>4. Picked("Consume") \in followers
        BY <2>1, <3>2, <3>3
      <3>5. followers # {} /\ mine # {}
        BY <3>4
      <3> QED
        BY <2>1, <3>4, <3>5 DEF Followers
    <2> QED
      BY <2>3, <2>4
  <1> QED
    BY <1>1, Invariance, PTL

(* As many consumes in a row as there are followers go to different ones,  *)
(* for any number of them.                                                 *)
THEOREM ClientFairTurns == Spec => []FairTurns
  <1>1. IInv => FairTurns
    <2> DEFINE len == Len(Followers)
               n   == Len(recent)
               base == picker.current - n
    <2> SUFFICES ASSUME IInv, NEW i \in DOMAIN recent, NEW j \in DOMAIN recent,
                        i < j, j < i + len
                 PROVE  recent[i] # recent[j]
      BY DEF FairTurns, Followers
    <2>1. /\ i \in 1 .. n /\ j \in 1 .. n /\ n \in Nat /\ len \in Nat /\ base \in Nat
          /\ Followers \in Seq(Conn) /\ DOMAIN Followers = 1 .. len
      <3>1. /\ recent \in Seq(Conn) /\ n \in Nat /\ Followers \in Seq(Conn) /\ len \in Nat
            /\ picker.current \in Nat
        BY Shapes DEF IInv
      <3>2. n <= picker.current
        BY DEF IInv, TurnsOK
      <3>3. i \in 1 .. n /\ j \in 1 .. n /\ DOMAIN Followers = 1 .. len
        BY <3>1
      <3> HIDE DEF n, len
      <3> QED
        BY <3>1, <3>2, <3>3
    <2>2. /\ recent[i] = Followers[((base + i) % len) + 1]
          /\ recent[j] = Followers[((base + j) % len) + 1]
      BY <2>1 DEF IInv, TurnsOK
    <2>3. len > 0
      BY <2>1
    <2> HIDE DEF base
    <2>4. base + i \in Nat /\ base + j \in Nat /\ base + i < base + j /\ base + j < base + i + len
      BY <2>1
    <2> HIDE DEF len, n
    <2>5. (base + i) % len # (base + j) % len
      BY <2>1, <2>3, <2>4, LapsDiffer
    <2>6. /\ (base + i) % len \in 0 .. len - 1 /\ (base + j) % len \in 0 .. len - 1
      BY <2>1, <2>3, <2>4, RemainderIn
    <2>7. ((base + i) % len) + 1 \in 1 .. len /\ ((base + j) % len) + 1 \in 1 .. len
          /\ ((base + i) % len) + 1 # ((base + j) % len) + 1
      <3> DEFINE a == (base + i) % len
                 b == (base + j) % len
      <3>1. a \in 0 .. len - 1 /\ b \in 0 .. len - 1 /\ a # b /\ len \in Nat
        BY <2>1, <2>5, <2>6
      <3> HIDE DEF a, b
      <3>2. a + 1 \in 1 .. len /\ b + 1 \in 1 .. len /\ a + 1 # b + 1
        BY <3>1
      <3> QED
        BY <3>2 DEF a, b
    <2> QED
      BY <2>1, <2>2, <2>7 DEF IInv, TurnsOK, Distinct
  <1> QED
    BY <1>1, Invariance, PTL
=============================================================================
