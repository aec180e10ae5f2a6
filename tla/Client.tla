-------------------------------- MODULE Client ------------------------------
(***************************************************************************)
(* The client side, internal/loadbalance: the resolver asks a server who   *)
(* is in the cluster and who leads (GetServers of distributed.go), and the *)
(* picker sends a produce to the leader and spreads consumes over the      *)
(* followers.  A process has one Resolver and one Picker, registered in    *)
(* init, for all its client connections.                                   *)
(*                                                                         *)
(* gRPC is a library, modelled from what resolver and picker are called    *)
(* for: a new list of addresses replaces the sub-connections; Build runs   *)
(* whenever one of them becomes ready or is lost, with those that are      *)
(* ready; a lost one makes gRPC call ResolveNow.  Membership has a module  *)
(* of its own: here all nodes are servers.                                 *)
(***************************************************************************)
EXTENDS Naturals, Sequences, FiniteSets

CONSTANTS
    Nodes,
    First,      \* the leader at the beginning
    NoNode,     \* raft knows no leader
    Clients,    \* gRPC client connections of the process
    NoClient,
    MaxMoves,   \* bound on the changes of leader
    MaxBreaks,  \* bound on the sub-connections that are lost
    MaxPicks    \* bound on the consumes that are picked

ASSUME ClientAssumption ==
    /\ IsFiniteSet(Nodes) /\ First \in Nodes /\ NoNode \notin Nodes
    /\ NoClient \notin Clients
    /\ MaxMoves \in Nat /\ MaxBreaks \in Nat /\ MaxPicks \in Nat

VARIABLES
    leader,     \* who leads
    view,       \* raft.Leader() at the server that the resolver asks
    client,     \* each connection
    resolver,   \* clientConn, and the state of resolverConn
    wanted,     \* the connections for which gRPC calls ResolveNow
    asked,      \* the call that holds the mutex, in a set: is_leader so far
    addrs,      \* what each connection was told, in a set
    ready,      \* the nodes to which it has a sub-connection that is ready
    picker,     \* leader, followers and current
    recent,     \* history: the followers picked since the last Build
    built,      \* history: the connection of the last Build
    moves, breaks  \* how much of the bounds is used

cluster == <<leader, view, moves>>
resolve == <<resolver, wanted, asked>>
grpc    == <<client, addrs, ready, breaks>>
pick    == <<picker, recent, built>>
vars    == <<cluster, resolve, grpc, pick>>

(* A sub-connection, with the attribute that Build looks at.               *)
Conn == [client : Clients, node : Nodes, leads : BOOLEAN]

(* The zero value of p.leader.                                             *)
NoConn == [client |-> NoClient, node |-> NoNode, leads |-> FALSE]

Usable(x) ==
    /\ x.client \in Clients /\ client[x.client] = "open"
    /\ x.node \in ready[x.client]
    /\ \E list \in addrs[x.client] : list[x.node] = x.leads

-----------------------------------------------------------------------------
(* The cluster: leadership moves, and the server that is asked comes to    *)
(* know, perhaps after it knew of no leader for a while.                   *)

Elect(n) ==
    /\ n # leader /\ moves < MaxMoves
    /\ leader' = n /\ moves' = moves + 1
    /\ UNCHANGED <<view, resolve, grpc, pick>>

Learn ==
    /\ view # leader
    /\ view' \in {leader, NoNode} \ {view}
    /\ UNCHANGED <<leader, moves, resolve, grpc, pick>>

-----------------------------------------------------------------------------
(* Picker.Build, over the ready sub-connections in any order.  Of several  *)
(* leaders the last one stays; with none, the one before does.             *)

OrdersOf(conns) ==
    {s \in [1 .. Cardinality(conns) -> conns] : \A i, j \in DOMAIN s : s[i] = s[j] => i = j}

(* Mutant: the followers are added to those there are.                     *)
BuildAdds(c, conns) ==
    \E order \in OrdersOf({x \in conns : ~x.leads}) :
        /\ picker' = [picker EXCEPT
              !.followers = @ \o order,
              !.leader = IF \E x \in conns : x.leads THEN CHOOSE x \in conns : x.leads ELSE @]
        /\ recent' = <<>> /\ built' = c

(* Mutant: the first leader is kept.                                       *)
BuildKeeps(c, conns) ==
    \E order \in OrdersOf({x \in conns : ~x.leads}) :
        /\ picker' = [picker EXCEPT
              !.followers = order,
              !.leader = IF @ = NoConn /\ \E x \in conns : x.leads
                         THEN CHOOSE x \in conns : x.leads ELSE @]
        /\ recent' = <<>> /\ built' = c

(* Mutant: the leader is one of the followers too.                         *)
BuildContinues(c, conns) ==
    LET leaders == {x \in conns : x.leads}
    IN  \E order \in OrdersOf(conns) :
        \E last \in IF leaders = {} THEN {picker.leader} ELSE leaders :
            /\ picker' = [picker EXCEPT !.followers = order, !.leader = last]
            /\ recent' = <<>> /\ built' = c

Build(c, conns) ==
    LET leaders == {x \in conns : x.leads}
    IN  \E order \in OrdersOf(conns \ leaders) :
        \E last \in IF leaders = {} THEN {picker.leader} ELSE leaders :
            /\ picker' = [picker EXCEPT !.followers = order, !.leader = last]
            /\ recent' = <<>> /\ built' = c

-----------------------------------------------------------------------------
(* The resolver.  Build is part of Dial and writes the fields of the one   *)
(* Resolver without its mutex; the ResolveNow it calls takes the mutex, as *)
(* those do that gRPC calls.                                               *)

BuildResolver(c) ==
    /\ client[c] = "none"
    /\ client' = [client EXCEPT ![c] = "open"]
    /\ resolver' = [client |-> c, conn |-> "open"]
    /\ wanted' = wanted \cup {c}
    /\ UNCHANGED <<cluster, asked, addrs, ready, breaks, pick>>

ResolveNow(c) ==
    /\ c \in wanted /\ asked = {} /\ resolver.conn = "open"
    /\ wanted' = wanted \ {c}
    /\ asked' = {[m \in {} |-> FALSE]}
    /\ UNCHANGED <<cluster, resolver, grpc, pick>>

(* The turn of GetServers for one server, on the node that is asked; the   *)
(* servers come in the order they have in the configuration.               *)
AskLeader(n) ==
    \E list \in asked :
        /\ n \notin DOMAIN list /\ n = CHOOSE m \in Nodes \ DOMAIN list : TRUE
        /\ asked' = {[m \in DOMAIN list \cup {n} |-> IF m = n THEN view = n ELSE list[m]]}
        /\ UNCHANGED <<cluster, resolver, wanted, grpc, pick>>

(* The call fails, as on a resolverConn that was closed it must: an error  *)
(* is logged and that is all.                                              *)
ResolveFails ==
    /\ \/ asked # {} /\ UNCHANGED wanted
       \/ asked = {} /\ resolver.conn = "closed" /\ \E c \in wanted : wanted' = wanted \ {c}
    /\ asked' = {}
    /\ UNCHANGED <<cluster, resolver, grpc, pick>>

(* Mutant: the connection is told after every server.                      *)
ResolveUpdateEarly ==
    /\ asked # {} /\ client[resolver.client] = "open"
    /\ addrs' = [addrs EXCEPT ![resolver.client] = asked]
    /\ asked' = {}
    /\ UNCHANGED <<cluster, resolver, wanted, client, ready, breaks, pick>>

(* UpdateState on the clientConn of now, which may not be the one for      *)
(* which ResolveNow was called; gRPC ignores it on one that is closed.     *)
(* The old sub-connections go, and Build runs if one of them was ready.    *)
ResolveUpdate ==
    /\ \E list \in asked : DOMAIN list = Nodes
    /\ asked' = {}
    /\ LET c == resolver.client
       IN  IF client[c] = "open"
           THEN /\ addrs' = [addrs EXCEPT ![c] = asked]
                /\ ready' = [ready EXCEPT ![c] = {}]
                /\ IF ready[c] = {} THEN UNCHANGED pick ELSE Build(c, {})
           ELSE UNCHANGED <<addrs, ready, pick>>
    /\ UNCHANGED <<cluster, resolver, wanted, client, breaks>>

Close(c) ==
    /\ client[c] = "open" /\ c \notin wanted
    /\ client' = [client EXCEPT ![c] = "closed"]
    /\ resolver' = [resolver EXCEPT !.conn = "closed"]
    /\ ready' = [ready EXCEPT ![c] = {}]
    /\ UNCHANGED <<cluster, wanted, asked, addrs, breaks, pick>>

-----------------------------------------------------------------------------
(* gRPC's sub-connections: those of c as they are now go to Build.         *)

ReadyConns(c, nodes) ==
    {[client |-> c, node |-> n, leads |-> list[n]] : n \in nodes, list \in addrs[c]}

Connect(c, n) ==
    /\ client[c] = "open" /\ addrs[c] # {} /\ n \notin ready[c]
    /\ ready' = [ready EXCEPT ![c] = @ \cup {n}]
    /\ Build(c, ReadyConns(c, ready'[c]))
    /\ UNCHANGED <<cluster, resolve, client, addrs, breaks>>

Break(c, n) ==
    /\ n \in ready[c] /\ breaks < MaxBreaks
    /\ breaks' = breaks + 1
    /\ ready' = [ready EXCEPT ![c] = @ \ {n}]
    /\ wanted' = wanted \cup {c}
    /\ Build(c, ReadyConns(c, ready'[c]))
    /\ UNCHANGED <<cluster, resolver, asked, client, addrs>>

-----------------------------------------------------------------------------
(* Pick.                                                                   *)

(* Mutant: the index stops short of the last follower.                     *)
NextFollowerShort ==
    LET len == Len(picker.followers)
    IN  picker.followers[IF len = 1 THEN 1 ELSE ((picker.current + 1) % (len - 1)) + 1]

(* nextFollower, of the counter that it adds one to.                       *)
NextFollower ==
    picker.followers[((picker.current + 1) % Len(picker.followers)) + 1]

(* Where a call goes.  A produce, and any call when there are no           *)
(* followers, goes to the leader, the last one there was even if it is     *)
(* gone.  NoConn is ErrNoSubConnAvailable, the answer also to a call that  *)
(* is neither when there are followers: gRPC waits then, as it does on a   *)
(* sub-connection that is not ready.                                       *)
Picked(method) ==
    IF method = "Produce" \/ picker.followers = <<>> THEN picker.leader
    ELSE IF method = "Consume" THEN NextFollower
    ELSE NoConn

(* The one Pick that changes something: the counter goes up.               *)
PickConsume ==
    /\ picker.followers # <<>> /\ picker.current < MaxPicks
    /\ picker' = [picker EXCEPT !.current = @ + 1]
    /\ recent' = Append(recent, Picked("Consume"))
    /\ UNCHANGED <<built, cluster, resolve, grpc>>

-----------------------------------------------------------------------------
Init ==
    /\ leader = First /\ view = First /\ moves = 0
    /\ client = [c \in Clients |-> "none"]
    /\ resolver = [client |-> NoClient, conn |-> "closed"]
    /\ wanted = {} /\ asked = {}
    /\ addrs = [c \in Clients |-> {}] /\ ready = [c \in Clients |-> {}]
    /\ breaks = 0
    /\ picker = [leader |-> NoConn, followers |-> <<>>, current |-> 0]
    /\ recent = <<>> /\ built = NoClient

Next ==
    \/ Learn \/ ResolveFails \/ ResolveUpdate \/ PickConsume
    \/ \E n \in Nodes : Elect(n) \/ AskLeader(n)
    \/ \E c \in Clients :
          \/ BuildResolver(c) \/ ResolveNow(c) \/ Close(c)
          \/ \E n \in Nodes : Connect(c, n) \/ Break(c, n)

Spec == Init /\ [][Next]_vars

(* gRPC connects a sub-connection again until it is ready.                 *)
FairSpec ==
    /\ Spec
    /\ \A c \in Clients, n \in Nodes : WF_vars(Connect(c, n))

-----------------------------------------------------------------------------
(* Shape of the state.                                                     *)
TypeOK ==
    /\ leader \in Nodes /\ view \in Nodes \cup {NoNode} /\ moves \in 0 .. MaxMoves
    /\ client \in [Clients -> {"none", "open", "closed"}]
    /\ resolver \in [client : Clients \cup {NoClient}, conn : {"open", "closed"}]
    /\ wanted \subseteq Clients
    /\ asked \subseteq UNION {[known -> BOOLEAN] : known \in SUBSET Nodes}
    /\ addrs \in [Clients -> SUBSET [Nodes -> BOOLEAN]]
    /\ ready \in [Clients -> SUBSET Nodes]
    /\ breaks \in 0 .. MaxBreaks
    /\ picker \in [leader : Conn \cup {NoConn}, followers : Seq(Conn), current : 0 .. MaxPicks]
    /\ recent \in Seq(Conn) /\ built \in Clients \cup {NoClient}

(* Whatever connection a consume is made on, and whatever came before, it  *)
(* goes to a sub-connection of the connection that was built last, while   *)
(* that is open: to a ready one that was not told to lead, of which none   *)
(* is passed over; if there is none, to a ready leader; and only if        *)
(* nothing is ready to one that led once and may be gone (picker.go, Build *)
(* and Pick).                                                              *)
ConsumePicks ==
    \A c \in Clients : c = built /\ client[c] = "open" =>
        LET mine      == ReadyConns(c, ready[c])
            followers == {x \in mine : ~x.leads}
        IN  /\ Len(picker.followers) = Cardinality(followers)
            /\ followers # {} => Picked("Consume") \in followers
            /\ followers = {} /\ mine # {} => Picked("Consume") \in mine
            /\ mine = {} => Picked("Consume") = NoConn \/ Picked("Consume").leads

(* Between two Builds consumes take turns: as many in a row as there are   *)
(* followers go to different ones (picker.go, nextFollower).               *)
FairTurns ==
    \A i, j \in DOMAIN recent :
        i < j /\ j < i + Len(picker.followers) => recent[i] # recent[j]

(* Every connection that is open was told who leads.                       *)
Settled ==
    /\ \E c \in Clients : client[c] = "open"
    /\ \A c \in Clients :
          /\ client[c] # "closed"
          /\ client[c] = "open" => addrs[c] = {[n \in Nodes |-> n = leader]}

(* When the connections know who leads, and none was closed, produces come *)
(* to go to the leader, on a connection that is ready, whatever leaders    *)
(* were known before (picker.go, Build and Pick; distributed.go,           *)
(* GetServers).                                                            *)
LeaderFound ==
    <>[]Settled => <>[](Usable(Picked("Produce")) /\ Picked("Produce").node = leader)

(* Consumes, then, come to go to the other nodes, on connections that are  *)
(* ready, unless there are none (picker.go, Build and Pick).               *)
ConsumeFound ==
    <>[]Settled => <>[](/\ Usable(Picked("Consume"))
                        /\ Nodes # {leader} => Picked("Consume").node # leader)
=============================================================================
