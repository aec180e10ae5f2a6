----------------------------- MODULE Membership ----------------------------
(***************************************************************************)
(* Who is in the cluster: internal/discovery/membership.go hears from serf *)
(* that an agent joined, left or failed, and calls Join or Leave of        *)
(* internal/log/distributed.go, which change the voters of raft.  Every    *)
(* agent hears of every other one and calls; only the call at the leader   *)
(* has an effect, the others fail with ErrNotLeader and are not repeated.  *)
(*                                                                         *)
(* Serf and raft are libraries, modelled from how the code uses them: serf *)
(* puts the events in a queue per agent, in the order they happen; a       *)
(* change of raft's configuration counts as soon as the leader stores it   *)
(* and ends when a quorum of the new configuration has it, or is undone    *)
(* by the next leader.                                                     *)
(***************************************************************************)
EXTENDS Naturals, Sequences, FiniteSets

CONSTANTS
    Nodes,         \* agents, by Config.NodeName
    First,         \* the agent with Config.Bootstrap
    Initial,       \* the agents that run and have joined at the beginning
    Addresses,     \* RPC addresses
    AddressesOf,   \* the addresses an agent may start with
    NoNode,        \* raft has no leader
    MaxStarts,     \* bound on the starts of agents after that
    MaxElections   \* bound on the changes of leader

ASSUME MembershipAssumption ==
    /\ First \in Initial /\ Initial \subseteq Nodes /\ NoNode \notin Nodes
    /\ IsFiniteSet(Nodes)
    /\ AddressesOf \in [Nodes -> (SUBSET Addresses) \ {{}}]
    /\ MaxStarts \in Nat /\ MaxElections \in Nat

VARIABLES
    status,    \* the agent: down, up, or gone from serf and closing
    addr,      \* its tag rpc_addr
    events,    \* the channel Membership.events
    handler,   \* the goroutine of eventHandler and the call it is in
    leader,
    servers,   \* raft's latest configuration
    settled,   \* the latest one that is committed
    starts, elections  \* how much of the bounds is used

agents == <<status, addr, events>>
config == <<leader, servers, settled>>
bounds == <<starts, elections>>
vars   == <<agents, handler, config, bounds>>

Server(id, address) == [id |-> id, addr |-> address]

Servers == [id : Nodes, addr : Addresses]

Event(kind, id, address) == [kind |-> kind, id |-> id, addr |-> address]

Events == [kind : {"join", "leave", "failed"}, id : Nodes, addr : Addresses]

(* op is the raft call that comes next, or that is waited for if called.   *)
Idle == [op |-> "idle", id |-> First, addr |-> CHOOSE a \in Addresses : TRUE,
         rest |-> {}, called |-> FALSE]

-----------------------------------------------------------------------------
(* Serf.  An agent that is down has no goroutine and hears nothing.        *)

Running(n) == status[n] # "down"

(* Every agent that runs hears of it, the one concerned included.          *)
Heard(queues, e) ==
    [n \in Nodes |-> IF Running(n) THEN Append(queues[n], e) ELSE queues[n]]

(* New and setupSerf.  The new agent hears of the members there are, and   *)
(* they of it.                                                             *)
Start(n, address) ==
    LET others == {m \in Nodes : status[m] = "up"}
        greet  == CHOOSE s \in [1 .. Cardinality(others) -> others] :
                      \A i, j \in DOMAIN s : s[i] = s[j] => i = j
    IN  /\ status[n] = "down" /\ others # {}
        /\ starts < MaxStarts
        /\ \A m \in Nodes : Running(m) => addr[m] # address
        /\ starts' = starts + 1
        /\ status' = [status EXCEPT ![n] = "up"]
        /\ addr' = [addr EXCEPT ![n] = address]
        /\ events' = [Heard(events, Event("join", n, address)) EXCEPT ![n] =
                         <<Event("join", n, address)>>
                         \o [i \in DOMAIN greet |-> Event("join", greet[i], addr[greet[i]])]]
        /\ handler' = [handler EXCEPT ![n] = Idle]
        /\ UNCHANGED <<config, elections>>

(* Membership.Leave, the first step of Agent.Shutdown: raft still runs.    *)
SerfLeave(n) ==
    /\ status[n] = "up"
    /\ status' = [status EXCEPT ![n] = "leaving"]
    /\ events' = Heard(events, Event("leave", n, addr[n]))
    /\ UNCHANGED <<addr, handler, config, bounds>>

(* The process ends; raft's leader with it.                                *)
Gone(n) ==
    /\ status' = [status EXCEPT ![n] = "down"]
    /\ handler' = [handler EXCEPT ![n] = Idle]
    /\ leader' = IF leader = n THEN NoNode ELSE leader
    /\ UNCHANGED <<addr, servers, settled, bounds>>

(* DistributedLog.Close, the last step of Agent.Shutdown.                  *)
LogClose(n) ==
    /\ status[n] = "leaving"
    /\ events' = [events EXCEPT ![n] = <<>>]
    /\ Gone(n)

Fail(n) ==
    /\ status[n] = "up"
    /\ events' = [Heard(events, Event("failed", n, addr[n])) EXCEPT ![n] = <<>>]
    /\ Gone(n)

-----------------------------------------------------------------------------
(* Raft.                                                                   *)

HasQuorum(voters) ==
    2 * Cardinality({s \in voters : Running(s.id) /\ addr[s.id] = s.addr})
        > Cardinality(voters)

(* The future of a leader that no longer leads fails.                      *)
CallsFailed == [n \in Nodes |-> IF handler[n].called THEN Idle ELSE handler[n]]

(* A change that was not committed yet survives or not.                    *)
Elect(n, voters) ==
    /\ voters \in {servers, settled}
    /\ n # leader /\ elections < MaxElections
    /\ Running(n) /\ Server(n, addr[n]) \in voters /\ HasQuorum(voters)
    /\ elections' = elections + 1
    /\ leader' = n
    /\ servers' = voters /\ settled' = voters
    /\ handler' = CallsFailed
    /\ UNCHANGED <<agents, starts>>

(* Without a quorum the lease of the leader ends.                          *)
LoseLeader ==
    /\ leader # NoNode /\ ~HasQuorum(servers)
    /\ leader' = NoNode
    /\ handler' = CallsFailed
    /\ UNCHANGED <<agents, servers, settled, bounds>>

(* Mutant: the name is compared with the address.                          *)
RemoveServerAt(id) == {s \in servers : s.addr # id}

RemoveServer(id) == {s \in servers : s.id # id}

(* Mutant: the two strings are swapped.                                    *)
AddVoterSwapped(id, address) == RemoveServer(id) \cup {Server(address, id)}

AddVoter(id, address) == RemoveServer(id) \cup {Server(id, address)}

(* raft refuses a configuration with an address twice.                     *)
AddressTaken(id, address) == \E s \in RemoveServer(id) : s.addr = address

-----------------------------------------------------------------------------
(* eventHandler: one event at a time, and the call that it leads to.       *)

(* Mutant: no event is taken for the agent's own.                          *)
isLocalNever(n, e) == FALSE

isLocal(n, e) == e.id = n

Receives(n, kinds) ==
    /\ Running(n) /\ handler[n].op = "idle"
    /\ events[n] # <<>> /\ Head(events[n]).kind \in kinds
    /\ events' = [events EXCEPT ![n] = Tail(@)]
    /\ UNCHANGED <<status, addr, config, bounds>>

(* A local join is skipped; on its own leave the goroutine returns.        *)
HandleLocal(n) ==
    /\ Receives(n, {"join", "leave", "failed"})
    /\ LET e == Head(events[n])
       IN  /\ isLocal(n, e)
           /\ handler' = [handler EXCEPT ![n].op =
                             IF e.kind = "join" THEN "idle" ELSE "returned"]

(* Mutant: a server that is known by name has joined already.              *)
JoinedById(id, address) == \E s \in servers : s.id = id

Joined(id, address) == Server(id, address) \in servers

(* handleJoin and the first lines of Join: the servers that have the name  *)
(* or the address.  For each of them the server of that name is removed.   *)
HandleJoin(n) ==
    /\ Receives(n, {"join"})
    /\ LET e    == Head(events[n])
           same == {s \in servers : s.id = e.id \/ s.addr = e.addr}
       IN  /\ ~isLocal(n, e)
           /\ handler' = [handler EXCEPT ![n] =
                 IF Joined(e.id, e.addr) THEN Idle
                 ELSE [op |-> IF same = {} THEN "add" ELSE "remove",
                       id |-> e.id, addr |-> e.addr, rest |-> same, called |-> FALSE]]

HandleLeave(n) ==
    /\ Receives(n, {"leave", "failed"})
    /\ LET e == Head(events[n])
       IN  /\ ~isLocal(n, e)
           /\ handler' = [handler EXCEPT ![n] =
                 [op |-> "leave", id |-> e.id, addr |-> e.addr, rest |-> {}, called |-> FALSE]]

Calls(n, ops) == Running(n) /\ handler[n].op \in ops /\ ~handler[n].called

(* raft.RemoveServer in Join and in Leave, raft.AddVoter at the end of     *)
(* Join, at the leader.                                                    *)
CallRemove(n) ==
    /\ Calls(n, {"remove", "leave"})
    /\ leader = n
    /\ servers' = RemoveServer(handler[n].id)
    /\ handler' = [handler EXCEPT ![n].called = TRUE]
    /\ UNCHANGED <<agents, leader, settled, bounds>>

CallAdd(n) ==
    /\ Calls(n, {"add"})
    /\ leader = n /\ ~AddressTaken(handler[n].id, handler[n].addr)
    /\ servers' = AddVoter(handler[n].id, handler[n].addr)
    /\ handler' = [handler EXCEPT ![n].called = TRUE]
    /\ UNCHANGED <<agents, leader, settled, bounds>>

(* The call fails: this is not the leader, or raft refuses.  The error is  *)
(* logged and that was the event.                                          *)
CallFails(n) ==
    /\ Calls(n, {"remove", "leave", "add"})
    /\ leader = n => handler[n].op = "add" /\ AddressTaken(handler[n].id, handler[n].addr)
    /\ handler' = [handler EXCEPT ![n] = Idle]
    /\ UNCHANGED <<agents, config, bounds>>

(* The future of the call: the loop of Join goes on, or the call returns.  *)
CallReturns(n) ==
    LET h == handler[n]
    IN  /\ h.called /\ HasQuorum(servers)
        /\ settled' = servers
        /\ \/ /\ h.op \in {"leave", "add"}
              /\ handler' = [handler EXCEPT ![n] = Idle]
           \/ /\ h.op = "remove"
              /\ \E s \in h.rest :
                    handler' = [handler EXCEPT ![n] =
                       [h EXCEPT !.rest = @ \ {s}, !.called = FALSE,
                                 !.op = IF h.rest = {s} THEN "add" ELSE "remove"]]
        /\ UNCHANGED <<agents, leader, servers, bounds>>

-----------------------------------------------------------------------------
Init ==
    /\ status = [n \in Nodes |-> IF n \in Initial THEN "up" ELSE "down"]
    /\ addr = [n \in Nodes |-> CHOOSE a \in AddressesOf[n] : TRUE]
    /\ events = [n \in Nodes |-> <<>>]
    /\ handler = [n \in Nodes |-> Idle]
    /\ leader = First
    /\ servers = {Server(n, addr[n]) : n \in Initial} /\ settled = servers
    /\ starts = 0 /\ elections = 0

Handle(n) ==
    \/ HandleLocal(n) \/ HandleJoin(n) \/ HandleLeave(n)
    \/ CallRemove(n) \/ CallAdd(n) \/ CallFails(n) \/ CallReturns(n)

Next ==
    \/ \E n \in Nodes :
          \/ \E address \in AddressesOf[n] : Start(n, address)
          \/ SerfLeave(n) \/ LogClose(n) \/ Fail(n)
          \/ \E voters \in {servers, settled} : Elect(n, voters)
          \/ Handle(n)
    \/ LoseLeader

Spec == Init /\ [][Next]_vars

(* The goroutine of eventHandler goes on while its process runs.           *)
FairSpec == Spec /\ \A n \in Nodes : WF_vars(Handle(n))

-----------------------------------------------------------------------------
(* Shape of the state.                                                     *)
TypeOK ==
    /\ status \in [Nodes -> {"down", "up", "leaving"}]
    /\ addr \in [Nodes -> Addresses]
    /\ events \in [Nodes -> Seq(Events)]
    /\ handler \in [Nodes ->
           [op : {"idle", "remove", "add", "leave", "returned"}, id : Nodes,
            addr : Addresses, rest : SUBSET Servers, called : BOOLEAN]]
    /\ leader \in Nodes \cup {NoNode}
    /\ servers \subseteq Servers /\ settled \subseteq Servers
    /\ starts \in 0 .. MaxStarts /\ elections \in 0 .. MaxElections

(* The leader never takes itself out of the cluster, whatever it hears, at *)
(* any moment of a change (membership.go, isLocal; distributed.go, Join).  *)
LeaderIsServer == leader # NoNode => \E s \in servers : s.id = leader

(* While one node leads and stays, the voters become exactly the agents    *)
(* that run, each at the address it has now (membership.go, eventHandler;  *)
(* distributed.go, Join and Leave).                                        *)
Converges ==
    \A l \in Nodes :
        [](leader = l /\ status[l] = "up") /\ <>[]HasQuorum(servers) =>
            <>[](servers = {Server(n, addr[n]) : n \in {m \in Nodes : status[m] = "up"}})

(* When the leader is done with a join, and leads still, the agent is a    *)
(* voter at the address it joined with, whatever stale entry of it there   *)
(* was, unless another server has the address (distributed.go, Join).      *)
JoinOf(n) ==
    IF handler[n].op \in {"remove", "add"} THEN {Server(handler[n].id, handler[n].addr)}
    ELSE IF /\ handler[n].op = "idle"
            /\ events[n] # <<>> /\ events'[n] = Tail(events[n])
            /\ Head(events[n]).kind = "join"
    THEN {Server(Head(events[n]).id, Head(events[n]).addr)}
    ELSE {}

JoinTakesEffect ==
    [][\A l \in Nodes :
          leader = l /\ leader' = l /\ Running(l) /\ handler'[l].op = "idle" =>
              \A s \in JoinOf(l) : AddressTaken(s.id, s.addr) \/ s \in servers']_vars
=============================================================================
