# Dislog in TLA+

This directory holds specifications of Dislog, the distributed log of this
repository, the TLC configurations that model-check them, and proofs that TLAPS
checks. `PROJECT.json` maps every definition that models code to its lines and
lists the runs, their mutants, the hazards, the findings and the theorems.

Contents: [the system](#the-system), [modules](#modules), [runs](#runs),
[findings](#findings), [proofs](#proofs), [what is left out](#what-is-left-out),
[plan](#plan), [how to run it](#how-to-run-it).

## The system

A client appends a record through any connection to the leader and reads it at
its offset from any node. On the way the record goes through these parts:

```
 client ── load balancing ──► mux ──► gRPC server ──► DistributedLog.Append / Read
                               │                          │ raft.Apply
                               └──► stream layer ◄──► raft (library)
                                                          │ StoreLogs, GetLog, DeleteRange
                                        raft log ◄────────┤
 serf events ──► Membership ──► Join / Leave ──► raft     │ fsm.Apply, Snapshot, Restore
                                        record log ◄──────┘
```

Both logs are a `Log`: a list of segments, each a store file and an index file.

| Component | State | Operations | What is hard | What makes it correct |
|---|---|---|---|---|
| **segment** (`log/store.go`, `index.go`, `segment.go`) | store file, its size and the buffer of bufio; index file, mapped; base and next offset | open, Append, Read, IsMaxed, Remove, Close | The index entry is in the file before the record is. The index file is extended on open and cut only by Close. An append can fail after the store has the record. | what was appended at an offset is what is read there; recovery finds the next offset |
| **commit log** (`log/log.go`) | `segments`, `activeSegment`, the directory | setup, Append, Read, LowestOffset, HighestOffset, Truncate, Close; Reader, Remove and Reset for snapshots | Append locks twice and changes the list between the locks. Truncate may fail halfway. A crash can fall between any two file operations. | offsets consecutive; acknowledged records readable until truncated; reads never return another record; segments ordered; every call returns |
| **raft log store** (`log/distributed.go`, `logStore`) | a `Log` with initial offset 1 | FirstIndex, LastIndex, GetLog, StoreLogs, DeleteRange | Index and offset must stay the same number, and nothing checks it. raft deletes at both ends. Two goroutines of raft call it. | what raft needs of a log store: a leader has all committed entries |
| **distributed log and FSM** (`log/distributed.go`) | the record log, raft's state | Append (apply, wait for the future), fsm.Apply, Read, Close, NewDistributedLog | elections with entries in flight; restart over a record log that has old records | the same record at the same offset everywhere; every committed command applied, in order, everywhere |
| **snapshots** (`log/distributed.go`, `Reader`, `originReader`, `Reset`) | the list of stores the reader goes over, the sink, the newest snapshot | Snapshot, Persist, Restore | The copy walks live stores, under a buffered writer, while entries are applied and segments rolled. It fails halfway. raft compacts its log behind it. Restore deletes first. | a snapshot is a prefix of the record log with all that was there when it began; no entry is compacted that no snapshot covers; a node that serves has what it applied |
| **membership** (`discovery/membership.go`, `Join` and `Leave`) | the channel of events and its goroutine; raft's configuration | eventHandler, handleJoin, handleLeave, Join, Leave | All agents hear, only the leader's call counts, once. Join makes several raft calls with waits between. Agents come back at other addresses. | voters become the agents that run; the leader never removes itself |
| **agent** (`agent/agent.go`) | listener, mux, log, gRPC server, membership, the shutdown flag and lock | New in five steps, serve, Shutdown | three goroutines may call Shutdown; it waits for calls in flight under its lock; steps fail | handlers always have an open log; nil from Shutdown means closed; every Shutdown returns |
| **gRPC server** (`server/server.go`) | per stream: its node and the next offset | Produce, Consume, ProduceStream, ConsumeStream, GetServers | ConsumeStream polls for an offset that is not there, on a node that lags; the leader moves between Recv and Send | a stream delivers each record once, in order; an answer names the record that was sent; waiting for an offset ends when it exists |
| **load balancing** (`loadbalance/`) | the picker's leader, followers and counter; the resolver's connections | Build, ResolveNow, Close; Build, Pick | One Resolver and one Picker for all connections of a process. Build writes without the mutex of ResolveNow. GetServers asks for the leader once per server. | consumes go to ready followers in turn while there are any; produces come to go to the leader |
| **stream layer, authorisation, TLS, configuration, command line, HTTP server** | none, or behind one mutex | | | |

They interact by plain calls, except for: raft, which calls `fsm` and `logStore`
from its own goroutines and exchanges messages with other nodes; serf, which
feeds a channel; and the one listener that cmux divides between raft and gRPC,
so that whoever closes one closes the other.

## Modules

In the order in which they build on each other:

* **`Segment`**: what the operations of a segment compute, as operators with no
  state of their own. A record is two chunks of a store file, its length and its
  body, because a crash can keep one without the other. An index entry is one
  unit of an index file.
* **`CommitLog`** extends it: the log as a program. `storeFile` and `indexFile`
  are the directory and survive everything. `heap`, `segments`, `active` are the
  segment objects and the pointers to them, so that two objects over one file,
  a closed object that is still in the list, and an active segment that is in
  no list are all states it can be in. `pc` and `local` hold the place and the
  local variables of each goroutine. Append is
  `AppendHighest`, `AppendCheck`, `RollStore`, `RollIndex`, `RollPublish`,
  `RollActivate`, `AppendWrite`: cut wherever another goroutine, or a crash, gets
  in between two effects; `RollFails` is the error return of `newSegment`. Truncate
  is cut at the file operations of `segment.Remove`, with the lock held:
  `TruncateCloseIndex`, `TruncateCloseStore`, `TruncateRemove`, `TruncateUnlink`;
  `TruncateClosed` and `TruncateStuck` are its error returns. Close closes index and store of each segment in two steps.
  `Crash` forgets the process. `SetupSegment` is one turn of the loop in `setup`,
  the skipping of every second name included.
* **`AbstractLog`**: what the log promises, a window of records with
  consecutive offsets. Append at one end, drop at the other; a log that may be emptied
  forgets where it was.
* **`LogRefinement`** extends `CommitLog` and instantiates `AbstractLog` with the
  window that files, objects and buffers stand for at every moment.
* **`Replication`**: nodes with a raft log, a record log, raft's term, role,
  commit and applied index, and the calls that wait for their future. `StoreLog`,
  `DeleteRange`, `GetLog`, `FsmApply`, `DistributedAppend`, `Close` and
  `NewDistributedLog` are this repository's; elections, replication and commit
  are raft's, modelled as this code sees them. A log is a sequence here, which
  `LogRefinement` justifies for orderly shutdowns; after a panic the record log is
  any of `Recovered`: any records may be unreadable, and the log may be shorter or one
  offset longer than it was (lost buffers, padded and full indexes; `CommitLog` has the detail).
* **`Membership`** and **`MCMembership`**: agents, the queue of serf events of
  each, the goroutine of `eventHandler` with the call it is in, and raft's
  configuration, latest and committed.
* **`Agent`**: New, the callers of Shutdown, the parts they open and close, and
  the calls in flight.
* **`Snapshot`**: one node's FSM goroutine, which applies entries and answers
  `fsm.Snapshot`; raft's snapshot goroutine, which runs Persist one `Read` of the
  `originReader` at a time (`PersistRead`, `PersistClose`, `PersistFails`) and then
  compacts; and a process that closes and starts again. `Restore` does what the code
  does: Reset leaves no directory and the start fails. A store is a range of units,
  two for a record, with a mark of how much bufio wrote.
* **`Server`**: ProduceStream and ConsumeStream turn by turn over the logs of the
  nodes, of which each has the first so many of the committed records
  (what `Replication` shows without restarts). A turn of ProduceStream is `ProduceRecv`, then `Commit`
  or `ProduceFails`, then `ProduceSend`; of ConsumeStream, `ConsumeRead` and `ConsumeSend`. Between any two
  the leader may move (`Elect`) and each of the undecided records of the old one be kept or
  lost. `Authorize` guards every turn, over every policy.
* **`Client`**: the client connections of one process with the Resolver and the Picker
  that `init` registers once for all of them. `AskLeader` is one turn of GetServers' loop,
  so that the leader can change in it; `ResolveUpdate` goes to the connection that was
  built last, as the code does; `Connect` and `Break` are gRPC's and run `Build`.
* **`CommitLogProofs`**, **`LogRefinementProofs`**, **`AgentProofs`**, **`SnapshotProofs`**,
  **`ServerProofs`**, **`ClientProofs`**, **`MembershipProofs`**, **`ReplicationProofs`**: the theorems.

`CommitLog` and `Replication` meet in their interface, the sequence of records;
`Replication` and `Membership` split raft between them (all nodes are voters in the
one, logs are not looked at in the other); `Agent` has a `log` that is open or
closed, and calls that are the turns of a stream of `Server`; `Server` starts from
the order of records that `Replication` establishes, and `Client` from nodes of which one leads.
Composing them in one state space would multiply sizes and add no interaction
beyond those interfaces, with one exception that the plan lists (the start of a
bootstrap node).

## Runs

Every property of a passing run has a mutant, an operator in the module that
changes one definition the way a plausible bug would; TLC finds the property
violated with it.

### The log

* **`log_sequential`** (`LogRefinement`; one goroutine, offsets 0 to 5, stores of
  two records and indexes of three, one record value since a frame carries its offset, one orderly
  restart, truncations that may spare nothing). `AckedReadable`: every
  append that succeeded can be read at its offset until a Truncate reaches it
  (`floor` is the lowest offset that none reached, so that offset 0 counts until one did).
  `Implements`: every step, the halves of a roll, of a truncation, of a shutdown
  and of a recovery included, is a step of `AbstractLog` or changes nothing of it.
  Six offsets make three segments, so rolls, removals that stop in the middle of the
  list and a restart over several segments all happen. A truncation of everything leaves
  an empty list, the next append panics on it, and the log that is opened again starts over: the `Forget` of
  `AbstractLog`, which a log that spares its newest records never takes.
* **`log_crash`** (`CommitLog`; two crashes, `bufio` writing nothing, part of a
  record or a record and a half by itself, five offsets, truncations that spare the newest
  one). `ReadsNeverLie`: a read that
  succeeds returns the record that was appended with that offset, although many
  reads fail. `SegmentsOrdered`: the ranges of the segments never overlap, also
  after the pairwise loop in `setup` met an odd number of names. Two crashes, because
  recovery from the first leaves files that no run without crashes can produce. A crash
  falls between any two file operations, so also between the cut of an index and the flush
  of its store in `segment.Remove`: that does no harm to an older segment, whose
  offsets no append gets again. It does for the newest one, and in an orderly Close, which this
  run leaves out by its bounds `TrailingLogs = 1` and `MaxCloses = 0`: see [findings](#findings).
* **`log_race`** (`CommitLog` under `FairSpec`; an appender and a compactor, as
  raft's main and snapshot goroutines use the raft log; initial offset 1; one
  file operation of a roll or a removal fails; one restart). `SegmentsOrdered` and `ActiveNeverRemoved` hold
  in spite of the unlocked roll, while a caller spares the newest offset as raft's
  `TrailingLogs` does; that the roll may lose a segment is among the [findings](#findings).
  `CallsReturn`: the lock is released on every path.

  Fairness: a goroutine inside a call goes on. `SF` for the step that takes the
  lock, because `sync.RWMutex` does not starve a waiter and the lock is free again
  and again; `WF` for the steps of Truncate, which holds it.

### Replication

* **`replication`** (3 nodes, terms up to 3, 4 entries, no restart).
  `LeaderComplete`: every leader has what was committed in its term and before,
  over this log store, with two changes of leader and conflicting suffixes.
  `ReplicasAgree`: an offset has one record everywhere, and it is the one that
  Append answered. Three nodes are the least with a minority; three terms let a
  deposed leader come back with entries nobody else has, which takes two.
* **`replication_restart`** (2 nodes under `FairSpec`, 2 restarts, orderly or after a
  panic). `AppliedInOrder`: whatever records of its log a crash left unreadable or cut off, a
  process adds the commands of the raft log in their order, none left out.
  `EventuallyReplicated`: while a leader lasts, every node that stays up comes to
  have what it committed. Fairness is assumed for the replication, commit and FSM
  goroutines of raft only; nothing is assumed about elections, clients or
  restarts.

### Membership

* **`membership`** (3 agents, the third with two addresses, one start after the
  first, one change of leader). `LeaderIsServer`: whatever it hears, the leader is
  in its own configuration. `JoinTakesEffect`: when the leader is done with a
  join and leads still, the agent is a voter at its address, however stale the
  entry it found. `Converges`: under one lasting leader with a quorum, the
  voters become exactly the running agents at their present addresses.
  Fairness: the goroutine of `eventHandler` goes on. With a leader that changes,
  convergence is lost for good: the event that found no leader is not repeated
  (`membership.go:91`); the property says so by its premise.

### Agent

* **`agent`** (two callers in the program besides the mux and the gRPC goroutine, two
  calls, two failures, `FairSpec`). `HandlersHaveLog`, `MembershipSet`, `NilMeansClosed`
  and `ShutdownReturns`. Fairness: goroutines go on, `sync.Mutex` hands itself to a
  waiter in the end. That calls end is no fairness of the code: `GracefulStop` cancels none,
  and a `ConsumeStream` loops until its client lets go, so it is the premise of
  `ShutdownReturns` itself (every call is over again and again); without it Shutdown waits
  under its lock for as long as a client likes, and so does everyone behind it. Two callers and two calls are enough for one
  to wait on each; the proofs remove the bound.

### Snapshots

* **`snapshot`** (5 entries, two snapshots, two starts; stores of 3 units, so that a
  record makes a store full or nearly full and three segments occur; a copy buffer of 3
  units, so that a read ends in the middle of a record). `SnapshotFaithful`: whatever is
  applied, rolled and flushed meanwhile, a finished snapshot is the record log from its
  beginning to the end of a record, with all that was there when it began.
  `SnapshotBounded`: it has at most one segment more, so the copy does not run after the
  writer for ever. (It may have more than its index says: a restore that worked would have
  to expect that.) `EntriesKept`: a failed copy costs no entry. `ServesAllApplied`: a
  node that serves has a record for every command it applied; that Restore fails is
  what keeps this true, since a node with such a snapshot never serves again.

### gRPC server

* **`server`** (2 nodes, 2 producing streams, one consuming, three offsets, one change of
  leader, every access policy, `FairSpec`). `StreamGapless`: a stream delivers the records of
  consecutive offsets from the one it asked for. `AcksTrue`: the answers on a stream are
  the offsets of what was sent on it, in order, and no two are the same; a record is known by its
  stream and its number, so that a copy sent again on another stream is another
  record, and naming its offset would be wrong. `StreamDelivers`: waiting for an
  offset ends when it exists. `ProduceAnswered`: what was sent is answered, or the
  stream ends. One change of leader finds each stream at each place of its loop;
  two producers are the least whose records can swap.

  Fairness: handlers run; raft commits what its leader has or fails the future; a node
  comes to apply what was committed (`EventuallyReplicated`). Clients need not send or open
  anything, but they read: `Send` waits while gRPC's flow control has no room.

### Load balancing

* **`client`** (2 nodes, 2 client connections of one process, one change of leader, two
  lost sub-connections, 3 consumes, `FairSpec`). `ConsumePicks`: on whichever connection
  it is made, a consume goes to the connection that Build ran for last, while that is open (Close does
  not reach the picker): to a ready sub-connection that was not told to lead, none of
  which is passed over; to a ready leader if there is none; and, if nothing is ready, to the leader of
  before, which Build keeps and which may be gone (`picker.go:61`). `FairTurns`:
  as many consumes in a row as there are followers go to different ones; with two nodes
  there are two followers while no leader is known. `LeaderFound`: once the
  connections were told who leads, and none is closed, produces come to go there;
  `ConsumeFound`: and consumes come to go to the other node, on a connection that is ready.
  Fairness: gRPC reconnects. It is not assumed that ResolveNow is called: gRPC does so
  only for a lost connection, and after an election that broke none produces go on to
  the old leader, which is why the premise of both is what it is.

All runs but those of `CommitLog` and `LogRefinement` set `CHECK_DEADLOCK FALSE`: the bounds, or a
finished shutdown, end the behaviour. The runs of the commit log check deadlock.

`TypeOK` is checked once per module.

## Findings

Two runs expect TLC to violate a property that a test or the README
states; `PROJECT.json` quotes the lines.

| Run | What the code does |
|---|---|
| `replication_replay` | A node that restarts applies all commands again behind the records it has: it answers other records than its peers for the same offsets. |
| `replication_conflict` | `DeleteRange(min, max)` ignores `min`: the removal of a conflicting suffix empties the follower's raft log, the store that follows panics, and the emptied node votes for a leader without an acknowledged record. |

Two more come out of the runs that are kept, with one line of a `.cfg` changed:

* `log_crash.cfg` with `MaxCloses = 1`: `segment.Close` cuts the index and then flushes the
  store (`segment.go:137`). A crash in between leaves an index that is complete over a store that is
  not; the next append goes where its last entries point, and a read of such an offset returns
  that record (`ReadsNeverLie` is violated in 15 states). `segment.Remove` begins with the same two
  calls, and with `TrailingLogs = 0` a crash in the removal of the newest segment, as `DeleteRange` of a
  conflict does, lies in the same way.
* `log_race.cfg` with `AckedReadable` among its invariants: a Truncate between the unlocked steps of a roll
  drops the new segment from the list, or the roll puts removed ones back (`log.go:100`). Acknowledged
  records are then out of reach, and `HighestOffset`, "safe to call
  concurrently" (`log.go:176`), answers less than what was acknowledged.

Found while reading and modelling, and not the subject of a run:

* An acknowledged append can be lost in a crash: the record is in a buffer of the
  process, and the padded index makes recovery forget the offsets even of records that
  are in the file (`store.go:63`, `index.go:46`).
* `Truncate(lowest)` removes the record at `lowest`, which its comment keeps (`log.go:188`). The
  code is what raft's inclusive `DeleteRange` needs.
* `Log.Reset` removes the directory and then reads it, so it always fails, and with it
  `fsm.Restore`: a node with a snapshot that is not empty cannot start
  (`log.go:161`, `distributed.go:336`).
* `Agent.Shutdown` sets its flag first: after a failed step the log stays open, and the
  next call returns nil (`agent.go:228`).
* A bootstrap node waits for a leader before its mux serves: restarted in a healthy
  cluster it hears nobody, and `New` times out (`agent.go:164`).
* `Join` removes the server with the new name where the entry in its way may have
  another name (`distributed.go:199`): an address that a departed leader still holds
  blocks its new owner for good.
* `GetLog` answers `ErrOffsetOutOfRange` where raft expects `raft.ErrLogNotFound`
  (`distributed.go:372`): a leader whose log begins after the entry that a follower needs
  never sends the snapshot, and the follower starves. Restore thus happens at a start only.
* The timeout of `raft.Apply` bounds the wait for a place in raft's queue, not the wait
  for the answer (`distributed.go:169`).
* `Resolver.Build` writes the fields of the one Resolver without its mutex
  (`resolver.go:46`): a ResolveNow for the first connection tells the one that was built
  last, which the first may wait for for ever, and `Close` of either closes the resolver
  connection of both. The followers of a closed connection stay in the picker.
* The counter of the picker wraps at 2^64, where three followers are one turn out of step.
* `main.go:118` reads `acl-mode-file`, and the flag is `acl-model-file`.

Found while proving:

* `setup` takes the sorted names two by two (`log.go:74`), which is right while at most one
  segment has a single file. A roll creates the store file first and a removal deletes the
  index file first, so one goroutine leaves at most one such file. With an appender and a
  compactor, as on raft's log, a crash can leave two: `setup` then skips the name of the
  newest segment, appends go to the one before, and a later roll opens a segment whose range
  overlaps it. So does one goroutine if the removal of a store file fails before a crash. TLC finds
  `SegmentsOrdered` violated in both cases (one crash is enough), which is why the theorems on
  the order of the segments are about `Sequential` logs.

## Proofs

TLAPS proves, for every value of the constants:

* **`CommitLogTypeOK`, `CommitLogPointersSet`** (`CommitLogProofs`). The inductive
  invariant is `TypeOK /\ PointersSet` together. Neither half is inductive: the type of
  `heap` after a roll needs that `local[t].fresh` is a pointer, not 0 (`LocalsSet`), and
  that `active` is one (`ActiveSet`) needs the types of the pointers. The type of a
  segment object carries `baseOffset <= nextOffset`, so `TypeOK` also says that no
  index entry is negative. One lemma per operator of `Segment`, one per action.
  Assumptions: `SegmentAssumption`, `CommitLogAssumption` (sizes positive, bounds natural,
  `NoThread` is no goroutine), which TLC evaluates on every run.
* **`CommitLogSegmentsOrdered`, `CommitLogActiveNeverRemoved`** (`CommitLogProofs`), under `Sequential`:
  one goroutine calls the log (as the FSM goroutine calls the record log), its truncations spare
  the newest offset and no removal of a file fails; any sizes, offsets, crashes and restarts.
  Without the premise the first one is false (see [findings](#findings)). The ranges of the
  objects in the list say nothing of what a crash leaves, so the inductive invariant `OrderInv` is mostly
  about the files: `FilesOK` holds between any two steps and hence after a crash (a store file for each
  index file, at most one without, the last entry of an index, padded or not, stays below the
  next base, and the newest store is empty when its index is); `ObjectsFit` ties size,
  next offset and index of each object to its files; `ObjectFiles` says which objects still have
  files; `RollOK`, `LoopOK`, `CloseOK` and `SetupOK` say where a roll, a truncation, a shutdown and
  a recovery are. `HeapOrdered` (objects lie one after the other as they were opened) and
  `ListOK` (the list has the open ones in that order, the last one active) give both theorems.
* **`CommitLogReadsNeverLie`, `CommitLogAckedReadable`** (`CommitLogProofs`), under `Sequential` as well. The
  first one needs `OneKindOfEnd`: the process may crash, or be closed in an orderly way, any number of times, but
  not both, since a crash inside `Close` makes it false. It covers the crash between the two closes in
  `segment.Remove`: the segment that goes is not the last (`Sequential` spares the newest offset), and what its index says
  of records that are lost no append ever fills. The second one that it does not crash at all.
  A padded entry points to the first record of its store, so `HonestInv` is about stores and
  indexes in pairs, of which a crash may cut the first and pad the second (`Honest`): a body in a store was
  acknowledged, the first one is that of the base offset, an entry that is not zero has only its own
  offsets before it, and an entry whose offset is right points to no other record's body. The
  objects are as honest with their buffers, and exact where no crash padded the index (`Exact`, `Trusted`)
  and no crash inside a removal can have cut it: an index before the newest one is only counted against its
  segment (`Counted`), the newest is whole (`Whole`).
  `EntryOfOffset` shows that a read takes an entry with the right offset, also from a
  full index that cannot be told from a padded one. `CoverInv` adds where each acknowledged record above the
  highest truncation is (`Covered`: the frame in a store or a buffer, the entry in the index), and that the
  truncation under way is not above that mark (`FloorOK`).
* **`CommitLogImplements`, `CommitLogContiguous`** (`LogRefinementProofs`), under `Sequential` and
  `MaxCrashes = 0` (`log_sequential` is more general, with `TrailingLogs = 0`): `Spec => Implements`, and so the log's window
  has no hole (`[]Abstract!Contiguous`; a reader that walks up misses no record). An
  abstract record is what a read of its offset would return, also while a segment has only one of its files,
  or none open because the process is down. The inductive invariant `LogInv` is
  `Inv`, `OrderInv`, `HonestInv` and `WindowInv`, which adds: every offset of a segment has a record (`AllFramed`),
  a newest index file is the one that the next offset comes from (`HasNewest`), the loop of Truncate has passed
  over nothing that it should remove and spares the newest offsets (`LoopSpares`), a roll adds its half segment
  right after the active one (`RollNext`), and without crashes a store has its index except in the middle of a roll
  or a removal (`BothFiles`). Then `AppendWrite` is the abstract Append, removing the index file of a segment the abstract Drop,
  and every other step a stutter; the opening and closing of objects are, because `newSegment` makes of the files
  what the object was. TLC checked `WindowInv` at such bounds before it was proved.
  `TrailingLogs # 0` in `Sequential` is what raft's own log is given, and what `log_crash` has.

* **`AgentTypeOK`, `AgentHandlersHaveLog`, `AgentMembershipSet`, `AgentNilMeansClosed`**
  (`AgentProofs`), for any number of callers, calls and failures, from
  `AgentAssumption` (the callers are distinct). The inductive invariant adds to
  `TypeOK`: the order in which New opens the parts (`SetupOrder`: an open server has
  an open log; nobody is in Shutdown before New is done), what the caller inside has
  closed so far (`ShutdownOrder`), and that with the flag set and the lock free all is
  closed unless something failed (`Finished`). `HandlersHaveLog` needs all three: a call
  can begin only at an open server, and when the log is closed the server was
  closed and drained before, by the same caller, since it is alone.

* **`SnapshotTypeOK`, `SnapshotIsFaithful`, `SnapshotIsBounded`, `SnapshotEntriesKept`,
  `SnapshotServesAllApplied`** (`SnapshotProofs`), for any sizes of stores, buffers and bounds. The stores
  are one run of units without a gap (`Contiguous`), the sink is a run that ends where
  the copy is (`CopyOK`), and every step lets stores only grow (`Grows`), so that what
  was copied, and the list that was made before, stay right. `KeptOK`: what compaction
  may take is in a snapshot before it begins. `RecordsOK` counts the commands
  up to each index that is remembered against the records.
* **`ServerTypeOK`, `ServerStreamGapless`, `ServerAcksTrue`** (`ServerProofs`), for
  any nodes, streams, policies and changes of leader. `ProducerOK`: at most one answer is
  on its way in a stream, and its place holds the record that was sent last.
  `OffsetsDistinct`: answers, and places on their way, of two streams differ.
  `ConsumerOK`: an offset is sent only when the node has it. `LogGrows`, a fact of every step,
  keeps all of it.
* **`ClientTypeOK`, `ClientConsumePicks`, `ClientFairTurns`** (`ClientProofs`), for any number of nodes
  and connections. `PickerOK`: the followers are as many as the ready sub-connections, of the
  connection built last, that were not told to lead, and each is one of them (`BuiltFor`; it needs
  that one call at most is in progress, `Asks`, and that what is ready is open,
  `ReadyOpen`); the leader is a ready one if there is any, and led once if not. The followers are different, and the
  last picks are those that the counter of now stands for
  (`TurnsOK`); `LapsDiffer`, on remainders, gives the rest. `IsFiniteSet(Nodes)` is assumed.
* **`MembershipTypeOK`, `MembershipLeaderIsServer`, `MembershipJoinTakesEffect`** (`MembershipProofs`), for
  any agents and addresses, the last one an action property. `CallsOK`: an agent that waits
  for a future is the leader, and no call is about the agent that makes it.
  `LeaderOK`: the leader runs and is a voter at its present address. `OwnJoins`: what an
  agent hears of its own join is its present address.
* **`ReplicationTypeOK`, `ReplicationAppliedInOrder`** (`ReplicationProofs`), for any nodes, terms, records
  and restarts.
  `CommitOK`: a commit index is in the log of a node that is up, although a conflict
  empties it, because that same step ends the process (`StoredIs`). `WaitingOK`: a call
  waits for the index of a command, and none on a follower. `OrderInv` adds that a node that is
  up has applied no more than is committed (`AppliedOK`): only a step that ends the
  process takes away an entry that was applied (`Untouched`, `Fresh`), and `FsmApply` puts at
  the end of the record log the command whose rank among the commands is the next.
* **`ReplicationLeaderComplete`, `ReplicationReplicasAgree`** (`ReplicationProofs`), for any nodes, records,
  terms and logs, from `MaxRestarts = 0`, the premise of the run `replication` (the runs of
  [findings](#findings) violate both beyond it). `IsFiniteSet(Nodes)` is assumed, for two quorums
  to meet. `RaftOK` is raft's own argument, over a log store whose `DeleteRange` empties it:
  a term that a node leads or an entry has was reached by a quorum (`TermsAgreed`),
  a term has one leader (`OneLeader`), which has all of it (`LeaderHasTerm`), logs with an
  entry of the same term are the same below (`LogMatching`), the quorum that stored a
  commitment has it unless the process panicked (`QuorumHolds`), and so has every log
  with a later term (`LaterHold`) and every later leader (`LeaderHolds`). Each step is one of
  three (`StepsAre`): every log becomes the beginning of one that was there (`Calm`; a panic
  makes it empty), a leader appends in its term (`Added`), or it commits. A candidate has what
  was committed because its quorum and the one of the commitment meet in a node that is
  up (`UpToDateHolds`). `AgreeInv` adds that an index is committed to one entry
  (`CommittedOnce`), without gaps, that what a node takes for committed is
  (`CommitIsCommitted`), and that the place of a record is the rank of its command among the
  committed ones (`RecordsRanked`), as is the place that an answer names (`AnswersKept`).

Only model-checked:

* liveness (`CallsReturn`, `EventuallyReplicated`, `Converges`, `ShutdownReturns`, `StreamDelivers`,
  `ProduceAnswered`, `LeaderFound`, `ConsumeFound`), which the prover cannot do;
* `SegmentsOrdered` and `ActiveNeverRemoved` for two goroutines (`log_race`), without a crash.

## What is left out

Abstractions inside what is modelled:

* `CommitLog`: the creation and extension of an index file is one step; a crash
  between the store's and the index's part of one append is left out (the store part
  is in memory at that point, unless bufio spilled); `MaxIndexBytes` is a multiple of an
  entry; the slice header of `l.segments` is read at once (the unlocked read is a data race,
  and a torn header is not modelled); reads through an object whose file was removed
  through another one are left out. Of the operations on files, creation (in a roll) and removal may
  fail; writes, flushes and syncs do not, and `setup` does not fail.
* `Replication`: a message and its answer are one step, so no message is lost by
  itself: a step that is not taken is one. All nodes vote from the start. No snapshot
  (raft takes one after 8192 entries; `Snapshot` has them). A client that gives up or
  tries again is another call. The panics of a node are apart from its orderly
  closes: a crash inside `Close`, after which a read may lie, is not in it (see [findings](#findings)).
* `Membership`: a change of configuration counts when the leader stores it and is kept or
  undone by the next leader; one member per event; serf's update events (an agent
  back before it was found failed) are ignored by the code and left out.
* `Agent`: a part is opened or closed in one step; `setupLogger` has no effect on others.
* `Snapshot`: an append is one step (`CommitLog` cuts it); a process is closed, never killed
  (crashes are in `CommitLog`).
* `Server`: what a node has is a prefix of the committed records, so the replay of a
  restart (`replication_replay`) is not in it; a deposed leader that does not know it yet loses the
  record it takes; the bounds on offsets stop producers, not consumers.
* `Client`: a call that is neither a produce nor a consume gets `ErrNoSubConnAvailable` while there are
  followers (`Picked`), and no such call is in a run; all nodes are servers for ever; the one server that is asked is up, and a call to
  it may fail; a sub-connection is ready or not.

Hazards with no property are in `PROJECT.json` with the reason. The largest: two
appenders on one log (only the server's tests do it; `ReadsNeverLie` fails at once), the start of a
restarted bootstrap node (`WaitForLeader` is not modelled), and those that the code does
nothing about: an event that falls into an election (`membership.go:91`), a leader that hears nobody
(`membership.go:83`), a client that keeps its stream open (`agent.go:234`), a failed Shutdown
(`agent.go:228`), lists of servers that are wrong or never come (`distributed.go:254`,
`resolver.go:46`).

Not modelled at all: the stream layer, TLS and configuration (no state); casbin's
matching of policies (a library call; its verdict is in `Server`); the HTTP server (one
mutex over each call from its first line to its last); generated code and deployment.

## Plan

The order in which the modules were written: `Segment`, `CommitLog`, `AbstractLog`, `LogRefinement`,
`Replication`, `Membership`, `Agent`; then `Snapshot`, `Server`, `Client`; then the
proofs of each.

What would add most from here:

1. A start of the agent over raft: `WaitForLeader` before `serve`, with peers that lead.
2. A fault model for `fsm.Apply` whose append fails on one node only.
3. The theorems on the order of segments for two goroutines without a crash (`log_race`): an invariant
   that says which segments lie between the list that a truncation read and the one that a roll publishes.

## How to run it

```
tlc -config log_race.cfg CommitLog.tla
tlapm CommitLogProofs.tla
```

Each `.cfg` is named after its run; `PROJECT.json` names its module. The largest
runs take one to three minutes.
