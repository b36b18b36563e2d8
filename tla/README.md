# AiFS in TLA+

A model of AiFS, a small distributed inference system in Go: a Raft cluster with a
key/value service on it, a controller that keeps a list of GPU workers in that service,
a gateway that takes users' requests to workers, and the workers' task pools. The
modules are translated from the code; TLC checks them on small instances, and TLAPS
proves some of their properties for every instance.

## The system

| part | code | state | operations | talks to |
|---|---|---|---|---|
| raft | `raft/raft.go`, `persister.go` | term, vote, role, log with a dummy first entry, snapshot position, commit and apply positions, nextIndex and matchIndex, the persister | RequestVote, AppendEntries, InstallSnapshot and the handling of their replies, ticker, heartbeat and replication loops, Start, Snapshot, the apply loop, Make | other peers over labrpc, the service over applyCh |
| kvraft server | `kvraft/server.go` | kvStore, recordMap (last request and reply of each client), notification channels by log index, commitIndex | Get, PutAppend, Delete, waitApplied, applier, StartKVServer | its Raft peer |
| Clerk | `kvraft/client.go` | request number, supposed leader | Get, PutAppend with a retry loop | servers over labrpc |
| HTTP API and kvclient | `kvraft/http.go`, `controlplane/kvclient/client.go` | a number counter and a position in the list of servers per Client; a counter per server for requests without an id | ServeHTTP; Put, Get, Delete with one round of retries | the server's RPC handlers, in process |
| controller | `controlplane/controller/controller.go` | seen and lastseen in memory; one record per worker and the index in the key/value service | RegisterWorker, Heartbeat, heartbeat checker, ListWorkers, PickBestWorker | kvclient, workers, gateway |
| worker process | `cmd/worker/main.go` | - | register, heartbeat loop | controller |
| worker pool | `worker/pool.go`, `server.go`, `backend.go` | bounded queue, one task per GPU goroutine, a Done channel per task | handleChat, Submit, gpuLoop, Generate | gateway, the inference engine |
| gateway | `gateway/gateway.go` | connJobs, dispatchJobs, a result channel per request | HandleChat, connWorker, dispatchWorker | controller, workers |
| labrpc, labgob | `labrpc`, `labgob` | the simulated network and its encoding | Call, processReq | everyone in the cluster |
| porcupine | `porcupine`, `models/kv.go` | a linked list of calls and returns, a stack, a bit set and a cache for each partition; the coordinator's counters | checkSingle for each partition, checkParallel | the tests of kvraft |

What makes it hard: every lock is released between a check and the act that relies on it
(Raft's senders, waitApplied, PickBestWorker); messages are lost, late and out of order;
servers restart from what they saved; notifications, votes and results may come when
nobody waits for them any more; queues fill up; a caller's timeout does not stop the
work it asked for. `hazards` in `PROJECT.json` lists these with the lines where they bite
and the properties that are about them.

## Modules

| module | models | notes |
|---|---|---|
| `Raft` | `raft.go`, persister, what labrpc does to a call | |
| `MCRaft` | instances of `Raft` | which peer may campaign for which term is a constant |
| `RaftProofs` | types, persistence and votes of `Raft` | TLAPS |
| `RaftLogProofs` | logs and snapshots of `Raft` | TLAPS |
| `RaftElectionProofs` | election safety, and log matching, which needs it | TLAPS |
| `KVServer` | the servers of `kvraft` | Raft by its contract |
| `LinearKV` | what the key/value service promises | abstract specification |
| `KVClerk`, `MCKVClerk` | `KVServer` with Clerks | |
| `KVRefinement` | how `KVClerk` implements `LinearKV` | refinement mapping |
| `KVProofs` | types and notification channels of `KVClerk` | TLAPS |
| `KVLinear`, `KVLinearProofs` | exactly-once and the refinement | TLAPS |
| `KVHttp`, `MCKVHttp` | `KVServer` with HTTP and kvclient | |
| `Controller`, `MCController` | the controller and the life of worker processes | kvclient by its contract |
| `ControllerProofs` | the choice of a worker | TLAPS |
| `WorkerPool` | queue, Submit and GPU goroutines of workers | |
| `Gateway`, `MCGateway` | the gateway, composed with `WorkerPool` | controller's answer: any worker or an error |
| `GatewayProofs` | replies and places of requests | TLAPS |
| `Porcupine`, `MCPorcupine` | the linearizability checker of the tests, with `KvModel` | against the definition of linearizability |

### Raft

One step is one critical section of `rf.mu`. `makeAppendEntry`, `startElection` and
`sendInstallSnapshotToPeers` are started by a goroutine that has checked `rf.state` and let
the lock go; such a goroutine sits in `spawned` (action `Delay`) until it `Runs`, at most
`MaxDelayed` at once. Check and act in one step is the case without delay. `rpcs` holds
requests and replies; each may be lost at any time. A repeated heartbeat is an equal
request, so running an AppendEntries or InstallSnapshot request may leave a copy of it.
`persist` saves what the step leaves in the five persistent fields; `Make` is a crash
and a restart from the persister. `sendApplyMsg` and the goroutine of InstallSnapshot are
two producers of the apply channel (`applyMsg`, `snapMsgs`), and `service` is the index the
reader has reached. `elected` is history. Terms only come from `Campaigns`, a constant.

### Key/value service

One step is one critical section of `kv.mu`. A call goes through `sent`, `started` (Start has
returned an index), `waiting` (the channel is registered), `closing` and `done`; the applier
may apply the index between any two. A value is the sequence of operations that wrote it,
so a repeated or lost write shows. Raft is its contract: `Elect` gives a later term to a
server whose log has all committed entries, `Commit` adds to `chosen`, and entries arrive in
order. A snapshot that Raft delivers is one of a server that is further, or after a restart the server's own;
either may come when the applier is past it, and is then ignored (`Restore`). Where Raft itself falls short of that contract is listed under "Deviations"; the
service is checked on the contract, so those do not show again here.

`LinearKV` is the sequential object of `models/kv.go` with calls and returns. The mapping in
`KVRefinement` takes the store and the results from `effect`, a history variable that executes
each operation where it first appears among the committed entries. An operation takes
effect when Raft commits it.

### Controller

One step is one critical section of `c.mu`, with the call of kvclient made in it; a failed
Put was done or was not, at that moment. The age of a heartbeat is recent or old (over 6 s).
A request for the best worker is `loadIndex`, a `GetWorker` for each id in any order, and
`PickBestWorker`; one such request is open at a time, others differ only in what loadIndex
leaves in `seen`. `Answers` are the workers it may choose. A process that dies may leave its last heartbeat behind, waiting
for `c.mu` (`LateHeartbeat`). `steady` is history: which usable workers stayed so during that request.

### Gateway and workers

One step is an operation on a channel, with the computation up to the next. A 5 s timeout on
a full channel fires only while the channel is full, because a waiting sender gets the place
that becomes free. The 30 s timeout of the gateway's client may fire at any time and ends the
context of the worker's handler (`gone`); the POST may arrive later than that. A crash takes
a worker's queue and its open requests with it.

### Porcupine

One step is one iteration of the loop of `checkSingle`, a receive of the coordinator or its timeout. The
pointers of the list are the functions `next` and `prev`, with 0 for `headEntry`, so `lift` and `unlift` are the
assignments of the code in their order. A bit set is a set, the cache the set of its entries; the
hash is left out, as it only finds them faster. A value is the sequence of strings appended to
it. `sort.Sort` is not stable, so the model takes every sorted order. The initial
states are the calls of the package: `verbose` or not, with a timeout or without, for operations or for
events. `Linearizable` is the definition, over the whole store and by permutations, and shares only
`Step` with the search.

## Runs

| run | instance | shows |
|---|---|---|
| `raft_elections` | 3 peers, terms 1 and 2 for anyone, 2 RPCs in flight, 1 crash, 1 delayed goroutine, no entries | ElectionInv, VoteIsFinal |
| `raft_reordering` | leaders p1 then p2, 2 entries, 2 RPCs in flight | CommittedOnMajority, CommittedAgree, AcknowledgedStays |
| `raft_snapshots` | leaders p1 then p2, 2 entries, 1 RPC, snapshots, 1 crash, one apply loop | TypeOK, SnapshotConsistent, CommittedOnMajority, LeaderCompleteness, PersistedIsCurrent, NextIndexInRange, AcknowledgedStays |
| `raft_convergence` | leaders p1, p2, p1 again, 2 entries, 1 RPC in flight, p3 cut off from p2, fair | LogMatching, NextIndexInRange, LogsConverge |
| `raft_delayed_sender` | as raft_reordering with one entry and one delayed goroutine | CommittedAgree is violated |
| `kv_clerks` | 2 servers, 2 terms, 2 entries, a writing and a reading Clerk | Linearizable, ExactlyOnce |
| `kv_snapshots` | one Clerk with two writes, snapshots, a restart | ExactlyOnce, ApplierNeverStuck |
| `kv_returns` | one Clerk, a handler that outlives its call, fair | OperationsReturn, ExactlyOnce |
| `kv_http_shared` | two goroutines on one kvclient Client | AnsweredIsCommitted is violated |
| `controller` | 2 worker ids, 2 process starts, a restart, a failing call, idle and busy workers, fair | BestOfSteady, LiveWorkersStored, ExpiredLeave |
| `serving` | 3 requests, all queues of one place, one goroutine per layer, one GPU, one crash, fair | InOnePlace, ReplyIsComputed, EveryRequestAnswered, GpusBecomeFree |
| `linearizability` | histories of up to 4 operations on 2 keys, and of events; fair | VerdictIsRight, ListIsRest, PartialsAreLongest, VerdictComes |

Each property is explained where it is defined. For each, `mutants` in `PROJECT.json` names a
changed definition (they stand before the definition they change and are marked "Mutant")
with which TLC finds the property violated.

### Bounds

Three peers are the fewest with a majority that leaves someone out. Two terms and one
entry already give an entry that is committed by one leader while another is elected; two
entries give a log that is longer than the leader's, and an older, shorter request that
arrives after a newer one. A third election gives logs that conflict in the term of the
entry before the new ones, which two elections cannot, so `raft_convergence` has one.
Two calls in flight are enough for a late request or reply to meet a newer one. In `raft_convergence` the constraint `P3CutOff` lets what p2 appends reach p1 only; no
fairness asks p2 to send, so every behaviour left is fair, and p1 still returns between two logs that conflict with its own. `MaxLog` of the key/value runs keeps one entry
for each term to come, so that a command started under one leader can be lost under the
next. Two servers are enough there since leaders come from the contract. In `serving`, one
place per queue makes every queue overflow; with two dispatch goroutines instead of one
(272 000 states) the properties hold as well. The histories of
`linearizability` are all ways in which three or four operations can overlap, and ties on a clock of two
ticks; three operations on a key are the fewest for which a branch is cut off by the cache. In `controller` a worker is idle at 10 or 30 per cent, or busy; one that says it is offline
is never chosen, which `PickIsBest` covers. Runs with `CHECK_DEADLOCK FALSE` end when all
operations are done or a bound is reached; `controller` never ends.

`raft_elections` uses the symmetry of peers, which is sound: nothing in the instance tells them
apart, and it checks no liveness.

### Fairness

- `Raft!Fairness(l)`: a call in the network ends, because `Call` always returns. Heartbeats go out
  every 80 ms to each peer, and labrpc loses each call with a fixed probability, so requests
  and replies repeated for ever get through again and again (strong fairness). Nothing is
  assumed about elections: the properties speak of a leader that stays in office.
- `KVClerk!Fairness`: Raft makes progress, handlers and appliers run, and a server that is called
  again and again is reached and heard, for the same reason. A loss on every attempt is
  excluded, any other is not.
- `Controller!Fairness`: the checker's ticker, the heartbeat loops of running workers and the
  handlers of registrations and of late heartbeats run, and a stopped worker's heartbeat grows old. Failures are bounded by `MaxFailures`.
- `Gateway!Fairness`: goroutines run, and the calls they make end through the timeouts of their
  HTTP clients. The arrival of a POST at a worker is not fair: it may be lost.
- `Porcupine!Fairness`: each goroutine is scheduled, and the timer of a check with a timeout fires.

## Proofs

A theorem holds for every value of the constants that satisfies the assumptions of the
component's module; TLC evaluates these assumptions in the runs. They give the bounds their
types, make the set of peers finite, and say that `Nil` is none of the records and names it stands
next to. Nothing bounds the number of servers, requests, terms, losses or restarts.

| theorem | states | beyond the assumptions |
|---|---|---|
| `TypeCorrect`, `PersistedCorrect`, `VoteFinal` (`RaftProofs`) | `TypeOK`, `PersistedIsCurrent`, `VoteIsFinal` | |
| `ElectionInvariant`, `ElectionSafe` (`RaftElectionProofs`) | `ElectionInv`, `ElectionSafety` | |
| `LogsMatch` (`RaftElectionProofs`) | `LogMatching` | |
| `SnapshotsConsistent` (`RaftLogProofs`) | `SnapshotConsistent` | |
| `NeverStuck` (`KVProofs`) | `ApplierNeverStuck` | |
| `AppliedExactlyOnce`, `ServiceIsLinearizable` (`KVLinearProofs`) | `ExactlyOnce`, `Linearizable` | `Separate` |
| `PickIsBest` (`ControllerProofs`) | `BestOfSteady` | |
| `RepliesAreComputed`, `AlwaysInOnePlace` (`GatewayProofs`) | `ReplyIsComputed`, `InOnePlace` | |

`Separate` excludes the two deviations that break the service: every goroutine has a client id of
its own, and no request is handled after its Clerk has given it up. Raft's theorems include
delayed senders, so the deviation of `raft_delayed_sender` is not excluded from them.

### Raft

- `TypeCorrect`. The type invariant is inductive by itself. What makes
  it more than types is that a log is never empty: `getPhysicalIndex(lastLogicalIndex())` is always
  an entry. One lemma per action; `AppendEntries`, the handling of its reply and `InstallSnapshot` are split by the
  branches of the code.
- `PersistedCorrect`. Each step changes the persistent
  fields of at most one peer and persists them, or changes none (`SavedStep`); a restart
  reads back what was there.
- `VoteFinal`. By `StepKinds`, every step is one of five kinds as far as terms and
  votes go: it touches none of them, starts an election, follows a term, votes, or
  counts a vote. A restart is a step that follows the current term, because of `PersistedIsCurrent`.
- `ElectionInvariant`, `ElectionSafe`. `ElectionSafety`, one leader per term, is not inductive: votes in flight and votes counted decide who
  is elected next. The invariant `ElectionIInv` adds that every vote in flight or counted is a pledge
  (the voter is at that term with that vote, or beyond it, and nobody else has its vote),
  and that whoever was elected has the pledges of a majority. Pledges are for good (`PledgeKept`), and two
  majorities meet (`MajoritiesMeet`). `raft_elections` checks the same invariant as `ElectionInv`.
- `LogsMatch`. `LogMatching` is not inductive: entries in requests end up in logs. The proof
  treats a log and the entries of a request (or the position of a snapshot in one) alike, as
  *fragments*: a first index and entries from there, of which the first may be a dummy with a
  term and no command. `FragmentsAgree` says that any two fragments with an entry of one term at one index agree up to it as
  far back as both reach. Every step cuts pieces out of fragments (`CutStep`: sending, snapshots, losses), joins two at
  an index where they have one term (`JoinStep`: AppendEntries and InstallSnapshot), or lets a leader add
  an entry of its term (`GrowStep`: Start). Cutting and joining keep agreement for any fragments, which is why it
  does not matter who sends them. Growing keeps it because nobody has an entry of the leader's term
  beyond the leader's log (`TermsOwned`), and that rests on `ElectionSafe` (`LeadersElected`). The three together are `LogInv`.
- `SnapshotsConsistent`. `SnapshotInv` adds that neither the service nor what waits in the apply channel is ahead of
  lastApplied, since Snapshot cuts at the service's index, and that an InstallSnapshot
  request carries the snapshot of the index it names. `SnapshotKinds` sorts the steps by what they do to
  snapshots and the apply channel.

### Key/value service

- `NeverStuck`. `IInv` adds types and `Channels`: a channel in the map belongs to a handler that
  waits or closes at that index. So the applier finds it empty when it applies the index.
- `AppliedExactlyOnce`. `LInv` relates four views of the committed commands: each Clerk's numbers appear in
  order (`Ordered`); `effect` is the execution of the first copy of each, with none left out (`Effects`); the database of
  each server, in memory and in its snapshots, matches that execution up to what it has applied (`Databases`); results that are in
  a reply, a channel or a notification are the ones computed there (`Clerks`, `Notices`). `ApplyMatches` is the heart:
  recordMap recognises exactly the commands that were executed before. `Positions` orders kv.commitIndex, what was applied
  and the saved snapshot, so that a snapshot is restored only over an older state. `RaftOK` states what the contract of Raft gives: a
  server that leads the latest term has everything committed.
- `ServiceIsLinearizable`. Each step maps to a step of `LinearKV` or a stutter: `Commit` of a first copy to the effect, the
  Clerk's calls and returns to calls and returns, anything else to nothing.

### Controller and gateway

- `PickIsBest`. `SteadyFound`: a worker usable since loadIndex is still to be read, could not be read, or has been
  read as it is now. The comparison by status and utilisation is shown to have a best element of any set
  of candidates.
- `RepliesAreComputed`. A reply is in `done`, `submit`, `resultCh` or `chat` of a request only after a GPU has computed
  that request's.
- `AlwaysInOnePlace`. `InOnePlace` counts places; `Divided` says it with sets: the requests waiting are the disjoint union
  of those in the two queues, with the two kinds of goroutines and in result channels, and none of these has a request twice.
  Every operation on a channel moves a request from one to another.

### Model-checked only

- Liveness (`LogsConverge`, `OperationsReturn`, `ExpiredLeave`, `LiveWorkersStored`, `EveryRequestAnswered`, `GpusBecomeFree`, `VerdictComes`): the prover has neither fairness nor
  ENABLED.
- `CommittedAgree`, `CommittedOnMajority`, `AcknowledgedStays`, `LeaderCompleteness` and `NextIndexInRange` are not true for every value of the constants: a delayed
  sender and a matchIndex that is never reset break them (see "Deviations"). A proof would have to assume
  `MaxDelayed = 0` and at most one candidacy of each peer.
- `ExactlyOnce` without `Separate` is false.
- `VerdictIsRight`, `ListIsRest` and `PartialsAreLongest` of porcupine: `Linearizable` there quantifies over permutations of a history and folds `Step` over them, and the search works
  on a linked list with a cache, so a proof would be induction over data throughout. That is possible only in small doses: the library's induction theorems cannot be used
  here, as they take an operator as parameter, but a least counterexample does the same. `KVLinear` uses it
  (`Least`) for `Replayed`, the execution of a sequence of commands.

`LogInv` and `SnapshotInv` were also checked by TLC, on the instance of `raft_convergence` and on one with two leaders and a delayed sender.

## Deviations

Where the code does not do what it, its comments or its tests say. Two have a run:

- **A delayed sender** (`raft_delayed_sender`, `raft.go:741`). `makeAppendEntry` runs after the leader check of its caller has
  released `rf.mu` and does not check again. A deposed leader that has learned the next term sends its
  old log with that term, followers of the real leader accept it, and servers commit
  different entries at one index. `ElectionSafe` and `LogsMatch` are not touched by it.
- **A shared Client** (`kv_http_shared`, `client.go:56`). Goroutines of a process share one client id and one counter.
  When the higher number is applied first, the lower one counts as seen: it is
  answered OK and never stored.

The others appear with other constants of the same modules:

- **matchIndex is never reset** (`raft.go:698`). With `Campaigns <- FiveTurns`, `MaxLog = 2` and the constraint `BeforeCommit`,
  a leader that returns counts old acknowledgements and commits an entry that only it has (`CommittedOnMajority`).
- **A command overtakes a snapshot** (`raft.go:436`). On the instance of `raft_snapshots` with a second apply loop (`Appliers = {p1, p2}`), `AppliedInOrder` fails: InstallSnapshot moves
  lastApplied before its goroutine has delivered the snapshot. `config.go` checks for it ("apply out of order").
- **A late request** (`server.go:290`). The applier writes recordMap for a duplicate too, with the older
  number. With `LateRequests = TRUE`, two operations, `MaxLingering = 1` and the constraint `FirstIsLate`, a retry of the second operation is executed
  twice (`ExactlyOnce`). `test_test.go:150` calls that "duplicate element %v in Append result".
- **Requests without an id** (`http.go:96`). With `ClientOf <- NoIds` and the script `PutThenGet`, the counter of a new leader is behind the
  replicated record, and a read is answered with the reply of an earlier write (`AnsweredIsCommitted`).
- **Workers known from the index only** (`controller.go:221`). After a restart, loadIndex fills `seen` without a time, so a worker that is gone
  never expires. `ExpiredLeave` therefore speaks of workers with a time.
- **Heartbeats store nothing** (`controller.go:90`). The comment says a heartbeat "updates an existing worker record (status, GPUs, etc.)"; the info is dropped.
- **An empty history** (`checker.go:302`). `KvModel` makes no partition of it, the count is only compared after a
  result, and without a timeout `checkParallel` waits for ever. `VerdictComes` leaves that case out.
- **Events of several keys** (`checker.go:260`). `KvModel` has no `PartitionEvent`, so `CheckEvents` puts all keys into one
  partition, although `models/kv.go:38` says "we are modeling a single key's value here; we're partitioning by key, so this is okay".
  `EventHistories` are therefore histories of one key. The tests call only the functions for operations.

## Not modelled

Wall-clock time (a timeout may come at any moment, within the conditions above), sizes and
encodings of data, malformed requests (refused before they change anything), the hint
`leaderId`, labrpc's endpoints and counters, labgob, porcupine's HTML page, process start-up and flags, the HTTP protocol of vLLM, logging. The effect of a
failed kvclient call at a later moment is in `KVHttp`, not in `Controller`. A restart of the gateway loses all its
requests and has no other effect.

## Plan

Done: models and runs for Raft, the key/value service with both kinds of clients, the controller, the gateway with
the worker pools, and porcupine; the theorems above. Open, in this order:

1. `CommittedOnMajority`, `LeaderCompleteness` and `CommittedAgree` of Raft, assuming that no sender is delayed and that no peer
   campaigns twice. `LogInv` is half of it; the other half is that what a majority has acknowledged in the
   leader's term stays on a majority.
2. Composition of `Controller` with `Gateway`, so that the worker a request goes to is the one the
   controller picked, possibly dead or not listening yet.
3. A run of `KVHttp` with a Client per goroutine, next to the one that shares it.
