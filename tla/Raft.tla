-------------------------------- MODULE Raft --------------------------------
(***************************************************************************)
(* The consensus layer of the key/value cluster, src/raft/raft.go, with    *)
(* the persister it saves to and the labrpc network it talks over.         *)
(*                                                                         *)
(* Every critical section of rf.mu is one atomic step.  A goroutine that   *)
(* checks rf.state, releases rf.mu and acts on the answer in a later       *)
(* critical section is two steps: between them it sits in `spawned'.       *)
(* Not modelled: wall-clock time (a timeout may fire at any moment),       *)
(* currLeader (written, never read) and the bytes of commands.             *)
(***************************************************************************)
EXTENDS Integers, Sequences, FiniteSets

CONSTANTS
    Peers,          \* the servers, rf.peers
    Commands,       \* what the service may pass to Start
    Nil,            \* votedFor = -1, and the Command of the dummy entry
    Snapshots       \* FALSE when maxraftstate is -1: the service never snapshots

\* Bounds.  They restrict how far a behaviour goes, not what a step does.
CONSTANTS
    Campaigns,      \* the <<term, peer>> pairs for which an election may start
    MaxLog,         \* highest logical index Start may fill
    MaxInFlight,    \* RPCs (requests and replies) in the network at once
    MaxRestarts,    \* crashes, over all servers
    MaxDelayed,     \* goroutines held between a state check and the act, at once
    Appliers        \* the peers whose sendApplyMsg loop is scheduled

ASSUME PeersAssumption  == IsFiniteSet(Peers) /\ Nil \notin Peers
ASSUME BoundsAssumption == /\ MaxLog \in Nat /\ MaxInFlight \in Nat
                           /\ MaxRestarts \in Nat /\ MaxDelayed \in Nat
                           /\ Snapshots \in BOOLEAN

VARIABLES
    currTerm, votedFor, state,                  \* on every server
    logs, lastIncludedIndex, lastIncludedTerm,  \* logs[i][1] is the dummy entry
    commitIndex,
    nextIndex, matchIndex,                      \* kept by leaders, never cleared
    votes,                                      \* who granted a vote in the running election
    raftstate, snapshot,                        \* the persister
    rpcs,                                       \* requests and replies in flight
    spawned,                                    \* goroutines between check and act
    lastApplied, applyMsg, snapMsgs, service,   \* the two producers of applyCh, and its reader
    restarts,
    elected                                     \* history: who became leader of which term

serverVars == <<currTerm, votedFor, state, votes>>
logVars    == <<logs, lastIncludedIndex, lastIncludedTerm>>
leaderVars == <<nextIndex, matchIndex>>
persister  == <<raftstate, snapshot>>
applyVars  == <<lastApplied, applyMsg, snapMsgs, service>>
vars == <<serverVars, logVars, commitIndex, leaderVars, persister, rpcs,
          spawned, applyVars, restarts, elected>>

Leader    == 0
Candidate == 1
Follower  == 2

max(a, b) == IF a > b THEN a ELSE b
min(a, b) == IF a < b THEN a ELSE b

-----------------------------------------------------------------------------
(* The log.  A logical index k is at physical index k - lastIncludedIndex  *)
(* of rf.logs, which is one position further in a TLA+ sequence.           *)

Dummy(t) == [term |-> t, command |-> Nil]

lastLogicalIndex(i) == lastIncludedIndex[i] + Len(logs[i]) - 1

Pos(i, k) == k - lastIncludedIndex[i] + 1

TermAt(i, k) == logs[i][Pos(i, k)].term

lastTerm(i) == logs[i][Len(logs[i])].term

\* The log of i from logical index k to its end.
Suffix(i, k) == SubSeq(logs[i], Pos(i, k), Len(logs[i]))

-----------------------------------------------------------------------------
(* Persistence.  persist encodes the five persistent fields; Snapshot and  *)
(* InstallSnapshot save the same record together with the snapshot.        *)

\* Mutant: nothing is saved.
NoPersist(i) == UNCHANGED raftstate

persist(i) ==
    raftstate' = [raftstate EXCEPT ![i] =
        [currTerm |-> currTerm'[i], votedFor |-> votedFor'[i], logs |-> logs'[i],
         lastIncludedIndex |-> lastIncludedIndex'[i],
         lastIncludedTerm  |-> lastIncludedTerm'[i]]]

-----------------------------------------------------------------------------
(* The network.  labrpc loses, delays and reorders requests and replies;   *)
(* it runs a request at most once.  Heartbeats repeat a request, though,   *)
(* so one AppendEntries or InstallSnapshot request in `rpcs' stands for    *)
(* one or more equal calls: running it may leave a copy behind.            *)

Room(n) == Cardinality(rpcs) + n <= MaxInFlight

\* `live' is FALSE once the caller has crashed: nobody reads the reply.
Respond(m, reply) ==
    LET replies == IF m.live THEN {reply} ELSE {}
    IN  \/ rpcs' = (rpcs \ {m}) \cup replies
        \/ m.type # "RequestVote" /\ Room(1) /\ rpcs' = rpcs \cup replies

\* A request or a reply is lost, or its server is gone.
LoseRPC(m) ==
    /\ rpcs' = rpcs \ {m}
    /\ UNCHANGED <<serverVars, logVars, commitIndex, leaderVars, persister,
                   spawned, applyVars, restarts, elected>>

-----------------------------------------------------------------------------
(* Goroutines that act on a check made before rf.mu was released.  ticker  *)
(* checks state # Leader and then runs startElection; broadcastHeartbeat   *)
(* and replicationLog check state = Leader and then makeAppendEntry runs.  *)
(* Neither looks at rf.state again.                                        *)

Check(f, i) ==
    \/ f = "startElection"   /\ state[i] # Leader
    \/ f = "makeAppendEntry" /\ state[i] = Leader

\* The goroutine acts right after its check, or was delayed since.
\* `next' are the goroutines it starts in turn.
Runs(f, i, j, next) ==
    \/ Check(f, i) /\ spawned' = spawned \cup next
    \/ <<f, i, j>> \in spawned /\ spawned' = (spawned \ {<<f, i, j>>}) \cup next

Delay(f, i, j) ==
    /\ Check(f, i)
    /\ (f = "startElection") <=> (i = j)
    /\ Cardinality(spawned) < MaxDelayed
    /\ spawned' = spawned \cup {<<f, i, j>>}
    /\ UNCHANGED <<serverVars, logVars, commitIndex, leaderVars, persister,
                   rpcs, applyVars, restarts, elected>>

-----------------------------------------------------------------------------
(* Elections.                                                              *)

\* The vote counter lives in the goroutines of one election and is dead once
\* the server is no longer a candidate of that term.
Become(i, s) ==
    /\ state' = [state EXCEPT ![i] = s]
    /\ votes' = [votes EXCEPT ![i] = IF s = Candidate THEN {i} ELSE {}]

StepDown(i, t) ==
    /\ Become(i, Follower)
    /\ currTerm' = [currTerm EXCEPT ![i] = t]
    /\ votedFor' = [votedFor EXCEPT ![i] = Nil]

startElection(i) ==
    /\ Runs("startElection", i, i, {})
    /\ <<currTerm[i] + 1, i>> \in Campaigns
    /\ currTerm' = [currTerm EXCEPT ![i] = @ + 1]
    /\ votedFor' = [votedFor EXCEPT ![i] = i]
    /\ Become(i, Candidate)
    /\ UNCHANGED logVars
    /\ persist(i)
    /\ \E reached \in SUBSET (Peers \ {i}) :     \* the calls not lost at once
          /\ Room(Cardinality(reached))
          /\ rpcs' = rpcs \cup
                {[type |-> "RequestVote", from |-> i, to |-> j, live |-> TRUE,
                  term |-> currTerm[i] + 1,
                  lastLogIndex |-> lastLogicalIndex(i),
                  lastLogTerm  |-> lastTerm(i)] : j \in reached}
    /\ UNCHANGED <<commitIndex, leaderVars, snapshot, applyVars, restarts, elected>>

\* Mutant: the vote does not look at the candidate's log.
AnyLog(i, m) == TRUE

\* The candidate's log is at least as recent as the voter's.
UpToDate(i, m) ==
    \/ m.lastLogTerm > lastTerm(i)
    \/ m.lastLogTerm = lastTerm(i) /\ m.lastLogIndex >= lastLogicalIndex(i)

\* Mutant: a vote already given in the term is forgotten.
FreeToVote(i, m) == m.term >= currTerm[i]

\* No vote in this term yet, or the same one (a new term clears the vote).
MayVote(i, m) ==
    \/ m.term > currTerm[i]
    \/ m.term = currTerm[i] /\ votedFor[i] \in {Nil, m.from}

RequestVote(m) ==
    LET i == m.to
        granted == MayVote(i, m) /\ UpToDate(i, m)
    IN  /\ m.type = "RequestVote"
        /\ currTerm' = [currTerm EXCEPT ![i] = max(@, m.term)]
        /\ votedFor' = [votedFor EXCEPT ![i] =
              IF granted THEN m.from ELSE IF m.term > currTerm[i] THEN Nil ELSE @]
        /\ IF granted \/ m.term > currTerm[i]
             THEN Become(i, Follower) ELSE UNCHANGED <<state, votes>>
        /\ UNCHANGED logVars
        /\ IF granted \/ m.term > currTerm[i] THEN persist(i) ELSE UNCHANGED raftstate
        /\ Respond(m, [type |-> "RequestVoteReply", from |-> i, to |-> m.from,
                       startTerm |-> m.term, term |-> max(currTerm[i], m.term),
                       granted |-> granted])
        /\ UNCHANGED <<commitIndex, leaderVars, snapshot, spawned, applyVars,
                       restarts, elected>>

\* n > len(rf.peers)/2
Majority(S) == Cardinality(S) > Cardinality(Peers) \div 2

\* Mutant: nextIndex starts one too high.
becomeLeaderHigh(i) ==
    /\ Become(i, Leader)
    /\ nextIndex' = [nextIndex EXCEPT ![i] = [j \in Peers |-> lastLogicalIndex(i) + 2]]
    /\ elected' = elected \cup {<<currTerm[i], i>>}

\* Mutant: nextIndex counts the entries in the snapshot twice.
becomeLeaderTwice(i) ==
    /\ Become(i, Leader)
    /\ nextIndex' = [nextIndex EXCEPT ![i] =
          [j \in Peers |-> lastLogicalIndex(i) + lastIncludedIndex[i] + 1]]
    /\ elected' = elected \cup {<<currTerm[i], i>>}

\* becomeLeader: matchIndex keeps what an earlier leadership left in it.
becomeLeader(i) ==
    /\ Become(i, Leader)
    /\ nextIndex' = [nextIndex EXCEPT ![i] =
          [j \in Peers |-> IF j = i THEN @[j] ELSE lastLogicalIndex(i) + 1]]
    /\ elected' = elected \cup {<<currTerm[i], i>>}

RequestVoteReply(m) ==
    LET i == m.to
        counted == votes[i] \cup {m.from}
    IN  /\ m.type = "RequestVoteReply"
        /\ rpcs' = rpcs \ {m}
        /\ UNCHANGED logVars
        /\ \/ /\ state[i] # Candidate \/ currTerm[i] # m.startTerm
              /\ UNCHANGED <<serverVars, persister, nextIndex, elected>>
           \/ /\ state[i] = Candidate /\ currTerm[i] = m.startTerm
              /\ \/ /\ m.granted
                    /\ IF Majority(counted)
                         THEN becomeLeader(i)
                         ELSE /\ votes' = [votes EXCEPT ![i] = counted]
                              /\ UNCHANGED <<state, nextIndex, elected>>
                    /\ UNCHANGED <<currTerm, votedFor, persister>>
                 \/ /\ ~m.granted /\ m.term > currTerm[i]
                    /\ StepDown(i, m.term)
                    /\ persist(i)
                    /\ UNCHANGED <<snapshot, nextIndex, elected>>
                 \/ /\ ~m.granted /\ m.term <= currTerm[i]
                    /\ UNCHANGED <<serverVars, persister, nextIndex, elected>>
        /\ UNCHANGED <<commitIndex, matchIndex, spawned, applyVars, restarts>>

-----------------------------------------------------------------------------
(* Replication.                                                            *)

\* Start: the command goes to the end of the leader's log; the replicationLog
\* goroutine it starts is one more chance for makeAppendEntry to run.
Start(i, c) ==
    /\ state[i] = Leader
    /\ lastLogicalIndex(i) < MaxLog
    /\ logs' = [logs EXCEPT ![i] = Append(@, [term |-> currTerm[i], command |-> c])]
    /\ UNCHANGED <<serverVars, lastIncludedIndex, lastIncludedTerm>>
    /\ persist(i)
    /\ UNCHANGED <<commitIndex, leaderVars, snapshot, rpcs, spawned, applyVars,
                   restarts, elected>>

\* The goroutine of makeAppendEntry for one peer.  It uses the term, the log and
\* nextIndex of the moment it runs.  Past the end of the log the slice
\* expression of the code panics; the guard leaves that step out.
makeAppendEntry(i, j) ==
    /\ i # j
    /\ \/ /\ nextIndex[i][j] <= lastIncludedIndex[i]
          /\ Runs("makeAppendEntry", i, j, {<<"sendInstallSnapshotToPeers", i, j>>})
          /\ UNCHANGED rpcs
       \/ /\ nextIndex[i][j] \in lastIncludedIndex[i] + 1 .. lastLogicalIndex(i) + 1
          /\ Runs("makeAppendEntry", i, j, {})
          /\ Room(1)
          /\ rpcs' = rpcs \cup
                {[type |-> "AppendEntries", from |-> i, to |-> j, live |-> TRUE,
                  term         |-> currTerm[i],
                  prevLogIndex |-> nextIndex[i][j] - 1,
                  prevLogTerm  |-> TermAt(i, nextIndex[i][j] - 1),
                  entries      |-> Suffix(i, nextIndex[i][j]),
                  leaderCommit |-> commitIndex[i]]}
    /\ UNCHANGED <<serverVars, logVars, commitIndex, leaderVars, persister,
                   applyVars, restarts, elected>>

\* What the caller needs of the arguments when the reply arrives, and the reply.
\* A field the handler does not set is 0.
AEReply(m, success, term, conflictIndex, conflictTerm) ==
    [type |-> "AppendEntriesReply", from |-> m.to, to |-> m.from,
     argsTerm |-> m.term, matched |-> m.prevLogIndex + Len(m.entries),
     success |-> success, term |-> term,
     conflictIndex |-> conflictIndex, conflictTerm |-> conflictTerm]

\* A request of the current or of a newer term makes the receiver a follower.
Adopt(i, t) ==
    /\ Become(i, Follower)
    /\ currTerm' = [currTerm EXCEPT ![i] = t]
    /\ votedFor' = [votedFor EXCEPT ![i] = IF t > currTerm[i] THEN Nil ELSE @]

\* First index above the snapshot of the run of equal terms that ends at k;
\* 0 when k is the snapshot's own index.
ConflictIndex(i, k, c) ==
    LET run == {x \in lastIncludedIndex[i] + 1 .. k :
                   \A y \in x .. k : TermAt(i, y) = TermAt(i, k)}
    IN  IF run = {} THEN c = 0 ELSE c \in run /\ \A x \in run : c <= x

\* The log does not contain the entry before the new ones.
RejectEntries(i, m) ==
    /\ \/ /\ m.prevLogIndex > lastLogicalIndex(i)
          /\ Respond(m, AEReply(m, FALSE, 0, lastLogicalIndex(i) + 1, -1))
       \/ /\ m.prevLogIndex < lastIncludedIndex[i]
          /\ Respond(m, AEReply(m, FALSE, m.term, lastIncludedIndex[i] + 1, -1))
       \/ /\ m.prevLogIndex \in lastIncludedIndex[i] .. lastLogicalIndex(i)
          /\ TermAt(i, m.prevLogIndex) # m.prevLogTerm
          /\ \E c \in 0 .. m.prevLogIndex :
                /\ ConflictIndex(i, m.prevLogIndex, c)
                /\ Respond(m, AEReply(m, FALSE, 0, c, TermAt(i, m.prevLogIndex)))
    /\ UNCHANGED <<logVars, commitIndex>>
    /\ IF m.term > currTerm[i] THEN persist(i) ELSE UNCHANGED raftstate

\* Positions of the new entries the log lacks or holds with another term.
Differing(i, m) ==
    {k \in 1 .. Len(m.entries) :
        \/ m.prevLogIndex + k > lastLogicalIndex(i)
        \/ TermAt(i, m.prevLogIndex + k) # m.entries[k].term}

\* Mutant: the log ends with the new entries, whether or not they differ.
CutEntries(i, m) ==
    logs' = [logs EXCEPT ![i] = SubSeq(@, 1, Pos(i, m.prevLogIndex)) \o m.entries]

\* From the first difference on, the log becomes the new entries.
MergeEntries(i, m) ==
    \/ Differing(i, m) = {} /\ UNCHANGED logs
    \/ \E k \in Differing(i, m) :
          /\ \A x \in Differing(i, m) : k <= x
          /\ logs' = [logs EXCEPT ![i] =
                SubSeq(@, 1, Pos(i, m.prevLogIndex + k) - 1)
                   \o SubSeq(m.entries, k, Len(m.entries))]

\* Mutant: the entry before the new ones may be of any term.
PrevInRange(i, m) == m.prevLogIndex \in lastIncludedIndex[i] .. lastLogicalIndex(i)

\* The log contains the entry before the new ones.
PrevMatches(i, m) ==
    /\ m.prevLogIndex \in lastIncludedIndex[i] .. lastLogicalIndex(i)
    /\ TermAt(i, m.prevLogIndex) = m.prevLogTerm

AcceptEntries(i, m) ==
    /\ PrevMatches(i, m)
    /\ MergeEntries(i, m)
    /\ UNCHANGED <<lastIncludedIndex, lastIncludedTerm>>
    /\ persist(i)
    /\ commitIndex' = [commitIndex EXCEPT ![i] =
          IF m.leaderCommit > @
            THEN min(m.leaderCommit, lastIncludedIndex[i] + Len(logs'[i]) - 1) ELSE @]
    /\ Respond(m, AEReply(m, TRUE, 0, 0, 0))

AppendEntries(m) ==
    LET i == m.to
    IN  /\ m.type = "AppendEntries"
        /\ \/ /\ m.term < currTerm[i]
              /\ Respond(m, AEReply(m, FALSE, currTerm[i], 0, 0))
              /\ UNCHANGED <<serverVars, logVars, commitIndex, raftstate>>
           \/ /\ m.term >= currTerm[i]
              /\ Adopt(i, m.term)
              /\ RejectEntries(i, m) \/ AcceptEntries(i, m)
        /\ UNCHANGED <<leaderVars, snapshot, spawned, applyVars, restarts, elected>>

\* Mutant: a peer counts one index too early.
CommittableEarly(i, match) ==
    {N \in commitIndex[i] + 1 .. lastLogicalIndex(i) :
        /\ TermAt(i, N) = currTerm[i]
        /\ Majority({i} \cup {j \in Peers : match[j] >= N - 1})}

\* Indexes commitIndexUpdate accepts: entries of the current term that matchIndex
\* places on a majority.
Committable(i, match) ==
    {N \in commitIndex[i] + 1 .. lastLogicalIndex(i) :
        /\ TermAt(i, N) = currTerm[i]
        /\ Majority({i} \cup {j \in Peers : match[j] >= N})}

\* The highest of them becomes commitIndex.
commitIndexUpdate(i, match) ==
    \/ Committable(i, match) = {} /\ UNCHANGED commitIndex
    \/ \E N \in Committable(i, match) :
          /\ \A M \in Committable(i, match) : M <= N
          /\ commitIndex' = [commitIndex EXCEPT ![i] = N]

\* The peer now has all entries of the request.
EntriesMatched(i, m) ==
    LET j == m.from
        match == max(m.matched, matchIndex[i][j])
    IN  /\ matchIndex' = [matchIndex EXCEPT ![i][j] = match]
        /\ nextIndex' = [nextIndex EXCEPT ![i][j] = match + 1]
        /\ commitIndexUpdate(i, [matchIndex[i] EXCEPT ![j] = match])
        /\ UNCHANGED spawned

\* Mutant: nextIndex stays where it is.
NoBackOff(i, m) == UNCHANGED <<nextIndex, matchIndex, commitIndex, spawned>>

\* Back nextIndex up: to the end of the conflicting term in the own log, to the
\* follower's hint, or give up and send the snapshot.
EntriesRefused(i, m) ==
    LET j == m.from
        sameTerm == {p \in 1 .. Len(logs[i]) : logs[i][p].term = m.conflictTerm}
    IN  /\ \/ /\ m.conflictTerm # -1 /\ m.conflictIndex < lastIncludedIndex[i]
              /\ spawned' = spawned \cup {<<"sendInstallSnapshotToPeers", i, j>>}
              /\ UNCHANGED nextIndex
           \/ /\ m.conflictTerm # -1 /\ m.conflictIndex >= lastIncludedIndex[i]
              /\ \E p \in sameTerm :
                    /\ \A q \in sameTerm : q <= p
                    /\ nextIndex' = [nextIndex EXCEPT ![i][j] = p + lastIncludedIndex[i]]
              /\ UNCHANGED spawned
           \/ /\ m.conflictTerm = -1 \/ (/\ m.conflictIndex >= lastIncludedIndex[i]
                                         /\ sameTerm = {})
              /\ nextIndex' = [nextIndex EXCEPT ![i][j] = max(1, m.conflictIndex)]
              /\ UNCHANGED spawned
        /\ UNCHANGED <<matchIndex, commitIndex>>

AppendEntriesReply(m) ==
    LET i == m.to
    IN  /\ m.type = "AppendEntriesReply"
        /\ rpcs' = rpcs \ {m}
        /\ UNCHANGED logVars
        /\ \/ /\ currTerm[i] = m.argsTerm /\ m.term > currTerm[i]
              /\ StepDown(i, m.term)
              /\ persist(i)
              /\ UNCHANGED <<leaderVars, commitIndex, spawned>>
           \/ /\ currTerm[i] = m.argsTerm /\ m.term <= currTerm[i]
              /\ state[i] = Leader
              /\ IF m.success THEN EntriesMatched(i, m) ELSE EntriesRefused(i, m)
              /\ UNCHANGED <<serverVars, raftstate>>
           \/ /\ currTerm[i] # m.argsTerm \/ (m.term <= currTerm[i] /\ state[i] # Leader)
              /\ UNCHANGED <<serverVars, raftstate, leaderVars, commitIndex, spawned>>
        /\ UNCHANGED <<snapshot, applyVars, restarts, elected>>

-----------------------------------------------------------------------------
(* Snapshots.  The data of a snapshot is the index it was taken at.        *)

\* The service hands over its state as of the last index it applied.
Snapshot(i) ==
    LET k == service[i]
    IN  /\ Snapshots
        /\ k \in lastIncludedIndex[i] + 1 .. lastLogicalIndex(i)
        /\ logs' = [logs EXCEPT ![i] = <<Dummy(TermAt(i, k))>> \o Suffix(i, k + 1)]
        /\ lastIncludedIndex' = [lastIncludedIndex EXCEPT ![i] = k]
        /\ lastIncludedTerm' = [lastIncludedTerm EXCEPT ![i] = TermAt(i, k)]
        /\ lastApplied' = [lastApplied EXCEPT ![i] = max(k, @)]
        /\ UNCHANGED serverVars
        /\ persist(i)
        /\ snapshot' = [snapshot EXCEPT ![i] = k]
        /\ UNCHANGED <<commitIndex, leaderVars, rpcs, spawned, applyMsg, snapMsgs,
                       service, restarts, elected>>

\* Like makeAppendEntry, without a look at rf.state.
sendInstallSnapshotToPeers(i, j) ==
    /\ <<"sendInstallSnapshotToPeers", i, j>> \in spawned
    /\ spawned' = spawned \ {<<"sendInstallSnapshotToPeers", i, j>>}
    /\ Room(1)
    /\ rpcs' = rpcs \cup
          {[type |-> "InstallSnapshot", from |-> i, to |-> j, live |-> TRUE,
            term              |-> currTerm[i],
            lastIncludedIndex |-> lastIncludedIndex[i],
            lastIncludedTerm  |-> lastIncludedTerm[i], data |-> snapshot[i]]}
    /\ UNCHANGED <<serverVars, logVars, commitIndex, leaderVars, persister,
                   applyVars, restarts, elected>>

\* Mutant: no dummy entry.
NoDummy(i, m) ==
    IF /\ m.lastIncludedIndex <= lastLogicalIndex(i)
       /\ TermAt(i, m.lastIncludedIndex) = m.lastIncludedTerm
      THEN Suffix(i, m.lastIncludedIndex + 1) ELSE << >>

\* Mutant: the entries after the snapshot are never kept.
DropTail(i, m) == <<Dummy(m.lastIncludedTerm)>>

\* Mutant: the dummy entry of the discarded log stays.
OldDummy(i, m) ==
    <<logs[i][1]>> \o
        IF /\ m.lastIncludedIndex <= lastLogicalIndex(i)
           /\ TermAt(i, m.lastIncludedIndex) = m.lastIncludedTerm
          THEN Suffix(i, m.lastIncludedIndex + 1) ELSE << >>

\* What is left of the log: the entries after the snapshot if the log contains
\* the snapshot's last entry, nothing otherwise.
LogAfterSnapshot(i, m) ==
    <<Dummy(m.lastIncludedTerm)>> \o
        IF /\ m.lastIncludedIndex <= lastLogicalIndex(i)
           /\ TermAt(i, m.lastIncludedIndex) = m.lastIncludedTerm
          THEN Suffix(i, m.lastIncludedIndex + 1) ELSE << >>

InstallSnapshot(m) ==
    LET i == m.to
        k == m.lastIncludedIndex
        reply(t) == [type |-> "InstallSnapshotReply", from |-> i, to |-> m.from,
                     argsTerm |-> m.term, lastIncludedIndex |-> k, term |-> t]
    IN  /\ m.type = "InstallSnapshot"
        /\ \/ /\ m.term < currTerm[i]
              /\ Respond(m, reply(currTerm[i]))
              /\ UNCHANGED <<serverVars, logVars, commitIndex, persister, applyVars>>
           \/ /\ m.term >= currTerm[i]
              /\ Adopt(i, m.term)
              /\ Respond(m, reply(m.term))
              /\ \/ /\ k <= lastIncludedIndex[i]
                    /\ UNCHANGED <<logVars, commitIndex, snapshot, applyVars>>
                    /\ IF m.term > currTerm[i] THEN persist(i) ELSE UNCHANGED raftstate
                 \/ /\ k > lastIncludedIndex[i]
                    /\ logs' = [logs EXCEPT ![i] = LogAfterSnapshot(i, m)]
                    /\ lastIncludedIndex' = [lastIncludedIndex EXCEPT ![i] = k]
                    /\ lastIncludedTerm' =
                          [lastIncludedTerm EXCEPT ![i] = m.lastIncludedTerm]
                    /\ commitIndex' = [commitIndex EXCEPT ![i] = max(k, @)]
                    /\ lastApplied' = [lastApplied EXCEPT ![i] = max(k, @)]
                    /\ persist(i)
                    /\ snapshot' = [snapshot EXCEPT ![i] = m.data]
                    /\ snapMsgs' = [snapMsgs EXCEPT ![i] = @ \cup {k}]
                    /\ UNCHANGED <<applyMsg, service>>
        /\ UNCHANGED <<leaderVars, spawned, restarts, elected>>

InstallSnapshotReply(m) ==
    LET i == m.to
        j == m.from
        match == max(m.lastIncludedIndex, matchIndex[i][j])
    IN  /\ m.type = "InstallSnapshotReply"
        /\ rpcs' = rpcs \ {m}
        /\ UNCHANGED logVars
        /\ \/ /\ m.term > currTerm[i]
              /\ StepDown(i, m.term)
              /\ persist(i)
              /\ UNCHANGED leaderVars
           \/ /\ m.term <= currTerm[i] /\ state[i] = Leader /\ currTerm[i] = m.argsTerm
              /\ matchIndex' = [matchIndex EXCEPT ![i][j] = match]
              /\ nextIndex' = [nextIndex EXCEPT ![i][j] = max(match + 1, @)]
              /\ UNCHANGED <<serverVars, raftstate>>
           \/ /\ m.term <= currTerm[i] /\ (state[i] # Leader \/ currTerm[i] # m.argsTerm)
              /\ UNCHANGED <<serverVars, raftstate, leaderVars>>
        /\ UNCHANGED <<commitIndex, snapshot, spawned, applyVars, restarts, elected>>

-----------------------------------------------------------------------------
(* The apply channel is unbuffered and has two kinds of senders: the       *)
(* sendApplyMsg loop, and one goroutine for every snapshot.  0 is "none".  *)

\* sendApplyMsg takes the next committed entry and releases rf.mu to send it.
sendApplyMsg(i) ==
    /\ i \in Appliers
    /\ applyMsg[i] = 0
    /\ lastApplied[i] < min(commitIndex[i], lastLogicalIndex(i))
    /\ lastApplied' = [lastApplied EXCEPT ![i] = @ + 1]
    /\ applyMsg' = [applyMsg EXCEPT ![i] = lastApplied[i] + 1]
    /\ UNCHANGED <<serverVars, logVars, commitIndex, leaderVars, persister, rpcs,
                   spawned, snapMsgs, service, restarts, elected>>

\* The service's applier receives a command: it takes whatever index it gets.
applyCommand(i) ==
    /\ applyMsg[i] # 0
    /\ service' = [service EXCEPT ![i] = applyMsg[i]]
    /\ applyMsg' = [applyMsg EXCEPT ![i] = 0]
    /\ UNCHANGED <<serverVars, logVars, commitIndex, leaderVars, persister, rpcs,
                   spawned, lastApplied, snapMsgs, restarts, elected>>

\* It receives a snapshot: one that is not ahead of it is ignored.
applySnapshot(i, k) ==
    /\ k \in snapMsgs[i]
    /\ service' = [service EXCEPT ![i] = max(@, k)]
    /\ snapMsgs' = [snapMsgs EXCEPT ![i] = @ \ {k}]
    /\ UNCHANGED <<serverVars, logVars, commitIndex, leaderVars, persister, rpcs,
                   spawned, lastApplied, applyMsg, restarts, elected>>

-----------------------------------------------------------------------------
(* Crash and restart.                                                      *)

\* A request of i may still be on its way, or running, when i crashes.
Orphaned(i, m) ==
    IF m.from = i /\ m.type \in {"RequestVote", "AppendEntries", "InstallSnapshot"}
      THEN [m EXCEPT !.live = FALSE] ELSE m

\* A server crashes and is made again from its persister.  The goroutines of the
\* old instance and the replies to its calls are gone.
Make(i) ==
    LET saved == raftstate[i]
        k == saved.lastIncludedIndex
    IN  /\ restarts < MaxRestarts
        /\ restarts' = restarts + 1
        /\ currTerm' = [currTerm EXCEPT ![i] = saved.currTerm]
        /\ votedFor' = [votedFor EXCEPT ![i] = saved.votedFor]
        /\ Become(i, Follower)
        /\ logs' = [logs EXCEPT ![i] = saved.logs]
        /\ lastIncludedIndex' = [lastIncludedIndex EXCEPT ![i] = k]
        /\ lastIncludedTerm' = [lastIncludedTerm EXCEPT ![i] = saved.lastIncludedTerm]
        /\ commitIndex' = [commitIndex EXCEPT ![i] = k]
        /\ lastApplied' = [lastApplied EXCEPT ![i] = k]
        /\ nextIndex' = [nextIndex EXCEPT ![i] = [j \in Peers |-> 0]]
        /\ matchIndex' = [matchIndex EXCEPT ![i] = [j \in Peers |-> 0]]
        /\ applyMsg' = [applyMsg EXCEPT ![i] = 0]
        /\ snapMsgs' = [snapMsgs EXCEPT ![i] = IF snapshot[i] > 0 THEN {k} ELSE {}]
        /\ service' = [service EXCEPT ![i] = snapshot[i]]
        /\ rpcs' = {Orphaned(i, m) : m \in {n \in rpcs : n.to # i}}
        /\ spawned' = {g \in spawned : g[2] # i}
        /\ UNCHANGED <<persister, elected>>

FreshState == [currTerm |-> 0, votedFor |-> Nil, logs |-> <<Dummy(0)>>,
               lastIncludedIndex |-> 0, lastIncludedTerm |-> 0]

Init ==
    /\ currTerm = [i \in Peers |-> 0]
    /\ votedFor = [i \in Peers |-> Nil]
    /\ state = [i \in Peers |-> Follower]
    /\ votes = [i \in Peers |-> {}]
    /\ logs = [i \in Peers |-> <<Dummy(0)>>]
    /\ lastIncludedIndex = [i \in Peers |-> 0]
    /\ lastIncludedTerm = [i \in Peers |-> 0]
    /\ commitIndex = [i \in Peers |-> 0]
    /\ nextIndex = [i \in Peers |-> [j \in Peers |-> 0]]
    /\ matchIndex = [i \in Peers |-> [j \in Peers |-> 0]]
    /\ raftstate = [i \in Peers |-> FreshState]
    /\ snapshot = [i \in Peers |-> 0]
    /\ rpcs = {}
    /\ spawned = {}
    /\ lastApplied = [i \in Peers |-> 0]
    /\ applyMsg = [i \in Peers |-> 0]
    /\ snapMsgs = [i \in Peers |-> {}]
    /\ service = [i \in Peers |-> 0]
    /\ restarts = 0
    /\ elected = {}

\* A call makes progress: its request or its reply is processed, or lost.
Finish(m) ==
    \/ RequestVote(m)
    \/ RequestVoteReply(m)
    \/ AppendEntries(m)
    \/ AppendEntriesReply(m)
    \/ InstallSnapshot(m)
    \/ InstallSnapshotReply(m)
    \/ LoseRPC(m)

Next ==
    \/ \E i \in Peers : \/ startElection(i)
                        \/ \E c \in Commands : Start(i, c)
                        \/ Snapshot(i)
                        \/ sendApplyMsg(i)
                        \/ applyCommand(i)
                        \/ \E k \in snapMsgs[i] : applySnapshot(i, k)
                        \/ Make(i)
    \/ \E i, j \in Peers : \/ makeAppendEntry(i, j)
                           \/ sendInstallSnapshotToPeers(i, j)
                           \/ \E f \in {"startElection", "makeAppendEntry"} : Delay(f, i, j)
    \/ \E m \in rpcs : Finish(m)

Spec == Init /\ [][Next]_vars

-----------------------------------------------------------------------------
(* Types.                                                                  *)

Entry == [term : Nat, command : Commands \cup {Nil}]

Log == Seq(Entry) \ {<< >>}

PersistentState ==
    [currTerm : Nat, votedFor : Peers \cup {Nil}, logs : Log,
     lastIncludedIndex : Nat, lastIncludedTerm : Nat]

RequestVoteArgs ==
    [type : {"RequestVote"}, from : Peers, to : Peers, live : BOOLEAN, term : Nat,
     lastLogIndex : Nat, lastLogTerm : Nat]

RequestVoteReplies ==
    [type : {"RequestVoteReply"}, from : Peers, to : Peers, startTerm : Nat,
     term : Nat, granted : BOOLEAN]

AppendEntriesArgs ==
    [type : {"AppendEntries"}, from : Peers, to : Peers, live : BOOLEAN, term : Nat,
     prevLogIndex : Nat, prevLogTerm : Nat, entries : Seq(Entry), leaderCommit : Nat]

AppendEntriesReplies ==
    [type : {"AppendEntriesReply"}, from : Peers, to : Peers, argsTerm : Nat,
     matched : Nat, success : BOOLEAN, term : Nat,
     conflictIndex : Nat, conflictTerm : Nat \cup {-1}]

InstallSnapshotArgs ==
    [type : {"InstallSnapshot"}, from : Peers, to : Peers, live : BOOLEAN, term : Nat,
     lastIncludedIndex : Nat, lastIncludedTerm : Nat, data : Nat]

InstallSnapshotReplies ==
    [type : {"InstallSnapshotReply"}, from : Peers, to : Peers, argsTerm : Nat,
     lastIncludedIndex : Nat, term : Nat]

RPC == RequestVoteArgs \cup RequestVoteReplies
         \cup AppendEntriesArgs \cup AppendEntriesReplies
         \cup InstallSnapshotArgs \cup InstallSnapshotReplies

Goroutine ==
    {"startElection", "makeAppendEntry", "sendInstallSnapshotToPeers"} \X Peers \X Peers

\* Type invariant.  It includes that rf.logs always keeps its dummy entry: the
\* last-entry lookup of RequestVote and startElection indexes logs without a test.
TypeOK ==
    /\ currTerm \in [Peers -> Nat]
    /\ votedFor \in [Peers -> Peers \cup {Nil}]
    /\ state \in [Peers -> {Leader, Candidate, Follower}]
    /\ votes \in [Peers -> SUBSET Peers]
    /\ logs \in [Peers -> Log]
    /\ lastIncludedIndex \in [Peers -> Nat]
    /\ lastIncludedTerm \in [Peers -> Nat]
    /\ commitIndex \in [Peers -> Nat]
    /\ nextIndex \in [Peers -> [Peers -> Nat]]
    /\ matchIndex \in [Peers -> [Peers -> Nat]]
    /\ raftstate \in [Peers -> PersistentState]
    /\ snapshot \in [Peers -> Nat]
    /\ rpcs \in SUBSET RPC
    /\ spawned \in SUBSET Goroutine
    /\ lastApplied \in [Peers -> Nat]
    /\ applyMsg \in [Peers -> Nat]
    /\ snapMsgs \in [Peers -> SUBSET Nat]
    /\ service \in [Peers -> Nat]
    /\ restarts \in Nat
    /\ elected \in SUBSET (Nat \X Peers)

-----------------------------------------------------------------------------
(* Properties.                                                             *)

\* At most one server ever becomes leader of a term (becomeLeader), whatever is
\* lost, reordered, delayed or restarted.
ElectionSafety == \A e, f \in elected : e[1] = f[1] => e = f

\* Peer v's vote in term t is on its way to candidate c, or counted by it.
Supports(v, c, t) ==
    \/ state[c] = Candidate /\ currTerm[c] = t /\ v \in votes[c]
    \/ \E m \in rpcs : /\ m.type = "RequestVoteReply" /\ m.granted
                      /\ m.from = v /\ m.to = c /\ m.startTerm = t

\* Peer v can neither have given nor still give its vote of term t to anyone but c.
Pledged(v, c, t) ==
    /\ t <= currTerm[v]
    /\ t = currTerm[v] => votedFor[v] = c
    /\ \A d \in Peers \ {c} : ~Supports(v, d, t)

\* Why ElectionSafety holds: every vote under way or counted is a pledge, and
\* whoever was elected has the pledges of a majority for good (RequestVote,
\* startElection, becomeLeader).
ElectionInv ==
    /\ ElectionSafety
    /\ \A m \in rpcs : m.type = "RequestVoteReply" /\ m.granted
                         => Pledged(m.from, m.to, m.startTerm)
    /\ \A c \in Peers : state[c] = Candidate
                         => \A v \in votes[c] : Pledged(v, c, currTerm[c])
    /\ \A e \in elected : \E Q \in SUBSET Peers :
                         Majority(Q) /\ \A v \in Q : Pledged(v, e[2], e[1])

\* Server i does not go back in term nor change its vote of the term.
VoteKept(i) ==
    /\ currTerm'[i] >= currTerm[i]
    /\ currTerm'[i] = currTerm[i] /\ votedFor[i] # Nil => votedFor'[i] = votedFor[i]

\* A server's term never goes back and within a term its vote is never changed,
\* not even by a crash between the vote and the reply (RequestVote, persist, Make).
VoteIsFinal == [][\A i \in Peers : VoteKept(i)]_vars

\* Whenever rf.mu is free, the persister holds exactly the persistent fields of
\* the peer: no path through a handler forgets persist or calls it too early.
PersistedIsCurrent ==
    \A i \in Peers :
        raftstate[i] = [currTerm |-> currTerm[i], votedFor |-> votedFor[i],
                        logs |-> logs[i], lastIncludedIndex |-> lastIncludedIndex[i],
                        lastIncludedTerm |-> lastIncludedTerm[i]]

\* Logical indexes that both logs still cover.
Common(i, j) ==
    max(lastIncludedIndex[i], lastIncludedIndex[j]) ..
        min(lastLogicalIndex(i), lastLogicalIndex(j))

\* Two logs that have an entry of the same term at the same index are equal up to
\* it, as far back as both reach (the prevLog test and the merge of AppendEntries,
\* the cut of InstallSnapshot).
LogMatching ==
    \A i, j \in Peers : \A k \in Common(i, j) :
        TermAt(i, k) = TermAt(j, k) =>
            \A x \in Common(i, j) : x <= k =>
                /\ TermAt(i, x) = TermAt(j, x)
                /\ \/ x = max(lastIncludedIndex[i], lastIncludedIndex[j])
                   \/ logs[i][Pos(i, x)] = logs[j][Pos(j, x)]

\* No two servers commit different entries at one index: what checkLogs of the
\* test harness (config.go) fails on.
CommittedAgree ==
    \A i, j \in Peers : \A k \in Common(i, j) :
        k <= commitIndex[i] /\ k <= commitIndex[j] => TermAt(i, k) = TermAt(j, k)

\* Server j has the entry of index k and term t, in its log or in its snapshot.
Holds(j, k, t) ==
    \/ k <= lastIncludedIndex[j]
    \/ k <= lastLogicalIndex(j) /\ TermAt(j, k) = t

\* Committed indexes of i that its log still covers.
Committed(i) == lastIncludedIndex[i] + 1 .. commitIndex[i]

\* What was applied or cut off stays committed, and a committed entry is in the log,
\* and on a majority, from then on: "find a N,(as high as possible) exists in more
\* than half in list" (makeAppendEntry).
CommittedOnMajority ==
    \A i \in Peers :
        /\ lastApplied[i] <= commitIndex[i]
        /\ \A k \in Committed(i) :
              /\ k <= lastLogicalIndex(i)
              /\ Majority({j \in Peers : Holds(j, k, TermAt(i, k))})

\* What a peer has acknowledged to a leader (matchIndex, which commitIndexUpdate counts)
\* stays in its log as long as it knows of no newer term: no repeated, late or shorter
\* request takes it away again (the merge of AppendEntries, InstallSnapshot).
AcknowledgedStays ==
    \A i, j \in Peers : state[i] = Leader /\ i # j /\ currTerm[j] <= currTerm[i] =>
        \A k \in lastIncludedIndex[i] + 1 .. matchIndex[i][j] :
            k <= lastLogicalIndex(i) /\ Holds(j, k, TermAt(i, k))

\* A leader has every entry that a server of its term or an older one has
\* committed (UpToDate in RequestVote, the term test of commitIndexUpdate).
LeaderCompleteness ==
    \A i, l \in Peers : state[l] = Leader /\ currTerm[l] >= currTerm[i] =>
        \A k \in Committed(i) :
            k <= lastLogicalIndex(i) => Holds(l, k, TermAt(i, k))

\* The slice rf.logs[nextIndex:] of a leader's makeAppendEntry is in range: the
\* back-off of refused entries never leaves the log at either end.
NextIndexInRange ==
    \A i, j \in Peers : state[i] = Leader /\ i # j =>
        nextIndex[i][j] \in 1 .. lastLogicalIndex(i) + 1

\* The saved snapshot is the one the log was cut at, and the apply loop is never
\* behind it, so that it never indexes an entry that was cut off (Snapshot,
\* InstallSnapshot, Make, sendApplyMsg).
SnapshotConsistent ==
    \A i \in Peers :
        /\ snapshot[i] = lastIncludedIndex[i]
        /\ lastIncludedIndex[i] <= lastApplied[i]
        /\ logs[i][1].term = lastIncludedTerm[i]

\* The service is given each command right after the one before it, which is what
\* the harness demands ("apply out of order", config.go).  With snapshots it is not so:
\* applyCh has two producers, and a command can overtake the snapshot before it.
AppliedInOrder ==
    [][\A i \in Peers :
          applyMsg[i] # 0 /\ applyMsg'[i] # applyMsg[i] /\ restarts' = restarts
             => applyMsg[i] = service[i] + 1]_vars

-----------------------------------------------------------------------------
(* Liveness of one leader l.  Heartbeats repeat every 80 ms for each peer  *)
(* and labrpc loses only some of the calls that are made over and over, so *)
(* a call repeated for ever is sent, run and answered infinitely often.    *)
(* No call stays in the network for ever: Call() returns, true or false.   *)

Fairness(l) ==
    /\ WF_vars(\E m \in rpcs : Finish(m))
    /\ \A j \in Peers \ {l} :
          /\ SF_vars(makeAppendEntry(l, j))
          /\ SF_vars(\E m \in rpcs : m.from = l /\ m.to = j /\ AppendEntries(m))
          /\ SF_vars(\E m \in rpcs : m.from = j /\ m.to = l /\ AppendEntriesReply(m))

\* If l stays leader, every server ends up with all of l's log, over any conflict that
\* earlier leaders left behind (the nextIndex back-off of makeAppendEntry), and with
\* all of it committed if it ends with an entry of l's own term (commitIndexUpdate on
\* a reply, LeaderCommit of a later heartbeat).
LogsConvergeTo(l) ==
    <>[](state[l] = Leader) =>
        <>[](\A j \in Peers :
                /\ \A k \in lastIncludedIndex[l] + 1 .. lastLogicalIndex(l) :
                      Holds(j, k, TermAt(l, k))
                /\ lastTerm(l) = currTerm[l] => commitIndex[j] = lastLogicalIndex(l))
=============================================================================
