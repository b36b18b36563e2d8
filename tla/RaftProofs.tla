----------------------------- MODULE RaftProofs -----------------------------
(***************************************************************************)
(* Raft for every set of peers and every value of the bounds: types, what  *)
(* is persisted, and votes.                                                *)
(*                                                                         *)
(* Every step of Next is one of five kinds as far as elections go.  Idle   *)
(* steps leave the election state alone; FollowStep makes a server a       *)
(* follower in its term or a newer one; the others are startElection, the  *)
(* vote of RequestVote, and the count of a vote.  The argument about votes *)
(* is made on these kinds, not on the actions.                             *)
(***************************************************************************)
EXTENDS Raft, TLAPS

\* What SMT may take for a step, in seconds.
USE SMTT(60), Z3T(60)

\* max, as AppendEntries and RequestVote use it, returns the larger of two terms.
LEMMA MaxIsNat ==
    ASSUME NEW a \in Nat, NEW b \in Nat
    PROVE  /\ max(a, b) \in Nat /\ max(a, b) >= a /\ max(a, b) >= b
           /\ a >= b => max(a, b) = a
           /\ b >= a => max(a, b) = b
BY DEF max

\* The index after an index is an index.
LEMMA NextIsNat == \A n \in Nat : n + 1 \in Nat
OBVIOUS

\* Places in the slice rf.logs and logical indexes differ by the dummy entry: one
\* step back from a place after the dummy is a logical index.
LEMMA OneBefore ==
    ASSUME NEW a \in Nat, NEW b \in Nat, NEW k \in a + 1 .. b + 1
    PROVE  k - 1 \in a .. b /\ k - 1 \in Nat
OBVIOUS

\* One step on from a logical index is a place after the dummy.
LEMMA OneAfter ==
    ASSUME NEW a \in Nat, NEW b \in Nat, NEW k \in Nat, k > a, k <= b
    PROVE  k + 1 \in a + 1 .. b + 1
OBVIOUS

\* The place of the d-th entry after prevLogIndex lies in the slice.
LEMMA PlaceInLog ==
    ASSUME NEW p \in Nat, NEW d \in Nat, NEW l \in Nat, NEW n \in Nat,
           1 <= d, l <= p, p + d - 1 <= l + n - 1
    PROVE  p + d - l \in 1 .. n
OBVIOUS

\* Every goroutine the code starts is one of three kinds.
LEMMA GoroutineType ==
    ASSUME NEW i \in Peers, NEW j \in Peers
    PROVE  /\ <<"startElection", i, j>> \in Goroutine
           /\ <<"makeAppendEntry", i, j>> \in Goroutine
           /\ <<"sendInstallSnapshotToPeers", i, j>> \in Goroutine
BY Zenon DEF Goroutine

\* A goroutine that runs leaves only goroutines behind.
LEMMA RunsType ==
    ASSUME NEW f, NEW i, NEW j, NEW next \in SUBSET Goroutine,
           spawned \in SUBSET Goroutine, Runs(f, i, j, next)
    PROVE  spawned' \in SUBSET Goroutine
BY Zenon DEF Runs

\* The log helpers of raft.go stay inside the log and return terms and entries.
LEMMA LogHelpers ==
    ASSUME TypeOK, NEW i \in Peers
    PROVE  /\ logs[i] \in Seq(Entry)
           /\ Len(logs[i]) \in Nat \ {0}
           /\ lastIncludedIndex[i] \in Nat
           /\ lastLogicalIndex(i) \in Nat
           /\ lastLogicalIndex(i) >= lastIncludedIndex[i]
           /\ lastTerm(i) \in Nat
           /\ \A k \in lastIncludedIndex[i] .. lastLogicalIndex(i) : TermAt(i, k) \in Nat
           /\ \A k \in lastIncludedIndex[i] + 1 .. lastLogicalIndex(i) + 1 :
                 Suffix(i, k) \in Seq(Entry)
<1>1. logs[i] \in Seq(Entry) /\ logs[i] # << >> /\ lastIncludedIndex[i] \in Nat
  BY Zenon DEF TypeOK, Log
<1>2. Len(logs[i]) \in Nat \ {0}
  BY <1>1
<1>3. /\ lastLogicalIndex(i) \in Nat
      /\ lastLogicalIndex(i) >= lastIncludedIndex[i]
  BY <1>1, <1>2 DEF lastLogicalIndex
<1>4. \A p \in 1 .. Len(logs[i]) : logs[i][p] \in Entry
  BY <1>1
<1>5. lastTerm(i) \in Nat
  BY <1>2, <1>4 DEF lastTerm, Entry
<1>6. ASSUME NEW k \in lastIncludedIndex[i] .. lastLogicalIndex(i)
      PROVE  TermAt(i, k) \in Nat
  <2>1. Pos(i, k) \in 1 .. Len(logs[i])
    BY <1>1, <1>2 DEF Pos, lastLogicalIndex
  <2> QED BY <2>1, <1>4, Zenon DEF TermAt, Entry
<1>7. ASSUME NEW k \in lastIncludedIndex[i] + 1 .. lastLogicalIndex(i) + 1
      PROVE  Suffix(i, k) \in Seq(Entry)
  <2>1. Pos(i, k) \in 1 .. Len(logs[i]) + 1
    BY <1>1, <1>2 DEF Pos, lastLogicalIndex
  <2> QED BY <2>1, <1>1, <1>2 DEF Suffix
<1> QED BY <1>1, <1>2, <1>3, <1>5, <1>6, <1>7, Zenon

\* The initial state, a server made from an empty persister, is well-typed.
THEOREM TypeInit == Init => TypeOK
<1> SUFFICES ASSUME Init PROVE TypeOK
  BY Zenon
<1>1. <<Dummy(0)>> \in Log
  BY DEF Log, Entry, Dummy
<1> QED
  BY Zenon, <1>1 DEF Init, TypeOK, FreshState, PersistentState, Leader, Candidate, Follower

\* The type field of a message in flight determines its fields.
LEMMA MessageTypes ==
    ASSUME TypeOK, NEW m \in rpcs
    PROVE  /\ m \in RPC /\ m.from \in Peers /\ m.to \in Peers
           /\ m.type = "RequestVote" => m \in RequestVoteArgs
           /\ m.type = "RequestVoteReply" => m \in RequestVoteReplies
           /\ m.type = "AppendEntries" => m \in AppendEntriesArgs
           /\ m.type = "AppendEntriesReply" => m \in AppendEntriesReplies
           /\ m.type = "InstallSnapshot" => m \in InstallSnapshotArgs
           /\ m.type = "InstallSnapshotReply" => m \in InstallSnapshotReplies
<1>1. m \in RPC
  BY Zenon DEF TypeOK
<1> QED
  BY <1>1, Zenon DEF RPC, RequestVoteArgs, RequestVoteReplies, AppendEntriesArgs,
              AppendEntriesReplies, InstallSnapshotArgs, InstallSnapshotReplies

\* persist saves a well-typed record when the fields it reads are well-typed.
LEMMA PersistType ==
    ASSUME TypeOK, NEW i \in Peers, persist(i),
           currTerm' \in [Peers -> Nat], votedFor' \in [Peers -> Peers \cup {Nil}],
           logs' \in [Peers -> Log], lastIncludedIndex' \in [Peers -> Nat],
           lastIncludedTerm' \in [Peers -> Nat]
    PROVE  raftstate' \in [Peers -> PersistentState]
  BY Zenon DEF TypeOK, persist, PersistentState

\* Answering a request keeps the network well-typed.
LEMMA RespondType ==
    ASSUME TypeOK, NEW m, NEW r \in RPC, Respond(m, r)
    PROVE  rpcs' \in SUBSET RPC
  BY Zenon DEF TypeOK, Respond

\* become sets a role and clears the votes of one server.
LEMMA BecomeType ==
    ASSUME TypeOK, NEW i \in Peers, NEW s \in {Leader, Candidate, Follower}, Become(i, s)
    PROVE  /\ state' \in [Peers -> {Leader, Candidate, Follower}]
           /\ votes' \in [Peers -> SUBSET Peers]
  BY Zenon DEF TypeOK, Become

\* startElection keeps the types.
LEMMA TypeStartElection ==
    ASSUME TypeOK, NEW i \in Peers, startElection(i)
    PROVE  TypeOK'
<1>1. /\ currTerm' \in [Peers -> Nat] /\ votedFor' \in [Peers -> Peers \cup {Nil}]
      /\ logs' \in [Peers -> Log] /\ lastIncludedIndex' \in [Peers -> Nat]
      /\ lastIncludedTerm' \in [Peers -> Nat]
  BY DEF TypeOK, startElection, logVars
<1>2. raftstate' \in [Peers -> PersistentState]
  BY <1>1, PersistType, Zenon DEF startElection
<1>3. state' \in [Peers -> {Leader, Candidate, Follower}] /\ votes' \in [Peers -> SUBSET Peers]
  BY BecomeType, Zenon DEF startElection
<1>4. rpcs' \in SUBSET RPC
  <2>1. PICK reached \in SUBSET (Peers \ {i}) :
          rpcs' = rpcs \cup
                {[type |-> "RequestVote", from |-> i, to |-> j, live |-> TRUE,
                  term |-> currTerm[i] + 1,
                  lastLogIndex |-> lastLogicalIndex(i),
                  lastLogTerm  |-> lastTerm(i)] : j \in reached}
    BY Zenon DEF startElection
  <2>2. ASSUME NEW j \in reached
        PROVE [type |-> "RequestVote", from |-> i, to |-> j, live |-> TRUE,
                  term |-> currTerm[i] + 1,
                  lastLogIndex |-> lastLogicalIndex(i),
                  lastLogTerm  |-> lastTerm(i)] \in RequestVoteArgs
    <3>1. lastLogicalIndex(i) \in Nat /\ lastTerm(i) \in Nat
      BY LogHelpers, Zenon
    <3>2. currTerm[i] + 1 \in Nat
      BY DEF TypeOK
    <3> QED BY <3>1, <3>2, Zenon DEF RequestVoteArgs
  <2>3. rpcs \in SUBSET RPC
    BY Zenon DEF TypeOK
  <2> QED BY <2>1, <2>2, <2>3 DEF RPC
<1>5. spawned' \in SUBSET Goroutine
  BY Zenon DEF TypeOK, startElection, Runs
<1> QED
  BY <1>1, <1>2, <1>3, <1>4, <1>5, Zenon DEF TypeOK, startElection, leaderVars, applyVars

\* RequestVote keeps the types.
LEMMA TypeRequestVote ==
    ASSUME TypeOK, NEW m \in rpcs, RequestVote(m)
    PROVE  TypeOK'
<1> DEFINE i == m.to
           granted == MayVote(i, m) /\ UpToDate(i, m)
           reply == [type |-> "RequestVoteReply", from |-> i, to |-> m.from,
                     startTerm |-> m.term, term |-> max(currTerm[i], m.term),
                     granted |-> granted]
<1>0. m \in RequestVoteArgs /\ i \in Peers
  BY MessageTypes, Zenon DEF RequestVote
<1>1. m.term \in Nat /\ m.from \in Peers /\ currTerm[i] \in Nat
  BY <1>0, Zenon DEF RequestVoteArgs, TypeOK
<1>2. max(currTerm[i], m.term) \in Nat
  BY <1>1, Zenon DEF max
<1>3. /\ currTerm' \in [Peers -> Nat] /\ votedFor' \in [Peers -> Peers \cup {Nil}]
      /\ logs' \in [Peers -> Log] /\ lastIncludedIndex' \in [Peers -> Nat]
      /\ lastIncludedTerm' \in [Peers -> Nat]
  BY <1>0, <1>1, <1>2, Zenon DEF TypeOK, RequestVote, logVars
<1>4. raftstate' \in [Peers -> PersistentState]
  <2>1. CASE persist(i)
    BY <2>1, <1>0, <1>3, PersistType, Zenon
  <2>2. CASE UNCHANGED raftstate
    BY <2>2, Zenon DEF TypeOK
  <2> QED BY <2>1, <2>2, Zenon DEF RequestVote
<1>5. state' \in [Peers -> {Leader, Candidate, Follower}] /\ votes' \in [Peers -> SUBSET Peers]
  <2>1. CASE Become(i, Follower)
    BY <2>1, <1>0, BecomeType, Zenon
  <2>2. CASE UNCHANGED <<state, votes>>
    BY <2>2, Zenon DEF TypeOK
  <2> QED BY <2>1, <2>2, Zenon DEF RequestVote
<1>6. rpcs' \in SUBSET RPC
  <2>1. granted \in BOOLEAN
    BY Zenon DEF MayVote, UpToDate
  <2>2. reply \in RequestVoteReplies
    BY <1>0, <1>1, <1>2, <2>1, Zenon DEF RequestVoteReplies
  <2>3. reply \in RPC
    BY <2>2, Zenon DEF RPC
  <2>4. Respond(m, reply)
    BY Zenon DEF RequestVote
  <2> QED BY <2>3, <2>4, RespondType, Zenon
<1> QED
  BY <1>3, <1>4, <1>5, <1>6, Zenon DEF TypeOK, RequestVote, leaderVars, applyVars

\* Stepping down to a newer term, and following the sender of a request, keep the
\* types of the election state.
LEMMA StepDownType ==
    ASSUME TypeOK, NEW i \in Peers, NEW t \in Nat, StepDown(i, t) \/ Adopt(i, t)
    PROVE  /\ state' \in [Peers -> {Leader, Candidate, Follower}]
           /\ votes' \in [Peers -> SUBSET Peers]
           /\ currTerm' \in [Peers -> Nat]
           /\ votedFor' \in [Peers -> Peers \cup {Nil}]
<1>1. Become(i, Follower)
  BY Zenon DEF StepDown, Adopt
<1>2. /\ currTerm' \in [Peers -> Nat]
      /\ votedFor' \in [Peers -> Peers \cup {Nil}]
  <2>1. /\ currTerm' = [currTerm EXCEPT ![i] = t]
        /\ \E v \in Peers \cup {Nil} : votedFor' = [votedFor EXCEPT ![i] = v]
    <3>1. CASE StepDown(i, t)
      BY Zenon, <3>1 DEF StepDown
    <3>2. CASE Adopt(i, t)
      BY Zenon, <3>2 DEF Adopt, TypeOK
    <3> QED BY <3>1, <3>2, Zenon
  <2> QED BY <2>1 DEF TypeOK
<1> QED BY <1>1, <1>2, BecomeType, Zenon

\* RequestVoteReply keeps the types.
LEMMA TypeRequestVoteReply ==
    ASSUME TypeOK, NEW m \in rpcs, RequestVoteReply(m)
    PROVE  TypeOK'
<1> DEFINE i == m.to
<1>0. m \in RequestVoteReplies /\ i \in Peers
  BY MessageTypes, Zenon DEF RequestVoteReply
<1>1. m.term \in Nat /\ m.from \in Peers
  BY <1>0, Zenon DEF RequestVoteReplies
<1>2. /\ rpcs' \in SUBSET RPC
      /\ UNCHANGED <<logs, lastIncludedIndex, lastIncludedTerm>>
  BY Zenon DEF TypeOK, RequestVoteReply, logVars
<1>3. CASE UNCHANGED <<serverVars, persister, nextIndex, elected>>
  BY <1>2, <1>3, Zenon DEF TypeOK, RequestVoteReply, serverVars, persister, applyVars
<1>4. CASE becomeLeader(i) /\ UNCHANGED <<currTerm, votedFor, persister>>
  <2>1. state' \in [Peers -> {Leader, Candidate, Follower}] /\ votes' \in [Peers -> SUBSET Peers]
    BY <1>0, <1>4, BecomeType, Zenon DEF becomeLeader
  <2>2. lastLogicalIndex(i) + 1 \in Nat
    BY <1>0, LogHelpers
  <2>3. nextIndex' \in [Peers -> [Peers -> Nat]]
    BY <1>0, <1>4, <2>2 DEF becomeLeader, TypeOK
  <2>4. elected' \in SUBSET (Nat \X Peers)
    BY <1>0, <1>4 DEF becomeLeader, TypeOK
  <2> QED
    BY <1>2, <1>4, <2>1, <2>3, <2>4, Zenon DEF TypeOK, RequestVoteReply, persister, applyVars
<1>5. CASE /\ votes' = [votes EXCEPT ![i] = votes[i] \cup {m.from}]
           /\ UNCHANGED <<state, nextIndex, elected, currTerm, votedFor, persister>>
  <2>1. votes' \in [Peers -> SUBSET Peers]
    BY <1>0, <1>1, <1>5 DEF TypeOK
  <2> QED
    BY <1>2, <1>5, <2>1, Zenon DEF TypeOK, RequestVoteReply, persister, applyVars
<1>6. CASE StepDown(i, m.term) /\ persist(i) /\ UNCHANGED <<snapshot, nextIndex, elected>>
  <2>1. /\ state' \in [Peers -> {Leader, Candidate, Follower}]
        /\ votes' \in [Peers -> SUBSET Peers]
        /\ currTerm' \in [Peers -> Nat]
        /\ votedFor' \in [Peers -> Peers \cup {Nil}]
    BY <1>0, <1>1, <1>6, StepDownType, Zenon
  <2>2. /\ logs' \in [Peers -> Log] /\ lastIncludedIndex' \in [Peers -> Nat]
        /\ lastIncludedTerm' \in [Peers -> Nat]
    BY <1>2, Zenon DEF TypeOK
  <2>3. raftstate' \in [Peers -> PersistentState]
    BY <1>0, <1>6, <2>1, <2>2, PersistType, Zenon
  <2> QED
    BY <1>2, <1>6, <2>1, <2>2, <2>3, Zenon DEF TypeOK, RequestVoteReply, applyVars
<1> QED
  BY <1>3, <1>4, <1>5, <1>6, Zenon DEF RequestVoteReply

\* Start keeps the types.
LEMMA TypeStart ==
    ASSUME TypeOK, NEW i \in Peers, NEW c \in Commands, Start(i, c)
    PROVE  TypeOK'
<1>1. currTerm[i] \in Nat /\ logs \in [Peers -> Log]
  BY Zenon DEF TypeOK
<1>2. Append(logs[i], [term |-> currTerm[i], command |-> c]) \in Log
  <2>1. logs[i] \in Seq(Entry) /\ [term |-> currTerm[i], command |-> c] \in Entry
    BY Zenon, <1>1 DEF Log, Entry
  <2> QED BY <2>1 DEF Log
<1>3. logs' \in [Peers -> Log]
  BY <1>1, <1>2, Zenon DEF Start
<1>4. /\ currTerm' \in [Peers -> Nat] /\ votedFor' \in [Peers -> Peers \cup {Nil}]
      /\ lastIncludedIndex' \in [Peers -> Nat]
      /\ lastIncludedTerm' \in [Peers -> Nat]
  BY Zenon DEF TypeOK, Start, serverVars
<1>5. raftstate' \in [Peers -> PersistentState]
  BY Zenon, <1>3, <1>4, PersistType DEF Start
<1> QED
  BY Zenon, <1>3, <1>4, <1>5 DEF TypeOK, Start, serverVars, leaderVars, applyVars

\* makeAppendEntry keeps the types.
LEMMA TypeMakeAppendEntry ==
    ASSUME TypeOK, NEW i \in Peers, NEW j \in Peers, makeAppendEntry(i, j)
    PROVE  TypeOK'
<1> DEFINE k == nextIndex[i][j]
           request == [type |-> "AppendEntries", from |-> i, to |-> j, live |-> TRUE,
                       term         |-> currTerm[i],
                       prevLogIndex |-> k - 1,
                       prevLogTerm  |-> TermAt(i, k - 1),
                       entries      |-> Suffix(i, k),
                       leaderCommit |-> commitIndex[i]]
<1>1. spawned' \in SUBSET Goroutine
  <2>1. spawned \in SUBSET Goroutine
    BY Zenon DEF TypeOK
  <2>2. \/ Runs("makeAppendEntry", i, j, {<<"sendInstallSnapshotToPeers", i, j>>})
        \/ Runs("makeAppendEntry", i, j, {})
    BY Zenon DEF makeAppendEntry
  <2>3. /\ {<<"sendInstallSnapshotToPeers", i, j>>} \in SUBSET Goroutine
        /\ {} \in SUBSET Goroutine
    BY Zenon, GoroutineType
  <2> QED BY <2>1, <2>2, <2>3, RunsType, Zenon
<1>2. rpcs' \in SUBSET RPC
  <2>1. CASE UNCHANGED rpcs
    BY <2>1, Zenon DEF TypeOK
  <2>2. CASE /\ k \in lastIncludedIndex[i] + 1 .. lastLogicalIndex(i) + 1
             /\ rpcs' = rpcs \cup {request}
    <3>1. /\ k \in Nat /\ currTerm[i] \in Nat /\ commitIndex[i] \in Nat
          /\ rpcs \in SUBSET RPC
      BY Zenon DEF TypeOK
    <3>2. /\ lastIncludedIndex[i] \in Nat /\ lastLogicalIndex(i) \in Nat
          /\ Suffix(i, k) \in Seq(Entry)
      BY <2>2, LogHelpers, Zenon
    <3>. HIDE DEF k
    <3>3. k - 1 \in lastIncludedIndex[i] .. lastLogicalIndex(i) /\ k - 1 \in Nat
      <4>1. k \in lastIncludedIndex[i] + 1 .. lastLogicalIndex(i) + 1
        BY <2>2, Zenon
      <4> QED BY <3>2, <4>1, OneBefore, Zenon
    <3>4. TermAt(i, k - 1) \in Nat
      BY <3>3, LogHelpers, Zenon
    <3>5. request \in AppendEntriesArgs
      BY <3>1, <3>2, <3>3, <3>4, Zenon DEF AppendEntriesArgs
    <3> QED BY Zenon, <2>2, <3>1, <3>5 DEF RPC
  <2> QED BY Zenon, <2>1, <2>2 DEF makeAppendEntry
<1> QED
  BY <1>1, <1>2, Zenon DEF TypeOK, makeAppendEntry, serverVars, logVars, leaderVars, persister,
                    applyVars

\* The replies of AppendEntries are well-typed.
LEMMA AEReplyType ==
    ASSUME NEW m \in AppendEntriesArgs, NEW success \in BOOLEAN, NEW t \in Nat,
           NEW c \in Nat, NEW ct \in Nat \cup {-1}
    PROVE  AEReply(m, success, t, c, ct) \in RPC
<1>1. m.prevLogIndex + Len(m.entries) \in Nat
  <2>1. m.prevLogIndex \in Nat /\ m.entries \in Seq(Entry)
    BY Zenon DEF AppendEntriesArgs
  <2> QED BY <2>1
<1>2. AEReply(m, success, t, c, ct) \in AppendEntriesReplies
  BY <1>1, Zenon DEF AEReply, AppendEntriesReplies, AppendEntriesArgs
<1> QED BY <1>2, Zenon DEF RPC

\* The merge of AppendEntries keeps a log a log: it never cuts the dummy entry.
LEMMA MergeType ==
    ASSUME TypeOK, NEW i \in Peers, NEW m \in AppendEntriesArgs,
           PrevMatches(i, m), MergeEntries(i, m)
    PROVE  logs' \in [Peers -> Log]
<1>1. logs \in [Peers -> Log] /\ i \in Peers
  BY Zenon DEF TypeOK
<1>2. /\ m.entries \in Seq(Entry) /\ Len(m.entries) \in Nat /\ m.prevLogIndex \in Nat
  BY DEF AppendEntriesArgs
<1>3. /\ logs[i] \in Seq(Entry) /\ Len(logs[i]) \in Nat \ {0}
      /\ lastIncludedIndex[i] \in Nat /\ lastLogicalIndex(i) \in Nat
  BY <1>1, LogHelpers, Zenon
<1>4. /\ lastIncludedIndex[i] <= m.prevLogIndex
      /\ m.prevLogIndex <= lastLogicalIndex(i)
  BY <1>3 DEF PrevMatches
<1>5. CASE UNCHANGED logs
  BY <1>1, <1>5, Zenon
<1>6. ASSUME NEW d \in Differing(i, m), \A x \in Differing(i, m) : d <= x,
             logs' = [logs EXCEPT ![i] = SubSeq(@, 1, Pos(i, m.prevLogIndex + d) - 1)
                                           \o SubSeq(m.entries, d, Len(m.entries))]
      PROVE  logs' \in [Peers -> Log]
  <2>1. d \in 1 .. Len(m.entries)
    BY <1>6, Zenon DEF Differing
  <2>2. Pos(i, m.prevLogIndex + d) - 1 \in 1 .. Len(logs[i])
    <3>1. d = 1 \/ (d - 1 \in 1 .. Len(m.entries) /\ d - 1 \notin Differing(i, m))
      <4>1. d \in Nat /\ 1 <= d /\ d <= Len(m.entries)
        BY <1>2, <2>1
      <4>2. d - 1 \notin Differing(i, m)
        BY <1>6, <4>1
      <4> QED BY <1>2, <4>1, <4>2
    <3>2. m.prevLogIndex + d - 1 <= lastLogicalIndex(i)
      <4>1. CASE d = 1
        BY <4>1, <1>2, <1>3, <1>4
      <4>2. CASE d - 1 \in 1 .. Len(m.entries) /\ d - 1 \notin Differing(i, m)
        BY <4>2, <1>2, <1>3, <2>1 DEF Differing
      <4> QED BY <3>1, <4>1, <4>2, Zenon
    <3>3. d \in Nat \ {0}
      BY <1>2, <2>1
    <3>4. Pos(i, m.prevLogIndex + d) - 1 = m.prevLogIndex + d - lastIncludedIndex[i]
      BY <1>2, <1>3, <3>3 DEF Pos
    <3>5. lastLogicalIndex(i) = lastIncludedIndex[i] + Len(logs[i]) - 1
      BY Zenon DEF lastLogicalIndex
    <3>6. m.prevLogIndex + d - 1 <= lastIncludedIndex[i] + Len(logs[i]) - 1
      BY <3>2, <3>5, Zenon
    <3>7. /\ m.prevLogIndex \in Nat /\ d \in Nat /\ 1 <= d
          /\ lastIncludedIndex[i] \in Nat /\ Len(logs[i]) \in Nat
      BY <1>2, <1>3, <3>3
    <3>8. m.prevLogIndex + d - lastIncludedIndex[i] \in 1 .. Len(logs[i])
      BY Zenon, <1>4, <3>6, <3>7, PlaceInLog
    <3> QED BY <3>4, <3>8, Zenon
  <2>3. SubSeq(logs[i], 1, Pos(i, m.prevLogIndex + d) - 1) \in Seq(Entry) \ {<< >>}
    BY <2>2, <1>3
  <2>4. SubSeq(m.entries, d, Len(m.entries)) \in Seq(Entry)
    BY <2>1, <1>2
  <2>5. SubSeq(logs[i], 1, Pos(i, m.prevLogIndex + d) - 1)
           \o SubSeq(m.entries, d, Len(m.entries)) \in Log
    BY <2>3, <2>4 DEF Log
  <2> QED BY <1>1, <1>6, <2>5, Zenon
<1> QED
  BY Zenon, <1>5, <1>6, <1>1 DEF MergeEntries

\* persist, or nothing to persist.
LEMMA MaybePersistType ==
    ASSUME TypeOK, NEW i \in Peers, persist(i) \/ UNCHANGED raftstate,
           currTerm' \in [Peers -> Nat], votedFor' \in [Peers -> Peers \cup {Nil}],
           logs' \in [Peers -> Log], lastIncludedIndex' \in [Peers -> Nat],
           lastIncludedTerm' \in [Peers -> Nat]
    PROVE  raftstate' \in [Peers -> PersistentState]
<1>1. CASE persist(i)
  BY <1>1, PersistType, Zenon
<1>2. CASE UNCHANGED raftstate
  BY <1>2, Zenon DEF TypeOK
<1> QED BY <1>1, <1>2, Zenon

\* AppendEntries keeps the types.
LEMMA TypeAppendEntries ==
    ASSUME TypeOK, NEW m \in rpcs, AppendEntries(m)
    PROVE  TypeOK'
<1> DEFINE i == m.to
<1>0. m \in AppendEntriesArgs /\ i \in Peers
  BY MessageTypes, Zenon DEF AppendEntries
<1>1. /\ m.term \in Nat /\ currTerm[i] \in Nat /\ m.prevLogIndex \in Nat
      /\ m.leaderCommit \in Nat /\ 0 \in Nat /\ -1 \in Nat \cup {-1}
  BY <1>0, Zenon DEF AppendEntriesArgs, TypeOK
<1>2. /\ lastIncludedIndex[i] \in Nat /\ lastLogicalIndex(i) \in Nat
      /\ lastIncludedIndex[i] + 1 \in Nat /\ lastLogicalIndex(i) + 1 \in Nat
  <2>1. lastIncludedIndex[i] \in Nat /\ lastLogicalIndex(i) \in Nat
    BY Zenon, <1>0, LogHelpers
  <2> QED BY <2>1, NextIsNat, Zenon
<1>3. UNCHANGED <<leaderVars, snapshot, spawned, applyVars, restarts, elected>>
  BY Zenon DEF AppendEntries
<1>4. CASE /\ Respond(m, AEReply(m, FALSE, currTerm[i], 0, 0))
           /\ UNCHANGED <<serverVars, logVars, commitIndex, raftstate>>
  <2>1. AEReply(m, FALSE, currTerm[i], 0, 0) \in RPC
    BY Zenon, <1>0, <1>1, AEReplyType
  <2>2. rpcs' \in SUBSET RPC
    BY Zenon, <1>4, <2>1, RespondType
  <2> QED
    BY <1>3, <1>4, <2>2, Zenon DEF TypeOK, serverVars, logVars, leaderVars, applyVars
<1>5. CASE Adopt(i, m.term) /\ RejectEntries(i, m)
  <2>1. /\ state' \in [Peers -> {Leader, Candidate, Follower}]
        /\ votes' \in [Peers -> SUBSET Peers]
        /\ currTerm' \in [Peers -> Nat]
        /\ votedFor' \in [Peers -> Peers \cup {Nil}]
    BY <1>0, <1>1, <1>5, StepDownType, Zenon
  <2>2. /\ logs' \in [Peers -> Log] /\ lastIncludedIndex' \in [Peers -> Nat]
        /\ lastIncludedTerm' \in [Peers -> Nat] /\ UNCHANGED commitIndex
    BY <1>5, Zenon DEF TypeOK, RejectEntries, logVars
  <2>3. persist(i) \/ UNCHANGED raftstate
    BY <1>5, Zenon DEF RejectEntries
  <2>4. raftstate' \in [Peers -> PersistentState]
    BY <1>0, <2>1, <2>2, <2>3, MaybePersistType, Zenon
  <2>5. rpcs' \in SUBSET RPC
    <3>1. PICK t \in Nat, c \in Nat, ct \in Nat \cup {-1} :
             Respond(m, AEReply(m, FALSE, t, c, ct))
      <4>1. CASE Respond(m, AEReply(m, FALSE, 0, lastLogicalIndex(i) + 1, -1))
        BY Zenon, <4>1, <1>1, <1>2
      <4>2. CASE Respond(m, AEReply(m, FALSE, m.term, lastIncludedIndex[i] + 1, -1))
        BY Zenon, <4>2, <1>1, <1>2
      <4>3. CASE m.prevLogIndex \in lastIncludedIndex[i] .. lastLogicalIndex(i) /\
                 \E c \in 0 .. m.prevLogIndex :
                    Respond(m, AEReply(m, FALSE, 0, c, TermAt(i, m.prevLogIndex)))
        <5>1. TermAt(i, m.prevLogIndex) \in Nat
          BY <1>0, <4>3, LogHelpers, Zenon
        <5>2. \A c \in 0 .. m.prevLogIndex : c \in Nat
          BY <1>1
        <5> QED BY Zenon, <4>3, <5>1, <5>2, <1>1
      <4> QED BY Zenon, <1>5, <4>1, <4>2, <4>3 DEF RejectEntries
    <3>2. AEReply(m, FALSE, t, c, ct) \in RPC
      BY Zenon, <1>0, AEReplyType
    <3> QED BY Zenon, <3>1, <3>2, RespondType
  <2> QED
    BY <1>3, <2>1, <2>2, <2>4, <2>5, Zenon DEF TypeOK, leaderVars, applyVars
<1>6. CASE Adopt(i, m.term) /\ AcceptEntries(i, m)
  <2>1. /\ state' \in [Peers -> {Leader, Candidate, Follower}]
        /\ votes' \in [Peers -> SUBSET Peers]
        /\ currTerm' \in [Peers -> Nat]
        /\ votedFor' \in [Peers -> Peers \cup {Nil}]
    BY <1>0, <1>1, <1>6, StepDownType, Zenon
  <2>2. logs' \in [Peers -> Log]
    BY Zenon, <1>0, <1>6, MergeType DEF AcceptEntries
  <2>3. lastIncludedIndex' \in [Peers -> Nat] /\ lastIncludedTerm' \in [Peers -> Nat]
    BY <1>6, Zenon DEF TypeOK, AcceptEntries
  <2>4. raftstate' \in [Peers -> PersistentState]
    BY Zenon, <1>0, <1>6, <2>1, <2>2, <2>3, PersistType DEF AcceptEntries
  <2>5. commitIndex' \in [Peers -> Nat]
    <3>1. logs'[i] \in Seq(Entry) /\ logs'[i] # << >>
      BY <1>0, <2>2, Zenon DEF Log
    <3>2. Len(logs'[i]) \in Nat /\ Len(logs'[i]) # 0
      BY <3>1
    <3>3. min(m.leaderCommit, lastIncludedIndex[i] + Len(logs'[i]) - 1) \in Nat
      <4>1. lastIncludedIndex[i] + Len(logs'[i]) - 1 \in Nat
        BY <3>2, <1>2
      <4> QED BY <4>1, <1>1, Zenon DEF min
    <3>4. commitIndex \in [Peers -> Nat]
      BY Zenon DEF TypeOK
    <3> QED BY Zenon, <1>6, <3>3, <3>4 DEF AcceptEntries
  <2>6. rpcs' \in SUBSET RPC
    <3>1. AEReply(m, TRUE, 0, 0, 0) \in RPC
      BY Zenon, <1>0, <1>1, AEReplyType
    <3> QED BY Zenon, <1>6, <3>1, RespondType DEF AcceptEntries
  <2> QED
    BY <1>3, <2>1, <2>2, <2>3, <2>4, <2>5, <2>6 DEF TypeOK, leaderVars, applyVars
<1> QED
  BY Zenon, <1>4, <1>5, <1>6 DEF AppendEntries

\* Stepping down on a reply of a newer term, and persisting it.
LEMMA StepDownPersistType ==
    ASSUME TypeOK, NEW i \in Peers, NEW t \in Nat, StepDown(i, t), persist(i),
           UNCHANGED logVars
    PROVE  /\ state' \in [Peers -> {Leader, Candidate, Follower}]
           /\ votes' \in [Peers -> SUBSET Peers]
           /\ currTerm' \in [Peers -> Nat]
           /\ votedFor' \in [Peers -> Peers \cup {Nil}]
           /\ raftstate' \in [Peers -> PersistentState]
<1>1. /\ state' \in [Peers -> {Leader, Candidate, Follower}]
      /\ votes' \in [Peers -> SUBSET Peers]
      /\ currTerm' \in [Peers -> Nat]
      /\ votedFor' \in [Peers -> Peers \cup {Nil}]
  BY StepDownType, Zenon
<1>2. /\ logs' \in [Peers -> Log] /\ lastIncludedIndex' \in [Peers -> Nat]
      /\ lastIncludedTerm' \in [Peers -> Nat]
  BY Zenon DEF TypeOK, logVars
<1> QED BY <1>1, <1>2, PersistType, Zenon

\* commitIndexUpdate keeps commitIndex a natural number.
LEMMA CommitType ==
    ASSUME TypeOK, NEW i \in Peers, NEW match, commitIndexUpdate(i, match)
    PROVE  commitIndex' \in [Peers -> Nat]
<1>1. commitIndex \in [Peers -> Nat] /\ commitIndex[i] \in Nat
  BY Zenon DEF TypeOK
<1>2. lastLogicalIndex(i) \in Nat
  BY Zenon, LogHelpers
<1>3. Committable(i, match) \subseteq Nat
  <2>1. commitIndex[i] + 1 .. lastLogicalIndex(i) \subseteq Nat
    BY <1>1, <1>2
  <2> QED BY Zenon, <2>1 DEF Committable
<1> QED BY <1>1, <1>3, Zenon DEF commitIndexUpdate

\* The two outcomes of an AppendEntries call keep the leader's indexes typed.
LEMMA ReplyIndexTypes ==
    ASSUME TypeOK, NEW m \in AppendEntriesReplies, NEW i \in Peers,
           EntriesMatched(i, m) \/ EntriesRefused(i, m)
    PROVE  /\ nextIndex' \in [Peers -> [Peers -> Nat]]
           /\ matchIndex' \in [Peers -> [Peers -> Nat]]
           /\ commitIndex' \in [Peers -> Nat]
           /\ spawned' \in SUBSET Goroutine
<1> DEFINE j == m.from
<1>1. /\ j \in Peers /\ m.matched \in Nat /\ m.conflictIndex \in Nat
  BY Zenon DEF AppendEntriesReplies
<1>2. /\ nextIndex \in [Peers -> [Peers -> Nat]] /\ matchIndex \in [Peers -> [Peers -> Nat]]
      /\ commitIndex \in [Peers -> Nat] /\ spawned \in SUBSET Goroutine
      /\ matchIndex[i][j] \in Nat
  BY <1>1 DEF TypeOK
<1>3. CASE EntriesMatched(i, m)
  <2> DEFINE match == max(m.matched, matchIndex[i][j])
  <2>1. match \in Nat
    BY <1>1, <1>2, Zenon DEF max
  <2>2. /\ matchIndex' = [matchIndex EXCEPT ![i][j] = match]
        /\ nextIndex' = [nextIndex EXCEPT ![i][j] = match + 1]
        /\ commitIndexUpdate(i, [matchIndex[i] EXCEPT ![j] = match])
        /\ UNCHANGED spawned
    BY <1>3, Zenon DEF EntriesMatched
  <2>3. commitIndex' \in [Peers -> Nat]
    BY <2>2, CommitType, Zenon
  <2> HIDE DEF match
  <2>4. /\ nextIndex' \in [Peers -> [Peers -> Nat]]
        /\ matchIndex' \in [Peers -> [Peers -> Nat]]
    BY <1>1, <1>2, <2>1, <2>2
  <2> QED BY <1>2, <2>2, <2>3, <2>4, Zenon
<1>4. CASE EntriesRefused(i, m)
  <2>1. UNCHANGED <<matchIndex, commitIndex>>
    BY <1>4, Zenon DEF EntriesRefused
  <2>2. spawned' \in SUBSET Goroutine
    <3>1. \/ spawned' = spawned \cup {<<"sendInstallSnapshotToPeers", i, j>>}
          \/ UNCHANGED spawned
      BY <1>4, Zenon DEF EntriesRefused
    <3>2. <<"sendInstallSnapshotToPeers", i, j>> \in Goroutine
      BY Zenon, <1>1, GoroutineType
    <3> QED BY Zenon, <1>2, <3>1, <3>2
  <2>3. \E n \in Nat : nextIndex' = [nextIndex EXCEPT ![i][j] = n] \/ UNCHANGED nextIndex
    <3>1. CASE UNCHANGED nextIndex
      BY <3>1, Zenon
    <3>2. CASE \E p \in 1 .. Len(logs[i]) :
                  nextIndex' = [nextIndex EXCEPT ![i][j] = p + lastIncludedIndex[i]]
      <4>1. PICK p \in 1 .. Len(logs[i]) :
                  nextIndex' = [nextIndex EXCEPT ![i][j] = p + lastIncludedIndex[i]]
        BY Zenon, <3>2
      <4>2. Len(logs[i]) \in Nat /\ lastIncludedIndex[i] \in Nat
        BY LogHelpers, Zenon
      <4>3. p + lastIncludedIndex[i] \in Nat
        BY <4>2
      <4> QED BY Zenon, <4>1, <4>3
    <3>3. CASE nextIndex' = [nextIndex EXCEPT ![i][j] = max(1, m.conflictIndex)]
      <4>1. max(1, m.conflictIndex) \in Nat
        BY <1>1, Zenon DEF max
      <4> QED BY Zenon, <3>3, <4>1
    <3> QED BY <1>4, <3>1, <3>2, <3>3, Zenon DEF EntriesRefused
  <2>4. nextIndex' \in [Peers -> [Peers -> Nat]]
    BY <1>1, <1>2, <2>3
  <2> QED BY <1>2, <2>1, <2>2, <2>4, Zenon
<1> QED BY <1>3, <1>4, Zenon

\* AppendEntriesReply keeps the types.
LEMMA TypeAppendEntriesReply ==
    ASSUME TypeOK, NEW m \in rpcs, AppendEntriesReply(m)
    PROVE  TypeOK'
<1> DEFINE i == m.to
<1>0. m \in AppendEntriesReplies /\ i \in Peers
  BY MessageTypes, Zenon DEF AppendEntriesReply
<1>1. m.term \in Nat
  BY <1>0, Zenon DEF AppendEntriesReplies
<1>2. rpcs' \in SUBSET RPC /\ UNCHANGED logVars
      /\ UNCHANGED <<snapshot, applyVars, restarts, elected>>
  BY Zenon DEF TypeOK, AppendEntriesReply
<1>3. CASE /\ StepDown(i, m.term) /\ persist(i)
           /\ UNCHANGED <<leaderVars, commitIndex, spawned>>
  <2>1. /\ state' \in [Peers -> {Leader, Candidate, Follower}]
        /\ votes' \in [Peers -> SUBSET Peers]
        /\ currTerm' \in [Peers -> Nat]
        /\ votedFor' \in [Peers -> Peers \cup {Nil}]
        /\ raftstate' \in [Peers -> PersistentState]
    BY <1>0, <1>1, <1>2, <1>3, StepDownPersistType, Zenon
  <2> QED BY <1>2, <1>3, <2>1, Zenon DEF TypeOK, leaderVars, logVars, applyVars
<1>4. CASE /\ EntriesMatched(i, m) \/ EntriesRefused(i, m)
           /\ UNCHANGED <<serverVars, raftstate>>
  <2>1. /\ nextIndex' \in [Peers -> [Peers -> Nat]]
        /\ matchIndex' \in [Peers -> [Peers -> Nat]]
        /\ commitIndex' \in [Peers -> Nat]
        /\ spawned' \in SUBSET Goroutine
    BY <1>0, <1>4, ReplyIndexTypes, Zenon
  <2> QED BY <1>2, <1>4, <2>1, Zenon DEF TypeOK, serverVars, logVars, applyVars
<1>5. CASE UNCHANGED <<serverVars, raftstate, leaderVars, commitIndex, spawned>>
  BY <1>2, <1>5, Zenon DEF TypeOK, serverVars, leaderVars, logVars, applyVars
<1> QED
  BY Zenon, <1>3, <1>4, <1>5 DEF AppendEntriesReply

\* A dummy entry followed by entries is a log.
LEMMA CutType ==
    ASSUME NEW t \in Nat, NEW s \in Seq(Entry)
    PROVE  <<Dummy(t)>> \o s \in Log
<1>1. <<Dummy(t)>> \in Seq(Entry) /\ Len(<<Dummy(t)>>) = 1
  BY DEF Dummy, Entry
<1>2. <<Dummy(t)>> \o s \in Seq(Entry) /\ Len(<<Dummy(t)>> \o s) = 1 + Len(s)
  BY <1>1
<1>3. Len(s) \in Nat
  OBVIOUS
<1> QED BY <1>2, <1>3 DEF Log

\* Snapshot keeps the types.
LEMMA TypeSnapshot ==
    ASSUME TypeOK, NEW i \in Peers, Snapshot(i)
    PROVE  TypeOK'
<1> DEFINE n == service[i]
<1>1. n \in Nat /\ lastApplied[i] \in Nat /\ logs \in [Peers -> Log]
  BY Zenon DEF TypeOK
<1>2. n \in lastIncludedIndex[i] + 1 .. lastLogicalIndex(i)
  BY Zenon DEF Snapshot
<1>3. lastIncludedIndex[i] \in Nat /\ lastLogicalIndex(i) \in Nat
  BY LogHelpers, Zenon
<1>4. /\ n \in lastIncludedIndex[i] .. lastLogicalIndex(i)
      /\ n + 1 \in lastIncludedIndex[i] + 1 .. lastLogicalIndex(i) + 1
  BY <1>1, <1>2, <1>3
<1>5. TermAt(i, n) \in Nat /\ Suffix(i, n + 1) \in Seq(Entry)
  BY <1>4, LogHelpers, Zenon
<1>6. <<Dummy(TermAt(i, n))>> \o Suffix(i, n + 1) \in Log
  BY <1>5, CutType, Zenon
<1>7. logs' \in [Peers -> Log]
  BY <1>1, <1>6, Zenon DEF Snapshot
<1>8. /\ currTerm' \in [Peers -> Nat] /\ votedFor' \in [Peers -> Peers \cup {Nil}]
      /\ lastIncludedIndex' \in [Peers -> Nat] /\ lastIncludedTerm' \in [Peers -> Nat]
      /\ snapshot' \in [Peers -> Nat]
  BY <1>1, <1>5, Zenon DEF TypeOK, Snapshot, serverVars
<1>9. raftstate' \in [Peers -> PersistentState]
  BY Zenon, <1>7, <1>8, PersistType DEF Snapshot
<1>10. lastApplied' \in [Peers -> Nat]
  <2>1. max(n, lastApplied[i]) \in Nat
    BY <1>1, Zenon DEF max
  <2> QED BY <2>1, Zenon DEF TypeOK, Snapshot
<1> QED
  BY Zenon, <1>7, <1>8, <1>9, <1>10 DEF TypeOK, Snapshot, serverVars, leaderVars

\* sendInstallSnapshotToPeers keeps the types.
LEMMA TypeSendInstallSnapshot ==
    ASSUME TypeOK, NEW i \in Peers, NEW j \in Peers, sendInstallSnapshotToPeers(i, j)
    PROVE  TypeOK'
<1> DEFINE request == [type |-> "InstallSnapshot", from |-> i, to |-> j, live |-> TRUE,
                       term              |-> currTerm[i],
                       lastIncludedIndex |-> lastIncludedIndex[i],
                       lastIncludedTerm  |-> lastIncludedTerm[i], data |-> snapshot[i]]
<1>1. request \in InstallSnapshotArgs
  BY Zenon DEF TypeOK, InstallSnapshotArgs
<1>2. rpcs' \in SUBSET RPC
  <2>1. rpcs' = rpcs \cup {request} /\ rpcs \in SUBSET RPC
    BY Zenon DEF sendInstallSnapshotToPeers, TypeOK
  <2> QED BY Zenon, <1>1, <2>1 DEF RPC
<1>3. spawned' \in SUBSET Goroutine
  BY Zenon DEF TypeOK, sendInstallSnapshotToPeers
<1> QED
  BY <1>2, <1>3, Zenon DEF TypeOK, sendInstallSnapshotToPeers, serverVars, logVars, leaderVars,
                    persister, applyVars

\* InstallSnapshot keeps the types: the log keeps a dummy entry whether or not it
\* contained the snapshot's last entry.
LEMMA TypeInstallSnapshot ==
    ASSUME TypeOK, NEW m \in rpcs, InstallSnapshot(m)
    PROVE  TypeOK'
<1> DEFINE i == m.to
           n == m.lastIncludedIndex
           reply(t) == [type |-> "InstallSnapshotReply", from |-> i, to |-> m.from,
                        argsTerm |-> m.term, lastIncludedIndex |-> n, term |-> t]
<1>0. m \in InstallSnapshotArgs /\ i \in Peers /\ m.from \in Peers
  BY Zenon, MessageTypes DEF InstallSnapshot
<1>1. /\ m.term \in Nat /\ n \in Nat /\ m.lastIncludedTerm \in Nat /\ m.data \in Nat
      /\ currTerm[i] \in Nat
  BY <1>0, Zenon DEF InstallSnapshotArgs, TypeOK
<1>2. UNCHANGED <<leaderVars, spawned, restarts, elected>>
  BY Zenon DEF InstallSnapshot
<1>3. \A t \in Nat : reply(t) \in RPC
  <2>1. \A t \in Nat : reply(t) \in InstallSnapshotReplies
    BY Zenon, <1>0, <1>1 DEF InstallSnapshotReplies
  <2> QED BY <2>1, Zenon DEF RPC
<1>4. rpcs' \in SUBSET RPC
  <2>1. \E t \in Nat : Respond(m, reply(t))
    BY Zenon, <1>1 DEF InstallSnapshot
  <2> QED BY <1>3, <2>1, RespondType, Zenon
<1>5. CASE UNCHANGED <<serverVars, logVars, commitIndex, persister, applyVars>>
  BY <1>2, <1>4, <1>5, Zenon DEF TypeOK, serverVars, logVars, persister, leaderVars, applyVars
<1>6. CASE /\ Adopt(i, m.term)
           /\ UNCHANGED <<logVars, commitIndex, snapshot, applyVars>>
           /\ persist(i) \/ UNCHANGED raftstate
  <2>1. /\ state' \in [Peers -> {Leader, Candidate, Follower}]
        /\ votes' \in [Peers -> SUBSET Peers]
        /\ currTerm' \in [Peers -> Nat]
        /\ votedFor' \in [Peers -> Peers \cup {Nil}]
    BY <1>0, <1>1, <1>6, StepDownType, Zenon
  <2>2. /\ logs' \in [Peers -> Log] /\ lastIncludedIndex' \in [Peers -> Nat]
        /\ lastIncludedTerm' \in [Peers -> Nat]
    BY <1>6, Zenon DEF TypeOK, logVars
  <2>3. raftstate' \in [Peers -> PersistentState]
    BY <1>0, <1>6, <2>1, <2>2, MaybePersistType, Zenon
  <2> QED
    BY <1>2, <1>4, <1>6, <2>1, <2>2, <2>3 DEF TypeOK, leaderVars, applyVars
<1>7. CASE /\ Adopt(i, m.term)
           /\ n > lastIncludedIndex[i]
           /\ logs' = [logs EXCEPT ![i] = LogAfterSnapshot(i, m)]
           /\ lastIncludedIndex' = [lastIncludedIndex EXCEPT ![i] = n]
           /\ lastIncludedTerm' = [lastIncludedTerm EXCEPT ![i] = m.lastIncludedTerm]
           /\ commitIndex' = [commitIndex EXCEPT ![i] = max(n, @)]
           /\ lastApplied' = [lastApplied EXCEPT ![i] = max(n, @)]
           /\ persist(i)
           /\ snapshot' = [snapshot EXCEPT ![i] = m.data]
           /\ snapMsgs' = [snapMsgs EXCEPT ![i] = @ \cup {n}]
           /\ UNCHANGED <<applyMsg, service>>
  <2>1. /\ state' \in [Peers -> {Leader, Candidate, Follower}]
        /\ votes' \in [Peers -> SUBSET Peers]
        /\ currTerm' \in [Peers -> Nat]
        /\ votedFor' \in [Peers -> Peers \cup {Nil}]
    BY Zenon, <1>0, <1>1, <1>7, StepDownType
  <2>2. LogAfterSnapshot(i, m) \in Log
    <3>1. CASE n <= lastLogicalIndex(i) /\ TermAt(i, n) = m.lastIncludedTerm
      <4>1. lastIncludedIndex[i] \in Nat /\ lastLogicalIndex(i) \in Nat
        BY <1>0, LogHelpers, Zenon
      <4>2. n + 1 \in lastIncludedIndex[i] + 1 .. lastLogicalIndex(i) + 1
        <5>1. n \in Nat /\ n > lastIncludedIndex[i] /\ n <= lastLogicalIndex(i)
          BY Zenon, <1>1, <1>7, <3>1
        <5> QED BY <4>1, <5>1, OneAfter, Zenon
      <4>3. Suffix(i, n + 1) \in Seq(Entry)
        BY <1>0, <4>2, LogHelpers, Zenon
      <4>4. <<Dummy(m.lastIncludedTerm)>> \o Suffix(i, n + 1) \in Log
        BY <1>1, <4>3, CutType, Zenon
      <4> QED BY <3>1, <4>4, Zenon DEF LogAfterSnapshot
    <3>2. CASE ~(n <= lastLogicalIndex(i) /\ TermAt(i, n) = m.lastIncludedTerm)
      <4>1. << >> \in Seq(Entry)
        OBVIOUS
      <4>2. <<Dummy(m.lastIncludedTerm)>> \o << >> \in Log
        BY Zenon, <1>1, <4>1, CutType
      <4> QED BY Zenon, <3>2, <4>2 DEF LogAfterSnapshot
    <3> QED BY <3>1, <3>2, Zenon
  <2>3. /\ logs' \in [Peers -> Log] /\ lastIncludedIndex' \in [Peers -> Nat]
        /\ lastIncludedTerm' \in [Peers -> Nat]
    BY <1>0, <1>1, <1>7, <2>2 DEF TypeOK
  <2>4. raftstate' \in [Peers -> PersistentState]
    BY Zenon, <1>0, <1>7, <2>1, <2>3, PersistType
  <2>5. /\ commitIndex' \in [Peers -> Nat] /\ lastApplied' \in [Peers -> Nat]
        /\ snapshot' \in [Peers -> Nat] /\ snapMsgs' \in [Peers -> SUBSET Nat]
    <3>1. max(n, commitIndex[i]) \in Nat /\ max(n, lastApplied[i]) \in Nat
      BY <1>0, <1>1, Zenon DEF TypeOK, max
    <3> QED BY <1>0, <1>1, <1>7, <3>1 DEF TypeOK
  <2> QED
    BY <1>2, <1>4, <1>7, <2>1, <2>3, <2>4, <2>5 DEF TypeOK, leaderVars
<1> QED
  BY Zenon, <1>5, <1>6, <1>7 DEF InstallSnapshot

\* InstallSnapshotReply keeps the types.
LEMMA TypeInstallSnapshotReply ==
    ASSUME TypeOK, NEW m \in rpcs, InstallSnapshotReply(m)
    PROVE  TypeOK'
<1> DEFINE i == m.to
           j == m.from
           match == max(m.lastIncludedIndex, matchIndex[i][j])
<1>0. m \in InstallSnapshotReplies /\ i \in Peers /\ j \in Peers
  BY MessageTypes, Zenon DEF InstallSnapshotReply
<1>1. m.term \in Nat /\ m.lastIncludedIndex \in Nat /\ matchIndex[i][j] \in Nat
  BY <1>0 DEF InstallSnapshotReplies, TypeOK
<1>2. /\ rpcs' \in SUBSET RPC /\ UNCHANGED logVars
      /\ UNCHANGED <<commitIndex, snapshot, spawned, applyVars, restarts, elected>>
  BY Zenon DEF TypeOK, InstallSnapshotReply
<1>3. CASE StepDown(i, m.term) /\ persist(i) /\ UNCHANGED leaderVars
  <2>1. /\ state' \in [Peers -> {Leader, Candidate, Follower}]
        /\ votes' \in [Peers -> SUBSET Peers]
        /\ currTerm' \in [Peers -> Nat]
        /\ votedFor' \in [Peers -> Peers \cup {Nil}]
        /\ raftstate' \in [Peers -> PersistentState]
    BY <1>0, <1>1, <1>2, <1>3, StepDownPersistType, Zenon
  <2> QED BY <1>2, <1>3, <2>1, Zenon DEF TypeOK, leaderVars, logVars, applyVars
<1>4. CASE /\ matchIndex' = [matchIndex EXCEPT ![i][j] = match]
           /\ nextIndex' = [nextIndex EXCEPT ![i][j] = max(match + 1, @)]
           /\ UNCHANGED <<serverVars, raftstate>>
  <2>1. match \in Nat /\ nextIndex[i][j] \in Nat
    <3>1. nextIndex[i][j] \in Nat
      BY <1>0 DEF TypeOK
    <3> QED BY Zenon, <1>1, <3>1, MaxIsNat
  <2> HIDE DEF match
  <2>2. max(match + 1, nextIndex[i][j]) \in Nat
    <3>1. match + 1 \in Nat
      BY <2>1
    <3> QED BY Zenon, <2>1, <3>1, MaxIsNat
  <2>3. /\ nextIndex' \in [Peers -> [Peers -> Nat]]
        /\ matchIndex' \in [Peers -> [Peers -> Nat]]
    BY <1>0, <1>4, <2>1, <2>2, Zenon DEF TypeOK
  <2> QED BY <1>2, <1>4, <2>3, Zenon DEF TypeOK, serverVars, logVars, applyVars
<1>5. CASE UNCHANGED <<serverVars, raftstate, leaderVars>>
  BY <1>2, <1>5, Zenon DEF TypeOK, serverVars, leaderVars, logVars, applyVars
<1> QED
  BY <1>3, <1>4, <1>5, Zenon DEF InstallSnapshotReply

\* The three steps of the apply channel keep the types.
LEMMA TypeApply ==
    ASSUME TypeOK, NEW i \in Peers,
           \/ sendApplyMsg(i) \/ applyCommand(i)
           \/ \E k \in snapMsgs[i] : applySnapshot(i, k)
    PROVE  TypeOK'
<1>1. /\ lastApplied[i] \in Nat /\ applyMsg[i] \in Nat /\ service[i] \in Nat
      /\ snapMsgs[i] \in SUBSET Nat
  BY Zenon DEF TypeOK
<1>2. CASE sendApplyMsg(i)
  <2>1. lastApplied' \in [Peers -> Nat] /\ applyMsg' \in [Peers -> Nat]
    <3>0. lastApplied[i] \in Nat
      BY Zenon DEF TypeOK
    <3>1. lastApplied[i] + 1 \in Nat
      BY <3>0, NextIsNat, Zenon
    <3>2. /\ lastApplied' = [lastApplied EXCEPT ![i] = lastApplied[i] + 1]
          /\ applyMsg' = [applyMsg EXCEPT ![i] = lastApplied[i] + 1]
      BY Zenon, <1>2 DEF sendApplyMsg
    <3> QED BY <3>1, <3>2, Zenon DEF TypeOK
  <2> QED BY <1>2, <2>1, Zenon DEF TypeOK, sendApplyMsg, serverVars, logVars, leaderVars, persister
<1>3. CASE applyCommand(i)
  <2>1. service' \in [Peers -> Nat] /\ applyMsg' \in [Peers -> Nat]
    BY <1>1, <1>3, Zenon DEF TypeOK, applyCommand
  <2> QED BY <1>3, <2>1, Zenon DEF TypeOK, applyCommand, serverVars, logVars, leaderVars, persister
<1>4. ASSUME NEW n \in snapMsgs[i], applySnapshot(i, n)
      PROVE  TypeOK'
  <2>1. max(service[i], n) \in Nat
    BY <1>1, MaxIsNat, Zenon
  <2>2. service' \in [Peers -> Nat] /\ snapMsgs' \in [Peers -> SUBSET Nat]
    BY <2>1, <1>4, Zenon DEF TypeOK, applySnapshot
  <2> QED BY <1>4, <2>2, Zenon DEF TypeOK, applySnapshot, serverVars, logVars, leaderVars, persister
<1> QED BY <1>2, <1>3, <1>4, Zenon

\* A restart from the persister keeps the types.
LEMMA TypeMake ==
    ASSUME TypeOK, NEW i \in Peers, Make(i)
    PROVE  TypeOK'
<1> DEFINE saved == raftstate[i]
<1>1. /\ saved.currTerm \in Nat /\ saved.votedFor \in Peers \cup {Nil} /\ saved.logs \in Log
      /\ saved.lastIncludedIndex \in Nat /\ saved.lastIncludedTerm \in Nat
      /\ snapshot[i] \in Nat
  <2>1. saved \in PersistentState /\ snapshot[i] \in Nat
    BY Zenon DEF TypeOK
  <2> QED BY Zenon, <2>1 DEF PersistentState
<1>2. /\ state' \in [Peers -> {Leader, Candidate, Follower}]
      /\ votes' \in [Peers -> SUBSET Peers]
  BY Zenon, BecomeType DEF Make
<1>3. /\ currTerm' \in [Peers -> Nat] /\ votedFor' \in [Peers -> Peers \cup {Nil}]
      /\ logs' \in [Peers -> Log] /\ lastIncludedIndex' \in [Peers -> Nat]
      /\ lastIncludedTerm' \in [Peers -> Nat] /\ commitIndex' \in [Peers -> Nat]
      /\ lastApplied' \in [Peers -> Nat]
  BY <1>1, Zenon DEF TypeOK, Make
<1>4. /\ nextIndex' \in [Peers -> [Peers -> Nat]] /\ matchIndex' \in [Peers -> [Peers -> Nat]]
      /\ applyMsg' \in [Peers -> Nat] /\ snapMsgs' \in [Peers -> SUBSET Nat]
      /\ service' \in [Peers -> Nat] /\ restarts' \in Nat
  <2>1. /\ nextIndex' \in [Peers -> [Peers -> Nat]]
        /\ matchIndex' \in [Peers -> [Peers -> Nat]]
    BY Zenon DEF TypeOK, Make
  <2>2. /\ applyMsg' \in [Peers -> Nat] /\ service' \in [Peers -> Nat]
        /\ snapMsgs' \in [Peers -> SUBSET Nat]
    BY <1>1, Zenon DEF TypeOK, Make
  <2>3. restarts' \in Nat
    BY DEF TypeOK, Make
  <2> QED BY <2>1, <2>2, <2>3, Zenon
<1>5. rpcs' \in SUBSET RPC
  <2>1. ASSUME NEW m \in rpcs
        PROVE  Orphaned(i, m) \in RPC
    <3>1. CASE m.type = "RequestVote"
      <4>1. m \in RequestVoteArgs
        BY <3>1, MessageTypes, Zenon
      <4>2. Orphaned(i, m) \in RequestVoteArgs
        BY Zenon, <4>1 DEF RequestVoteArgs, Orphaned
      <4> QED BY <4>2, Zenon DEF RPC
    <3>2. CASE m.type = "AppendEntries"
      <4>1. m \in AppendEntriesArgs
        BY <3>2, MessageTypes, Zenon
      <4>2. Orphaned(i, m) \in AppendEntriesArgs
        BY Zenon, <4>1 DEF AppendEntriesArgs, Orphaned
      <4> QED BY <4>2, Zenon DEF RPC
    <3>3. CASE m.type = "InstallSnapshot"
      <4>1. m \in InstallSnapshotArgs
        BY <3>3, MessageTypes, Zenon
      <4>2. Orphaned(i, m) \in InstallSnapshotArgs
        BY Zenon, <4>1 DEF InstallSnapshotArgs, Orphaned
      <4> QED BY <4>2, Zenon DEF RPC
    <3>4. CASE m.type \notin {"RequestVote", "AppendEntries", "InstallSnapshot"}
      BY <3>4, MessageTypes, Zenon DEF Orphaned
    <3> QED BY <3>1, <3>2, <3>3, <3>4, Zenon
  <2> QED BY Zenon, <2>1 DEF Make
<1>6. spawned' \in SUBSET Goroutine
  BY Zenon DEF TypeOK, Make
<1> QED
  BY Zenon, <1>2, <1>3, <1>4, <1>5, <1>6 DEF TypeOK, Make, persister

\* Every step keeps the types.
LEMMA TypeStep == TypeOK /\ [Next]_vars => TypeOK'
<1> SUFFICES ASSUME TypeOK, [Next]_vars PROVE TypeOK'
  BY Zenon
<1>1. CASE UNCHANGED vars
  BY <1>1, Zenon DEF TypeOK, vars, serverVars, logVars, leaderVars, persister, applyVars
<1>2. ASSUME NEW i \in Peers, startElection(i) PROVE TypeOK'
  BY <1>2, TypeStartElection, Zenon
<1>3. ASSUME NEW i \in Peers, NEW c \in Commands, Start(i, c) PROVE TypeOK'
  BY <1>3, TypeStart, Zenon
<1>4. ASSUME NEW i \in Peers, Snapshot(i) PROVE TypeOK'
  BY <1>4, TypeSnapshot, Zenon
<1>5. ASSUME NEW i \in Peers,
             \/ sendApplyMsg(i) \/ applyCommand(i)
             \/ \E k \in snapMsgs[i] : applySnapshot(i, k)
      PROVE  TypeOK'
  BY <1>5, TypeApply, Zenon
<1>6. ASSUME NEW i \in Peers, Make(i) PROVE TypeOK'
  BY <1>6, TypeMake, Zenon
<1>7. ASSUME NEW i \in Peers, NEW j \in Peers, makeAppendEntry(i, j) PROVE TypeOK'
  BY <1>7, TypeMakeAppendEntry, Zenon
<1>8. ASSUME NEW i \in Peers, NEW j \in Peers, sendInstallSnapshotToPeers(i, j) PROVE TypeOK'
  BY <1>8, TypeSendInstallSnapshot, Zenon
<1>9. ASSUME NEW i \in Peers, NEW j \in Peers,
             NEW f \in {"startElection", "makeAppendEntry"}, Delay(f, i, j)
      PROVE  TypeOK'
  <2>1. spawned' \in SUBSET Goroutine
    <3>1. spawned' = spawned \cup {<<f, i, j>>} /\ spawned \in SUBSET Goroutine
      BY <1>9, Zenon DEF TypeOK, Delay
    <3>2. <<f, i, j>> \in Goroutine
      BY Zenon, <1>9, GoroutineType
    <3> QED BY <3>1, <3>2, Zenon
  <2> QED
    BY <1>9, <2>1, Zenon DEF TypeOK, Delay, serverVars, logVars, leaderVars, persister, applyVars
<1>10. ASSUME NEW m \in rpcs, Finish(m) PROVE TypeOK'
  <2>1. CASE LoseRPC(m)
    BY <2>1, Zenon DEF TypeOK, LoseRPC, serverVars, logVars, leaderVars, persister, applyVars
  <2> QED
    BY <1>10, <2>1, TypeRequestVote, TypeRequestVoteReply, TypeAppendEntries,
       TypeAppendEntriesReply, TypeInstallSnapshot, TypeInstallSnapshotReply DEF Finish
<1> QED
  BY Zenon, <1>1, <1>2, <1>3, <1>4, <1>5, <1>6, <1>7, <1>8, <1>9, <1>10 DEF Next

\* Type correctness, for any number of peers: in particular every rf.logs keeps its
\* dummy entry, so the last-entry lookups of RequestVote and startElection and the
\* index arithmetic of raft.go never leave the slice at its lower end.
THEOREM TypeCorrect == Spec => []TypeOK
  BY TypeInit, TypeStep, PTL DEF Spec

-----------------------------------------------------------------------------
(* What is persisted is current.                                           *)

\* The persistent fields of j do not change.
FieldsKept(j) ==
    /\ currTerm'[j] = currTerm[j]
    /\ votedFor'[j] = votedFor[j]
    /\ logs'[j] = logs[j]
    /\ lastIncludedIndex'[j] = lastIncludedIndex[j]
    /\ lastIncludedTerm'[j] = lastIncludedTerm[j]

\* Only i's persistent fields may change, and then i persists them.
SavedStep(i) ==
    /\ \A j \in Peers \ {i} : FieldsKept(j)
    /\ persist(i) \/ (UNCHANGED raftstate /\ FieldsKept(i))

\* No step but these changes what PersistedIsCurrent speaks of.
LEMMA SavedStepKeeps ==
    ASSUME TypeOK, PersistedIsCurrent, NEW i \in Peers, SavedStep(i)
    PROVE  PersistedIsCurrent'
<1> SUFFICES ASSUME NEW j \in Peers
             PROVE  raftstate'[j] = [currTerm |-> currTerm'[j], votedFor |-> votedFor'[j],
                        logs |-> logs'[j], lastIncludedIndex |-> lastIncludedIndex'[j],
                        lastIncludedTerm |-> lastIncludedTerm'[j]]
  BY Zenon DEF PersistedIsCurrent
<1>1. raftstate \in [Peers -> PersistentState]
  BY Zenon DEF TypeOK
<1>2. CASE j = i /\ persist(i)
  BY <1>1, <1>2, Zenon DEF persist
<1>3. CASE raftstate'[j] = raftstate[j] /\ FieldsKept(j)
  BY <1>3, Zenon DEF PersistedIsCurrent, FieldsKept
<1>4. j # i /\ persist(i) => raftstate'[j] = raftstate[j]
  BY <1>1, Zenon DEF persist
<1> QED BY <1>2, <1>3, <1>4, Zenon DEF SavedStep

\* A restart finds in the persister what the server had before it.
LEMMA MakeKeepsFields ==
    ASSUME TypeOK, PersistedIsCurrent, NEW i \in Peers, Make(i), NEW j \in Peers
    PROVE  FieldsKept(j)
<1>1. raftstate[i] = [currTerm |-> currTerm[i], votedFor |-> votedFor[i],
                      logs |-> logs[i], lastIncludedIndex |-> lastIncludedIndex[i],
                      lastIncludedTerm |-> lastIncludedTerm[i]]
  BY Zenon DEF PersistedIsCurrent
<1>2. /\ raftstate[i].currTerm = currTerm[i] /\ raftstate[i].votedFor = votedFor[i]
      /\ raftstate[i].logs = logs[i]
      /\ raftstate[i].lastIncludedIndex = lastIncludedIndex[i]
      /\ raftstate[i].lastIncludedTerm = lastIncludedTerm[i]
  BY <1>1
<1> QED BY <1>2, Zenon DEF Make, FieldsKept, TypeOK

\* Nothing persistent changes.
LEMMA UnchangedIsSaved ==
    ASSUME UNCHANGED <<currTerm, votedFor, logVars, raftstate>>, NEW i \in Peers
    PROVE  SavedStep(i)
  BY Zenon DEF SavedStep, FieldsKept, logVars

\* The handlers of replies persist every change of term or vote.
LEMMA RepliesSave ==
    ASSUME TypeOK, NEW m \in rpcs,
           RequestVoteReply(m) \/ AppendEntriesReply(m) \/ InstallSnapshotReply(m)
    PROVE  SavedStep(m.to)
<1>1. m.to \in Peers
  BY MessageTypes, Zenon
<1>2. UNCHANGED logVars
  BY Zenon DEF RequestVoteReply, AppendEntriesReply, InstallSnapshotReply
<1>3. \/ StepDown(m.to, m.term) /\ persist(m.to)
      \/ UNCHANGED <<currTerm, votedFor, raftstate>>
  BY Zenon DEF RequestVoteReply, AppendEntriesReply, InstallSnapshotReply, serverVars, persister
<1>4. CASE StepDown(m.to, m.term) /\ persist(m.to)
  BY <1>1, <1>2, <1>4, Zenon DEF TypeOK, StepDown, SavedStep, FieldsKept, logVars
<1>5. CASE UNCHANGED <<currTerm, votedFor, raftstate>>
  BY <1>1, <1>2, <1>5, UnchangedIsSaved, Zenon
<1> QED BY <1>3, <1>4, <1>5, Zenon

\* So do the handlers of requests.
LEMMA RequestsSave ==
    ASSUME TypeOK, NEW m \in rpcs,
           RequestVote(m) \/ AppendEntries(m) \/ InstallSnapshot(m)
    PROVE  SavedStep(m.to)
<1> DEFINE i == m.to
<1>0. i \in Peers /\ currTerm[i] \in Nat
  BY MessageTypes, Zenon DEF TypeOK
<1>1. CASE RequestVote(m)
  <2>1. m.term \in Nat
    BY <1>1, MessageTypes, Zenon DEF RequestVote, RequestVoteArgs
  <2>2. /\ currTerm' = [currTerm EXCEPT ![i] = max(@, m.term)]
        /\ \E v : votedFor' = [votedFor EXCEPT ![i] = v]
        /\ UNCHANGED logVars
    BY Zenon, <1>1 DEF RequestVote
  <2>3. \A j \in Peers \ {i} : FieldsKept(j)
    BY <1>0, <2>2, Zenon DEF FieldsKept, TypeOK, logVars
  <2>4. CASE persist(i)
    BY <2>3, <2>4, Zenon DEF SavedStep
  <2>5. CASE /\ ~(MayVote(i, m) /\ UpToDate(i, m)) /\ ~(m.term > currTerm[i])
             /\ UNCHANGED raftstate
    <3>1. max(currTerm[i], m.term) = currTerm[i]
      BY <1>0, <2>1, <2>5 DEF max
    <3>2. FieldsKept(i)
      <4>1. currTerm'[i] = currTerm[i]
        BY <1>0, <2>2, <3>1, Zenon DEF TypeOK
      <4>2. votedFor'[i] = votedFor[i]
        BY <1>0, <1>1, <2>5, Zenon DEF RequestVote, TypeOK
      <4> QED BY <2>2, <4>1, <4>2, Zenon DEF FieldsKept, logVars
    <3> QED BY <2>3, <2>5, <3>2, Zenon DEF SavedStep
  <2> QED BY <1>1, <2>4, <2>5, Zenon DEF RequestVote
<1>2. CASE UNCHANGED <<serverVars, logVars, raftstate>>
  BY <1>0, <1>2, UnchangedIsSaved, Zenon DEF serverVars
<1>3. CASE /\ Adopt(i, m.term) /\ UNCHANGED logVars
           /\ m.term \in Nat /\ m.term >= currTerm[i]
           /\ IF m.term > currTerm[i] THEN persist(i) ELSE UNCHANGED raftstate
  <2>1. \A j \in Peers \ {i} : FieldsKept(j)
    BY <1>0, <1>3, Zenon DEF FieldsKept, Adopt, TypeOK, logVars
  <2>2. CASE m.term > currTerm[i]
    BY <1>3, <2>1, <2>2, Zenon DEF SavedStep
  <2>3. CASE m.term = currTerm[i]
    <3>1. ~(m.term > currTerm[i])
      BY <1>0, <2>3
    <3>2. currTerm'[i] = currTerm[i] /\ votedFor'[i] = votedFor[i]
      BY <1>0, <1>3, <2>3, <3>1, Zenon DEF Adopt, TypeOK
    <3>3. FieldsKept(i)
      BY <1>3, <3>2, Zenon DEF FieldsKept, logVars
    <3> QED BY <1>0, <1>3, <2>1, <3>1, <3>3, Zenon DEF SavedStep
  <2> QED BY <1>0, <1>3, <2>2, <2>3
<1>4. CASE /\ Adopt(i, m.term) /\ persist(i)
           /\ \E l : logs' = [logs EXCEPT ![i] = l]
           /\ \E x : lastIncludedIndex' = [lastIncludedIndex EXCEPT ![i] = x]
           /\ \E y : lastIncludedTerm' = [lastIncludedTerm EXCEPT ![i] = y]
  <2>1. \A j \in Peers \ {i} : FieldsKept(j)
    BY <1>0, <1>4, ZenonT(60) DEF FieldsKept, Adopt, TypeOK
  <2> QED BY <1>4, <2>1, Zenon DEF SavedStep
<1>5. CASE AppendEntries(m)
  <2>1. m.term \in Nat
    BY <1>5, MessageTypes, Zenon DEF AppendEntries, AppendEntriesArgs
  <2>2. CASE m.term >= currTerm[i] /\ Adopt(i, m.term) /\ RejectEntries(i, m)
    BY <1>3, <2>1, <2>2, Zenon DEF RejectEntries
  <2>3. CASE Adopt(i, m.term) /\ AcceptEntries(i, m)
    <3>1. /\ \E l : logs' = [logs EXCEPT ![i] = l]
          /\ \E x : lastIncludedIndex' = [lastIncludedIndex EXCEPT ![i] = x]
          /\ \E y : lastIncludedTerm' = [lastIncludedTerm EXCEPT ![i] = y]
      <4>1. /\ logs = [logs EXCEPT ![i] = logs[i]]
            /\ lastIncludedIndex = [lastIncludedIndex EXCEPT ![i] = lastIncludedIndex[i]]
            /\ lastIncludedTerm = [lastIncludedTerm EXCEPT ![i] = lastIncludedTerm[i]]
        BY <1>0, Zenon DEF TypeOK
      <4> QED BY Zenon, <2>3, <4>1 DEF AcceptEntries, MergeEntries
    <3> QED BY Zenon, <1>4, <2>3, <3>1 DEF AcceptEntries
  <2> QED BY Zenon, <1>2, <1>5, <2>2, <2>3 DEF AppendEntries
<1>6. CASE InstallSnapshot(m)
  <2>1. m.term \in Nat
    BY <1>6, MessageTypes, Zenon DEF InstallSnapshot, InstallSnapshotArgs
  <2>2. \/ UNCHANGED <<serverVars, logVars, raftstate>>
        \/ /\ m.term >= currTerm[i] /\ Adopt(i, m.term) /\ UNCHANGED logVars
           /\ IF m.term > currTerm[i] THEN persist(i) ELSE UNCHANGED raftstate
        \/ /\ Adopt(i, m.term) /\ persist(i)
           /\ \E l : logs' = [logs EXCEPT ![i] = l]
           /\ \E x : lastIncludedIndex' = [lastIncludedIndex EXCEPT ![i] = x]
           /\ \E y : lastIncludedTerm' = [lastIncludedTerm EXCEPT ![i] = y]
    BY Zenon, <1>6 DEF InstallSnapshot, persister
  <2> QED BY <1>2, <1>3, <1>4, <2>1, <2>2, Zenon
<1> QED BY <1>1, <1>5, <1>6, Zenon

\* What is persisted stays current over every step.
LEMMA PersistedStep == TypeOK /\ PersistedIsCurrent /\ [Next]_vars => PersistedIsCurrent'
<1> SUFFICES ASSUME TypeOK, PersistedIsCurrent, [Next]_vars PROVE PersistedIsCurrent'
  BY Zenon
<1>1. CASE UNCHANGED <<currTerm, votedFor, logVars, raftstate>>
  BY <1>1, Zenon DEF PersistedIsCurrent, logVars
<1>2. ASSUME NEW i \in Peers, startElection(i) PROVE PersistedIsCurrent'
  <2>1. SavedStep(i)
    BY <1>2, Zenon DEF SavedStep, FieldsKept, startElection, TypeOK, logVars
  <2> QED BY <2>1, SavedStepKeeps, Zenon
<1>3. ASSUME NEW i \in Peers, NEW c \in Commands, Start(i, c) PROVE PersistedIsCurrent'
  <2>1. SavedStep(i)
    BY <1>3, Zenon DEF SavedStep, FieldsKept, Start, TypeOK, serverVars
  <2> QED BY <2>1, SavedStepKeeps, Zenon
<1>4. ASSUME NEW i \in Peers, Snapshot(i) PROVE PersistedIsCurrent'
  <2>1. SavedStep(i)
    BY <1>4, Zenon DEF SavedStep, FieldsKept, Snapshot, TypeOK, serverVars
  <2> QED BY <2>1, SavedStepKeeps, Zenon
<1>5. ASSUME NEW i \in Peers, Make(i) PROVE PersistedIsCurrent'
  <2>1. SavedStep(i)
    BY Zenon, <1>5, MakeKeepsFields DEF SavedStep, Make, persister
  <2> QED BY <2>1, SavedStepKeeps, Zenon
<1>6. ASSUME NEW m \in rpcs, Finish(m) PROVE PersistedIsCurrent'
  <2>1. CASE LoseRPC(m)
    BY <1>1, <2>1, Zenon DEF LoseRPC, serverVars, persister
  <2>2. m.to \in Peers
    BY MessageTypes, Zenon
  <2> QED BY <1>6, <2>1, <2>2, RequestsSave, RepliesSave, SavedStepKeeps, Zenon DEF Finish
<1>7. \A i, j \in Peers :
         \/ sendApplyMsg(i) \/ applyCommand(i) \/ (\E k \in snapMsgs[i] : applySnapshot(i, k))
         \/ makeAppendEntry(i, j) \/ sendInstallSnapshotToPeers(i, j)
         \/ \E f \in {"startElection", "makeAppendEntry"} : Delay(f, i, j)
         => UNCHANGED <<currTerm, votedFor, logVars, raftstate>>
  <2> SUFFICES ASSUME NEW i \in Peers, NEW j \in Peers
               PROVE  /\ sendApplyMsg(i) => UNCHANGED <<currTerm, votedFor, logVars, raftstate>>
                      /\ applyCommand(i) => UNCHANGED <<currTerm, votedFor, logVars, raftstate>>
                      /\ (\E k \in snapMsgs[i] : applySnapshot(i, k))
                         => UNCHANGED <<currTerm, votedFor, logVars, raftstate>>
                      /\ makeAppendEntry(i, j)
                         => UNCHANGED <<currTerm, votedFor, logVars, raftstate>>
                      /\ sendInstallSnapshotToPeers(i, j)
                         => UNCHANGED <<currTerm, votedFor, logVars, raftstate>>
                      /\ (\E f \in {"startElection", "makeAppendEntry"} : Delay(f, i, j))
                         => UNCHANGED <<currTerm, votedFor, logVars, raftstate>>
    BY Zenon
  <2>1. sendApplyMsg(i) => UNCHANGED <<currTerm, votedFor, logVars, raftstate>>
    BY Zenon DEF sendApplyMsg, serverVars, persister
  <2>2. applyCommand(i) => UNCHANGED <<currTerm, votedFor, logVars, raftstate>>
    BY Zenon DEF applyCommand, serverVars, persister
  <2>3. (\E k \in snapMsgs[i] : applySnapshot(i, k))
        => UNCHANGED <<currTerm, votedFor, logVars, raftstate>>
    BY Zenon DEF applySnapshot, serverVars, persister
  <2>4. makeAppendEntry(i, j) => UNCHANGED <<currTerm, votedFor, logVars, raftstate>>
    BY Zenon DEF makeAppendEntry, serverVars, persister
  <2>5. sendInstallSnapshotToPeers(i, j)
        => UNCHANGED <<currTerm, votedFor, logVars, raftstate>>
    BY Zenon DEF sendInstallSnapshotToPeers, serverVars, persister
  <2>6. (\E f \in {"startElection", "makeAppendEntry"} : Delay(f, i, j))
        => UNCHANGED <<currTerm, votedFor, logVars, raftstate>>
    BY Zenon DEF Delay, serverVars, persister
  <2> QED BY <2>1, <2>2, <2>3, <2>4, <2>5, <2>6, Zenon
<1>8. UNCHANGED vars => UNCHANGED <<currTerm, votedFor, logVars, raftstate>>
  BY Zenon DEF vars, serverVars, persister
<1> QED BY <1>1, <1>2, <1>3, <1>4, <1>5, <1>6, <1>7, <1>8, Zenon DEF Next

\* Whenever rf.mu is free the persister holds the peer's persistent fields, for any
\* number of peers: no handler changes term, vote or log without calling persist.
THEOREM PersistedCorrect == Spec => []PersistedIsCurrent
<1>1. Init => PersistedIsCurrent
  BY DEF Init, PersistedIsCurrent, FreshState
<1> QED BY <1>1, PersistedStep, TypeCorrect, PTL DEF Spec

-----------------------------------------------------------------------------
(* The five kinds of steps.                                                *)

\* No vote is sent.
NoNewVotes == \A m \in rpcs' : m.type = "RequestVoteReply" => m \in rpcs

\* A step that has nothing to do with elections.
Idle == UNCHANGED serverVars /\ UNCHANGED elected /\ NoNewVotes

\* Server i follows in term t, and keeps its vote if that is its own term.
FollowStep(i, t) ==
    /\ t \in Nat /\ t >= currTerm[i]
    /\ Become(i, Follower)
    /\ currTerm' = [currTerm EXCEPT ![i] = t]
    /\ \A j \in Peers : j # i \/ t = currTerm[i] => votedFor'[j] = votedFor[j]
    /\ UNCHANGED elected /\ NoNewVotes

\* Candidate m.to counts the vote m, and maybe becomes leader.
CountStep(m) ==
    LET i == m.to
        counted == votes[i] \cup {m.from}
    IN  /\ m.type = "RequestVoteReply" /\ m.granted
        /\ state[i] = Candidate /\ currTerm[i] = m.startTerm
        /\ UNCHANGED <<currTerm, votedFor>> /\ NoNewVotes
        /\ \/ Majority(counted) /\ becomeLeader(i)
           \/ /\ votes' = [votes EXCEPT ![i] = counted]
              /\ UNCHANGED <<state, elected>>

\* A handler of a reply steps down to the newer term it met, counts a vote, or changes
\* no term, vote or role.
LEMMA ReplyKinds ==
    ASSUME TypeOK, NEW m \in rpcs,
           RequestVoteReply(m) \/ AppendEntriesReply(m) \/ InstallSnapshotReply(m)
    PROVE  Idle \/ FollowStep(m.to, m.term) \/ CountStep(m)
<1>1. NoNewVotes
  BY Zenon DEF NoNewVotes, RequestVoteReply, AppendEntriesReply, InstallSnapshotReply
<1>2. m.to \in Peers /\ currTerm[m.to] \in Nat /\ m.term \in Nat
  <2>1. \/ m \in RequestVoteReplies \/ m \in AppendEntriesReplies
        \/ m \in InstallSnapshotReplies
    BY MessageTypes, Zenon DEF RequestVoteReply, AppendEntriesReply, InstallSnapshotReply
  <2>2. m.term \in Nat
    BY Zenon, <2>1 DEF RequestVoteReplies, AppendEntriesReplies, InstallSnapshotReplies
  <2> QED BY <2>2, MessageTypes, Zenon DEF TypeOK
<1>3. CASE StepDown(m.to, m.term) /\ m.term > currTerm[m.to] /\ UNCHANGED elected
  <2>1. \A j \in Peers : j # m.to => votedFor'[j] = votedFor[j]
    BY <1>3, Zenon DEF StepDown, TypeOK
  <2> QED BY <1>1, <1>2, <1>3, <2>1 DEF FollowStep, StepDown
<1>4. CASE UNCHANGED <<serverVars, elected>>
  BY <1>1, <1>4, Zenon DEF Idle
<1>5. CASE RequestVoteReply(m)
  BY Zenon, <1>1, <1>3, <1>4, <1>5 DEF RequestVoteReply, CountStep
<1>6. CASE AppendEntriesReply(m)
  BY <1>2, <1>3, <1>4, <1>6, Zenon DEF AppendEntriesReply
<1>7. CASE InstallSnapshotReply(m)
  BY <1>2, <1>3, <1>4, <1>7, Zenon DEF InstallSnapshotReply
<1> QED BY <1>5, <1>6, <1>7, Zenon

\* AppendEntries and InstallSnapshot follow the sender's term or refuse.
LEMMA RequestKinds ==
    ASSUME TypeOK, NEW m \in rpcs, AppendEntries(m) \/ InstallSnapshot(m)
    PROVE  Idle \/ FollowStep(m.to, m.term)
<1> DEFINE i == m.to
<1>1. i \in Peers /\ currTerm[i] \in Nat /\ m.term \in Nat
  BY ZenonT(60), MessageTypes DEF AppendEntries, InstallSnapshot, TypeOK, AppendEntriesArgs,
     InstallSnapshotArgs
<1>2. NoNewVotes
  <2>1. ASSUME NEW r, r.type # "RequestVoteReply", Respond(m, r)
        PROVE  NoNewVotes
    BY <2>1, Zenon DEF NoNewVotes, Respond
  <2>2. CASE AppendEntries(m)
    <3>1. \E s, t, c, ct : Respond(m, AEReply(m, s, t, c, ct))
      BY Zenon, <2>2 DEF AppendEntries, RejectEntries, AcceptEntries
    <3>2. \A s, t, c, ct : AEReply(m, s, t, c, ct).type # "RequestVoteReply"
      BY Zenon DEF AEReply
    <3> QED BY <2>1, <3>1, <3>2, Zenon
  <2>3. CASE InstallSnapshot(m)
    <3> DEFINE reply(t) == [type |-> "InstallSnapshotReply", from |-> i, to |-> m.from,
                            argsTerm |-> m.term,
                            lastIncludedIndex |-> m.lastIncludedIndex, term |-> t]
    <3>1. \E t : Respond(m, reply(t))
      BY Zenon, <2>3 DEF InstallSnapshot
    <3>2. \A t : reply(t).type # "RequestVoteReply"
      BY Zenon
    <3> QED BY <2>1, <3>1, <3>2, Zenon
  <2> QED BY <2>2, <2>3, Zenon
<1>3. UNCHANGED elected
  BY Zenon DEF AppendEntries, InstallSnapshot
<1>4. \/ UNCHANGED serverVars
      \/ m.term >= currTerm[i] /\ Adopt(i, m.term)
  BY Zenon DEF AppendEntries, InstallSnapshot
<1>5. CASE UNCHANGED serverVars
  BY <1>2, <1>3, <1>5, Zenon DEF Idle
<1>6. CASE m.term >= currTerm[i] /\ Adopt(i, m.term)
  <2>1. \A j \in Peers : j # i \/ m.term = currTerm[i] => votedFor'[j] = votedFor[j]
    BY <1>1, <1>6 DEF Adopt, TypeOK
  <2> QED BY <1>1, <1>2, <1>3, <1>6, <2>1, Zenon DEF FollowStep, Adopt
<1> QED BY <1>4, <1>5, <1>6, Zenon

\* Every step is of one of the five kinds.
LEMMA StepKinds ==
    ASSUME TypeOK, PersistedIsCurrent, [Next]_vars
    PROVE  \/ Idle
           \/ \E i \in Peers, t \in Nat : FollowStep(i, t)
           \/ \E i \in Peers : startElection(i)
           \/ \E m \in rpcs : RequestVote(m)
           \/ \E m \in rpcs : CountStep(m)
<1>1. CASE UNCHANGED vars
  BY <1>1, Zenon DEF vars, Idle, NoNewVotes
<1>2. ASSUME NEW i \in Peers, NEW c \in Commands, Start(i, c) PROVE Idle
  BY <1>2, Zenon DEF Start, Idle, NoNewVotes
<1>3. ASSUME NEW i \in Peers, Snapshot(i) PROVE Idle
  BY <1>3, Zenon DEF Snapshot, Idle, NoNewVotes
<1>4. ASSUME NEW i \in Peers,
             \/ sendApplyMsg(i) \/ applyCommand(i)
             \/ \E k \in snapMsgs[i] : applySnapshot(i, k)
      PROVE  Idle
  BY <1>4, Zenon DEF sendApplyMsg, applyCommand, applySnapshot, Idle, NoNewVotes
<1>5. ASSUME NEW i \in Peers, Make(i) PROVE FollowStep(i, currTerm[i])
  <2>1. \A j \in Peers : FieldsKept(j)
    BY <1>5, MakeKeepsFields, Zenon
  <2>2. currTerm' = [currTerm EXCEPT ![i] = currTerm[i]]
    BY Zenon, <1>5, <2>1 DEF Make, FieldsKept, TypeOK
  <2>3. NoNewVotes
    <3>1. \A m \in rpcs : Orphaned(i, m).type = "RequestVoteReply" => Orphaned(i, m) = m
      <4> SUFFICES ASSUME NEW m \in rpcs, Orphaned(i, m).type = "RequestVoteReply",
                          m.type \in {"RequestVote", "AppendEntries", "InstallSnapshot"}
                   PROVE  FALSE
        BY Zenon DEF Orphaned
      <4>1. m \in RequestVoteArgs \/ m \in AppendEntriesArgs \/ m \in InstallSnapshotArgs
        BY MessageTypes, Zenon
      <4>2. Orphaned(i, m).type = m.type
        BY <4>1, Zenon DEF Orphaned, RequestVoteArgs, AppendEntriesArgs, InstallSnapshotArgs
      <4> QED BY <4>2, Zenon
    <3> QED BY <1>5, <3>1, Zenon DEF Make, NoNewVotes
  <2>4. currTerm[i] \in Nat /\ currTerm[i] >= currTerm[i]
    BY DEF TypeOK
  <2> QED BY Zenon, <1>5, <2>1, <2>2, <2>3, <2>4 DEF FollowStep, Make, FieldsKept
<1>6. ASSUME NEW i \in Peers, NEW j \in Peers,
             makeAppendEntry(i, j) \/ sendInstallSnapshotToPeers(i, j)
      PROVE  Idle
  <2>1. NoNewVotes
    <3>1. CASE makeAppendEntry(i, j)
      <4>1. rpcs' = rpcs \/ \E t, k, u, e, c : rpcs' = rpcs \cup
                {[type |-> "AppendEntries", from |-> i, to |-> j, live |-> TRUE, term |-> t,
                  prevLogIndex |-> k, prevLogTerm |-> u, entries |-> e, leaderCommit |-> c]}
        BY <3>1, ZenonT(60) DEF makeAppendEntry
      <4> QED BY <4>1 DEF NoNewVotes
    <3>2. CASE sendInstallSnapshotToPeers(i, j)
      <4>1. \A n \in rpcs' : n \in rpcs \/ \E t, k, u, d :
                n = [type |-> "InstallSnapshot", from |-> i, to |-> j, live |-> TRUE, term |-> t,
                     lastIncludedIndex |-> k, lastIncludedTerm |-> u, data |-> d]
        BY <3>2, Zenon DEF sendInstallSnapshotToPeers
      <4> QED BY <4>1 DEF NoNewVotes
    <3> QED BY <1>6, <3>1, <3>2, Zenon
  <2>2. UNCHANGED serverVars /\ UNCHANGED elected
    BY <1>6, Zenon DEF makeAppendEntry, sendInstallSnapshotToPeers
  <2> QED BY <2>1, <2>2, Zenon DEF Idle
<1>7. ASSUME NEW i \in Peers, NEW j \in Peers,
             NEW f \in {"startElection", "makeAppendEntry"}, Delay(f, i, j)
      PROVE  Idle
  BY <1>7, Zenon DEF Delay, Idle, NoNewVotes
<1>8. ASSUME NEW m \in rpcs, Finish(m)
      PROVE  \/ Idle \/ RequestVote(m) \/ CountStep(m)
             \/ \E i \in Peers, t \in Nat : FollowStep(i, t)
  <2>1. CASE LoseRPC(m)
    BY <2>1, Zenon DEF LoseRPC, Idle, NoNewVotes
  <2>2. m.to \in Peers
    BY MessageTypes, Zenon
  <2>3. FollowStep(m.to, m.term) => m.term \in Nat
    BY Zenon DEF FollowStep
  <2> QED BY <1>8, <2>1, <2>2, <2>3, RequestKinds, ReplyKinds, Zenon DEF Finish
<1>9. \A i \in Peers : currTerm[i] \in Nat
  BY Zenon DEF TypeOK
<1> QED BY Zenon, <1>1, <1>2, <1>3, <1>4, <1>5, <1>6, <1>7, <1>8, <1>9 DEF Next

-----------------------------------------------------------------------------
(* Votes are final.                                                        *)

\* No step takes a term back or changes the vote of a term.
LEMMA VoteStep ==
    ASSUME TypeOK, PersistedIsCurrent, [Next]_vars, NEW v \in Peers
    PROVE  VoteKept(v)
<1>1. /\ currTerm[v] \in Nat /\ currTerm \in [Peers -> Nat]
      /\ votedFor \in [Peers -> Peers \cup {Nil}]
  BY Zenon DEF TypeOK
<1>2. CASE UNCHANGED <<currTerm, votedFor>>
  BY <1>1, <1>2 DEF VoteKept
<1>3. ASSUME NEW i \in Peers, NEW t \in Nat, FollowStep(i, t) PROVE VoteKept(v)
  BY <1>1, <1>3 DEF FollowStep, VoteKept
<1>4. ASSUME NEW i \in Peers, startElection(i) PROVE VoteKept(v)
  <2>1. CASE v # i
    <3>1. currTerm'[v] = currTerm[v] /\ votedFor'[v] = votedFor[v]
      BY <1>1, <1>4, <2>1, Zenon DEF startElection
    <3> QED BY <1>1, <3>1 DEF VoteKept
  <2>2. CASE v = i
    <3>1. currTerm'[v] = currTerm[v] + 1
      BY <1>1, <1>4, <2>2, Zenon DEF startElection
    <3> QED BY <1>1, <3>1 DEF VoteKept
  <2> QED BY <2>1, <2>2, Zenon
<1>5. ASSUME NEW m \in rpcs, RequestVote(m) PROVE VoteKept(v)
  <2>1. m.to \in Peers /\ m.term \in Nat
    BY <1>5, MessageTypes, Zenon DEF RequestVote, RequestVoteArgs
  <2>2. CASE v # m.to
    <3>1. currTerm'[v] = currTerm[v] /\ votedFor'[v] = votedFor[v]
      BY <1>1, <1>5, <2>1, <2>2, Zenon DEF RequestVote
    <3> QED BY <1>1, <3>1 DEF VoteKept
  <2>3. CASE v = m.to
    <3>1. currTerm'[v] = max(currTerm[v], m.term)
      BY <1>1, <1>5, <2>3, Zenon DEF RequestVote
    <3>2. CASE m.term > currTerm[v]
      BY <1>1, <2>1, <3>1, <3>2 DEF max, VoteKept
    <3>3. CASE ~(m.term > currTerm[v])
      <4>1. currTerm'[v] = currTerm[v]
        BY <1>1, <2>1, <3>1, <3>3 DEF max
      <4>2. votedFor[v] # Nil => votedFor'[v] = votedFor[v]
        BY Zenon, <1>1, <1>5, <2>3, <3>3 DEF RequestVote, MayVote
      <4> QED BY <1>1, <4>1, <4>2 DEF VoteKept
    <3> QED BY <3>2, <3>3, Zenon
  <2> QED BY <2>2, <2>3, Zenon
<1>6. ASSUME NEW m \in rpcs, CountStep(m) PROVE VoteKept(v)
  BY <1>2, <1>6, Zenon DEF CountStep
<1> QED
  BY <1>2, <1>3, <1>4, <1>5, <1>6, StepKinds DEF Idle, serverVars

\* A server's term never goes back and its vote of a term never changes, whatever is
\* lost, repeated or restarted: RequestVote persists the vote before the reply leaves.
THEOREM VoteFinal == Spec => VoteIsFinal
<1>1. TypeOK /\ PersistedIsCurrent /\ [Next]_vars => [\A i \in Peers : VoteKept(i)]_vars
  BY VoteStep, Zenon
<1> QED BY <1>1, TypeCorrect, PersistedCorrect, PTL DEF Spec, VoteIsFinal
=============================================================================
