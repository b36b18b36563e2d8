------------------------- MODULE RaftElectionProofs -------------------------
(***************************************************************************)
(* Elections of Raft are safe for every set of peers: a vote binds the     *)
(* voter, two majorities meet, and so a term has at most one leader.  That *)
(* is what the logs need to match.                                         *)
(***************************************************************************)
EXTENDS RaftLogProofs, FiniteSetTheorems

\* What SMT may take for a step, in seconds.
USE SMTT(60), Z3T(60)

-----------------------------------------------------------------------------
(* A term has one leader.                                                  *)

\* Whoever supports a candidate after a step did so before, or has just voted.
LEMMA SupportersStep ==
    ASSUME TypeOK, PersistedIsCurrent, [Next]_vars,
           NEW v \in Peers, NEW c \in Peers, NEW t \in Nat, Supports(v, c, t)'
    PROVE  Supports(v, c, t) \/ (currTerm'[v] = t /\ votedFor'[v] = c)
<1> DEFINE Vote(m, s) == /\ m.type = "RequestVoteReply" /\ m.granted
                         /\ m.from = v /\ m.to = c /\ m.startTerm = s
<1>0. /\ state \in [Peers -> {Leader, Candidate, Follower}]
      /\ votes \in [Peers -> SUBSET Peers] /\ currTerm \in [Peers -> Nat]
      /\ votedFor \in [Peers -> Peers \cup {Nil}]
  BY Zenon DEF TypeOK
<1>1. \/ state'[c] = Candidate /\ currTerm'[c] = t /\ v \in votes'[c]
      \/ \E m \in rpcs' : Vote(m, t)
  BY Zenon DEF Supports
<1>2. (\E m \in rpcs' : Vote(m, t)) /\ NoNewVotes => Supports(v, c, t)
  BY Zenon DEF NoNewVotes, Supports
<1>3. /\ state'[c] = state[c] /\ currTerm'[c] = currTerm[c] /\ votes'[c] = votes[c]
      /\ state'[c] = Candidate /\ currTerm'[c] = t /\ v \in votes'[c]
      => Supports(v, c, t)
  BY Zenon DEF Supports
<1>4. CASE Idle
  BY <1>1, <1>2, <1>3, <1>4, Zenon DEF Idle, serverVars
<1>5. ASSUME NEW i \in Peers, NEW s \in Nat, FollowStep(i, s) PROVE Supports(v, c, t)
  <2>1. NoNewVotes
    BY <1>5, Zenon DEF FollowStep
  <2>2. state'[i] # Candidate
    BY <1>0, <1>5 DEF FollowStep, Become, Candidate, Follower
  <2>3. c # i => state'[c] = state[c] /\ currTerm'[c] = currTerm[c] /\ votes'[c] = votes[c]
    BY <1>0, <1>5, Zenon DEF FollowStep, Become
  <2> QED BY <1>1, <1>2, <1>3, <2>1, <2>2, <2>3, Zenon
<1>6. ASSUME NEW i \in Peers, startElection(i)
      PROVE  Supports(v, c, t) \/ (currTerm'[v] = t /\ votedFor'[v] = c)
  <2>1. NoNewVotes
    BY SMTT(30), <1>6 DEF startElection, NoNewVotes
  <2>2. c # i => state'[c] = state[c] /\ currTerm'[c] = currTerm[c] /\ votes'[c] = votes[c]
    BY Zenon, <1>0, <1>6 DEF startElection, Become
  <2>3. votes'[i] = {i} /\ votedFor'[i] = i
    BY <1>0, <1>6, Zenon DEF startElection, Become
  <2> QED BY <1>1, <1>2, <1>3, <2>1, <2>2, <2>3
<1>7. ASSUME NEW n \in rpcs, RequestVote(n)
      PROVE  Supports(v, c, t) \/ (currTerm'[v] = t /\ votedFor'[v] = c)
  <2> DEFINE i == n.to
             granted == MayVote(i, n) /\ UpToDate(i, n)
             reply == [type |-> "RequestVoteReply", from |-> i, to |-> n.from,
                       startTerm |-> n.term, term |-> max(currTerm[i], n.term),
                       granted |-> granted]
  <2>1. i \in Peers /\ n.term \in Nat
    BY <1>7, MessageTypes, Zenon DEF RequestVote, RequestVoteArgs
  <2>2. \A m \in rpcs' : m \in rpcs \/ m = reply
    BY <1>7, Zenon DEF RequestVote, Respond
  <2>3. CASE Vote(reply, t)
    <3>1. granted /\ i = v /\ n.from = c /\ n.term = t
      BY Zenon, <2>3
    <3>2. n.term >= currTerm[i]
      BY <1>0, <2>1, <3>1 DEF MayVote
    <3>3. max(currTerm[i], n.term) = n.term
      <4>1. currTerm[i] \in Nat /\ n.term \in Nat
        BY <1>0, <2>1, Zenon
      <4> QED BY <3>2, <4>1, MaxIsNat, Zenon
    <3>4. currTerm'[i] = n.term /\ votedFor'[i] = n.from
      BY Zenon, <1>0, <1>7, <2>1, <3>1, <3>3 DEF RequestVote
    <3> QED BY <3>1, <3>4, Zenon
  <2>4. CASE \E m \in rpcs : Vote(m, t)
    BY <2>4, Zenon DEF Supports
  <2>5. CASE state'[c] = Candidate /\ currTerm'[c] = t /\ v \in votes'[c]
    <3>1. c # i => state'[c] = state[c] /\ currTerm'[c] = currTerm[c] /\ votes'[c] = votes[c]
      BY Zenon, <1>0, <1>7 DEF RequestVote, Become
    <3>2. CASE c = i /\ (granted \/ n.term > currTerm[i])
      <4>1. Become(i, Follower)
        BY Zenon, <1>7, <3>2 DEF RequestVote
      <4>2. state'[c] = Follower
        BY Zenon, <1>0, <3>2, <4>1 DEF Become
      <4> QED BY <2>5, <4>2 DEF Candidate, Follower
    <3>3. CASE c = i /\ ~(granted \/ n.term > currTerm[i])
      <4>1. max(currTerm[i], n.term) = currTerm[i]
        <5>1. currTerm[i] \in Nat /\ n.term \in Nat
          BY <1>0, <2>1, Zenon
        <5>2. currTerm[i] >= n.term
          BY <3>3, <5>1
        <5> QED BY <5>1, <5>2, MaxIsNat, Zenon
      <4>2. state'[c] = state[c] /\ currTerm'[c] = currTerm[c] /\ votes'[c] = votes[c]
        BY Zenon, <1>0, <1>7, <3>3, <4>1 DEF RequestVote
      <4> QED BY Zenon, <1>3, <2>5, <4>2
    <3> QED BY <1>3, <2>5, <3>1, <3>2, <3>3, Zenon
  <2> QED BY <1>1, <2>2, <2>3, <2>4, <2>5, Zenon
<1>8. ASSUME NEW n \in rpcs, CountStep(n) PROVE Supports(v, c, t)
  <2>1. NoNewVotes /\ n.to \in Peers
    BY <1>8, MessageTypes, Zenon DEF CountStep
  <2>2. CASE becomeLeader(n.to)
    <3>1. state'[n.to] # Candidate
      BY <1>0, <2>1, <2>2 DEF becomeLeader, Become, Candidate, Leader
    <3>2. c # n.to => state'[c] = state[c] /\ currTerm'[c] = currTerm[c] /\ votes'[c] = votes[c]
      BY <1>0, <1>8, <2>2, Zenon DEF becomeLeader, Become, CountStep
    <3> QED BY <1>1, <1>2, <1>3, <2>1, <3>1, <3>2
  <2>3. CASE /\ votes' = [votes EXCEPT ![n.to] = votes[n.to] \cup {n.from}]
             /\ UNCHANGED <<state, elected>>
    <3>1. state'[c] = state[c] /\ currTerm'[c] = currTerm[c]
      BY <1>8, <2>3, Zenon DEF CountStep
    <3>2. CASE c = n.to /\ v = n.from /\ t = currTerm[c]
      BY <1>8, <3>2, Zenon DEF CountStep, Supports
    <3>3. CASE v \in votes'[c] /\ ~(c = n.to /\ v = n.from)
      <4>1. v \in votes[c]
        BY <1>0, <2>1, <2>3, <3>3, Zenon
      <4> QED BY <1>1, <1>2, <2>1, <3>1, <4>1, Zenon DEF Supports
    <3>4. CASE v \notin votes'[c]
      BY <1>1, <1>2, <2>1, <3>4, Zenon
    <3> QED BY <1>1, <1>2, <2>1, <3>1, <3>2, <3>3, <3>4
  <2> QED BY Zenon, <1>8, <2>2, <2>3 DEF CountStep
<1> QED
  BY <1>4, <1>5, <1>6, <1>7, <1>8, StepKinds

\* A pledge is for good.
LEMMA PledgeKept ==
    ASSUME TypeOK, PersistedIsCurrent, [Next]_vars,
           NEW v \in Peers, NEW c \in Peers, NEW t \in Nat, Pledged(v, c, t)
    PROVE  Pledged(v, c, t)'
<1>1. /\ currTerm[v] \in Nat /\ currTerm'[v] \in Nat
  BY TypeStep, Zenon DEF TypeOK
<1>2. VoteKept(v)
  BY VoteStep, Zenon
<1>3. t <= currTerm'[v]
  BY SMTT(30), <1>1, <1>2 DEF VoteKept, Pledged
<1>4. ASSUME t = currTerm'[v] PROVE votedFor'[v] = c
  <2>1. t = currTerm[v] /\ currTerm'[v] = currTerm[v]
    BY <1>1, <1>2, <1>4 DEF VoteKept, Pledged
  <2>2. votedFor[v] = c /\ c # Nil
    BY <2>1, PeersAssumption, Zenon DEF Pledged
  <2> QED BY <1>2, <2>1, <2>2, Zenon DEF VoteKept
<1>5. ASSUME NEW d \in Peers \ {c}, Supports(v, d, t)' PROVE FALSE
  <2>1. Supports(v, d, t) \/ (currTerm'[v] = t /\ votedFor'[v] = d)
    BY <1>5, SupportersStep, Zenon
  <2> QED BY <1>4, <2>1, Zenon DEF Pledged
<1> QED BY <1>3, <1>4, <1>5, Zenon DEF Pledged

\* Every vote under way or counted is a pledge.
VotesArePledges ==
    \A v, c \in Peers : \A t \in Nat : Supports(v, c, t) => Pledged(v, c, t)

\* A vote that a step sends or counts is a pledge: the voter has persisted it.
LEMMA VotesArePledgesStep ==
    TypeOK /\ PersistedIsCurrent /\ VotesArePledges /\ [Next]_vars => VotesArePledges'
<1> SUFFICES ASSUME TypeOK, PersistedIsCurrent, VotesArePledges, [Next]_vars,
                    NEW v \in Peers, NEW c \in Peers, NEW t \in Nat, Supports(v, c, t)'
             PROVE  Pledged(v, c, t)'
  BY Zenon DEF VotesArePledges
<1>1. CASE Supports(v, c, t)
  BY <1>1, PledgeKept, Zenon DEF VotesArePledges
<1>2. CASE currTerm'[v] = t /\ votedFor'[v] = c
  <2>1. ASSUME NEW d \in Peers \ {c}, Supports(v, d, t)' PROVE FALSE
    <3>1. CASE Supports(v, d, t)
      <4>1. Pledged(v, d, t)'
        BY <3>1, PledgeKept, Zenon DEF VotesArePledges
      <4> QED BY <1>2, <4>1, Zenon DEF Pledged
    <3>2. CASE votedFor'[v] = d
      BY <1>2, <3>2, Zenon
    <3> QED BY <2>1, <3>1, <3>2, SupportersStep, Zenon
  <2> QED BY <1>2, <2>1 DEF Pledged
<1> QED BY <1>1, <1>2, SupportersStep, Zenon

\* Two majorities of the peers share a peer.
LEMMA MajoritiesMeet ==
    ASSUME NEW P \in SUBSET Peers, NEW Q \in SUBSET Peers, Majority(P), Majority(Q)
    PROVE  P \cap Q # {}
<1> SUFFICES ASSUME P \cap Q = {} PROVE FALSE
  BY Zenon
<1>1. IsFiniteSet(Peers) /\ IsFiniteSet(P) /\ IsFiniteSet(Q) /\ IsFiniteSet(P \cup Q)
  BY PeersAssumption, FS_Subset, Zenon
<1>2. /\ Cardinality(Peers) \in Nat /\ Cardinality(P) \in Nat /\ Cardinality(Q) \in Nat
      /\ Cardinality(P \cup Q) \in Nat
  BY <1>1, FS_CardinalityType, Zenon
<1>3. Cardinality(P \cup Q) = Cardinality(P) + Cardinality(Q)
  <2>1. Cardinality(P \cap Q) = 0
    BY FS_EmptySet, Zenon
  <2>2. Cardinality(P \cup Q) = Cardinality(P) + Cardinality(Q) - Cardinality(P \cap Q)
    BY <1>1, FS_Union, Zenon
  <2> QED BY <1>2, <2>1, <2>2
<1>4. Cardinality(P \cup Q) <= Cardinality(Peers)
  BY <1>1, FS_Subset, Zenon
<1> QED BY <1>2, <1>3, <1>4 DEF Majority

\* A step elects nobody, or a server that a majority supports.
LEMMA ElectedStep ==
    ASSUME TypeOK, PersistedIsCurrent, [Next]_vars
    PROVE  \/ UNCHANGED elected
           \/ \E i \in Peers, Q \in SUBSET Peers :
                /\ elected' = elected \cup {<<currTerm[i], i>>}
                /\ Majority(Q)
                /\ \A v \in Q : Supports(v, i, currTerm[i])
<1>1. CASE Idle \/ (\E i \in Peers, t \in Nat : FollowStep(i, t))
  BY <1>1, Zenon DEF Idle, FollowStep
<1>2. CASE (\E i \in Peers : startElection(i)) \/ (\E m \in rpcs : RequestVote(m))
  BY Zenon, <1>2 DEF startElection, RequestVote
<1>3. ASSUME NEW m \in rpcs, CountStep(m), ~UNCHANGED elected
      PROVE  \E i \in Peers, Q \in SUBSET Peers :
                /\ elected' = elected \cup {<<currTerm[i], i>>}
                /\ Majority(Q)
                /\ \A v \in Q : Supports(v, i, currTerm[i])
  <2> DEFINE i == m.to
             Q == votes[i] \cup {m.from}
  <2>1. i \in Peers /\ Q \in SUBSET Peers
    BY MessageTypes, ZenonT(60) DEF TypeOK
  <2>2. Majority(Q) /\ elected' = elected \cup {<<currTerm[i], i>>}
    BY <1>3, Zenon DEF CountStep, becomeLeader
  <2>3. \A v \in Q : Supports(v, i, currTerm[i])
    BY <1>3, Zenon DEF CountStep, Supports
  <2> QED BY Zenon, <2>1, <2>2, <2>3
<1> QED BY <1>1, <1>2, <1>3, StepKinds, Zenon

\* The inductive invariant: ElectionInv, with the votes as one conjunct.
ElectionIInv ==
    /\ ElectionSafety
    /\ VotesArePledges
    /\ \A e \in elected : \E Q \in SUBSET Peers :
                         Majority(Q) /\ \A v \in Q : Pledged(v, e[2], e[1])

\* Every step keeps the election invariant.
LEMMA ElectionStep ==
    TypeOK /\ PersistedIsCurrent /\ ElectionIInv /\ [Next]_vars => ElectionIInv'
<1> SUFFICES ASSUME TypeOK, PersistedIsCurrent, ElectionIInv, [Next]_vars
             PROVE  ElectionIInv'
  BY Zenon
<1>1. VotesArePledges'
  BY VotesArePledgesStep, Zenon DEF ElectionIInv
<1>2. ASSUME NEW e \in elected
      PROVE  \E Q \in SUBSET Peers : Majority(Q) /\ \A v \in Q : Pledged(v, e[2], e[1])'
  <2>1. e[1] \in Nat /\ e[2] \in Peers
    BY Zenon DEF TypeOK
  <2>2. PICK Q \in SUBSET Peers : Majority(Q) /\ \A v \in Q : Pledged(v, e[2], e[1])
    BY Zenon DEF ElectionIInv
  <2> QED BY <2>1, <2>2, PledgeKept, Zenon
<1>3. CASE UNCHANGED elected
  BY <1>1, <1>2, <1>3, Zenon DEF ElectionIInv, ElectionSafety, Majority
<1>4. ASSUME NEW i \in Peers, NEW Q \in SUBSET Peers, Majority(Q),
             elected' = elected \cup {<<currTerm[i], i>>},
             \A v \in Q : Supports(v, i, currTerm[i])
      PROVE  ElectionIInv'
  <2>1. PICK t \in Nat : t = currTerm[i]
    BY Zenon DEF TypeOK
  <2>2. \A v \in Q : Pledged(v, i, t)'
    <3> SUFFICES ASSUME NEW v \in Q PROVE Pledged(v, i, t)'
      BY Zenon
    <3>1. Supports(v, i, t)
      BY <1>4, <2>1, Zenon
    <3>2. Pledged(v, i, t)
      BY <3>1, Zenon DEF ElectionIInv, VotesArePledges
    <3> QED BY <3>2, PledgeKept, Zenon
  <2>3. ASSUME NEW e \in elected, e[1] = t PROVE e = <<t, i>>
    <3>1. e \in Nat \X Peers
      BY Zenon DEF TypeOK
    <3>2. PICK R \in SUBSET Peers : Majority(R) /\ \A v \in R : Pledged(v, e[2], e[1])
      BY Zenon DEF ElectionIInv
    <3>3. PICK v \in Q : v \in R
      BY <1>4, <3>2, MajoritiesMeet, Zenon
    <3>4. Supports(v, i, t) /\ Pledged(v, e[2], t)
      BY <1>4, <2>1, <2>3, <3>2, <3>3, Zenon
    <3>5. e[2] = i
      BY <3>4, Zenon DEF Pledged
    <3> QED BY <2>3, <3>1, <3>5
  <2>4. ElectionSafety'
    <3> SUFFICES ASSUME NEW e \in elected', NEW f \in elected', e[1] = f[1] PROVE e = f
      BY Zenon DEF ElectionSafety
    <3>1. elected' = elected \cup {<<t, i>>} /\ <<t, i>>[1] = t
      BY <1>4, <2>1, Zenon
    <3> QED BY <2>3, <3>1, Zenon DEF ElectionIInv, ElectionSafety
  <2>5. \A e \in elected' : \E P \in SUBSET Peers :
           Majority(P) /\ \A v \in P : Pledged(v, e[2], e[1])'
    <3> SUFFICES ASSUME NEW e \in elected'
                 PROVE  \E P \in SUBSET Peers :
                           Majority(P) /\ \A v \in P : Pledged(v, e[2], e[1])'
      BY Zenon
    <3>1. CASE e \in elected
      BY <1>2, <3>1, Zenon
    <3>2. CASE e = <<t, i>>
      <4>1. e[1] = t /\ e[2] = i
        BY <3>2, Zenon
      <4>2. \A v \in Q : Pledged(v, e[2], e[1])'
        BY <2>2, <4>1, Zenon
      <4> QED BY <1>4, <4>2, Zenon
    <3> QED BY <1>4, <2>1, <3>1, <3>2, Zenon
  <2> QED BY <1>1, <2>4, <2>5, Zenon DEF ElectionIInv, Majority
<1> QED BY <1>3, <1>4, ElectedStep, Zenon

\* For any number of peers, every vote that is under way or counted binds the voter,
\* and whoever was elected has a majority bound to it for good, whatever is lost,
\* reordered, delayed or restarted (RequestVote, startElection, becomeLeader, Make).
THEOREM ElectionInvariant == Spec => []ElectionInv
<1>1. Init => ElectionIInv
  BY Zenon DEF Init, ElectionIInv, ElectionSafety, VotesArePledges, Supports, Candidate, Follower
<1>2. TypeOK /\ ElectionIInv => ElectionInv
  <2> SUFFICES ASSUME TypeOK, ElectionIInv PROVE ElectionInv
    BY Zenon
  <2>1. ASSUME NEW m \in rpcs, m.type = "RequestVoteReply", m.granted
        PROVE  Pledged(m.from, m.to, m.startTerm)
    <3>1. m \in RequestVoteReplies
      BY <2>1, MessageTypes, Zenon
    <3>2. m.from \in Peers /\ m.to \in Peers /\ m.startTerm \in Nat
      BY <3>1, Zenon DEF RequestVoteReplies
    <3> QED BY <2>1, <3>2, Zenon DEF ElectionIInv, VotesArePledges, Supports
  <2>2. ASSUME NEW c \in Peers, state[c] = Candidate, NEW v \in votes[c]
        PROVE  Pledged(v, c, currTerm[c])
    <3>1. v \in Peers /\ currTerm[c] \in Nat
      BY Zenon DEF TypeOK
    <3> QED BY <2>2, <3>1, Zenon DEF ElectionIInv, VotesArePledges, Supports
  <2> QED BY <2>1, <2>2, Zenon DEF ElectionIInv, ElectionInv
<1> QED BY <1>1, <1>2, ElectionStep, TypeCorrect, PersistedCorrect, PTL DEF Spec

\* At most one server becomes leader of a term, for any number of peers and whatever
\* is lost, reordered, delayed or restarted (RequestVote, becomeLeader, Make).
THEOREM ElectionSafe == Spec => []ElectionSafety
<1>1. ElectionInv => ElectionSafety
  BY Zenon DEF ElectionInv
<1> QED BY <1>1, ElectionInvariant, PTL

-----------------------------------------------------------------------------
(* Logs match.                                                             *)

\* For any number of peers, logs that have an entry of one term at one index are equal
\* up to it, as far back as both reach, whatever is lost, reordered, delayed, restarted
\* or cut off by snapshots, and even if servers that no longer lead go on sending their
\* logs (Start, AppendEntries, Snapshot, InstallSnapshot).
THEOREM LogsMatch == Spec => []LogMatching
<1>1. Spec => []LogInv
  BY LogInit, LogInvStep, TypeCorrect, PersistedCorrect, ElectionSafe, SnapshotsConsistent,
     PTL DEF Spec
<1>2. TypeOK /\ LogInv => LogMatching
  BY AgreeMatches, Zenon DEF LogInv
<1> QED BY <1>1, <1>2, TypeCorrect, PTL
=============================================================================
