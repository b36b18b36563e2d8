------------------------------- MODULE MCRaft -------------------------------
(***************************************************************************)
(* Three peers and one command for TLC: what tells entries apart is their  *)
(* index and term.  Which server may campaign for which term bounds each   *)
(* run; a campaign may always fail, or win with any majority.              *)
(***************************************************************************)
EXTENDS Raft, TLC

CONSTANTS p1, p2, p3

Symmetry == Permutations(Peers)

\* Bounds on elections.
AnyoneTwice   == {1, 2} \X Peers
Turns         == {<<1, p1>>, <<2, p2>>}
LeaderReturns == {<<1, p1>>, <<2, p2>>, <<3, p1>>}
FiveTurns     == {<<1, p1>>, <<2, p2>>, <<3, p1>>, <<4, p2>>, <<5, p1>>}

\* The first commit is the last state looked at.
BeforeCommit == \A i \in Peers : commitIndex[i] = 0

\* What p2 appends as leader reaches p1 only: p3 is cut off from it.  No fairness
\* asks p2 to send, so what is left are fair behaviours, and the logs of p2 and p3
\* still both conflict with the one of the leader that returns.
P3CutOff ==
    \A m \in rpcs : ~(m.type = "AppendEntries" /\ m.from = p2 /\ m.to = p3)

\* p1 campaigns last, so it is the server that can stay leader for ever.
FairSpec == Spec /\ Fairness(p1)

\* LogsConvergeTo the server that can stay leader: its log and its commits reach
\* everyone (makeAppendEntry, AppendEntries, commitIndexUpdate).
LogsConverge == LogsConvergeTo(p1)
=============================================================================
