---------------------------- MODULE RaftLogProofs ----------------------------
(***************************************************************************)
(* The logs of Raft, for every set of peers: the snapshot a server saves   *)
(* is the one its log was cut at, and, as long as a term has one leader,   *)
(* logs that share an entry agree up to it.                                *)
(*                                                                         *)
(* The argument about logs is made on fragments: a stretch of a log, with  *)
(* the logical index of its first entry, of which only the term counts.    *)
(* Every log is one, and so is what a request carries from one server to   *)
(* another.  A step cuts fragments out of others, joins two where they     *)
(* agree, or lets a leader's log grow by an entry of the leader's term.    *)
(***************************************************************************)
EXTENDS RaftProofs

\* What SMT may take for a step, in seconds.
USE SMTT(60), Z3T(60)

-----------------------------------------------------------------------------
(* Fragments of logs.                                                      *)

\* A fragment starts at index First(F), ends at Last(F), and has entry At(F, x) at x.
First(F) == F[1]
Last(F) == F[1] + Len(F[2]) - 1
At(F, x) == F[2][x - F[1] + 1]

Fragment == Nat \X Log

Covers(F, x) == First(F) <= x /\ x <= Last(F)

\* The log of server i.
LogOf(i) == <<lastIncludedIndex[i], logs[i]>>

\* What a request to append entries or to install a snapshot says of the sender's log.
Carries(m) == m.type \in {"AppendEntries", "InstallSnapshot"}

Carried(m) ==
    IF m.type = "AppendEntries"
      THEN <<m.prevLogIndex, <<Dummy(m.prevLogTerm)>> \o m.entries>>
      ELSE <<m.lastIncludedIndex, <<Dummy(m.lastIncludedTerm)>>>>

\* All fragments there are.
Fragments == {LogOf(i) : i \in Peers} \cup {Carried(m) : m \in {n \in rpcs : Carries(n)}}

\* If F and G have an entry of one term at one index, they agree up to it.
Agree(F, G) ==
    \A k, x \in Nat :
        /\ Covers(F, k) /\ Covers(G, k) /\ At(F, k).term = At(G, k).term
        /\ Covers(F, x) /\ Covers(G, x) /\ x <= k
        => /\ At(F, x).term = At(G, x).term
           /\ x > First(F) /\ x > First(G) => At(F, x) = At(G, x)

\* Two logs that share an entry agree up to it, and so do requests under way.
FragmentsAgree == \A F, G \in Fragments : Agree(F, G)

\* Terms and leaders: a leader was elected for its term, a candidate was not yet, and
\* nobody was elected for a term it has not reached.
LeadersElected ==
    /\ \A l \in Peers : state[l] = Leader =>
          currTerm[l] # 0 /\ <<currTerm[l], l>> \in elected
    /\ \A l \in Peers : state[l] = Candidate =>
          currTerm[l] # 0 /\ <<currTerm[l], l>> \notin elected
    /\ \A e \in elected : e[1] <= currTerm[e[2]]

\* Every entry comes from a leader of its term, and while that server leads it has
\* all entries of the term.
TermsOwned ==
    \A F \in Fragments : \A x \in Nat : Covers(F, x) =>
        /\ At(F, x).term = 0 \/ \E l \in Peers : <<At(F, x).term, l>> \in elected
        /\ \A l \in Peers : state[l] = Leader /\ currTerm[l] = At(F, x).term
                              => x <= lastLogicalIndex(l)

\* The inductive invariant of LogMatching.
LogInv == FragmentsAgree /\ LeadersElected /\ TermsOwned

-----------------------------------------------------------------------------
(* What a step does to fragments.                                          *)

\* N is a stretch of F; its first entry may have lost its command.
Piece(N, F) ==
    /\ First(F) <= First(N) /\ Last(N) <= Last(F)
    /\ \A x \in Nat : Covers(N, x) =>
          /\ At(N, x).term = At(F, x).term
          /\ x > First(N) => At(N, x) = At(F, x)

\* N is a stretch of F up to its end.
Rest(N, F) == Piece(N, F) /\ Last(N) = Last(F)

\* N is F up to index y, where F and G have entries of one term, and G after it.
Joined(N, F, G, y) ==
    /\ Covers(F, y) /\ Covers(G, y) /\ At(F, y).term = At(G, y).term
    /\ First(N) = First(F) /\ Last(N) = Last(G)
    /\ \A x \in Nat : Covers(N, x) =>
          At(N, x) = IF x <= y THEN At(F, x) ELSE At(G, x)

\* N is F with one more entry, of term t.
Grown(N, F, t) ==
    /\ First(N) = First(F) /\ Last(N) = Last(F) + 1
    /\ \A x \in Nat : Covers(F, x) => At(N, x) = At(F, x)
    /\ At(N, Last(N)).term = t

\* A step that only drops or repeats what is there.
CutStep == \A N \in Fragments' : \E F \in Fragments : Piece(N, F)

\* A step that joins two fragments.
JoinStep ==
    \E N \in Fragment : \E F, G \in Fragments : \E y \in Nat :
        Joined(N, F, G, y) /\ Fragments' \subseteq Fragments \cup {N}

\* A step of a leader that adds an entry of its term to its log.
GrowStep ==
    \E N \in Fragment : \E i \in Peers :
        /\ state[i] = Leader /\ Grown(N, LogOf(i), currTerm[i])
        /\ Fragments' \subseteq Fragments \cup {N}
        /\ UNCHANGED <<state, currTerm, elected>>
        /\ lastLogicalIndex(i)' = lastLogicalIndex(i) + 1
        /\ \A j \in Peers \ {i} : lastLogicalIndex(j)' = lastLogicalIndex(j)

\* A fragment covers at least one index.
LEMMA FragmentType ==
    ASSUME NEW F \in Fragment
    PROVE  First(F) \in Nat /\ Last(F) \in Nat /\ First(F) <= Last(F)
<1>1. F[1] \in Nat /\ F[2] \in Seq(Entry) /\ F[2] # << >>
  BY DEF Fragment, Log
<1>2. Len(F[2]) \in Nat \ {0}
  BY <1>1
<1> QED BY <1>1, <1>2 DEF First, Last

\* The two fragments of an agreement play the same part.
LEMMA AgreeSymmetric ==
    ASSUME NEW F, NEW G, Agree(F, G)
    PROVE  Agree(G, F)
  BY Zenon DEF Agree

\* A fragment agrees with itself.
LEMMA AgreeReflexive == ASSUME NEW F PROVE Agree(F, F)
  BY Zenon DEF Agree

\* What is cut out of fragments that agree agrees.
LEMMA PiecesAgree ==
    ASSUME NEW F \in Fragment, NEW G \in Fragment, Agree(F, G),
           NEW M \in Fragment, NEW N \in Fragment, Piece(M, F), Piece(N, G)
    PROVE  Agree(M, N)
<1> SUFFICES ASSUME NEW k \in Nat, NEW x \in Nat,
                    Covers(M, k), Covers(N, k), At(M, k).term = At(N, k).term,
                    Covers(M, x), Covers(N, x), x <= k
             PROVE  /\ At(M, x).term = At(N, x).term
                    /\ x > First(M) /\ x > First(N) => At(M, x) = At(N, x)
  BY Zenon DEF Agree
<1>1. Covers(F, k) /\ Covers(G, k) /\ Covers(F, x) /\ Covers(G, x)
  BY FragmentType DEF Piece, Covers
<1>2. /\ At(M, k).term = At(F, k).term /\ At(N, k).term = At(G, k).term
      /\ At(M, x).term = At(F, x).term /\ At(N, x).term = At(G, x).term
  BY Zenon DEF Piece
<1>3. /\ At(F, x).term = At(G, x).term
      /\ x > First(F) /\ x > First(G) => At(F, x) = At(G, x)
  BY <1>1, <1>2, Zenon DEF Agree
<1>4. x > First(M) /\ x > First(N) =>
        x > First(F) /\ x > First(G) /\ At(M, x) = At(F, x) /\ At(N, x) = At(G, x)
  BY FragmentType DEF Piece
<1> QED BY <1>2, <1>3, <1>4, Zenon

\* Two fragments joined where they agree agree with what both agree with.
LEMMA JoinAgrees ==
    ASSUME NEW F \in Fragment, NEW G \in Fragment, NEW H \in Fragment,
           Agree(F, H), Agree(G, H), NEW N \in Fragment, NEW y \in Nat, Joined(N, F, G, y)
    PROVE  Agree(N, H)
<1> SUFFICES ASSUME NEW k \in Nat, NEW x \in Nat,
                    Covers(N, k), Covers(H, k), At(N, k).term = At(H, k).term,
                    Covers(N, x), Covers(H, x), x <= k
             PROVE  /\ At(N, x).term = At(H, x).term
                    /\ x > First(N) /\ x > First(H) => At(N, x) = At(H, x)
  BY Zenon DEF Agree
<1>1. /\ First(F) \in Nat /\ Last(F) \in Nat /\ First(G) \in Nat /\ Last(G) \in Nat
      /\ First(H) \in Nat /\ Last(H) \in Nat
  BY FragmentType, Zenon
<1>2. \A z \in Nat : Covers(N, z) =>
         /\ z <= y => Covers(F, z) /\ At(N, z) = At(F, z)
         /\ z > y => Covers(G, z) /\ z > First(G) /\ At(N, z) = At(G, z)
  BY <1>1 DEF Joined, Covers
<1>3. CASE k <= y
  <2>1. x <= y
    BY <1>3
  <2> QED BY <1>2, <1>3, <2>1, Zenon DEF Agree, Joined
<1>4. CASE k > y /\ x > y
  <2>1. /\ At(G, x).term = At(H, x).term
        /\ x > First(G) /\ x > First(H) => At(G, x) = At(H, x)
    BY <1>2, <1>4, Zenon DEF Agree
  <2> QED BY <1>2, <1>4, <2>1, Zenon
<1>5. CASE k > y /\ x <= y
  <2>1. Covers(F, y) /\ Covers(G, y) /\ At(F, y).term = At(G, y).term
    BY Zenon DEF Joined
  <2>2. Covers(H, y) /\ y <= k
    BY <1>1, <1>5 DEF Covers
  <2>3. At(G, y).term = At(H, y).term
    BY <1>2, <1>5, <2>1, <2>2, Zenon DEF Agree
  <2>4. At(F, y).term = At(H, y).term
    BY <2>1, <2>3, Zenon
  <2>5. /\ At(F, x).term = At(H, x).term
        /\ x > First(F) /\ x > First(H) => At(F, x) = At(H, x)
    BY <1>2, <1>5, <2>1, <2>2, <2>4, Zenon DEF Agree
  <2> QED BY <1>2, <1>5, <2>5, Zenon DEF Joined
<1> QED BY <1>3, <1>4, <1>5

\* A new entry at the end of a fragment agrees with a fragment that has no entry of
\* its term there.
LEMMA GrownAgrees ==
    ASSUME NEW F \in Fragment, NEW H \in Fragment, Agree(F, H), NEW t,
           NEW N \in Fragment, Grown(N, F, t),
           Covers(H, Last(N)) => At(H, Last(N)).term # t
    PROVE  Agree(N, H)
<1> SUFFICES ASSUME NEW k \in Nat, NEW x \in Nat,
                    Covers(N, k), Covers(H, k), At(N, k).term = At(H, k).term,
                    Covers(N, x), Covers(H, x), x <= k
             PROVE  /\ At(N, x).term = At(H, x).term
                    /\ x > First(N) /\ x > First(H) => At(N, x) = At(H, x)
  BY Zenon DEF Agree
<1>1. k # Last(N)
  BY Zenon DEF Grown
<1>2. Covers(F, k) /\ Covers(F, x)
  BY <1>1, FragmentType DEF Grown, Covers
<1>3. At(N, k) = At(F, k) /\ At(N, x) = At(F, x) /\ First(N) = First(F)
  BY <1>2, Zenon DEF Grown
<1> QED BY <1>2, <1>3, Zenon DEF Agree

-----------------------------------------------------------------------------
(* What the handlers of raft.go do to the slice rf.logs.                   *)

\* Entries behind a dummy entry.
LEMMA BehindDummy ==
    ASSUME NEW t \in Nat, NEW r \in Seq(Entry)
    PROVE  /\ Len(<<Dummy(t)>> \o r) = Len(r) + 1
           /\ (<<Dummy(t)>> \o r)[1] = Dummy(t)
           /\ \A q \in 1 .. Len(r) : (<<Dummy(t)>> \o r)[q + 1] = r[q]
<1>1. <<Dummy(t)>> \in Seq(Entry) /\ Len(<<Dummy(t)>>) = 1 /\ <<Dummy(t)>>[1] = Dummy(t)
  BY DEF Dummy, Entry
<1> HIDE DEF Dummy
<1> QED BY <1>1

\* The term of a dummy entry.
LEMMA DummyTerm == \A t : Dummy(t).term = t
  BY Zenon DEF Dummy

\* Cutting a log at index k (Snapshot, InstallSnapshot, and what makeAppendEntry sends)
\* leaves a stretch of it up to its end.
LEMMA CutPiece ==
    ASSUME NEW b \in Nat, NEW s \in Log, NEW k \in Nat, b <= k, k <= b + Len(s) - 1,
           NEW t \in Nat, t = s[k - b + 1].term
    PROVE  Rest(<<k, <<Dummy(t)>> \o SubSeq(s, k - b + 2, Len(s))>>, <<b, s>>)
<1> DEFINE r == SubSeq(s, k - b + 2, Len(s))
           N == <<k, <<Dummy(t)>> \o r>>
           F == <<b, s>>
<1>1. s \in Seq(Entry) /\ Len(s) \in Nat
  BY DEF Log
<1>2. /\ r \in Seq(Entry) /\ Len(r) = Len(s) - (k - b + 1)
      /\ \A q \in 1 .. Len(r) : r[q] = s[k - b + 1 + q]
  BY <1>1
<1> HIDE DEF r
<1>3. /\ First(N) = k /\ First(F) = b
      /\ Last(N) = k + Len(r) /\ Last(F) = b + Len(s) - 1
  <2>1. Len(<<Dummy(t)>> \o r) = Len(r) + 1 /\ Len(r) \in Nat
    BY <1>2, BehindDummy
  <2>2. N[1] = k /\ N[2] = <<Dummy(t)>> \o r /\ F[1] = b /\ F[2] = s
    BY Zenon
  <2>3. k + (Len(r) + 1) - 1 = k + Len(r)
    BY <2>1
  <2> QED BY <2>1, <2>2, <2>3, Zenon DEF First, Last
<1>4. ASSUME NEW x \in Nat, Covers(N, x)
      PROVE  /\ At(N, x).term = At(F, x).term
             /\ x > First(N) => At(N, x) = At(F, x)
  <2>1. x >= k /\ x <= k + Len(r) /\ Len(r) \in Nat
    BY <1>2, <1>3, <1>4 DEF Covers
  <2>2. /\ At(N, x) = (<<Dummy(t)>> \o r)[x - k + 1]
        /\ At(F, x) = s[x - b + 1]
    BY Zenon DEF At
  <2>3. CASE x = k
    <3>1. At(N, x) = Dummy(t)
      <4>1. x - k + 1 = 1
        BY <2>3
      <4> QED BY <1>2, <2>2, <4>1, BehindDummy, ZenonT(60)
    <3> QED BY <1>3, <2>2, <2>3, <3>1 DEF Dummy
  <2>4. CASE x > k
    <3>1. x - k \in 1 .. Len(r) /\ (k - b + 1) + (x - k) = x - b + 1
      BY <2>1, <2>4
    <3>2. At(N, x) = r[x - k]
      BY <1>2, <2>2, <3>1, BehindDummy, Zenon
    <3>3. r[x - k] = s[x - b + 1]
      BY <1>2, <3>1, Zenon
    <3> QED BY <2>2, <3>2, <3>3, Zenon
  <2> QED BY <2>1, <2>3, <2>4
<1>5. First(F) <= First(N) /\ Last(N) <= Last(F) /\ Last(N) = Last(F)
  BY <1>1, <1>2, <1>3
<1> QED BY <1>4, <1>5, Zenon DEF Rest, Piece, r

\* The last entry of a snapshot is a stretch of the log the snapshot was cut from.
LEMMA PointPiece ==
    ASSUME NEW b \in Nat, NEW s \in Log, NEW t \in Nat, t = s[1].term
    PROVE  /\ Piece(<<b, <<Dummy(t)>>>>, <<b, s>>)
           /\ <<b, <<Dummy(t)>>>> \in Fragment
<1> DEFINE N == <<b, <<Dummy(t)>>>>
           F == <<b, s>>
<1>1. <<Dummy(t)>> \in Log /\ Len(<<Dummy(t)>>) = 1 /\ <<Dummy(t)>>[1] = Dummy(t)
  BY DEF Dummy, Entry, Log
<1>2. N \in Fragment /\ F \in Fragment
  BY <1>1, Zenon DEF Fragment
<1>3. First(N) = b /\ First(F) = b /\ Last(N) = b
  <2>1. N[1] = b /\ F[1] = b /\ N[2] = <<Dummy(t)>>
    BY Zenon
  <2> QED BY <1>1, <2>1 DEF First, Last
<1>4. At(N, b) = Dummy(t) /\ At(F, b) = s[1]
  <2>1. b - b + 1 = 1
    OBVIOUS
  <2>2. N[1] = b /\ F[1] = b /\ N[2] = <<Dummy(t)>> /\ F[2] = s
    BY Zenon
  <2> QED BY <1>1, <2>1, <2>2, Zenon DEF At
<1>5. Dummy(t).term = t
  BY Zenon DEF Dummy
<1>6. First(F) <= Last(F) /\ Last(F) \in Nat
  BY <1>2, FragmentType, Zenon
<1>7. \A x \in Nat : Covers(N, x) => x = b
  BY <1>3 DEF Covers
<1> QED BY <1>2, <1>3, <1>4, <1>5, <1>6, <1>7 DEF Piece

\* Start adds an entry at the end.
LEMMA AppendGrown ==
    ASSUME NEW b \in Nat, NEW s \in Log, NEW e \in Entry
    PROVE  /\ Grown(<<b, Append(s, e)>>, <<b, s>>, e.term)
           /\ <<b, Append(s, e)>> \in Fragment
<1> DEFINE a == Append(s, e)
           N == <<b, a>>
           F == <<b, s>>
<1>1. s \in Seq(Entry) /\ Len(s) \in Nat /\ s # << >>
  BY DEF Log
<1>2. /\ a \in Seq(Entry) /\ Len(a) = Len(s) + 1 /\ a[Len(s) + 1] = e
      /\ \A q \in 1 .. Len(s) : a[q] = s[q]
  BY <1>1
<1>3. a \in Log
  BY <1>1, <1>2 DEF Log
<1> HIDE DEF a
<1>4. N[1] = b /\ F[1] = b /\ N[2] = a /\ F[2] = s
  BY Zenon
<1>5. First(N) = b /\ First(F) = b /\ Last(F) = b + Len(s) - 1 /\ Last(N) = b + Len(s)
  BY <1>1, <1>2, <1>4 DEF First, Last
<1>6. ASSUME NEW x \in Nat, Covers(F, x) PROVE At(N, x) = At(F, x)
  <2>1. x - b + 1 \in 1 .. Len(s)
    BY <1>1, <1>5, <1>6 DEF Covers
  <2> QED BY <1>2, <1>4, <2>1, Zenon DEF At
<1>7. At(N, Last(N)) = e
  <2>1. (b + Len(s)) - b + 1 = Len(s) + 1
    BY <1>1
  <2> QED BY <1>2, <1>4, <1>5, <2>1, Zenon DEF At
<1>8. First(N) = First(F) /\ Last(N) = Last(F) + 1
  BY <1>1, <1>5
<1> QED BY <1>3, <1>6, <1>7, <1>8, Zenon DEF Grown, Fragment, a

\* The entries of two sequences put together.
LEMMA PutTogether ==
    ASSUME NEW S, NEW u \in Seq(S), NEW v \in Seq(S)
    PROVE  /\ Len(u \o v) = Len(u) + Len(v)
           /\ \A q \in 1 .. Len(u) : (u \o v)[q] = u[q]
           /\ \A q \in 1 .. Len(v) : (u \o v)[Len(u) + q] = v[q]
  OBVIOUS

\* The merge of AppendEntries joins the log and the request's entries at the last
\* entry before the first difference.
LEMMA MergeJoined ==
    ASSUME NEW b \in Nat, NEW s \in Log, NEW p \in Nat, NEW es \in Seq(Entry), NEW t \in Nat,
           b <= p, p <= b + Len(s) - 1, s[p - b + 1].term = t,
           NEW d \in 1 .. Len(es),
           \A x \in 1 .. Len(es) : x < d =>
               p + x <= b + Len(s) - 1 /\ s[p + x - b + 1].term = es[x].term
    PROVE  Joined(<<b, SubSeq(s, 1, p + d - b) \o SubSeq(es, d, Len(es))>>, <<b, s>>,
                  <<p, <<Dummy(t)>> \o es>>, p + d - 1)
<1> DEFINE u == SubSeq(s, 1, p + d - b)
           v == SubSeq(es, d, Len(es))
           w == <<Dummy(t)>> \o es
           N == <<b, u \o v>>
           F == <<b, s>>
           G == <<p, w>>
           y == p + d - 1
<1>1. s \in Seq(Entry) /\ Len(s) \in Nat /\ Len(es) \in Nat /\ d \in Nat /\ 1 <= d /\ d <= Len(es)
  BY DEF Log
<1>2. y <= b + Len(s) - 1 /\ y \in Nat /\ b <= y /\ p <= y /\ y = p + d - 1
  <2>1. CASE d = 1
    BY <1>1, <2>1
  <2>2. CASE d > 1
    <3>1. d - 1 \in 1 .. Len(es) /\ d - 1 < d /\ p + (d - 1) = p + d - 1
      BY <1>1, <2>2
    <3>2. p + (d - 1) <= b + Len(s) - 1
      BY <3>1, Zenon
    <3> QED BY <1>1, <3>1, <3>2
  <2> QED BY <1>1, <2>1, <2>2
<1>3. /\ u \in Seq(Entry) /\ Len(u) = p + d - b
      /\ \A q \in 1 .. p + d - b : u[q] = s[q]
  <2>1. p + d - b \in 1 .. Len(s)
    BY <1>1, <1>2
  <2> QED BY <1>1, <2>1
<1>4. /\ v \in Seq(Entry) /\ Len(v) = Len(es) - d + 1
      /\ \A q \in 1 .. Len(es) - d + 1 : v[q] = es[d + q - 1]
  BY <1>1
<1>5. /\ Len(w) = Len(es) + 1 /\ w[1] = Dummy(t)
      /\ \A q \in 1 .. Len(es) : w[q + 1] = es[q]
  BY BehindDummy, Zenon
<1> HIDE DEF u, v, w, y
<1>6. /\ Len(u \o v) = Len(u) + Len(v)
      /\ \A q \in 1 .. Len(u) : (u \o v)[q] = u[q]
      /\ \A q \in 1 .. Len(v) : (u \o v)[Len(u) + q] = v[q]
  <2>1. u \in Seq(Entry) /\ v \in Seq(Entry)
    BY <1>3, <1>4, Zenon
  <2> QED BY <2>1
<1>7. /\ N[1] = b /\ N[2] = u \o v /\ F[1] = b /\ F[2] = s /\ G[1] = p /\ G[2] = w
  BY Zenon
<1>8. /\ First(N) = b /\ Last(N) = p + Len(es) /\ First(F) = b /\ Last(F) = b + Len(s) - 1
      /\ First(G) = p /\ Last(G) = p + Len(es)
  <2>1. b + Len(u \o v) - 1 = p + Len(es) /\ p + Len(w) - 1 = p + Len(es)
    BY <1>1, <1>3, <1>4, <1>5, <1>6
  <2> QED BY <1>7, <2>1, Zenon DEF First, Last
<1>9. Covers(F, y) /\ Covers(G, y)
  BY <1>1, <1>2, <1>8 DEF Covers
<1>10. At(F, y).term = At(G, y).term
  <2>1. At(F, y) = s[y - b + 1] /\ At(G, y) = w[y - p + 1]
    BY <1>7, Zenon DEF At
  <2>2. CASE d = 1
    <3>1. y = p /\ y - p + 1 = 1
      BY <1>1, <1>2, <2>2
    <3>2. At(G, y) = Dummy(t) /\ At(F, y) = s[p - b + 1]
      BY <1>5, <2>1, <3>1, Zenon
    <3> QED BY <3>2, DummyTerm, Zenon
  <2>3. CASE d > 1
    <3>1. d - 1 \in 1 .. Len(es) /\ d - 1 < d /\ p + (d - 1) = y /\ y - p + 1 = (d - 1) + 1
      BY <1>1, <1>2, <2>3
    <3>2. w[y - p + 1] = es[d - 1]
      BY <1>5, <3>1, Zenon
    <3>3. s[p + (d - 1) - b + 1].term = es[d - 1].term
      BY <3>1, Zenon
    <3>4. p + (d - 1) - b + 1 = y - b + 1
      BY <1>1, <1>2
    <3>5. s[y - b + 1].term = es[d - 1].term
      BY <3>3, <3>4, Zenon
    <3> QED BY <2>1, <3>2, <3>5, Zenon
  <2> QED BY <1>1, <2>2, <2>3
<1>11. ASSUME NEW x \in Nat, Covers(N, x)
       PROVE  At(N, x) = IF x <= y THEN At(F, x) ELSE At(G, x)
  <2>1. b <= x /\ x <= p + Len(es)
    BY <1>8, <1>11, Zenon DEF Covers
  <2>2. /\ At(N, x) = (u \o v)[x - b + 1] /\ At(F, x) = s[x - b + 1]
        /\ At(G, x) = w[x - p + 1]
    BY <1>7, Zenon DEF At
  <2>3. CASE x <= y
    <3>1. x - b + 1 \in 1 .. p + d - b
      BY <1>1, <1>2, <2>1, <2>3
    <3> QED BY <1>3, <1>6, <2>2, <2>3, <3>1, Zenon
  <2>4. CASE x > y
    <3>1. /\ x - y \in 1 .. Len(es) - d + 1 /\ Len(u) + (x - y) = x - b + 1
          /\ x - p \in 1 .. Len(es) /\ d + (x - y) - 1 = x - p /\ (x - p) + 1 = x - p + 1
          /\ ~(x <= y)
      BY <1>1, <1>2, <1>3, <2>1, <2>4
    <3>2. (u \o v)[x - b + 1] = v[x - y]
      BY <1>4, <1>6, <3>1, Zenon
    <3>3. v[x - y] = es[x - p] /\ w[x - p + 1] = es[x - p]
      BY <1>4, <1>5, <3>1, Zenon
    <3> QED BY <2>2, <3>1, <3>2, <3>3, Zenon
  <2> QED BY <1>2, <2>3, <2>4
<1> QED BY <1>8, <1>9, <1>10, <1>11, Zenon DEF Joined, u, v, w, y

-----------------------------------------------------------------------------
(* Every step cuts, joins or grows.                                        *)

\* The logs and the requests under way are fragments.
LEMMA FragmentsType == TypeOK => Fragments \subseteq Fragment
<1> SUFFICES ASSUME TypeOK, NEW F \in Fragments PROVE F \in Fragment
  BY Zenon
<1>1. ASSUME NEW i \in Peers PROVE LogOf(i) \in Fragment
  BY Zenon DEF TypeOK, LogOf, Fragment
<1>2. ASSUME NEW m \in rpcs, Carries(m) PROVE Carried(m) \in Fragment
  <2>1. CASE m.type = "AppendEntries"
    <3>1. m.prevLogIndex \in Nat /\ m.prevLogTerm \in Nat /\ m.entries \in Seq(Entry)
      BY <2>1, MessageTypes, Zenon DEF AppendEntriesArgs
    <3> QED BY <2>1, <3>1, CutType, Zenon DEF Carried, Fragment
  <2>2. CASE m.type = "InstallSnapshot"
    <3>1. m.lastIncludedIndex \in Nat /\ m.lastIncludedTerm \in Nat
      BY <2>2, MessageTypes, Zenon DEF InstallSnapshotArgs
    <3>2. <<Dummy(m.lastIncludedTerm)>> \in Log
      BY <3>1 DEF Dummy, Entry, Log
    <3>3. m.type # "AppendEntries"
      BY <2>2
    <3> QED BY <3>1, <3>2, <3>3, Zenon DEF Carried, Fragment
  <2> QED BY <1>2, <2>1, <2>2, Zenon DEF Carries
<1> QED BY <1>1, <1>2, Zenon DEF Fragments

\* So they are after a step.
LEMMA FragmentsTypeNext == TypeOK' => Fragments' \subseteq Fragment
<1>1. (TypeOK => Fragments \subseteq Fragment)'
  BY FragmentsType, PTL
<1> QED BY <1>1, Zenon

\* No request with entries or a snapshot is sent.
NothingSent ==
    \A m \in rpcs' : Carries(m) => \E n \in rpcs : Carries(n) /\ Carried(n) = Carried(m)

\* Answering a request sends no entries.
LEMMA RespondSendsNothing ==
    ASSUME NEW m, NEW r, ~Carries(r), Respond(m, r)
    PROVE  NothingSent
  BY Zenon DEF NothingSent, Respond

\* Without a change to a log nothing new comes up.
LEMMA QuietFragments ==
    ASSUME UNCHANGED <<logs, lastIncludedIndex>>, NothingSent
    PROVE  Fragments' \subseteq Fragments
<1>1. \A i \in Peers : LogOf(i)' = LogOf(i)
  BY Zenon DEF LogOf
<1>2. \A m : Carries(m)' <=> Carries(m)
  BY Zenon DEF Carries
<1>3. \A m : Carried(m)' = Carried(m)
  BY Zenon DEF Carried
<1> QED BY <1>1, <1>2, <1>3, Zenon DEF Fragments, NothingSent

\* If one log changes, it is the one new fragment.
LEMMA LogFragment ==
    ASSUME TypeOK, NEW i \in Peers, NEW b, NEW s, NothingSent,
           logs' = [logs EXCEPT ![i] = s], lastIncludedIndex' = [lastIncludedIndex EXCEPT ![i] = b]
    PROVE  Fragments' \subseteq Fragments \cup {<<b, s>>}
<1>1. \A j \in Peers : LogOf(j)' = IF j = i THEN <<b, s>> ELSE LogOf(j)
  BY Zenon DEF LogOf, TypeOK
<1> QED BY <1>1, Zenon DEF Fragments, NothingSent

\* A request that is sent is the one new fragment.
LEMMA SentFragment ==
    ASSUME UNCHANGED <<logs, lastIncludedIndex>>, NEW m, rpcs' = rpcs \cup {m}
    PROVE  Fragments' \subseteq Fragments \cup {Carried(m)}
<1>1. \A i \in Peers : LogOf(i)' = LogOf(i)
  BY Zenon DEF LogOf
<1> QED BY <1>1, Zenon DEF Fragments

\* A fragment is a piece of itself.
LEMMA WholePiece == \A F \in Fragment : Piece(F, F)
<1> SUFFICES ASSUME NEW F \in Fragment PROVE Piece(F, F)
  BY Zenon
<1>1. First(F) <= First(F) /\ Last(F) <= Last(F)
  BY FragmentType
<1> QED BY <1>1, Zenon DEF Piece

\* One new piece makes a step a cut.
LEMMA CutBy ==
    ASSUME TypeOK, NEW N, NEW F \in Fragments, Piece(N, F),
           Fragments' \subseteq Fragments \cup {N}
    PROVE  CutStep
  BY FragmentsType, WholePiece, Zenon DEF CutStep

\* Nothing new makes a step a cut.
LEMMA CutByNothing ==
    ASSUME TypeOK, Fragments' \subseteq Fragments
    PROVE  CutStep
  BY FragmentsType, WholePiece, Zenon DEF CutStep

\* makeAppendEntry sends a piece of the sender's log.
LEMMA CutMakeAppendEntry ==
    ASSUME TypeOK, NEW i \in Peers, NEW j \in Peers, makeAppendEntry(i, j)
    PROVE  CutStep
<1> DEFINE n == nextIndex[i][j]
           request == [type |-> "AppendEntries", from |-> i, to |-> j, live |-> TRUE,
                       term         |-> currTerm[i],
                       prevLogIndex |-> n - 1,
                       prevLogTerm  |-> TermAt(i, n - 1),
                       entries      |-> Suffix(i, n),
                       leaderCommit |-> commitIndex[i]]
<1>1. UNCHANGED <<logs, lastIncludedIndex>>
  BY Zenon DEF makeAppendEntry, logVars
<1>2. CASE UNCHANGED rpcs
  <2>1. NothingSent
    BY <1>2, Zenon DEF NothingSent
  <2> QED BY <1>1, <2>1, QuietFragments, CutByNothing, Zenon
<1>3. CASE /\ n \in lastIncludedIndex[i] + 1 .. lastLogicalIndex(i) + 1
           /\ rpcs' = rpcs \cup {request}
  <2>1. /\ n \in Nat /\ lastIncludedIndex[i] \in Nat /\ lastLogicalIndex(i) \in Nat
        /\ logs[i] \in Log /\ Len(logs[i]) \in Nat
    BY LogHelpers, ZenonT(60) DEF TypeOK
  <2>2. Carried(request) = <<n - 1, <<Dummy(TermAt(i, n - 1))>> \o Suffix(i, n)>>
    BY Zenon DEF Carried
  <2> HIDE DEF n
  <2>3. n - 1 \in lastIncludedIndex[i] .. lastLogicalIndex(i) /\ n - 1 \in Nat
    BY <1>3, <2>1, OneBefore, Zenon
  <2>4. TermAt(i, n - 1) \in Nat
    BY <2>3, LogHelpers, Zenon
  <2>5. PICK k \in Nat : k = n - 1
    BY <2>3, Zenon
  <2>6. /\ lastIncludedIndex[i] <= k /\ k <= lastIncludedIndex[i] + Len(logs[i]) - 1
        /\ k - lastIncludedIndex[i] + 2 = n - lastIncludedIndex[i] + 1
    BY <2>1, <2>3, <2>5 DEF lastLogicalIndex
  <2>7. /\ TermAt(i, k) = logs[i][k - lastIncludedIndex[i] + 1].term
        /\ Suffix(i, n) = SubSeq(logs[i], k - lastIncludedIndex[i] + 2, Len(logs[i]))
    BY <2>6, Zenon DEF TermAt, Suffix, Pos
  <2>8. Rest(<<k, <<Dummy(TermAt(i, k))>> \o Suffix(i, n)>>, LogOf(i))
    BY <2>1, <2>4, <2>5, <2>6, <2>7, CutPiece, Zenon DEF LogOf
  <2>9. LogOf(i) \in Fragments
    BY Zenon DEF Fragments
  <2>10. Fragments' \subseteq Fragments \cup {Carried(request)}
    BY <1>1, <1>3, SentFragment, Zenon
  <2> QED BY <2>2, <2>5, <2>8, <2>9, <2>10, CutBy, Zenon DEF Rest
<1> QED BY <1>2, <1>3, Zenon DEF makeAppendEntry

\* sendInstallSnapshotToPeers sends the last entry of the sender's snapshot.
LEMMA CutSendInstallSnapshot ==
    ASSUME TypeOK, SnapshotConsistent, NEW i \in Peers, NEW j \in Peers,
           sendInstallSnapshotToPeers(i, j)
    PROVE  CutStep
<1> DEFINE request == [type |-> "InstallSnapshot", from |-> i, to |-> j, live |-> TRUE,
                       term              |-> currTerm[i],
                       lastIncludedIndex |-> lastIncludedIndex[i],
                       lastIncludedTerm  |-> lastIncludedTerm[i], data |-> snapshot[i]]
<1>1. UNCHANGED <<logs, lastIncludedIndex>> /\ rpcs' = rpcs \cup {request}
  BY Zenon DEF sendInstallSnapshotToPeers, logVars
<1>2. Carried(request) = <<lastIncludedIndex[i], <<Dummy(lastIncludedTerm[i])>>>>
  BY DEF Carried
<1>3. /\ lastIncludedIndex[i] \in Nat /\ logs[i] \in Log /\ lastIncludedTerm[i] \in Nat
      /\ lastIncludedTerm[i] = logs[i][1].term
  BY Zenon DEF TypeOK, SnapshotConsistent
<1>4. Piece(Carried(request), LogOf(i))
  BY <1>2, <1>3, PointPiece, Zenon DEF LogOf
<1>5. LogOf(i) \in Fragments
  BY Zenon DEF Fragments
<1> QED BY <1>1, <1>4, <1>5, SentFragment, CutBy, Zenon

\* Snapshot cuts the log.
LEMMA CutSnapshot ==
    ASSUME TypeOK, NEW i \in Peers, Snapshot(i)
    PROVE  CutStep /\ \A j \in Peers : lastLogicalIndex(j)' = lastLogicalIndex(j)
<1>1. PICK k \in Nat : k = service[i]
  BY Zenon DEF TypeOK
<1>2. /\ k \in lastIncludedIndex[i] + 1 .. lastLogicalIndex(i)
      /\ logs' = [logs EXCEPT ![i] = <<Dummy(TermAt(i, k))>> \o Suffix(i, k + 1)]
      /\ lastIncludedIndex' = [lastIncludedIndex EXCEPT ![i] = k]
      /\ UNCHANGED rpcs
  BY <1>1, Zenon DEF Snapshot
<1>3. /\ lastIncludedIndex[i] \in Nat /\ lastLogicalIndex(i) \in Nat
      /\ logs[i] \in Log /\ Len(logs[i]) \in Nat
  BY LogHelpers, Zenon DEF TypeOK
<1>4. /\ lastIncludedIndex[i] <= k /\ k <= lastIncludedIndex[i] + Len(logs[i]) - 1
      /\ k \in lastIncludedIndex[i] .. lastLogicalIndex(i)
      /\ k - lastIncludedIndex[i] + 2 = (k + 1) - lastIncludedIndex[i] + 1
  BY <1>2, <1>3 DEF lastLogicalIndex
<1>5. TermAt(i, k) \in Nat
  BY <1>4, LogHelpers, Zenon
<1>6. /\ TermAt(i, k) = logs[i][k - lastIncludedIndex[i] + 1].term
      /\ Suffix(i, k + 1) = SubSeq(logs[i], k - lastIncludedIndex[i] + 2, Len(logs[i]))
  BY <1>4, Zenon DEF TermAt, Suffix, Pos
<1> DEFINE s == <<Dummy(TermAt(i, k))>> \o Suffix(i, k + 1)
<1>7. Piece(<<k, s>>, LogOf(i)) /\ Last(<<k, s>>) = Last(LogOf(i))
  <2>1. PICK b \in Nat, r \in Log, t \in Nat :
                b = lastIncludedIndex[i] /\ r = logs[i] /\ t = TermAt(i, k)
    BY <1>3, <1>5, Zenon
  <2>2. b <= k /\ k <= b + Len(r) - 1 /\ t = r[k - b + 1].term
    BY <1>4, <1>6, <2>1, Zenon
  <2>3. Rest(<<k, <<Dummy(t)>> \o SubSeq(r, k - b + 2, Len(r))>>, <<b, r>>)
    BY <2>2, CutPiece, Zenon
  <2>4. s = <<Dummy(t)>> \o SubSeq(r, k - b + 2, Len(r)) /\ LogOf(i) = <<b, r>>
    BY <1>6, <2>1, Zenon DEF LogOf
  <2> QED BY <2>3, <2>4, Zenon DEF Rest
<1> HIDE DEF s
<1>8. NothingSent /\ LogOf(i) \in Fragments
  BY <1>2, Zenon DEF NothingSent, Fragments
<1>9. Fragments' \subseteq Fragments \cup {<<k, s>>}
  BY <1>2, <1>8, LogFragment, Zenon DEF s
<1>10. ASSUME NEW j \in Peers PROVE lastLogicalIndex(j)' = lastLogicalIndex(j)
  <2>1. CASE j = i
    <3>1. logs'[i] = s /\ lastIncludedIndex'[i] = k
      BY <1>2, Zenon DEF s, TypeOK
    <3> QED BY <1>7, <2>1, <3>1, Zenon DEF Last, LogOf, lastLogicalIndex
  <2>2. CASE j # i
    <3>1. logs'[j] = logs[j] /\ lastIncludedIndex'[j] = lastIncludedIndex[j]
      BY <1>2, <2>2, Zenon DEF TypeOK
    <3> QED BY <3>1, Zenon DEF lastLogicalIndex
  <2> QED BY <2>1, <2>2, Zenon
<1> QED BY <1>7, <1>8, <1>9, <1>10, CutBy, Zenon

\* A snapshot that is installed cuts the log, or replaces it by the request's entry.
LEMMA CutInstall ==
    ASSUME TypeOK, NEW m \in rpcs, m.type = "InstallSnapshot",
           m.lastIncludedIndex > lastIncludedIndex[m.to], NothingSent,
           logs' = [logs EXCEPT ![m.to] = LogAfterSnapshot(m.to, m)],
           lastIncludedIndex' = [lastIncludedIndex EXCEPT ![m.to] = m.lastIncludedIndex]
    PROVE  CutStep
<1> DEFINE i == m.to
           t == m.lastIncludedTerm
<1>1. m \in InstallSnapshotArgs /\ i \in Peers
  BY MessageTypes, Zenon
<1>2. PICK k \in Nat : k = m.lastIncludedIndex
  BY <1>1, Zenon DEF InstallSnapshotArgs
<1>3. t \in Nat /\ logs[i] \in Log /\ logs[i] \in Seq(Entry) /\ Len(logs[i]) \in Nat
      /\ lastIncludedIndex[i] \in Nat /\ lastLogicalIndex(i) \in Nat
  BY <1>1, LogHelpers, Zenon DEF InstallSnapshotArgs, TypeOK
<1>4. CASE k <= lastLogicalIndex(i) /\ TermAt(i, k) = t
  <2>1. LogAfterSnapshot(i, m) = <<Dummy(t)>> \o Suffix(i, k + 1)
    BY <1>2, <1>4, Zenon DEF LogAfterSnapshot
  <2>2. /\ lastIncludedIndex[i] <= k /\ k <= lastIncludedIndex[i] + Len(logs[i]) - 1
        /\ k - lastIncludedIndex[i] + 2 = (k + 1) - lastIncludedIndex[i] + 1
    BY <1>2, <1>3, <1>4 DEF lastLogicalIndex
  <2>3. /\ t = logs[i][k - lastIncludedIndex[i] + 1].term
        /\ Suffix(i, k + 1) = SubSeq(logs[i], k - lastIncludedIndex[i] + 2, Len(logs[i]))
    BY <1>4, <2>2, Zenon DEF TermAt, Suffix, Pos
  <2>4. Rest(<<k, <<Dummy(t)>> \o Suffix(i, k + 1)>>, LogOf(i))
    BY <1>3, <2>2, <2>3, CutPiece, Zenon DEF LogOf
  <2>5. Fragments' \subseteq Fragments \cup {<<k, <<Dummy(t)>> \o Suffix(i, k + 1)>>}
    BY <1>1, <1>2, <2>1, LogFragment, Zenon
  <2>6. LogOf(i) \in Fragments
    BY <1>1, Zenon DEF Fragments
  <2> QED BY <2>4, <2>5, <2>6, CutBy, Zenon DEF Rest
<1>5. CASE ~(k <= lastLogicalIndex(i) /\ TermAt(i, k) = t)
  <2>1. LogAfterSnapshot(i, m) = <<Dummy(t)>> \o << >>
    BY <1>2, <1>5, Zenon DEF LogAfterSnapshot
  <2>2. <<Dummy(t)>> \o << >> = <<Dummy(t)>>
    <3>1. <<Dummy(t)>> \in Seq(Entry)
      BY <1>3 DEF Dummy, Entry
    <3> QED BY <3>1
  <2>3. Carried(m) = <<k, <<Dummy(t)>>>>
    BY <1>2 DEF Carried
  <2>4. Fragments' \subseteq Fragments \cup {<<k, <<Dummy(t)>>>>}
    BY <1>1, <1>2, <2>1, <2>2, LogFragment, Zenon
  <2>5. Carried(m) \in Fragments
    BY Zenon DEF Fragments, Carries
  <2>6. Fragments' \subseteq Fragments
    BY <2>3, <2>4, <2>5, Zenon
  <2> QED BY <2>6, CutByNothing, Zenon
<1> QED BY <1>4, <1>5, Zenon

\* AppendEntries leaves the log alone or joins it with the entries of the request.
LEMMA MergeIsJoin ==
    ASSUME TypeOK, NEW i \in Peers, NEW m \in AppendEntriesArgs,
           PrevMatches(i, m), MergeEntries(i, m)
    PROVE  \/ UNCHANGED logs
           \/ \E a \in Log, y \in Nat :
                /\ logs' = [logs EXCEPT ![i] = a]
                /\ Joined(<<lastIncludedIndex[i], a>>, LogOf(i), Carried(m), y)
<1> DEFINE p == m.prevLogIndex
           t == m.prevLogTerm
           es == m.entries
           b == lastIncludedIndex[i]
           s == logs[i]
<1>1. logs' \in [Peers -> Log]
  BY MergeType, Zenon
<1>2. p \in Nat /\ t \in Nat /\ es \in Seq(Entry)
  BY Zenon DEF AppendEntriesArgs
<1>3. b \in Nat /\ s \in Log /\ Len(s) \in Nat /\ Len(es) \in Nat
  <2>1. Len(es) \in Nat
    BY <1>2
  <2> QED BY <2>1, LogHelpers, Zenon DEF TypeOK
<1>5. ASSUME NEW d \in Differing(i, m), \A x \in Differing(i, m) : d <= x,
             logs' = [logs EXCEPT ![i] = SubSeq(s, 1, Pos(i, p + d) - 1)
                                           \o SubSeq(es, d, Len(es))]
      PROVE  \E a \in Log, y \in Nat :
                /\ logs' = [logs EXCEPT ![i] = a]
                /\ Joined(<<b, a>>, LogOf(i), Carried(m), y)
  <2>1. d \in 1 .. Len(es) /\ d \in Nat
    <3>1. d \in 1 .. Len(es)
      BY <1>5, Zenon DEF Differing
    <3> QED BY <1>3, <3>1
  <2>2. b <= p /\ p <= b + Len(s) - 1
    BY <1>2, <1>3 DEF PrevMatches, lastLogicalIndex
  <2>3. s[p - b + 1].term = t
    BY Zenon DEF PrevMatches, TermAt, Pos
  <2>4. ASSUME NEW x \in 1 .. Len(es), x < d
        PROVE  p + x <= b + Len(s) - 1 /\ s[p + x - b + 1].term = es[x].term
    <3>1. x \in Nat /\ ~(d <= x)
      BY <1>3, <2>1, <2>4
    <3>2. x \notin Differing(i, m)
      BY <1>5, <3>1, Zenon
    <3>3. ~(p + x > lastLogicalIndex(i)) /\ TermAt(i, p + x) = es[x].term
      BY <3>2, Zenon DEF Differing
    <3>4. p + x <= b + Len(s) - 1
      BY <1>2, <1>3, <3>1, <3>3 DEF lastLogicalIndex
    <3>5. Pos(i, p + x) = p + x - b + 1
      BY <1>2, <1>3, <3>1 DEF Pos
    <3> QED BY <3>3, <3>4, <3>5, Zenon DEF TermAt
  <2>5. Pos(i, p + d) - 1 = p + d - b
    BY <1>2, <1>3, <2>1 DEF Pos
  <2> DEFINE a == SubSeq(s, 1, p + d - b) \o SubSeq(es, d, Len(es))
             N == <<b, a>>
             G == <<p, <<Dummy(t)>> \o es>>
  <2>6. Joined(N, <<b, s>>, G, p + d - 1)
    BY <1>2, <1>3, <2>1, <2>2, <2>3, <2>4, MergeJoined, Zenon
  <2>7. logs' = [logs EXCEPT ![i] = a]
    BY <1>5, <2>5, Zenon
  <2> HIDE DEF a
  <2>8. LogOf(i) = <<b, s>> /\ Carried(m) = G
    <3>1. m.type = "AppendEntries"
      BY Zenon DEF AppendEntriesArgs
    <3> QED BY <3>1, Zenon DEF LogOf, Carried
  <2>9. a \in Log
    BY <1>1, <2>7, Zenon DEF TypeOK
  <2>10. p + d - 1 \in Nat
    BY <1>2, <1>3, <2>1
  <2> QED BY <2>6, <2>7, <2>8, <2>9, <2>10, Zenon
<1> QED BY <1>5, Zenon DEF MergeEntries

\* So it joins two fragments.
LEMMA JoinAccept ==
    ASSUME TypeOK, NEW m \in rpcs, m.type = "AppendEntries", NothingSent,
           PrevMatches(m.to, m), MergeEntries(m.to, m), UNCHANGED lastIncludedIndex
    PROVE  CutStep \/ JoinStep
<1> DEFINE i == m.to
           b == lastIncludedIndex[i]
<1>1. m \in AppendEntriesArgs /\ i \in Peers /\ b \in Nat
  BY MessageTypes, Zenon DEF TypeOK
<1>2. CASE UNCHANGED logs
  BY <1>2, QuietFragments, CutByNothing, Zenon
<1>3. ASSUME NEW a \in Log, NEW y \in Nat, logs' = [logs EXCEPT ![i] = a],
             Joined(<<b, a>>, LogOf(i), Carried(m), y)
      PROVE  JoinStep
  <2>1. lastIncludedIndex' = [lastIncludedIndex EXCEPT ![i] = b]
    BY <1>1, Zenon DEF TypeOK
  <2>2. Fragments' \subseteq Fragments \cup {<<b, a>>}
    BY <1>1, <1>3, <2>1, LogFragment, Zenon
  <2>3. LogOf(i) \in Fragments /\ Carried(m) \in Fragments
    BY <1>1, Zenon DEF Fragments, Carries
  <2>4. <<b, a>> \in Fragment
    BY <1>1, Zenon DEF Fragment
  <2> QED BY <1>3, <2>2, <2>3, <2>4, Zenon DEF JoinStep
<1> QED BY <1>1, <1>2, <1>3, MergeIsJoin, Zenon

\* Start lets the leader's log grow.
LEMMA GrowStart ==
    ASSUME TypeOK, NEW i \in Peers, NEW c \in Commands, Start(i, c)
    PROVE  GrowStep
<1> DEFINE e == [term |-> currTerm[i], command |-> c]
           b == lastIncludedIndex[i]
           s == logs[i]
           a == Append(s, e)
           N == <<b, a>>
<1>1. /\ state[i] = Leader /\ logs' = [logs EXCEPT ![i] = a]
      /\ UNCHANGED <<state, currTerm, elected, lastIncludedIndex, rpcs>>
  BY Zenon DEF Start, serverVars
<1>2. b \in Nat /\ s \in Log /\ e \in Entry /\ e.term = currTerm[i]
  BY Zenon DEF TypeOK, Entry
<1>3. Grown(N, LogOf(i), currTerm[i]) /\ N \in Fragment
  BY <1>2, AppendGrown, Zenon DEF LogOf
<1> HIDE DEF a
<1>4. NothingSent
  BY <1>1, Zenon DEF NothingSent
<1>5. lastIncludedIndex' = [lastIncludedIndex EXCEPT ![i] = b]
  BY <1>1, Zenon DEF TypeOK
<1>6. Fragments' \subseteq Fragments \cup {N}
  BY <1>1, <1>4, <1>5, LogFragment, Zenon
<1>7. lastLogicalIndex(i)' = lastLogicalIndex(i) + 1
  <2>1. logs'[i] = a
    BY <1>1, Zenon DEF TypeOK
  <2>2. Last(N) = Last(LogOf(i)) + 1
    BY <1>3, Zenon DEF Grown
  <2> QED BY <1>1, <2>1, <2>2, Zenon DEF Last, LogOf, lastLogicalIndex
<1>8. \A j \in Peers \ {i} : lastLogicalIndex(j)' = lastLogicalIndex(j)
  <2>1. \A j \in Peers \ {i} : logs'[j] = logs[j]
    BY <1>1, Zenon DEF TypeOK
  <2> QED BY <1>1, <2>1, Zenon DEF lastLogicalIndex
<1> QED BY <1>1, <1>3, <1>6, <1>7, <1>8, Zenon DEF GrowStep

\* A server that leads after a step has not lost entries in it.
LeadersKeepLogs ==
    \A l \in Peers : state'[l] = Leader => lastLogicalIndex(l)' >= lastLogicalIndex(l)

\* Only a server that ends up a follower may lose entries.
LEMMA FollowerLosesLog ==
    ASSUME TypeOK, NEW i \in Peers, Become(i, Follower),
           NEW s, logs' = [logs EXCEPT ![i] = s],
           NEW b, lastIncludedIndex' = [lastIncludedIndex EXCEPT ![i] = b]
    PROVE  LeadersKeepLogs
<1> SUFFICES ASSUME NEW l \in Peers, state'[l] = Leader
             PROVE  lastLogicalIndex(l)' >= lastLogicalIndex(l)
  BY Zenon DEF LeadersKeepLogs
<1>1. state'[i] = Follower
  BY Zenon DEF Become, TypeOK
<1>2. l # i
  BY <1>1 DEF Leader, Follower
<1>3. logs'[l] = logs[l] /\ lastIncludedIndex'[l] = lastIncludedIndex[l]
  BY <1>2, Zenon DEF TypeOK
<1>4. lastLogicalIndex(l)' = lastLogicalIndex(l) /\ lastLogicalIndex(l) \in Nat
  BY <1>3, LogHelpers, Zenon DEF lastLogicalIndex
<1> QED BY <1>4

\* A request to append entries cuts or joins.
LEMMA LogAppendEntries ==
    ASSUME TypeOK, TypeOK', NEW m \in rpcs, AppendEntries(m)
    PROVE  \/ UNCHANGED <<logs, lastIncludedIndex>> /\ NothingSent
           \/ (CutStep \/ JoinStep) /\ LeadersKeepLogs
<1>1. m.to \in Peers /\ m.type = "AppendEntries"
  BY MessageTypes, Zenon DEF AppendEntries
<1>2. NothingSent
  <2>1. \E b, t, c, ct : Respond(m, AEReply(m, b, t, c, ct))
    BY Zenon DEF AppendEntries, RejectEntries, AcceptEntries
  <2>2. \A b, t, c, ct : AEReply(m, b, t, c, ct).type = "AppendEntriesReply"
    BY Zenon DEF AEReply
  <2>3. \A b, t, c, ct : ~Carries(AEReply(m, b, t, c, ct))
    BY <2>2, Zenon DEF Carries
  <2> QED BY <2>1, <2>3, RespondSendsNothing, Zenon
<1>3. CASE Adopt(m.to, m.term) /\ AcceptEntries(m.to, m)
  <2>1. /\ PrevMatches(m.to, m) /\ MergeEntries(m.to, m) /\ UNCHANGED lastIncludedIndex
        /\ Become(m.to, Follower)
    BY <1>3, Zenon DEF AcceptEntries, Adopt
  <2>2. CutStep \/ JoinStep
    BY <1>1, <1>2, <2>1, JoinAccept, Zenon
  <2>3. /\ \E s : logs' = [logs EXCEPT ![m.to] = s]
        /\ \E b : lastIncludedIndex' = [lastIncludedIndex EXCEPT ![m.to] = b]
    <3>1. /\ logs = [logs EXCEPT ![m.to] = logs[m.to]]
          /\ lastIncludedIndex = [lastIncludedIndex EXCEPT ![m.to] = lastIncludedIndex[m.to]]
      BY <1>1, Zenon DEF TypeOK
    <3> QED BY <2>1, <3>1, Zenon DEF MergeEntries
  <2>4. LeadersKeepLogs
    BY <1>1, <2>1, <2>3, FollowerLosesLog, Zenon
  <2> QED BY <2>2, <2>4, Zenon
<1>4. CASE UNCHANGED logVars
  BY <1>2, <1>4, Zenon DEF logVars
<1> QED BY <1>3, <1>4, Zenon DEF AppendEntries, RejectEntries

\* A request to install a snapshot cuts.
LEMMA LogInstallSnapshot ==
    ASSUME TypeOK, NEW m \in rpcs, InstallSnapshot(m)
    PROVE  \/ UNCHANGED <<logs, lastIncludedIndex>> /\ NothingSent
           \/ CutStep /\ LeadersKeepLogs
<1>1. m.to \in Peers /\ m.type = "InstallSnapshot"
  BY MessageTypes, Zenon DEF InstallSnapshot
<1>2. NothingSent
  <2> DEFINE reply(t) == [type |-> "InstallSnapshotReply", from |-> m.to, to |-> m.from,
                          argsTerm |-> m.term,
                          lastIncludedIndex |-> m.lastIncludedIndex, term |-> t]
  <2>1. \E t : Respond(m, reply(t))
    BY Zenon DEF InstallSnapshot
  <2>2. \A t : reply(t).type = "InstallSnapshotReply"
    BY Zenon
  <2>3. \A t : ~Carries(reply(t))
    BY <2>2, Zenon DEF Carries
  <2> QED BY <2>1, <2>3, RespondSendsNothing, Zenon
<1>3. CASE UNCHANGED logVars
  BY <1>2, <1>3, Zenon DEF logVars
<1>4. CASE /\ m.lastIncludedIndex > lastIncludedIndex[m.to] /\ Adopt(m.to, m.term)
           /\ logs' = [logs EXCEPT ![m.to] = LogAfterSnapshot(m.to, m)]
           /\ lastIncludedIndex' = [lastIncludedIndex EXCEPT ![m.to] = m.lastIncludedIndex]
  <2>1. CutStep
    BY <1>1, <1>2, <1>4, CutInstall, Zenon
  <2>2. LeadersKeepLogs
    BY <1>1, <1>4, FollowerLosesLog, Zenon DEF Adopt
  <2> QED BY <2>1, <2>2, Zenon
<1> QED BY <1>3, <1>4, Zenon DEF InstallSnapshot

\* Every step cuts, joins or grows.
LEMMA LogSteps ==
    ASSUME TypeOK, TypeOK', PersistedIsCurrent, SnapshotConsistent, [Next]_vars
    PROVE  (CutStep \/ JoinStep \/ GrowStep) /\ LeadersKeepLogs
<1>1. ASSUME UNCHANGED <<logs, lastIncludedIndex>> PROVE LeadersKeepLogs
  <2>1. \A l \in Peers : lastLogicalIndex(l)' = lastLogicalIndex(l) /\ lastLogicalIndex(l) \in Nat
    BY <1>1, LogHelpers, Zenon DEF lastLogicalIndex
  <2> QED BY <2>1 DEF LeadersKeepLogs
<1>2. ASSUME UNCHANGED <<logs, lastIncludedIndex>>, NothingSent
      PROVE  CutStep /\ LeadersKeepLogs
  BY <1>1, <1>2, QuietFragments, CutByNothing, Zenon
<1>3. ASSUME UNCHANGED <<logVars, rpcs>> PROVE CutStep /\ LeadersKeepLogs
  BY <1>2, <1>3, Zenon DEF NothingSent, logVars
<1>4. ASSUME NEW i \in Peers, NEW c \in Commands, Start(i, c)
      PROVE  GrowStep /\ LeadersKeepLogs
  <2>1. GrowStep
    BY <1>4, GrowStart, Zenon
  <2>2. \A l \in Peers : lastLogicalIndex(l) \in Nat
    BY LogHelpers, Zenon
  <2> QED BY <2>1, <2>2 DEF GrowStep, LeadersKeepLogs
<1>5. ASSUME NEW i \in Peers, Snapshot(i) PROVE CutStep /\ LeadersKeepLogs
  <2>1. \A l \in Peers : lastLogicalIndex(l) \in Nat
    BY LogHelpers, Zenon
  <2>2. CutStep /\ \A j \in Peers : lastLogicalIndex(j)' = lastLogicalIndex(j)
    BY <1>5, CutSnapshot, Zenon
  <2> QED BY <2>1, <2>2 DEF LeadersKeepLogs
<1>6. ASSUME NEW i \in Peers, NEW j \in Peers,
             makeAppendEntry(i, j) \/ sendInstallSnapshotToPeers(i, j)
      PROVE  CutStep /\ LeadersKeepLogs
  <2>1. UNCHANGED <<logs, lastIncludedIndex>>
    BY <1>6, Zenon DEF makeAppendEntry, sendInstallSnapshotToPeers, logVars
  <2> QED BY <1>1, <1>6, <2>1, CutMakeAppendEntry, CutSendInstallSnapshot, Zenon
<1>7. ASSUME NEW i \in Peers, startElection(i) PROVE CutStep /\ LeadersKeepLogs
  <2>1. NothingSent
    <3>1. \A m \in rpcs' : m \in rpcs \/ m.type = "RequestVote"
      BY <1>7 DEF startElection
    <3> QED BY <3>1, Zenon DEF NothingSent, Carries
  <2> QED BY <1>2, <1>7, <2>1, Zenon DEF startElection, logVars
<1>8. ASSUME NEW i \in Peers, Make(i) PROVE CutStep /\ LeadersKeepLogs
  <2>1. \A j \in Peers : FieldsKept(j)
    BY <1>8, MakeKeepsFields, Zenon
  <2>2. UNCHANGED <<logs, lastIncludedIndex>>
    <3>1. /\ logs \in [Peers -> Log] /\ logs' \in [Peers -> Log]
          /\ lastIncludedIndex \in [Peers -> Nat] /\ lastIncludedIndex' \in [Peers -> Nat]
      BY Zenon DEF TypeOK
    <3>2. /\ \A j \in Peers : logs'[j] = logs[j]
          /\ \A j \in Peers : lastIncludedIndex'[j] = lastIncludedIndex[j]
      BY <2>1, Zenon DEF FieldsKept
    <3> QED BY <3>1, <3>2
  <2>3. NothingSent
    <3> SUFFICES ASSUME NEW n \in rpcs, Carries(Orphaned(i, n))
                 PROVE  Carries(n) /\ Carried(n) = Carried(Orphaned(i, n))
      BY <1>8, Zenon DEF NothingSent, Make
    <3>1. CASE Orphaned(i, n) = n
      BY <3>1, Zenon
    <3>2. CASE /\ Orphaned(i, n) = [n EXCEPT !.live = FALSE]
               /\ n.type \in {"RequestVote", "AppendEntries", "InstallSnapshot"}
      <4>1. n \in RequestVoteArgs \/ n \in AppendEntriesArgs \/ n \in InstallSnapshotArgs
        BY <3>2, MessageTypes, Zenon
      <4>2. Orphaned(i, n).type = n.type
        BY <3>2, <4>1, Zenon DEF RequestVoteArgs, AppendEntriesArgs, InstallSnapshotArgs
      <4>3. CASE n \in AppendEntriesArgs
        <5>1. /\ Orphaned(i, n).prevLogIndex = n.prevLogIndex
              /\ Orphaned(i, n).prevLogTerm = n.prevLogTerm
              /\ Orphaned(i, n).entries = n.entries
              /\ n.type = "AppendEntries"
          BY <3>2, <4>3, Zenon DEF AppendEntriesArgs
        <5> QED BY <4>2, <5>1, Zenon DEF Carries, Carried
      <4>4. CASE n \in InstallSnapshotArgs
        <5>1. /\ Orphaned(i, n).lastIncludedIndex = n.lastIncludedIndex
              /\ Orphaned(i, n).lastIncludedTerm = n.lastIncludedTerm
              /\ n.type = "InstallSnapshot"
          BY <3>2, <4>4, Zenon DEF InstallSnapshotArgs
        <5> QED BY <4>2, <5>1 DEF Carries, Carried
      <4>5. CASE n \in RequestVoteArgs
        BY <4>2, <4>5 DEF RequestVoteArgs, Carries
      <4> QED BY <4>1, <4>3, <4>4, <4>5, Zenon
    <3> QED BY <3>1, <3>2, Zenon DEF Orphaned
  <2> QED BY <1>2, <2>2, <2>3, Zenon
<1>9. ASSUME NEW i \in Peers, NEW j \in Peers,
             \/ sendApplyMsg(i) \/ applyCommand(i) \/ (\E k \in snapMsgs[i] : applySnapshot(i, k))
             \/ \E f \in {"startElection", "makeAppendEntry"} : Delay(f, i, j)
      PROVE  UNCHANGED <<logVars, rpcs>>
  BY <1>9, Zenon DEF sendApplyMsg, applyCommand, applySnapshot, Delay
<1>10. ASSUME NEW m \in rpcs, Finish(m)
       PROVE  (CutStep \/ JoinStep) /\ LeadersKeepLogs
  <2>1. CASE LoseRPC(m)
    BY <1>2, <2>1, Zenon DEF LoseRPC, NothingSent, logVars
  <2>2. CASE RequestVoteReply(m) \/ AppendEntriesReply(m) \/ InstallSnapshotReply(m)
    BY <1>2, <2>2, Zenon DEF RequestVoteReply, AppendEntriesReply, InstallSnapshotReply,
                            NothingSent, logVars
  <2>3. CASE RequestVote(m)
    <3> DEFINE reply == [type |-> "RequestVoteReply", from |-> m.to, to |-> m.from,
                       startTerm |-> m.term, term |-> max(currTerm[m.to], m.term),
                       granted |-> MayVote(m.to, m) /\ UpToDate(m.to, m)]
    <3>1. Respond(m, reply) /\ UNCHANGED logVars
      BY <2>3, Zenon DEF RequestVote
    <3>2. reply.type = "RequestVoteReply"
      BY Zenon
    <3>3. ~Carries(reply)
      BY <3>2, Zenon DEF Carries
    <3> QED BY <1>2, <3>1, <3>3, RespondSendsNothing, Zenon DEF logVars
  <2>4. CASE AppendEntries(m)
    BY <1>2, <2>4, LogAppendEntries, Zenon
  <2>5. CASE InstallSnapshot(m)
    BY <1>2, <2>5, LogInstallSnapshot, Zenon
  <2> QED BY <1>10, <2>1, <2>2, <2>3, <2>4, <2>5, Zenon DEF Finish
<1>11. CASE UNCHANGED vars
  BY <1>3, <1>11, Zenon DEF vars
<1> QED BY <1>3, <1>4, <1>5, <1>6, <1>7, <1>8, <1>9, <1>10, <1>11, Zenon DEF Next

-----------------------------------------------------------------------------
(* Leaders and the terms of entries.                                       *)

\* Server l leads after a step in which it led, or was a candidate and was elected;
\* it is a candidate if it was one or has just entered the next term; whoever is
\* elected leads.
LEMMA RoleStep ==
    ASSUME TypeOK, PersistedIsCurrent, [Next]_vars
    PROVE  /\ \A l \in Peers : state'[l] = Leader =>
                /\ currTerm'[l] = currTerm[l]
                /\ state[l] = Leader \/ (state[l] = Candidate /\ <<currTerm[l], l>> \in elected')
           /\ \A l \in Peers : state'[l] = Candidate =>
                \/ state[l] = Candidate /\ currTerm'[l] = currTerm[l]
                \/ currTerm'[l] = currTerm[l] + 1 /\ UNCHANGED elected
           /\ \/ UNCHANGED elected
              \/ \E i \in Peers : /\ elected' = elected \cup {<<currTerm[i], i>>}
                                   /\ state'[i] = Leader /\ currTerm'[i] = currTerm[i]
<1> DEFINE Led(l) == state'[l] = Leader =>
                /\ currTerm'[l] = currTerm[l]
                /\ state[l] = Leader \/ (state[l] = Candidate /\ <<currTerm[l], l>> \in elected')
           Ran(l) == state'[l] = Candidate =>
                \/ state[l] = Candidate /\ currTerm'[l] = currTerm[l]
                \/ currTerm'[l] = currTerm[l] + 1 /\ UNCHANGED elected
           Won == \/ UNCHANGED elected
                  \/ \E i \in Peers : /\ elected' = elected \cup {<<currTerm[i], i>>}
                                       /\ state'[i] = Leader /\ currTerm'[i] = currTerm[i]
<1>1. /\ state \in [Peers -> {Leader, Candidate, Follower}] /\ currTerm \in [Peers -> Nat]
      /\ Leader # Candidate /\ Leader # Follower /\ Candidate # Follower
  <2>1. Leader # Candidate /\ Leader # Follower /\ Candidate # Follower
    BY DEF Leader, Candidate, Follower
  <2> QED BY <2>1, Zenon DEF TypeOK
<1>2. \A l \in Peers : state'[l] = state[l] /\ currTerm'[l] = currTerm[l] => Led(l) /\ Ran(l)
  BY Zenon
<1>3. CASE Idle
  BY <1>2, <1>3, Zenon DEF Idle, serverVars
<1>4. ASSUME NEW i \in Peers, NEW t \in Nat, FollowStep(i, t)
      PROVE  (\A l \in Peers : Led(l) /\ Ran(l)) /\ Won
  <2>1. state'[i] = Follower /\ UNCHANGED elected
    BY <1>1, <1>4, Zenon DEF FollowStep, Become
  <2>2. \A l \in Peers \ {i} : state'[l] = state[l] /\ currTerm'[l] = currTerm[l]
    BY <1>1, <1>4, Zenon DEF FollowStep, Become
  <2> QED BY <1>1, <1>2, <2>1, <2>2, Zenon
<1>5. ASSUME NEW i \in Peers, startElection(i)
      PROVE  (\A l \in Peers : Led(l) /\ Ran(l)) /\ Won
  <2>1. state'[i] = Candidate /\ currTerm'[i] = currTerm[i] + 1 /\ UNCHANGED elected
    BY <1>1, <1>5, Zenon DEF startElection, Become
  <2>2. \A l \in Peers \ {i} : state'[l] = state[l] /\ currTerm'[l] = currTerm[l]
    BY <1>1, <1>5, Zenon DEF startElection, Become
  <2> QED BY <1>1, <1>2, <2>1, <2>2, Zenon
<1>6. ASSUME NEW m \in rpcs, RequestVote(m)
      PROVE  (\A l \in Peers : Led(l) /\ Ran(l)) /\ Won
  <2> DEFINE i == m.to
             granted == MayVote(i, m) /\ UpToDate(i, m)
  <2>1. i \in Peers /\ m.term \in Nat /\ currTerm[i] \in Nat /\ UNCHANGED elected
    BY <1>1, <1>6, MessageTypes, Zenon DEF RequestVote, RequestVoteArgs
  <2>2. \A l \in Peers \ {i} : state'[l] = state[l] /\ currTerm'[l] = currTerm[l]
    BY <1>1, <1>6, Zenon DEF RequestVote, Become
  <2>3. CASE granted \/ m.term > currTerm[i]
    <3>1. Become(i, Follower)
      BY <1>6, <2>3, Zenon DEF RequestVote
    <3>2. state'[i] = Follower
      BY <1>1, <2>1, <3>1, Zenon DEF Become
    <3> QED BY <1>1, <1>2, <2>1, <2>2, <3>2, Zenon
  <2>4. CASE ~(granted \/ m.term > currTerm[i])
    <3>1. currTerm[i] >= m.term
      BY <2>1, <2>4
    <3>2. max(currTerm[i], m.term) = currTerm[i]
      BY <2>1, <3>1, MaxIsNat, Zenon
    <3>3. state'[i] = state[i] /\ currTerm'[i] = currTerm[i]
      BY <1>1, <1>6, <2>1, <2>4, <3>2, Zenon DEF RequestVote
    <3> QED BY <1>2, <2>1, <2>2, <3>3, Zenon
  <2> QED BY <2>3, <2>4, Zenon
<1>7. ASSUME NEW m \in rpcs, CountStep(m)
      PROVE  (\A l \in Peers : Led(l) /\ Ran(l)) /\ Won
  <2>1. m.to \in Peers /\ UNCHANGED currTerm /\ state[m.to] = Candidate
    BY <1>7, MessageTypes, Zenon DEF CountStep
  <2>2. CASE becomeLeader(m.to)
    <3>1. /\ elected' = elected \cup {<<currTerm[m.to], m.to>>} /\ state'[m.to] = Leader
          /\ \A l \in Peers \ {m.to} : state'[l] = state[l]
      BY <1>1, <2>1, <2>2, Zenon DEF becomeLeader, Become
    <3> QED BY <1>1, <1>2, <2>1, <3>1, Zenon
  <2>3. CASE UNCHANGED <<state, elected>>
    BY <1>2, <2>1, <2>3, Zenon
  <2> QED BY <1>7, <2>2, <2>3, Zenon DEF CountStep
<1> QED BY <1>3, <1>4, <1>5, <1>6, <1>7, StepKinds, Zenon

\* Every step keeps LeadersElected: a term is campaigned for once by a server, since
\* its term only grows.
LEMMA LeadersElectedStep ==
    ASSUME TypeOK, TypeOK', PersistedIsCurrent, LeadersElected, [Next]_vars
    PROVE  LeadersElected'
<1>1. \A l \in Peers : currTerm[l] \in Nat /\ currTerm'[l] \in Nat /\ currTerm'[l] >= currTerm[l]
  BY VoteStep, Zenon DEF TypeOK, VoteKept
<1>2. elected \subseteq elected'
  BY RoleStep, Zenon
<1>3. ASSUME NEW l \in Peers, state'[l] = Leader
      PROVE  currTerm'[l] # 0 /\ <<currTerm'[l], l>> \in elected'
  <2>1. /\ currTerm'[l] = currTerm[l]
        /\ state[l] = Leader \/ (state[l] = Candidate /\ <<currTerm[l], l>> \in elected')
    BY <1>3, RoleStep, Zenon
  <2>2. CASE state[l] = Leader
    BY <1>2, <2>1, <2>2, Zenon DEF LeadersElected
  <2>3. CASE state[l] = Candidate /\ <<currTerm[l], l>> \in elected'
    BY <2>1, <2>3, Zenon DEF LeadersElected
  <2> QED BY <2>1, <2>2, <2>3, Zenon
<1>4. ASSUME NEW l \in Peers, state'[l] = Candidate
      PROVE  currTerm'[l] # 0 /\ <<currTerm'[l], l>> \notin elected'
  <2>1. CASE state[l] = Candidate /\ currTerm'[l] = currTerm[l]
    <3>1. currTerm[l] # 0 /\ <<currTerm[l], l>> \notin elected
      BY <2>1, Zenon DEF LeadersElected
    <3>2. \A i \in Peers : state'[i] = Leader => i # l
      BY <1>4 DEF Leader, Candidate
    <3>3. <<currTerm[l], l>> \notin elected'
      <4>1. CASE UNCHANGED elected
        BY <3>1, <4>1, Zenon
      <4>2. ASSUME NEW i \in Peers, elected' = elected \cup {<<currTerm[i], i>>}, i # l
            PROVE  <<currTerm[l], l>> \notin elected'
        BY <3>1, <4>2, Zenon
      <4> QED BY <3>2, <4>1, <4>2, RoleStep, Zenon
    <3> QED BY <2>1, <3>1, <3>3, Zenon
  <2>2. CASE currTerm'[l] = currTerm[l] + 1 /\ UNCHANGED elected
    <3>1. currTerm'[l] # 0 /\ ~(currTerm'[l] <= currTerm[l])
      BY <1>1, <2>2
    <3>2. \A e \in elected : e[1] <= currTerm[e[2]]
      BY Zenon DEF LeadersElected
    <3>3. <<currTerm'[l], l>>[1] = currTerm'[l] /\ <<currTerm'[l], l>>[2] = l
      BY Zenon
    <3> QED BY <2>2, <3>1, <3>2, <3>3, Zenon
  <2> QED BY <1>4, <2>1, <2>2, RoleStep, Zenon
<1>5. ASSUME NEW e \in elected' PROVE e[1] <= currTerm'[e[2]]
  <2>1. CASE e \in elected
    <3>1. e[1] \in Nat /\ e[2] \in Peers /\ e[1] <= currTerm[e[2]]
      BY <2>1, Zenon DEF LeadersElected, TypeOK
    <3> QED BY <1>1, <3>1
  <2>2. ASSUME NEW i \in Peers, e = <<currTerm[i], i>>, currTerm'[i] = currTerm[i]
        PROVE  e[1] <= currTerm'[e[2]]
    <3>1. e[1] = currTerm[i] /\ e[2] = i
      BY <2>2, Zenon
    <3> QED BY <1>1, <2>2, <3>1
  <2> QED BY <1>5, <2>1, <2>2, RoleStep, Zenon
<1> QED BY <1>3, <1>4, <1>5, Zenon DEF LeadersElected

\* An entry after a step was there before it, in some fragment, or is the one entry by
\* which a leader's log has grown.
LEMMA EntryStep ==
    ASSUME TypeOK, TypeOK', PersistedIsCurrent, SnapshotConsistent, [Next]_vars,
           NEW N \in Fragments', NEW x \in Nat, Covers(N, x)
    PROVE  \/ \E F \in Fragments : Covers(F, x) /\ At(F, x).term = At(N, x).term
           \/ \E i \in Peers : /\ state[i] = Leader /\ At(N, x).term = currTerm[i]
                                /\ x = lastLogicalIndex(i)' /\ UNCHANGED <<state, currTerm>>
<1> DEFINE Old == \E F \in Fragments : Covers(F, x) /\ At(F, x).term = At(N, x).term
           New == \E i \in Peers : /\ state[i] = Leader /\ At(N, x).term = currTerm[i]
                                   /\ x = lastLogicalIndex(i)' /\ UNCHANGED <<state, currTerm>>
<1>0. \A F \in Fragments : First(F) \in Nat /\ Last(F) \in Nat
  BY FragmentsType, FragmentType, Zenon
<1>1. First(N) \in Nat /\ Last(N) \in Nat
  BY FragmentsTypeNext, FragmentType, Zenon
<1>2. CASE CutStep
  <2>1. PICK F \in Fragments : Piece(N, F)
    BY <1>2, Zenon DEF CutStep
  <2>2. Covers(F, x)
    BY <1>0, <1>1, <2>1 DEF Piece, Covers
  <2> QED BY <2>1, <2>2, Zenon DEF Piece
<1>3. CASE N \in Fragments
  BY <1>3, Zenon
<1>4. ASSUME NEW F \in Fragments, NEW G \in Fragments, NEW y \in Nat, Joined(N, F, G, y)
      PROVE  Old
  <2>1. At(N, x) = IF x <= y THEN At(F, x) ELSE At(G, x)
    BY <1>4, Zenon DEF Joined
  <2>2. IF x <= y THEN Covers(F, x) ELSE Covers(G, x)
    BY <1>0, <1>1, <1>4 DEF Joined, Covers
  <2> QED BY <2>1, <2>2, Zenon
<1>5. ASSUME NEW i \in Peers, state[i] = Leader, Grown(N, LogOf(i), currTerm[i]),
             UNCHANGED <<state, currTerm>>, lastLogicalIndex(i)' = lastLogicalIndex(i) + 1
      PROVE  Old \/ New
  <2>1. LogOf(i) \in Fragments
    BY Zenon DEF Fragments
  <2>2. Last(LogOf(i)) = lastLogicalIndex(i)
    BY Zenon DEF Last, LogOf, lastLogicalIndex
  <2>3. CASE x = Last(N)
    BY <1>5, <2>2, <2>3, Zenon DEF Grown
  <2>4. CASE x # Last(N)
    <3>1. Covers(LogOf(i), x)
      BY <1>0, <1>1, <1>5, <2>1, <2>4 DEF Grown, Covers
    <3>2. At(N, x) = At(LogOf(i), x)
      BY <1>5, <3>1, Zenon DEF Grown
    <3> QED BY <2>1, <3>1, <3>2, Zenon
  <2> QED BY <2>3, <2>4, Zenon
<1>6. CASE JoinStep
  BY <1>3, <1>4, <1>6, Zenon DEF JoinStep
<1>7. CASE GrowStep
  BY <1>3, <1>5, <1>7, Zenon DEF GrowStep
<1> QED BY <1>2, <1>6, <1>7, LogSteps, Zenon

\* The last logical index is an index.
LEMMA LogIndexType == TypeOK => \A l \in Peers : lastLogicalIndex(l) \in Nat
  BY LogHelpers, Zenon

\* It is one after a step.
LEMMA LogIndexNext == TypeOK' => \A l \in Peers : lastLogicalIndex(l)' \in Nat
<1>1. (TypeOK => \A l \in Peers : lastLogicalIndex(l) \in Nat)'
  BY LogIndexType, PTL
<1> QED BY <1>1, Zenon

\* Every step keeps TermsOwned: only the one leader of a term makes entries of it.
LEMMA TermsOwnedStep ==
    ASSUME TypeOK, TypeOK', PersistedIsCurrent, SnapshotConsistent,
           ElectionSafety, ElectionSafety', LeadersElected, TermsOwned, [Next]_vars
    PROVE  TermsOwned'
<1> SUFFICES ASSUME NEW N \in Fragments', NEW x \in Nat, Covers(N, x)
             PROVE  /\ \/ At(N, x).term = 0
                       \/ \E l \in Peers : <<At(N, x).term, l>> \in elected'
                    /\ \A l \in Peers : state'[l] = Leader /\ currTerm'[l] = At(N, x).term
                                          => x <= lastLogicalIndex(l)'
  BY Zenon DEF TermsOwned, Covers, First, Last, At
<1>1. elected \subseteq elected'
  BY RoleStep, Zenon
<1>2. \A l \in Peers : lastLogicalIndex(l) \in Nat /\ lastLogicalIndex(l)' \in Nat
  BY LogIndexType, LogIndexNext, Zenon
<1>3. \A l, r \in Peers : \A t : <<t, l>> \in elected' /\ <<t, r>> \in elected' => l = r
  <2>1. \A l, r \in Peers : \A t : /\ <<t, l>>[1] = <<t, r>>[1]
                                     /\ <<t, l>> = <<t, r>> => l = r
    BY Zenon
  <2> QED BY <2>1, Zenon DEF ElectionSafety
<1>4. ASSUME NEW F \in Fragments, Covers(F, x), At(F, x).term = At(N, x).term
      PROVE  /\ \/ At(N, x).term = 0
                \/ \E l \in Peers : <<At(N, x).term, l>> \in elected'
             /\ \A l \in Peers : state'[l] = Leader /\ currTerm'[l] = At(N, x).term
                                   => x <= lastLogicalIndex(l)'
  <2>1. \/ At(N, x).term = 0
        \/ \E l \in Peers : <<At(N, x).term, l>> \in elected
    BY <1>4, Zenon DEF TermsOwned
  <2>2. ASSUME NEW l \in Peers, state'[l] = Leader, currTerm'[l] = At(N, x).term
        PROVE  x <= lastLogicalIndex(l)'
    <3>1. /\ currTerm[l] = At(N, x).term
          /\ state[l] = Leader \/ (state[l] = Candidate /\ <<currTerm[l], l>> \in elected')
      BY <2>2, RoleStep, Zenon
    <3>2. CASE state[l] = Leader
      <4>1. x <= lastLogicalIndex(l)
        BY <1>4, <3>1, <3>2, Zenon DEF TermsOwned
      <4>2. lastLogicalIndex(l)' >= lastLogicalIndex(l)
        BY <2>2, LogSteps, Zenon DEF LeadersKeepLogs
      <4> QED BY <1>2, <4>1, <4>2
    <3>3. CASE state[l] = Candidate /\ <<currTerm[l], l>> \in elected'
      <4>1. currTerm[l] # 0 /\ <<currTerm[l], l>> \notin elected
        BY <3>3, Zenon DEF LeadersElected
      <4>2. PICK r \in Peers : <<currTerm[l], r>> \in elected
        BY <2>1, <3>1, <4>1, Zenon
      <4>3. r = l
        BY <1>1, <1>3, <3>3, <4>2, Zenon
      <4> QED BY <4>1, <4>2, <4>3, Zenon
    <3> QED BY <3>1, <3>2, <3>3, Zenon
  <2> QED BY <1>1, <2>1, <2>2, Zenon
<1>5. ASSUME NEW i \in Peers, state[i] = Leader, At(N, x).term = currTerm[i],
             x = lastLogicalIndex(i)', UNCHANGED <<state, currTerm>>
      PROVE  /\ \E l \in Peers : <<At(N, x).term, l>> \in elected'
             /\ \A l \in Peers : state'[l] = Leader /\ currTerm'[l] = At(N, x).term
                                   => x <= lastLogicalIndex(l)'
  <2>1. <<currTerm[i], i>> \in elected'
    BY <1>1, <1>5, Zenon DEF LeadersElected
  <2>2. ASSUME NEW l \in Peers, state'[l] = Leader, currTerm'[l] = currTerm[i]
        PROVE  x <= lastLogicalIndex(l)'
    <3>1. <<currTerm[i], l>> \in elected'
      BY <1>1, <1>5, <2>2, Zenon DEF LeadersElected
    <3>2. l = i
      BY <1>3, <2>1, <3>1, Zenon
    <3> QED BY <1>2, <1>5, <3>2
  <2> QED BY <1>5, <2>1, <2>2, Zenon
<1> QED BY <1>4, <1>5, EntryStep, Zenon

\* Every step keeps the agreement of fragments.
LEMMA FragmentsAgreeStep ==
    ASSUME TypeOK, TypeOK', PersistedIsCurrent, SnapshotConsistent,
           FragmentsAgree, TermsOwned, [Next]_vars
    PROVE  FragmentsAgree'
<1> SUFFICES ASSUME NEW M \in Fragments', NEW N \in Fragments' PROVE Agree(M, N)
  BY Zenon DEF FragmentsAgree, Agree, Covers, First, Last, At
<1>1. Fragments \subseteq Fragment /\ Fragments' \subseteq Fragment
  BY FragmentsType, FragmentsTypeNext, Zenon
<1>2. CASE CutStep
  <2>1. PICK F \in Fragments, G \in Fragments : Piece(M, F) /\ Piece(N, G)
    BY <1>2, Zenon DEF CutStep
  <2> QED BY <1>1, <2>1, PiecesAgree, Zenon DEF FragmentsAgree
<1>3. ASSUME NEW P \in Fragment, Fragments' \subseteq Fragments \cup {P},
             \A H \in Fragments : Agree(P, H)
      PROVE  Agree(M, N)
  BY <1>3, AgreeSymmetric, AgreeReflexive, Zenon DEF FragmentsAgree
<1>4. CASE JoinStep
  <2>1. PICK P \in Fragment, F \in Fragments, G \in Fragments, y \in Nat :
           Joined(P, F, G, y) /\ Fragments' \subseteq Fragments \cup {P}
    BY <1>4, Zenon DEF JoinStep
  <2>2. \A H \in Fragments : Agree(P, H)
    BY <1>1, <2>1, JoinAgrees, Zenon DEF FragmentsAgree
  <2> QED BY <1>3, <2>1, <2>2, Zenon
<1>5. CASE GrowStep
  <2>1. PICK P \in Fragment, i \in Peers :
           /\ state[i] = Leader /\ Grown(P, LogOf(i), currTerm[i])
           /\ Fragments' \subseteq Fragments \cup {P}
    BY <1>5, Zenon DEF GrowStep
  <2>2. ASSUME NEW H \in Fragments PROVE Agree(P, H)
    <3>1. LogOf(i) \in Fragments
      BY Zenon DEF Fragments
    <3>2. /\ Last(LogOf(i)) = lastLogicalIndex(i) /\ lastLogicalIndex(i) \in Nat
          /\ Last(P) = Last(LogOf(i)) + 1 /\ Last(P) \in Nat
      BY <2>1, LogHelpers, FragmentType, Zenon DEF Last, LogOf, lastLogicalIndex, Grown
    <3>3. ~(Last(P) <= lastLogicalIndex(i))
      BY <3>2
    <3>4. Covers(H, Last(P)) => At(H, Last(P)).term # currTerm[i]
      BY <2>1, <3>2, <3>3, Zenon DEF TermsOwned
    <3> QED BY <1>1, <2>1, <3>1, <3>4, GrownAgrees, Zenon DEF FragmentsAgree
  <2> QED BY <1>3, <2>1, <2>2, Zenon
<1> QED BY <1>2, <1>4, <1>5, LogSteps, Zenon

\* Fragments that agree make logs that match.
LEMMA AgreeMatches == TypeOK /\ FragmentsAgree => LogMatching
<1> SUFFICES ASSUME TypeOK, FragmentsAgree, NEW i \in Peers, NEW j \in Peers,
                    NEW k \in Common(i, j), TermAt(i, k) = TermAt(j, k),
                    NEW x \in Common(i, j), x <= k
             PROVE  /\ TermAt(i, x) = TermAt(j, x)
                    /\ \/ x = max(lastIncludedIndex[i], lastIncludedIndex[j])
                       \/ logs[i][Pos(i, x)] = logs[j][Pos(j, x)]
  BY Zenon DEF LogMatching
<1> DEFINE F == LogOf(i)
           G == LogOf(j)
<1>1. /\ lastIncludedIndex[i] \in Nat /\ lastIncludedIndex[j] \in Nat
      /\ lastLogicalIndex(i) \in Nat /\ lastLogicalIndex(j) \in Nat
  BY LogHelpers, Zenon
<1>2. /\ First(F) = lastIncludedIndex[i] /\ Last(F) = lastLogicalIndex(i)
      /\ First(G) = lastIncludedIndex[j] /\ Last(G) = lastLogicalIndex(j)
      /\ \A z : At(F, z) = logs[i][Pos(i, z)] /\ At(G, z) = logs[j][Pos(j, z)]
      /\ \A z : TermAt(i, z) = At(F, z).term /\ TermAt(j, z) = At(G, z).term
  BY Zenon DEF First, Last, At, LogOf, lastLogicalIndex, Pos, TermAt
<1>3. ASSUME NEW z \in Common(i, j)
      PROVE  /\ z \in Nat
             /\ lastIncludedIndex[i] <= z /\ z <= lastLogicalIndex(i)
             /\ lastIncludedIndex[j] <= z /\ z <= lastLogicalIndex(j)
             /\ \/ z = max(lastIncludedIndex[i], lastIncludedIndex[j])
                \/ z > lastIncludedIndex[i] /\ z > lastIncludedIndex[j]
  BY <1>1 DEF Common, max, min
<1>4. F \in Fragments /\ G \in Fragments
  BY Zenon DEF Fragments
<1>5. Agree(F, G)
  BY <1>4, Zenon DEF FragmentsAgree
<1> HIDE DEF F, G
<1>6. /\ k \in Nat /\ x \in Nat /\ Covers(F, k) /\ Covers(G, k) /\ Covers(F, x) /\ Covers(G, x)
      /\ At(F, k).term = At(G, k).term
  BY <1>2, <1>3, Zenon DEF Covers
<1>7. /\ At(F, x).term = At(G, x).term
      /\ x > First(F) /\ x > First(G) => At(F, x) = At(G, x)
  BY <1>5, <1>6, Zenon DEF Agree
<1> QED BY <1>2, <1>3, <1>7, Zenon

\* The initial logs are empty.
LEMMA LogInit == Init => LogInv
<1> SUFFICES ASSUME Init PROVE LogInv
  BY Zenon
<1> DEFINE F == <<0, <<Dummy(0)>>>>
<1>1. \A G \in Fragments : G = F
  BY Zenon DEF Init, Fragments, LogOf
<1>2. ASSUME NEW x \in Nat, Covers(F, x) PROVE At(F, x).term = 0
  <2>1. F[1] = 0 /\ F[2] = <<Dummy(0)>> /\ Len(<<Dummy(0)>>) = 1 /\ <<Dummy(0)>>[1] = Dummy(0)
    OBVIOUS
  <2>2. x = 0
    BY <1>2, <2>1 DEF Covers, First, Last
  <2>3. At(F, x) = Dummy(0)
    BY <2>1, <2>2 DEF At
  <2> QED BY <2>3, DummyTerm, Zenon
<1> HIDE DEF F
<1>3. FragmentsAgree
  BY <1>1, AgreeReflexive, Zenon DEF FragmentsAgree
<1>4. \A l \in Peers : state[l] # Leader /\ state[l] # Candidate
  <2>1. Leader # Follower /\ Candidate # Follower
    BY DEF Leader, Candidate, Follower
  <2> QED BY <2>1, Zenon DEF Init
<1>5. LeadersElected
  BY <1>4, Zenon DEF Init, LeadersElected
<1>6. TermsOwned
  BY <1>1, <1>2, <1>4, Zenon DEF TermsOwned
<1> QED BY <1>3, <1>5, <1>6, Zenon DEF LogInv

-----------------------------------------------------------------------------
(* Snapshots.                                                              *)

\* The part of server i: the service is never ahead of lastApplied.
SnapshotOf(i) ==
    /\ snapshot[i] = lastIncludedIndex[i]
    /\ lastIncludedIndex[i] <= lastApplied[i]
    /\ logs[i][1].term = lastIncludedTerm[i]
    /\ service[i] <= lastApplied[i]
    /\ applyMsg[i] <= lastApplied[i]
    /\ \A k \in snapMsgs[i] : k <= lastApplied[i]

\* A request to install a snapshot carries the snapshot of the index it names.
SnapshotSent(m) == m.type = "InstallSnapshot" => m.data = m.lastIncludedIndex

\* The inductive invariant of SnapshotConsistent.
SnapshotInv == (\A i \in Peers : SnapshotOf(i)) /\ (\A m \in rpcs : SnapshotSent(m))

\* What Snapshot and InstallSnapshot speak of does not change on server j.
SnapshotKept(j) ==
    /\ snapshot'[j] = snapshot[j] /\ lastIncludedIndex'[j] = lastIncludedIndex[j]
    /\ lastIncludedTerm'[j] = lastIncludedTerm[j] /\ logs'[j][1] = logs[j][1]
    /\ lastApplied'[j] = lastApplied[j] /\ applyMsg'[j] = applyMsg[j]
    /\ snapMsgs'[j] = snapMsgs[j] /\ service'[j] = service[j]

\* A step that changes nothing of this keeps it.
LEMMA SnapshotFrame ==
    ASSUME NEW j \in Peers, SnapshotOf(j), SnapshotKept(j)
    PROVE  SnapshotOf(j)'
  BY Zenon DEF SnapshotOf, SnapshotKept

\* Start and the merge of AppendEntries leave the dummy entry in its place.
LEMMA DummyStays ==
    ASSUME TypeOK, NEW i \in Peers, NEW j \in Peers
    PROVE  /\ \A c \in Commands : Start(i, c) => logs'[j][1] = logs[j][1]
           /\ \A m \in AppendEntriesArgs : PrevMatches(i, m) /\ MergeEntries(i, m)
                 => logs'[j][1] = logs[j][1]
<1>1. /\ logs \in [Peers -> Log] /\ logs[i] \in Seq(Entry) /\ Len(logs[i]) \in Nat \ {0}
      /\ lastIncludedIndex[i] \in Nat
  BY LogHelpers, Zenon DEF TypeOK
<1>2. ASSUME NEW s, logs' = [logs EXCEPT ![i] = s], s[1] = logs[i][1]
      PROVE  logs'[j][1] = logs[j][1]
  BY <1>1, <1>2, Zenon
<1>3. ASSUME NEW c \in Commands, Start(i, c) PROVE logs'[j][1] = logs[j][1]
  <2>1. PICK e \in Entry : e = [term |-> currTerm[i], command |-> c]
    BY Zenon DEF TypeOK, Entry
  <2>2. Append(logs[i], e)[1] = logs[i][1]
    BY <1>1
  <2> QED BY <1>2, <1>3, <2>1, <2>2, Zenon DEF Start
<1>4. ASSUME NEW m \in AppendEntriesArgs, PrevMatches(i, m), MergeEntries(i, m)
      PROVE  logs'[j][1] = logs[j][1]
  <2>1. CASE UNCHANGED logs
    BY <2>1, Zenon
  <2>2. ASSUME NEW a \in Log, NEW G, NEW y \in Nat, logs' = [logs EXCEPT ![i] = a],
               Joined(<<lastIncludedIndex[i], a>>, LogOf(i), G, y)
        PROVE  a[1] = logs[i][1]
    <3> DEFINE b == lastIncludedIndex[i]
               N == <<b, a>>
    <3>1. First(N) = b /\ First(LogOf(i)) = b /\ N \in Fragment
      BY <1>1, <2>2, Zenon DEF First, LogOf, Fragment
    <3>2. Covers(N, b) /\ b <= y
      BY <1>1, <2>2, <3>1, FragmentType DEF Covers, Joined
    <3>3. At(N, b) = At(LogOf(i), b)
      BY <1>1, <2>2, <3>2, Zenon DEF Joined
    <3>4. b - b + 1 = 1
      BY <1>1
    <3>5. At(N, b) = a[1] /\ At(LogOf(i), b) = logs[i][1]
      BY <3>4, Zenon DEF At, LogOf
    <3> QED BY <3>3, <3>5, Zenon
  <2> QED BY <1>2, <1>4, <2>1, <2>2, MergeIsJoin, Zenon
<1> QED BY <1>3, <1>4, Zenon

\* A request to install a snapshot repeats one under way or is made from the snapshot of
\* a server.
Given(n) ==
    n.type = "InstallSnapshot" =>
        \/ \E o \in rpcs : /\ o.type = "InstallSnapshot" /\ o.data = n.data
                           /\ o.lastIncludedIndex = n.lastIncludedIndex
        \/ \E i \in Peers : /\ n.lastIncludedIndex = lastIncludedIndex[i]
                            /\ n.data = snapshot[i]

\* The receiver of the request installs the snapshot.
Installed(m) ==
    /\ m.type = "InstallSnapshot" /\ m.lastIncludedIndex > lastIncludedIndex[m.to]
    /\ logs' = [logs EXCEPT ![m.to] = LogAfterSnapshot(m.to, m)]
    /\ lastIncludedIndex' = [lastIncludedIndex EXCEPT ![m.to] = m.lastIncludedIndex]
    /\ lastIncludedTerm' = [lastIncludedTerm EXCEPT ![m.to] = m.lastIncludedTerm]
    /\ lastApplied' = [lastApplied EXCEPT ![m.to] = max(m.lastIncludedIndex, @)]
    /\ snapshot' = [snapshot EXCEPT ![m.to] = m.data]
    /\ snapMsgs' = [snapMsgs EXCEPT ![m.to] = @ \cup {m.lastIncludedIndex}]
    /\ UNCHANGED <<applyMsg, service>>

\* The apply channel of server i moves on.
Applies(i) ==
    sendApplyMsg(i) \/ applyCommand(i) \/ \E k \in snapMsgs[i] : applySnapshot(i, k)

\* No request to install a snapshot is new.
LEMMA GivenOld == \A n \in rpcs : Given(n)
  BY Zenon DEF Given

\* An answer is no request to install a snapshot.
LEMMA GivenRespond ==
    ASSUME NEW m, NEW r, r.type # "InstallSnapshot", Respond(m, r)
    PROVE  \A n \in rpcs' : Given(n)
<1>1. Given(r)
  BY Zenon DEF Given
<1> QED BY <1>1, GivenOld, Zenon DEF Respond

\* The requests under way when a server crashes stay what they are.
LEMMA GivenOrphaned ==
    ASSUME TypeOK, NEW i \in Peers, NEW n \in rpcs
    PROVE  Given(Orphaned(i, n))
<1>1. CASE Orphaned(i, n) = n
  BY <1>1, GivenOld, Zenon
<1>2. CASE /\ Orphaned(i, n) = [n EXCEPT !.live = FALSE]
           /\ n.type \in {"RequestVote", "AppendEntries", "InstallSnapshot"}
  <2>1. n \in RequestVoteArgs \/ n \in AppendEntriesArgs \/ n \in InstallSnapshotArgs
    BY <1>2, MessageTypes, Zenon
  <2>2. Orphaned(i, n).type = n.type
    BY <1>2, <2>1, Zenon DEF RequestVoteArgs, AppendEntriesArgs, InstallSnapshotArgs
  <2>3. CASE n \in InstallSnapshotArgs
    <3>1. /\ Orphaned(i, n).lastIncludedIndex = n.lastIncludedIndex
          /\ Orphaned(i, n).data = n.data
      BY <1>2, <2>3, Zenon DEF InstallSnapshotArgs
    <3> QED BY <2>2, <3>1, Zenon DEF Given
  <2>4. CASE n \notin InstallSnapshotArgs
    <3>1. n.type # "InstallSnapshot"
      BY <2>4, MessageTypes, Zenon
    <3> QED BY <2>2, <3>1, Zenon DEF Given
  <2> QED BY <2>3, <2>4, Zenon
<1> QED BY <1>1, <1>2, Zenon DEF Orphaned

\* What a step does to snapshots, to the apply channel and to requests that carry a
\* snapshot.
SnapshotKind ==
    /\ \A n \in rpcs' : Given(n)
    /\ \/ \A j \in Peers : SnapshotKept(j)
       \/ \E i \in Peers : Snapshot(i) \/ Applies(i) \/ Make(i)
       \/ \E m \in rpcs : Installed(m)

\* A step that leaves logs, snapshots and the apply channel alone.
LEMMA KindQuiet ==
    ASSUME UNCHANGED <<logVars, snapshot, applyVars>>, \A n \in rpcs' : Given(n)
    PROVE  SnapshotKind
<1>1. \A j \in Peers : SnapshotKept(j)
  BY Zenon DEF SnapshotKept, logVars, applyVars
<1> QED BY <1>1, Zenon DEF SnapshotKind

\* Every step is of one of these kinds.
LEMMA SnapshotKinds ==
    ASSUME TypeOK, [Next]_vars
    PROVE  SnapshotKind
<1>1. ASSUME UNCHANGED <<logVars, snapshot, applyVars>>, rpcs' \subseteq rpcs
      PROVE  SnapshotKind
  BY <1>1, GivenOld, KindQuiet, Zenon
<1>2. ASSUME NEW i \in Peers, startElection(i) PROVE SnapshotKind
  <2>1. \A n \in rpcs' : n \in rpcs \/ n.type = "RequestVote"
    BY <1>2 DEF startElection
  <2>2. \A n \in rpcs' : Given(n)
    BY <2>1, GivenOld, Zenon DEF Given
  <2> QED BY <1>2, <2>2, KindQuiet, Zenon DEF startElection
<1>3. ASSUME NEW i \in Peers, NEW c \in Commands, Start(i, c) PROVE SnapshotKind
  <2>1. \A j \in Peers : SnapshotKept(j)
    BY <1>3, DummyStays, Zenon DEF Start, SnapshotKept, applyVars
  <2> QED BY <1>3, <2>1, GivenOld, Zenon DEF SnapshotKind, Start
<1>4. ASSUME NEW i \in Peers, Snapshot(i) \/ Applies(i) PROVE SnapshotKind
  <2>1. rpcs' = rpcs
    BY <1>4, Zenon DEF Snapshot, Applies, sendApplyMsg, applyCommand, applySnapshot
  <2> QED BY <1>4, <2>1, GivenOld, Zenon DEF SnapshotKind
<1>5. ASSUME NEW i \in Peers, Make(i) PROVE SnapshotKind
  <2>1. \A n \in rpcs' : Given(n)
    BY <1>5, GivenOrphaned, Zenon DEF Make
  <2> QED BY <1>5, <2>1, Zenon DEF SnapshotKind
<1>6. ASSUME NEW i \in Peers, NEW j \in Peers, makeAppendEntry(i, j) PROVE SnapshotKind
  <2>1. \A n \in rpcs' : n \in rpcs \/ n.type = "AppendEntries"
    BY <1>6 DEF makeAppendEntry
  <2>2. \A n \in rpcs' : Given(n)
    BY <2>1, GivenOld, Zenon DEF Given
  <2> QED BY <1>6, <2>2, KindQuiet, Zenon DEF makeAppendEntry, persister
<1>7. ASSUME NEW i \in Peers, NEW j \in Peers, sendInstallSnapshotToPeers(i, j)
      PROVE  SnapshotKind
  <2>1. \A n \in rpcs' : \/ n \in rpcs
                         \/ n.data = snapshot[i] /\ n.lastIncludedIndex = lastIncludedIndex[i]
    BY <1>7 DEF sendInstallSnapshotToPeers
  <2>2. \A n \in rpcs' : Given(n)
    BY <2>1, GivenOld, Zenon DEF Given
  <2> QED BY <1>7, <2>2, KindQuiet, Zenon DEF sendInstallSnapshotToPeers, persister
<1>8. ASSUME NEW i \in Peers, NEW j \in Peers,
             NEW f \in {"startElection", "makeAppendEntry"}, Delay(f, i, j)
      PROVE  SnapshotKind
  BY <1>1, <1>8, Zenon DEF Delay, persister
<1>9. ASSUME NEW m \in rpcs, LoseRPC(m) PROVE SnapshotKind
  BY <1>1, <1>9, Zenon DEF LoseRPC, persister
<1>10. ASSUME NEW m \in rpcs,
              RequestVoteReply(m) \/ AppendEntriesReply(m) \/ InstallSnapshotReply(m)
       PROVE  SnapshotKind
  BY <1>1, <1>10, Zenon DEF RequestVoteReply, AppendEntriesReply, InstallSnapshotReply,
                            persister
<1>11. ASSUME NEW m \in rpcs, RequestVote(m) PROVE SnapshotKind
  <2> DEFINE reply == [type |-> "RequestVoteReply", from |-> m.to, to |-> m.from,
                       startTerm |-> m.term, term |-> max(currTerm[m.to], m.term),
                       granted |-> MayVote(m.to, m) /\ UpToDate(m.to, m)]
  <2>1. Respond(m, reply) /\ UNCHANGED <<logVars, snapshot, applyVars>>
    BY <1>11, Zenon DEF RequestVote
  <2>2. reply.type # "InstallSnapshot"
    BY Zenon
  <2> QED BY <2>1, <2>2, GivenRespond, KindQuiet, Zenon
<1>12. ASSUME NEW m \in rpcs, AppendEntries(m) PROVE SnapshotKind
  <2>1. \A n \in rpcs' : Given(n)
    <3>1. \E b, t, c, ct : Respond(m, AEReply(m, b, t, c, ct))
      BY <1>12, Zenon DEF AppendEntries, RejectEntries, AcceptEntries
    <3>2. \A b, t, c, ct : AEReply(m, b, t, c, ct).type # "InstallSnapshot"
      BY Zenon DEF AEReply
    <3> QED BY <3>1, <3>2, GivenRespond, Zenon
  <2>2. UNCHANGED <<snapshot, applyVars>>
    BY <1>12, Zenon DEF AppendEntries
  <2>3. CASE UNCHANGED logVars
    BY <2>1, <2>2, <2>3, KindQuiet, Zenon
  <2>4. CASE AcceptEntries(m.to, m)
    <3>1. m.to \in Peers /\ m \in AppendEntriesArgs
      BY <1>12, MessageTypes, Zenon DEF AppendEntries
    <3>2. \A j \in Peers : logs'[j][1] = logs[j][1]
      BY <2>4, <3>1, DummyStays, Zenon DEF AcceptEntries
    <3>3. \A j \in Peers : SnapshotKept(j)
      BY <2>2, <2>4, <3>2, Zenon DEF AcceptEntries, SnapshotKept, applyVars
    <3> QED BY <2>1, <3>3, Zenon DEF SnapshotKind
  <2> QED BY <1>12, <2>3, <2>4, Zenon DEF AppendEntries, RejectEntries
<1>13. ASSUME NEW m \in rpcs, InstallSnapshot(m) PROVE SnapshotKind
  <2>1. \A n \in rpcs' : Given(n)
    <3> DEFINE reply(t) == [type |-> "InstallSnapshotReply", from |-> m.to, to |-> m.from,
                            argsTerm |-> m.term,
                            lastIncludedIndex |-> m.lastIncludedIndex, term |-> t]
    <3>1. \E t : Respond(m, reply(t))
      BY <1>13, Zenon DEF InstallSnapshot
    <3>2. \A t : reply(t).type # "InstallSnapshot"
      BY Zenon
    <3> QED BY <3>1, <3>2, GivenRespond, Zenon
  <2>2. CASE UNCHANGED <<logVars, snapshot, applyVars>>
    BY <2>1, <2>2, KindQuiet, Zenon
  <2>3. CASE Installed(m)
    BY <2>1, <2>3, Zenon DEF SnapshotKind
  <2> QED BY <1>13, <2>2, <2>3, Zenon DEF InstallSnapshot, Installed, persister
<1>14. CASE UNCHANGED vars
  BY <1>1, <1>14, Zenon DEF vars, persister
<1> QED
  BY <1>2, <1>3, <1>4, <1>5, <1>6, <1>7, <1>8, <1>9, <1>10, <1>11, <1>12, <1>13, <1>14,
     Zenon DEF Next, Finish, Applies

\* Snapshot cuts the log at an index that was applied.
LEMMA SnapshotBySnapshot ==
    ASSUME TypeOK, NEW i \in Peers, SnapshotOf(i), Snapshot(i)
    PROVE  SnapshotOf(i)' /\ \A j \in Peers \ {i} : SnapshotKept(j)
<1>1. PICK k \in Nat : k = service[i]
  BY Zenon DEF TypeOK
<1>2. /\ k \in lastIncludedIndex[i] + 1 .. lastLogicalIndex(i)
      /\ logs' = [logs EXCEPT ![i] = <<Dummy(TermAt(i, k))>> \o Suffix(i, k + 1)]
      /\ lastIncludedIndex' = [lastIncludedIndex EXCEPT ![i] = k]
      /\ lastIncludedTerm' = [lastIncludedTerm EXCEPT ![i] = TermAt(i, k)]
      /\ lastApplied' = [lastApplied EXCEPT ![i] = max(k, @)]
      /\ snapshot' = [snapshot EXCEPT ![i] = k]
      /\ UNCHANGED <<rpcs, applyMsg, snapMsgs, service>>
  BY <1>1, Zenon DEF Snapshot
<1>3. \A j \in Peers \ {i} : SnapshotKept(j)
  BY <1>2, Zenon DEF SnapshotKept, TypeOK
<1>4. /\ lastIncludedIndex[i] \in Nat /\ lastLogicalIndex(i) \in Nat
      /\ lastApplied[i] \in Nat
  BY LogHelpers, Zenon DEF TypeOK
<1>5. /\ k \in lastIncludedIndex[i] .. lastLogicalIndex(i)
      /\ k + 1 \in lastIncludedIndex[i] + 1 .. lastLogicalIndex(i) + 1
  BY <1>2, <1>4
<1>6. TermAt(i, k) \in Nat /\ Suffix(i, k + 1) \in Seq(Entry)
  BY <1>5, LogHelpers, Zenon
<1>7. logs'[i][1].term = TermAt(i, k)
  <2>1. logs'[i][1] = Dummy(TermAt(i, k))
    BY <1>2, <1>6, BehindDummy, Zenon DEF TypeOK
  <2> QED BY <2>1, DummyTerm, Zenon
<1>8. max(k, lastApplied[i]) = lastApplied[i] /\ k <= lastApplied[i]
  BY <1>1, <1>4 DEF SnapshotOf, max
<1>9. /\ snapshot'[i] = k /\ lastIncludedIndex'[i] = k /\ lastIncludedTerm'[i] = TermAt(i, k)
      /\ lastApplied'[i] = lastApplied[i]
  BY <1>2, <1>8, Zenon DEF TypeOK
<1>10. SnapshotOf(i)'
  BY <1>2, <1>7, <1>8, <1>9, Zenon DEF SnapshotOf
<1> QED BY <1>3, <1>10, Zenon

\* The apply channel hands over what lastApplied covers.
LEMMA SnapshotByApply ==
    ASSUME TypeOK, NEW i \in Peers, SnapshotOf(i), Applies(i)
    PROVE  SnapshotOf(i)' /\ \A j \in Peers \ {i} : SnapshotKept(j)
<1>1. /\ lastApplied[i] \in Nat /\ service[i] \in Nat /\ applyMsg[i] \in Nat
      /\ snapMsgs[i] \in SUBSET Nat /\ lastIncludedIndex[i] \in Nat
  BY Zenon DEF TypeOK
<1>2. \A j \in Peers \ {i} : SnapshotKept(j)
  BY ZenonT(60) DEF SnapshotKept, TypeOK, Applies, sendApplyMsg, applyCommand, applySnapshot,
               logVars, persister
<1>3. /\ snapshot'[i] = snapshot[i] /\ lastIncludedIndex'[i] = lastIncludedIndex[i]
      /\ lastIncludedTerm'[i] = lastIncludedTerm[i] /\ logs'[i] = logs[i]
  BY Zenon DEF Applies, sendApplyMsg, applyCommand, applySnapshot, logVars, persister
<1>4. CASE sendApplyMsg(i)
  <2>1. /\ lastApplied'[i] = lastApplied[i] + 1 /\ applyMsg'[i] = lastApplied[i] + 1
        /\ UNCHANGED <<snapMsgs, service>>
    BY <1>4, Zenon DEF sendApplyMsg, TypeOK
  <2>2. SnapshotOf(i)'
    BY <1>1, <1>3, <2>1 DEF SnapshotOf
  <2> QED BY <1>2, <2>2, Zenon
<1>5. CASE applyCommand(i)
  <2>1. service'[i] = applyMsg[i] /\ applyMsg'[i] = 0 /\ UNCHANGED <<snapMsgs, lastApplied>>
    BY <1>5, Zenon DEF applyCommand, TypeOK
  <2>2. 0 <= lastApplied[i]
    BY <1>1
  <2> QED BY <1>2, <1>3, <2>1, <2>2, Zenon DEF SnapshotOf
<1>6. ASSUME NEW k \in snapMsgs[i], applySnapshot(i, k)
      PROVE  SnapshotOf(i)' /\ \A j \in Peers \ {i} : SnapshotKept(j)
  <2>1. /\ service'[i] = max(service[i], k) /\ snapMsgs'[i] = snapMsgs[i] \ {k}
        /\ UNCHANGED <<applyMsg, lastApplied>>
    BY <1>6, Zenon DEF applySnapshot, TypeOK
  <2>2. max(service[i], k) <= lastApplied[i]
    BY Zenon DEF max, SnapshotOf
  <2> QED BY <1>2, <1>3, <2>1, <2>2, Zenon DEF SnapshotOf
<1> QED BY <1>4, <1>5, <1>6, Zenon DEF Applies

\* A restart begins at the snapshot.
LEMMA SnapshotByMake ==
    ASSUME TypeOK, PersistedIsCurrent, NEW i \in Peers, SnapshotOf(i), Make(i)
    PROVE  SnapshotOf(i)' /\ \A j \in Peers \ {i} : SnapshotKept(j)
<1>1. \A j \in Peers : FieldsKept(j)
  BY MakeKeepsFields, Zenon
<1>2. PICK k \in Nat : k = raftstate[i].lastIncludedIndex
  BY Zenon DEF TypeOK, PersistentState
<1>3. /\ lastIncludedIndex' = [lastIncludedIndex EXCEPT ![i] = k]
      /\ lastApplied' = [lastApplied EXCEPT ![i] = k]
      /\ applyMsg' = [applyMsg EXCEPT ![i] = 0]
      /\ snapMsgs' = [snapMsgs EXCEPT ![i] = IF snapshot[i] > 0 THEN {k} ELSE {}]
      /\ service' = [service EXCEPT ![i] = snapshot[i]]
      /\ UNCHANGED snapshot
  BY <1>2, Zenon DEF Make, persister
<1>4. lastIncludedIndex[i] = k
  BY <1>1, <1>3, Zenon DEF FieldsKept, TypeOK
<1>5. SnapshotOf(i)'
  <2>1. /\ lastApplied'[i] = k /\ applyMsg'[i] = 0 /\ service'[i] = snapshot[i]
        /\ \A n \in snapMsgs'[i] : n = k
    BY <1>3, Zenon DEF TypeOK
  <2>2. /\ logs'[i] = logs[i] /\ lastIncludedTerm'[i] = lastIncludedTerm[i]
        /\ lastIncludedIndex'[i] = k
    BY <1>1, <1>4, Zenon DEF FieldsKept
  <2>3. snapshot[i] = k /\ logs[i][1].term = lastIncludedTerm[i]
    BY <1>4, Zenon DEF SnapshotOf
  <2>4. k <= k /\ 0 <= k
    OBVIOUS
  <2> QED BY <1>3, <2>1, <2>2, <2>3, <2>4, Zenon DEF SnapshotOf
<1>6. \A j \in Peers \ {i} : SnapshotKept(j)
  BY <1>1, <1>3, ZenonT(60) DEF SnapshotKept, FieldsKept, TypeOK
<1> QED BY <1>5, <1>6, Zenon

\* InstallSnapshot cuts the log at the index of the snapshot it saves.
LEMMA SnapshotByInstall ==
    ASSUME TypeOK, NEW m \in rpcs, SnapshotOf(m.to), SnapshotSent(m), Installed(m)
    PROVE  SnapshotOf(m.to)' /\ \A j \in Peers \ {m.to} : SnapshotKept(j)
<1> DEFINE i == m.to
<1>1. m \in InstallSnapshotArgs /\ i \in Peers
  BY MessageTypes, Zenon DEF Installed
<1>2. PICK k \in Nat : k = m.lastIncludedIndex
  BY <1>1, Zenon DEF InstallSnapshotArgs
<1>3. PICK t \in Nat : t = m.lastIncludedTerm
  BY <1>1, Zenon DEF InstallSnapshotArgs
<1>4. /\ lastApplied[i] \in Nat /\ service[i] \in Nat /\ applyMsg[i] \in Nat
      /\ snapMsgs[i] \in SUBSET Nat
  BY <1>1, Zenon DEF TypeOK
<1>5. \A j \in Peers \ {i} : SnapshotKept(j)
  BY Zenon DEF SnapshotKept, TypeOK, Installed
<1>6. logs'[i][1].term = t
  <2>1. \E r \in Seq(Entry) : LogAfterSnapshot(i, m) = <<Dummy(t)>> \o r
    <3>1. << >> \in Seq(Entry)
      OBVIOUS
    <3>2. k <= lastLogicalIndex(i) => Suffix(i, k + 1) \in Seq(Entry)
      <4>1. lastIncludedIndex[i] \in Nat /\ lastLogicalIndex(i) \in Nat
        BY <1>1, LogHelpers, Zenon
      <4>2. k > lastIncludedIndex[i]
        BY <1>2, Zenon DEF Installed
      <4>3. k <= lastLogicalIndex(i)
               => k + 1 \in lastIncludedIndex[i] + 1 .. lastLogicalIndex(i) + 1
        BY <4>1, <4>2
      <4> QED BY <1>1, <4>3, LogHelpers, Zenon
    <3> QED BY <1>2, <1>3, <3>1, <3>2, Zenon DEF LogAfterSnapshot
  <2>2. logs'[i] = LogAfterSnapshot(i, m)
    BY <1>1, Zenon DEF TypeOK, Installed
  <2>3. PICK r \in Seq(Entry) : logs'[i] = <<Dummy(t)>> \o r
    BY <2>1, <2>2, Zenon
  <2>4. (<<Dummy(t)>> \o r)[1] = Dummy(t)
    BY BehindDummy, Zenon
  <2> QED BY <2>3, <2>4, DummyTerm, Zenon
<1>7. /\ snapshot'[i] = m.data /\ lastIncludedIndex'[i] = k /\ lastIncludedTerm'[i] = t
      /\ lastApplied'[i] = max(k, lastApplied[i]) /\ snapMsgs'[i] = snapMsgs[i] \cup {k}
  BY <1>1, <1>2, <1>3, Zenon DEF TypeOK, Installed
<1>8. m.data = k
  BY <1>2, Zenon DEF SnapshotSent, Installed
<1>9. PICK a \in Nat : a = lastApplied'[i] /\ a >= k /\ a >= lastApplied[i]
  <2>1. /\ max(k, lastApplied[i]) \in Nat /\ max(k, lastApplied[i]) >= k
        /\ max(k, lastApplied[i]) >= lastApplied[i]
    BY <1>4, MaxIsNat, Zenon
  <2> QED BY <1>7, <2>1, Zenon
<1>10. /\ service[i] <= lastApplied[i] /\ applyMsg[i] <= lastApplied[i]
       /\ \A x \in snapMsgs[i] : x <= lastApplied[i]
  BY <1>1, Zenon DEF SnapshotOf
<1>11. /\ service[i] <= a /\ applyMsg[i] <= a /\ k <= a
       /\ \A x \in snapMsgs[i] : x <= a
  BY <1>4, <1>9, <1>10
<1>12. SnapshotOf(i)'
  BY <1>6, <1>7, <1>8, <1>9, <1>11, Zenon DEF SnapshotOf, Installed
<1> QED BY <1>5, <1>12, Zenon

\* Every step keeps the invariant.
LEMMA SnapshotInvStep ==
    ASSUME TypeOK, PersistedIsCurrent, SnapshotInv, [Next]_vars
    PROVE  SnapshotInv'
<1>1. SnapshotKind
  BY SnapshotKinds, Zenon
<1>2. \A n \in rpcs' : SnapshotSent(n)
  BY <1>1, Zenon DEF SnapshotKind, Given, SnapshotInv, SnapshotOf, SnapshotSent
<1>3. \A n : SnapshotSent(n)' <=> SnapshotSent(n)
  BY Zenon DEF SnapshotSent
<1>4. ASSUME NEW i \in Peers, SnapshotOf(i)', \A j \in Peers \ {i} : SnapshotKept(j)
      PROVE  \A j \in Peers : SnapshotOf(j)'
  BY <1>4, SnapshotFrame, Zenon DEF SnapshotInv
<1>5. CASE \A j \in Peers : SnapshotKept(j)
  <2>1. \A j \in Peers : SnapshotOf(j)'
    BY <1>5, SnapshotFrame, Zenon DEF SnapshotInv
  <2> QED BY <1>2, <1>3, <2>1, Zenon DEF SnapshotInv
<1>6. ASSUME NEW i \in Peers, Snapshot(i) \/ Applies(i) \/ Make(i) PROVE SnapshotInv'
  <2>1. SnapshotOf(i)' /\ \A j \in Peers \ {i} : SnapshotKept(j)
    BY <1>6, SnapshotBySnapshot, SnapshotByApply, SnapshotByMake, Zenon DEF SnapshotInv
  <2> QED BY <1>2, <1>3, <1>4, <2>1, Zenon DEF SnapshotInv
<1>7. ASSUME NEW m \in rpcs, Installed(m) PROVE SnapshotInv'
  <2>1. m.to \in Peers
    BY MessageTypes, Zenon
  <2>2. SnapshotOf(m.to)' /\ \A j \in Peers \ {m.to} : SnapshotKept(j)
    BY <1>7, <2>1, SnapshotByInstall, Zenon DEF SnapshotInv
  <2> QED BY <1>2, <1>3, <1>4, <2>1, <2>2, Zenon DEF SnapshotInv
<1> QED BY <1>1, <1>5, <1>6, <1>7, Zenon DEF SnapshotKind

-----------------------------------------------------------------------------
(* The theorems.                                                           *)

\* The invariant about snapshots holds throughout.
LEMMA SnapshotInvariant == Spec => []SnapshotInv
<1>1. Init => SnapshotInv
  <2>1. <<Dummy(0)>>[1].term = 0
    BY DEF Dummy
  <2> QED BY <2>1 DEF Init, SnapshotInv, SnapshotOf
<1> QED BY <1>1, SnapshotInvStep, TypeCorrect, PersistedCorrect, PTL DEF Spec

\* For any number of peers, and whatever is lost, reordered, delayed or restarted, the
\* snapshot a server saves is the one its log was cut at and the apply loop is never
\* behind it (Snapshot, InstallSnapshot, Make, sendApplyMsg).
THEOREM SnapshotsConsistent == Spec => []SnapshotConsistent
<1>1. SnapshotInv => SnapshotConsistent
  BY Zenon DEF SnapshotInv, SnapshotOf, SnapshotConsistent
<1> QED BY <1>1, SnapshotInvariant, PTL

\* Every step keeps the invariant about logs if a term has one leader.
LEMMA LogInvStep ==
    /\ TypeOK /\ TypeOK' /\ PersistedIsCurrent /\ SnapshotConsistent
    /\ ElectionSafety /\ ElectionSafety' /\ LogInv /\ [Next]_vars
    => LogInv'
  BY LeadersElectedStep, TermsOwnedStep, FragmentsAgreeStep, Zenon DEF LogInv
=============================================================================
