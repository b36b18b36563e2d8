------------------------------ MODULE KVLinear ------------------------------
(***************************************************************************)
(* The invariant that makes the key/value service with Clerks linearizable *)
(* (see KVLinearProofs), and the steps of Raft and of the handlers, which  *)
(* keep it.                                                                *)
(***************************************************************************)
EXTENDS KVProofs, WellFoundedInduction

\* What SMT may take for a step, in seconds.
USE SMTT(60), Z3T(60)

\* Every goroutine has a client id of its own, and no request is handled after its Clerk
\* has given it up.
Separate ==
    /\ \A t, u \in Threads : ClientOf[t] = ClientOf[u] => t = u
    /\ LateRequests = FALSE

-----------------------------------------------------------------------------
(* Induction.                                                              *)

\* A set of natural numbers that is not empty has a least element.
LEMMA Least ==
    ASSUME NEW S \in SUBSET Nat, S # {}
    PROVE  \E n \in S : \A m \in S : n <= m
<1> DEFINE R == OpToRel(<, Nat)
<1>1. IsWellFoundedOn(R, Nat)
  BY NatLessThanWellFounded, Zenon
<1>2. \A x, y \in Nat : x < y => <<x, y>> \in R
  BY DEF OpToRel
<1> HIDE DEF R
<1>3. PICK n \in S : \A m \in S : ~(<<m, n>> \in R)
  BY <1>1, WFMin, Zenon
<1>4. ASSUME NEW m \in S PROVE n <= m
  <2>1. ~(m < n)
    BY <1>2, <1>3, Zenon
  <2> QED
    BY <2>1
<1> QED
  BY <1>4, Zenon

\* A set with 0, and with the successor of each number in it, has all numbers.
LEMMA Induction ==
    ASSUME NEW S, 0 \in S, \A n \in Nat : n \in S => n + 1 \in S
    PROVE  \A n \in Nat : n \in S
<1> SUFFICES ASSUME NEW m \in Nat, m \notin S PROVE FALSE
  BY Zenon
<1> DEFINE T == {n \in Nat : n \notin S}
<1>1. PICK n \in T : \A k \in T : n <= k
  BY Least, Zenon
<1>2. n # 0 /\ n - 1 \in Nat
  OBVIOUS
<1>3. n - 1 \in S
  BY <1>1, <1>2
<1> QED
  BY <1>2, <1>3

-----------------------------------------------------------------------------
(* What committed entries amount to.                                       *)

\* The equation that defines the function in Replayed.
Steps(es, n, f) ==
    f = [k \in 0 .. n |-> IF k = 0 THEN NoEffect ELSE Took(f[k - 1], es[k].tag)]

\* It has a solution for any number of entries.
LEMMA StepsExist ==
    ASSUME NEW es
    PROVE  \A n \in Nat : \E f : Steps(es, n, f)
<1> DEFINE S == {n \in Nat : \E f : Steps(es, n, f)}
<1>1. 0 \in S
  <2>1. Steps(es, 0, [k \in 0 .. 0 |-> NoEffect])
    BY DEF Steps
  <2> QED
    BY <2>1, Zenon
<1>2. ASSUME NEW n \in Nat, n \in S PROVE n + 1 \in S
  <2>1. PICK f : Steps(es, n, f)
    BY <1>2, Zenon
  <2> DEFINE last == Took(f[n], es[n + 1].tag)
             g == [k \in 0 .. n + 1 |-> IF k <= n THEN f[k] ELSE last]
  <2>2. ASSUME NEW k \in 0 .. n + 1
        PROVE  g[k] = IF k = 0 THEN NoEffect ELSE Took(g[k - 1], es[k].tag)
    <3>1. CASE k = 0
      BY <2>1, <3>1 DEF Steps
    <3>2. CASE k \in 1 .. n
      <4>1. f[k] = Took(f[k - 1], es[k].tag)
        BY <2>1, <3>2 DEF Steps
      <4>2. g[k] = f[k] /\ g[k - 1] = f[k - 1] /\ k # 0
        BY <3>2
      <4> QED
        BY <4>1, <4>2, Zenon
    <3>3. CASE k = n + 1
      <4>1. g[k] = last /\ g[k - 1] = f[n] /\ k # 0
        BY <3>3
      <4> QED
        BY <4>1, <3>3, Zenon
    <3> QED
      BY <3>1, <3>2, <3>3
  <2> HIDE DEF last
  <2>3. Steps(es, n + 1, g)
    BY <2>2, Zenon DEF Steps
  <2> QED
    BY <2>3
<1> HIDE DEF S
<1>3. \A n \in Nat : n \in S
  BY <1>1, <1>2, Induction, Zenon
<1> QED
  BY <1>3, Zenon DEF S

\* Two sequences begin with the same m entries.
Same(es, fs, m) == \A k \in 1 .. m : es[k] = fs[k]

\* Sequences with a common beginning have common first steps.
LEMMA StepsAgree ==
    ASSUME NEW es, NEW fs, NEW m \in Nat, Same(es, fs, m),
           NEW f, NEW g, Steps(es, m, f), Steps(fs, m + 1, g)
    PROVE  f[m] = g[m]
<1> DEFINE S == {k \in Nat : k <= m => f[k] = g[k]}
<1>1. 0 \in S
  BY DEF Steps
<1>2. ASSUME NEW k \in Nat, k \in S PROVE k + 1 \in S
  <2> SUFFICES ASSUME k + 1 <= m PROVE f[k + 1] = g[k + 1]
    OBVIOUS
  <2>1. k + 1 \in 0 .. m /\ k + 1 \in 0 .. m + 1 /\ k + 1 # 0 /\ (k + 1) - 1 = k /\ k + 1 \in 1 .. m
    OBVIOUS
  <2>2. f[k + 1] = Took(f[k], es[k + 1].tag)
    BY <2>1, Zenon DEF Steps
  <2>3. g[k + 1] = Took(g[k], fs[k + 1].tag)
    BY <2>1, Zenon DEF Steps
  <2>4. f[k] = g[k]
    BY <1>2
  <2> QED
    BY <2>1, <2>2, <2>3, <2>4, Zenon DEF Same
<1> HIDE DEF S
<1>3. m \in S
  BY <1>1, <1>2, Induction, Zenon
<1> QED
  BY <1>3 DEF S

\* Replayed is the last value of a solution.
LEMMA ReplayedSteps ==
    ASSUME NEW S, NEW es \in Seq(S)
    PROVE  \E f : Steps(es, Len(es), f) /\ Replayed(es) = f[Len(es)]
<1> DEFINE f == CHOOSE g : Steps(es, Len(es), g)
<1>1. Replayed(es) = f[Len(es)]
  BY Zenon DEF Replayed, Steps
<1>2. Steps(es, Len(es), f)
  BY StepsExist
<1> QED
  BY <1>1, <1>2, Zenon

\* One more entry is one more operation.
LEMMA ReplayedNext ==
    ASSUME NEW S, NEW es \in Seq(S), NEW fs \in Seq(S), Len(fs) = Len(es) + 1,
           \A k \in 1 .. Len(es) : es[k] = fs[k]
    PROVE  Replayed(fs) = Took(Replayed(es), fs[Len(fs)].tag)
<1> DEFINE m == Len(es)
<1>1. PICK f : Steps(es, m, f) /\ Replayed(es) = f[m]
  BY ReplayedSteps, Zenon
<1>2. PICK g : Steps(fs, m + 1, g) /\ Replayed(fs) = g[m + 1]
  BY ReplayedSteps, Zenon
<1>3. m \in Nat /\ Same(es, fs, m)
  BY DEF Same
<1> HIDE DEF m
<1>4. f[m] = g[m]
  <2>1. Steps(es, m, f) /\ Steps(fs, m + 1, g)
    BY <1>1, <1>2, Zenon
  <2> QED
    BY ONLY <2>1, <1>3, StepsAgree
<1>5. g[m + 1] = Took(g[m], fs[m + 1].tag)
  <2>1. m + 1 \in 0 .. m + 1 /\ m + 1 # 0 /\ (m + 1) - 1 = m
    BY <1>3
  <2>2. g = [k \in 0 .. m + 1 |-> IF k = 0 THEN NoEffect ELSE Took(g[k - 1], fs[k].tag)]
    BY <1>2, Zenon DEF Steps
  <2> QED
    BY <2>1, <2>2, Zenon
<1> QED
  BY <1>1, <1>2, <1>4, <1>5, Zenon DEF m

\* No entries are no operations.
LEMMA ReplayedNone == Replayed(<< >>) = NoEffect
<1>1. << >> \in Seq({}) /\ Len(<< >>) = 0
  OBVIOUS
<1>2. PICK f : Steps(<< >>, 0, f) /\ Replayed(<< >>) = f[0]
  BY <1>1, ReplayedSteps, Zenon
<1> QED
  BY <1>2 DEF Steps

\* The effect of the first k entries.
Eff(es, k) == Replayed(SubSeq(es, 1, k))

\* It grows by an operation with each entry.
LEMMA EffNext ==
    ASSUME NEW all \in Seq(Entries), NEW k \in 0 .. Len(all) - 1
    PROVE  Eff(all, k + 1) = Took(Eff(all, k), all[k + 1].tag)
<1> DEFINE es == SubSeq(all, 1, k)
           fs == SubSeq(all, 1, k + 1)
<1>1. /\ es \in Seq(Entries) /\ Len(es) = k /\ \A i \in 1 .. k : es[i] = all[i]
  OBVIOUS
<1>2. /\ fs \in Seq(Entries) /\ Len(fs) = k + 1 /\ \A i \in 1 .. k + 1 : fs[i] = all[i]
  OBVIOUS
<1>3. \A i \in 1 .. k : i \in 1 .. k + 1
  OBVIOUS
<1> HIDE DEF es, fs
<1>4. Replayed(fs) = Took(Replayed(es), fs[k + 1].tag)
  BY <1>1, <1>2, <1>3, ReplayedNext, Zenon
<1>5. fs[k + 1] = all[k + 1]
  BY <1>2
<1> QED
  BY <1>4, <1>5, Zenon DEF Eff, es, fs

-----------------------------------------------------------------------------
(* The invariant.                                                          *)

\* The first n entries of a server's log are the committed ones.
Agree(s, n) == \A k \in 1 .. n : k <= Len(log[s]) /\ log[s][k] = chosen[k]

\* A term has one leader; the newest has all that is committed, and any has what its own
\* server has applied.
RaftOK ==
    /\ \A s, r \in Servers : leading[s] /\ leading[r] /\ term[s] = term[r] => s = r
    /\ \A s \in Servers : leading[s] /\ Newest(s) => Agree(s, Len(chosen))
    /\ \A s \in Servers : leading[s] => Agree(s, lastApplied[s])

\* Commands have the numbers of operations begun, those of a goroutine in their order.
InOrder(es, no) ==
    /\ \A k \in 1 .. Len(es) : /\ es[k].seq = es[k].tag[2] - 1
                               /\ es[k].tag[2] <= no[es[k].tag[1]]
    /\ \A j \in 1 .. Len(es) : \A i \in 1 .. j :
          es[i].tag[1] = es[j].tag[1] => es[i].tag[2] <= es[j].tag[2]

\* So do the committed commands and every server's log.
Ordered == InOrder(chosen, opNo) /\ \A s \in Servers : InOrder(log[s], opNo)

\* Results are of committed commands, never change, and are there for every operation but
\* the one a goroutine is busy with.
Effects ==
    /\ effect = Eff(chosen, Len(chosen))
    /\ \A k \in 0 .. Len(chosen) : \A tag \in DOMAIN Eff(chosen, k).results :
          /\ \E i \in 1 .. k : chosen[i].tag = tag
          /\ tag \in DOMAIN effect.results /\ effect.results[tag] = Eff(chosen, k).results[tag]
    /\ \A tag \in DOMAIN effect.results :
          OpOf(tag).type # "Get" => effect.results[tag] = Reply(OK, Nil)
    /\ \A t \in Threads : \A n \in 1 .. opNo[t] :
          n < opNo[t] \/ ~busy[t] => <<t, n>> \in DOMAIN effect.results

\* A client's record is its last operation with its result.
Recorded(m, ef, t) ==
    \/ m = Nil /\ \A n \in 1 .. Len(Script[t]) : <<t, n>> \notin DOMAIN ef.results
    \/ \E n \in 1 .. Len(Script[t]) :
          /\ m # Nil /\ m.seq = n - 1
          /\ <<t, n>> \in DOMAIN ef.results /\ m.reply = ef.results[<<t, n>>]
          /\ \A l \in 1 .. Len(Script[t]) : <<t, l>> \in DOMAIN ef.results => l <= n

\* A database is what the commands that took effect leave behind.
Matches(d, ef) ==
    /\ d.kvStore = ef.store
    /\ \A t \in Threads : Recorded(d.recordMap[ClientOf[t]], ef, t)

\* A server's database is that of what it applied, its snapshot's that of the cut.
Databases ==
    \A s \in Servers : /\ Matches(db[s], Eff(chosen, lastApplied[s]))
                       /\ Matches(saved[s].db, Eff(chosen, saved[s].index))

\* A reply that sends the Clerk on, or the result of the operation.
Good(tag, reply) ==
    \/ reply.err \in {ErrWrongLeader, ErrTimeOut}
    \/ tag \in DOMAIN effect.results /\ reply = effect.results[tag]

\* The test waitApplied makes before it trusts its channel.
Current(c) == leading[c.to] /\ term[c.to] = c.startTerm

\* A call is for an operation its goroutine has begun; one the Clerk still waits for is
\* for the operation it is busy with.
Tagged(id) ==
    LET c == calls[id]
        t == id[1]
    IN  c.phase # "free" =>
          /\ c.tag[1] = t /\ c.seq = c.tag[2] - 1 /\ c.tag[2] <= opNo[t]
          /\ c.live => busy[t] /\ c.tag[2] = opNo[t]
          /\ c.phase = "sent" => c.live

\* What waits on a channel at an index is, as long as the test succeeds, the command there.
Working(id) ==
    LET c == calls[id]
    IN  c.phase \in {"started", "waiting", "closing"} =>
          /\ c.startTerm <= term[c.to]
          /\ Current(c) => c.index <= Len(log[c.to]) /\ log[c.to][c.index].tag = c.tag
          /\ c.phase = "waiting" /\ c.ch # Nil /\ Current(c) => Good(c.tag, c.ch)
          /\ c.phase = "closing" => Good(c.tag, c.reply)

\* The answer to a call is none, one that sends the Clerk on, or the result.
Answered(id) ==
    LET c == calls[id]
    IN  c.phase = "done" => c.reply = Nil \/ Good(c.tag, c.reply)

\* What holds of every call.
CallOK(id) == Tagged(id) /\ Working(id) /\ Answered(id)

\* The Clerk is blocked on this call.
IsOpen(id) == calls[id].phase # "free" /\ calls[id].live

\* A goroutine is blocked on one call at a time.
OneOpen == \A i, j \in CallIds : i[1] = j[1] /\ IsOpen(i) /\ IsOpen(j) => i = j

\* The calls of the Clerks.
Clerks == (\A id \in CallIds : CallOK(id)) /\ OneOpen

\* The reply the applier will send after its snapshot.
Notices ==
    \A s \in Servers : notifying[s] # Nil =>
        LET tag == chosen[lastApplied[s]].tag
        IN  tag \in DOMAIN effect.results /\ notifying[s] = effect.results[tag]

\* The inductive invariant of the refinement.
LInv == RaftOK /\ Ordered /\ Effects /\ Databases /\ Clerks /\ Notices

-----------------------------------------------------------------------------
(* Raft.                                                                   *)

\* What Knows and the guard of Elect say, entry by entry.
LEMMA HasAgrees ==
    ASSUME RaftTypeOK, NEW s \in Servers, NEW k \in 0 .. Len(chosen), Has(s, k)
    PROVE  Agree(s, k)
<1>1. /\ log[s] \in Seq(Entries) /\ Len(log[s]) \in Nat
      /\ chosen \in Seq(Entries) /\ Len(chosen) \in Nat
  BY DEF RaftTypeOK
<1>2. k <= Len(log[s]) /\ SubSeq(log[s], 1, k) = SubSeq(chosen, 1, k)
  BY Zenon DEF Has
<1>3. ASSUME NEW i \in 1 .. k
      PROVE  SubSeq(log[s], 1, k)[i] = log[s][i] /\ SubSeq(chosen, 1, k)[i] = chosen[i]
  BY <1>1, <1>2
<1>4. \A i \in 1 .. k : i <= Len(log[s])
  BY <1>1, <1>2
<1> QED
  BY <1>2, <1>3, <1>4, Zenon DEF Agree

-----------------------------------------------------------------------------
(* What no step takes back.                                                *)

\* Terms, the log of a leader that stays one, results, and the numbers of operations.
Grows ==
    /\ \A s \in Servers :
          /\ term[s] <= term'[s]
          /\ leading'[s] /\ term'[s] = term[s] =>
                /\ leading[s]
                /\ \A k \in 1 .. Len(log[s]) : k <= Len(log'[s]) /\ log'[s][k] = log[s][k]
    /\ \A tag \in DOMAIN effect.results :
          tag \in DOMAIN effect'.results /\ effect'.results[tag] = effect.results[tag]
    /\ \A t \in Threads : opNo[t] <= opNo'[t]

\* Steps that leave alone what a part of the invariant is about.
LEMMA Frames ==
    ASSUME IInv, IInv', RaftOK, Ordered, Effects, Databases, Notices
    PROVE  /\ UNCHANGED <<term, leading, log, chosen, lastApplied>> => RaftOK'
           /\ UNCHANGED <<log, chosen, opNo>> => Ordered'
           /\ UNCHANGED <<chosen, effect, opNo, busy>> => Effects'
           /\ UNCHANGED <<chosen, lastApplied, db, saved>> => Databases'
           /\ UNCHANGED <<chosen, effect, lastApplied, notifying>> => Notices'
           /\ UNCHANGED <<term, leading, log, effect, opNo>> => Grows
<1>1. UNCHANGED <<term, leading, log, chosen, lastApplied>> => RaftOK'
  BY DEF RaftOK, Newest, Agree
<1>2. UNCHANGED <<log, chosen, opNo>> => Ordered'
  BY Zenon DEF Ordered
<1>3. UNCHANGED <<chosen, effect, opNo, busy>> => Effects'
  BY DEF Effects
<1>4. UNCHANGED <<chosen, lastApplied, db, saved>> => Databases'
  BY Zenon DEF Databases
<1>5. UNCHANGED <<chosen, effect, lastApplied, notifying>> => Notices'
  BY Zenon DEF Notices
<1>6. UNCHANGED <<term, leading, log, effect, opNo>> => Grows
  <2>1. \A s \in Servers : term[s] \in Int /\ Len(log[s]) \in Nat
    BY KVAssumption DEF IInv, Inv, RaftTypeOK
  <2>2. \A t \in Threads : opNo[t] \in Int
    BY DEF IInv, Inv, ClerkTypeOK
  <2> QED
    BY <2>1, <2>2 DEF Grows
<1> QED
  BY <1>1, <1>2, <1>3, <1>4, <1>5, <1>6, Zenon

\* Every call that is not free has these.
LEMMA CallFields ==
    ASSUME NEW c \in Calls, c.phase # "free"
    PROVE  c.to \in Servers /\ c.tag \in Tags /\ c.seq \in Nat /\ c.live \in BOOLEAN
<1>1. c \in SentCalls \/ c \in WorkCalls \/ c \in DoneCalls
  BY Phases, Zenon DEF Calls
<1> QED
  BY <1>1, Zenon DEF SentCalls, WorkCalls, DoneCalls

\* A call that no step touches, of a goroutine that is still at the same operation.
LEMMA SameCall ==
    ASSUME IInv, IInv', Grows, NEW id \in CallIds, CallOK(id), calls'[id] = calls[id],
           calls[id].phase = "free" \/ ~calls[id].live
              \/ UNCHANGED <<opNo[id[1]], busy[id[1]]>>
    PROVE  CallOK(id)'
\* A good reply stays one.
<1>GoodGrows.
    ASSUME Grows, NEW tag, NEW reply, Good(tag, reply)
    PROVE  Good(tag, reply)'
  BY <1>GoodGrows, Zenon DEF Good, Grows
\* Where the test of waitApplied succeeds it would have succeeded before.
<1>CurrentGrows.
    ASSUME Grows, RaftTypeOK, RaftTypeOK', NEW s \in Servers, NEW n \in 0 .. MaxTerm, n <= term[s]
    PROVE  /\ n <= term'[s]
           /\ leading'[s] /\ term'[s] = n =>
                 /\ leading[s] /\ term[s] = n
                 /\ \A k \in 1 .. Len(log[s]) : k <= Len(log'[s]) /\ log'[s][k] = log[s][k]
  <2> USE <1>CurrentGrows
  <2>1. term[s] \in Int /\ term'[s] \in Int /\ n \in Int /\ term[s] <= term'[s]
    BY KVAssumption DEF Grows, RaftTypeOK
  <2>2. n <= term'[s] /\ (term'[s] = n => term[s] = n)
    BY ONLY <2>1, n <= term[s]
  <2> QED
    BY <2>2, Zenon DEF Grows
<1> USE DEF IInv, Inv
<1> DEFINE c == calls[id]
           t == id[1]
<1>1. c \in Calls /\ t \in Threads
  BY Zenon DEF ClerkTypeOK, CallIds
<1>2. Tagged(id)'
  <2> SUFFICES ASSUME c.phase # "free"
               PROVE  /\ c.tag[1] = t /\ c.seq = c.tag[2] - 1 /\ c.tag[2] <= opNo'[t]
                      /\ c.live => busy'[t] /\ c.tag[2] = opNo'[t]
                      /\ c.phase = "sent" => c.live
    BY DEF Tagged
  <2>1. /\ c.tag[1] = t /\ c.seq = c.tag[2] - 1 /\ c.tag[2] <= opNo[t]
        /\ c.live => busy[t] /\ c.tag[2] = opNo[t]
        /\ c.phase = "sent" => c.live
    BY Zenon DEF CallOK, Tagged
  <2>2. c.tag \in Tags
    BY <1>1, CallFields, Zenon
  <2>3. c.tag[2] \in Int /\ opNo[t] \in Int /\ opNo'[t] \in Int /\ opNo[t] <= opNo'[t]
    BY <1>1, <2>2 DEF Tags, ClerkTypeOK, Grows
  <2>4. c.tag[2] <= opNo'[t]
    BY ONLY <2>1, <2>3
  <2> QED
    BY <2>1, <2>4, Zenon
<1>3. Working(id)'
  <2> SUFFICES ASSUME c.phase \in {"started", "waiting", "closing"}
               PROVE  Working(id)'
    BY Zenon DEF Working
  <2>1. c \in WorkCalls
    BY <1>1, Phases, Zenon
  <2>2. c.to \in Servers /\ c.startTerm \in 0 .. MaxTerm /\ c.index \in Indexes
    BY <2>1, Zenon DEF WorkCalls
  <2>3. /\ c.startTerm <= term[c.to]
        /\ Current(c) => c.index <= Len(log[c.to]) /\ log[c.to][c.index].tag = c.tag
        /\ c.phase = "waiting" /\ c.ch # Nil /\ Current(c) => Good(c.tag, c.ch)
        /\ c.phase = "closing" => Good(c.tag, c.reply)
    BY Zenon DEF CallOK, Working
  <2>4. /\ c.startTerm <= term'[c.to]
        /\ leading'[c.to] /\ term'[c.to] = c.startTerm =>
             /\ leading[c.to] /\ term[c.to] = c.startTerm
             /\ \A k \in 1 .. Len(log[c.to]) :
                   k <= Len(log'[c.to]) /\ log'[c.to][k] = log[c.to][k]
    BY <2>2, <2>3, <1>CurrentGrows, Zenon
  <2>5. Current(c) => c.index \in 1 .. Len(log[c.to])
    <3>1. c.index \in Int /\ c.index >= 1 /\ Len(log[c.to]) \in Int
      BY <2>2 DEF Indexes, RaftTypeOK
    <3> QED
      BY ONLY <2>3, <3>1
  <2>6. leading'[c.to] /\ term'[c.to] = c.startTerm =>
           c.index <= Len(log'[c.to]) /\ log'[c.to][c.index].tag = c.tag /\ Current(c)
    BY <2>3, <2>4, <2>5, Zenon DEF Current
  <2>7. /\ c.phase = "waiting" /\ c.ch # Nil /\ Current(c) => Good(c.tag, c.ch)'
        /\ c.phase = "closing" => Good(c.tag, c.reply)'
    BY <2>3, <1>GoodGrows, Zenon
  <2> QED
    BY <2>4, <2>6, <2>7, Zenon DEF Working, Current, Good
<1>4. Answered(id)'
  BY <1>GoodGrows, Zenon DEF CallOK, Answered, Good
<1> QED
  BY <1>2, <1>3, <1>4, Zenon DEF CallOK

\* A handler that answers, or is given up before it does.
LEMMA AnsweredCall ==
    ASSUME IInv, IInv', NEW id \in CallIds, CallOK(id),
           calls[id].phase \in {"sent", "started", "waiting", "closing"}, NEW reply,
           calls'[id] = Free \/ (calls[id].live /\ calls'[id] = Done(calls[id], reply)),
           reply = Nil \/ Good(calls[id].tag, reply), UNCHANGED <<opNo, busy, effect>>
    PROVE  CallOK(id)'
<1> DEFINE c == calls[id]
<1>1. CASE calls'[id] = Free
  <2>1. calls'[id].phase = "free"
    BY <1>1 DEF Free
  <2> QED
    BY <2>1, Zenon DEF CallOK, Tagged, Working, Answered
<1>2. CASE c.live /\ calls'[id] = Done(c, reply)
  <2> DEFINE d == calls'[id]
  <2>1. d.phase = "done" /\ d.tag = c.tag /\ d.seq = c.seq /\ d.live /\ d.reply = reply
    BY <1>2 DEF Done
  <2>2. c.phase # "free"
    BY Zenon
  <2>3. Tagged(id)'
    BY <1>2, <2>1, <2>2, Zenon DEF CallOK, Tagged
  <2>4. Working(id)'
    BY <2>1, Zenon DEF Working
  <2>5. Answered(id)'
    BY <2>1, Zenon DEF Answered, Good
  <2> QED
    BY <2>3, <2>4, <2>5, Zenon DEF CallOK
<1> QED
  BY <1>1, <1>2, Zenon

\* A handler that changes its phase, its channel or its result.
LEMMA WorkingCall ==
    ASSUME IInv, IInv', NEW id \in CallIds, CallOK(id),
           calls[id] \in WorkCalls, calls'[id] \in WorkCalls,
           UNCHANGED <<opNo, busy, effect, term, leading, log>>,
           calls'[id].to = calls[id].to, calls'[id].tag = calls[id].tag,
           calls'[id].seq = calls[id].seq, calls'[id].live => calls[id].live,
           calls'[id].index = calls[id].index, calls'[id].startTerm = calls[id].startTerm,
           calls'[id].phase = "waiting" /\ calls'[id].ch # Nil /\ Current(calls[id]) =>
              Good(calls[id].tag, calls'[id].ch),
           calls'[id].phase = "closing" => Good(calls[id].tag, calls'[id].reply)
    PROVE  CallOK(id)'
<1> DEFINE c == calls[id]
           d == calls'[id]
<1>1. /\ c.phase \in {"started", "waiting", "closing"}
      /\ d.phase \in {"started", "waiting", "closing"}
  BY Zenon DEF WorkCalls
<1>2. Tagged(id)'
  BY <1>1, Zenon DEF CallOK, Tagged
<1>3. Working(id)'
  BY <1>1, Zenon DEF CallOK, Working, Current, Good
<1>4. Answered(id)'
  BY <1>1, Zenon DEF Answered
<1> QED
  BY <1>2, <1>3, <1>4, Zenon DEF CallOK

\* A step that opens no call and leaves the goroutines where they are.
LEMMA CallsStep ==
    ASSUME IInv, IInv', Clerks, Grows, UNCHANGED <<opNo, busy>>,
           \A id \in CallIds :
              \/ calls'[id] = calls[id]
              \/ CallOK(id)' /\ (IsOpen(id)' => IsOpen(id))
    PROVE  Clerks'
<1>1. ASSUME NEW id \in CallIds PROVE CallOK(id)'
  <2>1. CASE calls'[id] = calls[id]
    BY <2>1, SameCall, Zenon DEF Clerks
  <2> QED
    BY <2>1, Zenon
<1>2. OneOpen'
  <2>1. \A id \in CallIds : IsOpen(id)' => IsOpen(id)
    BY Zenon DEF IsOpen
  <2> QED
    BY <2>1, Zenon DEF Clerks, OneOpen
<1> QED
  BY <1>1, <1>2, Zenon DEF Clerks

-----------------------------------------------------------------------------
(* Each step keeps the invariant.                                          *)

\* An operation that takes effect adds its result and changes no other.
LEMMA TookResults ==
    ASSUME NEW before, NEW tag
    PROVE  LET after == Took(before, tag)
           IN  /\ DOMAIN after.results = DOMAIN before.results \cup {tag}
               /\ \A old \in DOMAIN before.results : after.results[old] = before.results[old]
               /\ tag \in DOMAIN before.results => after = before
               /\ tag \notin DOMAIN before.results =>
                     /\ after.store = Execute(before.store, tag)
                     /\ after.results[tag] = ReplyTo(before.store, tag)
<1>1. CASE tag \in DOMAIN before.results
  BY <1>1, Zenon DEF Took
<1>2. CASE tag \notin DOMAIN before.results
  BY <1>2, Zenon DEF Took
<1> QED
  BY <1>1, <1>2, Zenon

\* A step of Raft.
LEMMA RaftSound ==
    ASSUME IInv, IInv', LInv, RaftStep, UNCHANGED clerkVars
    PROVE  LInv'
\* An election leaves one leader in its term, with all that is committed.
<1>ElectRaft.
    ASSUME IInv, RaftOK, NEW s \in Servers, Elect(s), UNCHANGED lastApplied
    PROVE  /\ RaftOK' /\ UNCHANGED <<log, chosen, effect>>
           /\ \A r \in Servers : /\ term[r] <= term'[r]
                                 /\ leading'[r] /\ term'[r] = term[r] => leading[r]
  <2> USE <1>ElectRaft
  <2> USE DEF IInv, Inv
  <2>1. PICK voters \in SUBSET Servers, t \in 1 .. MaxTerm :
           /\ s \in voters /\ \A r \in Servers : term[r] < t
           /\ term' = [r \in Servers |-> IF r \in voters THEN t ELSE term[r]]
           /\ leading' = [r \in Servers |-> IF r \in voters THEN r = s ELSE leading[r]]
    BY Zenon DEF Elect
  <2>2. t \in Nat /\ \A r \in Servers : term[r] < t
    BY <2>1
  <2>3. ASSUME NEW r \in Servers
        PROVE  /\ term[r] \in Nat
               /\ r \in voters => term'[r] = t /\ (leading'[r] <=> r = s)
               /\ r \notin voters => term'[r] = term[r] /\ (leading'[r] <=> leading[r])
    <3>1. term[r] \in Nat /\ (r \in voters => term'[r] = t) /\ (r \notin voters => term'[r] = term[r])
      BY <2>1, KVAssumption DEF RaftTypeOK
    <3>2. leading'[r] = IF r \in voters THEN r = s ELSE leading[r]
      BY <2>1, Zenon
    <3> QED
      BY <3>1, <3>2, Zenon
  <2>4. Has(s, Len(chosen)) /\ UNCHANGED <<log, chosen, effect>>
    BY Zenon DEF Elect
  <2>5. Agree(s, Len(chosen))
    <3>1. Len(chosen) \in 0 .. Len(chosen)
      BY DEF RaftTypeOK
    <3> QED
      BY <2>4, <3>1, HasAgrees, Zenon
  <2>6. \A r \in Servers : lastApplied[r] \in 0 .. Len(chosen) /\ Len(chosen) \in Nat
    BY DEF ServerTypeOK, RaftTypeOK
  <2>7. \A r, q \in Servers : leading'[r] /\ leading'[q] /\ term'[r] = term'[q] => r = q
    BY <2>1, <2>2, <2>3 DEF RaftOK
  <2>8. \A r \in Servers : leading'[r] /\ (\A q \in Servers : term'[q] <= term'[r]) => r = s
    BY <2>1, <2>2, <2>3
  <2>9. \A r \in Servers : leading'[r] => Agree(r, lastApplied[r])
    BY <2>1, <2>3, <2>5, <2>6 DEF RaftOK, Agree
  <2>10. \A r \in Servers : /\ term[r] <= term'[r]
                            /\ leading'[r] /\ term'[r] = term[r] => leading[r]
    BY <2>2, <2>3
  <2> QED
    <3>1. \A r \in Servers : leading'[r] /\ Newest(r)' => Agree(r, Len(chosen))'
      BY <2>4, <2>5, <2>8, Zenon DEF Newest, Agree
    <3>2. \A r \in Servers : leading'[r] => Agree(r, lastApplied[r])'
      BY <2>4, <2>9, Zenon DEF Agree
    <3> QED
      BY <2>4, <2>7, <2>10, <3>1, <3>2, Zenon DEF RaftOK
\* A server that takes a leader's log leads no more.
<1>ReplicateRaft.
    ASSUME IInv, RaftOK, NEW s \in Servers, NEW r \in Servers, Replicate(s, r),
           UNCHANGED lastApplied
    PROVE  /\ RaftOK' /\ UNCHANGED <<chosen, effect>> /\ ~leading'[r]
           /\ \A q \in Servers : /\ term[q] <= term'[q]
                                 /\ q # r => UNCHANGED <<leading[q], term[q], log[q]>>
           /\ log'[r] = log[s]
  <2> USE <1>ReplicateRaft
  <2> USE DEF IInv, Inv
  <2>1. /\ ~leading'[r] /\ term'[r] = term[s] /\ log'[r] = log[s] /\ term[s] >= term[r]
        /\ \A q \in Servers : q # r => UNCHANGED <<leading[q], term[q], log[q]>>
        /\ UNCHANGED <<chosen, effect>>
    BY Zenon DEF Replicate, RaftTypeOK
  <2>2. \A q \in Servers : term[q] \in Int
    BY KVAssumption DEF RaftTypeOK
  <2>3. \A q \in Servers : term[q] <= term'[q]
    BY <2>1, <2>2
  <2>4. \A p, q \in Servers : leading'[p] /\ leading'[q] /\ term'[p] = term'[q] => p = q
    BY <2>1, Zenon DEF RaftOK
  <2>5. ASSUME NEW q \in Servers, leading'[q], \A p \in Servers : term'[p] <= term'[q]
        PROVE  leading[q] /\ \A p \in Servers : term[p] <= term[q]
    BY <2>1, <2>2, <2>3, <2>5
  <2>6. \A q \in Servers : leading'[q] => log'[q] = log[q] /\ leading[q]
    BY <2>1, Zenon
  <2> QED
    BY <2>1, <2>3, <2>4, <2>5, <2>6 DEF RaftOK, Newest, Agree
\* A leader that commits is the only newest one, and commits an entry of its log.
<1>CommitRaft.
    ASSUME IInv, RaftOK, NEW s \in Servers, Commit(s), UNCHANGED lastApplied
    PROVE  /\ RaftOK' /\ UNCHANGED <<term, leading, log>> /\ Agree(s, Len(chosen))'
           /\ \E e \in Entries : chosen' = Append(chosen, e) /\ effect' = Took(effect, e.tag)
           /\ Len(chosen') <= Len(log[s])
  <2> USE <1>CommitRaft
  <2> USE DEF IInv, Inv
  <2> DEFINE n == Len(chosen)
             e == log[s][n + 1]
  <2>1. /\ leading[s] /\ Newest(s) /\ chosen' = Append(chosen, e) /\ effect' = Took(effect, e.tag)
        /\ UNCHANGED <<term, leading, log>>
    BY Zenon DEF Commit
  <2>2. n \in Nat /\ n + 1 <= Len(log[s]) /\ Len(log[s]) \in Nat
    BY DEF Commit, RaftTypeOK
  <2>3. e \in Entries
    <3>1. log[s] \in Seq(Entries)
      BY Zenon DEF RaftTypeOK
    <3> QED
      BY <2>2, <3>1
  <2>4. /\ Len(chosen') = n + 1 /\ chosen'[n + 1] = e
        /\ \A k \in 1 .. n : chosen'[k] = chosen[k]
    BY <2>1, <2>3 DEF RaftTypeOK
  <2> HIDE DEF n, e
  <2>5. \A k \in 1 .. n : k <= Len(log[s]) /\ log[s][k] = chosen[k]
    BY <2>1, Zenon DEF RaftOK, Agree, n
  <2>6. \A k \in 1 .. n + 1 : k <= Len(log[s]) /\ log[s][k] = chosen'[k]
    BY <2>2, <2>4, <2>5 DEF e
  <2>7. ASSUME NEW r \in Servers, leading[r], Newest(r) PROVE r = s
    <3>1. term[r] \in 0 .. MaxTerm /\ term[s] \in 0 .. MaxTerm
      BY Zenon DEF RaftTypeOK
    <3>2. term[r] <= term[s] /\ term[s] <= term[r]
      BY <2>1, <2>7, Zenon DEF Newest
    <3>3. term[r] = term[s]
      BY <3>1, <3>2, KVAssumption
    <3> QED
      BY <2>1, <2>7, <3>3, Zenon DEF RaftOK
  <2>8. ASSUME NEW r \in Servers, leading[r], NEW k \in 1 .. lastApplied[r]
        PROVE  k <= Len(log[r]) /\ log[r][k] = chosen'[k]
    <3>1. k \in 1 .. n
      BY <2>2 DEF ServerTypeOK, n
    <3> QED
      BY <2>4, <2>8, <3>1, Zenon DEF RaftOK, Agree
  <2>9. RaftOK'
    <3>1. \A q, r \in Servers : leading[q] /\ leading[r] /\ term[q] = term[r] => q = r
      BY Zenon DEF RaftOK
    <3>2. \A r \in Servers : leading[r] /\ Newest(r) =>
             \A k \in 1 .. Len(chosen') : k <= Len(log[r]) /\ log[r][k] = chosen'[k]
      BY <2>4, <2>6, <2>7, Zenon
    <3>3. \A r \in Servers : Newest(r)' <=> Newest(r)
      BY <2>1, Zenon DEF Newest
    <3> QED
      BY <2>1, <2>8, <3>1, <3>2, <3>3, Zenon DEF RaftOK, Agree
  <2> QED
    <3>1. Agree(s, Len(chosen))'
      BY <2>1, <2>4, <2>6, Zenon DEF Agree
    <3> QED
      BY <2>1, <2>2, <2>3, <2>4, <2>9, <3>1, Zenon
\* An entry that is committed changes nothing of what those before it amount to.
<1>EffCommit.
    ASSUME NEW es \in Seq(Entries), NEW e \in Entries
    PROVE  /\ \A k \in 0 .. Len(es) : Eff(Append(es, e), k) = Eff(es, k)
           /\ Eff(Append(es, e), Len(es) + 1) = Took(Eff(es, Len(es)), e.tag)
  <2> USE <1>EffCommit
  <2> DEFINE fs == Append(es, e)
             n == Len(es)
  <2>1. /\ n \in Nat /\ fs \in Seq(Entries) /\ Len(fs) = n + 1 /\ fs[n + 1] = e
    OBVIOUS
  <2>2. ASSUME NEW k \in 0 .. n PROVE SubSeq(fs, 1, k) = SubSeq(es, 1, k)
    OBVIOUS
  <2> HIDE DEF fs, n
  <2>3. \A k \in 0 .. n : Eff(fs, k) = Eff(es, k)
    BY <2>2, Zenon DEF Eff
  <2>4. n \in 0 .. Len(fs) - 1 /\ n \in 0 .. n
    BY <2>1
  <2>5. Eff(fs, n + 1) = Took(Eff(fs, n), fs[n + 1].tag)
    BY <2>1, <2>4, EffNext, Zenon
  <2> QED
    BY <2>1, <2>3, <2>4, <2>5, Zenon DEF fs, n
\* A commit adds an entry to those committed; what they amount to grows with it.
<1>CommitEffects.
    ASSUME IInv, Effects, NEW e \in Entries, chosen' = Append(chosen, e),
           effect' = Took(effect, e.tag), UNCHANGED <<opNo, busy>>
    PROVE  /\ Effects'
           /\ \A k \in 0 .. Len(chosen) : Eff(chosen', k) = Eff(chosen, k)
           /\ \A tag \in DOMAIN effect.results :
                 tag \in DOMAIN effect'.results /\ effect'.results[tag] = effect.results[tag]
  <2> USE <1>CommitEffects
  <2> DEFINE n == Len(chosen)
  <2>1. n \in Nat /\ chosen \in Seq(Entries)
    BY DEF IInv, Inv, RaftTypeOK
  <2>2. /\ Len(chosen') = n + 1 /\ chosen'[n + 1] = e
        /\ \A k \in 1 .. n : chosen'[k] = chosen[k]
    BY <2>1
  <2>3. /\ \A k \in 0 .. n : Eff(chosen', k) = Eff(chosen, k)
        /\ Eff(chosen', n + 1) = Took(Eff(chosen, n), e.tag)
    BY <2>1, <1>EffCommit, Zenon
  <2>4. effect = Eff(chosen, n)
    BY Zenon DEF Effects
  <2>5. effect' = Eff(chosen', n + 1)
    BY <2>3, <2>4, Zenon
  <2> HIDE DEF n
  <2>6. /\ DOMAIN effect'.results = DOMAIN effect.results \cup {e.tag}
        /\ \A old \in DOMAIN effect.results : effect'.results[old] = effect.results[old]
        /\ e.tag \notin DOMAIN effect.results => effect'.results[e.tag] = ReplyTo(effect.store, e.tag)
    BY TookResults, Zenon
  <2>7. ASSUME NEW k \in 0 .. n + 1, NEW tag \in DOMAIN Eff(chosen', k).results
        PROVE  /\ \E i \in 1 .. k : chosen'[i].tag = tag
               /\ tag \in DOMAIN effect'.results /\ effect'.results[tag] = Eff(chosen', k).results[tag]
    <3>1. CASE k \in 0 .. n
      <4>1. Eff(chosen', k) = Eff(chosen, k)
        BY <2>3, <3>1, Zenon
      <4>2. PICK i \in 1 .. k : chosen[i].tag = tag
        BY <3>1, <4>1, Zenon DEF Effects, n
      <4>3. tag \in DOMAIN effect.results /\ effect.results[tag] = Eff(chosen, k).results[tag]
        BY <3>1, <4>1 DEF Effects, n
      <4>4. i \in 1 .. n
        BY <2>1, <3>1
      <4> QED
        BY <2>2, <2>6, <4>1, <4>2, <4>3, <4>4, Zenon
    <3>2. CASE k = n + 1
      <4>1. tag \in DOMAIN effect'.results /\ effect'.results[tag] = Eff(chosen', k).results[tag]
        BY <2>5, <3>2, Zenon
      <4>2. CASE tag = e.tag
        <5>1. n + 1 \in 1 .. n + 1
          BY <2>1
        <5> QED
          BY <2>2, <3>2, <4>1, <4>2, <5>1, Zenon
      <4>3. CASE tag \in DOMAIN effect.results
        <5>1. n \in 0 .. n
          BY <2>1
        <5>2. PICK i \in 1 .. n : chosen[i].tag = tag
          BY <2>4, <4>3, <5>1, Zenon DEF Effects, n
        <5>3. i \in 1 .. n + 1
          BY <2>1
        <5> QED
          BY <2>2, <3>2, <4>1, <5>2, <5>3, Zenon
      <4> QED
        BY <2>6, <4>1, <4>2, <4>3, Zenon
    <3> QED
      <4>1. k \in 0 .. n \/ k = n + 1
        BY <2>1
      <4> QED
        BY <3>1, <3>2, <4>1, Zenon
  <2>8. ASSUME NEW tag \in DOMAIN effect'.results, OpOf(tag).type # "Get"
        PROVE  effect'.results[tag] = Reply(OK, Nil)
    <3>1. ReplyTo(effect.store, tag) = Reply(OK, Nil)
      BY <2>8, Zenon DEF ReplyTo
    <3> QED
      BY <2>6, <2>8, <3>1, Zenon DEF Effects
  <2>9. \A t \in Threads : \A l \in 1 .. opNo'[t] :
           l < opNo'[t] \/ ~busy'[t] => <<t, l>> \in DOMAIN effect'.results
    BY <2>6, Zenon DEF Effects
  <2> QED
    <3>1. effect' = Eff(chosen', Len(chosen'))
      BY <2>2, <2>5, Zenon
    <3>2. \A k \in 0 .. Len(chosen') : \A tag \in DOMAIN Eff(chosen', k).results :
             /\ \E i \in 1 .. k : chosen'[i].tag = tag
             /\ tag \in DOMAIN effect'.results /\ effect'.results[tag] = Eff(chosen', k).results[tag]
      BY <2>2, <2>7, ZenonT(60)
    <3>3. \A tag \in DOMAIN effect'.results :
             OpOf(tag).type # "Get" => effect'.results[tag] = Reply(OK, Nil)
      BY <2>8, Zenon
    <3>4. Effects'
      BY <2>9, <3>1, <3>2, <3>3, Zenon DEF Effects
    <3> QED
      BY <2>3, <2>6, <3>4, Zenon DEF n
<1> USE DEF LInv
<1>1. UNCHANGED <<serverVars, calls, clerkVars>>
  BY Zenon DEF RaftStep
<1>2. /\ \A s \in Servers : term[s] \in Int /\ term'[s] \in Int /\ Len(log[s]) \in Nat
      /\ \A t \in Threads : opNo[t] \in Int
  BY KVAssumption DEF IInv, Inv, RaftTypeOK, ClerkTypeOK
<1>3. UNCHANGED <<lastApplied, db, saved, notifying, opNo, busy>>
  BY <1>1, Zenon DEF serverVars, clerkVars
<1>4. Grows => Clerks'
  BY <1>1, <1>3, CallsStep, Zenon
<1>5. ASSUME NEW s \in Servers, Elect(s) PROVE LInv'
  <2>1. /\ RaftOK' /\ UNCHANGED <<log, chosen, effect>>
        /\ \A r \in Servers : /\ term[r] <= term'[r]
                              /\ leading'[r] /\ term'[r] = term[r] => leading[r]
    BY <1>3, <1>5, <1>ElectRaft, Zenon
  <2>2. Grows
    BY <1>2, <1>3, <2>1 DEF Grows
  <2>3. Ordered' /\ Effects' /\ Databases' /\ Notices'
    BY <1>3, <2>1, Frames, Zenon
  <2> QED
    BY <1>4, <2>1, <2>2, <2>3, Zenon
<1>6. ASSUME NEW s \in Servers, NEW r \in Servers, Replicate(s, r) PROVE LInv'
  <2>1. /\ RaftOK' /\ UNCHANGED <<chosen, effect>> /\ ~leading'[r]
        /\ \A q \in Servers : /\ term[q] <= term'[q]
                              /\ q # r => UNCHANGED <<leading[q], term[q], log[q]>>
        /\ log'[r] = log[s]
    BY <1>3, <1>6, <1>ReplicateRaft, Zenon
  <2>2. Grows
    BY <1>2, <1>3, <2>1 DEF Grows
  <2>3. Effects' /\ Databases' /\ Notices'
    BY <1>3, <2>1, Frames, Zenon
  <2>4. \A q \in Servers : log'[q] = log[q] \/ log'[q] = log[s]
    BY <2>1, Zenon
  <2>5. Ordered'
    BY <1>3, <2>1, <2>4, Zenon DEF Ordered
  <2> QED
    BY <1>4, <2>1, <2>2, <2>3, <2>5, Zenon
<1>7. ASSUME NEW s \in Servers, Commit(s) PROVE LInv'
  <2>1. /\ RaftOK' /\ UNCHANGED <<term, leading, log>> /\ Agree(s, Len(chosen))'
        /\ Len(chosen') <= Len(log[s])
    BY <1>3, <1>7, <1>CommitRaft, Zenon
  <2>2. PICK e \in Entries : chosen' = Append(chosen, e) /\ effect' = Took(effect, e.tag)
    BY <1>3, <1>7, <1>CommitRaft, Zenon
  <2>3. /\ Effects'
        /\ \A k \in 0 .. Len(chosen) : Eff(chosen', k) = Eff(chosen, k)
        /\ \A tag \in DOMAIN effect.results :
              tag \in DOMAIN effect'.results /\ effect'.results[tag] = effect.results[tag]
    BY <1>3, <2>2, <1>CommitEffects, Zenon
  <2>4. Grows
    BY <1>2, <1>3, <2>1, <2>3 DEF Grows
  <2>5. Ordered'
    <3>1. \A k \in 1 .. Len(chosen') : chosen'[k] = log[s][k] /\ k \in 1 .. Len(log[s])
      BY <1>2, <2>1 DEF Agree, IInv, Inv, RaftTypeOK
    <3>2. InOrder(log[s], opNo)
      BY Zenon DEF Ordered
    <3>3. InOrder(chosen', opNo)
      <4>1. \A j \in 1 .. Len(chosen') : \A i \in 1 .. j : i \in 1 .. Len(chosen')
        BY DEF IInv, Inv, RaftTypeOK
      <4> QED
        BY <3>1, <3>2, <4>1, Zenon DEF InOrder
    <3> QED
      BY <1>3, <2>1, <3>3, Zenon DEF Ordered
  <2>6. Databases'
    <3>1. \A q \in Servers : /\ lastApplied[q] \in 0 .. Len(chosen)
                             /\ saved[q].index \in 0 .. Len(chosen)
      BY Zenon DEF IInv, Inv, ServerTypeOK
    <3> QED
      BY <1>3, <2>3, <3>1, Zenon DEF Databases
  <2>7. Notices'
    <3>1. ASSUME NEW q \in Servers, notifying[q] # Nil
          PROVE  chosen'[lastApplied[q]] = chosen[lastApplied[q]]
      <4>1. lastApplied[q] \in 0 .. Len(chosen) /\ chosen \in Seq(Entries)
        BY Zenon DEF IInv, Inv, ServerTypeOK, RaftTypeOK
      <4>2. lastApplied[q] > 0
        BY <3>1, Zenon DEF IInv, Channels
      <4> QED
        BY <2>2, <4>1, <4>2
    <3> QED
      BY <1>3, <2>3, <3>1 DEF Notices
  <2> QED
    BY <1>4, <2>1, <2>3, <2>4, <2>5, <2>6, <2>7, Zenon
<1> QED
  BY <1>5, <1>6, <1>7, Zenon DEF RaftStep

\* The result of a write has no value to leave out.
LEMMA WithoutValue ==
    ASSUME Effects, NEW tag, NEW reply, Good(tag, reply)
    PROVE  Good(tag, IF OpOf(tag).type = "Get" THEN reply ELSE Reply(reply.err, Nil))
<1>1. CASE OpOf(tag).type = "Get"
  BY <1>1, Zenon
<1>2. CASE OpOf(tag).type # "Get" /\ reply.err \in {ErrWrongLeader, ErrTimeOut}
  BY <1>2, Zenon DEF Good, Reply
<1>3. CASE OpOf(tag).type # "Get" /\ tag \in DOMAIN effect.results /\ reply = effect.results[tag]
  BY <1>3 DEF Good, Reply, Effects
<1> QED
  BY <1>1, <1>2, <1>3, Zenon DEF Good

\* A handler that has appended its command knows where.
LEMMA StartedCall ==
    ASSUME NEW id \in CallIds, CallOK(id), calls[id].phase = "sent", calls'[id].phase = "started",
           calls[id].to \in Servers, term'[calls[id].to] \in Int,
           calls'[id].to = calls[id].to, calls'[id].tag = calls[id].tag,
           calls'[id].seq = calls[id].seq, calls'[id].live = calls[id].live,
           calls'[id].startTerm = term'[calls[id].to],
           calls'[id].index = Len(log'[calls[id].to]), Len(log'[calls[id].to]) \in Int,
           log'[calls[id].to][Len(log'[calls[id].to])].tag = calls[id].tag,
           UNCHANGED <<opNo, busy>>
    PROVE  CallOK(id)'
<1>1. Tagged(id)'
  BY Zenon DEF CallOK, Tagged
<1>2. Working(id)'
  BY DEF Working, Current
<1>3. Answered(id)'
  BY Zenon DEF Answered
<1> QED
  BY <1>1, <1>2, <1>3, Zenon DEF CallOK

\* The critical section of Get, Delete or PutAppend.
LEMMA HandleSound ==
    ASSUME IInv, IInv', LInv, NEW id \in CallIds, Handle(id), UNCHANGED clerkVars
    PROVE  LInv'
\* The record that makes a handler answer a call at once is that of the operation the
\* goroutine is busy with.
<1>RecordSeen.
    ASSUME IInv, LInv, NEW s \in Servers, NEW t \in Threads, opNo[t] > 0,
           Seen(db[s], ClientOf[t], opNo[t] - 1)
    PROVE  /\ <<t, opNo[t]>> \in DOMAIN effect.results
           /\ db[s].recordMap[ClientOf[t]].reply = effect.results[<<t, opNo[t]>>]
  <2> USE <1>RecordSeen
  <2> DEFINE k == lastApplied[s]
             m == db[s].recordMap[ClientOf[t]]
             ef == Eff(chosen, k)
  <2>1. k \in 0 .. Len(chosen) /\ opNo[t] \in Int /\ Len(chosen) \in Nat
    BY DEF IInv, Inv, ServerTypeOK, ClerkTypeOK, RaftTypeOK
  <2>2. m # Nil /\ opNo[t] - 1 <= m.seq
    BY Zenon DEF Seen
  <2>3. Recorded(m, ef, t)
    BY Zenon DEF LInv, Databases, Matches
  <2> HIDE DEF k, m, ef
  <2>4. PICK n \in 1 .. Len(Script[t]) : /\ m.seq = n - 1
                                         /\ <<t, n>> \in DOMAIN ef.results
                                         /\ m.reply = ef.results[<<t, n>>]
    BY <2>2, <2>3, Zenon DEF Recorded
  <2>5. /\ \E i \in 1 .. k : chosen[i].tag = <<t, n>>
        /\ <<t, n>> \in DOMAIN effect.results
        /\ effect.results[<<t, n>>] = ef.results[<<t, n>>]
    BY <2>1, <2>4, Zenon DEF LInv, Effects, ef
  <2>6. PICK i \in 1 .. k : chosen[i].tag = <<t, n>>
    BY <2>5, Zenon
  <2>7. i \in 1 .. Len(chosen)
    BY <2>1
  <2>8. n <= opNo[t]
    <3>1. \A h \in 1 .. Len(chosen) : chosen[h].tag[2] <= opNo[chosen[h].tag[1]]
      BY Zenon DEF LInv, Ordered, InOrder
    <3>2. chosen[i].tag[1] = t /\ chosen[i].tag[2] = n
      BY <2>6
    <3> QED
      BY <2>7, <3>1, <3>2, Zenon
  <2>9. n = opNo[t]
    <3>1. n \in Int
      BY KVAssumption
    <3> QED
      BY ONLY <2>1, <2>2, <2>4, <2>8, <3>1
  <2> QED
    BY <2>4, <2>5, <2>9, Zenon DEF m
\* A command appended to a log, the newest of its goroutine, keeps the order.
<1>AppendInOrder.
    ASSUME NEW es \in Seq(Entries), NEW e \in Entries, NEW no, InOrder(es, no),
           no[e.tag[1]] \in Int, e.tag[2] = no[e.tag[1]], e.seq = e.tag[2] - 1
    PROVE  InOrder(Append(es, e), no)
  <2> USE <1>AppendInOrder
  <2> DEFINE n == Len(es)
             new == Append(es, e)
  <2>1. n \in Nat /\ Len(new) = n + 1 /\ new[n + 1] = e /\ \A k \in 1 .. n : new[k] = es[k]
    OBVIOUS
  <2>2. /\ \A k \in 1 .. n : es[k].seq = es[k].tag[2] - 1 /\ es[k].tag[2] <= no[es[k].tag[1]]
        /\ \A j \in 1 .. n : \A i \in 1 .. j :
              es[i].tag[1] = es[j].tag[1] => es[i].tag[2] <= es[j].tag[2]
    BY Zenon DEF InOrder
  <2> HIDE DEF n, new
  <2>3. ASSUME NEW k \in 1 .. n + 1
        PROVE  new[k].seq = new[k].tag[2] - 1 /\ new[k].tag[2] <= no[new[k].tag[1]]
    <3>1. CASE k \in 1 .. n
      BY <2>1, <2>2, <3>1, Zenon
    <3>2. CASE k = n + 1
      BY <2>1, <3>2
    <3> QED
      BY <2>1, <3>1, <3>2
  <2>4. ASSUME NEW j \in 1 .. n + 1, NEW i \in 1 .. j, new[i].tag[1] = new[j].tag[1]
        PROVE  new[i].tag[2] <= new[j].tag[2]
    <3>1. CASE j \in 1 .. n
      <4>1. i \in 1 .. n
        BY <2>1, <3>1
      <4> QED
        BY <2>1, <2>2, <2>4, <3>1, <4>1, Zenon
    <3>2. CASE j = n + 1
      <4>1. i \in 1 .. n + 1
        BY <2>1, <3>2, Zenon
      <4> QED
        BY <2>1, <2>3, <2>4, <3>2, <4>1, Zenon
    <3> QED
      BY <2>1, <3>1, <3>2
  <2> QED
    BY <2>1, <2>3, <2>4, Zenon DEF InOrder, new
\* Logs that only grow, in the same terms with the same leaders, stay as they should be.
<1>AppendRaft.
    ASSUME IInv, RaftOK, UNCHANGED <<term, leading, chosen, lastApplied>>,
           \A r \in Servers : \A k \in 1 .. Len(log[r]) :
              k <= Len(log'[r]) /\ log'[r][k] = log[r][k]
    PROVE  RaftOK'
  <2> USE <1>AppendRaft
  <2>1. ASSUME NEW r \in Servers, NEW k \in Nat, Agree(r, k) PROVE Agree(r, k)'
    <3>1. ASSUME NEW i \in 1 .. k PROVE i <= Len(log'[r]) /\ log'[r][i] = chosen[i]
      <4>1. i \in 1 .. Len(log[r]) /\ log[r][i] = chosen[i]
        <5>1. log[r] \in Seq(Entries)
          BY Zenon DEF IInv, Inv, RaftTypeOK
        <5>2. i <= Len(log[r]) /\ log[r][i] = chosen[i]
          BY <2>1, Zenon DEF Agree
        <5> QED
          BY <5>1, <5>2
      <4> QED
        BY <4>1, Zenon
    <3> QED
      BY <3>1, Zenon DEF Agree
  <2>2. \A r \in Servers : lastApplied[r] \in Nat /\ Len(chosen) \in Nat
    BY DEF IInv, Inv, ServerTypeOK, RaftTypeOK
  <2>3. \A r \in Servers : Newest(r)' <=> Newest(r)
    BY Zenon DEF Newest
  <2>4. \A r \in Servers : leading[r] /\ Newest(r) => Agree(r, Len(chosen))'
    BY <2>1, <2>2, Zenon DEF RaftOK
  <2>5. \A r \in Servers : leading[r] => Agree(r, lastApplied[r])'
    BY <2>1, <2>2, Zenon DEF RaftOK
  <2> QED
    BY <2>3, <2>4, <2>5, Zenon DEF RaftOK
<1> USE DEF LInv
<1> DEFINE c == calls[id]
           t == id[1]
           s == c.to
           client == ClientOf[c.tag[1]]
           last == db[s].recordMap[client].reply
<1>1. c \in SentCalls /\ c.phase = "sent" /\ calls \in [CallIds -> Calls]
  BY Phases, Zenon DEF Handle, IInv, Inv, ClerkTypeOK
<1>2. s \in Servers /\ c.tag \in Tags /\ t \in Threads /\ opNo[t] \in Nat
  BY <1>1, Zenon DEF SentCalls, IInv, Inv, ClerkTypeOK, CallIds
<1>3. UNCHANGED <<term, leading, chosen, effect, serverVars, clerkVars>>
  BY Zenon DEF Handle
<1>4. UNCHANGED <<lastApplied, db, saved, notifying, opNo, busy>>
  BY <1>3, Zenon DEF serverVars, clerkVars
<1>5. /\ c.live /\ busy[t] /\ c.tag[1] = t /\ c.tag[2] = opNo[t] /\ c.seq = opNo[t] - 1
      /\ CallOK(id)
  BY <1>1, Zenon DEF Clerks, CallOK, Tagged
<1>6. opNo[t] > 0 /\ c.tag = <<t, opNo[t]>>
  <2>1. busy[t] => opNo[t] > 0
    BY <1>2, Zenon DEF IInv, Inv, ClerkTypeOK
  <2>2. c.tag = <<t, opNo[t]>>
    BY <1>2, <1>5 DEF Tags
  <2> QED
    BY <1>5, <2>1, <2>2, Zenon
<1>7. Effects' /\ Databases' /\ Notices'
  BY <1>3, <1>4, Frames, Zenon
<1>8. ASSUME NEW reply, Good(c.tag, reply), Answer(id, reply), UNCHANGED log PROVE LInv'
  <2>1. calls'[id] = Done(c, reply)
    BY <1>1, <1>5, <1>8, Zenon DEF Answer
  <2>2. \A i \in CallIds : i # id => calls'[i] = calls[i]
    BY <1>1, <1>8, Zenon DEF Answer
  <2>3. Grows /\ RaftOK' /\ Ordered'
    BY <1>3, <1>4, <1>8, Frames, Zenon
  <2>4. CallOK(id)'
    BY <1>1, <1>3, <1>4, <1>5, <1>8, <2>1, AnsweredCall, Zenon
  <2>5. IsOpen(id)
    BY <1>1, <1>5, Zenon DEF IsOpen
  <2>6. Clerks'
    BY <1>4, <2>2, <2>3, <2>4, <2>5, CallsStep, Zenon
  <2> QED
    BY <1>7, <2>3, <2>6, Zenon
<1>9. CASE Seen(db[s], client, c.seq)
  <2>1. Good(c.tag, last)
    BY <1>2, <1>5, <1>6, <1>9, <1>RecordSeen, ZenonT(60) DEF Good
  <2>2. Good(c.tag, IF OpOf(c.tag).type = "Get" THEN last ELSE Reply(last.err, Nil))
    BY <2>1, WithoutValue, Zenon
  <2> QED
    BY <1>8, <1>9, <2>2, Zenon DEF Handle
<1>10. CASE ~Seen(db[s], client, c.seq) /\ ~leading[s]
  <2>1. Good(c.tag, Reply(ErrWrongLeader, Nil))
    BY Zenon DEF Good, Reply
  <2> QED
    BY <1>8, <1>10, <2>1, Zenon DEF Handle
<1>11. CASE ~Seen(db[s], client, c.seq) /\ leading[s]
  <2> DEFINE e == [term |-> term[s], tag |-> c.tag, seq |-> c.seq]
             d == [phase |-> "started", to |-> s, tag |-> c.tag, seq |-> c.seq,
                   live |-> c.live, index |-> Len(log[s]) + 1,
                   startTerm |-> term[s], ch |-> Nil, reply |-> Nil]
             n == Len(log[s])
  <2>1. /\ log' = [log EXCEPT ![s] = Append(log[s], e)]
        /\ calls' = [calls EXCEPT ![id] = d]
    BY <1>11, Zenon DEF Handle
  <2>2. /\ e \in Entries /\ n \in Nat /\ log[s] \in Seq(Entries)
        /\ log \in [Servers -> Seq(Entries)] /\ e.tag = c.tag /\ e.seq = c.seq
    <3>1. term[s] \in Nat /\ c.seq \in Nat
      <4>1. term[s] \in 0 .. MaxTerm /\ c.seq \in Nat
        BY <1>1, <1>2, Zenon DEF IInv, Inv, RaftTypeOK, SentCalls
      <4> QED
        BY <4>1, KVAssumption
    <3>2. e \in Entries
      BY <1>2, <3>1, Zenon DEF Entries
    <3>3. log[s] \in Seq(Entries) /\ log \in [Servers -> Seq(Entries)]
      BY <1>2, Zenon DEF IInv, Inv, RaftTypeOK
    <3>4. n \in Nat
      BY <3>3
    <3> QED
      BY <3>2, <3>3, <3>4, Zenon
  <2>3. /\ log'[s] = Append(log[s], e) /\ \A r \in Servers : r # s => log'[r] = log[r]
    BY <1>2, <2>1, <2>2, Zenon
  <2> HIDE DEF e, n
  <2>4. /\ Len(log'[s]) = n + 1 /\ log'[s][n + 1] = e
        /\ \A k \in 1 .. n : log'[s][k] = log[s][k]
    BY <2>2, <2>3 DEF n
  <2>5. \A r \in Servers : \A k \in 1 .. Len(log[r]) :
           k <= Len(log'[r]) /\ log'[r][k] = log[r][k]
    <3>1. \A k \in 1 .. n : k <= Len(log'[s])
      BY <2>2, <2>4
    <3>2. ASSUME NEW r \in Servers, r # s, NEW k \in 1 .. Len(log[r])
          PROVE  k <= Len(log'[r]) /\ log'[r][k] = log[r][k]
      <4>1. log'[r] = log[r]
        BY <2>3, <3>2, Zenon
      <4>2. Len(log[r]) \in Nat
        BY DEF IInv, Inv, RaftTypeOK
      <4> QED
        BY <4>1, <4>2
    <3> QED
      BY <2>4, <3>1, <3>2, Zenon DEF n
  <2>6. Grows
    <3>1. \A r \in Servers : term[r] \in Int
      BY KVAssumption DEF IInv, Inv, RaftTypeOK
    <3>2. \A u \in Threads : opNo[u] \in Int
      BY DEF IInv, Inv, ClerkTypeOK
    <3> QED
      BY <1>3, <1>4, <2>5, <3>1, <3>2 DEF Grows
  <2>7. RaftOK'
    BY <1>3, <1>4, <2>5, <1>AppendRaft, Zenon
  <2>8. Ordered'
    <3>1. InOrder(log[s], opNo) /\ InOrder(chosen, opNo) /\ \A r \in Servers : InOrder(log[r], opNo)
      BY <1>2, Zenon DEF Ordered
    <3>2. InOrder(log'[s], opNo)
      <4>1. e.tag[1] = t /\ e.tag[2] = opNo[t] /\ e.seq = opNo[t] - 1
        BY <1>5, <2>2, Zenon
      <4>2. opNo[t] \in Int
        BY <1>2
      <4>3. opNo[e.tag[1]] \in Int /\ e.tag[2] = opNo[e.tag[1]] /\ e.seq = e.tag[2] - 1
        BY <4>1, <4>2, Zenon
      <4> QED
        BY <2>2, <2>3, <3>1, <4>3, <1>AppendInOrder, Zenon
    <3>3. \A r \in Servers : InOrder(log'[r], opNo)
      BY <2>3, <3>1, <3>2, Zenon
    <3> QED
      BY <1>3, <1>4, <3>1, <3>3, Zenon DEF Ordered
  <2>9. calls'[id] = d /\ \A i \in CallIds : i # id => calls'[i] = calls[i]
    BY <1>1, <2>1, Zenon
  <2>10. CallOK(id)'
    <3>1. /\ d.phase = "started" /\ d.to = s /\ d.tag = c.tag /\ d.seq = c.seq
          /\ d.index = n + 1 /\ d.startTerm = term[s] /\ d.live = c.live
      BY Zenon DEF n
    <3>2. term[s] \in Int /\ n + 1 \in Int
      <4>1. term[s] \in 0 .. MaxTerm
        BY <1>2, Zenon DEF IInv, Inv, RaftTypeOK
      <4> QED
        BY <2>2, <4>1, KVAssumption
    <3> HIDE DEF d
    <3> QED
      BY <1>1, <1>2, <1>3, <1>4, <1>5, <2>2, <2>4, <2>9, <3>1, <3>2, StartedCall, ZenonT(60)
  <2>11. IsOpen(id)
    BY <1>1, <1>5, Zenon DEF IsOpen
  <2>12. Clerks'
    BY <1>4, <2>6, <2>9, <2>10, <2>11, CallsStep, Zenon
  <2> QED
    BY <1>7, <2>7, <2>8, <2>12, Zenon
<1> QED
  BY <1>9, <1>10, <1>11, Zenon

\* A step of handlers only.
LEMMA HandlersSound ==
    ASSUME IInv, IInv', LInv,
           UNCHANGED <<raftVars, lastApplied, db, saved, notifying, opNo, busy>>,
           \A id \in CallIds :
              \/ calls'[id] = calls[id]
              \/ CallOK(id)' /\ (IsOpen(id)' => IsOpen(id))
    PROVE  LInv'
<1>1. UNCHANGED <<term, leading, log, chosen, effect>>
  BY Zenon DEF raftVars
<1>2. RaftOK' /\ Ordered' /\ Effects' /\ Databases' /\ Notices' /\ Grows
  BY <1>1, Frames, Zenon DEF LInv
<1>3. Clerks'
  BY <1>2, CallsStep, Zenon DEF LInv
<1> QED
  BY <1>2, <1>3, Zenon DEF LInv

\* waitApplied makes its channel known.
LEMMA RegisterSound ==
    ASSUME IInv, IInv', LInv, NEW id \in CallIds, Register(id), UNCHANGED clerkVars
    PROVE  LInv'
<1> DEFINE c == calls[id]
           d == [c EXCEPT !.phase = "waiting"]
<1>1. c \in WorkCalls /\ c.ch = Nil /\ calls \in [CallIds -> Calls]
  <2>1. c.phase = "started" /\ calls \in [CallIds -> Calls]
    BY Zenon DEF Register, IInv, Inv, ClerkTypeOK
  <2>2. c \in Calls /\ c.ch = Nil
    BY <2>1, Zenon DEF IInv, Channels
  <2> HIDE DEF c
  <2>3. c \in WorkCalls
    BY <2>1, <2>2, Phases
  <2> QED
    BY <2>1, <2>2, <2>3, Zenon
<1>2. /\ d \in WorkCalls /\ d.phase = "waiting" /\ d.ch = Nil /\ d.to = c.to /\ d.tag = c.tag
      /\ d.seq = c.seq /\ d.live = c.live /\ d.index = c.index /\ d.startTerm = c.startTerm
  BY <1>1, Zenon DEF WorkCalls
<1>3. calls' = [calls EXCEPT ![id] = d]
  BY Zenon DEF Register
<1> HIDE DEF d
<1>4. calls'[id] = d /\ \A i \in CallIds : i # id => calls'[i] = calls[i]
  BY <1>1, <1>3, Zenon
<1>5. UNCHANGED <<raftVars, lastApplied, db, saved, notifying, opNo, busy>>
  BY Zenon DEF Register, clerkVars
<1>6. CallOK(id)'
  BY <1>1, <1>2, <1>4, <1>5, WorkingCall, Zenon DEF LInv, Clerks, raftVars
<1>7. c.phase # "free"
  BY <1>1, Zenon DEF WorkCalls
<1>8. IsOpen(id)' => IsOpen(id)
  BY <1>2, <1>4, <1>7, Zenon DEF IsOpen
<1> QED
  BY <1>4, <1>5, <1>6, <1>8, HandlersSound, Zenon

\* waitApplied has its result: from its channel, when the test succeeds, a good one.
LEMMA DecideSound ==
    ASSUME IInv, IInv', LInv, NEW id \in CallIds, Receive(id) \/ TimeOut(id), UNCHANGED clerkVars
    PROVE  LInv'
<1> DEFINE c == calls[id]
<1>1. c \in WorkCalls /\ c.phase = "waiting" /\ calls \in [CallIds -> Calls]
  BY Phases, Zenon DEF Receive, TimeOut, IInv, Inv, ClerkTypeOK
<1>2. CallOK(id)
  BY Zenon DEF LInv, Clerks
<1>3. PICK reply, rest : /\ reply \in Replies /\ rest \in {Nil, c.ch}
                         /\ Good(c.tag, reply) /\ Decide(id, reply, rest)
  <2>1. Reply(ErrWrongLeader, Nil) \in Replies /\ Reply(ErrTimeOut, Nil) \in Replies
    BY Zenon DEF Reply, Replies, Values
  <2>2. Good(c.tag, Reply(ErrWrongLeader, Nil)) /\ Good(c.tag, Reply(ErrTimeOut, Nil))
    BY Zenon DEF Good, Reply
  <2>3. c.ch # Nil => c.ch \in Replies
    BY <1>1, Zenon DEF WorkCalls
  <2>4. c.ch # Nil /\ leading[c.to] /\ term[c.to] = c.startTerm => Good(c.tag, c.ch)
    BY <1>1, <1>2, Zenon DEF CallOK, Working, Current
  <2> QED
    BY <2>1, <2>2, <2>3, <2>4, Zenon DEF Receive, TimeOut
<1> DEFINE d == [c EXCEPT !.phase = "closing", !.reply = reply, !.ch = rest]
<1>4. /\ d \in WorkCalls /\ d.phase = "closing" /\ d.reply = reply /\ d.to = c.to
      /\ d.tag = c.tag /\ d.seq = c.seq /\ d.live = c.live /\ d.index = c.index
      /\ d.startTerm = c.startTerm
  BY <1>1, <1>3, Zenon DEF WorkCalls
<1>5. calls' = [calls EXCEPT ![id] = d] /\ UNCHANGED <<raftVars, serverVars>>
  BY <1>3, Zenon DEF Decide
<1> HIDE DEF d
<1>6. calls'[id] = d /\ \A i \in CallIds : i # id => calls'[i] = calls[i]
  BY <1>1, <1>5, Zenon
<1>7. UNCHANGED <<raftVars, lastApplied, db, saved, notifying, opNo, busy>>
  BY <1>5, Zenon DEF serverVars, clerkVars
<1>8. CallOK(id)'
  BY <1>1, <1>2, <1>3, <1>4, <1>6, <1>7, WorkingCall, Zenon DEF raftVars
<1>9. IsOpen(id)' => IsOpen(id)
  BY <1>1, <1>4, <1>6, Zenon DEF IsOpen
<1> QED
  BY <1>6, <1>7, <1>8, <1>9, HandlersSound, Zenon

\* The last critical section of waitApplied.
LEMMA CloseSound ==
    ASSUME IInv, IInv', LInv, NEW id \in CallIds, Close(id), UNCHANGED clerkVars
    PROVE  LInv'
<1> DEFINE c == calls[id]
           reply == IF OpOf(c.tag).type = "Get" THEN c.reply ELSE Reply(c.reply.err, Nil)
<1>1. c.phase = "closing" /\ Answer(id, reply) /\ calls \in [CallIds -> Calls]
  BY Zenon DEF Close, IInv, Inv, ClerkTypeOK
<1>2. CallOK(id) /\ Effects
  BY Zenon DEF LInv, Clerks
<1>3. Good(c.tag, c.reply)
  BY <1>1, <1>2, Zenon DEF CallOK, Working
<1>4. Good(c.tag, reply)
  BY <1>2, <1>3, WithoutValue, Zenon
<1> HIDE DEF reply
<1>5. /\ calls'[id] = Free \/ (c.live /\ calls'[id] = Done(c, reply))
      /\ \A i \in CallIds : i # id => calls'[i] = calls[i]
  <2> DEFINE d == IF c.live THEN Done(c, reply) ELSE Free
  <2>1. calls' = [calls EXCEPT ![id] = d]
    BY <1>1, Zenon DEF Answer
  <2> HIDE DEF d
  <2>2. calls'[id] = d /\ \A i \in CallIds : i # id => calls'[i] = calls[i]
    BY <1>1, <2>1, Zenon
  <2> QED
    BY <2>2, Zenon DEF d
<1>6. UNCHANGED <<raftVars, lastApplied, db, saved, notifying, opNo, busy>>
  BY Zenon DEF Close, clerkVars
<1>7. CallOK(id)'
  BY <1>1, <1>2, <1>4, <1>5, <1>6, AnsweredCall, Zenon DEF raftVars
<1>8. IsOpen(id)' => IsOpen(id)
  BY <1>1, <1>5 DEF IsOpen, Free
<1> QED
  BY <1>5, <1>6, <1>7, <1>8, HandlersSound, Zenon
=============================================================================
