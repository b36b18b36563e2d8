--------------------------- MODULE KVLinearProofs ---------------------------
(***************************************************************************)
(* The key/value service with Clerks is linearizable, for any servers,     *)
(* goroutines, scripts and bounds, when every goroutine has a client id of *)
(* its own and no request is handled after its Clerk has given it up: the  *)
(* steps of the applier, of the snapshots and of the Clerks keep LInv, and *)
(* every step maps to one of the promise.                                  *)
(***************************************************************************)
EXTENDS KVLinear, KVRefinement

\* What SMT may take for a step, in seconds.
USE SMTT(60), Z3T(60)

\* The applier recognises a command as executed before exactly when it is: its effect on
\* kvStore, on recordMap and on the reply is that of the promise.
LEMMA ApplyMatches ==
    ASSUME Separate, IInv, Ordered, Effects, NEW d \in Dbs, NEW k \in 0 .. Len(chosen) - 1,
           Matches(d, Eff(chosen, k))
    PROVE  LET e == chosen[k + 1]
               after == Eff(chosen, k + 1)
           IN  /\ Matches(Applied(d, e), after)
               /\ e.tag \in DOMAIN after.results /\ ReplyFor(d, e) = after.results[e.tag]
<1> DEFINE e == chosen[k + 1]
           before == Eff(chosen, k)
           after == Eff(chosen, k + 1)
           t == e.tag[1]
           n == e.tag[2]
           m == d.recordMap[ClientOf[t]]
           L == Len(Script[t])
<1>1. k \in 0 .. Len(chosen) /\ k + 1 \in 1 .. Len(chosen) /\ chosen \in Seq(Entries)
  BY DEF IInv, Inv, RaftTypeOK
<1>2. after = Took(before, e.tag)
  BY <1>1, EffNext, Zenon
<1>3. e \in Entries
  BY <1>1
<1>4. e.tag \in Tags /\ e.seq \in Nat
  BY <1>3, Zenon DEF Entries
<1>5. t \in Threads /\ L \in Nat /\ n \in 1 .. L /\ e.tag = <<t, n>>
  <2>1. t \in Threads /\ n \in DOMAIN Script[t] /\ e.tag = <<t, n>>
    BY <1>4 DEF Tags
  <2> QED
    BY <2>1, KVAssumption
<1>6. e.seq = n - 1
  BY <1>1, Zenon DEF Ordered, InOrder
<1>7. d.kvStore = before.store /\ \A u \in Threads : Recorded(d.recordMap[ClientOf[u]], before, u)
  BY Zenon DEF Matches
<1>8. /\ DOMAIN after.results = DOMAIN before.results \cup {e.tag}
      /\ \A old \in DOMAIN before.results : after.results[old] = before.results[old]
      /\ e.tag \in DOMAIN before.results => after = before
      /\ e.tag \notin DOMAIN before.results =>
            /\ after.store = Execute(before.store, e.tag)
            /\ after.results[e.tag] = ReplyTo(before.store, e.tag)
  BY <1>2, TookResults
<1>9. ASSUME NEW l \in 1 .. L, <<t, l>> \in DOMAIN before.results PROVE l <= n
  <2>1. PICK i \in 1 .. k : chosen[i].tag = <<t, l>>
    BY <1>1, <1>9, Zenon DEF Effects
  <2>2. i \in 1 .. k + 1
    BY <1>1
  <2> QED
    <3>1. \A j \in 1 .. Len(chosen) : \A h \in 1 .. j :
             chosen[h].tag[1] = chosen[j].tag[1] => chosen[h].tag[2] <= chosen[j].tag[2]
      BY Zenon DEF Ordered, InOrder
    <3>2. chosen[i].tag[1] = e.tag[1] /\ chosen[i].tag[2] = l
      BY <1>5, <2>1
    <3> QED
      BY <1>1, <2>2, <3>1, <3>2, Zenon
<1> HIDE DEF before, after, e, m, L
<1>10. /\ Seen(d, ClientOf[t], e.seq) <=> e.tag \in DOMAIN before.results
       /\ Seen(d, ClientOf[t], e.seq) => m.reply = before.results[e.tag]
  <2>1. Recorded(m, before, t)
    BY <1>5, <1>7, Zenon DEF m
  <2>2. CASE m = Nil /\ \A l \in 1 .. L : <<t, l>> \notin DOMAIN before.results
    BY <1>5, <2>2, Zenon DEF Seen, m
  <2>3. CASE \E l \in 1 .. L :
                /\ m # Nil /\ m.seq = l - 1
                /\ <<t, l>> \in DOMAIN before.results /\ m.reply = before.results[<<t, l>>]
                /\ \A i \in 1 .. L : <<t, i>> \in DOMAIN before.results => i <= l
    <3>1. PICK l \in 1 .. L :
             /\ m # Nil /\ m.seq = l - 1
             /\ <<t, l>> \in DOMAIN before.results /\ m.reply = before.results[<<t, l>>]
             /\ \A i \in 1 .. L : <<t, i>> \in DOMAIN before.results => i <= l
      BY <2>3, Zenon
    <3>2. l \in Int /\ n \in Int /\ l <= n
      BY <1>5, <1>9, <3>1
    <3>3. Seen(d, ClientOf[t], e.seq) <=> n - 1 <= l - 1
      BY <1>6, <3>1, Zenon DEF Seen, m
    <3>4. Seen(d, ClientOf[t], e.seq) <=> n = l
      BY <3>2, <3>3
    <3>5. e.tag \in DOMAIN before.results <=> n = l
      BY <1>5, <3>1, <3>2
    <3> QED
      BY <1>5, <3>1, <3>4, <3>5, Zenon
  <2> QED
    BY <2>1, <2>2, <2>3, Zenon DEF Recorded, L
<1>11. ReplyFor(d, e) = after.results[e.tag] /\ e.tag \in DOMAIN after.results
  <2>1. ReplyFor(d, e) = IF Seen(d, ClientOf[t], e.seq) THEN m.reply ELSE ReplyTo(d.kvStore, e.tag)
    BY Zenon DEF ReplyFor, m
  <2> QED
    BY <1>7, <1>8, <1>10, <2>1, Zenon
<1>12. /\ Applied(d, e).kvStore = after.store
       /\ Applied(d, e).recordMap =
             [d.recordMap EXCEPT ![ClientOf[t]] = [seq |-> e.seq, reply |-> ReplyFor(d, e)]]
  BY <1>7, <1>8, <1>10, Zenon DEF Applied
<1>13. ASSUME NEW u \in Threads PROVE Recorded(Applied(d, e).recordMap[ClientOf[u]], after, u)
  <2> DEFINE r == [seq |-> e.seq, reply |-> ReplyFor(d, e)]
  <2>1. d.recordMap \in [Ids -> Records \cup {Nil}] /\ ClientOf[t] \in Ids /\ ClientOf[u] \in Ids
    BY <1>5, KVAssumption, Zenon DEF Dbs
  <2>2. CASE u # t
    <3>1. ClientOf[u] # ClientOf[t]
      BY <1>5, <2>2, Zenon DEF Separate
    <3>2. Applied(d, e).recordMap[ClientOf[u]] = d.recordMap[ClientOf[u]]
      BY <1>12, <2>1, <3>1, Zenon
    <3>3. \A l : /\ <<u, l>> \in DOMAIN after.results <=> <<u, l>> \in DOMAIN before.results
                 /\ <<u, l>> \in DOMAIN before.results =>
                       after.results[<<u, l>>] = before.results[<<u, l>>]
      BY <1>5, <1>8, <2>2
    <3>4. Recorded(d.recordMap[ClientOf[u]], before, u)
      BY <1>7, Zenon
    <3> QED
      BY <3>2, <3>3, <3>4, Zenon DEF Recorded
  <2>3. CASE u = t
    <3>1. Applied(d, e).recordMap[ClientOf[t]] = r
      BY <1>12, <2>1, Zenon
    <3>2. r # Nil
      <4>1. r \in Records
        BY <1>3, <1>4, AppliedType, Zenon DEF Records
      <4> QED
        BY <4>1, NilIsNoRecord, Zenon
    <3>3. r.seq = n - 1 /\ r.reply = after.results[<<t, n>>]
      BY <1>5, <1>6, <1>11, Zenon
    <3>4. \A l \in 1 .. L : <<t, l>> \in DOMAIN after.results => l <= n
      BY <1>5, <1>8, <1>9
    <3> HIDE DEF r
    <3> QED
      BY <1>5, <1>11, <2>3, <3>1, <3>2, <3>3, <3>4, Zenon DEF Recorded, L
  <2> QED
    BY <2>2, <2>3, Zenon
<1> QED
  BY <1>11, <1>12, <1>13, Zenon DEF Matches, e, after

\* A reply sent for an index is good for whoever waits there, if the test of waitApplied
\* succeeds.
LEMMA NotifyCalls ==
    ASSUME IInv, IInv', LInv, NEW s \in Servers, NEW k \in Indexes, NEW reply \in Replies,
           Notify(s, k, reply), UNCHANGED <<term, leading, log, effect, opNo, busy>>,
           leading[s] => /\ log[s][k] = chosen[k] /\ chosen[k].tag \in DOMAIN effect.results
                         /\ reply = effect.results[chosen[k].tag]
    PROVE  Clerks'
<1>1. ASSUME NEW i \in CallIds, calls'[i] # calls[i]
      PROVE  CallOK(i)' /\ (IsOpen(i)' => IsOpen(i))
  <2> DEFINE c == calls[i]
             d == [c EXCEPT !.ch = reply]
  <2>1. /\ i = notifyChans[s][k] /\ c \in WorkCalls /\ c.phase # "started"
        /\ calls'[i] = d
    BY <1>1, NotifyType
  <2>2. c.to = s /\ c.index = k
    BY <2>1, NilIsNoCall DEF IInv, Channels
  <2>3. /\ d \in WorkCalls /\ d.ch = reply /\ d.phase = c.phase /\ d.to = c.to
        /\ d.tag = c.tag /\ d.seq = c.seq /\ d.live = c.live /\ d.index = c.index
        /\ d.startTerm = c.startTerm /\ d.reply = c.reply
    BY <2>1, Notified
  <2>4. CallOK(i) /\ c.phase \in {"started", "waiting", "closing"}
    BY <2>1, Zenon DEF LInv, Clerks, WorkCalls
  <2> HIDE DEF d
  <2>5. Current(c) => Good(c.tag, reply)
    <3>1. Current(c) => log[s][k].tag = c.tag /\ leading[s]
      BY <2>2, <2>4, Zenon DEF CallOK, Working, Current
    <3> QED
      BY <3>1, Zenon DEF Good
  <2>6. c.phase = "closing" => Good(c.tag, c.reply)
    BY <2>4, Zenon DEF CallOK, Working
  <2>7. CallOK(i)'
    BY <2>1, <2>3, <2>4, <2>5, <2>6, WorkingCall, Zenon
  <2> QED
    BY <2>1, <2>3, <2>4, <2>7, Zenon DEF IsOpen
<1>2. Grows
  BY Frames, Zenon DEF LInv
<1> QED
  BY <1>1, <1>2, CallsStep, Zenon DEF LInv

\* The applier applies a command.
LEMMA ApplyCommandSound ==
    ASSUME Separate, IInv, IInv', LInv, NEW s \in Servers, ApplyCommand(s), UNCHANGED clerkVars
    PROVE  LInv'
<1> DEFINE k == lastApplied[s] + 1
           e == chosen[k]
           reply == ReplyFor(db[s], e)
<1>1. /\ lastApplied[s] \in 0 .. Len(chosen) - 1 /\ k \in Indexes /\ k \in 1 .. Len(chosen)
      /\ db[s] \in Dbs /\ e \in Entries /\ k \in Nat
  <2>1. /\ lastApplied[s] \in 0 .. Len(chosen) /\ db[s] \in Dbs
        /\ chosen \in Seq(Entries) /\ Len(chosen) <= MaxLog
    BY Zenon DEF IInv, Inv, ServerTypeOK, RaftTypeOK
  <2>2. k <= Len(chosen)
    BY Zenon DEF ApplyCommand, Knows
  <2> QED
    BY <2>1, <2>2, KVAssumption DEF Indexes
<1>2. /\ Knows(s, k) /\ lastApplied' = [lastApplied EXCEPT ![s] = k]
      /\ db' = [db EXCEPT ![s] = Applied(db[s], e)]
      /\ UNCHANGED <<raftVars, saved, clerkVars>>
      /\ \/ Notify(s, k, reply) /\ UNCHANGED notifying
         \/ notifying' = [notifying EXCEPT ![s] = reply] /\ UNCHANGED calls
  BY Zenon DEF ApplyCommand
<1>3. UNCHANGED <<term, leading, log, chosen, effect, opNo, busy>>
  BY <1>2, Zenon DEF raftVars, clerkVars
<1>4. /\ lastApplied'[s] = k /\ db'[s] = Applied(db[s], e)
      /\ \A r \in Servers : r # s => lastApplied'[r] = lastApplied[r] /\ db'[r] = db[r]
  BY <1>2, Zenon DEF IInv, Inv, ServerTypeOK
<1>5. /\ Matches(Applied(db[s], e), Eff(chosen, k))
      /\ e.tag \in DOMAIN Eff(chosen, k).results /\ reply = Eff(chosen, k).results[e.tag]
  <2>1. Matches(db[s], Eff(chosen, lastApplied[s]))
    BY Zenon DEF LInv, Databases
  <2> QED
    BY <1>1, <2>1, ApplyMatches, Zenon DEF LInv
<1>6. reply \in Replies
  BY <1>1, AppliedType, Zenon
<1>7. e.tag \in DOMAIN effect.results /\ reply = effect.results[e.tag]
  <2>1. k \in 0 .. Len(chosen)
    BY <1>1
  <2> QED
    BY <1>5, <2>1, Zenon DEF LInv, Effects
<1>8. Agree(s, k)
  <2>1. k \in 0 .. Len(chosen)
    BY <1>1
  <2> QED
    BY <1>2, <2>1, HasAgrees, Zenon DEF IInv, Inv, Knows
<1>9. log[s][k] = e
  BY <1>1, <1>8 DEF Agree
<1> HIDE DEF k, e, reply
<1>10. RaftOK'
  <2>1. \A r \in Servers : leading[r] => Agree(r, lastApplied'[r])
    BY <1>4, <1>8, Zenon DEF LInv, RaftOK
  <2> QED
    BY <1>3, <2>1, Zenon DEF LInv, RaftOK, Newest, Agree
<1>11. Databases'
  BY <1>2, <1>3, <1>4, <1>5 DEF LInv, Databases
<1>12. Notices'
  <2>1. ASSUME NEW r \in Servers, notifying'[r] # Nil
        PROVE  LET tag == chosen[lastApplied'[r]].tag
               IN  tag \in DOMAIN effect.results /\ notifying'[r] = effect.results[tag]
    <3>1. CASE r = s
      <4>1. notifying[s] = Nil
        BY Zenon DEF ApplyCommand
      <4>2. notifying'[s] = reply
        BY <1>2, <2>1, <3>1, <4>1, Zenon DEF IInv, Inv, ServerTypeOK
      <4> QED
        BY <1>4, <1>7, <3>1, <4>2, Zenon DEF e
    <3>2. CASE r # s
      <4>1. notifying'[r] = notifying[r]
        BY <1>2, <3>2, Zenon DEF IInv, Inv, ServerTypeOK
      <4> QED
        BY <1>4, <2>1, <3>2, <4>1, Zenon DEF LInv, Notices
    <3> QED
      BY <3>1, <3>2, Zenon
  <2> QED
    BY <1>3, <2>1, Zenon DEF Notices
<1>13. Ordered' /\ Effects' /\ Grows
  BY <1>3, Frames, Zenon DEF LInv
<1>14. Clerks'
  <2>1. CASE Notify(s, k, reply)
    BY <1>1, <1>3, <1>6, <1>7, <1>9, <2>1, NotifyCalls, Zenon DEF e
  <2>2. CASE UNCHANGED calls
    BY <1>3, <1>13, <2>2, CallsStep, Zenon DEF LInv
  <2> QED
    BY <1>2, <2>1, <2>2, Zenon
<1> QED
  BY <1>10, <1>11, <1>12, <1>13, <1>14, Zenon DEF LInv

\* The applier saves its snapshot and notifies.
LEMMA SnapshotSound ==
    ASSUME IInv, IInv', LInv, NEW s \in Servers, Snapshot(s), UNCHANGED clerkVars
    PROVE  LInv'
<1> DEFINE k == commitIndex[s]
<1>1. /\ Notify(s, k, notifying[s]) /\ notifying[s] # Nil
      /\ notifying' = [notifying EXCEPT ![s] = Nil]
      /\ saved' = [saved EXCEPT ![s] = [index |-> k, db |-> db[s]]]
      /\ UNCHANGED <<raftVars, lastApplied, db, clerkVars>>
  BY Zenon DEF Snapshot
<1>2. k = lastApplied[s] /\ k > 0 /\ notifying[s] \in Replies
  BY <1>1 DEF IInv, Inv, Channels, ServerTypeOK
<1>3. k \in 0 .. Len(chosen) /\ k \in Indexes /\ k \in Nat
  <2>1. k \in 0 .. Len(chosen) /\ Len(chosen) <= MaxLog /\ chosen \in Seq(Entries)
    BY Zenon DEF IInv, Inv, ServerTypeOK, RaftTypeOK
  <2> QED
    BY <1>2, <2>1, KVAssumption DEF Indexes
<1>4. UNCHANGED <<term, leading, log, chosen, effect, opNo, busy, lastApplied, db>>
  BY <1>1, Zenon DEF raftVars, clerkVars
<1>5. RaftOK' /\ Ordered' /\ Effects'
  BY <1>4, Frames, Zenon DEF LInv
<1>6. Databases'
  <2>1. /\ saved'[s].index = k /\ saved'[s].db = db[s]
        /\ \A r \in Servers : r # s => saved'[r] = saved[r]
    BY <1>1, Zenon DEF IInv, Inv, ServerTypeOK
  <2> QED
    BY <1>2, <1>4, <2>1, Zenon DEF LInv, Databases
<1>7. \A r \in Servers : notifying'[r] # Nil => notifying'[r] = notifying[r]
  BY <1>1, Zenon DEF IInv, Inv, ServerTypeOK
<1>8. Notices'
  BY <1>4, <1>7, Zenon DEF LInv, Notices
<1>9. chosen[k].tag \in DOMAIN effect.results /\ notifying[s] = effect.results[chosen[k].tag]
  BY <1>1, <1>2, Zenon DEF LInv, Notices
<1>10. leading[s] => log[s][k] = chosen[k]
  <2>1. k \in 1 .. lastApplied[s]
    BY <1>2, <1>3
  <2> QED
    BY <2>1, Zenon DEF LInv, RaftOK, Agree
<1>11. Clerks'
  BY <1>1, <1>2, <1>3, <1>4, <1>9, <1>10, NotifyCalls, Zenon
<1> QED
  BY <1>5, <1>6, <1>8, <1>11, Zenon DEF LInv

\* kv.commitIndex is where Raft is, or, from a restart until something is applied, not
\* ahead of a snapshot that covers all Raft takes as applied.
Positions ==
    \A s \in Servers : /\ commitIndex[s] <= lastApplied[s]
                       /\ commitIndex[s] = lastApplied[s] \/ lastApplied[s] <= saved[s].index

\* A snapshot that is restored is where Raft continues; one that is not has been applied.
LEMMA RestoredIsNewest ==
    ASSUME IInv, Positions, NEW s \in Servers, NEW r \in Servers, ApplySnapshot(s, r)
    PROVE  LET k == saved[r].index
           IN  \/ Install(s, saved[r]) /\ lastApplied' = [lastApplied EXCEPT ![s] = k]
               \/ /\ UNCHANGED <<commitIndex, db, notifyChans, calls, lastApplied>>
                  /\ saved[s].index <= k
<1> DEFINE k == saved[r].index
           m == IF k > lastApplied[s] THEN k ELSE lastApplied[s]
<1>1. /\ k > saved[s].index \/ r = s
      /\ lastApplied' = [lastApplied EXCEPT ![s] = m]
      /\ IF k > commitIndex[s] THEN Install(s, saved[r])
         ELSE UNCHANGED <<commitIndex, db, notifyChans, calls>>
  BY Zenon DEF ApplySnapshot, Restore
<1>2. /\ k \in Int /\ saved[s].index \in Int /\ lastApplied[s] \in Int /\ commitIndex[s] \in Int
      /\ lastApplied \in [Servers -> 0 .. Len(chosen)]
  BY DEF IInv, Inv, ServerTypeOK, RaftTypeOK
<1>3. /\ commitIndex[s] <= lastApplied[s]
      /\ commitIndex[s] = lastApplied[s] \/ lastApplied[s] <= saved[s].index
  BY Zenon DEF Positions
<1>4. k > commitIndex[s] => m = k
  BY <1>1, <1>2, <1>3
<1>5. ~(k > commitIndex[s]) => m = lastApplied[s]
  BY <1>1, <1>2, <1>3
<1>6. saved[s].index <= k
  BY <1>1, <1>2
<1>7. m = lastApplied[s] => lastApplied' = lastApplied
  BY <1>1, <1>2, Zenon
<1> HIDE DEF k, m
<1> QED
  BY <1>1, <1>4, <1>5, <1>6, <1>7, Zenon DEF k

\* All positions are 0 in the beginning.
LEMMA InitOrders == Init => Positions
BY DEF Init, ServerInit, Positions

\* Every step keeps the positions in this order.
LEMMA StepOrders == IInv /\ Positions /\ [Next]_vars => Positions'
<1> SUFFICES ASSUME IInv, Positions, [Next]_vars PROVE Positions'
  BY Zenon
<1>1. ASSUME UNCHANGED <<lastApplied, commitIndex, saved>> PROVE Positions'
  BY <1>1, Zenon DEF Positions
<1>2. \A s \in Servers : /\ lastApplied[s] \in Nat /\ commitIndex[s] \in Nat /\ saved[s].index \in Nat
                         /\ notifying[s] # Nil => commitIndex[s] = lastApplied[s]
  BY DEF IInv, Inv, ServerTypeOK, RaftTypeOK, Channels
<1>3. lastApplied \in [Servers -> Nat] /\ commitIndex \in [Servers -> Nat]
  BY DEF IInv, Inv, ServerTypeOK, RaftTypeOK
<1>4. saved = [q \in Servers |-> saved[q]]
  BY Zenon DEF IInv, Inv, ServerTypeOK
<1>5. ASSUME NEW s \in Servers, ApplyCommand(s) PROVE Positions'
  <2>1. /\ lastApplied' = [lastApplied EXCEPT ![s] = lastApplied[s] + 1]
        /\ commitIndex' = [commitIndex EXCEPT ![s] = lastApplied[s] + 1] /\ UNCHANGED saved
    BY <1>5, Zenon DEF ApplyCommand
  <2> QED
    BY <1>2, <1>3, <2>1 DEF Positions
<1>6. ASSUME NEW s \in Servers, Snapshot(s) PROVE Positions'
  <2>1. UNCHANGED <<lastApplied, commitIndex>> /\ notifying[s] # Nil
    BY <1>6, Zenon DEF Snapshot
  <2>2. \A q \in Servers : q # s => saved'[q] = saved[q]
    BY <1>4, <1>6, Zenon DEF Snapshot
  <2> QED
    BY <1>2, <2>1, <2>2 DEF Positions
<1>7. ASSUME NEW s \in Servers, NEW r \in Servers, ApplySnapshot(s, r) PROVE Positions'
  <2>1. saved'[s] = saved[r] /\ \A q \in Servers : q # s => saved'[q] = saved[q]
    BY <1>4, <1>7, Zenon DEF ApplySnapshot
  <2>2. CASE /\ Install(s, saved[r])
             /\ lastApplied' = [lastApplied EXCEPT ![s] = saved[r].index]
    <3>1. commitIndex' = [commitIndex EXCEPT ![s] = saved[r].index]
      BY <2>2, Zenon DEF Install
    <3> QED
      BY <1>2, <1>3, <2>1, <2>2, <3>1 DEF Positions
  <2>3. CASE UNCHANGED <<commitIndex, lastApplied>> /\ saved[s].index <= saved[r].index
    BY <1>2, <2>1, <2>3 DEF Positions
  <2> QED
    BY <1>7, <2>2, <2>3, RestoredIsNewest, Zenon
<1>8. ASSUME NEW s \in Servers, StartKVServer(s) PROVE Positions'
  <2>1. /\ lastApplied' = [lastApplied EXCEPT ![s] = saved[s].index]
        /\ commitIndex' = [commitIndex EXCEPT ![s] = 0] /\ UNCHANGED saved
    BY <1>8, Zenon DEF StartKVServer
  <2> QED
    BY <1>2, <1>3, <2>1 DEF Positions
<1>9. ASSUME NEW id \in CallIds, Handler(id) PROVE UNCHANGED <<lastApplied, commitIndex, saved>>
  BY <1>9, Zenon DEF Handler, Handle, Register, Receive, TimeOut, Decide, Close, serverVars
<1>10. ASSUME NEW t \in Threads, Invoke(t) \/ Send(t) \/ Accept(t) \/ Fail(t) \/ GiveUp(t)
       PROVE  UNCHANGED <<lastApplied, commitIndex, saved>>
  BY <1>10, Zenon DEF Invoke, Send, Accept, Fail, GiveUp, serverVars
<1>11. CASE UNCHANGED vars \/ RaftStep
  BY <1>1, <1>11, Zenon DEF vars, RaftStep, serverVars
<1>12. ASSUME NEW s \in Servers, Applier(s) PROVE Positions'
  BY <1>5, <1>6, <1>7, <1>12, Zenon DEF Applier
<1> QED
  BY <1>1, <1>8, <1>9, <1>10, <1>11, <1>12, Zenon DEF Next, ServerStep

\* A snapshot arrives on the apply channel; if it is restored, who waits is sent on.
LEMMA ApplySnapshotSound ==
    ASSUME IInv, IInv', LInv, Positions, NEW s \in Servers, NEW r \in Servers,
           ApplySnapshot(s, r), UNCHANGED clerkVars
    PROVE  LInv'
<1> DEFINE k == saved[r].index
           reply == Reply(ErrWrongLeader, Nil)
<1>1. /\ notifying[s] = Nil /\ Knows(s, k)
      /\ saved' = [saved EXCEPT ![s] = saved[r]]
      /\ UNCHANGED <<raftVars, notifying, clerkVars>>
      /\ \/ Install(s, saved[r]) /\ lastApplied' = [lastApplied EXCEPT ![s] = k]
         \/ UNCHANGED <<db, notifyChans, calls, lastApplied>>
  BY RestoredIsNewest, Zenon DEF ApplySnapshot
<1>2. k \in 0 .. Len(chosen) /\ k \in Nat
  BY DEF IInv, Inv, ServerTypeOK, RaftTypeOK
<1>3. UNCHANGED <<term, leading, log, chosen, effect, opNo, busy, notifying>>
  BY <1>1, Zenon DEF raftVars, clerkVars
<1>4. /\ \/ lastApplied'[s] = k /\ db'[s] = saved[r].db
         \/ lastApplied'[s] = lastApplied[s] /\ db'[s] = db[s]
      /\ saved'[s] = saved[r]
      /\ \A q \in Servers : q # s => /\ lastApplied'[q] = lastApplied[q]
                                     /\ db'[q] = db[q] /\ saved'[q] = saved[q]
  BY <1>1, Zenon DEF Install, IInv, Inv, ServerTypeOK
<1>5. Agree(s, k)
  BY <1>1, <1>2, HasAgrees, Zenon DEF IInv, Inv, Knows
<1> HIDE DEF k
<1>6. RaftOK'
  <2>1. \A q \in Servers : leading[q] => Agree(q, lastApplied'[q])
    BY <1>4, <1>5, Zenon DEF LInv, RaftOK
  <2> QED
    BY <1>3, <2>1, Zenon DEF LInv, RaftOK, Newest, Agree
<1>7. Databases'
  BY <1>3, <1>4, Zenon DEF LInv, Databases, k
<1>8. Notices'
  BY <1>1, <1>3, <1>4 DEF LInv, Notices
<1>9. Ordered' /\ Effects' /\ Grows
  BY <1>3, Frames, Zenon DEF LInv
<1>10. ASSUME NEW i \in CallIds, calls'[i] # calls[i]
       PROVE  CallOK(i)' /\ (IsOpen(i)' => IsOpen(i))
  <2> DEFINE c == calls[i]
             d == [c EXCEPT !.ch = reply]
  <2>1. c \in WorkCalls /\ calls'[i] = d
    BY <1>1, <1>10, TurnAwayType, Zenon DEF Install
  <2>2. reply \in Replies /\ Good(c.tag, reply)
    BY Zenon DEF Reply, Replies, Values, Good
  <2>3. /\ d \in WorkCalls /\ d.ch = reply /\ d.phase = c.phase /\ d.to = c.to
        /\ d.tag = c.tag /\ d.seq = c.seq /\ d.live = c.live /\ d.index = c.index
        /\ d.startTerm = c.startTerm /\ d.reply = c.reply
    BY <2>1, <2>2, Notified, Zenon
  <2>4. CallOK(i) /\ c.phase \in {"started", "waiting", "closing"}
    BY <2>1, Zenon DEF LInv, Clerks, WorkCalls
  <2> HIDE DEF d, reply
  <2>5. c.phase = "closing" => Good(c.tag, c.reply)
    BY <2>4, Zenon DEF CallOK, Working
  <2>6. CallOK(i)'
    BY <1>3, <2>1, <2>2, <2>3, <2>4, <2>5, WorkingCall, Zenon
  <2> QED
    BY <2>1, <2>3, <2>4, <2>6, Zenon DEF IsOpen
<1>11. Clerks'
  BY <1>3, <1>9, <1>10, CallsStep, Zenon DEF LInv
<1> QED
  BY <1>6, <1>7, <1>8, <1>9, <1>11, Zenon DEF LInv

\* A call that is over.
LEMMA FreeCall ==
    ASSUME NEW id \in CallIds, calls'[id] = Free
    PROVE  CallOK(id)' /\ ~IsOpen(id)'
<1>1. calls'[id].phase = "free"
  BY DEF Free
<1> QED
  BY <1>1, Zenon DEF CallOK, Tagged, Working, Answered, IsOpen

\* A server starts again with what it has saved, and its calls fail.
LEMMA RestartSound ==
    ASSUME IInv, IInv', LInv, NEW s \in Servers, StartKVServer(s), UNCHANGED clerkVars
    PROVE  LInv'
<1>1. /\ leading' = [leading EXCEPT ![s] = FALSE]
      /\ lastApplied' = [lastApplied EXCEPT ![s] = saved[s].index]
      /\ db' = [db EXCEPT ![s] = saved[s].db]
      /\ notifying' = [notifying EXCEPT ![s] = Nil]
      /\ calls' = [id \in CallIds |->
            IF calls[id].phase = "free" THEN Free
            ELSE IF calls[id].to # s \/ calls[id].phase = "done" THEN calls[id]
            ELSE IF calls[id].live THEN Done(calls[id], Nil) ELSE Free]
      /\ UNCHANGED <<term, log, chosen, effect, saved>>
  BY Zenon DEF StartKVServer
<1>2. UNCHANGED <<opNo, busy>>
  BY Zenon DEF clerkVars
<1>3. /\ ~leading'[s] /\ lastApplied'[s] = saved[s].index /\ db'[s] = saved[s].db
      /\ notifying'[s] = Nil
      /\ \A r \in Servers : r # s => /\ leading'[r] = leading[r] /\ notifying'[r] = notifying[r]
                                     /\ lastApplied'[r] = lastApplied[r] /\ db'[r] = db[r]
  BY <1>1 DEF IInv, Inv, RaftTypeOK, ServerTypeOK
<1>4. \A r \in Servers : leading'[r] => r # s /\ leading[r]
  BY <1>3, Zenon
<1>5. RaftOK'
  <2>1. \A r \in Servers : leading'[r] => Agree(r, lastApplied'[r])
    BY <1>3, <1>4, Zenon DEF LInv, RaftOK
  <2> QED
    <3>1. \A r \in Servers : Newest(r)' <=> Newest(r)
      BY <1>1, Zenon DEF Newest
    <3> QED
      <4>1. \A r \in Servers : leading[r] /\ Newest(r) => Agree(r, Len(chosen))'
        BY <1>1, Zenon DEF LInv, RaftOK, Agree
      <4>2. \A r, q \in Servers : leading[r] /\ leading[q] /\ term[r] = term[q] => r = q
        BY Zenon DEF LInv, RaftOK
      <4>3. \A r \in Servers : leading'[r] => Agree(r, lastApplied[r])'
        BY <1>1, <2>1, Zenon DEF Agree
      <4> QED
        BY <1>1, <1>4, <3>1, <4>1, <4>2, <4>3, Zenon DEF RaftOK
<1>6. Databases'
  BY <1>1, <1>3, Zenon DEF LInv, Databases
<1>7. Notices'
  BY <1>1, <1>3 DEF LInv, Notices
<1>8. Ordered' /\ Effects'
  BY <1>1, <1>2, Frames, Zenon DEF LInv
<1>9. Grows
  <2>1. \A r \in Servers : term[r] \in Int /\ Len(log[r]) \in Nat
    BY KVAssumption DEF IInv, Inv, RaftTypeOK
  <2>2. \A t \in Threads : opNo[t] \in Int
    BY DEF IInv, Inv, ClerkTypeOK
  <2> QED
    BY <1>1, <1>2, <1>4, <2>1, <2>2 DEF Grows
<1>10. ASSUME NEW i \in CallIds, calls'[i] # calls[i]
       PROVE  CallOK(i)' /\ (IsOpen(i)' => IsOpen(i))
  <2> DEFINE c == calls[i]
  <2>1. c \in Calls /\ CallOK(i)
    BY Zenon DEF IInv, Inv, ClerkTypeOK, LInv, Clerks
  <2>2. CASE calls'[i] = Free
    BY <2>2, FreeCall, Zenon
  <2>3. CASE calls'[i] # Free
    <3>1. c.phase \notin {"free", "done"} /\ calls'[i] = IF c.live THEN Done(c, Nil) ELSE Free
      BY <1>1, <1>10, <2>3, Zenon
    <3>2. c.live /\ calls'[i] = Done(c, Nil)
      BY <2>3, <3>1, Zenon
    <3>3. c.phase \in {"sent", "started", "waiting", "closing"}
      BY <2>1, <3>1, Phases, Zenon DEF Calls
    <3>4. CallOK(i)'
      BY <1>1, <1>2, <2>1, <3>2, <3>3, AnsweredCall, Zenon
    <3> QED
      BY <3>2, <3>3, <3>4, Zenon DEF IsOpen
  <2> QED
    BY <2>2, <2>3, Zenon
<1>11. Clerks'
  BY <1>2, <1>9, <1>10, CallsStep, Zenon DEF LInv
<1> QED
  BY <1>5, <1>6, <1>7, <1>8, <1>11, Zenon DEF LInv

\* An operation begins when its goroutine has no call open.
LEMMA InvokeSound ==
    ASSUME IInv, IInv', LInv, NEW t \in Threads, Invoke(t)
    PROVE  LInv'
<1>1. /\ opNo' = [opNo EXCEPT ![t] = @ + 1] /\ busy' = [busy EXCEPT ![t] = TRUE] /\ ~busy[t]
      /\ UNCHANGED <<raftVars, serverVars, calls>>
  BY Zenon DEF Invoke
<1>2. UNCHANGED <<term, leading, log, chosen, effect, lastApplied, db, saved, notifying, calls>>
  BY <1>1, Zenon DEF raftVars, serverVars
<1>3. /\ opNo'[t] = opNo[t] + 1 /\ busy'[t] /\ \A u \in Threads : opNo[u] \in Nat
      /\ \A u \in Threads : u # t => UNCHANGED <<opNo[u], busy[u]>>
  BY <1>1, Zenon DEF IInv, Inv, ClerkTypeOK
<1>4. \A u \in Threads : opNo[u] <= opNo'[u] /\ opNo'[u] \in Nat
  BY <1>3
<1>5. RaftOK' /\ Databases' /\ Notices'
  BY <1>2, Frames, Zenon DEF LInv
<1>6. Grows
  <2>1. \A r \in Servers : term[r] \in Int /\ Len(log[r]) \in Nat
    BY KVAssumption DEF IInv, Inv, RaftTypeOK
  <2> QED
    BY <1>2, <1>4, <2>1 DEF Grows
<1>7. Ordered'
  <2>1. ASSUME NEW es \in Seq(Entries), InOrder(es, opNo) PROVE InOrder(es, opNo')
    <3>1. ASSUME NEW k \in 1 .. Len(es) PROVE es[k].tag[2] <= opNo'[es[k].tag[1]]
      <4>1. es[k] \in Entries
        OBVIOUS
      <4>2. es[k].tag[1] \in Threads /\ es[k].tag[2] \in Nat
        BY <4>1, Zenon DEF Entries, Tags
      <4>3. es[k].tag[2] <= opNo[es[k].tag[1]]
        BY <2>1, Zenon DEF InOrder
      <4> QED
        BY <1>3, <1>4, <4>2, <4>3
    <3> QED
      BY <2>1, <3>1, Zenon DEF InOrder
  <2>2. chosen \in Seq(Entries) /\ \A s \in Servers : log[s] \in Seq(Entries)
    BY Zenon DEF IInv, Inv, RaftTypeOK
  <2> QED
    BY <1>2, <2>1, <2>2, Zenon DEF LInv, Ordered
<1>8. Effects'
  <2>1. ASSUME NEW u \in Threads, NEW n \in 1 .. opNo'[u], n < opNo'[u] \/ ~busy'[u]
        PROVE  <<u, n>> \in DOMAIN effect.results
    <3>1. CASE u = t
      <4>1. n \in 1 .. opNo[t]
        BY <1>3, <2>1, <3>1
      <4> QED
        BY <1>1, <3>1, <4>1, Zenon DEF LInv, Effects
    <3>2. CASE u # t
      BY <1>3, <2>1, <3>2, Zenon DEF LInv, Effects
    <3> QED
      BY <3>1, <3>2, Zenon
  <2> QED
    BY <1>2, <2>1 DEF LInv, Effects
<1>9. Clerks'
  <2>1. ASSUME NEW i \in CallIds PROVE CallOK(i)'
    <3>1. i[1] \in Threads /\ CallOK(i)
      BY Zenon DEF CallIds, LInv, Clerks
    <3>2. i[1] = t => calls[i].phase = "free" \/ ~calls[i].live
      BY <1>1, <3>1, Zenon DEF CallOK, Tagged
    <3> QED
      BY <1>2, <1>3, <1>6, <3>1, <3>2, SameCall, Zenon
  <2>2. OneOpen'
    BY <1>2, Zenon DEF LInv, Clerks, OneOpen, IsOpen
  <2> QED
    BY <2>1, <2>2, Zenon DEF Clerks
<1> QED
  BY <1>5, <1>7, <1>8, <1>9, Zenon DEF LInv

\* A Clerk calls a server when it has no other call open.
LEMMA SendSound ==
    ASSUME IInv, IInv', LInv, NEW t \in Threads, Send(t)
    PROVE  LInv'
<1>1. UNCHANGED <<raftVars, serverVars, clerkVars>> /\ busy[t] /\ Open(t) = {}
  BY Zenon DEF Send
<1>2. UNCHANGED <<term, leading, log, chosen, effect, lastApplied, db, saved, notifying, opNo, busy>>
  BY <1>1, Zenon DEF raftVars, serverVars, clerkVars
<1>3. PICK id \in CallsOf(t) :
         calls' = [calls EXCEPT ![id] = Sent(currLeader[t], <<t, opNo[t]>>, opNo[t] - 1)]
  BY Zenon DEF Send
<1>4. id \in CallIds /\ id[1] = t /\ opNo[t] \in Int /\ calls \in [CallIds -> Calls]
  BY <1>3 DEF CallsOf, IInv, Inv, ClerkTypeOK
<1>5. /\ calls'[id].phase = "sent" /\ calls'[id].live /\ calls'[id].tag = <<t, opNo[t]>>
      /\ calls'[id].seq = opNo[t] - 1
  BY <1>3, <1>4, Zenon DEF Sent
<1>6. \A i \in CallIds : i # id => calls'[i] = calls[i]
  BY <1>3, <1>4, Zenon
<1>7. RaftOK' /\ Ordered' /\ Effects' /\ Databases' /\ Notices' /\ Grows
  BY <1>2, Frames, Zenon DEF LInv
<1>8. CallOK(id)'
  <2>1. Tagged(id)'
    BY <1>1, <1>2, <1>4, <1>5 DEF Tagged
  <2> QED
    BY <1>5, <2>1, Zenon DEF CallOK, Working, Answered
<1>9. \A i \in CallIds : i # id => CallOK(i)'
  BY <1>2, <1>6, <1>7, SameCall, Zenon DEF LInv, Clerks
<1>10. OneOpen'
  <2>1. \A i \in CallIds : i[1] = t => ~IsOpen(i)
    BY <1>1, Zenon DEF Open, CallsOf, IsOpen
  <2>2. \A i \in CallIds : i # id => (IsOpen(i)' => IsOpen(i))
    BY <1>6, Zenon DEF IsOpen
  <2> QED
    BY <1>4, <2>1, <2>2, Zenon DEF LInv, Clerks, OneOpen
<1> QED
  BY <1>7, <1>8, <1>9, <1>10, Zenon DEF LInv, Clerks

\* A reply with which a Clerk returns is the result of its operation.
LEMMA AcceptedIsResult ==
    ASSUME IInv, LInv, NEW t \in Threads, NEW id \in Open(t), calls[id].phase = "done",
           calls[id].reply # Nil, calls[id].reply.err \in {OK, ErrNoKey}
    PROVE  /\ busy[t] /\ <<t, opNo[t]>> \in DOMAIN effect.results
           /\ calls[id].reply = effect.results[<<t, opNo[t]>>]
<1> DEFINE c == calls[id]
<1>1. id \in CallIds /\ id[1] = t /\ c.live /\ c \in Calls
  BY Zenon DEF Open, CallsOf, IInv, Inv, ClerkTypeOK
<1>2. c.tag \in Tags
  BY <1>1, CallFields, Zenon
<1>3. CallOK(id)
  BY <1>1, Zenon DEF LInv, Clerks
<1>4. c.tag[1] = t /\ c.tag[2] = opNo[t] /\ busy[t]
  BY <1>1, <1>3, Zenon DEF CallOK, Tagged
<1>5. c.tag = <<t, opNo[t]>>
  BY <1>2, <1>4 DEF Tags
<1>6. Good(c.tag, c.reply)
  BY <1>3, Zenon DEF CallOK, Answered
<1> QED
  BY <1>4, <1>5, <1>6, Zenon DEF Good, OK, ErrNoKey, ErrWrongLeader, ErrTimeOut

\* A Clerk hears from a server: it goes on to the next one, or returns.
LEMMA AcceptSound ==
    ASSUME IInv, IInv', LInv, NEW t \in Threads, Accept(t)
    PROVE  LInv'
<1>1. PICK id \in Open(t) :
         /\ calls[id].phase = "done" /\ calls[id].reply # Nil
         /\ calls' = [calls EXCEPT ![id] = Free]
         /\ \/ UNCHANGED <<opNo, busy>>
            \/ /\ calls[id].reply.err \in {OK, ErrNoKey}
               /\ busy' = [busy EXCEPT ![t] = FALSE] /\ UNCHANGED opNo
  BY Zenon DEF Accept
<1>2. UNCHANGED <<term, leading, log, chosen, effect, lastApplied, db, saved, notifying, opNo>>
  BY <1>1, Zenon DEF Accept, raftVars, serverVars
<1>3. id \in CallIds /\ id[1] = t /\ calls \in [CallIds -> Calls] /\ IsOpen(id)
  BY <1>1, Zenon DEF Open, CallsOf, IInv, Inv, ClerkTypeOK, IsOpen
<1>4. calls'[id] = Free /\ \A i \in CallIds : i # id => calls'[i] = calls[i]
  BY <1>1, <1>3, Zenon
<1>5. CallOK(id)' /\ ~IsOpen(id)'
  BY <1>3, <1>4, FreeCall, Zenon
<1>6. RaftOK' /\ Ordered' /\ Databases' /\ Notices' /\ Grows
  BY <1>2, Frames, Zenon DEF LInv
<1>7. CASE UNCHANGED <<opNo, busy>>
  <2>1. Effects'
    BY <1>2, <1>7, Frames, Zenon DEF LInv
  <2>2. Clerks'
    BY <1>4, <1>5, <1>6, <1>7, CallsStep, Zenon DEF LInv
  <2> QED
    BY <1>6, <2>1, <2>2, Zenon DEF LInv
<1>8. CASE calls[id].reply.err \in {OK, ErrNoKey} /\ busy' = [busy EXCEPT ![t] = FALSE]
  <2>1. \A u \in Threads : u # t => busy'[u] = busy[u]
    BY <1>8, Zenon DEF IInv, Inv, ClerkTypeOK
  <2>2. <<t, opNo[t]>> \in DOMAIN effect.results
    BY <1>1, <1>8, AcceptedIsResult, Zenon
  <2>3. Effects'
    <3>1. ASSUME NEW u \in Threads, NEW n \in 1 .. opNo[u], n < opNo[u] \/ ~busy'[u]
          PROVE  <<u, n>> \in DOMAIN effect.results
      <4>1. CASE u = t /\ n = opNo[t]
        BY <2>2, <4>1, Zenon
      <4>2. CASE u # t
        BY <2>1, <3>1, <4>2, Zenon DEF LInv, Effects
      <4>3. CASE n # opNo[u]
        <5>1. n < opNo[u]
          BY <4>3 DEF IInv, Inv, ClerkTypeOK
        <5> QED
          BY <5>1, Zenon DEF LInv, Effects
      <4> QED
        BY <4>1, <4>2, <4>3, Zenon
    <3> QED
      BY <1>2, <3>1 DEF LInv, Effects
  <2>4. ASSUME NEW i \in CallIds, i # id PROVE CallOK(i)'
    <3>1. i[1] \in Threads /\ CallOK(i) /\ calls'[i] = calls[i]
      BY <1>4, <2>4, Zenon DEF CallIds, LInv, Clerks
    <3>2. i[1] = t => ~IsOpen(i)
      BY <1>3, <2>4, Zenon DEF LInv, Clerks, OneOpen
    <3>3. calls[i].phase = "free" \/ ~calls[i].live \/ UNCHANGED <<opNo[i[1]], busy[i[1]]>>
      BY <1>2, <2>1, <3>1, <3>2, Zenon DEF IsOpen
    <3> QED
      BY <1>6, <3>1, <3>3, SameCall, Zenon
  <2>5. OneOpen'
    <3>1. \A i \in CallIds : IsOpen(i)' => IsOpen(i)
      BY <1>4, <1>5, Zenon DEF IsOpen
    <3> QED
      BY <3>1, Zenon DEF LInv, Clerks, OneOpen
  <2> QED
    BY <1>5, <1>6, <2>3, <2>4, <2>5, Zenon DEF LInv, Clerks
<1> QED
  BY <1>1, <1>7, <1>8, Zenon

\* A call fails: the handler has not begun, is done, or goes on for nobody.
LEMMA FailSound ==
    ASSUME Separate, IInv, IInv', LInv, NEW t \in Threads, Fail(t) \/ GiveUp(t)
    PROVE  LInv'
<1>1. UNCHANGED <<raftVars, serverVars, opNo, busy>>
  BY Zenon DEF Fail, GiveUp
<1>2. UNCHANGED <<raftVars, lastApplied, db, saved, notifying, opNo, busy>>
  BY <1>1, Zenon DEF serverVars
<1>3. calls \in [CallIds -> Calls]
  BY Zenon DEF IInv, Inv, ClerkTypeOK
<1>4. CASE Fail(t)
  <2>1. PICK id \in CallIds : calls' = [calls EXCEPT ![id] = Free]
    BY <1>4, Zenon DEF Fail, Open, CallsOf
  <2>2. calls'[id] = Free /\ \A i \in CallIds : i # id => calls'[i] = calls[i]
    BY <1>3, <2>1, Zenon
  <2>3. CallOK(id)' /\ ~IsOpen(id)'
    BY <2>2, FreeCall, Zenon
  <2> QED
    BY <1>2, <2>2, <2>3, HandlersSound, Zenon
<1>5. CASE GiveUp(t)
  <2>1. PICK id \in CallIds : /\ calls[id].phase \in {"started", "waiting", "closing"}
                              /\ calls' = [calls EXCEPT ![id].live = FALSE]
    BY <1>5, Zenon DEF GiveUp, Open, CallsOf, Separate
  <2> DEFINE c == calls[id]
             d == [c EXCEPT !.live = FALSE]
  <2>2. c \in WorkCalls /\ CallOK(id)
    BY <1>3, <2>1, Phases, Zenon DEF LInv, Clerks
  <2>3. /\ d \in WorkCalls /\ d.ch = c.ch /\ d.phase = c.phase /\ d.to = c.to
        /\ d.tag = c.tag /\ d.seq = c.seq /\ ~d.live /\ d.index = c.index
        /\ d.startTerm = c.startTerm /\ d.reply = c.reply
    BY <2>2, Zenon DEF WorkCalls
  <2>4. calls' = [calls EXCEPT ![id] = d]
    BY <2>1, Zenon
  <2> HIDE DEF d
  <2>5. calls'[id] = d /\ \A i \in CallIds : i # id => calls'[i] = calls[i]
    BY <1>3, <2>4, Zenon
  <2>6. /\ c.phase = "closing" => Good(c.tag, c.reply)
        /\ c.phase = "waiting" /\ c.ch # Nil /\ Current(c) => Good(c.tag, c.ch)
    BY <2>1, <2>2, Zenon DEF CallOK, Working
  <2>7. CallOK(id)'
    BY <1>2, <2>2, <2>3, <2>5, <2>6, WorkingCall, Zenon DEF raftVars
  <2>8. ~IsOpen(id)'
    BY <2>3, <2>5, Zenon DEF IsOpen
  <2> QED
    BY <1>2, <2>5, <2>7, <2>8, HandlersSound, Zenon
<1> QED
  BY <1>4, <1>5, Zenon

-----------------------------------------------------------------------------
(* The theorems.                                                           *)

\* Nothing is committed, recorded or called at first.
LEMMA InitSound == Init => LInv
<1> SUFFICES ASSUME Init PROVE LInv
  BY Zenon
<1> USE DEF Init, ServerInit
<1>1. IInv
  BY InitKeeps, Zenon
<1>2. chosen = << >> /\ Len(chosen) = 0 /\ SubSeq(chosen, 1, 0) = << >>
  OBVIOUS
<1>3. Eff(chosen, 0) = NoEffect
  BY <1>2, ReplayedNone, Zenon DEF Eff
<1>4. NoEffect.store = EmptyDb.kvStore /\ DOMAIN NoEffect.results = {}
  BY DEF NoEffect
<1>5. RaftOK
  BY Zenon DEF RaftOK
<1>6. Ordered
  BY DEF Ordered, InOrder
<1>7. Effects
  <2>1. \A k \in 0 .. Len(chosen) : k = 0
    BY <1>2
  <2>2. \A t \in Threads : 1 .. opNo[t] = {}
    OBVIOUS
  <2> QED
    BY <1>2, <1>3, <1>4, <2>1, <2>2, Zenon DEF Effects
<1>8. Matches(EmptyDb, NoEffect)
  <2>1. \A t \in Threads : EmptyDb.recordMap[ClientOf[t]] = Nil
    BY KVAssumption, Zenon DEF EmptyDb
  <2> QED
    BY <1>4, <2>1, Zenon DEF Matches, Recorded
<1>9. Databases
  BY <1>3, <1>8, Zenon DEF Databases
<1>10. \A id \in CallIds : calls[id].phase = "free"
  BY Zenon DEF Free
<1>11. Clerks
  BY <1>10, Zenon DEF Clerks, CallOK, Tagged, Working, Answered, OneOpen, IsOpen
<1>12. Notices
  BY Zenon DEF Notices
<1> QED
  BY <1>5, <1>6, <1>7, <1>9, <1>11, <1>12, Zenon DEF LInv

\* Every step keeps the invariant.
LEMMA StepSound ==
    ASSUME Separate
    PROVE  IInv /\ Positions /\ LInv /\ [Next]_vars => LInv'
<1> SUFFICES ASSUME IInv, Positions, LInv, [Next]_vars PROVE LInv'
  BY Zenon
<1>1. IInv'
  BY StepKeeps, Zenon
<1>2. CASE UNCHANGED vars
  <2>1. UNCHANGED <<raftVars, lastApplied, db, saved, notifying, opNo, busy, calls>>
    BY <1>2, Zenon DEF vars, serverVars, clerkVars
  <2> QED
    BY <1>1, <2>1, HandlersSound, Zenon
<1>3. ASSUME NEW id \in CallIds, Handler(id), UNCHANGED clerkVars PROVE LInv'
  BY <1>1, <1>3, HandleSound, RegisterSound, DecideSound, CloseSound, Zenon DEF Handler
<1>4. ASSUME NEW s \in Servers, Applier(s), UNCHANGED clerkVars PROVE LInv'
  BY <1>1, <1>4, ApplyCommandSound, SnapshotSound, ApplySnapshotSound, Zenon DEF Applier
<1>5. ASSUME NEW t \in Threads, Invoke(t) \/ Send(t) \/ Accept(t) \/ Fail(t) \/ GiveUp(t)
      PROVE  LInv'
  BY <1>1, <1>5, InvokeSound, SendSound, AcceptSound, FailSound, Zenon
<1> QED
  BY <1>1, <1>2, <1>3, <1>4, <1>5, RaftSound, RestartSound, Zenon DEF Next, ServerStep

\* ExactlyOnce of KVServer, for any servers, Clerks, operations and bounds: the applier's
\* recordMap makes every committed command take effect once on every server, over retries,
\* snapshots and restarts.
THEOREM AppliedExactlyOnce ==
    ASSUME Separate
    PROVE  Spec => []ExactlyOnce
<1>1. LInv => ExactlyOnce
  BY Zenon DEF LInv, Databases, Matches, Eff, ExactlyOnce
<1>2. IInv /\ Positions /\ LInv /\ [Next]_vars => IInv' /\ Positions' /\ LInv'
  BY StepKeeps, StepOrders, StepSound, Zenon
<1>3. Init => IInv /\ Positions /\ LInv
  BY InitKeeps, InitOrders, InitSound, Zenon
<1> QED
  BY <1>1, <1>2, <1>3, PTL DEF Spec

\* A step of the service is a step of LinearKV: an operation is called when a Clerk begins
\* it, takes effect with the first commit of its command, and returns when the Clerk does.
LEMMA StepSimulates ==
    ASSUME Separate
    PROVE  IInv /\ LInv /\ [Next]_vars => [Abstract!Next]_(Abstract!vars)
<1> SUFFICES ASSUME IInv, LInv, [Next]_vars PROVE [Abstract!Next]_(Abstract!vars)
  BY Zenon
<1>1. ASSUME UNCHANGED <<effect, opNo, busy, returned>> PROVE UNCHANGED Abstract!vars
  BY <1>1, Zenon DEF Abstract!vars, Effective
<1>2. ASSUME NEW t \in Threads, Invoke(t) PROVE Abstract!Call(t)
  <2>1. /\ ~busy[t] /\ opNo[t] < Len(Script[t])
        /\ opNo' = [opNo EXCEPT ![t] = @ + 1] /\ busy' = [busy EXCEPT ![t] = TRUE]
        /\ UNCHANGED <<effect, returned>>
    BY <1>2, Zenon DEF Invoke, raftVars
  <2>2. opNo \in [Threads -> Nat] /\ busy \in [Threads -> BOOLEAN]
    BY Zenon DEF IInv, Inv, ClerkTypeOK
  <2>3. <<t, opNo[t] + 1>> \notin DOMAIN effect.results
    <3> SUFFICES ASSUME <<t, opNo[t] + 1>> \in DOMAIN effect.results PROVE FALSE
      BY Zenon
    <3>1. Len(chosen) \in 0 .. Len(chosen) /\ effect = Eff(chosen, Len(chosen))
      BY DEF IInv, Inv, RaftTypeOK, LInv, Effects
    <3>2. PICK i \in 1 .. Len(chosen) : chosen[i].tag = <<t, opNo[t] + 1>>
      BY <3>1 DEF LInv, Effects
    <3>3. opNo[t] + 1 <= opNo[t]
      BY <3>2 DEF LInv, Ordered, InOrder
    <3> QED
      BY <2>2, <3>3
  <2> QED
    BY <2>1, <2>2, <2>3, Zenon DEF Abstract!Call, Effective
<1>3. ASSUME NEW s \in Servers, Commit(s), UNCHANGED <<opNo, busy, returned>>
      PROVE  [Abstract!Next]_(Abstract!vars)
  <2> DEFINE e == log[s][Len(chosen) + 1]
  <2>1. effect' = Took(effect, e.tag) /\ Len(chosen) + 1 \in 1 .. Len(log[s])
    BY <1>3 DEF Commit, IInv, Inv, RaftTypeOK
  <2>2. e \in Entries
    BY <2>1 DEF IInv, Inv, RaftTypeOK
  <2>3. e.tag \in Tags /\ e.tag[2] <= opNo[e.tag[1]]
    BY <2>1, <2>2, Zenon DEF Entries, LInv, Ordered, InOrder
  <2> HIDE DEF e
  <2>4. CASE e.tag \in DOMAIN effect.results
    BY <1>1, <1>3, <2>1, <2>4, TookResults, Zenon
  <2>5. CASE e.tag \notin DOMAIN effect.results
    <3>1. PICK t \in Threads : e.tag = <<t, opNo[t]>> /\ busy[t]
      <4> DEFINE t == e.tag[1]
                 n == e.tag[2]
      <4>1. t \in Threads /\ n \in Nat /\ n \in DOMAIN Script[t] /\ e.tag = <<t, n>>
        BY <2>3 DEF Tags
      <4>2. n \in 1 .. opNo[t]
        BY <2>3, <4>1, KVAssumption DEF IInv, Inv, ClerkTypeOK
      <4>3. \A u \in Threads : \A l \in 1 .. opNo[u] :
               l < opNo[u] \/ ~busy[u] => <<u, l>> \in DOMAIN effect.results
        BY Zenon DEF LInv, Effects
      <4>4. ~(n < opNo[t]) /\ busy[t]
        BY <2>5, <4>1, <4>2, <4>3, Zenon
      <4>5. opNo[t] \in Nat
        BY <4>1, Zenon DEF IInv, Inv, ClerkTypeOK
      <4>6. n = opNo[t]
        BY <4>1, <4>2, <4>4, <4>5
      <4> QED
        BY <4>1, <4>4, <4>6, Zenon
    <3>2. /\ DOMAIN effect'.results = DOMAIN effect.results \cup {<<t, opNo[t]>>}
          /\ \A old \in DOMAIN effect.results : effect'.results[old] = effect.results[old]
          /\ effect'.store = Execute(effect.store, <<t, opNo[t]>>)
          /\ effect'.results[<<t, opNo[t]>>] = ReplyTo(effect.store, <<t, opNo[t]>>)
      BY <2>1, <2>5, <3>1, TookResults
    <3>3. ~Effective(t) /\ Effective(t)'
      BY <1>3, <2>5, <3>1, <3>2, Zenon DEF Effective
    <3>4. \A u \in Threads : u # t => (Effective(u)' <=> Effective(u))
      BY <1>3, <3>2, Zenon DEF Effective
    <3>5. Abstract!TakeEffect(t)
      BY <1>3, <3>1, <3>2, <3>3, <3>4, ZenonT(60) DEF Abstract!TakeEffect, Effective
    <3> QED
      BY <3>5, Zenon DEF Abstract!Next
  <2> QED
    BY <2>4, <2>5, Zenon
<1>4. ASSUME NEW t \in Threads, Accept(t) PROVE [Abstract!Next]_(Abstract!vars)
  <2>1. PICK id \in Open(t) :
           /\ calls[id].phase = "done" /\ calls[id].reply # Nil
           /\ \/ UNCHANGED <<opNo, busy, returned>>
              \/ /\ calls[id].reply.err \in {OK, ErrNoKey}
                 /\ returned' = [returned EXCEPT ![t] = calls[id].reply]
                 /\ busy' = [busy EXCEPT ![t] = FALSE] /\ UNCHANGED opNo
    BY <1>4, Zenon DEF Accept
  <2>2. UNCHANGED effect
    BY <1>4, Zenon DEF Accept, raftVars
  <2>3. CASE UNCHANGED <<opNo, busy, returned>>
    BY <1>1, <2>2, <2>3, Zenon
  <2>4. CASE /\ calls[id].reply.err \in {OK, ErrNoKey}
             /\ returned' = [returned EXCEPT ![t] = calls[id].reply]
             /\ busy' = [busy EXCEPT ![t] = FALSE] /\ UNCHANGED opNo
    <3>1. busy[t] /\ Effective(t) /\ calls[id].reply = effect.results[<<t, opNo[t]>>]
      BY <2>1, <2>4, AcceptedIsResult, Zenon DEF Effective
    <3>2. busy \in [Threads -> BOOLEAN]
      BY Zenon DEF IInv, Inv, ClerkTypeOK
    <3>3. \A u \in Threads : Effective(u)' <=> Effective(u)
      BY <2>2, <2>4, Zenon DEF Effective
    <3>4. Abstract!Return(t)
      BY <2>2, <2>4, <3>1, <3>2, <3>3, Zenon DEF Abstract!Return, Effective
    <3> QED
      BY <3>4, Zenon DEF Abstract!Next
  <2> QED
    BY <2>1, <2>3, <2>4, Zenon
<1>5. ASSUME NEW id \in CallIds, Handler(id), UNCHANGED clerkVars
      PROVE  UNCHANGED <<effect, opNo, busy, returned>>
  BY <1>5, Zenon DEF Handler, Handle, Register, Receive, TimeOut, Decide, Close, raftVars, clerkVars
<1>6. ASSUME NEW s \in Servers, Applier(s) \/ StartKVServer(s), UNCHANGED clerkVars
      PROVE  UNCHANGED <<effect, opNo, busy, returned>>
  BY <1>6, Zenon DEF Applier, ApplyCommand, Snapshot, ApplySnapshot, StartKVServer, raftVars, clerkVars
<1>7. ASSUME NEW s \in Servers, Elect(s) \/ \E r \in Servers : Replicate(s, r), UNCHANGED clerkVars
      PROVE  UNCHANGED <<effect, opNo, busy, returned>>
  BY <1>7, Zenon DEF Elect, Replicate, clerkVars
<1>8. ASSUME NEW t \in Threads, Send(t) \/ Fail(t) \/ GiveUp(t)
      PROVE  UNCHANGED <<effect, opNo, busy, returned>>
  BY <1>8, Zenon DEF Send, Fail, GiveUp, raftVars, clerkVars
<1>9. CASE UNCHANGED vars
  BY <1>1, <1>9, Zenon DEF vars, raftVars, clerkVars
<1>10. CASE RaftStep /\ UNCHANGED clerkVars
  <2>1. UNCHANGED <<opNo, busy, returned>>
    BY <1>10, Zenon DEF clerkVars
  <2> QED
    BY <1>1, <1>3, <1>7, <1>10, <2>1, Zenon DEF RaftStep
<1>11. CASE \E id \in CallIds : Handler(id) /\ UNCHANGED clerkVars
  BY <1>1, <1>5, <1>11, Zenon
<1>12. CASE \E s \in Servers : (Applier(s) \/ StartKVServer(s)) /\ UNCHANGED clerkVars
  BY <1>1, <1>6, <1>12, Zenon
<1>13. CASE \E t \in Threads : Invoke(t) \/ Send(t) \/ Accept(t) \/ Fail(t) \/ GiveUp(t)
  BY <1>1, <1>2, <1>4, <1>8, <1>13, Zenon DEF Abstract!Next
<1> QED
  BY <1>9, <1>10, <1>11, <1>12, <1>13, Zenon DEF Next, ServerStep

\* Linearizable of KVClerk, for any servers, Clerks, operations and bounds: every operation
\* takes effect once, between its call and its return, and returns the result of that
\* moment, over elections, lost messages, retries, snapshots and restarts.
THEOREM ServiceIsLinearizable ==
    ASSUME Separate
    PROVE  Spec => Linearizable
<1>1. Init => Abstract!Init
  BY DEF Init, ServerInit, Abstract!Init, NoEffect, EmptyDb, Effective
<1>2. IInv /\ Positions /\ LInv /\ [Next]_vars => IInv' /\ Positions' /\ LInv'
  BY StepKeeps, StepOrders, StepSound, Zenon
<1>3. Init => IInv /\ Positions /\ LInv
  BY InitKeeps, InitOrders, InitSound, Zenon
<1>4. IInv /\ LInv /\ [Next]_vars => [Abstract!Next]_(Abstract!vars)
  BY StepSimulates, Zenon
<1> QED
  BY <1>1, <1>2, <1>3, <1>4, PTL DEF Spec, Linearizable, Abstract!Spec
=============================================================================
