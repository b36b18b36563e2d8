------------------------------ MODULE KVProofs ------------------------------
(***************************************************************************)
(* Types and notification channels of the key/value servers with Clerks,   *)
(* for any servers, goroutines, scripts and bounds: the applier never      *)
(* waits for a handler.                                                    *)
(***************************************************************************)
EXTENDS KVClerk, TLAPS

\* What SMT may take for a step, in seconds.
USE SMTT(60), Z3T(60)

-----------------------------------------------------------------------------
(* Types.                                                                  *)

Tags    == {tag \in Threads \X Nat : tag[2] \in DOMAIN Script[tag[1]]}
Values  == Seq(Tags) \cup {Nil}
Stores  == [Keys -> Values]
Replies == [err : {OK, ErrNoKey, ErrWrongLeader, ErrTimeOut}, value : Values]
Records == [seq : Nat, reply : Replies]
Dbs     == [kvStore : Stores, recordMap : [Ids -> Records \cup {Nil}]]
Entries == [term : Nat, tag : Tags, seq : Nat]

RaftTypeOK ==
    /\ term \in [Servers -> 0 .. MaxTerm] /\ leading \in [Servers -> BOOLEAN]
    /\ log \in [Servers -> Seq(Entries)] /\ chosen \in Seq(Entries)
    /\ \A s \in Servers : Len(log[s]) <= MaxLog
    /\ Len(chosen) <= MaxLog

ServerTypeOK ==
    /\ lastApplied \in [Servers -> 0 .. Len(chosen)]
    /\ commitIndex \in [Servers -> 0 .. Len(chosen)]
    /\ db \in [Servers -> Dbs]
    /\ notifyChans \in [Servers -> [Indexes -> CallIds \cup {Nil}]]
    /\ notifying \in [Servers -> Replies \cup {Nil}]
    /\ saved \in [Servers -> [index : 0 .. Len(chosen), db : Dbs]]

SentCalls == [phase : {"sent"}, to : Servers, tag : Tags, seq : Nat, live : BOOLEAN]
WorkCalls == [phase : {"started", "waiting", "closing"}, to : Servers, tag : Tags, seq : Nat,
              live : BOOLEAN, index : Indexes, startTerm : 0 .. MaxTerm,
              ch : Replies \cup {Nil}, reply : Replies \cup {Nil}]
DoneCalls == [phase : {"done"}, to : Servers, tag : Tags, seq : Nat, live : {TRUE},
              reply : Replies \cup {Nil}]
Calls     == {Free} \cup SentCalls \cup WorkCalls \cup DoneCalls

ClerkTypeOK ==
    /\ calls \in [CallIds -> Calls]
    /\ opNo \in [Threads -> Nat] /\ busy \in [Threads -> BOOLEAN]
    /\ currLeader \in [Threads -> Servers]
    /\ \A t \in Threads : /\ opNo[t] <= Len(Script[t])
                          /\ busy[t] => opNo[t] > 0

\* The types of all variables.
Inv == RaftTypeOK /\ ServerTypeOK /\ ClerkTypeOK

\* A channel in the map belongs to a handler that waits, or closes, at that index; its
\* handler has put it there empty.
Channels ==
    /\ \A s \in Servers : \A k \in Indexes : notifyChans[s][k] # Nil =>
          LET c == calls[notifyChans[s][k]]
          IN  c \in WorkCalls /\ c.phase # "started" /\ c.to = s /\ c.index = k
    /\ \A id \in CallIds : /\ calls[id].phase = "started" => calls[id].ch = Nil
                           /\ calls[id].phase = "closing" => calls[id].reply \in Replies
    /\ \A s \in Servers : notifying[s] # Nil => /\ commitIndex[s] = lastApplied[s]
                                                /\ lastApplied[s] > 0

-----------------------------------------------------------------------------
(* The state machine.                                                      *)

\* The operation of a tag is one of the four, on one of the keys.
LEMMA OpType ==
    \A tag \in Tags : OpOf(tag) \in [type : {"Get", "Put", "Append", "Delete"}, key : Keys]
<1> SUFFICES ASSUME NEW tag \in Tags
             PROVE  OpOf(tag) \in [type : {"Get", "Put", "Append", "Delete"}, key : Keys]
  BY Zenon
<1>1. tag[1] \in Threads /\ tag[2] \in DOMAIN Script[tag[1]]
  BY Zenon DEF Tags
<1>2. Script[tag[1]] \in Seq([type : {"Get", "Put", "Append", "Delete"}, key : Keys])
  BY <1>1, KVAssumption, Zenon
<1>3. ASSUME NEW S, NEW q \in Seq(S), NEW n \in DOMAIN q PROVE q[n] \in S
  OBVIOUS
<1> QED
  BY <1>1, <1>2, <1>3, Zenon DEF OpOf

\* putHandler, appendHandler and deleteHandler leave a map of values.
LEMMA ExecuteType ==
    ASSUME NEW store \in Stores, NEW tag \in Tags
    PROVE  Execute(store, tag) \in Stores
<1> DEFINE k == OpOf(tag).key
<1>1. k \in Keys /\ OpOf(tag).type \in {"Get", "Put", "Append", "Delete"}
  BY OpType, Zenon
<1>2. <<tag>> \in Seq(Tags)
  OBVIOUS
<1>3. store[k] # Nil => Append(store[k], tag) \in Seq(Tags)
  BY <1>1 DEF Stores, Values
<1> QED
  BY <1>1, <1>2, <1>3, Zenon DEF Execute, Stores, Values

\* The handlers' results are replies, and a write is answered OK.
LEMMA ReplyToType ==
    ASSUME NEW store \in Stores, NEW tag \in Tags
    PROVE  /\ ReplyTo(store, tag) \in Replies
           /\ OpOf(tag).type # "Get" => ReplyTo(store, tag) = Reply(OK, Nil)
BY OpType, Zenon DEF ReplyTo, Reply, Replies, Stores, Values

\* nil is no call and no record.
LEMMA NilIsNoCall == Nil \notin CallIds
BY NilAssumption, KVAssumption DEF CallIds

\* A record in the map is told from none.
LEMMA NilIsNoRecord == Nil \notin Records
<1>1. Tags \subseteq Threads \X Nat
  BY Zenon DEF Tags
<1>2. Seq(Tags) \subseteq Seq(Threads \X Nat)
  BY <1>1
<1>3. Replies \subseteq [err : {OK, ErrNoKey, ErrWrongLeader, ErrTimeOut},
                        value : Seq(Threads \X Nat) \cup {Nil}]
  <2>1. Values \subseteq Seq(Threads \X Nat) \cup {Nil}
    BY <1>2, Zenon DEF Values
  <2> QED
    BY <2>1, Zenon DEF Replies
<1> QED
  BY <1>3, NilAssumption, Zenon DEF Records

\* The applier's work on a command gives a reply, and a new kvStore and recordMap.
LEMMA AppliedType ==
    ASSUME NEW d \in Dbs, NEW e \in Entries
    PROVE  ReplyFor(d, e) \in Replies /\ Applied(d, e) \in Dbs
<1> DEFINE client == ClientOf[e.tag[1]]
<1>1. client \in Ids /\ e.tag \in Tags
  BY KVAssumption, Zenon DEF Entries, Tags
<1>2. Seen(d, client, e.seq) => d.recordMap[client] \in Records
  BY <1>1, Zenon DEF Seen, Dbs
<1>3. ReplyFor(d, e) \in Replies
  BY <1>1, <1>2, ReplyToType, Zenon DEF ReplyFor, Dbs, Records
<1>4. Execute(d.kvStore, e.tag) \in Stores
  BY <1>1, ExecuteType, Zenon DEF Dbs
<1>5. [seq |-> e.seq, reply |-> ReplyFor(d, e)] \in Records
  BY <1>3, Zenon DEF Records, Entries
<1> HIDE DEF client
<1> QED
  BY <1>1, <1>3, <1>4, <1>5, Zenon DEF Applied, Dbs, client

-----------------------------------------------------------------------------
(* Calls.                                                                  *)

\* The phase of a call determines its fields.
LEMMA Phases ==
    ASSUME NEW c \in Calls
    PROVE  /\ c.phase = "free" <=> c = Free
           /\ c.phase = "sent" <=> c \in SentCalls
           /\ c.phase \in {"started", "waiting", "closing"} <=> c \in WorkCalls
           /\ c.phase = "done" <=> c \in DoneCalls
<1>1. Free.phase = "free"
  BY Zenon DEF Free
<1>2. c \in SentCalls => c.phase = "sent"
  BY Zenon DEF SentCalls
<1>3. c \in WorkCalls => c.phase \in {"started", "waiting", "closing"}
  BY Zenon DEF WorkCalls
<1>4. c \in DoneCalls => c.phase = "done"
  BY Zenon DEF DoneCalls
<1>5. c = Free \/ c \in SentCalls \/ c \in WorkCalls \/ c \in DoneCalls
  BY Zenon DEF Calls
<1> QED
  BY <1>1, <1>2, <1>3, <1>4, <1>5, Zenon

\* Answer leaves a call done or free.
LEMMA AnswerType ==
    ASSUME NEW c \in SentCalls \cup WorkCalls, NEW reply \in Replies \cup {Nil}
    PROVE  Done(c, reply) \in DoneCalls /\ (IF c.live THEN Done(c, reply) ELSE Free) \in Calls
BY Zenon DEF SentCalls, WorkCalls, DoneCalls, Calls, Done

\* A step of one call that has no channel in the map, or leaves it there and puts nothing
\* into it, keeps the channels as they should be.
LEMMA OneCall ==
    ASSUME Inv, Channels, ApplierNeverStuck, NEW id \in CallIds, NEW c \in Calls,
           calls' = [calls EXCEPT ![id] = c],
           UNCHANGED <<notifyChans, notifying, lastApplied, commitIndex>>,
           c.phase = "started" => c.ch = Nil, c.phase = "closing" => c.reply \in Replies,
           \/ calls[id].phase \notin {"waiting", "closing"}
           \/ /\ c \in WorkCalls /\ c.phase # "started"
              /\ c.to = calls[id].to /\ c.index = calls[id].index
              /\ c.ch \in {Nil, calls[id].ch}
    PROVE  calls' \in [CallIds -> Calls] /\ Channels' /\ ApplierNeverStuck'
<1>1. calls' \in [CallIds -> Calls] /\ calls'[id] = c
  BY Zenon DEF Inv, ClerkTypeOK
<1>2. \A i \in CallIds : i # id => calls'[i] = calls[i]
  BY Zenon DEF Inv, ClerkTypeOK
<1>3. ASSUME NEW s \in Servers, NEW k \in Indexes, notifyChans[s][k] # Nil
      PROVE  /\ calls'[notifyChans[s][k]] \in WorkCalls
             /\ calls'[notifyChans[s][k]].phase # "started"
             /\ calls'[notifyChans[s][k]].to = s /\ calls'[notifyChans[s][k]].index = k
             /\ calls'[notifyChans[s][k]].ch \in {Nil, calls[notifyChans[s][k]].ch}
  <2> DEFINE i == notifyChans[s][k]
  <2>1. i \in CallIds
    BY <1>3 DEF Inv, ServerTypeOK
  <2>2. /\ calls[i] \in WorkCalls /\ calls[i].phase # "started"
        /\ calls[i].to = s /\ calls[i].index = k
    BY <1>3, ZenonT(60) DEF Channels
  <2>3. CASE i # id
    BY <1>2, <2>1, <2>2, <2>3, Zenon
  <2>4. CASE i = id
    <3>1. calls[id].phase \in {"waiting", "closing"}
      BY <2>2, <2>4, Zenon DEF WorkCalls
    <3> QED
      BY <1>1, <2>2, <2>4, <3>1, Zenon
  <2> QED
    BY <2>3, <2>4, Zenon
<1>4. Channels'
  <2>1. \A i \in CallIds : /\ calls'[i].phase = "started" => calls'[i].ch = Nil
                           /\ calls'[i].phase = "closing" => calls'[i].reply \in Replies
    BY <1>1, <1>2, ZenonT(60) DEF Channels
  <2> QED
    BY <1>3, <2>1 DEF Channels
<1>5. ApplierNeverStuck'
  BY <1>3 DEF ApplierNeverStuck
<1> QED
  BY <1>1, <1>4, <1>5, Zenon

-----------------------------------------------------------------------------
(* Each step keeps types and channels.                                     *)

\* The inductive invariant of ApplierNeverStuck.
IInv == Inv /\ Channels /\ ApplierNeverStuck

\* Notify puts the reply into the channel at an index, if there is one.
LEMMA NotifyType ==
    ASSUME IInv, NEW s \in Servers, NEW k \in Indexes, NEW reply \in Replies,
           Notify(s, k, reply)
    PROVE  /\ calls' \in [CallIds -> Calls]
           /\ \A i \in CallIds :
                 \/ calls'[i] = calls[i]
                 \/ /\ i = notifyChans[s][k]
                    /\ calls[i] \in WorkCalls /\ calls[i].phase # "started" /\ calls[i].ch = Nil
                    /\ calls'[i] = [calls[i] EXCEPT !.ch = reply]
<1> USE DEF IInv, Inv
<1> DEFINE id == notifyChans[s][k]
<1>1. CASE id = Nil
  BY <1>1, Zenon DEF Notify, ClerkTypeOK
<1>2. CASE id # Nil
  <2>1. id \in CallIds /\ calls[id] \in WorkCalls /\ calls[id].phase # "started"
    BY <1>2 DEF ServerTypeOK, Channels
  <2>2. calls[id].ch = Nil /\ calls' = [calls EXCEPT ![id] = [calls[id] EXCEPT !.ch = reply]]
    BY <1>2, Zenon DEF Notify
  <2>3. [calls[id] EXCEPT !.ch = reply] \in Calls
    BY <2>1, Zenon DEF WorkCalls, Calls
  <2> QED
    BY <2>1, <2>2, <2>3, Zenon DEF ClerkTypeOK
<1> QED
  BY <1>1, <1>2, Zenon

\* The fields of a handler that a notification leaves alone.
LEMMA Notified ==
    ASSUME NEW c \in WorkCalls, NEW reply \in Replies
    PROVE  LET d == [c EXCEPT !.ch = reply]
           IN  /\ d \in WorkCalls /\ d.ch = reply /\ d.phase = c.phase /\ d.to = c.to
               /\ d.tag = c.tag /\ d.seq = c.seq /\ d.live = c.live /\ d.index = c.index
               /\ d.startTerm = c.startTerm /\ d.reply = c.reply
BY Zenon DEF WorkCalls

\* TurnAway fills empty channels only, and those leave the map.
LEMMA TurnAwayType ==
    ASSUME IInv, NEW s \in Servers, TurnAway(s)
    PROVE  /\ calls' \in [CallIds -> Calls]
           /\ notifyChans' \in [Servers -> [Indexes -> CallIds \cup {Nil}]]
           /\ \A i \in CallIds :
                 \/ calls'[i] = calls[i]
                 \/ /\ calls[i] \in WorkCalls /\ calls[i].phase # "started"
                    /\ calls'[i] = [calls[i] EXCEPT !.ch = Reply(ErrWrongLeader, Nil)]
           /\ \A r \in Servers : \A k \in Indexes : notifyChans'[r][k] # Nil =>
                 /\ notifyChans'[r][k] = notifyChans[r][k]
                 /\ calls'[notifyChans[r][k]] = calls[notifyChans[r][k]]
<1> USE DEF IInv, Inv
<1> DEFINE reply == Reply(ErrWrongLeader, Nil)
<1>1. reply \in Replies
  BY Zenon DEF Reply, Replies, Values
<1>2. ASSUME NEW k \in Waiting(s)
      PROVE  /\ notifyChans[s][k] \in CallIds /\ calls[notifyChans[s][k]] \in WorkCalls
             /\ calls[notifyChans[s][k]].phase # "started"
             /\ calls[notifyChans[s][k]].to = s /\ calls[notifyChans[s][k]].index = k
  BY DEF Waiting, ServerTypeOK, Channels
<1>3. \A i \in CallIds :
         calls'[i] = IF \E k \in Waiting(s) : notifyChans[s][k] = i
                     THEN [calls[i] EXCEPT !.ch = reply] ELSE calls[i]
  BY Zenon DEF TurnAway, SendWrongLeader
<1>4. ASSUME NEW i \in CallIds
      PROVE  /\ calls'[i] \in Calls
             /\ \/ calls'[i] = calls[i]
                \/ /\ calls[i] \in WorkCalls /\ calls[i].phase # "started"
                   /\ calls'[i] = [calls[i] EXCEPT !.ch = reply]
  <2>1. CASE \E k \in Waiting(s) : notifyChans[s][k] = i
    <3>1. calls[i] \in WorkCalls /\ calls[i].phase # "started"
      BY <1>2, <2>1, Zenon
    <3>2. calls'[i] = [calls[i] EXCEPT !.ch = reply]
      BY <1>3, <2>1, Zenon
    <3>3. calls'[i] \in WorkCalls
      BY <1>1, <3>1, <3>2, Notified
    <3> QED
      BY <3>1, <3>2, <3>3, Zenon DEF Calls
  <2>2. CASE ~\E k \in Waiting(s) : notifyChans[s][k] = i
    BY <1>3, <2>2, Zenon DEF ClerkTypeOK
  <2> QED
    BY <2>1, <2>2, Zenon
<1>5. calls' \in [CallIds -> Calls]
  <2>1. calls' = [i \in CallIds |-> calls'[i]]
    BY Zenon DEF TurnAway, SendWrongLeader
  <2> QED
    BY <1>4, <2>1, Zenon
<1>6. /\ notifyChans' \in [Servers -> [Indexes -> CallIds \cup {Nil}]]
      /\ \A r \in Servers : \A k \in Indexes :
            notifyChans'[r][k] = IF r = s /\ k \in Waiting(s) THEN Nil ELSE notifyChans[r][k]
  BY Zenon DEF TurnAway, ServerTypeOK
<1>7. ASSUME NEW r \in Servers, NEW k \in Indexes, notifyChans'[r][k] # Nil
      PROVE  /\ notifyChans'[r][k] = notifyChans[r][k]
             /\ calls'[notifyChans[r][k]] = calls[notifyChans[r][k]]
  <2>1. ~(r = s /\ k \in Waiting(s)) /\ notifyChans'[r][k] = notifyChans[r][k]
    BY <1>6, <1>7, Zenon
  <2>2. /\ notifyChans[r][k] \in CallIds
        /\ calls[notifyChans[r][k]].to = r /\ calls[notifyChans[r][k]].index = k
    BY <1>7, <2>1 DEF ServerTypeOK, Channels
  <2>3. ~\E j \in Waiting(s) : notifyChans[s][j] = notifyChans[r][k]
    BY <1>2, <2>1, <2>2, ZenonT(60)
  <2> QED
    BY <1>3, <2>1, <2>2, <2>3, Zenon
<1> QED
  BY <1>4, <1>5, <1>6, <1>7, Zenon

-----------------------------------------------------------------------------

\* The initial state has types and channels as they should be.
LEMMA InitKeeps == Init => IInv
<1> SUFFICES ASSUME Init PROVE IInv
  BY Zenon
<1> USE DEF Init, ServerInit
<1>1. RaftTypeOK
  BY KVAssumption DEF RaftTypeOK
<1>2. EmptyDb \in Dbs
  BY Zenon DEF EmptyDb, Dbs, Stores, Values
<1>3. ServerTypeOK
  BY <1>2 DEF ServerTypeOK
<1>4. 0 \in Servers /\ Free \in Calls /\ Free.phase = "free"
  BY KVAssumption DEF Servers, Calls, Free
<1>5. \A t \in Threads : Len(Script[t]) \in Nat
  BY KVAssumption
<1>6. ClerkTypeOK
  BY <1>4, <1>5 DEF ClerkTypeOK
<1>7. Channels
  BY <1>4, Zenon DEF Channels
<1>8. ApplierNeverStuck
  BY Zenon DEF ApplierNeverStuck
<1> QED
  BY <1>1, <1>3, <1>6, <1>7, <1>8, Zenon DEF IInv, Inv

\* Every step keeps types and channels.
LEMMA StepKeeps == IInv /\ [Next]_vars => IInv'
\* A step of Raft, which the service does not see.
<1>RaftKeeps. IInv /\ RaftStep /\ UNCHANGED clerkVars => IInv'
  <2> SUFFICES ASSUME IInv, RaftStep, UNCHANGED clerkVars PROVE IInv'
    BY Zenon
  <2>1. RaftTypeOK' /\ Len(chosen) <= Len(chosen') /\ Len(chosen') \in Nat
    <3>1. ASSUME NEW s \in Servers, Elect(s) PROVE RaftTypeOK' /\ UNCHANGED chosen
      <4>1. PICK voters \in SUBSET Servers, t \in 1 .. MaxTerm :
               /\ term' = [r \in Servers |-> IF r \in voters THEN t ELSE term[r]]
               /\ leading' = [r \in Servers |-> IF r \in voters THEN r = s ELSE leading[r]]
        BY <3>1, Zenon DEF Elect
      <4>2. t \in 0 .. MaxTerm
        OBVIOUS
      <4>3. term' \in [Servers -> 0 .. MaxTerm]
        BY <4>1, <4>2, Zenon DEF IInv, Inv, RaftTypeOK
      <4>4. leading' \in [Servers -> BOOLEAN]
        BY <4>1, Zenon DEF IInv, Inv, RaftTypeOK
      <4> QED
        BY <3>1, <4>3, <4>4, Zenon DEF Elect, IInv, Inv, RaftTypeOK
    <3>2. ASSUME NEW s \in Servers, Commit(s)
          PROVE  RaftTypeOK' /\ Len(chosen') = Len(chosen) + 1
      <4>1. Len(chosen) + 1 \in DOMAIN log[s] /\ Len(chosen) + 1 <= MaxLog
        BY <3>2, KVAssumption DEF Commit, IInv, Inv, RaftTypeOK
      <4>2. log[s][Len(chosen) + 1] \in Entries
        BY <4>1 DEF IInv, Inv, RaftTypeOK
      <4>3. chosen' \in Seq(Entries) /\ Len(chosen') = Len(chosen) + 1
        BY <3>2, <4>2 DEF Commit, IInv, Inv, RaftTypeOK
      <4> QED
        BY <3>2, <4>1, <4>3, Zenon DEF Commit, IInv, Inv, RaftTypeOK
    <3>3. ASSUME NEW s \in Servers, NEW r \in Servers, Replicate(s, r)
          PROVE  RaftTypeOK' /\ UNCHANGED chosen
      BY <3>3, Zenon DEF Replicate, IInv, Inv, RaftTypeOK
    <3>4. Len(chosen) \in Nat
      BY DEF IInv, Inv, RaftTypeOK
    <3> QED
      BY <3>1, <3>2, <3>3, <3>4 DEF RaftStep
  <2>2. 0 .. Len(chosen) \subseteq 0 .. Len(chosen')
    BY <2>1 DEF IInv, Inv, RaftTypeOK
  <2>3. UNCHANGED <<serverVars, calls, clerkVars>>
    BY Zenon DEF RaftStep
  <2>4. ServerTypeOK'
    BY <2>2, <2>3, Zenon DEF serverVars, IInv, Inv, ServerTypeOK
  <2>5. ClerkTypeOK' /\ Channels' /\ ApplierNeverStuck'
    BY <2>3 DEF serverVars, clerkVars, IInv, Inv, ClerkTypeOK, Channels, ApplierNeverStuck
  <2> QED
    BY <2>1, <2>4, <2>5, Zenon DEF IInv, Inv
\* The critical section of Get, Delete or PutAppend.
<1>HandleKeeps.
    ASSUME IInv, NEW id \in CallIds, Handle(id), UNCHANGED clerkVars
    PROVE  IInv'
  <2> USE <1>HandleKeeps
  <2> DEFINE c == calls[id]
             s == c.to
             client == ClientOf[c.tag[1]]
             last == db[s].recordMap[client].reply
  <2> USE DEF IInv, Inv
  <2>1. c \in SentCalls /\ c.phase = "sent"
    BY Phases, Zenon DEF Handle, ClerkTypeOK
  <2>2. s \in Servers /\ c.tag \in Tags /\ client \in Ids /\ c.seq \in Nat
    BY <2>1, KVAssumption, Zenon DEF SentCalls, Tags
  <2>3. UNCHANGED <<term, leading, chosen, effect, serverVars>>
    BY Zenon DEF Handle
  <2>4. ServerTypeOK'
    BY <2>3, Zenon DEF serverVars, ServerTypeOK
  <2>5. ASSUME NEW reply \in Replies, Answer(id, reply), UNCHANGED log PROVE IInv'
    <3>1. (IF c.live THEN Done(c, reply) ELSE Free) \in Calls
      BY <2>1, AnswerType, Zenon
    <3>2. calls' = [calls EXCEPT ![id] = IF c.live THEN Done(c, reply) ELSE Free]
      BY <2>5, Zenon DEF Answer
    <3>3. \A x \in {Done(c, reply), Free} : x.phase # "started" /\ x.phase # "closing"
      BY DEF Done, Free
    <3>4. calls' \in [CallIds -> Calls] /\ Channels' /\ ApplierNeverStuck'
      BY <2>1, <2>3, <3>1, <3>2, <3>3, OneCall, Zenon DEF serverVars
    <3> QED
      BY <2>3, <2>4, <2>5, <3>4, Zenon DEF RaftTypeOK, ClerkTypeOK, clerkVars
  <2>6. CASE Seen(db[s], client, c.seq)
    <3>1. last \in Replies
      <4>1. db[s] \in Dbs
        BY <2>2, Zenon DEF ServerTypeOK
      <4>2. db[s].recordMap[client] \in Records
        BY <2>2, <2>6, <4>1, Zenon DEF Seen, Dbs
      <4> QED
        BY <4>2, Zenon DEF Records
    <3>2. Reply(last.err, Nil) \in Replies
      BY <3>1, Zenon DEF Reply, Replies, Values
    <3> QED
      BY <2>5, <2>6, <3>1, <3>2, Zenon DEF Handle
  <2>7. CASE ~Seen(db[s], client, c.seq) /\ ~leading[s]
    <3>1. Reply(ErrWrongLeader, Nil) \in Replies
      BY Zenon DEF Reply, Replies, Values
    <3> QED
      BY <2>5, <2>7, <3>1, Zenon DEF Handle
  <2>8. CASE ~Seen(db[s], client, c.seq) /\ leading[s]
    <3> DEFINE e == [term |-> term[s], tag |-> c.tag, seq |-> c.seq]
               d == [phase |-> "started", to |-> s, tag |-> c.tag, seq |-> c.seq,
                     live |-> c.live, index |-> Len(log[s]) + 1,
                     startTerm |-> term[s], ch |-> Nil, reply |-> Nil]
    <3>1. /\ Len(log[s]) + MaxTerm - term[s] < MaxLog
          /\ log' = [log EXCEPT ![s] = Append(@, e)]
          /\ calls' = [calls EXCEPT ![id] = d]
      BY <2>8, Zenon DEF Handle
    <3>2. e \in Entries
      BY <2>2 DEF RaftTypeOK, Entries
    <3>3. Len(log[s]) \in Nat /\ term[s] \in 0 .. MaxTerm /\ log[s] \in Seq(Entries)
      BY <2>2 DEF RaftTypeOK
    <3>4. Len(log[s]) + 1 \in Indexes
      <4>1. \A n \in Nat : \A t \in 0 .. MaxTerm : n + MaxTerm - t < MaxLog => n + 1 \in 1 .. MaxLog
        BY KVAssumption
      <4> QED
        BY <3>1, <3>3, <4>1, Zenon DEF Indexes
    <3>5. d \in WorkCalls /\ d \in Calls /\ d.phase = "started" /\ d.ch = Nil
      BY <2>1, <2>2, <3>3, <3>4, Zenon DEF WorkCalls, Calls, SentCalls
    <3> HIDE DEF e, d
    <3>6. calls' \in [CallIds -> Calls] /\ Channels' /\ ApplierNeverStuck'
      BY <2>1, <2>3, <3>1, <3>5, OneCall, Zenon DEF serverVars
    <3>7. Append(log[s], e) \in Seq(Entries) /\ Len(Append(log[s], e)) = Len(log[s]) + 1
      BY <3>2, <3>3
    <3>8. Len(Append(log[s], e)) <= MaxLog
      BY <3>4, <3>7 DEF Indexes
    <3>9. RaftTypeOK'
      BY <2>2, <2>3, <3>1, <3>7, <3>8, Zenon DEF RaftTypeOK
    <3> QED
      BY <2>3, <2>4, <3>6, <3>9, Zenon DEF ClerkTypeOK, clerkVars
  <2> QED
    BY <2>6, <2>7, <2>8, Zenon
\* waitApplied makes its channel known.
<1>RegisterKeeps.
    ASSUME IInv, NEW id \in CallIds, Register(id), UNCHANGED clerkVars
    PROVE  IInv'
  <2> USE <1>RegisterKeeps
  <2> DEFINE c == calls[id]
             d == [c EXCEPT !.phase = "waiting"]
  <2> USE DEF IInv, Inv
  <2>1. c \in WorkCalls /\ c.phase = "started" /\ c.ch = Nil
    BY Phases, Zenon DEF Register, ClerkTypeOK, Channels
  <2>2. /\ d \in WorkCalls /\ d \in Calls /\ d.phase = "waiting" /\ d.to = c.to
        /\ d.index = c.index /\ d.ch = Nil /\ c.to \in Servers /\ c.index \in Indexes
    BY <2>1, Zenon DEF WorkCalls, Calls
  <2> HIDE DEF d
  <2>3. /\ calls' = [calls EXCEPT ![id] = d]
        /\ notifyChans' = [notifyChans EXCEPT ![c.to][c.index] = id]
        /\ UNCHANGED <<raftVars, lastApplied, commitIndex, db, notifying, saved, restarts>>
    BY Zenon DEF Register, d
  <2>4. /\ calls' \in [CallIds -> Calls] /\ calls'[id] = d
        /\ \A i \in CallIds : i # id => calls'[i] = calls[i]
    BY <2>2, <2>3, Zenon DEF ClerkTypeOK
  <2>5. RaftTypeOK' /\ ClerkTypeOK'
    BY <2>3, <2>4, Zenon DEF RaftTypeOK, ClerkTypeOK, raftVars, clerkVars
  <2>6. ServerTypeOK'
    BY <2>2, <2>3, Zenon DEF ServerTypeOK, raftVars
  <2>7. ASSUME NEW s \in Servers, NEW k \in Indexes
        PROVE  notifyChans'[s][k] = IF s = c.to /\ k = c.index THEN id ELSE notifyChans[s][k]
    BY <2>2, <2>3, Zenon DEF ServerTypeOK
  <2>8. ASSUME NEW s \in Servers, NEW k \in Indexes, notifyChans'[s][k] # Nil
        PROVE  /\ calls'[notifyChans'[s][k]] \in WorkCalls
               /\ calls'[notifyChans'[s][k]].phase # "started"
               /\ calls'[notifyChans'[s][k]].to = s /\ calls'[notifyChans'[s][k]].index = k
               /\ \/ calls'[notifyChans'[s][k]].ch = Nil
                  \/ /\ notifyChans[s][k] = notifyChans'[s][k]
                     /\ calls'[notifyChans'[s][k]].ch = calls[notifyChans[s][k]].ch
    <3>1. CASE s = c.to /\ k = c.index
      BY <2>2, <2>4, <2>7, <3>1, Zenon
    <3>2. CASE ~(s = c.to /\ k = c.index)
      <4> DEFINE i == notifyChans[s][k]
      <4>1. notifyChans'[s][k] = i /\ i # Nil
        BY <2>7, <2>8, <3>2, Zenon
      <4>2. i \in CallIds /\ calls[i] \in WorkCalls /\ calls[i].phase # "started"
            /\ calls[i].to = s /\ calls[i].index = k
        BY <4>1 DEF ServerTypeOK, Channels
      <4>3. i # id
        BY <2>1, <4>2, Zenon
      <4> QED
        BY <2>4, <4>1, <4>2, <4>3, Zenon
    <3> QED
      BY <3>1, <3>2, Zenon
  <2>9. Channels'
    <3>1. \A i \in CallIds : /\ calls'[i].phase = "started" => calls'[i].ch = Nil
                             /\ calls'[i].phase = "closing" => calls'[i].reply \in Replies
      BY <2>2, <2>4 DEF Channels
    <3>2. \A s \in Servers : notifying'[s] # Nil =>
             commitIndex'[s] = lastApplied'[s] /\ lastApplied'[s] > 0
      BY <2>3, Zenon DEF Channels
    <3> HIDE DEF IInv, Inv
    <3> QED
      BY <2>8, <3>1, <3>2 DEF Channels
  <2>10. ApplierNeverStuck'
    <3> SUFFICES ASSUME NEW s \in Servers, NEW k \in Indexes,
                        notifyChans'[s][k] # Nil, calls'[notifyChans'[s][k]].ch # Nil
                 PROVE  k < lastApplied[s] \/ (k = lastApplied[s] /\ notifying[s] = Nil)
      <4>1. lastApplied' = lastApplied /\ notifying' = notifying
        BY <2>3, Zenon
      <4> QED
        BY <4>1, Zenon DEF ApplierNeverStuck
    <3>1. notifyChans[s][k] # Nil /\ calls[notifyChans[s][k]].ch # Nil
      BY <2>8
    <3> QED
      BY <3>1, Zenon DEF ApplierNeverStuck
  <2> QED
    BY <2>5, <2>6, <2>9, <2>10, Zenon
\* waitApplied has its result, from its channel or from the timer.
<1>DecideKeeps.
    ASSUME IInv, NEW id \in CallIds, Receive(id) \/ TimeOut(id), UNCHANGED clerkVars
    PROVE  IInv'
  <2> USE <1>DecideKeeps
  <2> DEFINE c == calls[id]
  <2> USE DEF IInv, Inv
  <2>1. c \in WorkCalls /\ c.phase = "waiting"
    BY Phases, Zenon DEF Receive, TimeOut, ClerkTypeOK
  <2>2. PICK reply, rest : reply \in Replies /\ rest \in {Nil, c.ch} /\ Decide(id, reply, rest)
    <3>1. Reply(ErrWrongLeader, Nil) \in Replies /\ Reply(ErrTimeOut, Nil) \in Replies
      BY Zenon DEF Reply, Replies, Values
    <3>2. c.ch # Nil => c.ch \in Replies
      BY <2>1, Zenon DEF WorkCalls
    <3> QED
      BY <3>1, <3>2, Zenon DEF Receive, TimeOut
  <2> DEFINE d == [c EXCEPT !.phase = "closing", !.reply = reply, !.ch = rest]
  <2>3. /\ d \in WorkCalls /\ d \in Calls /\ d.phase = "closing" /\ d.to = c.to
        /\ d.index = c.index /\ d.ch = rest /\ d.reply = reply
    BY <2>1, <2>2, Zenon DEF WorkCalls, Calls
  <2>4. calls' = [calls EXCEPT ![id] = d] /\ UNCHANGED <<raftVars, serverVars>>
    BY <2>2, Zenon DEF Decide
  <2> HIDE DEF d
  <2>5. calls' \in [CallIds -> Calls] /\ Channels' /\ ApplierNeverStuck'
    BY <2>1, <2>2, <2>3, <2>4, OneCall, Zenon DEF serverVars
  <2> QED
    BY <2>4, <2>5, Zenon DEF RaftTypeOK, ServerTypeOK, ClerkTypeOK, raftVars, serverVars, clerkVars
\* The last critical section of waitApplied takes its own channel, or another's, out of
\* the map.
<1>CloseKeeps.
    ASSUME IInv, NEW id \in CallIds, Close(id), UNCHANGED clerkVars
    PROVE  IInv'
  <2> USE <1>CloseKeeps
  <2> DEFINE c == calls[id]
             reply == IF OpOf(c.tag).type = "Get" THEN c.reply ELSE Reply(c.reply.err, Nil)
             d == IF c.live THEN Done(c, reply) ELSE Free
  <2> USE DEF IInv, Inv
  <2>1. /\ c \in WorkCalls /\ c.phase = "closing" /\ c.reply \in Replies
        /\ c.to \in Servers /\ c.index \in Indexes
    BY Phases DEF Close, ClerkTypeOK, Channels, WorkCalls
  <2>2. reply \in Replies
    BY <2>1, Zenon DEF Reply, Replies, Values
  <2>3. /\ calls' = [calls EXCEPT ![id] = d]
        /\ notifyChans' = [notifyChans EXCEPT ![c.to][c.index] = Nil]
        /\ UNCHANGED <<raftVars, lastApplied, commitIndex, db, notifying, saved, restarts>>
    BY Zenon DEF Close, Answer
  <2>4. d \in Calls /\ d.phase # "started" /\ d.phase # "closing"
    <3>1. d \in Calls
      BY <2>1, <2>2, AnswerType, Zenon
    <3> QED
      BY <3>1, Zenon DEF Done, Free
  <2> HIDE DEF d
  <2>5. /\ calls' \in [CallIds -> Calls] /\ calls'[id] = d
        /\ \A i \in CallIds : i # id => calls'[i] = calls[i]
    BY <2>3, <2>4, Zenon DEF ClerkTypeOK
  <2>6. RaftTypeOK' /\ ClerkTypeOK'
    BY <2>3, <2>5, Zenon DEF RaftTypeOK, ClerkTypeOK, raftVars, clerkVars
  <2>7. ServerTypeOK'
    BY <2>1, <2>3, Zenon DEF ServerTypeOK, raftVars
  <2>8. ASSUME NEW s \in Servers, NEW k \in Indexes, notifyChans'[s][k] # Nil
        PROVE  /\ notifyChans'[s][k] = notifyChans[s][k]
               /\ calls'[notifyChans[s][k]] = calls[notifyChans[s][k]]
    <3>1. ~(s = c.to /\ k = c.index) /\ notifyChans'[s][k] = notifyChans[s][k]
      BY <2>1, <2>3, <2>8, Zenon DEF ServerTypeOK
    <3>2. notifyChans[s][k] \in CallIds /\ notifyChans[s][k] # id
      BY <2>8, <3>1 DEF ServerTypeOK, Channels
    <3> QED
      BY <2>5, <3>1, <3>2, Zenon
  <2>9. Channels'
    <3>1. \A i \in CallIds : /\ calls'[i].phase = "started" => calls'[i].ch = Nil
                             /\ calls'[i].phase = "closing" => calls'[i].reply \in Replies
      BY <2>4, <2>5, ZenonT(60) DEF Channels
    <3>2. \A s \in Servers : notifying'[s] # Nil =>
             commitIndex'[s] = lastApplied'[s] /\ lastApplied'[s] > 0
      BY <2>3, Zenon DEF Channels
    <3>3. ASSUME NEW s \in Servers, NEW k \in Indexes, notifyChans'[s][k] # Nil
          PROVE  /\ calls'[notifyChans'[s][k]] \in WorkCalls
                 /\ calls'[notifyChans'[s][k]].phase # "started"
                 /\ calls'[notifyChans'[s][k]].to = s /\ calls'[notifyChans'[s][k]].index = k
      BY <2>8, <3>3 DEF Channels
    <3> HIDE DEF IInv, Inv
    <3> QED
      BY <3>1, <3>2, <3>3 DEF Channels
  <2>10. ApplierNeverStuck'
    BY <2>3, <2>8 DEF ApplierNeverStuck
  <2> QED
    BY <2>6, <2>7, <2>9, <2>10, Zenon
\* So channels stay as they should be.
<1>NotifyKeeps.
    ASSUME IInv, NEW s \in Servers, NEW k \in Indexes, NEW reply \in Replies,
           Notify(s, k, reply), UNCHANGED notifyChans,
           \A r \in Servers : notifying'[r] # Nil => /\ commitIndex'[r] = lastApplied'[r]
                                                    /\ lastApplied'[r] > 0,
           \A r \in Servers : r # s => notifying'[r] = notifying[r] /\ lastApplied'[r] = lastApplied[r],
           lastApplied'[s] = k, notifying'[s] = Nil,
           lastApplied[s] <= k, lastApplied[s] \in Nat
    PROVE  calls' \in [CallIds -> Calls] /\ Channels' /\ ApplierNeverStuck'
  <2> USE <1>NotifyKeeps
  <2>1. /\ calls' \in [CallIds -> Calls]
        /\ \A i \in CallIds :
              \/ calls'[i] = calls[i]
              \/ /\ i = notifyChans[s][k]
                 /\ calls[i] \in WorkCalls /\ calls[i].phase # "started" /\ calls[i].ch = Nil
                 /\ calls'[i] = [calls[i] EXCEPT !.ch = reply]
    BY NotifyType
  <2>2. ASSUME NEW r \in Servers, NEW j \in Indexes, notifyChans[r][j] # Nil
        PROVE  LET c == calls'[notifyChans[r][j]]
               IN  /\ c \in WorkCalls /\ c.phase # "started" /\ c.to = r /\ c.index = j
                   /\ c.ch = calls[notifyChans[r][j]].ch \/ (r = s /\ j = k)
    <3> DEFINE i == notifyChans[r][j]
    <3>1. i \in CallIds
      BY <2>2 DEF IInv, Inv, ServerTypeOK
    <3>2. calls[i] \in WorkCalls /\ calls[i].phase # "started" /\ calls[i].to = r /\ calls[i].index = j
      BY <2>2, ZenonT(60) DEF IInv, Channels
    <3>3. CASE calls'[i] = calls[i]
      BY <3>2, <3>3
    <3>4. CASE i = notifyChans[s][k] /\ calls'[i] = [calls[i] EXCEPT !.ch = reply]
      <4>1. r = s /\ j = k
        BY <2>2, <3>2, <3>4 DEF IInv, Channels
      <4> QED
        BY <3>2, <3>4, <4>1, Notified
    <3> QED
      BY <2>1, <3>1, <3>3, <3>4, Zenon
  <2>3. Channels'
    <3>1. ASSUME NEW i \in CallIds
          PROVE  /\ calls'[i].phase = "started" => calls'[i].ch = Nil
                 /\ calls'[i].phase = "closing" => calls'[i].reply \in Replies
      <4>1. /\ calls[i].phase = "started" => calls[i].ch = Nil
            /\ calls[i].phase = "closing" => calls[i].reply \in Replies
        BY Zenon DEF IInv, Channels
      <4>2. CASE calls'[i] = calls[i]
        BY <4>1, <4>2, Zenon
      <4>3. CASE /\ calls[i] \in WorkCalls /\ calls[i].phase # "started"
                 /\ calls'[i] = [calls[i] EXCEPT !.ch = reply]
        BY <4>1, <4>3, Notified
      <4> QED
        BY <2>1, <4>2, <4>3, Zenon
    <3> QED
      BY <2>2, <3>1 DEF Channels
  <2>4. ApplierNeverStuck'
    <3> SUFFICES ASSUME NEW r \in Servers, NEW j \in Indexes,
                        notifyChans[r][j] # Nil, calls'[notifyChans[r][j]].ch # Nil
                 PROVE  j < lastApplied'[r] \/ (j = lastApplied'[r] /\ notifying'[r] = Nil)
      BY Zenon DEF ApplierNeverStuck
    <3>1. CASE r = s /\ j = k
      BY <3>1, Zenon
    <3>2. CASE ~(r = s /\ j = k)
      <4>1. calls[notifyChans[r][j]].ch # Nil
        BY <2>2, <3>2, Zenon
      <4>2. j < lastApplied[r] \/ (j = lastApplied[r] /\ notifying[r] = Nil)
        BY <4>1, Zenon DEF IInv, ApplierNeverStuck
      <4>3. k \in Int /\ j \in Int
        BY KVAssumption DEF Indexes
      <4> QED
        BY <3>2, <4>2, <4>3
    <3> QED
      BY <3>1, <3>2, Zenon
  <2> QED
    BY <2>1, <2>3, <2>4, Zenon
\* The applier applies a command, and notifies at once or lets go of kv.mu before.
<1>ApplyCommandKeeps.
    ASSUME IInv, NEW s \in Servers, ApplyCommand(s), UNCHANGED clerkVars
    PROVE  IInv'
  <2> USE <1>ApplyCommandKeeps
  <2> DEFINE k == lastApplied[s] + 1
             e == chosen[k]
             reply == ReplyFor(db[s], e)
  <2> USE DEF IInv, Inv
  <2>1. k \in 1 .. Len(chosen) /\ k \in Indexes /\ lastApplied[s] \in Nat
    BY KVAssumption DEF ApplyCommand, Knows, ServerTypeOK, RaftTypeOK, Indexes
  <2>2. e \in Entries /\ db[s] \in Dbs
    BY <2>1 DEF RaftTypeOK, ServerTypeOK
  <2>3. reply \in Replies /\ Applied(db[s], e) \in Dbs
    BY <2>2, AppliedType, Zenon
  <2>4. /\ notifying[s] = Nil
        /\ lastApplied' = [lastApplied EXCEPT ![s] = k]
        /\ commitIndex' = [commitIndex EXCEPT ![s] = k]
        /\ db' = [db EXCEPT ![s] = Applied(db[s], e)]
        /\ UNCHANGED <<raftVars, notifyChans, saved, restarts>>
    BY Zenon DEF ApplyCommand
  <2>5. \/ Notify(s, k, reply) /\ UNCHANGED notifying
        \/ notifying' = [notifying EXCEPT ![s] = reply] /\ UNCHANGED calls
    BY Zenon DEF ApplyCommand
  <2> HIDE DEF k, e, reply
  <2>6. RaftTypeOK'
    BY <2>4, Zenon DEF RaftTypeOK, raftVars
  <2>7. ServerTypeOK'
    <3>1. k \in 0 .. Len(chosen)
      BY <2>1 DEF RaftTypeOK
    <3>2. notifying' \in [Servers -> Replies \cup {Nil}]
      BY <2>3, <2>5, Zenon DEF ServerTypeOK
    <3> QED
      BY <2>3, <2>4, <3>1, <3>2, Zenon DEF ServerTypeOK, raftVars
  <2>8. /\ lastApplied'[s] = k /\ commitIndex'[s] = k
        /\ \A r \in Servers : r # s => lastApplied'[r] = lastApplied[r] /\ commitIndex'[r] = commitIndex[r]
    BY <2>4, Zenon DEF ServerTypeOK
  <2>9. calls' \in [CallIds -> Calls] /\ Channels' /\ ApplierNeverStuck'
    <3>1. \A r \in Servers : notifying[r] # Nil => commitIndex[r] = lastApplied[r] /\ lastApplied[r] > 0
      BY Zenon DEF Channels
    <3>2. lastApplied[s] < k /\ k > 0
      BY <2>1 DEF k
    <3>3. CASE Notify(s, k, reply) /\ UNCHANGED notifying
      BY <2>1, <2>3, <2>4, <2>8, <3>1, <3>2, <3>3, <1>NotifyKeeps
    <3>4. CASE notifying' = [notifying EXCEPT ![s] = reply] /\ UNCHANGED calls
      <4>1. /\ notifying'[s] = reply
            /\ \A r \in Servers : r # s => notifying'[r] = notifying[r]
        BY <3>4, Zenon DEF ServerTypeOK
      <4>2. Channels'
        BY <2>4, <2>8, <3>1, <3>2, <3>4, <4>1 DEF Channels
      <4>3. ASSUME NEW r \in Servers, NEW j \in Indexes,
                   notifyChans[r][j] # Nil, calls[notifyChans[r][j]].ch # Nil
            PROVE  j < lastApplied'[r] \/ (j = lastApplied'[r] /\ notifying'[r] = Nil)
        <5>1. j < lastApplied[r] \/ (j = lastApplied[r] /\ notifying[r] = Nil)
          BY <4>3, Zenon DEF ApplierNeverStuck
        <5>2. j \in Int /\ k \in Int
          BY <2>1, KVAssumption DEF Indexes
        <5> QED
          BY <2>1, <2>8, <3>2, <4>1, <5>1, <5>2
      <4> QED
        BY <2>4, <3>4, <4>2, <4>3, Zenon DEF ClerkTypeOK, ApplierNeverStuck
    <3> QED
      BY <2>5, <3>3, <3>4, Zenon
  <2> QED
    BY <2>6, <2>7, <2>9, Zenon DEF ClerkTypeOK, clerkVars
\* The applier has its snapshot saved, and notifies.
<1>SnapshotKeeps.
    ASSUME IInv, NEW s \in Servers, Snapshot(s), UNCHANGED clerkVars
    PROVE  IInv'
  <2> USE <1>SnapshotKeeps
  <2> DEFINE k == commitIndex[s]
  <2> USE DEF IInv, Inv
  <2>1. k = lastApplied[s] /\ k > 0 /\ notifying[s] \in Replies
    BY DEF Snapshot, Channels, ServerTypeOK
  <2>2. k \in 0 .. Len(chosen) /\ k \in Indexes /\ k \in Nat
    BY <2>1, KVAssumption DEF ServerTypeOK, RaftTypeOK, Indexes
  <2>3. /\ Notify(s, k, notifying[s])
        /\ notifying' = [notifying EXCEPT ![s] = Nil]
        /\ saved' = [saved EXCEPT ![s] = [index |-> k, db |-> db[s]]]
        /\ UNCHANGED <<raftVars, lastApplied, commitIndex, db, notifyChans, restarts>>
    BY Zenon DEF Snapshot
  <2>4. RaftTypeOK'
    BY <2>3, Zenon DEF RaftTypeOK, raftVars
  <2>5. ServerTypeOK'
    <3>1. [index |-> k, db |-> db[s]] \in [index : 0 .. Len(chosen), db : Dbs]
      BY <2>2, Zenon DEF ServerTypeOK
    <3> QED
      BY <2>3, <3>1, Zenon DEF ServerTypeOK, raftVars
  <2>6. notifying'[s] = Nil /\ \A r \in Servers : r # s => notifying'[r] = notifying[r]
    BY <2>3, Zenon DEF ServerTypeOK
  <2>7. \A r \in Servers : notifying[r] # Nil => commitIndex[r] = lastApplied[r] /\ lastApplied[r] > 0
    BY Zenon DEF Channels
  <2>8. calls' \in [CallIds -> Calls] /\ Channels' /\ ApplierNeverStuck'
    BY <2>1, <2>2, <2>3, <2>6, <2>7, <1>NotifyKeeps
  <2> QED
    BY <2>4, <2>5, <2>8, Zenon DEF ClerkTypeOK, clerkVars
\* A snapshot arrives on the apply channel.
<1>ApplySnapshotKeeps.
    ASSUME IInv, NEW s \in Servers, NEW r \in Servers, ApplySnapshot(s, r), UNCHANGED clerkVars
    PROVE  IInv'
  <2> USE <1>ApplySnapshotKeeps
  <2> DEFINE k == saved[r].index
  <2> USE DEF IInv, Inv
  <2> DEFINE m == IF k > lastApplied[s] THEN k ELSE lastApplied[s]
  <2>1. /\ notifying[s] = Nil
        /\ lastApplied' = [lastApplied EXCEPT ![s] = m]
        /\ saved' = [saved EXCEPT ![s] = saved[r]]
        /\ UNCHANGED <<raftVars, notifying, restarts>>
        /\ Install(s, saved[r]) \/ UNCHANGED <<commitIndex, db, notifyChans, calls>>
    BY Zenon DEF ApplySnapshot, Restore
  <2>2. /\ k \in 0 .. Len(chosen) /\ saved[r].db \in Dbs /\ k \in Int /\ lastApplied[s] \in Int
        /\ m \in 0 .. Len(chosen) /\ m \in Int /\ m >= lastApplied[s]
    BY DEF ServerTypeOK, RaftTypeOK
  <2> HIDE DEF m
  <2>3. /\ calls' \in [CallIds -> Calls]
        /\ notifyChans' \in [Servers -> [Indexes -> CallIds \cup {Nil}]]
        /\ \A i \in CallIds :
              \/ calls'[i] = calls[i]
              \/ /\ calls[i] \in WorkCalls /\ calls[i].phase # "started"
                 /\ calls'[i] = [calls[i] EXCEPT !.ch = Reply(ErrWrongLeader, Nil)]
        /\ \A q \in Servers : \A j \in Indexes : notifyChans'[q][j] # Nil =>
              /\ notifyChans'[q][j] = notifyChans[q][j]
              /\ calls'[notifyChans[q][j]] = calls[notifyChans[q][j]]
    <3>1. CASE Install(s, saved[r])
      BY <3>1, TurnAwayType, Zenon DEF Install
    <3>2. CASE UNCHANGED <<commitIndex, db, notifyChans, calls>>
      BY <3>2, Zenon DEF ServerTypeOK, ClerkTypeOK
    <3> QED
      BY <2>1, <3>1, <3>2, Zenon
  <2>4. RaftTypeOK' /\ ClerkTypeOK'
    BY <2>1, <2>3, Zenon DEF RaftTypeOK, ClerkTypeOK, raftVars, clerkVars
  <2>5. ServerTypeOK'
    <3>1. commitIndex' \in [Servers -> 0 .. Len(chosen)] /\ db' \in [Servers -> Dbs]
      BY <2>1, <2>2, Zenon DEF Install, ServerTypeOK
    <3> QED
      BY <2>1, <2>2, <2>3, <3>1, Zenon DEF ServerTypeOK, raftVars
  <2>6. \A q \in Servers : /\ q # s => lastApplied'[q] = lastApplied[q] /\ commitIndex'[q] = commitIndex[q]
                           /\ q = s => lastApplied'[q] = m
    BY <2>1, Zenon DEF Install, ServerTypeOK
  <2>7. Channels'
    <3>1. ASSUME NEW i \in CallIds
          PROVE  /\ calls'[i].phase = "started" => calls'[i].ch = Nil
                 /\ calls'[i].phase = "closing" => calls'[i].reply \in Replies
      <4>1. /\ calls[i].phase = "started" => calls[i].ch = Nil
            /\ calls[i].phase = "closing" => calls[i].reply \in Replies
        BY Zenon DEF Channels
      <4>2. CASE calls'[i] = calls[i]
        BY <4>1, <4>2, Zenon
      <4>3. CASE /\ calls[i] \in WorkCalls /\ calls[i].phase # "started"
                 /\ calls'[i] = [calls[i] EXCEPT !.ch = Reply(ErrWrongLeader, Nil)]
        <5>1. Reply(ErrWrongLeader, Nil) \in Replies
          BY Zenon DEF Reply, Replies, Values
        <5> QED
          BY <4>1, <4>3, <5>1, Notified
      <4> QED
        BY <2>3, <4>2, <4>3, Zenon
    <3>2. ASSUME NEW q \in Servers, notifying'[q] # Nil
          PROVE  commitIndex'[q] = lastApplied'[q] /\ lastApplied'[q] > 0
      BY <2>1, <2>6, <3>2, Zenon DEF Channels
    <3>3. ASSUME NEW q \in Servers, NEW j \in Indexes, notifyChans'[q][j] # Nil
          PROVE  /\ calls'[notifyChans'[q][j]] \in WorkCalls
                 /\ calls'[notifyChans'[q][j]].phase # "started"
                 /\ calls'[notifyChans'[q][j]].to = q /\ calls'[notifyChans'[q][j]].index = j
      BY <2>3, <3>3 DEF Channels
    <3> QED
      BY <3>1, <3>2, <3>3 DEF Channels
  <2>8. ApplierNeverStuck'
    <3> SUFFICES ASSUME NEW q \in Servers, NEW j \in Indexes,
                        notifyChans'[q][j] # Nil, calls'[notifyChans'[q][j]].ch # Nil
                 PROVE  j < lastApplied'[q] \/ (j = lastApplied'[q] /\ notifying'[q] = Nil)
      BY Zenon DEF ApplierNeverStuck
    <3>1. notifyChans[q][j] # Nil /\ calls[notifyChans[q][j]].ch # Nil
      BY <2>3
    <3>2. j < lastApplied[q] \/ (j = lastApplied[q] /\ notifying[q] = Nil)
      BY <3>1, Zenon DEF ApplierNeverStuck
    <3>3. j \in Int
      BY KVAssumption DEF Indexes
    <3> QED
      BY <2>1, <2>2, <2>6, <3>2, <3>3
  <2> QED
    BY <2>4, <2>5, <2>7, <2>8, Zenon
\* A restart ends the calls of the server and empties its map of channels.
<1>RestartKeeps.
    ASSUME IInv, NEW s \in Servers, StartKVServer(s), UNCHANGED clerkVars
    PROVE  IInv'
  <2> USE <1>RestartKeeps
  <2> USE DEF IInv, Inv
  <2>1. /\ leading' = [leading EXCEPT ![s] = FALSE]
        /\ lastApplied' = [lastApplied EXCEPT ![s] = saved[s].index]
        /\ commitIndex' = [commitIndex EXCEPT ![s] = 0]
        /\ db' = [db EXCEPT ![s] = saved[s].db]
        /\ notifyChans' = [notifyChans EXCEPT ![s] = [k \in Indexes |-> Nil]]
        /\ notifying' = [notifying EXCEPT ![s] = Nil]
        /\ calls' = [id \in CallIds |->
              IF calls[id].phase = "free" THEN Free
              ELSE IF calls[id].to # s \/ calls[id].phase = "done" THEN calls[id]
              ELSE IF calls[id].live THEN Done(calls[id], Nil) ELSE Free]
        /\ UNCHANGED <<term, log, chosen, effect, saved>>
    BY Zenon DEF StartKVServer
  <2>2. RaftTypeOK'
    BY <2>1, Zenon DEF RaftTypeOK
  <2>3. ServerTypeOK'
    <3>1. saved[s].index \in 0 .. Len(chosen) /\ saved[s].db \in Dbs /\ 0 \in 0 .. Len(chosen)
      BY DEF ServerTypeOK, RaftTypeOK
    <3> QED
      BY <2>1, <3>1, Zenon DEF ServerTypeOK
  <2>4. ASSUME NEW i \in CallIds
        PROVE  /\ calls'[i] \in Calls
               /\ calls'[i] = calls[i] \/ calls'[i].phase \in {"free", "done"}
               /\ calls[i] \in WorkCalls /\ calls[i].to # s => calls'[i] = calls[i]
    <3>1. calls[i] \in Calls
      BY Zenon DEF ClerkTypeOK
    <3>2. CASE calls[i].phase = "free"
      <4>1. calls'[i] = Free /\ calls[i] = Free
        BY <2>1, <3>1, <3>2, Phases, Zenon
      <4> QED
        BY <4>1, Zenon DEF Calls
    <3>3. CASE calls[i].phase # "free" /\ (calls[i].to # s \/ calls[i].phase = "done")
      BY <2>1, <3>1, <3>3, Zenon
    <3>4. CASE calls[i].phase # "free" /\ ~(calls[i].to # s \/ calls[i].phase = "done")
      <4>1. calls[i] \in SentCalls \cup WorkCalls
        BY <3>1, <3>4, Phases, Zenon DEF Calls
      <4>2. calls'[i] = IF calls[i].live THEN Done(calls[i], Nil) ELSE Free
        BY <2>1, <3>4, Zenon
      <4>3. calls'[i] \in Calls
        BY <4>1, <4>2, AnswerType, Zenon
      <4>4. Done(calls[i], Nil).phase = "done" /\ Free.phase = "free"
        BY Zenon DEF Done, Free
      <4> QED
        BY <3>4, <4>2, <4>3, <4>4, Zenon
    <3> QED
      BY <3>2, <3>3, <3>4, Zenon
  <2>5. ClerkTypeOK'
    BY <2>1, <2>4, Zenon DEF ClerkTypeOK, clerkVars
  <2>6. /\ notifying'[s] = Nil /\ \A k \in Indexes : notifyChans'[s][k] = Nil
        /\ \A r \in Servers : r # s =>
              /\ notifying'[r] = notifying[r] /\ commitIndex'[r] = commitIndex[r]
              /\ lastApplied'[r] = lastApplied[r] /\ notifyChans'[r] = notifyChans[r]
    BY <2>1, Zenon DEF ServerTypeOK
  <2>7. ASSUME NEW r \in Servers, NEW k \in Indexes, notifyChans'[r][k] # Nil
        PROVE  /\ r # s /\ notifyChans'[r][k] = notifyChans[r][k]
               /\ calls'[notifyChans[r][k]] = calls[notifyChans[r][k]]
    <3>1. r # s /\ notifyChans'[r][k] = notifyChans[r][k]
      BY <2>6, <2>7, Zenon
    <3>2. /\ notifyChans[r][k] \in CallIds /\ calls[notifyChans[r][k]] \in WorkCalls
          /\ calls[notifyChans[r][k]].to = r
      BY <2>7, <3>1 DEF ServerTypeOK, Channels
    <3> QED
      BY <2>4, <3>1, <3>2, Zenon
  <2>8. Channels'
    <3>1. ASSUME NEW i \in CallIds
          PROVE  /\ calls'[i].phase = "started" => calls'[i].ch = Nil
                 /\ calls'[i].phase = "closing" => calls'[i].reply \in Replies
      BY <2>4, Zenon DEF Channels
    <3>2. ASSUME NEW r \in Servers, notifying'[r] # Nil
          PROVE  commitIndex'[r] = lastApplied'[r] /\ lastApplied'[r] > 0
      BY <2>6, <3>2, Zenon DEF Channels
    <3>3. ASSUME NEW r \in Servers, NEW k \in Indexes, notifyChans'[r][k] # Nil
          PROVE  /\ calls'[notifyChans'[r][k]] \in WorkCalls
                 /\ calls'[notifyChans'[r][k]].phase # "started"
                 /\ calls'[notifyChans'[r][k]].to = r /\ calls'[notifyChans'[r][k]].index = k
      BY <2>7, <3>3 DEF Channels
    <3> QED
      BY ONLY <3>1, <3>2, <3>3 DEF Channels
  <2>9. ApplierNeverStuck'
    <3>1. ASSUME NEW r \in Servers, NEW k \in Indexes,
                 notifyChans'[r][k] # Nil, calls'[notifyChans'[r][k]].ch # Nil
          PROVE  k < lastApplied'[r] \/ (k = lastApplied'[r] /\ notifying'[r] = Nil)
      <4>1. /\ r # s /\ notifyChans'[r][k] = notifyChans[r][k]
            /\ calls'[notifyChans[r][k]] = calls[notifyChans[r][k]]
        BY <2>7, <3>1, Zenon
      <4>2. /\ notifying'[r] = notifying[r] /\ lastApplied'[r] = lastApplied[r]
            /\ notifyChans[r][k] # Nil /\ calls[notifyChans[r][k]].ch # Nil
        BY <2>6, <3>1, <4>1, Zenon
      <4>3. k < lastApplied[r] \/ (k = lastApplied[r] /\ notifying[r] = Nil)
        BY <4>2, Zenon DEF ApplierNeverStuck
      <4> QED
        BY <4>2, <4>3, Zenon
    <3> QED
      BY ONLY <3>1 DEF ApplierNeverStuck
  <2> QED
    BY <2>2, <2>3, <2>5, <2>8, <2>9, Zenon
\* Get, Put or Append is called.
<1>InvokeKeeps.
    ASSUME IInv, NEW t \in Threads, Invoke(t)
    PROVE  IInv'
  <2> USE <1>InvokeKeeps
  <2> USE DEF IInv, Inv
  <2>1. /\ opNo' = [opNo EXCEPT ![t] = @ + 1] /\ busy' = [busy EXCEPT ![t] = TRUE]
        /\ opNo[t] < Len(Script[t])
        /\ UNCHANGED <<raftVars, serverVars, calls, currLeader, returned>>
    BY Zenon DEF Invoke
  <2>2. RaftTypeOK' /\ ServerTypeOK' /\ Channels' /\ ApplierNeverStuck'
    <3>1. UNCHANGED raftVars /\ UNCHANGED <<serverVars, calls>>
      BY <2>1, Zenon
    <3>2. RaftTypeOK'
      BY <3>1, Zenon DEF RaftTypeOK, raftVars
    <3>3. ServerTypeOK'
      BY <3>1, Zenon DEF ServerTypeOK, raftVars, serverVars
    <3>4. Channels'
      BY <3>1 DEF Channels, serverVars
    <3>5. ApplierNeverStuck'
      BY <3>1, Zenon DEF ApplierNeverStuck, serverVars
    <3> QED
      BY <3>2, <3>3, <3>4, <3>5, Zenon
  <2>3. Len(Script[t]) \in Nat /\ opNo[t] \in Nat
    BY KVAssumption DEF ClerkTypeOK
  <2>4. ClerkTypeOK'
    <3>1. opNo' \in [Threads -> Nat] /\ busy' \in [Threads -> BOOLEAN]
      BY <2>1, <2>3 DEF ClerkTypeOK
    <3>2. \A u \in Threads : opNo'[u] <= Len(Script[u]) /\ (busy'[u] => opNo'[u] > 0)
      BY <2>1, <2>3 DEF ClerkTypeOK
    <3> QED
      BY <2>1, <3>1, <3>2, Zenon DEF ClerkTypeOK
  <2> QED
    BY <2>2, <2>4, Zenon
\* The next server, in a circle.
<1>NextServerType.
    ASSUME Inv, NEW t \in Threads, NextServer(t)
    PROVE  currLeader' \in [Threads -> Servers]
  <2> USE <1>NextServerType
  <2>1. currLeader[t] \in Servers
    BY Zenon DEF Inv, ClerkTypeOK
  <2>2. (currLeader[t] + 1) % NServers \in Servers
    BY <2>1, KVAssumption DEF Servers
  <2> QED
    BY <2>2, Zenon DEF NextServer, Inv, ClerkTypeOK
\* A Clerk calls a server, hears from it, or gives up on it.
<1>ClerkKeeps.
    ASSUME IInv, NEW t \in Threads, Send(t) \/ Accept(t) \/ Fail(t) \/ GiveUp(t)
    PROVE  IInv'
  <2> USE <1>ClerkKeeps
  <2> USE DEF IInv, Inv
  <2>1. PICK id \in CallIds, c \in Calls :
           /\ calls' = [calls EXCEPT ![id] = c]
           /\ c.phase = "started" => c.ch = Nil
           /\ c.phase = "closing" => c.reply \in Replies
           /\ \/ calls[id].phase \notin {"waiting", "closing"}
              \/ /\ c \in WorkCalls /\ c.phase # "started"
                 /\ c.to = calls[id].to /\ c.index = calls[id].index
                 /\ c.ch \in {Nil, calls[id].ch}
    <3>1. Free \in Calls /\ Free.phase = "free"
      BY Zenon DEF Calls, Free
    <3>2. CASE Send(t)
      <4>1. PICK id \in CallIds :
               /\ calls[id].phase = "free"
               /\ calls' = [calls EXCEPT ![id] = Sent(currLeader[t], <<t, opNo[t]>>, opNo[t] - 1)]
        BY <3>2, Zenon DEF Send, CallsOf, Slot
      <4>2. opNo[t] \in 1 .. Len(Script[t]) /\ opNo[t] - 1 \in Nat /\ currLeader[t] \in Servers
        BY <3>2, KVAssumption DEF Send, ClerkTypeOK
      <4>3. <<t, opNo[t]>> \in Tags
        BY <4>2, KVAssumption DEF Tags
      <4>4. /\ Sent(currLeader[t], <<t, opNo[t]>>, opNo[t] - 1) \in SentCalls
            /\ Sent(currLeader[t], <<t, opNo[t]>>, opNo[t] - 1).phase = "sent"
        BY <4>2, <4>3, Zenon DEF Sent, SentCalls
      <4> QED
        BY <4>1, <4>4, Zenon DEF Calls
    <3>3. CASE Accept(t) \/ Fail(t)
      <4>1. PICK id \in CallIds :
               calls[id].phase \in {"sent", "done"} /\ calls' = [calls EXCEPT ![id] = Free]
        BY <3>3, Zenon DEF Accept, Fail, Open, CallsOf
      <4> QED
        BY <3>1, <4>1, Zenon
    <3>4. CASE GiveUp(t)
      <4>1. PICK id \in CallIds :
               /\ calls[id].phase \in {"sent", "started", "waiting", "closing"}
               /\ calls' = [calls EXCEPT ![id].live = FALSE]
        BY <3>4, Zenon DEF GiveUp, Open, CallsOf
      <4> DEFINE c == calls[id]
                 d == [c EXCEPT !.live = FALSE]
      <4>2. calls' = [calls EXCEPT ![id] = d]
        BY <4>1, Zenon
      <4>3. c \in SentCalls \/ c \in WorkCalls
        BY <4>1, Phases, Zenon DEF ClerkTypeOK
      <4>4. CASE c \in SentCalls
        <5>1. d \in SentCalls /\ d.phase = "sent" /\ c.phase = "sent"
          BY <4>4, Zenon DEF SentCalls
        <5> QED
          BY <4>2, <5>1, Zenon DEF Calls
      <4>5. CASE c \in WorkCalls
        <5>1. /\ d \in WorkCalls /\ d.phase = c.phase /\ d.to = c.to /\ d.index = c.index
              /\ d.ch = c.ch /\ d.reply = c.reply
          BY <4>5, Zenon DEF WorkCalls
        <5>2. (c.phase = "started" => c.ch = Nil) /\ (c.phase = "closing" => c.reply \in Replies)
          BY Zenon DEF Channels
        <5>3. c.phase \in {"started", "waiting", "closing"}
          BY <4>5, Zenon DEF WorkCalls
        <5> HIDE DEF c, d
        <5> QED
          BY <4>2, <5>1, <5>2, <5>3, Zenon DEF Calls, c
      <4> QED
        BY <4>3, <4>4, <4>5, Zenon
    <3> QED
      BY <3>2, <3>3, <3>4, Zenon
  <2>2. UNCHANGED <<raftVars, serverVars>>
    BY Zenon DEF Send, Accept, Fail, GiveUp
  <2>3. calls' \in [CallIds -> Calls] /\ Channels' /\ ApplierNeverStuck'
    BY <2>1, <2>2, OneCall, Zenon DEF serverVars
  <2>4. /\ UNCHANGED opNo /\ currLeader' \in [Threads -> Servers]
        /\ UNCHANGED busy \/ busy' = [busy EXCEPT ![t] = FALSE]
    BY <1>NextServerType, Zenon DEF Send, Accept, Fail, GiveUp, clerkVars, ClerkTypeOK
  <2>5. ClerkTypeOK'
    BY <2>3, <2>4, Zenon DEF ClerkTypeOK
  <2> QED
    BY <2>2, <2>3, <2>5, Zenon DEF RaftTypeOK, ServerTypeOK, raftVars, serverVars
<1> SUFFICES ASSUME IInv, [Next]_vars PROVE IInv'
  BY Zenon
<1>1. CASE UNCHANGED vars
  <2>1. UNCHANGED raftVars /\ UNCHANGED <<serverVars, calls>> /\ UNCHANGED clerkVars
    BY <1>1, Zenon DEF vars
  <2>2. RaftTypeOK' /\ ServerTypeOK'
    BY <2>1, Zenon DEF IInv, Inv, raftVars, serverVars, RaftTypeOK, ServerTypeOK
  <2>3. ClerkTypeOK'
    BY <2>1, Zenon DEF IInv, Inv, clerkVars, ClerkTypeOK
  <2>4. Channels'
    BY <2>1 DEF IInv, serverVars, clerkVars, Channels
  <2>5. ApplierNeverStuck'
    BY <2>1, Zenon DEF IInv, serverVars, clerkVars, ApplierNeverStuck
  <2> QED
    BY <2>2, <2>3, <2>4, <2>5, Zenon DEF IInv, Inv
<1>2. ASSUME NEW id \in CallIds, Handler(id), UNCHANGED clerkVars PROVE IInv'
  BY <1>2, <1>HandleKeeps, <1>RegisterKeeps, <1>DecideKeeps, <1>CloseKeeps, Zenon DEF Handler
<1>3. ASSUME NEW s \in Servers, Applier(s), UNCHANGED clerkVars PROVE IInv'
  BY <1>3, <1>ApplyCommandKeeps, <1>SnapshotKeeps, <1>ApplySnapshotKeeps, Zenon DEF Applier
<1>4. ASSUME NEW t \in Threads, Invoke(t) \/ Send(t) \/ Accept(t) \/ Fail(t) \/ GiveUp(t)
      PROVE  IInv'
  BY <1>4, <1>InvokeKeeps, <1>ClerkKeeps, Zenon
<1> QED
  BY <1>1, <1>2, <1>3, <1>4, <1>RaftKeeps, <1>RestartKeeps, Zenon DEF Next, ServerStep

\* ApplierNeverStuck of KVServer, for any servers, Clerks, operations and bounds: the
\* applier never sends to a full channel while it holds kv.mu (applier, waitApplied).
THEOREM NeverStuck == Spec => []ApplierNeverStuck
<1>1. IInv => ApplierNeverStuck
  BY Zenon DEF IInv
<1> QED
  BY <1>1, InitKeeps, StepKeeps, PTL DEF Spec
=============================================================================
