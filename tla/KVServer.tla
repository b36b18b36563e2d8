------------------------------ MODULE KVServer ------------------------------
(***************************************************************************)
(* The replicated key/value servers of src/kvraft/server.go: the handlers  *)
(* Get, Delete and PutAppend, waitApplied with its notification channels,  *)
(* the applier with duplicate detection, snapshots and restart.  Clients   *)
(* are in the modules that extend this one.                                *)
(*                                                                         *)
(* Every critical section of kv.mu is one step.  Raft is used through what *)
(* it promises: leaders of growing terms whose logs contain everything     *)
(* committed, and an apply channel that delivers in order.  A value is the *)
(* sequence of the operations that wrote it, so that a lost or a repeated  *)
(* write shows.  leaderId (a hint no client reads) is left out.            *)
(***************************************************************************)
EXTENDS Integers, Sequences

CONSTANTS
    NServers,       \* len(servers)
    Threads,        \* goroutines that use the service
    Ids, ClientOf,  \* client ids, and the id each goroutine sends: [Threads -> Ids]
    Keys,
    Script,         \* [Threads -> Seq([type, key])]: the operations a goroutine does
    Nil,            \* no record, no channel, no reply yet, no value
    Snapshots       \* FALSE when maxraftstate is -1

\* Bounds.
CONSTANTS
    MaxTerm,        \* elections
    MaxLog,         \* length of a Raft log, one entry of it for each later term
    MaxRestarts,
    MaxLingering    \* handlers at work, per goroutine, whose caller has given up

OK == "OK"
ErrNoKey == "ErrNoKey"
ErrWrongLeader == "ErrWrongLeader"
ErrTimeOut == "ErrTimeOut"

ASSUME KVAssumption == /\ ClientOf \in [Threads -> Ids]
                       /\ \A t \in Threads :
                             Script[t] \in Seq([type : {"Get", "Put", "Append", "Delete"},
                                               key : Keys])
                       /\ NServers \in Nat \ {0} /\ MaxTerm \in Nat /\ MaxLog \in Nat
                       /\ MaxRestarts \in Nat /\ MaxLingering \in Nat

\* nil is no call and no record.
ASSUME NilAssumption ==
    /\ Nil \notin Threads \X Nat
    /\ Nil \notin [seq : Nat, reply : [err : {OK, ErrNoKey, ErrWrongLeader, ErrTimeOut},
                                      value : Seq(Threads \X Nat) \cup {Nil}]]

VARIABLES
    term, leading, log, chosen,     \* Raft: per server, and the committed entries
    effect,                         \* history: what the committed entries amount to
    lastApplied,                    \* Raft's position on the apply channel
    commitIndex, db,                \* kv.commitIndex; kvStore and recordMap
    notifyChans,                    \* [index -> the call whose channel it is]
    notifying,                      \* the applier, while it has let go of kv.mu
    saved,                          \* the snapshot in the persister
    calls,                          \* the RPCs of each goroutine
    restarts

Servers == 0 .. NServers - 1

raftVars   == <<term, leading, log, chosen, effect>>
serverVars == <<lastApplied, commitIndex, db, notifyChans, notifying, saved, restarts>>

CallIds == Threads \X (1 .. MaxLingering + 1)
Indexes == 1 .. MaxLog

Reply(err, value) == [err |-> err, value |-> value]

-----------------------------------------------------------------------------
(* The state machine.  <<t, n>> is the n-th operation of goroutine t.      *)

OpOf(tag) == Script[tag[1]][tag[2]]

\* putHandler, appendHandler, deleteHandler; getHandler changes nothing.
Execute(store, tag) ==
    LET k == OpOf(tag).key
    IN  CASE OpOf(tag).type = "Get"    -> store
          [] OpOf(tag).type = "Put"    -> [store EXCEPT ![k] = <<tag>>]
          [] OpOf(tag).type = "Append" -> [store EXCEPT ![k] = IF @ = Nil THEN <<tag>>
                                                               ELSE Append(@, tag)]
          [] OpOf(tag).type = "Delete" -> [store EXCEPT ![k] = Nil]

ReplyTo(store, tag) ==
    LET k == OpOf(tag).key
    IN  CASE OpOf(tag).type # "Get" -> Reply(OK, Nil)
          [] OpOf(tag).type = "Get" /\ store[k] = Nil -> Reply(ErrNoKey, Nil)
          [] OpOf(tag).type = "Get" /\ store[k] # Nil -> Reply(OK, store[k])

\* Mutant: the request seen last counts as new.
SeenBefore(d, client, seq) ==
    d.recordMap[client] # Nil /\ seq < d.recordMap[client].seq

\* The state machine has seen this request, or a later one of the same client.
Seen(d, client, seq) ==
    d.recordMap[client] # Nil /\ seq <= d.recordMap[client].seq

\* The applier's work on one command: the reply, and the new kvStore and recordMap.
\* The record is written in either case, also with the older SeqId of a duplicate.
ReplyFor(d, e) ==
    LET client == ClientOf[e.tag[1]]
    IN  IF Seen(d, client, e.seq) THEN d.recordMap[client].reply
                                  ELSE ReplyTo(d.kvStore, e.tag)

Applied(d, e) ==
    LET client == ClientOf[e.tag[1]]
    IN  [kvStore   |-> IF Seen(d, client, e.seq) THEN d.kvStore
                                                 ELSE Execute(d.kvStore, e.tag),
         recordMap |-> [d.recordMap EXCEPT ![client] =
                           [seq |-> e.seq, reply |-> ReplyFor(d, e)]]]

EmptyDb == [kvStore |-> [k \in Keys |-> Nil], recordMap |-> [c \in Ids |-> Nil]]

\* What is promised instead of this: an operation is executed once, where it first
\* appears among the committed entries, and that gives its result.
NoEffect == [store |-> EmptyDb.kvStore, results |-> << >>]

Took(before, tag) ==
    IF tag \in DOMAIN before.results THEN before
    ELSE [store   |-> Execute(before.store, tag),
          results |-> [old \in DOMAIN before.results \cup {tag} |->
                         IF old = tag THEN ReplyTo(before.store, tag) ELSE before.results[old]]]

-----------------------------------------------------------------------------
(* What Raft does underneath, as far as its service can see it.            *)

\* The first k committed entries are in the log of s.
Has(s, k) == k <= Len(log[s]) /\ SubSeq(log[s], 1, k) = SubSeq(chosen, 1, k)

Newest(s) == \A r \in Servers : term[r] <= term[s]

\* s wins a new term.  Its log has all that is committed; its voters take the new
\* term, while other servers, an old leader among them, may not know of it.
Elect(s) ==
    /\ Has(s, Len(chosen))
    /\ \E voters \in SUBSET Servers :
       \E t \in 1 .. MaxTerm :
          /\ s \in voters
          /\ (\A r \in Servers : term[r] < t) /\ (\E r \in Servers : term[r] = t - 1)
          /\ term' = [r \in Servers |-> IF r \in voters THEN t ELSE term[r]]
          /\ leading' = [r \in Servers |-> IF r \in voters THEN r = s ELSE leading[r]]
    /\ UNCHANGED <<log, chosen, effect>>

\* A leader brings another server to its log.
Replicate(s, r) ==
    /\ s # r /\ leading[s] /\ term[s] >= term[r]
    /\ <<log[r], term[r]>> # <<log[s], term[s]>>
    /\ log' = [log EXCEPT ![r] = log[s]]
    /\ term' = [term EXCEPT ![r] = term[s]]
    /\ leading' = [leading EXCEPT ![r] = FALSE]
    /\ UNCHANGED <<chosen, effect>>

\* The newest leader commits the next entry, if one of its own term is behind it.
Commit(s) ==
    /\ leading[s] /\ Newest(s)
    /\ \E n \in Len(chosen) + 1 .. Len(log[s]) : log[s][n].term = term[s]
    /\ chosen' = Append(chosen, log[s][Len(chosen) + 1])
    /\ effect' = Took(effect, log[s][Len(chosen) + 1].tag)
    /\ UNCHANGED <<term, leading, log>>

RaftStep ==
    /\ \E s \in Servers : Elect(s) \/ Commit(s) \/ \E r \in Servers : Replicate(s, r)
    /\ UNCHANGED <<serverVars, calls>>

\* s knows that its first k entries are committed.
Knows(s, k) == k <= Len(chosen) /\ Has(s, k)

-----------------------------------------------------------------------------
(* The RPC handlers Get, Delete and PutAppend have one shape.  A call is   *)
(* "free", "sent", "started" (Start returned), "waiting" (in the select of *)
(* waitApplied), "closing" (result decided), "done" (reply on its way).    *)

Free == [phase |-> "free"]

Sent(s, tag, seq) ==
    [phase |-> "sent", to |-> s, tag |-> tag, seq |-> seq, live |-> TRUE]

Done(c, reply) ==
    [phase |-> "done", to |-> c.to, tag |-> c.tag, seq |-> c.seq, live |-> TRUE,
     reply |-> reply]

\* The reply reaches the caller, or nobody; Nil means that the call failed.
Answer(id, reply) ==
    calls' = [calls EXCEPT ![id] = IF @.live THEN Done(@, reply) ELSE Free]

\* The first critical section: a request already seen is answered from recordMap,
\* a new one goes to Raft.
Handle(id) ==
    LET c == calls[id]
        s == c.to
        client == ClientOf[c.tag[1]]
        last == db[s].recordMap[client].reply
    IN  /\ c.phase = "sent"
        /\ \/ /\ Seen(db[s], client, c.seq)
              /\ Answer(id, IF OpOf(c.tag).type = "Get" THEN last ELSE Reply(last.err, Nil))
              /\ UNCHANGED log
           \/ /\ ~Seen(db[s], client, c.seq) /\ ~leading[s]
              /\ Answer(id, Reply(ErrWrongLeader, Nil))
              /\ UNCHANGED log
           \/ /\ ~Seen(db[s], client, c.seq) /\ leading[s]
              /\ Len(log[s]) + MaxTerm - term[s] < MaxLog
              /\ log' = [log EXCEPT ![s] =
                    Append(@, [term |-> term[s], tag |-> c.tag, seq |-> c.seq])]
              /\ calls' = [calls EXCEPT ![id] =
                    [phase |-> "started", to |-> s, tag |-> c.tag, seq |-> c.seq,
                     live |-> c.live, index |-> Len(log[s]) + 1,
                     startTerm |-> term[s], ch |-> Nil, reply |-> Nil]]
        /\ UNCHANGED <<term, leading, chosen, effect, serverVars>>

\* waitApplied makes its channel known, after kv.mu was free for a while.
Register(id) ==
    LET c == calls[id]
    IN  /\ c.phase = "started"
        /\ notifyChans' = [notifyChans EXCEPT ![c.to][c.index] = id]
        /\ calls' = [calls EXCEPT ![id].phase = "waiting"]
        /\ UNCHANGED <<raftVars, lastApplied, commitIndex, db, notifying, saved, restarts>>

\* The result is fixed; `rest' is what stays in the channel.
Decide(id, reply, rest) ==
    /\ calls' = [calls EXCEPT ![id].phase = "closing", ![id].reply = reply, ![id].ch = rest]
    /\ UNCHANGED <<raftVars, serverVars>>

\* Mutant: leadership is not looked at again.
ReceiveAny(id) ==
    LET c == calls[id]
    IN  c.phase = "waiting" /\ c.ch # Nil /\ Decide(id, c.ch, Nil)

\* waitApplied receives a result and asks Raft whether it can be its own.
Receive(id) ==
    LET c == calls[id]
    IN  /\ c.phase = "waiting" /\ c.ch # Nil
        /\ Decide(id, IF leading[c.to] /\ term[c.to] = c.startTerm
                        THEN c.ch ELSE Reply(ErrWrongLeader, Nil), Nil)

\* 500 ms are over; a result that arrives at the same moment may be passed over.
TimeOut(id) ==
    /\ calls[id].phase = "waiting"
    /\ Decide(id, Reply(ErrTimeOut, Nil), calls[id].ch)

\* The last critical section deletes whatever channel is at the index by now.
Close(id) ==
    LET c == calls[id]
    IN  /\ c.phase = "closing"
        /\ notifyChans' = [notifyChans EXCEPT ![c.to][c.index] = Nil]
        /\ Answer(id, IF OpOf(c.tag).type = "Get" THEN c.reply ELSE Reply(c.reply.err, Nil))
        /\ UNCHANGED <<raftVars, lastApplied, commitIndex, db, notifying, saved, restarts>>

-----------------------------------------------------------------------------
(* The applier.                                                            *)

\* `notifyChan <- reply' with kv.mu held: it blocks while the channel is full.
Notify(s, k, reply) ==
    LET id == notifyChans[s][k]
    IN  IF id = Nil THEN UNCHANGED calls
        ELSE calls[id].ch = Nil /\ calls' = [calls EXCEPT ![id].ch = reply]

\* A command: apply, then notify; with a snapshot, kv.mu is free in between.
ApplyCommand(s) ==
    LET k == lastApplied[s] + 1
        e == chosen[k]
    IN  /\ notifying[s] = Nil
        /\ Knows(s, k)
        /\ lastApplied' = [lastApplied EXCEPT ![s] = k]
        /\ commitIndex' = [commitIndex EXCEPT ![s] = k]
        /\ db' = [db EXCEPT ![s] = Applied(@, e)]
        /\ \/ /\ Notify(s, k, ReplyFor(db[s], e))
              /\ UNCHANGED notifying
           \/ /\ Snapshots
              /\ notifying' = [notifying EXCEPT ![s] = ReplyFor(db[s], e)]
              /\ UNCHANGED calls
        /\ UNCHANGED <<raftVars, notifyChans, saved, restarts>>

\* The snapshot is saved and the waiting handler notified.
Snapshot(s) ==
    /\ notifying[s] # Nil
    /\ Notify(s, commitIndex[s], notifying[s])
    /\ notifying' = [notifying EXCEPT ![s] = Nil]
    /\ saved' = [saved EXCEPT ![s] = [index |-> commitIndex[s], db |-> db[s]]]
    /\ UNCHANGED <<raftVars, lastApplied, commitIndex, db, notifyChans, restarts>>

\* Indexes whose channel is in the map and empty.
Waiting(s) ==
    {k \in Indexes : notifyChans[s][k] # Nil /\ calls[notifyChans[s][k]].ch = Nil}

\* The handlers of those channels are told ErrWrongLeader.
SendWrongLeader(s) ==
    calls' = [id \in CallIds |->
        IF \E k \in Waiting(s) : notifyChans[s][k] = id
          THEN [calls[id] EXCEPT !.ch = Reply(ErrWrongLeader, Nil)] ELSE calls[id]]

\* Mutant: a channel that was used stays in the map.
TurnAwayKeep(s) == SendWrongLeader(s) /\ UNCHANGED notifyChans

\* Every handler with an empty channel is told ErrWrongLeader and forgotten.
TurnAway(s) ==
    /\ SendWrongLeader(s)
    /\ notifyChans' = [notifyChans EXCEPT ![s] =
          [k \in Indexes |-> IF k \in Waiting(s) THEN Nil ELSE @[k]]]

\* restoreSnapshot, and the handlers that wait are sent away.
Install(s, snap) ==
    /\ commitIndex' = [commitIndex EXCEPT ![s] = snap.index]
    /\ db' = [db EXCEPT ![s] = snap.db]
    /\ TurnAway(s)

\* Mutant: a snapshot is restored however old it is.
RestoreAny(s, snap) == Install(s, snap)

\* A snapshot is restored if it is ahead of kv.commitIndex, and ignored otherwise.
Restore(s, snap) ==
    IF snap.index > commitIndex[s] THEN Install(s, snap)
    ELSE UNCHANGED <<commitIndex, db, notifyChans, calls>>

\* A snapshot on the apply channel: r's, which Raft has saved because it goes further
\* than the server's own (commands it covers may have been applied before), or the
\* server's own, which Raft delivers after a restart.
ApplySnapshot(s, r) ==
    LET k == saved[r].index
    IN  /\ notifying[s] = Nil
        /\ k > saved[s].index \/ (r = s /\ k > 0 /\ restarts > 0)
        /\ Knows(s, k)
        /\ lastApplied' = [lastApplied EXCEPT ![s] = IF k > @ THEN k ELSE @]
        /\ saved' = [saved EXCEPT ![s] = saved[r]]
        /\ Restore(s, saved[r])
        /\ UNCHANGED <<raftVars, notifying, restarts>>

\* A server stops and is started again: kv.commitIndex begins at 0
\* whatever the snapshot.  The calls it was working on fail.
StartKVServer(s) ==
    /\ restarts < MaxRestarts
    /\ restarts' = restarts + 1
    /\ leading' = [leading EXCEPT ![s] = FALSE]
    /\ lastApplied' = [lastApplied EXCEPT ![s] = saved[s].index]
    /\ commitIndex' = [commitIndex EXCEPT ![s] = 0]
    /\ db' = [db EXCEPT ![s] = saved[s].db]
    /\ notifyChans' = [notifyChans EXCEPT ![s] = [k \in Indexes |-> Nil]]
    /\ notifying' = [notifying EXCEPT ![s] = Nil]
    /\ calls' = [id \in CallIds |->
          IF calls[id].phase = "free" THEN Free
          ELSE IF calls[id].to # s \/ calls[id].phase = "done" THEN calls[id]
          ELSE IF calls[id].live THEN Done(calls[id], Nil) ELSE Free]
    /\ UNCHANGED <<term, log, chosen, effect, saved>>

-----------------------------------------------------------------------------

ServerInit ==
    /\ term = [s \in Servers |-> 0]
    /\ leading = [s \in Servers |-> FALSE]
    /\ log = [s \in Servers |-> << >>]
    /\ chosen = << >>
    /\ effect = NoEffect
    /\ lastApplied = [s \in Servers |-> 0]
    /\ commitIndex = [s \in Servers |-> 0]
    /\ db = [s \in Servers |-> EmptyDb]
    /\ notifyChans = [s \in Servers |-> [k \in Indexes |-> Nil]]
    /\ notifying = [s \in Servers |-> Nil]
    /\ saved = [s \in Servers |-> [index |-> 0, db |-> EmptyDb]]
    /\ calls = [id \in CallIds |-> Free]
    /\ restarts = 0

Handler(id) ==
    Handle(id) \/ Register(id) \/ Receive(id) \/ TimeOut(id) \/ Close(id)

Applier(s) ==
    ApplyCommand(s) \/ Snapshot(s) \/ \E r \in Servers : ApplySnapshot(s, r)

ServerStep ==
    \/ RaftStep
    \/ \E id \in CallIds : Handler(id)
    \/ \E s \in Servers : Applier(s)

-----------------------------------------------------------------------------
(* For the clients: a goroutine has one call open at a time.               *)

CallsOf(t) == {id \in CallIds : id[1] = t}

\* The call the Clerk is blocked on.
Open(t) == {id \in CallsOf(t) : calls[id].phase # "free" /\ calls[id].live}

\* The slot its next call takes.
Slot(t, id) ==
    /\ id \in CallsOf(t) /\ calls[id].phase = "free"
    /\ \A other \in CallsOf(t) : calls[other].phase = "free" => id[2] <= other[2]

-----------------------------------------------------------------------------
(* Properties.                                                             *)

\* The outcome of committed entries.
Replayed(entries) ==
    LET r[k \in 0 .. Len(entries)] ==
          IF k = 0 THEN NoEffect ELSE Took(r[k - 1], entries[k].tag)
    IN  r[Len(entries)]

\* Every server's kvStore is the committed commands up to the last it applied, each
\* executed exactly once: duplicates from retries are recognised (recordMap), also
\* over snapshots and restarts.
ExactlyOnce ==
    \A s \in Servers :
        db[s].kvStore = Replayed(SubSeq(chosen, 1, lastApplied[s])).store

\* The applier never finds the channel it sends to full: it would wait with kv.mu
\* held for a handler that needs kv.mu to go away (applier, waitApplied).
ApplierNeverStuck ==
    \A s \in Servers : \A k \in Indexes :
        notifyChans[s][k] # Nil /\ calls[notifyChans[s][k]].ch # Nil =>
            k < lastApplied[s] \/ (k = lastApplied[s] /\ notifying[s] = Nil)
=============================================================================
