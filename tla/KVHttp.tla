------------------------------ MODULE KVHttp --------------------------------
(***************************************************************************)
(* The servers of KVServer with HTTP clients: src/controlplane/kvclient,   *)
(* whose Client gives all goroutines of a process one client id, one       *)
(* counter and one position in the list of servers, and requests without   *)
(* an id, as src/scripts/test_worker_api.sh sends them to one server after *)
(* the other, which ServeHTTP in src/kvraft/http.go numbers per server.    *)
(***************************************************************************)
EXTENDS KVServer

CONSTANTS
    Anonymous,      \* httpClientID
    LateRequests    \* whether a request may outlive the client's 2 s timeout unhandled

VARIABLES opNo, busy, seq, tries, returned,     \* of each goroutine
          seqID, curr,                          \* of each Client
          httpSeq                               \* of each server

clientVars == <<opNo, busy, seq, tries, returned, seqID, curr, httpSeq>>
vars == <<raftVars, serverVars, calls, clientVars>>

-----------------------------------------------------------------------------

\* Put, Get or Delete is called; prepareRequest numbers it.
prepareRequest(t) ==
    /\ ~busy[t] /\ opNo[t] < Len(Script[t])
    /\ opNo' = [opNo EXCEPT ![t] = @ + 1]
    /\ busy' = [busy EXCEPT ![t] = TRUE]
    /\ tries' = [tries EXCEPT ![t] = 0]
    /\ seqID' = [seqID EXCEPT ![ClientOf[t]] = @ + 1]
    /\ seq' = [seq EXCEPT ![t] = seqID[ClientOf[t]] + 1]
    /\ UNCHANGED <<raftVars, serverVars, calls, returned, curr, httpSeq>>

\* The Client's servers take turns; a script tries them from the first on.
Addr(t) == IF ClientOf[t] = Anonymous THEN tries[t] ELSE curr[ClientOf[t]]

nextAddr(t) == curr' = [curr EXCEPT ![ClientOf[t]] = (@ + 1) % NServers]

\* ServeHTTP passes a request on to Get, PutAppend or Delete; one without an id gets
\* the next number of this server.
nextHTTPSeq(s, t) ==
    httpSeq' = [httpSeq EXCEPT ![s] = IF ClientOf[t] = Anonymous THEN @ + 1 ELSE @]

ServeHTTP(s, t) ==
    Sent(s, <<t, opNo[t]>>, IF ClientOf[t] = Anonymous THEN httpSeq[s] + 1 ELSE seq[t])

doOnce(t) ==
    /\ busy[t] /\ Open(t) = {} /\ tries[t] < NServers
    /\ tries' = [tries EXCEPT ![t] = @ + 1]
    /\ nextAddr(t)
    /\ nextHTTPSeq(Addr(t), t)
    /\ \E id \in CallsOf(t) :
          Slot(t, id) /\ calls' = [calls EXCEPT ![id] = ServeHTTP(Addr(t), t)]
    /\ UNCHANGED <<raftVars, serverVars, opNo, busy, seq, returned, seqID>>

Return(t, reply) ==
    /\ returned' = [returned EXCEPT ![t] = reply]
    /\ busy' = [busy EXCEPT ![t] = FALSE]

\* The answer is returned unless it is a reason to try the next server.
Accept(t) ==
    \E id \in Open(t) :
        /\ calls[id].phase = "done" /\ calls[id].reply # Nil
        /\ calls' = [calls EXCEPT ![id] = Free]
        /\ IF \/ calls[id].reply.err = ErrWrongLeader
              \/ calls[id].reply.err = ErrTimeOut /\ ClientOf[t] # Anonymous
             THEN UNCHANGED <<busy, returned>>
             ELSE Return(t, calls[id].reply)
        /\ UNCHANGED <<raftVars, serverVars, opNo, seq, tries, seqID, curr, httpSeq>>

\* The request or the reply is lost, or the server is gone.
Fail(t) ==
    \E id \in Open(t) :
        /\ calls[id].phase \in {"sent", "done"}
        /\ calls' = [calls EXCEPT ![id] = Free]
        /\ UNCHANGED <<raftVars, serverVars, clientVars>>

\* The 2 s of the HTTP client are over; the handler goes on.
GiveUp(t) ==
    \E id \in Open(t) :
        /\ calls[id].phase \in {"started", "waiting", "closing"}
              \cup (IF LateRequests THEN {"sent"} ELSE {})
        /\ \E other \in CallsOf(t) : calls[other].phase = "free"
        /\ calls' = [calls EXCEPT ![id].live = FALSE]
        /\ UNCHANGED <<raftVars, serverVars, clientVars>>

\* A server that starts again numbers from 1 again.
Restart(s) ==
    /\ StartKVServer(s)
    /\ httpSeq' = [httpSeq EXCEPT ![s] = 0]
    /\ UNCHANGED <<opNo, busy, seq, tries, returned, seqID, curr>>

\* Every server was tried: "no available kv leader".
noLeader(t) ==
    /\ busy[t] /\ Open(t) = {} /\ tries[t] = NServers
    /\ Return(t, Nil)
    /\ UNCHANGED <<raftVars, serverVars, calls, opNo, seq, tries, seqID, curr, httpSeq>>

-----------------------------------------------------------------------------

Init ==
    /\ ServerInit
    /\ opNo = [t \in Threads |-> 0]
    /\ busy = [t \in Threads |-> FALSE]
    /\ seq = [t \in Threads |-> 0]
    /\ tries = [t \in Threads |-> 0]
    /\ returned = [t \in Threads |-> Nil]
    /\ seqID = [c \in Ids |-> 0]
    /\ curr = [c \in Ids |-> 0]
    /\ httpSeq = [s \in Servers |-> 0]

Next ==
    \/ ServerStep /\ UNCHANGED clientVars
    \/ \E s \in Servers : Restart(s)
    \/ \E t \in Threads : \/ prepareRequest(t) \/ doOnce(t) \/ Accept(t)
                          \/ Fail(t) \/ GiveUp(t) \/ noLeader(t)

Spec == Init /\ [][Next]_vars

-----------------------------------------------------------------------------

\* A request that is answered with OK is in the replicated log: "Put stores
\* key/value in the Raft cluster", "Get reads key from the Raft cluster".
AnsweredIsCommitted ==
    \A t \in Threads :
        ~busy[t] /\ returned[t] # Nil /\ returned[t].err \in {OK, ErrNoKey} =>
            \E k \in DOMAIN chosen : chosen[k].tag = <<t, opNo[t]>>
=============================================================================
