------------------------------ MODULE KVClerk -------------------------------
(***************************************************************************)
(* The servers of KVServer with the clients of src/kvraft/client.go.  Each *)
(* goroutine has a Clerk of its own, and a Clerk does one operation at a   *)
(* time: it numbers it, and calls one server after the other over labrpc   *)
(* until one of them answers.                                              *)
(***************************************************************************)
EXTENDS KVServer

\* Whether labrpc may give up on a request before its handler has begun to work.
CONSTANT LateRequests

VARIABLES opNo, busy, currLeader, returned

clerkVars == <<opNo, busy, currLeader, returned>>
vars == <<raftVars, serverVars, calls, clerkVars>>

\* Mutant: the Clerk stays with its server.
SameServer(t) == UNCHANGED currLeader

NextServer(t) ==
    currLeader' = [currLeader EXCEPT ![t] = (@ + 1) % NServers]

-----------------------------------------------------------------------------

\* Get, Put or Append is called; unum is its number, counted from 0.
Invoke(t) ==
    /\ ~busy[t] /\ opNo[t] < Len(Script[t])
    /\ opNo' = [opNo EXCEPT ![t] = @ + 1]
    /\ busy' = [busy EXCEPT ![t] = TRUE]
    /\ UNCHANGED <<raftVars, serverVars, calls, currLeader, returned>>

Send(t) ==
    /\ busy[t] /\ Open(t) = {}
    /\ \E id \in CallsOf(t) :
          /\ Slot(t, id)
          /\ calls' = [calls EXCEPT ![id] =
                Sent(currLeader[t], <<t, opNo[t]>>, opNo[t] - 1)]
    /\ UNCHANGED <<raftVars, serverVars, clerkVars>>

\* Call returned true.
Accept(t) ==
    \E id \in Open(t) :
        /\ calls[id].phase = "done" /\ calls[id].reply # Nil
        /\ calls' = [calls EXCEPT ![id] = Free]
        /\ \/ /\ calls[id].reply.err \in {ErrWrongLeader, ErrTimeOut}
              /\ NextServer(t)
              /\ UNCHANGED <<opNo, busy, returned>>
           \/ /\ \/ calls[id].reply.err = OK
                 \/ calls[id].reply.err = ErrNoKey /\ OpOf(calls[id].tag).type = "Get"
              /\ returned' = [returned EXCEPT ![t] = calls[id].reply]
              /\ busy' = [busy EXCEPT ![t] = FALSE]
              /\ UNCHANGED <<opNo, currLeader>>
        /\ UNCHANGED <<raftVars, serverVars>>

\* Call returned false: the request or the reply was dropped or the server died.
Fail(t) ==
    \E id \in Open(t) :
        /\ calls[id].phase \in {"sent", "done"}
        /\ calls' = [calls EXCEPT ![id] = Free]
        /\ NextServer(t)
        /\ UNCHANGED <<raftVars, serverVars, opNo, busy, returned>>

\* Call returned false because the server was cut off, while the handler goes on.
GiveUp(t) ==
    \E id \in Open(t) :
        /\ calls[id].phase \in {"started", "waiting", "closing"}
              \cup (IF LateRequests THEN {"sent"} ELSE {})
        /\ \E other \in CallsOf(t) : calls[other].phase = "free"
        /\ calls' = [calls EXCEPT ![id].live = FALSE]
        /\ NextServer(t)
        /\ UNCHANGED <<raftVars, serverVars, opNo, busy, returned>>

-----------------------------------------------------------------------------

Init ==
    /\ ServerInit
    /\ opNo = [t \in Threads |-> 0]
    /\ busy = [t \in Threads |-> FALSE]
    /\ currLeader = [t \in Threads |-> 0]
    /\ returned = [t \in Threads |-> Nil]

Next ==
    \/ (ServerStep \/ \E s \in Servers : StartKVServer(s)) /\ UNCHANGED clerkVars
    \/ \E t \in Threads : Invoke(t) \/ Send(t) \/ Accept(t) \/ Fail(t) \/ GiveUp(t)

Spec == Init /\ [][Next]_vars

-----------------------------------------------------------------------------
(* Properties.                                                             *)

\* Raft, the appliers and the handlers are scheduled; labrpc loses requests and
\* replies at random, so that a server called again and again is reached and heard.
Reached(t, s) == \E id \in Open(t) : calls[id].to = s /\ Handle(id)
Heard(t, s) == (\E id \in Open(t) : calls[id].to = s) /\ Accept(t)

Fairness ==
    /\ WF_vars(RaftStep /\ UNCHANGED clerkVars)
    /\ \A s \in Servers :
          /\ WF_vars(Applier(s) /\ UNCHANGED clerkVars)
          /\ \A t \in Threads : /\ SF_vars(Reached(t, s) /\ UNCHANGED clerkVars)
                                /\ SF_vars(Heard(t, s))
    /\ \A id \in CallIds : WF_vars(Handler(id) /\ UNCHANGED clerkVars)
    /\ \A t \in Threads : WF_vars(Send(t))

\* Every operation a Clerk starts returns in the end, although a notification is
\* lost when the command is applied before waitApplied has registered.
OperationsReturn == \A t \in Threads : busy[t] ~> ~busy[t]
=============================================================================
