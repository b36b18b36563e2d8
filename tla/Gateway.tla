------------------------------ MODULE Gateway -------------------------------
(***************************************************************************)
(* The gateway, src/gateway: HandleChat puts a user's request on connJobs  *)
(* and waits for its result; a connWorker asks the controller for a worker *)
(* and passes the request on to dispatchJobs; a dispatchWorker forwards it *)
(* to the worker and sends the result.  The workers are in WorkerPool, the *)
(* controller's answer is any worker or an error.                          *)
(***************************************************************************)
EXTENDS WorkerPool

CONSTANTS
    ConnWorkers, DispatchWorkers,   \* goroutines of the two layers
    ConnCap, DispatchCap,           \* capacities of connJobs and dispatchJobs
    MaxCrashes                      \* bound: crashes of workers

ASSUME GatewayAssumption == ConnCap \in Nat /\ DispatchCap \in Nat /\ MaxCrashes \in Nat

\* nil is no result and no job.
ASSUME NilAssumption == Nil \notin Results /\ Nil \notin [job : Requests, worker : Workers \cup {Nil}]

VARIABLES
    chat,                   \* [Requests -> where its HandleChat stands]
    connJobs, dispatchJobs, \* the channels
    conn, dispatch,         \* what each goroutine is working on
    resultCh,               \* [Requests -> its result channel]
    crashes

gatewayVars == <<chat, connJobs, dispatchJobs, conn, dispatch, resultCh, crashes>>
vars == <<poolVars, gatewayVars>>

\* resultCh <- result: room for one.
Send(r, result) ==
    /\ resultCh[r] = Nil
    /\ resultCh' = [resultCh EXCEPT ![r] = result]

-----------------------------------------------------------------------------
(* HandleChat.                                                             *)

\* Into connJobs, or "gateway overloaded" after 5 s.
HandleChat(r) ==
    /\ chat[r] = "new"
    /\ \/ /\ Len(connJobs) < ConnCap
          /\ connJobs' = Append(connJobs, r)
          /\ chat' = [chat EXCEPT ![r] = "waiting"]
       \/ /\ Len(connJobs) = ConnCap
          /\ chat' = [chat EXCEPT ![r] = "overloaded"]
          /\ UNCHANGED connJobs
    /\ UNCHANGED <<poolVars, dispatchJobs, conn, dispatch, resultCh, crashes>>

\* The result goes to the user.
Respond(r) ==
    /\ chat[r] = "waiting" /\ resultCh[r] # Nil
    /\ chat' = [chat EXCEPT ![r] = resultCh[r]]
    /\ resultCh' = [resultCh EXCEPT ![r] = Nil]
    /\ UNCHANGED <<poolVars, connJobs, dispatchJobs, conn, dispatch, crashes>>

-----------------------------------------------------------------------------
(* connWorker.                                                             *)

connTake(c) ==
    /\ conn[c] = Nil /\ connJobs # << >>
    /\ conn' = [conn EXCEPT ![c] = [job |-> Head(connJobs), worker |-> Nil]]
    /\ connJobs' = Tail(connJobs)
    /\ UNCHANGED <<poolVars, chat, dispatchJobs, dispatch, resultCh, crashes>>

\* The controller's answer, or an error after at most 30 s.
pickWorker(c) ==
    /\ conn[c] # Nil /\ conn[c].worker = Nil
    /\ \/ /\ \E w \in Workers : conn' = [conn EXCEPT ![c].worker = w]
          /\ UNCHANGED resultCh
       \/ /\ Send(conn[c].job, "error")
          /\ conn' = [conn EXCEPT ![c] = Nil]
    /\ UNCHANGED <<poolVars, chat, connJobs, dispatchJobs, dispatch, crashes>>

\* Mutant: the error is sent and the job passed on all the same.
enqueueBoth(c) ==
    /\ conn[c] # Nil /\ conn[c].worker # Nil
    /\ \/ /\ Len(dispatchJobs) < DispatchCap
          /\ UNCHANGED resultCh
       \/ Send(conn[c].job, "error")
    /\ dispatchJobs' = Append(dispatchJobs, conn[c])
    /\ conn' = [conn EXCEPT ![c] = Nil]
    /\ UNCHANGED <<poolVars, chat, connJobs, dispatch, crashes>>

\* Into dispatchJobs, or "dispatch queue full" after 5 s.
enqueueDispatch(c) ==
    /\ conn[c] # Nil /\ conn[c].worker # Nil
    /\ \/ /\ Len(dispatchJobs) < DispatchCap
          /\ dispatchJobs' = Append(dispatchJobs, conn[c])
          /\ UNCHANGED resultCh
       \/ /\ Len(dispatchJobs) = DispatchCap
          /\ Send(conn[c].job, "error")
          /\ UNCHANGED dispatchJobs
    /\ conn' = [conn EXCEPT ![c] = Nil]
    /\ UNCHANGED <<poolVars, chat, connJobs, dispatch, crashes>>

-----------------------------------------------------------------------------
(* dispatchWorker and forwardToWorker.                                     *)

\* The next job, whose prompt is posted to its worker.
dispatchTake(d) ==
    /\ dispatch[d] = Nil /\ dispatchJobs # << >>
    /\ dispatch' = [dispatch EXCEPT ![d] = Head(dispatchJobs)]
    /\ dispatchJobs' = Tail(dispatchJobs)
    /\ Sent(Head(dispatchJobs).job, Head(dispatchJobs).worker)
    /\ UNCHANGED <<chat, connJobs, conn, resultCh, crashes>>

Finished(d, result) ==
    /\ Send(dispatch[d].job, result)
    /\ dispatch' = [dispatch EXCEPT ![d] = Nil]
    /\ UNCHANGED <<chat, connJobs, dispatchJobs, conn, crashes>>

\* Mutant: an http.Client without a timeout.
forwardPatient(d) ==
    /\ dispatch[d] # Nil
    /\ submit[dispatch[d].job] \in Results
    /\ Finished(d, submit[dispatch[d].job])
    /\ UNCHANGED poolVars

\* The worker's answer; or an error, because the worker is not there, its answer is
\* lost or 30 s are over, which also ends the request's context.
forwardToWorker(d) ==
    LET r == dispatch[d].job
    IN  /\ dispatch[d] # Nil
        /\ \/ submit[r] \in Results /\ Finished(d, submit[r]) /\ UNCHANGED poolVars
           \/ /\ Finished(d, "error")
              /\ gone' = gone \cup {r}
              /\ UNCHANGED <<queue, gpu, submit, at, done, computed>>

-----------------------------------------------------------------------------

Init ==
    /\ PoolInit
    /\ chat = [r \in Requests |-> "new"]
    /\ connJobs = << >> /\ dispatchJobs = << >>
    /\ conn = [c \in ConnWorkers |-> Nil]
    /\ dispatch = [d \in DispatchWorkers |-> Nil]
    /\ resultCh = [r \in Requests |-> Nil]
    /\ crashes = 0

connWorker(c) == connTake(c) \/ pickWorker(c) \/ enqueueDispatch(c)
dispatchWorker(d) == dispatchTake(d) \/ forwardToWorker(d)

WorkerCrash(w) ==
    /\ crashes < MaxCrashes /\ crashes' = crashes + 1
    /\ Crash(w)
    /\ UNCHANGED <<chat, connJobs, dispatchJobs, conn, dispatch, resultCh>>

Next ==
    \/ \E r \in Requests : HandleChat(r) \/ Respond(r)
    \/ \E c \in ConnWorkers : connWorker(c)
    \/ \E d \in DispatchWorkers : dispatchWorker(d)
    \/ PoolStep /\ UNCHANGED gatewayVars
    \/ \E w \in Workers : WorkerCrash(w)

Spec == Init /\ [][Next]_vars

\* Goroutines are scheduled; calls end because the HTTP clients have timeouts, and
\* Generate ends by itself, by its client's timeout or with the context.
Fairness ==
    /\ \A r \in Requests : /\ WF_vars(HandleChat(r)) /\ WF_vars(Respond(r))
                           /\ WF_vars(Submit(r) /\ UNCHANGED gatewayVars)
    /\ \A c \in ConnWorkers : WF_vars(connWorker(c))
    /\ \A d \in DispatchWorkers : WF_vars(dispatchWorker(d))
    /\ \A w \in Workers : \A g \in Gpus : WF_vars(gpuLoop(w, g) /\ UNCHANGED gatewayVars)

-----------------------------------------------------------------------------
(* Properties.                                                             *)

\* The places where a request can be on its way.
Places(r) ==
    {<<"connJobs", k>> : k \in {k \in DOMAIN connJobs : connJobs[k] = r}}
    \cup {<<"conn", c>> : c \in {c \in ConnWorkers : conn[c] # Nil /\ conn[c].job = r}}
    \cup {<<"dispatchJobs", k>> : k \in {k \in DOMAIN dispatchJobs : dispatchJobs[k].job = r}}
    \cup {<<"dispatch", d>> : d \in {d \in DispatchWorkers : dispatch[d] # Nil
                                                             /\ dispatch[d].job = r}}
    \cup (IF resultCh[r] = Nil THEN {} ELSE {<<"resultCh", r>>})

\* A request that HandleChat waits for is in exactly one place, and one that has been
\* answered in none: nothing is lost between the layers, and no goroutine ever blocks
\* on a result channel that is already full (connWorker, dispatchWorker).
InOnePlace ==
    \A r \in Requests : Cardinality(Places(r)) = IF chat[r] = "waiting" THEN 1 ELSE 0

\* A user who gets a reply gets one that a GPU has computed for that request, whatever
\* crashes, runs into a timeout or is abandoned on the way (Submit, forwardToWorker).
ReplyIsComputed == \A r \in Requests : chat[r] = "reply" => r \in computed

\* Every request is answered, although HandleChat waits without a timeout of its own.
EveryRequestAnswered == \A r \in Requests : <>(chat[r] \in Results \cup {"overloaded"})

\* Abandoned tasks do not keep a GPU or the queue for good (gpuLoop, Generate).
GpusBecomeFree ==
    \A w \in Workers : []<>(queue[w] = << >> /\ \A g \in Gpus : gpu[w][g] = Nil)
=============================================================================
